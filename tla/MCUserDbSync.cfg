CONSTANTS
  Machines = {m1, m2}
  Words = {w1, w2}
  MaxEdits = 2
  MaxFaults = 1
SPECIFICATION Spec
INVARIANTS
  BackedUpIsKept
  AgreeAfterTwoRounds
SYMMETRY Symmetry
VIEW View
CHECK_DEADLOCK FALSE

CONSTANTS
  Tasks = {update, sync}
  Workers = {w1, w2}
  NoWorker = none
  MaxTasks = 4
SPECIFICATION Spec
INVARIANTS
  OneWorker
  NothingLost
  MessageTruthful
PROPERTIES
  ServesQueue
  ModeIsStable

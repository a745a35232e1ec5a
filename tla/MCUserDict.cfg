CONSTANTS
  Sessions = {s1, s2}
  Syllabic = {s1}
  Syllables = {ni}
  MaxCode = 3
  MaxEdits = 2
SPECIFICATION Spec
PROPERTIES
  RevertIsRecent
  RevertIsLast

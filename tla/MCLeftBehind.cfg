CONSTANTS
  Tasks = {update, sync}
  Workers = {w1, w2}
  NoWorker = none
  MaxTasks = 3
SPECIFICATION RelyingSpec
INVARIANTS
  NothingLeftBehind

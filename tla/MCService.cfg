CONSTANTS
  Tasks <- AllTasks
  Workers = {w1, w2}
  NoWorker = none
  MaxTasks = 6
  Sessions = {s1}
  Damageable = TRUE
SPECIFICATION ServiceSpec
INVARIANTS
  FinalizedIsQuiet
  DirectTaskAlone
  MaintenanceWithoutSessions
  SyncInMaintenanceAtFirst
PROPERTIES
  UsesDeployer
  CallsReturn
CHECK_DEADLOCK FALSE

SPECIFICATION Spec
CONSTANTS
  Names <- MCNames
  DictOf <- MCDictOf
  Dependencies <- MCDependencies
  UserOnly <- MCUserOnly
  ListedBy <- MCListedBy
  Applies <- MCApplies
  NoDict = "none"
  Prebuilt <- MCPrebuilt
  MaxEdits = 3
  MaxCrashes = 1
INVARIANTS EndsDeployed
PROPERTY LeavesDeployedAlone

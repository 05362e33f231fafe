\* Two dispatchers, who may pass an expectation that does not pin what they loaded.
CONSTANTS
  d1 = d1
  d2 = d2
  NoSnapshot = NoSnapshot
  Default = Default
  Dispatchers = {d1, d2}
  ModuleOf <- SameVersion
  Sizes = {1, 2}
  Explicit <- NotPinning
  RetryBudget = 1
  PageSize = 2
  SnapshotEvery = 2
  MaxCommands = 3
SPECIFICATION Spec
CHECK_DEADLOCK FALSE
INVARIANTS SnapshotIsFold

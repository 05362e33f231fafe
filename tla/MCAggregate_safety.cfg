\* Two dispatchers during a roll-out, no assertions but safe ones.
CONSTANTS
  d1 = d1
  d2 = d2
  NoSnapshot = NoSnapshot
  Default = Default
  Dispatchers = {d1, d2}
  ModuleOf <- RollOut
  Sizes = {1, 2}
  Explicit <- Pinning
  RetryBudget = 1
  PageSize = 2
  SnapshotEvery = 2
  MaxCommands = 4
SPECIFICATION FairSpec
CHECK_DEADLOCK FALSE
INVARIANTS TypeOK LoadedIsFold SnapshotIsFold OnlyLosersRetry
PROPERTIES DecidesAtomically CommandsReturn

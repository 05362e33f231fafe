\* One transfer, two workers, two faults.
CONSTANTS
  w1 = w1
  w2 = w2
  Workers = {w1, w2}
  NoWorker = NoWorker
  ModuleOf <- RollOut
  Accounts = {"alice", "bob"}
  Transfers = {"t1"}
  Partitions = {"t1"}
  Ignore = Ignore
  NoSnapshot = NoSnapshot
  Throws = Throws
  NoRow = NoRow
  Direct = Direct
  RouteFn <- transferRouteFn
  Handle <- transferHandle
  Run <- RunCommand
  Opening <- OpenAccounts
  Inputs <- EitherTransfer
  MayStop = FALSE
  MaxEvents = 12
  MaxFaults = 2
  MaxRebuilds = 0
SPECIFICATION FairSpec
CHECK_DEADLOCK FALSE
PROPERTY EveryTransferEnds

\* Two transfers that compete, two workers, one fault.
CONSTANTS
  w1 = w1
  w2 = w2
  Workers = {w1, w2}
  NoWorker = NoWorker
  ModuleOf <- RollOut
  Accounts = {"alice", "bob"}
  Transfers = {"t1", "t2"}
  Partitions = {"t1", "t2"}
  Ignore = Ignore
  NoSnapshot = NoSnapshot
  Throws = Throws
  NoRow = NoRow
  Direct = Direct
  RouteFn <- transferRouteFn
  Handle <- transferHandle
  Run <- RunCommand
  Opening <- Funded
  Inputs <- SecondTransfer
  MayStop = FALSE
  MaxEvents = 12
  MaxFaults = 1
  MaxRebuilds = 0
SPECIFICATION Spec
CHECK_DEADLOCK FALSE
INVARIANTS TypeOK SnapshotIsFold HandlesFold OneEffectPerFault OutcomesAreTrue ReadModelsAgree ClaimsHoldUntilFault
PROPERTIES AbsorbsInOrder ImplementsInstances

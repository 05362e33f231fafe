\* A worker whose lease ran out loads the state after its successor.
CONSTANTS
  w1 = w1
  w2 = w2
  p1 = p1
  Workers = {w1, w2}
  NoWorker = NoWorker
  ModuleOf <- OneVersion
  Partitions = {p1}
  Ignore = Ignore
  NoSnapshot = NoSnapshot
  Throws = Throws
  RouteFn <- ToOnePartition
  Handle <- EndsAtFinal
  Run <- Nothing
  Opening <- Step
  Inputs = {}
  MayStop = FALSE
  MaxEvents = 1
  MaxFaults = 1
  MaxRebuilds = 1
SPECIFICATION RebuildSpec
CHECK_DEADLOCK FALSE
INVARIANT AbsorbsRedelivery

\* A worker whose lease ran out completes the instance after its successor.
CONSTANTS
  w1 = w1
  w2 = w2
  p1 = p1
  Workers = {w1, w2}
  NoWorker = NoWorker
  ModuleOf <- OneVersion
  Partitions = {p1}
  Ignore = Ignore
  NoSnapshot = NoSnapshot
  Throws = Throws
  RouteFn <- ToOnePartition
  Handle <- EndsAtFinal
  Run <- Nothing
  Opening <- EndAndAfter
  Inputs = {}
  MayStop = FALSE
  MaxEvents = 2
  MaxFaults = 1
  MaxRebuilds = 0
SPECIFICATION Spec
CHECK_DEADLOCK FALSE
INVARIANT LaterInstancesRun

\* Two partitions and an ignored event, batches of two, from the current head on.
CONSTANTS
  r1 = r1
  r2 = r2
  p1 = p1
  p2 = p2
  op = op
  A = A
  B = B
  Ignore = Ignore
  NoWorker = NoWorker
  MaxEvents = 4
  Partitions = {A, B}
  RouteOf <- RouteAIBA
  Workers = {r1, r2, p1, p2}
  Routers = {r1}
  Processors = {p1, p2}
  StartFrom = "current"
  StartNumber = 0
  MaxEpoch = 1
  BatchSize = 2
  MaxFaults = 1
  FaultCost = 1
  MayQuarantine = FALSE
SPECIFICATION FairSpec

INVARIANT IInv
PROPERTIES KeepsPromise EventuallySettled

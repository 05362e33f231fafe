\* A late handler start.
CONSTANTS
  r1 = r1
  r2 = r2
  p1 = p1
  p2 = p2
  op = op
  A = A
  B = B
  Ignore = Ignore
  NoWorker = NoWorker
  MaxEvents = 2
  Partitions = {A, B}
  RouteOf <- RouteAA
  Workers = {r1, r2, p1, p2}
  Routers = {r1}
  Processors = {p1, p2}
  StartFrom = "origin"
  StartNumber = 0
  MaxEpoch = 1
  BatchSize = 1
  MaxFaults = 2
  FaultCost = 1
  MayQuarantine = FALSE
SPECIFICATION Spec

PROPERTIES StrictlyIncreasing

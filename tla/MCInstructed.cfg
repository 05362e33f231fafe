\* Two processes, a client, a per-stream subscription that waits for itself.
CONSTANTS
  a1 = a1
  a2 = a2
  c1 = c1
  Apps = {a1, a2}
  Scripts <- Processes
  Clients = {c1}
  Dispatches <- Requests
  Subs <- Both
  All = All
  Keys = {"alice", "bob"}
  RouteFn <- RouteOf
  Handler <- HandlerOf
  Reaction <- SweepBack
  None = None
  Throws = Throws
  Ignore = Ignore
  NoRow = NoRow
  Direct = Direct
  Opening <- Opened
  MaxEvents = 4
  MaxFaults = 1
SPECIFICATION FairSpec
CHECK_DEADLOCK FALSE
INVARIANTS TypeOK ViewIsFold ReadYourWrites SelfWaitTimesOut
PROPERTY WaitsEnd

\* Three sessions, transactions of up to two calls.
CONSTANTS
  c1 = c1
  c2 = c2
  c3 = c3
  sA = sA
  sB = sB
  i1 = i1
  i2 = i2
  i3 = i3
  NoSession = NoSession
  Streams = {sA, sB}
  All = All
  Ids = {i1, i2, i3}
  Sessions = {c1, c2, c3}
  Requests <- MixedRequests
  MaxCalls = 2
SPECIFICATION FairSpec
INVARIANTS TypeOK Contiguous UniqueIds NoEventSkipped SingleCallsDontDeadlock
PROPERTIES AppendsAtomically TransactionsEnd

---------------------------- MODULE StreamRouting ---------------------------
(***************************************************************************)
(* The routing worker of a subscription on a single stream                 *)
(* (workers/routing/routing-worker.ts with def.stream other than '$all').  *)
(* An event of the stream has two positions: its event_number in '$all'    *)
(* and its stream_version.  The worker hands the cursor that               *)
(* claim_subscription returns to read_stream, which takes a stream         *)
(* version, and route_batch the event_number of the last event it read.    *)
(*                                                                         *)
(* One worker that keeps its lease for each batch: what happens when it    *)
(* does not is the matter of Delivery.                                     *)
(***************************************************************************)
EXTENDS Naturals, Sequences, FiniteSets

CONSTANTS
  Stream,       \* the stream of the subscription
  Others,       \* other streams
  MaxEvents,    \* bound on the events appended
  BatchSize,    \* routing batchSize
  StartFrom     \* start_from of the claim: "origin" or "current"

VARIABLES
  log,         \* '$all': the stream of each event, by event_number
  subExists,   \* the subscriptions row exists
  startAt,     \* history: head of '$all' at the creation, 0 for "origin"
  lastSeen,    \* subscriptions.last_seen
  step,        \* where the routing loop is
  batch,       \* event numbers of the batch it read
  inspected    \* history: events whose routing was decided and committed

vars == <<log, subExists, startAt, lastSeen, step, batch, inspected>>

\* The events of the subscription's stream, by event_number.
OfStream == {n \in DOMAIN log : log[n] = Stream}

StreamVersion(n) == Cardinality({k \in OfStream : k <= n})

\* read_stream: up to qty events of the stream from a stream_version on.
ReadStream(from, qty) ==
  {n \in OfStream : from <= StreamVersion(n) /\ StreamVersion(n) < from + qty}

\* claim_subscription: 'current' is the stream's own version.
InitialCursor == IF StartFrom = "origin" THEN 0 ELSE Cardinality(OfStream)

Publish(st) ==
  /\ Len(log) < MaxEvents
  /\ log' = Append(log, st)
  /\ UNCHANGED <<subExists, startAt, lastSeen, step, batch, inspected>>

\* claim_subscription raises IS003 for a stream with no events: onError, exit.
ClaimFails ==
  /\ step = "claim"
  /\ OfStream = {}
  /\ step' = "stopped"
  /\ UNCHANGED <<log, subExists, startAt, lastSeen, batch, inspected>>

Claims ==
  /\ step = "claim"
  /\ OfStream # {}
  /\ IF subExists
       THEN UNCHANGED <<startAt, lastSeen>>
       ELSE /\ lastSeen' = InitialCursor
            /\ startAt' = IF StartFrom = "origin" THEN 0 ELSE Len(log)
  /\ subExists' = TRUE
  /\ step' = "read"
  /\ UNCHANGED <<log, batch, inspected>>

\* An empty batch: the lease is released and the loop starts again.
Reads ==
  /\ step = "read"
  /\ batch' = ReadStream(lastSeen + 1, BatchSize)
  /\ step' = IF batch' = {} THEN "claim" ELSE "commit"
  /\ UNCHANGED <<log, subExists, startAt, lastSeen, inspected>>

\* routeOneBatch and route_batch: cursorTo is the last event_number read, and
\* the cursor never moves back.
Commits ==
  /\ step = "commit"
  /\ LET cursorTo == CHOOSE n \in batch : \A k \in batch : k <= n
     IN lastSeen' = IF cursorTo > lastSeen THEN cursorTo ELSE lastSeen
  /\ inspected' = inspected \cup batch
  /\ step' = "claim"
  /\ UNCHANGED <<log, subExists, startAt, batch>>

\* The worker is lost, or stopped, with its batch; another one starts.
Restarts ==
  /\ step # "claim"
  /\ step' = "claim"
  /\ UNCHANGED <<log, subExists, startAt, lastSeen, batch, inspected>>

Init ==
  /\ log = <<>>
  /\ subExists = FALSE
  /\ startAt = 0
  /\ lastSeen = 0
  /\ step = "claim"
  /\ batch = {}
  /\ inspected = {}

Next ==
  \/ \E st \in Others \cup {Stream} : Publish(st)
  \/ Claims \/ ClaimFails \/ Reads \/ Commits \/ Restarts

Spec == Init /\ [][Next]_vars
-----------------------------------------------------------------------------
\* "The routing cursor ... MUST NOT advance past events that the routing worker
\* has not yet inspected" (INV-SUB-P-033), the cursor being an event number
\* (INV-SUB-P-030).  Does not hold once another stream has events: read_stream
\* is asked for versions after an event number.
NothingPassedUnseen ==
  \A n \in OfStream :
    subExists /\ startAt < n /\ n <= lastSeen => n \in inspected
=============================================================================

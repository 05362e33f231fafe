------------------------------ MODULE EventLog ------------------------------
(***************************************************************************)
(* The event store: the tables streams, events and stream_events, and      *)
(* append_to_stream (sql/instructed.sql) called by concurrent sessions,    *)
(* each in a transaction of one or more calls.                             *)
(*                                                                         *)
(* A statement of the procedure that waits for a row lock is one step, so  *)
(* that other sessions run between its statements.  A row lock is held to  *)
(* the end of the transaction; so is the unique-index entry of a row that  *)
(* is inserted, which makes whoever inserts the same key wait.  The        *)
(* isolation level is READ COMMITTED: a statement sees what is committed   *)
(* when it gets its lock, and the transaction's own writes.  An error      *)
(* aborts the transaction there and then: its writes and its locks are     *)
(* gone, and the ROLLBACK that the client sends changes nothing.           *)
(*                                                                         *)
(* A stream's row is created with the number of the events appended, at    *)
(* least one, so that version 0 stands for "no row".                       *)
(***************************************************************************)
EXTENDS Integers, Sequences, FiniteSets

CONSTANTS
  Sessions,     \* database sessions that append
  NoSession,    \* nobody
  Streams,      \* stream_uuids
  All,          \* '$all', the streams row with stream_id 0
  Ids,          \* event_ids
  Requests,     \* calls: [stream, expects, version, ids]
  MaxCalls      \* bound on the calls in one transaction

Expectations == {"any", "no_stream", "stream_exists", "exact"}

ASSUME LogAssumption ==
  /\ NoSession \notin Sessions
  /\ All \notin Streams
  /\ Requests \subseteq [stream : Streams, expects : Expectations, version : Nat,
                         ids : Seq(Ids) \ {<<>>}]
  /\ MaxCalls \in Nat \ {0}

VARIABLES
  version,     \* committed streams.stream_version, by stream
  allVersion,  \* committed stream_version of '$all'
  links,       \* committed events: [id, stream, version, number]
  lock,        \* who holds the lock on a streams row
  pc,          \* where the session's procedure is
  call,        \* the call it executes
  bump,        \* what its transaction added to stream_version, by stream
  allBump,     \* what it added to the version of '$all'
  mine,        \* the events it inserted
  calls,       \* history: the calls of its transaction that returned
  cursor,      \* a reader of '$all': the last number it read
  seen         \* history: the events it read

tables  == <<version, allVersion, links>>
session == <<pc, call, bump, allBump, mine, calls>>
reader  == <<cursor, seen>>
vars == <<tables, lock, session, reader>>

Steps == {"idle", "resolve", "create", "all", "insert", "open"}

\* Mutant: a statement does not see its own transaction's writes.
ReadsCommitted(s, st) == version[st]

\* The stream_version the session reads: committed, or its own.
Reads(s, st) == version[st] + bump[s][st]

Count(s) == Len(call[s].ids)

\* Mutant: an update that does not wait for the row lock.
FreeForAll(s, r) == TRUE

\* The row lock can be had at once.
Free(s, r) == lock[r] \in {NoSession, s}

\* Between calls the procedure's variables mean nothing.
NoCall == CHOOSE q \in Requests : TRUE

Goto(s, step) == pc' = [pc EXCEPT ![s] = step]

\* Mutant: the connection goes back to the pool inside its transaction.
EndsKeepingLocks(s) ==
  /\ Goto(s, "idle")
  /\ bump' = [bump EXCEPT ![s] = [st \in Streams |-> 0]]
  /\ allBump' = [allBump EXCEPT ![s] = 0]
  /\ mine' = [mine EXCEPT ![s] = {}]
  /\ call' = [call EXCEPT ![s] = NoCall]
  /\ calls' = [calls EXCEPT ![s] = <<>>]
  /\ UNCHANGED <<lock, reader>>

\* The transaction is over, committed or not.
Ends(s) ==
  /\ Goto(s, "idle")
  /\ lock' = [r \in DOMAIN lock |-> IF lock[r] = s THEN NoSession ELSE lock[r]]
  /\ bump' = [bump EXCEPT ![s] = [st \in Streams |-> 0]]
  /\ allBump' = [allBump EXCEPT ![s] = 0]
  /\ mine' = [mine EXCEPT ![s] = {}]
  /\ call' = [call EXCEPT ![s] = NoCall]
  /\ calls' = [calls EXCEPT ![s] = <<>>]
  /\ UNCHANGED reader

\* The call raises an error.
Fails(s) == Ends(s) /\ UNCHANGED tables

\* Locks the stream's row, inserting it if there is none, and bumps it.
Bumps(s) ==
  LET st == call[s].stream
  IN /\ Free(s, st)
     /\ lock' = [lock EXCEPT ![st] = s]
     /\ bump' = [bump EXCEPT ![s][st] = @ + Count(s)]
     /\ Goto(s, "all")
     /\ UNCHANGED <<tables, call, allBump, mine, calls, reader>>

(***************************************************************************)
(* append_to_stream, statement by statement.                               *)
(***************************************************************************)
\* Mutant: '$all' is locked before the stream if that does not take waiting.
CallsFromAll(s, q) ==
  /\ pc[s] \in {"idle", "open"}
  /\ Len(calls[s]) < MaxCalls
  /\ call' = [call EXCEPT ![s] = q]
  /\ lock' = IF Free(s, All) THEN [lock EXCEPT ![All] = s] ELSE lock
  /\ Goto(s, "resolve")
  /\ UNCHANGED <<tables, bump, allBump, mine, calls, reader>>

Calls(s, q) ==
  /\ pc[s] \in {"idle", "open"}
  /\ Len(calls[s]) < MaxCalls
  /\ call' = [call EXCEPT ![s] = q]
  /\ Goto(s, "resolve")
  /\ UNCHANGED <<tables, lock, bump, allBump, mine, calls, reader>>

\* (1) 'any': insert ... on conflict do update.
ResolvesAny(s) ==
  /\ pc[s] = "resolve" /\ call[s].expects = "any"
  /\ Bumps(s)

\* (1) 'stream_exists': update; IS003 when no row is visible.
ResolvesExisting(s) ==
  /\ pc[s] = "resolve" /\ call[s].expects = "stream_exists"
  /\ IF Reads(s, call[s].stream) > 0 THEN Bumps(s) ELSE Fails(s)

\* (1) 'exact': select ... for update, compared with what is expected; IS001.
\* The row a session inserted and has not committed is invisible to others.
ResolvesExact(s) ==
  /\ pc[s] = "resolve" /\ call[s].expects = "exact"
  /\ LET now == Reads(s, call[s].stream)
     IN \/ now = 0 /\ call[s].version = 0 /\ Goto(s, "create")
           /\ UNCHANGED <<tables, lock, call, bump, allBump, mine, calls, reader>>
        \/ now = 0 /\ call[s].version # 0 /\ Fails(s)
        \/ now > 0 /\ now = call[s].version /\ Bumps(s)
        \/ now > 0 /\ now # call[s].version /\ Free(s, call[s].stream) /\ Fails(s)

\* Mutant: the first event of 'exact' 0 is appended to a stream that appeared.
CreatesOrJoins(s) ==
  /\ \/ pc[s] = "resolve" /\ call[s].expects = "no_stream"
     \/ pc[s] = "create"
  /\ Bumps(s)

\* (1) 'no_stream', and 'exact' 0 without a row: insert; IS002, IS001 when
\* there is a row by then.
Creates(s) ==
  /\ \/ pc[s] = "resolve" /\ call[s].expects = "no_stream"
     \/ pc[s] = "create"
  /\ IF Reads(s, call[s].stream) > 0 THEN Fails(s) ELSE Bumps(s)

\* (2) lock and bump '$all'.
LocksAll(s) ==
  /\ pc[s] = "all"
  /\ Free(s, All)
  /\ lock' = [lock EXCEPT ![All] = s]
  /\ allBump' = [allBump EXCEPT ![s] = @ + Count(s)]
  /\ Goto(s, "insert")
  /\ UNCHANGED <<tables, call, bump, mine, calls, reader>>

\* The rows of the call: numbered after what both versions were.
NewLinks(s) ==
  LET q == call[s]
  IN {[id |-> q.ids[i], stream |-> q.stream,
       version |-> Reads(s, q.stream) - Count(s) + i,
       number |-> allVersion + allBump[s] - Count(s) + i] : i \in DOMAIN q.ids}

\* Mutant: no primary key on event_id.
AcceptableWithoutKey(s) == TRUE

\* events_pkey and the unique (stream_id, stream_version) let the rows in.
Acceptable(s) ==
  /\ \A i, j \in DOMAIN call[s].ids : call[s].ids[i] = call[s].ids[j] => i = j
  /\ \A l \in links \cup mine[s], k \in NewLinks(s) :
       l.id # k.id /\ (l.stream = k.stream => l.version # k.version)

\* (3), (4) insert the events and their links; IS004, IS001.
Inserts(s) ==
  /\ pc[s] = "insert"
  /\ IF Acceptable(s)
       THEN /\ mine' = [mine EXCEPT ![s] = @ \cup NewLinks(s)]
            /\ calls' = [calls EXCEPT ![s] = Append(@, call[s])]
            /\ Goto(s, "open")
            /\ UNCHANGED <<tables, lock, call, bump, allBump, reader>>
       ELSE Fails(s)

(***************************************************************************)
(* The end of a transaction.                                               *)
(***************************************************************************)
Commits(s) ==
  /\ pc[s] = "open"
  /\ version' = [st \in Streams |-> Reads(s, st)]
  /\ allVersion' = allVersion + allBump[s]
  /\ links' = links \cup mine[s]
  /\ Ends(s)

\* The callback of the transaction throws, the session is lost, or its
\* statement is cancelled, at any point.
Dies(s) == pc[s] # "idle" /\ Fails(s)

\* Who a session waits for, NoSession if for nobody.
WaitsFor(s) ==
  LET st == call[s].stream
      wanted == CASE pc[s] = "all" -> All
                  [] pc[s] = "create" -> st
                  [] pc[s] = "resolve" /\ call[s].expects \in {"any", "no_stream"} -> st
                  [] pc[s] = "resolve" /\ Reads(s, st) > 0 -> st
                  [] OTHER -> NoSession
      inserts == pc[s] = "create" \/ call[s].expects = "no_stream"
  IN IF wanted = NoSession \/ (wanted = st /\ inserts /\ Reads(s, st) > 0)
       THEN NoSession
       ELSE IF Free(s, wanted) THEN NoSession ELSE lock[wanted]

\* Sessions that wait for each other.
Deadlocked(s) ==
  \E C \in SUBSET Sessions : s \in C /\ \A t \in C : WaitsFor(t) \in C

\* Postgres cancels a session that waits in a cycle.
DeadlockVictim(s) == Deadlocked(s) /\ Fails(s)

\* read_all: the events after the cursor in order, as far as the page goes.
ReadsPage ==
  \E last \in links :
    /\ last.number > cursor
    /\ seen' = seen \cup {l \in links : cursor < l.number /\ l.number <= last.number}
    /\ cursor' = last.number
    /\ UNCHANGED <<tables, lock, session>>

Init ==
  /\ version = [st \in Streams |-> 0]
  /\ allVersion = 0
  /\ links = {}
  /\ lock = [r \in Streams \cup {All} |-> NoSession]
  /\ pc = [s \in Sessions |-> "idle"]
  /\ call = [s \in Sessions |-> NoCall]
  /\ bump = [s \in Sessions |-> [st \in Streams |-> 0]]
  /\ allBump = [s \in Sessions |-> 0]
  /\ mine = [s \in Sessions |-> {}]
  /\ calls = [s \in Sessions |-> <<>>]
  /\ cursor = 0
  /\ seen = {}

Proceeds(s) ==
  \/ ResolvesAny(s) \/ ResolvesExisting(s) \/ ResolvesExact(s) \/ Creates(s)
  \/ LocksAll(s) \/ Inserts(s)

Next ==
  \/ \E s \in Sessions : \/ \E q \in Requests : Calls(s, q)
                         \/ Proceeds(s) \/ Commits(s)
                         \/ Dies(s) \/ DeadlockVictim(s)
  \/ ReadsPage

Spec == Init /\ [][Next]_vars

\* Row locks are granted in the order they were asked for, so that nobody waits
\* for ever for one that is released again and again; deadlocks are detected; a
\* client ends what it began.
Fairness ==
  \A s \in Sessions :
    SF_vars(Proceeds(s)) /\ WF_vars(DeadlockVictim(s)) /\ WF_vars(Commits(s))

FairSpec == Spec /\ Fairness
-----------------------------------------------------------------------------
(***************************************************************************)
(* Properties.                                                             *)
(***************************************************************************)
Link == [id : Ids, stream : Streams, version : Nat, number : Nat]

\* Every column and every variable of the procedure keeps its type.
TypeOK ==
  /\ version \in [Streams -> Nat]
  /\ allVersion \in Nat
  /\ links \subseteq Link
  /\ lock \in [Streams \cup {All} -> Sessions \cup {NoSession}]
  /\ pc \in [Sessions -> Steps]
  /\ call \in [Sessions -> Requests \cup {NoCall}]
  /\ bump \in [Sessions -> [Streams -> Nat]]
  /\ allBump \in [Sessions -> Nat]
  /\ mine \in [Sessions -> SUBSET Link]
  /\ calls \in [Sessions -> Seq(Requests)]
  /\ \A s \in Sessions : Len(calls[s]) <= MaxCalls
  /\ cursor \in Nat
  /\ seen \subseteq Link

\* event_number is gapless and unique over all streams, and stream_version over
\* each stream (INV-APPEND-002, INV-APPEND-003), whatever was rolled back: the
\* versions that append_to_stream bumps are the numbers of events there are.
Contiguous ==
  /\ {l.number : l \in links} = 1..allVersion
  /\ \A k, l \in links : k.number = l.number => k = l
  /\ \A st \in Streams :
       {l.version : l \in {k \in links : k.stream = st}} = 1..version[st]
  /\ \A k, l \in links : k.stream = l.stream /\ k.version = l.version => k = l

\* An event_id is appended once (INV-APPEND-030), also when two sessions append
\* it at the same time and neither sees the other's rows.
UniqueIds == \A k, l \in links : k.id = l.id => k = l

\* A reader that goes through '$all' by its cursor misses nothing: no event is
\* committed behind an event that could be read before it.  The routing workers
\* rely on it; append_to_stream sees to it with the lock on the '$all' row.
NoEventSkipped == \A l \in links : l.number <= cursor => l \in seen

\* The promise to those who append: every transaction takes effect at its
\* commit, all of it at once, and what its calls expect of their streams
\* (INV-APPEND-010..014, INV-APPEND-020) is true at that point.
AL == INSTANCE AppendLog WITH log <- links

AppendsAtomically == AL!LogSpec

\* Sessions in the first call of their transactions never wait for each other in
\* a circle: each locks its stream first and '$all' last (the lock-acquisition
\* order of append_to_stream).  Second calls of one transaction may.
SingleCallsDontDeadlock ==
  ~\E C \in (SUBSET Sessions) \ {{}} :
     \A s \in C : calls[s] = <<>> /\ pc[s] # "idle" /\ WaitsFor(s) \in C

\* Whoever begins a transaction gets to its end, with deadlocks on the way.
TransactionsEnd == \A s \in Sessions : pc[s] # "idle" ~> pc[s] = "idle"
=============================================================================

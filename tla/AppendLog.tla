----------------------------- MODULE AppendLog ------------------------------
(***************************************************************************)
(* What the event store promises those who append (docs/guarantees.md,     *)
(* docs/invariants.md Part B): one log, which a transaction of             *)
(* append_to_stream calls extends in one step at its end, if what each     *)
(* call expects of its stream is true of the log it extends.               *)
(***************************************************************************)
EXTENDS Integers, Sequences, FiniteSets

CONSTANTS
  Requests,     \* the calls of append_to_stream
  MaxCalls      \* calls in one transaction

VARIABLE log    \* the events: [id, stream, version, number]

StreamVersion(L, st) == Cardinality({l \in L : l.stream = st})

Expected(L, q) ==
  CASE q.expects = "any"           -> TRUE
    [] q.expects = "no_stream"     -> StreamVersion(L, q.stream) = 0
    [] q.expects = "stream_exists" -> StreamVersion(L, q.stream) > 0
    [] q.expects = "exact"         -> StreamVersion(L, q.stream) = q.version

Fresh(L, q) ==
  /\ \A i, j \in DOMAIN q.ids : q.ids[i] = q.ids[j] => i = j
  /\ \A l \in L : \A i \in DOMAIN q.ids : l.id # q.ids[i]

Extended(L, q) ==
  L \cup {[id |-> q.ids[i], stream |-> q.stream,
           version |-> StreamVersion(L, q.stream) + i,
           number |-> Cardinality(L) + i] : i \in DOMAIN q.ids}

Transactions == UNION {[1..n -> Requests] : n \in 1..MaxCalls}

Commit(calls) ==
  LET after[i \in 0..Len(calls)] ==
        IF i = 0 THEN log ELSE Extended(after[i - 1], calls[i])
  IN /\ \A i \in 1..Len(calls) :
          Expected(after[i - 1], calls[i]) /\ Fresh(after[i - 1], calls[i])
     /\ log' = after[Len(calls)]

LogNext == \E calls \in Transactions : Commit(calls)

LogSpec == log = {} /\ [][LogNext]_log
=============================================================================

-------------------------- MODULE InstructedProofs --------------------------
(***************************************************************************)
(* Proofs about Instructed: for any number of processes, subscriptions,    *)
(* clients, events and faults, the rows of the projections are folds of    *)
(* their events, whoever waited sees what was written, and a handler that  *)
(* waits for its own subscription is not told that it is caught up.        *)
(***************************************************************************)
EXTENDS Instructed, Induction, TLAPS

-----------------------------------------------------------------------------
(***************************************************************************)
(* Rows: the fold of the events of a partition, as RowOf in Instructed, of *)
(* any log.                                                                *)
(***************************************************************************)
\* The n-th event of L is one of the partition k of s.
Fed(L, s, k, n) == s.stream \in {All, Stream(L[n])} /\ RouteFn(s, L[n]) = k

NextRow(L, s, k, n, row) == IF Fed(L, s, k, n) THEN Handler(s, row, n, L[n]) ELSE row

IsRow(f, L, s, k, m) ==
  f = [n \in 0..m |-> IF n = 0 THEN NoRow ELSE NextRow(L, s, k, n, f[n - 1])]

RowAt(L, s, k, m) == (CHOOSE f : IsRow(f, L, s, k, m))[m]

LEMMA RowExists ==
  ASSUME NEW L, NEW s, NEW k PROVE \A m \in Nat : \E f : IsRow(f, L, s, k, m)
<1> DEFINE S == {m \in Nat : \E f : IsRow(f, L, s, k, m)}
<1>1. 0 \in S
  <2> DEFINE f == [n \in 0..0 |-> NoRow]
  <2>1. f = [n \in 0..0 |-> IF n = 0 THEN NoRow ELSE NextRow(L, s, k, n, f[n - 1])]
    OBVIOUS
  <2> QED
    BY <2>1 DEF IsRow
<1>2. ASSUME NEW m \in S PROVE m + 1 \in S
  <2>1. PICK f : IsRow(f, L, s, k, m)
    OBVIOUS
  <2> DEFINE g == [n \in 0..(m + 1) |->
                     IF n = m + 1 THEN NextRow(L, s, k, n, f[m]) ELSE f[n]]
             h == [n \in 0..(m + 1) |->
                     IF n = 0 THEN NoRow ELSE NextRow(L, s, k, n, g[n - 1])]
  <2>2. ASSUME NEW n \in 0..(m + 1) PROVE g[n] = h[n]
    <3>1. CASE n = m + 1
      BY <3>1
    <3>2. CASE n = 0
      BY <2>1, <3>2 DEF IsRow
    <3>3. CASE n \in 1..m
      <4>1. n - 1 \in 0..m /\ n \in 0..m /\ n - 1 # m + 1
        BY <3>3
      <4>2. f[n] = NextRow(L, s, k, n, f[n - 1])
        BY <2>1, <3>3, <4>1 DEF IsRow
      <4> QED
        BY <3>3, <4>1, <4>2
    <3> QED
      BY <3>1, <3>2, <3>3
  <2>3. g = h
    BY <2>2
  <2>4. IsRow(g, L, s, k, m + 1)
    BY <2>3 DEF IsRow
  <2>5. \E x : IsRow(x, L, s, k, m + 1)
    <3> HIDE DEF g, h
    <3> QED
      BY <2>4
  <2> QED
    BY <2>5
<1>3. \A m \in Nat : m \in S
  <2> HIDE DEF S
  <2>1. S \in SUBSET Nat
    BY DEF S
  <2> QED
    BY <1>1, <1>2, <2>1, NaturalInduction
<1> QED
  BY <1>3

LEMMA RowUnique ==
  ASSUME NEW L, NEW s, NEW k, NEW m \in Nat, NEW j \in Nat, NEW f, NEW g,
         IsRow(f, L, s, k, m), IsRow(g, L, s, k, j), NEW i \in Nat, i <= m, i <= j
  PROVE  f[i] = g[i]
<1> DEFINE S == {n \in Nat : n <= m /\ n <= j => f[n] = g[n]}
<1>1. 0 \in S
  BY DEF IsRow
<1>2. ASSUME NEW n \in S PROVE n + 1 \in S
  <2>1. SUFFICES ASSUME n + 1 <= m, n + 1 <= j PROVE f[n + 1] = g[n + 1]
    OBVIOUS
  <2>2. /\ f[n + 1] = NextRow(L, s, k, n + 1, f[n])
        /\ g[n + 1] = NextRow(L, s, k, n + 1, g[n])
    BY <2>1 DEF IsRow
  <2> QED
    BY <2>1, <2>2
<1>3. \A n \in Nat : n \in S
  <2> HIDE DEF S
  <2>1. S \in SUBSET Nat
    BY DEF S
  <2> QED
    BY <1>1, <1>2, <2>1, NaturalInduction
<1> QED
  BY <1>3

LEMMA RowIs ==
  ASSUME NEW L, NEW s, NEW k, NEW m \in Nat, NEW f, IsRow(f, L, s, k, m),
         NEW i \in 0..m
  PROVE  RowAt(L, s, k, i) = f[i]
<1> DEFINE g == CHOOSE x : IsRow(x, L, s, k, i)
<1>1. IsRow(g, L, s, k, i)
  BY RowExists
<1> QED
  BY <1>1, RowUnique DEF RowAt

LEMMA RowZero ==
  ASSUME NEW L, NEW s, NEW k PROVE RowAt(L, s, k, 0) = NoRow
<1>1. PICK f : IsRow(f, L, s, k, 0)
  BY RowExists
<1>2. f[0] = NoRow
  BY <1>1 DEF IsRow
<1> QED
  BY <1>1, <1>2, RowIs

LEMMA RowSucc ==
  ASSUME NEW L, NEW s, NEW k, NEW n \in Nat \ {0}
  PROVE  RowAt(L, s, k, n) = NextRow(L, s, k, n, RowAt(L, s, k, n - 1))
<1>1. PICK f : IsRow(f, L, s, k, n)
  BY RowExists
<1>2. f[n] = NextRow(L, s, k, n, f[n - 1])
  BY <1>1 DEF IsRow
<1>3. RowAt(L, s, k, n) = f[n] /\ RowAt(L, s, k, n - 1) = f[n - 1]
  BY <1>1, RowIs
<1> QED
  BY <1>2, <1>3

\* Events of other partitions do not change the row.
LEMMA RowStays ==
  ASSUME NEW L, NEW s, NEW k, NEW i \in Nat, NEW j \in Nat, i <= j,
         \A n \in (i + 1)..j : ~Fed(L, s, k, n)
  PROVE  RowAt(L, s, k, j) = RowAt(L, s, k, i)
<1> DEFINE S == {d \in Nat : i + d <= j => RowAt(L, s, k, i + d) = RowAt(L, s, k, i)}
<1>1. 0 \in S
  OBVIOUS
<1>2. ASSUME NEW d \in S PROVE d + 1 \in S
  <2>1. SUFFICES ASSUME i + d + 1 <= j
                 PROVE  RowAt(L, s, k, i + (d + 1)) = RowAt(L, s, k, i)
    OBVIOUS
  <2>2. /\ i + (d + 1) \in Nat \ {0} /\ i + (d + 1) - 1 = i + d /\ i + d <= j
        /\ i + (d + 1) \in (i + 1)..j
    BY <2>1
  <2>3. RowAt(L, s, k, i + (d + 1)) = NextRow(L, s, k, i + (d + 1), RowAt(L, s, k, i + d))
    BY <2>2, RowSucc
  <2> QED
    BY <2>2, <2>3 DEF NextRow
<1>3. \A d \in Nat : d \in S
  <2> HIDE DEF S
  <2>1. S \in SUBSET Nat
    BY DEF S
  <2> QED
    BY <1>1, <1>2, <2>1, NaturalInduction
<1>4. j - i \in Nat /\ i + (j - i) = j
  OBVIOUS
<1> QED
  BY <1>3, <1>4

\* A row depends on the log as far as it goes.
LEMMA RowOfPrefix ==
  ASSUME NEW L, NEW M, NEW s, NEW k, NEW m \in Nat, \A n \in 1..m : L[n] = M[n]
  PROVE  RowAt(L, s, k, m) = RowAt(M, s, k, m)
<1> DEFINE S == {n \in Nat : n <= m => RowAt(L, s, k, n) = RowAt(M, s, k, n)}
<1>1. 0 \in S
  BY RowZero
<1>2. ASSUME NEW n \in S PROVE n + 1 \in S
  <2>1. SUFFICES ASSUME n + 1 <= m
                 PROVE  RowAt(L, s, k, n + 1) = RowAt(M, s, k, n + 1)
    OBVIOUS
  <2>2. n + 1 \in Nat \ {0} /\ n + 1 - 1 = n /\ L[n + 1] = M[n + 1]
    BY <2>1
  <2>3. /\ RowAt(L, s, k, n + 1) = NextRow(L, s, k, n + 1, RowAt(L, s, k, n))
        /\ RowAt(M, s, k, n + 1) = NextRow(M, s, k, n + 1, RowAt(M, s, k, n))
    BY <2>2, RowSucc
  <2> QED
    BY <2>1, <2>2, <2>3 DEF NextRow, Fed
<1>3. \A n \in Nat : n \in S
  <2> HIDE DEF S
  <2>1. S \in SUBSET Nat
    BY DEF S
  <2> QED
    BY <1>1, <1>2, <2>1, NaturalInduction
<1> QED
  BY <1>3

\* RowOf is such a row.
LEMMA RowOfIs ==
  ASSUME NEW s, NEW k, NEW m \in 0..Len(log), Len(log) \in Nat
  PROVE  RowOf(s, k, m) = RowAt(log, s, k, m)
<1>1. \A n \in 1..m : n \in Routed(s, k, m) <=> Fed(log, s, k, n)
  BY DEF Routed, Feed, Fed
<1> DEFINE Folds(f) ==
      f = [n \in 0..m |->
             IF n = 0 THEN NoRow
             ELSE IF n \in Routed(s, k, m) THEN Handler(s, f[n - 1], n, log[n])
             ELSE f[n - 1]]
<1>2. ASSUME NEW f PROVE Folds(f) <=> IsRow(f, log, s, k, m)
  <2>1. [n \in 0..m |->
             IF n = 0 THEN NoRow
             ELSE IF n \in Routed(s, k, m) THEN Handler(s, f[n - 1], n, log[n])
             ELSE f[n - 1]]
        = [n \in 0..m |-> IF n = 0 THEN NoRow ELSE NextRow(log, s, k, n, f[n - 1])]
    <3>1. \A n \in 0..m : ~(n = 0) => n \in 1..m
      OBVIOUS
    <3>2. \A n \in 0..m : ~(n = 0) => (n \in Routed(s, k, m) <=> Fed(log, s, k, n))
      BY <1>1, <3>1
    <3> QED
      BY <3>2 DEF NextRow
  <2> QED
    BY <2>1 DEF IsRow
<1> DEFINE row == CHOOSE f : Folds(f)
<1>3. Folds(row)
  <2>1. \E f : IsRow(f, log, s, k, m)
    BY RowExists
  <2> HIDE DEF Folds
  <2>2. \E f : Folds(f)
    BY <1>2, <2>1
  <2> QED
    BY <2>2, Zenon
<1>4. RowOf(s, k, m) = row[m]
  BY DEF RowOf
<1> HIDE DEF row, Folds
<1> QED
  BY <1>2, <1>3, <1>4, RowIs

-----------------------------------------------------------------------------
(***************************************************************************)
(* The application, and the inductive invariant.                           *)
(***************************************************************************)
\* What is asked of the application: commands throw or append events, an event
\* is routed to a partition or ignored, and dispatches wait for subscriptions.
Sound(Event, Command) ==
  /\ Opening \in Seq(Event)
  /\ \A events \in Seq(Event), c \in Command :
       RunCommand(events, c) # Throws => RunCommand(events, c) \in Seq(Event)
  /\ \A s \in Subs, e \in Event :
       /\ RouteFn(s, e) \in Keys \cup {Ignore}
       /\ RouteFn(s, e) \in Keys /\ Reaction(s, e) # None =>
            Reaction(s, e).command \in Command /\ Reaction(s, e).consistency \subseteq Subs
  /\ \A d \in Dispatches : d.command \in Command /\ d.consistency \subseteq Subs

\* What is asked of the handlers: an event that the row has is handled again
\* without effect.  ExampleAbsorbs shows it of the example's.
Absorbing(Event) ==
  \A L \in Seq(Event), s \in Subs, k \in Keys :
    \A m \in 1..Len(L) : \A n \in 1..m :
      Fed(L, s, k, n) => Handler(s, RowAt(L, s, k, m), n, L[n]) = RowAt(L, s, k, m)

LogType(Event) == log \in Seq(Event)

Asked == [sub : Subs, lastSeen : Nat, made : Nat]

Call == [pc : {"idle", "waiting", "returned", "threw"}, target : Nat,
         refs : SUBSET Subs, remaining : SUBSET Subs, left : SUBSET Subs,
         asked : Asked \cup {None}, fresh : SUBSET Subs]

\* A caller waits for what it asked for, up to an event there is; the answer of
\* the first statement is of the past.
Waited(c) ==
  /\ call[c].pc = "idle" => call[c].refs = {}
  /\ call[c].fresh \cup call[c].left \cup call[c].remaining \subseteq call[c].refs
  /\ call[c].target <= Len(log)
  /\ call[c].asked # None =>
       /\ call[c].asked.sub \in call[c].refs
       /\ call[c].asked.made <= made
       /\ call[c].asked.made = made => call[c].asked.lastSeen <= cursor[call[c].asked.sub]

Calls == call \in [Callers -> Call] /\ \A c \in Callers : Waited(c)

\* Rebuilds are faults; what is in a queue was routed.
Queues ==
  /\ made <= faults
  /\ \A s \in Subs : cursor[s] <= Len(log)
  /\ \A s \in Subs, n \in Numbers : item[s][n] # "absent" => n <= cursor[s]

\* What a worker has in hand is an event of a partition; a dispatch of its own
\* goes up to that event at least, and is not answered while the item is held.
Handed(a, s) ==
  LET w == <<a, s>>
  IN /\ hand[w] # 0 => hand[w] \in Feed(s) /\ RouteFn(s, log[hand[w]]) \in Keys
     /\ call[w].pc # "idle" => hand[w] # 0 /\ step[w] = "react"
     /\ call[w].pc = "waiting" => hand[w] <= call[w].target
     /\ s \in call[w].refs \ call[w].remaining => item[s][hand[w]] # a

Hands == \A a \in Apps, s \in Subs : Handed(a, s)

\* The row of s and k has the events up to m, and these are: all that are
\* settled, all before the one that a worker has in hand, that one when it was
\* handled, and all that a caller was told of.
Settled(s, k, m) ==
  \A n \in 1..cursor[s] : Fed(log, s, k, n) /\ item[s][n] = "absent" => n <= m

Preceding(s, k, m) ==
  \A a \in Apps : LET n == hand[<<a, s>>] IN
    n # 0 /\ Fed(log, s, k, n) =>
      /\ \A i \in 1..(n - 1) : Fed(log, s, k, i) => i <= m
      /\ step[<<a, s>>] = "complete" => n <= m

Shown(s, k, m) ==
  \A c \in Callers : s \in call[c].fresh =>
    \A n \in 1..call[c].target : Fed(log, s, k, n) => n <= m

Has(s, k, m) ==
  /\ view[s][k] = RowAt(log, s, k, m)
  /\ Settled(s, k, m) /\ Preceding(s, k, m) /\ Shown(s, k, m)

Views ==
  /\ view = [s \in Subs |-> [k \in Keys |-> view[s][k]]]
  /\ \A s \in Subs, k \in Keys : \E m \in 0..Len(log) : Has(s, k, m)

\* What an app has registered and polls.
Processes == DOMAIN registry = Apps /\ DOMAIN polled = Apps

Base(Event) ==
  TypeOK /\ LogType(Event) /\ Processes /\ Calls /\ Queues /\ Hands

IInv(Event) == Base(Event) /\ Views

-----------------------------------------------------------------------------
(***************************************************************************)
(* The log grows.                                                          *)
(***************************************************************************)
Grows ==
  /\ Len(log) \in Nat /\ Len(log)' \in Nat /\ Len(log) <= Len(log)'
  /\ \A n \in 1..Len(log) : log'[n] = log[n]

LEMMA LogTyped ==
  ASSUME NEW Event, LogType(Event)
  PROVE  Len(log) \in Nat /\ \A n \in 1..Len(log) : log[n] \in Event
BY DEF LogType

LEMMA Unchanged ==
  ASSUME NEW Event, LogType(Event), UNCHANGED log
  PROVE  Grows /\ LogType(Event)'
BY DEF Grows, LogType

LEMMA Appended ==
  ASSUME NEW Event, LogType(Event), NEW STATE events, events \in Seq(Event),
         log' = log \o events
  PROVE  Grows /\ LogType(Event)' /\ Len(log)' = Len(log) + Len(events)
BY DEF Grows, LogType

\* Nothing that was said of an event changes.
LEMMA Kept ==
  ASSUME Grows, NEW s, NEW n \in 1..Len(log)
  PROVE  /\ log'[n] = log[n] /\ n \in 1..Len(log)'
         /\ n \in Feed(s) => n \in Feed(s)'
         /\ \A k : Fed(log', s, k, n) = Fed(log, s, k, n)
<1>1. log'[n] = log[n] /\ n \in 1..Len(log)'
  BY DEF Grows
<1> QED
  BY <1>1 DEF Feed, Fed

LEMMA RowsKept ==
  ASSUME Grows, NEW s, NEW k, NEW m \in 0..Len(log)
  PROVE  RowAt(log', s, k, m) = RowAt(log, s, k, m)
<1>1. m \in Nat /\ \A n \in 1..m : log'[n] = log[n]
  BY DEF Grows
<1> QED
  BY <1>1, RowOfPrefix

-----------------------------------------------------------------------------
(***************************************************************************)
(* Steps of the callers.                                                   *)
(***************************************************************************)
\* What a caller that had no call has after Dispatch.
Begun(q) ==
  /\ q \in Call /\ q.pc # "idle" /\ q.fresh = {} /\ q.asked = None
  /\ q.left \subseteq q.refs /\ q.remaining = q.refs
  /\ q.target <= Len(log)'
  /\ q.pc = "waiting" => q.target = Len(log)'

LEMMA DispatchEffect ==
  ASSUME NEW Event, NEW Command, Sound(Event, Command), Base(Event),
         NEW c \in Callers, NEW a, NEW STATE d,
         d.command \in Command, d.consistency \subseteq Subs, Dispatch(c, a, d)
  PROVE  /\ Grows /\ LogType(Event)' /\ Len(log)' <= MaxEvents
         /\ \E q : Begun(q) /\ call' = [call EXCEPT ![c] = q]
<1> DEFINE events == Outcome(registry[a], d)
<1>1. /\ Len(log) \in Nat /\ log \in Seq(Event) /\ Len(log) <= MaxEvents
      /\ call \in [Callers -> Call] /\ Waited(c) /\ call[c] \in Call /\ call[c].pc = "idle"
  BY LogTyped DEF Base, Calls, TypeOK, LogType, Dispatch
<1>2. CASE events = Throws
  <2> DEFINE q == [call[c] EXCEPT !.pc = "threw"]
  <2>1. call' = [call EXCEPT ![c] = q] /\ UNCHANGED log
    BY <1>1, <1>2 DEF Dispatch
  <2>2. Grows /\ LogType(Event)' /\ Len(log)' = Len(log)
    BY <1>1, <2>1, Unchanged DEF LogType
  <2>3. /\ call[c].refs = {} /\ call[c].fresh = {} /\ call[c].left = {}
        /\ call[c].remaining = {} /\ call[c].asked = None /\ call[c].target <= Len(log)
    BY <1>1 DEF Waited
  <2>4. Begun(q)
    BY <1>1, <2>2, <2>3 DEF Begun, Call
  <2> QED
    BY <1>1, <2>1, <2>2, <2>4
<1>3. CASE events # Throws
  <2> DEFINE q == Waiting(d, events)
  <2>1. /\ call' = [call EXCEPT ![c] = q] /\ log' = log \o events
        /\ Len(log) + Len(events) <= MaxEvents
    BY <1>3 DEF Dispatch
  <2>2. events \in Seq(Event)
    <3>1. events = RunCommand(log, d.command)
      BY <1>3 DEF Outcome
    <3> QED
      BY <1>1, <1>3, <3>1 DEF Sound
  <2>3. Grows /\ LogType(Event)' /\ Len(log)' = Len(log) + Len(events)
    BY <1>1, <2>1, <2>2, Appended DEF LogType
  <2>4. Begun(q)
    <3> HIDE DEF events
    <3>1. Len(log) + Len(events) \in Nat /\ Len(log)' \in Nat
      BY <1>1, <2>2
    <3>3. CASE q = [NoCall EXCEPT !.pc = "threw"]
      <4>1. q = [pc |-> "threw", target |-> 0, refs |-> {}, remaining |-> {},
                  left |-> {}, asked |-> None, fresh |-> {}]
        BY <3>3 DEF NoCall
      <4> HIDE DEF q
      <4> QED
        BY <3>1, <4>1 DEF Begun, Call
    <3>4. CASE q = [NoCall EXCEPT !.pc = "returned"]
      <4>1. q = [pc |-> "returned", target |-> 0, refs |-> {}, remaining |-> {},
                  left |-> {}, asked |-> None, fresh |-> {}]
        BY <3>4 DEF NoCall
      <4> HIDE DEF q
      <4> QED
        BY <3>1, <4>1 DEF Begun, Call
    <3>5. CASE q = [NoCall EXCEPT !.pc = "waiting",
                               !.target = Len(log) + Len(events),
                               !.refs = d.consistency,
                               !.remaining = d.consistency,
                               !.left = d.consistency]
      <4>1. q = [pc |-> "waiting", target |-> Len(log) + Len(events),
                  refs |-> d.consistency, remaining |-> d.consistency,
                  left |-> d.consistency, asked |-> None, fresh |-> {}]
        BY <3>5 DEF NoCall
      <4> HIDE DEF q
      <4> QED
        BY <2>3, <3>1, <4>1 DEF Begun, Call
    <3> QED
      BY <3>3, <3>4, <3>5 DEF Waiting
  <2> QED
    BY <2>1, <2>3, <2>4
<1> QED
  BY <1>2, <1>3

LEMMA DispatchBase ==
  ASSUME NEW Event, Base(Event), Grows, LogType(Event)', Len(log)' <= MaxEvents,
         NEW c \in Callers, NEW q, Begun(q), call' = [call EXCEPT ![c] = q],
         c \in Workers => hand[c] # 0 /\ step[c] = "react",
         UNCHANGED <<registry, polled, queue, local, view, faults>>
  PROVE  Base(Event)'
<1>1. /\ call \in [Callers -> Call] /\ call' \in [Callers -> Call]
      /\ call'[c] = q /\ \A d \in Callers : d # c => call'[d] = call[d]
  BY DEF Base, Calls, Begun
<1>2. \A s \in Subs : \A n \in Feed(s) : n \in Feed(s)' /\ RouteFn(s, log'[n]) = RouteFn(s, log[n])
  BY Kept DEF Feed
<1>3. ASSUME NEW d \in Callers PROVE Waited(d)'
  <2>1. CASE d = c
    BY <1>1, <2>1 DEF Begun, Waited
  <2>2. CASE d # c
    <3>1. call'[d] = call[d] /\ call[d] \in Call /\ Waited(d)
      BY <1>1, <2>2 DEF Base, Calls
    <3> QED
      BY <3>1 DEF Waited, Grows, Call, queue
  <2> QED
    BY <2>1, <2>2
<1>4. Calls'
  BY <1>1, <1>3 DEF Calls
<1>5. TypeOK'
  <2>1. Len(log)' \in 0..MaxEvents
    BY DEF Base, TypeOK, Grows
  <2>2. \A s \in Subs, n \in Numbers : item[s][n] # "absent" =>
          n \in Feed(s)' /\ RouteFn(s, log'[n]) \in Keys
    BY <1>2 DEF Base, TypeOK
  <2>3. \A d \in Callers :
          /\ call'[d].pc \in {"idle", "waiting", "returned", "threw"}
          /\ call'[d].fresh \cup call'[d].left \subseteq call'[d].refs
    BY <1>1, <1>3 DEF Call, Waited
  <2> QED
    BY <2>1, <2>2, <2>3 DEF Base, TypeOK, queue, local
<1>6. Queues' /\ Processes'
  BY DEF Base, Queues, Processes, Grows, TypeOK, queue
<1>7. ASSUME NEW a \in Apps, NEW s \in Subs PROVE Handed(a, s)'
  <2> DEFINE w == <<a, s>>
  <2>1. w \in Callers /\ Handed(a, s) /\ w \in Workers
    BY DEF Workers, Callers, Base, Hands
  <2>2. hand[w] # 0 => /\ hand[w] \in Feed(s) /\ hand[w] \in Feed(s)'
                       /\ RouteFn(s, log'[hand[w]]) \in Keys
    BY <1>2, <2>1 DEF Handed
  <2>3. CASE w = c
    <3>1. call'[w] = q /\ hand[w] # 0 /\ step[w] = "react" /\ q.refs \ q.remaining = {}
      BY <1>1, <2>1, <2>3 DEF Begun
    <3>2. q.pc = "waiting" => hand[w] <= q.target
      BY <2>2, <3>1 DEF Begun, Feed, Grows
    <3> HIDE DEF w
    <3> QED
      BY <2>2, <3>1, <3>2 DEF w, Handed, queue, local
  <2>4. CASE w # c
    <3>1. call'[w] = call[w]
      BY <1>1, <2>1, <2>4
    <3> QED
      BY <2>1, <2>2, <3>1 DEF Handed, queue, local
  <2> QED
    BY <2>3, <2>4
<1> QED
  BY <1>4, <1>5, <1>6, <1>7 DEF Base, Hands

LEMMA DispatchViews ==
  ASSUME NEW Event, Base(Event), Views, Grows,
         NEW c \in Callers, NEW q, Begun(q), call' = [call EXCEPT ![c] = q],
         UNCHANGED <<registry, polled, queue, local, view, faults>>
  PROVE  Views'
<1>1. /\ call \in [Callers -> Call] /\ call'[c] = q
      /\ \A d \in Callers : d # c => call'[d] = call[d]
  BY DEF Base, Calls
<1>2. SUFFICES ASSUME NEW s \in Subs, NEW k \in Keys
               PROVE  \E m \in 0..Len(log)' : Has(s, k, m)'
  BY DEF Views
<1>3. PICK m \in 0..Len(log) : Has(s, k, m)
  BY DEF Views
<1>4. m \in 0..Len(log)' /\ RowAt(log', s, k, m) = RowAt(log, s, k, m)
  BY RowsKept DEF Grows
<1>5. \A n \in 1..Len(log) : Fed(log', s, k, n) = Fed(log, s, k, n)
  BY Kept
<1>6. Settled(s, k, m)'
  <2>1. cursor[s] <= Len(log) /\ cursor[s] \in Nat /\ Len(log) \in Nat
    BY DEF Base, Queues, TypeOK, Grows
  <2> QED
    BY <1>3, <1>5, <2>1 DEF Has, Settled, queue
<1>7. Preceding(s, k, m)'
  <2>1. SUFFICES ASSUME NEW a \in Apps, hand[<<a, s>>] # 0,
                        Fed(log', s, k, hand[<<a, s>>])
                 PROVE  /\ \A i \in 1..(hand[<<a, s>>] - 1) : Fed(log', s, k, i) => i <= m
                        /\ step[<<a, s>>] = "complete" => hand[<<a, s>>] <= m
    BY DEF Preceding, local
  <2>2. hand[<<a, s>>] \in 1..Len(log) /\ Len(log) \in Nat
    BY <2>1 DEF Base, Hands, Handed, Feed, Grows
  <2> QED
    BY <1>3, <1>5, <2>1, <2>2 DEF Has, Preceding
<1>8. Shown(s, k, m)'
  <2>1. SUFFICES ASSUME NEW d \in Callers, s \in call'[d].fresh, NEW n \in 1..call'[d].target,
                        Fed(log', s, k, n)
                 PROVE  n <= m
    BY DEF Shown
  <2>2. d # c /\ call'[d] = call[d]
    BY <1>1, <2>1 DEF Begun
  <2>3. call[d] \in Call /\ call[d].target <= Len(log) /\ Len(log) \in Nat
    BY <1>1 DEF Base, Calls, Waited, Grows
  <2>4. n \in 1..Len(log) /\ n \in 1..call[d].target
    BY <2>2, <2>3 DEF Call
  <2> QED
    BY <1>3, <1>5, <2>1, <2>2, <2>4 DEF Has, Shown
<1>9. view'[s][k] = RowAt(log', s, k, m)
  BY <1>3, <1>4 DEF Has
<1> QED
  BY <1>4, <1>6, <1>7, <1>8, <1>9 DEF Has

\* What a caller that waits has after a step of waitForProjection.
Follows(q, c) ==
  /\ q \in Call /\ q.pc # "idle" /\ call[c].pc = "waiting"
  /\ q.target = call[c].target /\ q.refs = call[c].refs
  /\ q.fresh \cup q.left \cup q.remaining \subseteq q.refs
  /\ q.asked # None =>
       /\ q.asked.sub \in q.refs
       /\ q.asked.made <= made
       /\ q.asked.made = made => q.asked.lastSeen <= cursor[q.asked.sub]
  /\ \A s \in q.refs \ q.remaining :
       s \in call[c].remaining => \A n \in 1..q.target : item[s][n] = "absent"
  /\ \A s \in q.fresh \ call[c].fresh :
       q.target <= cursor[s] /\ \A n \in 1..q.target : item[s][n] = "absent"

LEMMA WaitingBase ==
  ASSUME NEW Event, Base(Event), NEW c \in Callers, NEW q, Follows(q, c),
         call' = [call EXCEPT ![c] = q], faults <= faults', faults' <= MaxFaults,
         faults' \in Nat, UNCHANGED <<log, registry, polled, queue, local, view>>
  PROVE  Base(Event)'
<1>1. /\ call \in [Callers -> Call] /\ call' \in [Callers -> Call]
      /\ call'[c] = q /\ \A d \in Callers : d # c => call'[d] = call[d]
  BY DEF Base, Calls, Follows
<1>2. ASSUME NEW d \in Callers PROVE Waited(d)'
  <2>1. CASE d = c
    <3>1. Waited(c) /\ q.target <= Len(log)
      BY <2>1 DEF Base, Calls, Waited, Follows
    <3> QED
      BY <1>1, <2>1, <3>1 DEF Follows, Waited, queue
  <2>2. CASE d # c
    <3>1. call'[d] = call[d] /\ Waited(d)
      BY <1>1, <2>2 DEF Base, Calls
    <3> QED
      BY <3>1 DEF Waited, queue
  <2> QED
    BY <2>1, <2>2
<1>3. Calls'
  BY <1>1, <1>2 DEF Calls
<1>4. TypeOK'
  <2>1. \A d \in Callers :
          /\ call'[d].pc \in {"idle", "waiting", "returned", "threw"}
          /\ call'[d].fresh \cup call'[d].left \subseteq call'[d].refs
    BY <1>1, <1>2 DEF Call, Waited
  <2>2. faults' \in 0..MaxFaults
    BY FacadeAssumption
  <2>3. \A s \in Subs : Feed(s)' = Feed(s)
    BY DEF Feed
  <2> QED
    BY <2>1, <2>2, <2>3 DEF Base, TypeOK, queue, local
<1>5. Queues' /\ LogType(Event)' /\ Processes'
  BY FacadeAssumption DEF Base, Queues, TypeOK, LogType, Processes, queue
<1>6. ASSUME NEW a \in Apps, NEW s \in Subs PROVE Handed(a, s)'
  <2> DEFINE w == <<a, s>>
  <2>1. w \in Callers /\ Handed(a, s) /\ Feed(s)' = Feed(s)
    BY DEF Workers, Callers, Base, Hands, Feed
  <2>2. CASE w = c
    <3>1. /\ call'[w] = q /\ hand[w] # 0 /\ step[w] = "react" /\ hand[w] \in Feed(s)
          /\ hand[w] <= q.target
      BY <1>1, <2>1, <2>2 DEF Handed, Follows
    <3>2. s \in q.refs \ q.remaining => item[s][hand[w]] # a
      <4>1. SUFFICES ASSUME s \in q.refs \ q.remaining PROVE item[s][hand[w]] # a
        OBVIOUS
      <4>2. CASE s \in call[w].remaining
        <5>1. hand[w] \in 1..q.target
          BY <3>1, LogTyped DEF Feed, Base, Follows, Call
        <5> QED
          BY <2>2, <4>1, <4>2, <5>1, FacadeAssumption DEF Follows
      <4>3. CASE s \notin call[w].remaining
        BY <2>1, <2>2, <4>1, <4>3 DEF Handed, Follows
      <4> QED
        BY <4>2, <4>3
    <3> HIDE DEF w
    <3> QED
      BY <2>1, <3>1, <3>2 DEF w, Handed, queue, local
  <2>3. CASE w # c
    <3>1. call'[w] = call[w]
      BY <1>1, <2>1, <2>3
    <3> QED
      BY <2>1, <3>1 DEF Handed, queue, local
  <2> QED
    BY <2>2, <2>3
<1> QED
  BY <1>3, <1>4, <1>5, <1>6 DEF Base, Hands

LEMMA WaitingViews ==
  ASSUME NEW Event, Base(Event), Views, NEW c \in Callers, NEW q, Follows(q, c),
         call' = [call EXCEPT ![c] = q], UNCHANGED <<log, queue, local, view>>
  PROVE  Views'
<1>1. /\ call \in [Callers -> Call] /\ call'[c] = q
      /\ \A d \in Callers : d # c => call'[d] = call[d]
  BY DEF Base, Calls
<1>2. SUFFICES ASSUME NEW s \in Subs, NEW k \in Keys
               PROVE  \E m \in 0..Len(log) : Has(s, k, m)'
  BY DEF Views
<1>3. PICK m \in 0..Len(log) : Has(s, k, m)
  BY DEF Views
<1>4. Settled(s, k, m)' /\ Preceding(s, k, m)'
  BY <1>3 DEF Has, Settled, Preceding, queue, local
<1>5. Shown(s, k, m)'
  <2>1. SUFFICES ASSUME NEW d \in Callers, s \in call'[d].fresh, NEW n \in 1..call'[d].target,
                        Fed(log, s, k, n)
                 PROVE  n <= m
    BY DEF Shown
  <2>2. CASE s \in call[d].fresh
    <3>1. call'[d].target = call[d].target
      BY <1>1 DEF Follows
    <3> QED
      BY <1>3, <2>1, <2>2, <3>1 DEF Has, Shown
  <2>3. CASE s \notin call[d].fresh
    <3>1. d = c /\ s \in q.fresh \ call[c].fresh /\ n \in 1..q.target
      BY <1>1, <2>1, <2>3
    <3>2. q.target <= cursor[s] /\ item[s][n] = "absent" /\ q.target \in Nat
          /\ cursor[s] \in Nat
      BY <3>1 DEF Follows, Call, Base, TypeOK
    <3>3. n \in 1..cursor[s]
      BY <3>1, <3>2
    <3> QED
      BY <1>3, <2>1, <3>2, <3>3 DEF Has, Settled
  <2> QED
    BY <2>2, <2>3
<1> QED
  BY <1>3, <1>4, <1>5 DEF Has

LEMMA FaultType ==
  ASSUME TypeOK, Fault PROVE faults' \in Nat /\ faults <= faults' /\ faults' <= MaxFaults
BY FacadeAssumption DEF TypeOK, Fault

LEMMA WaitsFollow ==
  ASSUME NEW Event, Base(Event), NEW c \in Callers, Waits(c) \/ TimeOut(c)
  PROVE  /\ \E q : Follows(q, c) /\ call' = [call EXCEPT ![c] = q]
         /\ faults' \in Nat /\ faults <= faults' /\ faults' <= MaxFaults
         /\ UNCHANGED <<log, registry, polled, queue, local, view>>
<1>1. /\ call \in [Callers -> Call] /\ call[c] \in Call /\ Waited(c) /\ TypeOK
      /\ faults \in Nat /\ faults <= MaxFaults /\ made \in Nat
      /\ \A s \in Subs : cursor[s] \in Nat
  BY FacadeAssumption DEF Base, Calls, TypeOK
<1>2. CASE \E s \in Subs : ReadCursor(c, s)
  <2>1. PICK s \in Subs : ReadCursor(c, s)
    BY <1>2
  <2> DEFINE answer == IF s \in exists THEN [sub |-> s, lastSeen |-> cursor[s], made |-> made]
                       ELSE None
             q == [call[c] EXCEPT !.left = @ \ {s}, !.asked = answer]
  <2>2. call' = [call EXCEPT ![c] = q] /\ call[c].pc = "waiting" /\ s \in call[c].left
    BY <2>1, <1>1 DEF ReadCursor
  <2>3. answer \in Asked \cup {None}
    BY <1>1 DEF Asked
  <2>4. answer # None => /\ answer.sub = s /\ answer.made = made
                         /\ answer.lastSeen = cursor[s]
    OBVIOUS
  <2>5. Follows(q, c)
    <3> HIDE DEF answer
    <3>1. /\ q \in Call /\ q.pc = "waiting" /\ q.target = call[c].target
          /\ q.refs = call[c].refs /\ q.remaining = call[c].remaining
          /\ q.fresh = call[c].fresh /\ q.left = call[c].left \ {s} /\ q.asked = answer
      BY <1>1, <2>2, <2>3 DEF Call
    <3>2. s \in q.refs
      BY <1>1, <2>2, <3>1 DEF Waited
    <3> HIDE DEF q
    <3> QED
      BY <1>1, <2>2, <2>4, <3>1, <3>2 DEF Follows, Waited
  <2>6. /\ faults' \in Nat /\ faults <= faults' /\ faults' <= MaxFaults
        /\ UNCHANGED <<log, registry, polled, queue, local, view>>
    BY <1>1, <2>1 DEF ReadCursor
  <2> HIDE DEF q
  <2> QED
    BY <2>2, <2>5, <2>6
<1>3. CASE ReadQueue(c)
  <2> DEFINE asked == call[c].asked
             caughtUp == CaughtUp(asked, call[c].target)
             q == [call[c] EXCEPT !.asked = None,
                     !.remaining = IF caughtUp THEN @ \ {asked.sub} ELSE @,
                     !.fresh = IF caughtUp /\ asked.made = made
                                 THEN @ \cup {asked.sub} ELSE @]
  <2>1. call' = [call EXCEPT ![c] = q] /\ call[c].pc = "waiting" /\ asked # None
    BY <1>1, <1>3 DEF ReadQueue
  <2>2. /\ asked \in Asked /\ asked.sub \in call[c].refs /\ asked.sub \in Subs
        /\ asked.made = made => asked.lastSeen <= cursor[asked.sub]
    BY <1>1, <2>1 DEF Waited, Call, Asked
  <2>3. caughtUp => /\ call[c].target <= asked.lastSeen
                    /\ \A n \in 1..call[c].target : item[asked.sub][n] = "absent"
    BY <1>1, <2>2 DEF CaughtUp, NoneOutstanding, Asked, Call
  <2> HIDE DEF caughtUp
  <2>4. /\ q \in Call /\ q.pc = "waiting" /\ q.target = call[c].target
        /\ q.refs = call[c].refs /\ q.left = call[c].left /\ q.asked = None
        /\ q.remaining = IF caughtUp THEN call[c].remaining \ {asked.sub}
                                     ELSE call[c].remaining
        /\ q.fresh = IF caughtUp /\ asked.made = made THEN call[c].fresh \cup {asked.sub}
                                                      ELSE call[c].fresh
    BY <1>1, <2>1, <2>2 DEF Call
  <2>5. Follows(q, c)
    <3> HIDE DEF q
    <3>1. caughtUp /\ asked.made = made => q.target <= cursor[asked.sub]
      BY <1>1, <2>2, <2>3, <2>4 DEF Call, Asked
    <3>2. q.fresh \cup q.left \cup q.remaining \subseteq q.refs
      BY <1>1, <2>2, <2>4 DEF Waited
    <3> HIDE DEF asked
    <3> QED
      BY <1>1, <2>1, <2>2, <2>3, <2>4, <3>1, <3>2 DEF Follows
  <2>6. /\ faults' \in Nat /\ faults <= faults' /\ faults' <= MaxFaults
        /\ UNCHANGED <<log, registry, polled, queue, local, view>>
    BY <1>1, <1>3 DEF ReadQueue
  <2> HIDE DEF q
  <2> QED
    BY <2>1, <2>5, <2>6
<1>4. CASE Round(c)
  <2> DEFINE q == IF call[c].remaining = {} THEN [call[c] EXCEPT !.pc = "returned"]
                  ELSE [call[c] EXCEPT !.left = call[c].remaining]
  <2>1. call' = [call EXCEPT ![c] = q] /\ call[c].pc = "waiting" /\ call[c].asked = None
    BY <1>1, <1>4 DEF Round
  <2>2. /\ q \in Call /\ q.pc # "idle" /\ q.target = call[c].target
        /\ q.refs = call[c].refs /\ q.asked = None /\ q.remaining = call[c].remaining
        /\ q.fresh = call[c].fresh /\ q.left \in {call[c].left, call[c].remaining}
    BY <1>1, <2>1 DEF Call
  <2>3. Follows(q, c)
    <3> HIDE DEF q
    <3> QED
      BY <1>1, <2>1, <2>2 DEF Follows, Waited
  <2>4. /\ faults' \in Nat /\ faults <= faults' /\ faults' <= MaxFaults
        /\ UNCHANGED <<log, registry, polled, queue, local, view>>
    BY <1>1, <1>4 DEF Round
  <2> HIDE DEF q
  <2> QED
    BY <2>1, <2>3, <2>4
<1>5. CASE TimeOut(c)
  <2> DEFINE q == [call[c] EXCEPT !.pc = "threw"]
  <2>1. call' = [call EXCEPT ![c] = q] /\ call[c].pc = "waiting" /\ call[c].asked = None
    BY <1>1, <1>5 DEF TimeOut
  <2>2. /\ q \in Call /\ q.pc # "idle" /\ q.target = call[c].target
        /\ q.refs = call[c].refs /\ q.asked = None /\ q.remaining = call[c].remaining
        /\ q.fresh = call[c].fresh /\ q.left = call[c].left
    BY <1>1, <2>1 DEF Call
  <2>3. Follows(q, c)
    <3> HIDE DEF q
    <3> QED
      BY <1>1, <2>1, <2>2 DEF Follows, Waited
  <2>4. /\ faults' \in Nat /\ faults <= faults' /\ faults' <= MaxFaults
        /\ UNCHANGED <<log, registry, polled, queue, local, view>>
    BY <1>1, <1>5, FaultType DEF TimeOut
  <2> HIDE DEF q
  <2> QED
    BY <2>1, <2>3, <2>4
<1> QED
  BY <1>2, <1>3, <1>4, <1>5 DEF Waits

-----------------------------------------------------------------------------
(***************************************************************************)
(* Steps of the routing workers and of the operator.                       *)
(***************************************************************************)
LEMMA StartStep ==
  ASSUME NEW Event, IInv(Event), NEW a \in Apps, Start(a)
  PROVE  IInv(Event)'
<1>1. registry' = [registry EXCEPT ![a] = Registered(a)] /\ Registered(a) # None
  BY RegistryAssumption DEF Start
<1>2. UNCHANGED <<log, queue, local, view, call, faults>>
  BY DEF Start
<1>3. \A s : Feed(s)' = Feed(s)
  BY <1>2 DEF Feed
<1>4. /\ \A b \in Apps : registry'[b] = None => polled'[b] = {}
      /\ Processes'
  <2>1. polled' = [polled EXCEPT ![a] =
                     Registered(a).projections \cup Registered(a).processManagers]
    BY DEF Start
  <2>2. DOMAIN registry = Apps /\ DOMAIN polled = Apps
    BY DEF IInv, Base, Processes
  <2>3. registry'[a] # None /\ DOMAIN registry' = Apps /\ DOMAIN polled' = Apps
    BY <1>1, <2>1, <2>2
  <2>4. \A b \in Apps : b # a => registry'[b] = registry[b] /\ polled'[b] = polled[b]
    BY <1>1, <2>1, <2>2
  <2> QED
    BY <2>3, <2>4 DEF IInv, Base, TypeOK, Processes
<1>5. TypeOK'
  BY <1>2, <1>3, <1>4 DEF IInv, Base, TypeOK, queue, local
<1>6. LogType(Event)' /\ Calls' /\ Queues'
  BY <1>2 DEF IInv, Base, LogType, Calls, Waited, Queues, queue, local
<1>7. Hands'
  BY <1>2, <1>3 DEF IInv, Base, Hands, Handed, queue, local
<1>8. Views'
  BY <1>2 DEF IInv, Views, Has, Settled, Preceding, Shown, queue, local
<1> QED
  BY <1>4, <1>5, <1>6, <1>7, <1>8 DEF IInv, Base

LEMMA SubscribeStep ==
  ASSUME NEW Event, IInv(Event), NEW a \in Apps, NEW s \in Subs, Subscribe(a, s)
  PROVE  IInv(Event)'
<1>1. /\ exists' = exists \cup {s}
      /\ UNCHANGED <<log, registry, polled, cursor, item, made, local, view, call, faults>>
  BY DEF Subscribe
<1>2. \A x : Feed(x)' = Feed(x)
  BY <1>1 DEF Feed
<1>3. TypeOK'
  BY <1>1, <1>2 DEF IInv, Base, TypeOK, local
<1>4. LogType(Event)' /\ Calls' /\ Queues' /\ Processes'
  BY <1>1 DEF IInv, Base, LogType, Calls, Waited, Queues, Processes, local
<1>5. Hands'
  BY <1>1, <1>2 DEF IInv, Base, Hands, Handed, local
<1>6. Views'
  <2>1. \A x, k, m : Has(x, k, m)' = Has(x, k, m)
    <3>1. UNCHANGED <<log, cursor, item, hand, step, view, call>>
      BY <1>1 DEF local
    <3> QED
      BY <3>1 DEF Has, Settled, Preceding, Shown
  <2>2. UNCHANGED <<log, view>>
    BY <1>1
  <2> QED
    BY <2>1, <2>2 DEF IInv, Views
<1> QED
  BY <1>3, <1>4, <1>5, <1>6 DEF IInv, Base

LEMMA RouteStep ==
  ASSUME NEW Event, NEW Command, Sound(Event, Command), IInv(Event),
         NEW a \in Apps, NEW s \in Subs, RouteNext(a, s)
  PROVE  IInv(Event)'
<1>1. PICK n \in Feed(s) :
        /\ s \in exists
        /\ n > cursor[s] /\ \A m \in Feed(s) : m > cursor[s] => m >= n
        /\ cursor' = [cursor EXCEPT ![s] = n]
        /\ item' = [item EXCEPT ![s][n] = Enqueued(s, n)]
        /\ UNCHANGED <<log, registry, polled, exists, made, local, view, call, faults>>
  BY DEF RouteNext
<1>2. /\ TypeOK /\ LogType(Event) /\ Len(log) \in Nat /\ n \in 1..Len(log) /\ n \in Numbers
      /\ Len(log) <= MaxEvents /\ MaxEvents \in Nat
      /\ log[n] \in Event /\ cursor \in [Subs -> 0..MaxEvents]
      /\ item \in [Subs -> [Numbers -> Apps \cup {"absent", "pending"}]]
  <2>1. TypeOK /\ LogType(Event) /\ n \in 1..Len(log) /\ MaxEvents \in Nat
    BY <1>1, FacadeAssumption DEF IInv, Base, Feed
  <2>2. Len(log) \in Nat /\ Len(log) <= MaxEvents /\ log[n] \in Event
    BY <2>1, LogTyped DEF TypeOK
  <2>3. n \in Numbers
    BY <2>1, <2>2 DEF Numbers
  <2> QED
    BY <2>1, <2>2, <2>3 DEF TypeOK
<1>3. \/ Enqueued(s, n) = "pending" /\ RouteFn(s, log[n]) \in Keys
      \/ Enqueued(s, n) = "absent" /\ RouteFn(s, log[n]) = Ignore
  BY <1>2 DEF Enqueued, Sound
<1>4. /\ cursor' \in [Subs -> 0..MaxEvents] /\ cursor'[s] = n
      /\ \A x \in Subs : x # s => cursor'[x] = cursor[x]
      /\ \A x \in Subs : cursor[x] <= cursor'[x]
  <2>1. cursor' \in [Subs -> 0..MaxEvents] /\ cursor'[s] = n
    BY <1>1, <1>2 DEF Numbers
  <2>2. \A x \in Subs : x # s => cursor'[x] = cursor[x]
    BY <1>1, <1>2
  <2>3. \A x \in Subs : cursor[x] \in Nat
    BY <1>2
  <2>4. cursor[s] <= n
    BY <1>1, <1>2, <2>3
  <2> QED
    BY <2>1, <2>2, <2>3, <2>4
<1>5. /\ item' \in [Subs -> [Numbers -> Apps \cup {"absent", "pending"}]]
      /\ item'[s][n] = Enqueued(s, n)
      /\ \A x \in Subs, i \in Numbers : x # s \/ i # n => item'[x][i] = item[x][i]
  BY <1>1, <1>2, <1>3
<1>6. \A x : Feed(x)' = Feed(x)
  BY <1>1 DEF Feed
<1>7. TypeOK'
  <2>1. \A x \in Subs : x \notin exists => \A i \in Numbers : item'[x][i] = "absent"
    BY <1>1, <1>2, <1>5 DEF TypeOK
  <2>2. \A x \in Subs, i \in Numbers : item'[x][i] # "absent" =>
          i \in Feed(x) /\ RouteFn(x, log[i]) \in Keys
    <3> SUFFICES ASSUME NEW x \in Subs, NEW i \in Numbers, item'[x][i] # "absent"
                 PROVE  i \in Feed(x) /\ RouteFn(x, log[i]) \in Keys
      OBVIOUS
    <3>1. CASE x = s /\ i = n
      BY <1>3, <1>5, <3>1
    <3>2. CASE x # s \/ i # n
      BY <1>2, <1>5, <3>2 DEF TypeOK
    <3> QED
      BY <3>1, <3>2
  <2> QED
    BY <1>1, <1>2, <1>4, <1>5, <1>6, <2>1, <2>2 DEF TypeOK, local
<1>8. LogType(Event)' /\ Processes'
  BY <1>1, <1>2 DEF LogType, Processes, IInv, Base
<1>9. Calls'
  <2>1. call \in [Callers -> Call] /\ UNCHANGED <<call, made, log>>
    BY <1>1 DEF IInv, Base, Calls
  <2>2. ASSUME NEW c \in Callers PROVE Waited(c)'
    <3>1. Waited(c) /\ call[c] \in Call
      BY <2>1 DEF IInv, Base, Calls
    <3>2. ASSUME call[c].asked # None, call[c].asked.made = made
          PROVE  call[c].asked.lastSeen <= cursor'[call[c].asked.sub]
      <4>1. /\ call[c].asked.sub \in Subs /\ call[c].asked.lastSeen \in Nat
            /\ call[c].asked.lastSeen <= cursor[call[c].asked.sub]
        BY <3>1, <3>2 DEF Waited, Call, Asked
      <4>2. /\ cursor[call[c].asked.sub] \in Nat /\ cursor'[call[c].asked.sub] \in Nat
            /\ cursor[call[c].asked.sub] <= cursor'[call[c].asked.sub]
        BY <1>2, <1>4, <4>1
      <4> QED
        BY <4>1, <4>2
    <3> QED
      BY <2>1, <3>1, <3>2 DEF Waited
  <2> QED
    BY <2>1, <2>2 DEF Calls
<1>10. Queues'
  <2>1. \A x \in Subs : cursor'[x] <= Len(log)
    BY <1>2, <1>4 DEF IInv, Base, Queues
  <2>2. ASSUME NEW x \in Subs, NEW i \in Numbers, item'[x][i] # "absent"
        PROVE  i <= cursor'[x]
    <3>1. cursor[x] \in Nat /\ cursor'[x] \in Nat /\ cursor[x] <= cursor'[x] /\ i \in Nat
      BY <1>2, <1>4 DEF Numbers
    <3>2. CASE x = s /\ i = n
      BY <1>4, <3>1, <3>2
    <3>3. CASE x # s \/ i # n
      BY <1>5, <2>2, <3>1, <3>3 DEF IInv, Base, Queues
    <3> QED
      BY <3>2, <3>3
  <2> QED
    BY <1>1, <2>1, <2>2 DEF IInv, Base, Queues
<1>11. ASSUME NEW b \in Apps, NEW x \in Subs PROVE Handed(b, x)'
  <2> DEFINE w == <<b, x>>
  <2>1. Handed(b, x) /\ UNCHANGED <<hand, step, call, log>> /\ Feed(x)' = Feed(x)
    BY <1>1, <1>6 DEF IInv, Base, Hands, local
  <2>2. ASSUME x \in call[w].refs \ call[w].remaining PROVE item'[x][hand[w]] # b
    <3>1. w \in Callers
      BY DEF Callers, Workers
    <3>2. call[w].pc # "idle"
      BY <2>2, <3>1 DEF IInv, Base, Calls, Waited
    <3>3. item[x][hand[w]] # b /\ hand[w] \in Feed(x)
      BY <2>1, <2>2, <3>2 DEF Handed
    <3>4. hand[w] \in Numbers
      BY <1>2, <3>3 DEF Feed, Numbers
    <3>5. CASE x = s /\ hand[w] = n
      BY <1>3, <1>5, <3>5, FacadeAssumption
    <3>6. CASE x # s \/ hand[w] # n
      BY <1>5, <3>3, <3>4, <3>6
    <3> QED
      BY <3>5, <3>6
  <2> QED
    BY <2>1, <2>2 DEF Handed
<1>12. ASSUME NEW x \in Subs, NEW k \in Keys, NEW m \in 0..Len(log), Has(x, k, m)
       PROVE  Has(x, k, m)'
  <2>1. Preceding(x, k, m)' /\ Shown(x, k, m)'
    BY <1>1, <1>12 DEF Has, Preceding, Shown, local
  <2>2. view'[x][k] = RowAt(log', x, k, m)
    BY <1>1, <1>12 DEF Has
  <2>3. ASSUME NEW i \in 1..cursor'[x], Fed(log, x, k, i), item'[x][i] = "absent"
        PROVE  i <= m
    <3>1. cursor[x] \in Nat /\ cursor'[x] \in 0..MaxEvents /\ cursor'[x] <= Len(log)
      BY <1>1, <1>2, <1>4, <1>10 DEF Queues
    <3>2. i \in Numbers /\ i \in Feed(x)
      BY <1>1, <1>2, <2>3, <3>1 DEF Feed, Numbers, Fed
    <3>3. CASE x = s /\ i = n
      BY <1>3, <1>5, <2>3, <3>3, FacadeAssumption DEF Fed
    <3>4. CASE x = s /\ i # n
      <4>1. i <= cursor[x]
        BY <1>1, <1>2, <1>4, <3>1, <3>2, <3>4
      <4> QED
        BY <1>5, <1>12, <2>3, <3>1, <3>2, <3>4, <4>1 DEF Has, Settled
    <3>5. CASE x # s
      BY <1>4, <1>5, <1>12, <2>3, <3>2, <3>5 DEF Has, Settled
    <3> QED
      BY <3>3, <3>4, <3>5
  <2>4. Settled(x, k, m)'
    BY <1>1, <2>3 DEF Settled
  <2> QED
    BY <2>1, <2>2, <2>4 DEF Has
<1>13. Views'
  BY <1>1, <1>12 DEF IInv, Views
<1> QED
  BY <1>7, <1>8, <1>9, <1>10, <1>11, <1>13 DEF IInv, Base, Hands

LEMMA RebuildStep ==
  ASSUME NEW Event, IInv(Event), NEW s \in Subs, Rebuild(s)
  PROVE  IInv(Event)'
<1>1. /\ cursor' = [cursor EXCEPT ![s] = 0]
      /\ item' = [item EXCEPT ![s] = [n \in Numbers |-> "absent"]]
      /\ made' = made + 1 /\ exists' = exists \ {s}
      /\ UNCHANGED <<log, registry, polled, local, view, call>>
      /\ faults' = faults + 1 /\ faults < MaxFaults
  BY DEF Rebuild, Fault
<1>2. /\ TypeOK /\ LogType(Event) /\ Len(log) \in Nat /\ MaxEvents \in Nat /\ MaxFaults \in Nat
      /\ cursor \in [Subs -> 0..MaxEvents] /\ made \in 0..MaxFaults /\ faults \in 0..MaxFaults
      /\ made <= faults
      /\ item \in [Subs -> [Numbers -> Apps \cup {"absent", "pending"}]]
  BY LogTyped, FacadeAssumption DEF IInv, Base, TypeOK, Queues
<1>3. /\ cursor' \in [Subs -> 0..MaxEvents] /\ cursor'[s] = 0
      /\ \A x \in Subs : x # s => cursor'[x] = cursor[x]
  BY <1>1, <1>2
<1>4. /\ item' \in [Subs -> [Numbers -> Apps \cup {"absent", "pending"}]]
      /\ \A i \in Numbers : item'[s][i] = "absent"
      /\ \A x \in Subs, i \in Numbers : x # s => item'[x][i] = item[x][i]
      /\ \A x \in Subs, i \in Numbers : item'[x][i] # "absent" =>
           x # s /\ item'[x][i] = item[x][i]
  BY <1>1, <1>2
<1>5. \A x : Feed(x)' = Feed(x)
  BY <1>1 DEF Feed
<1>6. TypeOK'
  <2>1. made' \in 0..MaxFaults /\ faults' \in 0..MaxFaults
    BY <1>1, <1>2
  <2>2. /\ \A x \in Subs : x \notin exists' => \A i \in Numbers : item'[x][i] = "absent"
        /\ exists' \subseteq Subs
    BY <1>1, <1>2, <1>4 DEF TypeOK
  <2>3. \A x \in Subs, i \in Numbers : item'[x][i] # "absent" =>
          i \in Feed(x) /\ RouteFn(x, log[i]) \in Keys
    BY <1>2, <1>4 DEF TypeOK
  <2> QED
    BY <1>1, <1>2, <1>3, <1>4, <1>5, <2>1, <2>2, <2>3 DEF TypeOK, local
<1>7. LogType(Event)' /\ Processes'
  BY <1>1, <1>2 DEF LogType, Processes, IInv, Base
<1>8. Calls'
  <2>1. call \in [Callers -> Call] /\ UNCHANGED <<call, log>>
    BY <1>1 DEF IInv, Base, Calls
  <2>2. ASSUME NEW c \in Callers PROVE Waited(c)'
    <3>1. Waited(c) /\ call[c] \in Call
      BY <2>1 DEF IInv, Base, Calls
    <3>2. call[c].asked # None => call[c].asked.made <= made' /\ call[c].asked.made # made'
      <4>1. call[c].asked # None => call[c].asked.made \in Nat /\ call[c].asked.made <= made
        BY <3>1 DEF Waited, Call, Asked
      <4> QED
        BY <1>1, <1>2, <4>1
    <3> QED
      BY <2>1, <3>1, <3>2 DEF Waited
  <2> QED
    BY <2>1, <2>2 DEF Calls
<1>9. Queues'
  <2>1. made' <= faults'
    BY <1>1, <1>2
  <2>2. \A x \in Subs : cursor'[x] <= Len(log)
    BY <1>2, <1>3 DEF IInv, Base, Queues
  <2>3. \A x \in Subs, i \in Numbers : item'[x][i] # "absent" => i <= cursor'[x]
    BY <1>3, <1>4 DEF IInv, Base, Queues
  <2> QED
    BY <1>1, <2>1, <2>2, <2>3 DEF Queues
<1>10. ASSUME NEW b \in Apps, NEW x \in Subs PROVE Handed(b, x)'
  <2> DEFINE w == <<b, x>>
  <2>1. Handed(b, x) /\ UNCHANGED <<hand, step, call, log>> /\ Feed(x)' = Feed(x)
    BY <1>1, <1>5 DEF IInv, Base, Hands, local
  <2>2. ASSUME x \in call[w].refs \ call[w].remaining PROVE item'[x][hand[w]] # b
    <3>1. w \in Callers
      BY DEF Callers, Workers
    <3>2. call[w].pc # "idle"
      BY <2>2, <3>1 DEF IInv, Base, Calls, Waited
    <3>3. item[x][hand[w]] # b /\ hand[w] \in Feed(x)
      BY <2>1, <2>2, <3>2 DEF Handed
    <3>4. hand[w] \in Numbers
      BY <1>2, <3>3 DEF Feed, Numbers, TypeOK
    <3> QED
      BY <1>4, <3>3, <3>4, FacadeAssumption
  <2> QED
    BY <2>1, <2>2 DEF Handed
<1>11. ASSUME NEW x \in Subs, NEW k \in Keys, NEW m \in 0..Len(log), Has(x, k, m)
       PROVE  Has(x, k, m)'
  <2>1. Preceding(x, k, m)' /\ Shown(x, k, m)' /\ view'[x][k] = RowAt(log', x, k, m)
    BY <1>1, <1>11 DEF Has, Preceding, Shown, local
  <2>2. ASSUME NEW i \in 1..cursor'[x], Fed(log, x, k, i), item'[x][i] = "absent"
        PROVE  i <= m
    <3>1. x # s /\ cursor'[x] = cursor[x] /\ cursor[x] \in 0..MaxEvents
      BY <1>2, <1>3
    <3>2. i \in Numbers
      BY <1>2, <3>1 DEF Numbers
    <3> QED
      BY <1>4, <1>11, <2>2, <3>1, <3>2 DEF Has, Settled
  <2>3. Settled(x, k, m)'
    BY <1>1, <2>2 DEF Settled
  <2> QED
    BY <2>1, <2>3 DEF Has
<1>12. Views'
  BY <1>1, <1>11 DEF IInv, Views
<1> QED
  BY <1>6, <1>7, <1>8, <1>9, <1>10, <1>12 DEF IInv, Base, Hands

-----------------------------------------------------------------------------
(***************************************************************************)
(* Steps of the workers.                                                   *)
(***************************************************************************)
\* A row is replaced by one that has the events up to n.
LEMMA Handled ==
  ASSUME NEW Event, Absorbing(Event), LogType(Event), NEW s \in Subs, NEW k \in Keys,
         NEW m \in 0..Len(log), NEW n \in 1..Len(log), Fed(log, s, k, n),
         \A i \in 1..(n - 1) : Fed(log, s, k, i) => i <= m
  PROVE  \E j \in 0..Len(log) :
           m <= j /\ n <= j /\ Handler(s, RowAt(log, s, k, m), n, log[n]) = RowAt(log, s, k, j)
<1>1. Len(log) \in Nat /\ log \in Seq(Event)
  BY DEF LogType
<1>2. CASE n <= m
  <2>1. m \in 1..Len(log) /\ n \in 1..m
    BY <1>1, <1>2
  <2>2. Handler(s, RowAt(log, s, k, m), n, log[n]) = RowAt(log, s, k, m)
    BY <1>1, <2>1 DEF Absorbing
  <2> QED
    BY <1>1, <1>2, <2>2
<1>3. CASE m < n
  <2>1. n \in Nat \ {0} /\ m \in Nat /\ n - 1 \in Nat /\ m <= n - 1
    BY <1>1, <1>3
  <2>2. \A i \in (m + 1)..(n - 1) : ~Fed(log, s, k, i)
    BY <2>1
  <2>3. RowAt(log, s, k, n - 1) = RowAt(log, s, k, m)
    BY <2>1, <2>2, RowStays
  <2>4. RowAt(log, s, k, n) = NextRow(log, s, k, n, RowAt(log, s, k, n - 1))
    BY <2>1, RowSucc
  <2>5. Handler(s, RowAt(log, s, k, m), n, log[n]) = RowAt(log, s, k, n)
    BY <2>3, <2>4 DEF NextRow
  <2> QED
    BY <1>1, <1>3, <2>1, <2>5
<1> QED
  BY <1>1, <1>2, <1>3

LEMMA ClaimStep ==
  ASSUME NEW Event, IInv(Event), NEW a \in Apps, NEW s \in Subs, NEW n \in Numbers,
         Claim(a, s, n)
  PROVE  IInv(Event)'
<1> DEFINE w == <<a, s>>
<1>1. /\ hand[w] = 0 /\ item[s][n] # "absent" /\ AtFront(s, n)
      /\ item' = [item EXCEPT ![s][n] = a]
      /\ hand' = [hand EXCEPT ![w] = n]
      /\ step' = [step EXCEPT ![w] = IF Reaction(s, log[n]) = None THEN "handle" ELSE "react"]
      /\ UNCHANGED <<log, registry, polled, exists, cursor, made, view, call>>
  BY DEF Claim
<1>2. /\ TypeOK /\ LogType(Event) /\ Len(log) \in Nat /\ MaxEvents \in Nat /\ MaxFaults \in Nat
      /\ Len(log) <= MaxEvents /\ cursor \in [Subs -> 0..MaxEvents]
      /\ item \in [Subs -> [Numbers -> Apps \cup {"absent", "pending"}]]
      /\ hand \in [Workers -> 0..MaxEvents]
      /\ step \in [Workers -> {"claim", "react", "handle", "complete"}]
      /\ w \in Workers /\ w \in Callers /\ s \in exists
      /\ n \in Feed(s) /\ RouteFn(s, log[n]) \in Keys /\ n <= cursor[s]
  <2>1. /\ TypeOK /\ LogType(Event) /\ Len(log) \in Nat /\ Queues
        /\ MaxEvents \in Nat /\ MaxFaults \in Nat
    BY LogTyped, FacadeAssumption DEF IInv, Base
  <2>2. w \in Workers /\ w \in Callers
    BY DEF Workers, Callers
  <2>3. s \in exists
    BY <1>1, <2>1 DEF TypeOK
  <2>4. n \in Feed(s) /\ RouteFn(s, log[n]) \in Keys /\ n <= cursor[s]
    BY <1>1, <2>1 DEF TypeOK, Queues
  <2> QED
    BY <2>1, <2>2, <2>3, <2>4 DEF TypeOK
<1>3. faults' \in 0..MaxFaults /\ faults <= faults' /\ faults \in Nat
  BY <1>2 DEF Claim, Fault, TypeOK
<1>4. /\ item' \in [Subs -> [Numbers -> Apps \cup {"absent", "pending"}]]
      /\ item'[s][n] = a
      /\ \A x \in Subs, i \in Numbers : x # s \/ i # n => item'[x][i] = item[x][i]
  BY <1>1, <1>2
<1>5. /\ hand' \in [Workers -> 0..MaxEvents] /\ hand'[w] = n
      /\ \A v \in Workers : v # w => hand'[v] = hand[v]
      /\ step' \in [Workers -> {"claim", "react", "handle", "complete"}]
      /\ step'[w] \in {"handle", "react"}
      /\ \A v \in Workers : v # w => step'[v] = step[v]
  <2>1. n \in 0..MaxEvents
    BY <1>2 DEF Numbers
  <2> QED
    BY <1>1, <1>2, <2>1
<1>6. \A x : Feed(x)' = Feed(x)
  BY <1>1 DEF Feed
<1>7. TypeOK'
  <2>1. \A x \in Subs : x \notin exists => \A i \in Numbers : item'[x][i] = "absent"
    <3> SUFFICES ASSUME NEW x \in Subs, x \notin exists, NEW i \in Numbers
                 PROVE  item'[x][i] = "absent"
      OBVIOUS
    <3>1. x # s /\ item[x][i] = "absent"
      BY <1>2 DEF TypeOK
    <3> QED
      BY <1>4, <3>1
  <2>2. \A x \in Subs, i \in Numbers : item'[x][i] # "absent" =>
          i \in Feed(x) /\ RouteFn(x, log[i]) \in Keys
    <3> SUFFICES ASSUME NEW x \in Subs, NEW i \in Numbers, item'[x][i] # "absent"
                 PROVE  i \in Feed(x) /\ RouteFn(x, log[i]) \in Keys
      OBVIOUS
    <3>1. CASE x = s /\ i = n
      BY <1>2, <3>1
    <3>2. CASE x # s \/ i # n
      BY <1>2, <1>4, <3>2 DEF TypeOK
    <3> QED
      BY <3>1, <3>2
  <2> QED
    BY <1>1, <1>2, <1>3, <1>4, <1>5, <1>6, <2>1, <2>2 DEF TypeOK
<1>8. LogType(Event)' /\ Processes' /\ Calls'
  BY <1>1 DEF LogType, Processes, Calls, Waited, IInv, Base
<1>9. Queues'
  <2>1. made <= faults' /\ \A x \in Subs : cursor[x] <= Len(log)
    BY <1>2, <1>3 DEF IInv, Base, Queues, TypeOK
  <2>2. \A x \in Subs, i \in Numbers : item'[x][i] # "absent" => i <= cursor[x]
    <3> SUFFICES ASSUME NEW x \in Subs, NEW i \in Numbers, item'[x][i] # "absent"
                 PROVE  i <= cursor[x]
      OBVIOUS
    <3>1. CASE x = s /\ i = n
      BY <1>2, <3>1
    <3>2. CASE x # s \/ i # n
      BY <1>4, <3>2 DEF IInv, Base, Queues
    <3> QED
      BY <3>1, <3>2
  <2> QED
    BY <1>1, <2>1, <2>2 DEF Queues
<1>10. ASSUME NEW b \in Apps, NEW x \in Subs PROVE Handed(b, x)'
  <2> DEFINE v == <<b, x>>
  <2>1. /\ v \in Callers /\ v \in Workers /\ Handed(b, x) /\ UNCHANGED <<call, log>>
        /\ Feed(x)' = Feed(x)
    BY <1>1, <1>6 DEF Callers, Workers, IInv, Base, Hands
  <2>2. call[v].refs \ call[v].remaining # {} => call[v].pc # "idle"
    BY <2>1 DEF IInv, Base, Calls, Waited
  <2>3. CASE v = w
    <3>1. call[v].pc = "idle" /\ x = s /\ hand'[v] = n
      BY <1>1, <1>5, <2>1, <2>3 DEF Handed
    <3>2. call[v].refs \ call[v].remaining = {}
      BY <2>2, <3>1
    <3> QED
      BY <1>2, <2>1, <3>1, <3>2 DEF Handed
  <2>4. CASE v # w
    <3>1. hand'[v] = hand[v] /\ step'[v] = step[v]
      BY <1>5, <2>1, <2>4
    <3>2. ASSUME x \in call[v].refs \ call[v].remaining PROVE item'[x][hand[v]] # b
      <4>1. item[x][hand[v]] # b /\ hand[v] \in Feed(x)
        BY <2>1, <2>2, <3>2 DEF Handed
      <4>2. hand[v] \in Numbers
        BY <1>2, <4>1 DEF Feed, Numbers
      <4>3. CASE x = s /\ hand[v] = n
        BY <1>4, <2>4, <4>3
      <4>4. CASE x # s \/ hand[v] # n
        BY <1>4, <4>1, <4>2, <4>4
      <4> QED
        BY <4>3, <4>4
    <3> QED
      BY <2>1, <3>1, <3>2 DEF Handed
  <2> QED
    BY <2>3, <2>4
<1>11. ASSUME NEW x \in Subs, NEW k \in Keys, NEW m \in 0..Len(log), Has(x, k, m)
       PROVE  Has(x, k, m)'
  <2>1. Shown(x, k, m)' /\ view'[x][k] = RowAt(log', x, k, m)
    BY <1>1, <1>11 DEF Has, Shown
  <2>2. Settled(x, k, m)'
    <3>1. SUFFICES ASSUME NEW i \in 1..cursor[x], Fed(log, x, k, i), item'[x][i] = "absent"
                   PROVE  i <= m
      BY <1>1 DEF Settled
    <3>2. i \in Numbers
      BY <1>2 DEF Numbers
    <3>3. item[x][i] = "absent"
      BY <1>4, <3>1, <3>2, FacadeAssumption
    <3> QED
      BY <1>11, <3>1, <3>3 DEF Has, Settled
  <2>3. Preceding(x, k, m)'
    <3>1. SUFFICES ASSUME NEW b \in Apps, hand'[<<b, x>>] # 0,
                          Fed(log, x, k, hand'[<<b, x>>])
                   PROVE  /\ \A i \in 1..(hand'[<<b, x>>] - 1) : Fed(log, x, k, i) => i <= m
                          /\ step'[<<b, x>>] = "complete" => hand'[<<b, x>>] <= m
      BY <1>1 DEF Preceding
    <3>2. <<b, x>> \in Workers
      BY DEF Workers
    <3>3. CASE <<b, x>> = w
      <4>1. x = s /\ hand'[<<b, x>>] = n /\ step'[<<b, x>>] # "complete"
        BY <1>5, <3>3
      <4>2. ASSUME NEW i \in 1..(n - 1), Fed(log, x, k, i) PROVE i <= m
        <5>1. i \in 1..cursor[s] /\ i \in Numbers
          BY <1>2 DEF Numbers
        <5>2. RouteFn(s, log[i]) = RouteFn(s, log[n])
          BY <3>1, <4>1, <4>2 DEF Fed
        <5>3. item[s][i] = "absent"
          BY <1>1, <5>2 DEF AtFront
        <5> QED
          BY <1>11, <4>1, <4>2, <5>1, <5>3 DEF Has, Settled
      <4> QED
        BY <4>1, <4>2
    <3>4. CASE <<b, x>> # w
      <4>1. hand'[<<b, x>>] = hand[<<b, x>>] /\ step'[<<b, x>>] = step[<<b, x>>]
        BY <1>5, <3>2, <3>4
      <4> QED
        BY <1>11, <3>1, <4>1 DEF Has, Preceding
    <3> QED
      BY <3>3, <3>4
  <2> QED
    BY <2>1, <2>2, <2>3 DEF Has
<1>12. Views'
  BY <1>1, <1>11 DEF IInv, Views
<1> QED
  BY <1>7, <1>8, <1>9, <1>10, <1>12 DEF IInv, Base, Hands

LEMMA HandleStep ==
  ASSUME NEW Event, Absorbing(Event), IInv(Event), NEW a \in Apps, NEW s \in Subs,
         Handle(a, s)
  PROVE  IInv(Event)'
<1> DEFINE w == <<a, s>>
           n == hand[w]
           k0 == RouteFn(s, log[n])
<1>1. /\ n # 0 /\ step[w] = "handle"
      /\ view' = [view EXCEPT ![s][k0] = Handler(s, @, n, log[n])]
      /\ step' = [step EXCEPT ![w] = "complete"]
      /\ UNCHANGED <<log, registry, polled, queue, hand, call, faults>>
  BY DEF Handle
<1>2. /\ TypeOK /\ LogType(Event) /\ Len(log) \in Nat
      /\ step \in [Workers -> {"claim", "react", "handle", "complete"}]
      /\ w \in Workers /\ w \in Callers /\ n \in Feed(s) /\ n \in 1..Len(log) /\ k0 \in Keys
  <2>1. TypeOK /\ LogType(Event) /\ Len(log) \in Nat /\ Handed(a, s)
    BY LogTyped DEF IInv, Base, Hands
  <2>2. w \in Workers /\ w \in Callers
    BY DEF Workers, Callers
  <2> QED
    BY <1>1, <2>1, <2>2 DEF TypeOK, Handed, Feed
<1>3. /\ step' \in [Workers -> {"claim", "react", "handle", "complete"}]
      /\ step'[w] = "complete" /\ \A v \in Workers : v # w => step'[v] = step[v]
  BY <1>1, <1>2
<1>4. \A x : Feed(x)' = Feed(x)
  BY <1>1 DEF Feed
<1>5. TypeOK'
  BY <1>1, <1>2, <1>3, <1>4 DEF TypeOK, queue
<1>6. LogType(Event)' /\ Processes' /\ Calls' /\ Queues'
  BY <1>1 DEF LogType, Processes, Calls, Waited, Queues, IInv, Base, queue
<1>7. ASSUME NEW b \in Apps, NEW x \in Subs PROVE Handed(b, x)'
  <2> DEFINE v == <<b, x>>
  <2>1. /\ v \in Workers /\ Handed(b, x) /\ UNCHANGED <<call, log, item, hand>>
        /\ Feed(x)' = Feed(x)
    BY <1>1, <1>4 DEF Workers, IInv, Base, Hands, queue
  <2>2. call[v].pc # "idle" => step'[v] = "react"
    BY <1>1, <1>3, <2>1 DEF Handed
  <2> QED
    BY <2>1, <2>2 DEF Handed
<1>8. Fed(log, s, k0, n) /\ Ignore \notin Keys
  BY <1>2, FacadeAssumption DEF Fed, Feed
<1>9. /\ view' = [x \in Subs |-> [k \in Keys |-> view'[x][k]]]
      /\ view'[s][k0] = Handler(s, view[s][k0], n, log[n])
      /\ \A x \in Subs, k \in Keys : x # s \/ k # k0 => view'[x][k] = view[x][k]
  <2> HIDE DEF n, k0
  <2>1. view = [x \in Subs |-> [k \in Keys |-> view[x][k]]]
    BY DEF IInv, Views
  <2>2. view' = [x \in Subs |-> [k \in Keys |->
                   IF x = s /\ k = k0 THEN Handler(s, view[s][k0], n, log[n]) ELSE view[x][k]]]
    BY <1>1, <1>2, <2>1
  <2> QED
    BY <1>2, <2>2
<1>10. ASSUME NEW x \in Subs, NEW k \in Keys
       PROVE  \E j \in 0..Len(log) : Has(x, k, j)'
  <2>1. PICK m \in 0..Len(log) : Has(x, k, m)
    BY DEF IInv, Views
  <2>2. CASE x = s /\ k = k0
    <3>1. \A i \in 1..(n - 1) : Fed(log, s, k0, i) => i <= m
      BY <1>1, <1>8, <2>1, <2>2 DEF Has, Preceding
    <3>2. PICK j \in 0..Len(log) :
            m <= j /\ n <= j /\ Handler(s, RowAt(log, s, k0, m), n, log[n]) = RowAt(log, s, k0, j)
      <4> HIDE DEF n, k0
      <4> QED
        BY <1>2, <1>8, <2>2, <3>1, Handled
    <3>3. view'[s][k0] = RowAt(log, s, k0, j)
      BY <1>9, <2>1, <2>2, <3>2 DEF Has
    <3>4. Settled(s, k0, j)' /\ Shown(s, k0, j)'
      <4>1. \A i \in Nat : i <= m => i <= j
        BY <1>2, <3>2
      <4>2. \A i \in 1..cursor[s] : i \in Nat
        OBVIOUS
      <4>3. \A c \in Callers : \A i \in 1..call[c].target : i \in Nat
        OBVIOUS
      <4> QED
        BY <1>1, <2>1, <2>2, <4>1, <4>2, <4>3 DEF Has, Settled, Shown, queue
    <3>5. Preceding(s, k0, j)'
      <4>1. SUFFICES ASSUME NEW b \in Apps, hand[<<b, s>>] # 0,
                            Fed(log, s, k0, hand[<<b, s>>])
                     PROVE  /\ \A i \in 1..(hand[<<b, s>>] - 1) :
                                 Fed(log, s, k0, i) => i <= j
                            /\ step'[<<b, s>>] = "complete" => hand[<<b, s>>] <= j
        BY <1>1 DEF Preceding
      <4>2. <<b, s>> \in Workers /\ hand[<<b, s>>] \in 0..MaxEvents
        BY <1>2 DEF Workers, TypeOK
      <4>3. /\ \A i \in 1..(hand[<<b, s>>] - 1) : Fed(log, s, k0, i) => i <= m
            /\ step[<<b, s>>] = "complete" => hand[<<b, s>>] <= m
        BY <2>1, <2>2, <4>1 DEF Has, Preceding
      <4>4. step'[<<b, s>>] = "complete" => hand[<<b, s>>] <= j
        <5>1. CASE <<b, s>> = w
          BY <3>2, <5>1
        <5>2. CASE <<b, s>> # w
          BY <1>2, <1>3, <3>2, <4>2, <4>3, <5>2
        <5> QED
          BY <5>1, <5>2
      <4>5. \A i \in Nat : i <= m => i <= j
        BY <1>2, <3>2
      <4> QED
        BY <4>3, <4>4, <4>5
    <3> QED
      BY <1>1, <2>2, <3>2, <3>3, <3>4, <3>5 DEF Has
  <2>3. CASE x # s \/ k # k0
    <3>1. view'[x][k] = RowAt(log', x, k, m)
      BY <1>1, <1>9, <2>1, <2>3 DEF Has
    <3>2. Settled(x, k, m)' /\ Shown(x, k, m)'
      BY <1>1, <2>1 DEF Has, Settled, Shown, queue
    <3>3. Preceding(x, k, m)'
      <4>1. SUFFICES ASSUME NEW b \in Apps, hand[<<b, x>>] # 0,
                            Fed(log, x, k, hand[<<b, x>>])
                     PROVE  /\ \A i \in 1..(hand[<<b, x>>] - 1) :
                                 Fed(log, x, k, i) => i <= m
                            /\ step'[<<b, x>>] = "complete" => hand[<<b, x>>] <= m
        BY <1>1 DEF Preceding
      <4>2. /\ \A i \in 1..(hand[<<b, x>>] - 1) : Fed(log, x, k, i) => i <= m
            /\ step[<<b, x>>] = "complete" => hand[<<b, x>>] <= m
        BY <2>1, <4>1 DEF Has, Preceding
      <4>3. <<b, x>> # w
        <5>1. CASE x # s
          BY <5>1
        <5>2. CASE x = s
          BY <2>3, <4>1, <5>2 DEF Fed
        <5> QED
          BY <5>1, <5>2
      <4> QED
        BY <1>3, <4>2, <4>3 DEF Workers
    <3> QED
      BY <3>1, <3>2, <3>3 DEF Has
  <2> QED
    BY <2>2, <2>3
<1>11. Views'
  BY <1>1, <1>9, <1>10 DEF Views
<1> QED
  BY <1>5, <1>6, <1>7, <1>11 DEF IInv, Base, Hands

LEMMA CompleteStep ==
  ASSUME NEW Event, IInv(Event), NEW a \in Apps, NEW s \in Subs, Complete(a, s)
  PROVE  IInv(Event)'
<1> DEFINE w == <<a, s>>
           n == hand[w]
<1>1. /\ n # 0 /\ step[w] = "complete"
      /\ item' = IF Holds(a, s) THEN [item EXCEPT ![s][n] = "absent"] ELSE item
      /\ hand' = [hand EXCEPT ![w] = 0]
      /\ step' = [step EXCEPT ![w] = "claim"]
      /\ UNCHANGED <<log, registry, polled, exists, cursor, made, view, call, faults>>
  BY DEF Complete
<1>2. /\ TypeOK /\ LogType(Event) /\ Len(log) \in Nat /\ MaxEvents \in Nat
      /\ Len(log) <= MaxEvents /\ cursor \in [Subs -> 0..MaxEvents]
      /\ item \in [Subs -> [Numbers -> Apps \cup {"absent", "pending"}]]
      /\ hand \in [Workers -> 0..MaxEvents]
      /\ step \in [Workers -> {"claim", "react", "handle", "complete"}]
      /\ w \in Workers /\ w \in Callers /\ n \in Feed(s) /\ n \in Numbers
  <2>1. TypeOK /\ LogType(Event) /\ Len(log) \in Nat /\ MaxEvents \in Nat /\ Handed(a, s)
    BY LogTyped, FacadeAssumption DEF IInv, Base, Hands
  <2>2. w \in Workers /\ w \in Callers
    BY DEF Workers, Callers
  <2>3. n \in Feed(s) /\ n \in 1..Len(log) /\ Len(log) <= MaxEvents
    BY <1>1, <2>1 DEF TypeOK, Handed, Feed
  <2>4. n \in Numbers
    BY <2>1, <2>3 DEF Numbers
  <2> QED
    BY <2>1, <2>2, <2>3, <2>4 DEF TypeOK
<1>3. /\ item' \in [Subs -> [Numbers -> Apps \cup {"absent", "pending"}]]
      /\ \A x \in Subs, i \in Numbers : x # s \/ i # n => item'[x][i] = item[x][i]
      /\ item'[s][n] \in {item[s][n], "absent"}
      /\ \A x \in Subs, i \in Numbers : item'[x][i] # "absent" => item'[x][i] = item[x][i]
  <2> HIDE DEF n
  <2>1. CASE Holds(a, s)
    BY <1>1, <1>2, <2>1
  <2>2. CASE ~Holds(a, s)
    BY <1>1, <1>2, <2>2
  <2> QED
    BY <2>1, <2>2
<1>4. /\ hand' \in [Workers -> 0..MaxEvents] /\ hand'[w] = 0
      /\ \A v \in Workers : v # w => hand'[v] = hand[v]
      /\ step' \in [Workers -> {"claim", "react", "handle", "complete"}]
      /\ step'[w] = "claim" /\ \A v \in Workers : v # w => step'[v] = step[v]
  BY <1>1, <1>2
<1>5. \A x : Feed(x)' = Feed(x)
  BY <1>1 DEF Feed
<1>6. TypeOK'
  <2>1. \A x \in Subs : x \notin exists => \A i \in Numbers : item'[x][i] = "absent"
    BY <1>2, <1>3 DEF TypeOK
  <2>2. \A x \in Subs, i \in Numbers : item'[x][i] # "absent" =>
          i \in Feed(x) /\ RouteFn(x, log[i]) \in Keys
    BY <1>2, <1>3 DEF TypeOK
  <2> QED
    BY <1>1, <1>2, <1>3, <1>4, <1>5, <2>1, <2>2 DEF TypeOK
<1>7. LogType(Event)' /\ Processes' /\ Calls'
  BY <1>1 DEF LogType, Processes, Calls, Waited, IInv, Base
<1>8. Queues'
  BY <1>1, <1>3 DEF Queues, IInv, Base
<1>9. ASSUME NEW b \in Apps, NEW x \in Subs PROVE Handed(b, x)'
  <2> DEFINE v == <<b, x>>
  <2>1. /\ v \in Callers /\ v \in Workers /\ Handed(b, x) /\ UNCHANGED <<call, log>>
        /\ Feed(x)' = Feed(x)
    BY <1>1, <1>5 DEF Callers, Workers, IInv, Base, Hands
  <2>2. call[v].refs \ call[v].remaining # {} => call[v].pc # "idle"
    BY <2>1 DEF IInv, Base, Calls, Waited
  <2>3. CASE v = w
    <3>1. call[v].pc = "idle" /\ x = s /\ hand'[v] = 0
      BY <1>1, <1>4, <2>1, <2>3 DEF Handed
    <3>2. call[v].refs \ call[v].remaining = {}
      BY <2>2, <3>1
    <3> QED
      BY <2>1, <3>1, <3>2 DEF Handed
  <2>4. CASE v # w
    <3>1. hand'[v] = hand[v] /\ step'[v] = step[v]
      BY <1>4, <2>1, <2>4
    <3>2. ASSUME x \in call[v].refs \ call[v].remaining PROVE item'[x][hand[v]] # b
      <4>1. item[x][hand[v]] # b /\ hand[v] \in Feed(x)
        BY <2>1, <2>2, <3>2 DEF Handed
      <4>2. hand[v] \in Numbers
        BY <1>2, <4>1 DEF Feed, Numbers
      <4> QED
        BY <1>3, <4>1, <4>2, FacadeAssumption
    <3> QED
      BY <2>1, <3>1, <3>2 DEF Handed
  <2> QED
    BY <2>3, <2>4
<1>10. ASSUME NEW x \in Subs, NEW k \in Keys, NEW m \in 0..Len(log), Has(x, k, m)
       PROVE  Has(x, k, m)'
  <2>1. Shown(x, k, m)' /\ view'[x][k] = RowAt(log', x, k, m)
    BY <1>1, <1>10 DEF Has, Shown
  <2>2. Settled(x, k, m)'
    <3>1. SUFFICES ASSUME NEW i \in 1..cursor[x], Fed(log, x, k, i), item'[x][i] = "absent"
                   PROVE  i <= m
      BY <1>1 DEF Settled
    <3>2. i \in Numbers
      BY <1>2 DEF Numbers
    <3>3. CASE x = s /\ i = n
      BY <1>1, <1>10, <3>1, <3>3 DEF Has, Preceding
    <3>4. CASE x # s \/ i # n
      BY <1>3, <1>10, <3>1, <3>2, <3>4 DEF Has, Settled
    <3> QED
      BY <3>3, <3>4
  <2>3. Preceding(x, k, m)'
    <3>1. SUFFICES ASSUME NEW b \in Apps, hand'[<<b, x>>] # 0,
                          Fed(log, x, k, hand'[<<b, x>>])
                   PROVE  /\ \A i \in 1..(hand'[<<b, x>>] - 1) : Fed(log, x, k, i) => i <= m
                          /\ step'[<<b, x>>] = "complete" => hand'[<<b, x>>] <= m
      BY <1>1 DEF Preceding
    <3>2. <<b, x>> \in Workers /\ <<b, x>> # w
      BY <1>4, <3>1 DEF Workers
    <3>3. hand'[<<b, x>>] = hand[<<b, x>>] /\ step'[<<b, x>>] = step[<<b, x>>]
      BY <1>4, <3>2
    <3> QED
      BY <1>10, <3>1, <3>3 DEF Has, Preceding
  <2> QED
    BY <2>1, <2>2, <2>3 DEF Has
<1>11. Views'
  BY <1>1, <1>10 DEF IInv, Views
<1> QED
  BY <1>6, <1>7, <1>8, <1>9, <1>11 DEF IInv, Base, Hands

\* Workers stop with what they do, or a handler's dispatch is over.
LEMMA LeavingStep ==
  ASSUME NEW Event, IInv(Event), NEW W \in SUBSET Workers,
         \/ hand' = [w \in Workers |-> IF w \in W THEN 0 ELSE hand[w]]
         \/ UNCHANGED hand,
         step' \in [Workers -> {"claim", "react", "handle", "complete"}],
         \A w \in Workers \ W : step'[w] = step[w],
         \A w \in W : hand'[w] # 0 => step'[w] # "complete",
         call' = [c \in Callers |-> IF c \in W THEN NoCall ELSE call[c]],
         faults' \in 0..MaxFaults, faults <= faults',
         Processes', \A a \in Apps : registry'[a] = None => polled'[a] = {},
         UNCHANGED <<log, queue, view>>
  PROVE  IInv(Event)'
<1>1. /\ TypeOK /\ LogType(Event) /\ hand \in [Workers -> 0..MaxEvents] /\ MaxEvents \in Nat
      /\ MaxFaults \in Nat /\ faults \in 0..MaxFaults /\ call \in [Callers -> Call]
      /\ made \in 0..MaxFaults /\ made <= faults
  BY FacadeAssumption DEF IInv, Base, TypeOK, Calls, Queues
<1>2. /\ hand' \in [Workers -> 0..MaxEvents] /\ \A w \in Workers \ W : hand'[w] = hand[w]
      /\ \A w \in Workers : hand'[w] # 0 => hand'[w] = hand[w]
  BY <1>1
<1>3. /\ NoCall \in Call /\ NoCall.pc = "idle" /\ NoCall.refs = {} /\ NoCall.fresh = {}
      /\ NoCall.left = {} /\ NoCall.remaining = {} /\ NoCall.asked = None /\ NoCall.target = 0
  BY DEF NoCall, Call
<1>4. /\ call' \in [Callers -> Call] /\ \A c \in W : call'[c] = NoCall
      /\ \A c \in Callers \ W : call'[c] = call[c]
  BY <1>1, <1>3 DEF Callers
<1>5. \A x : Feed(x)' = Feed(x)
  BY DEF Feed
<1>6. Calls'
  <2>1. ASSUME NEW c \in Callers PROVE Waited(c)'
    <3>1. CASE c \in W
      <4>1. Len(log) \in Nat
        BY <1>1, LogTyped
      <4>2. 0 <= Len(log)
        BY <4>1
      <4> QED
        BY <1>3, <1>4, <3>1, <4>2 DEF Waited
    <3>2. CASE c \notin W
      BY <1>4, <3>2 DEF Waited, IInv, Base, Calls, queue
    <3> QED
      BY <3>1, <3>2
  <2> QED
    BY <1>4, <2>1 DEF Calls
<1>7. TypeOK'
  <2>1. \A c \in Callers :
          /\ call'[c].pc \in {"idle", "waiting", "returned", "threw"}
          /\ call'[c].fresh \cup call'[c].left \subseteq call'[c].refs
    BY <1>4, <1>6 DEF Call, Calls, Waited
  <2> QED
    BY <1>1, <1>2, <1>5, <2>1 DEF TypeOK, queue
<1>8. LogType(Event)' /\ Queues'
  BY <1>1 DEF LogType, Queues, IInv, Base, queue
<1>9. ASSUME NEW a \in Apps, NEW s \in Subs PROVE Handed(a, s)'
  <2> DEFINE w == <<a, s>>
  <2>1. w \in Workers /\ w \in Callers /\ Handed(a, s)
    BY DEF Workers, Callers, IInv, Base, Hands
  <2>2. CASE w \in W
    <3>1. call'[w] = NoCall /\ (hand'[w] # 0 => hand'[w] = hand[w])
      BY <1>2, <1>4, <2>1, <2>2
    <3> QED
      BY <1>3, <1>5, <2>1, <3>1 DEF Handed, queue
  <2>3. CASE w \notin W
    <3>1. call'[w] = call[w] /\ hand'[w] = hand[w] /\ step'[w] = step[w]
      BY <1>2, <1>4, <2>1, <2>3
    <3> QED
      BY <1>5, <2>1, <3>1 DEF Handed, queue
  <2> QED
    BY <2>2, <2>3
<1>10. ASSUME NEW x \in Subs, NEW k \in Keys, NEW m \in 0..Len(log), Has(x, k, m)
       PROVE  Has(x, k, m)'
  <2>1. Settled(x, k, m)' /\ view'[x][k] = RowAt(log', x, k, m)
    BY <1>10 DEF Has, Settled, queue
  <2>2. Preceding(x, k, m)'
    <3>1. SUFFICES ASSUME NEW b \in Apps, hand'[<<b, x>>] # 0,
                          Fed(log, x, k, hand'[<<b, x>>])
                   PROVE  /\ \A i \in 1..(hand'[<<b, x>>] - 1) : Fed(log, x, k, i) => i <= m
                          /\ step'[<<b, x>>] = "complete" => hand'[<<b, x>>] <= m
      BY DEF Preceding
    <3>2. <<b, x>> \in Workers
      BY DEF Workers
    <3>3. hand'[<<b, x>>] = hand[<<b, x>>]
      BY <1>2, <3>1, <3>2
    <3>4. step'[<<b, x>>] = "complete" => step[<<b, x>>] = "complete"
      BY <3>1, <3>2
    <3> QED
      BY <1>10, <3>1, <3>3, <3>4 DEF Has, Preceding
  <2>3. Shown(x, k, m)'
    <3>1. SUFFICES ASSUME NEW c \in Callers, x \in call'[c].fresh, NEW i \in 1..call'[c].target,
                          Fed(log, x, k, i)
                   PROVE  i <= m
      BY DEF Shown
    <3>2. call'[c] = call[c]
      BY <1>3, <1>4, <3>1
    <3> QED
      BY <1>10, <3>1, <3>2 DEF Has, Shown
  <2> QED
    BY <2>1, <2>2, <2>3 DEF Has
<1>11. Views'
  BY <1>10 DEF IInv, Views
<1> QED
  BY <1>6, <1>7, <1>8, <1>9, <1>11 DEF IInv, Base, Hands

LEMMA ReactedStep ==
  ASSUME NEW Event, IInv(Event), NEW a \in Apps, NEW s \in Subs, Reacted(a, s)
  PROVE  IInv(Event)'
<1> DEFINE w == <<a, s>>
<1>1. /\ step' = [step EXCEPT ![w] = IF call[w].pc = "returned" THEN "handle" ELSE "react"]
      /\ call' = [call EXCEPT ![w] = NoCall]
      /\ UNCHANGED <<log, registry, polled, queue, hand, view, faults>>
  BY DEF Reacted
<1>2. /\ w \in Workers /\ w \in Callers /\ call \in [Callers -> Call] /\ faults \in 0..MaxFaults
      /\ step \in [Workers -> {"claim", "react", "handle", "complete"}]
      /\ Processes /\ \A b \in Apps : registry[b] = None => polled[b] = {}
      /\ MaxFaults \in Nat
  BY FacadeAssumption DEF Workers, Callers, IInv, Base, Calls, TypeOK
<1>3. call' = [c \in Callers |-> IF c \in {w} THEN NoCall ELSE call[c]]
  BY <1>1, <1>2
<1>4. /\ step' \in [Workers -> {"claim", "react", "handle", "complete"}]
      /\ step'[w] # "complete" /\ \A v \in Workers \ {w} : step'[v] = step[v]
  BY <1>1, <1>2
<1>5. faults' \in 0..MaxFaults /\ faults <= faults' /\ Processes'
  BY <1>1, <1>2 DEF Processes
<1>6. {w} \in SUBSET Workers
  BY <1>2
<1>7. \A v \in {w} : hand'[v] # 0 => step'[v] # "complete"
  BY <1>4
<1>8. /\ \A b \in Apps : registry'[b] = None => polled'[b] = {}
      /\ UNCHANGED <<log, queue, view>> /\ UNCHANGED hand
  BY <1>1, <1>2
<1> HIDE DEF w
<1> QED
  BY <1>3, <1>4, <1>5, <1>6, <1>7, <1>8, LeavingStep

LEMMA CrashStep ==
  ASSUME NEW Event, IInv(Event), NEW a \in Apps, Crash(a)
  PROVE  IInv(Event)'
<1> DEFINE W == {w \in Workers : w[1] = a}
<1>1. /\ registry' = [registry EXCEPT ![a] = None]
      /\ polled' = [polled EXCEPT ![a] = {}]
      /\ hand' = [w \in Workers |-> IF w[1] = a THEN 0 ELSE hand[w]]
      /\ step' = [w \in Workers |-> IF w[1] = a THEN "claim" ELSE step[w]]
      /\ call' = [c \in Callers |-> IF c \in Workers /\ c[1] = a THEN NoCall ELSE call[c]]
      /\ UNCHANGED <<log, queue, view>> /\ Fault
  BY DEF Crash
<1>2. /\ TypeOK /\ DOMAIN registry = Apps /\ DOMAIN polled = Apps /\ MaxFaults \in Nat
      /\ step \in [Workers -> {"claim", "react", "handle", "complete"}]
      /\ \A b \in Apps : registry[b] = None => polled[b] = {}
  BY FacadeAssumption DEF IInv, Base, Processes, TypeOK
<1>3. /\ hand' = [w \in Workers |-> IF w \in W THEN 0 ELSE hand[w]]
      /\ call' = [c \in Callers |-> IF c \in W THEN NoCall ELSE call[c]]
  BY <1>1
<1>4. /\ step' \in [Workers -> {"claim", "react", "handle", "complete"}]
      /\ \A w \in Workers \ W : step'[w] = step[w]
  BY <1>1, <1>2
<1>5. \A w \in W : hand'[w] # 0 => step'[w] # "complete"
  BY <1>1
<1>6. faults' \in 0..MaxFaults /\ faults <= faults'
  BY <1>1, <1>2 DEF Fault, TypeOK
<1>7. Processes' /\ \A b \in Apps : registry'[b] = None => polled'[b] = {}
  <2>1. Processes' /\ polled'[a] = {}
    BY <1>1, <1>2 DEF Processes
  <2>2. \A b \in Apps : b # a => registry'[b] = registry[b] /\ polled'[b] = polled[b]
    BY <1>1, <1>2
  <2> QED
    BY <1>2, <2>1, <2>2
<1>8. W \in SUBSET Workers /\ UNCHANGED <<log, queue, view>>
  BY <1>1
<1> HIDE DEF W
<1> QED
  BY <1>3, <1>4, <1>5, <1>6, <1>7, <1>8, LeavingStep

LEMMA DispatchStep ==
  ASSUME NEW Event, NEW Command, Sound(Event, Command), IInv(Event),
         NEW c \in Callers, NEW a, NEW STATE d,
         d.command \in Command, d.consistency \subseteq Subs, Dispatch(c, a, d),
         c \in Workers => hand[c] # 0 /\ step[c] = "react",
         UNCHANGED <<registry, polled, queue, local, view, faults>>
  PROVE  IInv(Event)'
<1>1. /\ Grows /\ LogType(Event)' /\ Len(log)' <= MaxEvents
      /\ \E q : Begun(q) /\ call' = [call EXCEPT ![c] = q]
  BY DispatchEffect DEF IInv
<1>2. PICK q : Begun(q) /\ call' = [call EXCEPT ![c] = q]
  BY <1>1
<1>3. Base(Event)'
  BY <1>1, <1>2, DispatchBase DEF IInv
<1>4. Views'
  BY <1>1, <1>2, DispatchViews DEF IInv
<1> QED
  BY <1>3, <1>4 DEF IInv

\* A handle is about to dispatch only when it has something to dispatch.
Reacting ==
  \A a \in Apps, s \in Subs :
    hand[<<a, s>>] # 0 /\ step[<<a, s>>] = "react" =>
      Reaction(s, log[hand[<<a, s>>]]) # None

LEMMA ReactStep ==
  ASSUME NEW Event, NEW Command, Sound(Event, Command), IInv(Event), Reacting,
         NEW a \in Apps, NEW s \in Subs, React(a, s)
  PROVE  IInv(Event)'
<1> DEFINE w == <<a, s>>
<1>1. /\ hand[w] # 0 /\ step[w] = "react" /\ Dispatch(w, a, Reaction(s, log[hand[w]]))
      /\ UNCHANGED <<registry, polled, queue, local, view, faults>>
  BY DEF React
<1>2. w \in Callers /\ log[hand[w]] \in Event /\ RouteFn(s, log[hand[w]]) \in Keys
  <2>1. hand[w] \in 1..Len(log) /\ RouteFn(s, log[hand[w]]) \in Keys
    BY <1>1 DEF IInv, Base, Hands, Handed, Feed
  <2> QED
    BY <2>1, LogTyped DEF Workers, Callers, IInv, Base
<1>3. /\ Reaction(s, log[hand[w]]).command \in Command
      /\ Reaction(s, log[hand[w]]).consistency \subseteq Subs
  BY <1>1, <1>2 DEF Reacting, Sound
<1> HIDE DEF w
<1> QED
  BY <1>1, <1>2, <1>3, DispatchStep

LEMMA ClientStep ==
  ASSUME NEW Event, NEW Command, Sound(Event, Command), IInv(Event),
         NEW c \in Clients, NEW a \in Apps, NEW d \in Dispatches, ClientDispatch(c, a, d)
  PROVE  IInv(Event)'
<1>1. /\ Dispatch(c, a, d)
      /\ UNCHANGED <<registry, polled, queue, local, view, faults>>
  BY DEF ClientDispatch
<1>2. c \in Callers /\ c \notin Workers
  BY FacadeAssumption DEF Callers
<1>3. d.command \in Command /\ d.consistency \subseteq Subs
  BY DEF Sound
<1> QED
  BY <1>1, <1>2, <1>3, DispatchStep

LEMMA WaitStep ==
  ASSUME NEW Event, IInv(Event), NEW c \in Callers, Waits(c) \/ TimeOut(c)
  PROVE  IInv(Event)'
<1>1. PICK q : Follows(q, c) /\ call' = [call EXCEPT ![c] = q]
  BY WaitsFollow DEF IInv
<1>2. /\ faults' \in Nat /\ faults <= faults' /\ faults' <= MaxFaults
      /\ UNCHANGED <<log, registry, polled, queue, local, view>>
  BY WaitsFollow DEF IInv
<1>3. Base(Event)'
  BY <1>1, <1>2, WaitingBase DEF IInv
<1>4. Views'
  BY <1>1, <1>2, WaitingViews DEF IInv
<1> QED
  BY <1>3, <1>4 DEF IInv

-----------------------------------------------------------------------------
(***************************************************************************)
(* The invariant.                                                          *)
(***************************************************************************)
LEMMA IInvInit ==
  ASSUME NEW Event, NEW Command, Sound(Event, Command), Init
  PROVE  IInv(Event) /\ Reacting
<1>1. log \in Seq(Event) /\ Len(log) \in 0..MaxEvents /\ Len(log) \in Nat
      /\ MaxEvents \in Nat /\ MaxFaults \in Nat
  BY FacadeAssumption DEF Init, Sound
<1>2. /\ NoCall \in Call /\ NoCall.pc = "idle" /\ NoCall.refs = {} /\ NoCall.fresh = {}
      /\ NoCall.left = {} /\ NoCall.remaining = {} /\ NoCall.asked = None /\ NoCall.target = 0
  BY DEF NoCall, Call
<1>3. call = [c \in Callers |-> NoCall]
  BY DEF Init
<1>4. Calls
  BY <1>1, <1>2, <1>3 DEF Calls, Waited
<1>5. TypeOK
  BY <1>1, <1>2, <1>3 DEF Init, TypeOK
<1>6. Queues /\ LogType(Event) /\ Processes
  BY <1>1 DEF Init, Queues, LogType, Processes
<1>7. ASSUME NEW a \in Apps, NEW s \in Subs
      PROVE  hand[<<a, s>>] = 0 /\ call[<<a, s>>] = NoCall
  BY DEF Init, Workers, Callers
<1>8. Hands
  BY <1>2, <1>7 DEF Hands, Handed
<1>9. ASSUME NEW s \in Subs, NEW k \in Keys PROVE Has(s, k, 0)
  <2>1. view[s][k] = RowAt(log, s, k, 0)
    BY RowZero DEF Init
  <2>2. Settled(s, k, 0)
    BY DEF Init, Settled
  <2>3. Preceding(s, k, 0)
    BY <1>7 DEF Preceding
  <2>4. Shown(s, k, 0)
    BY <1>2, <1>3 DEF Shown
  <2> QED
    BY <2>1, <2>2, <2>3, <2>4 DEF Has
<1>10. Views
  <2>1. 0 \in 0..Len(log)
    BY <1>1
  <2>2. view = [s \in Subs |-> [k \in Keys |-> view[s][k]]]
    BY DEF Init
  <2> QED
    BY <1>9, <2>1, <2>2 DEF Views
<1>11. Reacting
  BY <1>7 DEF Reacting
<1> QED
  BY <1>4, <1>5, <1>6, <1>8, <1>10, <1>11 DEF IInv, Base

LEMMA IInvNext ==
  ASSUME NEW Event, NEW Command, Sound(Event, Command), Absorbing(Event),
         IInv(Event), Reacting, Next
  PROVE  IInv(Event)'
<1>1. ASSUME NEW a \in Apps, Start(a) PROVE IInv(Event)'
  BY <1>1, StartStep
<1>2. ASSUME NEW a \in Apps, Crash(a) PROVE IInv(Event)'
  BY <1>2, CrashStep
<1>3. ASSUME NEW a \in Apps, NEW s \in Subs, Works(a, s) PROVE IInv(Event)'
  <2>1. CASE Subscribe(a, s)
    BY <2>1, SubscribeStep
  <2>2. CASE RouteNext(a, s)
    BY <2>2, RouteStep
  <2>3. ASSUME NEW n \in Numbers, Claim(a, s, n) PROVE IInv(Event)'
    BY <2>3, ClaimStep
  <2>4. CASE React(a, s)
    BY <2>4, ReactStep
  <2>5. CASE Reacted(a, s)
    BY <2>5, ReactedStep
  <2>6. CASE Handle(a, s)
    BY <2>6, HandleStep
  <2>7. CASE Complete(a, s)
    BY <2>7, CompleteStep
  <2> QED
    BY <1>3, <2>1, <2>2, <2>3, <2>4, <2>5, <2>6, <2>7 DEF Works
<1>4. ASSUME NEW c \in Clients, NEW a \in Apps, NEW d \in Dispatches, ClientDispatch(c, a, d)
      PROVE  IInv(Event)'
  BY <1>4, ClientStep
<1>5. ASSUME NEW c \in Callers, Waits(c) \/ TimeOut(c) PROVE IInv(Event)'
  BY <1>5, WaitStep
<1>6. ASSUME NEW s \in Subs, Rebuild(s) PROVE IInv(Event)'
  BY <1>6, RebuildStep
<1> QED
  BY <1>1, <1>2, <1>3, <1>4, <1>5, <1>6 DEF Next

LEMMA ReactingNext ==
  ASSUME NEW Event, NEW Command, Sound(Event, Command), IInv(Event), Reacting, Next
  PROVE  Reacting'
<1>1. CASE UNCHANGED <<log, local>>
  BY <1>1 DEF Reacting, local
<1>2. ASSUME NEW c \in Callers, NEW a, NEW STATE d, d.command \in Command,
             d.consistency \subseteq Subs, Dispatch(c, a, d), UNCHANGED local
      PROVE  Reacting'
  <2>1. Grows
    BY <1>2, DispatchEffect DEF IInv
  <2>2. \A b \in Apps, s \in Subs : hand[<<b, s>>] # 0 => log'[hand[<<b, s>>]] = log[hand[<<b, s>>]]
    BY <2>1 DEF IInv, Base, Hands, Handed, Feed, Grows
  <2> QED
    BY <1>2, <2>2 DEF Reacting, local
<1> DEFINE Moves(a, s) ==
      /\ UNCHANGED log
      /\ \A w \in Workers : w # <<a, s>> => hand'[w] = hand[w] /\ step'[w] = step[w]
<1>3. /\ hand \in [Workers -> 0..MaxEvents]
      /\ step \in [Workers -> {"claim", "react", "handle", "complete"}]
      /\ \A a \in Apps, s \in Subs : <<a, s>> \in Workers
  BY DEF IInv, Base, TypeOK, Workers
<1>4. ASSUME NEW a \in Apps, NEW s \in Subs, Moves(a, s),
             hand'[<<a, s>>] # 0 /\ step'[<<a, s>>] = "react" =>
               Reaction(s, log[hand'[<<a, s>>]]) # None
      PROVE  Reacting'
  <2>1. SUFFICES ASSUME NEW b \in Apps, NEW x \in Subs, hand'[<<b, x>>] # 0,
                        step'[<<b, x>>] = "react"
                 PROVE  Reaction(x, log'[hand'[<<b, x>>]]) # None
    BY DEF Reacting
  <2>2. CASE <<b, x>> = <<a, s>>
    BY <1>4, <2>1, <2>2
  <2>3. CASE <<b, x>> # <<a, s>>
    BY <1>3, <1>4, <2>1, <2>3 DEF Reacting
  <2> QED
    BY <2>2, <2>3
<1>5. ASSUME NEW a \in Apps, NEW s \in Subs, Works(a, s) PROVE Reacting'
  <2> DEFINE w == <<a, s>>
  <2>1. CASE Subscribe(a, s) \/ RouteNext(a, s)
    BY <1>1, <2>1 DEF Subscribe, RouteNext
  <2>2. ASSUME NEW n \in Numbers, Claim(a, s, n) PROVE Reacting'
    <3>1. /\ UNCHANGED log /\ hand' = [hand EXCEPT ![w] = n]
          /\ step' = [step EXCEPT ![w] = IF Reaction(s, log[n]) = None THEN "handle" ELSE "react"]
      BY <2>2 DEF Claim
    <3>2. /\ Moves(a, s) /\ hand'[w] = n
          /\ step'[w] = IF Reaction(s, log[n]) = None THEN "handle" ELSE "react"
      BY <1>3, <3>1
    <3> QED
      BY <1>4, <3>2
  <2>3. CASE React(a, s)
    <3>1. /\ hand[w] # 0 /\ step[w] = "react" /\ Dispatch(w, a, Reaction(s, log[hand[w]]))
          /\ UNCHANGED local
      BY <2>3 DEF React
    <3>2. w \in Callers /\ log[hand[w]] \in Event /\ RouteFn(s, log[hand[w]]) \in Keys
      <4>1. hand[w] \in 1..Len(log) /\ RouteFn(s, log[hand[w]]) \in Keys
        BY <3>1 DEF IInv, Base, Hands, Handed, Feed
      <4> QED
        BY <4>1, LogTyped DEF Workers, Callers, IInv, Base
    <3>3. /\ Reaction(s, log[hand[w]]).command \in Command
          /\ Reaction(s, log[hand[w]]).consistency \subseteq Subs
      BY <3>1, <3>2 DEF Reacting, Sound
    <3> HIDE DEF w
    <3> QED
      BY <1>2, <3>1, <3>2, <3>3
  <2>4. CASE Reacted(a, s)
    <3>1. /\ UNCHANGED <<log, hand>> /\ call[w].pc # "idle"
          /\ \E x : step' = [step EXCEPT ![w] = x]
      BY <2>4 DEF Reacted
    <3>2. hand[w] # 0 /\ step[w] = "react"
      BY <3>1 DEF IInv, Base, Hands, Handed
    <3>3. Moves(a, s) /\ hand'[w] = hand[w] /\ Reaction(s, log[hand[w]]) # None
      BY <1>3, <3>1, <3>2 DEF Reacting
    <3> QED
      BY <1>4, <3>3
  <2>5. CASE Handle(a, s)
    <3>1. UNCHANGED <<log, hand>> /\ step' = [step EXCEPT ![w] = "complete"]
      BY <2>5 DEF Handle
    <3>2. Moves(a, s) /\ step'[w] = "complete"
      BY <1>3, <3>1
    <3> QED
      BY <1>4, <3>2
  <2>6. CASE Complete(a, s)
    <3>1. /\ UNCHANGED log /\ hand' = [hand EXCEPT ![w] = 0]
          /\ step' = [step EXCEPT ![w] = "claim"]
      BY <2>6 DEF Complete
    <3>2. Moves(a, s) /\ step'[w] = "claim"
      BY <1>3, <3>1
    <3> QED
      BY <1>4, <3>2
  <2> QED
    BY <1>5, <2>1, <2>2, <2>3, <2>4, <2>5, <2>6 DEF Works
<1>6. ASSUME NEW a \in Apps, Crash(a) PROVE Reacting'
  <2>1. /\ hand' = [w \in Workers |-> IF w[1] = a THEN 0 ELSE hand[w]]
        /\ step' = [w \in Workers |-> IF w[1] = a THEN "claim" ELSE step[w]]
        /\ UNCHANGED log
    BY <1>6 DEF Crash
  <2> QED
    BY <1>3, <2>1 DEF Reacting
<1>7. ASSUME NEW a \in Apps, Start(a) PROVE Reacting'
  BY <1>1, <1>7 DEF Start
<1>8. ASSUME NEW c \in Clients, NEW a \in Apps, NEW d \in Dispatches, ClientDispatch(c, a, d)
      PROVE  Reacting'
  <2>1. Dispatch(c, a, d) /\ UNCHANGED local /\ c \in Callers
    BY <1>8 DEF ClientDispatch, Callers
  <2> QED
    BY <1>2, <2>1 DEF Sound
<1>9. ASSUME NEW c \in Callers, Waits(c) \/ TimeOut(c) PROVE Reacting'
  BY <1>1, <1>9, WaitsFollow DEF IInv
<1>10. ASSUME NEW s \in Subs, Rebuild(s) PROVE Reacting'
  BY <1>1, <1>10 DEF Rebuild
<1> QED
  BY <1>5, <1>6, <1>7, <1>8, <1>9, <1>10 DEF Next

LEMMA Inductive ==
  ASSUME NEW Event, NEW Command, Sound(Event, Command), Absorbing(Event)
  PROVE  Spec => [](IInv(Event) /\ Reacting)
<1>1. Init => IInv(Event) /\ Reacting
  BY IInvInit
<1>2. IInv(Event) /\ Reacting /\ [Next]_vars => (IInv(Event) /\ Reacting)'
  <2>1. CASE Next
    BY <2>1, IInvNext, ReactingNext
  <2>2. ASSUME IInv(Event), Reacting, UNCHANGED vars PROVE (IInv(Event) /\ Reacting)'
    <3>1. TypeOK'
      BY <2>2 DEF IInv, Base, TypeOK, Feed, vars, queue, local
    <3>2. LogType(Event)' /\ Processes' /\ Calls' /\ Queues'
      BY <2>2 DEF IInv, Base, LogType, Processes, Calls, Waited, Queues, vars, queue, local
    <3>3. Hands'
      BY <2>2 DEF IInv, Base, Hands, Handed, Feed, vars, queue, local
    <3>4. Views'
      BY <2>2 DEF IInv, Views, Has, Settled, Preceding, Shown, vars, queue, local
    <3>5. Reacting'
      BY <2>2 DEF Reacting, vars, local
    <3> QED
      BY <3>1, <3>2, <3>3, <3>4, <3>5 DEF IInv, Base
  <2> QED
    BY <2>1, <2>2
<1> QED
  BY <1>1, <1>2, PTL DEF Spec

\* Types, for any number of processes, subscriptions and clients: what is in a
\* queue is always an event of its subscription and of a partition.
THEOREM TypeCorrect ==
  ASSUME NEW Event, NEW Command, Sound(Event, Command), Absorbing(Event)
  PROVE  Spec => []TypeOK
<1>1. IInv(Event) => TypeOK
  BY DEF IInv, Base
<1> QED
  BY <1>1, Inductive, PTL

\* Redelivery is a no-op: whatever is delivered again, by whichever process and
\* however late, a row is the fold of its events, each handled once and in order,
\* up to one of them - for every handler that absorbs what it has.
THEOREM RowsAreFolds ==
  ASSUME NEW Event, NEW Command, Sound(Event, Command), Absorbing(Event)
  PROVE  Spec => []ViewIsFold
<1>1. IInv(Event) => ViewIsFold
  <2>1. SUFFICES ASSUME IInv(Event), NEW s \in Subs, NEW k \in Keys
                 PROVE  \E m \in 0..Len(log) : view[s][k] = RowOf(s, k, m)
    BY DEF ViewIsFold
  <2>2. PICK m \in 0..Len(log) : Has(s, k, m)
    BY <2>1 DEF IInv, Views
  <2>3. RowOf(s, k, m) = RowAt(log, s, k, m)
    BY <2>1, LogTyped, RowOfIs DEF IInv, Base
  <2> QED
    BY <2>2, <2>3 DEF Has
<1> QED
  BY <1>1, Inductive, PTL

\* Read your own writes (CON-A), for any application: whoever waitForProjection
\* let go on reads rows that have all events of their partitions up to the last
\* one of its command.
THEOREM WaitersSeeTheirWrites ==
  ASSUME NEW Event, NEW Command, Sound(Event, Command), Absorbing(Event)
  PROVE  Spec => []ReadYourWrites
<1>1. IInv(Event) => ReadYourWrites
  <2>1. SUFFICES ASSUME IInv(Event), NEW c \in Callers, NEW s \in call[c].fresh,
                        NEW k \in Keys
                 PROVE  \E m \in call[c].target..Len(log) : view[s][k] = RowOf(s, k, m)
    BY DEF ReadYourWrites
  <2>2. /\ call[c] \in Call /\ Waited(c) /\ Len(log) \in Nat /\ s \in Subs
        /\ call[c].target \in Nat /\ call[c].target <= Len(log)
    BY <2>1, LogTyped DEF IInv, Base, Calls, Call, Waited
  <2>3. PICK m \in 0..Len(log) : Has(s, k, m)
    BY <2>1, <2>2 DEF IInv, Views
  <2>4. CASE call[c].target <= m
    <3>1. m \in call[c].target..Len(log)
      BY <2>2, <2>4
    <3>2. RowOf(s, k, m) = RowAt(log, s, k, m)
      BY <2>2, RowOfIs
    <3> QED
      BY <2>3, <3>1, <3>2 DEF Has
  <2>5. CASE m < call[c].target
    <3> DEFINE t == call[c].target
    <3>1. t \in t..Len(log) /\ t \in 0..Len(log) /\ m \in Nat /\ m <= t
      BY <2>2, <2>5
    <3>2. \A n \in (m + 1)..t : ~Fed(log, s, k, n)
      <4>1. \A n \in 1..t : Fed(log, s, k, n) => n <= m
        BY <2>1, <2>3 DEF Has, Shown
      <4> QED
        BY <2>2, <3>1, <4>1
    <3>3. RowAt(log, s, k, t) = RowAt(log, s, k, m)
      <4> HIDE DEF t
      <4> QED
        BY <3>1, <3>2, RowStays
    <3>4. RowOf(s, k, t) = RowAt(log, s, k, t)
      BY <2>2, <3>1, RowOfIs
    <3> QED
      BY <2>3, <3>1, <3>3, <3>4 DEF Has
  <2> QED
    BY <2>2, <2>4, <2>5
<1> QED
  BY <1>1, Inductive, PTL

\* A handler that dispatches and waits for its own subscription waits for its
\* own item: while it holds that item, waitForProjection is never told that the
\* subscription is caught up, whatever other processes do.
THEOREM SelfWaits ==
  ASSUME NEW Event, NEW Command, Sound(Event, Command), Absorbing(Event)
  PROVE  Spec => []SelfWaitTimesOut
<1>1. IInv(Event) => SelfWaitTimesOut
  BY DEF IInv, Base, Hands, Handed, SelfWaitTimesOut, Holds
<1> QED
  BY <1>1, Inductive, PTL

-----------------------------------------------------------------------------
(***************************************************************************)
(* The example's handlers absorb what they have: "where $n >               *)
(* last_event_number", and the insert only when there is no row.           *)
(***************************************************************************)
\* An event that starts a row; without it there is none.
Starts(type, L, s, k, m) == \E n \in 1..m : Fed(L, s, k, n) /\ L[n].type = type

\* The row has a last event number, which no event up to m exceeds.
LastOf(row, L, s, k, m) ==
  /\ row.last \in 0..m
  /\ \A n \in 1..m : Fed(L, s, k, n) => n <= row.last

LEMMA BalancesAbsorb ==
  ASSUME NEW s \in Subs, NEW k \in Keys,
         \A e : RouteFn(s, e) = balancesRouteFn(e),
         \A row, n, e : Handler(s, row, n, e) = balancesHandler(row, n, e),
         \A b, l : NoRow # [balance |-> b, last |-> l],
         NEW L, NEW m \in Nat, NEW n \in 1..m, Fed(L, s, k, n)
  PROVE  Handler(s, RowAt(L, s, k, m), n, L[n]) = RowAt(L, s, k, m)
<1> DEFINE Row(i) == RowAt(L, s, k, i)
           Made(i) == \E b, l : Row(i) = [balance |-> b, last |-> l]
           P(i) == \/ Row(i) = NoRow /\ ~Starts("AccountOpened", L, s, k, i)
                   \/ Made(i) /\ LastOf(Row(i), L, s, k, i)
           S == {i \in Nat : P(i)}
<1>1. ASSUME NEW i \in Nat, Fed(L, s, k, i)
      PROVE  L[i].type \in {"AccountOpened", "AccountDepositedTo", "AccountWithdrawnFrom"}
  BY <1>1, FacadeAssumption DEF Fed, balancesRouteFn, AccountEvents
<1>2. 0 \in S
  BY RowZero DEF Starts
<1>3. ASSUME NEW i \in S PROVE i + 1 \in S
  <2>1. /\ i \in Nat /\ i + 1 \in Nat \ {0} /\ (i + 1) - 1 = i
        /\ Row(i + 1) = NextRow(L, s, k, i + 1, Row(i))
        /\ \A j \in 1..(i + 1) : j \in 1..i \/ j = i + 1
    BY RowSucc
  <2>2. CASE ~Fed(L, s, k, i + 1)
    <3>1. Row(i + 1) = Row(i)
      BY <2>1, <2>2 DEF NextRow
    <3> HIDE DEF Row
    <3> QED
      BY <2>1, <2>2, <3>1 DEF Starts, LastOf
  <2>3. CASE Fed(L, s, k, i + 1)
    <3>1. Row(i + 1) = balancesHandler(Row(i), i + 1, L[i + 1])
      BY <2>1, <2>3 DEF NextRow
    <3> HIDE DEF Row
    <3>2. CASE Row(i) = NoRow /\ L[i + 1].type # "AccountOpened"
      <4>1. Row(i + 1) = NoRow
        BY <1>1, <2>1, <2>3, <3>1, <3>2 DEF balancesHandler, bumpBalance
      <4> QED
        BY <2>1, <3>2, <4>1 DEF Starts
    <3>3. CASE Row(i) = NoRow /\ L[i + 1].type = "AccountOpened"
      <4>1. Row(i + 1) = [balance |-> 0, last |-> i + 1]
        BY <3>1, <3>3 DEF balancesHandler, upsertOpened
      <4> QED
        BY <2>1, <4>1 DEF LastOf
    <3>4. CASE Row(i) # NoRow
      <4>1. PICK b, l : Row(i) = [balance |-> b, last |-> l]
        BY <3>4
      <4>2. l \in 0..i
        BY <3>4, <4>1 DEF LastOf
      <4>3. Newer(Row(i), i + 1)
        BY <4>1, <4>2 DEF Newer
      <4>4. \E x : Row(i + 1) = [balance |-> x, last |-> i + 1]
        BY <1>1, <2>1, <2>3, <3>1, <3>4, <4>1, <4>3
        DEF balancesHandler, upsertOpened, bumpBalance
      <4> QED
        BY <2>1, <4>4 DEF LastOf
    <3> QED
      BY <3>2, <3>3, <3>4
  <2> QED
    BY <2>2, <2>3
<1>4. P(m)
  <2> HIDE DEF P
  <2>1. S \in SUBSET Nat
    OBVIOUS
  <2>2. \A i \in Nat : i \in S
    <3> HIDE DEF S
    <3> QED
      BY <1>2, <1>3, <2>1, NaturalInduction
  <2> QED
    BY <2>2
<1>5. Handler(s, Row(m), n, L[n]) = balancesHandler(Row(m), n, L[n])
  OBVIOUS
<1>6. n \in Nat /\ L[n].type \in {"AccountOpened", "AccountDepositedTo", "AccountWithdrawnFrom"}
  BY <1>1
<1> HIDE DEF Row
<1>7. CASE Row(m) = NoRow
  <2>1. L[n].type # "AccountOpened"
    BY <1>4, <1>7 DEF Starts
  <2>2. balancesHandler(Row(m), n, L[n]) = Row(m)
    BY <1>6, <1>7, <2>1 DEF balancesHandler, bumpBalance
  <2> QED
    BY <1>5, <2>2 DEF Row
<1>8. CASE Row(m) # NoRow
  <2>1. Row(m).last \in 0..m /\ n <= Row(m).last
    BY <1>4, <1>8 DEF LastOf
  <2>2. ~Newer(Row(m), n)
    BY <2>1 DEF Newer
  <2>3. balancesHandler(Row(m), n, L[n]) = Row(m)
    BY <1>6, <1>8, <2>2 DEF balancesHandler, bumpBalance, upsertOpened
  <2> QED
    BY <1>5, <2>3 DEF Row
<1> QED
  BY <1>7, <1>8

LEMMA TransfersAbsorb ==
  ASSUME NEW s \in Subs, NEW k \in Keys,
         \A e : RouteFn(s, e) = transfersRouteFn(e),
         \A row, n, e : Handler(s, row, n, e) = transfersHandler(row, n, e),
         \A b, l : NoRow # [status |-> b, last |-> l],
         NEW L, NEW m \in Nat, NEW n \in 1..m, Fed(L, s, k, n)
  PROVE  Handler(s, RowAt(L, s, k, m), n, L[n]) = RowAt(L, s, k, m)
<1> DEFINE Row(i) == RowAt(L, s, k, i)
           Made(i) == \E b, l : Row(i) = [status |-> b, last |-> l]
           P(i) == \/ Row(i) = NoRow /\ ~Starts("TransferRequested", L, s, k, i)
                   \/ Made(i) /\ LastOf(Row(i), L, s, k, i)
           S == {i \in Nat : P(i)}
<1>1. ASSUME NEW i \in Nat, Fed(L, s, k, i)
      PROVE  L[i].type \in {"TransferRequested", "TransferCompleted", "TransferFailed"}
  BY <1>1, FacadeAssumption DEF Fed, transfersRouteFn
<1>2. 0 \in S
  BY RowZero DEF Starts
<1>3. ASSUME NEW i \in S PROVE i + 1 \in S
  <2>1. /\ i \in Nat /\ i + 1 \in Nat \ {0} /\ (i + 1) - 1 = i
        /\ Row(i + 1) = NextRow(L, s, k, i + 1, Row(i))
        /\ \A j \in 1..(i + 1) : j \in 1..i \/ j = i + 1
    BY RowSucc
  <2>2. CASE ~Fed(L, s, k, i + 1)
    <3>1. Row(i + 1) = Row(i)
      BY <2>1, <2>2 DEF NextRow
    <3> HIDE DEF Row
    <3> QED
      BY <2>1, <2>2, <3>1 DEF Starts, LastOf
  <2>3. CASE Fed(L, s, k, i + 1)
    <3>1. Row(i + 1) = transfersHandler(Row(i), i + 1, L[i + 1])
      BY <2>1, <2>3 DEF NextRow
    <3> HIDE DEF Row
    <3>2. CASE Row(i) = NoRow /\ L[i + 1].type # "TransferRequested"
      <4>1. Row(i + 1) = NoRow
        BY <1>1, <2>1, <2>3, <3>1, <3>2 DEF transfersHandler, markCompleted, markFailed
      <4> QED
        BY <2>1, <3>2, <4>1 DEF Starts
    <3>3. CASE Row(i) = NoRow /\ L[i + 1].type = "TransferRequested"
      <4>1. Row(i + 1) = [status |-> "requested", last |-> i + 1]
        BY <3>1, <3>3 DEF transfersHandler, upsertRequested
      <4> QED
        BY <2>1, <4>1 DEF LastOf
    <3>4. CASE Row(i) # NoRow
      <4>1. PICK b, l : Row(i) = [status |-> b, last |-> l]
        BY <3>4
      <4>2. l \in 0..i
        BY <3>4, <4>1 DEF LastOf
      <4>3. Newer(Row(i), i + 1)
        BY <4>1, <4>2 DEF Newer
      <4>4. \E x : Row(i + 1) = [status |-> x, last |-> i + 1]
        BY <1>1, <2>1, <2>3, <3>1, <3>4, <4>1, <4>3
        DEF transfersHandler, upsertRequested, markCompleted, markFailed
      <4> QED
        BY <2>1, <4>4 DEF LastOf
    <3> QED
      BY <3>2, <3>3, <3>4
  <2> QED
    BY <2>2, <2>3
<1>4. P(m)
  <2> HIDE DEF P
  <2>1. S \in SUBSET Nat
    OBVIOUS
  <2>2. \A i \in Nat : i \in S
    <3> HIDE DEF S
    <3> QED
      BY <1>2, <1>3, <2>1, NaturalInduction
  <2> QED
    BY <2>2
<1>5. Handler(s, Row(m), n, L[n]) = transfersHandler(Row(m), n, L[n])
  OBVIOUS
<1>6. n \in Nat /\ L[n].type \in {"TransferRequested", "TransferCompleted", "TransferFailed"}
  BY <1>1
<1> HIDE DEF Row
<1>7. CASE Row(m) = NoRow
  <2>1. L[n].type # "TransferRequested"
    BY <1>4, <1>7 DEF Starts
  <2>2. transfersHandler(Row(m), n, L[n]) = Row(m)
    BY <1>6, <1>7, <2>1 DEF transfersHandler, markCompleted, markFailed
  <2> QED
    BY <1>5, <2>2 DEF Row
<1>8. CASE Row(m) # NoRow
  <2>1. Row(m).last \in 0..m /\ n <= Row(m).last
    BY <1>4, <1>8 DEF LastOf
  <2>2. ~Newer(Row(m), n)
    BY <2>1 DEF Newer
  <2>3. transfersHandler(Row(m), n, L[n]) = Row(m)
    BY <1>6, <1>8, <2>2 DEF transfersHandler, upsertRequested, markCompleted, markFailed
  <2> QED
    BY <1>5, <2>3 DEF Row
<1> QED
  BY <1>7, <1>8

\* Subscriptions as the example's projections, or whose handle writes no row (a
\* process manager): their handlers absorb what they have, so that the theorems
\* above are about the example.
THEOREM ExampleAbsorbs ==
  ASSUME \A b, l : NoRow # [balance |-> b, last |-> l] /\ NoRow # [status |-> b, last |-> l],
         \A s \in Subs :
           \/ /\ \A e : RouteFn(s, e) = balancesRouteFn(e)
              /\ \A row, n, e : Handler(s, row, n, e) = balancesHandler(row, n, e)
           \/ /\ \A e : RouteFn(s, e) = transfersRouteFn(e)
              /\ \A row, n, e : Handler(s, row, n, e) = transfersHandler(row, n, e)
           \/ \A row, n, e : Handler(s, row, n, e) = row,
         NEW Event
  PROVE  Absorbing(Event)
<1>1. SUFFICES ASSUME NEW L \in Seq(Event), NEW s \in Subs, NEW k \in Keys,
                      NEW m \in 1..Len(L), NEW n \in 1..m, Fed(L, s, k, n)
               PROVE  Handler(s, RowAt(L, s, k, m), n, L[n]) = RowAt(L, s, k, m)
  BY DEF Absorbing
<1>2. m \in Nat
  OBVIOUS
<1>3. CASE /\ \A e : RouteFn(s, e) = balancesRouteFn(e)
           /\ \A row, i, e : Handler(s, row, i, e) = balancesHandler(row, i, e)
  BY <1>1, <1>2, <1>3, BalancesAbsorb
<1>4. CASE /\ \A e : RouteFn(s, e) = transfersRouteFn(e)
           /\ \A row, i, e : Handler(s, row, i, e) = transfersHandler(row, i, e)
  BY <1>1, <1>2, <1>4, TransfersAbsorb
<1>5. CASE \A row, i, e : Handler(s, row, i, e) = row
  BY <1>5
<1> QED
  BY <1>3, <1>4, <1>5
=============================================================================

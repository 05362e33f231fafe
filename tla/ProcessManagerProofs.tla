------------------------ MODULE ProcessManagerProofs ------------------------
(***************************************************************************)
(* Proofs about ProcessManager: for any number of workers, partitions,     *)
(* module versions, events and faults, and any process manager and         *)
(* commands, the state of an instance is the fold of the events its 'done' *)
(* items name, in snapshots and where handle is called; and until the      *)
(* first fault no event is absorbed twice or lost. All that is about Spec: *)
(* with RebuildSpec the snapshots of the deleted subscription stay, and    *)
(* none of it holds. What a rebuild cannot break is the order of the       *)
(* queue, the refinement of ProcessInstances (RebuildSpec).                *)
(***************************************************************************)
EXTENDS ProcessManager, FiniteSetTheorems, SequenceTheorems, TLAPS

\* What is asked of the application: every event is routed to a partition or
\* ignored, handle answers those that are routed with commands, and a command
\* throws or appends events.
Sound(Event, Command) ==
  /\ Opening \in Seq(Event) /\ Inputs \subseteq Command
  /\ \A e \in Event : RouteFn(e) \in Partitions \cup {Ignore}
  /\ \A s \in Seq(Event), e \in Event :
       RouteFn(e) # Ignore => Handle(s, e).commands \in Seq(Command)
  /\ \A s \in Seq(Event), c \in Command :
       Run(s, c) # Throws => Run(s, c) \in Seq(Event)

LogType(Event) == log \in Seq([event : Event, causation : Nat])

\* What is claimed or done has only 'done' items of its partition before it.
InOrder ==
  \A m, n \in 1..cursor :
    /\ itemState[n] \in {"claimed", "done"}
    /\ m < n /\ itemState[m] # "absent" /\ PartitionOf(m) = PartitionOf(n)
    => itemState[m] = "done"

\* What a worker has in hand was routed to a partition.
Handed ==
  \A w \in Workers : pc[w] # "idle" =>
    hand[w] \in 1..cursor /\ PartitionOf(hand[w]) \in Partitions

\* Staged states are made of events that are in the log.
StagedFromLog ==
  \A w \in Workers : \A i \in DOMAIN staged[w] : staged[w][i] \in 1..Len(log)

IInv == TypeOK /\ InOrder /\ Handed /\ StagedFromLog /\ SnapshotIsFold /\ HandlesFold

\* The log grows only at its end.
Grows ==
  /\ Len(log) \in Nat /\ Len(log)' \in Nat /\ Len(log) <= Len(log)'
  /\ \A n \in 1..Len(log) : log'[n] = log[n]

-----------------------------------------------------------------------------
(***************************************************************************)
(* Sequences of numbers.                                                   *)
(***************************************************************************)
LEMMA ListsAppend ==
  ASSUME NEW s \in Seq(Numbers), NEW S, Lists(s, S), NEW n \in Numbers,
         \A m \in S : m < n
  PROVE  Append(s, n) \in Seq(Numbers) /\ Lists(Append(s, n), S \cup {n})
<1> DEFINE t == Append(s, n)
<1>1. /\ t \in Seq(Numbers) /\ Len(s) \in Nat /\ Len(t) = Len(s) + 1
      /\ DOMAIN s = 1..Len(s) /\ DOMAIN t = 1..(Len(s) + 1)
      /\ \A i \in 1..Len(s) : t[i] = s[i] /\ s[i] \in Numbers
      /\ t[Len(s) + 1] = n
  OBVIOUS
<1>2. \A i \in 1..Len(s) : s[i] \in S /\ s[i] < n
  BY <1>1 DEF Lists
<1>3. Increasing(t)
  <2> HIDE DEF t
  <2> SUFFICES ASSUME NEW i \in 1..(Len(s) + 1), NEW j \in 1..(Len(s) + 1), i < j
               PROVE  t[i] < t[j]
    BY <1>1 DEF Increasing
  <2>1. CASE j = Len(s) + 1
    BY <1>1, <1>2, <2>1
  <2>2. CASE j # Len(s) + 1
    <3>1. i \in 1..Len(s) /\ j \in 1..Len(s)
      BY <1>1, <2>2
    <3> QED
      BY <1>1, <3>1 DEF Lists, Increasing
  <2> QED
    BY <2>1, <2>2
<1>4. {t[i] : i \in DOMAIN t} = S \cup {n}
  <2>1. {s[i] : i \in 1..Len(s)} = S
    BY <1>1 DEF Lists
  <2> HIDE DEF t
  <2>2. ASSUME NEW x \in S \cup {n} PROVE \E i \in 1..(Len(s) + 1) : t[i] = x
    <3>1. CASE x = n
      BY <1>1, <3>1
    <3>2. CASE x \in S
      <4>1. PICK i \in 1..Len(s) : s[i] = x
        BY <2>1, <3>2
      <4> QED
        BY <1>1, <4>1
    <3> QED
      BY <3>1, <3>2
  <2>3. ASSUME NEW i \in 1..(Len(s) + 1) PROVE t[i] \in S \cup {n}
    <3>1. CASE i \in 1..Len(s)
      BY <1>1, <1>2, <3>1
    <3>2. CASE i = Len(s) + 1
      BY <1>1, <3>2
    <3> QED
      BY <1>1, <3>1, <3>2
  <2> QED
    BY <1>1, <2>2, <2>3
<1> QED
  BY <1>1, <1>3, <1>4 DEF Lists

-----------------------------------------------------------------------------
(***************************************************************************)
(* Steps that leave the queue alone.                                       *)
(***************************************************************************)
LEMMA DoneIff ==
  ASSUME NEW p, NEW n PROVE
    n \in Done(p) <=> n \in 1..cursor /\ itemState[n] = "done" /\ PartitionOf(n) = p
BY DEF Done, Items

LEMMA AppendsGrows ==
  ASSUME NEW Event, NEW Command, Sound(Event, Command), LogType(Event), NEW STATE c, c \in Command,
         NEW STATE m, m \in Nat,
         Appends(c, m)
  PROVE  Grows /\ LogType(Event)' /\ Len(log)' <= MaxEvents
<1> DEFINE events == Run(Events, c)
           Entries == [event : Event, causation : Nat]
           t == [i \in DOMAIN events |-> [event |-> events[i], causation |-> m]]
<1>1. /\ log \in Seq(Entries) /\ Len(log) \in Nat
      /\ DOMAIN log = 1..Len(log)
      /\ \A i \in 1..Len(log) : log[i] \in Entries
  <2>1. log \in Seq(Entries)
    BY DEF LogType
  <2> HIDE DEF Entries
  <2> QED
    BY <2>1
<1>2. Events \in Seq(Event)
  <2>1. \A i \in 1..Len(log) : log[i].event \in Event
    BY <1>1
  <2> QED
    BY <1>1, <2>1 DEF Events
<1>3. events \in Seq(Event) /\ Len(log) + Len(events) <= MaxEvents /\ log' = log \o t
  BY <1>2 DEF Appends, Sound
<1>4. /\ Len(events) \in Nat /\ DOMAIN events = 1..Len(events)
      /\ \A i \in 1..Len(events) : events[i] \in Event
  BY <1>3
<1> HIDE DEF events
<1>5. t \in Seq(Entries) /\ Len(t) = Len(events)
  BY <1>4
<1> HIDE DEF t, Entries
<1>6. /\ log' \in Seq(Entries) /\ Len(log') = Len(log) + Len(t)
      /\ \A i \in 1..Len(log) : log'[i] = log[i]
  <2>1. /\ log \o t \in Seq(Entries) /\ Len(log \o t) = Len(log) + Len(t)
        /\ \A i \in 1..Len(log) + Len(t) :
             (log \o t)[i] = IF i <= Len(log) THEN log[i] ELSE t[i - Len(log)]
    BY <1>1, <1>5, ConcatProperties
  <2>2. \A i \in 1..Len(log) : i \in 1..Len(log) + Len(t) /\ i <= Len(log)
    BY <1>1, <1>4, <1>5
  <2> QED
    BY <1>3, <2>1, <2>2
<1> USE DEF Entries
<1> QED
  BY <1>1, <1>3, <1>4, <1>5, <1>6 DEF Grows, LogType

LEMMA EntryEvent ==
  ASSUME NEW Event, LogType(Event), NEW STATE n, n \in 1..Len(log)
  PROVE  log[n].event \in Event
<1> DEFINE Entries == [event : Event, causation : Nat]
<1>1. log \in Seq(Entries)
  BY DEF LogType
<1>2. \A e \in Entries : e.event \in Event
  OBVIOUS
<1> HIDE DEF Entries
<1> QED
  BY <1>1, <1>2

LEMMA StaysGrows ==
  ASSUME NEW Event, LogType(Event), UNCHANGED log
  PROVE  Grows /\ LogType(Event)'
BY DEF Grows, LogType

LEMMA PartitionsStay ==
  ASSUME TypeOK, Grows PROVE
    \A n \in 1..cursor : PartitionOf(n)' = PartitionOf(n)
<1>1. cursor \in Int /\ cursor <= Len(log)
  BY DEF TypeOK
<1> QED
  BY <1>1 DEF PartitionOf, Grows

LEMMA QueueStays ==
  ASSUME TypeOK, Grows, UNCHANGED <<cursor, itemState>>
  PROVE  /\ \A p : Items(p)' = Items(p) /\ Done(p)' = Done(p)
         /\ \A n \in 1..cursor : PartitionOf(n)' = PartitionOf(n)
         /\ \A n \in Numbers : itemState'[n] # "absent" =>
              n <= cursor' /\ PartitionOf(n)' \in Partitions
<1>1. \A n \in 1..cursor : PartitionOf(n)' = PartitionOf(n)
  BY PartitionsStay
<1>2. \A p : Items(p)' = Items(p)
  BY <1>1 DEF Items
<1>3. \A p : Done(p)' = Done(p)
  BY <1>2 DEF Done
<1>4. \A n \in Numbers : itemState[n] # "absent" => n \in 1..cursor
  BY DEF TypeOK, Numbers
<1> QED
  BY <1>1, <1>2, <1>3, <1>4 DEF TypeOK

LEMMA InOrderStays ==
  ASSUME TypeOK, InOrder, Grows, UNCHANGED <<cursor, itemState>>
  PROVE  InOrder'
BY QueueStays DEF InOrder

LEMMA SnapshotStays ==
  ASSUME TypeOK, SnapshotIsFold, Grows, UNCHANGED <<cursor, itemState>>,
         \A p \in Partitions : snapshot'[p] \in {snapshot[p], NoSnapshot}
  PROVE  SnapshotIsFold'
<1> SUFFICES ASSUME NEW p \in Partitions, snapshot'[p] # NoSnapshot
             PROVE  /\ Lists(snapshot'[p].events, Done(p)')
                    /\ snapshot'[p].version \in Done(p)'
                    /\ \A n \in Done(p)' : n <= snapshot'[p].version
  BY DEF SnapshotIsFold, Lists, Increasing
<1>1. snapshot'[p] = snapshot[p] /\ Done(p)' = Done(p)
  BY QueueStays
<1> QED
  BY <1>1 DEF SnapshotIsFold

\* What a worker may do to its local variables.
Moves(w) ==
  /\ \/ staged'[w] \in {staged[w], <<>>}
     \/ \A i \in DOMAIN staged'[w] : staged'[w][i] \in 1..cursor
  /\ \/ pc'[w] = pc[w] /\ hand'[w] = hand[w] /\ staged'[w] = staged[w]
     \/ pc'[w] = "idle"
     \/ /\ pc[w] # "idle" /\ hand'[w] = hand[w]
        /\ \/ pc'[w] \in {"load", "rebuild"}
           \/ pc'[w] = "dispatch"
              /\ (Holds(w) => Lists(staged'[w], Done(PartitionOf(hand[w])) \cup {hand[w]}))

LEMMA WorkersMove ==
  ASSUME TypeOK, Handed, StagedFromLog, HandlesFold, Grows, UNCHANGED queue,
         \A w \in Workers : Moves(w)
  PROVE  Handed' /\ StagedFromLog' /\ HandlesFold'
<1>1. UNCHANGED <<cursor, itemState, itemHolder>>
  BY DEF queue
<1>2. Handed'
  BY <1>1, QueueStays DEF Handed, Moves
<1>3. HandlesFold'
  <2> SUFFICES ASSUME NEW w \in Workers, pc'[w] = "dispatch", Holds(w)'
               PROVE  Lists(staged[w], Done(PartitionOf(hand[w])) \cup {hand[w]})'
    BY DEF HandlesFold, Lists, Increasing
  <2>1. pc[w] # "idle" /\ hand'[w] = hand[w]
    BY DEF Moves
  <2>2. Holds(w)
    BY <1>1, <2>1 DEF Holds
  <2>3. hand[w] \in 1..cursor /\ PartitionOf(hand[w])' = PartitionOf(hand[w])
    BY <1>1, <2>1, QueueStays DEF Handed, PartitionOf
  <2>4. Lists(staged'[w], Done(PartitionOf(hand[w])) \cup {hand[w]})
    BY <2>1, <2>2 DEF HandlesFold, Moves
  <2>5. Done(PartitionOf(hand[w]))' = Done(PartitionOf(hand[w]))
    BY <1>1, <2>3, QueueStays DEF Done, Items
  <2> QED
    BY <2>1, <2>4, <2>5
<1>4. StagedFromLog'
  <2> SUFFICES ASSUME NEW w \in Workers, NEW i \in DOMAIN staged'[w]
               PROVE  staged'[w][i] \in 1..Len(log)'
    BY DEF StagedFromLog
  <2>1. /\ \A n \in 1..Len(log) : n \in 1..Len(log)'
        /\ \A n \in 1..cursor : n \in 1..Len(log)'
    BY DEF Grows, TypeOK
  <2>2. DOMAIN <<>> = {}
    OBVIOUS
  <2> QED
    BY <2>1, <2>2 DEF StagedFromLog, Moves
<1> QED
  BY <1>2, <1>3, <1>4

-----------------------------------------------------------------------------
(***************************************************************************)
(* The steps that leave the queue alone: everything but RouteNext, Takes   *)
(* and Complete.                                                           *)
(***************************************************************************)
Rows == [version : Numbers, shape : Modules, events : Seq(Numbers)]

LocalsTyped ==
  /\ pc \in [Workers -> {"idle", "load", "rebuild", "dispatch"}]
  /\ hand \in [Workers -> 0..MaxEvents]
  /\ staged \in [Workers -> Seq(Numbers)]
  /\ sent \in [Workers -> Nat]
  /\ asked \subseteq Inputs
  /\ faults \in 0..MaxFaults

\* No instance absorbs an event, nor ends.
DoneStays == \A p : Done(p)' = Done(p)

LEMMA TypeStays ==
  ASSUME NEW Event, TypeOK, LogType(Event)', Grows, Len(log)' <= MaxEvents,
         UNCHANGED <<queue, rebuilds>>, settled' \subseteq Numbers, LocalsTyped',
         snapshot' \in [Partitions -> Rows \cup {NoSnapshot}]
  PROVE  TypeOK'
<1>1. UNCHANGED <<cursor, itemState, itemHolder>>
  BY DEF queue
<1>2. DOMAIN log' = 1..Len(log') /\ Len(log)' \in Nat
  BY DEF LogType
<1>3. Len(log)' \in 0..MaxEvents
  BY <1>2, PmAssumption DEF PmAssumption
<1>4. cursor' \in 0..Len(log)'
  BY <1>1, <1>2 DEF TypeOK, Grows
<1>5. \A n \in Numbers : itemState'[n] # "absent" =>
        n <= cursor' /\ PartitionOf(n)' \in Partitions
  BY <1>1, QueueStays
<1> QED
  BY <1>1, <1>2, <1>3, <1>4, <1>5 DEF TypeOK, LocalsTyped, Rows

LEMMA LocalStep ==
  ASSUME NEW Event, IInv, LogType(Event)', Grows, Len(log)' <= MaxEvents,
         UNCHANGED <<queue, rebuilds>>, settled' \subseteq Numbers, LocalsTyped',
         snapshot' \in [Partitions -> Rows \cup {NoSnapshot}],
         \A p \in Partitions : snapshot'[p] \in {snapshot[p], NoSnapshot},
         \A w \in Workers : Moves(w)
  PROVE  IInv' /\ DoneStays
<1>1. TypeOK /\ UNCHANGED <<cursor, itemState, itemHolder>> /\ UNCHANGED queue
  BY DEF IInv, queue
<1>2. InOrder' /\ SnapshotIsFold' /\ Handed' /\ StagedFromLog' /\ HandlesFold'
  BY <1>1, InOrderStays, SnapshotStays, WorkersMove DEF IInv
<1>3. TypeOK'
  BY <1>1, TypeStays
<1>4. DoneStays
  BY <1>1, QueueStays DEF DoneStays
<1> QED
  BY <1>2, <1>3, <1>4 DEF IInv

LEMMA TypedBefore ==
  ASSUME TypeOK PROVE
    /\ LocalsTyped /\ snapshot \in [Partitions -> Rows \cup {NoSnapshot}]
    /\ Len(log) <= MaxEvents /\ settled \subseteq Numbers
    /\ MaxFaults \in Nat /\ MaxEvents \in Nat /\ Numbers = 1..MaxEvents
BY PmAssumption DEF PmAssumption, TypeOK, LocalsTyped, Rows, Numbers

LEMMA FaultTyped ==
  ASSUME TypeOK, Fault PROVE faults' \in 0..MaxFaults
BY TypedBefore DEF Fault, LocalsTyped

LEMMA LeaveTyped ==
  ASSUME TypeOK, NEW w \in Workers, Leave(w), asked' \subseteq Inputs,
         faults' \in 0..MaxFaults
  PROVE  LocalsTyped' /\ \A v \in Workers : Moves(v)
<1>1. <<>> \in Seq(Numbers) /\ 0 \in 0..MaxEvents /\ 0 \in Nat
  BY TypedBefore
<1> QED
  BY <1>1, TypedBefore DEF Leave, Goto, LocalsTyped, Moves

LEMMA AskStep ==
  ASSUME NEW Event, NEW Command, Sound(Event, Command), LogType(Event), IInv, NEW c \in Inputs, Ask(c)
  PROVE  IInv' /\ LogType(Event)' /\ DoneStays
<1> USE DEF IInv
<1>1. Grows /\ LogType(Event)' /\ Len(log)' <= MaxEvents
  <2>1. CASE Appends(c, 0)
    <3>1. c \in Command
      BY DEF Sound
    <3> QED
      BY <2>1, <3>1, AppendsGrows
  <2>2. CASE UNCHANGED log
    BY <2>2, StaysGrows, TypedBefore
  <2> QED
    BY <2>1, <2>2 DEF Ask
<1>2. LocalsTyped' /\ \A w \in Workers : Moves(w)
  BY TypedBefore DEF Ask, local, LocalsTyped, Moves
<1> QED
  BY <1>1, <1>2, LocalStep, TypedBefore DEF Ask, local

\* Where the loaded events end up: what a worker that holds its item stages.
LEMMA Stages ==
  ASSUME IInv, NEW w \in Workers, pc[w] # "idle", NEW STATE s, s \in Seq(Numbers),
         \A i \in DOMAIN s : s[i] \in 1..cursor,
         Holds(w) => Lists(s, Done(PartitionOf(hand[w]))),
         Stage(w, s), UNCHANGED hand
  PROVE  /\ \A v \in Workers : Moves(v)
         /\ staged' \in [Workers -> Seq(Numbers)] /\ sent' \in [Workers -> Nat]
         /\ pc' \in [Workers -> {"idle", "load", "rebuild", "dispatch"}]
<1> USE DEF IInv
<1>1. hand[w] \in 1..cursor /\ hand[w] \in Numbers /\ cursor <= MaxEvents
  BY TypedBefore DEF Handed, TypeOK
<1>2. /\ Append(s, hand[w]) \in Seq(Numbers)
      /\ \A i \in DOMAIN Append(s, hand[w]) : Append(s, hand[w])[i] \in 1..cursor
  BY <1>1
<1>3. ASSUME Holds(w)
      PROVE  Lists(Append(s, hand[w]), Done(PartitionOf(hand[w])) \cup {hand[w]})
  <2>1. \A m \in Done(PartitionOf(hand[w])) : m < hand[w]
    <3> SUFFICES ASSUME NEW m \in Done(PartitionOf(hand[w])), ~(m < hand[w])
                 PROVE  FALSE
      OBVIOUS
    <3>1. /\ m \in 1..cursor /\ itemState[m] = "done"
          /\ PartitionOf(m) = PartitionOf(hand[w])
      BY DoneIff
    <3>2. itemState[hand[w]] = "claimed"
      BY <1>3 DEF Holds
    <3>3. hand[w] < m
      BY <1>1, <3>1, <3>2
    <3> QED
      BY <1>1, <3>1, <3>2, <3>3 DEF InOrder
  <2> QED
    BY <1>1, <1>3, <2>1, ListsAppend
<1> QED
  BY <1>2, <1>3, TypedBefore DEF Stage, Goto, Moves, LocalsTyped

LEMMA LoadStep ==
  ASSUME NEW Event, LogType(Event), IInv, NEW w \in Workers, LoadState(w)
  PROVE  IInv' /\ LogType(Event)' /\ DoneStays
<1> USE DEF IInv
<1> DEFINE row == readSnapshot(PartitionOf(hand[w]))
<1>1. Grows /\ LogType(Event)' /\ Len(log)' <= MaxEvents
  BY StaysGrows, TypedBefore DEF LoadState, store
<1>2. pc[w] = "load" /\ PartitionOf(hand[w]) \in Partitions
  BY DEF LoadState, Handed
<1>3. LocalsTyped' /\ \A v \in Workers : Moves(v)
  <2>1. CASE Matches(w, row)
    <3>1. row = snapshot[PartitionOf(hand[w])] /\ row # NoSnapshot
      BY <2>1 DEF Matches, readSnapshot
    <3>2. row.events \in Seq(Numbers) /\ Lists(row.events, Done(PartitionOf(hand[w])))
      BY <1>2, <3>1, TypedBefore DEF SnapshotIsFold, Rows
    <3>3. Stage(w, row.events) /\ UNCHANGED hand
      BY <2>1 DEF LoadState
    <3>4. \A n \in Done(PartitionOf(hand[w])) : n \in 1..cursor
      BY DoneIff
    <3> HIDE DEF row
    <3>5. \A i \in DOMAIN row.events : row.events[i] \in 1..cursor
      BY <3>2, <3>4 DEF Lists
    <3> QED
      BY <1>2, <3>2, <3>3, <3>5, Stages, TypedBefore DEF LoadState, LocalsTyped, store
  <2>2. CASE ~Matches(w, row)
    BY <1>2, <2>2, TypedBefore DEF LoadState, Goto, LocalsTyped, Moves, store
  <2> QED
    BY <2>1, <2>2
<1> QED
  BY <1>1, <1>3, LocalStep, TypedBefore DEF LoadState, store

LEMMA RebuildStep ==
  ASSUME NEW Event, LogType(Event), IInv, NEW w \in Workers, RebuildState(w)
  PROVE  IInv' /\ LogType(Event)' /\ DoneStays
<1> USE DEF IInv
<1> DEFINE S == RebuildEvents(hand[w])
<1>1. Grows /\ LogType(Event)' /\ Len(log)' <= MaxEvents
  BY StaysGrows, TypedBefore DEF RebuildState, store
<1>2. pc[w] = "rebuild" /\ hand[w] \in 1..cursor /\ PartitionOf(hand[w]) \in Partitions
  BY DEF RebuildState, Handed
<1>3. PICK s \in [1..Cardinality(S) -> S] : Lists(s, S) /\ Stage(w, s)
  BY DEF RebuildState
<1>4. S \subseteq Numbers
  BY TypedBefore DEF RebuildEvents, Done, Items, TypeOK
<1>5. Holds(w) => S = Done(PartitionOf(hand[w]))
  <2> SUFFICES ASSUME Holds(w), NEW m \in Done(PartitionOf(hand[w])) PROVE m < hand[w]
    BY DEF RebuildEvents
  <2>1. /\ m \in 1..cursor /\ itemState[m] = "done"
        /\ PartitionOf(m) = PartitionOf(hand[w])
    BY DoneIff
  <2>2. itemState[hand[w]] = "claimed"
    BY DEF Holds
  <2>3. cursor \in Nat
    BY DEF TypeOK
  <2> QED
    BY <1>2, <2>1, <2>2, <2>3 DEF InOrder
<1>6. s \in Seq(Numbers)
  <2>1. IsFiniteSet(S)
    <3>1. S \subseteq 1..cursor
      BY DEF RebuildEvents, Done, Items
    <3>2. cursor \in Nat
      BY DEF TypeOK
    <3> HIDE DEF S
    <3>3. IsFiniteSet(1..cursor)
      BY <3>2, FS_Interval
    <3> QED
      BY <3>1, <3>3, FS_Subset
  <2>2. Cardinality(S) \in Nat
    BY <2>1, FS_CardinalityType
  <2> HIDE DEF S
  <2> QED
    BY <1>4, <2>2
<1>7. LocalsTyped' /\ \A v \in Workers : Moves(v)
  <2>1. UNCHANGED hand
    BY DEF RebuildState
  <2>2. Holds(w) => Lists(s, Done(PartitionOf(hand[w])))
    BY <1>3, <1>5
  <2>3. \A n \in S : n \in 1..cursor
    BY DoneIff DEF RebuildEvents
  <2> HIDE DEF S
  <2>4. \A i \in DOMAIN s : s[i] \in 1..cursor
    BY <1>3, <2>3 DEF Lists
  <2> QED
    BY <1>2, <1>3, <1>6, <2>1, <2>2, <2>4, Stages, TypedBefore
       DEF RebuildState, LocalsTyped, store
<1> QED
  BY <1>1, <1>7, LocalStep, TypedBefore DEF RebuildState, store

LEMMA ThrowTyped ==
  ASSUME TypeOK, NEW w \in Workers, pc[w] = "dispatch", HandlerThrows(w),
         UNCHANGED asked, faults' \in 0..MaxFaults
  PROVE  LocalsTyped' /\ \A v \in Workers : Moves(v)
<1>1. asked' \subseteq Inputs
  BY TypedBefore DEF LocalsTyped
<1>2. CASE Leave(w)
  BY <1>1, <1>2, LeaveTyped
<1>3. CASE Goto(w, "load") /\ UNCHANGED <<hand, staged, sent>>
  BY <1>1, <1>3, TypedBefore DEF Goto, LocalsTyped, Moves
<1> QED
  BY <1>2, <1>3 DEF HandlerThrows

LEMMA HandNat ==
  ASSUME TypeOK, NEW w \in Workers PROVE hand[w] \in Nat
BY TypedBefore DEF LocalsTyped

\* What a worker has in hand is in the log and for an instance.
HandsFromLog ==
  \A w \in Workers : pc[w] # "idle" =>
    hand[w] \in 1..Len(log) /\ PartitionOf(hand[w]) \in Partitions

LEMMA HandedFromLog ==
  ASSUME TypeOK, Handed PROVE HandsFromLog
BY DEF TypeOK, Handed, HandsFromLog

\* What is dispatched is a command.
LEMMA DispatchesCommands ==
  ASSUME NEW Event, NEW Command, Sound(Event, Command), LogType(Event),
         TypeOK, HandsFromLog, StagedFromLog,
         NEW w \in Workers, pc[w] = "dispatch", ~AllSent(w)
  PROVE  NextCommand(w) \in Command
<1> DEFINE folded == [i \in DOMAIN staged[w] |-> log[staged[w][i]].event]
<1>1. Len(log) \in Nat /\ hand[w] \in 1..Len(log) /\ RouteFn(log[hand[w]].event) # Ignore
  BY PmAssumption DEF LogType, HandsFromLog, PartitionOf, PmAssumption
<1>2. folded \in Seq(Event)
  <2>1. \A i \in DOMAIN staged[w] : log[staged[w][i]].event \in Event
    BY EntryEvent DEF StagedFromLog
  <2>2. staged[w] \in Seq(Numbers)
    BY TypedBefore DEF LocalsTyped
  <2>3. DOMAIN staged[w] = 1..Len(staged[w]) /\ Len(staged[w]) \in Nat
    BY <2>2
  <2> QED
    BY <2>1, <2>3
<1>3. log[hand[w]].event \in Event
  BY <1>1, EntryEvent
<1>4. Result(w).commands \in Seq(Command)
  <2>1. Result(w) = Handle(folded, log[hand[w]].event)
    BY DEF Result
  <2> HIDE DEF folded
  <2> QED
    BY <1>1, <1>2, <1>3, <2>1 DEF Sound
<1>5. sent[w] + 1 \in 1..Len(Result(w).commands)
  <2>1. sent[w] \in Nat /\ Len(Result(w).commands) \in Nat
    BY <1>4, TypedBefore DEF LocalsTyped
  <2> QED
    BY <2>1 DEF AllSent
<1> QED
  BY <1>4, <1>5 DEF NextCommand

LEMMA Commands ==
  ASSUME NEW Event, NEW Command, Sound(Event, Command), LogType(Event), IInv,
         NEW w \in Workers, pc[w] = "dispatch", ~AllSent(w)
  PROVE  NextCommand(w) \in Command
BY HandedFromLog, DispatchesCommands DEF IInv

LEMMA DispatchStep ==
  ASSUME NEW Event, NEW Command, Sound(Event, Command), LogType(Event), IInv, NEW w \in Workers, Dispatch(w)
  PROVE  IInv' /\ LogType(Event)' /\ DoneStays
<1> USE DEF IInv
<1>1. Grows /\ LogType(Event)' /\ Len(log)' <= MaxEvents
  BY AppendsGrows, HandNat, Commands DEF Dispatch
<1>2. LocalsTyped' /\ \A v \in Workers : Moves(v)
  BY TypedBefore DEF Dispatch, LocalsTyped, Moves
<1> QED
  BY <1>1, <1>2, LocalStep, TypedBefore DEF Dispatch

LEMMA CommandThrowsStep ==
  ASSUME NEW Event, LogType(Event), IInv, NEW w \in Workers, CommandThrows(w)
  PROVE  IInv' /\ LogType(Event)' /\ DoneStays
<1> USE DEF IInv
<1>1. Grows /\ LogType(Event)' /\ Len(log)' <= MaxEvents
  BY StaysGrows, TypedBefore DEF CommandThrows, store
<1>2. LocalsTyped' /\ \A v \in Workers : Moves(v)
  BY ThrowTyped, TypedBefore DEF CommandThrows, store, LocalsTyped
<1> QED
  BY <1>1, <1>2, LocalStep, TypedBefore DEF CommandThrows, store

LEMMA AnswerLostStep ==
  ASSUME NEW Event, NEW Command, Sound(Event, Command), LogType(Event), IInv, NEW w \in Workers, AnswerLost(w)
  PROVE  IInv' /\ LogType(Event)' /\ DoneStays
<1> USE DEF IInv
<1>1. Grows /\ LogType(Event)' /\ Len(log)' <= MaxEvents
  BY AppendsGrows, HandNat, Commands DEF AnswerLost
<1>2. LocalsTyped' /\ \A v \in Workers : Moves(v)
  BY ThrowTyped, FaultTyped DEF AnswerLost
<1> QED
  BY <1>1, <1>2, LocalStep, TypedBefore DEF AnswerLost

LEMMA CrashStep ==
  ASSUME NEW Event, LogType(Event), IInv, NEW w \in Workers, Crash(w)
  PROVE  IInv' /\ LogType(Event)' /\ DoneStays
<1> USE DEF IInv
<1>1. Grows /\ LogType(Event)' /\ Len(log)' <= MaxEvents
  BY StaysGrows, TypedBefore DEF Crash, store
<1>2. LocalsTyped' /\ \A v \in Workers : Moves(v)
  BY LeaveTyped, FaultTyped, TypedBefore DEF Crash, store, LocalsTyped
<1> QED
  BY <1>1, <1>2, LocalStep, TypedBefore DEF Crash, store

LEMMA DeleteSnapshotStep ==
  ASSUME NEW Event, LogType(Event), IInv, NEW p \in Partitions, DeleteSnapshot(p)
  PROVE  IInv' /\ LogType(Event)' /\ DoneStays
<1> USE DEF IInv
<1>1. Grows /\ LogType(Event)' /\ Len(log)' <= MaxEvents
  BY StaysGrows, TypedBefore DEF DeleteSnapshot, store
<1>2. LocalsTyped' /\ \A v \in Workers : Moves(v)
  BY FaultTyped, TypedBefore DEF DeleteSnapshot, store, local, LocalsTyped, Moves
<1>3. /\ snapshot' \in [Partitions -> Rows \cup {NoSnapshot}]
      /\ \A q \in Partitions : snapshot'[q] \in {snapshot[q], NoSnapshot}
  BY TypedBefore DEF DeleteSnapshot
<1> QED
  BY <1>1, <1>2, <1>3, LocalStep, TypedBefore DEF DeleteSnapshot

LEMMA StutterStep ==
  ASSUME NEW Event, LogType(Event), IInv, UNCHANGED vars
  PROVE  IInv' /\ LogType(Event)' /\ DoneStays
<1> USE DEF IInv
<1>1. Grows /\ LogType(Event)' /\ Len(log)' <= MaxEvents
  BY StaysGrows, TypedBefore DEF vars, store
<1>2. LocalsTyped' /\ \A v \in Workers : Moves(v)
  BY TypedBefore DEF vars, store, local, LocalsTyped, Moves
<1> QED
  BY <1>1, <1>2, LocalStep, TypedBefore DEF vars

-----------------------------------------------------------------------------
(***************************************************************************)
(* Routing: one more item, or none, behind all the others.                 *)
(***************************************************************************)
LEMMA RouteQueue ==
  ASSUME NEW Event, NEW Command, Sound(Event, Command), LogType(Event), TypeOK, InOrder,
         RouteNext
  PROVE  /\ TypeOK' /\ InOrder' /\ LogType(Event)' /\ DoneStays
         /\ \A p \in Partitions : Items(p)' =
              Items(p) \cup (IF PartitionOf(cursor + 1) = p THEN {cursor + 1} ELSE {})
         /\ \A m : PartitionOf(m)' = PartitionOf(m)
         /\ \A m \in 1..cursor : m \in 1..cursor' /\ itemState'[m] = itemState[m]
<1> DEFINE n == cursor + 1
<1>1. /\ n \in Numbers /\ n <= Len(log) /\ cursor' = n /\ cursor \in Nat
      /\ itemState' = [itemState EXCEPT ![n] = Routed(n)]
      /\ Routed(n) \in {"absent", "pending"}
      /\ UNCHANGED <<log, asked, itemHolder, snapshot, pc, hand, staged, sent,
                     faults, rebuilds, settled>>
  BY TypedBefore DEF RouteNext, store, local, TypeOK, Routed
<1>2. \A m \in 1..n : m \in Numbers
  BY <1>1, TypedBefore
<1>3. /\ \A m : PartitionOf(m)' = PartitionOf(m)
      /\ LogType(Event)'
  BY <1>1 DEF PartitionOf, LogType
<1>4. \A m \in 1..cursor : m \in 1..n /\ m \in Numbers /\ itemState'[m] = itemState[m]
  BY <1>1, <1>2 DEF TypeOK
<1>5. itemState'[n] \in {"absent", "pending"}
  BY <1>1 DEF TypeOK
<1>6. TypeOK'
  <2>1. Routed(n) = "pending" => PartitionOf(n) \in Partitions
    <3>1. log[n].event \in Event
      <4>1. Len(log) \in Nat /\ n \in 1..Len(log)
        BY <1>1 DEF LogType, Numbers
      <4> HIDE DEF n
      <4> QED
        BY <4>1, EntryEvent
    <3>2. RouteFn(log[n].event) \in Partitions \cup {Ignore}
      BY <3>1 DEF Sound
    <3> QED
      BY <3>2 DEF Routed, PartitionOf
  <2>2. itemState' \in [Numbers -> {"absent", "pending", "claimed", "done"}]
    BY <1>1 DEF TypeOK
  <2>3. \A m \in Numbers : itemState'[m] # "absent" =>
          m <= cursor' /\ PartitionOf(m)' \in Partitions
    <3> SUFFICES ASSUME NEW m \in Numbers, itemState'[m] # "absent"
                 PROVE  m <= n /\ PartitionOf(m) \in Partitions
      BY <1>1, <1>3
    <3>1. CASE m = n
      BY <1>1, <2>1, <3>1 DEF TypeOK
    <3>2. CASE m # n
      <4>1. m <= cursor /\ PartitionOf(m) \in Partitions
        BY <1>1, <3>2 DEF TypeOK
      <4> QED
        BY <1>1, <4>1 DEF Numbers
    <3> QED
      BY <3>1, <3>2
  <2>4. cursor' \in 0..Len(log)'
    BY <1>1 DEF TypeOK
  <2> HIDE DEF n
  <2> QED
    BY <1>1, <2>2, <2>3, <2>4 DEF TypeOK
<1> HIDE DEF n
<1>7. \A p : Done(p)' = Done(p)
  <2> SUFFICES ASSUME NEW p PROVE Done(p)' = Done(p)
    OBVIOUS
  <2>1. ASSUME NEW m \in Done(p) PROVE m \in Done(p)'
    <3>1. m \in 1..cursor /\ itemState[m] = "done" /\ PartitionOf(m) = p
      BY <2>1, DoneIff
    <3> QED
      BY <1>1, <1>3, <1>4, <3>1 DEF Done, Items
  <2>2. ASSUME NEW m \in Done(p)' PROVE m \in Done(p)
    <3>1. m \in 1..n /\ itemState'[m] = "done" /\ PartitionOf(m) = p
      BY <1>1, <1>3, <2>2 DEF Done, Items
    <3>2. m # n
      BY <1>5, <3>1
    <3>3. m \in 1..cursor
      BY <1>1, <3>1, <3>2 DEF n
    <3> QED
      BY <1>4, <3>1, <3>3 DEF Done, Items
  <2> QED
    BY <2>1, <2>2
<1>8. InOrder'
  <2> SUFFICES ASSUME NEW k \in 1..n, NEW m \in 1..n,
                      itemState'[k] \in {"claimed", "done"},
                      m < k, itemState'[m] # "absent", PartitionOf(m) = PartitionOf(k)
               PROVE  itemState'[m] = "done"
    BY <1>1, <1>3 DEF InOrder
  <2>1. k # n
    BY <1>5
  <2>2. k \in 1..cursor /\ m \in 1..cursor
    BY <1>1, <2>1 DEF n
  <2> QED
    BY <1>4, <2>2 DEF InOrder
<1>9. ASSUME NEW p \in Partitions
      PROVE  Items(p)' = Items(p) \cup (IF PartitionOf(n) = p THEN {n} ELSE {})
  <2>1. PartitionOf(n) = p <=> itemState'[n] # "absent" /\ PartitionOf(n) = p
    BY <1>1, PmAssumption DEF TypeOK, Routed, PmAssumption
  <2>2. \A m : m \in 1..n <=> m \in 1..cursor \/ m = n
    BY <1>1 DEF n
  <2> QED
    BY <1>1, <1>3, <1>4, <2>1, <2>2 DEF Items
<1> QED
  BY <1>1, <1>3, <1>4, <1>6, <1>7, <1>8, <1>9 DEF DoneStays, n

LEMMA RouteStep ==
  ASSUME NEW Event, NEW Command, Sound(Event, Command), LogType(Event), IInv, RouteNext
  PROVE  IInv' /\ LogType(Event)' /\ DoneStays
<1> USE DEF IInv
<1>1. UNCHANGED <<log, itemHolder, snapshot, pc, hand, staged>>
  BY DEF RouteNext, store, local
<1>2. /\ TypeOK' /\ InOrder' /\ LogType(Event)' /\ DoneStays
      /\ \A m : PartitionOf(m)' = PartitionOf(m)
      /\ \A m \in 1..cursor : m \in 1..cursor' /\ itemState'[m] = itemState[m]
  BY RouteQueue
<1>3. Handed'
  BY <1>1, <1>2 DEF Handed
<1>4. SnapshotIsFold'
  <2> SUFFICES ASSUME NEW p \in Partitions, snapshot[p] # NoSnapshot
               PROVE  /\ Lists(snapshot[p].events, Done(p)')
                      /\ snapshot[p].version \in Done(p)'
                      /\ \A m \in Done(p)' : m <= snapshot[p].version
    BY <1>1 DEF SnapshotIsFold, Lists, Increasing
  <2> QED
    BY <1>2 DEF SnapshotIsFold, DoneStays
<1>5. HandlesFold'
  <2> SUFFICES ASSUME NEW w \in Workers, pc[w] = "dispatch", Holds(w)'
               PROVE  Lists(staged[w], Done(PartitionOf(hand[w])) \cup {hand[w]})'
    BY <1>1 DEF HandlesFold
  <2>1. hand[w] \in 1..cursor
    BY DEF Handed
  <2>2. Holds(w)
    BY <1>1, <1>2, <2>1 DEF Holds
  <2>3. Lists(staged[w], Done(PartitionOf(hand[w])) \cup {hand[w]})
    BY <2>2 DEF HandlesFold
  <2>4. Done(PartitionOf(hand[w]))' = Done(PartitionOf(hand[w]))
    BY <1>1, <1>2 DEF DoneStays
  <2> QED
    BY <1>1, <2>3, <2>4 DEF Lists, Increasing
<1> QED
  BY <1>1, <1>2, <1>3, <1>4, <1>5 DEF StagedFromLog

-----------------------------------------------------------------------------
(***************************************************************************)
(* Claims and takeovers.                                                   *)
(***************************************************************************)
LEMMA TakesQueue ==
  ASSUME NEW Event, LogType(Event), TypeOK, InOrder, NEW w \in Workers, NEW n \in Numbers,
         pc[w] = "idle", itemState[n] \in {"pending", "claimed"}, Front(n),
         Takes(w, n), faults' \in 0..MaxFaults
  PROVE  /\ TypeOK' /\ InOrder' /\ LogType(Event)' /\ DoneStays
         /\ \A p : Items(p)' = Items(p)
         /\ n \in 1..cursor /\ PartitionOf(n) \in Partitions
<1>1. /\ itemState' = [itemState EXCEPT ![n] = "claimed"]
      /\ itemHolder' = [itemHolder EXCEPT ![n] = w]
      /\ hand' = [hand EXCEPT ![w] = n]
      /\ pc' = [pc EXCEPT ![w] = "load"]
      /\ UNCHANGED <<log, asked, cursor, snapshot, staged, sent, rebuilds, settled>>
  BY DEF Takes, Goto, store
<1>2. /\ \A m : PartitionOf(m)' = PartitionOf(m)
      /\ LogType(Event)'
  BY <1>1 DEF PartitionOf, LogType
<1>3. /\ itemState'[n] = "claimed" /\ n \in 1..cursor /\ PartitionOf(n) \in Partitions
      /\ \A m \in Numbers : m # n => itemState'[m] = itemState[m]
      /\ cursor \in Nat /\ \A m \in 1..cursor : m \in Numbers
  <2>1. n <= cursor /\ PartitionOf(n) \in Partitions
    BY DEF TypeOK
  <2>2. cursor \in Nat /\ cursor <= MaxEvents
    BY TypedBefore DEF TypeOK
  <2>3. n \in 1..cursor /\ \A m \in 1..cursor : m \in Numbers
    BY <2>1, <2>2, TypedBefore
  <2> QED
    BY <1>1, <2>1, <2>2, <2>3 DEF TypeOK
<1>4. TypeOK'
  <2>1. itemState' \in [Numbers -> {"absent", "pending", "claimed", "done"}]
    BY <1>1 DEF TypeOK
  <2>2. \A m \in Numbers : itemState'[m] # "absent" =>
          m <= cursor' /\ PartitionOf(m)' \in Partitions
    BY <1>1, <1>2, <1>3 DEF TypeOK
  <2>3. hand' \in [Workers -> 0..MaxEvents]
    BY <1>1, TypedBefore DEF TypeOK
  <2> QED
    BY <1>1, <2>1, <2>2, <2>3 DEF TypeOK
<1>5. \A p : Done(p)' = Done(p)
  BY <1>1, <1>2, <1>3 DEF Done, Items
<1>6. InOrder'
  <2> SUFFICES ASSUME NEW k \in 1..cursor, NEW m \in 1..cursor,
                      itemState'[k] \in {"claimed", "done"},
                      m < k, itemState'[m] # "absent", PartitionOf(m) = PartitionOf(k)
               PROVE  itemState'[m] = "done"
    BY <1>1, <1>2 DEF InOrder
  <2>1. itemState[m] # "absent"
    BY <1>3
  <2>2. CASE k = n
    <3>1. m \in Items(PartitionOf(n))
      BY <2>1, <2>2 DEF Items
    <3>2. itemState[m] = "done" /\ m # n
      BY <1>3, <2>2, <3>1 DEF Front
    <3> QED
      BY <1>3, <3>2
  <2>3. CASE k # n
    <3>1. itemState[m] = "done"
      BY <1>3, <2>1, <2>3 DEF InOrder
    <3> QED
      BY <1>3, <3>1
  <2> QED
    BY <2>2, <2>3
<1>7. \A p : Items(p)' = Items(p)
  BY <1>1, <1>2, <1>3 DEF Items
<1> QED
  BY <1>2, <1>3, <1>4, <1>5, <1>6, <1>7 DEF DoneStays

LEMMA TakesStep ==
  ASSUME NEW Event, LogType(Event), IInv, NEW w \in Workers, NEW n \in Numbers,
         pc[w] = "idle", itemState[n] \in {"pending", "claimed"}, Front(n),
         Takes(w, n), faults' \in 0..MaxFaults
  PROVE  IInv' /\ LogType(Event)' /\ DoneStays
<1> USE DEF IInv
<1>1. /\ itemState' = [itemState EXCEPT ![n] = "claimed"]
      /\ itemHolder' = [itemHolder EXCEPT ![n] = w]
      /\ hand' = [hand EXCEPT ![w] = n]
      /\ pc' = [pc EXCEPT ![w] = "load"]
      /\ UNCHANGED <<log, cursor, snapshot, staged>>
  BY DEF Takes, Goto, store
<1>2. /\ TypeOK' /\ InOrder' /\ LogType(Event)' /\ DoneStays
      /\ n \in 1..cursor /\ PartitionOf(n) \in Partitions
  BY TakesQueue
<1>3. /\ itemState'[n] = "claimed" /\ \A m : PartitionOf(m)' = PartitionOf(m)
      /\ \A m \in Numbers : m # n => itemState'[m] = itemState[m]
      /\ \A m \in 1..cursor : m \in Numbers
  BY <1>1, TypedBefore DEF TypeOK, PartitionOf
<1>4. Handed'
  BY <1>1, <1>2, <1>3 DEF Handed, TypeOK
<1>5. SnapshotIsFold'
  <2> SUFFICES ASSUME NEW p \in Partitions, snapshot[p] # NoSnapshot
               PROVE  /\ Lists(snapshot[p].events, Done(p)')
                      /\ snapshot[p].version \in Done(p)'
                      /\ \A m \in Done(p)' : m <= snapshot[p].version
    BY <1>1 DEF SnapshotIsFold, Lists, Increasing
  <2> QED
    BY <1>2 DEF SnapshotIsFold, DoneStays
<1>6. HandlesFold'
  <2> SUFFICES ASSUME NEW v \in Workers, pc'[v] = "dispatch", Holds(v)'
               PROVE  Lists(staged[v], Done(PartitionOf(hand[v])) \cup {hand[v]})'
    BY <1>1 DEF HandlesFold
  <2>1. v # w
    BY <1>1 DEF TypeOK
  <2>2. pc[v] = "dispatch" /\ hand'[v] = hand[v] /\ hand[v] \in 1..cursor
    BY <1>1, <2>1 DEF Handed, TypeOK
  <2>3. hand[v] # n
    BY <1>1, <2>1, <2>2 DEF Holds, TypeOK
  <2>4. Holds(v)
    BY <1>1, <1>3, <2>2, <2>3 DEF Holds, TypeOK
  <2>5. Lists(staged[v], Done(PartitionOf(hand[v])) \cup {hand[v]})
    BY <2>2, <2>4 DEF HandlesFold
  <2>6. Done(PartitionOf(hand[v]))' = Done(PartitionOf(hand[v]))
    BY <1>2, <1>3, <2>2 DEF DoneStays
  <2> QED
    BY <1>1, <2>2, <2>5, <2>6 DEF Lists, Increasing
<1> QED
  BY <1>1, <1>2, <1>4, <1>5, <1>6 DEF StagedFromLog

LEMMA ClaimStep ==
  ASSUME NEW Event, LogType(Event), IInv, NEW w \in Workers, NEW n \in Numbers,
         Claim(w, n) \/ TakeOver(w, n)
  PROVE  IInv' /\ LogType(Event)' /\ DoneStays
<1>1. pc[w] = "idle" /\ itemState[n] \in {"pending", "claimed"} /\ Front(n) /\ Takes(w, n)
  BY DEF Claim, TakeOver
<1>2. faults' \in 0..MaxFaults
  BY FaultTyped, TypedBefore DEF Claim, TakeOver, IInv, LocalsTyped
<1> QED
  BY <1>1, <1>2, TakesStep

-----------------------------------------------------------------------------
(***************************************************************************)
(* Completion.                                                             *)
(***************************************************************************)
\* What AbsorbsInOrder says of a step.
Absorbs ==
  \A p \in Partitions :
    \/ Done(p)' \in {Done(p), {}}
    \/ \E n \in Numbers : /\ Done(p)' = Done(p) \cup {n}
                          /\ \A m \in Done(p) : m < n

LEMMA CompleteLeaves ==
  ASSUME NEW Event, LogType(Event), TypeOK, HandsFromLog, StagedFromLog,
         NEW w \in Workers, Complete(w)
  PROVE  /\ UNCHANGED <<log, asked, cursor, faults, rebuilds>>
         /\ LogType(Event)' /\ \A m : PartitionOf(m)' = PartitionOf(m)
         /\ LocalsTyped' /\ pc' = [pc EXCEPT ![w] = "idle"]
         /\ \A v \in Workers : v # w => hand'[v] = hand[v] /\ staged'[v] = staged[v]
         /\ settled' \subseteq Numbers /\ StagedFromLog'
         /\ pc[w] = "dispatch" /\ hand[w] \in 1..Len(log) /\ hand[w] \in Numbers
         /\ PartitionOf(hand[w]) \in Partitions
         /\ cursor \in Nat /\ \A m \in 1..cursor : m \in Numbers
<1>1. /\ UNCHANGED <<log, asked, cursor, faults, rebuilds>>
      /\ Leave(w) /\ Settles(w) /\ pc[w] = "dispatch"
  BY DEF Complete, store
<1>2. /\ hand[w] \in 1..Len(log) /\ PartitionOf(hand[w]) \in Partitions
      /\ hand[w] \in Numbers /\ cursor \in Nat /\ \A m \in 1..cursor : m \in Numbers
  <2>1. hand[w] \in 1..Len(log) /\ PartitionOf(hand[w]) \in Partitions
    BY <1>1 DEF HandsFromLog
  <2>2. Len(log) \in Nat /\ Len(log) <= MaxEvents /\ cursor \in 0..Len(log)
    BY DEF TypeOK
  <2> QED
    BY <2>1, <2>2, TypedBefore
<1>3. settled' \subseteq Numbers
  <2>1. Items(PartitionOf(hand[w])) \subseteq Numbers /\ hand[w] \in Numbers
    BY <1>2 DEF Items
  <2> QED
    BY <1>1, <2>1, TypedBefore DEF Settles
<1>4. LocalsTyped'
  BY <1>1, LeaveTyped, TypedBefore DEF LocalsTyped
<1>5. /\ pc' = [pc EXCEPT ![w] = "idle"]
      /\ \A v \in Workers : v # w => hand'[v] = hand[v] /\ staged'[v] = staged[v]
  BY <1>1 DEF Leave, Goto, TypeOK
<1>6. StagedFromLog'
  <2>1. staged' = [staged EXCEPT ![w] = <<>>] /\ DOMAIN <<>> = {}
    BY <1>1 DEF Leave
  <2>2. \A v \in Workers : staged'[v] \in {staged[v], <<>>}
    BY <2>1 DEF TypeOK
  <2> QED
    BY <1>1, <2>1, <2>2 DEF StagedFromLog
<1> QED
  BY <1>1, <1>2, <1>3, <1>4, <1>5, <1>6 DEF PartitionOf, LogType

LEMMA CompleteFacts ==
  ASSUME NEW Event, LogType(Event), IInv, NEW w \in Workers, Complete(w)
  PROVE  /\ UNCHANGED <<log, asked, cursor, faults, rebuilds>>
         /\ LogType(Event)' /\ \A m : PartitionOf(m)' = PartitionOf(m)
         /\ LocalsTyped' /\ pc' = [pc EXCEPT ![w] = "idle"]
         /\ \A v \in Workers : v # w => hand'[v] = hand[v] /\ staged'[v] = staged[v]
         /\ settled' \subseteq Numbers /\ StagedFromLog'
         /\ pc[w] = "dispatch" /\ hand[w] \in 1..cursor /\ hand[w] \in Numbers
         /\ PartitionOf(hand[w]) \in Partitions
         /\ cursor \in Nat /\ \A m \in 1..cursor : m \in Numbers
<1>1. hand[w] \in 1..cursor
  BY DEF IInv, Handed, Complete
<1> QED
  BY <1>1, HandedFromLog, CompleteLeaves DEF IInv

\* complete_pm_instance: the partition is empty.
LEMMA EndsQueue ==
  ASSUME NEW Event, LogType(Event), TypeOK, InOrder, HandsFromLog, StagedFromLog,
         NEW w \in Workers, Complete(w),
         NEW p \in Partitions, p = PartitionOf(hand[w]), CompletePmInstance(p)
  PROVE  /\ TypeOK' /\ InOrder' /\ Absorbs
         /\ Items(p)' = {} /\ Done(p)' = {}
         /\ \A q : q # p => Items(q)' = Items(q) /\ Done(q)' = Done(q)
<1> USE CompleteLeaves
<1>1. /\ \A m \in Numbers : itemState'[m] = IF m \in Items(p) THEN "absent" ELSE itemState[m]
      /\ \A m \in Numbers : itemHolder'[m] = IF m \in Items(p) THEN NoWorker ELSE itemHolder[m]
      /\ snapshot' = [snapshot EXCEPT ![p] = NoSnapshot]
      /\ itemState' \in [Numbers -> {"absent", "pending", "claimed", "done"}]
      /\ itemHolder' \in [Numbers -> Workers \cup {NoWorker}]
  BY DEF CompletePmInstance, TypeOK
<1>2. \A m \in 1..cursor :
        itemState'[m] # "absent" => itemState'[m] = itemState[m] /\ PartitionOf(m) # p
  BY <1>1 DEF Items
<1>3. \A m \in 1..cursor : PartitionOf(m) # p =>
        itemState'[m] = itemState[m] /\ itemHolder'[m] = itemHolder[m]
  BY <1>1 DEF Items
<1>4. Items(p)' = {} /\ Done(p)' = {}
  BY <1>2 DEF Done, Items
<1>5. \A q : q # p => Items(q)' = Items(q) /\ Done(q)' = Done(q)
  BY <1>3 DEF Done, Items
<1>6. Absorbs
  BY <1>4, <1>5 DEF Absorbs
<1>7. TypeOK'
  <2>1. \A m \in Numbers : itemState'[m] # "absent" =>
          m <= cursor' /\ PartitionOf(m)' \in Partitions
    <3>1. \A m \in Numbers : itemState[m] # "absent" =>
            m <= cursor /\ PartitionOf(m) \in Partitions
      BY DEF TypeOK
    <3>2. cursor' = cursor /\ \A m : PartitionOf(m)' = PartitionOf(m)
      OBVIOUS
    <3> QED
      BY <1>1, <3>1, <3>2
  <2>2. snapshot' \in [Partitions -> Rows \cup {NoSnapshot}]
    BY <1>1, TypedBefore
  <2> QED
    BY <1>1, <2>1, <2>2 DEF TypeOK, LocalsTyped, Rows
<1>8. InOrder'
  BY <1>2, <1>3 DEF InOrder
<1> QED
  BY <1>4, <1>5, <1>6, <1>7, <1>8

LEMMA EndsInstance ==
  ASSUME NEW Event, LogType(Event), IInv, NEW w \in Workers, Complete(w),
         CompletePmInstance(PartitionOf(hand[w]))
  PROVE  IInv' /\ Absorbs
<1> USE DEF IInv
<1> USE CompleteFacts
<1>0. PICK p \in Partitions : p = PartitionOf(hand[w])
  OBVIOUS
<1>1. /\ \A m \in Numbers : itemState'[m] = IF m \in Items(p) THEN "absent" ELSE itemState[m]
      /\ \A m \in Numbers : itemHolder'[m] = IF m \in Items(p) THEN NoWorker ELSE itemHolder[m]
      /\ snapshot' = [snapshot EXCEPT ![p] = NoSnapshot]
      /\ itemState' \in [Numbers -> {"absent", "pending", "claimed", "done"}]
      /\ itemHolder' \in [Numbers -> Workers \cup {NoWorker}]
  BY <1>0 DEF CompletePmInstance, TypeOK
<1>2. \A m \in 1..cursor :
        itemState'[m] # "absent" => itemState'[m] = itemState[m] /\ PartitionOf(m) # p
  BY <1>1 DEF Items
<1>3. \A m \in 1..cursor : PartitionOf(m) # p =>
        itemState'[m] = itemState[m] /\ itemHolder'[m] = itemHolder[m]
  BY <1>1 DEF Items
<1>4. /\ TypeOK' /\ InOrder' /\ Absorbs
      /\ \A q : q # p => Items(q)' = Items(q) /\ Done(q)' = Done(q)
  BY <1>0, HandedFromLog, EndsQueue
<1>5. Handed'
  <2> SUFFICES ASSUME NEW v \in Workers, pc'[v] # "idle"
               PROVE  (hand[v] \in 1..cursor /\ PartitionOf(hand[v]) \in Partitions)'
    BY DEF Handed
  <2>1. v # w /\ pc[v] # "idle" /\ hand'[v] = hand[v]
    BY DEF TypeOK
  <2>2. cursor' = cursor /\ PartitionOf(hand[v])' = PartitionOf(hand[v])
    BY <2>1 DEF PartitionOf
  <2> QED
    BY <2>1, <2>2 DEF Handed
<1>6. SnapshotIsFold'
  <2> SUFFICES ASSUME NEW q \in Partitions, snapshot'[q] # NoSnapshot
               PROVE  /\ Lists(snapshot'[q].events, Done(q)')
                      /\ snapshot'[q].version \in Done(q)'
                      /\ \A m \in Done(q)' : m <= snapshot'[q].version
    BY DEF SnapshotIsFold, Lists, Increasing
  <2>1. q # p /\ snapshot'[q] = snapshot[q]
    BY <1>1, TypedBefore
  <2> QED
    BY <1>4, <2>1 DEF SnapshotIsFold
<1>7. HandlesFold'
  <2> SUFFICES ASSUME NEW v \in Workers, pc'[v] = "dispatch", Holds(v)'
               PROVE  Lists(staged[v], Done(PartitionOf(hand[v])) \cup {hand[v]})'
    BY DEF HandlesFold
  <2>1. v # w /\ pc[v] = "dispatch" /\ hand'[v] = hand[v] /\ staged'[v] = staged[v]
        /\ hand[v] \in 1..cursor
    BY DEF TypeOK, Handed
  <2>2. itemState'[hand[v]] = "claimed" /\ itemHolder'[hand[v]] = v
    BY <2>1 DEF Holds
  <2>3. PartitionOf(hand[v]) # p
    BY <1>2, <2>1, <2>2
  <2>4. Holds(v)
    BY <1>3, <2>1, <2>2, <2>3 DEF Holds
  <2>5. Lists(staged[v], Done(PartitionOf(hand[v])) \cup {hand[v]})
    BY <2>1, <2>4 DEF HandlesFold
  <2>6. Done(PartitionOf(hand[v]))' = Done(PartitionOf(hand[v]))
    <3>1. PartitionOf(hand[v])' = PartitionOf(hand[v])
      BY <2>1 DEF PartitionOf
    <3>2. PICK q : q = PartitionOf(hand[v])
      OBVIOUS
    <3> QED
      BY <1>4, <2>3, <3>1, <3>2
  <2> QED
    BY <2>1, <2>5, <2>6 DEF Lists, Increasing
<1> QED
  BY <1>4, <1>5, <1>6, <1>7

\* complete_work_item_pm by the holder: the partition has absorbed the event.
LEMMA AbsorbsQueue ==
  ASSUME NEW Event, LogType(Event), TypeOK, InOrder, HandsFromLog, StagedFromLog,
         NEW w \in Workers, Complete(w), Holds(w), CompleteWorkItemPm(w),
         NEW n \in Numbers, n = hand[w], NEW p \in Partitions, p = PartitionOf(n)
  PROVE  /\ TypeOK' /\ InOrder' /\ Absorbs
         /\ n \in 1..cursor /\ Done(p)' = Done(p) \cup {n}
         /\ \A m \in Done(p) : m < n
         /\ \A q : Items(q)' = Items(q) /\ (q # p => Done(q)' = Done(q))
         /\ n \in Items(p) \ Done(p) /\ \A m \in Items(p) \ Done(p) : n <= m
<1> USE CompleteLeaves
<1>1. /\ itemState' = [itemState EXCEPT ![n] = "done"]
      /\ itemHolder' = [itemHolder EXCEPT ![n] = NoWorker]
      /\ snapshot' = [snapshot EXCEPT ![p] = Row(w)]
      /\ itemState[n] = "claimed" /\ n \in 1..cursor /\ PartitionOf(n) = p
  <2>1. itemState[n] = "claimed" /\ n <= cursor
    BY DEF Holds, TypeOK
  <2>2. n \in 1..cursor
    BY <2>1, TypedBefore
  <2> QED
    BY <2>1, <2>2 DEF CompleteWorkItemPm
<1>2. /\ itemState'[n] = "done" /\ itemHolder'[n] = NoWorker
      /\ \A m \in Numbers : m # n =>
           itemState'[m] = itemState[m] /\ itemHolder'[m] = itemHolder[m]
      /\ itemState' \in [Numbers -> {"absent", "pending", "claimed", "done"}]
      /\ itemHolder' \in [Numbers -> Workers \cup {NoWorker}]
  BY <1>1 DEF TypeOK
<1>3. Done(p)' = Done(p) \cup {n}
  BY <1>1, <1>2 DEF Done, Items
<1>4. \A q : /\ Items(q)' = Items(q)
             /\ q # p => Done(q)' = Done(q)
  BY <1>1, <1>2 DEF Done, Items
<1>5. \A m \in Done(p) : m < n
  <2> SUFFICES ASSUME NEW m \in Done(p), ~(m < n) PROVE FALSE
    OBVIOUS
  <2>1. m \in 1..cursor /\ itemState[m] = "done" /\ PartitionOf(m) = PartitionOf(n)
    BY <1>1, DoneIff
  <2>2. n < m
    BY <1>1, <2>1
  <2> QED
    BY <1>1, <2>1, <2>2 DEF InOrder
<1>6. Absorbs
  BY <1>3, <1>4, <1>5 DEF Absorbs
<1>7. /\ Row(w) \in Rows /\ Row(w) # NoSnapshot
      /\ Row(w).version = n /\ Row(w).events = staged[w]
  <2>1. staged[w] \in Seq(Numbers) /\ ModuleOf[w] \in Modules
    BY TypedBefore DEF LocalsTyped, Modules
  <2>2. Row(w) = [version |-> n, shape |-> ModuleOf[w], events |-> staged[w]]
    BY DEF Row
  <2>3. Row(w) \in Rows
    BY <2>1, <2>2 DEF Rows
  <2> QED
    BY <2>2, <2>3, PmAssumption DEF PmAssumption, Rows
<1>8. TypeOK'
  <2>1. \A m \in Numbers : itemState'[m] # "absent" =>
          m <= cursor' /\ PartitionOf(m)' \in Partitions
    <3>1. \A m \in Numbers : itemState[m] # "absent" =>
            m <= cursor /\ PartitionOf(m) \in Partitions
      BY DEF TypeOK
    <3>2. cursor' = cursor /\ \A m : PartitionOf(m)' = PartitionOf(m)
      OBVIOUS
    <3> QED
      BY <1>1, <1>2, <3>1, <3>2
  <2>2. snapshot' \in [Partitions -> Rows \cup {NoSnapshot}]
    BY <1>1, <1>7, TypedBefore
  <2> QED
    BY <1>2, <2>1, <2>2 DEF TypeOK, LocalsTyped, Rows
<1>9. InOrder'
  BY <1>1, <1>2 DEF InOrder
<1>10. n \in Items(p) \ Done(p)
  BY <1>1 DEF Items, Done
<1>11. \A m \in Items(p) \ Done(p) : n <= m
  <2> SUFFICES ASSUME NEW m \in Items(p) \ Done(p), ~(n <= m) PROVE FALSE
    OBVIOUS
  <2>1. /\ m \in 1..cursor /\ itemState[m] # "absent" /\ itemState[m] # "done"
        /\ PartitionOf(m) = PartitionOf(n)
    BY <1>1 DEF Items, Done
  <2>2. m < n
    BY <1>1, <2>1
  <2> QED
    BY <1>1, <2>1, <2>2 DEF InOrder
<1> QED
  BY <1>1, <1>3, <1>4, <1>5, <1>6, <1>8, <1>9, <1>10, <1>11

LEMMA AbsorbsEvent ==
  ASSUME NEW Event, LogType(Event), IInv, NEW w \in Workers, Complete(w), Holds(w),
         CompleteWorkItemPm(w)
  PROVE  IInv' /\ Absorbs
<1> USE DEF IInv
<1> USE CompleteFacts
<1>0. PICK n \in Numbers, p \in Partitions : n = hand[w] /\ p = PartitionOf(n)
  OBVIOUS
<1>1. /\ itemState' = [itemState EXCEPT ![n] = "done"]
      /\ itemHolder' = [itemHolder EXCEPT ![n] = NoWorker]
      /\ snapshot' = [snapshot EXCEPT ![p] = Row(w)]
      /\ itemState[n] = "claimed" /\ n \in 1..cursor /\ PartitionOf(n) = p
  BY <1>0 DEF CompleteWorkItemPm, Holds
<1>2. /\ itemState'[n] = "done" /\ itemHolder'[n] = NoWorker
      /\ \A m \in Numbers : m # n =>
           itemState'[m] = itemState[m] /\ itemHolder'[m] = itemHolder[m]
      /\ itemState' \in [Numbers -> {"absent", "pending", "claimed", "done"}]
      /\ itemHolder' \in [Numbers -> Workers \cup {NoWorker}]
  BY <1>1 DEF TypeOK
<1>3. /\ TypeOK' /\ InOrder' /\ Absorbs
      /\ Done(p)' = Done(p) \cup {n} /\ \A m \in Done(p) : m < n
      /\ \A q : q # p => Done(q)' = Done(q)
  BY <1>0, HandedFromLog, AbsorbsQueue
<1>4. Row(w).version = n /\ Row(w).events = staged[w]
  BY <1>0 DEF Row
<1>5. Lists(staged[w], Done(p) \cup {n})
  BY <1>0, <1>1 DEF HandlesFold
<1>6. Handed'
  <2> SUFFICES ASSUME NEW v \in Workers, pc'[v] # "idle"
               PROVE  (hand[v] \in 1..cursor /\ PartitionOf(hand[v]) \in Partitions)'
    BY DEF Handed
  <2>1. v # w /\ pc[v] # "idle" /\ hand'[v] = hand[v]
    BY DEF TypeOK
  <2>2. cursor' = cursor /\ PartitionOf(hand[v])' = PartitionOf(hand[v])
    BY <2>1 DEF PartitionOf
  <2> QED
    BY <2>1, <2>2 DEF Handed
<1>7. SnapshotIsFold'
  <2> SUFFICES ASSUME NEW q \in Partitions, snapshot'[q] # NoSnapshot
               PROVE  /\ Lists(snapshot'[q].events, Done(q)')
                      /\ snapshot'[q].version \in Done(q)'
                      /\ \A m \in Done(q)' : m <= snapshot'[q].version
    BY DEF SnapshotIsFold, Lists, Increasing
  <2>1. CASE q = p
    <3>1. snapshot'[q] = Row(w)
      BY <1>1, <2>1, TypedBefore
    <3>2. \A m \in Done(p) \cup {n} : m <= n
      BY <1>1, <1>3, DoneIff
    <3> QED
      BY <1>3, <1>4, <1>5, <2>1, <3>1, <3>2
  <2>2. CASE q # p
    <3>1. snapshot'[q] = snapshot[q] /\ Done(q)' = Done(q)
      BY <1>1, <1>3, <2>2, TypedBefore
    <3> QED
      BY <3>1 DEF SnapshotIsFold
  <2> QED
    BY <2>1, <2>2
<1>8. HandlesFold'
  <2> SUFFICES ASSUME NEW v \in Workers, pc'[v] = "dispatch", Holds(v)'
               PROVE  Lists(staged[v], Done(PartitionOf(hand[v])) \cup {hand[v]})'
    BY DEF HandlesFold
  <2>1. v # w /\ pc[v] = "dispatch" /\ hand'[v] = hand[v] /\ staged'[v] = staged[v]
        /\ hand[v] \in 1..cursor
    BY DEF TypeOK, Handed
  <2>2. itemState'[hand[v]] = "claimed" /\ itemHolder'[hand[v]] = v
    BY <2>1 DEF Holds
  <2>3. hand[v] # n /\ Holds(v)
    BY <1>2, <2>1, <2>2 DEF Holds
  <2>4. PartitionOf(hand[v]) # p
    <3> SUFFICES ASSUME PartitionOf(hand[v]) = p PROVE FALSE
      OBVIOUS
    <3>1. itemState[hand[v]] = "claimed"
      BY <2>3 DEF Holds
    <3>2. CASE hand[v] < n
      BY <1>1, <2>1, <3>1, <3>2 DEF InOrder
    <3>3. CASE n < hand[v]
      BY <1>1, <2>1, <3>1, <3>3 DEF InOrder
    <3> QED
      BY <1>1, <2>1, <2>3, <3>2, <3>3
  <2>5. Lists(staged[v], Done(PartitionOf(hand[v])) \cup {hand[v]})
    BY <2>1, <2>3 DEF HandlesFold
  <2>6. Done(PartitionOf(hand[v]))' = Done(PartitionOf(hand[v]))
    <3>1. PartitionOf(hand[v])' = PartitionOf(hand[v])
      BY <2>1 DEF PartitionOf
    <3>2. PICK q : q = PartitionOf(hand[v])
      OBVIOUS
    <3> QED
      BY <1>3, <2>4, <3>1, <3>2
  <2> QED
    BY <2>1, <2>5, <2>6 DEF Lists, Increasing
<1> QED
  BY <1>3, <1>6, <1>7, <1>8

LEMMA CompleteStep ==
  ASSUME NEW Event, LogType(Event), IInv, NEW w \in Workers, Complete(w)
  PROVE  IInv' /\ LogType(Event)' /\ Absorbs
<1> USE CompleteFacts
<1>1. CASE CompletePmInstance(PartitionOf(hand[w]))
  BY <1>1, EndsInstance
<1>2. CASE Holds(w) /\ CompleteWorkItemPm(w)
  BY <1>2, AbsorbsEvent
<1>3. CASE UNCHANGED <<itemState, itemHolder, snapshot>>
  <2>1. Grows /\ Len(log)' <= MaxEvents
    BY StaysGrows, TypedBefore DEF IInv
  <2>2. \A v \in Workers : Moves(v)
    <3>1. Leave(w) /\ asked' \subseteq Inputs /\ faults' \in 0..MaxFaults
      BY TypedBefore DEF IInv, Complete, store, LocalsTyped
    <3> QED
      BY <3>1, LeaveTyped DEF IInv
  <2>3. IInv' /\ DoneStays
    BY <1>3, <2>1, <2>2, LocalStep, TypedBefore DEF IInv, queue
  <2> QED
    BY <2>3 DEF DoneStays, Absorbs
<1> QED
  BY <1>1, <1>2, <1>3 DEF Complete, CompleteWorkItemPm

-----------------------------------------------------------------------------
(***************************************************************************)
(* The invariant is inductive.                                             *)
(***************************************************************************)
LEMMA InitIInv ==
  ASSUME NEW Event, NEW Command, Sound(Event, Command), Init PROVE IInv /\ LogType(Event)
<1>1. /\ Opening \in Seq(Event) /\ Len(Opening) \in Nat /\ DOMAIN Opening = 1..Len(Opening)
      /\ \A i \in 1..Len(Opening) : Opening[i] \in Event
  BY DEF Sound
<1>2. LogType(Event) /\ Len(log) = Len(Opening)
  BY <1>1 DEF Init, LogType
<1>3. MaxEvents \in Nat /\ MaxFaults \in Nat /\ MaxRebuilds \in Nat /\ Len(log) <= MaxEvents
  BY <1>2, PmAssumption DEF PmAssumption
<1>4. TypeOK
  <2>1. DOMAIN log = 1..Len(log) /\ Len(log) \in 0..MaxEvents /\ cursor \in 0..Len(log)
    BY <1>1, <1>2, <1>3 DEF Init
  <2>2. hand \in [Workers -> 0..MaxEvents] /\ faults \in 0..MaxFaults
        /\ rebuilds \in 0..MaxRebuilds
    BY <1>3 DEF Init
  <2> QED
    BY <2>1, <2>2 DEF Init, TypeOK
<1>5. InOrder /\ Handed /\ StagedFromLog /\ SnapshotIsFold /\ HandlesFold
  BY DEF Init, InOrder, Handed, StagedFromLog, SnapshotIsFold, HandlesFold
<1> QED
  BY <1>2, <1>4, <1>5 DEF IInv

LEMMA NextIInv ==
  ASSUME NEW Event, NEW Command, Sound(Event, Command), IInv, LogType(Event), [Next]_vars
  PROVE  IInv' /\ LogType(Event)' /\ Absorbs
<1> USE DEF Absorbs, DoneStays
<1>1. ASSUME NEW c \in Inputs, Ask(c) PROVE IInv' /\ LogType(Event)' /\ Absorbs
  BY <1>1, AskStep
<1>2. CASE RouteNext
  BY <1>2, RouteStep
<1>3. ASSUME NEW w \in Workers, Works(w) \/ AnswerLost(w) \/ Crash(w)
      PROVE  IInv' /\ LogType(Event)' /\ Absorbs
  <2>1. ASSUME NEW n \in Numbers, Claim(w, n) \/ TakeOver(w, n)
        PROVE  IInv' /\ LogType(Event)' /\ Absorbs
    BY <2>1, ClaimStep
  <2>2. CASE LoadState(w)
    BY <2>2, LoadStep
  <2>3. CASE RebuildState(w)
    BY <2>3, RebuildStep
  <2>4. CASE Dispatch(w)
    BY <2>4, DispatchStep
  <2>5. CASE CommandThrows(w)
    BY <2>5, CommandThrowsStep
  <2>6. CASE Complete(w)
    BY <2>6, CompleteStep
  <2>7. CASE AnswerLost(w)
    BY <2>7, AnswerLostStep
  <2>8. CASE Crash(w)
    BY <2>8, CrashStep
  <2> QED
    BY <1>3, <2>1, <2>2, <2>3, <2>4, <2>5, <2>6, <2>7, <2>8 DEF Works
<1>4. ASSUME NEW p \in Partitions, DeleteSnapshot(p)
      PROVE  IInv' /\ LogType(Event)' /\ Absorbs
  BY <1>4, DeleteSnapshotStep
<1>5. CASE UNCHANGED vars
  BY <1>5, StutterStep
<1> QED
  BY <1>1, <1>2, <1>3, <1>4, <1>5 DEF Next

-----------------------------------------------------------------------------
(***************************************************************************)
(* As long as nothing has failed.                                          *)
(***************************************************************************)
\* A worker that is at work has not lost its item.
Attends == \A w \in Workers : pc[w] # "idle" => Holds(w)

StagesInOrder == \A w \in Workers : Increasing(staged[w])

\* What is settled does not come back.
SettledGone == \A n \in settled : n \in 1..cursor /\ itemState[n] \in {"absent", "done"}

Orderly ==
  faults = 0 => Attends /\ StagesInOrder /\ SettledGone /\ LaterInstancesRun

LEMMA FaultsGrow ==
  ASSUME TypeOK, Orderly, Fault PROVE Orderly'
<1>1. faults \in Nat
  BY TypedBefore DEF LocalsTyped
<1> QED
  BY <1>1 DEF Fault, Orderly

\* Nobody claims or completes: what is staged is the fold of HandlesFold.
LEMMA OrderlyMoves ==
  ASSUME IInv, Grows, HandlesFold', Orderly,
         UNCHANGED <<cursor, itemState, itemHolder, settled, faults>>,
         \A w \in Workers :
           /\ pc'[w] # "idle" => pc[w] # "idle" /\ hand'[w] = hand[w]
           /\ staged'[w] \in {staged[w], <<>>} \/ pc'[w] = "dispatch"
  PROVE  Orderly'
<1> SUFFICES ASSUME faults = 0
             PROVE  Attends' /\ StagesInOrder' /\ SettledGone' /\ LaterInstancesRun'
  BY DEF Orderly
<1>1. Attends /\ StagesInOrder /\ SettledGone /\ LaterInstancesRun
  BY DEF Orderly
<1>2. Attends'
  BY <1>1 DEF Attends, Holds
<1>3. ASSUME NEW w \in Workers PROVE Increasing(staged'[w])
  <2>1. CASE staged'[w] \in {staged[w], <<>>}
    <3>1. DOMAIN <<>> = {}
      OBVIOUS
    <3> QED
      BY <1>1, <2>1, <3>1 DEF StagesInOrder, Increasing
  <2>2. CASE pc'[w] = "dispatch"
    <3>1. Holds(w)'
      BY <1>2, <2>2 DEF Attends
    <3> QED
      BY <2>2, <3>1 DEF HandlesFold, Lists, Increasing
  <2> QED
    BY <2>1, <2>2
<1>4. SettledGone'
  BY <1>1 DEF SettledGone
<1>5. LaterInstancesRun'
  BY <1>1, PartitionsStay DEF LaterInstancesRun, IInv
<1> QED
  BY <1>2, <1>3, <1>4, <1>5 DEF StagesInOrder, Increasing

LEMMA OrderlyLocal ==
  ASSUME NEW Event, NEW Command, Sound(Event, Command), LogType(Event), IInv, IInv', Orderly,
         \/ \E c \in Inputs : Ask(c)
         \/ UNCHANGED vars
         \/ \E w \in Workers :
              LoadState(w) \/ RebuildState(w) \/ Dispatch(w) \/ CommandThrows(w)
  PROVE  Orderly'
<1>1. CASE \E c \in Inputs : Ask(c)
  <2>1. PICK c \in Inputs : Ask(c)
    BY <1>1
  <2>2. Grows
    <3>1. CASE Appends(c, 0)
      BY <3>1, AppendsGrows DEF Sound
    <3>2. CASE UNCHANGED log
      BY <3>2, StaysGrows
    <3> QED
      BY <2>1, <3>1, <3>2 DEF Ask
  <2> QED
    BY <2>1, <2>2, OrderlyMoves DEF Ask, queue, local, IInv
<1>2. CASE UNCHANGED vars
  BY <1>2, StaysGrows, OrderlyMoves DEF vars, store, queue, local, IInv
<1>3. ASSUME NEW w \in Workers, LoadState(w) \/ RebuildState(w) PROVE Orderly'
  <2>1. Grows
    BY <1>3, StaysGrows DEF LoadState, RebuildState, store
  <2>2. /\ pc[w] \in {"load", "rebuild"}
        /\ UNCHANGED <<cursor, itemState, itemHolder, settled, faults, hand>>
        /\ \/ pc' = [pc EXCEPT ![w] = "dispatch"] /\ \E t : staged' = [staged EXCEPT ![w] = t]
           \/ pc' = [pc EXCEPT ![w] = "rebuild"] /\ UNCHANGED staged
    BY <1>3 DEF LoadState, RebuildState, Stage, Goto, queue
  <2>3. \A v \in Workers :
          /\ pc'[v] # "idle" => pc[v] # "idle"
          /\ staged'[v] \in {staged[v], <<>>} \/ pc'[v] = "dispatch"
    BY <2>2 DEF IInv, TypeOK
  <2> QED
    BY <2>1, <2>2, <2>3, OrderlyMoves DEF IInv
<1>4. ASSUME NEW w \in Workers, Dispatch(w) PROVE Orderly'
  <2>1. Grows
    BY <1>4, AppendsGrows, HandNat, Commands DEF Dispatch, IInv
  <2> QED
    BY <1>4, <2>1, OrderlyMoves DEF Dispatch, queue, IInv
<1>5. ASSUME NEW w \in Workers, CommandThrows(w) PROVE Orderly'
  <2>1. Grows
    BY <1>5, StaysGrows DEF CommandThrows, store
  <2>2. /\ pc[w] = "dispatch" /\ HandlerThrows(w)
        /\ UNCHANGED <<cursor, itemState, itemHolder, settled, faults>>
    BY <1>5 DEF CommandThrows, queue
  <2>3. \A v \in Workers :
          /\ pc'[v] # "idle" => pc[v] # "idle" /\ hand'[v] = hand[v]
          /\ staged'[v] \in {staged[v], <<>>}
    <3>1. CASE Leave(w)
      BY <3>1 DEF Leave, Goto, IInv, TypeOK
    <3>2. CASE Goto(w, "load") /\ UNCHANGED <<hand, staged>>
      BY <2>2, <3>2 DEF Goto, IInv, TypeOK
    <3> QED
      BY <2>2, <3>1, <3>2 DEF HandlerThrows
  <2> QED
    BY <2>1, <2>2, <2>3, OrderlyMoves DEF IInv
<1> QED
  BY <1>1, <1>2, <1>3, <1>4, <1>5

LEMMA OrderlyRoute ==
  ASSUME IInv, Orderly, RouteNext PROVE Orderly'
<1> SUFFICES ASSUME faults = 0
             PROVE  Attends' /\ StagesInOrder' /\ SettledGone' /\ LaterInstancesRun'
  BY DEF Orderly, RouteNext
<1>1. Attends /\ StagesInOrder /\ SettledGone /\ LaterInstancesRun
  BY DEF Orderly
<1>2. /\ cursor \in Nat /\ cursor' = cursor + 1 /\ cursor + 1 \in Numbers
      /\ itemState' = [itemState EXCEPT ![cursor + 1] = Routed(cursor + 1)]
      /\ UNCHANGED <<log, itemHolder, pc, hand, staged, settled>>
  BY TypedBefore DEF RouteNext, store, local, IInv, TypeOK
<1>3. /\ \A n \in 1..cursor : n \in Numbers /\ itemState'[n] = itemState[n]
      /\ itemState'[cursor + 1] = Routed(cursor + 1)
      /\ \A n : PartitionOf(n)' = PartitionOf(n)
  BY <1>2, TypedBefore DEF IInv, TypeOK, PartitionOf
<1>4. Attends'
  BY <1>1, <1>2, <1>3 DEF Attends, Holds, IInv, Handed
<1>5. StagesInOrder'
  BY <1>1, <1>2 DEF StagesInOrder, Increasing
<1>6. SettledGone'
  BY <1>1, <1>2, <1>3 DEF SettledGone
<1>7. LaterInstancesRun'
  <2> SUFFICES ASSUME NEW n \in 1..(cursor + 1), PartitionOf(n) # Ignore, itemState'[n] = "absent"
               PROVE  n \in settled
    BY <1>2, <1>3 DEF LaterInstancesRun
  <2>1. n # cursor + 1
    BY <1>3 DEF Routed
  <2> QED
    BY <1>1, <1>2, <1>3, <2>1 DEF LaterInstancesRun
<1> QED
  BY <1>4, <1>5, <1>6, <1>7

\* An item that nobody attends to is in nobody's hands.
LEMMA OrderlyTakes ==
  ASSUME IInv, Orderly, NEW w \in Workers, NEW i \in Numbers, Claim(w, i) \/ TakeOver(w, i)
  PROVE  Orderly'
<1>1. CASE Fault
  BY <1>1, FaultsGrow DEF IInv
<1>2. CASE UNCHANGED faults /\ (Claim(w, i) \/ ~Attended(i))
  <2> SUFFICES ASSUME faults = 0
               PROVE  Attends' /\ StagesInOrder' /\ SettledGone' /\ LaterInstancesRun'
    BY <1>2 DEF Orderly
  <2>1. Attends /\ StagesInOrder /\ SettledGone /\ LaterInstancesRun
    BY DEF Orderly
  <2>2. /\ pc[w] = "idle" /\ itemState[i] \in {"pending", "claimed"}
        /\ itemState' = [itemState EXCEPT ![i] = "claimed"]
        /\ itemHolder' = [itemHolder EXCEPT ![i] = w]
        /\ hand' = [hand EXCEPT ![w] = i]
        /\ pc' = [pc EXCEPT ![w] = "load"]
        /\ UNCHANGED <<log, cursor, staged, settled>>
    BY DEF Claim, TakeOver, Takes, Goto, store
  <2>3. /\ \A v \in Workers : v # w => pc'[v] = pc[v] /\ hand'[v] = hand[v]
        /\ hand'[w] = i /\ itemState'[i] = "claimed" /\ itemHolder'[i] = w
        /\ \A n \in Numbers : n # i => itemState'[n] = itemState[n] /\ itemHolder'[n] = itemHolder[n]
    BY <2>2 DEF IInv, TypeOK
  <2>4. ASSUME NEW v \in Workers, v # w, pc[v] # "idle" PROVE hand[v] # i
    <3> SUFFICES ASSUME hand[v] = i PROVE FALSE
      OBVIOUS
    <3>1. itemState[i] = "claimed" /\ itemHolder[i] = v
      BY <2>1, <2>4 DEF Attends, Holds
    <3>2. Attended(i)
      BY <2>4, <3>1 DEF Attended
    <3> QED
      BY <1>2, <3>1, <3>2 DEF Claim
  <2>5. Attends'
    <3> SUFFICES ASSUME NEW v \in Workers, pc'[v] # "idle" PROVE Holds(v)'
      BY DEF Attends
    <3>1. CASE v = w
      BY <2>3, <3>1 DEF Holds
    <3>2. CASE v # w
      <4>1. Holds(v) /\ hand[v] # i /\ hand[v] \in Numbers
        BY <2>1, <2>3, <2>4, <3>2, TypedBefore DEF Attends, IInv, Handed, TypeOK
      <4> QED
        BY <2>3, <3>2, <4>1 DEF Holds
    <3> QED
      BY <3>1, <3>2
  <2>6. StagesInOrder'
    BY <2>1, <2>2 DEF StagesInOrder, Increasing
  <2>7. SettledGone'
    <3>1. settled \subseteq Numbers
      BY TypedBefore DEF IInv
    <3> QED
      BY <2>1, <2>2, <2>3, <3>1 DEF SettledGone
  <2>8. LaterInstancesRun'
    <3>1. \A n \in 1..cursor : n \in Numbers /\ PartitionOf(n)' = PartitionOf(n)
      BY <2>2, TypedBefore DEF PartitionOf, IInv, TypeOK
    <3> QED
      BY <2>1, <2>2, <2>3, <3>1 DEF LaterInstancesRun
  <2> QED
    BY <2>5, <2>6, <2>7, <2>8
<1>3. CASE Claim(w, i)
  BY <1>2, <1>3 DEF Claim
<1>4. CASE TakeOver(w, i)
  BY <1>1, <1>2, <1>4 DEF TakeOver
<1> QED
  BY <1>3, <1>4

\* The worker that completes an item holds it, and nobody else holds one of
\* that instance: what it discards, it settles.
LEMMA OrderlyComplete ==
  ASSUME NEW Event, LogType(Event), IInv, Orderly, NEW w \in Workers, Complete(w)
  PROVE  Orderly'
<1> USE CompleteFacts
<1> SUFFICES ASSUME faults = 0
             PROVE  Attends' /\ StagesInOrder' /\ SettledGone' /\ LaterInstancesRun'
  BY DEF Orderly
<1>1. Attends /\ StagesInOrder /\ SettledGone /\ LaterInstancesRun
  BY DEF Orderly
<1>2. PICK i \in Numbers, p \in Partitions : i = hand[w] /\ p = PartitionOf(i)
  OBVIOUS
<1>3. itemState[i] = "claimed" /\ itemHolder[i] = w /\ i \in Items(p) /\ i \notin settled
  BY <1>1, <1>2 DEF Attends, Holds, Items, SettledGone
<1>4. ASSUME NEW v \in Workers, pc'[v] # "idle"
      PROVE  /\ v # w /\ pc[v] # "idle" /\ hand'[v] = hand[v]
             /\ hand[v] # i /\ hand[v] \in 1..cursor
  <2>1. v # w /\ pc[v] # "idle" /\ hand'[v] = hand[v]
    BY <1>4 DEF IInv, TypeOK
  <2> QED
    BY <1>1, <1>3, <2>1 DEF IInv, Handed, Attends, Holds
<1>5. StagesInOrder'
  <2>1. \A v \in Workers : staged'[v] \in {staged[v], <<>>}
    BY DEF Complete, Leave, IInv, TypeOK
  <2>2. DOMAIN <<>> = {}
    OBVIOUS
  <2> QED
    BY <1>1, <2>1, <2>2 DEF StagesInOrder, Increasing
<1>6. CASE Result(w).complete
  <2>1. /\ \A m \in Numbers : itemState'[m] = IF m \in Items(p) THEN "absent" ELSE itemState[m]
        /\ \A m \in Numbers : itemHolder'[m] = IF m \in Items(p) THEN NoWorker ELSE itemHolder[m]
        /\ settled' = settled \cup {i} \cup Items(p)
    BY <1>2, <1>3, <1>6 DEF Complete, CompletePmInstance, Settles
  <2>2. ASSUME NEW v \in Workers, pc'[v] # "idle" PROVE hand[v] \notin Items(p)
    <3> SUFFICES ASSUME hand[v] \in Items(p) PROVE FALSE
      OBVIOUS
    <3>1. itemState[hand[v]] = "claimed" /\ hand[v] \in 1..cursor /\ hand[v] # i
      BY <1>1, <1>4, <2>2 DEF Attends, Holds
    <3>2. PartitionOf(hand[v]) = PartitionOf(i) /\ i \in 1..cursor
      BY <1>2, <1>3 DEF Items
    <3>3. CASE hand[v] < i
      BY <1>3, <3>1, <3>2, <3>3 DEF IInv, InOrder
    <3>4. CASE i < hand[v]
      BY <1>3, <3>1, <3>2, <3>4 DEF IInv, InOrder
    <3> QED
      BY <3>1, <3>2, <3>3, <3>4
  <2>3. Attends'
    <3> SUFFICES ASSUME NEW v \in Workers, pc'[v] # "idle" PROVE Holds(v)'
      BY DEF Attends
    <3>1. Holds(v) /\ hand[v] \in Numbers
      BY <1>1, <1>4 DEF Attends
    <3> QED
      BY <1>4, <2>1, <2>2, <3>1 DEF Holds
  <2>4. SettledGone'
    <3> SUFFICES ASSUME NEW n \in settled'
                 PROVE  n \in 1..cursor /\ itemState'[n] \in {"absent", "done"}
      BY DEF SettledGone
    <3>1. CASE n \in Items(p)
      BY <2>1, <3>1 DEF Items
    <3>2. CASE n \notin Items(p)
      BY <1>1, <1>3, <2>1, <3>2 DEF SettledGone
    <3> QED
      BY <3>1, <3>2
  <2>5. LaterInstancesRun'
    BY <1>1, <2>1 DEF LaterInstancesRun
  <2> QED
    BY <1>5, <2>3, <2>4, <2>5
<1>7. CASE ~Result(w).complete
  <2>1. CompleteWorkItemPm(w) /\ Holds(w)
    BY <1>1, <1>7 DEF Complete, Attends
  <2>2. /\ itemState' = [itemState EXCEPT ![i] = "done"]
        /\ itemHolder' = [itemHolder EXCEPT ![i] = NoWorker]
        /\ settled' = settled \cup {i}
    BY <1>2, <1>7, <2>1 DEF CompleteWorkItemPm, Complete, Settles
  <2>3. /\ itemState'[i] = "done"
        /\ \A m \in Numbers : m # i => itemState'[m] = itemState[m] /\ itemHolder'[m] = itemHolder[m]
    BY <2>2 DEF IInv, TypeOK
  <2>4. Attends'
    <3> SUFFICES ASSUME NEW v \in Workers, pc'[v] # "idle" PROVE Holds(v)'
      BY DEF Attends
    <3>1. Holds(v) /\ hand[v] \in Numbers
      BY <1>1, <1>4 DEF Attends
    <3> QED
      BY <1>4, <2>3, <3>1 DEF Holds
  <2>5. SettledGone'
    BY <1>1, <1>2, <2>2, <2>3 DEF SettledGone
  <2>6. LaterInstancesRun'
    BY <1>1, <2>2, <2>3 DEF LaterInstancesRun
  <2> QED
    BY <1>5, <2>4, <2>5, <2>6
<1> QED
  BY <1>6, <1>7

LEMMA NextOrderly ==
  ASSUME NEW Event, NEW Command, Sound(Event, Command), LogType(Event), IInv, Orderly,
         [Next]_vars
  PROVE  Orderly'
<1>0. IInv'
  BY NextIInv
<1>1. CASE RouteNext
  BY <1>1, OrderlyRoute
<1>2. ASSUME NEW w \in Workers, Works(w) \/ AnswerLost(w) \/ Crash(w) PROVE Orderly'
  <2>1. ASSUME NEW n \in Numbers, Claim(w, n) \/ TakeOver(w, n) PROVE Orderly'
    BY <2>1, OrderlyTakes
  <2>2. CASE LoadState(w) \/ RebuildState(w) \/ Dispatch(w) \/ CommandThrows(w)
    BY <1>0, <2>2, OrderlyLocal
  <2>3. CASE Complete(w)
    BY <2>3, OrderlyComplete
  <2>4. CASE AnswerLost(w) \/ Crash(w)
    BY <2>4, FaultsGrow DEF AnswerLost, Crash, IInv
  <2> QED
    BY <1>2, <2>1, <2>2, <2>3, <2>4 DEF Works
<1>3. ASSUME NEW p \in Partitions, DeleteSnapshot(p) PROVE Orderly'
  BY <1>3, FaultsGrow DEF DeleteSnapshot, IInv
<1>4. CASE UNCHANGED vars \/ \E c \in Inputs : Ask(c)
  BY <1>0, <1>4, OrderlyLocal
<1> QED
  BY <1>1, <1>2, <1>3, <1>4 DEF Next

LEMMA InitOrderly ==
  ASSUME Init PROVE Orderly
<1>1. DOMAIN <<>> = {}
  OBVIOUS
<1> QED
  BY <1>1 DEF Init, Orderly, Attends, StagesInOrder, Increasing, SettledGone, LaterInstancesRun

-----------------------------------------------------------------------------
(***************************************************************************)
(* With an operator who rebuilds the subscription under working workers    *)
(* (RebuildSpec): what a worker has in hand need not be routed any more,   *)
(* nor is a snapshot the fold of the new queue, but both come from the     *)
(* log; and the queue is still that of ProcessInstances.                   *)
(***************************************************************************)
SnapshotsFromLog ==
  \A p \in Partitions : snapshot[p] # NoSnapshot =>
    \A i \in DOMAIN snapshot[p].events : snapshot[p].events[i] \in 1..Len(log)

QInv == TypeOK /\ InOrder /\ HandsFromLog /\ StagedFromLog /\ SnapshotsFromLog

\* The queues stay what they are.
QueueKept ==
  UNCHANGED cursor /\ \A p \in Partitions : Items(p)' = Items(p) /\ Done(p)' = Done(p)

\* A step of ProcessInstances.
PIStep == [Instances!PINext]_<<cursor, Waiting, Absorbed>>

\* What any step leaves of a worker.
Roams(w) ==
  /\ \A i \in DOMAIN staged'[w] : staged'[w][i] \in 1..Len(log')
  /\ pc'[w] # "idle" => pc[w] # "idle" /\ hand'[w] = hand[w]

LEMMA MovesRoam ==
  ASSUME TypeOK, StagedFromLog, Grows, NEW w \in Workers, Moves(w) PROVE Roams(w)
<1>1. /\ \A n \in 1..Len(log) : n \in 1..Len(log')
      /\ \A n \in 1..cursor : n \in 1..Len(log')
  BY DEF Grows, TypeOK
<1>2. DOMAIN <<>> = {}
  OBVIOUS
<1>3. \A i \in DOMAIN staged'[w] : staged'[w][i] \in 1..Len(log')
  BY <1>1, <1>2 DEF Moves, StagedFromLog
<1> QED
  BY <1>3 DEF Moves, Roams

LEMMA KeptStep ==
  ASSUME QueueKept PROVE PIStep
<1>1. Waiting' = Waiting /\ Absorbed' = Absorbed
  BY DEF QueueKept, Waiting, Absorbed
<1> QED
  BY <1>1 DEF QueueKept, PIStep

\* The part of QInv that is about the log.
LEMMA FromLogStays ==
  ASSUME TypeOK, HandsFromLog, StagedFromLog, SnapshotsFromLog, Grows,
         \A p \in Partitions : snapshot'[p] \in {snapshot[p], NoSnapshot},
         \A w \in Workers : Roams(w)
  PROVE  HandsFromLog' /\ StagedFromLog' /\ SnapshotsFromLog'
<1>1. \A n \in 1..Len(log) : n \in 1..Len(log') /\ log'[n] = log[n]
  BY DEF Grows
<1>2. HandsFromLog'
  <2> SUFFICES ASSUME NEW w \in Workers, pc'[w] # "idle"
               PROVE  (hand[w] \in 1..Len(log) /\ PartitionOf(hand[w]) \in Partitions)'
    BY DEF HandsFromLog
  <2>1. /\ hand'[w] = hand[w] /\ hand[w] \in 1..Len(log)
        /\ PartitionOf(hand[w]) \in Partitions
    BY DEF Roams, HandsFromLog
  <2> QED
    BY <1>1, <2>1 DEF PartitionOf
<1>3. StagedFromLog'
  BY DEF Roams, StagedFromLog
<1>4. SnapshotsFromLog'
  <2> SUFFICES ASSUME NEW p \in Partitions, snapshot'[p] # NoSnapshot,
                      NEW i \in DOMAIN snapshot'[p].events
               PROVE  snapshot'[p].events[i] \in 1..Len(log')
    BY DEF SnapshotsFromLog
  <2>1. snapshot'[p] = snapshot[p]
    OBVIOUS
  <2> QED
    BY <1>1, <2>1 DEF SnapshotsFromLog
<1> QED
  BY <1>2, <1>3, <1>4

\* The steps that leave the queue alone, with or without a rebuild before.
LEMMA RoamStep ==
  ASSUME NEW Event, QInv, LogType(Event)', Grows, Len(log)' <= MaxEvents,
         UNCHANGED <<queue, rebuilds>>, settled' \subseteq Numbers, LocalsTyped',
         snapshot' \in [Partitions -> Rows \cup {NoSnapshot}],
         \A p \in Partitions : snapshot'[p] \in {snapshot[p], NoSnapshot},
         \A w \in Workers : Roams(w)
  PROVE  QInv' /\ QueueKept
<1>1. TypeOK /\ UNCHANGED <<cursor, itemState>>
  BY DEF QInv, queue
<1>2. TypeOK' /\ InOrder'
  BY <1>1, TypeStays, InOrderStays DEF QInv
<1>3. HandsFromLog' /\ StagedFromLog' /\ SnapshotsFromLog'
  BY FromLogStays DEF QInv
<1>4. QueueKept
  BY <1>1, QueueStays DEF QueueKept
<1> QED
  BY <1>2, <1>3, <1>4 DEF QInv

LEMMA LocalQueue ==
  ASSUME NEW Event, QInv, LogType(Event)', Grows, Len(log)' <= MaxEvents,
         UNCHANGED <<queue, rebuilds>>, settled' \subseteq Numbers, LocalsTyped',
         snapshot' \in [Partitions -> Rows \cup {NoSnapshot}],
         \A p \in Partitions : snapshot'[p] \in {snapshot[p], NoSnapshot},
         \A w \in Workers : Moves(w)
  PROVE  QInv' /\ QueueKept
<1>1. \A w \in Workers : Roams(w)
  BY MovesRoam DEF QInv
<1> QED
  BY <1>1, RoamStep

LEMMA AskQueue ==
  ASSUME NEW Event, NEW Command, Sound(Event, Command), LogType(Event), QInv, NEW c \in Inputs, Ask(c)
  PROVE  QInv' /\ LogType(Event)' /\ QueueKept
<1> USE DEF QInv
<1>1. Grows /\ LogType(Event)' /\ Len(log)' <= MaxEvents
  <2>1. CASE Appends(c, 0)
    <3>1. c \in Command
      BY DEF Sound
    <3> QED
      BY <2>1, <3>1, AppendsGrows
  <2>2. CASE UNCHANGED log
    BY <2>2, StaysGrows, TypedBefore
  <2> QED
    BY <2>1, <2>2 DEF Ask
<1>2. LocalsTyped' /\ \A w \in Workers : Moves(w)
  BY TypedBefore DEF Ask, local, LocalsTyped, Moves
<1> QED
  BY <1>1, <1>2, LocalQueue, TypedBefore DEF Ask, local

\* What is loaded or rebuilt comes from the log, and is staged with the event in
\* hand.
LEMMA StagesFromLog ==
  ASSUME QInv, NEW w \in Workers, pc[w] # "idle", NEW STATE s, s \in Seq(Numbers),
         \A i \in DOMAIN s : s[i] \in 1..Len(log),
         Stage(w, s), UNCHANGED <<log, hand, asked, faults>>
  PROVE  LocalsTyped' /\ \A v \in Workers : Roams(v)
<1> USE DEF QInv
<1>1. hand[w] \in 1..Len(log) /\ Len(log) \in Nat /\ Len(log) <= MaxEvents
  BY TypedBefore DEF HandsFromLog, TypeOK
<1>2. hand[w] \in Numbers
  BY <1>1, TypedBefore
<1> PICK t : t = Append(s, hand[w])
  OBVIOUS
<1>3. t \in Seq(Numbers) /\ \A i \in DOMAIN t : t[i] \in 1..Len(log)
  BY <1>1, <1>2
<1>4. /\ staged' = [staged EXCEPT ![w] = t] /\ sent' = [sent EXCEPT ![w] = 0]
      /\ pc' = [pc EXCEPT ![w] = "dispatch"]
  BY DEF Stage, Goto
<1>5. LocalsTyped
  BY TypedBefore
<1>6. LocalsTyped'
  BY <1>3, <1>4, <1>5 DEF LocalsTyped
<1>7. ASSUME NEW v \in Workers PROVE Roams(v)
  <2>1. CASE v = w
    BY <1>3, <1>4, <1>5, <2>1 DEF Roams, LocalsTyped
  <2>2. CASE v # w
    BY <1>4, <1>5, <2>2 DEF Roams, LocalsTyped, StagedFromLog
  <2> QED
    BY <2>1, <2>2
<1> QED
  BY <1>6, <1>7

LEMMA LoadQueue ==
  ASSUME NEW Event, LogType(Event), QInv, NEW w \in Workers, LoadState(w)
  PROVE  QInv' /\ LogType(Event)' /\ QueueKept
<1> USE DEF QInv
<1> DEFINE row == readSnapshot(PartitionOf(hand[w]))
<1>1. Grows /\ LogType(Event)' /\ Len(log)' <= MaxEvents
  BY StaysGrows, TypedBefore DEF LoadState, store
<1>2. pc[w] = "load" /\ PartitionOf(hand[w]) \in Partitions
  BY DEF LoadState, HandsFromLog
<1>3. UNCHANGED <<log, hand, asked, faults>>
  BY DEF LoadState, store
<1>4. LocalsTyped' /\ \A v \in Workers : Roams(v)
  <2>1. CASE Matches(w, row)
    <3>1. row = snapshot[PartitionOf(hand[w])] /\ row # NoSnapshot
      BY <2>1 DEF Matches, readSnapshot
    <3>2. /\ row.events \in Seq(Numbers)
          /\ \A i \in DOMAIN row.events : row.events[i] \in 1..Len(log)
      BY <1>2, <3>1, TypedBefore DEF SnapshotsFromLog, Rows
    <3>3. Stage(w, row.events)
      BY <2>1 DEF LoadState
    <3> HIDE DEF row
    <3> QED
      BY <1>2, <1>3, <3>2, <3>3, StagesFromLog
  <2>2. CASE ~Matches(w, row)
    <3>1. LocalsTyped' /\ \A v \in Workers : Moves(v)
      BY <1>2, <1>3, <2>2, TypedBefore DEF LoadState, Goto, LocalsTyped, Moves
    <3> QED
      BY <1>1, <3>1, MovesRoam
  <2> QED
    BY <2>1, <2>2
<1> QED
  BY <1>1, <1>4, RoamStep, TypedBefore DEF LoadState

LEMMA RebuildQueue ==
  ASSUME NEW Event, LogType(Event), QInv, NEW w \in Workers, RebuildState(w)
  PROVE  QInv' /\ LogType(Event)' /\ QueueKept
<1> USE DEF QInv
<1> DEFINE S == RebuildEvents(hand[w])
<1>1. Grows /\ LogType(Event)' /\ Len(log)' <= MaxEvents
  BY StaysGrows, TypedBefore DEF RebuildState, store
<1>2. PICK s \in [1..Cardinality(S) -> S] : Lists(s, S) /\ Stage(w, s)
  BY DEF RebuildState
<1>3. S \subseteq 1..cursor /\ cursor \in Nat /\ cursor <= Len(log) /\ Len(log) \in Nat
  <2>1. S \subseteq 1..cursor
    BY DEF RebuildEvents, Done, Items
  <2>2. cursor \in Nat /\ cursor <= Len(log) /\ Len(log) \in Nat
    BY DEF TypeOK
  <2> QED
    BY <2>1, <2>2
<1> HIDE DEF S
<1>4. S \subseteq Numbers /\ S \subseteq 1..Len(log)
  BY <1>3, TypedBefore
<1>5. s \in Seq(Numbers)
  <2>1. IsFiniteSet(S)
    <3>1. IsFiniteSet(1..cursor)
      BY <1>3, FS_Interval
    <3>2. S \subseteq 1..cursor
      BY <1>3
    <3> QED
      BY <3>1, <3>2, FS_Subset
  <2>2. Cardinality(S) \in Nat
    BY <2>1, FS_CardinalityType
  <2>3. S \subseteq Numbers
    BY <1>4
  <2> QED
    BY <2>2, <2>3
<1>6. \A i \in DOMAIN s : s[i] \in 1..Len(log)
  BY <1>2, <1>4 DEF Lists
<1>7. pc[w] # "idle" /\ UNCHANGED <<log, hand, asked, faults>>
  BY DEF RebuildState, store
<1>8. LocalsTyped' /\ \A v \in Workers : Roams(v)
  BY <1>2, <1>5, <1>6, <1>7, StagesFromLog
<1> QED
  BY <1>1, <1>8, RoamStep, TypedBefore DEF RebuildState

LEMMA DispatchQueue ==
  ASSUME NEW Event, NEW Command, Sound(Event, Command), LogType(Event), QInv, NEW w \in Workers,
         Dispatch(w)
  PROVE  QInv' /\ LogType(Event)' /\ QueueKept
<1> USE DEF QInv
<1>1. Grows /\ LogType(Event)' /\ Len(log)' <= MaxEvents
  BY AppendsGrows, HandNat, DispatchesCommands DEF Dispatch
<1>2. LocalsTyped' /\ \A v \in Workers : Moves(v)
  BY TypedBefore DEF Dispatch, LocalsTyped, Moves
<1> QED
  BY <1>1, <1>2, LocalQueue, TypedBefore DEF Dispatch

LEMMA CommandThrowsQueue ==
  ASSUME NEW Event, LogType(Event), QInv, NEW w \in Workers, CommandThrows(w)
  PROVE  QInv' /\ LogType(Event)' /\ QueueKept
<1> USE DEF QInv
<1>1. Grows /\ LogType(Event)' /\ Len(log)' <= MaxEvents
  BY StaysGrows, TypedBefore DEF CommandThrows, store
<1>2. LocalsTyped' /\ \A v \in Workers : Moves(v)
  BY ThrowTyped, TypedBefore DEF CommandThrows, store, LocalsTyped
<1> QED
  BY <1>1, <1>2, LocalQueue, TypedBefore DEF CommandThrows

LEMMA AnswerLostQueue ==
  ASSUME NEW Event, NEW Command, Sound(Event, Command), LogType(Event), QInv, NEW w \in Workers,
         AnswerLost(w)
  PROVE  QInv' /\ LogType(Event)' /\ QueueKept
<1> USE DEF QInv
<1>1. Grows /\ LogType(Event)' /\ Len(log)' <= MaxEvents
  BY AppendsGrows, HandNat, DispatchesCommands DEF AnswerLost
<1>2. LocalsTyped' /\ \A v \in Workers : Moves(v)
  BY ThrowTyped, FaultTyped DEF AnswerLost
<1> QED
  BY <1>1, <1>2, LocalQueue, TypedBefore DEF AnswerLost

LEMMA CrashQueue ==
  ASSUME NEW Event, LogType(Event), QInv, NEW w \in Workers, Crash(w)
  PROVE  QInv' /\ LogType(Event)' /\ QueueKept
<1> USE DEF QInv
<1>1. Grows /\ LogType(Event)' /\ Len(log)' <= MaxEvents
  BY StaysGrows, TypedBefore DEF Crash, store
<1>2. LocalsTyped' /\ \A v \in Workers : Moves(v)
  BY LeaveTyped, FaultTyped, TypedBefore DEF Crash, store, LocalsTyped
<1> QED
  BY <1>1, <1>2, LocalQueue, TypedBefore DEF Crash

LEMMA DeleteSnapshotQueue ==
  ASSUME NEW Event, LogType(Event), QInv, NEW p \in Partitions, DeleteSnapshot(p)
  PROVE  QInv' /\ LogType(Event)' /\ QueueKept
<1> USE DEF QInv
<1>1. Grows /\ LogType(Event)' /\ Len(log)' <= MaxEvents
  BY StaysGrows, TypedBefore DEF DeleteSnapshot, store
<1>2. LocalsTyped' /\ \A v \in Workers : Moves(v)
  BY FaultTyped, TypedBefore DEF DeleteSnapshot, store, local, LocalsTyped, Moves
<1>3. /\ snapshot' \in [Partitions -> Rows \cup {NoSnapshot}]
      /\ \A q \in Partitions : snapshot'[q] \in {snapshot[q], NoSnapshot}
  BY TypedBefore DEF DeleteSnapshot
<1> QED
  BY <1>1, <1>2, <1>3, LocalQueue, TypedBefore DEF DeleteSnapshot

LEMMA StutterQueue ==
  ASSUME NEW Event, LogType(Event), QInv, UNCHANGED vars
  PROVE  QInv' /\ LogType(Event)' /\ QueueKept
<1> USE DEF QInv
<1>1. Grows /\ LogType(Event)' /\ Len(log)' <= MaxEvents
  BY StaysGrows, TypedBefore DEF vars, store
<1>2. LocalsTyped' /\ \A v \in Workers : Moves(v)
  BY TypedBefore DEF vars, store, local, LocalsTyped, Moves
<1> QED
  BY <1>1, <1>2, LocalQueue, TypedBefore DEF vars

\* RouteNext is Route: one event waits for one instance more, or for none.
LEMMA RouteImplements ==
  ASSUME NEW Event, NEW Command, Sound(Event, Command), LogType(Event), QInv, RouteNext
  PROVE  QInv' /\ LogType(Event)' /\ Instances!Route
<1> USE DEF QInv
<1>1. /\ cursor' = cursor + 1 /\ cursor \in Nat
      /\ UNCHANGED <<log, snapshot, pc, hand, staged>>
  BY DEF RouteNext, store, local, TypeOK
<1> PICK n \in Nat : n = cursor + 1
  BY <1>1
<1>2. /\ TypeOK' /\ InOrder' /\ LogType(Event)' /\ DoneStays
      /\ \A p \in Partitions : Items(p)' =
           Items(p) \cup (IF PartitionOf(n) = p THEN {n} ELSE {})
      /\ \A m : PartitionOf(m)' = PartitionOf(m)
  BY RouteQueue
<1>3. QInv'
  BY <1>1, <1>2 DEF HandsFromLog, StagedFromLog, SnapshotsFromLog
<1>4. \A p \in Partitions : n \notin Done(p)
  BY <1>1 DEF Done, Items
<1>5. Absorbed' = Absorbed
  BY <1>2 DEF Absorbed, DoneStays
<1>6. \A p \in Partitions : Waiting'[p] =
        IF PartitionOf(n) = p THEN Waiting[p] \cup {n} ELSE Waiting[p]
  <2> SUFFICES ASSUME NEW p \in Partitions
               PROVE  Items(p)' \ Done(p)' =
                        IF PartitionOf(n) = p THEN (Items(p) \ Done(p)) \cup {n}
                                              ELSE Items(p) \ Done(p)
    BY DEF Waiting
  <2>1. Done(p)' = Done(p) /\ n \notin Done(p)
    BY <1>2, <1>4 DEF DoneStays
  <2>2. Items(p)' = Items(p) \cup (IF PartitionOf(n) = p THEN {n} ELSE {})
    BY <1>2
  <2> QED
    BY <2>1, <2>2
<1>7. DOMAIN Waiting = Partitions /\ DOMAIN Waiting' = Partitions
      /\ Waiting = [p \in Partitions |-> Waiting[p]]
      /\ Waiting' = [p \in Partitions |-> Waiting'[p]]
  BY DEF Waiting
<1>8. CASE PartitionOf(n) \in Partitions
  <2> PICK p \in Partitions : p = PartitionOf(n)
    BY <1>8
  <2>1. Waiting' = [Waiting EXCEPT ![p] = @ \cup {n}]
    BY <1>6, <1>7
  <2>2. Waiting' = [Waiting EXCEPT ![p] = @ \cup {cursor'}]
    BY <1>1, <2>1
  <2> QED
    BY <1>1, <1>2, <1>3, <1>5, <2>2 DEF Instances!Route
<1>9. CASE PartitionOf(n) \notin Partitions
  <2>1. Waiting' = Waiting
    BY <1>6, <1>7, <1>9
  <2> QED
    BY <1>1, <1>2, <1>3, <1>5, <2>1 DEF Instances!Route
<1> QED
  BY <1>8, <1>9

LEMMA ClaimQueue ==
  ASSUME NEW Event, LogType(Event), QInv, NEW w \in Workers, NEW n \in Numbers,
         Claim(w, n) \/ TakeOver(w, n)
  PROVE  QInv' /\ LogType(Event)' /\ QueueKept
<1> USE DEF QInv
<1>1. pc[w] = "idle" /\ itemState[n] \in {"pending", "claimed"} /\ Front(n) /\ Takes(w, n)
  BY DEF Claim, TakeOver
<1>2. faults' \in 0..MaxFaults
  BY FaultTyped, TypedBefore DEF Claim, TakeOver, LocalsTyped
<1>3. /\ TypeOK' /\ InOrder' /\ LogType(Event)' /\ DoneStays
      /\ \A p : Items(p)' = Items(p)
      /\ n \in 1..cursor /\ PartitionOf(n) \in Partitions
  BY <1>1, <1>2, TakesQueue
<1>4. /\ hand' = [hand EXCEPT ![w] = n] /\ pc' = [pc EXCEPT ![w] = "load"]
      /\ UNCHANGED <<log, cursor, snapshot, staged>>
  BY <1>1 DEF Takes, Goto, store
<1>5. n \in 1..Len(log) /\ \A m : PartitionOf(m)' = PartitionOf(m)
  BY <1>3, <1>4 DEF TypeOK, PartitionOf
<1>6. HandsFromLog'
  <2> SUFFICES ASSUME NEW v \in Workers, pc'[v] # "idle"
               PROVE  hand'[v] \in 1..Len(log) /\ PartitionOf(hand'[v]) \in Partitions
    BY <1>4, <1>5 DEF HandsFromLog, PartitionOf
  <2>1. CASE v = w
    BY <1>3, <1>4, <1>5, <2>1 DEF TypeOK
  <2>2. CASE v # w
    <3>1. hand'[v] = hand[v] /\ pc'[v] = pc[v]
      BY <1>4, <2>2 DEF TypeOK
    <3> QED
      BY <3>1 DEF HandsFromLog
  <2> QED
    BY <2>1, <2>2
<1>7. StagedFromLog' /\ SnapshotsFromLog'
  BY <1>4 DEF StagedFromLog, SnapshotsFromLog
<1>8. QueueKept
  BY <1>3, <1>4 DEF QueueKept, DoneStays
<1> QED
  BY <1>3, <1>6, <1>7, <1>8

\* complete_pm_instance is End.
LEMMA EndImplements ==
  ASSUME NEW Event, LogType(Event), QInv, NEW w \in Workers, Complete(w),
         CompletePmInstance(PartitionOf(hand[w]))
  PROVE  QInv' /\ Absorbs /\ \E p \in Partitions : Instances!End(p)
<1> USE DEF QInv
<1>0. CompletePmInstance(PartitionOf(hand[w])) /\ PartitionOf(hand[w]) \in Partitions
  BY CompleteLeaves
<1> PICK p \in Partitions : p = PartitionOf(hand[w])
  BY <1>0
<1>1. /\ TypeOK' /\ InOrder' /\ Absorbs
      /\ Items(p)' = {} /\ Done(p)' = {}
      /\ \A q : q # p => Items(q)' = Items(q) /\ Done(q)' = Done(q)
  BY <1>0, EndsQueue
<1>2. Waiting' = [Waiting EXCEPT ![p] = {}] /\ Absorbed' = [Absorbed EXCEPT ![p] = {}]
  BY <1>1 DEF Waiting, Absorbed
<1>3. UNCHANGED <<log, cursor>> /\ pc' = [pc EXCEPT ![w] = "idle"] /\ StagedFromLog'
      /\ \A v \in Workers : v # w => hand'[v] = hand[v]
  BY CompleteLeaves
<1>4. snapshot' = [snapshot EXCEPT ![p] = NoSnapshot]
  BY <1>0 DEF CompletePmInstance
<1>5. HandsFromLog'
  BY <1>3 DEF HandsFromLog, PartitionOf, TypeOK
<1>6. SnapshotsFromLog'
  <2> SUFFICES ASSUME NEW q \in Partitions, snapshot'[q] # NoSnapshot,
                      NEW i \in DOMAIN snapshot'[q].events
               PROVE  snapshot'[q].events[i] \in 1..Len(log)
    BY <1>3 DEF SnapshotsFromLog
  <2>1. snapshot'[q] = snapshot[q]
    BY <1>4, TypedBefore
  <2> QED
    BY <2>1 DEF SnapshotsFromLog
<1> QED
  BY <1>1, <1>2, <1>3, <1>5, <1>6 DEF Instances!End

\* complete_work_item_pm by the holder is Absorb of the earliest that waits.
LEMMA AbsorbImplements ==
  ASSUME NEW Event, LogType(Event), QInv, NEW w \in Workers, Complete(w), Holds(w),
         CompleteWorkItemPm(w)
  PROVE  /\ QInv' /\ Absorbs
         /\ \E p \in Partitions : \E n \in Waiting[p] : Instances!Absorb(p, n)
<1> USE DEF QInv
<1>0. hand[w] \in Numbers /\ PartitionOf(hand[w]) \in Partitions
  BY CompleteLeaves
<1> PICK n \in Numbers : n = hand[w]
  BY <1>0
<1> PICK p \in Partitions : p = PartitionOf(n)
  BY <1>0
<1>1. /\ TypeOK' /\ InOrder' /\ Absorbs
      /\ n \in 1..cursor /\ Done(p)' = Done(p) \cup {n}
      /\ \A m \in Done(p) : m < n
      /\ \A q : Items(q)' = Items(q) /\ (q # p => Done(q)' = Done(q))
      /\ n \in Items(p) \ Done(p) /\ \A m \in Items(p) \ Done(p) : n <= m
  BY AbsorbsQueue
<1>2. n \in Waiting[p] /\ \A m \in Waiting[p] : n <= m
  BY <1>1 DEF Waiting
<1>3. Absorbed' = [Absorbed EXCEPT ![p] = @ \cup {n}]
  BY <1>1 DEF Absorbed
<1>4. Waiting' = [Waiting EXCEPT ![p] = @ \ {n}]
  <2>1. Items(p)' \ Done(p)' = (Items(p) \ Done(p)) \ {n}
    BY <1>1
  <2>2. \A q \in Partitions : q # p => Items(q)' \ Done(q)' = Items(q) \ Done(q)
    BY <1>1
  <2> QED
    BY <2>1, <2>2 DEF Waiting
<1>5. UNCHANGED <<log, cursor>> /\ pc' = [pc EXCEPT ![w] = "idle"] /\ StagedFromLog'
      /\ \A v \in Workers : v # w => hand'[v] = hand[v]
  BY CompleteLeaves
<1>6. snapshot' = [snapshot EXCEPT ![p] = Row(w)] /\ Row(w).events = staged[w]
  BY DEF CompleteWorkItemPm, Row
<1>7. HandsFromLog'
  BY <1>5 DEF HandsFromLog, PartitionOf, TypeOK
<1>8. SnapshotsFromLog'
  <2> SUFFICES ASSUME NEW q \in Partitions, snapshot'[q] # NoSnapshot,
                      NEW i \in DOMAIN snapshot'[q].events
               PROVE  snapshot'[q].events[i] \in 1..Len(log)
    BY <1>5 DEF SnapshotsFromLog
  <2>1. CASE q = p
    <3>1. snapshot'[q] = Row(w)
      BY <1>6, <2>1, TypedBefore
    <3> QED
      BY <1>6, <3>1 DEF StagedFromLog
  <2>2. CASE q # p
    <3>1. snapshot'[q] = snapshot[q]
      BY <1>6, <2>2, TypedBefore
    <3> QED
      BY <3>1 DEF SnapshotsFromLog
  <2> QED
    BY <2>1, <2>2
<1>9. Instances!Absorb(p, n)
  BY <1>2, <1>3, <1>4, <1>5 DEF Instances!Absorb
<1> QED
  BY <1>1, <1>2, <1>5, <1>7, <1>8, <1>9

LEMMA CompleteImplements ==
  ASSUME NEW Event, LogType(Event), QInv, NEW w \in Workers, Complete(w)
  PROVE  QInv' /\ LogType(Event)' /\ Absorbs /\ PIStep
<1> USE DEF QInv
<1>1. LogType(Event)' /\ LocalsTyped' /\ settled' \subseteq Numbers
  BY CompleteLeaves
<1>2. CASE CompletePmInstance(PartitionOf(hand[w]))
  BY <1>1, <1>2, EndImplements DEF PIStep, Instances!PINext
<1>3. CASE Holds(w) /\ CompleteWorkItemPm(w)
  BY <1>1, <1>3, AbsorbImplements DEF PIStep, Instances!PINext
<1>4. CASE UNCHANGED <<itemState, itemHolder, snapshot>>
  <2>1. Grows /\ Len(log)' <= MaxEvents /\ UNCHANGED <<queue, rebuilds>>
    BY <1>4, CompleteLeaves, StaysGrows, TypedBefore DEF queue
  <2>2. \A v \in Workers : Moves(v)
    <3>1. Leave(w) /\ asked' \subseteq Inputs /\ faults' \in 0..MaxFaults
      BY CompleteLeaves, TypedBefore DEF Complete, LocalsTyped
    <3> QED
      BY <3>1, LeaveTyped
  <2>3. QInv' /\ QueueKept
    BY <1>1, <1>4, <2>1, <2>2, LocalQueue, TypedBefore
  <2> QED
    BY <1>1, <2>3, KeptStep DEF QueueKept, Absorbs
<1> QED
  BY <1>2, <1>3, <1>4 DEF Complete, CompleteWorkItemPm

\* delete_subscription empties the queues, whoever is at work.
LEMMA RestartImplements ==
  ASSUME NEW Event, LogType(Event), QInv, RebuildSubscription
  PROVE  QInv' /\ LogType(Event)' /\ Absorbs /\ Instances!Restart
<1> USE DEF QInv
<1>1. /\ cursor' = 0 /\ rebuilds' = rebuilds + 1 /\ rebuilds < MaxRebuilds
      /\ itemState' = [n \in Numbers |-> "absent"]
      /\ itemHolder' = [n \in Numbers |-> NoWorker]
      /\ settled' = {}
      /\ UNCHANGED <<log, asked, snapshot, pc, hand, staged, sent, faults>>
  BY DEF RebuildSubscription, store, local
<1>2. LogType(Event)' /\ \A m : PartitionOf(m)' = PartitionOf(m)
  BY <1>1 DEF LogType, PartitionOf
<1>3. \A p : Items(p)' = {} /\ Done(p)' = {}
  BY <1>1 DEF Items, Done
<1>4. TypeOK'
  <2>1. rebuilds' \in 0..MaxRebuilds
    BY <1>1, PmAssumption DEF PmAssumption, TypeOK
  <2>2. cursor' \in 0..Len(log)'
    BY <1>1 DEF TypeOK
  <2> QED
    BY <1>1, <2>1, <2>2 DEF TypeOK
<1>5. InOrder' /\ HandsFromLog' /\ StagedFromLog' /\ SnapshotsFromLog'
  BY <1>1, <1>2 DEF InOrder, HandsFromLog, StagedFromLog, SnapshotsFromLog
<1>6. Absorbs
  BY <1>3 DEF Absorbs
<1>7. Instances!Restart
  BY <1>1, <1>3 DEF Instances!Restart, Instances!Afresh, Instances!Empty, Waiting, Absorbed
<1> QED
  BY <1>2, <1>4, <1>5, <1>6, <1>7

LEMMA InitQueue ==
  ASSUME NEW Event, NEW Command, Sound(Event, Command), Init
  PROVE  QInv /\ LogType(Event) /\ Instances!Afresh
<1>1. IInv /\ LogType(Event)
  BY InitIInv
<1>2. QInv
  BY <1>1, HandedFromLog DEF IInv, QInv, Init, SnapshotsFromLog
<1>3. cursor = 0 /\ \A p : Items(p) = {} /\ Done(p) = {}
  BY DEF Init, Items, Done
<1> QED
  BY <1>1, <1>2, <1>3 DEF Instances!Afresh, Instances!Empty, Waiting, Absorbed

LEMMA NextQueue ==
  ASSUME NEW Event, NEW Command, Sound(Event, Command), QInv, LogType(Event),
         [Next \/ RebuildSubscription]_vars
  PROVE  QInv' /\ LogType(Event)' /\ Absorbs /\ PIStep
<1> USE DEF QInv
<1>0. QueueKept => Absorbs /\ PIStep
  BY KeptStep DEF QueueKept, Absorbs
<1>1. ASSUME NEW c \in Inputs, Ask(c) PROVE QInv' /\ LogType(Event)' /\ QueueKept
  BY <1>1, AskQueue
<1>2. CASE RouteNext
  <2>1. QInv' /\ LogType(Event)' /\ Instances!Route
    BY <1>2, RouteImplements
  <2>2. DoneStays
    BY <1>2, RouteQueue
  <2> QED
    BY <2>1, <2>2 DEF PIStep, Instances!PINext, Absorbs, DoneStays
<1>3. ASSUME NEW w \in Workers, Works(w) \/ AnswerLost(w) \/ Crash(w)
      PROVE  QInv' /\ LogType(Event)' /\ Absorbs /\ PIStep
  <2>1. ASSUME NEW n \in Numbers, Claim(w, n) \/ TakeOver(w, n)
        PROVE  QInv' /\ LogType(Event)' /\ QueueKept
    BY <2>1, ClaimQueue
  <2>2. CASE LoadState(w)
    BY <1>0, <2>2, LoadQueue
  <2>3. CASE RebuildState(w)
    BY <1>0, <2>3, RebuildQueue
  <2>4. CASE Dispatch(w)
    BY <1>0, <2>4, DispatchQueue
  <2>5. CASE CommandThrows(w)
    BY <1>0, <2>5, CommandThrowsQueue
  <2>6. CASE Complete(w)
    BY <2>6, CompleteImplements
  <2>7. CASE AnswerLost(w)
    BY <1>0, <2>7, AnswerLostQueue
  <2>8. CASE Crash(w)
    BY <1>0, <2>8, CrashQueue
  <2> QED
    BY <1>0, <1>3, <2>1, <2>2, <2>3, <2>4, <2>5, <2>6, <2>7, <2>8 DEF Works
<1>4. ASSUME NEW p \in Partitions, DeleteSnapshot(p)
      PROVE  QInv' /\ LogType(Event)' /\ QueueKept
  BY <1>4, DeleteSnapshotQueue
<1>5. CASE RebuildSubscription
  BY <1>5, RestartImplements DEF PIStep, Instances!PINext
<1>6. CASE UNCHANGED vars
  BY <1>0, <1>6, StutterQueue
<1> QED
  BY <1>0, <1>1, <1>2, <1>3, <1>4, <1>5, <1>6 DEF Next

-----------------------------------------------------------------------------
(***************************************************************************)
(* Theorems.                                                               *)
(***************************************************************************)
\* The invariant that ties snapshots, queue and the workers' staged states
\* together, whatever the interleaving of calls, takeovers and crashes.
THEOREM Inductive ==
  ASSUME NEW Event, NEW Command, Sound(Event, Command) PROVE Spec => [](IInv /\ LogType(Event))
<1>1. Init => IInv /\ LogType(Event)
  BY InitIInv
<1>2. (IInv /\ LogType(Event)) /\ [Next]_vars => (IInv /\ LogType(Event))'
  BY NextIInv
<1> QED
  BY <1>1, <1>2, PTL DEF Spec

\* Every variable keeps its type, and only events that are routed to a
\* partition are ever in the queue.
THEOREM TypeCorrect ==
  ASSUME NEW Event, NEW Command, Sound(Event, Command) PROVE Spec => []TypeOK
<1>1. IInv => TypeOK
  BY DEF IInv
<1> QED
  BY <1>1, Inductive, PTL

\* complete_work_item_pm, complete_pm_instance and delete_snapshot keep every
\* instance's snapshot the fold of its 'done' items (PM-024).
THEOREM SnapshotsAreFolds ==
  ASSUME NEW Event, NEW Command, Sound(Event, Command) PROVE Spec => []SnapshotIsFold
<1>1. IInv => SnapshotIsFold
  BY DEF IInv
<1> QED
  BY <1>1, Inductive, PTL

\* handle is given the fold of its instance's events by whoever holds the item,
\* loaded or rebuilt (loadState of the substrate).
THEOREM HandlesAreFolds ==
  ASSUME NEW Event, NEW Command, Sound(Event, Command) PROVE Spec => []HandlesFold
<1>1. IInv => HandlesFold
  BY DEF IInv
<1> QED
  BY <1>1, Inductive, PTL

\* What holds of the queue although an operator rebuilds the subscription under
\* working workers: types, the order within an instance, and that what workers
\* hold and snapshots carry comes from the log.
THEOREM RebuildInductive ==
  ASSUME NEW Event, NEW Command, Sound(Event, Command)
  PROVE  RebuildSpec => [](QInv /\ LogType(Event))
<1>1. Init => QInv /\ LogType(Event)
  BY InitQueue
<1>2. (QInv /\ LogType(Event)) /\ [Next \/ RebuildSubscription]_vars
      => (QInv /\ LogType(Event))'
  BY NextQueue
<1> QED
  BY <1>1, <1>2, PTL DEF RebuildSpec

LEMMA SpecIsRebuildSpec == Spec => RebuildSpec
<1>1. [Next]_vars => [Next \/ RebuildSubscription]_vars
  OBVIOUS
<1> QED
  BY <1>1, PTL DEF Spec, RebuildSpec

\* The queue of a process manager implements that of ProcessInstances, rebuilds
\* of the subscription included: routed once each and in order, absorbed
\* earliest first, and an instance's events gone when it ends (routeBatch,
\* complete_work_item_pm, complete_pm_instance, delete_subscription).
THEOREM InstancesKept ==
  ASSUME NEW Event, NEW Command, Sound(Event, Command)
  PROVE  (Spec => ImplementsInstances) /\ (RebuildSpec => ImplementsInstances)
<1>1. Init => Instances!Afresh
  BY InitQueue
<1>2. QInv /\ LogType(Event) /\ [Next \/ RebuildSubscription]_vars => PIStep
  BY NextQueue
<1>3. RebuildSpec => Instances!Afresh /\ [][PIStep]_<<cursor, Waiting, Absorbed>>
  BY <1>1, <1>2, RebuildInductive, PTL DEF RebuildSpec
<1>4. RebuildSpec => ImplementsInstances
  BY <1>3, PTL DEF ImplementsInstances, Instances!PISpec, Instances!piVars, PIStep
<1> QED
  BY <1>4, SpecIsRebuildSpec

\* Instances absorb their events one at a time and in the order of the log, or
\* end (INV-SUB-W-010, INV-SUB-W-021, INV-SUB-W-022); a rebuild gives no event
\* out of order either.
THEOREM AbsorbInOrder ==
  ASSUME NEW Event, NEW Command, Sound(Event, Command)
  PROVE  (Spec => AbsorbsInOrder) /\ (RebuildSpec => AbsorbsInOrder)
<1>1. QInv /\ LogType(Event) /\ [Next \/ RebuildSubscription]_vars => Absorbs
  BY NextQueue
<1>2. RebuildSpec => [][Absorbs]_vars
  BY <1>1, RebuildInductive, PTL DEF RebuildSpec
<1>3. RebuildSpec => AbsorbsInOrder
  BY <1>2 DEF AbsorbsInOrder, Absorbs
<1> QED
  BY <1>3, SpecIsRebuildSpec

\* No state has an event twice and no event of a later instance is discarded
\* (docs/guarantees.md; PM-022), until a fault: the fences of the queue are
\* enough as long as every worker keeps its lease to the end.
THEOREM ClaimsHold ==
  ASSUME NEW Event, NEW Command, Sound(Event, Command) PROVE Spec => []ClaimsHoldUntilFault
<1>1. Init => Orderly
  BY InitOrderly
<1>2. IInv /\ LogType(Event) /\ Orderly /\ [Next]_vars => Orderly'
  BY NextOrderly
<1>3. IInv /\ Orderly => ClaimsHoldUntilFault
  <2> SUFFICES ASSUME IInv, Orderly, faults + rebuilds = 0
               PROVE  AbsorbsRedelivery /\ LaterInstancesRun
    BY DEF ClaimsHoldUntilFault
  <2>1. faults = 0
    BY DEF IInv, TypeOK
  <2>2. StagesInOrder /\ LaterInstancesRun
    BY <2>1 DEF Orderly
  <2>3. ASSUME NEW w \in Workers, NEW i \in DOMAIN staged[w], NEW j \in DOMAIN staged[w],
               staged[w][i] = staged[w][j]
        PROVE  i = j
    <3>1. staged[w] \in Seq(Numbers)
      BY DEF IInv, TypeOK
    <3>2. i \in Nat /\ j \in Nat /\ staged[w][i] \in Int
      <4>1. /\ DOMAIN staged[w] = 1..Len(staged[w]) /\ Len(staged[w]) \in Nat
            /\ staged[w][i] \in Numbers
        BY <3>1
      <4>2. Numbers \subseteq Int
        BY DEF Numbers
      <4> QED
        BY <4>1, <4>2 DEF Numbers
    <3>3. ~(i < j) /\ ~(j < i)
      BY <2>2, <2>3, <3>2 DEF StagesInOrder, Increasing
    <3> QED
      BY <3>2, <3>3
  <2> QED
    BY <2>2, <2>3 DEF AbsorbsRedelivery
<1> QED
  BY <1>1, <1>2, <1>3, Inductive, PTL DEF Spec
=============================================================================

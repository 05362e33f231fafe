---------------------------- MODULE EffectProofs ----------------------------
(***************************************************************************)
(* Proofs about the effects of a process manager: where an event causes    *)
(* one event at most, a retry, a takeover, a lost answer or a crash, and   *)
(* nothing else, makes it cause a second one.                              *)
(***************************************************************************)
EXTENDS ProcessManagerProofs

\* An event is answered with a command at most, and a command with an event.
SingleEffects(Event, Command) ==
  /\ \A s \in Seq(Event), e \in Event :
       RouteFn(e) # Ignore => Len(Handle(s, e).commands) <= 1
  /\ \A s \in Seq(Event), c \in Command :
       Run(s, c) # Throws => Len(Run(s, c)) <= 1

\* The events that n caused.
Effects(n) == {m \in 1..Len(log) : log[m].causation = n}

\* A worker has n in hand and has not dispatched the command yet.
Due(w, n) == pc[w] # "idle" /\ hand[w] = n /\ sent[w] = 0

\* A worker may yet get n into its hands, without a fault.
Open(n) ==
  \/ n > cursor
  \/ itemState[n] = "pending"
  \/ itemState[n] = "claimed" /\ ~Attended(n)

\* What n has caused, and who may make it cause something.
Tokens(n) ==
  {<<"event", m>> : m \in Effects(n)}
    \cup {<<"worker", w>> : w \in {v \in Workers : Due(v, n)}}
    \cup (IF Open(n) THEN {<<"item", n>>} ELSE {})

AtMost(S, k) == IsFiniteSet(S) /\ Cardinality(S) <= k

\* Only a fault adds a token; without one they only change hands: from the item
\* to the worker that claims it, and on to the event that its command appends.
Budget ==
  /\ \A n \in Numbers : AtMost(Tokens(n), 1 + faults)
  /\ \A w \in Workers : sent[w] # 0 => pc[w] = "dispatch"

-----------------------------------------------------------------------------
(***************************************************************************)
(* Counting.                                                               *)
(***************************************************************************)
LEMMA AtMostSubset ==
  ASSUME NEW T, NEW k, AtMost(T, k), NEW S, S \subseteq T, k \in Nat
  PROVE  AtMost(S, k)
<1>1. IsFiniteSet(S) /\ Cardinality(S) <= Cardinality(T)
  BY FS_Subset DEF AtMost
<1>2. Cardinality(S) \in Nat /\ Cardinality(T) \in Nat
  BY <1>1, FS_CardinalityType DEF AtMost
<1> QED
  BY <1>1, <1>2 DEF AtMost

LEMMA AtMostMore ==
  ASSUME NEW T, NEW k, AtMost(T, k), NEW y, NEW S, S \subseteq T \cup {y}, k \in Nat
  PROVE  AtMost(S, k + 1)
<1>1. /\ IsFiniteSet(T \cup {y})
      /\ Cardinality(T \cup {y}) = IF y \in T THEN Cardinality(T) ELSE Cardinality(T) + 1
  BY FS_AddElement DEF AtMost
<1>2. Cardinality(T) \in Nat
  BY FS_CardinalityType DEF AtMost
<1>3. AtMost(T \cup {y}, k + 1)
  BY <1>1, <1>2 DEF AtMost
<1> QED
  BY <1>3, AtMostSubset

LEMMA AtMostSwap ==
  ASSUME NEW T, NEW k, AtMost(T, k), NEW x \in T, NEW y, NEW S,
         S \subseteq (T \ {x}) \cup {y}, k \in Nat
  PROVE  AtMost(S, k)
<1>1. /\ IsFiniteSet(T \ {x})
      /\ Cardinality(T \ {x}) = Cardinality(T) - 1
  BY FS_RemoveElement DEF AtMost
<1>2. Cardinality(T) \in Nat /\ Cardinality(T \ {x}) \in Nat
  BY <1>1, FS_CardinalityType DEF AtMost
<1>3. AtMost(T \ {x}, k - 1) /\ k - 1 \in Nat
  BY <1>1, <1>2 DEF AtMost
<1>4. AtMost(S, (k - 1) + 1)
  BY <1>3, AtMostMore
<1> QED
  BY <1>4

\* The ways in which a step may change the tokens of n.
Kept(n) == Tokens(n)' \subseteq Tokens(n)

Swapped(n) ==
  \E x \in Tokens(n) : \E y : Tokens(n)' \subseteq (Tokens(n) \ {x}) \cup {y}

Added(n) == \E y : Tokens(n)' \subseteq Tokens(n) \cup {y}

SwappedAndAdded(n) ==
  \E x \in Tokens(n) : \E y, z : Tokens(n)' \subseteq (Tokens(n) \ {x}) \cup {y, z}

LEMMA BudgetLasts ==
  ASSUME Budget, faults \in Nat, faults' \in {faults, faults + 1},
         \A n \in Numbers :
           \/ Kept(n) \/ Swapped(n)
           \/ faults' = faults + 1 /\ (Added(n) \/ SwappedAndAdded(n)),
         \A w \in Workers : sent'[w] # 0 => pc'[w] = "dispatch"
  PROVE  Budget'
<1> SUFFICES ASSUME NEW n \in Numbers PROVE AtMost(Tokens(n)', 1 + faults')
  BY DEF Budget, AtMost
<1> PICK T : T = Tokens(n)
  OBVIOUS
<1> PICK S : S = Tokens(n)'
  OBVIOUS
<1> PICK k \in Nat : k = 1 + faults
  OBVIOUS
<1>1. AtMost(T, k)
  BY DEF Budget
<1>2. CASE Kept(n) \/ Swapped(n)
  <2>1. AtMost(S, k)
    BY <1>1, <1>2, AtMostSubset, AtMostSwap DEF Kept, Swapped
  <2>2. AtMost(S, k + 1)
    BY <2>1, FS_CardinalityType DEF AtMost
  <2> QED
    BY <2>1, <2>2
<1>3. CASE faults' = faults + 1 /\ Added(n)
  <2>1. AtMost(S, k + 1)
    BY <1>1, <1>3, AtMostMore DEF Added
  <2> QED
    BY <1>3, <2>1
<1>4. CASE faults' = faults + 1 /\ SwappedAndAdded(n)
  <2>0. PICK x \in T : \E y, z : S \subseteq (T \ {x}) \cup {y, z}
    BY <1>4 DEF SwappedAndAdded
  <2>1. PICK y, z : S \subseteq (T \ {x}) \cup {y, z}
    BY <2>0
  <2>2. PICK W : W = (T \ {x}) \cup {y}
    OBVIOUS
  <2>3. AtMost(W, k)
    BY <1>1, <2>2, AtMostSwap
  <2>4. S \subseteq W \cup {z}
    BY <2>1, <2>2
  <2>5. AtMost(S, k + 1)
    BY <2>3, <2>4, AtMostMore
  <2> QED
    BY <1>4, <2>5
<1> QED
  BY <1>2, <1>3, <1>4

-----------------------------------------------------------------------------
(***************************************************************************)
(* What a step does to the three kinds of tokens.                          *)
(***************************************************************************)
LEMMA TokensWithin ==
  ASSUME NEW n, NEW STATE R,
         \A m \in Effects(n)' : <<"event", m>> \in R,
         \A v \in Workers : Due(v, n)' => <<"worker", v>> \in R,
         Open(n)' => <<"item", n>> \in R
  PROVE  Tokens(n)' \subseteq R
BY DEF Tokens

\* A command appends at most one event.
LEMMA EffectsGrow ==
  ASSUME NEW Event, NEW Command, Sound(Event, Command), SingleEffects(Event, Command),
         LogType(Event), NEW STATE c, c \in Command, NEW STATE m, m \in Nat, Appends(c, m)
  PROVE  \A n \in Numbers :
           Effects(n)' \subseteq Effects(n) \cup (IF n = m THEN {Len(log) + 1} ELSE {})
<1> DEFINE events == Run(Events, c)
           Entries == [event : Event, causation : Nat]
           t == [i \in DOMAIN events |-> [event |-> events[i], causation |-> m]]
<1>1. log \in Seq(Entries) /\ Len(log) \in Nat /\ DOMAIN log = 1..Len(log)
  BY DEF LogType
<1>2. Events \in Seq(Event)
  <2>1. \A i \in 1..Len(log) : log[i].event \in Event
    BY EntryEvent
  <2> QED
    BY <1>1, <2>1 DEF Events
<1>3. events \in Seq(Event) /\ Len(events) <= 1 /\ log' = log \o t
  BY <1>2 DEF Appends, Sound, SingleEffects
<1> HIDE DEF events
<1>4. /\ Len(events) \in {0, 1} /\ DOMAIN events = 1..Len(events)
      /\ \A i \in 1..Len(events) : events[i] \in Event
  <2>1. /\ Len(events) \in Nat /\ DOMAIN events = 1..Len(events)
        /\ \A i \in 1..Len(events) : events[i] \in Event
    BY <1>3
  <2> QED
    BY <1>3, <2>1
<1>5. t \in Seq(Entries) /\ Len(t) = Len(events) /\ \A i \in 1..Len(t) : t[i].causation = m
  BY <1>4
<1> HIDE DEF t, Entries
<1>6. /\ Len(log') = Len(log) + Len(t)
      /\ \A i \in 1..Len(log) + Len(t) :
           log'[i] = IF i <= Len(log) THEN log[i] ELSE t[i - Len(log)]
  BY <1>1, <1>3, <1>5, ConcatProperties
<1>7. ASSUME NEW n \in Numbers, NEW i \in 1..Len(log'), log'[i].causation = n
      PROVE  i \in Effects(n) \cup (IF n = m THEN {Len(log) + 1} ELSE {})
  <2>1. CASE i <= Len(log)
    <3>1. i \in 1..Len(log)
      BY <1>1, <1>4, <1>5, <1>6, <2>1
    <3>2. i \in 1..Len(log) + Len(t)
      BY <1>1, <1>4, <1>5, <3>1
    <3>3. log'[i] = log[i]
      BY <1>6, <2>1, <3>2
    <3> QED
      BY <1>7, <3>1, <3>3 DEF Effects
  <2>2. CASE ~(i <= Len(log))
    <3>1. i = Len(log) + 1 /\ i - Len(log) \in 1..Len(t)
      <4>1. PICK k \in Nat : k = Len(log)
        BY <1>1
      <4>2. PICK j \in {0, 1} : j = Len(t)
        BY <1>4, <1>5
      <4>3. i \in 1..k + j /\ ~(i <= k)
        BY <1>6, <2>2, <4>1, <4>2
      <4>4. i = k + 1 /\ i - k \in 1..j
        BY <4>3
      <4> QED
        BY <4>1, <4>2, <4>4
    <3>2. log'[i].causation = m
      BY <1>1, <1>4, <1>5, <1>6, <2>2, <3>1
    <3> QED
      BY <1>7, <3>1, <3>2
  <2> QED
    BY <2>1, <2>2
<1> QED
  BY <1>7 DEF Effects

LEMMA EffectsStay ==
  ASSUME UNCHANGED log PROVE \A n : Effects(n)' = Effects(n)
BY DEF Effects

\* Nobody claims, leaves or dispatches.
LEMMA NobodyMoves ==
  ASSUME UNCHANGED <<cursor, itemState, itemHolder, hand>>,
         \A v \in Workers : /\ pc'[v] = "idle" <=> pc[v] = "idle"
                            /\ sent'[v] = 0 => sent[v] = 0,
         NEW n, Effects(n)' \subseteq Effects(n)
  PROVE  Kept(n)
<1>1. \A v \in Workers : Due(v, n)' => Due(v, n)
  BY DEF Due
<1>2. Attended(n)' <=> Attended(n)
  BY DEF Attended
<1>3. Open(n)' => Open(n)
  BY <1>2 DEF Open
<1> QED
  BY <1>1, <1>3, TokensWithin DEF Kept, Tokens

\* A worker that leaves opens the item it attended to, if it is still there.
LEMMA LeaverMoves ==
  ASSUME TypeOK, NEW w \in Workers, Leave(w), pc[w] # "idle",
         UNCHANGED <<cursor, itemState, itemHolder>>
  PROVE  /\ \A n \in Numbers : \A v \in Workers : Due(v, n)' => Due(v, n) /\ v # w
         /\ \A n \in Numbers : n # hand[w] /\ Open(n)' => Open(n)
         /\ \A v \in Workers : v # w =>
              pc'[v] = pc[v] /\ hand'[v] = hand[v] /\ sent'[v] = sent[v]
         /\ pc'[w] = "idle" /\ sent'[w] = 0
<1>1. /\ \A v \in Workers : v # w =>
           pc'[v] = pc[v] /\ hand'[v] = hand[v] /\ sent'[v] = sent[v]
      /\ pc'[w] = "idle" /\ sent'[w] = 0
  BY DEF TypeOK, Leave, Goto
<1>2. \A n \in Numbers : \A v \in Workers : Due(v, n)' => Due(v, n) /\ v # w
  BY <1>1 DEF Due
<1>3. ASSUME NEW n \in Numbers, n # hand[w], Open(n)' PROVE Open(n)
  <2>1. Attended(n) => Attended(n)'
    BY <1>1, <1>3 DEF Attended
  <2> QED
    BY <1>3, <2>1 DEF Open
<1> QED
  BY <1>1, <1>2, <1>3

-----------------------------------------------------------------------------
(***************************************************************************)
(* The steps.                                                              *)
(***************************************************************************)
LEMMA SentLater ==
  ASSUME Budget, NEW w \in Workers, pc[w] # "dispatch" PROVE sent[w] = 0
BY DEF Budget

LEMMA FaultsNat ==
  ASSUME TypeOK PROVE faults \in Nat /\ (Fault => faults' = faults + 1)
BY TypedBefore DEF LocalsTyped, Fault

LEMMA AskBudget ==
  ASSUME NEW Event, NEW Command, Sound(Event, Command), SingleEffects(Event, Command),
         LogType(Event), IInv, Budget, NEW c \in Inputs, Ask(c)
  PROVE  Budget'
<1>1. UNCHANGED <<cursor, itemState, itemHolder, pc, hand, sent, faults>>
  BY DEF Ask, queue, local
<1>2. \A n \in Numbers : Effects(n)' \subseteq Effects(n)
  <2>1. CASE Appends(c, 0)
    <3>1. c \in Command
      BY DEF Sound
    <3>2. \A n \in Numbers : n # 0
      BY DEF Numbers
    <3> QED
      BY <2>1, <3>1, <3>2, EffectsGrow
  <2>2. CASE UNCHANGED log
    BY <2>2, EffectsStay
  <2> QED
    BY <2>1, <2>2 DEF Ask
<1>3. \A n \in Numbers : Kept(n)
  BY <1>1, <1>2, NobodyMoves
<1> QED
  BY <1>1, <1>3, BudgetLasts, FaultsNat DEF IInv, Budget

LEMMA RouteBudget ==
  ASSUME IInv, Budget, RouteNext PROVE Budget'
<1>1. /\ cursor \in Nat /\ cursor' = cursor + 1 /\ cursor + 1 \in Numbers
      /\ itemState' = [itemState EXCEPT ![cursor + 1] = Routed(cursor + 1)]
      /\ UNCHANGED <<log, itemHolder, pc, hand, sent, faults>>
  BY TypedBefore DEF RouteNext, store, local, IInv, TypeOK
<1>2. ASSUME NEW n \in Numbers PROVE Kept(n)
  <2>1. \A v \in Workers : Due(v, n)' => Due(v, n)
    BY <1>1 DEF Due
  <2>2. Attended(n)' <=> Attended(n)
    BY <1>1 DEF Attended
  <2>3. Open(n)' => Open(n)
    <3>1. CASE n = cursor + 1
      BY <1>1, <3>1 DEF Open
    <3>2. CASE n # cursor + 1
      <4>1. itemState'[n] = itemState[n]
        BY <1>1, <3>2 DEF IInv, TypeOK
      <4>2. n > cursor' => n > cursor
        BY <1>1 DEF Numbers
      <4> QED
        BY <2>2, <4>1, <4>2 DEF Open
    <3> QED
      BY <3>1, <3>2
  <2>4. Effects(n)' = Effects(n)
    BY <1>1, EffectsStay
  <2> QED
    BY <2>1, <2>3, <2>4, TokensWithin DEF Kept, Tokens
<1> QED
  BY <1>1, <1>2, BudgetLasts, FaultsNat DEF IInv, Budget

\* The token goes from the item to its worker; a takeover from a worker that is
\* still at work adds one.
LEMMA TakesBudget ==
  ASSUME IInv, Budget, NEW w \in Workers, NEW i \in Numbers,
         Claim(w, i) \/ TakeOver(w, i)
  PROVE  Budget'
<1>1. /\ pc[w] = "idle" /\ itemState[i] \in {"pending", "claimed"}
      /\ itemState' = [itemState EXCEPT ![i] = "claimed"]
      /\ itemHolder' = [itemHolder EXCEPT ![i] = w]
      /\ hand' = [hand EXCEPT ![w] = i]
      /\ pc' = [pc EXCEPT ![w] = "load"]
      /\ UNCHANGED <<log, cursor, sent>>
  BY DEF Claim, TakeOver, Takes, Goto, store
<1>2. \/ Open(i) /\ UNCHANGED faults
      \/ faults' = faults + 1
  BY FaultsNat DEF Claim, TakeOver, Open, IInv
<1>3. /\ \A v \in Workers : v # w => pc'[v] = pc[v] /\ hand'[v] = hand[v]
      /\ pc'[w] = "load" /\ hand'[w] = i
      /\ \A n \in Numbers : n # i => itemState'[n] = itemState[n] /\ itemHolder'[n] = itemHolder[n]
      /\ itemState'[i] = "claimed" /\ itemHolder'[i] = w
  BY <1>1 DEF IInv, TypeOK
<1>4. ASSUME NEW n \in Numbers, n # i PROVE Kept(n)
  <2>1. \A v \in Workers : Due(v, n)' => Due(v, n)
    BY <1>1, <1>3, <1>4 DEF Due
  <2>2. Attended(n) => Attended(n)'
    BY <1>1, <1>3, <1>4 DEF Attended
  <2>3. Open(n)' => Open(n)
    BY <1>1, <1>3, <1>4, <2>2 DEF Open
  <2> QED
    BY <1>1, <2>1, <2>3, EffectsStay, TokensWithin DEF Kept, Tokens
<1>5. /\ \A v \in Workers : Due(v, i)' => Due(v, i) \/ v = w
      /\ ~Open(i)'
      /\ Effects(i)' = Effects(i)
  <2>1. \A v \in Workers : Due(v, i)' => Due(v, i) \/ v = w
    BY <1>1, <1>3 DEF Due
  <2>2. Attended(i)'
    BY <1>3 DEF Attended
  <2>3. ~(i > cursor')
    BY <1>1 DEF IInv, TypeOK, Numbers
  <2> QED
    BY <1>1, <1>3, <2>1, <2>2, <2>3, EffectsStay DEF Open
<1>6. Tokens(i)' \subseteq (Tokens(i) \ {<<"item", i>>}) \cup {<<"worker", w>>}
  <2>1. \A m : <<"event", m>> # <<"item", i>> /\ <<"worker", m>> # <<"item", i>>
    OBVIOUS
  <2> QED
    BY <1>5, <2>1 DEF Tokens
<1>7. CASE Open(i) /\ UNCHANGED faults
  <2>1. <<"item", i>> \in Tokens(i)
    BY <1>7 DEF Tokens
  <2>2. Swapped(i)
    BY <1>6, <2>1 DEF Swapped
  <2> QED
    BY <1>1, <1>3, <1>4, <1>7, <2>2, BudgetLasts, FaultsNat, SentLater DEF IInv, Budget
<1>8. CASE faults' = faults + 1
  <2>1. Added(i)
    BY <1>6 DEF Added
  <2> QED
    BY <1>1, <1>3, <1>4, <1>8, <2>1, BudgetLasts, FaultsNat, SentLater DEF IInv, Budget
<1> QED
  BY <1>2, <1>7, <1>8

\* loadState.
LEMMA LoadBudget ==
  ASSUME IInv, Budget, NEW w \in Workers, LoadState(w) \/ RebuildState(w) PROVE Budget'
<1>1. /\ pc[w] \in {"load", "rebuild"}
      /\ UNCHANGED <<log, cursor, itemState, itemHolder, hand, faults>>
      /\ \/ pc' = [pc EXCEPT ![w] = "dispatch"] /\ sent' = [sent EXCEPT ![w] = 0]
         \/ pc' = [pc EXCEPT ![w] = "rebuild"] /\ UNCHANGED sent
  BY DEF LoadState, RebuildState, Stage, Goto, store, queue
<1>2. \A v \in Workers : /\ pc'[v] = "idle" <=> pc[v] = "idle"
                         /\ sent'[v] = 0 => sent[v] = 0
                         /\ sent'[v] # 0 => pc'[v] = "dispatch"
  <2>1. sent[w] = 0
    BY <1>1, SentLater
  <2>2. /\ \A v \in Workers : v # w => pc'[v] = pc[v] /\ sent'[v] = sent[v]
        /\ pc'[w] \in {"dispatch", "rebuild"} /\ sent'[w] = 0
    BY <1>1, <2>1 DEF IInv, TypeOK
  <2> QED
    BY <1>1, <2>1, <2>2 DEF Budget
<1>3. \A n \in Numbers : Kept(n)
  BY <1>1, <1>2, EffectsStay, NobodyMoves
<1> QED
  BY <1>1, <1>2, <1>3, BudgetLasts, FaultsNat DEF IInv

\* What a worker has to dispatch is its one command.
LEMMA OneCommand ==
  ASSUME NEW Event, NEW Command, Sound(Event, Command), SingleEffects(Event, Command),
         LogType(Event), IInv, NEW w \in Workers, pc[w] = "dispatch", ~AllSent(w)
  PROVE  /\ sent[w] = 0 /\ NextCommand(w) \in Command
         /\ hand[w] \in Numbers /\ hand[w] \in Nat /\ hand[w] \in 1..cursor
         /\ Due(w, hand[w]) /\ <<"worker", w>> \in Tokens(hand[w])
<1> DEFINE folded == [i \in DOMAIN staged[w] |-> log[staged[w][i]].event]
<1>1. NextCommand(w) \in Command
  BY Commands
<1>2. hand[w] \in Numbers /\ hand[w] \in Nat /\ hand[w] \in 1..cursor
      /\ hand[w] \in 1..Len(log) /\ RouteFn(log[hand[w]].event) # Ignore
  BY TypedBefore, PmAssumption
     DEF IInv, Handed, TypeOK, Numbers, PartitionOf, PmAssumption
<1>3. folded \in Seq(Event)
  <2>1. \A i \in DOMAIN staged[w] : log[staged[w][i]].event \in Event
    BY EntryEvent DEF IInv, StagedFromLog
  <2>2. staged[w] \in Seq(Numbers)
    BY DEF IInv, TypeOK
  <2> QED
    BY <2>1, <2>2
<1>4. log[hand[w]].event \in Event
  BY <1>2, EntryEvent
<1>5. Result(w) = Handle(folded, log[hand[w]].event)
  BY DEF Result
<1>6. Result(w).commands \in Seq(Command) /\ Len(Result(w).commands) <= 1
  BY <1>2, <1>3, <1>4, <1>5 DEF Sound, SingleEffects
<1>7. sent[w] = 0
  <2>1. Len(Result(w).commands) \in Nat /\ sent[w] \in Nat
    BY <1>6 DEF IInv, TypeOK
  <2> QED
    BY <1>6, <2>1 DEF AllSent
<1> QED
  BY <1>1, <1>2, <1>7 DEF Due, Tokens

\* The token goes from the worker to the event.
LEMMA DispatchBudget ==
  ASSUME NEW Event, NEW Command, Sound(Event, Command), SingleEffects(Event, Command),
         LogType(Event), IInv, Budget, NEW w \in Workers, Dispatch(w)
  PROVE  Budget'
<1>1. /\ pc[w] = "dispatch" /\ ~AllSent(w) /\ Appends(NextCommand(w), hand[w])
      /\ sent' = [sent EXCEPT ![w] = @ + 1]
      /\ UNCHANGED <<cursor, itemState, itemHolder, pc, hand, faults>>
  BY DEF Dispatch, queue
<1>2. PICK i \in Numbers : i = hand[w]
  BY <1>1, OneCommand
<1>3. /\ \A v \in Workers : v # w => sent'[v] = sent[v]
      /\ sent'[w] = 1 /\ <<"worker", w>> \in Tokens(i)
  <2>1. sent \in [Workers -> Nat]
    BY DEF IInv, TypeOK
  <2>2. sent[w] = 0 /\ <<"worker", w>> \in Tokens(i)
    BY <1>1, <1>2, OneCommand
  <2> QED
    BY <1>1, <2>1, <2>2
<1>4. \A n \in Numbers :
        /\ \A v \in Workers : Due(v, n)' => Due(v, n) /\ v # w
        /\ Open(n)' => Open(n)
        /\ Effects(n)' \subseteq Effects(n) \cup (IF n = i THEN {Len(log) + 1} ELSE {})
  <2>1. \A n \in Numbers :
          Effects(n)' \subseteq Effects(n) \cup (IF n = i THEN {Len(log) + 1} ELSE {})
    BY <1>1, <1>2, OneCommand, EffectsGrow
  <2>2. ASSUME NEW n \in Numbers, NEW v \in Workers, Due(v, n)' PROVE Due(v, n) /\ v # w
    BY <1>1, <1>3, <2>2 DEF Due
  <2>3. \A n \in Numbers : Open(n)' => Open(n)
    BY <1>1 DEF Open, Attended
  <2> QED
    BY <2>1, <2>2, <2>3
<1>5. ASSUME NEW n \in Numbers PROVE Kept(n) \/ Swapped(n)
  <2>1. CASE n # i
    BY <1>4, <2>1, TokensWithin DEF Kept, Tokens
  <2>2. CASE n = i
    <3>1. Tokens(n)' \subseteq (Tokens(n) \ {<<"worker", w>>}) \cup {<<"event", Len(log) + 1>>}
      <4>1. \A x, v : <<"event", x>> # <<"worker", v>> /\ <<"item", x>> # <<"worker", v>>
        OBVIOUS
      <4>2. \A m \in Effects(n)' : m \in Effects(n) \/ m = Len(log) + 1
        BY <1>4, <2>2
      <4>3. \A v \in Workers : Due(v, n)' => Due(v, n) /\ v # w
        BY <1>4
      <4>4. Open(n)' => Open(n)
        BY <1>4
      <4> SUFFICES ASSUME NEW x \in Tokens(n)'
                   PROVE  \/ x \in Tokens(n) /\ x # <<"worker", w>>
                          \/ x = <<"event", Len(log) + 1>>
        OBVIOUS
      <4>5. CASE \E m \in Effects(n)' : x = <<"event", m>>
        BY <4>1, <4>2, <4>5 DEF Tokens
      <4>6. CASE \E v \in Workers : Due(v, n)' /\ x = <<"worker", v>>
        <5>1. PICK v \in Workers : Due(v, n)' /\ x = <<"worker", v>>
          BY <4>6
        <5>2. Due(v, n) /\ v # w
          BY <4>3, <5>1
        <5> QED
          BY <5>1, <5>2 DEF Tokens
      <4>7. CASE Open(n)' /\ x = <<"item", n>>
        BY <4>1, <4>4, <4>7 DEF Tokens
      <4> QED
        BY <4>5, <4>6, <4>7 DEF Tokens
    <3>2. <<"worker", w>> \in Tokens(n)
      BY <1>3, <2>2
    <3> QED
      BY <3>1, <3>2 DEF Swapped
  <2> QED
    BY <2>1, <2>2
<1> QED
  BY <1>1, <1>3, <1>5, BudgetLasts, FaultsNat DEF IInv, Budget

\* The token goes back from the worker to the item it leaves.
LEMMA LeaverSwaps ==
  ASSUME TypeOK, NEW w \in Workers, Leave(w), pc[w] # "idle",
         UNCHANGED <<log, cursor, itemState, itemHolder>>, hand[w] \in Numbers
  PROVE  /\ \A n \in Numbers : n # hand[w] => Kept(n)
         /\ \A n \in Numbers : n = hand[w] =>
              Tokens(n)' \subseteq (Tokens(n) \ {<<"worker", w>>}) \cup {<<"item", n>>}
<1>1. ASSUME NEW n \in Numbers, n # hand[w] PROVE Kept(n)
  BY <1>1, LeaverMoves, EffectsStay, TokensWithin DEF Kept, Tokens
<1>2. PICK i \in Numbers : i = hand[w]
  OBVIOUS
<1>3. \A x, v : <<"event", x>> # <<"worker", v>> /\ <<"item", x>> # <<"worker", v>>
  OBVIOUS
<1>4. \A v \in Workers : Due(v, i)' => Due(v, i) /\ v # w
  BY LeaverMoves
<1>5. Tokens(i)' \subseteq (Tokens(i) \ {<<"worker", w>>}) \cup {<<"item", i>>}
  BY <1>3, <1>4, EffectsStay DEF Tokens
<1> QED
  BY <1>1, <1>2, <1>5

\* The policy retries, with the command still to be sent, or the worker leaves.
LEMMA ThrowsMoves ==
  ASSUME TypeOK, Budget, NEW w \in Workers, pc[w] = "dispatch", sent[w] = 0,
         HandlerThrows(w)
  PROVE  \/ Leave(w)
         \/ /\ UNCHANGED <<hand, sent>>
            /\ \A v \in Workers : /\ pc'[v] = "idle" <=> pc[v] = "idle"
                                  /\ sent'[v] = 0 => sent[v] = 0
                                  /\ sent'[v] # 0 => pc'[v] = "dispatch"
<1>1. CASE Goto(w, "load") /\ UNCHANGED <<hand, staged, sent>>
  <2>1. pc'[w] = "load" /\ \A v \in Workers : v # w => pc'[v] = pc[v]
    BY <1>1 DEF Goto, TypeOK
  <2> QED
    BY <1>1, <2>1 DEF Budget
<1> QED
  BY <1>1 DEF HandlerThrows

LEMMA ThrowsBudget ==
  ASSUME NEW Event, NEW Command, Sound(Event, Command), SingleEffects(Event, Command),
         LogType(Event), IInv, Budget, NEW w \in Workers, CommandThrows(w)
  PROVE  Budget'
<1>1. /\ pc[w] = "dispatch" /\ ~AllSent(w) /\ HandlerThrows(w)
      /\ UNCHANGED <<log, cursor, itemState, itemHolder, faults>>
  BY DEF CommandThrows, store, queue
<1>2. /\ sent[w] = 0 /\ hand[w] \in Numbers /\ <<"worker", w>> \in Tokens(hand[w])
  BY <1>1, OneCommand
<1>3. CASE Leave(w)
  <2>1. \A n \in Numbers : Kept(n) \/ Swapped(n)
    BY <1>1, <1>2, <1>3, LeaverSwaps DEF Swapped, IInv
  <2>2. \A v \in Workers : sent'[v] # 0 => pc'[v] = "dispatch"
    BY <1>1, <1>3, LeaverMoves DEF IInv, Budget
  <2> QED
    BY <1>1, <2>1, <2>2, BudgetLasts, FaultsNat DEF IInv
<1>4. CASE /\ UNCHANGED <<hand, sent>>
           /\ \A v \in Workers : /\ pc'[v] = "idle" <=> pc[v] = "idle"
                                 /\ sent'[v] = 0 => sent[v] = 0
                                 /\ sent'[v] # 0 => pc'[v] = "dispatch"
  <2>1. \A n \in Numbers : Kept(n)
    BY <1>1, <1>4, EffectsStay, NobodyMoves
  <2> QED
    BY <1>1, <1>4, <2>1, BudgetLasts, FaultsNat DEF IInv
<1> QED
  BY <1>1, <1>2, <1>3, <1>4, ThrowsMoves DEF IInv

\* The command is committed and sent again: the one token that is added.
LEMMA AnswerLostBudget ==
  ASSUME NEW Event, NEW Command, Sound(Event, Command), SingleEffects(Event, Command),
         LogType(Event), IInv, Budget, NEW w \in Workers, AnswerLost(w)
  PROVE  Budget'
<1>1. /\ pc[w] = "dispatch" /\ ~AllSent(w) /\ HandlerThrows(w)
      /\ Appends(NextCommand(w), hand[w])
      /\ UNCHANGED <<cursor, itemState, itemHolder>>
      /\ faults \in Nat /\ faults' = faults + 1
  BY FaultsNat DEF AnswerLost, store, queue, IInv
<1>2. PICK i \in Numbers : i = hand[w]
  BY <1>1, OneCommand
<1>3. /\ sent[w] = 0 /\ <<"worker", w>> \in Tokens(i)
  BY <1>1, <1>2, OneCommand
<1>4. \A n \in Numbers :
        Effects(n)' \subseteq Effects(n) \cup (IF n = i THEN {Len(log) + 1} ELSE {})
  BY <1>1, <1>2, OneCommand, EffectsGrow
<1>5. \A x, v : <<"event", x>> # <<"worker", v>> /\ <<"item", x>> # <<"worker", v>>
  OBVIOUS
<1>6. CASE Leave(w)
  <2>1. ASSUME NEW n \in Numbers, n # i PROVE Kept(n)
    BY <1>1, <1>2, <1>4, <1>6, <2>1, LeaverMoves, TokensWithin DEF Kept, Tokens, IInv
  <2>2. \A v \in Workers : Due(v, i)' => Due(v, i) /\ v # w
    BY <1>1, <1>6, LeaverMoves DEF IInv
  <2>3. Tokens(i)' \subseteq (Tokens(i) \ {<<"worker", w>>})
                              \cup {<<"item", i>>, <<"event", Len(log) + 1>>}
    <3>1. \A m \in Effects(i)' : m \in Effects(i) \/ m = Len(log) + 1
      BY <1>4
    <3> QED
      BY <1>5, <2>2, <3>1 DEF Tokens
  <2>4. SwappedAndAdded(i)
    BY <1>3, <2>3 DEF SwappedAndAdded
  <2>5. \A v \in Workers : sent'[v] # 0 => pc'[v] = "dispatch"
    BY <1>1, <1>6, LeaverMoves DEF IInv, Budget
  <2> QED
    BY <1>1, <2>1, <2>4, <2>5, BudgetLasts
<1>7. CASE /\ UNCHANGED <<hand, sent>>
           /\ \A v \in Workers : /\ pc'[v] = "idle" <=> pc[v] = "idle"
                                 /\ sent'[v] = 0 => sent[v] = 0
                                 /\ sent'[v] # 0 => pc'[v] = "dispatch"
  <2>1. \A n \in Numbers : n # i => Kept(n)
    BY <1>1, <1>4, <1>7, NobodyMoves
  <2>2. /\ \A v \in Workers : Due(v, i)' => Due(v, i)
        /\ Open(i)' => Open(i)
    BY <1>1, <1>7 DEF Due, Open, Attended
  <2>3. Tokens(i)' \subseteq Tokens(i) \cup {<<"event", Len(log) + 1>>}
    <3>1. \A m \in Effects(i)' : m \in Effects(i) \/ m = Len(log) + 1
      BY <1>4
    <3> QED
      BY <2>2, <3>1 DEF Tokens
  <2> QED
    BY <1>1, <1>7, <2>1, <2>3, BudgetLasts DEF Added
<1> QED
  BY <1>1, <1>3, <1>6, <1>7, ThrowsMoves DEF IInv

LEMMA CrashBudget ==
  ASSUME IInv, Budget, NEW w \in Workers, Crash(w) PROVE Budget'
<1>1. /\ pc[w] # "idle" /\ Leave(w)
      /\ UNCHANGED <<log, cursor, itemState, itemHolder>>
      /\ faults \in Nat /\ faults' = faults + 1
  BY FaultsNat DEF Crash, store, queue, IInv
<1>2. PICK i \in Numbers : i = hand[w]
  BY <1>1, TypedBefore DEF IInv, Handed, TypeOK, Numbers
<1>3. \A n \in Numbers : Kept(n) \/ Added(n)
  BY <1>1, <1>2, LeaverSwaps DEF Added, IInv
<1>4. \A v \in Workers : sent'[v] # 0 => pc'[v] = "dispatch"
  BY <1>1, LeaverMoves DEF IInv, Budget
<1> QED
  BY <1>1, <1>3, <1>4, BudgetLasts

\* The item that is completed is gone or 'done', unless the worker has lost it.
LEMMA CompleteBudget ==
  ASSUME NEW Event, LogType(Event), IInv, Budget, NEW w \in Workers, Complete(w)
  PROVE  Budget'
<1>1. /\ UNCHANGED <<log, cursor, faults>> /\ pc[w] = "dispatch" /\ Leave(w)
      /\ hand[w] \in 1..cursor /\ hand[w] \in Numbers /\ cursor \in Nat
  BY CompleteFacts DEF Complete
<1>2. PICK i \in Numbers : i = hand[w]
  BY <1>1
<1>3. /\ pc'[w] = "idle" /\ hand'[w] = 0 /\ sent'[w] = 0
      /\ \A v \in Workers : v # w =>
           pc'[v] = pc[v] /\ hand'[v] = hand[v] /\ sent'[v] = sent[v]
  BY <1>1 DEF Leave, Goto, IInv, TypeOK
<1>4. \A n \in Numbers : \A v \in Workers : Due(v, n)' => Due(v, n)
  BY <1>3 DEF Due
<1>5. ASSUME NEW n \in Numbers, Open(n)' PROVE Open(n)
  <2>1. CASE CompletePmInstance(PartitionOf(hand[w]))
    <3>1. PICK p : p = PartitionOf(i)
      OBVIOUS
    <3>2. /\ itemState'[n] = IF n \in Items(p) THEN "absent" ELSE itemState[n]
          /\ itemHolder'[n] = IF n \in Items(p) THEN NoWorker ELSE itemHolder[n]
      BY <1>2, <2>1, <3>1 DEF CompletePmInstance
    <3>3. i \in 1..cursor /\ (i \in Items(p) \/ itemState[i] = "absent")
      BY <1>1, <1>2, <3>1 DEF Items
    <3>4. CASE n \in Items(p) \/ n = i
      <4>1. itemState'[n] = "absent" /\ n \in 1..cursor
        BY <3>2, <3>3, <3>4 DEF Items
      <4> QED
        BY <1>1, <1>5, <4>1 DEF Open
    <3>5. CASE n \notin Items(p) /\ n # i
      <4>1. Attended(n) => Attended(n)'
        BY <1>2, <1>3, <3>2, <3>5 DEF Attended
      <4> QED
        BY <1>1, <1>5, <3>2, <3>5, <4>1 DEF Open
    <3> QED
      BY <3>4, <3>5
  <2>2. CASE Holds(w) /\ CompleteWorkItemPm(w)
    <3>1. /\ itemState' = [itemState EXCEPT ![i] = "done"]
          /\ itemHolder' = [itemHolder EXCEPT ![i] = NoWorker]
      BY <1>2, <2>2 DEF CompleteWorkItemPm
    <3>2. CASE n = i
      <4>1. itemState'[n] = "done"
        BY <3>1, <3>2 DEF IInv, TypeOK
      <4> QED
        BY <1>1, <1>2, <1>5, <3>2, <4>1 DEF Open
    <3>3. CASE n # i
      <4>1. itemState'[n] = itemState[n] /\ itemHolder'[n] = itemHolder[n]
        BY <3>1, <3>3 DEF IInv, TypeOK
      <4>2. Attended(n) => Attended(n)'
        BY <1>2, <1>3, <3>3, <4>1 DEF Attended
      <4> QED
        BY <1>1, <1>5, <4>1, <4>2 DEF Open
    <3> QED
      BY <3>2, <3>3
  <2>3. CASE ~Holds(w) /\ UNCHANGED <<itemState, itemHolder, snapshot>>
    <3>1. Attended(n) /\ itemState[n] = "claimed" => Attended(n)'
      BY <1>3, <2>3 DEF Attended, Holds
    <3> QED
      BY <1>1, <1>5, <2>3, <3>1 DEF Open
  <2> QED
    BY <2>1, <2>2, <2>3 DEF Complete, CompleteWorkItemPm
<1>6. \A n \in Numbers : Kept(n)
  BY <1>1, <1>4, <1>5, EffectsStay, TokensWithin DEF Kept, Tokens
<1>7. \A v \in Workers : sent'[v] # 0 => pc'[v] = "dispatch"
  BY <1>3 DEF Budget
<1> QED
  BY <1>1, <1>6, <1>7, BudgetLasts, FaultsNat DEF IInv

LEMMA DeleteBudget ==
  ASSUME IInv, Budget, NEW p \in Partitions, DeleteSnapshot(p) PROVE Budget'
<1>1. /\ UNCHANGED <<log, cursor, itemState, itemHolder, pc, hand, sent>>
      /\ faults \in Nat /\ faults' = faults + 1
  BY FaultsNat DEF DeleteSnapshot, store, queue, local, IInv
<1>2. \A n \in Numbers : Kept(n)
  BY <1>1, EffectsStay, NobodyMoves
<1> QED
  BY <1>1, <1>2, BudgetLasts DEF Budget

LEMMA StutterBudget ==
  ASSUME IInv, Budget, UNCHANGED vars PROVE Budget'
<1>1. UNCHANGED <<log, cursor, itemState, itemHolder, pc, hand, sent, faults>>
  BY DEF vars, store, queue, local
<1>2. \A n \in Numbers : Kept(n)
  BY <1>1, EffectsStay, NobodyMoves
<1> QED
  BY <1>1, <1>2, BudgetLasts, FaultsNat DEF Budget, IInv

-----------------------------------------------------------------------------
(***************************************************************************)
(* The invariant.                                                          *)
(***************************************************************************)
LEMMA InitBudget ==
  ASSUME NEW Event, NEW Command, Sound(Event, Command), Init PROVE Budget
<1>1. faults = 0 /\ \A w \in Workers : sent[w] = 0 /\ pc[w] = "idle"
  BY DEF Init
<1>2. ASSUME NEW n \in Numbers PROVE AtMost(Tokens(n), 1 + faults)
  <2>1. \A m \in 1..Len(log) : log[m].causation = 0
    <3>1. DOMAIN Opening = 1..Len(Opening) /\ Len(Opening) \in Nat
      BY DEF Sound
    <3>2. Len(log) = Len(Opening)
      BY <3>1 DEF Init
    <3> QED
      BY <3>1, <3>2 DEF Init
  <2>2. Effects(n) = {}
    BY <2>1 DEF Effects, Numbers
  <2>3. Tokens(n) \subseteq {<<"item", n>>}
    BY <1>1, <2>2 DEF Tokens, Due
  <2>4. PICK x : x = <<"item", n>>
    OBVIOUS
  <2>5. AtMost({x}, 1)
    <3>1. IsFiniteSet({x}) /\ Cardinality({x}) = 1
      BY FS_Singleton
    <3> QED
      BY <3>1 DEF AtMost
  <2>6. AtMost(Tokens(n), 1)
    BY <2>3, <2>4, <2>5, AtMostSubset
  <2> QED
    BY <1>1, <2>6
<1> QED
  BY <1>1, <1>2 DEF Budget

LEMMA NextBudget ==
  ASSUME NEW Event, NEW Command, Sound(Event, Command), SingleEffects(Event, Command),
         LogType(Event), IInv, Budget, [Next]_vars
  PROVE  Budget'
<1>1. ASSUME NEW c \in Inputs, Ask(c) PROVE Budget'
  BY <1>1, AskBudget
<1>2. CASE RouteNext
  BY <1>2, RouteBudget
<1>3. ASSUME NEW w \in Workers, Works(w) \/ AnswerLost(w) \/ Crash(w) PROVE Budget'
  <2>1. ASSUME NEW n \in Numbers, Claim(w, n) \/ TakeOver(w, n) PROVE Budget'
    BY <2>1, TakesBudget
  <2>2. CASE LoadState(w) \/ RebuildState(w)
    BY <2>2, LoadBudget
  <2>3. CASE Dispatch(w)
    BY <2>3, DispatchBudget
  <2>4. CASE CommandThrows(w)
    BY <2>4, ThrowsBudget
  <2>5. CASE Complete(w)
    BY <2>5, CompleteBudget
  <2>6. CASE AnswerLost(w)
    BY <2>6, AnswerLostBudget
  <2>7. CASE Crash(w)
    BY <2>7, CrashBudget
  <2> QED
    BY <1>3, <2>1, <2>2, <2>3, <2>4, <2>5, <2>6, <2>7 DEF Works
<1>4. ASSUME NEW p \in Partitions, DeleteSnapshot(p) PROVE Budget'
  BY <1>4, DeleteBudget
<1>5. CASE UNCHANGED vars
  BY <1>5, StutterBudget
<1> QED
  BY <1>1, <1>2, <1>3, <1>4, <1>5 DEF Next

\* What the log has of an event's effects is bounded by its tokens.
LEMMA EffectsBounded ==
  ASSUME IInv, Budget, NEW n \in 1..Len(log)
  PROVE  AtMost(Effects(n), 1 + faults)
<1>1. n \in Numbers /\ faults \in Nat
  BY TypedBefore, PmAssumption DEF IInv, TypeOK, Numbers, PmAssumption
<1>2. IsFiniteSet(Tokens(n)) /\ Cardinality(Tokens(n)) <= 1 + faults
  BY <1>1 DEF Budget, AtMost
<1> DEFINE f == [m \in Effects(n) |-> <<"event", m>>]
<1>3. f \in Injection(Effects(n), Tokens(n))
  BY DEF Injection, IsInjective, Tokens
<1>4. /\ IsFiniteSet(Effects(n))
      /\ Cardinality(Effects(n)) <= Cardinality(Tokens(n))
  <2> HIDE DEF f
  <2> QED
    BY <1>2, <1>3, FS_Injection
<1>5. Cardinality(Effects(n)) \in Nat /\ Cardinality(Tokens(n)) \in Nat
  BY <1>2, <1>4, FS_CardinalityType
<1> QED
  BY <1>1, <1>2, <1>4, <1>5 DEF AtMost

LEMMA BudgetBounds ==
  ASSUME IInv, Budget PROVE OneEffectPerFault
<1> SUFFICES ASSUME NEW n \in 1..Len(log)
             PROVE  Cardinality(Effects(n)) <= 1 + faults + rebuilds
  BY DEF OneEffectPerFault, Effects
<1>1. AtMost(Effects(n), 1 + faults)
  BY EffectsBounded
<1>2. Cardinality(Effects(n)) \in Nat /\ faults \in Nat /\ rebuilds \in Nat
  BY <1>1, TypedBefore, FS_CardinalityType DEF IInv, TypeOK, AtMost
<1> QED
  BY <1>1, <1>2 DEF AtMost

-----------------------------------------------------------------------------
(***************************************************************************)
(* Theorems.                                                               *)
(***************************************************************************)
\* The invariant behind OneEffectPerFault: who may make an event cause
\* something, and what it has caused, are one more than the faults at most.
THEOREM BudgetInductive ==
  ASSUME NEW Event, NEW Command, Sound(Event, Command), SingleEffects(Event, Command)
  PROVE  Spec => []Budget
<1>1. Init => Budget
  BY InitBudget
<1>2. IInv /\ LogType(Event) /\ Budget /\ [Next]_vars => Budget'
  BY NextBudget
<1> QED
  BY <1>1, <1>2, Inductive, PTL DEF Spec

\* processOneItem commits the commands of a handle before the item: an event
\* causes one event, and one more for each crash, lapsed lease or lost answer
\* at most (PM-E of docs/invariants.md).
THEOREM EffectsRepeatByFaults ==
  ASSUME NEW Event, NEW Command, Sound(Event, Command), SingleEffects(Event, Command)
  PROVE  Spec => []OneEffectPerFault
<1>1. IInv /\ Budget => OneEffectPerFault
  BY BudgetBounds
<1> QED
  BY <1>1, Inductive, BudgetInductive, PTL
=============================================================================

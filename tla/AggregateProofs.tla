-------------------------- MODULE AggregateProofs ---------------------------
(***************************************************************************)
(* Theorems about Aggregate, for every number of dispatchers, commands,    *)
(* pages and module versions, as long as no caller passes an expectation   *)
(* that does not pin the version its command was decided on.               *)
(***************************************************************************)
EXTENDS Aggregate, TLAPS

\* What the violation run of Aggregate shows to be needed.
OnlyPinned ==
  Explicit \subseteq {[kind |-> "noStream"], [kind |-> "exact", version |-> 0]}

\* A prefix does not change when the sequence grows.
LEMMA PrefixKept ==
  ASSUME NEW S, NEW s \in Seq(S), NEW t \in Seq(S), NEW n \in Nat, n <= Len(s)
  PROVE  SubSeq(s \o t, 1, n) = SubSeq(s, 1, n)
<1>1. Len(SubSeq(s \o t, 1, n)) = n /\ Len(SubSeq(s, 1, n)) = n
  OBVIOUS
<1>2. \A i \in 1..n : SubSeq(s \o t, 1, n)[i] = SubSeq(s, 1, n)[i]
  OBVIOUS
<1> QED
  BY <1>1, <1>2

\* A fold is continued by the next page of the stream.
LEMMA PageFolded ==
  ASSUME NEW S, NEW s \in Seq(S), NEW m \in Nat, NEW n \in Nat, m <= n, n <= Len(s)
  PROVE  SubSeq(s, 1, m) \o SubSeq(s, m + 1, n) = SubSeq(s, 1, n)
<1> DEFINE l == SubSeq(s, 1, m) \o SubSeq(s, m + 1, n)
           r == SubSeq(s, 1, n)
<1>1. Len(SubSeq(s, 1, m)) = m /\ Len(SubSeq(s, m + 1, n)) = n - m
  OBVIOUS
<1>2. l \in Seq(S) /\ r \in Seq(S) /\ Len(l) = n /\ Len(r) = n
  BY <1>1
<1>3. ASSUME NEW i \in 1..n PROVE l[i] = r[i]
  <2>1. CASE i <= m
    BY <2>1, <1>1
  <2>2. CASE i > m
    BY <2>2, <1>1
  <2> QED
    BY <2>1, <2>2
<1> QED
  BY <1>2, <1>3

\* The fold of all there is.
LEMMA WholePrefix ==
  ASSUME NEW S, NEW s \in Seq(S)
  PROVE  SubSeq(s, 1, Len(s)) = s
OBVIOUS
(***************************************************************************)
(* Types.                                                                  *)
(***************************************************************************)
Locals ==
  /\ pc \in [Dispatchers -> {"idle", "snapshot", "page", "append", "record"}]
  /\ expects \in [Dispatchers -> Explicit \cup {Default}]
  /\ attempt \in [Dispatchers -> 0..RetryBudget + 1]
  /\ loaded \in [Dispatchers -> [version : Nat, shape : Modules,
                                 events : Seq(Events), since : Nat]]
  /\ outcome \in [Dispatchers -> {"none", "returned", "threw", "exhausted"}]
  /\ began \in [Dispatchers -> Nat]

LEMMA BatchType ==
  ASSUME NEW d \in Dispatchers, NEW v \in Nat, NEW n \in Nat
  PROVE  Batch(d, v, n) \in Seq(Events) /\ Len(Batch(d, v, n)) = n
BY DEF Batch, Events

LEMMA InitialType ==
  ASSUME NEW d \in Dispatchers
  PROVE  Initial(d) \in [version : Nat, shape : Modules, events : Seq(Events), since : Nat]
BY DEF Initial, Modules

LEMMA ReturnType ==
  ASSUME Locals, NEW d \in Dispatchers,
         NEW how \in {"returned", "threw", "exhausted"}, Return(d, how)
  PROVE  Locals'
<1>1. RetryBudget \in Nat
  BY AggregateAssumption DEF AggregateAssumption
<1> QED
  BY <1>1, InitialType DEF Locals, Return, Goto

(***************************************************************************)
(* The inductive invariant.                                                *)
(***************************************************************************)
\* Where a dispatcher stands in the races it has lost: an attempt that is not
\* the first one has seen an event that was not there when the last one loaded.
Raced ==
  \A d \in Dispatchers :
    /\ pc[d] # "idle" => began[d] + attempt[d] <= Len(stream) + 1
    /\ pc[d] = "append" => began[d] + attempt[d] <= loaded[d].version + 1
    /\ outcome[d] = "exhausted" => RetryBudget + 1 + began[d] <= Len(stream)

IInv == TypeOK /\ LoadedIsFold /\ SnapshotIsFold /\ Raced

\* A fold stays one when the stream grows.
LEMMA FoldKept ==
  ASSUME stream \in Seq(Events), NEW t \in Seq(Events),
         NEW st, st.version \in Nat, IsFold(st)
  PROVE  st.version <= Len(stream \o t) /\ st.events = SubSeq(stream \o t, 1, st.version)
BY PrefixKept DEF IsFold

LEMMA Constants ==
  /\ RetryBudget \in Nat /\ MaxCommands \in Nat /\ Sizes \subseteq Nat \ {0} /\ PageSize \in Nat \ {0}
  /\ NoSnapshot \notin States /\ Default \notin Explicit
BY AggregateAssumption DEF AggregateAssumption, States, Events

\* The SDK's own assertion fails with IS001.
LEMMA RaisesConflict ==
  ASSUME NEW d \in Dispatchers, expects[d] = Default
  PROVE  mapPgError(Raised(d)) = "WrongExpectedVersion"
<1>1. Assertion(d).kind = "exact"
  BY DEF Assertion
<1>2. Raised(d) = "IS001"
  BY <1>1 DEF Raised
<1>3. "IS001" \in DOMAIN ErrorClass /\ ErrorClass["IS001"] = "WrongExpectedVersion"
  BY DEF ErrorClass
<1> QED
  BY <1>2, <1>3 DEF mapPgError

\* The first step of a command.
LEMMA StartStep ==
  ASSUME IInv, NEW d \in Dispatchers, Start(d) PROVE IInv'
<1> USE DEF IInv
<1>1. TypeOK'
  <2>1. issued' \in 0..MaxCommands /\ Len(stream) \in Nat
    BY Constants DEF Start, TypeOK
  <2> QED
    BY <2>1, Constants DEF Start, Goto, TypeOK
<1>2. LoadedIsFold'
  BY DEF Start, Goto, TypeOK, LoadedIsFold, IsFold
<1>3. SnapshotIsFold'
  BY DEF Start, SnapshotIsFold, IsFold
<1>4. Raced'
  BY DEF Start, Goto, TypeOK, Raced
<1> QED
  BY <1>1, <1>2, <1>3, <1>4

LEMMA ReadSnapshotStep ==
  ASSUME IInv, NEW d \in Dispatchers, ReadSnapshot(d) PROVE IInv'
<1> USE DEF IInv
<1>1. /\ loaded'[d] \in [version : Nat, shape : Modules, events : Seq(Events), since : Nat]
      /\ loaded'[d].shape = ModuleOf[d] /\ IsFold(loaded'[d])
  <2>1. CASE Matches(d)
    BY <2>1, Constants DEF ReadSnapshot, Matches, TypeOK, States, SnapshotIsFold, IsFold
  <2>2. CASE ~Matches(d)
    <3>1. loaded'[d] = Initial(d)
      BY <2>2 DEF ReadSnapshot, TypeOK
    <3>2. IsFold(Initial(d))
      BY DEF IsFold, Initial, TypeOK
    <3> QED
      BY <3>1, <3>2, InitialType DEF Initial
  <2> QED
    BY <2>1, <2>2
<1>2. loaded' = [loaded EXCEPT ![d] = loaded'[d]]
  BY DEF ReadSnapshot, TypeOK
<1>3. TypeOK'
  BY <1>1, <1>2 DEF ReadSnapshot, Goto, TypeOK
<1>4. LoadedIsFold'
  BY <1>1, <1>2 DEF ReadSnapshot, Goto, TypeOK, LoadedIsFold, IsFold
<1>5. SnapshotIsFold' /\ Raced'
  BY DEF ReadSnapshot, Goto, TypeOK, SnapshotIsFold, IsFold, Raced
<1> QED
  BY <1>3, <1>4, <1>5

LEMMA ReadPageStep ==
  ASSUME IInv, NEW d \in Dispatchers, ReadPage(d) PROVE IInv'
<1> USE DEF IInv
<1> DEFINE from == loaded[d].version
           last == PageLast(from)
           page == SubSeq(stream, from + 1, last)
<1>0. /\ stream \in Seq(Events) /\ pc[d] = "page"
      /\ loaded \in [Dispatchers -> [version : Nat, shape : Modules,
                                     events : Seq(Events), since : Nat]]
  BY DEF ReadPage, TypeOK
<1>1. /\ from \in Nat /\ loaded[d].events = SubSeq(stream, 1, from)
      /\ from <= Len(stream) /\ Len(stream) \in Nat
  <2>1. IsFold(loaded[d])
    BY <1>0 DEF LoadedIsFold
  <2>2. loaded[d].version \in Nat /\ Len(stream) \in Nat
    BY <1>0
  <2> QED
    BY <2>1, <2>2 DEF IsFold
<1>2. /\ last \in Nat /\ from <= last /\ last <= Len(stream)
      /\ ~MorePages(last - from) => last = Len(stream)
  BY <1>1, Constants DEF PageLast, MorePages
<1>3. page \in Seq(Events)
  BY <1>1, <1>2 DEF TypeOK
<1>4. loaded[d].events \o page = SubSeq(stream, 1, last)
  BY <1>1, <1>2, PageFolded DEF TypeOK
<1> DEFINE prefix == SubSeq(stream, 1, last)
           next == [version |-> last, shape |-> loaded[d].shape, events |-> prefix,
                    since |-> loaded[d].since + (last - from)]
<1>5. prefix \in Seq(Events) /\ last - from \in Nat
  BY <1>0, <1>1, <1>2
<1>7. /\ loaded' = [loaded EXCEPT ![d] = next]
      /\ pc' = [pc EXCEPT ![d] = pc'[d]] /\ pc'[d] \in {"page", "append"}
      /\ pc'[d] = "append" => last = Len(stream)
  <2>2. loaded' = [loaded EXCEPT ![d] = next]
    BY <1>4 DEF ReadPage
  <2>3. pc' = [pc EXCEPT ![d] = IF MorePages(last - from) THEN "page" ELSE "append"]
    BY DEF ReadPage, Goto
  <2>4. d \in DOMAIN pc
    BY DEF TypeOK
  <2> QED
    BY <1>2, <2>2, <2>3, <2>4
<1> HIDE DEF last, page, from, prefix
<1>6. /\ next \in [version : Nat, shape : Modules, events : Seq(Events), since : Nat]
      /\ next.version = last /\ next.events = prefix
      /\ next.shape = loaded[d].shape
  BY <1>0, <1>2, <1>5
<1> HIDE DEF next
<1>8. UNCHANGED <<stream, snapshot, expects, attempt, outcome, issued, began>>
  BY DEF ReadPage
<1>9. TypeOK'
  <2>1. pc' \in [Dispatchers -> {"idle", "snapshot", "page", "append", "record"}]
    BY <1>7 DEF TypeOK
  <2>2. loaded' \in [Dispatchers -> [version : Nat, shape : Modules,
                                     events : Seq(Events), since : Nat]]
    BY <1>6, <1>7 DEF TypeOK
  <2> QED
    BY <1>8, <2>1, <2>2 DEF TypeOK
<1>10. LoadedIsFold'
  <2> SUFFICES ASSUME NEW c \in Dispatchers, pc'[c] \in {"page", "append", "record"}
               PROVE  loaded'[c].shape = ModuleOf[c] /\ IsFold(loaded[c])'
    BY DEF LoadedIsFold
  <2>1. pc \in [Dispatchers -> {"idle", "snapshot", "page", "append", "record"}]
    BY DEF TypeOK
  <2>2. CASE c = d
    <3>1. loaded'[d] = next /\ stream' = stream
      BY <1>0, <1>7, <1>8
    <3>2. loaded[d].shape = ModuleOf[d]
      BY <1>0 DEF LoadedIsFold
    <3> QED
      BY <1>2, <1>6, <2>2, <3>1, <3>2 DEF IsFold, prefix
  <2>3. CASE c # d
    <3>1. pc'[c] = pc[c] /\ loaded'[c] = loaded[c] /\ stream' = stream
      BY <1>0, <1>7, <1>8, <2>1, <2>3
    <3> QED
      BY <3>1 DEF LoadedIsFold, IsFold
  <2> QED
    BY <2>2, <2>3
<1>11. SnapshotIsFold'
  BY <1>8 DEF SnapshotIsFold, IsFold
<1>12. Raced'
  BY <1>0, <1>6, <1>7, <1>8 DEF TypeOK, Raced
<1> QED
  BY <1>9, <1>10, <1>11, <1>12
\* A call that returns, after appending t or nothing.
LEMMA ReturnStep ==
  ASSUME IInv, NEW d \in Dispatchers,
         NEW how \in {"returned", "threw", "exhausted"}, Return(d, how),
         NEW t \in Seq(Events), stream' = stream \o t,
         how = "exhausted" => RetryBudget + 1 + began[d] <= Len(stream)
  PROVE  Locals' /\ LoadedIsFold' /\ Raced'
<1> USE DEF IInv
<1>1. Locals
  BY DEF TypeOK, Locals
<1>2. Locals'
  BY <1>1, ReturnType
<1>3. stream \in Seq(Events) /\ Len(stream') = Len(stream) + Len(t) /\ Len(t) \in Nat
      /\ Len(stream) \in Nat
  BY DEF TypeOK
<1>4. ASSUME NEW c \in Dispatchers, pc'[c] \in {"page", "append", "record"}
      PROVE  loaded'[c].shape = ModuleOf[c] /\ IsFold(loaded[c])'
  <2>1. c # d /\ pc'[c] = pc[c] /\ loaded'[c] = loaded[c]
    BY <1>1, <1>4 DEF Return, Goto, Locals
  <2>2. loaded[c].shape = ModuleOf[c] /\ IsFold(loaded[c]) /\ loaded[c].version \in Nat
    BY <1>1, <1>4, <2>1 DEF LoadedIsFold, Locals
  <2> QED
    BY <1>3, <2>1, <2>2, FoldKept DEF IsFold
<1>5. LoadedIsFold'
  BY <1>4 DEF LoadedIsFold, IsFold
<1>6. Raced'
  <2>1. ASSUME NEW c \in Dispatchers, c # d
        PROVE  /\ pc'[c] = pc[c] /\ began'[c] = began[c] /\ attempt'[c] = attempt[c]
               /\ loaded'[c] = loaded[c] /\ outcome'[c] = outcome[c]
    BY <1>1, <2>1 DEF Return, Goto, Locals
  <2>2. pc'[d] = "idle" /\ outcome'[d] = how /\ (how = "exhausted" => began'[d] = began[d])
    BY <1>1 DEF Return, Goto, Locals
  <2>3. \A c \in Dispatchers : began[c] \in Nat /\ attempt[c] \in Nat
    BY <1>1, Constants DEF Locals
  <2>4. RetryBudget + 1 \in Nat
    BY Constants
  <2> SUFFICES ASSUME NEW c \in Dispatchers
               PROVE  /\ pc'[c] # "idle" => began'[c] + attempt'[c] <= Len(stream') + 1
                      /\ pc'[c] = "append" => began'[c] + attempt'[c] <= loaded'[c].version + 1
                      /\ outcome'[c] = "exhausted" =>
                           RetryBudget + 1 + began'[c] <= Len(stream')
    BY DEF Raced
  <2>5. PICK k \in Nat : k = Len(stream)
    BY <1>3
  <2>6. PICK l \in Nat : l = Len(stream') /\ k <= l
    BY <1>3, <2>5
  <2>7. CASE c = d
    <3>1. RetryBudget + 1 + began[d] \in Nat
      BY <2>3, <2>4
    <3>2. how = "exhausted" => RetryBudget + 1 + began'[d] <= l
      BY <2>2, <2>5, <2>6, <3>1
    <3> QED
      BY <2>2, <2>6, <2>7, <3>2
  <2>8. CASE c # d
    <3>1. /\ pc[c] # "idle" => began[c] + attempt[c] <= k + 1
          /\ pc[c] = "append" => began[c] + attempt[c] <= loaded[c].version + 1
          /\ outcome[c] = "exhausted" => RetryBudget + 1 + began[c] <= k
      BY <2>5 DEF Raced
    <3>2. began[c] + attempt[c] \in Nat /\ RetryBudget + 1 + began[c] \in Nat
      BY <2>3, <2>4
    <3> QED
      BY <2>1, <2>6, <2>8, <3>1, <3>2
  <2> QED
    BY <2>7, <2>8
<1> QED
  BY <1>2, <1>5, <1>6

LEMMA NothingAppended ==
  ASSUME stream \in Seq(Events), UNCHANGED stream
  PROVE  <<>> \in Seq(Events) /\ stream' = stream \o <<>>
OBVIOUS

\* The snapshot survives what others append.
LEMMA SnapshotKept ==
  ASSUME IInv, UNCHANGED snapshot, NEW t \in Seq(Events), stream' = stream \o t
  PROVE  SnapshotIsFold'
<1>1. ASSUME snapshot # NoSnapshot PROVE IsFold(snapshot) /\ snapshot.version \in Nat
  BY <1>1 DEF IInv, TypeOK, SnapshotIsFold, States
<1> QED
  BY <1>1, FoldKept DEF IInv, TypeOK, SnapshotIsFold, IsFold

LEMMA QuietReturnStep ==
  ASSUME IInv, NEW d \in Dispatchers,
         Decline(d) \/ Fail(d)
  PROVE  IInv'
<1>1. PICK how \in {"returned", "threw"} : Return(d, how)
  BY DEF Decline, Fail
<1>2. UNCHANGED <<stream, snapshot, issued>>
  BY DEF Decline, Fail
<1>3. <<>> \in Seq(Events) /\ stream' = stream \o <<>>
  BY <1>2, NothingAppended DEF IInv, TypeOK
<1>4. Locals' /\ LoadedIsFold' /\ Raced'
  BY <1>1, <1>3, ReturnStep
<1>5. SnapshotIsFold'
  BY <1>2, <1>3, SnapshotKept
<1> QED
  BY <1>2, <1>4, <1>5 DEF IInv, TypeOK, Locals

\* With expectations that pin the version, the append finds the stream as it
\* was loaded: this is where optimistic concurrency control does its work.
LEMMA Pinned ==
  ASSUME IInv, OnlyPinned, NEW d \in Dispatchers, pc[d] = "append", Expected(d)
  PROVE  /\ loaded[d].version = Len(stream) /\ loaded[d].events = stream
         /\ loaded[d].shape = ModuleOf[d]
<1>1. /\ stream \in Seq(Events) /\ IsFold(loaded[d]) /\ loaded[d].version \in Nat
      /\ expects[d] \in Explicit \cup {Default} /\ loaded[d].shape = ModuleOf[d]
  BY DEF IInv, TypeOK, LoadedIsFold
<1>2. loaded[d].version = Len(stream)
  <2>1. CASE expects[d] = Default
    BY <2>1 DEF Expected, Assertion, Meets
  <2>2. CASE expects[d] # Default
    <3>1. expects[d] \in {[kind |-> "noStream"], [kind |-> "exact", version |-> 0]}
      BY <1>1, <2>2 DEF OnlyPinned
    <3>2. Meets(expects[d])
      BY <2>2 DEF Expected, Assertion
    <3>3. CASE expects[d] = [kind |-> "noStream"]
      <4>1. stream = <<>>
        BY <3>2, <3>3 DEF Meets
      <4> QED
        BY <1>1, <4>1 DEF IsFold
    <3>4. CASE expects[d] = [kind |-> "exact", version |-> 0]
      <4>1. Len(stream) = 0
        BY <3>2, <3>4 DEF Meets
      <4> QED
        BY <1>1, <4>1 DEF IsFold
    <3> QED
      BY <3>1, <3>3, <3>4
  <2> QED
    BY <1>1, <2>1, <2>2
<1> QED
  BY <1>1, <1>2, WholePrefix DEF IsFold

LEMMA LoseAnswerStep ==
  ASSUME IInv, NEW d \in Dispatchers, LoseAnswer(d)
  PROVE  IInv'
<1>1. PICK n \in Sizes : stream' = stream \o Batch(d, loaded[d].version, n)
  BY DEF LoseAnswer, Appended
<1>2. Batch(d, loaded[d].version, n) \in Seq(Events)
  BY BatchType, Constants DEF IInv, TypeOK
<1>3. Return(d, "threw") /\ UNCHANGED <<snapshot, issued>>
  BY DEF LoseAnswer, Appended
<1>4. Locals' /\ LoadedIsFold' /\ Raced'
  BY <1>1, <1>2, <1>3, ReturnStep
<1>5. SnapshotIsFold'
  BY <1>1, <1>2, <1>3, SnapshotKept
<1>6. stream' \in Seq(Events)
  BY <1>1, <1>2 DEF IInv, TypeOK
<1> QED
  BY <1>3, <1>4, <1>5, <1>6 DEF IInv, TypeOK, Locals
\* append_to_stream succeeds: the staged state is the fold of the stream with
\* the command's own events.
LEMMA CommitStep ==
  ASSUME IInv, OnlyPinned, NEW d \in Dispatchers, Commit(d)
  PROVE  IInv'
<1>1. PICK n \in Sizes :
        /\ stream' = stream \o Batch(d, loaded[d].version, n)
        /\ IF ShouldSnapshot(Staged(d, n))
             THEN /\ Goto(d, "record")
                  /\ loaded' = [loaded EXCEPT ![d] = Staged(d, n)]
                  /\ UNCHANGED <<expects, attempt, outcome, began>>
             ELSE Return(d, "returned")
  BY DEF Commit, Appended
<1> DEFINE t == Batch(d, loaded[d].version, n)
<1>2. /\ t \in Seq(Events) /\ Len(t) = n /\ n \in Nat
      /\ loaded[d] \in [version : Nat, shape : Modules, events : Seq(Events), since : Nat]
      /\ stream \in Seq(Events)
  BY BatchType, Constants DEF IInv, TypeOK
<1>3. /\ stream' = stream \o t /\ stream' \in Seq(Events)
      /\ Len(stream') = Len(stream) + n /\ Len(stream) \in Nat
  BY <1>1, <1>2
<1>4. UNCHANGED <<snapshot, issued>> /\ pc[d] = "append" /\ Expected(d)
  BY DEF Commit, Appended
<1>5. SnapshotIsFold'
  BY <1>2, <1>3, <1>4, SnapshotKept
<1>6. CASE ~ShouldSnapshot(Staged(d, n))
  <2>1. Return(d, "returned")
    BY <1>1, <1>6
  <2>2. Locals' /\ LoadedIsFold' /\ Raced'
    BY <1>2, <1>3, <2>1, ReturnStep
  <2> QED
    BY <1>3, <1>4, <1>5, <2>2 DEF IInv, TypeOK, Locals
<1>7. CASE ShouldSnapshot(Staged(d, n))
  <2> DEFINE st == Staged(d, n)
  <2>1. /\ pc' = [pc EXCEPT ![d] = "record"] /\ loaded' = [loaded EXCEPT ![d] = st]
        /\ UNCHANGED <<expects, attempt, outcome, began>>
    BY <1>1, <1>7 DEF Goto
  <2>2. /\ loaded[d].version = Len(stream) /\ loaded[d].events = stream
        /\ loaded[d].shape = ModuleOf[d]
    BY <1>4, Pinned
  <2>3. /\ st \in [version : Nat, shape : Modules, events : Seq(Events), since : Nat]
        /\ st.shape = ModuleOf[d] /\ st.version = Len(stream') /\ st.events = stream'
    BY <1>2, <1>3, <2>2 DEF Staged
  <2> HIDE DEF st, t
  <2>4. TypeOK'
    BY <1>3, <1>4, <2>1, <2>3 DEF IInv, TypeOK
  <2>5. st.events = SubSeq(stream', 1, st.version)
    BY <1>3, <2>3, WholePrefix
  <2>6. ASSUME NEW c \in Dispatchers, pc'[c] \in {"page", "append", "record"}
        PROVE  loaded'[c].shape = ModuleOf[c] /\ IsFold(loaded[c])'
    <3>1. CASE c = d
      <4>1. loaded'[c] = st
        BY <2>1, <3>1 DEF IInv, TypeOK
      <4>2. st.version <= Len(stream')
        BY <1>2, <1>3, <2>3
      <4>3. IsFold(loaded[c])'
        BY <2>5, <4>1, <4>2 DEF IsFold
      <4> QED
        BY <2>3, <3>1, <4>1, <4>3
    <3>2. CASE c # d
      <4>1. loaded'[c] = loaded[c] /\ pc'[c] = pc[c]
        BY <2>1, <3>2 DEF IInv, TypeOK
      <4>2. loaded[c].shape = ModuleOf[c] /\ IsFold(loaded[c]) /\ loaded[c].version \in Nat
        BY <2>6, <4>1 DEF IInv, TypeOK, LoadedIsFold
      <4>3. /\ loaded[c].version <= Len(stream \o t)
            /\ loaded[c].events = SubSeq(stream \o t, 1, loaded[c].version)
        BY <1>2, <4>2, FoldKept
      <4>4. stream' = stream \o t
        BY <1>3
      <4>5. IsFold(loaded[c])'
        BY <4>1, <4>3, <4>4 DEF IsFold
      <4> QED
        BY <4>1, <4>2, <4>5
    <3> QED
      BY <3>1, <3>2
  <2>7. LoadedIsFold'
    BY <2>6 DEF LoadedIsFold, IsFold
  <2>8. Raced'
    <3>1. /\ began \in [Dispatchers -> Nat] /\ attempt \in [Dispatchers -> Nat]
          /\ pc'[d] = "record" /\ RetryBudget \in Nat
          /\ \A c \in Dispatchers : c # d => pc'[c] = pc[c] /\ loaded'[c] = loaded[c]
          /\ \A c \in Dispatchers : pc[c] # "idle" \/ c = d => pc[c] # "idle"
      BY <1>4, <2>1, Constants DEF IInv, TypeOK
    <3>2. ASSUME NEW c \in Dispatchers
          PROVE  /\ pc'[c] # "idle" => began[c] + attempt[c] <= Len(stream') + 1
                 /\ pc'[c] = "append" => began[c] + attempt[c] <= loaded'[c].version + 1
                 /\ outcome[c] = "exhausted" => RetryBudget + 1 + began[c] <= Len(stream')
      <4>1. /\ pc[c] # "idle" => began[c] + attempt[c] <= Len(stream) + 1
            /\ pc[c] = "append" => began[c] + attempt[c] <= loaded[c].version + 1
            /\ outcome[c] = "exhausted" => RetryBudget + 1 + began[c] <= Len(stream)
        BY DEF IInv, Raced
      <4>2. began[c] \in Nat /\ attempt[c] \in Nat
        BY <3>1
      <4>3. Len(stream) \in Nat /\ n \in Nat /\ Len(stream') = Len(stream) + n
        BY <1>2, <1>3
      <4> QED
        BY <3>1, <4>1, <4>2, <4>3
    <3> QED
      BY <2>1, <3>2 DEF Raced
  <2> QED
    BY <1>5, <2>4, <2>7, <2>8 DEF IInv
<1> QED
  BY <1>6, <1>7

LEMMA ConflictStep ==
  ASSUME IInv, NEW d \in Dispatchers, Conflict(d)
  PROVE  IInv'
<1> USE DEF IInv
<1>1. /\ pc[d] = "append" /\ ~Expected(d) /\ UNCHANGED <<stream, snapshot, issued>>
      /\ stream \in Seq(Events) /\ Len(stream) \in Nat /\ RetryBudget \in Nat
      /\ loaded[d].version \in Nat /\ attempt[d] \in Nat /\ began[d] \in Nat
  BY Constants DEF Conflict, TypeOK
<1>2. <<>> \in Seq(Events) /\ stream' = stream \o <<>>
  BY <1>1, NothingAppended
<1>3. SnapshotIsFold'
  BY <1>1, <1>2, SnapshotKept
<1>4. expects[d] = Default => began[d] + attempt[d] <= Len(stream)
  <2>1. loaded[d].version <= Len(stream) /\ began[d] + attempt[d] <= loaded[d].version + 1
    BY <1>1 DEF LoadedIsFold, IsFold, Raced
  <2>2. expects[d] = Default => Len(stream) # loaded[d].version
    BY <1>1 DEF Expected, Assertion, Meets
  <2> QED
    BY <1>1, <2>1, <2>2
<1>5. CASE Retries(d)
  <2>1. /\ pc' = [pc EXCEPT ![d] = "snapshot"] /\ attempt' = [attempt EXCEPT ![d] = @ + 1]
        /\ UNCHANGED <<expects, loaded, outcome, began>>
        /\ expects[d] = Default /\ attempt[d] <= RetryBudget
    BY <1>5 DEF Conflict, Goto, Retries
  <2>2. TypeOK'
    BY <1>1, <2>1 DEF TypeOK
  <2>3. LoadedIsFold'
    BY <1>1, <2>1 DEF TypeOK, LoadedIsFold, IsFold
  <2>4. ASSUME NEW c \in Dispatchers
        PROVE  /\ pc'[c] # "idle" => began'[c] + attempt'[c] <= Len(stream') + 1
               /\ pc'[c] = "append" => began'[c] + attempt'[c] <= loaded'[c].version + 1
               /\ outcome'[c] = "exhausted" => RetryBudget + 1 + began'[c] <= Len(stream')
    <3>1. CASE c = d
      BY <1>1, <1>4, <2>1, <3>1 DEF TypeOK, Raced
    <3>2. CASE c # d
      BY <1>1, <2>1, <3>2 DEF TypeOK, Raced
    <3> QED
      BY <3>1, <3>2
  <2>5. Raced'
    BY <2>4 DEF Raced
  <2> QED
    BY <1>3, <2>2, <2>3, <2>5
<1>6. CASE ~Retries(d)
  <2>1. PICK how \in {"exhausted", "threw"} :
          Return(d, how) /\ (how = "exhausted" => expects[d] = Default)
    BY <1>6 DEF Conflict
  <2>2. expects[d] = Default => mapPgError(Raised(d)) = "WrongExpectedVersion"
    BY RaisesConflict
  <2>3. how = "exhausted" => RetryBudget + 1 + began[d] <= Len(stream)
    BY <1>1, <1>4, <1>6, <2>1, <2>2 DEF Retries
  <2>4. Locals' /\ LoadedIsFold' /\ Raced'
    BY <1>2, <2>1, <2>3, ReturnStep
  <2> QED
    BY <1>1, <1>3, <2>4 DEF TypeOK, Locals
<1> QED
  BY <1>5, <1>6
\* The snapshot that is written is a state some dispatcher staged.
LEMMA RecordStep ==
  ASSUME IInv, NEW d \in Dispatchers, RecordSnapshot(d)
  PROVE  IInv'
<1> USE DEF IInv
<1>1. /\ pc[d] = "record" /\ Return(d, "returned") /\ UNCHANGED <<stream, issued>>
      /\ snapshot' \in {Row(d), snapshot}
  BY DEF RecordSnapshot
<1>2. <<>> \in Seq(Events) /\ stream' = stream \o <<>>
  BY <1>1, NothingAppended DEF TypeOK
<1>3. Locals' /\ LoadedIsFold' /\ Raced'
  BY <1>1, <1>2, ReturnStep
<1>4. Row(d) \in States /\ IsFold(Row(d))
  BY <1>1 DEF Row, States, TypeOK, LoadedIsFold, IsFold
<1>5. SnapshotIsFold'
  <2>1. CASE snapshot' = Row(d)
    BY <1>1, <1>4, <2>1 DEF SnapshotIsFold, IsFold
  <2>2. CASE snapshot' = snapshot
    BY <1>2, <2>2, SnapshotKept
  <2> QED
    BY <1>1, <2>1, <2>2
<1> QED
  BY <1>1, <1>3, <1>4, <1>5 DEF TypeOK, Locals

LEMMA DeleteStep ==
  ASSUME IInv, DeleteSnapshot
  PROVE  IInv'
BY DEF IInv, DeleteSnapshot, local, TypeOK, LoadedIsFold, SnapshotIsFold, IsFold, Raced

LEMMA StutterStep ==
  ASSUME IInv, UNCHANGED vars
  PROVE  IInv'
BY DEF IInv, vars, local, TypeOK, LoadedIsFold, SnapshotIsFold, IsFold, Raced

LEMMA InitIInv == Init => IInv
<1> SUFFICES ASSUME Init PROVE IInv
  OBVIOUS
<1>1. TypeOK
  BY InitialType, Constants DEF Init, TypeOK
<1>2. LoadedIsFold /\ SnapshotIsFold /\ Raced
  BY DEF Init, LoadedIsFold, SnapshotIsFold, Raced
<1> QED
  BY <1>1, <1>2 DEF IInv

LEMMA IInvStep ==
  ASSUME OnlyPinned, IInv, [Next]_vars
  PROVE  IInv'
<1>1. CASE UNCHANGED vars
  BY <1>1, StutterStep
<1>2. CASE DeleteSnapshot
  BY <1>2, DeleteStep
<1>3. ASSUME NEW d \in Dispatchers, Start(d) \/ Works(d) \/ LoseAnswer(d) \/ Fail(d)
      PROVE  IInv'
  BY <1>3, StartStep, ReadSnapshotStep, ReadPageStep, QuietReturnStep, CommitStep,
     ConflictStep, RecordStep, LoseAnswerStep DEF Works
<1> QED
  BY <1>1, <1>2, <1>3 DEF Next

(***************************************************************************)
(* Theorems.                                                               *)
(***************************************************************************)
\* Types: the rows and the variables of executeCommand stay well typed.
THEOREM TypeCorrect ==
  ASSUME OnlyPinned PROVE Spec => []TypeOK
<1>1. IInv /\ [Next]_vars => IInv'
  BY IInvStep
<1>2. IInv => TypeOK
  BY DEF IInv
<1> QED
  BY InitIInv, <1>1, <1>2, PTL DEF Spec

\* Whatever snapshot is there, and whatever is appended meanwhile, the state a
\* command is decided on is the fold of the stream (loadAggregate).
THEOREM LoadsAreFolds ==
  ASSUME OnlyPinned PROVE Spec => []LoadedIsFold
<1>1. IInv /\ [Next]_vars => IInv'
  BY IInvStep
<1>2. IInv => LoadedIsFold
  BY DEF IInv
<1> QED
  BY InitIInv, <1>1, <1>2, PTL DEF Spec

\* A snapshot is advisory: it never differs from what it stands for.
THEOREM SnapshotsAreFolds ==
  ASSUME OnlyPinned PROVE Spec => []SnapshotIsFold
<1>1. IInv /\ [Next]_vars => IInv'
  BY IInvStep
<1>2. IInv => SnapshotIsFold
  BY DEF IInv
<1> QED
  BY InitIInv, <1>1, <1>2, PTL DEF Spec

\* A command is tried again only after losing a race: somebody else's event was
\* appended for each attempt (the retry loop of runCommandAndApply).
THEOREM RetriesAreEarned ==
  ASSUME OnlyPinned PROVE Spec => []OnlyLosersRetry
<1>1. IInv /\ [Next]_vars => IInv'
  BY IInvStep
<1>2. IInv => OnlyLosersRetry
  <2> SUFFICES ASSUME IInv, NEW d \in Dispatchers
               PROVE  /\ pc[d] # "idle" => attempt[d] <= Len(stream) - began[d] + 1
                      /\ outcome[d] = "exhausted" => RetryBudget + 1 <= Len(stream) - began[d]
    BY DEF OnlyLosersRetry
  <2>1. /\ Len(stream) \in Nat /\ began[d] \in Nat /\ attempt[d] \in Int
        /\ RetryBudget \in Nat
    BY Constants DEF IInv, TypeOK
  <2> QED
    BY <2>1 DEF IInv, Raced
<1> QED
  BY InitIInv, <1>1, <1>2, PTL DEF Spec

\* Every step of the dispatchers maps to one atomic command or to none: load,
\* decide and append refine AtomicCommands.
LEMMA StepDecides ==
  ASSUME OnlyPinned, IInv, [Next]_vars
  PROVE  [\E d \in Dispatchers, n \in Sizes : Decide(d, n)]_stream
<1>1. CASE UNCHANGED vars
  BY <1>1 DEF vars
<1>2. CASE DeleteSnapshot
  BY <1>2 DEF DeleteSnapshot
<1>3. ASSUME NEW d \in Dispatchers, Commit(d) \/ LoseAnswer(d)
      PROVE  \E n \in Sizes : Decide(d, n)
  <2>1. pc[d] = "append" /\ Expected(d)
    BY <1>3 DEF Commit, LoseAnswer, Appended
  <2>2. PICK n \in Sizes : stream' = stream \o Batch(d, loaded[d].version, n)
    BY <1>3 DEF Commit, LoseAnswer, Appended
  <2>3. loaded[d].version = Len(stream)
    BY <2>1, Pinned
  <2> QED
    BY <2>2, <2>3 DEF Decide
<1>4. ASSUME NEW d \in Dispatchers,
             \/ Start(d) \/ ReadSnapshot(d) \/ ReadPage(d) \/ Decline(d)
             \/ Conflict(d) \/ RecordSnapshot(d) \/ Fail(d)
      PROVE  UNCHANGED stream
  BY <1>4 DEF Start, ReadSnapshot, ReadPage, Decline, Conflict, RecordSnapshot, Fail
<1> QED
  BY <1>1, <1>2, <1>3, <1>4 DEF Next, Works

\* load, execute and append together are one step: each command that appends was
\* decided on the whole stream as it was at that moment (AtomicCommands).
THEOREM CommandsAreAtomic ==
  ASSUME OnlyPinned PROVE Spec => DecidesAtomically
<1>1. IInv /\ [Next]_vars => IInv'
  BY IInvStep
<1>2. IInv /\ [Next]_vars
      => [\E d \in Dispatchers, n \in Sizes : Decide(d, n)]_stream
  BY StepDecides
<1>3. Init => stream = <<>>
  BY DEF Init
<1> QED
  BY InitIInv, <1>1, <1>2, <1>3, PTL DEF Spec, AtomicSpec, DecidesAtomically
=============================================================================

--------------------------- MODULE EventLogProofs ---------------------------
(***************************************************************************)
(* Proofs about EventLog, for any number of sessions, streams and event    *)
(* ids, any set of calls and any bound on the calls of a transaction.      *)
(*                                                                         *)
(* The argument rests on the locks.  What a session has bumped and not     *)
(* committed it holds the lock of (Held), so that no two sessions extend   *)
(* one stream, or '$all', at a time; therefore what a session has inserted *)
(* carries the numbers that come right after the committed ones            *)
(* (MineInv), and no other commit can come in between.                     *)
(***************************************************************************)
EXTENDS EventLog, FiniteSetTheorems, FunctionTheorems, TLAPS

OfStream(L, st) == {l \in L : l.stream = st}

\* The numbers of L are lo + 1 to hi, each once.
Numbered(L, lo, hi) ==
  /\ \A l \in L : lo < l.number /\ l.number <= hi
  /\ \A n \in Nat : lo < n /\ n <= hi => \E l \in L : l.number = n
  /\ \A k, l \in L : k.number = l.number => k = l

\* The versions of L are lo + 1 to hi, each once.
Versioned(L, lo, hi) ==
  /\ \A l \in L : lo < l.version /\ l.version <= hi
  /\ \A n \in Nat : lo < n /\ n <= hi => \E l \in L : l.version = n
  /\ \A k, l \in L : k.version = l.version => k = l

DistinctIds(L) == \A k, l \in L : k.id = l.id => k = l

\* The rows of a call whose stream is at version v and '$all' at n.
Rows(q, v, n) ==
  {[id |-> q.ids[i], stream |-> q.stream, version |-> v + i, number |-> n + i]
     : i \in DOMAIN q.ids}

\* What a call expects is true of a stream at version v.
Met(q, v) ==
  CASE q.expects = "any"           -> TRUE
    [] q.expects = "no_stream"     -> v = 0
    [] q.expects = "stream_exists" -> v > 0
    [] q.expects = "exact"         -> v = q.version

\* What the call in progress has bumped and not inserted yet.
Pending(s, st) ==
  IF pc[s] \in {"all", "insert"} /\ call[s].stream = st THEN Count(s) ELSE 0

PendingAll(s) == IF pc[s] = "insert" THEN Count(s) ELSE 0

\* The locks on what is bumped.
Held(s) ==
  /\ allBump[s] > 0 => lock[All] = s
  /\ \A st \in Streams : bump[s][st] > 0 => lock[st] = s
  /\ pc[s] \in {"all", "insert"} => Count(s) <= bump[s][call[s].stream]
  /\ pc[s] = "insert" => Count(s) <= allBump[s]

\* The call in progress, and those that returned.
Calling(s) ==
  /\ pc[s] \notin {"idle", "open"} => call[s] \in Requests /\ Len(calls[s]) < MaxCalls
  /\ pc[s] = "create" => call[s].expects = "exact" /\ call[s].version = 0
  /\ pc[s] \in {"all", "insert"} =>
       Met(call[s], Reads(s, call[s].stream) - Count(s))
  /\ pc[s] = "idle" => calls[s] = <<>>
  /\ pc[s] = "open" => calls[s] # <<>>
  /\ calls[s] = <<>> <=> mine[s] = {}

\* What a transaction holds before its first call returns.
FirstCall(s) ==
  calls[s] = <<>> =>
    /\ pc[s] \in {"idle", "resolve", "create"} =>
         \A r \in Streams \cup {All} : lock[r] # s
    /\ pc[s] = "all" => lock[All] # s

\* The events inserted follow the committed ones.
MineInv(s) ==
  /\ Numbered(mine[s], allVersion, allVersion + allBump[s] - PendingAll(s))
  /\ \A st \in Streams :
       Versioned(OfStream(mine[s], st), version[st], Reads(s, st) - Pending(s, st))
  /\ DistinctIds(mine[s])
  /\ \A k \in mine[s], l \in links : k.id # l.id

SessionInv(s) == Held(s) /\ Calling(s) /\ FirstCall(s) /\ MineInv(s)

LogInv ==
  /\ Numbered(links, 0, allVersion)
  /\ \A st \in Streams : Versioned(OfStream(links, st), 0, version[st])
  /\ DistinctIds(links)

ReaderInv == cursor <= allVersion /\ seen \subseteq links /\ NoEventSkipped

IInv == TypeOK /\ LogInv /\ ReaderInv /\ \A s \in Sessions : SessionInv(s)

-----------------------------------------------------------------------------
(***************************************************************************)
(* Rows and numberings.                                                    *)
(***************************************************************************)
\* The fields of a call.
LEMMA RequestType ==
  ASSUME NEW q \in Requests
  PROVE  /\ q.stream \in Streams /\ q.expects \in Expectations /\ q.version \in Nat
         /\ q.ids \in Seq(Ids) /\ Len(q.ids) \in Nat /\ Len(q.ids) > 0
         /\ DOMAIN q.ids = 1..Len(q.ids)
         /\ \A i \in 1..Len(q.ids) : q.ids[i] \in Ids
<1>1. q \in [stream : Streams, expects : Expectations, version : Nat,
             ids : Seq(Ids) \ {<<>>}]
  BY LogAssumption DEF LogAssumption
<1>2. q.ids \in Seq(Ids) /\ q.ids # <<>>
  BY <1>1
<1> QED
  BY <1>1, <1>2

\* Two numberings that meet make one.
LEMMA NumberedUnion ==
  ASSUME NEW A, NEW B, A \subseteq Link, B \subseteq Link,
         NEW lo \in Nat, NEW mid \in Nat, NEW hi \in Nat, lo <= mid, mid <= hi,
         Numbered(A, lo, mid), Numbered(B, mid, hi)
  PROVE  Numbered(A \cup B, lo, hi)
<1>1. \A l \in A \cup B : l.number \in Nat
  BY DEF Link
<1>2. \A l \in A \cup B : lo < l.number /\ l.number <= hi
  BY <1>1 DEF Numbered
<1>3. \A n \in Nat : lo < n /\ n <= hi => \E l \in A \cup B : l.number = n
  BY DEF Numbered
<1>4. \A k, l \in A \cup B : k.number = l.number => k = l
  BY <1>1 DEF Numbered
<1> QED
  BY <1>2, <1>3, <1>4 DEF Numbered

\* Two runs of versions that meet make one.
LEMMA VersionedUnion ==
  ASSUME NEW A, NEW B, A \subseteq Link, B \subseteq Link,
         NEW lo \in Nat, NEW mid \in Nat, NEW hi \in Nat, lo <= mid, mid <= hi,
         Versioned(A, lo, mid), Versioned(B, mid, hi)
  PROVE  Versioned(A \cup B, lo, hi)
<1>1. \A l \in A \cup B : l.version \in Nat
  BY DEF Link
<1>2. \A l \in A \cup B : lo < l.version /\ l.version <= hi
  BY <1>1 DEF Versioned
<1>3. \A n \in Nat : lo < n /\ n <= hi => \E l \in A \cup B : l.version = n
  BY DEF Versioned
<1>4. \A k, l \in A \cup B : k.version = l.version => k = l
  BY <1>1 DEF Versioned
<1> QED
  BY <1>2, <1>3, <1>4 DEF Versioned

\* What is numbered from lo to lo is empty.
LEMMA NothingNumbered ==
  ASSUME NEW L, L \subseteq Link, NEW lo \in Nat
  PROVE  /\ Numbered(L, lo, lo) <=> L = {}
         /\ Versioned(L, lo, lo) <=> L = {}
BY DEF Numbered, Versioned, Link

\* The rows of a call are numbered from where the stream and '$all' are.
LEMMA RowsFill ==
  ASSUME NEW q \in Requests, NEW v \in Nat, NEW n \in Nat
  PROVE  /\ Rows(q, v, n) \subseteq Link /\ Rows(q, v, n) # {}
         /\ Numbered(Rows(q, v, n), n, n + Len(q.ids))
         /\ Versioned(Rows(q, v, n), v, v + Len(q.ids))
         /\ OfStream(Rows(q, v, n), q.stream) = Rows(q, v, n)
         /\ \A st \in Streams : st # q.stream => OfStream(Rows(q, v, n), st) = {}
         /\ (\A i, j \in DOMAIN q.ids : q.ids[i] = q.ids[j] => i = j)
              => DistinctIds(Rows(q, v, n))
<1> DEFINE row(i) == [id |-> q.ids[i], stream |-> q.stream,
                      version |-> v + i, number |-> n + i]
           N == Len(q.ids)
<1>1. /\ q.stream \in Streams /\ N \in Nat /\ N > 0 /\ DOMAIN q.ids = 1..N
      /\ \A i \in 1..N : q.ids[i] \in Ids
  BY RequestType
<1>2. Rows(q, v, n) = {row(i) : i \in 1..N}
  BY <1>1 DEF Rows
<1>3. \A i \in 1..N : row(i) \in Link
  BY <1>1 DEF Link
<1>4. \A i \in 1..N : /\ row(i).number = n + i /\ row(i).version = v + i
                      /\ row(i).stream = q.stream /\ row(i).id = q.ids[i]
  OBVIOUS
<1> HIDE DEF row, N
<1>5. Rows(q, v, n) \subseteq Link
  BY <1>2, <1>3
<1>6. row(1) \in Rows(q, v, n)
  BY <1>1, <1>2
<1>7. Numbered(Rows(q, v, n), n, n + N)
  <2>1. ASSUME NEW l \in Rows(q, v, n) PROVE n < l.number /\ l.number <= n + N
    BY <1>1, <1>2, <1>4
  <2>2. ASSUME NEW m \in Nat, n < m, m <= n + N
        PROVE  \E l \in Rows(q, v, n) : l.number = m
    <3>1. m - n \in 1..N
      BY <1>1, <2>2
    <3>2. row(m - n) \in Rows(q, v, n) /\ row(m - n).number = m
      BY <1>2, <1>4, <3>1
    <3> QED
      BY <3>2
  <2>3. ASSUME NEW k \in Rows(q, v, n), NEW l \in Rows(q, v, n), k.number = l.number
        PROVE  k = l
    <3>1. PICK i \in 1..N : k = row(i)
      BY <1>2
    <3>2. PICK j \in 1..N : l = row(j)
      BY <1>2
    <3>3. i = j
      BY <1>1, <1>4, <2>3, <3>1, <3>2
    <3> QED
      BY <3>1, <3>2, <3>3
  <2> QED
    BY <2>1, <2>2, <2>3 DEF Numbered
<1>8. Versioned(Rows(q, v, n), v, v + N)
  <2>1. ASSUME NEW l \in Rows(q, v, n) PROVE v < l.version /\ l.version <= v + N
    BY <1>1, <1>2, <1>4
  <2>2. ASSUME NEW m \in Nat, v < m, m <= v + N
        PROVE  \E l \in Rows(q, v, n) : l.version = m
    <3>1. m - v \in 1..N
      BY <1>1, <2>2
    <3>2. row(m - v) \in Rows(q, v, n) /\ row(m - v).version = m
      BY <1>2, <1>4, <3>1
    <3> QED
      BY <3>2
  <2>3. ASSUME NEW k \in Rows(q, v, n), NEW l \in Rows(q, v, n), k.version = l.version
        PROVE  k = l
    <3>1. PICK i \in 1..N : k = row(i)
      BY <1>2
    <3>2. PICK j \in 1..N : l = row(j)
      BY <1>2
    <3>3. i = j
      BY <1>1, <1>4, <2>3, <3>1, <3>2
    <3> QED
      BY <3>1, <3>2, <3>3
  <2> QED
    BY <2>1, <2>2, <2>3 DEF Versioned
<1>9. \A l \in Rows(q, v, n) : l.stream = q.stream
  BY <1>2, <1>4
<1>10. ASSUME \A i, j \in DOMAIN q.ids : q.ids[i] = q.ids[j] => i = j,
              NEW k \in Rows(q, v, n), NEW l \in Rows(q, v, n), k.id = l.id
       PROVE  k = l
  <2>1. PICK i \in 1..N : k = row(i)
    BY <1>2
  <2>2. PICK j \in 1..N : l = row(j)
    BY <1>2
  <2>3. i = j
    BY <1>1, <1>4, <1>10, <2>1, <2>2
  <2> QED
    BY <2>1, <2>2, <2>3
<1> QED
  BY <1>5, <1>6, <1>7, <1>8, <1>9, <1>10 DEF N, OfStream, DistinctIds

-----------------------------------------------------------------------------
(***************************************************************************)
(* One lemma per kind of step.                                             *)
(***************************************************************************)
Resolved(s) ==
  /\ pc[s] \in {"resolve", "create"}
  /\ Met(call[s], Reads(s, call[s].stream))
  /\ Bumps(s)

Turns(s) ==
  /\ pc[s] = "resolve" /\ call[s].expects = "exact" /\ call[s].version = 0
  /\ Goto(s, "create")
  /\ UNCHANGED <<tables, lock, call, bump, allBump, mine, calls, reader>>

Enters(s) ==
  /\ pc[s] = "insert" /\ Acceptable(s)
  /\ mine' = [mine EXCEPT ![s] = @ \cup NewLinks(s)]
  /\ calls' = [calls EXCEPT ![s] = Append(@, call[s])]
  /\ Goto(s, "open")
  /\ UNCHANGED <<tables, lock, call, bump, allBump, reader>>

\* Every step is of one of these kinds.
LEMMA StepKinds ==
  ASSUME IInv, [Next]_vars
  PROVE  \/ \E s \in Sessions :
              \/ \E q \in Requests : Calls(s, q)
              \/ Turns(s) \/ Resolved(s) \/ LocksAll(s) \/ Enters(s)
              \/ Commits(s) \/ Fails(s)
         \/ ReadsPage
         \/ UNCHANGED vars
<1>1. ASSUME NEW s \in Sessions, Proceeds(s)
      PROVE  Turns(s) \/ Resolved(s) \/ LocksAll(s) \/ Enters(s) \/ Fails(s)
  <2>1. pc[s] \in {"resolve", "create"} =>
          /\ call[s] \in Requests
          /\ Reads(s, call[s].stream) \in Nat
    BY RequestType DEF IInv, SessionInv, Calling, TypeOK, Reads
  <2>2. pc[s] = "create" => call[s].expects = "exact" /\ call[s].version = 0
    BY DEF IInv, SessionInv, Calling
  <2>3. CASE ResolvesAny(s)
    BY <2>1, <2>3 DEF ResolvesAny, Resolved, Met
  <2>4. CASE ResolvesExisting(s)
    BY <2>1, <2>4 DEF ResolvesExisting, Resolved, Met
  <2>5. CASE ResolvesExact(s)
    <3>1. pc[s] = "resolve" /\ call[s].expects = "exact"
      BY <2>5 DEF ResolvesExact
    <3>2. Met(call[s], Reads(s, call[s].stream))
            <=> Reads(s, call[s].stream) = call[s].version
      BY <3>1 DEF Met
    <3> QED
      BY <2>5, <3>1, <3>2 DEF ResolvesExact, Turns, Resolved
  <2>6. CASE Creates(s)
    <3>1. CASE Reads(s, call[s].stream) > 0
      BY <2>6, <3>1 DEF Creates
    <3>2. CASE ~(Reads(s, call[s].stream) > 0)
      <4>1. /\ \/ pc[s] = "resolve" /\ call[s].expects = "no_stream"
               \/ pc[s] = "create"
            /\ Bumps(s)
        BY <2>6, <3>2 DEF Creates
      <4>2. Reads(s, call[s].stream) = 0
        BY <2>1, <3>2, <4>1
      <4>3. Met(call[s], Reads(s, call[s].stream))
        BY <2>2, <4>1, <4>2 DEF Met
      <4> QED
        BY <4>1, <4>3 DEF Resolved
    <3> QED
      BY <3>1, <3>2
  <2>7. CASE LocksAll(s)
    BY <2>7
  <2>8. CASE Inserts(s)
    BY <2>8 DEF Inserts, Enters
  <2> QED
    BY <1>1, <2>3, <2>4, <2>5, <2>6, <2>7, <2>8 DEF Proceeds
<1>2. ASSUME NEW s \in Sessions, Dies(s) \/ DeadlockVictim(s)
      PROVE  Fails(s)
  BY <1>2 DEF Dies, DeadlockVictim
<1> QED
  BY <1>1, <1>2 DEF Next

\* A step of others that leaves the tables and a session's locks alone.
LEMMA Frame ==
  ASSUME NEW c \in Sessions, SessionInv(c),
         UNCHANGED <<version, allVersion, links>>,
         pc'[c] = pc[c], call'[c] = call[c], bump'[c] = bump[c],
         allBump'[c] = allBump[c], mine'[c] = mine[c], calls'[c] = calls[c],
         \A r \in Streams \cup {All} : lock'[r] = c <=> lock[r] = c
  PROVE  SessionInv(c)'
<1>1. Held(c)'
  BY DEF SessionInv, Held, Count
<1>2. Calling(c)'
  BY DEF SessionInv, Calling, Count, Reads, Met
<1>3. FirstCall(c)'
  BY DEF SessionInv, FirstCall
<1>4. MineInv(c)'
  BY DEF SessionInv, MineInv, Numbered, Versioned, OfStream, DistinctIds,
         Pending, PendingAll, Reads, Count
<1> QED
  BY <1>1, <1>2, <1>3, <1>4 DEF SessionInv

\* The log and the reader, when the tables and the reader's variables stay.
LEMMA LogFrame ==
  ASSUME LogInv, ReaderInv, UNCHANGED <<tables, reader>>
  PROVE  LogInv' /\ ReaderInv'
BY DEF LogInv, ReaderInv, NoEventSkipped, tables, reader, Numbered, Versioned,
       OfStream, DistinctIds

\* A session whose transaction is over.
LEMMA Reset ==
  ASSUME NEW s \in Sessions, TypeOK, TypeOK', Ends(s)
  PROVE  SessionInv(s)'
<1>1. /\ pc'[s] = "idle" /\ allBump'[s] = 0 /\ mine'[s] = {} /\ calls'[s] = <<>>
      /\ \A st \in Streams : bump'[s][st] = 0
      /\ \A r \in Streams \cup {All} : lock'[r] # s
  BY LogAssumption DEF Ends, Goto, TypeOK, LogAssumption
<1>2. Held(s)' /\ Calling(s)' /\ FirstCall(s)'
  BY <1>1 DEF Held, Calling, FirstCall
<1>3. PendingAll(s)' = 0 /\ \A st \in Streams : Pending(s, st)' = 0
  BY <1>1 DEF PendingAll, Pending
<1>4. allVersion' \in Nat /\ \A st \in Streams : version'[st] \in Nat
  BY DEF TypeOK
<1>5. Numbered({}, allVersion', allVersion')
      /\ \A st \in Streams : Versioned({}, version'[st], version'[st])
  BY <1>4, NothingNumbered
<1>6. \A st \in Streams : OfStream(mine'[s], st) = {}
  BY <1>1 DEF OfStream
<1>7. MineInv(s)'
  <2>1. Numbered(mine[s], allVersion, allVersion + allBump[s] - PendingAll(s))'
    BY <1>1, <1>3, <1>4, <1>5
  <2>2. ASSUME NEW st \in Streams
        PROVE  Versioned(OfStream(mine[s], st), version[st],
                         Reads(s, st) - Pending(s, st))'
    <3>1. Reads(s, st)' - Pending(s, st)' = version'[st]
      BY <1>1, <1>3, <1>4 DEF Reads
    <3> QED
      BY <1>5, <1>6, <3>1
  <2> QED
    BY <1>1, <2>1, <2>2 DEF MineInv, DistinctIds
<1> QED
  BY <1>2, <1>7 DEF SessionInv

\* A call begins.
LEMMA CallsStep ==
  ASSUME IInv, NEW s \in Sessions, NEW q \in Requests, Calls(s, q)
  PROVE  IInv'
<1>1. /\ pc' = [pc EXCEPT ![s] = "resolve"] /\ call' = [call EXCEPT ![s] = q]
      /\ UNCHANGED <<version, allVersion, links, lock, bump, allBump, mine, calls,
                     cursor, seen>>
      /\ pc[s] \in {"idle", "open"} /\ Len(calls[s]) < MaxCalls
  BY DEF Calls, Goto, tables, reader
<1>2. TypeOK'
  BY <1>1 DEF IInv, TypeOK, Steps
<1>3. LogInv' /\ ReaderInv'
  BY <1>1, LogFrame DEF IInv, tables, reader
<1>4. ASSUME NEW c \in Sessions, c # s PROVE SessionInv(c)'
  BY <1>1, <1>4, Frame DEF IInv, TypeOK
<1>5. /\ pc'[s] = "resolve" /\ call'[s] = q
      /\ Held(s) /\ Calling(s) /\ FirstCall(s) /\ MineInv(s)
  BY <1>1 DEF IInv, TypeOK, SessionInv
<1>6. Held(s)' /\ Calling(s)' /\ FirstCall(s)'
  BY <1>1, <1>5 DEF Held, Calling, FirstCall
<1>7. MineInv(s)'
  <2>1. PendingAll(s)' = PendingAll(s)
        /\ \A st \in Streams : Pending(s, st)' = Pending(s, st)
    BY <1>1, <1>5 DEF PendingAll, Pending
  <2> QED
    BY <1>1, <1>5, <2>1
       DEF MineInv, Numbered, Versioned, OfStream, DistinctIds, Reads
<1> QED
  BY <1>2, <1>3, <1>4, <1>6, <1>7 DEF IInv, SessionInv

\* 'exact' 0 found no row and goes on to insert one.
LEMMA TurnsStep ==
  ASSUME IInv, NEW s \in Sessions, Turns(s)
  PROVE  IInv'
<1>1. /\ pc' = [pc EXCEPT ![s] = "create"] /\ pc[s] = "resolve"
      /\ call[s].expects = "exact" /\ call[s].version = 0
      /\ UNCHANGED <<version, allVersion, links, lock, call, bump, allBump, mine, calls,
                     cursor, seen>>
  BY DEF Turns, Goto, tables, reader
<1>2. TypeOK'
  BY <1>1 DEF IInv, TypeOK, Steps
<1>3. LogInv' /\ ReaderInv'
  BY <1>1, LogFrame DEF IInv, tables, reader
<1>4. ASSUME NEW c \in Sessions, c # s PROVE SessionInv(c)'
  BY <1>1, <1>4, Frame DEF IInv, TypeOK
<1>5. pc'[s] = "create" /\ Held(s) /\ Calling(s) /\ FirstCall(s) /\ MineInv(s)
  BY <1>1 DEF IInv, TypeOK, SessionInv
<1>6. Held(s)' /\ Calling(s)' /\ FirstCall(s)'
  BY <1>1, <1>5 DEF Held, Calling, FirstCall
<1>7. MineInv(s)'
  <2>1. PendingAll(s)' = PendingAll(s)
        /\ \A st \in Streams : Pending(s, st)' = Pending(s, st)
    BY <1>1, <1>5 DEF PendingAll, Pending
  <2> QED
    BY <1>1, <1>5, <2>1
       DEF MineInv, Numbered, Versioned, OfStream, DistinctIds, Reads
<1> QED
  BY <1>2, <1>3, <1>4, <1>6, <1>7 DEF IInv, SessionInv

\* The stream's row is locked and bumped.
LEMMA ResolvedStep ==
  ASSUME IInv, NEW s \in Sessions, Resolved(s)
  PROVE  IInv'
<1> DEFINE q == call[s]
           st == call[s].stream
<1>1. /\ pc[s] \in {"resolve", "create"} /\ Met(q, Reads(s, st))
      /\ Free(s, st)
      /\ lock' = [lock EXCEPT ![st] = s]
      /\ bump' = [bump EXCEPT ![s][st] = bump[s][st] + Count(s)]
      /\ pc' = [pc EXCEPT ![s] = "all"]
      /\ UNCHANGED <<version, allVersion, links, call, allBump, mine, calls, cursor, seen>>
  BY DEF Resolved, Bumps, Goto, tables, reader
<1>2. Held(s) /\ Calling(s) /\ FirstCall(s) /\ MineInv(s)
  BY DEF IInv, SessionInv
<1>3. /\ q \in Requests /\ st \in Streams /\ Count(s) \in Nat /\ Count(s) > 0
      /\ st # All
  BY <1>1, <1>2, RequestType, LogAssumption DEF Calling, Count, LogAssumption
<1>4. bump \in [Sessions -> [Streams -> Nat]] /\ version \in [Streams -> Nat]
  BY DEF IInv, TypeOK
<1>5. bump' \in [Sessions -> [Streams -> Nat]]
  BY <1>1, <1>3, <1>4
<1>6. TypeOK'
  BY <1>1, <1>3, <1>5 DEF IInv, TypeOK, Steps
<1>7. LogInv' /\ ReaderInv'
  BY <1>1, LogFrame DEF IInv, tables, reader
<1>8. ASSUME NEW c \in Sessions, c # s PROVE SessionInv(c)'
  <2>1. \A r \in Streams \cup {All} : lock'[r] = c <=> lock[r] = c
    BY <1>1, <1>3, <1>8, LogAssumption DEF Free, IInv, TypeOK, LogAssumption
  <2>2. bump'[c] = bump[c] /\ pc'[c] = pc[c]
    BY <1>1, <1>4, <1>8 DEF IInv, TypeOK
  <2> QED
    BY <1>1, <2>1, <2>2, Frame DEF IInv
<1>9. /\ pc'[s] = "all" /\ lock'[st] = s /\ bump'[s][st] = bump[s][st] + Count(s)
      /\ \A r \in Streams \cup {All} : r # st => lock'[r] = lock[r]
      /\ \A x \in Streams : x # st => bump'[s][x] = bump[s][x]
      /\ Count(s)' = Count(s)
  BY <1>1, <1>3, <1>4 DEF IInv, TypeOK, Count
<1>10. Reads(s, st)' = Reads(s, st) + Count(s) /\ Reads(s, st) \in Nat
  BY <1>1, <1>3, <1>4, <1>9 DEF Reads
<1>11. Held(s)'
  <2>1. \A x \in Streams : bump'[s][x] > 0 => lock'[x] = s
    BY <1>2, <1>9 DEF Held
  <2>2. Count(s) <= bump'[s][st]
    BY <1>3, <1>4, <1>9
  <2>3. allBump'[s] > 0 => lock'[All] = s
    BY <1>1, <1>2, <1>3, <1>9 DEF Held
  <2> QED
    BY <1>1, <1>9, <2>1, <2>2, <2>3 DEF Held
<1>12. Calling(s)'
  <2>1. (Reads(s, st) - Count(s))' = Reads(s, st)
    BY <1>1, <1>3, <1>9, <1>10
  <2>2. Met(call[s], Reads(s, call[s].stream) - Count(s))'
    BY <1>1, <2>1 DEF Met
  <2> QED
    BY <1>1, <1>2, <1>9, <2>2 DEF Calling
<1>13. FirstCall(s)'
  BY <1>1, <1>2, <1>3, <1>9 DEF FirstCall
<1>14. MineInv(s)'
  <2>1. PendingAll(s)' = PendingAll(s)
    BY <1>1, <1>9 DEF PendingAll
  <2>2. ASSUME NEW x \in Streams
        PROVE  Reads(s, x)' - Pending(s, x)' = Reads(s, x) - Pending(s, x)
    <3>1. Pending(s, x) = 0 /\ Pending(s, x)' = IF x = st THEN Count(s) ELSE 0
      BY <1>1, <1>9 DEF Pending
    <3>2. Reads(s, x)' = IF x = st THEN Reads(s, x) + Count(s) ELSE Reads(s, x)
      BY <1>1, <1>9, <1>10 DEF Reads
    <3>3. Reads(s, x) \in Nat
      BY <1>4 DEF Reads
    <3> QED
      BY <1>3, <3>1, <3>2, <3>3
  <2>3. ASSUME NEW x \in Streams
        PROVE  Versioned(OfStream(mine[s], x), version[x], Reads(s, x) - Pending(s, x))'
    <3>1. Versioned(OfStream(mine[s], x), version[x], Reads(s, x)' - Pending(s, x)')
      BY <1>2, <2>2 DEF MineInv
    <3> QED
      BY <1>1, <3>1 DEF Versioned, OfStream
  <2> QED
    BY <1>1, <1>2, <2>1, <2>3 DEF MineInv, Numbered, DistinctIds
<1> QED
  BY <1>6, <1>7, <1>8, <1>11, <1>12, <1>13, <1>14 DEF IInv, SessionInv

\* The row of '$all' is locked and bumped.
LEMMA LocksAllStep ==
  ASSUME IInv, NEW s \in Sessions, LocksAll(s)
  PROVE  IInv'
<1>1. /\ pc[s] = "all" /\ Free(s, All)
      /\ lock' = [lock EXCEPT ![All] = s]
      /\ allBump' = [allBump EXCEPT ![s] = allBump[s] + Count(s)]
      /\ pc' = [pc EXCEPT ![s] = "insert"]
      /\ UNCHANGED <<version, allVersion, links, call, bump, mine, calls, cursor, seen>>
  BY DEF LocksAll, Goto, tables, reader
<1>2. Held(s) /\ Calling(s) /\ FirstCall(s) /\ MineInv(s)
  BY DEF IInv, SessionInv
<1>3. call[s] \in Requests /\ Count(s) \in Nat /\ Count(s) > 0
      /\ call[s].stream \in Streams /\ All \notin Streams
  BY <1>1, <1>2, RequestType, LogAssumption DEF Calling, Count, LogAssumption
<1>4. allBump \in [Sessions -> Nat] /\ allVersion \in Nat
  BY DEF IInv, TypeOK
<1>5. TypeOK'
  BY <1>1, <1>3, <1>4 DEF IInv, TypeOK, Steps
<1>6. LogInv' /\ ReaderInv'
  BY <1>1, LogFrame DEF IInv, tables, reader
<1>7. ASSUME NEW c \in Sessions, c # s PROVE SessionInv(c)'
  <2>1. \A r \in Streams \cup {All} : lock'[r] = c <=> lock[r] = c
    BY <1>1, <1>3, <1>7, LogAssumption DEF Free, IInv, TypeOK, LogAssumption
  <2>2. allBump'[c] = allBump[c] /\ pc'[c] = pc[c]
    BY <1>1, <1>4, <1>7 DEF IInv, TypeOK
  <2> QED
    BY <1>1, <2>1, <2>2, Frame DEF IInv
<1>8. /\ pc'[s] = "insert" /\ lock'[All] = s /\ allBump'[s] = allBump[s] + Count(s)
      /\ \A r \in Streams : lock'[r] = lock[r]
      /\ Count(s)' = Count(s)
  BY <1>1, <1>3, <1>4 DEF IInv, TypeOK, Count
<1>9. Held(s)'
  <2>1. Count(s) <= allBump'[s]
    BY <1>3, <1>4, <1>8
  <2>2. Count(s) <= bump[s][call[s].stream]
    BY <1>1, <1>2 DEF Held
  <2>3. \A x \in Streams : bump[s][x] > 0 => lock'[x] = s
    BY <1>2, <1>8 DEF Held
  <2> QED
    BY <1>1, <1>8, <2>1, <2>2, <2>3 DEF Held
<1>10. Calling(s)'
  BY <1>1, <1>2, <1>8 DEF Calling, Reads, Met
<1>11. FirstCall(s)'
  BY <1>1, <1>8 DEF FirstCall
<1>12. MineInv(s)'
  <2>1. PendingAll(s) = 0 /\ PendingAll(s)' = Count(s)
    BY <1>1, <1>8 DEF PendingAll
  <2>2. (allVersion + allBump[s] - PendingAll(s))' = allVersion + allBump[s] - PendingAll(s)
    BY <1>1, <1>3, <1>4, <1>8, <2>1
  <2>3. Numbered(mine[s], allVersion, allVersion + allBump[s] - PendingAll(s))'
    BY <1>1, <1>2, <2>2 DEF MineInv, Numbered
  <2>4. \A x \in Streams : Pending(s, x)' = Pending(s, x) /\ Reads(s, x)' = Reads(s, x)
    BY <1>1, <1>8 DEF Pending, Reads
  <2> QED
    BY <1>1, <1>2, <2>3, <2>4 DEF MineInv, Versioned, OfStream, DistinctIds
<1> QED
  BY <1>5, <1>6, <1>7, <1>9, <1>10, <1>11, <1>12 DEF IInv, SessionInv

\* What a session that is about to insert inserts.
LEMMA NewLinksAre ==
  ASSUME IInv, NEW s \in Sessions, pc[s] = "insert"
  PROVE  LET q == call[s]
             v == Reads(s, q.stream) - Count(s)
             n == allVersion + allBump[s] - Count(s)
         IN /\ q \in Requests /\ v \in Nat /\ n \in Nat
            /\ version[q.stream] <= v /\ allVersion <= n
            /\ NewLinks(s) = Rows(q, v, n)
            /\ Count(s) = Len(q.ids) /\ Count(s) \in Nat /\ Count(s) > 0
            /\ Met(q, v)
<1> DEFINE q == call[s]
<1>1. q \in Requests /\ Met(q, Reads(s, q.stream) - Count(s))
      /\ Count(s) <= bump[s][q.stream] /\ Count(s) <= allBump[s]
  BY DEF IInv, SessionInv, Calling, Held
<1>2. Count(s) = Len(q.ids) /\ Count(s) \in Nat /\ Count(s) > 0 /\ q.stream \in Streams
  BY <1>1, RequestType DEF Count
<1>3. /\ version[q.stream] \in Nat /\ bump[s][q.stream] \in Nat
      /\ allVersion \in Nat /\ allBump[s] \in Nat
  BY <1>2 DEF IInv, TypeOK
<1>4. NewLinks(s) = Rows(q, Reads(s, q.stream) - Count(s), allVersion + allBump[s] - Count(s))
  BY DEF NewLinks, Rows
<1>5. Reads(s, q.stream) = version[q.stream] + bump[s][q.stream]
  BY DEF Reads
<1> HIDE DEF q
<1>6. /\ Reads(s, q.stream) - Count(s) \in Nat
      /\ version[q.stream] <= Reads(s, q.stream) - Count(s)
      /\ allVersion + allBump[s] - Count(s) \in Nat
      /\ allVersion <= allVersion + allBump[s] - Count(s)
  BY <1>1, <1>2, <1>3, <1>5
<1>7. /\ q \in Requests /\ Met(q, Reads(s, q.stream) - Count(s))
      /\ Count(s) = Len(q.ids) /\ Count(s) \in Nat /\ Count(s) > 0
  BY <1>1, <1>2
<1>8. /\ Reads(s, q.stream) - Count(s) \in Nat /\ version[q.stream] <= Reads(s, q.stream) - Count(s)
      /\ allVersion + allBump[s] - Count(s) \in Nat
      /\ allVersion <= allVersion + allBump[s] - Count(s)
  BY <1>6
<1> QED
  BY <1>4, <1>7, <1>8 DEF q

\* The rows of the call are inserted.
LEMMA EntersStep ==
  ASSUME IInv, NEW s \in Sessions, Enters(s)
  PROVE  IInv'
<1>1. /\ pc[s] = "insert" /\ Acceptable(s)
      /\ mine' = [mine EXCEPT ![s] = mine[s] \cup NewLinks(s)]
      /\ calls' = [calls EXCEPT ![s] = Append(calls[s], call[s])]
      /\ pc' = [pc EXCEPT ![s] = "open"]
      /\ UNCHANGED <<version, allVersion, links, lock, call, bump, allBump, cursor, seen>>
  BY DEF Enters, Goto, tables, reader
<1>2. Held(s) /\ Calling(s) /\ FirstCall(s) /\ MineInv(s)
  BY DEF IInv, SessionInv
<1> DEFINE q == call[s]
           v == Reads(s, q.stream) - Count(s)
           n == allVersion + allBump[s] - Count(s)
<1>3. /\ q \in Requests /\ v \in Nat /\ n \in Nat
      /\ version[q.stream] <= v /\ allVersion <= n
      /\ NewLinks(s) = Rows(q, v, n)
      /\ Count(s) = Len(q.ids) /\ Count(s) \in Nat /\ Count(s) > 0
      /\ q.stream \in Streams
  BY <1>1, NewLinksAre, RequestType
<1>4. /\ mine \in [Sessions -> SUBSET Link] /\ calls \in [Sessions -> Seq(Requests)]
      /\ version \in [Streams -> Nat] /\ bump \in [Sessions -> [Streams -> Nat]]
      /\ allVersion \in Nat /\ allBump \in [Sessions -> Nat] /\ pc \in [Sessions -> Steps]
      /\ links \subseteq Link
  BY DEF IInv, TypeOK
<1>5. /\ Rows(q, v, n) \subseteq Link /\ Rows(q, v, n) # {}
      /\ Numbered(Rows(q, v, n), n, n + Count(s))
      /\ Versioned(Rows(q, v, n), v, v + Count(s))
      /\ OfStream(Rows(q, v, n), q.stream) = Rows(q, v, n)
      /\ \A st \in Streams : st # q.stream => OfStream(Rows(q, v, n), st) = {}
      /\ (\A i, j \in DOMAIN q.ids : q.ids[i] = q.ids[j] => i = j)
           => DistinctIds(Rows(q, v, n))
  BY <1>3, RowsFill
<1>6. /\ \A i, j \in DOMAIN q.ids : q.ids[i] = q.ids[j] => i = j
      /\ \A l \in links \cup mine[s], k \in Rows(q, v, n) : l.id # k.id
  BY <1>1, <1>3 DEF Acceptable
<1>7. /\ pc'[s] = "open" /\ mine'[s] = mine[s] \cup Rows(q, v, n)
      /\ calls'[s] = Append(calls[s], q)
      /\ calls[s] \in Seq(Requests) /\ Len(calls[s]) < MaxCalls
      /\ mine[s] \subseteq Link
  BY <1>1, <1>2, <1>3, <1>4 DEF Calling
<1>8. /\ calls'[s] \in Seq(Requests) /\ Len(calls'[s]) <= MaxCalls /\ calls'[s] # <<>>
  <2> HIDE DEF q
  <2>1. Append(calls[s], q) \in Seq(Requests) /\ Len(Append(calls[s], q)) = Len(calls[s]) + 1
        /\ Len(calls[s]) \in Nat /\ Append(calls[s], q) # <<>>
    BY <1>3, <1>7
  <2> QED
    BY <1>7, <2>1, LogAssumption DEF LogAssumption
<1> HIDE DEF q, v, n
<1>9. TypeOK'
  <2>1. mine' \in [Sessions -> SUBSET Link] /\ pc' \in [Sessions -> Steps]
    BY <1>1, <1>3, <1>4, <1>5 DEF Steps
  <2>2. calls' \in [Sessions -> Seq(Requests)]
    BY <1>1, <1>3, <1>4, <1>8
  <2>3. \A c \in Sessions : Len(calls'[c]) <= MaxCalls
    BY <1>1, <1>4, <1>8 DEF IInv, TypeOK
  <2> QED
    BY <1>1, <2>1, <2>2, <2>3 DEF IInv, TypeOK
<1>10. LogInv' /\ ReaderInv'
  BY <1>1, LogFrame DEF IInv, tables, reader
<1>11. ASSUME NEW c \in Sessions, c # s PROVE SessionInv(c)'
  <2>1. mine'[c] = mine[c] /\ calls'[c] = calls[c] /\ pc'[c] = pc[c]
    BY <1>1, <1>4, <1>11
  <2> QED
    BY <1>1, <2>1, Frame DEF IInv
<1>12. Held(s)' /\ FirstCall(s)'
  BY <1>1, <1>2, <1>7, <1>8 DEF Held, FirstCall
<1>13. Calling(s)'
  BY <1>5, <1>7, <1>8 DEF Calling
<1>14. MineInv(s)'
  <2>1. PendingAll(s) = Count(s) /\ PendingAll(s)' = 0
        /\ \A x \in Streams : Pending(s, x)' = 0
    BY <1>1, <1>7 DEF PendingAll, Pending
  <2>2. Numbered(mine[s], allVersion, allVersion + allBump[s] - PendingAll(s))'
    <3>1. allVersion + allBump[s] - PendingAll(s) = n
      BY <2>1 DEF n
    <3>2. Numbered(mine[s], allVersion, n)
      BY <1>2, <3>1 DEF MineInv
    <3>3. n + Count(s) \in Nat /\ n <= n + Count(s)
      BY <1>3
    <3>4. Numbered(mine[s] \cup Rows(q, v, n), allVersion, n + Count(s))
      BY <1>3, <1>4, <1>5, <1>7, <3>2, <3>3, NumberedUnion
    <3>5. (allVersion + allBump[s] - PendingAll(s))' = n + Count(s)
      BY <1>1, <1>3, <1>4, <2>1 DEF n
    <3> QED
      BY <1>1, <1>7, <3>4, <3>5
  <2>3. ASSUME NEW x \in Streams
        PROVE  Versioned(OfStream(mine[s], x), version[x], Reads(s, x) - Pending(s, x))'
    <3>1. OfStream(mine'[s], x) = OfStream(mine[s], x) \cup OfStream(Rows(q, v, n), x)
      BY <1>7 DEF OfStream
    <3>2. Reads(s, x)' - Pending(s, x)' = Reads(s, x) /\ Reads(s, x) \in Nat
          /\ version[x] \in Nat /\ OfStream(mine[s], x) \subseteq Link
      BY <1>1, <1>4, <1>7, <2>1 DEF Reads, OfStream
    <3>3. Versioned(OfStream(mine[s], x), version[x], Reads(s, x) - Pending(s, x))
      BY <1>2 DEF MineInv
    <3>4. CASE x = q.stream
      <4>1. Reads(s, x) - Pending(s, x) = v /\ Reads(s, x) = v + Count(s)
        BY <1>1, <1>3, <3>2, <3>4 DEF Pending, v, q
      <4>2. Versioned(OfStream(mine[s], x), version[x], v)
        BY <3>3, <4>1
      <4>3. Versioned(Rows(q, v, n), v, v + Count(s)) /\ v + Count(s) \in Nat
            /\ version[x] <= v /\ v <= v + Count(s)
        BY <1>3, <1>5, <3>4
      <4>4. Versioned(OfStream(mine[s], x) \cup Rows(q, v, n), version[x], v + Count(s))
        BY <1>3, <1>5, <3>2, <4>2, <4>3, VersionedUnion
      <4>5. OfStream(mine'[s], x) = OfStream(mine[s], x) \cup Rows(q, v, n)
        BY <1>5, <3>1, <3>4
      <4> QED
        BY <1>1, <3>2, <4>1, <4>4, <4>5
    <3>5. CASE x # q.stream
      <4>1. Pending(s, x) = 0 /\ OfStream(mine'[s], x) = OfStream(mine[s], x)
        BY <1>1, <1>5, <3>1, <3>5 DEF Pending, q
      <4>2. Reads(s, x) - Pending(s, x) = Reads(s, x)
        BY <3>2, <4>1
      <4> QED
        BY <1>1, <3>2, <3>3, <4>1, <4>2
    <3> QED
      BY <3>4, <3>5
  <2>4. DistinctIds(mine'[s])
    BY <1>2, <1>5, <1>6, <1>7 DEF MineInv, DistinctIds
  <2>5. \A k \in mine'[s], l \in links : k.id # l.id
    BY <1>2, <1>6, <1>7 DEF MineInv
  <2> QED
    BY <1>1, <2>2, <2>3, <2>4, <2>5 DEF MineInv
<1> QED
  BY <1>9, <1>10, <1>11, <1>12, <1>13, <1>14 DEF IInv, SessionInv

\* What is inserted and not committed is inserted under the lock of '$all'.
LEMMA MineHeld ==
  ASSUME IInv, NEW c \in Sessions
  PROVE  /\ mine[c] # {} => lock[All] = c
         /\ allBump[c] = 0 => pc[c] # "insert"
         /\ pc[c] \in {"all", "insert"} =>
              call[c].stream \in Streams /\ bump[c][call[c].stream] > 0
<1>1. Held(c) /\ Calling(c) /\ MineInv(c) /\ allVersion \in Nat /\ allBump[c] \in Nat
      /\ mine[c] \subseteq Link
  BY DEF IInv, SessionInv, TypeOK
<1>2. pc[c] \in {"all", "insert"} =>
        /\ call[c].stream \in Streams /\ Count(c) \in Nat /\ Count(c) > 0
  BY <1>1, RequestType DEF Calling, Count
<1>3. pc[c] \in {"all", "insert"} => bump[c][call[c].stream] > 0
  <2>1. pc[c] \in {"all", "insert"} => bump[c][call[c].stream] \in Nat
    BY <1>2 DEF IInv, TypeOK
  <2> QED
    BY <1>1, <1>2, <2>1 DEF Held
<1>4. allBump[c] = 0 => pc[c] # "insert"
  BY <1>1, <1>2 DEF Held
<1>5. ASSUME mine[c] # {} PROVE lock[All] = c
  <2>1. PICK l \in mine[c] : TRUE
    BY <1>5
  <2>2. allVersion < l.number /\ l.number <= allVersion + allBump[c] - PendingAll(c)
        /\ l.number \in Nat
    BY <1>1, <2>1 DEF MineInv, Numbered, Link
  <2>3. PendingAll(c) \in Nat
    BY <1>2 DEF PendingAll
  <2>4. allBump[c] > 0
    BY <1>1, <2>2, <2>3
  <2> QED
    BY <1>1, <2>4 DEF Held
<1> QED
  BY <1>2, <1>3, <1>4, <1>5

\* The transaction ends with an error.
LEMMA FailsStep ==
  ASSUME IInv, NEW s \in Sessions, Fails(s)
  PROVE  IInv'
<1>1. /\ Ends(s) /\ UNCHANGED <<version, allVersion, links, cursor, seen>>
      /\ pc' = [pc EXCEPT ![s] = "idle"]
      /\ lock' = [r \in DOMAIN lock |-> IF lock[r] = s THEN NoSession ELSE lock[r]]
      /\ bump' = [bump EXCEPT ![s] = [st \in Streams |-> 0]]
      /\ allBump' = [allBump EXCEPT ![s] = 0]
      /\ mine' = [mine EXCEPT ![s] = {}]
      /\ call' = [call EXCEPT ![s] = NoCall]
      /\ calls' = [calls EXCEPT ![s] = <<>>]
  BY DEF Fails, Ends, Goto, tables, reader
<1>2. TypeOK'
  BY <1>1, LogAssumption DEF IInv, TypeOK, Steps, LogAssumption
<1>3. LogInv' /\ ReaderInv'
  BY <1>1, LogFrame DEF IInv, tables, reader
<1>4. SessionInv(s)'
  BY <1>1, <1>2, Reset DEF IInv
<1>5. ASSUME NEW c \in Sessions, c # s PROVE SessionInv(c)'
  <2>1. /\ pc'[c] = pc[c] /\ call'[c] = call[c] /\ bump'[c] = bump[c]
        /\ allBump'[c] = allBump[c] /\ mine'[c] = mine[c] /\ calls'[c] = calls[c]
    BY <1>1, <1>5 DEF IInv, TypeOK
  <2>2. \A r \in Streams \cup {All} : lock'[r] = c <=> lock[r] = c
    BY <1>1, <1>5, LogAssumption DEF IInv, TypeOK, LogAssumption
  <2> QED
    BY <1>1, <1>5, <2>1, <2>2, Frame DEF IInv
<1> QED
  BY <1>2, <1>3, <1>4, <1>5 DEF IInv

\* The transaction commits: its events follow the committed ones.
LEMMA CommitsStep ==
  ASSUME IInv, NEW s \in Sessions, Commits(s)
  PROVE  IInv'
<1>1. /\ Ends(s) /\ pc[s] = "open" /\ UNCHANGED <<cursor, seen>>
      /\ version' = [st \in Streams |-> Reads(s, st)]
      /\ allVersion' = allVersion + allBump[s]
      /\ links' = links \cup mine[s]
      /\ pc' = [pc EXCEPT ![s] = "idle"]
      /\ lock' = [r \in DOMAIN lock |-> IF lock[r] = s THEN NoSession ELSE lock[r]]
      /\ bump' = [bump EXCEPT ![s] = [st \in Streams |-> 0]]
      /\ allBump' = [allBump EXCEPT ![s] = 0]
      /\ mine' = [mine EXCEPT ![s] = {}]
      /\ call' = [call EXCEPT ![s] = NoCall]
      /\ calls' = [calls EXCEPT ![s] = <<>>]
  BY DEF Commits, Ends, Goto, reader
<1>2. /\ version \in [Streams -> Nat] /\ bump \in [Sessions -> [Streams -> Nat]]
      /\ allVersion \in Nat /\ allBump \in [Sessions -> Nat]
      /\ links \subseteq Link /\ mine[s] \subseteq Link
      /\ \A st \in Streams : Reads(s, st) \in Nat /\ version[st] <= Reads(s, st)
  <2>1. /\ version \in [Streams -> Nat] /\ bump \in [Sessions -> [Streams -> Nat]]
        /\ allVersion \in Nat /\ allBump \in [Sessions -> Nat]
        /\ links \subseteq Link /\ mine[s] \subseteq Link
    BY DEF IInv, TypeOK
  <2> QED
    BY <2>1 DEF Reads
<1>3. TypeOK'
  BY <1>1, <1>2, LogAssumption DEF IInv, TypeOK, Steps, LogAssumption
<1>4. /\ Numbered(mine[s], allVersion, allVersion + allBump[s])
      /\ \A st \in Streams : Versioned(OfStream(mine[s], st), version[st], Reads(s, st))
      /\ DistinctIds(mine[s])
      /\ \A k \in mine[s], l \in links : k.id # l.id
  <2>1. PendingAll(s) = 0 /\ \A st \in Streams : Pending(s, st) = 0
    BY <1>1 DEF PendingAll, Pending
  <2>2. /\ allVersion + allBump[s] - 0 = allVersion + allBump[s]
        /\ \A st \in Streams : Reads(s, st) - 0 = Reads(s, st)
    BY <1>2
  <2> QED
    BY <2>1, <2>2 DEF IInv, SessionInv, MineInv
<1>5. LogInv'
  <2>1. Numbered(links', 0, allVersion')
    <3>1. Numbered(links, 0, allVersion) /\ 0 <= allVersion
          /\ allVersion <= allVersion + allBump[s] /\ allVersion + allBump[s] \in Nat
      BY <1>2 DEF IInv, LogInv
    <3>2. Numbered(links \cup mine[s], 0, allVersion + allBump[s])
      BY <1>2, <1>4, <3>1, NumberedUnion
    <3> QED
      BY <1>1, <3>2
  <2>2. ASSUME NEW st \in Streams PROVE Versioned(OfStream(links', st), 0, version'[st])
    <3>1. /\ OfStream(links', st) = OfStream(links, st) \cup OfStream(mine[s], st)
          /\ OfStream(links, st) \subseteq Link /\ OfStream(mine[s], st) \subseteq Link
      BY <1>1, <1>2 DEF OfStream
    <3>2. Versioned(OfStream(links, st), 0, version[st]) /\ version[st] \in Nat
      BY <1>2 DEF IInv, LogInv
    <3>3. Versioned(OfStream(links, st) \cup OfStream(mine[s], st), 0, Reads(s, st))
      BY <1>2, <1>4, <3>1, <3>2, VersionedUnion
    <3> QED
      BY <1>1, <3>1, <3>3
  <2>3. DistinctIds(links')
    BY <1>1, <1>4 DEF IInv, LogInv, DistinctIds
  <2> QED
    BY <2>1, <2>2, <2>3 DEF LogInv
<1>6. ReaderInv'
  <2>1. cursor <= allVersion /\ seen \subseteq links /\ NoEventSkipped /\ cursor \in Nat
    BY DEF IInv, ReaderInv, TypeOK
  <2>2. \A l \in mine[s] : cursor < l.number
    BY <1>2, <1>4, <2>1 DEF Numbered, Link
  <2>3. NoEventSkipped'
    BY <1>1, <1>2, <2>1, <2>2 DEF NoEventSkipped, Link
  <2> QED
    BY <1>1, <1>2, <2>1, <2>3 DEF ReaderInv
<1>7. SessionInv(s)'
  BY <1>1, <1>3, Reset DEF IInv
<1>8. ASSUME NEW c \in Sessions, c # s PROVE SessionInv(c)'
  <2>1. /\ pc'[c] = pc[c] /\ call'[c] = call[c] /\ bump'[c] = bump[c]
        /\ allBump'[c] = allBump[c] /\ mine'[c] = mine[c] /\ calls'[c] = calls[c]
    BY <1>1, <1>8 DEF IInv, TypeOK
  <2>2. \A r \in Streams \cup {All} : lock'[r] = c <=> lock[r] = c
    BY <1>1, <1>8, LogAssumption DEF IInv, TypeOK, LogAssumption
  <2>3. SessionInv(c) /\ Held(c) /\ Calling(c) /\ FirstCall(c) /\ MineInv(c)
        /\ Held(s) /\ mine[c] \subseteq Link /\ allBump[c] \in Nat
    BY DEF IInv, SessionInv, TypeOK
  <2>4. Held(c)' /\ FirstCall(c)'
    BY <2>1, <2>2, <2>3 DEF Held, FirstCall, Count
  <2>5. \A st \in Streams : bump[c][st] > 0 => version'[st] = version[st]
    <3>1. ASSUME NEW st \in Streams, bump[c][st] > 0 PROVE version'[st] = version[st]
      <4>1. lock[st] = c
        BY <2>3, <3>1 DEF Held
      <4>2. ~(bump[s][st] > 0) /\ bump[s][st] \in Nat /\ version[st] \in Nat
        BY <1>2, <1>8, <2>3, <4>1 DEF Held
      <4>3. version'[st] = version[st] + bump[s][st]
        BY <1>1 DEF Reads
      <4> QED
        BY <4>2, <4>3
    <3> QED
      BY <3>1
  <2>6. \A st \in Streams : bump[c][st] > 0 => Reads(c, st)' = Reads(c, st)
    BY <1>1, <2>1, <2>5 DEF Reads
  <2>7. Calling(c)'
    <3>1. ASSUME pc[c] \in {"all", "insert"}
          PROVE  Met(call[c], Reads(c, call[c].stream) - Count(c))'
      <4>1. PICK q : q = call[c]
        OBVIOUS
      <4>2. q.stream \in Streams /\ bump[c][q.stream] > 0
        BY <3>1, <4>1, MineHeld
      <4>3. Reads(c, q.stream)' = Reads(c, q.stream)
        BY <2>6, <4>2
      <4>4. call'[c] = q /\ Count(c)' = Count(c)
        BY <2>1, <4>1 DEF Count
      <4>5. Met(q, Reads(c, q.stream) - Count(c))
        BY <2>3, <3>1, <4>1 DEF Calling
      <4>6. Met(q, Reads(c, q.stream)' - Count(c)')
        BY <4>3, <4>4, <4>5
      <4> QED
        BY <4>4, <4>6 DEF Met, Reads
    <3> QED
      BY <2>1, <2>3, <3>1 DEF Calling
  <2>8. MineInv(c)'
    <3>1. PendingAll(c)' = PendingAll(c) /\ \A st \in Streams : Pending(c, st)' = Pending(c, st)
      BY <2>1 DEF PendingAll, Pending, Count
    <3>2. Numbered(mine[c], allVersion, allVersion + allBump[c] - PendingAll(c))'
      <4>1. CASE allBump[s] = 0
        <5>1. allVersion' = allVersion
          BY <1>1, <1>2, <4>1
        <5> QED
          BY <2>1, <2>3, <3>1, <5>1 DEF MineInv
      <4>2. CASE allBump[s] # 0
        <5>1. lock[All] = s
          BY <1>2, <2>3, <4>2 DEF Held
        <5>2. allBump[c] = 0 /\ mine[c] = {} /\ pc[c] # "insert"
          BY <1>8, <2>3, <5>1, MineHeld DEF Held
        <5>3. /\ allVersion' + allBump'[c] - PendingAll(c)' = allVersion'
              /\ allVersion' \in Nat
          <6>1. allBump'[c] = 0 /\ PendingAll(c)' = 0 /\ allVersion' \in Nat
            BY <1>3, <2>1, <3>1, <5>2 DEF PendingAll, TypeOK
          <6>2. \A n \in Nat : n + 0 - 0 = n
            OBVIOUS
          <6> QED
            BY <6>1, <6>2
        <5>4. Numbered({}, allVersion', allVersion')
          BY <5>3, NothingNumbered
        <5> QED
          BY <2>1, <5>2, <5>3, <5>4
      <4> QED
        BY <4>1, <4>2
    <3>3. ASSUME NEW st \in Streams
          PROVE  Versioned(OfStream(mine[c], st), version[st], Reads(c, st) - Pending(c, st))'
      <4>1. Versioned(OfStream(mine[c], st), version[st], Reads(c, st) - Pending(c, st))
        BY <2>3 DEF MineInv
      <4>2. OfStream(mine'[c], st) = OfStream(mine[c], st)
            /\ OfStream(mine[c], st) \subseteq Link
        BY <2>1, <2>3 DEF OfStream
      <4>3. CASE bump[c][st] > 0
        BY <2>5, <2>6, <3>1, <4>1, <4>2, <4>3
      <4>4. CASE ~(bump[c][st] > 0)
        <5>1. bump[c][st] = 0 /\ version[st] \in Nat /\ version'[st] \in Nat
          BY <1>2, <1>3, <4>4 DEF TypeOK
        <5>2. Pending(c, st) = 0
          BY <4>4, MineHeld DEF Pending
        <5>3. Reads(c, st) - Pending(c, st) = version[st]
              /\ Reads(c, st)' - Pending(c, st)' = version'[st]
          BY <2>1, <3>1, <5>1, <5>2 DEF Reads
        <5>4. OfStream(mine[c], st) = {}
          BY <4>1, <4>2, <5>1, <5>3, NothingNumbered
        <5>5. Versioned({}, version'[st], version'[st])
          BY <5>1, NothingNumbered
        <5> QED
          BY <4>2, <5>3, <5>4, <5>5
      <4> QED
        BY <4>3, <4>4
    <3>4. \A k \in mine'[c], l \in links' : k.id # l.id
      <4>1. mine[c] # {} => mine[s] = {}
        BY <1>8, MineHeld
      <4> QED
        BY <1>1, <2>1, <2>3, <4>1 DEF MineInv
    <3>5. DistinctIds(mine'[c])
      BY <2>1, <2>3 DEF MineInv
    <3> QED
      BY <3>2, <3>3, <3>4, <3>5 DEF MineInv
  <2> QED
    BY <2>4, <2>7, <2>8 DEF SessionInv
<1> QED
  BY <1>3, <1>5, <1>6, <1>7, <1>8 DEF IInv

\* The reader reads a page.
LEMMA ReadsPageStep ==
  ASSUME IInv, ReadsPage
  PROVE  IInv'
<1>1. PICK last \in links :
        /\ last.number > cursor
        /\ seen' = seen \cup {l \in links : cursor < l.number /\ l.number <= last.number}
        /\ cursor' = last.number
        /\ UNCHANGED <<version, allVersion, links, lock, pc, call, bump, allBump, mine, calls>>
  BY DEF ReadsPage, tables, session
<1>2. links \subseteq Link /\ cursor \in Nat /\ seen \subseteq links /\ NoEventSkipped
      /\ Numbered(links, 0, allVersion)
  BY DEF IInv, TypeOK, ReaderInv, LogInv
<1>3. TypeOK'
  BY <1>1, <1>2 DEF IInv, TypeOK, Link
<1>4. LogInv'
  BY <1>1 DEF IInv, LogInv, Numbered, Versioned, OfStream, DistinctIds
<1>5. cursor' <= allVersion' /\ seen' \subseteq links'
  BY <1>1, <1>2 DEF Numbered
<1>6. NoEventSkipped'
  BY <1>1, <1>2 DEF NoEventSkipped, Link
<1>7. ASSUME NEW c \in Sessions PROVE SessionInv(c)'
  BY <1>1, Frame DEF IInv
<1> QED
  BY <1>3, <1>4, <1>5, <1>6, <1>7 DEF IInv, ReaderInv

\* The store is empty, and nobody is in a call.
LEMMA InitIInv == Init => IInv
<1> SUFFICES ASSUME Init PROVE IInv
  OBVIOUS
<1>1. /\ \A st \in Streams : version[st] = 0
      /\ version \in [Streams -> Nat]
      /\ allVersion = 0 /\ links = {} /\ cursor = 0 /\ seen = {}
      /\ \A r \in Streams \cup {All} : lock[r] = NoSession
      /\ \A s \in Sessions : /\ pc[s] = "idle" /\ allBump[s] = 0 /\ mine[s] = {}
                             /\ calls[s] = <<>>
                             /\ \A st \in Streams : bump[s][st] = 0
  BY DEF Init
<1>2. TypeOK
  BY LogAssumption DEF Init, TypeOK, Steps, LogAssumption
<1>3. Numbered({}, 0, 0) /\ Versioned({}, 0, 0) /\ DistinctIds({})
  BY NothingNumbered DEF DistinctIds
<1>4. LogInv /\ ReaderInv
  BY <1>1, <1>3 DEF LogInv, ReaderInv, NoEventSkipped, OfStream
<1>5. ASSUME NEW s \in Sessions PROVE SessionInv(s)
  <2>1. Held(s) /\ Calling(s) /\ FirstCall(s)
    BY <1>1, LogAssumption DEF Held, Calling, FirstCall, LogAssumption
  <2>2. PendingAll(s) = 0 /\ \A st \in Streams : Pending(s, st) = 0 /\ Reads(s, st) = 0
    BY <1>1 DEF PendingAll, Pending, Reads
  <2>3. MineInv(s)
    <3>1. /\ allVersion + allBump[s] - PendingAll(s) = 0
          /\ \A st \in Streams : Reads(s, st) - Pending(s, st) = 0
      BY <1>1, <2>2
    <3>2. \A st \in Streams : OfStream(mine[s], st) = {} /\ version[st] = 0
      BY <1>1 DEF OfStream
    <3>3. /\ Numbered(mine[s], allVersion, allVersion + allBump[s] - PendingAll(s))
          /\ DistinctIds(mine[s]) /\ mine[s] = {}
      BY <1>1, <1>3, <3>1
    <3>4. \A st \in Streams :
            Versioned(OfStream(mine[s], st), version[st], Reads(s, st) - Pending(s, st))
      BY <1>3, <3>1, <3>2
    <3> QED
      BY <3>3, <3>4 DEF MineInv
  <2> QED
    BY <2>1, <2>3 DEF SessionInv
<1> QED
  BY <1>2, <1>4, <1>5 DEF IInv

\* The steps together.
LEMMA IInvStep == IInv /\ [Next]_vars => IInv'
<1> SUFFICES ASSUME IInv, [Next]_vars PROVE IInv'
  OBVIOUS
<1>1. ASSUME UNCHANGED vars PROVE IInv'
  <2>1. UNCHANGED <<version, allVersion, links, lock, pc, call, bump, allBump, mine, calls,
                    cursor, seen>>
    BY <1>1 DEF vars, tables, session, reader
  <2>2. TypeOK'
    BY <2>1 DEF IInv, TypeOK
  <2>3. LogInv' /\ ReaderInv'
    BY <2>1, LogFrame DEF IInv, tables, reader
  <2>4. \A c \in Sessions : SessionInv(c)'
    BY <2>1, Frame DEF IInv
  <2> QED
    BY <2>2, <2>3, <2>4 DEF IInv
<1> QED
  BY <1>1, StepKinds, CallsStep, TurnsStep, ResolvedStep, LocksAllStep, EntersStep,
     CommitsStep, FailsStep, ReadsPageStep

-----------------------------------------------------------------------------
(***************************************************************************)
(* The invariants.                                                         *)
(***************************************************************************)
\* The invariant of locks, bumps and uncommitted events is inductive.
THEOREM Inductive == Spec => []IInv
BY InitIInv, IInvStep, PTL DEF Spec

\* Every column of the tables and every variable of a session keeps its type.
THEOREM TypeCorrect == Spec => []TypeOK
<1>1. IInv => TypeOK
  BY DEF IInv
<1> QED
  BY <1>1, Inductive, PTL

\* append_to_stream numbers the committed events from 1 without gap and without
\* repetition, over all streams and in each.
THEOREM NumbersAreContiguous == Spec => []Contiguous
<1>1. ASSUME IInv PROVE Contiguous
  <2>1. links \subseteq Link /\ allVersion \in Nat /\ version \in [Streams -> Nat]
        /\ Numbered(links, 0, allVersion)
        /\ \A st \in Streams : Versioned(OfStream(links, st), 0, version[st])
    BY <1>1 DEF IInv, TypeOK, LogInv
  <2>2. {l.number : l \in links} = 1..allVersion
    <3>1. \A l \in links : l.number \in 1..allVersion
      BY <2>1 DEF Numbered, Link
    <3>2. \A n \in 1..allVersion : \E l \in links : l.number = n
      BY <2>1 DEF Numbered
    <3> QED
      BY <3>1, <3>2
  <2>3. ASSUME NEW st \in Streams
        PROVE  {l.version : l \in {k \in links : k.stream = st}} = 1..version[st]
    <3> DEFINE S == {k \in links : k.stream = st}
    <3>1. Versioned(S, 0, version[st]) /\ S \subseteq Link /\ version[st] \in Nat
      BY <2>1 DEF OfStream
    <3> HIDE DEF S
    <3>2. \A l \in S : l.version \in 1..version[st]
      BY <3>1 DEF Versioned, Link
    <3>3. \A n \in 1..version[st] : \E l \in S : l.version = n
      BY <3>1 DEF Versioned
    <3>4. {l.version : l \in S} = 1..version[st]
      BY <3>2, <3>3
    <3> QED
      BY <3>4 DEF S
  <2>4. ASSUME NEW k \in links, NEW l \in links, k.stream = l.stream, k.version = l.version
        PROVE  k = l
    <3>1. k.stream \in Streams
      BY <2>1 DEF Link
    <3>2. k \in OfStream(links, k.stream) /\ l \in OfStream(links, k.stream)
      BY <2>4 DEF OfStream
    <3> QED
      BY <2>1, <2>4, <3>1, <3>2 DEF Versioned
  <2> QED
    BY <2>1, <2>2, <2>3, <2>4 DEF Contiguous, Numbered
<1> QED
  BY <1>1, Inductive, PTL

\* An event_id is committed at most once.
THEOREM IdsAreUnique == Spec => []UniqueIds
<1>1. IInv => UniqueIds
  BY DEF IInv, LogInv, DistinctIds, UniqueIds
<1> QED
  BY <1>1, Inductive, PTL

\* Nothing is committed behind the cursor of a reader of '$all'.
THEOREM ReadersMissNothing == Spec => []NoEventSkipped
<1>1. IInv => NoEventSkipped
  BY DEF IInv, ReaderInv
<1> QED
  BY <1>1, Inductive, PTL

\* Who waits, waits for the holder of a row that comes no later than '$all'.
LEMMA Waiting ==
  ASSUME NEW s \in Sessions, WaitsFor(s) # NoSession
  PROVE  /\ pc[s] \in {"resolve", "create", "all"}
         /\ pc[s] = "all" => WaitsFor(s) = lock[All]
         /\ WaitsFor(s) = lock[All] \/ WaitsFor(s) = lock[call[s].stream]
<1>1. CASE pc[s] = "all"
  BY <1>1 DEF WaitsFor
<1>2. CASE pc[s] = "create"
  BY <1>2 DEF WaitsFor
<1>3. CASE pc[s] = "resolve"
  BY <1>3 DEF WaitsFor
<1>4. CASE pc[s] \notin {"resolve", "create", "all"}
  BY <1>4 DEF WaitsFor
<1> QED
  BY <1>1, <1>2, <1>3, <1>4

\* First calls of transactions never wait for each other in a circle.
THEOREM FirstCallsDontDeadlock == Spec => []SingleCallsDontDeadlock
<1>1. ASSUME IInv PROVE SingleCallsDontDeadlock
  <2> SUFFICES ASSUME NEW C \in (SUBSET Sessions) \ {{}},
                      \A s \in C : calls[s] = <<>> /\ pc[s] # "idle" /\ WaitsFor(s) \in C
               PROVE  FALSE
    BY DEF SingleCallsDontDeadlock
  <2>1. ASSUME NEW s \in C
        PROVE  /\ s \in Sessions /\ WaitsFor(s) \in C /\ WaitsFor(s) # NoSession
               /\ pc[s] \in {"resolve", "create", "all"}
               /\ call[s].stream \in Streams
    <3>1. s \in Sessions /\ WaitsFor(s) \in Sessions
      OBVIOUS
    <3>2. WaitsFor(s) # NoSession
      BY <3>1, LogAssumption DEF LogAssumption
    <3>3. pc[s] \in {"resolve", "create", "all"}
      BY <3>1, <3>2, Waiting
    <3>4. call[s] \in Requests
      BY <1>1, <3>1, <3>3 DEF IInv, SessionInv, Calling
    <3> QED
      BY <3>1, <3>2, <3>3, <3>4, RequestType
  <2>2. ASSUME NEW s \in C PROVE pc[WaitsFor(s)] = "all"
    <3>1. \E r \in Streams \cup {All} : lock[r] = WaitsFor(s)
      BY <2>1, Waiting
    <3>2. FirstCall(WaitsFor(s)) /\ calls[WaitsFor(s)] = <<>>
      BY <1>1, <2>1 DEF IInv, SessionInv
    <3>3. pc[WaitsFor(s)] \notin {"idle", "resolve", "create"}
      BY <3>1, <3>2 DEF FirstCall
    <3> QED
      BY <2>1, <3>3
  <2>3. PICK s \in C : TRUE
    OBVIOUS
  <2>4. PICK t : t = WaitsFor(s)
    OBVIOUS
  <2>5. t \in C /\ pc[t] = "all"
    BY <2>1, <2>2, <2>3, <2>4
  <2>6. PICK u : u = WaitsFor(t)
    OBVIOUS
  <2>7. u \in C /\ pc[u] = "all" /\ u = lock[All]
    BY <2>1, <2>2, <2>5, <2>6, Waiting
  <2>8. FirstCall(u) /\ calls[u] = <<>>
    BY <1>1, <2>1, <2>7 DEF IInv, SessionInv
  <2> QED
    BY <2>7, <2>8 DEF FirstCall
<1> QED
  BY <1>1, Inductive, PTL

-----------------------------------------------------------------------------
(***************************************************************************)
(* The refinement of AppendLog.  The calls of a transaction that returned  *)
(* are a run over the committed events: as long as the transaction has     *)
(* events to commit it holds the lock of '$all', and what it runs over     *)
(* stays as it is.                                                         *)
(***************************************************************************)
\* g is what the calls cs make of the log L, one after the other.
IsRun(g, L, cs) ==
  g = [i \in 0..Len(cs) |-> IF i = 0 THEN L ELSE AL!Extended(g[i - 1], cs[i])]

Ran(s) ==
  /\ \E g : IsRun(g, links, calls[s])
  /\ \A g : IsRun(g, links, calls[s]) =>
       /\ \A i \in 1..Len(calls[s]) :
            AL!Expected(g[i - 1], calls[s][i]) /\ AL!Fresh(g[i - 1], calls[s][i])
       /\ g[Len(calls[s])] = links \cup mine[s]

AtomicInv == IInv /\ \A s \in Sessions : Ran(s)

\* What is numbered from 1 to n has n elements.
LEMMA Counted ==
  ASSUME NEW L, L \subseteq Link, NEW n \in Nat
  PROVE  /\ Numbered(L, 0, n) => Cardinality(L) = n
         /\ Versioned(L, 0, n) => Cardinality(L) = n
<1>1. ASSUME Numbered(L, 0, n) PROVE Cardinality(L) = n
  <2> DEFINE f == [l \in L |-> l.number]
  <2>1. f \in [L -> 1..n]
    BY <1>1 DEF Numbered, Link
  <2>2. \A k, l \in L : f[k] = f[l] => k = l
    BY <1>1 DEF Numbered
  <2>3. \A i \in 1..n : \E l \in L : f[l] = i
    BY <1>1 DEF Numbered
  <2>4. f \in Bijection(L, 1..n)
    BY <2>1, <2>2, <2>3, Fun_IsBij
  <2>5. ExistsBijection(1..n, L)
    BY <2>4, Fun_ExistsBijSymmetric DEF ExistsBijection
  <2> QED
    BY <2>5, FS_CountingElements
<1>2. ASSUME Versioned(L, 0, n) PROVE Cardinality(L) = n
  <2> DEFINE f == [l \in L |-> l.version]
  <2>1. f \in [L -> 1..n]
    BY <1>2 DEF Versioned, Link
  <2>2. \A k, l \in L : f[k] = f[l] => k = l
    BY <1>2 DEF Versioned
  <2>3. \A i \in 1..n : \E l \in L : f[l] = i
    BY <1>2 DEF Versioned
  <2>4. f \in Bijection(L, 1..n)
    BY <2>1, <2>2, <2>3, Fun_IsBij
  <2>5. ExistsBijection(1..n, L)
    BY <2>4, Fun_ExistsBijSymmetric DEF ExistsBijection
  <2> QED
    BY <2>5, FS_CountingElements
<1> QED
  BY <1>1, <1>2

\* A run over more calls is a run over fewer, and one call more.
LEMMA RunPrefix ==
  ASSUME NEW L, NEW cs \in Seq(Requests), NEW q \in Requests, NEW g,
         IsRun(g, L, Append(cs, q))
  PROVE  /\ IsRun([i \in 0..Len(cs) |-> g[i]], L, cs)
         /\ g[Len(cs) + 1] = AL!Extended(g[Len(cs)], q)
<1> DEFINE h == [i \in 0..Len(cs) |-> g[i]]
<1>1. /\ Len(cs) \in Nat /\ Len(Append(cs, q)) = Len(cs) + 1
      /\ \A i \in 1..Len(cs) : Append(cs, q)[i] = cs[i]
      /\ Append(cs, q)[Len(cs) + 1] = q
  OBVIOUS
<1>2. \A i \in 0..Len(cs) + 1 :
        g[i] = IF i = 0 THEN L ELSE AL!Extended(g[i - 1], Append(cs, q)[i])
  BY <1>1 DEF IsRun
<1>3. ASSUME NEW i \in 0..Len(cs)
      PROVE  h[i] = IF i = 0 THEN L ELSE AL!Extended(h[i - 1], cs[i])
  <2>1. CASE i = 0
    BY <1>1, <1>2, <2>1
  <2>2. CASE i # 0
    <3>1. i \in 0..Len(cs) + 1 /\ i \in 1..Len(cs) /\ i - 1 \in 0..Len(cs)
      BY <1>1, <2>2
    <3>2. g[i] = AL!Extended(g[i - 1], cs[i])
      BY <1>1, <1>2, <2>2, <3>1
    <3>3. h[i] = g[i] /\ h[i - 1] = g[i - 1]
      BY <3>1
    <3> QED
      BY <2>2, <3>2, <3>3
  <2> QED
    BY <2>1, <2>2
<1>4. h = [i \in 0..Len(cs) |-> IF i = 0 THEN L ELSE AL!Extended(h[i - 1], cs[i])]
  BY <1>3
<1>5. g[Len(cs) + 1] = AL!Extended(g[Len(cs)], q)
  <2>1. Len(cs) + 1 \in 0..Len(cs) + 1 /\ Len(cs) + 1 # 0 /\ (Len(cs) + 1) - 1 = Len(cs)
    BY <1>1
  <2> QED
    BY <1>1, <1>2, <2>1
<1> QED
  BY <1>4, <1>5 DEF IsRun

\* A run can be continued with one call more.
LEMMA RunExtends ==
  ASSUME NEW L, NEW cs \in Seq(Requests), NEW q \in Requests,
         \E g : IsRun(g, L, cs)
  PROVE  \E g : IsRun(g, L, Append(cs, q))
<1>1. PICK h : IsRun(h, L, cs)
  OBVIOUS
<1> DEFINE n == Len(cs)
           g == [i \in 0..n + 1 |-> IF i <= n THEN h[i] ELSE AL!Extended(h[n], q)]
<1>2. /\ n \in Nat /\ Len(Append(cs, q)) = n + 1
      /\ \A i \in 1..n : Append(cs, q)[i] = cs[i]
      /\ Append(cs, q)[n + 1] = q
  OBVIOUS
<1>3. \A i \in 0..n : h[i] = IF i = 0 THEN L ELSE AL!Extended(h[i - 1], cs[i])
  BY <1>1, <1>2 DEF IsRun
<1> HIDE DEF n
<1>4. ASSUME NEW i \in 0..n + 1
      PROVE  g[i] = IF i = 0 THEN L ELSE AL!Extended(g[i - 1], Append(cs, q)[i])
  <2>1. CASE i = 0
    BY <1>2, <1>3, <2>1
  <2>2. CASE i \in 1..n
    <3>1. g[i] = h[i] /\ g[i - 1] = h[i - 1] /\ i # 0
      BY <1>2, <2>2
    <3>2. h[i] = AL!Extended(h[i - 1], cs[i])
      BY <1>2, <1>3, <2>2
    <3> QED
      BY <1>2, <2>2, <3>1, <3>2
  <2>3. CASE i = n + 1
    <3>1. g[i] = AL!Extended(h[n], q) /\ g[i - 1] = h[n] /\ i # 0
      BY <1>2, <2>3
    <3> QED
      BY <1>2, <2>3, <3>1
  <2> QED
    BY <1>2, <2>1, <2>2, <2>3
<1>5. g = [i \in 0..n + 1 |-> IF i = 0 THEN L ELSE AL!Extended(g[i - 1], Append(cs, q)[i])]
  BY <1>4
<1> QED
  BY <1>2, <1>5 DEF IsRun

\* No call, no change.
LEMMA RunOfNothing ==
  ASSUME NEW L
  PROVE  /\ \E g : IsRun(g, L, <<>>)
         /\ \A g : IsRun(g, L, <<>>) => g[0] = L
<1>1. Len(<<>>) = 0 /\ 0..0 = {0}
  OBVIOUS
<1>2. IsRun([i \in 0..0 |-> L], L, <<>>)
  BY <1>1 DEF IsRun
<1>3. ASSUME NEW g, IsRun(g, L, <<>>) PROVE g[0] = L
  BY <1>1, <1>3 DEF IsRun
<1> QED
  BY <1>2, <1>3

\* A transaction in its first call has run over nothing.
LEMMA NothingRan ==
  ASSUME NEW s \in Sessions, calls[s] = <<>>, mine[s] = {}
  PROVE  Ran(s)
<1>1. Len(<<>>) = 0 /\ 1..0 = {}
  OBVIOUS
<1>2. /\ \E g : IsRun(g, links, <<>>)
      /\ \A g : IsRun(g, links, <<>>) => g[0] = links
  BY RunOfNothing
<1> QED
  BY <1>1, <1>2 DEF Ran

\* The instance has the operator of FiniteSets under a name of its own.
LEMMA SameCardinality ==
  ASSUME NEW S PROVE AL!Cardinality(S) = Cardinality(S)
BY DEF AL!Cardinality, Cardinality

\* A call that inserts its rows is the abstract call on what the transaction
\* has made of the log.
LEMMA EntersExtends ==
  ASSUME IInv, NEW s \in Sessions, Enters(s)
  PROVE  LET L == links \cup mine[s]
         IN /\ AL!Expected(L, call[s]) /\ AL!Fresh(L, call[s])
            /\ AL!Extended(L, call[s]) = links \cup mine'[s]
<1> DEFINE L == links \cup mine[s]
           q == call[s]
           v == Reads(s, q.stream) - Count(s)
           n == allVersion + allBump[s] - Count(s)
<1>1. /\ pc[s] = "insert" /\ Acceptable(s)
      /\ mine'[s] = mine[s] \cup NewLinks(s)
  BY DEF Enters, IInv, TypeOK
<1>2. /\ q \in Requests /\ v \in Nat /\ n \in Nat
      /\ version[q.stream] <= v /\ allVersion <= n
      /\ NewLinks(s) = Rows(q, v, n) /\ Rows(q, v, n) # {}
      /\ Met(q, v) /\ q.stream \in Streams /\ DOMAIN q.ids = 1..Len(q.ids)
      /\ q.expects \in Expectations
      /\ \A i \in DOMAIN q.ids : \E k \in NewLinks(s) : k.id = q.ids[i]
  <2>1. /\ q \in Requests /\ v \in Nat /\ n \in Nat
        /\ version[q.stream] <= v /\ allVersion <= n
        /\ NewLinks(s) = Rows(q, v, n) /\ Met(q, v)
    BY <1>1, NewLinksAre
  <2>2. \A i \in DOMAIN q.ids : \E k \in Rows(q, v, n) : k.id = q.ids[i]
    <3> HIDE DEF q, v, n
    <3>1. ASSUME NEW i \in DOMAIN q.ids PROVE \E k \in Rows(q, v, n) : k.id = q.ids[i]
      <4> DEFINE row == [id |-> q.ids[i], stream |-> q.stream,
                         version |-> v + i, number |-> n + i]
      <4>1. row \in Rows(q, v, n)
        BY DEF Rows
      <4>2. row.id = q.ids[i]
        OBVIOUS
      <4> QED
        BY <4>1, <4>2
    <3> QED
      BY <3>1
  <2> QED
    BY <2>1, <2>2, RowsFill, RequestType
<1>3. /\ PendingAll(s) = Count(s) /\ Pending(s, q.stream) = Count(s)
  BY <1>1 DEF PendingAll, Pending
<1>4. /\ Numbered(mine[s], allVersion, n)
      /\ Versioned(OfStream(mine[s], q.stream), version[q.stream], v)
  BY <1>2, <1>3 DEF IInv, SessionInv, MineInv
<1>5. /\ L \subseteq Link /\ links \subseteq Link /\ mine[s] \subseteq Link
      /\ allVersion \in Nat /\ version[q.stream] \in Nat
      /\ Numbered(links, 0, allVersion)
      /\ Versioned(OfStream(links, q.stream), 0, version[q.stream])
  BY <1>2 DEF IInv, TypeOK, LogInv
<1> HIDE DEF v, n, q
<1>6. Cardinality(L) = n
  <2>1. Numbered(L, 0, n)
    BY <1>2, <1>4, <1>5, NumberedUnion
  <2> QED
    BY <1>2, <1>5, <2>1, Counted
<1>7. AL!StreamVersion(L, q.stream) = v
  <2>1. /\ OfStream(L, q.stream) = OfStream(links, q.stream) \cup OfStream(mine[s], q.stream)
        /\ OfStream(links, q.stream) \subseteq Link /\ OfStream(mine[s], q.stream) \subseteq Link
        /\ OfStream(L, q.stream) \subseteq Link
    BY <1>5 DEF OfStream
  <2>2. Versioned(OfStream(L, q.stream), 0, v)
    <3>1. /\ 0 <= version[q.stream] /\ version[q.stream] <= v /\ 0 \in Nat
          /\ version[q.stream] \in Nat /\ v \in Nat
      BY <1>2, <1>5
    <3>2. Versioned(OfStream(links, q.stream) \cup OfStream(mine[s], q.stream), 0, v)
      BY <1>4, <1>5, <2>1, <3>1, VersionedUnion
    <3> QED
      BY <2>1, <3>2
  <2>3. Cardinality(OfStream(L, q.stream)) = v
    BY <1>2, <2>1, <2>2, Counted
  <2> QED
    <3>1. OfStream(L, q.stream) = {l \in L : l.stream = q.stream}
      BY DEF OfStream
    <3>2. Cardinality({l \in L : l.stream = q.stream}) = v
      BY <2>3, <3>1
    <3> HIDE DEF L
    <3>3. AL!Cardinality({l \in L : l.stream = q.stream}) = v
      BY <3>2, SameCardinality
    <3> QED
      BY <3>3 DEF AL!StreamVersion
<1>8. AL!Expected(L, q)
  <2>1. q.expects = "any" \/ q.expects = "no_stream" \/ q.expects = "stream_exists"
          \/ q.expects = "exact"
    BY <1>2 DEF Expectations
  <2> QED
    BY <1>2, <1>7, <2>1 DEF AL!Expected, Met
<1>9. AL!Fresh(L, q)
  <2>1. /\ \A i, j \in DOMAIN q.ids : q.ids[i] = q.ids[j] => i = j
        /\ \A l \in L, k \in NewLinks(s) : l.id # k.id
    BY <1>1 DEF Acceptable, q
  <2> QED
    BY <1>2, <2>1 DEF AL!Fresh
<1>10. AL!Extended(L, q) = L \cup Rows(q, v, n)
  <2> HIDE DEF L
  <2>1. AL!Extended(L, q) = L \cup Rows(q, AL!StreamVersion(L, q.stream), AL!Cardinality(L))
    BY DEF AL!Extended, Rows
  <2>2. AL!Cardinality(L) = n
    BY <1>6, SameCardinality
  <2> QED
    BY <1>7, <2>1, <2>2
<1> QED
  BY <1>1, <1>2, <1>8, <1>9, <1>10 DEF q

\* Ran is kept by every step.
LEMMA RanStep ==
  ASSUME IInv, \A s \in Sessions : Ran(s), [Next]_vars
  PROVE  \A s \in Sessions : Ran(s)'
<1>1. ASSUME UNCHANGED <<links, calls, mine>> PROVE \A s \in Sessions : Ran(s)'
  BY <1>1 DEF Ran, IsRun
<1>2. ASSUME NEW s \in Sessions, Ends(s) /\ UNCHANGED links PROVE \A c \in Sessions : Ran(c)'
  <2>1. /\ calls' = [calls EXCEPT ![s] = <<>>] /\ mine' = [mine EXCEPT ![s] = {}]
    BY <1>2 DEF Ends
  <2>2. ASSUME NEW c \in Sessions, c # s PROVE Ran(c)'
    <3>1. calls'[c] = calls[c] /\ mine'[c] = mine[c] /\ links' = links
      BY <1>2, <2>1, <2>2 DEF IInv, TypeOK
    <3> QED
      BY <3>1 DEF Ran, IsRun
  <2>3. calls'[s] = <<>> /\ mine'[s] = {}
    BY <2>1 DEF IInv, TypeOK
  <2>4. Ran(s)'
    <3>1. Len(<<>>) = 0 /\ 1..0 = {}
      OBVIOUS
    <3>2. /\ \E g : IsRun(g, links', <<>>)
          /\ \A g : IsRun(g, links', <<>>) => g[0] = links'
      BY RunOfNothing
    <3> QED
      BY <2>3, <3>1, <3>2 DEF Ran, IsRun
  <2> QED
    BY <2>2, <2>4
<1>3. ASSUME NEW s \in Sessions, Commits(s) PROVE \A c \in Sessions : Ran(c)'
  <2>1. /\ Ends(s) /\ links' = links \cup mine[s]
        /\ calls' = [calls EXCEPT ![s] = <<>>] /\ mine' = [mine EXCEPT ![s] = {}]
    BY <1>3 DEF Commits, Ends
  <2>2. CASE mine[s] = {}
    <3>1. links' = links
      BY <2>1, <2>2
    <3> QED
      BY <1>2, <2>1, <3>1
  <2>3. CASE mine[s] # {}
    <3>1. ASSUME NEW c \in Sessions PROVE calls'[c] = <<>> /\ mine'[c] = {}
      <4>1. CASE c = s
        BY <2>1, <4>1 DEF IInv, TypeOK
      <4>2. CASE c # s
        <5>1. mine[c] = {}
          BY <2>3, <4>2, MineHeld
        <5>2. calls[c] = <<>>
          BY <5>1 DEF IInv, SessionInv, Calling
        <5> QED
          BY <2>1, <4>2, <5>1, <5>2 DEF IInv, TypeOK
      <4> QED
        BY <4>1, <4>2
    <3>2. Len(<<>>) = 0 /\ 1..0 = {}
      OBVIOUS
    <3>3. /\ \E g : IsRun(g, links', <<>>)
          /\ \A g : IsRun(g, links', <<>>) => g[0] = links'
      BY RunOfNothing
    <3> QED
      <4>1. ASSUME NEW c \in Sessions PROVE Ran(c)'
        <5>1. calls'[c] = <<>> /\ mine'[c] = {}
          BY <3>1
        <5> QED
          BY <3>2, <3>3, <5>1 DEF Ran, IsRun
      <4> QED
        BY <4>1
  <2> QED
    BY <2>2, <2>3
<1>4. ASSUME NEW s \in Sessions, Enters(s) PROVE \A c \in Sessions : Ran(c)'
  <2>1. /\ calls' = [calls EXCEPT ![s] = Append(calls[s], call[s])]
        /\ mine' = [mine EXCEPT ![s] = mine[s] \cup NewLinks(s)]
        /\ links' = links /\ pc[s] = "insert"
    BY <1>4 DEF Enters, tables
  <2>2. ASSUME NEW c \in Sessions, c # s PROVE Ran(c)'
    <3>1. calls'[c] = calls[c] /\ mine'[c] = mine[c] /\ links' = links
      BY <2>1, <2>2 DEF IInv, TypeOK
    <3> QED
      BY <3>1 DEF Ran, IsRun
  <2> DEFINE cs == calls[s]
             q == call[s]
             L == links \cup mine[s]
             N == Len(cs)
  <2>3. /\ cs \in Seq(Requests) /\ q \in Requests /\ calls'[s] = Append(cs, q)
    BY <2>1 DEF IInv, TypeOK, SessionInv, Calling
  <2>4. /\ AL!Expected(L, q) /\ AL!Fresh(L, q)
        /\ AL!Extended(L, q) = links \cup mine'[s]
    BY <1>4, EntersExtends
  <2>5. /\ \E g : IsRun(g, links, cs)
        /\ \A g : IsRun(g, links, cs) =>
             /\ \A i \in 1..N : AL!Expected(g[i - 1], cs[i]) /\ AL!Fresh(g[i - 1], cs[i])
             /\ g[N] = L
    BY DEF Ran
  <2>6. /\ N \in Nat /\ Len(Append(cs, q)) = N + 1
        /\ \A i \in 1..N : Append(cs, q)[i] = cs[i]
        /\ Append(cs, q)[N + 1] = q
    BY <2>3
  <2> HIDE DEF cs, q, L, N
  <2>7. \E g : IsRun(g, links, Append(cs, q))
    BY <2>3, <2>5, RunExtends
  <2>8. ASSUME NEW g, IsRun(g, links, Append(cs, q))
        PROVE  /\ \A i \in 1..N + 1 : /\ AL!Expected(g[i - 1], Append(cs, q)[i])
                                      /\ AL!Fresh(g[i - 1], Append(cs, q)[i])
               /\ g[N + 1] = links \cup mine'[s]
    <3> DEFINE h == [i \in 0..N |-> g[i]]
    <3>1. IsRun(h, links, cs) /\ g[N + 1] = AL!Extended(g[N], q)
      BY <2>3, <2>8, RunPrefix DEF N
    <3>2. /\ \A i \in 1..N : AL!Expected(h[i - 1], cs[i]) /\ AL!Fresh(h[i - 1], cs[i])
          /\ h[N] = L
      BY <2>5, <3>1
    <3>3. \A i \in 0..N : h[i] = g[i]
      OBVIOUS
    <3> HIDE DEF h
    <3>4. g[N] = L
      BY <2>6, <3>2, <3>3
    <3>5. ASSUME NEW i \in 1..N + 1
          PROVE  /\ AL!Expected(g[i - 1], Append(cs, q)[i])
                 /\ AL!Fresh(g[i - 1], Append(cs, q)[i])
      <4>1. CASE i = N + 1
        <5>1. g[i - 1] = L /\ Append(cs, q)[i] = q
          BY <2>6, <3>4, <4>1
        <5> QED
          BY <2>4, <5>1 DEF L, q
      <4>2. CASE i \in 1..N
        <5>1. i - 1 \in 0..N
          BY <2>6, <4>2
        <5>2. g[i - 1] = h[i - 1] /\ Append(cs, q)[i] = cs[i]
          BY <2>6, <3>3, <4>2, <5>1
        <5> QED
          BY <3>2, <4>2, <5>2
      <4> QED
        BY <2>6, <4>1, <4>2
    <3>6. g[N + 1] = links \cup mine'[s]
      BY <2>4, <3>1, <3>4 DEF L, q
    <3> QED
      BY <3>5, <3>6
  <2>9. Ran(s)'
    <3>1. calls'[s] = Append(cs, q) /\ links' = links /\ Len(calls'[s]) = N + 1
      BY <2>1, <2>3, <2>6
    <3>2. \E g : IsRun(g, links', calls'[s])
      BY <2>7, <3>1
    <3>3. ASSUME NEW g, IsRun(g, links', calls'[s])
          PROVE  /\ \A i \in 1..Len(calls'[s]) :
                      AL!Expected(g[i - 1], calls'[s][i]) /\ AL!Fresh(g[i - 1], calls'[s][i])
                 /\ g[Len(calls'[s])] = links' \cup mine'[s]
      BY <2>8, <3>1, <3>3
    <3> QED
      BY <3>2, <3>3 DEF Ran, IsRun
  <2> QED
    BY <2>2, <2>9
<1>5. ASSUME NEW s \in Sessions,
             \/ \E q \in Requests : Calls(s, q)
             \/ Turns(s) \/ Resolved(s) \/ LocksAll(s)
      PROVE  UNCHANGED <<links, calls, mine>>
  BY <1>5 DEF Calls, Turns, Resolved, Bumps, LocksAll, tables
<1>6. ASSUME ReadsPage \/ UNCHANGED vars PROVE UNCHANGED <<links, calls, mine>>
  BY <1>6 DEF ReadsPage, vars, tables, session
<1>7. ASSUME NEW s \in Sessions, Fails(s) PROVE Ends(s) /\ UNCHANGED links
  BY <1>7 DEF Fails, tables
<1> QED
  BY StepKinds, <1>1, <1>2, <1>3, <1>4, <1>5, <1>6, <1>7

\* A commit is a transaction of the abstract log.
LEMMA CommitsOnce ==
  ASSUME IInv, NEW s \in Sessions, Ran(s), Commits(s)
  PROVE  \E cs \in AL!Transactions : AL!Commit(cs)
<1>1. pc[s] = "open" /\ links' = links \cup mine[s]
  BY DEF Commits
<1> DEFINE cs == calls[s]
<1>2. cs \in Seq(Requests) /\ cs # <<>> /\ Len(cs) <= MaxCalls /\ MaxCalls \in Nat
  BY <1>1, LogAssumption DEF IInv, TypeOK, SessionInv, Calling, LogAssumption
<1>3. cs \in AL!Transactions
  <2>1. Len(cs) \in 1..MaxCalls /\ cs \in [1..Len(cs) -> Requests]
    BY <1>2
  <2> QED
    BY <2>1 DEF AL!Transactions
<1>4. /\ \E g : IsRun(g, links, cs)
      /\ \A g : IsRun(g, links, cs) =>
           /\ \A i \in 1..Len(cs) : AL!Expected(g[i - 1], cs[i]) /\ AL!Fresh(g[i - 1], cs[i])
           /\ g[Len(cs)] = links \cup mine[s]
  BY DEF Ran
<1> HIDE DEF cs
<1> DEFINE after == CHOOSE g : g = [i \in 0..Len(cs) |->
                                      IF i = 0 THEN links ELSE AL!Extended(g[i - 1], cs[i])]
<1>5. IsRun(after, links, cs)
  BY <1>4 DEF IsRun
<1>6. /\ \A i \in 1..Len(cs) : AL!Expected(after[i - 1], cs[i]) /\ AL!Fresh(after[i - 1], cs[i])
      /\ after[Len(cs)] = links'
  BY <1>1, <1>4, <1>5
<1>7. AL!Commit(cs)
  BY <1>6, Zenon DEF AL!Commit
<1> QED
  BY <1>3, <1>7

\* Every transaction of append_to_stream calls takes effect in one step, at its
\* commit, and what its calls expect is true of the log it extends.
THEOREM AppendsAreAtomic == Spec => AppendsAtomically
<1>1. Init => AtomicInv /\ links = {}
  <2> SUFFICES ASSUME Init PROVE AtomicInv /\ links = {}
    OBVIOUS
  <2>1. \A s \in Sessions : calls[s] = <<>> /\ mine[s] = {}
    BY DEF Init
  <2>2. \A s \in Sessions : Ran(s)
    BY <2>1, NothingRan
  <2> QED
    BY <2>2, InitIInv DEF AtomicInv, Init
<1>2. AtomicInv /\ [Next]_vars => AtomicInv'
  BY IInvStep, RanStep DEF AtomicInv
<1>3. ASSUME AtomicInv, [Next]_vars
      PROVE  (\E cs \in AL!Transactions : AL!Commit(cs)) \/ UNCHANGED links
  <2>1. ASSUME NEW s \in Sessions, Commits(s)
        PROVE  \E cs \in AL!Transactions : AL!Commit(cs)
    BY <1>3, <2>1, CommitsOnce DEF AtomicInv
  <2>2. ASSUME NEW s \in Sessions,
               \/ \E q \in Requests : Calls(s, q)
               \/ Turns(s) \/ Resolved(s) \/ LocksAll(s) \/ Enters(s) \/ Fails(s)
        PROVE  UNCHANGED links
    BY <2>2 DEF Calls, Turns, Resolved, Bumps, LocksAll, Enters, Fails, tables
  <2>3. ASSUME ReadsPage \/ UNCHANGED vars PROVE UNCHANGED links
    BY <2>3 DEF ReadsPage, vars, tables
  <2> QED
    BY <1>3, <2>1, <2>2, <2>3, StepKinds DEF AtomicInv
<1>4. AtomicInv /\ [Next]_vars => [AL!LogNext]_links
  BY <1>3 DEF AL!LogNext
<1> QED
  BY <1>1, <1>2, <1>4, PTL DEF Spec, AppendsAtomically, AL!LogSpec
=============================================================================

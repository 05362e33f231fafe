----------------------------- MODULE Aggregate ------------------------------
(***************************************************************************)
(* Commands on one aggregate: runCommandWithSnapshots (snapshots.ts) over  *)
(* executeCommand and loadAggregate (run-command.ts), called by concurrent *)
(* dispatchers.  Every call of the client is a step of its own, so that    *)
(* others run between them.                                                *)
(*                                                                         *)
(* apply is the user's; a state is what it was folded from: the events, in *)
(* order, and the shape that the dispatcher's snapshotModuleVersion names. *)
(* Dispatchers of several module versions run side by side while a new     *)
(* version is rolled out.                                                  *)
(***************************************************************************)
EXTENDS AtomicCommands, FiniteSets

CONSTANTS
  ModuleOf,        \* snapshotModuleVersion of a dispatcher's definition
  NoSnapshot,      \* IS010
  Explicit,        \* values of opts.expectedVersion
  Default,         \* opts.expectedVersion is not given
  RetryBudget,     \* opts.retryBudget
  PageSize,        \* LOAD_PAGE_SIZE
  SnapshotEvery,   \* n of everyN(n)
  MaxCommands      \* bound on the commands that are started

Modules == {ModuleOf[d] : d \in Dispatchers}

ExpectedVersion ==
  [kind : {"any", "noStream", "streamExists"}] \cup [kind : {"exact"}, version : Nat]

ASSUME AggregateAssumption ==
  /\ Dispatchers = DOMAIN ModuleOf
  /\ Sizes \subseteq Nat \ {0}
  /\ Explicit \subseteq ExpectedVersion /\ Default \notin ExpectedVersion
  /\ NoSnapshot \notin [version : Nat, shape : Modules, events : Seq(
       [by : Dispatchers, seen : Nat, k : Nat])]
  /\ {RetryBudget, MaxCommands} \subseteq Nat
  /\ {PageSize, SnapshotEvery} \subseteq Nat \ {0}

VARIABLES
  snapshot,   \* the row of instructed.snapshots with the stream's uuid
  pc,         \* the call a dispatcher makes next
  expects,    \* its opts.expectedVersion
  attempt,    \* attempts of its command so far
  loaded,     \* its LoadedAggregate: [shape, events, version, since]
  outcome,    \* how its last command ended
  issued,     \* commands started
  began       \* history: the length of the stream when its command started

local == <<pc, expects, attempt, loaded, outcome, began>>
vars  == <<stream, snapshot, local, issued>>

Initial(d) == [shape |-> ModuleOf[d], events |-> <<>>, version |-> 0, since |-> 0]

Init ==
  /\ stream = <<>>
  /\ snapshot = NoSnapshot
  /\ pc = [d \in Dispatchers |-> "idle"]
  /\ expects = [d \in Dispatchers |-> Default]
  /\ attempt = [d \in Dispatchers |-> 0]
  /\ loaded = [d \in Dispatchers |-> Initial(d)]
  /\ outcome = [d \in Dispatchers |-> "none"]
  /\ issued = 0
  /\ began = [d \in Dispatchers |-> 0]

Goto(d, step) == pc' = [pc EXCEPT ![d] = step]

\* The promise settles; the variables of the call are gone.
Return(d, how) ==
  /\ Goto(d, "idle")
  /\ outcome' = [outcome EXCEPT ![d] = how]
  /\ expects' = [expects EXCEPT ![d] = Default]
  /\ attempt' = [attempt EXCEPT ![d] = 0]
  /\ loaded' = [loaded EXCEPT ![d] = Initial(d)]
  /\ began' = IF how = "exhausted" THEN began ELSE [began EXCEPT ![d] = 0]

(***************************************************************************)
(* The call of runCommandWithSnapshots and the first attempt.              *)
(***************************************************************************)
Start(d) ==
  /\ pc[d] = "idle" /\ issued < MaxCommands
  /\ Goto(d, "snapshot")
  /\ \E e \in Explicit \cup {Default} : expects' = [expects EXCEPT ![d] = e]
  /\ attempt' = [attempt EXCEPT ![d] = 1]
  /\ issued' = issued + 1
  /\ began' = [began EXCEPT ![d] = Len(stream)]
  /\ outcome' = [outcome EXCEPT ![d] = "none"]
  /\ UNCHANGED <<stream, snapshot, loaded>>

(***************************************************************************)
(* loadAggregate: the snapshot, if its module version is the definition's, *)
(* and then the events after it, page by page.                             *)
(***************************************************************************)
\* Mutant: the module version of a snapshot is not compared.
MatchesAny(d) == snapshot # NoSnapshot

Matches(d) == snapshot # NoSnapshot /\ snapshot.shape = ModuleOf[d]

ReadSnapshot(d) ==
  /\ pc[d] = "snapshot"
  /\ Goto(d, "page")
  /\ loaded' = [loaded EXCEPT ![d] =
       IF Matches(d)
         THEN [shape |-> snapshot.shape, events |-> snapshot.events,
               version |-> snapshot.version, since |-> 0]
         ELSE Initial(d)]
  /\ UNCHANGED <<stream, snapshot, expects, attempt, outcome, issued, began>>

\* The last version of the page of read_stream that starts after "version".
PageLast(version) ==
  IF version + PageSize <= Len(stream) THEN version + PageSize ELSE Len(stream)

\* Mutant: an empty page is followed by another.
MoreAfterEmpty(n) == n \in {0, PageSize}

\* Mutant: only one page is read.
OnePage(n) == FALSE

\* A full page may not be the last one.
MorePages(n) == n = PageSize

\* An empty stream, which raises IS003, reads as an empty page.
ReadPage(d) ==
  LET from == loaded[d].version
      last == PageLast(from)
  IN /\ pc[d] = "page"
     /\ loaded' = [loaded EXCEPT ![d] =
          [shape |-> @.shape, events |-> @.events \o SubSeq(stream, from + 1, last),
           version |-> last, since |-> @.since + (last - from)]]
     /\ Goto(d, IF MorePages(last - from) THEN "page" ELSE "append")
     /\ UNCHANGED <<stream, snapshot, expects, attempt, outcome, issued, began>>

(***************************************************************************)
(* execute, which is pure, and append_to_stream with its expectation.      *)
(***************************************************************************)
\* opts.expectedVersion, or else the version that was loaded.
Assertion(d) ==
  IF expects[d] = Default THEN [kind |-> "exact", version |-> loaded[d].version]
  ELSE expects[d]

\* exact(0) is met by a stream that does not exist.
Meets(assertion) ==
  /\ assertion.kind = "noStream"     => stream = <<>>
  /\ assertion.kind = "streamExists" => stream # <<>>
  /\ assertion.kind = "exact"        => Len(stream) = assertion.version

\* Mutant: the loaded version is a lower bound.
ExpectedAtLeast(d) ==
  IF expects[d] = Default THEN Len(stream) >= loaded[d].version
  ELSE Meets(expects[d])

Expected(d) == Meets(Assertion(d))

\* The command throws, or appends nothing: nothing is written.
Decline(d) ==
  /\ pc[d] = "append"
  /\ \E how \in {"threw", "returned"} : Return(d, how)
  /\ UNCHANGED <<stream, snapshot, issued>>

\* The state runCommandAndApply stages: the filled events are folded over the
\* loaded state; the version is the one append_to_stream returns.
Staged(d, n) ==
  LET l == loaded[d]
  IN [shape |-> l.shape, events |-> l.events \o Batch(d, l.version, n),
      version |-> Len(stream) + n, since |-> l.since + n]

ShouldSnapshot(staged) == staged.since >= SnapshotEvery

\* The stream after append_to_stream.
Appended(d, n) == stream \o Batch(d, loaded[d].version, n)

Commit(d) ==
  /\ pc[d] = "append" /\ Expected(d)
  /\ \E n \in Sizes :
       /\ stream' = Appended(d, n)
       /\ IF ShouldSnapshot(Staged(d, n))
            THEN /\ Goto(d, "record")
                 /\ loaded' = [loaded EXCEPT ![d] = Staged(d, n)]
                 /\ UNCHANGED <<expects, attempt, outcome, began>>
            ELSE Return(d, "returned")
  /\ UNCHANGED <<snapshot, issued>>

\* The append is committed, and its answer is lost.
LoseAnswer(d) ==
  /\ pc[d] = "append" /\ Expected(d)
  /\ \E n \in Sizes : stream' = Appended(d, n)
  /\ Return(d, "threw")
  /\ UNCHANGED <<snapshot, issued>>

\* The class of an SQLSTATE; what is not listed is passed on as it is.
ErrorClass ==
  [IS001 |-> "WrongExpectedVersion",       IS002 |-> "StreamExists",
   IS003 |-> "StreamNotFound",             IS004 |-> "DuplicateEvent",
   IS005 |-> "ReservedStreamUuid",         IS006 |-> "AppendOnlyViolation",
   IS010 |-> "SnapshotNotFound",           IS020 |-> "SubscriptionNotFound",
   IS021 |-> "SubscriptionAlreadyClaimed", IS022 |-> "SubscriptionLeaseLost",
   IS030 |-> "WorkItemLeaseLost"]

mapPgError(code) ==
  CASE code = "22023"           -> "InvalidParameterValue"
    [] code \in DOMAIN ErrorClass -> ErrorClass[code]
    [] OTHER                     -> code

\* What append_to_stream raises when the expectation does not hold.
Raised(d) ==
  CASE Assertion(d).kind = "noStream"     -> "IS002"
    [] Assertion(d).kind = "streamExists" -> "IS003"
    [] OTHER                              -> "IS001"

\* Mutant: a conflict is retried whoever made the assertion, and for ever.
RetriesAlways(d) == TRUE

\* Retried when the SDK made the assertion, within the budget.
Retries(d) ==
  /\ mapPgError(Raised(d)) = "WrongExpectedVersion"
  /\ expects[d] = Default
  /\ attempt[d] <= RetryBudget

Conflict(d) ==
  /\ pc[d] = "append" /\ ~Expected(d)
  /\ IF Retries(d)
       THEN /\ Goto(d, "snapshot")
            /\ attempt' = [attempt EXCEPT ![d] = @ + 1]
            /\ UNCHANGED <<expects, loaded, outcome, began>>
       ELSE Return(d, IF expects[d] = Default THEN "exhausted" ELSE "threw")
  /\ UNCHANGED <<stream, snapshot, issued>>

(***************************************************************************)
(* The snapshot of the staged state replaces whatever is there.  It may    *)
(* fail: the command has succeeded all the same.                           *)
(***************************************************************************)
Row(d) ==
  [version |-> loaded[d].version, shape |-> loaded[d].shape,
   events |-> loaded[d].events]

RecordSnapshot(d) ==
  /\ pc[d] = "record"
  /\ snapshot' \in {Row(d), snapshot}
  /\ Return(d, "returned")
  /\ UNCHANGED <<stream, issued>>

(***************************************************************************)
(* Around the dispatchers.                                                 *)
(***************************************************************************)
\* A call fails, or the process dies: nothing was written.
Fail(d) ==
  /\ pc[d] \in {"snapshot", "page", "append"}
  /\ Return(d, "threw")
  /\ UNCHANGED <<stream, snapshot, issued>>

\* Somebody calls delete_snapshot.
DeleteSnapshot ==
  /\ snapshot # NoSnapshot
  /\ snapshot' = NoSnapshot
  /\ UNCHANGED <<stream, local, issued>>

Works(d) == \/ ReadSnapshot(d) \/ ReadPage(d) \/ Decline(d) \/ Commit(d)
            \/ Conflict(d) \/ RecordSnapshot(d)

Next ==
  \/ \E d \in Dispatchers : Start(d) \/ Works(d) \/ LoseAnswer(d) \/ Fail(d)
  \/ DeleteSnapshot

Spec == Init /\ [][Next]_vars

\* A promise of the client settles: what a dispatcher has begun goes on.
FairSpec == Spec /\ \A d \in Dispatchers : WF_vars(Works(d))
(***************************************************************************)
(* Properties.                                                             *)
(***************************************************************************)
Events == [by : Dispatchers, seen : Nat, k : Nat]
States == [version : Nat, shape : Modules, events : Seq(Events)]

\* Types: what the variables hold.
TypeOK ==
  /\ stream \in Seq(Events)
  /\ snapshot \in States \cup {NoSnapshot}
  /\ pc \in [Dispatchers -> {"idle", "snapshot", "page", "append", "record"}]
  /\ expects \in [Dispatchers -> Explicit \cup {Default}]
  /\ attempt \in [Dispatchers -> 0..RetryBudget + 1]
  /\ loaded \in [Dispatchers -> [version : Nat, shape : Modules,
                                 events : Seq(Events), since : Nat]]
  /\ outcome \in [Dispatchers -> {"none", "returned", "threw", "exhausted"}]
  /\ issued \in 0..MaxCommands
  /\ began \in [Dispatchers -> Nat]

\* A state that was folded: every event up to its version, once and in order.
IsFold(st) ==
  /\ st.version <= Len(stream)
  /\ st.events = SubSeq(stream, 1, st.version)

\* The state a dispatcher works on (loadAggregate, and the one staged by
\* runCommandAndApply) is the fold of the stream by its own module version,
\* whichever snapshot it started from and whatever was appended between the
\* pages it read.
LoadedIsFold ==
  \A d \in Dispatchers : pc[d] \in {"page", "append", "record"} =>
    loaded[d].shape = ModuleOf[d] /\ IsFold(loaded[d])

\* The row of snapshots is the fold of the stream up to its version, although
\* it is written after the append, by any of the dispatchers and in any order,
\* so that it may be used or deleted at any time (snapshots.ts, "Events vs.
\* snapshots").
SnapshotIsFold == snapshot # NoSnapshot => IsFold(snapshot)

\* executeCommand retries for nothing but an event that someone else appended
\* during the attempt: RetryBudgetExhausted means that many lost races.
OnlyLosersRetry ==
  \A d \in Dispatchers :
    /\ pc[d] # "idle" => attempt[d] <= Len(stream) - began[d] + 1
    /\ outcome[d] = "exhausted" => RetryBudget + 1 <= Len(stream) - began[d]

\* Every command that appends is decided on the whole stream, in one step: no
\* lost update, although load, execute and append are calls of their own.
DecidesAtomically == AtomicSpec

\* runCommand returns, whatever the others do.
CommandsReturn ==
  \A d \in Dispatchers : pc[d] # "idle" ~> pc[d] = "idle"
=============================================================================

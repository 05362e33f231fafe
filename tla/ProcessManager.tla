--------------------------- MODULE ProcessManager ---------------------------
(***************************************************************************)
(* Process managers: the workers of one subscription on '$all' that run    *)
(* startPmWorker over startPmSubstrate, the procedures they call, and the  *)
(* commands they dispatch.  Each await of theirs is a step.                *)
(*                                                                         *)
(* A dispatched command is one step (Aggregate shows that it may be), and  *)
(* so is routing (Delivery).  apply is the user's: a state is the sequence *)
(* of the event numbers that were folded into it.  A lease that has run    *)
(* out shows only when somebody takes the item over: TakeOver.             *)
(***************************************************************************)
EXTENDS Integers, Sequences, FiniteSets

CONSTANTS
  Workers,          \* processing workers
  NoWorker,         \* claimed_by is null
  ModuleOf,         \* snapshotModuleVersion of a worker's definition
  Partitions,       \* partition keys
  Ignore,           \* 'ignore'
  NoSnapshot,       \* IS010
  Throws,           \* a command that throws
  RouteFn(_),       \* routeFn: of an event, its partition or Ignore
  Handle(_, _),     \* handle: of the events folded and the last one, what it
                    \* returns: [commands, complete]
  Run(_, _),        \* a command on the events so far: what it appends, or Throws
  Opening,          \* the events at the start
  Inputs,           \* commands that others dispatch
  MayStop,          \* whether the error policy may return 'stop'
  MaxEvents,        \* bound on the log
  MaxFaults,        \* bound on crashes, lapsed leases, lost answers, ...
  MaxRebuilds       \* bound on rebuilds of the subscription

Numbers == 1..MaxEvents
Modules == {ModuleOf[w] : w \in Workers}

ASSUME PmAssumption ==
  /\ NoWorker \notin Workers
  /\ Workers = DOMAIN ModuleOf
  /\ Ignore \notin Partitions
  /\ NoSnapshot \notin [version : Numbers, shape : Modules, events : Seq(Numbers)]
  /\ MayStop \in BOOLEAN
  /\ {MaxEvents, MaxFaults, MaxRebuilds} \subseteq Nat
  /\ Opening \in Seq({Opening[i] : i \in DOMAIN Opening})
  /\ Len(Opening) <= MaxEvents

VARIABLES
  log,          \* '$all': [event, causation]
  cursor,       \* last_seen
  itemState,    \* work items: "absent", "pending", "claimed", "done"
  itemHolder,   \* claimed_by
  snapshot,     \* the instances' rows in instructed.snapshots
  pc,           \* the call a worker makes next
  hand,         \* the event number it works on, 0 for none
  staged,       \* stagedState
  sent,         \* how many of the commands were dispatched
  asked,        \* the Inputs that were dispatched
  faults,       \* faults so far
  rebuilds,     \* rebuilds so far
  settled       \* history: events that were handled, or discarded with their
                \* instance when it completed

store == <<log, asked>>
queue == <<cursor, itemState, itemHolder>>
local == <<pc, hand, staged, sent>>
vars  == <<store, queue, snapshot, local, faults, rebuilds, settled>>

Init ==
  /\ log = [i \in DOMAIN Opening |-> [event |-> Opening[i], causation |-> 0]]
  /\ cursor = 0
  /\ itemState = [n \in Numbers |-> "absent"]
  /\ itemHolder = [n \in Numbers |-> NoWorker]
  /\ snapshot = [p \in Partitions |-> NoSnapshot]
  /\ pc = [w \in Workers |-> "idle"]
  /\ hand = [w \in Workers |-> 0]
  /\ staged = [w \in Workers |-> <<>>]
  /\ sent = [w \in Workers |-> 0]
  /\ asked = {}
  /\ faults = 0
  /\ rebuilds = 0
  /\ settled = {}

Fault == faults < MaxFaults /\ faults' = faults + 1

Goto(w, step) == pc' = [pc EXCEPT ![w] = step]

\* Done with the item, or dead and restarted: no variable of the call is left.
Leave(w) ==
  /\ Goto(w, "idle")
  /\ hand' = [hand EXCEPT ![w] = 0]
  /\ staged' = [staged EXCEPT ![w] = <<>>]
  /\ sent' = [sent EXCEPT ![w] = 0]

(***************************************************************************)
(* The log and the routing worker.                                         *)
(***************************************************************************)
Events == [i \in DOMAIN log |-> log[i].event]

\* runCommandWithSnapshots: what it appends carries causationId.
Appends(command, causation) ==
  LET events == Run(Events, command)
  IN /\ events # Throws
     /\ Len(log) + Len(events) <= MaxEvents
     /\ log' = log \o [i \in DOMAIN events |->
                         [event |-> events[i], causation |-> causation]]

\* Somebody else dispatches a command.
Ask(c) ==
  /\ c \in Inputs \ asked
  /\ asked' = asked \cup {c}
  /\ Appends(c, 0) \/ (Run(Events, c) = Throws /\ UNCHANGED log)
  /\ UNCHANGED <<queue, snapshot, local, faults, rebuilds, settled>>

PartitionOf(n) == RouteFn(log[n].event)

\* Mutant: an ignored event is enqueued too.
RoutedToo(n) == "pending"

Routed(n) == IF PartitionOf(n) = Ignore THEN "absent" ELSE "pending"

RouteNext ==
  LET n == cursor + 1
  IN /\ cursor < Len(log)
     /\ cursor' = n
     /\ itemState' = [itemState EXCEPT ![n] = Routed(n)]
     /\ UNCHANGED <<store, itemHolder, snapshot, local, faults, rebuilds, settled>>

(***************************************************************************)
(* Claiming.                                                               *)
(***************************************************************************)
Items(p) == {n \in 1..cursor : itemState[n] # "absent" /\ PartitionOf(n) = p}
Done(p)  == {n \in Items(p) : itemState[n] = "done"}

\* Mutant: only rows that are still pending block their partition.
FrontOfPending(n) ==
  \A m \in Items(PartitionOf(n)) : m < n => itemState[m] # "pending"

\* No predecessor in the partition is in a non-terminal state.
Front(n) == \A m \in Items(PartitionOf(n)) : m < n => itemState[m] = "done"

Takes(w, n) ==
  /\ itemState' = [itemState EXCEPT ![n] = "claimed"]
  /\ itemHolder' = [itemHolder EXCEPT ![n] = w]
  /\ hand' = [hand EXCEPT ![w] = n]
  /\ Goto(w, "load")
  /\ UNCHANGED <<store, cursor, snapshot, staged, sent, rebuilds, settled>>

Claim(w, n) ==
  /\ pc[w] = "idle" /\ itemState[n] = "pending" /\ Front(n)
  /\ Takes(w, n)
  /\ UNCHANGED faults

\* Mutant: no lease is extended while its worker is at work.
AttendedNever(n) == FALSE

\* Somebody works on the item it holds, and extends its lease.
Attended(n) ==
  \E v \in Workers : pc[v] # "idle" /\ hand[v] = n /\ itemHolder[n] = v

\* The lease ran out: its worker is gone, or (a fault) too slow.
TakeOver(w, n) ==
  /\ pc[w] = "idle" /\ itemState[n] = "claimed" /\ Front(n)
  /\ Takes(w, n)
  /\ IF Attended(n) THEN Fault ELSE UNCHANGED faults

(***************************************************************************)
(* handle of the substrate: load, apply, and the user's handle.            *)
(***************************************************************************)
\* Mutant: the module version of a snapshot is not compared, nor is its row.
MatchesAny(w, row) == row # NoSnapshot

Matches(w, row) == row # NoSnapshot /\ row.shape = ModuleOf[w]

Stage(w, events) ==
  /\ staged' = [staged EXCEPT ![w] = Append(events, hand[w])]
  /\ sent' = [sent EXCEPT ![w] = 0]
  /\ Goto(w, "dispatch")

readSnapshot(p) == snapshot[p]

LoadState(w) ==
  LET row == readSnapshot(PartitionOf(hand[w]))
  IN /\ pc[w] = "load"
     /\ IF Matches(w, row)
          THEN Stage(w, row.events)
          ELSE Goto(w, "rebuild") /\ UNCHANGED <<staged, sent>>
     /\ UNCHANGED <<store, queue, snapshot, hand, faults, rebuilds, settled>>

Increasing(s) == \A i, j \in DOMAIN s : i < j => s[i] < s[j]

\* s lists the numbers of S in order.
Lists(s, S) == Increasing(s) /\ {s[i] : i \in DOMAIN s} = S

\* Mutant: every item up to the claimed one is folded.
RebuildEventsToo(n) == {m \in Items(PartitionOf(n)) : m <= n}

\* list_pm_rebuild_events.
RebuildEvents(n) == {m \in Done(PartitionOf(n)) : m < n}

RebuildState(w) ==
  LET S == RebuildEvents(hand[w])
  IN /\ pc[w] = "rebuild"
     /\ \E s \in [1..Cardinality(S) -> S] : Lists(s, S) /\ Stage(w, s)
     /\ UNCHANGED <<store, queue, snapshot, hand, faults, rebuilds, settled>>

Result(w) ==
  Handle([i \in DOMAIN staged[w] |-> log[staged[w][i]].event], log[hand[w]].event)

(***************************************************************************)
(* The commands, in the order of their declaration.                        *)
(***************************************************************************)
NextCommand(w) == Result(w).commands[sent[w] + 1]
AllSent(w)     == sent[w] >= Len(Result(w).commands)

Holds(w) == itemState[hand[w]] = "claimed" /\ itemHolder[hand[w]] = w

\* Policies, by the decisions they may return: neither delays nor attempts are
\* counted here.
DEFAULT_ERROR_POLICY == {"retry-in"}
retryUpTo(inner)     == inner \cup {"stop"}

Policy == IF MayStop THEN retryUpTo(DEFAULT_ERROR_POLICY) ELSE DEFAULT_ERROR_POLICY

\* handle rejects: the policy retries it from the start, or the worker stops,
\* as it does when the heartbeat has found the item lost.
HandlerThrows(w) ==
  \/ /\ "retry-in" \in Policy
     /\ Goto(w, "load")
     /\ UNCHANGED <<hand, staged, sent>>
  \/ ("stop" \in Policy \/ ~Holds(w)) /\ Leave(w)

Dispatch(w) ==
  /\ pc[w] = "dispatch" /\ ~AllSent(w)
  /\ Appends(NextCommand(w), hand[w])
  /\ sent' = [sent EXCEPT ![w] = @ + 1]
  /\ UNCHANGED <<asked, queue, snapshot, pc, hand, staged, faults, rebuilds, settled>>

CommandThrows(w) ==
  /\ pc[w] = "dispatch" /\ ~AllSent(w)
  /\ Run(Events, NextCommand(w)) = Throws
  /\ HandlerThrows(w)
  /\ UNCHANGED <<store, queue, snapshot, faults, rebuilds, settled>>

\* The command is committed and its answer lost.
AnswerLost(w) ==
  /\ pc[w] = "dispatch" /\ ~AllSent(w)
  /\ Appends(NextCommand(w), hand[w])
  /\ Fault
  /\ HandlerThrows(w)
  /\ UNCHANGED <<asked, queue, snapshot, rebuilds, settled>>

(***************************************************************************)
(* complete of the substrate.                                              *)
(***************************************************************************)
Row(w) == [version |-> hand[w], shape |-> ModuleOf[w], events |-> staged[w]]

\* Mutant: the item is not looked at.
CompleteWorkItemPmUnfenced(w) ==
  LET n == hand[w]
  IN /\ itemState' = [itemState EXCEPT ![n] = "done"]
     /\ itemHolder' = [itemHolder EXCEPT ![n] = NoWorker]
     /\ snapshot' = [snapshot EXCEPT ![PartitionOf(n)] = Row(w)]

\* complete_work_item_pm: item and snapshot in one transaction; IS030.
CompleteWorkItemPm(w) ==
  LET n == hand[w]
  IN \/ /\ Holds(w)
        /\ itemState' = [itemState EXCEPT ![n] = "done"]
        /\ itemHolder' = [itemHolder EXCEPT ![n] = NoWorker]
        /\ snapshot' = [snapshot EXCEPT ![PartitionOf(n)] = Row(w)]
     \/ ~Holds(w) /\ UNCHANGED <<itemState, itemHolder, snapshot>>

\* Mutant: the items of every partition go.
CompletePmInstances(p) ==
  /\ itemState' = [n \in Numbers |-> "absent"]
  /\ itemHolder' = [n \in Numbers |-> NoWorker]
  /\ snapshot' = [snapshot EXCEPT ![p] = NoSnapshot]

\* complete_pm_instance: the snapshot and every item of the partition, whoever
\* holds them.
CompletePmInstance(p) ==
  /\ itemState' = [n \in Numbers |-> IF n \in Items(p) THEN "absent" ELSE itemState[n]]
  /\ itemHolder' = [n \in Numbers |-> IF n \in Items(p) THEN NoWorker ELSE itemHolder[n]]
  /\ snapshot' = [snapshot EXCEPT ![p] = NoSnapshot]

\* What completes an instance for the first time discards its items; after
\* that they are those of the next instance.
Settles(w) ==
  LET n == hand[w]
  IN settled' = settled \cup {n} \cup
       (IF Result(w).complete /\ n \notin settled THEN Items(PartitionOf(n)) ELSE {})

Complete(w) ==
  /\ pc[w] = "dispatch" /\ AllSent(w)
  /\ IF Result(w).complete
       THEN CompletePmInstance(PartitionOf(hand[w]))
       ELSE CompleteWorkItemPm(w)
  /\ Settles(w)
  /\ Leave(w)
  /\ UNCHANGED <<store, cursor, faults, rebuilds>>

(***************************************************************************)
(* Around the workers.                                                     *)
(***************************************************************************)
\* The process dies; the supervisor starts another.
Crash(w) ==
  /\ pc[w] # "idle" /\ Fault
  /\ Leave(w)
  /\ UNCHANGED <<store, queue, snapshot, rebuilds, settled>>

\* instructedctl deletes a snapshot.
DeleteSnapshot(p) ==
  /\ snapshot[p] # NoSnapshot /\ Fault
  /\ snapshot' = [snapshot EXCEPT ![p] = NoSnapshot]
  /\ UNCHANGED <<store, queue, local, rebuilds, settled>>

\* instructedctl subscriptions rebuild: delete_subscription leaves snapshots.
RebuildSubscription ==
  /\ rebuilds < MaxRebuilds
  /\ rebuilds' = rebuilds + 1
  /\ cursor' = 0
  /\ itemState' = [n \in Numbers |-> "absent"]
  /\ itemHolder' = [n \in Numbers |-> NoWorker]
  /\ settled' = {}
  /\ UNCHANGED <<store, snapshot, local, faults>>

Works(w) ==
  \/ \E n \in Numbers : Claim(w, n) \/ TakeOver(w, n)
  \/ LoadState(w) \/ RebuildState(w)
  \/ Dispatch(w) \/ CommandThrows(w) \/ Complete(w)

Next ==
  \/ \E c \in Inputs : Ask(c)
  \/ RouteNext
  \/ \E w \in Workers : Works(w) \/ AnswerLost(w) \/ Crash(w)
  \/ \E p \in Partitions : DeleteSnapshot(p)

Spec == Init /\ [][Next]_vars

\* With an operator who rebuilds the subscription.
RebuildSpec == Init /\ [][Next \/ RebuildSubscription]_vars

\* The routing worker and every processing worker are running, or restarted;
\* promises settle, and an item nobody attends to is taken over in the end.
Fairness == WF_vars(RouteNext) /\ \A w \in Workers : WF_vars(Works(w))

FairSpec == Spec /\ Fairness
-----------------------------------------------------------------------------
(***************************************************************************)
(* Properties.                                                             *)
(***************************************************************************)
\* Types: what the variables hold.
TypeOK ==
  /\ DOMAIN log = 1..Len(log) /\ Len(log) \in 0..MaxEvents
  /\ cursor \in 0..Len(log)
  /\ itemState \in [Numbers -> {"absent", "pending", "claimed", "done"}]
  /\ itemHolder \in [Numbers -> Workers \cup {NoWorker}]
  /\ snapshot \in [Partitions -> [version : Numbers, shape : Modules,
                                  events : Seq(Numbers)] \cup {NoSnapshot}]
  /\ pc \in [Workers -> {"idle", "load", "rebuild", "dispatch"}]
  /\ hand \in [Workers -> 0..MaxEvents]
  /\ staged \in [Workers -> Seq(Numbers)]
  /\ sent \in [Workers -> Nat]
  /\ asked \subseteq Inputs
  /\ faults \in 0..MaxFaults
  /\ rebuilds \in 0..MaxRebuilds
  /\ settled \subseteq Numbers
  /\ \A n \in Numbers : itemState[n] # "absent" =>
       n <= cursor /\ PartitionOf(n) \in Partitions

\* An instance's snapshot is the fold of the events its 'done' items name,
\* each of them once and in order, and its source_version is the last of them:
\* whoever took items over, wrote late or ended an instance it had lost, and
\* with workers of two module versions (PM-024).  list_pm_rebuild_events
\* returns those same events.
SnapshotIsFold ==
  \A p \in Partitions : snapshot[p] # NoSnapshot =>
    /\ Lists(snapshot[p].events, Done(p))
    /\ snapshot[p].version \in Done(p)
    /\ \A n \in Done(p) : n <= snapshot[p].version

\* The state that handle is given by a worker that holds its item is the fold
\* of the events of the instance up to its own, from a snapshot or rebuilt.
HandlesFold ==
  \A w \in Workers : pc[w] = "dispatch" /\ Holds(w) =>
    Lists(staged[w], Done(PartitionOf(hand[w])) \cup {hand[w]})

\* An instance absorbs one event at a time, in the order of the log, or ends:
\* no step takes events out of it or puts an earlier one behind a later one
\* (INV-SUB-W-010, INV-SUB-W-021, INV-SUB-W-022).
AbsorbsInOrder ==
  [][\A p \in Partitions :
       \/ Done(p)' \in {Done(p), {}}
       \/ \E n \in Numbers : /\ Done(p)' = Done(p) \cup {n}
                             /\ \A m \in Done(p) : m < n]_vars

\* The queue of an instance, and the events it has absorbed.
Waiting  == [p \in Partitions |-> Items(p) \ Done(p)]
Absorbed == [p \in Partitions |-> Done(p)]

Instances == INSTANCE ProcessInstances
               WITH routed <- cursor, waiting <- Waiting, absorbed <- Absorbed

\* Procedures and workers together do what ProcessInstances says, whoever is taken
\* over, dies or is late: an instance absorbs all that is routed to it, the
\* earliest first, and what ends one leaves the others alone.
ImplementsInstances == Instances!PISpec

\* Where an event causes one event at most, it does so once, and once more for
\* a fault at most: the gap that docs/invariants.md calls PM-E is no wider than
\* its faults, although a command is committed before the item that caused it.
OneEffectPerFault ==
  \A n \in 1..Len(log) :
    Cardinality({m \in 1..Len(log) : log[m].causation = n}) <= 1 + faults + rebuilds

\* Claimed by docs/guarantees.md ("reads its state, sees which event_number it
\* last processed, and absorbs any redelivery"): no state has an event twice.
AbsorbsRedelivery ==
  \A w \in Workers : \A i, j \in DOMAIN staged[w] :
    staged[w][i] = staged[w][j] => i = j

\* Claimed by PM-022 ("Future events to the same partition route as normal and
\* run from initialState() again"): what was routed after an instance had
\* completed is in the queue until it is handled.
LaterInstancesRun ==
  \A n \in 1..cursor : PartitionOf(n) # Ignore =>
    itemState[n] # "absent" \/ n \in settled

\* The two claims hold as long as nothing has failed: what breaks them is a
\* worker that goes on with an item it has lost.
ClaimsHoldUntilFault ==
  faults + rebuilds = 0 => AbsorbsRedelivery /\ LaterInstancesRun
=============================================================================

# A TLA+ development of `instructed`

`instructed` is an event store and CQRS library that lives in Postgres
(`sql/instructed.sql`) with a TypeScript SDK (`sdks/typescript/src`) and an
operator's tool (`tools/instructedctl`). This directory holds TLA+ modules that
model its concurrent core, TLC configurations that check them on small
instances, and theorems about them that TLAPS proves for every value of the
constants.

## The system

| Component | State | Operations | Talks to |
|---|---|---|---|
| Event store (`append_to_stream`, `read_stream`, `read_all`) | `streams`, `events`, `stream_events`; row locks | append with an expected version, read a page | callers' transactions |
| Subscription (`claim_subscription`, `release_subscription`, `delete_subscription`, `route_batch`) | one row of `subscriptions`: routing cursor and routing lease | take and return the lease, move the cursor with the items it routes | routing workers, operator |
| Work queue (`claim_work_item`, `extend_work_item_claim`, `complete_work_item_*`, `fail_work_item`) | rows of `subscription_work_items`: state, holder, lease | claim the head of a partition, renew, settle, quarantine | processing workers |
| Routing worker | where its loop is, the cursor it claimed with, the batch it read | claim, read, route, commit, release | subscription, event store, `routeFn` |
| Processing worker, projection worker | where its loop is, the item in hand, `closing`/`aborted` | claim, read, handle (with retries and heartbeat), complete | work queue, handler, error policy |
| Process manager worker | as above, with the instance's state | load snapshot or rebuild, handle, dispatch commands, complete with snapshot | work queue, snapshots, aggregates |
| Aggregate (`runCommand`) | none between calls | load, execute, append, retry on conflict, snapshot | event store, snapshots |
| Consistency (`waitForProjection`) | none between calls | poll `is_subscription_caught_up` until a deadline | subscription, work queue |
| Snapshot store (`record_snapshot`, `read_snapshot`, `delete_snapshot`) | one row for each aggregate or instance | upsert, read, delete | aggregates, process managers, operator |
| Facade, client | registered handlers | start workers, dispatch | everything above |
| `instructedctl` | none | delete, rebuild, release, claim; inspection | subscription, work queue |
| Example: bank account | accounts, transfers; two read models | commands, a process manager for transfers, two projections | facade |

All invariants are meant to live in Postgres; the workers are clients that may
be many, slow, or dead. Nothing is pushed: workers poll. Coordination is by
rows: a *routing lease* that one routing worker holds for a batch, and an *item
lease* that one processing worker holds for an item. Both are held by name
(`claimed_by`) until a wall-clock time. Taking over an expired lease is what
provides failover, and a worker that lost a lease does not know until it asks.

What is hard here, and hard to test:

* a worker uses what it read under a lease after the lease was taken over;
* a worker dies, or its call fails in transport after it was executed, between
  any two calls;
* a heartbeat, an expiry, a takeover and a completion race;
* an operator deletes or rebuilds a subscription under running workers;
* transactions that append commit, fail, wait and deadlock in any order while
  readers walk the log by a cursor.

What makes each part correct:

* event store: gapless unique numbers, atomic transactions, expectations that
  hold at the point of commit, no event that becomes visible behind a reader;
* subscription and queue: every event handled at least once before it is
  settled, settled once, in the order of its partition;
* workers: every event is settled in the end;
* process manager: an event is in the instance's state once;
* aggregate: a snapshot is the fold of the stream up to its version;
* consistency: "caught up" means handled.

`PROJECT.json` lists the hazards with their source lines, and the properties
that cover them.

## Modules

```
 AppendLog       <--refines--  EventLog         event store
                                  |  numbers of '$all', visible in order
                                  v
                               WorkQueue        subscription row, queue, procedures
                                  ^ EXTENDS
 OrderedDelivery <--refines--  Delivery         routing and processing workers
                                  |  routing, claims and lapsed leases as steps
                +-----------------+---------------------+
                v                                       v
 ProcessInstances <-- ProcessManager                Instructed   facade, waits, read store
   (refines)    ^ EXTENDS                               | INSTANCE
            TransferSaga  --- INSTANCE -->  Bank  <-----+        the example's domain
                ^ commands as steps
 AtomicCommands  <--refines--  Aggregate        runCommand with snapshots

 StreamRouting                                  a subscription on one stream
```

Arrows without a word say what a module takes from another: the composed modules
make one step of what a module below has shown to behave like one step. The
theorems are in `EventLogProofs`, `DeliveryProofs`, `AggregateProofs`,
`ProcessManagerProofs`, `EffectProofs` (also about `ProcessManager`),
`TransferSagaProofs` and `InstructedProofs`, each of which EXTENDS the module it is
about; the last two also use the lemma of `Induction`. The `MC...` modules give the
constants their values.

### EventLog and AppendLog: the event store

Sessions run `append_to_stream` statement by statement, as far as statements can
wait: `ResolvesAny`, `ResolvesExisting`, `ResolvesExact` and `Creates` resolve
and lock the stream's row for the four expected-version types, `LocksAll` bumps
`'$all'`, `Inserts` inserts the events, all rows of the call or none.
A transaction has up to `MaxCalls` calls and ends by `Commits`, by an error, by
the loss of its session (`Dies`), or as the victim of a deadlock. `version`,
`allVersion` and `links` are the committed tables; `bump`, `allBump` and `mine`
are what a session has changed and not committed. `ReadsPage` is a reader that
goes through `'$all'` by a cursor, the way the routing worker does.

`AppendLog` is a log that a transaction extends in one step, if what each of its
calls expects is true at that point. `AppendsAtomically` is the refinement.
`Delivery` takes from it that event numbers are contiguous and become visible in
order (`NoEventSkipped`): its `AppendToStream` just moves `head`.

### WorkQueue: the subscription and its queue

One subscription on `'$all'`. `subExists`, `lastSeen`, `claimedBy`, `claimLive`
are its row; `itemState`, `itemHolder`, `itemLive` are the queue by event number,
with `"absent"` for no row; `head` is the version of `'$all'`. An operator of the
module is a stored procedure with the condition under which it takes effect:
`ClaimSubscription`, `ReleaseSubscription`, `DeleteSubscription`, `RouteBatch`,
`ClaimWorkItem`, `ExtendWorkItemClaim`, `CompleteProjection`, `FailWorkItem`, and
`RebuildSubscription`, the one transaction of `instructedctl rebuild`.

A procedure is a short transaction that locks the row it checks before it checks
it, so it is one step. The claims skip locked rows instead of waiting: an
answer of "already claimed" or "nothing" is the same as not being scheduled, and
a claim that skips a row takes a later claimable one, which is why
`ClaimWorkItem(w, e)` is enabled for every claimable `e` and not just the first.
Partition keys are the constant function `RouteOf`; the routing decision of an
application is a pure function of the event.

Time is not modelled. A lease is live or expired, and may expire before any
step. `epoch` counts the deletions of the row and `startAt` remembers the cursor
it was created with; both only serve the properties.

### Delivery and OrderedDelivery: the workers

`rpc[r]` is where the routing loop of `r` is (`routing-worker.ts:240-345`):
`claim`, `read`, `commit` (the batch is read, and the routing of it and
`route_batch` lie ahead), `release`, `exit` (released and left). `rFrom` is
the cursor that its claim returned and `rTo` the last event it read. `ppc[p]` is
where the processing loop is (`processing-worker.ts:405-507`): `claim`, `read`,
`handle`, `complete`. `pItem` is the item in hand, `halting` stands for `closing`
or `aborted`. `handled` records the events whose handler returned, by
incarnation of the subscription.

There is one action per call a loop makes and per way the call ends: what it
does when it succeeds; the error that says the lease is lost (IS020, IS022,
IS030), a guard on the tables; and a failure in transport, which may come after
the call took effect. Besides, a worker may be stopped, crash and be restarted, a
handler may throw, give up or quarantine, a heartbeat may come at any moment of
`handle` and `complete`, and the operator may delete, rebuild, release or claim.

In `OrderedDelivery` events are published, delivered and settled; an event is
delivered only when all the earlier ones of its partition are settled, settled
only when it was delivered, and never un-settled unless the subscription starts
afresh. `KeepsPromise` is the refinement, under the mapping in `Delivery`:
settled is what the cursor has passed and the queue does not hold.

### StreamRouting: a subscription on one stream

The routing loop of `Delivery` with the two positions an event has: `log` is
`'$all'`, and `StreamVersion` counts the events of the subscription's stream.
`Reads` asks `read_stream` for versions after the cursor; `Commits` moves the
cursor to the `event_number` it read last. One worker that keeps its leases is
enough for what goes wrong here.

### Aggregate and AtomicCommands: commands on one aggregate

Concurrent dispatchers run `runCommandWithSnapshots` on one stream. `pc[d]` is the
next call of the client: `snapshot` (`ReadSnapshot`), `page` (`ReadPage`, repeated
while pages are full), `append` (`Commit`, `Conflict`, `Decline`, `LoseAnswer`),
`record` (`RecordSnapshot`). `loaded` is the `LoadedAggregate`: a state is the
sequence of events it was folded from, with the module version whose `apply` folded
it, since `apply` is the application's. An event records on how many events its
command was decided, so that "decided on a stale state" is visible in the stream.
What `append_to_stream` is to check is the caller's expectation, a record with a
`kind` as in the code, or else the version that was loaded (`Assertion`); `Meets` says
when it holds. A conflict is retried from the snapshot on when the SDK chose the expected
version (`Retries`, on the class that `mapPgError` gives the error), and reported
otherwise, also when the caller's expectation was an exact version. Anybody may delete the snapshot, and two module versions are in use.

`AtomicCommands` has one step: a command appends events that were decided on the
whole stream. `DecidesAtomically` is the refinement.

### ProcessManager and ProcessInstances: the process manager's worker and substrate

The workers of one subscription that run `startPmWorker` over `startPmSubstrate`.
`pc[w]`: `load` (`loadState`, `readSnapshot`), `rebuild` (`list_pm_rebuild_events`,
when the snapshot is missing or of another module version), `dispatch` (the
commands that `handle` returned, one `runCommand` each, then `Complete`, which is
`complete_work_item_pm` or `complete_pm_instance`). A state is the sequence of
the event numbers folded into it. `log` holds the events with their causation,
and commands append to it, so that a process manager can react to what it caused.
Routing is one step per event and a command is one step (`Delivery` and
`Aggregate` show that they may be). A lapsed lease shows only when somebody takes
the item over, so `TakeOver` stands for both; it costs a fault when the
worker is still at work. `RebuildSpec` adds an operator who rebuilds the
subscription; the snapshots stay, as they do in `delete_subscription`. `settled` is
history: the events that were handled, or discarded with the instance they belonged
to. `OneEffectPerFault` bounds how often an event may cause another one, and
`ClaimsHoldUntilFault` says what is left of the two claims that `pm_redelivery` and
`pm_zombie` refute.

In `ProcessInstances` there are no workers, leases or snapshots. Events are routed
once each and in order, to one instance or to none; an instance absorbs the earliest
of those that wait for it; it ends, and what it absorbed and what waits for it are
gone; or the subscription starts afresh. `ImplementsInstances` is the refinement: the
events an instance has absorbed are its `done` items, those that wait are its other
items. A redelivery, a late writer or a second completion of an instance must show
there as one of these steps or as none. An instance may end twice in a row, so the
specification does not see what a late second completion takes from the next
instance; `LaterInstancesRun` does, and `pm_zombie` violates it.

### Bank and TransferSaga: the bank account example

`Bank` has the pure functions of `examples/typescript/bank-account`: `apply` and
`execute` of both aggregates, the command router, the process manager's `routeFn`
and `handle`, and routing and handlers of the two projections. `TransferSaga` runs
the transfer's process manager over them. Its properties are about money: what
is completed was debited and credited, what failed was refused (`OutcomesAreTrue`),
the read models say what the aggregates decide by (`ReadModelsAgree`), and every
transfer ends (`EveryTransferEnds`).

### Instructed: the facade

Processes (`Apps`) `register` what their scripts say and `poll`, which starts the
workers (`Start`, `Subscribe`, `RouteNext`, `Claim`, `Handle`, `Complete`). Clients
and handlers `dispatch` commands, lean or explicit, and may wait for projections:
`ReadCursor` and `ReadQueue` are the two statements of
`is_subscription_caught_up`, which is not one snapshot; `Round` and `TimeOut` are
`waitForProjection`. `view` is the read store that handlers write in transactions
of the application, *before* the item is completed. `Crash` takes all workers of a
process along, `Rebuild` is the operator's. The history field `fresh` of a call
names the subscriptions that were found caught up with no deletion between the
two statements.

## Runs

| Run | Instance | Shows |
|---|---|---|
| `eventlog_safety` | 3 sessions, transactions of up to 2 calls, every expectation, 2 streams, 3 ids | `TypeOK`, `Contiguous`, `UniqueIds`, `NoEventSkipped`, `SingleCallsDontDeadlock`, `AppendsAtomically`, `TransactionsEnd` |
| `delivery_safety` | 2 routing and 2 processing workers, 2 events of one partition, batches of 1, 2 faults, 1 deletion | `TypeOK`, `AtLeastOnce`, `PartitionOrder`, `NoResurrection`, `KeepsPromise` |
| `delivery_partitions` | 1 routing and 2 processing workers, 4 events in 2 partitions, one of them ignored, batches of 2, starting at the current head, 1 fault | `IInv`, `KeepsPromise`, `EventuallySettled` |
| `delivery_late` | 1 routing and 2 processing workers, 2 events | `StrictlyIncreasing` is violated |
| `stream_cursor` | one routing worker, 2 streams, 4 events, batches of 1 | `NothingPassedUnseen` is violated |
| `aggregate_safety` | 2 dispatchers of two module versions, 4 commands of 1 or 2 events, callers who may pass `noStream` or `exact(0)`, pages and snapshots of 2, one retry | `TypeOK`, `LoadedIsFold`, `SnapshotIsFold`, `OnlyLosersRetry`, `DecidesAtomically`, `CommandsReturn` |
| `aggregate_explicit` | 2 dispatchers, which may pass `any`, `streamExists` or `exact(1)` | `SnapshotIsFold` is violated |
| `transfer_safety` | 2 transfers compete for one balance, 2 workers of two module versions, 1 fault, logs of up to 12 events | `TypeOK`, `SnapshotIsFold`, `HandlesFold`, `OneEffectPerFault`, `OutcomesAreTrue`, `ReadModelsAgree`, `ClaimsHoldUntilFault`, `AbsorbsInOrder`, `ImplementsInstances` |
| `transfer_liveness` | 1 transfer of what the account has or of more, 2 workers of two module versions, 2 faults | `EveryTransferEnds` |
| `pm_redelivery` | 2 workers, 1 event, 1 fault, 1 rebuild | `AbsorbsRedelivery` is violated |
| `pm_zombie` | 2 workers, an event that completes the instance and one after it, 1 fault | `LaterInstancesRun` is violated |
| `instructed` | 2 processes, a projection on `'$all'`, a process manager on a stream that waits for itself, 1 client, up to 4 events, 1 fault | `TypeOK`, `ViewIsFold`, `ReadYourWrites`, `SelfWaitTimesOut`, `WaitsEnd` |

Bounds. `MaxFaults` bounds the steps nobody waits for (failed calls, crashes,
lapsed leases of busy workers, quarantines, stops, deadlines, the operator; in
`Instructed` rebuilds too); expiry of abandoned leases, restarts and heartbeats
are free. In `delivery_safety` two faults are enough for one worker to lose its
lease while busy and for a crash, a rebuild or a lost answer on top of it, which
is what every scenario in the hazard list needs; in `delivery_partitions` and the
composed runs a single fault already gives a second delivery, and every mutant of
the configurations is caught within them. Two events of a partition are the fewest
with an order; the others of `delivery_partitions` add a second partition and an
ignored event, so that a batch of two mixes them.
`MaxEpoch` is 1: one deletion or rebuild, so that workers of two incarnations
meet. Of two symmetric workers of a kind one is the victim and the other takes
over. In the event log each id can be committed once, which bounds the log; the ids
are few enough that two calls compete for the same one. Four commands of two
events on an aggregate give logs of several pages, with a snapshot in the
middle. Two transfers and a balance for one of them make one succeed and the other
be refused; with one fault that leaves room for every repeated effect, 12 events.
`transfer_liveness` has one transfer instead and a second fault, which hits the worker
that repaired the first; `MCTransferSaga` also checks that its opening events are
ones that clients can dispatch, as the theorems about the example assume.
The proofs have none of these bounds: their counters, workers, partitions, batch
sizes, sessions and dispatchers are arbitrary (in `Delivery`, `FaultCost = 0` makes
faults unlimited besides).

Deadlock is checked in every run but those of `Aggregate`, `ProcessManager`,
`TransferSaga` and `Instructed`, where the system does come to rest: the commands are
issued, the log has reached its bound, and every worker is idle with nothing to
claim.

### What is violated

Five runs find that the code does not do what a text of the repository says; the
words and the lines are in `PROJECT.json` under "findings".

* `delivery_late`. Events of a partition are said to reach the handler in strictly
  increasing order. A worker that stalls between its claim and the call of the
  handler, for longer than its lease, calls it after another worker has settled that
  event and a later one: it does not look at the lease there, and the heartbeat
  starts only with the handler. What the code does guarantee is
  `PartitionOrder` and `KeepsPromise`: whatever comes late repeats a delivery
  already made.
* `stream_cursor`. The cursor is said never to pass an event that was not inspected.
  For a subscription on a single stream of a store that has others it does: it
  is stored as an event number (`routing-worker.ts:221`) and used as a stream version
  (`routing-worker.ts:283`), so that events of the stream are never routed.
* `aggregate_explicit`. Snapshots are said to be advisory. With an explicit
  expected version the events of others may lie between the state that was loaded and
  the events appended: under `any` and `streamExists`, and under `exact(n)` when
  others have brought the stream to version `n` since (each of the three alone
  violates the property); the snapshot that is recorded
  lacks them, and so does every state loaded from it.
* `pm_redelivery`. A process manager is said to absorb a redelivery, because it sees
  which event it last processed. `loadState` does not look at the snapshot's
  `source_version`: a worker that lost its item loads the state that its successor
  saved and folds the event in again. The completion is refused, but `handle` and the
  commands it returns have seen the doubled state. After a rebuild of
  the subscription the doubled state is saved too.
* `pm_zombie`. Events after the completion of an instance are said to run from the
  initial state again. `complete_pm_instance` deletes every item of the partition,
  whoever holds it: a worker that lost its lease completes the instance a second
  time and deletes the event routed for the next one.

Two more gaps have no run of their own.
`is_subscription_caught_up` reads the cursor and the queue in two
statements: a deletion and re-creation between them makes it answer "caught up" of
an empty new subscription, which is why `ReadYourWrites` speaks of answers that
were not so divided. No text denies that one. And a transfer to an account that is not open is debited and
then retried for ever, although the example's README says (lines 160-161) that every
transfer stream has a terminal outcome event. Its walk-through opens both accounts
first (lines 128-129), and so do the instances of `TransferSaga`; without
`AccountOpened("bob")` in `OpenAccounts` TLC finds `EveryTransferEnds` violated.

### Fairness

`EventuallySettled` (`delivery_partitions`) assumes that a running loop is scheduled (each loop is a
promise chain of its own and polls for ever), that a stopped or crashed worker is
restarted (the supervisor of the process; `stop` after an error leaves nothing in
the SDK that would restart it), and that a lease nobody renews expires. Appends,
faults, heartbeats and the operator need not happen, and the bound on faults
says that they end. The handler of an event returns normally in the end: a
poison event blocks its partition by design. For the same reason
`delivery_partitions` has no quarantine.

`TransactionsEnd` assumes strong fairness of a session's statements, because
Postgres queues those who wait for a row lock, weak fairness of the deadlock
detector, and that clients commit the transactions they began
(`withTransaction` does, if its callback does not throw).

`CommandsReturn` assumes only that a promise of the client settles (`WF` of the
steps of a dispatcher): the retry budget and the end of the stream do the rest.
`EveryTransferEnds` and `WaitsEnd` assume that the routing worker and the
processing workers run or are started again, that an item nobody attends to is
taken over in the end, and that polls are answered. `WaitsEnd` gives no fairness to
the deadline, so that a wait must end because what it waits for is reached; it is
stated for clients, since a handler that waits for itself ends by its deadline
alone (`SelfWaitTimesOut`).

## Proofs

Every theorem holds for all values of the constants that the named assumptions
(`QueueAssumption`, `LogAssumption`, ...) allow, and what else it assumes is in its
ASSUME.

| Module | Theorems | Besides the constants, assumes |
|---|---|---|
| `EventLogProofs` | `TypeCorrect`, `NumbersAreContiguous`, `IdsAreUnique`, `ReadersMissNothing`, `FirstCallsDontDeadlock`, `AppendsAreAtomic` (the refinement of `AppendLog`) | nothing |
| `DeliveryProofs` | `TypeCorrect`, `DeliversAtLeastOnce`, `KeepsPartitionOrder`, `SettledIsFinal`, `ImplementsOrderedDelivery` (the refinement of `OrderedDelivery`) | nothing |
| `AggregateProofs` | `TypeCorrect`, `LoadsAreFolds`, `SnapshotsAreFolds`, `RetriesAreEarned`, `CommandsAreAtomic` (the refinement of `AtomicCommands`) | `OnlyPinned`: callers pass no expectation but `noStream` and `exact(0)` |
| `ProcessManagerProofs` | `TypeCorrect`, `SnapshotsAreFolds`, `HandlesAreFolds`, `ClaimsHold` | `Sound`: what the application's functions return; no rebuild (`Spec`) |
| | `RebuildInductive`, `AbsorbInOrder`, `InstancesKept` (the refinement of `ProcessInstances`) | `Sound`; the operator may rebuild the subscription under running workers (`RebuildSpec`) |
| `EffectProofs` | `BudgetInductive`, `EffectsRepeatByFaults` | `Sound`; `SingleEffects`: an event is answered with at most one command, and a command with at most one event; no rebuild |
| `TransferSagaProofs` | `BankInductive`, `TransferEffects`, `OutcomesTold`, `ReadModels` | `BankAccount`: the application is the example's, and the log at the start is one that clients' commands made; no rebuild |
| `InstructedProofs` | `TypeCorrect`, `RowsAreFolds`, `WaitersSeeTheirWrites`, `SelfWaits`, `ExampleAbsorbs` | `Sound`; `Absorbing`: a handler ignores what its row has |
| `Induction` | induction over the naturals with a set for the predicate | nothing |

`OnlyPinned` and the absence of rebuilds (where it is assumed) are not for convenience: `aggregate_explicit`
and `pm_redelivery` show that without them the theorems are false.

**Delivery.** None of `AtLeastOnce`, `PartitionOrder` is inductive alone. `IInv`
adds: items lie between the starting cursor and the routing cursor
(`ItemsBelowCursor`, `CursorInLog`); only claimed items have a holder
(`HoldersInv`); an item is claimed only if its partition is settled before it
(`ClaimedInOrder`); *if* a routing worker is still the recorded holder, then the
cursor is still the one it claimed with, so its batch is the next one
(`BatchIsNext`); *if* a processing worker is still the recorded holder of its item,
the subscription is the one it claimed it in, and what it is about to complete
was handled in it (`InHand`); nothing was handled in an incarnation that has not
begun (`HandledInv`). The two conditional clauses are where the design rests: a
worker that lost its lease may believe anything, and the procedures check the
holder and not the expiry.

The argument is by what an action does to the tables. The procedures preserve
the types and the clauses about rows (`ProcedureTypes` to `UnclaimInv`). Then an
action is of one of three kinds: it settles nothing and keeps what is settled
(`Quiet`), it starts the subscription afresh (`Afresh`), or it is a completion.
For the first two `NothingSettled` gives all that concerns the processing
workers; `ProcessorSettlesItem` does the third. `Effect` records which kind a
step was, and the refinement and `SettledIsFinal` follow from it without looking
at the actions again.

**EventLog.** The argument rests on the row locks. What a session has bumped and
not committed it holds the lock of (`Held`), so two sessions never extend one
stream, or `'$all'`, at a time. Therefore what a session has inserted is numbered
right after the committed events (`MineInv`), no other commit can come between,
and a commit extends the numbering without a gap and above every reader's cursor.
For the refinement `Ran` adds that the transaction's calls are a run of the abstract
log's from the committed state to the one it will commit, each with its expectation
true: a call that returns extends the run by one, and another session's
commit, which cannot touch the locked streams, moves it as a whole. A session in its
first call waits while it holds nothing, or holds its stream and waits for
`'$all'` (`FirstCall`), so that a circle would need two holders of `'$all'`.

**Aggregate.** The expected version pins the append to the version that was
loaded, so the state it was decided on is the fold of the whole stream. `IInv` is
`TypeOK`, `LoadedIsFold`, `SnapshotIsFold` and `Raced`, which says how many events
were appended since the command began for each attempt it has used.

**ProcessManager.** `IInv` adds to `SnapshotIsFold` and `HandlesFold` that in a
partition only `done` items lie before one that is claimed or done (`InOrder`), and
that what a worker has in hand was routed (`Handed`). With that the `done` items of
a partition are the fold's events, in order, and the item in hand comes next.
Only the holder of the item can move snapshot and items, and they move together.
A rebuild breaks all that but the order of the queue: workers hold events that are
not routed yet, and snapshots are ahead of the items. `QInv` is what remains, types,
`InOrder`, and that whatever is in a hand, in a staged state or in a snapshot comes
from the log. It is enough for the refinement of `ProcessInstances`, because no
procedure lets a worker touch an item on the strength of what it believes: an item is
completed by its recorded holder, and `InOrder` makes a claimed item the earliest of those
that wait. `RestartImplements` has the rebuild, and there is one lemma per action.
`ClaimsHold` adds `Orderly`, what is true until the first fault: a worker at work holds
its item (`Attends`), so two workers are never in one instance (by `InOrder`); what it
stages is then the fold of `HandlesFold`, which has nothing twice; and whoever
completes an instance does so for the first time (`SettledGone`), so that the items
it discards are those of that instance.

**Effects.** `OneEffectPerFault` counts events in the log; what makes it inductive is to
count with them whoever may still add one. `Tokens(n)` are the events that `n` has
caused, the workers that have it in hand and have not dispatched its command
(`Due`), and the item itself while somebody can get it without a fault (`Open`).
`Budget` says that they are at most one more than the faults. A step keeps the
tokens, or hands one on (a claim from the item to the worker, a dispatch from the
worker to the event, a throw that stops the worker back to the item), or is a fault
and adds one: a takeover from a worker that is still busy, a crash after the
dispatch, a committed command whose answer is lost. `BudgetLasts` turns the four
cases into cardinalities, and there is one lemma per action.

**The bank account.** `BankIInv` puts two facts about the log on top of the above:
every event was admitted by its aggregate's fold of the events before it (`Lawful`),
and every event is a client's, or an answer of the process manager to the event that
caused it, of the same transfer and of the type that `transferHandle` leads to
(`Traced`). A command is decided on the log it is appended to, which gives both for
the new event and leaves them true of the old ones. `OutcomesTold` walks the causes
back: a completion answers a deposit, which answers a withdrawal; a failure
answers a refusal; a stage of a transfer is reached once, so it is not both. A refused
and debited transfer has two events caused by its request, so by
`EffectsBounded` there was a fault. `ReadModels` compares four folds, the two aggregates'
and the two projections', position by position; they agree because the events are
lawful (no deposit into an account that is not open, no second request).

**Instructed.** For each row there is *one* position `m` (`Has`) such that the row is
the fold of its events up to `m`, and `m` has passed: every event that is settled,
everything before the event a worker has in hand, that event itself when it
was handled, and everything a waiting caller was told of. A handler that is late
writes an event at or before `m`, which it absorbs, or the next one after it; a
rebuild empties the queue and turns the cursor back but leaves the rows, so `m`
stays. `ReadYourWrites` is then a matter of what an answer is worth: an answer of
the first statement stays true of the cursor until the subscription is deleted
(`Waited`), and with the empty queue of the second it makes all events up to the
target settled. `SelfWaitTimesOut` follows from `Handed`: the item that a handler
holds is at or before the target of its dispatch and not absent. That the
fold exists and depends only on the log's prefix needs an induction, for which
`Induction` gives a form without operators as parameters. `Absorbing` is shown of the
example's projections in `ExampleAbsorbs`, from `where $n > last_event_number`.

Only model-checked: liveness (`EventuallySettled`, `TransactionsEnd`,
`CommandsReturn`, `EveryTransferEnds`, `WaitsEnd`), which is out of the prover's
reach. Every safety invariant, action property and refinement that a passing run
checks is a theorem. The runs with a violation have none, of course;
`ClaimsHold` is what can be proved about two of them.

## Abstractions

* A request that its sender has given up on is executed before the sender's next
  claim, or never. The procedures know a worker by its id only, so a request that
  lingers past the same worker's next claim would pass the check of the holder
  (the one hazard of the workers' calls that no property covers).
* Numbers of `'$all'` stand for stream versions where one stream is modelled
  (`Aggregate`), and both are kept apart where it matters (`EventLog`,
  `StreamRouting`).
* The start cursor `current` is read in the same step as the row is inserted.
* The operator's claim creates a subscription with the workers' `start_from`.
* In `Delivery` a retry of the handler is not a step: the loop stays in
  `handle`. Delays and attempt counts of the error policies are left out; a
  policy is the set of decisions it can come to.
* A lease is live or expired (`Delivery`), or shows only when it is taken over
  (`ProcessManager`, `Instructed`). In the latter two a routed event, a command
  and a claim are one step each.
* Validation of arguments (22023) changes nothing and is left out.
* An append has at least one event, which the procedure checks, so that a
  stream's version 0 is the absence of its row. Savepoints inside a transaction
  are left out: an error ends it.
* The state of an aggregate or a process manager is the sequence of what was folded
  into it, and `apply` is any function of it. A snapshot is the row of one
  aggregate or instance.
* The stage map of the process manager's substrate, which carries the state from
  `handle` to `complete` within one item, is the variable `staged`.
* Of the example, owners and the reasons of refusals are left out; nothing but
  texts depends on them.

## Not modelled

* The logger, the type declarations, sleeping and the naming of workers: no state.
* The client's packing of parameters and mapping of rows. The calls themselves are
  actions, or part of one.
* `instructedctl` for streams, snapshots, work items, schema and health: they read,
  or run the DDL once.
* The forms of `partitionBy`, which is a routing function like another, and the
  tuning of workers by name and default (batch sizes, leases and intervals); the
  theorems are for every batch size and every timing.
* The stop of a whole process by the facade; `Delivery` stops single workers.
* The monitor and the read store's schema of the example.

## What is left

1. Requests that outlive their caller: `route_batch` executed after the same
   worker id has claimed again (see Abstractions).
2. A handler that stops a whole process from inside, and `poll`'s order of stopping.

------------------------------ MODULE Delivery ------------------------------
(***************************************************************************)
(* Event delivery for one subscription: the routing workers                *)
(* (workers/routing/routing-worker.ts) and the processing workers          *)
(* (workers/processing/processing-worker.ts) of the TypeScript SDK running *)
(* concurrently against the queue of WorkQueue, for a projection           *)
(* (workers/projection/projection-worker.ts).                              *)
(*                                                                         *)
(* Every await of a loop is a place where another worker, the clock or the *)
(* operator may step in, so each call a worker makes is one step.  A call  *)
(* can also fail in transport: then it either took effect or did not, and  *)
(* the worker takes its catch branch.  (A request that a worker gave up on *)
(* and that the server executes after the same worker's next claim is left *)
(* out; see README.)                                                       *)
(***************************************************************************)
EXTENDS WorkQueue

CONSTANTS
  Routers,      \* worker ids running the routing loop
  Processors,   \* worker ids running the processing loop
  BatchSize,    \* routing batchSize
  MaxFaults,    \* bound on crashes, lapsed leases, failed calls, ...
  MayQuarantine,\* the application's error policy may call fail_work_item
  FaultCost     \* 1: faults are counted; 0: there is no bound on them

ASSUME DeliveryAssumption ==
  /\ Routers \subseteq Workers
  /\ Processors \subseteq Workers
  /\ BatchSize \in Nat \ {0}
  /\ MaxFaults \in Nat
  /\ MayQuarantine \in BOOLEAN
  /\ FaultCost \in {0, 1}

VARIABLES
  rpc,       \* routing loop: where it is
  rFrom,     \* lastSeen its claim returned
  rTo,       \* cursorTo of the batch it read
  ppc,       \* processing loop: where it is
  pItem,     \* event of the work item it claimed
  pEpoch,    \* history: incarnation of the subscription it claimed it in
  halting,   \* its closing or aborted flag is set
  handled,   \* history: <<epoch, event>> whose handler returned normally
  faults     \* faults so far

routerVars    == <<rpc, rFrom, rTo>>
processorVars == <<ppc, pItem, pEpoch, halting, handled>>
vars == <<queueVars, routerVars, processorVars, faults>>

RouterSteps == {"claim", "read", "commit", "release", "exit", "stopped"}
ProcessorSteps == {"claim", "read", "handle", "complete", "stopped"}

\* A step of the environment that the bound MaxFaults limits.
Fault == faults < MaxFaults /\ faults' = faults + FaultCost

MoveRouter(r, step) == rpc' = [rpc EXCEPT ![r] = step]

MoveProcessor(p, step) == ppc' = [ppc EXCEPT ![p] = step]

\* Where the processing loop goes when an item is settled.
NextItem(p) == IF halting[p] THEN "stopped" ELSE "claim"

(***************************************************************************)
(* The routing loop: claim, read, route and commit, release.               *)
(***************************************************************************)
RouterClaims(r) ==
  /\ rpc[r] = "claim"
  /\ ClaimSubscription(r)
  /\ rFrom' = [rFrom EXCEPT ![r] = lastSeen']
  /\ MoveRouter(r, "read")
  /\ UNCHANGED <<rTo, processorVars, faults>>

\* The claim fails in transport: onError and exit, the lease possibly taken.
RouterClaimFails(r) ==
  /\ rpc[r] = "claim"
  /\ Fault
  /\ ClaimSubscription(r) \/ UNCHANGED queueVars
  /\ MoveRouter(r, "stopped")
  /\ UNCHANGED <<rFrom, rTo, processorVars>>

\* read_all(lastSeen + 1, batchSize): some events, up to a full batch.
RouterReads(r) ==
  /\ rpc[r] = "read"
  /\ LET last == IF head < rFrom[r] + BatchSize THEN head
                                                ELSE rFrom[r] + BatchSize
     IN IF head > rFrom[r]
          THEN rTo' = [rTo EXCEPT ![r] = last] /\ MoveRouter(r, "commit")
          ELSE MoveRouter(r, "release") /\ UNCHANGED rTo
  /\ UNCHANGED <<queueVars, rFrom, processorVars, faults>>

RouterReadFails(r) ==
  /\ rpc[r] = "read"
  /\ Fault
  /\ MoveRouter(r, "release")
  /\ UNCHANGED <<queueVars, rFrom, rTo, processorVars>>

\* routeFn throws, or its decision is malformed: abort, release, exit.
RouteFnThrows(r) ==
  /\ rpc[r] = "commit"
  /\ Fault
  /\ MoveRouter(r, "exit")
  /\ UNCHANGED <<queueVars, rFrom, rTo, processorVars>>

RouterCommits(r) ==
  /\ rpc[r] = "commit"
  /\ RouteBatch(r, rFrom[r], rTo[r])
  /\ MoveRouter(r, "release")
  /\ UNCHANGED <<rFrom, rTo, processorVars, faults>>

\* IS022 or IS020: the batch is dropped and nothing is released.
RouterLosesLease(r) ==
  /\ rpc[r] = "commit"
  /\ ~HoldsSubscription(r)
  /\ MoveRouter(r, "claim")
  /\ UNCHANGED <<queueVars, rFrom, rTo, processorVars, faults>>

\* Mutant: cursor and queue are not one transaction, the cursor goes first.
RouterCommitFailsHalfway(r) ==
  /\ rpc[r] = "commit"
  /\ Fault
  /\ HoldsSubscription(r)
  /\ lastSeen' = rTo[r]
  /\ MoveRouter(r, "release")
  /\ UNCHANGED <<head, subExists, epoch, startAt, claimedBy, claimLive,
                 itemVars, rFrom, rTo, processorVars>>

\* Any other error: the batch may have been committed all the same.
RouterCommitFails(r) ==
  /\ rpc[r] = "commit"
  /\ Fault
  /\ RouteBatch(r, rFrom[r], rTo[r]) \/ UNCHANGED queueVars
  /\ MoveRouter(r, "release")
  /\ UNCHANGED <<rFrom, rTo, processorVars>>

\* releaseQuietly: lease loss is swallowed.
RouterReleases(r) ==
  /\ rpc[r] \in {"release", "exit"}
  /\ \/ ReleaseSubscription(r)
     \/ ~HoldsSubscription(r) /\ UNCHANGED queueVars
  /\ MoveRouter(r, IF rpc[r] = "exit" THEN "stopped" ELSE "claim")
  /\ UNCHANGED <<rFrom, rTo, processorVars, faults>>

RouterReleaseFails(r) ==
  /\ rpc[r] \in {"release", "exit"}
  /\ Fault
  /\ MoveRouter(r, IF rpc[r] = "exit" THEN "stopped" ELSE "claim")
  /\ UNCHANGED <<queueVars, rFrom, rTo, processorVars>>

\* stop(): the loop releases what it holds, dropping the batch it read.
StopRouter(r) ==
  /\ rpc[r] \in {"claim", "read", "commit", "release"}
  /\ Fault
  /\ MoveRouter(r, IF rpc[r] = "claim" THEN "stopped" ELSE "exit")
  /\ UNCHANGED <<queueVars, rFrom, rTo, processorVars>>

CrashRouter(r) ==
  /\ rpc[r] # "stopped"
  /\ Fault
  /\ MoveRouter(r, "stopped")
  /\ UNCHANGED <<queueVars, rFrom, rTo, processorVars>>

RestartRouter(r) ==
  /\ rpc[r] = "stopped"
  /\ MoveRouter(r, "claim")
  /\ UNCHANGED <<queueVars, rFrom, rTo, processorVars, faults>>

(***************************************************************************)
(* The processing loop: claim an item, read its event, run the handler     *)
(* (under the error policy, with a heartbeat), complete the item.          *)
(***************************************************************************)
ProcessorClaims(p, e) ==
  /\ ppc[p] = "claim"
  /\ ClaimWorkItem(p, e)
  /\ pItem' = [pItem EXCEPT ![p] = e]
  /\ pEpoch' = [pEpoch EXCEPT ![p] = epoch]
  /\ MoveProcessor(p, "read")
  /\ UNCHANGED <<routerVars, halting, handled, faults>>

\* The claim fails in transport after it was executed: the loop goes on
\* without the item it now holds.
ClaimAnswerLost(p, e) ==
  /\ ppc[p] = "claim"
  /\ Fault
  /\ ClaimWorkItem(p, e)
  /\ UNCHANGED <<routerVars, processorVars>>

\* The payload is read and the handler starts, unless stop() came first.
ProcessorReads(p) ==
  /\ ppc[p] = "read"
  /\ MoveProcessor(p, IF halting[p] THEN "stopped" ELSE "handle")
  /\ UNCHANGED <<queueVars, routerVars, pItem, pEpoch, halting, handled, faults>>

\* The read fails: back to the loop, the item stays claimed.
ProcessorReadFails(p) ==
  /\ ppc[p] = "read"
  /\ Fault
  /\ MoveProcessor(p, NextItem(p))
  /\ UNCHANGED <<queueVars, routerVars, pItem, pEpoch, halting, handled>>

\* handle returns.  A retry after a throw leaves the loop where it is.
HandlerReturns(p) ==
  /\ ppc[p] = "handle"
  /\ handled' = handled \cup {<<pEpoch[p], pItem[p]>>}
  /\ MoveProcessor(p, "complete")
  /\ UNCHANGED <<queueVars, routerVars, pItem, pEpoch, halting, faults>>

\* handle throws and the error policy says 'stop' (or there is a stop()).
HandlerGivesUp(p) ==
  /\ ppc[p] = "handle"
  /\ IF halting[p] THEN UNCHANGED faults ELSE Fault
  /\ MoveProcessor(p, "stopped")
  /\ UNCHANGED <<queueVars, routerVars, pItem, pEpoch, halting, handled>>

\* The error policy quarantines the event with fail_work_item, and then has the
\* worker stop or try again.
HandlerQuarantines(p) ==
  /\ MayQuarantine
  /\ ppc[p] = "handle"
  /\ Fault
  /\ FailWorkItem(p, pItem[p])
  /\ MoveProcessor(p, "stopped") \/ UNCHANGED ppc
  /\ UNCHANGED <<routerVars, pItem, pEpoch, halting, handled>>

\* complete: the flags are not looked at between handle and complete.
ProcessorCompletes(p) ==
  /\ ppc[p] = "complete"
  /\ CompleteProjection(p, pItem[p])
  /\ MoveProcessor(p, NextItem(p))
  /\ UNCHANGED <<routerVars, pItem, pEpoch, halting, handled, faults>>

\* IS030 or IS020: somebody else has the item, this worker stops.
ProcessorLosesItem(p) ==
  /\ ppc[p] = "complete"
  /\ ~(subExists /\ itemHolder[pItem[p]] = p)
  /\ MoveProcessor(p, "stopped")
  /\ UNCHANGED <<queueVars, routerVars, pItem, pEpoch, halting, handled, faults>>

\* Any other error of complete: executed or not, the worker stops.
ProcessorCompleteFails(p) ==
  /\ ppc[p] = "complete"
  /\ Fault
  /\ CompleteProjection(p, pItem[p]) \/ UNCHANGED queueVars
  /\ MoveProcessor(p, "stopped")
  /\ UNCHANGED <<routerVars, pItem, pEpoch, halting, handled>>

\* The heartbeat of the item in hand: it renews the lease, or finds it lost.
Heartbeat(p) ==
  /\ ppc[p] \in {"handle", "complete"}
  /\ ~halting[p]
  /\ \/ ExtendWorkItemClaim(p, pItem[p]) /\ UNCHANGED halting
     \/ /\ ~(subExists /\ HoldsItem(p, pItem[p]))
        /\ halting' = [halting EXCEPT ![p] = TRUE]
        /\ UNCHANGED queueVars
  /\ UNCHANGED <<routerVars, ppc, pItem, pEpoch, handled, faults>>

\* stop(), or a heartbeat that failed twice in transport.
HaltProcessor(p) ==
  /\ ppc[p] # "stopped"
  /\ ~halting[p]
  /\ Fault
  /\ halting' = [halting EXCEPT ![p] = TRUE]
  /\ MoveProcessor(p, IF ppc[p] = "claim" THEN "stopped" ELSE ppc[p])
  /\ UNCHANGED <<queueVars, routerVars, pItem, pEpoch, handled>>

CrashProcessor(p) ==
  /\ ppc[p] # "stopped"
  /\ Fault
  /\ MoveProcessor(p, "stopped")
  /\ UNCHANGED <<queueVars, routerVars, pItem, pEpoch, halting, handled>>

RestartProcessor(p) ==
  /\ ppc[p] = "stopped"
  /\ MoveProcessor(p, "claim")
  /\ halting' = [halting EXCEPT ![p] = FALSE]
  /\ UNCHANGED <<queueVars, routerVars, pItem, pEpoch, handled, faults>>

(***************************************************************************)
(* The application, the operator and the clock.                            *)
(***************************************************************************)
Append ==
  /\ \E n \in Events : AppendToStream(n)
  /\ UNCHANGED <<routerVars, processorVars, faults>>

\* instructedctl: delete, rebuild, release whoever holds the lease, and a
\* diagnostic claim under a worker id of its own.
Operator ==
  /\ Fault
  /\ \/ DeleteSubscription
     \/ RebuildSubscription
     \/ \E w \in Workers \ (Routers \cup Processors) : ClaimSubscription(w)
     \/ \E w \in Workers : ReleaseSubscription(w)
  /\ UNCHANGED <<routerVars, processorVars>>

\* Nobody who could still commit a batch under it holds the routing lease.
LeaseAbandoned ==
  claimedBy \in Routers => rpc[claimedBy] \in {"claim", "stopped"}

\* The holder of e no longer heartbeats it.
ItemAbandoned(e) ==
  itemHolder[e] \in Processors =>
    LET p == itemHolder[e]
    IN \/ pItem[p] # e
       \/ ppc[p] \in {"claim", "stopped"}
       \/ halting[p]

AbandonedLeaseExpires ==
  /\ LeaseAbandoned
  /\ SubscriptionLeaseExpires
  /\ UNCHANGED <<routerVars, processorVars, faults>>

AbandonedItemExpires(e) ==
  /\ ItemAbandoned(e)
  /\ ItemLeaseExpires(e)
  /\ UNCHANGED <<routerVars, processorVars, faults>>

\* A slow routeFn, or a stalled event loop: the lease of a worker still busy.
LeaseLapses ==
  /\ Fault
  /\ \/ ~LeaseAbandoned /\ SubscriptionLeaseExpires
     \/ \E e \in Events : ~ItemAbandoned(e) /\ ItemLeaseExpires(e)
  /\ UNCHANGED <<routerVars, processorVars>>

Init ==
  /\ QueueInit
  /\ rpc = [r \in Routers |-> "claim"]
  /\ rFrom = [r \in Routers |-> 0]
  /\ rTo = [r \in Routers |-> 0]
  /\ ppc = [p \in Processors |-> "claim"]
  /\ pItem = [p \in Processors |-> 0]
  /\ pEpoch = [p \in Processors |-> 0]
  /\ halting = [p \in Processors |-> FALSE]
  /\ handled = {}
  /\ faults = 0

RouterStep(r) ==
  \/ RouterClaims(r) \/ RouterReads(r) \/ RouterCommits(r)
  \/ RouterLosesLease(r) \/ RouterReleases(r)

RouterFault(r) ==
  \/ RouterClaimFails(r) \/ RouterReadFails(r) \/ RouteFnThrows(r)
  \/ RouterCommitFails(r) \/ RouterReleaseFails(r)
  \/ StopRouter(r) \/ CrashRouter(r)

ProcessorStep(p) ==
  \/ \E e \in Events : ProcessorClaims(p, e)
  \/ ProcessorReads(p) \/ HandlerReturns(p)
  \/ ProcessorCompletes(p) \/ ProcessorLosesItem(p)

ProcessorFault(p) ==
  \/ \E e \in Events : ClaimAnswerLost(p, e)
  \/ ProcessorReadFails(p) \/ HandlerGivesUp(p) \/ HandlerQuarantines(p)
  \/ ProcessorCompleteFails(p)
  \/ HaltProcessor(p) \/ CrashProcessor(p)

Next ==
  \/ Append
  \/ \E r \in Routers : RouterStep(r) \/ RouterFault(r) \/ RestartRouter(r)
  \/ \E p \in Processors : \/ ProcessorStep(p) \/ ProcessorFault(p)
                           \/ Heartbeat(p) \/ RestartProcessor(p)
  \/ Operator
  \/ AbandonedLeaseExpires
  \/ \E e \in Events : AbandonedItemExpires(e)
  \/ LeaseLapses

Spec == Init /\ [][Next]_vars

\* Every loop that runs gets scheduled, a supervisor restarts the stopped ones
\* and a lease nobody renews runs out.  Nobody has to append, crash or halt.
Fairness ==
  /\ \A r \in Routers : WF_vars(RouterStep(r)) /\ WF_vars(RestartRouter(r))
  /\ \A p \in Processors :
       WF_vars(ProcessorStep(p)) /\ WF_vars(RestartProcessor(p))
  /\ WF_vars(AbandonedLeaseExpires)
  /\ \A e \in Events : WF_vars(AbandonedItemExpires(e))

FairSpec == Spec /\ Fairness
-----------------------------------------------------------------------------
(***************************************************************************)
(* Properties.                                                             *)
(***************************************************************************)
WorkerTypeOK ==
  /\ rpc \in [Routers -> RouterSteps]
  /\ rFrom \in [Routers -> Nat]
  /\ rTo \in [Routers -> Nat]
  /\ ppc \in [Processors -> ProcessorSteps]
  /\ pItem \in [Processors -> 0..MaxEvents]
  /\ pEpoch \in [Processors -> 0..MaxEpoch]
  /\ halting \in [Processors -> BOOLEAN]
  /\ handled \subseteq (0..MaxEpoch) \X Events
  /\ faults \in Nat

\* Every variable keeps its type.
TypeOK == QueueTypeOK /\ WorkerTypeOK

\* The cursor is past e, which was routed, and e has left the queue.
Settled(e) ==
  /\ subExists
  /\ startAt < e /\ e <= lastSeen
  /\ Routed(e)
  /\ itemState[e] = "absent"

\* At-least-once delivery (docs/guarantees.md): the cursor does not pass an
\* event, and the queue does not lose one, unless a handler returned normally
\* for it, in the incarnation of the subscription that is current.  Relates
\* route_batch, which moves cursor and queue together, to the lease checks of
\* complete_work_item_projection.
AtLeastOnce == \A e \in Events : Settled(e) => <<epoch, e>> \in handled

\* Serial processing of a partition (INV-SUB-W-010): whoever is between the
\* claim of an event and its completion, a worker whose lease is long gone
\* included, all the earlier events of the partition were settled before.
PartitionOrder ==
  \A p \in Processors :
    ppc[p] \in {"read", "handle", "complete"} /\ pEpoch[p] = epoch =>
      \A d \in Events :
        startAt < d /\ d < pItem[p] /\ SamePartition(d, pItem[p]) => Settled(d)

\* A settled event never returns to the queue: a routing worker that lost its
\* lease between claim_subscription and route_batch cannot re-insert what the
\* new holder routed and the processing workers finished (IS022).
NoResurrection ==
  [][\A e \in Events : Settled(e) /\ epoch' = epoch => Settled(e)']_vars

\* "Within a partition, events are delivered to the handler in strictly
\* increasing event_number order" (docs/guarantees.md): no handler starts on an
\* event after a later one of its partition has been handled.  Does not hold: a
\* worker that lost its lease while it read the payload still calls the handler.
StrictlyIncreasing ==
  [][\A p \in Processors :
       ppc[p] = "read" /\ ppc'[p] = "handle" =>
         \A e \in Events :
           pItem[p] < e /\ SamePartition(pItem[p], e) =>
             <<pEpoch[p], e>> \notin handled]_vars

\* The subscription keeps the promise of OrderedDelivery: settled events are
\* those the cursor has passed and the queue no longer holds.
OD == INSTANCE OrderedDelivery WITH
        published <- head,
        active    <- subExists,
        from      <- startAt,
        delivered <- {e \in Events : subExists /\ <<epoch, e>> \in handled},
        settled   <- {e \in Events : Settled(e)}

KeepsPromise == OD!ODSpec

\* Every event is handled in the end: once it is committed, the subscription
\* comes to exist, and to have settled it unless it starts after it.
EventuallySettled ==
  \A e \in Events :
    e <= head /\ Routed(e) ~> subExists /\ (e <= startAt \/ Settled(e))
-----------------------------------------------------------------------------
(***************************************************************************)
(* The inductive invariant behind the safety properties.                   *)
(***************************************************************************)
Busy(p) == ppc[p] \in {"read", "handle", "complete"}

\* Work items lie between the starting cursor and the routing cursor, and a
\* projection never leaves one 'done'.
ItemsBelowCursor ==
  \A e \in Events :
    /\ itemState[e] # "done"
    /\ itemState[e] # "absent" =>
         subExists /\ startAt < e /\ e <= lastSeen /\ Routed(e)

\* The cursor only covers events that exist, unless the subscription was
\* created ahead of the log.
CursorInLog ==
  /\ startAt <= lastSeen
  /\ lastSeen <= head \/ lastSeen = startAt

\* Only a claimed item has a holder; a subscription that is gone has none.
HoldersInv ==
  /\ \A e \in Events : itemState[e] # "claimed" => itemHolder[e] = NoWorker
  /\ ~subExists => claimedBy = NoWorker

\* An item is claimed only when its whole partition before it is settled.
ClaimedInOrder ==
  \A e \in Events :
    itemState[e] = "claimed" =>
      \A d \in Events :
        startAt < d /\ d < e /\ SamePartition(d, e) => Settled(d)

\* The batch of a router that still holds the subscription is the next one.
BatchIsNext ==
  \A r \in Routers :
    /\ rpc[r] \in {"read", "commit"} /\ claimedBy = r => rFrom[r] = lastSeen
    /\ rpc[r] = "commit" => rFrom[r] < rTo[r] /\ rTo[r] <= head

\* What a busy processor has in hand.
InHand ==
  \A p \in Processors :
    /\ pEpoch[p] <= epoch
    /\ Busy(p) => pItem[p] \in Events
    /\ Busy(p) /\ pEpoch[p] = epoch =>
         subExists /\ startAt < pItem[p] /\ pItem[p] <= lastSeen /\ Routed(pItem[p])
    /\ Busy(p) /\ itemHolder[pItem[p]] = p => pEpoch[p] = epoch
    /\ ppc[p] = "complete" => <<pEpoch[p], pItem[p]>> \in handled

\* Nothing was handled in an incarnation that has not begun.
HandledInv ==
  \A e \in Events, k \in 0..MaxEpoch :
    <<k, e>> \in handled => k <= epoch /\ (k = epoch => subExists)

\* What the rows satisfy among themselves.
QueueInv == ItemsBelowCursor /\ CursorInLog /\ HoldersInv /\ ClaimedInOrder

\* What the workers know about the rows.
WorkerInv == BatchIsNext /\ InHand /\ HandledInv

\* The invariant that every action of every worker preserves, whatever the
\* others do: AtLeastOnce and PartitionOrder with what they need to know of the
\* rows (claim_work_item, route_batch) and of the loops' local variables.
IInv == TypeOK /\ QueueInv /\ WorkerInv /\ AtLeastOnce /\ PartitionOrder
=============================================================================

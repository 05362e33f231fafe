----------------------------- MODULE WorkQueue -----------------------------
(***************************************************************************)
(* The Postgres side of one subscription on '$all': the row of             *)
(* instructed.subscriptions (routing cursor and routing lease), the rows   *)
(* of instructed.subscription_work_items (the queue) and the stored        *)
(* procedures that change them (sql/instructed.sql).                       *)
(*                                                                         *)
(* A procedure is one short transaction that takes the row lock of what it *)
(* checks before it checks it (FOR UPDATE), so a procedure is one step     *)
(* here.  claim_subscription and claim_work_item take their locks with     *)
(* SKIP LOCKED: what they then answer ("already claimed", "no row") is the *)
(* same as not being scheduled, and a claim that skips a locked row takes  *)
(* a later one, so that ClaimWorkItem may take any claimable row.          *)
(*                                                                         *)
(* A lease is live or expired; time is left out, so that a live lease may  *)
(* expire before any step.                                                 *)
(***************************************************************************)
EXTENDS Integers

CONSTANTS
  MaxEvents,      \* bound on the events appended to '$all'
  Partitions,     \* partition keys
  Ignore,         \* the routing decision "ignore"
  RouteOf,        \* the application's routeFn, a pure function of the event
  Workers,        \* worker ids, routing and processing
  NoWorker,       \* SQL NULL in claimed_by
  StartFrom,      \* start_from of the claim: "origin", "current" or "number"
  StartNumber,    \* its value when it is a number
  MaxEpoch        \* bound on the deletions of the subscription

Events == 1..MaxEvents

ASSUME QueueAssumption ==
  /\ MaxEvents \in Nat
  /\ Ignore \notin Partitions
  /\ RouteOf \in [Events -> Partitions \cup {Ignore}]
  /\ NoWorker \notin Workers
  /\ StartFrom \in {"origin", "current", "number"}
  /\ StartNumber \in Nat
  /\ MaxEpoch \in Nat

VARIABLES
  head,        \* highest committed event_number of '$all'
  subExists,   \* the subscriptions row exists
  epoch,       \* history: how many times the row was deleted
  startAt,     \* history: the cursor the row was created with
  lastSeen,    \* subscriptions.last_seen, the routing cursor
  claimedBy,   \* subscriptions.claimed_by
  claimLive,   \* claim_expires_at is in the future
  itemState,   \* subscription_work_items.state, "absent" without a row
  itemHolder,  \* subscription_work_items.claimed_by
  itemLive     \* lease_expires_at is in the future

subVars   == <<subExists, epoch, startAt, lastSeen, claimedBy, claimLive>>
itemVars  == <<itemState, itemHolder, itemLive>>
queueVars == <<head, subVars, itemVars>>

States == {"absent", "pending", "claimed", "done", "failed"}

\* Mutant: a claimed row does not block its partition.
NonTerminalUnclaimed == {"pending", "failed"}

\* The states of a row that is still owed work.
NonTerminal == {"pending", "claimed", "failed"}

Routed(e) == RouteOf[e] # Ignore

SamePartition(d, e) == Routed(d) /\ RouteOf[d] = RouteOf[e]

(***************************************************************************)
(* What the rows say.                                                      *)
(***************************************************************************)

\* Mutant: the first event to read instead of the last one seen.
InitialCursorOffByOne == IF StartFrom = "origin" THEN -1 ELSE head

\* INSERT: claim_subscription's start_from, honoured on first creation only.
InitialCursor ==
  CASE StartFrom = "origin"  -> 0
    [] StartFrom = "current" -> head
    [] StartFrom = "number"  -> StartNumber

\* The row is free, its lease has run out, or the caller already holds it.
SubscriptionFree(w) == claimedBy \in {NoWorker, w} \/ ~claimLive

\* Mutant: route_batch and release_subscription without the holder check.
SubscriptionRowExists(w) == subExists

\* The caller is the recorded holder; the expiry is not looked at.
HoldsSubscription(w) == subExists /\ claimedBy = w

HoldsItem(w, e) == itemState[e] = "claimed" /\ itemHolder[e] = w

\* Mutant: claim_work_item without its takeover branch.
ClaimableNoTakeover(e) ==
  /\ itemState[e] = "pending"
  /\ \A d \in Events :
       d < e /\ SamePartition(d, e) => itemState[d] \notin NonTerminal

\* Mutant: claim_work_item without its NOT EXISTS clause.
ClaimableUnordered(e) ==
  \/ itemState[e] = "pending"
  \/ itemState[e] = "claimed" /\ ~itemLive[e]

Claimable(e) ==
  /\ \/ itemState[e] = "pending"
     \/ itemState[e] = "claimed" /\ ~itemLive[e]
  /\ \A d \in Events :
       d < e /\ SamePartition(d, e) => itemState[d] \notin NonTerminal

(***************************************************************************)
(* The procedures, each with the condition under which it takes effect.    *)
(***************************************************************************)

\* append_to_stream committing n events: contiguous numbers, see EventLog.
AppendToStream(n) ==
  /\ head + n <= MaxEvents
  /\ head' = head + n
  /\ UNCHANGED <<subVars, itemVars>>

\* claim_subscription answering 'claimed'.
ClaimSubscription(w) ==
  /\ \/ /\ ~subExists
        /\ lastSeen' = InitialCursor
        /\ startAt' = InitialCursor
     \/ /\ subExists
        /\ SubscriptionFree(w)
        /\ UNCHANGED <<lastSeen, startAt>>
  /\ subExists' = TRUE
  /\ claimedBy' = w
  /\ claimLive' = TRUE
  /\ UNCHANGED <<head, epoch, itemVars>>

ReleaseSubscription(w) ==
  /\ HoldsSubscription(w)
  /\ claimedBy' = NoWorker
  /\ claimLive' = FALSE
  /\ UNCHANGED <<head, subExists, epoch, startAt, lastSeen, itemVars>>

NoItems ==
  /\ itemState' = [e \in Events |-> "absent"]
  /\ itemHolder' = [e \in Events |-> NoWorker]
  /\ itemLive' = [e \in Events |-> FALSE]

\* delete_subscription: whoever holds the lease; the queue goes with the row.
DeleteSubscription ==
  /\ subExists
  /\ epoch < MaxEpoch
  /\ epoch' = epoch + 1
  /\ subExists' = FALSE
  /\ claimedBy' = NoWorker
  /\ claimLive' = FALSE
  /\ NoItems
  /\ UNCHANGED <<head, startAt, lastSeen>>

\* instructedctl rebuild: delete, claim from origin and release, one transaction.
RebuildSubscription ==
  /\ epoch < MaxEpoch
  /\ epoch' = epoch + 1
  /\ subExists' = TRUE
  /\ startAt' = 0
  /\ lastSeen' = 0
  /\ claimedBy' = NoWorker
  /\ claimLive' = FALSE
  /\ NoItems
  /\ UNCHANGED head

\* route_batch(w, to, decisions of from+1..to): the decisions are inserted
\* unless the row is there already, and the cursor never moves back.
RouteBatch(w, from, to) ==
  /\ HoldsSubscription(w)
  /\ LET fresh == {e \in Events : /\ from < e /\ e <= to
                                  /\ Routed(e)
                                  /\ itemState[e] = "absent"}
     IN itemState' = [e \in Events |->
                        IF e \in fresh THEN "pending" ELSE itemState[e]]
  /\ lastSeen' = IF to > lastSeen THEN to ELSE lastSeen
  /\ UNCHANGED <<head, subExists, epoch, startAt, claimedBy, claimLive,
                 itemHolder, itemLive>>

\* claim_work_item returning row e.
ClaimWorkItem(w, e) ==
  /\ subExists
  /\ Claimable(e)
  /\ itemState' = [itemState EXCEPT ![e] = "claimed"]
  /\ itemHolder' = [itemHolder EXCEPT ![e] = w]
  /\ itemLive' = [itemLive EXCEPT ![e] = TRUE]
  /\ UNCHANGED <<head, subVars>>

\* extend_work_item_claim: an expired lease nobody took over is renewed too.
ExtendWorkItemClaim(w, e) ==
  /\ subExists
  /\ HoldsItem(w, e)
  /\ itemLive' = [itemLive EXCEPT ![e] = TRUE]
  /\ UNCHANGED <<head, subVars, itemState, itemHolder>>

\* A row leaves 'claimed' and drops its claim columns.
Unclaim(e, state) ==
  /\ itemState' = [itemState EXCEPT ![e] = state]
  /\ itemHolder' = [itemHolder EXCEPT ![e] = NoWorker]
  /\ itemLive' = [itemLive EXCEPT ![e] = FALSE]
  /\ UNCHANGED <<head, subVars>>

\* Mutant: no IS030 check.
CompleteUnfenced(w, e) ==
  subExists /\ Unclaim(e, "absent")

\* complete_work_item_projection deletes the row.
CompleteProjection(w, e) ==
  subExists /\ itemHolder[e] = w /\ Unclaim(e, "absent")

\* fail_work_item keeps the row, which blocks its partition from then on.
FailWorkItem(w, e) ==
  subExists /\ itemHolder[e] = w /\ Unclaim(e, "failed")

(***************************************************************************)
(* Time.                                                                   *)
(***************************************************************************)
SubscriptionLeaseExpires ==
  /\ claimLive
  /\ claimLive' = FALSE
  /\ UNCHANGED <<head, subExists, epoch, startAt, lastSeen, claimedBy, itemVars>>

ItemLeaseExpires(e) ==
  /\ itemLive[e]
  /\ itemLive' = [itemLive EXCEPT ![e] = FALSE]
  /\ UNCHANGED <<head, subVars, itemState, itemHolder>>

QueueInit ==
  /\ head = 0
  /\ subExists = FALSE
  /\ epoch = 0
  /\ startAt = 0
  /\ lastSeen = 0
  /\ claimedBy = NoWorker
  /\ claimLive = FALSE
  /\ itemState = [e \in Events |-> "absent"]
  /\ itemHolder = [e \in Events |-> NoWorker]
  /\ itemLive = [e \in Events |-> FALSE]

QueueTypeOK ==
  /\ head \in 0..MaxEvents
  /\ subExists \in BOOLEAN
  /\ epoch \in 0..MaxEpoch
  /\ startAt \in Nat
  /\ lastSeen \in Nat
  /\ claimedBy \in Workers \cup {NoWorker}
  /\ claimLive \in BOOLEAN
  /\ itemState \in [Events -> States]
  /\ itemHolder \in [Events -> Workers \cup {NoWorker}]
  /\ itemLive \in [Events -> BOOLEAN]
=============================================================================

--------------------------- MODULE DeliveryProofs ---------------------------
(***************************************************************************)
(* Proofs about Delivery, for any number of workers, events, partitions,   *)
(* faults and deletions, any batch size and any starting cursor.           *)
(***************************************************************************)
EXTENDS Delivery, TLAPS

\* The stored procedures keep the columns of the two tables well typed.
LEMMA ProcedureTypes ==
  ASSUME QueueTypeOK
  PROVE  /\ \A n \in Events : AppendToStream(n) => QueueTypeOK'
         /\ \A w \in Workers : ClaimSubscription(w) \/ ReleaseSubscription(w) => QueueTypeOK'
         /\ DeleteSubscription \/ RebuildSubscription => QueueTypeOK'
         /\ \A w \in Workers, from \in Nat, to \in Nat :
              RouteBatch(w, from, to) => QueueTypeOK'
         /\ \A w \in Workers, e \in Events :
              \/ ClaimWorkItem(w, e) \/ ExtendWorkItemClaim(w, e)
              \/ CompleteProjection(w, e) \/ FailWorkItem(w, e)
              => QueueTypeOK'
         /\ SubscriptionLeaseExpires => QueueTypeOK'
         /\ \A e \in Events : ItemLeaseExpires(e) => QueueTypeOK'
         /\ UNCHANGED queueVars => QueueTypeOK'
<1> USE QueueAssumption
    DEF QueueAssumption, QueueTypeOK, States, queueVars, subVars, itemVars
<1>1. ASSUME NEW n \in Events, AppendToStream(n) PROVE QueueTypeOK'
  BY <1>1 DEF AppendToStream, Events
<1>2. ASSUME NEW w \in Workers, ClaimSubscription(w) PROVE QueueTypeOK'
  BY <1>2 DEF ClaimSubscription, InitialCursor
<1>3. ASSUME NEW w \in Workers, ReleaseSubscription(w) PROVE QueueTypeOK'
  BY <1>3 DEF ReleaseSubscription
<1>4. ASSUME DeleteSubscription \/ RebuildSubscription PROVE QueueTypeOK'
  <2>1. /\ itemState' \in [Events -> States]
        /\ itemHolder' \in [Events -> Workers \cup {NoWorker}]
        /\ itemLive' \in [Events -> BOOLEAN]
    BY <1>4 DEF NoItems, DeleteSubscription, RebuildSubscription
  <2>2. head' \in 0..MaxEvents /\ epoch' \in 0..MaxEpoch
    BY <1>4 DEF DeleteSubscription, RebuildSubscription
  <2>3. subExists' \in BOOLEAN /\ claimLive' \in BOOLEAN
    BY <1>4 DEF DeleteSubscription, RebuildSubscription
  <2>4. startAt' \in Nat /\ lastSeen' \in Nat
    BY <1>4 DEF DeleteSubscription, RebuildSubscription
  <2>5. claimedBy' \in Workers \cup {NoWorker}
    BY <1>4 DEF DeleteSubscription, RebuildSubscription
  <2> QED
    BY <2>1, <2>2, <2>3, <2>4, <2>5
<1>5. ASSUME NEW w \in Workers, NEW from \in Nat, NEW to \in Nat,
             RouteBatch(w, from, to)
      PROVE  QueueTypeOK'
  BY <1>5 DEF RouteBatch
<1>6. ASSUME NEW w \in Workers, NEW e \in Events,
             \/ ClaimWorkItem(w, e) \/ ExtendWorkItemClaim(w, e)
             \/ CompleteProjection(w, e) \/ FailWorkItem(w, e)
      PROVE  QueueTypeOK'
  <2>1. CASE ClaimWorkItem(w, e)
    BY <2>1 DEF ClaimWorkItem
  <2>2. CASE ExtendWorkItemClaim(w, e)
    BY <2>2 DEF ExtendWorkItemClaim
  <2>3. CASE CompleteProjection(w, e)
    BY <2>3 DEF CompleteProjection, Unclaim
  <2>4. CASE FailWorkItem(w, e)
    BY <2>4 DEF FailWorkItem, Unclaim
  <2> QED
    BY <1>6, <2>1, <2>2, <2>3, <2>4
<1>7. SubscriptionLeaseExpires => QueueTypeOK'
  BY DEF SubscriptionLeaseExpires
<1>8. ASSUME NEW e \in Events, ItemLeaseExpires(e) PROVE QueueTypeOK'
  BY <1>8 DEF ItemLeaseExpires
<1>9. UNCHANGED queueVars => QueueTypeOK'
  OBVIOUS
<1> HIDE DEF QueueTypeOK
<1> QED
  BY <1>1, <1>2, <1>3, <1>4, <1>5, <1>6, <1>7, <1>8, <1>9

(***************************************************************************)
(* Two kinds of step of the two tables, apart from a completion: those     *)
(* after which the same events are settled, and those after which the      *)
(* subscription starts with an empty queue.                                *)
(***************************************************************************)
Quiet ==
  /\ UNCHANGED <<subExists, epoch, startAt>>
  /\ lastSeen <= lastSeen' /\ head <= head'
  /\ \A e \in Events : Settled(e)' <=> Settled(e)

Afresh ==
  /\ head' = head
  /\ \A e \in Events : ~Settled(e)' /\ itemHolder'[e] = NoWorker
  /\ \/ epoch < epoch'
     \/ epoch' = epoch /\ ~subExists /\ subExists'

\* What a step does to what is settled and handled.
Effect ==
  \/ Quiet /\ handled' = handled
  \/ Afresh /\ handled' = handled
  \/ \E p \in Processors : HandlerReturns(p)
  \/ \E p \in Processors : /\ ppc[p] = "complete"
                           /\ CompleteProjection(p, pItem[p])
                           /\ handled' = handled

\* A step that leaves the cursor, the items' states and holders alone, and
\* gives the routing lease to nobody without a row, preserves QueueInv.
LEMMA FrameInv ==
  ASSUME QueueTypeOK, QueueInv,
         UNCHANGED <<subExists, epoch, startAt, lastSeen, itemState, itemHolder>>,
         head' \in Nat, head <= head',
         subExists \/ claimedBy' = claimedBy
  PROVE  QueueInv' /\ Quiet
<1> USE DEF QueueTypeOK
<1>1. \A e \in Events : Settled(e)' <=> Settled(e)
  BY DEF Settled
<1>2. ItemsBelowCursor'
  BY DEF QueueInv, ItemsBelowCursor
<1>3. CursorInLog'
  BY QueueAssumption DEF QueueInv, CursorInLog, QueueAssumption
<1>4. HoldersInv'
  BY DEF QueueInv, HoldersInv
<1>5. ClaimedInOrder'
  BY <1>1 DEF QueueInv, ClaimedInOrder, SamePartition, Routed
<1>6. Quiet
  BY <1>1, QueueAssumption DEF Quiet, QueueAssumption
<1> QED
  BY <1>2, <1>3, <1>4, <1>5, <1>6 DEF QueueInv

\* The queue is empty and the cursor where it starts: QueueInv holds.
LEMMA AfreshInv ==
  ASSUME QueueTypeOK',
         CursorInLog',
         subExists' => startAt' = lastSeen',
         \A e \in Events : itemState'[e] = "absent" /\ itemHolder'[e] = NoWorker,
         ~subExists' => claimedBy' = NoWorker
  PROVE  QueueInv' /\ \A e \in Events : ~Settled(e)'
<1> USE DEF QueueTypeOK
<1>1. \A e \in Events : ~Settled(e)'
  BY DEF Settled, Events
<1>2. ItemsBelowCursor'
  BY DEF ItemsBelowCursor
<1>4. HoldersInv'
  BY DEF HoldersInv
<1>5. ClaimedInOrder'
  BY DEF ClaimedInOrder
<1> QED
  BY <1>1, <1>2, <1>4, <1>5 DEF QueueInv

\* claim_subscription: it creates the row, with nothing in the queue, or it
\* hands over the lease.
LEMMA ClaimSubscriptionInv ==
  ASSUME QueueTypeOK, QueueInv, NEW w \in Workers, ClaimSubscription(w)
  PROVE  QueueInv' /\ subExists' /\ ((Quiet /\ lastSeen' = lastSeen) \/ Afresh)
<1> USE DEF QueueTypeOK, ClaimSubscription, itemVars
<1>1. CASE subExists
  BY <1>1, FrameInv, QueueAssumption DEF QueueAssumption
<1>2. CASE ~subExists
  <2>1. \A e \in Events : itemState'[e] = "absent" /\ itemHolder'[e] = NoWorker
    BY <1>2 DEF QueueInv, ItemsBelowCursor, HoldersInv
  <2>2. QueueTypeOK'
    BY ProcedureTypes
  <2> HIDE DEF QueueTypeOK
  <2>3. QueueInv' /\ \A e \in Events : ~Settled(e)'
    BY <1>2, <2>1, <2>2, AfreshInv DEF CursorInLog, QueueTypeOK
  <2> QED
    BY <1>2, <2>1, <2>3 DEF Afresh
<1> QED
  BY <1>1, <1>2

\* delete_subscription and instructedctl rebuild empty the queue.
LEMMA RestartInv ==
  ASSUME QueueTypeOK, QueueInv, DeleteSubscription \/ RebuildSubscription
  PROVE  QueueInv' /\ Afresh /\ claimedBy' = NoWorker
<1> DEFINE Empty == \A e \in Events : itemState'[e] = "absent" /\ itemHolder'[e] = NoWorker
<1>1. QueueTypeOK'
  BY ProcedureTypes
<1>2. Empty
  BY DEF DeleteSubscription, RebuildSubscription, NoItems
<1>3. epoch < epoch' /\ head' = head /\ claimedBy' = NoWorker
  BY QueueAssumption
  DEF DeleteSubscription, RebuildSubscription, QueueTypeOK, QueueAssumption
<1>4. QueueInv' /\ \A e \in Events : ~Settled(e)'
  <2>1. CASE RebuildSubscription
    BY <2>1, <1>1, <1>2, <1>3, AfreshInv DEF RebuildSubscription, CursorInLog
  <2>2. CASE DeleteSubscription
    BY <2>2, <1>1, <1>2, <1>3, AfreshInv DEF DeleteSubscription, QueueInv, CursorInLog
  <2> QED
    BY <2>1, <2>2
<1> QED
  BY <1>2, <1>3, <1>4 DEF Afresh

\* route_batch given the batch after the cursor: an event it passes is inserted
\* or ignored, so that nothing becomes settled.
LEMMA RouteBatchInv ==
  ASSUME QueueTypeOK, QueueInv, NEW w \in Workers, NEW to \in Nat,
         lastSeen < to, to <= head, RouteBatch(w, lastSeen, to)
  PROVE  QueueInv' /\ Quiet
<1> USE DEF QueueTypeOK
<1>0. MaxEvents \in Nat
  BY QueueAssumption DEF QueueAssumption
<1>1. /\ UNCHANGED <<head, subExists, epoch, startAt, claimedBy, itemHolder>>
      /\ lastSeen' = to
      /\ subExists
  BY DEF RouteBatch, HoldsSubscription
<1>2. \A d \in Events :
        itemState'[d] = IF lastSeen < d /\ d <= to /\ Routed(d) /\ itemState[d] = "absent"
                          THEN "pending" ELSE itemState[d]
  BY DEF RouteBatch
<1>3. \A d \in Events : Settled(d)' <=> Settled(d)
  BY <1>0, <1>1, <1>2 DEF Settled, Routed, Events, QueueInv, CursorInLog
<1>4. ItemsBelowCursor'
  BY <1>0, <1>1, <1>2 DEF QueueInv, ItemsBelowCursor, CursorInLog, Routed, Events
<1>5. CursorInLog'
  BY <1>0, <1>1 DEF QueueInv, CursorInLog
<1>6. HoldersInv'
  BY <1>1, <1>2 DEF QueueInv, HoldersInv
<1>7. ClaimedInOrder'
  <2>1. \A d \in Events : itemState'[d] = "claimed" => itemState[d] = "claimed"
    BY <1>2
  <2> QED
    BY <1>1, <1>3, <2>1 DEF QueueInv, ClaimedInOrder, SamePartition, Routed
<1>8. Quiet
  BY <1>0, <1>1, <1>3 DEF Quiet
<1> QED
  BY <1>4, <1>5, <1>6, <1>7, <1>8 DEF QueueInv

\* What claim_work_item's NOT EXISTS clause establishes.
LEMMA ClaimableInOrder ==
  ASSUME QueueTypeOK, QueueInv, NEW e \in Events, subExists, Claimable(e)
  PROVE  /\ startAt < e /\ e <= lastSeen /\ Routed(e)
         /\ \A d \in Events :
              startAt < d /\ d < e /\ SamePartition(d, e) => Settled(d)
<1>0. MaxEvents \in Nat
  BY QueueAssumption DEF QueueAssumption
<1>1. startAt < e /\ e <= lastSeen /\ Routed(e)
  BY DEF Claimable, QueueInv, ItemsBelowCursor
<1>2. ASSUME NEW d \in Events, startAt < d, d < e, SamePartition(d, e)
      PROVE  Settled(d)
  <2>1. itemState[d] \notin NonTerminal /\ itemState[d] # "done"
    BY <1>2 DEF Claimable, QueueInv, ItemsBelowCursor
  <2>2. itemState[d] = "absent"
    BY <2>1 DEF QueueTypeOK, States, NonTerminal
  <2>3. d <= lastSeen /\ Routed(d)
    BY <1>0, <1>1, <1>2 DEF SamePartition, QueueTypeOK, Events
  <2> QED
    BY <1>2, <2>2, <2>3 DEF Settled
<1> QED
  BY <1>1, <1>2

LEMMA ClaimWorkItemInv ==
  ASSUME QueueTypeOK, QueueInv, NEW w \in Workers, NEW e \in Events,
         ClaimWorkItem(w, e)
  PROVE  QueueInv' /\ Quiet
<1> USE DEF QueueTypeOK
<1>1. /\ UNCHANGED <<head, subExists, epoch, startAt, lastSeen, claimedBy>>
      /\ subExists
      /\ itemState[e] \in {"pending", "claimed"}
      /\ itemState'[e] = "claimed"
      /\ \A d \in Events \ {e} : /\ itemState'[d] = itemState[d]
                                 /\ itemHolder'[d] = itemHolder[d]
  BY DEF ClaimWorkItem, Claimable, subVars
<1>2. \A d \in Events : Settled(d)' <=> Settled(d)
  BY <1>1 DEF Settled
<1>3. ItemsBelowCursor'
  BY <1>1 DEF QueueInv, ItemsBelowCursor
<1>4. CursorInLog'
  BY <1>1 DEF QueueInv, CursorInLog
<1>5. HoldersInv'
  BY <1>1 DEF QueueInv, HoldersInv
<1>6. ClaimedInOrder'
  <2>1. \A d \in Events :
          startAt < d /\ d < e /\ SamePartition(d, e) => Settled(d)
    BY ClaimableInOrder DEF ClaimWorkItem
  <2>2. ASSUME NEW f \in Events, itemState'[f] = "claimed", NEW d \in Events,
               startAt < d, d < f, SamePartition(d, f)
        PROVE  Settled(d)
    BY <1>1, <2>1, <2>2 DEF QueueInv, ClaimedInOrder
  <2> QED
    BY <1>1, <1>2, <2>2 DEF ClaimedInOrder, SamePartition, Routed
<1>7. Quiet
  BY <1>1, <1>2, QueueAssumption DEF Quiet, QueueAssumption
<1> QED
  BY <1>3, <1>4, <1>5, <1>6, <1>7 DEF QueueInv

\* An item that leaves 'claimed': to 'failed' nothing is settled, to no row at
\* all only this event is.
LEMMA UnclaimInv ==
  ASSUME QueueTypeOK, QueueInv, NEW e \in Events, NEW state \in {"failed", "absent"},
         subExists, itemHolder[e] # NoWorker, Unclaim(e, state)
  PROVE  /\ QueueInv'
         /\ state = "failed" => Quiet
         /\ \A d \in Events : Settled(d) => Settled(d)'
         /\ \A d \in Events : Settled(d)' => Settled(d) \/ d = e
<1> USE DEF QueueTypeOK
<1>1. /\ UNCHANGED <<head, subExists, epoch, startAt, lastSeen, claimedBy>>
      /\ itemState'[e] = state
      /\ itemHolder'[e] = NoWorker
      /\ \A d \in Events \ {e} : /\ itemState'[d] = itemState[d]
                                 /\ itemHolder'[d] = itemHolder[d]
  BY DEF Unclaim, subVars
<1>2. itemState[e] = "claimed"
  BY DEF QueueInv, HoldersInv
<1>3. \A d \in Events : Settled(d) => Settled(d)'
  BY <1>1, <1>2 DEF Settled
<1>4. ASSUME NEW d \in Events, Settled(d)'
      PROVE  Settled(d) \/ (d = e /\ state = "absent")
  <2>1. CASE d = e
    BY <1>1, <1>4, <2>1 DEF Settled
  <2>2. CASE d # e
    BY <1>1, <1>4, <2>2 DEF Settled
  <2> QED
    BY <2>1, <2>2
<1>5. ItemsBelowCursor'
  BY <1>1, <1>2 DEF QueueInv, ItemsBelowCursor
<1>6. CursorInLog'
  BY <1>1 DEF QueueInv, CursorInLog
<1>7. HoldersInv'
  BY <1>1 DEF QueueInv, HoldersInv
<1>8. ClaimedInOrder'
  BY <1>1, <1>3 DEF QueueInv, ClaimedInOrder, SamePartition, Routed
<1>9. state = "failed" => Quiet
  BY <1>1, <1>3, <1>4, QueueAssumption DEF Quiet, QueueAssumption
<1> QED
  BY <1>3, <1>4, <1>5, <1>6, <1>7, <1>8, <1>9 DEF QueueInv

(***************************************************************************)
(* What the processing workers know, and what was handled, after a step    *)
(* that settles nothing: such a step only takes workers out of the busy    *)
(* part of their loop and records what a busy worker handled.              *)
(***************************************************************************)
ProcessorInv == InHand /\ HandledInv /\ AtLeastOnce /\ PartitionOrder

LEMMA NothingSettled ==
  ASSUME TypeOK, ProcessorInv,
         Quiet \/ Afresh,
         epoch' \in Nat, lastSeen' \in Nat,
         UNCHANGED <<pItem, pEpoch>>,
         handled \subseteq handled',
         \A q \in Processors : Busy(q)' => Busy(q),
         \A q \in Processors :
           ppc'[q] = "complete" => <<pEpoch[q], pItem[q]>> \in handled',
         \A x \in handled' :
           x \in handled \/ \E q \in Processors : Busy(q) /\ x = <<pEpoch[q], pItem[q]>>,
         \A q \in Processors :
           Busy(q)' /\ itemHolder'[pItem[q]] = q => itemHolder[pItem[q]] = q
  PROVE  ProcessorInv'
<1> USE DEF TypeOK, QueueTypeOK, WorkerTypeOK
<1>0. MaxEpoch \in Nat /\ MaxEvents \in Nat /\ Processors \subseteq Workers /\ NoWorker \notin Workers
  BY QueueAssumption, DeliveryAssumption DEF QueueAssumption, DeliveryAssumption
<1>T. /\ epoch \in Nat /\ startAt \in Nat /\ lastSeen \in Nat
      /\ \A q \in Processors : pEpoch[q] \in Nat /\ pItem[q] \in Nat
  BY <1>0
<1>1. epoch <= epoch'
  BY <1>T DEF Quiet, Afresh
<1>2. \A q \in Processors :
        Busy(q) /\ pEpoch[q] = epoch' =>
          pEpoch[q] = epoch /\ subExists' /\ Quiet
  <2> SUFFICES ASSUME NEW q \in Processors, Busy(q), pEpoch[q] = epoch'
               PROVE  pEpoch[q] = epoch /\ subExists' /\ Quiet
    OBVIOUS
  <2>1. pEpoch[q] <= epoch
    BY DEF ProcessorInv, InHand
  <2>2. pEpoch[q] = epoch
    BY <1>T, <1>1, <2>1
  <2>3. subExists
    BY <2>2 DEF ProcessorInv, InHand
  <2>4. Quiet => subExists'
    BY <2>3 DEF Quiet
  <2>5. ~Afresh
    BY <1>T, <2>2, <2>3 DEF Afresh
  <2> QED
    BY <2>2, <2>4, <2>5
<1>3. InHand'
  <2> SUFFICES ASSUME NEW q \in Processors
               PROVE  /\ pEpoch[q] <= epoch'
                      /\ Busy(q)' => pItem[q] \in Events
                      /\ Busy(q)' /\ pEpoch[q] = epoch' =>
                           /\ subExists' /\ startAt' < pItem[q]
                           /\ pItem[q] <= lastSeen' /\ Routed(pItem[q])
                      /\ Busy(q)' /\ itemHolder'[pItem[q]] = q => pEpoch[q] = epoch'
                      /\ ppc'[q] = "complete" => <<pEpoch[q], pItem[q]>> \in handled'
    BY DEF InHand, Events, Routed
  <2>1. pEpoch[q] <= epoch'
    <3>1. pEpoch[q] <= epoch
      BY DEF ProcessorInv, InHand
    <3> QED
      BY <1>T, <1>1, <3>1
  <2>2. Busy(q)' => pItem[q] \in Events
    BY DEF ProcessorInv, InHand
  <2>3. Busy(q)' /\ pEpoch[q] = epoch' =>
          /\ subExists' /\ startAt' < pItem[q]
          /\ pItem[q] <= lastSeen' /\ Routed(pItem[q])
    <3> SUFFICES ASSUME Busy(q), pEpoch[q] = epoch'
                 PROVE  /\ subExists' /\ startAt' < pItem[q]
                        /\ pItem[q] <= lastSeen' /\ Routed(pItem[q])
      OBVIOUS
    <3>1. pEpoch[q] = epoch /\ subExists' /\ Quiet
      BY <1>2
    <3>2. startAt < pItem[q] /\ pItem[q] <= lastSeen /\ Routed(pItem[q])
      BY <3>1 DEF ProcessorInv, InHand
    <3>3. startAt' = startAt /\ lastSeen <= lastSeen' /\ lastSeen' \in Nat
      BY <3>1 DEF Quiet
    <3> QED
      BY <1>T, <3>1, <3>2, <3>3
  <2>4. Busy(q)' /\ itemHolder'[pItem[q]] = q => pEpoch[q] = epoch'
    <3> SUFFICES ASSUME Busy(q)', itemHolder'[pItem[q]] = q
                 PROVE  pEpoch[q] = epoch'
      OBVIOUS
    <3>1. Quiet
      BY <1>0, <2>2 DEF Afresh
    <3>2. pEpoch[q] = epoch
      BY DEF ProcessorInv, InHand
    <3> QED
      BY <3>1, <3>2 DEF Quiet
  <2> QED
    BY <2>1, <2>2, <2>3, <2>4
<1>4. HandledInv'
  <2> SUFFICES ASSUME NEW e \in Events, NEW k \in 0..MaxEpoch, <<k, e>> \in handled'
               PROVE  k <= epoch' /\ (k = epoch' => subExists')
    BY DEF HandledInv, Events
  <2>1. CASE <<k, e>> \in handled
    BY <1>0, <1>1, <2>1 DEF ProcessorInv, HandledInv, Quiet, Afresh
  <2>2. CASE \E q \in Processors : Busy(q) /\ <<k, e>> = <<pEpoch[q], pItem[q]>>
    <3>1. PICK q \in Processors : Busy(q) /\ k = pEpoch[q]
      BY <2>2
    <3>2. k <= epoch
      BY <3>1 DEF ProcessorInv, InHand
    <3> QED
      BY <1>0, <1>1, <1>2, <3>1, <3>2
  <2> QED
    BY <2>1, <2>2
<1>5. AtLeastOnce'
  <2> SUFFICES ASSUME NEW e \in Events, Settled(e)'
               PROVE  <<epoch', e>> \in handled'
    BY DEF AtLeastOnce, Events
  <2>1. Quiet
    BY DEF Afresh
  <2> QED
    BY <2>1 DEF Quiet, ProcessorInv, AtLeastOnce
<1>6. PartitionOrder'
  <2> SUFFICES ASSUME NEW q \in Processors, Busy(q)', pEpoch[q] = epoch',
                      NEW d \in Events,
                      startAt' < d, d < pItem[q], SamePartition(d, pItem[q])
               PROVE  Settled(d)'
    BY DEF PartitionOrder, Busy, Events, SamePartition, Routed
  <2>1. pEpoch[q] = epoch /\ Quiet
    BY <1>2
  <2> QED
    BY <2>1 DEF Quiet, ProcessorInv, PartitionOrder, Busy
<1> QED
  BY <1>3, <1>4, <1>5, <1>6 DEF ProcessorInv

\* The batch of a routing worker stays the next one as long as the cursor
\* stays and the lease goes to nobody else.
LEMMA BatchKept ==
  ASSUME TypeOK, BatchIsNext,
         head' \in Nat, head <= head', lastSeen' = lastSeen,
         UNCHANGED <<rFrom, rTo>>,
         \A r \in Routers : rpc'[r] \in {"read", "commit"} => rpc'[r] = rpc[r],
         claimedBy' \in {claimedBy, NoWorker}
  PROVE  BatchIsNext'
<1> SUFFICES ASSUME NEW r \in Routers
             PROVE  /\ rpc'[r] \in {"read", "commit"} /\ claimedBy' = r =>
                         rFrom[r] = lastSeen
                    /\ rpc'[r] = "commit" => rFrom[r] < rTo[r] /\ rTo[r] <= head'
  BY DEF BatchIsNext
<1>0. NoWorker \notin Routers /\ MaxEvents \in Nat
  BY QueueAssumption, DeliveryAssumption DEF QueueAssumption, DeliveryAssumption
<1>1. rpc'[r] \in {"read", "commit"} /\ claimedBy' = r => rFrom[r] = lastSeen
  BY <1>0 DEF BatchIsNext
<1>2. rTo[r] \in Nat /\ head \in Nat
  BY <1>0 DEF TypeOK, QueueTypeOK, WorkerTypeOK
<1>3. rpc'[r] = "commit" => rFrom[r] < rTo[r] /\ rTo[r] <= head'
  BY <1>2 DEF BatchIsNext
<1> QED
  BY <1>1, <1>3

\* Steps in which no processing worker moves.
LEMMA ProcessorsStay ==
  ASSUME IInv, QueueTypeOK', QueueInv', WorkerTypeOK', BatchIsNext',
         Quiet \/ Afresh,
         UNCHANGED <<ppc, pItem, pEpoch, handled>>,
         \A e \in Events : itemHolder'[e] \in {itemHolder[e], NoWorker}
  PROVE  IInv' /\ Effect
<1>1. epoch' \in Nat /\ lastSeen' \in Nat
  BY QueueAssumption DEF QueueTypeOK, QueueAssumption
<1>2. \A q \in Processors : Busy(q)' <=> Busy(q)
  BY DEF Busy
<1>3. \A q \in Processors :
        ppc'[q] = "complete" => <<pEpoch[q], pItem[q]>> \in handled'
  BY DEF IInv, WorkerInv, InHand
<1>4. \A q \in Processors :
        Busy(q)' /\ itemHolder'[pItem[q]] = q => itemHolder[pItem[q]] = q
  <2> SUFFICES ASSUME NEW q \in Processors, Busy(q)', itemHolder'[pItem[q]] = q
               PROVE  itemHolder[pItem[q]] = q
    OBVIOUS
  <2>1. pItem[q] \in Events
    BY <1>2 DEF IInv, WorkerInv, InHand
  <2> QED
    BY <2>1, QueueAssumption, DeliveryAssumption DEF QueueAssumption, DeliveryAssumption
<1>5. TypeOK /\ ProcessorInv
  BY DEF IInv, WorkerInv, ProcessorInv
<1>6. ProcessorInv'
  BY <1>1, <1>2, <1>3, <1>4, <1>5, NothingSettled
<1> QED
  BY <1>6 DEF IInv, TypeOK, WorkerInv, ProcessorInv, Effect

(***************************************************************************)
(* Every action of a routing worker preserves IInv.                        *)
(***************************************************************************)
\* The tables do not change.
LEMMA TablesKept ==
  ASSUME IInv, UNCHANGED queueVars
  PROVE  QueueTypeOK' /\ QueueInv' /\ Quiet
<1>1. QueueTypeOK'
  BY ProcedureTypes DEF IInv, TypeOK
<1>2. head' \in Nat /\ head <= head'
  BY QueueAssumption DEF IInv, TypeOK, QueueTypeOK, QueueAssumption, queueVars
<1> QED
  BY <1>1, <1>2, FrameInv DEF IInv, TypeOK, queueVars, subVars, itemVars

\* Actions that only look, or only move the loop.
LEMMA RouterMoves ==
  ASSUME IInv, NEW r \in Routers,
         \/ RouterReads(r) \/ RouterReadFails(r) \/ RouteFnThrows(r)
         \/ RouterLosesLease(r) \/ RouterReleaseFails(r)
         \/ StopRouter(r) \/ CrashRouter(r) \/ RestartRouter(r)
  PROVE  IInv' /\ Effect
<1> USE DEF MoveRouter
<1>1. UNCHANGED <<queueVars, processorVars>>
  BY DEF RouterReads, RouterReadFails, RouteFnThrows, RouterLosesLease,
         RouterReleaseFails, StopRouter, CrashRouter, RestartRouter
<1>2. QueueTypeOK' /\ QueueInv' /\ Quiet
  BY <1>1, TablesKept
<1>3. /\ head \in Nat /\ BatchSize \in Nat /\ BatchSize > 0
      /\ NoWorker \notin Routers /\ Routers \subseteq Workers
      /\ rFrom \in [Routers -> Nat] /\ rTo \in [Routers -> Nat]
      /\ rpc \in [Routers -> RouterSteps] /\ faults \in Nat /\ FaultCost \in Nat
  BY QueueAssumption, DeliveryAssumption
  DEF QueueAssumption, DeliveryAssumption, IInv, TypeOK, QueueTypeOK, WorkerTypeOK
<1>4. CASE RouterReads(r)
  <2> DEFINE last == IF head < rFrom[r] + BatchSize THEN head
                                                    ELSE rFrom[r] + BatchSize
  <2>1. CASE head > rFrom[r]
    <3>1. /\ rTo' = [rTo EXCEPT ![r] = last]
          /\ rpc' = [rpc EXCEPT ![r] = "commit"]
          /\ rFrom' = rFrom /\ rpc[r] = "read" /\ faults' = faults
      BY <2>1, <1>4 DEF RouterReads
    <3>2. last \in Nat /\ rFrom[r] < last /\ last <= head
      BY <2>1, <1>3
    <3> HIDE DEF last
    <3>3. BatchIsNext'
      BY <1>1, <1>3, <3>1, <3>2 DEF IInv, WorkerInv, BatchIsNext, queueVars, subVars
    <3>4. WorkerTypeOK'
      BY <1>1, <1>3, <3>1, <3>2 DEF IInv, TypeOK, WorkerTypeOK, processorVars, RouterSteps
    <3> QED
      BY <1>1, <1>2, <3>3, <3>4, ProcessorsStay
      DEF processorVars, queueVars, itemVars
  <2>2. CASE ~(head > rFrom[r])
    <3>1. rpc' = [rpc EXCEPT ![r] = "release"] /\ UNCHANGED <<rFrom, rTo, faults>>
      BY <2>2, <1>4 DEF RouterReads
    <3>2. BatchIsNext'
      BY <1>1, <1>3, <3>1, BatchKept DEF IInv, WorkerInv, queueVars, subVars
    <3>3. WorkerTypeOK'
      BY <1>1, <1>3, <3>1 DEF IInv, TypeOK, WorkerTypeOK, processorVars, RouterSteps
    <3> QED
      BY <1>1, <1>2, <3>2, <3>3, ProcessorsStay
      DEF processorVars, queueVars, itemVars
  <2> QED
    BY <2>1, <2>2
<1>5. CASE ~RouterReads(r)
  <2>1. /\ UNCHANGED <<rFrom, rTo>>
        /\ \E step \in {"release", "exit", "claim", "stopped"} :
             rpc' = [rpc EXCEPT ![r] = step]
        /\ faults' \in {faults, faults + FaultCost}
    BY <1>5 DEF RouterReadFails, RouteFnThrows, RouterLosesLease,
                RouterReleaseFails, StopRouter, CrashRouter, RestartRouter, Fault
  <2>2. BatchIsNext'
    BY <1>1, <1>3, <2>1, BatchKept DEF IInv, WorkerInv, queueVars, subVars
  <2>3. WorkerTypeOK'
    BY <1>1, <1>3, <2>1 DEF IInv, TypeOK, WorkerTypeOK, processorVars, RouterSteps
  <2> QED
    BY <1>1, <1>2, <2>2, <2>3, ProcessorsStay
    DEF processorVars, queueVars, itemVars
<1> QED
  BY <1>4, <1>5

\* RouterClaims and RouterClaimFails: the claim moves the lease to a worker
\* that has yet to read, or that stops.
LEMMA RouterTakesLease ==
  ASSUME IInv, NEW r \in Routers, RouterClaims(r) \/ RouterClaimFails(r)
  PROVE  IInv' /\ Effect
<1> USE DEF MoveRouter
<1>0. /\ NoWorker \notin Routers /\ Routers \subseteq Workers
      /\ rFrom \in [Routers -> Nat] /\ rTo \in [Routers -> Nat]
      /\ rpc \in [Routers -> RouterSteps] /\ faults \in Nat /\ FaultCost \in Nat
      /\ rpc[r] = "claim"
  BY QueueAssumption, DeliveryAssumption
  DEF QueueAssumption, DeliveryAssumption, IInv, TypeOK, WorkerTypeOK,
      RouterClaims, RouterClaimFails
<1>1. UNCHANGED processorVars
  BY DEF RouterClaims, RouterClaimFails
<1>2. CASE ClaimSubscription(r)
  <2>1. QueueTypeOK'
    BY <1>0, <1>2, ProcedureTypes DEF IInv, TypeOK
  <2>2. QueueInv' /\ (Quiet \/ Afresh)
    BY <1>0, <1>2, ClaimSubscriptionInv DEF IInv, TypeOK
  <2>3. claimedBy' = r /\ UNCHANGED <<head, itemHolder>>
    BY <1>2 DEF ClaimSubscription, itemVars
  <2>4. /\ rTo' = rTo
        /\ \/ rpc' = [rpc EXCEPT ![r] = "read"] /\ rFrom' = [rFrom EXCEPT ![r] = lastSeen']
           \/ rpc' = [rpc EXCEPT ![r] = "stopped"] /\ rFrom' = rFrom
        /\ faults' \in {faults, faults + FaultCost}
    BY DEF RouterClaims, RouterClaimFails, Fault
  <2>5. lastSeen' \in Nat
    BY <2>1 DEF QueueTypeOK
  <2>6. WorkerTypeOK'
    BY <1>0, <1>1, <2>4, <2>5 DEF IInv, TypeOK, WorkerTypeOK, processorVars, RouterSteps
  <2>7. BatchIsNext'
    BY <1>0, <2>3, <2>4 DEF IInv, WorkerInv, BatchIsNext
  <2> QED
    BY <1>1, <2>1, <2>2, <2>3, <2>6, <2>7, ProcessorsStay DEF processorVars
<1>3. CASE RouterClaimFails(r) /\ UNCHANGED queueVars
  <2>1. /\ UNCHANGED <<rFrom, rTo>> /\ rpc' = [rpc EXCEPT ![r] = "stopped"]
        /\ faults' = faults + FaultCost
    BY <1>3 DEF RouterClaimFails, Fault
  <2>2. QueueTypeOK' /\ QueueInv' /\ Quiet
    BY <1>3, TablesKept
  <2>3. WorkerTypeOK'
    BY <1>0, <1>1, <2>1 DEF IInv, TypeOK, WorkerTypeOK, processorVars, RouterSteps
  <2>4. head' \in Nat /\ head <= head'
    BY <1>3, QueueAssumption
    DEF queueVars, IInv, TypeOK, QueueTypeOK, QueueAssumption
  <2>5. BatchIsNext'
    BY <1>0, <1>3, <2>1, <2>4, BatchKept DEF IInv, WorkerInv, queueVars, subVars
  <2> QED
    BY <1>1, <1>3, <2>2, <2>3, <2>5, ProcessorsStay
    DEF processorVars, queueVars, itemVars
<1> QED
  BY <1>2, <1>3 DEF RouterClaims, RouterClaimFails

\* RouterCommits, RouterCommitFails, RouterReleases: route_batch succeeds only
\* for the holder, whose batch is the one after the cursor.
LEMMA RouterUsesLease ==
  ASSUME IInv, NEW r \in Routers,
         RouterCommits(r) \/ RouterCommitFails(r) \/ RouterReleases(r)
  PROVE  IInv' /\ Effect
<1> USE DEF MoveRouter
<1>0. /\ NoWorker \notin Routers /\ Routers \subseteq Workers /\ head \in Nat
      /\ rFrom \in [Routers -> Nat] /\ rTo \in [Routers -> Nat]
      /\ rpc \in [Routers -> RouterSteps] /\ faults \in Nat /\ FaultCost \in Nat
  BY QueueAssumption, DeliveryAssumption
  DEF QueueAssumption, DeliveryAssumption, IInv, TypeOK, QueueTypeOK, WorkerTypeOK
<1>1. /\ UNCHANGED <<processorVars, rFrom, rTo>>
      /\ \E step \in {"release", "stopped", "claim"} : rpc' = [rpc EXCEPT ![r] = step]
      /\ faults' \in {faults, faults + FaultCost}
      /\ rpc[r] = "commit" \/ ReleaseSubscription(r) \/ UNCHANGED queueVars
      /\ \/ RouteBatch(r, rFrom[r], rTo[r])
         \/ ReleaseSubscription(r)
         \/ UNCHANGED queueVars
  BY DEF RouterCommits, RouterCommitFails, RouterReleases, Fault
<1>2. WorkerTypeOK'
  BY <1>0, <1>1 DEF IInv, TypeOK, WorkerTypeOK, processorVars, RouterSteps
<1>3. CASE rpc[r] = "commit" /\ RouteBatch(r, rFrom[r], rTo[r])
  <2>1. claimedBy = r
    BY <1>3 DEF RouteBatch, HoldsSubscription
  <2>2. rFrom[r] = lastSeen /\ lastSeen < rTo[r] /\ rTo[r] <= head
    BY <1>3, <2>1 DEF IInv, WorkerInv, BatchIsNext
  <2>3. QueueTypeOK'
    BY <1>0, <1>3, ProcedureTypes DEF IInv, TypeOK
  <2>4. RouteBatch(r, lastSeen, rTo[r])
    BY <1>3, <2>2
  <2>5. QueueInv' /\ Quiet
    BY <1>0, <2>2, <2>4, RouteBatchInv DEF IInv, TypeOK
  <2>6. UNCHANGED <<head, claimedBy, itemHolder>>
    BY <1>3 DEF RouteBatch
  <2>7. BatchIsNext'
    BY <1>0, <1>1, <2>1, <2>6 DEF IInv, WorkerInv, BatchIsNext
  <2> QED
    BY <1>1, <1>2, <2>3, <2>5, <2>6, <2>7, ProcessorsStay DEF processorVars
<1>4. CASE ReleaseSubscription(r)
  <2>1. /\ UNCHANGED <<head, subExists, epoch, startAt, lastSeen, itemState, itemHolder>>
        /\ claimedBy' = NoWorker /\ subExists
    BY <1>4 DEF ReleaseSubscription, HoldsSubscription, itemVars
  <2>2. QueueTypeOK'
    BY <1>0, <1>4, ProcedureTypes DEF IInv, TypeOK
  <2>3. QueueInv' /\ Quiet
    BY <1>0, <2>1, FrameInv DEF IInv, TypeOK
  <2>4. BatchIsNext'
    BY <1>0, <1>1, <2>1, BatchKept DEF IInv, WorkerInv
  <2> QED
    BY <1>1, <1>2, <2>1, <2>2, <2>3, <2>4, ProcessorsStay DEF processorVars
<1>5. CASE UNCHANGED queueVars
  <2>1. QueueTypeOK' /\ QueueInv' /\ Quiet
    BY <1>5, TablesKept
  <2>2. BatchIsNext'
    BY <1>0, <1>1, <1>5, BatchKept DEF IInv, WorkerInv, queueVars, subVars
  <2> QED
    BY <1>1, <1>2, <1>5, <2>1, <2>2, ProcessorsStay
    DEF processorVars, queueVars, itemVars
<1> QED
  BY <1>1, <1>3, <1>4, <1>5

(***************************************************************************)
(* Every action of a processing worker preserves IInv.                     *)
(***************************************************************************)
\* claim_work_item gives p an event whose predecessors are all settled.
LEMMA ProcessorTakesItem ==
  ASSUME IInv, NEW p \in Processors, NEW e \in Events, ProcessorClaims(p, e)
  PROVE  IInv' /\ Effect
<1>0. /\ NoWorker \notin Workers /\ Processors \subseteq Workers /\ p \in Workers
      /\ MaxEvents \in Nat /\ MaxEpoch \in Nat
      /\ e \in 0..MaxEvents
  BY QueueAssumption, DeliveryAssumption
  DEF QueueAssumption, DeliveryAssumption, Events
<1>1. /\ UNCHANGED <<routerVars, halting, handled, faults>>
      /\ ppc' = [ppc EXCEPT ![p] = "read"]
      /\ pItem' = [pItem EXCEPT ![p] = e]
      /\ pEpoch' = [pEpoch EXCEPT ![p] = epoch]
      /\ ClaimWorkItem(p, e) /\ ppc[p] = "claim"
  BY DEF ProcessorClaims, MoveProcessor
<1>2. /\ UNCHANGED <<head, subExists, epoch, startAt, lastSeen, claimedBy>>
      /\ subExists /\ Claimable(e)
      /\ itemHolder' = [itemHolder EXCEPT ![e] = p]
  BY <1>1 DEF ClaimWorkItem, subVars
<1>3. QueueTypeOK'
  BY <1>0, <1>1, ProcedureTypes DEF IInv, TypeOK
<1>4. QueueInv' /\ Quiet
  BY <1>0, <1>1, ClaimWorkItemInv DEF IInv, TypeOK
<1>5. WorkerTypeOK'
  BY <1>0, <1>1, <1>2
  DEF IInv, TypeOK, QueueTypeOK, WorkerTypeOK, routerVars, ProcessorSteps
<1>6. BatchIsNext'
  BY <1>1, <1>2 DEF IInv, WorkerInv, BatchIsNext, routerVars
<1>7. /\ startAt < e /\ e <= lastSeen /\ Routed(e)
      /\ \A d \in Events : startAt < d /\ d < e /\ SamePartition(d, e) => Settled(d)
  BY <1>2, ClaimableInOrder DEF IInv, TypeOK
<1>8. /\ ppc \in [Processors -> ProcessorSteps]
      /\ pItem \in [Processors -> 0..MaxEvents] /\ pEpoch \in [Processors -> 0..MaxEpoch]
      /\ itemHolder \in [Events -> Workers \cup {NoWorker}] /\ epoch \in Nat
  BY <1>0 DEF IInv, TypeOK, QueueTypeOK, WorkerTypeOK
<1>9. InHand'
  <2> SUFFICES ASSUME NEW q \in Processors
               PROVE  /\ pEpoch'[q] <= epoch
                      /\ Busy(q)' => pItem'[q] \in Events
                      /\ Busy(q)' /\ pEpoch'[q] = epoch =>
                           /\ subExists /\ startAt < pItem'[q]
                           /\ pItem'[q] <= lastSeen /\ Routed(pItem'[q])
                      /\ Busy(q)' /\ itemHolder'[pItem'[q]] = q => pEpoch'[q] = epoch
                      /\ ppc'[q] = "complete" => <<pEpoch'[q], pItem'[q]>> \in handled
    BY <1>1, <1>2 DEF InHand, Events, Routed
  <2>1. CASE q = p
    BY <1>1, <1>2, <1>7, <1>8, <2>1
  <2>2. CASE q # p
    <3>1. /\ ppc'[q] = ppc[q] /\ pItem'[q] = pItem[q] /\ pEpoch'[q] = pEpoch[q]
          /\ Busy(q)' <=> Busy(q)
      BY <1>1, <1>8, <2>2 DEF Busy
    <3>2. itemHolder'[pItem[q]] = q => itemHolder[pItem[q]] = q \/ pItem[q] \notin Events
      BY <1>2, <1>8, <2>2
    <3> QED
      BY <1>1, <1>2, <3>1, <3>2 DEF IInv, WorkerInv, InHand
  <2> QED
    BY <2>1, <2>2
<1>10. HandledInv'
  BY <1>1, <1>2 DEF IInv, WorkerInv, HandledInv
<1>11. AtLeastOnce'
  BY <1>1, <1>2, <1>4 DEF IInv, AtLeastOnce, Quiet
<1>12. PartitionOrder'
  <2> SUFFICES ASSUME NEW q \in Processors, Busy(q)', pEpoch'[q] = epoch,
                      NEW d \in Events,
                      startAt < d, d < pItem'[q], SamePartition(d, pItem'[q])
               PROVE  Settled(d)
    BY <1>2, <1>4 DEF PartitionOrder, Busy, Events, SamePartition, Routed, Quiet
  <2>1. CASE q = p
    BY <1>1, <1>7, <1>8, <2>1
  <2>2. CASE q # p
    BY <1>1, <1>8, <2>2 DEF IInv, PartitionOrder, Busy
  <2> QED
    BY <2>1, <2>2
<1> QED
  BY <1>1, <1>3, <1>4, <1>5, <1>6, <1>9, <1>10, <1>11, <1>12
  DEF IInv, TypeOK, WorkerInv, Effect

\* The holder's completion settles an event that p has handled.
LEMMA ProcessorSettlesItem ==
  ASSUME IInv, NEW p \in Processors, ppc[p] = "complete",
         CompleteProjection(p, pItem[p]),
         NEW step \in {"claim", "stopped"}, ppc' = [ppc EXCEPT ![p] = step],
         UNCHANGED <<routerVars, pItem, pEpoch, halting, handled>>,
         faults' \in Nat
  PROVE  IInv' /\ Effect
<1> DEFINE e == pItem[p]
<1>0. /\ NoWorker \notin Workers /\ p \in Workers /\ MaxEvents \in Nat
      /\ e \in Events
      /\ ppc \in [Processors -> ProcessorSteps]
      /\ itemHolder \in [Events -> Workers \cup {NoWorker}]
  BY QueueAssumption, DeliveryAssumption
  DEF QueueAssumption, DeliveryAssumption, IInv, WorkerInv, InHand, Busy,
      TypeOK, QueueTypeOK, WorkerTypeOK
<1>1. subExists /\ itemHolder[e] = p /\ Unclaim(e, "absent")
  BY DEF CompleteProjection
<1>2. <<epoch, e>> \in handled
  BY <1>1 DEF IInv, WorkerInv, InHand, Busy
<1>3. /\ UNCHANGED <<head, subExists, epoch, startAt, lastSeen, claimedBy>>
      /\ itemHolder' = [itemHolder EXCEPT ![e] = NoWorker]
  BY <1>1 DEF Unclaim, subVars
<1> HIDE DEF e
<1>4. QueueTypeOK'
  BY <1>0, ProcedureTypes DEF IInv, TypeOK, e
<1>5. /\ QueueInv'
      /\ \A d \in Events : Settled(d) => Settled(d)'
      /\ \A d \in Events : Settled(d)' => Settled(d) \/ d = e
  BY <1>0, <1>1, UnclaimInv DEF IInv, TypeOK
<1>6. WorkerTypeOK'
  BY <1>0 DEF IInv, TypeOK, WorkerTypeOK, routerVars, ProcessorSteps
<1>7. BatchIsNext'
  BY <1>3 DEF IInv, WorkerInv, BatchIsNext, routerVars
<1>8. \A q \in Processors : /\ Busy(q)' => Busy(q)
                            /\ ppc'[q] = "complete" => ppc[q] = "complete"
  BY <1>0 DEF Busy
<1>9. InHand'
  <2> SUFFICES ASSUME NEW q \in Processors
               PROVE  /\ pEpoch[q] <= epoch
                      /\ Busy(q)' => pItem[q] \in Events
                      /\ Busy(q)' /\ pEpoch[q] = epoch =>
                           /\ subExists /\ startAt < pItem[q]
                           /\ pItem[q] <= lastSeen /\ Routed(pItem[q])
                      /\ Busy(q)' /\ itemHolder'[pItem[q]] = q => pEpoch[q] = epoch
                      /\ ppc'[q] = "complete" => <<pEpoch[q], pItem[q]>> \in handled
    BY <1>3 DEF InHand, Events, Routed
  <2>1. Busy(q)' /\ itemHolder'[pItem[q]] = q => itemHolder[pItem[q]] = q
    <3>1. q # NoWorker
      BY <1>0, DeliveryAssumption DEF DeliveryAssumption
    <3>2. Busy(q)' => pItem[q] \in Events
      BY <1>8 DEF IInv, WorkerInv, InHand
    <3> QED
      BY <1>0, <1>3, <3>1, <3>2
  <2> QED
    BY <1>8, <2>1 DEF IInv, WorkerInv, InHand
<1>10. HandledInv'
  BY <1>3 DEF IInv, WorkerInv, HandledInv
<1>11. AtLeastOnce'
  BY <1>2, <1>3, <1>5 DEF IInv, AtLeastOnce
<1>12. PartitionOrder'
  BY <1>3, <1>5, <1>8 DEF IInv, PartitionOrder, Busy, SamePartition, Routed
<1> QED
  BY <1>4, <1>5, <1>6, <1>7, <1>9, <1>10, <1>11, <1>12
  DEF IInv, TypeOK, WorkerInv, Effect

\* Actions of a processing worker that settle nothing and take no item.
LEMMA ProcessorMoves ==
  ASSUME IInv, NEW p \in Processors,
         \/ \E e \in Events : ClaimAnswerLost(p, e)
         \/ ProcessorReads(p) \/ ProcessorReadFails(p)
         \/ HandlerReturns(p) \/ HandlerGivesUp(p) \/ HandlerQuarantines(p)
         \/ ProcessorLosesItem(p)
         \/ HaltProcessor(p) \/ CrashProcessor(p) \/ RestartProcessor(p)
         \/ ppc[p] = "complete" /\ ProcessorCompleteFails(p) /\ UNCHANGED queueVars
  PROVE  IInv' /\ Effect
<1> USE DEF MoveProcessor, NextItem
<1>0. /\ NoWorker \notin Workers /\ p \in Workers /\ Processors \subseteq Workers
      /\ MaxEvents \in Nat /\ MaxEpoch \in Nat
      /\ ppc \in [Processors -> ProcessorSteps]
      /\ halting \in [Processors -> BOOLEAN]
      /\ itemHolder \in [Events -> Workers \cup {NoWorker}]
      /\ faults \in Nat /\ FaultCost \in Nat
      /\ pItem \in [Processors -> 0..MaxEvents] /\ pEpoch \in [Processors -> 0..MaxEpoch]
      /\ handled \subseteq (0..MaxEpoch) \X Events
  BY QueueAssumption, DeliveryAssumption
  DEF QueueAssumption, DeliveryAssumption, IInv, TypeOK, QueueTypeOK, WorkerTypeOK
<1>1. /\ UNCHANGED <<routerVars, pItem, pEpoch>>
      /\ faults' \in {faults, faults + FaultCost}
  BY DEF ClaimAnswerLost, ProcessorReads, ProcessorReadFails, HandlerReturns,
         HandlerGivesUp, HandlerQuarantines, ProcessorLosesItem, HaltProcessor,
         CrashProcessor, RestartProcessor, ProcessorCompleteFails, Fault, processorVars
<1>2. \/ UNCHANGED queueVars
      \/ ppc[p] = "claim" /\ ppc' = ppc /\ \E e \in Events : ClaimWorkItem(p, e)
      \/ FailWorkItem(p, pItem[p]) /\ ppc[p] = "handle"
  BY DEF ClaimAnswerLost, ProcessorReads, ProcessorReadFails, HandlerReturns,
         HandlerGivesUp, HandlerQuarantines, ProcessorLosesItem, HaltProcessor,
         CrashProcessor, RestartProcessor, processorVars
<1>3. \/ /\ handled' = handled
         /\ ppc' = ppc \/ \E step \in {"claim", "stopped"} : ppc' = [ppc EXCEPT ![p] = step]
      \/ /\ handled' = handled
         /\ ppc[p] = "read" /\ ppc' = [ppc EXCEPT ![p] = "handle"]
      \/ /\ handled' = handled \cup {<<pEpoch[p], pItem[p]>>}
         /\ ppc[p] = "handle" /\ ppc' = [ppc EXCEPT ![p] = "complete"]
  <2> USE <1>0
  <2>1. CASE HaltProcessor(p)
    BY <2>1 DEF HaltProcessor
  <2>2. CASE ~HaltProcessor(p)
    BY <2>2 DEF ClaimAnswerLost, ProcessorReads, ProcessorReadFails, HandlerReturns,
         HandlerGivesUp, HandlerQuarantines, ProcessorLosesItem,
         CrashProcessor, RestartProcessor, ProcessorCompleteFails, processorVars
  <2> QED
    BY <2>1, <2>2
<1>4. halting' = halting \/ \E b \in BOOLEAN : halting' = [halting EXCEPT ![p] = b]
  BY DEF ClaimAnswerLost, ProcessorReads, ProcessorReadFails, HandlerReturns,
         HandlerGivesUp, HandlerQuarantines, ProcessorLosesItem, HaltProcessor,
         CrashProcessor, RestartProcessor, ProcessorCompleteFails, processorVars
<1>5. /\ QueueTypeOK' /\ QueueInv' /\ Quiet
      /\ UNCHANGED <<head, lastSeen, claimedBy>>
      /\ \A q \in Processors :
           Busy(q) /\ itemHolder'[pItem[q]] = q => itemHolder[pItem[q]] = q
  <2>0. \A q \in Processors : Busy(q) => pItem[q] \in Events
    BY DEF IInv, WorkerInv, InHand
  <2>1. CASE UNCHANGED queueVars
    BY <2>1, TablesKept DEF queueVars, subVars, itemVars
  <2>2. CASE ppc[p] = "claim" /\ \E e \in Events : ClaimWorkItem(p, e)
    <3>1. PICK e \in Events : ClaimWorkItem(p, e)
      BY <2>2
    <3>2. QueueTypeOK'
      BY <1>0, <3>1, ProcedureTypes DEF IInv, TypeOK
    <3>3. QueueInv' /\ Quiet
      BY <1>0, <3>1, ClaimWorkItemInv DEF IInv, TypeOK
    <3>4. itemHolder' = [itemHolder EXCEPT ![e] = p]
      BY <3>1 DEF ClaimWorkItem
    <3>5. ~Busy(p)
      BY <2>2 DEF Busy
    <3>6. UNCHANGED <<head, lastSeen, claimedBy>>
      BY <3>1 DEF ClaimWorkItem, subVars
    <3> QED
      BY <1>0, <2>0, <3>2, <3>3, <3>4, <3>5, <3>6
  <2>3. CASE FailWorkItem(p, pItem[p]) /\ ppc[p] = "handle"
    <3>1. pItem[p] \in Events
      BY <2>0, <2>3 DEF Busy
    <3>2. subExists /\ itemHolder[pItem[p]] # NoWorker /\ Unclaim(pItem[p], "failed")
      BY <1>0, <2>3 DEF FailWorkItem
    <3>3. QueueTypeOK'
      BY <1>0, <2>3, <3>1, ProcedureTypes DEF IInv, TypeOK
    <3>4. QueueInv' /\ Quiet
      BY <3>1, <3>2, UnclaimInv DEF IInv, TypeOK
    <3>5. /\ itemHolder' = [itemHolder EXCEPT ![pItem[p]] = NoWorker]
          /\ UNCHANGED <<head, lastSeen, claimedBy>>
      BY <3>2 DEF Unclaim, subVars
    <3> QED
      BY <1>0, <2>0, <3>1, <3>3, <3>4, <3>5
  <2> QED
    BY <1>2, <2>1, <2>2, <2>3
<1>6. \A q \in Processors : Busy(q)' => Busy(q)
  BY <1>0, <1>3 DEF Busy
<1>7. Busy(p) => <<pEpoch[p], pItem[p]>> \in (0..MaxEpoch) \X Events
  BY <1>0 DEF IInv, WorkerInv, InHand
<1>8. WorkerTypeOK'
  BY <1>0, <1>1, <1>3, <1>4, <1>7
  DEF IInv, TypeOK, WorkerTypeOK, routerVars, ProcessorSteps, Busy
<1>9. \A q \in Processors :
        ppc'[q] = "complete" => <<pEpoch[q], pItem[q]>> \in handled'
  BY <1>0, <1>3 DEF IInv, WorkerInv, InHand
<1>10. /\ handled \subseteq handled'
       /\ \A x \in handled' :
            x \in handled \/ \E q \in Processors : Busy(q) /\ x = <<pEpoch[q], pItem[q]>>
  BY <1>3 DEF Busy
<1>11. epoch' \in Nat /\ lastSeen' \in Nat
  BY <1>0, <1>5 DEF QueueTypeOK
<1>12. ProcessorInv'
  BY <1>1, <1>5, <1>6, <1>9, <1>10, <1>11, NothingSettled
  DEF IInv, WorkerInv, ProcessorInv
<1>13. BatchIsNext'
  BY <1>1, <1>5 DEF IInv, WorkerInv, BatchIsNext, routerVars
<1>14. Effect
  <2>1. CASE HandlerReturns(p)
    BY <2>1 DEF Effect
  <2>2. CASE ~HandlerReturns(p)
    <3>1. handled' = handled
      BY <2>2 DEF ClaimAnswerLost, ProcessorReads, ProcessorReadFails,
           HandlerGivesUp, HandlerQuarantines, ProcessorLosesItem, HaltProcessor,
           CrashProcessor, RestartProcessor, ProcessorCompleteFails, processorVars
    <3> QED
      BY <1>5, <3>1 DEF Effect
  <2> QED
    BY <2>1, <2>2
<1> QED
  BY <1>5, <1>8, <1>12, <1>13, <1>14 DEF IInv, TypeOK, WorkerInv, ProcessorInv

(***************************************************************************)
(* The application, the operator, the clock and the heartbeat.             *)
(***************************************************************************)
LEMMA EnvironmentMoves ==
  ASSUME IInv,
         \/ Append \/ Operator \/ AbandonedLeaseExpires \/ LeaseLapses
         \/ \E e \in Events : AbandonedItemExpires(e)
         \/ \E p \in Processors : Heartbeat(p)
  PROVE  IInv' /\ Effect
<1>0. /\ NoWorker \notin Workers /\ NoWorker \notin Routers /\ Processors \subseteq Workers
      /\ MaxEvents \in Nat /\ head \in Nat
      /\ faults \in Nat /\ FaultCost \in Nat
      /\ halting \in [Processors -> BOOLEAN]
  BY QueueAssumption, DeliveryAssumption
  DEF QueueAssumption, DeliveryAssumption, IInv, TypeOK, QueueTypeOK, WorkerTypeOK
<1>1. /\ UNCHANGED <<routerVars, ppc, pItem, pEpoch, handled>>
      /\ faults' \in {faults, faults + FaultCost}
      /\ halting' = halting \/ \E p \in Processors : halting' = [halting EXCEPT ![p] = TRUE]
  BY DEF Append, Operator, AbandonedLeaseExpires, LeaseLapses, AbandonedItemExpires,
         Heartbeat, Fault, processorVars
<1>2. WorkerTypeOK'
  <2>1. halting' \in [Processors -> BOOLEAN]
    <3>1. CASE halting' = halting
      BY <1>0, <3>1
    <3>2. ASSUME NEW p \in Processors, halting' = [halting EXCEPT ![p] = TRUE]
          PROVE  halting' \in [Processors -> BOOLEAN]
      BY <1>0, <3>2
    <3> QED
      BY <1>1, <3>1, <3>2
  <2>2. faults' \in Nat
    BY <1>0, <1>1
  <2> QED
    BY <1>1, <2>1, <2>2 DEF IInv, TypeOK, WorkerTypeOK, routerVars
<1>3. \/ \E n \in Events : AppendToStream(n)
      \/ DeleteSubscription \/ RebuildSubscription
      \/ \E w \in Workers : ReleaseSubscription(w)
      \/ SubscriptionLeaseExpires
      \/ \E e \in Events : ItemLeaseExpires(e)
      \/ \E w \in Workers, e \in Events : ExtendWorkItemClaim(w, e)
      \/ \E w \in Workers \ Routers : ClaimSubscription(w)
      \/ UNCHANGED queueVars
  <2>1. CASE \E p \in Processors : Heartbeat(p)
    <3>1. PICK p \in Processors : Heartbeat(p)
      BY <2>1
    <3>2. pItem[p] \in Events
      BY <3>1 DEF Heartbeat, IInv, WorkerInv, InHand, Busy
    <3> QED
      BY <1>0, <3>1, <3>2 DEF Heartbeat
  <2>2. CASE ~\E p \in Processors : Heartbeat(p)
    BY <2>2 DEF Append, Operator, AbandonedLeaseExpires, LeaseLapses,
                AbandonedItemExpires
  <2> QED
    BY <2>1, <2>2
<1>4. CASE DeleteSubscription \/ RebuildSubscription
  <2>1. QueueTypeOK'
    BY <1>4, ProcedureTypes DEF IInv, TypeOK
  <2>2. QueueInv' /\ Afresh /\ claimedBy' = NoWorker
    BY <1>4, RestartInv DEF IInv, TypeOK
  <2>3. BatchIsNext'
    BY <1>0, <1>1, <2>2 DEF IInv, WorkerInv, BatchIsNext, routerVars, Afresh
  <2>4. \A e \in Events : itemHolder'[e] = NoWorker
    BY <2>2 DEF Afresh
  <2> QED
    BY <1>1, <1>2, <2>1, <2>2, <2>3, <2>4, ProcessorsStay
<1>5. ASSUME NEW w \in Workers \ Routers, ClaimSubscription(w)
      PROVE  IInv' /\ Effect
  <2>1. QueueTypeOK'
    BY <1>5, ProcedureTypes DEF IInv, TypeOK
  <2>2. QueueInv' /\ (Quiet \/ Afresh)
    BY <1>5, ClaimSubscriptionInv DEF IInv, TypeOK
  <2>3. claimedBy' = w /\ UNCHANGED <<head, itemHolder>>
    BY <1>5 DEF ClaimSubscription, itemVars
  <2>4. BatchIsNext'
    BY <1>1, <1>5, <2>3 DEF IInv, WorkerInv, BatchIsNext, routerVars
  <2> QED
    BY <1>1, <1>2, <2>1, <2>2, <2>3, <2>4, ProcessorsStay
<1>6. CASE ~(DeleteSubscription \/ RebuildSubscription)
           /\ ~\E w \in Workers \ Routers : ClaimSubscription(w)
  <2>1. QueueTypeOK'
    BY <1>3, <1>6, ProcedureTypes DEF IInv, TypeOK
  <2>2. /\ UNCHANGED <<subExists, epoch, startAt, lastSeen, itemState, itemHolder>>
        /\ claimedBy' \in {claimedBy, NoWorker}
        /\ subExists \/ claimedBy' = claimedBy
        /\ head' = head \/ \E n \in Events : head' = head + n
    BY <1>3, <1>6
    DEF AppendToStream, ReleaseSubscription, HoldsSubscription,
        SubscriptionLeaseExpires, ItemLeaseExpires, ExtendWorkItemClaim,
        queueVars, subVars, itemVars
  <2>3. head' \in Nat /\ head <= head'
    BY <1>0, <2>2 DEF Events
  <2>4. QueueInv' /\ Quiet
    BY <2>2, <2>3, FrameInv DEF IInv, TypeOK
  <2>5. BatchIsNext'
    BY <1>1, <2>2, <2>3, BatchKept DEF IInv, WorkerInv, routerVars
  <2> QED
    BY <1>1, <1>2, <2>1, <2>2, <2>4, <2>5, ProcessorsStay
<1> QED
  BY <1>4, <1>5, <1>6

-----------------------------------------------------------------------------
(***************************************************************************)
(* IInv is inductive.                                                      *)
(***************************************************************************)
LEMMA InitInv == Init => IInv
<1> SUFFICES ASSUME Init PROVE IInv
  OBVIOUS
<1>0. /\ MaxEvents \in Nat /\ MaxEpoch \in Nat /\ NoWorker \notin Workers
  BY QueueAssumption DEF QueueAssumption
<1>1. QueueTypeOK
  <2>1. /\ head \in 0..MaxEvents /\ epoch \in 0..MaxEpoch
        /\ startAt \in Nat /\ lastSeen \in Nat
    BY <1>0 DEF Init, QueueInit
  <2>2. /\ subExists \in BOOLEAN /\ claimLive \in BOOLEAN
        /\ claimedBy \in Workers \cup {NoWorker}
    BY DEF Init, QueueInit
  <2>3. /\ itemState \in [Events -> States]
        /\ itemHolder \in [Events -> Workers \cup {NoWorker}]
        /\ itemLive \in [Events -> BOOLEAN]
    BY DEF Init, QueueInit, States
  <2> QED
    BY <2>1, <2>2, <2>3 DEF QueueTypeOK
<1>2. WorkerTypeOK
  BY <1>0 DEF Init, WorkerTypeOK, RouterSteps, ProcessorSteps
<1>3. QueueInv
  BY DEF Init, QueueInit, QueueInv, ItemsBelowCursor, CursorInLog, HoldersInv,
         ClaimedInOrder
<1>4. WorkerInv
  BY DEF Init, QueueInit, WorkerInv, BatchIsNext, InHand, HandledInv, Busy
<1>5. AtLeastOnce /\ PartitionOrder
  BY DEF Init, QueueInit, AtLeastOnce, PartitionOrder, Settled
<1> QED
  BY <1>1, <1>2, <1>3, <1>4, <1>5 DEF IInv, TypeOK

LEMMA StepInv ==
  ASSUME IInv, Next
  PROVE  IInv' /\ Effect
<1>1. ASSUME NEW r \in Routers, RouterStep(r) \/ RouterFault(r) \/ RestartRouter(r)
      PROVE  IInv' /\ Effect
  BY <1>1, RouterMoves, RouterTakesLease, RouterUsesLease
  DEF RouterStep, RouterFault
<1>2. ASSUME NEW p \in Processors,
             ProcessorStep(p) \/ ProcessorFault(p) \/ RestartProcessor(p)
      PROVE  IInv' /\ Effect
  <2>0. faults \in Nat /\ FaultCost \in Nat
    BY DeliveryAssumption DEF DeliveryAssumption, IInv, TypeOK, WorkerTypeOK
  <2>1. CASE \E e \in Events : ProcessorClaims(p, e)
    BY <2>1, ProcessorTakesItem
  <2>2. CASE \/ ProcessorCompletes(p)
             \/ ProcessorCompleteFails(p) /\ CompleteProjection(p, pItem[p])
    <3>1. /\ ppc[p] = "complete" /\ CompleteProjection(p, pItem[p])
          /\ UNCHANGED <<routerVars, pItem, pEpoch, halting, handled>>
          /\ faults' \in {faults, faults + FaultCost}
          /\ \E step \in {"claim", "stopped"} : ppc' = [ppc EXCEPT ![p] = step]
      BY <2>2 DEF ProcessorCompletes, ProcessorCompleteFails, MoveProcessor, NextItem, Fault
    <3>2. faults' \in Nat
      BY <2>0, <3>1
    <3> QED
      BY <3>1, <3>2, ProcessorSettlesItem
  <2>3. CASE ProcessorCompleteFails(p) /\ UNCHANGED queueVars
    BY <2>3, ProcessorMoves DEF ProcessorCompleteFails
  <2> QED
    BY <1>2, <2>1, <2>2, <2>3, ProcessorMoves
    DEF ProcessorStep, ProcessorFault, ProcessorCompleteFails
<1> QED
  BY <1>1, <1>2, EnvironmentMoves DEF Next

\* What UNCHANGED vars leaves unchanged.
LEMMA StutterInv ==
  ASSUME IInv, UNCHANGED vars
  PROVE  IInv'
<1>1. UNCHANGED <<queueVars, routerVars, processorVars, faults>>
  BY DEF vars
<1>2. QueueTypeOK' /\ QueueInv' /\ Quiet
  BY <1>1, TablesKept
<1>3. WorkerTypeOK'
  BY <1>1 DEF IInv, TypeOK, WorkerTypeOK, routerVars, processorVars
<1>4. BatchIsNext'
  BY <1>1 DEF IInv, WorkerInv, BatchIsNext, routerVars, queueVars, subVars
<1> QED
  BY <1>1, <1>2, <1>3, <1>4, ProcessorsStay
  DEF processorVars, queueVars, itemVars

\* IInv, the inductive invariant, holds of every execution.
THEOREM Inductive == Spec => []IInv
<1>1. IInv /\ [Next]_vars => IInv'
  BY StepInv, StutterInv
<1> QED
  BY <1>1, InitInv, PTL DEF Spec

\* Every column and every loop variable keeps its type: no cursor below zero, no
\* state of a work item outside the CHECK constraint.
THEOREM TypeCorrect == Spec => []TypeOK
<1>1. IInv => TypeOK
  BY DEF IInv
<1> QED
  BY <1>1, Inductive, PTL

\* No event leaves the queue below the cursor without a normal return of its
\* handler in the current incarnation, whatever leases expire and workers crash
\* (route_batch and complete_work_item_projection).
THEOREM DeliversAtLeastOnce == Spec => []AtLeastOnce
<1>1. IInv => AtLeastOnce
  BY DEF IInv
<1> QED
  BY <1>1, Inductive, PTL

\* Nobody has an event of a partition in hand before the earlier events of the
\* partition are settled (the NOT EXISTS clause of claim_work_item).
THEOREM KeepsPartitionOrder == Spec => []PartitionOrder
<1>1. IInv => PartitionOrder
  BY DEF IInv
<1> QED
  BY <1>1, Inductive, PTL

(***************************************************************************)
(* From the invariant to what a step may do.                               *)
(***************************************************************************)
\* A completion settles exactly the event it completes.
LEMMA CompletionSettles ==
  ASSUME IInv, NEW p \in Processors, ppc[p] = "complete",
         CompleteProjection(p, pItem[p])
  PROVE  /\ pItem[p] \in Events /\ subExists
         /\ <<epoch, pItem[p]>> \in handled
         /\ ~Settled(pItem[p])
         /\ UNCHANGED <<head, subExists, epoch, startAt>>
         /\ \A d \in Events : Settled(d)' <=> (Settled(d) \/ d = pItem[p])
<1>0. pItem[p] \in Events /\ p # NoWorker
  BY QueueAssumption, DeliveryAssumption
  DEF QueueAssumption, DeliveryAssumption, IInv, WorkerInv, InHand, Busy
<1>1. PICK e \in Events : e = pItem[p]
  BY <1>0
<1>2. subExists /\ itemHolder[e] = p /\ Unclaim(e, "absent")
  BY <1>1 DEF CompleteProjection
<1>3. <<epoch, e>> \in handled
  BY <1>1, <1>2 DEF IInv, WorkerInv, InHand, Busy
<1>4. itemState[e] = "claimed"
  BY <1>0, <1>1, <1>2 DEF IInv, QueueInv, HoldersInv
<1>5. /\ UNCHANGED <<head, subExists, epoch, startAt, lastSeen>>
      /\ itemState' = [itemState EXCEPT ![e] = "absent"]
      /\ itemState \in [Events -> States]
  BY <1>2 DEF Unclaim, subVars, IInv, TypeOK, QueueTypeOK
<1>6. Settled(e)'
  <2>1. startAt < e /\ e <= lastSeen /\ Routed(e)
    BY <1>1, <1>4 DEF IInv, QueueInv, ItemsBelowCursor
  <2>2. itemState'[e] = "absent"
    BY <1>1, <1>5
  <2> QED
    BY <1>2, <1>5, <2>1, <2>2 DEF Settled, Routed
<1>7. /\ \A d \in Events : Settled(d) => Settled(d)'
      /\ \A d \in Events : Settled(d)' => Settled(d) \/ d = e
  BY <1>0, <1>1, <1>2, UnclaimInv DEF IInv, TypeOK
<1>8. ~Settled(e)
  BY <1>4 DEF Settled
<1>9. \A d \in Events : Settled(d)' <=> (Settled(d) \/ d = e)
  BY <1>6, <1>7
<1> QED
  BY <1>1, <1>2, <1>3, <1>5, <1>8, <1>9

\* A settled event stays settled for as long as the subscription is not deleted:
\* route_batch does not bring it back (the holder check, IS022).
THEOREM SettledIsFinal == Spec => NoResurrection
<1>1. IInv /\ [Next]_vars =>
        [\A e \in Events : Settled(e) /\ epoch' = epoch => Settled(e)']_vars
  <2> SUFFICES ASSUME IInv, Next, NEW e \in Events, Settled(e), epoch' = epoch
               PROVE  Settled(e)'
    OBVIOUS
  <2>1. Effect
    BY StepInv
  <2>2. CASE Quiet
    BY <2>2 DEF Quiet
  <2>3. CASE Afresh
    BY <2>3, QueueAssumption
    DEF Afresh, Settled, IInv, TypeOK, QueueTypeOK, QueueAssumption
  <2>4. CASE \E p \in Processors : HandlerReturns(p)
    BY <2>4 DEF HandlerReturns, Settled, queueVars, subVars, itemVars
  <2>5. CASE \E p \in Processors :
               ppc[p] = "complete" /\ CompleteProjection(p, pItem[p])
    BY <2>5, CompletionSettles
  <2> QED
    BY <2>1, <2>2, <2>3, <2>4, <2>5 DEF Effect
<1> QED
  BY <1>1, Inductive, PTL DEF Spec, NoResurrection

-----------------------------------------------------------------------------
(***************************************************************************)
(* Delivery implements OrderedDelivery.                                    *)
(***************************************************************************)
deliveredBar == {e \in Events : subExists /\ <<epoch, e>> \in handled}

settledBar == {e \in Events : Settled(e)}

LEMMA RefinementStep ==
  ASSUME IInv, Next
  PROVE  OD!ODNext \/ UNCHANGED OD!odVars
<1> USE DEF Events
<1>0. MaxEvents \in Nat /\ MaxEpoch \in Nat /\ head \in Nat /\ epoch \in Nat
  BY QueueAssumption DEF QueueAssumption, IInv, TypeOK, QueueTypeOK
<1>1. IInv' /\ Effect
  BY StepInv
<1>2. head' \in 0..MaxEvents /\ startAt' \in Nat /\ subExists' \in BOOLEAN /\ epoch' \in 0..MaxEpoch
  BY <1>1 DEF IInv, TypeOK, QueueTypeOK
<1>3. CASE Quiet /\ handled' = handled
  <2>1. head' \in head..MaxEvents
    BY <1>0, <1>2, <1>3 DEF Quiet
  <2>2. UNCHANGED <<subExists, startAt, deliveredBar, settledBar>>
    BY <1>3 DEF Quiet, deliveredBar, settledBar
  <2> QED
    BY <2>1, <2>2 DEF OD!ODNext, OD!Publish, deliveredBar, settledBar
<1>4. CASE Afresh /\ handled' = handled
  <2>1. settledBar' = {}
    BY <1>4 DEF Afresh, settledBar
  <2>2. deliveredBar' = {}
    <3> SUFFICES ASSUME NEW e \in Events, subExists', <<epoch', e>> \in handled
                 PROVE  FALSE
      BY <1>4 DEF deliveredBar
    <3>1. epoch' <= epoch /\ (epoch' = epoch => subExists)
      BY <1>2 DEF IInv, WorkerInv, HandledInv
    <3> QED
      BY <1>0, <1>2, <1>4, <3>1 DEF Afresh
  <2> QED
    BY <1>2, <1>4, <2>1, <2>2
    DEF Afresh, OD!ODNext, OD!Restart, deliveredBar, settledBar
<1>5. ASSUME NEW p \in Processors, HandlerReturns(p)
      PROVE  OD!ODNext \/ UNCHANGED OD!odVars
  <2>0. Busy(p)
    BY <1>5 DEF HandlerReturns, Busy
  <2>1. PICK e \in Events : e = pItem[p]
    BY <2>0 DEF IInv, WorkerInv, InHand
  <2>2. /\ UNCHANGED <<head, subExists, epoch, startAt, settledBar>>
        /\ handled' = handled \cup {<<pEpoch[p], e>>}
    BY <1>5, <2>1 DEF HandlerReturns, queueVars, subVars, itemVars, settledBar, Settled
  <2>3. CASE pEpoch[p] = epoch
    <3>1. subExists /\ startAt < e /\ e <= lastSeen /\ Routed(e)
      BY <2>0, <2>1, <2>3 DEF IInv, WorkerInv, InHand
    <3>2. e <= head
      BY <1>0, <2>1, <3>1 DEF IInv, QueueInv, CursorInLog, TypeOK, QueueTypeOK
    <3>3. \A d \in Events :
            startAt < d /\ d < e /\ RouteOf[d] = RouteOf[e] => Settled(d)
      BY <2>0, <2>1, <2>3, <3>1 DEF IInv, PartitionOrder, Busy, SamePartition, Routed
    <3>4. deliveredBar' = deliveredBar \cup {e}
      BY <2>2, <2>1, <2>3, <3>1 DEF deliveredBar
    <3>5. OD!Predecessors(e) \subseteq settledBar
      BY <3>3 DEF OD!Predecessors, settledBar
    <3>6. OD!Deliver(e)
      BY <2>2, <3>1, <3>2, <3>4, <3>5
      DEF OD!Deliver, deliveredBar, settledBar, Routed
    <3> QED
      BY <2>1, <3>6 DEF OD!ODNext
  <2>4. CASE pEpoch[p] # epoch
    <3>1. deliveredBar' = deliveredBar
      BY <2>2, <2>4 DEF deliveredBar
    <3>2. OD!odVars = <<head, subExists, startAt, deliveredBar, settledBar>>
      BY DEF OD!odVars, deliveredBar, settledBar
    <3>3. OD!odVars' = <<head', subExists', startAt', deliveredBar', settledBar'>>
      BY DEF OD!odVars, deliveredBar, settledBar
    <3>4. UNCHANGED OD!odVars
      BY <2>2, <3>1, <3>2, <3>3
    <3> QED
      BY <3>4
  <2> QED
    BY <2>3, <2>4
<1>6. ASSUME NEW p \in Processors, ppc[p] = "complete",
             CompleteProjection(p, pItem[p]), handled' = handled
      PROVE  OD!ODNext
  <2>1. /\ pItem[p] \in Events /\ subExists
        /\ <<epoch, pItem[p]>> \in handled
        /\ ~Settled(pItem[p])
        /\ UNCHANGED <<head, subExists, epoch, startAt>>
        /\ \A d \in Events : Settled(d)' <=> (Settled(d) \/ d = pItem[p])
    BY <1>6, CompletionSettles
  <2>2. deliveredBar' = deliveredBar /\ pItem[p] \in deliveredBar \ settledBar
    BY <1>6, <2>1 DEF deliveredBar, settledBar
  <2>3. settledBar' = settledBar \cup {pItem[p]}
    BY <2>1 DEF settledBar
  <2>4. OD!Settle(pItem[p])
    BY <2>1, <2>2, <2>3 DEF OD!Settle, deliveredBar, settledBar
  <2> QED
    BY <2>1, <2>4 DEF OD!ODNext
<1> QED
  BY <1>1, <1>3, <1>4, <1>5, <1>6 DEF Effect

\* A stutter of the detailed specification stutters in the abstract one.
LEMMA RefinementStutter ==
  UNCHANGED vars => UNCHANGED OD!odVars
BY DEF vars, queueVars, subVars, itemVars, processorVars, OD!odVars, Settled, Routed

\* Routing and processing workers over the two tables implement the promise to
\* the subscriber: each event delivered at least once, settled once, and within a
\* partition delivered only after all the earlier ones are settled.
THEOREM ImplementsOrderedDelivery == Spec => KeepsPromise
<1>1. Init => OD!ODInit
  BY DEF Init, QueueInit, OD!ODInit, Settled
<1>2. IInv /\ [Next]_vars => [OD!ODNext]_(OD!odVars)
  BY RefinementStep, RefinementStutter
<1> QED
  BY <1>1, <1>2, Inductive, PTL DEF Spec, KeepsPromise, OD!ODSpec
=============================================================================

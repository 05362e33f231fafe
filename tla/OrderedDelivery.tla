--------------------------- MODULE OrderedDelivery --------------------------
(***************************************************************************)
(* What a subscription promises its subscriber, whatever routes the events *)
(* and whoever runs the handlers (docs/guarantees.md, "What subscribers    *)
(* see"): every event the subscription is responsible for is delivered at  *)
(* least once and settled once, and within a partition an event is not     *)
(* delivered before all the earlier ones are settled.                      *)
(***************************************************************************)
EXTENDS Integers

CONSTANTS
  MaxEvents,    \* bound on the events published
  RouteOf,      \* partition of each event, or Ignore
  Ignore        \* the event is not for this subscriber

VARIABLES
  published,    \* highest event number published
  active,       \* the subscription exists
  from,         \* it is responsible for the events after this one
  delivered,    \* events whose handler has returned normally
  settled       \* events that will not be delivered to a new handler any more

odVars == <<published, active, from, delivered, settled>>

\* The events of its partition that come before e.
Predecessors(e) ==
  {d \in 1..MaxEvents : from < d /\ d < e /\ RouteOf[d] = RouteOf[e]}

ODInit ==
  /\ published = 0
  /\ active = FALSE
  /\ from = 0
  /\ delivered = {}
  /\ settled = {}

Publish ==
  /\ published' \in published..MaxEvents
  /\ UNCHANGED <<active, from, delivered, settled>>

\* Delivery may be repeated, also of an event that is settled already.
Deliver(e) ==
  /\ active
  /\ from < e /\ e <= published
  /\ RouteOf[e] # Ignore
  /\ Predecessors(e) \subseteq settled
  /\ delivered' = delivered \cup {e}
  /\ UNCHANGED <<published, active, from, settled>>

Settle(e) ==
  /\ e \in delivered \ settled
  /\ settled' = settled \cup {e}
  /\ UNCHANGED <<published, active, from, delivered>>

\* The subscription is created, deleted or rebuilt: it starts afresh.
Restart ==
  /\ active' \in BOOLEAN
  /\ from' \in Nat
  /\ delivered' = {}
  /\ settled' = {}
  /\ UNCHANGED published

ODNext ==
  \/ Publish
  \/ \E e \in 1..MaxEvents : Deliver(e) \/ Settle(e)
  \/ Restart

ODSpec == ODInit /\ [][ODNext]_odVars
=============================================================================

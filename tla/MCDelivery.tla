----------------------------- MODULE MCDelivery -----------------------------
(* Instances of Delivery for TLC. *)
EXTENDS Delivery, FiniteSets, TLC

CONSTANTS r1, r2, p1, p2, op, A, B

\* Two events of one partition, and with one of another and an ignored one
\* between them.
RouteAA   == (1 :> A) @@ (2 :> A)
RouteAIBA == (1 :> A) @@ (2 :> Ignore) @@ (3 :> B) @@ (4 :> A)

Symmetry == Permutations(Routers) \cup Permutations(Processors)
=============================================================================

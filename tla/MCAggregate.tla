---------------------------- MODULE MCAggregate -----------------------------
(* Instances of Aggregate for TLC. *)
EXTENDS Aggregate, TLC

CONSTANTS d1, d2

\* A roll-out: d2 runs the next module version.
RollOut == (d1 :> "v1") @@ (d2 :> "v2")
SameVersion == (d1 :> "v1") @@ (d2 :> "v1")

exact(version) == [kind |-> "exact", version |-> version]

\* Expectations that pin the version a command was decided on, and others.
Pinning    == {[kind |-> "noStream"], exact(0)}
NotPinning == {[kind |-> "any"], [kind |-> "streamExists"], exact(1)}
=============================================================================

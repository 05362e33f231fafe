-------------------------- MODULE MCProcessManager --------------------------
(* Instances of ProcessManager for TLC: a process manager that sends no    *)
(* commands, and whose instances end at their final event.                 *)
EXTENDS ProcessManager, TLC

CONSTANTS w1, w2, p1

OneVersion == (w1 :> "v1") @@ (w2 :> "v1")

\* An instance that ends, and an event after its end.
EndAndAfter == <<"final", "step">>

\* An instance that does not end.
Step == <<"step">>

ToOnePartition(e) == p1

EndsAtFinal(folded, e) == [commands |-> <<>>, complete |-> e = "final"]

Nothing(events, c) == Throws
=============================================================================

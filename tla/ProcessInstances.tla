-------------------------- MODULE ProcessInstances --------------------------
(***************************************************************************)
(* What the subscription of a process manager promises its instances,      *)
(* whatever becomes of the workers (docs/invariants.md, INV-SUB-W-010,     *)
(* INV-SUB-W-021 and INV-SUB-W-022): the events are routed once each and   *)
(* in order; an instance absorbs the earliest of those that wait for it,   *)
(* and when it ends, what it absorbed and what waits are gone.             *)
(***************************************************************************)
EXTENDS Integers

CONSTANT Partitions    \* the instances' keys

VARIABLES
  routed,     \* the last event that was routed
  waiting,    \* of each instance, the events it has yet to absorb
  absorbed    \* of each instance, the events it has absorbed

piVars == <<routed, waiting, absorbed>>

Empty == [p \in Partitions |-> {}]

Afresh == routed = 0 /\ waiting = Empty /\ absorbed = Empty

\* The next event waits for one instance, or is for none.
Route ==
  /\ routed' = routed + 1
  /\ \/ UNCHANGED waiting
     \/ \E p \in Partitions : waiting' = [waiting EXCEPT ![p] = @ \cup {routed'}]
  /\ UNCHANGED absorbed

Absorb(p, n) ==
  /\ n \in waiting[p] /\ \A m \in waiting[p] : n <= m
  /\ waiting' = [waiting EXCEPT ![p] = @ \ {n}]
  /\ absorbed' = [absorbed EXCEPT ![p] = @ \cup {n}]
  /\ UNCHANGED routed

End(p) ==
  /\ waiting' = [waiting EXCEPT ![p] = {}]
  /\ absorbed' = [absorbed EXCEPT ![p] = {}]
  /\ UNCHANGED routed

\* The subscription is rebuilt.
Restart == Afresh'

PINext ==
  \/ Route
  \/ \E p \in Partitions : End(p) \/ \E n \in waiting[p] : Absorb(p, n)
  \/ Restart

PISpec == Afresh /\ [][PINext]_piVars
=============================================================================

--------------------------- MODULE AtomicCommands ---------------------------
(***************************************************************************)
(* What an aggregate promises its callers (docs/invariants.md, AGG): a     *)
(* command that appends is one step, decided on every event of the stream. *)
(***************************************************************************)
EXTENDS Integers, Sequences

CONSTANTS
  Dispatchers,   \* callers of runCommand
  Sizes          \* events that a command may produce

VARIABLE stream  \* the aggregate's events, see Batch

\* The events of a command of d that was decided on the first "seen" events.
Batch(d, seen, n) == [k \in 1..n |-> [by |-> d, seen |-> seen, k |-> k]]

Decide(d, n) == stream' = stream \o Batch(d, Len(stream), n)

AtomicSpec ==
  stream = <<>> /\ [][\E d \in Dispatchers, n \in Sizes : Decide(d, n)]_stream
=============================================================================

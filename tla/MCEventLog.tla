----------------------------- MODULE MCEventLog -----------------------------
(* Instances of EventLog for TLC. *)
EXTENDS EventLog, TLC

CONSTANTS c1, c2, c3, sA, sB, i1, i2, i3

Ask(st, expects, v, ids) ==
  [stream |-> st, expects |-> expects, version |-> v, ids |-> ids]

\* Every kind of expectation, on two streams, with a batch of two and an id
\* that is sent twice.
MixedRequests ==
  { Ask(sA, "exact", 0, <<i1>>),
    Ask(sA, "exact", 1, <<i2>>),
    Ask(sA, "no_stream", 0, <<i3>>),
    Ask(sB, "any", 0, <<i2, i3>>),
    Ask(sB, "stream_exists", 0, <<i1>>) }
=============================================================================

--------------------------- MODULE MCTransferSaga ---------------------------
(* An instance of TransferSaga for TLC. *)
EXTENDS TransferSaga, TLC

CONSTANTS w1, w2

\* A new version of the process manager is rolled out.
RollOut == (w1 :> "v1") @@ (w2 :> "v2")

\* Alice has enough for one of two transfers; the first has been requested.
Funded == <<AccountOpened("alice"), AccountDepositedTo("alice", 1, Direct),
            AccountOpened("bob"), TransferRequested("t1", "alice", "bob", 1)>>

SecondTransfer == {RequestTransfer("t2", "alice", "bob", 1)}

\* The accounts are open; a transfer of what alice has, or of more.
OpenAccounts == <<AccountOpened("alice"), AccountDepositedTo("alice", 1, Direct),
                  AccountOpened("bob")>>

EitherTransfer == {RequestTransfer("t1", "alice", "bob", x) : x \in 1..2}

\* What the theorems of TransferSagaProofs assume of the log at the start:
\* clients dispatched it.
ClientCommands ==
  {OpenAccount(a) : a \in Accounts}
    \cup {DepositToAccount(a, 1, Direct) : a \in Accounts}
    \cup {RequestTransfer(t, "alice", "bob", 1) : t \in Transfers}

ASSUME OpeningDispatched ==
  \A n \in 1..Len(Opening) : \E c \in ClientCommands :
    RunCommand(SubSeq(Opening, 1, n - 1), c) = <<Opening[n]>>
=============================================================================

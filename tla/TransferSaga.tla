---------------------------- MODULE TransferSaga ----------------------------
(***************************************************************************)
(* The money transfer of examples/typescript/bank-account: its process     *)
(* manager (ProcessManager) over its aggregates (Bank), as scripts/        *)
(* workers.ts runs them in several processes.                              *)
(***************************************************************************)
EXTENDS ProcessManager

CONSTANTS
  NoRow, Direct,   \* of Bank
  Accounts,        \* accountIds
  Transfers        \* transferIds

INSTANCE Bank

\* Identifiers are UUIDs, and a transfer's is its partition key.
ASSUME SagaAssumption ==
  /\ Direct \notin Transfers
  /\ Accounts \cap Transfers = {} /\ Ignore \notin Accounts
  /\ Transfers \subseteq Partitions
  /\ NoRow \notin [balance : Int, last : Nat]
  /\ NoRow \notin [status : {"requested", "completed", "failed"}, last : Nat]

\* The events of a type that a transfer has in the log.
Has(t, type) ==
  {n \in 1..Len(log) : log[n].event.type = type /\ log[n].event.transfer = t}

\* The outcome on the Transfer's stream is what happened to the money: what is
\* completed was debited and credited, what failed was refused, and nothing is
\* both.  Without a fault, what failed was not debited (README of the example,
\* "Compensation via refusal").
OutcomesAreTrue ==
  \A t \in Transfers :
    LET completed == Has(t, "TransferCompleted") # {}
        failed    == Has(t, "TransferFailed") # {}
        debited   == Has(t, "AccountWithdrawnFrom") # {}
        credited  == Has(t, "AccountDepositedTo") # {}
    IN /\ ~(completed /\ failed)
       /\ completed => debited /\ credited
       /\ failed => Has(t, "AccountWithdrawalRefused") # {}
       /\ failed /\ debited => faults > 0

\* A projection's row once it has handled the whole log (Instructed shows what
\* a redelivery does to it).
Projected(routeFn(_), handler(_, _, _), key) ==
  LET row[n \in 0..Len(log)] ==
        IF n = 0 THEN NoRow
        ELSE IF routeFn(Events[n]) = key THEN handler(row[n - 1], n, Events[n])
        ELSE row[n - 1]
  IN row[Len(log)]

\* The read models tell what the aggregates decide by: the balance of every
\* account and the stage of every transfer, computed by other code from the
\* same events (projections/*/projection.ts, aggregates/*.ts).
ReadModelsAgree ==
  /\ \A a \in Accounts :
       LET row == Projected(balancesRouteFn, balancesHandler, a)
       IN IF row = NoRow THEN Account(Events, a) = NewAccount
          ELSE Account(Events, a) = [opened |-> TRUE, balance |-> row.balance]
  /\ \A t \in Transfers :
       LET row == Projected(transfersRouteFn, transfersHandler, t)
       IN Transfer(Events, t) = IF row = NoRow THEN "none" ELSE row.status

\* "Every transfer stream has a terminal outcome event" (README of the example,
\* which says it of all): true between open accounts, whatever process is lost
\* on the way. The deposit into one that is not open throws for ever.
EveryTransferEnds ==
  \A t \in Transfers :
    Has(t, "TransferRequested") # {}
      ~> Has(t, "TransferCompleted") \cup Has(t, "TransferFailed") # {}
=============================================================================

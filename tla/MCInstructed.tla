---------------------------- MODULE MCInstructed ----------------------------
(* An instance of Instructed for TLC. *)
EXTENDS Instructed, TLC

CONSTANTS a1, a2, c1

Balances == [stream |-> All, name |-> "Balances"]
Sweep    == [stream |-> "alice", name |-> "Sweep"]
Both     == {Balances, Sweep}

Aggregate(type) == [kind |-> "aggregate", type |-> type]
Router          == [kind |-> "router"]
Manager(sub)    == [kind |-> "processManager", type |-> sub.name, stream |-> sub.stream]
Projection(sub) == [kind |-> "projection", type |-> sub.name, stream |-> sub.stream,
                    partitionBy |-> None, routeFn |-> "routeFn"]

\* One process runs the projection and a process manager, the other the
\* projection alone.
Processes ==
  (a1 :> <<Aggregate("Account"), Router, Projection(Balances), Manager(Sweep)>>)
    @@ (a2 :> <<Aggregate("Account"), Projection(Balances)>>)

RouteOf(s, e) ==
  IF s = Balances THEN balancesRouteFn(e)
  ELSE IF e.type = "AccountDepositedTo" THEN e.account ELSE Ignore

HandlerOf(s, row, n, e) == IF s = Balances THEN balancesHandler(row, n, e) ELSE row

\* Sweep withdraws what was deposited, and waits for itself.
SweepBack(s, e) ==
  IF s = Sweep
    THEN [command |-> WithdrawFromAccount(e.account, e.amount, Direct, Direct),
          type |-> None, consistency |-> {Sweep}]
    ELSE None

Opened == <<AccountOpened("alice")>>

\* A deposit that waits for the balances, one named without the router whose
\* wait is refused, and a command of an aggregate nobody registered.
Requests ==
  {[command |-> DepositToAccount("alice", 1, Direct), type |-> None,
    consistency |-> {Balances}],
   [command |-> OpenAccount("bob"), type |-> "Account",
    consistency |-> {Sweep}],
   [command |-> MarkTransferFailed("t1"), type |-> "Transfer", consistency |-> {}]}
=============================================================================

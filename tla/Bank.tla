-------------------------------- MODULE Bank --------------------------------
(***************************************************************************)
(* The domain of examples/typescript/bank-account: the two aggregates, the *)
(* command router, the process manager's functions and the projections'    *)
(* handlers, all of them pure.  Owners and refusal reasons are left out,   *)
(* and the stage of a process manager, which its handle does not read.     *)
(***************************************************************************)
EXTENDS Integers, Sequences

CONSTANTS
  Throws,   \* a function of the domain throws
  Ignore,   \* 'ignore'
  NoRow,    \* a read store has no row
  Direct    \* transferId is undefined

(***************************************************************************)
(* Events and commands (src/events, src/commands).                         *)
(***************************************************************************)
AccountOpened(a) == [type |-> "AccountOpened", account |-> a]

AccountDepositedTo(a, amount, t) ==
  [type |-> "AccountDepositedTo", account |-> a, amount |-> amount, transfer |-> t]

AccountWithdrawnFrom(a, amount, t, to) ==
  [type |-> "AccountWithdrawnFrom", account |-> a, amount |-> amount,
   transfer |-> t, to |-> to]

AccountWithdrawalRefused(a, amount, t) ==
  [type |-> "AccountWithdrawalRefused", account |-> a, amount |-> amount,
   transfer |-> t]

TransferRequested(t, from, to, amount) ==
  [type |-> "TransferRequested", transfer |-> t, from |-> from, to |-> to,
   amount |-> amount]

TransferCompleted(t) == [type |-> "TransferCompleted", transfer |-> t]
TransferFailed(t)    == [type |-> "TransferFailed", transfer |-> t]

OpenAccount(a) == [type |-> "OpenAccount", account |-> a]

DepositToAccount(a, amount, t) ==
  [type |-> "DepositToAccount", account |-> a, amount |-> amount, transfer |-> t]

WithdrawFromAccount(a, amount, t, to) ==
  [type |-> "WithdrawFromAccount", account |-> a, amount |-> amount,
   transfer |-> t, to |-> to]

RequestTransfer(t, from, to, amount) ==
  [type |-> "RequestTransfer", transfer |-> t, from |-> from, to |-> to,
   amount |-> amount]

MarkTransferCompleted(t) == [type |-> "MarkTransferCompleted", transfer |-> t]
MarkTransferFailed(t)    == [type |-> "MarkTransferFailed", transfer |-> t]

AccountEvents == {"AccountOpened", "AccountDepositedTo", "AccountWithdrawnFrom",
                  "AccountWithdrawalRefused"}

\* stream_uuid: the aggregate the event was appended to.
Stream(e) == IF e.type \in AccountEvents THEN e.account ELSE e.transfer

(***************************************************************************)
(* Account (src/aggregates/account.ts).                                    *)
(***************************************************************************)
NewAccount == [opened |-> FALSE, balance |-> 0]

AccountApply(state, e) ==
  CASE e.type = "AccountOpened"        -> [state EXCEPT !.opened = TRUE]
    [] e.type = "AccountDepositedTo"   -> [state EXCEPT !.balance = @ + e.amount]
    [] e.type = "AccountWithdrawnFrom" -> [state EXCEPT !.balance = @ - e.amount]
    [] OTHER                           -> state

\* Mutant: the balance is not looked at.
WithdrawUnchecked(state, c) ==
  AccountWithdrawnFrom(c.account, c.amount, c.transfer, c.to)

\* A refusal is an event (D-0011).
Withdraw(state, c) ==
  IF state.balance < c.amount
    THEN AccountWithdrawalRefused(c.account, c.amount, c.transfer)
    ELSE AccountWithdrawnFrom(c.account, c.amount, c.transfer, c.to)

AccountExecute(state, c) ==
  CASE c.type = "OpenAccount" ->
         IF state.opened THEN Throws ELSE <<AccountOpened(c.account)>>
    [] c.type # "OpenAccount" /\ ~state.opened -> Throws
    [] c.type = "DepositToAccount" /\ state.opened ->
         <<AccountDepositedTo(c.account, c.amount, c.transfer)>>
    [] c.type = "WithdrawFromAccount" /\ state.opened -> <<Withdraw(state, c)>>

(***************************************************************************)
(* Transfer (src/aggregates/transfer.ts): its state is its stage.          *)
(***************************************************************************)
TransferApply(stage, e) ==
  CASE e.type = "TransferRequested" -> "requested"
    [] e.type = "TransferCompleted" -> "completed"
    [] e.type = "TransferFailed"    -> "failed"

\* Mutant: what is marked already is marked again.
MarksAgain(stage, marked, event) ==
  IF stage = "none" THEN Throws ELSE <<event>>

\* Marks are idempotent; in the other terminal stage they throw.
Marks(stage, marked, event) ==
  IF stage = marked THEN <<>>
  ELSE IF stage # "requested" THEN Throws ELSE <<event>>

TransferExecute(stage, c) ==
  CASE c.type = "RequestTransfer" ->
         IF stage # "none" THEN Throws
         ELSE <<TransferRequested(c.transfer, c.from, c.to, c.amount)>>
    [] c.type = "MarkTransferCompleted" ->
         Marks(stage, "completed", TransferCompleted(c.transfer))
    [] c.type = "MarkTransferFailed" ->
         Marks(stage, "failed", TransferFailed(c.transfer))

(***************************************************************************)
(* appCommandRouter, and runCommand of the aggregate it names.             *)
(***************************************************************************)
appCommandRouter(c) ==
  IF c.type \in {"OpenAccount", "DepositToAccount", "WithdrawFromAccount"}
    THEN [aggregateType |-> "Account", aggregateId |-> c.account]
    ELSE [aggregateType |-> "Transfer", aggregateId |-> c.transfer]

\* What loadAggregate uses of an aggregate's definition.
initialState(def) == IF def = "Account" THEN NewAccount ELSE "none"

apply(def, state, event) ==
  IF def = "Account" THEN AccountApply(state, event) ELSE TransferApply(state, event)

\* The events of one stream, folded.
loadAggregate(events, def, id) ==
  LET state[n \in 0..Len(events)] ==
        IF n = 0 THEN initialState(def)
        ELSE IF Stream(events[n]) = id THEN apply(def, state[n - 1], events[n])
        ELSE state[n - 1]
  IN state[Len(events)]

Account(events, a)  == loadAggregate(events, "Account", a)
Transfer(events, t) == loadAggregate(events, "Transfer", t)

\* Both aggregates are registered; streamName is the identity here.
resolveDispatch(c) ==
  LET route == appCommandRouter(c)
  IN [def |-> route.aggregateType, streamUuid |-> route.aggregateId]

RunCommand(events, c) ==
  LET d == resolveDispatch(c)
  IN IF d.def = "Account"
       THEN AccountExecute(Account(events, d.streamUuid), c)
       ELSE TransferExecute(Transfer(events, d.streamUuid), c)

(***************************************************************************)
(* TransferProcessManager (src/process-managers/transfer-pm.ts).           *)
(***************************************************************************)
transferRouteFn(e) ==
  IF e.type \in {"TransferRequested", "AccountWithdrawnFrom", "AccountDepositedTo",
                 "AccountWithdrawalRefused"} /\ e.transfer # Direct
    THEN e.transfer ELSE Ignore

\* Mutant: the withdrawal ends the instance.
Terminal == {"AccountWithdrawnFrom", "AccountDepositedTo", "AccountWithdrawalRefused"}

\* What handle answers with complete: true.
Final == {"AccountDepositedTo", "AccountWithdrawalRefused"}

transferHandle(state, e) ==
  [commands |-> CASE e.type = "TransferRequested" ->
                       <<WithdrawFromAccount(e.from, e.amount, e.transfer, e.to)>>
                  [] e.type = "AccountWithdrawnFrom" ->
                       IF e.to = Direct THEN <<>>
                       ELSE <<DepositToAccount(e.to, e.amount, e.transfer)>>
                  [] e.type = "AccountDepositedTo" ->
                       <<MarkTransferCompleted(e.transfer)>>
                  [] e.type = "AccountWithdrawalRefused" ->
                       <<MarkTransferFailed(e.transfer)>>,
   complete |-> e.type \in Final]

(***************************************************************************)
(* The projections: one row per account and per transfer, each with its    *)
(* last_event_number.                                                      *)
(***************************************************************************)
\* Mutant: the guard of the update lets a repeated event through.
NewerOrSame(row, n) == n >= row.last

\* "where $n > last_event_number".
Newer(row, n) == n > row.last

upsertOpened(row, n) ==
  IF row = NoRow THEN [balance |-> 0, last |-> n]
  ELSE IF Newer(row, n) THEN [row EXCEPT !.last = n] ELSE row

bumpBalance(row, delta, n) ==
  IF row # NoRow /\ Newer(row, n)
    THEN [balance |-> row.balance + delta, last |-> n] ELSE row

balancesRouteFn(e) ==
  IF e.type \in AccountEvents \ {"AccountWithdrawalRefused"} THEN e.account ELSE Ignore

balancesHandler(row, n, e) ==
  CASE e.type = "AccountOpened"        -> upsertOpened(row, n)
    [] e.type = "AccountDepositedTo"   -> bumpBalance(row, e.amount, n)
    [] e.type = "AccountWithdrawnFrom" -> bumpBalance(row, -e.amount, n)

upsertRequested(row, n) ==
  IF row = NoRow THEN [status |-> "requested", last |-> n]
  ELSE IF Newer(row, n) THEN [row EXCEPT !.last = n] ELSE row

markCompleted(row, n) ==
  IF row # NoRow /\ Newer(row, n) THEN [status |-> "completed", last |-> n] ELSE row

markFailed(row, n) ==
  IF row # NoRow /\ Newer(row, n) THEN [status |-> "failed", last |-> n] ELSE row

\* Mutant: an event type is missing from the list.
transfersRouteFnShort(e) ==
  IF e.type \in {"TransferRequested", "TransferCompleted"} THEN e.transfer ELSE Ignore

transfersRouteFn(e) ==
  IF e.type \in {"TransferRequested", "TransferCompleted", "TransferFailed"}
    THEN e.transfer ELSE Ignore

transfersHandler(row, n, e) ==
  CASE e.type = "TransferRequested" -> upsertRequested(row, n)
    [] e.type = "TransferCompleted" -> markCompleted(row, n)
    [] e.type = "TransferFailed"    -> markFailed(row, n)
=============================================================================

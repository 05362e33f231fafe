------------------------- MODULE TransferSagaProofs -------------------------
(***************************************************************************)
(* Proofs about the bank account example: for any accounts, transfers,     *)
(* amounts, workers, module versions and faults, the outcome of a transfer *)
(* is what happened to the money, and the read models tell what the        *)
(* aggregates decide by.                                                   *)
(***************************************************************************)
EXTENDS TransferSaga, EffectProofs, Induction

(***************************************************************************)
(* The example's events and commands.                                      *)
(***************************************************************************)
TransferIds == Transfers \cup {Direct}

BankEvent ==
  [type : {"AccountOpened"}, account : Accounts]
    \cup [type : {"AccountDepositedTo", "AccountWithdrawalRefused"},
          account : Accounts, amount : Int, transfer : TransferIds]
    \cup [type : {"AccountWithdrawnFrom"}, account : Accounts, amount : Int,
          transfer : TransferIds, to : Accounts \cup {Direct}]
    \cup [type : {"TransferRequested"}, transfer : Transfers, from : Accounts,
          to : Accounts, amount : Int]
    \cup [type : {"TransferCompleted", "TransferFailed"}, transfer : Transfers]

Requests ==
  [type : {"RequestTransfer"}, transfer : Transfers, from : Accounts,
   to : Accounts, amount : Int]

Openings == [type : {"OpenAccount"}, account : Accounts]

Deposits(ids) ==
  [type : {"DepositToAccount"}, account : Accounts, amount : Int, transfer : ids]

Withdrawals(ids) ==
  [type : {"WithdrawFromAccount"}, account : Accounts, amount : Int,
   transfer : ids, to : Accounts \cup {Direct}]

BankCommand ==
  Openings \cup Requests \cup Deposits(TransferIds) \cup Withdrawals(TransferIds)
    \cup [type : {"MarkTransferCompleted", "MarkTransferFailed"}, transfer : Transfers]

\* The commands of the command line and of scripts/demo.ts: whoever deposits or
\* withdraws by hand names no transfer.
ClientCommand == Openings \cup Requests \cup Deposits({Direct}) \cup Withdrawals({Direct})

\* The application of the example: its process manager, its aggregates, and
\* clients that dispatched what is in the log at the start.
BankAccount ==
  /\ \A e : RouteFn(e) = transferRouteFn(e)
  /\ \A s, e : Handle(s, e) = transferHandle(s, e)
  /\ \A events, c : Run(events, c) = RunCommand(events, c)
  /\ Inputs \subseteq ClientCommand
  /\ Throws \notin Seq(BankEvent)
  /\ Opening \in Seq(BankEvent)
  /\ \A n \in 1..Len(Opening) : \E c \in ClientCommand :
       RunCommand(SubSeq(Opening, 1, n - 1), c) = <<Opening[n]>>

(***************************************************************************)
(* The inductive invariant.                                                *)
(***************************************************************************)
\* The aggregates admit e after the events of L.
Legal(L, e) ==
  /\ e.type = "AccountOpened" => ~Account(L, e.account).opened
  /\ e.type \in AccountEvents \ {"AccountOpened"} => Account(L, e.account).opened
  /\ e.type = "TransferRequested" => Transfer(L, e.transfer) = "none"
  /\ e.type \in {"TransferCompleted", "TransferFailed"} =>
       Transfer(L, e.transfer) = "requested"

\* Every event was admitted by its aggregate.
Lawful == \A n \in 1..Len(log) : Legal(SubSeq(Events, 1, n - 1), log[n].event)

\* What a client's command appends.
FromClient(e) ==
  \/ e.type \in {"AccountOpened", "TransferRequested"}
  \/ e.type \in AccountEvents \ {"AccountOpened"} /\ e.transfer = Direct

\* What the process manager's answer to the event of type `cause' appends.
AnswerTypes(cause) ==
  CASE cause = "TransferRequested"        -> {"AccountWithdrawnFrom",
                                              "AccountWithdrawalRefused"}
    [] cause = "AccountWithdrawnFrom"     -> {"AccountDepositedTo"}
    [] cause = "AccountDepositedTo"       -> {"TransferCompleted"}
    [] cause = "AccountWithdrawalRefused" -> {"TransferFailed"}
    [] OTHER                              -> {}

Answers(cause, e) ==
  e.type \in AnswerTypes(cause.type) /\ e.transfer = cause.transfer
    /\ cause.transfer \in Transfers

\* An event is a client's, or the answer to the event that caused it.
Traced ==
  \A n \in 1..Len(log) :
    IF log[n].causation = 0 THEN FromClient(log[n].event)
    ELSE /\ log[n].causation \in 1..Len(log)
         /\ Answers(log[log[n].causation].event, log[n].event)

BankInv == Lawful /\ Traced

-----------------------------------------------------------------------------
(***************************************************************************)
(* The folds of the example, of any log: the two aggregates and the rows   *)
(* of the two projections.                                                 *)
(***************************************************************************)
Base(kind) ==
  CASE kind = "Account"  -> NewAccount
    [] kind = "Transfer" -> "none"
    [] OTHER             -> NoRow

Folded(kind, key, state, n, e) ==
  CASE kind = "Account"   -> IF Stream(e) = key THEN AccountApply(state, e) ELSE state
    [] kind = "Transfer"  -> IF Stream(e) = key THEN TransferApply(state, e) ELSE state
    [] kind = "balances"  -> IF balancesRouteFn(e) = key
                               THEN balancesHandler(state, n, e) ELSE state
    [] kind = "transfers" -> IF transfersRouteFn(e) = key
                               THEN transfersHandler(state, n, e) ELSE state

IsFold(f, L, kind, key, m) ==
  f = [n \in 0..m |-> IF n = 0 THEN Base(kind) ELSE Folded(kind, key, f[n - 1], n, L[n])]

FoldAt(L, kind, key, m) == (CHOOSE f : IsFold(f, L, kind, key, m))[m]

LEMMA FoldExists ==
  ASSUME NEW L, NEW kind, NEW key PROVE \A m \in Nat : \E f : IsFold(f, L, kind, key, m)
<1> DEFINE S == {m \in Nat : \E f : IsFold(f, L, kind, key, m)}
<1>1. 0 \in S
  <2> DEFINE f == [n \in 0..0 |-> Base(kind)]
  <2>1. f = [n \in 0..0 |-> IF n = 0 THEN Base(kind)
                            ELSE Folded(kind, key, f[n - 1], n, L[n])]
    OBVIOUS
  <2> QED
    BY <2>1 DEF IsFold
<1>2. ASSUME NEW m \in S PROVE m + 1 \in S
  <2>1. PICK f : IsFold(f, L, kind, key, m)
    OBVIOUS
  <2> DEFINE g == [n \in 0..(m + 1) |->
                     IF n = m + 1 THEN Folded(kind, key, f[m], n, L[n]) ELSE f[n]]
             h == [n \in 0..(m + 1) |->
                     IF n = 0 THEN Base(kind) ELSE Folded(kind, key, g[n - 1], n, L[n])]
  <2>2. ASSUME NEW n \in 0..(m + 1) PROVE g[n] = h[n]
    <3>1. CASE n = m + 1
      BY <3>1
    <3>2. CASE n = 0
      BY <2>1, <3>2 DEF IsFold
    <3>3. CASE n \in 1..m
      <4>1. n - 1 \in 0..m /\ n \in 0..m /\ n - 1 # m + 1
        BY <3>3
      <4>2. f[n] = Folded(kind, key, f[n - 1], n, L[n])
        BY <2>1, <3>3, <4>1 DEF IsFold
      <4> QED
        BY <3>3, <4>1, <4>2
    <3> QED
      BY <3>1, <3>2, <3>3
  <2>3. g = h
    BY <2>2
  <2>4. IsFold(g, L, kind, key, m + 1)
    BY <2>3 DEF IsFold
  <2>5. \E x : IsFold(x, L, kind, key, m + 1)
    <3> HIDE DEF g, h
    <3> QED
      BY <2>4
  <2> QED
    BY <2>5
<1>3. \A m \in Nat : m \in S
  <2> HIDE DEF S
  <2>1. S \in SUBSET Nat
    BY DEF S
  <2> QED
    BY <1>1, <1>2, <2>1, NaturalInduction
<1> QED
  BY <1>3

\* Two folds agree as far as their logs do.
LEMMA FoldUnique ==
  ASSUME NEW L, NEW M, NEW kind, NEW key, NEW m \in Nat, NEW j \in Nat, NEW f, NEW g,
         IsFold(f, L, kind, key, m), IsFold(g, M, kind, key, j),
         NEW i \in Nat, i <= m, i <= j, \A n \in 1..i : L[n] = M[n]
  PROVE  f[i] = g[i]
<1> DEFINE S == {n \in Nat : n <= i => f[n] = g[n]}
<1>1. 0 \in S
  BY DEF IsFold
<1>2. ASSUME NEW n \in S PROVE n + 1 \in S
  <2>1. SUFFICES ASSUME n + 1 <= i PROVE f[n + 1] = g[n + 1]
    OBVIOUS
  <2>2. /\ f[n + 1] = Folded(kind, key, f[n], n + 1, L[n + 1])
        /\ g[n + 1] = Folded(kind, key, g[n], n + 1, M[n + 1])
    BY <2>1 DEF IsFold
  <2>3. f[n] = g[n] /\ L[n + 1] = M[n + 1]
    BY <2>1
  <2> QED
    BY <2>2, <2>3
<1>3. \A n \in Nat : n \in S
  <2> HIDE DEF S
  <2>1. S \in SUBSET Nat
    BY DEF S
  <2> QED
    BY <1>1, <1>2, <2>1, NaturalInduction
<1> QED
  BY <1>3

LEMMA FoldIs ==
  ASSUME NEW L, NEW kind, NEW key, NEW m \in Nat, NEW f, IsFold(f, L, kind, key, m),
         NEW i \in 0..m
  PROVE  FoldAt(L, kind, key, i) = f[i]
<1> DEFINE g == CHOOSE x : IsFold(x, L, kind, key, i)
<1>1. IsFold(g, L, kind, key, i)
  BY FoldExists
<1> QED
  BY <1>1, FoldUnique DEF FoldAt

LEMMA FoldZero ==
  ASSUME NEW L, NEW kind, NEW key PROVE FoldAt(L, kind, key, 0) = Base(kind)
<1>1. PICK f : IsFold(f, L, kind, key, 0)
  BY FoldExists
<1>2. f[0] = Base(kind)
  BY <1>1 DEF IsFold
<1> QED
  BY <1>1, <1>2, FoldIs

LEMMA FoldSucc ==
  ASSUME NEW L, NEW kind, NEW key, NEW n \in Nat
  PROVE  FoldAt(L, kind, key, n + 1)
           = Folded(kind, key, FoldAt(L, kind, key, n), n + 1, L[n + 1])
<1>1. PICK f : IsFold(f, L, kind, key, n + 1)
  BY FoldExists
<1>2. f[n + 1] = Folded(kind, key, f[n], n + 1, L[n + 1])
  BY <1>1 DEF IsFold
<1>3. FoldAt(L, kind, key, n + 1) = f[n + 1] /\ FoldAt(L, kind, key, n) = f[n]
  BY <1>1, FoldIs
<1> QED
  BY <1>2, <1>3

LEMMA FoldOfPrefix ==
  ASSUME NEW L, NEW M, NEW kind, NEW key, NEW m \in Nat, \A n \in 1..m : L[n] = M[n]
  PROVE  FoldAt(L, kind, key, m) = FoldAt(M, kind, key, m)
<1>1. PICK f : IsFold(f, L, kind, key, m)
  BY FoldExists
<1>2. PICK g : IsFold(g, M, kind, key, m)
  BY FoldExists
<1>3. f[m] = g[m]
  BY <1>1, <1>2, FoldUnique
<1> QED
  BY <1>1, <1>2, <1>3, FoldIs

\* loadAggregate and Projected are such folds.
LEMMA AccountIs ==
  ASSUME NEW L, Len(L) \in Nat, NEW a
  PROVE  Account(L, a) = FoldAt(L, "Account", a, Len(L))
<1> DEFINE Folds(f) ==
      f = [n \in 0..Len(L) |->
             IF n = 0 THEN initialState("Account")
             ELSE IF Stream(L[n]) = a THEN apply("Account", f[n - 1], L[n])
             ELSE f[n - 1]]
           state == CHOOSE f : Folds(f)
<1>1. \A f : Folds(f) <=> IsFold(f, L, "Account", a, Len(L))
  BY DEF IsFold, Folded, Base, initialState, apply
<1>2. Account(L, a) = state[Len(L)]
  BY DEF Account, loadAggregate
<1> HIDE DEF Folds
<1>3. Folds(state)
  BY <1>1, FoldExists
<1> QED
  BY <1>1, <1>2, <1>3, FoldIs

LEMMA TransferIs ==
  ASSUME NEW L, Len(L) \in Nat, NEW t
  PROVE  Transfer(L, t) = FoldAt(L, "Transfer", t, Len(L))
<1> DEFINE Folds(f) ==
      f = [n \in 0..Len(L) |->
             IF n = 0 THEN initialState("Transfer")
             ELSE IF Stream(L[n]) = t THEN apply("Transfer", f[n - 1], L[n])
             ELSE f[n - 1]]
           state == CHOOSE f : Folds(f)
<1>1. \A f : Folds(f) <=> IsFold(f, L, "Transfer", t, Len(L))
  BY DEF IsFold, Folded, Base, initialState, apply
<1>2. Transfer(L, t) = state[Len(L)]
  BY DEF Transfer, loadAggregate
<1> HIDE DEF Folds
<1>3. Folds(state)
  BY <1>1, FoldExists
<1> QED
  BY <1>1, <1>2, <1>3, FoldIs

LEMMA BalancesIs ==
  ASSUME Len(log) \in Nat, NEW a
  PROVE  Projected(balancesRouteFn, balancesHandler, a)
           = FoldAt(Events, "balances", a, Len(log))
<1> DEFINE Folds(f) ==
      f = [n \in 0..Len(log) |->
             IF n = 0 THEN NoRow
             ELSE IF balancesRouteFn(Events[n]) = a
               THEN balancesHandler(f[n - 1], n, Events[n])
             ELSE f[n - 1]]
           row == CHOOSE f : Folds(f)
<1>1. \A f : Folds(f) <=> IsFold(f, Events, "balances", a, Len(log))
  BY DEF IsFold, Folded, Base
<1>2. Projected(balancesRouteFn, balancesHandler, a) = row[Len(log)]
  BY DEF Projected
<1> HIDE DEF Folds
<1>3. Folds(row)
  BY <1>1, FoldExists
<1> QED
  BY <1>1, <1>2, <1>3, FoldIs

LEMMA TransfersIs ==
  ASSUME Len(log) \in Nat, NEW t
  PROVE  Projected(transfersRouteFn, transfersHandler, t)
           = FoldAt(Events, "transfers", t, Len(log))
<1> DEFINE Folds(f) ==
      f = [n \in 0..Len(log) |->
             IF n = 0 THEN NoRow
             ELSE IF transfersRouteFn(Events[n]) = t
               THEN transfersHandler(f[n - 1], n, Events[n])
             ELSE f[n - 1]]
           row == CHOOSE f : Folds(f)
<1>1. \A f : Folds(f) <=> IsFold(f, Events, "transfers", t, Len(log))
  BY DEF IsFold, Folded, Base
<1>2. Projected(transfersRouteFn, transfersHandler, t) = row[Len(log)]
  BY DEF Projected
<1> HIDE DEF Folds
<1>3. Folds(row)
  BY <1>1, FoldExists
<1> QED
  BY <1>1, <1>2, <1>3, FoldIs

-----------------------------------------------------------------------------
(***************************************************************************)
(* What a command appends.                                                 *)
(***************************************************************************)
LEMMA EventFields ==
  ASSUME NEW e \in BankEvent
  PROVE  /\ e.type \in AccountEvents
              \cup {"TransferRequested", "TransferCompleted", "TransferFailed"}
         /\ e.type \in AccountEvents => e.account \in Accounts
         /\ e.type \in AccountEvents \ {"AccountOpened"} =>
              e.amount \in Int /\ e.transfer \in TransferIds
         /\ e.type = "AccountWithdrawnFrom" => e.to \in Accounts \cup {Direct}
         /\ e.type \notin AccountEvents => e.transfer \in Transfers
         /\ e.type = "TransferRequested" =>
              e.from \in Accounts /\ e.to \in Accounts /\ e.amount \in Int
BY DEF BankEvent, AccountEvents

\* The types of the events of a command, and the transfer they name.
CommandAppends(type) ==
  CASE type = "OpenAccount"           -> {"AccountOpened"}
    [] type = "DepositToAccount"      -> {"AccountDepositedTo"}
    [] type = "WithdrawFromAccount"   -> {"AccountWithdrawnFrom",
                                          "AccountWithdrawalRefused"}
    [] type = "RequestTransfer"       -> {"TransferRequested"}
    [] type = "MarkTransferCompleted" -> {"TransferCompleted"}
    [] type = "MarkTransferFailed"    -> {"TransferFailed"}

Appended(c, e) ==
  /\ e.type \in CommandAppends(c.type)
  /\ c.type # "OpenAccount" => e.transfer = c.transfer

LEMMA AccountAppends ==
  ASSUME NEW L, NEW c \in Openings \cup Deposits(TransferIds) \cup Withdrawals(TransferIds),
         RunCommand(L, c) # Throws
  PROVE  \E e \in BankEvent : RunCommand(L, c) = <<e>> /\ Legal(L, e) /\ Appended(c, e)
<1>1. c.account \in Accounts /\ RunCommand(L, c) = AccountExecute(Account(L, c.account), c)
  BY DEF RunCommand, resolveDispatch, appCommandRouter, Openings, Deposits, Withdrawals
<1>2. PICK state : state = Account(L, c.account)
  OBVIOUS
<1>3. CASE c \in Openings
  <2>1. ~state.opened /\ RunCommand(L, c) = <<AccountOpened(c.account)>>
    BY <1>1, <1>2, <1>3 DEF AccountExecute, Openings
  <2> DEFINE e == AccountOpened(c.account)
  <2>2. e \in BankEvent /\ Appended(c, e)
    BY <1>1, <1>3 DEF AccountOpened, BankEvent, Appended, CommandAppends, Openings
  <2>3. Legal(L, e)
    BY <1>2, <2>1 DEF AccountOpened, Legal, AccountEvents
  <2> QED
    BY <2>1, <2>2, <2>3
<1>4. CASE c \in Deposits(TransferIds)
  <2>1. state.opened
        /\ RunCommand(L, c) = <<AccountDepositedTo(c.account, c.amount, c.transfer)>>
    BY <1>1, <1>2, <1>4 DEF AccountExecute, Deposits
  <2> DEFINE e == AccountDepositedTo(c.account, c.amount, c.transfer)
  <2>2. e \in BankEvent /\ Appended(c, e)
    BY <1>1, <1>4 DEF AccountDepositedTo, BankEvent, Appended, CommandAppends, Deposits
  <2>3. Legal(L, e)
    BY <1>2, <2>1 DEF AccountDepositedTo, Legal, AccountEvents
  <2> QED
    BY <2>1, <2>2, <2>3
<1>5. CASE c \in Withdrawals(TransferIds)
  <2>1. state.opened /\ RunCommand(L, c) = <<Withdraw(state, c)>>
    BY <1>1, <1>2, <1>5 DEF AccountExecute, Withdrawals
  <2> DEFINE refused   == AccountWithdrawalRefused(c.account, c.amount, c.transfer)
             withdrawn == AccountWithdrawnFrom(c.account, c.amount, c.transfer, c.to)
  <2>2. refused \in BankEvent /\ Appended(c, refused)
    BY <1>1, <1>5
    DEF AccountWithdrawalRefused, BankEvent, Appended, CommandAppends, Withdrawals
  <2>3. withdrawn \in BankEvent /\ Appended(c, withdrawn)
    BY <1>1, <1>5
    DEF AccountWithdrawnFrom, BankEvent, Appended, CommandAppends, Withdrawals
  <2>4. Legal(L, refused)
    BY <1>2, <2>1 DEF AccountWithdrawalRefused, Legal, AccountEvents
  <2>5. Legal(L, withdrawn)
    BY <1>2, <2>1 DEF AccountWithdrawnFrom, Legal, AccountEvents
  <2>6. Withdraw(state, c) \in {refused, withdrawn}
    BY DEF Withdraw
  <2> HIDE DEF refused, withdrawn
  <2> QED
    BY <2>1, <2>2, <2>3, <2>4, <2>5, <2>6
<1> QED
  BY <1>3, <1>4, <1>5

LEMMA TransferAppends ==
  ASSUME NEW L,
         NEW c \in Requests \cup [type : {"MarkTransferCompleted", "MarkTransferFailed"},
                                  transfer : Transfers],
         RunCommand(L, c) # Throws
  PROVE  \/ RunCommand(L, c) = <<>>
         \/ \E e \in BankEvent : RunCommand(L, c) = <<e>> /\ Legal(L, e) /\ Appended(c, e)
<1>1. /\ c.transfer \in Transfers
      /\ RunCommand(L, c) = TransferExecute(Transfer(L, c.transfer), c)
  BY DEF RunCommand, resolveDispatch, appCommandRouter, Requests
<1>2. PICK stage : stage = Transfer(L, c.transfer)
  OBVIOUS
<1>3. CASE c \in Requests
  <2> DEFINE e == TransferRequested(c.transfer, c.from, c.to, c.amount)
  <2>1. stage = "none" /\ RunCommand(L, c) = <<e>>
    BY <1>1, <1>2, <1>3 DEF TransferExecute, Requests
  <2>2. e \in BankEvent /\ Appended(c, e)
    BY <1>1, <1>3 DEF TransferRequested, BankEvent, Appended, CommandAppends, Requests
  <2>3. Legal(L, e)
    BY <1>2, <2>1 DEF TransferRequested, Legal, AccountEvents
  <2> QED
    BY <2>1, <2>2, <2>3
<1>4. CASE c \in [type : {"MarkTransferCompleted"}, transfer : Transfers]
  <2> DEFINE e == TransferCompleted(c.transfer)
  <2>1. RunCommand(L, c) = <<>> \/ (stage = "requested" /\ RunCommand(L, c) = <<e>>)
    BY <1>1, <1>2, <1>4 DEF TransferExecute, Marks
  <2>2. e \in BankEvent /\ Appended(c, e)
    BY <1>1, <1>4 DEF TransferCompleted, BankEvent, Appended, CommandAppends
  <2>3. stage = "requested" => Legal(L, e)
    BY <1>2 DEF TransferCompleted, Legal, AccountEvents
  <2> QED
    BY <2>1, <2>2, <2>3
<1>5. CASE c \in [type : {"MarkTransferFailed"}, transfer : Transfers]
  <2> DEFINE e == TransferFailed(c.transfer)
  <2>1. RunCommand(L, c) = <<>> \/ (stage = "requested" /\ RunCommand(L, c) = <<e>>)
    BY <1>1, <1>2, <1>5 DEF TransferExecute, Marks
  <2>2. e \in BankEvent /\ Appended(c, e)
    BY <1>1, <1>5 DEF TransferFailed, BankEvent, Appended, CommandAppends
  <2>3. stage = "requested" => Legal(L, e)
    BY <1>2 DEF TransferFailed, Legal, AccountEvents
  <2> QED
    BY <2>1, <2>2, <2>3
<1> QED
  BY <1>3, <1>4, <1>5

LEMMA CommandAppended ==
  ASSUME NEW L, NEW c \in BankCommand, RunCommand(L, c) # Throws
  PROVE  \/ RunCommand(L, c) = <<>>
         \/ \E e \in BankEvent : RunCommand(L, c) = <<e>> /\ Legal(L, e) /\ Appended(c, e)
BY AccountAppends, TransferAppends DEF BankCommand

LEMMA ClientCommands == ClientCommand \subseteq BankCommand
BY DEF ClientCommand, BankCommand, Deposits, Withdrawals, TransferIds

LEMMA ClientAppends ==
  ASSUME NEW c \in ClientCommand, NEW e, Appended(c, e) PROVE FromClient(e)
BY DEF ClientCommand, Openings, Requests, Deposits, Withdrawals, Appended, CommandAppends,
       FromClient, AccountEvents

\* What the process manager answers an event with.
LEMMA HandleAnswers ==
  ASSUME BankAccount, NEW s, NEW e \in BankEvent, RouteFn(e) # Ignore
  PROVE  /\ e.transfer \in Transfers
         /\ \/ Handle(s, e).commands = <<>>
            \/ \E c \in BankCommand :
                 /\ Handle(s, e).commands = <<c>>
                 /\ c.type # "OpenAccount" /\ c.transfer = e.transfer
                 /\ CommandAppends(c.type) = AnswerTypes(e.type)
<1>1. /\ e.type \in {"TransferRequested", "AccountWithdrawnFrom", "AccountDepositedTo",
                      "AccountWithdrawalRefused"}
      /\ e.transfer # Direct /\ Handle(s, e) = transferHandle(s, e)
  BY DEF BankAccount, transferRouteFn
<1>2. e.transfer \in Transfers
  BY <1>1, EventFields DEF AccountEvents, TransferIds
<1>3. CASE e.type = "TransferRequested"
  <2> DEFINE c == WithdrawFromAccount(e.from, e.amount, e.transfer, e.to)
  <2>1. c \in Withdrawals(TransferIds)
    BY <1>2, <1>3, EventFields DEF WithdrawFromAccount, Withdrawals, TransferIds
  <2>2. Handle(s, e).commands = <<c>>
    BY <1>1, <1>3 DEF transferHandle
  <2>3. /\ c.type # "OpenAccount" /\ c.transfer = e.transfer
        /\ CommandAppends(c.type) = AnswerTypes(e.type)
    BY <1>3 DEF WithdrawFromAccount, CommandAppends, AnswerTypes
  <2> QED
    BY <1>2, <2>1, <2>2, <2>3 DEF BankCommand
<1>4. CASE e.type = "AccountWithdrawnFrom" /\ e.to = Direct
  BY <1>1, <1>2, <1>4 DEF transferHandle
<1>5. CASE e.type = "AccountWithdrawnFrom" /\ e.to # Direct
  <2> DEFINE c == DepositToAccount(e.to, e.amount, e.transfer)
  <2>1. c \in Deposits(TransferIds)
    BY <1>2, <1>5, EventFields DEF DepositToAccount, Deposits, TransferIds, AccountEvents
  <2>2. Handle(s, e).commands = <<c>>
    BY <1>1, <1>5 DEF transferHandle
  <2>3. /\ c.type # "OpenAccount" /\ c.transfer = e.transfer
        /\ CommandAppends(c.type) = AnswerTypes(e.type)
    BY <1>5 DEF DepositToAccount, CommandAppends, AnswerTypes
  <2> QED
    BY <1>2, <2>1, <2>2, <2>3 DEF BankCommand
<1>6. CASE e.type = "AccountDepositedTo"
  <2> DEFINE c == MarkTransferCompleted(e.transfer)
  <2>1. c \in BankCommand
    BY <1>2 DEF MarkTransferCompleted, BankCommand
  <2>2. Handle(s, e).commands = <<c>>
    BY <1>1, <1>6 DEF transferHandle
  <2>3. /\ c.type # "OpenAccount" /\ c.transfer = e.transfer
        /\ CommandAppends(c.type) = AnswerTypes(e.type)
    BY <1>6 DEF MarkTransferCompleted, CommandAppends, AnswerTypes
  <2> QED
    BY <1>2, <2>1, <2>2, <2>3
<1>7. CASE e.type = "AccountWithdrawalRefused"
  <2> DEFINE c == MarkTransferFailed(e.transfer)
  <2>1. c \in BankCommand
    BY <1>2 DEF MarkTransferFailed, BankCommand
  <2>2. Handle(s, e).commands = <<c>>
    BY <1>1, <1>7 DEF transferHandle
  <2>3. /\ c.type # "OpenAccount" /\ c.transfer = e.transfer
        /\ CommandAppends(c.type) = AnswerTypes(e.type)
    BY <1>7 DEF MarkTransferFailed, CommandAppends, AnswerTypes
  <2> QED
    BY <1>2, <2>1, <2>2, <2>3
<1> QED
  BY <1>1, <1>3, <1>4, <1>5, <1>6, <1>7

\* The example is an application as ProcessManagerProofs and EffectProofs ask.
LEMMA BankSound ==
  ASSUME BankAccount
  PROVE  Sound(BankEvent, BankCommand) /\ SingleEffects(BankEvent, BankCommand)
<1>1. Opening \in Seq(BankEvent) /\ Inputs \subseteq BankCommand
  BY ClientCommands DEF BankAccount
<1>2. ASSUME NEW e \in BankEvent PROVE RouteFn(e) \in Partitions \cup {Ignore}
  <2>1. RouteFn(e) = transferRouteFn(e)
    BY DEF BankAccount
  <2> QED
    BY <2>1, EventFields, SagaAssumption
    DEF transferRouteFn, SagaAssumption, TransferIds, AccountEvents
<1>3. ASSUME NEW s \in Seq(BankEvent), NEW e \in BankEvent, RouteFn(e) # Ignore
      PROVE  /\ Handle(s, e).commands \in Seq(BankCommand)
             /\ Len(Handle(s, e).commands) <= 1
  <2>1. CASE Handle(s, e).commands = <<>>
    BY <2>1
  <2>2. ASSUME NEW c \in BankCommand, Handle(s, e).commands = <<c>>
        PROVE  /\ Handle(s, e).commands \in Seq(BankCommand)
               /\ Len(Handle(s, e).commands) <= 1
    BY <2>2
  <2> QED
    BY <1>3, <2>1, <2>2, HandleAnswers
<1>4. ASSUME NEW s \in Seq(BankEvent), NEW c \in BankCommand, Run(s, c) # Throws
      PROVE  Run(s, c) \in Seq(BankEvent) /\ Len(Run(s, c)) <= 1
  <2>1. Run(s, c) = RunCommand(s, c)
    BY DEF BankAccount
  <2>2. CASE Run(s, c) = <<>>
    BY <2>2
  <2>3. ASSUME NEW e \in BankEvent, Run(s, c) = <<e>>
        PROVE  Run(s, c) \in Seq(BankEvent) /\ Len(Run(s, c)) <= 1
    BY <2>3
  <2> QED
    BY <1>4, <2>1, <2>2, <2>3, CommandAppended
<1> QED
  BY <1>1, <1>2, <1>3, <1>4 DEF Sound, SingleEffects

-----------------------------------------------------------------------------
(***************************************************************************)
(* The log grows by one event.                                             *)
(***************************************************************************)
LEMMA Prefix ==
  ASSUME NEW S, NEW L \in Seq(S), NEW n \in 0..Len(L)
  PROVE  /\ SubSeq(L, 1, n) \in Seq(S) /\ Len(SubSeq(L, 1, n)) = n
         /\ \A i \in 1..n : SubSeq(L, 1, n)[i] = L[i]
<1>1. Len(L) \in Nat /\ \A i \in 1..n : L[i] \in S
  OBVIOUS
<1> QED
  BY <1>1, SubSeqProperties

LEMMA PrefixSame ==
  ASSUME NEW S, NEW L \in Seq(S), NEW M \in Seq(S), NEW n \in 0..Len(L), n <= Len(M),
         \A i \in 1..n : L[i] = M[i]
  PROVE  SubSeq(L, 1, n) = SubSeq(M, 1, n)
<1>1. n \in 0..Len(M)
  OBVIOUS
<1>2. PICK x : x = SubSeq(L, 1, n)
  OBVIOUS
<1>3. PICK y : y = SubSeq(M, 1, n)
  OBVIOUS
<1>4. x \in Seq(S) /\ Len(x) = n /\ \A i \in 1..n : x[i] = L[i]
  BY <1>2, Prefix
<1>5. y \in Seq(S) /\ Len(y) = n /\ \A i \in 1..n : y[i] = M[i]
  BY <1>1, <1>3, Prefix
<1>6. x = y
  BY <1>4, <1>5, SeqEqual
<1> QED
  BY <1>2, <1>3, <1>6

LEMMA EventsTyped ==
  ASSUME NEW l \in Seq([event : BankEvent, causation : Nat])
  PROVE  LET L == [i \in DOMAIN l |-> l[i].event]
         IN /\ L \in Seq(BankEvent) /\ Len(L) = Len(l) /\ Len(l) \in Nat
            /\ \A n \in 1..Len(l) : L[n] = l[n].event /\ l[n].event \in BankEvent
<1> DEFINE Entries == [event : BankEvent, causation : Nat]
<1>1. \A r \in Entries : r.event \in BankEvent
  OBVIOUS
<1>2. l \in Seq(Entries)
  OBVIOUS
<1> HIDE DEF Entries
<1>3. /\ Len(l) \in Nat /\ DOMAIN l = 1..Len(l)
      /\ \A n \in 1..Len(l) : l[n].event \in BankEvent
  BY <1>1, <1>2
<1> QED
  BY <1>3

LEMMA Grown ==
  ASSUME BankAccount, LogType(BankEvent), NEW STATE c, c \in BankCommand,
         NEW STATE m, m \in Nat, Appends(c, m)
  PROVE  \/ log' = log
         \/ \E e \in BankEvent : /\ log' = Append(log, [event |-> e, causation |-> m])
                                 /\ Legal(Events, e) /\ Appended(c, e)
<1>1. Run(Events, c) = RunCommand(Events, c) /\ log \in Seq([event : BankEvent, causation : Nat])
  BY DEF BankAccount, LogType
<1> DEFINE Entry(e) == [event |-> e, causation |-> m]
<1> PICK events : events = RunCommand(Events, c)
  OBVIOUS
<1>2. events # Throws /\ log' = log \o [i \in DOMAIN events |-> Entry(events[i])]
  BY <1>1 DEF Appends
<1>3. CASE events = <<>>
  <2>1. [i \in DOMAIN events |-> Entry(events[i])] = <<>>
    BY <1>3
  <2> QED
    BY <1>1, <1>2, <2>1
<1>4. ASSUME NEW e \in BankEvent, events = <<e>>, Legal(Events, e), Appended(c, e)
      PROVE  log' = Append(log, Entry(e))
  <2>1. [i \in DOMAIN events |-> Entry(events[i])] = <<Entry(e)>>
    BY <1>4
  <2>2. Entry(e) \in [event : BankEvent, causation : Nat]
    OBVIOUS
  <2> HIDE DEF Entry
  <2>3. log \o <<Entry(e)>> = Append(log, Entry(e))
    BY <1>1, <2>2
  <2> QED
    BY <1>2, <2>1, <2>3
<1> QED
  BY <1>2, <1>3, <1>4, CommandAppended

LEMMA Admitted ==
  ASSUME LogType(BankEvent), LogType(BankEvent)', BankInv, NEW e \in BankEvent,
         NEW STATE m, m \in Nat,
         log' = Append(log, [event |-> e, causation |-> m]), Legal(Events, e),
         IF m = 0 THEN FromClient(e) ELSE m \in 1..Len(log) /\ Answers(log[m].event, e)
  PROVE  BankInv'
<1>1. /\ Len(log) \in Nat /\ Len(log') = Len(log) + 1
      /\ \A n \in 1..Len(log) : log'[n] = log[n]
      /\ log'[Len(log) + 1] = [event |-> e, causation |-> m]
  BY DEF LogType
<1>2. Traced'
  <2> SUFFICES ASSUME NEW n \in 1..Len(log')
               PROVE  IF log'[n].causation = 0 THEN FromClient(log'[n].event)
                      ELSE /\ log'[n].causation \in 1..Len(log')
                           /\ Answers(log'[log'[n].causation].event, log'[n].event)
    BY DEF Traced
  <2>1. CASE n \in 1..Len(log)
    <3>1. IF log[n].causation = 0 THEN FromClient(log[n].event)
          ELSE /\ log[n].causation \in 1..Len(log)
               /\ Answers(log[log[n].causation].event, log[n].event)
      BY <2>1 DEF BankInv, Traced
    <3> QED
      BY <1>1, <2>1, <3>1
  <2>2. CASE n = Len(log) + 1
    BY <1>1, <2>2
  <2> QED
    BY <1>1, <2>1, <2>2
<1>3. Lawful'
  <2> PICK L : L = Events
    OBVIOUS
  <2> PICK M : M = Events'
    OBVIOUS
  <2>1. /\ L \in Seq(BankEvent) /\ Len(L) = Len(log)
        /\ \A n \in 1..Len(log) : L[n] = log[n].event
    BY EventsTyped DEF LogType, Events
  <2>2. /\ M \in Seq(BankEvent) /\ Len(M) = Len(log')
        /\ \A n \in 1..Len(log') : M[n] = log'[n].event
    BY EventsTyped DEF LogType, Events
  <2>3. \A n \in 1..Len(log) : L[n] = M[n]
    BY <1>1, <2>1, <2>2
  <2>4. ASSUME NEW n \in 1..Len(log') PROVE Legal(SubSeq(M, 1, n - 1), log'[n].event)
    <3>1. n - 1 \in 0..Len(L) /\ n - 1 <= Len(M)
      BY <1>1, <2>1, <2>2
    <3>2. SubSeq(L, 1, n - 1) = SubSeq(M, 1, n - 1)
      BY <1>1, <2>1, <2>2, <2>3, <3>1, PrefixSame
    <3>3. CASE n \in 1..Len(log)
      <4>1. Legal(SubSeq(L, 1, n - 1), log[n].event)
        BY <3>3 DEF BankInv, Lawful
      <4> QED
        BY <1>1, <3>2, <3>3, <4>1
    <3>4. CASE n = Len(log) + 1
      <4>1. SubSeq(L, 1, Len(L)) = L
        BY <2>1, SubSeqFull
      <4>2. n - 1 = Len(L) /\ log'[n].event = e
        BY <1>1, <2>1, <3>4
      <4> QED
        BY <3>2, <4>1, <4>2
    <3> QED
      BY <1>1, <3>3, <3>4
  <2> QED
    BY <2>4 DEF Lawful
<1> QED
  BY <1>2, <1>3 DEF BankInv

LEMMA Unchanged ==
  ASSUME log' = log, BankInv PROVE BankInv'
<1>1. Events' = Events
  BY DEF Events
<1> QED
  BY <1>1 DEF BankInv, Lawful, Traced

-----------------------------------------------------------------------------
(***************************************************************************)
(* The invariant is inductive.                                             *)
(***************************************************************************)
LEMMA InitBank ==
  ASSUME BankAccount, Init PROVE BankInv
<1>1. Opening \in Seq(BankEvent) /\ DOMAIN Opening = 1..Len(Opening) /\ Len(Opening) \in Nat
  BY DEF BankAccount
<1>2. /\ Len(log) = Len(Opening) /\ DOMAIN log = 1..Len(Opening)
      /\ \A n \in 1..Len(Opening) : log[n] = [event |-> Opening[n], causation |-> 0]
  BY <1>1 DEF Init
<1>3. Events = Opening
  BY <1>1, <1>2 DEF Events
<1>4. ASSUME NEW n \in 1..Len(log)
      PROVE  /\ Legal(SubSeq(Opening, 1, n - 1), log[n].event)
             /\ log[n].causation = 0 /\ FromClient(log[n].event)
  <2>1. PICK c \in ClientCommand :
          RunCommand(SubSeq(Opening, 1, n - 1), c) = <<Opening[n]>>
    BY <1>2 DEF BankAccount
  <2>2. log[n] = [event |-> Opening[n], causation |-> 0] /\ Opening[n] \in BankEvent
    BY <1>1, <1>2
  <2>3. RunCommand(SubSeq(Opening, 1, n - 1), c) # Throws
    <3>1. <<Opening[n]>> \in Seq(BankEvent)
      BY <2>2
    <3> QED
      BY <2>1, <3>1 DEF BankAccount
  <2>4. PICK e \in BankEvent :
          /\ RunCommand(SubSeq(Opening, 1, n - 1), c) = <<e>>
          /\ Legal(SubSeq(Opening, 1, n - 1), e) /\ Appended(c, e)
    BY <2>1, <2>3, ClientCommands, CommandAppended
  <2>5. e = Opening[n]
    BY <2>1, <2>4
  <2> QED
    BY <2>2, <2>4, <2>5, ClientAppends
<1> QED
  BY <1>3, <1>4 DEF BankInv, Lawful, Traced

\* What a worker dispatches answers the event it has in hand.
LEMMA Dispatched ==
  ASSUME BankAccount, LogType(BankEvent), IInv, NEW w \in Workers,
         pc[w] = "dispatch", ~AllSent(w)
  PROVE  /\ NextCommand(w) \in BankCommand /\ hand[w] \in 1..Len(log) /\ hand[w] \in Nat
         /\ \A e : Appended(NextCommand(w), e) => Answers(log[hand[w]].event, e)
<1>1. NextCommand(w) \in BankCommand
  BY BankSound, Commands
<1>2. hand[w] \in 1..Len(log) /\ hand[w] \in Nat /\ RouteFn(log[hand[w]].event) # Ignore
  BY TypedBefore, PmAssumption DEF IInv, Handed, TypeOK, PartitionOf, PmAssumption
<1>3. log[hand[w]].event \in BankEvent
  BY <1>2, EntryEvent
<1> PICK cause \in BankEvent : cause = log[hand[w]].event
  BY <1>3
<1> PICK s : s = [i \in DOMAIN staged[w] |-> log[staged[w][i]].event]
  OBVIOUS
<1>4. Result(w) = Handle(s, cause) /\ RouteFn(cause) # Ignore
  BY <1>2 DEF Result
<1>5. sent[w] = 0
  BY BankSound, OneCommand
<1>6. cause.transfer \in Transfers
  BY <1>4, HandleAnswers
<1>7. CASE Handle(s, cause).commands = <<>>
  BY <1>4, <1>5, <1>7 DEF AllSent
<1>8. ASSUME NEW c \in BankCommand, Handle(s, cause).commands = <<c>>,
             c.type # "OpenAccount", c.transfer = cause.transfer,
             CommandAppends(c.type) = AnswerTypes(cause.type)
      PROVE  \A e : Appended(NextCommand(w), e) => Answers(cause, e)
  <2>1. NextCommand(w) = c
    <3>1. Result(w).commands = <<c>>
      BY <1>4, <1>8, Zenon
    <3>2. sent[w] + 1 = 1
      BY <1>5
    <3>3. <<c>>[1] = c
      OBVIOUS
    <3> QED
      BY <3>1, <3>2, <3>3, Zenon DEF NextCommand
  <2> SUFFICES ASSUME NEW e, Appended(c, e) PROVE Answers(cause, e)
    BY <2>1
  <2> QED
    BY <1>6, <1>8 DEF Appended, Answers
<1>9. \A e : Appended(NextCommand(w), e) => Answers(cause, e)
  <2>1. \/ Handle(s, cause).commands = <<>>
        \/ \E c \in BankCommand :
             /\ Handle(s, cause).commands = <<c>>
             /\ c.type # "OpenAccount" /\ c.transfer = cause.transfer
             /\ CommandAppends(c.type) = AnswerTypes(cause.type)
    BY <1>4, HandleAnswers
  <2> QED
    BY <1>7, <1>8, <2>1
<1> QED
  BY <1>1, <1>2, <1>9

LEMMA AskBank ==
  ASSUME BankAccount, LogType(BankEvent), LogType(BankEvent)', BankInv,
         NEW c \in Inputs, Ask(c)
  PROVE  BankInv'
<1>1. c \in ClientCommand /\ c \in BankCommand
  BY ClientCommands DEF BankAccount
<1>2. CASE Appends(c, 0)
  <2>1. ASSUME NEW e \in BankEvent, log' = Append(log, [event |-> e, causation |-> 0]),
               Legal(Events, e), Appended(c, e)
        PROVE  BankInv'
    BY <1>1, <2>1, ClientAppends, Admitted
  <2> QED
    BY <1>1, <1>2, <2>1, Grown, Unchanged
<1>3. CASE UNCHANGED log
  BY <1>3, Unchanged
<1> QED
  BY <1>2, <1>3 DEF Ask

LEMMA DispatchBank ==
  ASSUME BankAccount, LogType(BankEvent), LogType(BankEvent)', IInv, BankInv,
         NEW w \in Workers, Dispatch(w) \/ AnswerLost(w)
  PROVE  BankInv'
<1>1. /\ pc[w] = "dispatch" /\ ~AllSent(w) /\ Appends(NextCommand(w), hand[w])
  BY DEF Dispatch, AnswerLost
<1>2. /\ NextCommand(w) \in BankCommand /\ hand[w] \in 1..Len(log) /\ hand[w] \in Nat
      /\ \A e : Appended(NextCommand(w), e) => Answers(log[hand[w]].event, e)
  BY <1>1, Dispatched
<1>3. hand[w] # 0
  BY <1>2 DEF LogType
<1>4. ASSUME NEW e \in BankEvent,
             log' = Append(log, [event |-> e, causation |-> hand[w]]),
             Legal(Events, e), Appended(NextCommand(w), e)
      PROVE  BankInv'
  BY <1>2, <1>3, <1>4, Admitted
<1> QED
  BY <1>1, <1>2, <1>4, Grown, Unchanged

LEMMA NextBank ==
  ASSUME BankAccount, LogType(BankEvent), LogType(BankEvent)', IInv, BankInv, [Next]_vars
  PROVE  BankInv'
<1>1. ASSUME NEW c \in Inputs, Ask(c) PROVE BankInv'
  BY <1>1, AskBank
<1>2. ASSUME NEW w \in Workers, Dispatch(w) \/ AnswerLost(w) PROVE BankInv'
  BY <1>2, DispatchBank
<1>3. CASE UNCHANGED log
  BY <1>3, Unchanged
<1>4. CASE RouteNext \/ \E p \in Partitions : DeleteSnapshot(p)
  BY <1>3, <1>4 DEF RouteNext, DeleteSnapshot, store
<1>5. ASSUME NEW w \in Workers, Works(w) \/ Crash(w) PROVE UNCHANGED log \/ Dispatch(w)
  <2>1. ASSUME NEW n \in Numbers, Claim(w, n) \/ TakeOver(w, n) PROVE UNCHANGED log
    BY <2>1 DEF Claim, TakeOver, Takes, store
  <2>2. LoadState(w) \/ RebuildState(w) => UNCHANGED log
    BY DEF LoadState, RebuildState, store
  <2>3. CommandThrows(w) \/ Complete(w) \/ Crash(w) => UNCHANGED log
    BY DEF CommandThrows, Complete, Crash, store
  <2> QED
    BY <1>5, <2>1, <2>2, <2>3 DEF Works
<1>6. CASE UNCHANGED vars
  BY <1>3, <1>6 DEF vars, store
<1> QED
  BY <1>1, <1>2, <1>3, <1>4, <1>5, <1>6 DEF Next

\* The invariant behind what follows: besides those of ProcessManagerProofs and
\* EffectProofs, every event was admitted by its aggregate, and is a client's or
\* answers the event that caused it.
BankIInv == IInv /\ LogType(BankEvent) /\ Budget /\ BankInv

THEOREM BankInductive ==
  ASSUME BankAccount PROVE Spec => []BankIInv
<1>1. Init => BankIInv
  BY BankSound, InitIInv, InitBudget, InitBank DEF BankIInv
<1>2. BankIInv /\ [Next]_vars => BankIInv'
  <2> SUFFICES ASSUME BankIInv, [Next]_vars PROVE BankIInv'
    OBVIOUS
  <2>1. IInv' /\ LogType(BankEvent)'
    BY BankSound, NextIInv DEF BankIInv
  <2>2. Budget'
    BY BankSound, NextBudget DEF BankIInv
  <2>3. BankInv'
    BY <2>1, NextBank DEF BankIInv
  <2> QED
    BY <2>1, <2>2, <2>3 DEF BankIInv
<1> QED
  BY <1>1, <1>2, PTL DEF Spec

-----------------------------------------------------------------------------
(***************************************************************************)
(* Lawful logs: what the folds of an account and of a transfer have to do  *)
(* with their events and with each other.                                  *)
(***************************************************************************)
LawfulLog(L) ==
  /\ L \in Seq(BankEvent)
  /\ \A n \in 1..Len(L) : Legal(SubSeq(L, 1, n - 1), L[n])

LEMMA StatesOfPrefix ==
  ASSUME NEW L, NEW P, NEW n \in Nat, Len(P) = n, \A i \in 1..n : P[i] = L[i]
  PROVE  /\ \A a : Account(P, a) = FoldAt(L, "Account", a, n)
         /\ \A t : Transfer(P, t) = FoldAt(L, "Transfer", t, n)
<1>1. ASSUME NEW a PROVE Account(P, a) = FoldAt(L, "Account", a, n)
  <2>1. Account(P, a) = FoldAt(P, "Account", a, n)
    BY AccountIs
  <2>2. FoldAt(P, "Account", a, n) = FoldAt(L, "Account", a, n)
    BY FoldOfPrefix
  <2> QED
    BY <2>1, <2>2
<1>2. ASSUME NEW t PROVE Transfer(P, t) = FoldAt(L, "Transfer", t, n)
  <2>1. Transfer(P, t) = FoldAt(P, "Transfer", t, n)
    BY TransferIs
  <2>2. FoldAt(P, "Transfer", t, n) = FoldAt(L, "Transfer", t, n)
    BY FoldOfPrefix
  <2> QED
    BY <2>1, <2>2
<1> QED
  BY <1>1, <1>2

LEMMA LegalAt ==
  ASSUME NEW L, LawfulLog(L), NEW n \in Nat, n + 1 <= Len(L)
  PROVE  LET e == L[n + 1]
         IN /\ e \in BankEvent
            /\ e.type = "AccountOpened" => ~FoldAt(L, "Account", e.account, n).opened
            /\ e.type \in AccountEvents \ {"AccountOpened"} =>
                 FoldAt(L, "Account", e.account, n).opened
            /\ e.type = "TransferRequested" =>
                 FoldAt(L, "Transfer", e.transfer, n) = "none"
            /\ e.type \in {"TransferCompleted", "TransferFailed"} =>
                 FoldAt(L, "Transfer", e.transfer, n) = "requested"
<1>1. L \in Seq(BankEvent) /\ n + 1 \in 1..Len(L) /\ n \in 0..Len(L) /\ (n + 1) - 1 = n
  BY DEF LawfulLog
<1> PICK P : P = SubSeq(L, 1, n)
  OBVIOUS
<1>2. P \in Seq(BankEvent) /\ Len(P) = n /\ \A i \in 1..n : P[i] = L[i]
  BY <1>1, Prefix
<1>3. /\ \A a : Account(P, a) = FoldAt(L, "Account", a, n)
      /\ \A t : Transfer(P, t) = FoldAt(L, "Transfer", t, n)
  BY <1>2, StatesOfPrefix
<1>4. Legal(P, L[n + 1])
  BY <1>1 DEF LawfulLog
<1>5. L[n + 1] \in BankEvent
  BY <1>1
<1> QED
  BY <1>3, <1>4, <1>5 DEF Legal

LEMMA StreamOf ==
  ASSUME NEW e \in BankEvent
  PROVE  /\ \A a \in Accounts : Stream(e) = a <=> e.type \in AccountEvents /\ e.account = a
         /\ \A t \in Transfers : Stream(e) = t <=> e.type \notin AccountEvents /\ e.transfer = t
BY EventFields, SagaAssumption DEF Stream, SagaAssumption

\* The events of a type that the first n of L have of t.
Of(L, t, type, n) == {i \in 1..n : L[i].type = type /\ L[i].transfer = t}

\* A transfer is requested once, and then marked once.
StageAgrees(L, t, n) ==
  LET stage     == FoldAt(L, "Transfer", t, n)
      requested == Of(L, t, "TransferRequested", n)
  IN /\ stage \in {"none", "requested", "completed", "failed"}
     /\ requested # {} => stage # "none"
     /\ \A i, j \in requested : i = j
     /\ Of(L, t, "TransferCompleted", n) # {} => stage = "completed"
     /\ Of(L, t, "TransferFailed", n) # {} => stage = "failed"

LEMMA StageStep ==
  ASSUME NEW L, LawfulLog(L), NEW t \in Transfers, NEW n \in Nat, n + 1 <= Len(L),
         StageAgrees(L, t, n)
  PROVE  StageAgrees(L, t, n + 1)
<1> PICK e : e = L[n + 1]
  OBVIOUS
<1> PICK stage : stage = FoldAt(L, "Transfer", t, n)
  OBVIOUS
<1> PICK next : next = FoldAt(L, "Transfer", t, n + 1)
  OBVIOUS
<1>1. /\ e \in BankEvent
      /\ e.type = "TransferRequested" /\ e.transfer = t => stage = "none"
      /\ e.type \in {"TransferCompleted", "TransferFailed"} /\ e.transfer = t =>
           stage = "requested"
  BY LegalAt
<1>2. next = IF e.type \notin AccountEvents /\ e.transfer = t
               THEN TransferApply(stage, e) ELSE stage
  <2>1. next = IF Stream(e) = t THEN TransferApply(stage, e) ELSE stage
    BY FoldSucc DEF Folded
  <2> QED
    BY <1>1, <2>1, StreamOf
<1>3. ASSUME NEW type
      PROVE  Of(L, t, type, n + 1)
               = Of(L, t, type, n)
                   \cup (IF e.type = type /\ e.transfer = t THEN {n + 1} ELSE {})
  BY DEF Of
<1>4. /\ stage \in {"none", "requested", "completed", "failed"}
      /\ Of(L, t, "TransferRequested", n) # {} => stage # "none"
      /\ \A i, j \in Of(L, t, "TransferRequested", n) : i = j
      /\ Of(L, t, "TransferCompleted", n) # {} => stage = "completed"
      /\ Of(L, t, "TransferFailed", n) # {} => stage = "failed"
  BY DEF StageAgrees
<1>5. CASE e.type \in AccountEvents \/ e.transfer # t
  <2>1. /\ next = stage
        /\ \A type \in {"TransferRequested", "TransferCompleted", "TransferFailed"} :
             Of(L, t, type, n + 1) = Of(L, t, type, n)
    BY <1>2, <1>3, <1>5 DEF AccountEvents
  <2> QED
    BY <1>4, <2>1 DEF StageAgrees
<1>6. CASE e.type = "TransferRequested" /\ e.transfer = t
  <2>1. next = "requested" /\ stage = "none"
    BY <1>1, <1>2, <1>6 DEF TransferApply, AccountEvents
  <2>2. /\ Of(L, t, "TransferRequested", n + 1) = {n + 1}
        /\ Of(L, t, "TransferCompleted", n + 1) = {}
        /\ Of(L, t, "TransferFailed", n + 1) = {}
    BY <1>3, <1>4, <1>6, <2>1
  <2> QED
    BY <2>1, <2>2 DEF StageAgrees
<1>7. CASE e.type = "TransferCompleted" /\ e.transfer = t
  <2>1. next = "completed" /\ stage = "requested"
    BY <1>1, <1>2, <1>7 DEF TransferApply, AccountEvents
  <2>2. /\ Of(L, t, "TransferRequested", n + 1) = Of(L, t, "TransferRequested", n)
        /\ Of(L, t, "TransferFailed", n + 1) = {}
    <3>1. Of(L, t, "TransferFailed", n) = {}
      BY <1>4, <2>1
    <3>2. Of(L, t, "TransferFailed", n + 1) = {}
      BY <1>3, <1>7, <3>1
    <3>3. Of(L, t, "TransferRequested", n + 1) = Of(L, t, "TransferRequested", n)
      <4>1. e.type # "TransferRequested"
        BY <1>7
      <4> QED
        BY <4>1 DEF Of
    <3> QED
      BY <3>2, <3>3
  <2> QED
    BY <1>4, <2>1, <2>2 DEF StageAgrees
<1>8. CASE e.type = "TransferFailed" /\ e.transfer = t
  <2>1. next = "failed" /\ stage = "requested"
    BY <1>1, <1>2, <1>8 DEF TransferApply, AccountEvents
  <2>2. /\ Of(L, t, "TransferRequested", n + 1) = Of(L, t, "TransferRequested", n)
        /\ Of(L, t, "TransferCompleted", n + 1) = {}
    <3>1. Of(L, t, "TransferCompleted", n) = {}
      BY <1>4, <2>1
    <3>2. Of(L, t, "TransferCompleted", n + 1) = {}
      BY <1>3, <1>8, <3>1
    <3>3. Of(L, t, "TransferRequested", n + 1) = Of(L, t, "TransferRequested", n)
      <4>1. e.type # "TransferRequested"
        BY <1>8
      <4> QED
        BY <4>1 DEF Of
    <3> QED
      BY <3>2, <3>3
  <2> QED
    BY <1>4, <2>1, <2>2 DEF StageAgrees
<1> QED
  BY <1>1, <1>5, <1>6, <1>7, <1>8, EventFields

LEMMA StagesAgree ==
  ASSUME NEW L, LawfulLog(L), NEW t \in Transfers PROVE StageAgrees(L, t, Len(L))
<1> DEFINE S == {n \in Nat : n <= Len(L) => StageAgrees(L, t, n)}
<1>1. 0 \in S
  <2>1. FoldAt(L, "Transfer", t, 0) = "none"
    BY FoldZero DEF Base
  <2>2. \A type : Of(L, t, type, 0) = {}
    BY DEF Of
  <2> QED
    BY <2>1, <2>2 DEF StageAgrees
<1>2. ASSUME NEW n \in S PROVE n + 1 \in S
  <2>1. ASSUME n + 1 <= Len(L) PROVE StageAgrees(L, t, n + 1)
    <3>1. n <= Len(L)
      BY <2>1 DEF LawfulLog
    <3> QED
      BY <2>1, <3>1, StageStep
  <2> QED
    BY <2>1
<1>3. \A n \in Nat : n \in S
  <2> HIDE DEF S
  <2>1. S \in SUBSET Nat
    BY DEF S
  <2> QED
    BY <1>1, <1>2, <2>1, NaturalInduction
<1>4. Len(L) \in Nat /\ Len(L) <= Len(L)
  BY DEF LawfulLog
<1> QED
  BY <1>3, <1>4

\* A row of the read model of the balances is its account.
TellsAccount(row, account, n) ==
  \/ row = NoRow /\ account = NewAccount
  \/ \E b \in Int, m \in 0..n : /\ row = [balance |-> b, last |-> m]
                               /\ account = [opened |-> TRUE, balance |-> b]

BalanceAgrees(L, a, n) ==
  TellsAccount(FoldAt(L, "balances", a, n), FoldAt(L, "Account", a, n), n)

LEMMA Tells ==
  ASSUME NEW n \in Nat
  PROVE  /\ \A b \in Int : TellsAccount([balance |-> b, last |-> n + 1],
                                       [opened |-> TRUE, balance |-> b], n + 1)
         /\ \A row, account : TellsAccount(row, account, n) =>
                              TellsAccount(row, account, n + 1)
<1>1. n + 1 \in 0..(n + 1) /\ \A m \in 0..n : m \in 0..(n + 1)
  OBVIOUS
<1>2. ASSUME NEW b \in Int
      PROVE  TellsAccount([balance |-> b, last |-> n + 1],
                          [opened |-> TRUE, balance |-> b], n + 1)
  BY <1>1 DEF TellsAccount
<1>3. ASSUME NEW row, NEW account, TellsAccount(row, account, n)
      PROVE  TellsAccount(row, account, n + 1)
  BY <1>1, <1>3 DEF TellsAccount
<1> QED
  BY <1>2, <1>3

LEMMA BalanceStep ==
  ASSUME NEW L, LawfulLog(L), NEW a \in Accounts, NEW n \in Nat, n + 1 <= Len(L),
         BalanceAgrees(L, a, n)
  PROVE  BalanceAgrees(L, a, n + 1)
<1> PICK e : e = L[n + 1]
  OBVIOUS
<1> PICK account : account = FoldAt(L, "Account", a, n)
  OBVIOUS
<1> PICK row : row = FoldAt(L, "balances", a, n)
  OBVIOUS
<1> PICK account1 : account1 = FoldAt(L, "Account", a, n + 1)
  OBVIOUS
<1> PICK row1 : row1 = FoldAt(L, "balances", a, n + 1)
  OBVIOUS
<1>1. /\ e \in BankEvent
      /\ e.type = "AccountOpened" /\ e.account = a => ~account.opened
      /\ e.type \in AccountEvents \ {"AccountOpened"} /\ e.account = a => account.opened
  BY LegalAt
<1>2. account1 = IF e.type \in AccountEvents /\ e.account = a
                   THEN AccountApply(account, e) ELSE account
  <2>1. account1 = IF Stream(e) = a THEN AccountApply(account, e) ELSE account
    BY FoldSucc DEF Folded
  <2> QED
    BY <1>1, <2>1, StreamOf
<1>3. row1 = IF e.type \in AccountEvents \ {"AccountWithdrawalRefused"} /\ e.account = a
               THEN balancesHandler(row, n + 1, e) ELSE row
  <2>1. row1 = IF balancesRouteFn(e) = a THEN balancesHandler(row, n + 1, e) ELSE row
    BY FoldSucc DEF Folded
  <2>2. a # Ignore
    BY SagaAssumption DEF SagaAssumption
  <2> QED
    BY <2>1, <2>2 DEF balancesRouteFn
<1>4. TellsAccount(row, account, n)
  BY DEF BalanceAgrees
<1> SUFFICES TellsAccount(row1, account1, n + 1)
  BY DEF BalanceAgrees
<1>5. CASE e.type \notin AccountEvents \/ e.account # a
  <2>1. row1 = row /\ account1 = account
    BY <1>2, <1>3, <1>5
  <2> QED
    BY <1>4, <2>1, Tells
<1>6. CASE e.type = "AccountOpened" /\ e.account = a
  <2>1. row = NoRow /\ account = NewAccount
    BY <1>1, <1>4, <1>6 DEF TellsAccount
  <2>2. account1 = [opened |-> TRUE, balance |-> 0]
    <3>1. account1 = AccountApply(account, e)
      BY <1>2, <1>6 DEF AccountEvents
    <3>2. account = [opened |-> FALSE, balance |-> 0]
      BY <2>1 DEF NewAccount
    <3>3. AccountApply([opened |-> FALSE, balance |-> 0], e)
            = [opened |-> TRUE, balance |-> 0]
      BY <1>6 DEF AccountApply
    <3> QED
      BY <3>1, <3>2, <3>3
  <2>3. row1 = [balance |-> 0, last |-> n + 1]
    BY <1>3, <1>6, <2>1 DEF balancesHandler, upsertOpened, AccountEvents
  <2> QED
    BY <2>2, <2>3, Tells
<1>7. CASE e.type \in AccountEvents \ {"AccountOpened"} /\ e.account = a
  <2>1. PICK b \in Int, m \in 0..n : /\ row = [balance |-> b, last |-> m]
                                     /\ account = [opened |-> TRUE, balance |-> b]
    BY <1>1, <1>4, <1>7 DEF TellsAccount, NewAccount
  <2>2. row # NoRow /\ Newer(row, n + 1) /\ e.amount \in Int
    BY <1>1, <1>7, <2>1, EventFields, SagaAssumption DEF SagaAssumption, Newer
  <2>3. account1 = AccountApply([opened |-> TRUE, balance |-> b], e)
    BY <1>2, <1>7, <2>1
  <2>4. CASE e.type = "AccountDepositedTo"
    <3>1. account1 = [opened |-> TRUE, balance |-> b + e.amount]
      BY <2>3, <2>4 DEF AccountApply
    <3>2. row1 = [balance |-> b + e.amount, last |-> n + 1]
      BY <1>3, <1>7, <2>1, <2>2, <2>4 DEF balancesHandler, bumpBalance
    <3> QED
      BY <2>1, <2>2, <3>1, <3>2, Tells
  <2>5. CASE e.type = "AccountWithdrawnFrom"
    <3>1. account1 = [opened |-> TRUE, balance |-> b - e.amount]
      BY <2>3, <2>5 DEF AccountApply
    <3>2. row1 = [balance |-> b - e.amount, last |-> n + 1]
      BY <1>3, <1>7, <2>1, <2>2, <2>5 DEF balancesHandler, bumpBalance
    <3> QED
      BY <2>1, <2>2, <3>1, <3>2, Tells
  <2>6. CASE e.type = "AccountWithdrawalRefused"
    <3>1. account1 = account /\ row1 = row
      BY <1>2, <1>3, <2>6 DEF AccountApply
    <3> QED
      BY <1>4, <3>1, Tells
  <2> QED
    BY <1>7, <2>4, <2>5, <2>6 DEF AccountEvents
<1> QED
  BY <1>1, <1>5, <1>6, <1>7

LEMMA BalancesAgree ==
  ASSUME NEW L, LawfulLog(L), NEW a \in Accounts PROVE BalanceAgrees(L, a, Len(L))
<1> DEFINE S == {n \in Nat : n <= Len(L) => BalanceAgrees(L, a, n)}
<1>1. 0 \in S
  <2>1. FoldAt(L, "balances", a, 0) = NoRow /\ FoldAt(L, "Account", a, 0) = NewAccount
    BY FoldZero DEF Base
  <2> QED
    BY <2>1 DEF BalanceAgrees, TellsAccount
<1>2. ASSUME NEW n \in S PROVE n + 1 \in S
  <2>1. ASSUME n + 1 <= Len(L) PROVE BalanceAgrees(L, a, n + 1)
    <3>1. n <= Len(L)
      BY <2>1 DEF LawfulLog
    <3> QED
      BY <2>1, <3>1, BalanceStep
  <2> QED
    BY <2>1
<1>3. \A n \in Nat : n \in S
  <2> HIDE DEF S
  <2>1. S \in SUBSET Nat
    BY DEF S
  <2> QED
    BY <1>1, <1>2, <2>1, NaturalInduction
<1>4. Len(L) \in Nat /\ Len(L) <= Len(L)
  BY DEF LawfulLog
<1> QED
  BY <1>3, <1>4

\* A row of the read model of the transfers is the stage of its transfer.
TellsStage(row, stage, n) ==
  \/ row = NoRow /\ stage = "none"
  \/ /\ stage \in {"requested", "completed", "failed"}
     /\ \E m \in 0..n : row = [status |-> stage, last |-> m]

StatusAgrees(L, t, n) ==
  TellsStage(FoldAt(L, "transfers", t, n), FoldAt(L, "Transfer", t, n), n)

LEMMA StatusRow ==
  ASSUME NEW status \in {"requested", "completed", "failed"}, NEW m \in Nat
  PROVE  [status |-> status, last |-> m] # NoRow
BY SagaAssumption DEF SagaAssumption

LEMMA StatusStep ==
  ASSUME NEW L, LawfulLog(L), NEW t \in Transfers, NEW n \in Nat, n + 1 <= Len(L),
         StatusAgrees(L, t, n)
  PROVE  StatusAgrees(L, t, n + 1)
<1> PICK e : e = L[n + 1]
  OBVIOUS
<1> PICK stage : stage = FoldAt(L, "Transfer", t, n)
  OBVIOUS
<1> PICK row : row = FoldAt(L, "transfers", t, n)
  OBVIOUS
<1> PICK stage1 : stage1 = FoldAt(L, "Transfer", t, n + 1)
  OBVIOUS
<1> PICK row1 : row1 = FoldAt(L, "transfers", t, n + 1)
  OBVIOUS
<1>1. /\ e \in BankEvent
      /\ e.type = "TransferRequested" /\ e.transfer = t => stage = "none"
      /\ e.type \in {"TransferCompleted", "TransferFailed"} /\ e.transfer = t =>
           stage = "requested"
  BY LegalAt
<1>2. stage1 = IF e.type \notin AccountEvents /\ e.transfer = t
                 THEN TransferApply(stage, e) ELSE stage
  <2>1. stage1 = IF Stream(e) = t THEN TransferApply(stage, e) ELSE stage
    BY FoldSucc DEF Folded
  <2> QED
    BY <1>1, <2>1, StreamOf
<1>3. row1 = IF e.type \notin AccountEvents /\ e.transfer = t
               THEN transfersHandler(row, n + 1, e) ELSE row
  <2>1. row1 = IF transfersRouteFn(e) = t THEN transfersHandler(row, n + 1, e) ELSE row
    BY FoldSucc DEF Folded
  <2>2. t # Ignore
    BY SagaAssumption, PmAssumption DEF SagaAssumption, PmAssumption
  <2>3. e.type \in AccountEvents
          \cup {"TransferRequested", "TransferCompleted", "TransferFailed"}
    BY <1>1, EventFields
  <2> QED
    BY <2>1, <2>2, <2>3 DEF transfersRouteFn, AccountEvents
<1>4. TellsStage(row, stage, n)
  BY DEF StatusAgrees
<1> SUFFICES TellsStage(row1, stage1, n + 1)
  BY DEF StatusAgrees
<1>5. n + 1 \in 0..(n + 1) /\ \A m \in 0..n : m \in 0..(n + 1)
  OBVIOUS
<1>6. CASE e.type \in AccountEvents \/ e.transfer # t
  <2>1. row1 = row /\ stage1 = stage
    BY <1>2, <1>3, <1>6
  <2> QED
    BY <1>4, <1>5, <2>1 DEF TellsStage
<1>7. CASE e.type = "TransferRequested" /\ e.transfer = t
  <2>1. row = NoRow /\ stage1 = "requested"
    BY <1>1, <1>2, <1>4, <1>7 DEF TellsStage, TransferApply, AccountEvents
  <2>2. row1 = [status |-> "requested", last |-> n + 1]
    BY <1>3, <1>7, <2>1 DEF transfersHandler, upsertRequested, AccountEvents
  <2> QED
    BY <1>5, <2>1, <2>2 DEF TellsStage
<1>8. CASE e.type \in {"TransferCompleted", "TransferFailed"} /\ e.transfer = t
  <2>1. PICK m \in 0..n : row = [status |-> "requested", last |-> m]
    BY <1>1, <1>4, <1>8 DEF TellsStage
  <2>2. row # NoRow /\ Newer(row, n + 1)
    BY <2>1, StatusRow DEF Newer
  <2>3. CASE e.type = "TransferCompleted"
    <3>1. stage1 = "completed"
      BY <1>2, <1>8, <2>3 DEF TransferApply, AccountEvents
    <3>2. row1 = [status |-> "completed", last |-> n + 1]
      BY <1>3, <1>8, <2>2, <2>3 DEF transfersHandler, markCompleted, AccountEvents
    <3> QED
      BY <1>5, <3>1, <3>2 DEF TellsStage
  <2>4. CASE e.type = "TransferFailed"
    <3>1. stage1 = "failed"
      BY <1>2, <1>8, <2>4 DEF TransferApply, AccountEvents
    <3>2. row1 = [status |-> "failed", last |-> n + 1]
      BY <1>3, <1>8, <2>2, <2>4 DEF transfersHandler, markFailed, AccountEvents
    <3> QED
      BY <1>5, <3>1, <3>2 DEF TellsStage
  <2> QED
    BY <1>8, <2>3, <2>4
<1> QED
  BY <1>1, <1>6, <1>7, <1>8, EventFields

LEMMA StatusesAgree ==
  ASSUME NEW L, LawfulLog(L), NEW t \in Transfers PROVE StatusAgrees(L, t, Len(L))
<1> DEFINE S == {n \in Nat : n <= Len(L) => StatusAgrees(L, t, n)}
<1>1. 0 \in S
  <2>1. FoldAt(L, "transfers", t, 0) = NoRow /\ FoldAt(L, "Transfer", t, 0) = "none"
    BY FoldZero DEF Base
  <2> QED
    BY <2>1 DEF StatusAgrees, TellsStage
<1>2. ASSUME NEW n \in S PROVE n + 1 \in S
  <2>1. ASSUME n + 1 <= Len(L) PROVE StatusAgrees(L, t, n + 1)
    <3>1. n <= Len(L)
      BY <2>1 DEF LawfulLog
    <3> QED
      BY <2>1, <3>1, StatusStep
  <2> QED
    BY <2>1
<1>3. \A n \in Nat : n \in S
  <2> HIDE DEF S
  <2>1. S \in SUBSET Nat
    BY DEF S
  <2> QED
    BY <1>1, <1>2, <2>1, NaturalInduction
<1>4. Len(L) \in Nat /\ Len(L) <= Len(L)
  BY DEF LawfulLog
<1> QED
  BY <1>3, <1>4

-----------------------------------------------------------------------------
(***************************************************************************)
(* What the invariant says of the read models and of the outcomes.         *)
(***************************************************************************)
LEMMA LogIsLawful ==
  ASSUME LogType(BankEvent), BankInv
  PROVE  /\ LawfulLog(Events) /\ Len(Events) = Len(log) /\ Len(log) \in Nat
         /\ \A n \in 1..Len(log) : Events[n] = log[n].event /\ log[n].event \in BankEvent
<1>1. /\ Events \in Seq(BankEvent) /\ Len(Events) = Len(log) /\ Len(log) \in Nat
      /\ \A n \in 1..Len(log) : Events[n] = log[n].event /\ log[n].event \in BankEvent
  BY EventsTyped DEF LogType, Events
<1>2. \A n \in 1..Len(Events) : Legal(SubSeq(Events, 1, n - 1), Events[n])
  BY <1>1 DEF BankInv, Lawful
<1> QED
  BY <1>1, <1>2 DEF LawfulLog

LEMMA ModelsAgree ==
  ASSUME LogType(BankEvent), BankInv PROVE ReadModelsAgree
<1> PICK L : L = Events
  OBVIOUS
<1>1. LawfulLog(L) /\ Len(L) = Len(log) /\ Len(log) \in Nat
  BY LogIsLawful
<1>2. ASSUME NEW a \in Accounts
      PROVE  LET row == Projected(balancesRouteFn, balancesHandler, a)
             IN IF row = NoRow THEN Account(L, a) = NewAccount
                ELSE Account(L, a) = [opened |-> TRUE, balance |-> row.balance]
  <2> PICK row : row = Projected(balancesRouteFn, balancesHandler, a)
    OBVIOUS
  <2> PICK account : account = Account(L, a)
    OBVIOUS
  <2>1. row = FoldAt(L, "balances", a, Len(L)) /\ account = FoldAt(L, "Account", a, Len(L))
    BY <1>1, AccountIs, BalancesIs
  <2>2. TellsAccount(row, account, Len(L))
    BY <1>1, <2>1, BalancesAgree DEF BalanceAgrees
  <2>3. IF row = NoRow THEN account = NewAccount
        ELSE account = [opened |-> TRUE, balance |-> row.balance]
    BY <1>1, <2>2, SagaAssumption DEF TellsAccount, SagaAssumption
  <2> QED
    BY <2>3
<1>3. ASSUME NEW t \in Transfers
      PROVE  LET row == Projected(transfersRouteFn, transfersHandler, t)
             IN Transfer(L, t) = IF row = NoRow THEN "none" ELSE row.status
  <2> PICK row : row = Projected(transfersRouteFn, transfersHandler, t)
    OBVIOUS
  <2> PICK stage : stage = Transfer(L, t)
    OBVIOUS
  <2>1. row = FoldAt(L, "transfers", t, Len(L)) /\ stage = FoldAt(L, "Transfer", t, Len(L))
    BY <1>1, TransferIs, TransfersIs
  <2>2. TellsStage(row, stage, Len(L))
    BY <1>1, <2>1, StatusesAgree DEF StatusAgrees
  <2>3. stage = IF row = NoRow THEN "none" ELSE row.status
    <3>1. CASE row = NoRow /\ stage = "none"
      BY <3>1
    <3>2. CASE /\ stage \in {"requested", "completed", "failed"}
               /\ \E m \in 0..Len(L) : row = [status |-> stage, last |-> m]
      <4>1. PICK m \in 0..Len(L) : row = [status |-> stage, last |-> m]
        BY <3>2
      <4>2. row # NoRow
        BY <1>1, <3>2, <4>1, StatusRow
      <4> QED
        BY <4>1, <4>2
    <3> QED
      BY <2>2, <3>1, <3>2 DEF TellsStage
  <2> QED
    BY <2>3
<1> QED
  BY <1>2, <1>3 DEF ReadModelsAgree

\* An event of a transfer that no client appends answers another of it.
LEMMA Answered ==
  ASSUME LogType(BankEvent), BankInv, NEW t \in Transfers, NEW type,
         type \notin {"AccountOpened", "TransferRequested"}, NEW n \in Has(t, type)
  PROVE  \E c \in 1..Len(log) : /\ log[n].causation = c
                                /\ log[c].event.transfer = t
                                /\ type \in AnswerTypes(log[c].event.type)
<1>1. n \in 1..Len(log) /\ log[n].event.type = type /\ log[n].event.transfer = t
  BY DEF Has
<1>2. ~FromClient(log[n].event)
  BY <1>1, SagaAssumption DEF SagaAssumption, FromClient
<1>3. /\ log[n].causation \in 1..Len(log)
      /\ Answers(log[log[n].causation].event, log[n].event)
  BY <1>1, <1>2 DEF BankInv, Traced
<1> QED
  BY <1>1, <1>3 DEF Answers

\* The same, by the type of the event it answers.
LEMMA AnswersThe ==
  ASSUME LogType(BankEvent), BankInv, NEW t \in Transfers
  PROVE  /\ \A n \in Has(t, "TransferCompleted") :
              log[n].causation \in Has(t, "AccountDepositedTo")
         /\ \A n \in Has(t, "TransferFailed") :
              log[n].causation \in Has(t, "AccountWithdrawalRefused")
         /\ \A n \in Has(t, "AccountDepositedTo") :
              log[n].causation \in Has(t, "AccountWithdrawnFrom")
         /\ \A n \in Has(t, "AccountWithdrawnFrom") \cup Has(t, "AccountWithdrawalRefused") :
              log[n].causation \in Has(t, "TransferRequested")
<1>1. ASSUME NEW type, NEW cause, type \notin {"AccountOpened", "TransferRequested"},
             \A x : type \in AnswerTypes(x) => x = cause
      PROVE  \A n \in Has(t, type) : log[n].causation \in Has(t, cause)
  BY <1>1, Answered DEF Has
<1>2. /\ \A x : "TransferCompleted" \in AnswerTypes(x) => x = "AccountDepositedTo"
      /\ \A x : "TransferFailed" \in AnswerTypes(x) => x = "AccountWithdrawalRefused"
      /\ \A x : "AccountDepositedTo" \in AnswerTypes(x) => x = "AccountWithdrawnFrom"
      /\ \A x : "AccountWithdrawnFrom" \in AnswerTypes(x) => x = "TransferRequested"
      /\ \A x : "AccountWithdrawalRefused" \in AnswerTypes(x) => x = "TransferRequested"
  BY DEF AnswerTypes
<1>3. /\ \A n \in Has(t, "TransferCompleted") :
           log[n].causation \in Has(t, "AccountDepositedTo")
      /\ \A n \in Has(t, "TransferFailed") :
           log[n].causation \in Has(t, "AccountWithdrawalRefused")
  BY <1>1, <1>2
<1>4. \A n \in Has(t, "AccountDepositedTo") :
        log[n].causation \in Has(t, "AccountWithdrawnFrom")
  BY <1>1, <1>2
<1>5. /\ \A n \in Has(t, "AccountWithdrawnFrom") :
           log[n].causation \in Has(t, "TransferRequested")
      /\ \A n \in Has(t, "AccountWithdrawalRefused") :
           log[n].causation \in Has(t, "TransferRequested")
  BY <1>1, <1>2
<1> QED
  BY <1>3, <1>4, <1>5

LEMMA AtMostOne ==
  ASSUME NEW S, AtMost(S, 1), NEW x \in S, NEW y \in S PROVE x = y
<1>1. /\ IsFiniteSet(S \ {x}) /\ Cardinality(S \ {x}) = Cardinality(S) - 1
      /\ Cardinality(S) <= 1 /\ Cardinality(S) \in Nat
  BY FS_RemoveElement, FS_CardinalityType DEF AtMost
<1>2. Cardinality(S \ {x}) \in Nat
  BY <1>1, FS_CardinalityType
<1>3. Cardinality(S \ {x}) = 0
  BY <1>1, <1>2
<1>4. S \ {x} = {}
  BY <1>1, <1>3, FS_EmptySet
<1> QED
  BY <1>4

\* Without a fault the one request of a transfer has one effect.
LEMMA OutcomesTrue ==
  ASSUME BankIInv PROVE OutcomesAreTrue
<1> USE DEF BankIInv
<1> SUFFICES ASSUME NEW t \in Transfers
             PROVE  LET completed == Has(t, "TransferCompleted") # {}
                        failed    == Has(t, "TransferFailed") # {}
                        debited   == Has(t, "AccountWithdrawnFrom") # {}
                        credited  == Has(t, "AccountDepositedTo") # {}
                    IN /\ ~(completed /\ failed)
                       /\ completed => debited /\ credited
                       /\ failed => Has(t, "AccountWithdrawalRefused") # {}
                       /\ failed /\ debited => faults > 0
  BY DEF OutcomesAreTrue
<1> PICK L : L = Events
  OBVIOUS
<1>1. /\ LawfulLog(L) /\ Len(L) = Len(log) /\ Len(log) \in Nat
      /\ \A n \in 1..Len(log) : L[n] = log[n].event
  BY LogIsLawful
<1>2. \A type : Has(t, type) = Of(L, t, type, Len(L))
  BY <1>1 DEF Has, Of
<1>3. /\ Has(t, "TransferCompleted") = {} \/ Has(t, "TransferFailed") = {}
      /\ \A i, j \in Has(t, "TransferRequested") : i = j
  <2>1. StageAgrees(L, t, Len(L))
    BY <1>1, StagesAgree
  <2> QED
    BY <1>2, <2>1 DEF StageAgrees
<1>4. ASSUME NEW d \in Has(t, "AccountWithdrawnFrom"), NEW f \in Has(t, "TransferFailed")
      PROVE  faults > 0
  <2>1. PICK r \in Has(t, "AccountWithdrawalRefused") : r = log[f].causation
    BY AnswersThe
  <2>2. /\ log[d].causation \in Has(t, "TransferRequested")
        /\ log[r].causation \in Has(t, "TransferRequested")
    BY <2>1, AnswersThe
  <2>3. PICK c \in 1..Len(log) : log[d].causation = c /\ log[r].causation = c
    BY <1>3, <2>2 DEF Has
  <2>4. d \in Effects(c) /\ r \in Effects(c) /\ d # r
    BY <2>3 DEF Effects, Has
  <2>5. AtMost(Effects(c), 1 + faults) /\ faults \in Nat
    BY EffectsBounded, FaultsNat DEF IInv
  <2>6. faults # 0
    BY <2>4, <2>5, AtMostOne
  <2> QED
    BY <2>5, <2>6
<1>5. Has(t, "TransferCompleted") # {} =>
        Has(t, "AccountWithdrawnFrom") # {} /\ Has(t, "AccountDepositedTo") # {}
  BY AnswersThe
<1>6. Has(t, "TransferFailed") # {} => Has(t, "AccountWithdrawalRefused") # {}
  BY AnswersThe
<1> QED
  BY <1>3, <1>4, <1>5, <1>6

-----------------------------------------------------------------------------
(***************************************************************************)
(* Theorems.                                                               *)
(***************************************************************************)
\* The process manager of the example repeats a withdrawal, a deposit or a mark
\* only for a fault (transfer-pm.ts; PM-E of docs/invariants.md).
THEOREM TransferEffects ==
  ASSUME BankAccount PROVE Spec => []OneEffectPerFault
<1>1. BankIInv => OneEffectPerFault
  BY BudgetBounds DEF BankIInv
<1> QED
  BY <1>1, BankInductive, PTL

\* What a transfer's stream says of it is what happened to the money
\* (transfer-pm.ts, account.ts, transfer.ts).
THEOREM OutcomesTold ==
  ASSUME BankAccount PROVE Spec => []OutcomesAreTrue
<1>1. BankIInv => OutcomesAreTrue
  BY OutcomesTrue
<1> QED
  BY <1>1, BankInductive, PTL

\* A projection that has handled the log tells the state that the aggregates
\* decide by (projections/*/projection.ts, aggregates/*.ts).
THEOREM ReadModels ==
  ASSUME BankAccount PROVE Spec => []ReadModelsAgree
<1>1. BankIInv => ReadModelsAgree
  BY ModelsAgree DEF BankIInv
<1> QED
  BY <1>1, BankInductive, PTL
=============================================================================

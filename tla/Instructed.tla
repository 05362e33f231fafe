----------------------------- MODULE Instructed -----------------------------
(***************************************************************************)
(* The facade: what an application's processes register and poll, the      *)
(* commands it dispatches, and the wait of a dispatch for projections      *)
(* (waitForProjection over is_subscription_caught_up), with the workers    *)
(* that poll() starts and the read store that their handlers write.        *)
(*                                                                         *)
(* A command is one step (Aggregate shows that it may be), and so are the  *)
(* routing of an event and the claim of an item (Delivery).  A lease that  *)
(* has run out shows only when somebody takes the item over: TakeOver.     *)
(***************************************************************************)
EXTENDS Integers, Sequences, FiniteSets

LOCAL INSTANCE SequencesExt

CONSTANTS
  Apps,             \* the Instructed instances, one in each process
  Scripts,          \* what each registers, in order
  Clients,          \* callers of dispatch outside the workers
  Dispatches,       \* [command, type, consistency] that they make
  Subs,             \* subscriptions: [stream, name]
  All,              \* '$all'
  Keys,             \* partition keys
  RouteFn(_, _),    \* of a subscription and an event
  Handler(_, _, _, _),  \* of a subscription, its row, and a numbered event
  Reaction(_, _),   \* the dispatch that a handle makes and waits for, or None
  None,             \* null, undefined
  Throws,           \* an exception
  Ignore, NoRow, Direct,  \* of Bank
  Opening,          \* the events at the start
  MaxEvents,        \* bound on the log
  MaxFaults         \* bound on crashes, lapsed leases, deadlines and rebuilds

INSTANCE Bank

Numbers == 1..MaxEvents
Workers == Apps \X Subs
Callers == Clients \cup Workers

ASSUME FacadeAssumption ==
  /\ Scripts \in [Apps -> Seq(UNION {{Scripts[a][i] : i \in DOMAIN Scripts[a]} : a \in Apps})]
  /\ Subs \subseteq [stream : {s.stream : s \in Subs}, name : {s.name : s \in Subs}]
  /\ Clients \cap Workers = {}
  /\ None \notin Apps \cup Subs
  /\ Apps \cap {"absent", "pending"} = {}
  /\ Ignore \notin Keys
  /\ {MaxEvents, MaxFaults} \subseteq Nat
  /\ Len(Opening) <= MaxEvents

VARIABLES
  log,       \* '$all'
  registry,  \* what an app has registered, None when its process is not up
  polled,    \* the subscriptions whose workers an app has started
  exists,    \* the subscriptions in instructed.subscriptions
  cursor,    \* last_seen
  item,      \* work items: "absent", "pending", or the app that claimed it
  made,      \* how often subscriptions were deleted
  hand,      \* the event number a worker works on, 0 for none
  step,      \* the call a worker makes next
  view,      \* the projections' rows
  call,      \* the callers' dispatch
  faults

queue == <<exists, cursor, item, made>>
local == <<hand, step>>
vars  == <<log, registry, polled, queue, local, view, call, faults>>

(***************************************************************************)
(* A dispatch: what it waits for, up to which event, what is not caught up *)
(* yet, what is left of this round of polls, and the answer of the first   *)
(* statement of is_subscription_caught_up.  fresh is history: what was     *)
(* answered without a delete between the two statements.                   *)
(***************************************************************************)
NoCall == [pc |-> "idle", target |-> 0, refs |-> {}, remaining |-> {},
           left |-> {}, asked |-> None, fresh |-> {}]

Init ==
  /\ log = Opening
  /\ registry = [a \in Apps |-> None]
  /\ polled = [a \in Apps |-> {}]
  /\ exists = {}
  /\ cursor = [s \in Subs |-> 0]
  /\ item = [s \in Subs |-> [n \in Numbers |-> "absent"]]
  /\ made = 0
  /\ hand = [w \in Workers |-> 0]
  /\ step = [w \in Workers |-> "claim"]
  /\ view = [s \in Subs |-> [k \in Keys |-> NoRow]]
  /\ call = [c \in Callers |-> NoCall]
  /\ faults = 0

Fault == faults < MaxFaults /\ faults' = faults + 1

(***************************************************************************)
(* register and poll: a script runs them without an await, in one step.    *)
(***************************************************************************)
NothingRegistered ==
  [aggregates |-> {}, router |-> FALSE, projections |-> {}, processManagers |-> {}]

Subscription(def) == [stream |-> def.stream, name |-> def.type]

\* register, by the shape of its argument.  Two definitions with one name are
\* two workers of one subscription.
Register(r, def) ==
  CASE r = Throws -> Throws
    [] def.kind = "aggregate" ->
         IF def.type \in r.aggregates THEN Throws
         ELSE [r EXCEPT !.aggregates = @ \cup {def.type}]
    [] def.kind = "router" ->
         IF r.router THEN Throws ELSE [r EXCEPT !.router = TRUE]
    [] def.kind = "projection" ->
         IF def.partitionBy # None /\ def.routeFn # None THEN Throws
         ELSE [r EXCEPT !.projections = @ \cup {Subscription(def)}]
    [] def.kind = "processManager" ->
         [r EXCEPT !.processManagers = @ \cup {Subscription(def)}]

Registered(a) == FoldLeft(Register, NothingRegistered, Scripts[a])

ASSUME RegistryAssumption == \A a \in Apps : Registered(a) # None

\* A process starts; poll throws when there is nothing to poll, and what only
\* dispatches does not call it.
Start(a) ==
  /\ registry[a] = None /\ Registered(a) # Throws
  /\ registry' = [registry EXCEPT ![a] = Registered(a)]
  /\ polled' = [polled EXCEPT
       ![a] = Registered(a).projections \cup Registered(a).processManagers]
  /\ UNCHANGED <<log, queue, local, view, call, faults>>

(***************************************************************************)
(* dispatch.                                                               *)
(***************************************************************************)
\* Lean: the router names the aggregate; explicit: the caller does.
AggregateType(r, d) ==
  IF d.type # None THEN d.type
  ELSE IF r.router THEN appCommandRouter(d.command).aggregateType ELSE Throws

\* The events that the command appends, or Throws (UnknownAggregateType).
Outcome(r, d) ==
  IF AggregateType(r, d) \in r.aggregates THEN RunCommand(log, d.command) ELSE Throws

\* Mutant: no guard.
WaitsInVain(s, events) == FALSE

\* CON-B: ConsistencyTargetError.
Unreachable(s, events) ==
  s.stream # All /\ s.stream \notin {Stream(events[i]) : i \in DOMAIN events}

\* What the caller holds once its events are appended; of a command that
\* appended nothing no target is looked at.
Waiting(d, events) ==
  CASE events = <<>> \/ d.consistency = {} -> [NoCall EXCEPT !.pc = "returned"]
    [] events # <<>> /\ \E s \in d.consistency : Unreachable(s, events)
         -> [NoCall EXCEPT !.pc = "threw"]
    [] OTHER -> [NoCall EXCEPT !.pc = "waiting",
                               !.target = Len(log) + Len(events),
                               !.refs = d.consistency,
                               !.remaining = d.consistency,
                               !.left = d.consistency]

Dispatch(c, a, d) ==
  LET events == Outcome(registry[a], d)
  IN /\ registry[a] # None /\ call[c].pc = "idle"
     /\ IF events = Throws
          THEN /\ call' = [call EXCEPT ![c].pc = "threw"]
               /\ UNCHANGED log
          ELSE /\ Len(log) + Len(events) <= MaxEvents
               /\ log' = log \o events
               /\ call' = [call EXCEPT ![c] = Waiting(d, events)]

\* A script dispatches one command.
ClientDispatch(c, a, d) ==
  /\ Dispatch(c, a, d)
  /\ UNCHANGED <<registry, polled, queue, local, view, faults>>

(***************************************************************************)
(* waitForProjection.                                                      *)
(***************************************************************************)
\* The first statements of is_subscription_caught_up; IS020 is "not yet".
ReadCursor(c, s) ==
  /\ call[c].pc = "waiting" /\ call[c].asked = None /\ s \in call[c].left
  /\ call' = [call EXCEPT
       ![c].left = @ \ {s},
       ![c].asked = IF s \in exists
                      THEN [sub |-> s, lastSeen |-> cursor[s], made |-> made]
                      ELSE None]
  /\ UNCHANGED <<log, registry, polled, queue, local, view, faults>>

\* Mutant: what is claimed is not looked for.
NonePending(s, target) == \A n \in 1..target : item[s][n] # "pending"

\* No row up to the target is pending, claimed or failed.
NoneOutstanding(s, target) == \A n \in 1..target : item[s][n] = "absent"

\* What isSubscriptionCaughtUp returns.
CaughtUp(asked, target) ==
  asked.lastSeen >= target /\ NoneOutstanding(asked.sub, target)

ReadQueue(c) ==
  LET asked    == call[c].asked
      caughtUp == CaughtUp(asked, call[c].target)
  IN /\ call[c].pc = "waiting" /\ asked # None
     /\ call' = [call EXCEPT
          ![c].asked = None,
          ![c].remaining = IF caughtUp THEN @ \ {asked.sub} ELSE @,
          ![c].fresh = IF caughtUp /\ asked.made = made
                         THEN @ \cup {asked.sub} ELSE @]
     /\ UNCHANGED <<log, registry, polled, queue, local, view, faults>>

\* The end of a round: return, or sleep and poll again.
Round(c) ==
  /\ call[c].pc = "waiting" /\ call[c].left = {} /\ call[c].asked = None
  /\ call' = IF call[c].remaining = {}
               THEN [call EXCEPT ![c].pc = "returned"]
               ELSE [call EXCEPT ![c].left = call[c].remaining]
  /\ UNCHANGED <<log, registry, polled, queue, local, view, faults>>

\* ... or the deadline has passed: ConsistencyTimeout.
TimeOut(c) ==
  /\ call[c].pc = "waiting" /\ call[c].left = {} /\ call[c].asked = None
  /\ call[c].remaining # {}
  /\ Fault
  /\ call' = [call EXCEPT ![c].pc = "threw"]
  /\ UNCHANGED <<log, registry, polled, queue, local, view>>

(***************************************************************************)
(* The workers that poll() started.                                        *)
(***************************************************************************)
\* claim_subscription makes the subscription at its first call.
Subscribe(a, s) ==
  /\ s \in polled[a] \ exists
  /\ exists' = exists \cup {s}
  /\ UNCHANGED <<log, registry, polled, cursor, item, made, local, view, call, faults>>

Feed(s) == {n \in 1..Len(log) : s.stream \in {All, Stream(log[n])}}

\* Mutant: what is ignored is enqueued.
EnqueuedAnyway(s, n) == "pending"

Enqueued(s, n) == IF RouteFn(s, log[n]) = Ignore THEN "absent" ELSE "pending"

\* The routing worker's next event of the stream.
RouteNext(a, s) ==
  \E n \in Feed(s) :
    /\ s \in polled[a] \cap exists
    /\ n > cursor[s] /\ \A m \in Feed(s) : m > cursor[s] => m >= n
    /\ cursor' = [cursor EXCEPT ![s] = n]
    /\ item' = [item EXCEPT ![s][n] = Enqueued(s, n)]
    /\ UNCHANGED <<log, registry, polled, exists, made, local, view, call, faults>>

\* Somebody works on it, and extends its lease.
Attended(s, n) == item[s][n] \in Apps /\ hand[<<item[s][n], s>>] = n

AtFront(s, n) ==
  \A m \in 1..(n - 1) :
    item[s][m] # "absent" => RouteFn(s, log[m]) # RouteFn(s, log[n])

\* claim_work_item: what is pending, or its lease has run out.
Claim(a, s, n) ==
  /\ s \in polled[a] /\ hand[<<a, s>>] = 0
  /\ item[s][n] # "absent" /\ AtFront(s, n)
  /\ IF Attended(s, n) THEN Fault ELSE UNCHANGED faults
  /\ item' = [item EXCEPT ![s][n] = a]
  /\ hand' = [hand EXCEPT ![<<a, s>>] = n]
  /\ step' = [step EXCEPT ![<<a, s>>] =
       IF Reaction(s, log[n]) = None THEN "handle" ELSE "react"]
  /\ UNCHANGED <<log, registry, polled, exists, cursor, made, view, call>>

\* A handle that calls dispatch itself, and waits.
React(a, s) ==
  LET w == <<a, s>>
  IN /\ hand[w] # 0 /\ step[w] = "react"
     /\ Dispatch(w, a, Reaction(s, log[hand[w]]))
     /\ UNCHANGED <<registry, polled, queue, local, view, faults>>

\* Its dispatch is over: the handle goes on, or the policy retries it.
Reacted(a, s) ==
  LET w == <<a, s>>
  IN /\ call[w].pc \in {"returned", "threw"}
     /\ step' = [step EXCEPT ![w] = IF call[w].pc = "returned" THEN "handle" ELSE "react"]
     /\ call' = [call EXCEPT ![w] = NoCall]
     /\ UNCHANGED <<log, registry, polled, queue, hand, view, faults>>

\* The handler's write to the read store, a transaction of the application.
Handle(a, s) ==
  LET w == <<a, s>>
      n == hand[w]
      k == RouteFn(s, log[n])
  IN /\ n # 0 /\ step[w] = "handle"
     /\ view' = [view EXCEPT ![s][k] = Handler(s, @, n, log[n])]
     /\ step' = [step EXCEPT ![w] = "complete"]
     /\ UNCHANGED <<log, registry, polled, queue, hand, call, faults>>

Holds(a, s) == hand[<<a, s>>] # 0 /\ item[s][hand[<<a, s>>]] = a

\* complete_work_item_projection deletes the row; IS030 when it is not held.
\* (A process manager's row stays as 'done', which nothing here asks for.)
Complete(a, s) ==
  LET w == <<a, s>>
  IN /\ hand[w] # 0 /\ step[w] = "complete"
     /\ item' = IF Holds(a, s) THEN [item EXCEPT ![s][hand[w]] = "absent"] ELSE item
     /\ hand' = [hand EXCEPT ![w] = 0]
     /\ step' = [step EXCEPT ![w] = "claim"]
     /\ UNCHANGED <<log, registry, polled, exists, cursor, made, view, call, faults>>

\* The process dies with all its workers; it is started again.
Crash(a) ==
  /\ registry[a] # None /\ Fault
  /\ registry' = [registry EXCEPT ![a] = None]
  /\ polled' = [polled EXCEPT ![a] = {}]
  /\ hand' = [w \in Workers |-> IF w[1] = a THEN 0 ELSE hand[w]]
  /\ step' = [w \in Workers |-> IF w[1] = a THEN "claim" ELSE step[w]]
  /\ call' = [c \in Callers |-> IF c \in Workers /\ c[1] = a THEN NoCall ELSE call[c]]
  /\ UNCHANGED <<log, queue, view>>

\* instructedctl subscriptions rebuild.
Rebuild(s) ==
  /\ s \in exists /\ Fault
  /\ exists' = exists \ {s}
  /\ cursor' = [cursor EXCEPT ![s] = 0]
  /\ item' = [item EXCEPT ![s] = [n \in Numbers |-> "absent"]]
  /\ made' = made + 1
  /\ UNCHANGED <<log, registry, polled, local, view, call>>

Waits(c) == (\E s \in Subs : ReadCursor(c, s)) \/ ReadQueue(c) \/ Round(c)

Works(a, s) ==
  \/ Subscribe(a, s) \/ RouteNext(a, s)
  \/ \E n \in Numbers : Claim(a, s, n)
  \/ React(a, s) \/ Reacted(a, s) \/ Handle(a, s) \/ Complete(a, s)

Next ==
  \/ \E a \in Apps : Start(a) \/ Crash(a) \/ \E s \in Subs : Works(a, s)
  \/ \E c \in Clients, a \in Apps, d \in Dispatches : ClientDispatch(c, a, d)
  \/ \E c \in Callers : Waits(c) \/ TimeOut(c)
  \/ \E s \in Subs : Rebuild(s)

Spec == Init /\ [][Next]_vars

\* Processes are started again, their loops go on, and polls are answered.
Fairness ==
  /\ \A a \in Apps : WF_vars(Start(a))
  /\ \A a \in Apps, s \in Subs : WF_vars(Works(a, s))
  /\ \A c \in Callers : WF_vars(Waits(c))

FairSpec == Spec /\ Fairness
-----------------------------------------------------------------------------
(***************************************************************************)
(* Properties.                                                             *)
(***************************************************************************)
\* Types; and what is in a queue is an event of its subscription.
TypeOK ==
  /\ Len(log) \in 0..MaxEvents
  /\ \A a \in Apps : registry[a] = None => polled[a] = {}
  /\ exists \subseteq Subs
  /\ cursor \in [Subs -> 0..MaxEvents]
  /\ item \in [Subs -> [Numbers -> Apps \cup {"absent", "pending"}]]
  /\ made \in 0..MaxFaults
  /\ \A s \in Subs : s \notin exists => \A n \in Numbers : item[s][n] = "absent"
  /\ hand \in [Workers -> 0..MaxEvents]
  /\ step \in [Workers -> {"claim", "react", "handle", "complete"}]
  /\ \A s \in Subs, n \in Numbers : item[s][n] # "absent" =>
       n \in Feed(s) /\ RouteFn(s, log[n]) \in Keys
  /\ \A c \in Callers :
       /\ call[c].pc \in {"idle", "waiting", "returned", "threw"}
       /\ call[c].fresh \cup call[c].left \subseteq call[c].refs
  /\ faults \in 0..MaxFaults

Routed(s, k, m) == {n \in 1..m : n \in Feed(s) /\ RouteFn(s, log[n]) = k}

\* The row that the events of a partition up to m make, each handled once.
RowOf(s, k, m) ==
  LET row[n \in 0..m] ==
        IF n = 0 THEN NoRow
        ELSE IF n \in Routed(s, k, m) THEN Handler(s, row[n - 1], n, log[n])
        ELSE row[n - 1]
  IN row[m]

\* However often events are delivered again - a lapsed lease, a crash after the
\* write, a rebuild, a slow handler that writes after its successors - a row is
\* what its events, each handled once and in order, make of it ("redelivery is
\* a no-op", projections/balances/projection.ts).
ViewIsFold ==
  \A s \in Subs, k \in Keys :
    \E m \in 0..Len(log) : view[s][k] = RowOf(s, k, m)

\* Read your own writes (CON-A): whoever waited for a projection reads rows that
\* have the events it appended and all before them.  (When the subscription is
\* deleted between the two statements of is_subscription_caught_up, the cursor
\* of the old one is joined to the empty queue of the new one: not so.)
ReadYourWrites ==
  \A c \in Callers : \A s \in call[c].fresh : \A k \in Keys :
    \E m \in call[c].target..Len(log) : view[s][k] = RowOf(s, k, m)

\* A handler that waits for its own subscription waits for itself: it is told
\* that it is caught up only after it has lost its item.
SelfWaitTimesOut ==
  \A a \in Apps, s \in Subs :
    s \in call[<<a, s>>].refs \ call[<<a, s>>].remaining => ~Holds(a, s)

\* A client's dispatch ends, and not because of its deadline only: what it waits
\* for is reached while processes crash and are started again, leases run out
\* and the subscription is rebuilt.
WaitsEnd == \A c \in Clients : call[c].pc = "waiting" ~> call[c].pc # "waiting"
=============================================================================

------------------------------ MODULE R2Worker ------------------------------
(***************************************************************************)
(* The worker side of a delegated task: the runner every R2 worker is      *)
(* built on (internal/r2worker) with the handlers of cmd/repo-search and   *)
(* cmd/repo-inspector. A worker subscribes to its assignment topic, takes  *)
(* one order at a time, works through numbered steps under a budget and    *)
(* publishes one result. The bus between the parties is the lossy one of   *)
(* EventBus: a queue per subscriber, and nothing for who has none.         *)
(***************************************************************************)
EXTENDS BusPolicy, FiniteSetsExt

CONSTANTS
  Workers,    \* worker ids; an id is never given out again
  Tasks,      \* task ids
  BudgetOf,   \* task -> the order's [maxSteps (0: none), timed]
  QueueSize,  \* subscriberBufSize
  Mortal,     \* workers whose process may die
  None

Profiles == {"repo-search", "repo-inspector", "custom"}

ASSUME WorkAssumption ==
  /\ BudgetOf \in [Tasks -> [maxSteps : Nat, timed : BOOLEAN]]
  /\ QueueSize \in Nat \ {0}
  /\ Mortal \subseteq Workers
  /\ None \notin Tasks

VARIABLES
  worker,     \* "absent", "starting", "idle", "busy", "returned" (from HandleWork), "dead"
  profile,    \* worker -> what it was spawned for, or None
  orders,     \* worker -> its queue at the bus
  order,      \* the order it works on, or None
  step,       \* Runner.step
  published,  \* Runner.resultPublished
  overdue,    \* workers whose order's deadline has passed
  results,    \* history: task -> results published for it
  inbox,      \* the ambassador's queue at the bus, up to its next Receive
  conn,       \* the ambassador's connection: "open", "refused" (its reader stopped), "closed"
  lost        \* history: tasks and turns whose order, result or request was lost

workerVars == <<worker, profile, orders, order, step, published, overdue, results>>

WorkerInit ==
  /\ worker = [w \in Workers |-> "absent"]
  /\ profile = [w \in Workers |-> None]
  /\ orders = [w \in Workers |-> <<>>]
  /\ order = [w \in Workers |-> None]
  /\ step = [w \in Workers |-> 0]
  /\ published = [w \in Workers |-> FALSE]
  /\ overdue = {}
  /\ results = [t \in Tasks |-> 0]
  /\ inbox = <<>>
  /\ conn = "open"
  /\ lost = {}

-----------------------------------------------------------------------------
(* The bus, as the two sides use it *)

ResultTopic(task)   == <<"agent", "work", "result", task>>
ProgressTopic(task) == Append(ResultTopic(task), "progress")
NeedsTopic          == <<"agent", "work", "needs_3po">>

\* Ambassador.Start: what it subscribes to.
Subscriptions == {<<"conversation", "turn", "requested">>, <<"agent", "work", "result", "*">>, NeedsTopic}

\* Bug: a subscription covers everything below it.
HearsBelow(topic) == \E p \in Subscriptions : TopicMatch(p, SubSeq(topic, 1, Len(p)))

Hears(topic) == \E p \in Subscriptions : TopicMatch(p, topic)

\* The ambassador's queue after an event about task or turn "of".
Reaches(topic) == conn # "closed" /\ Hears(topic) /\ Len(inbox) < QueueSize

ToAmbassador(topic, of) ==
  inbox' = IF Reaches(topic) THEN Append(inbox, [topic |-> topic, of |-> of]) ELSE inbox

-----------------------------------------------------------------------------
(* The runner *)

\* Runner.Run: until here, what is sent to the worker goes nowhere.
Listen(w) ==
  /\ worker[w] = "starting"
  /\ worker' = [worker EXCEPT ![w] = "idle"]
  /\ UNCHANGED <<profile, orders, order, step, published, overdue, results, inbox, conn, lost>>

\* processWorkOrder, up to the call of the handler.
TakeOrder(w) ==
  /\ worker[w] = "idle"
  /\ orders[w] # <<>>
  /\ worker' = [worker EXCEPT ![w] = "busy"]
  /\ order' = [order EXCEPT ![w] = Head(orders[w])]
  /\ orders' = [orders EXCEPT ![w] = Tail(@)]
  /\ step' = [step EXCEPT ![w] = 0]
  /\ published' = [published EXCEPT ![w] = FALSE]
  /\ overdue' = overdue \ {w}
  /\ ToAmbassador(ProgressTopic(Head(orders[w])), Head(orders[w]))
  /\ UNCHANGED <<profile, results, conn, lost>>

DeadlinePasses(w) ==
  /\ worker[w] \in {"busy", "returned"}
  /\ BudgetOf[order[w]].timed
  /\ w \notin overdue
  /\ overdue' = overdue \cup {w}
  /\ UNCHANGED <<worker, profile, orders, order, step, published, results, inbox, conn, lost>>

PublishProgress(w, n) ==
  /\ step' = [step EXCEPT ![w] = n]
  /\ ToAmbassador(ProgressTopic(order[w]), order[w])

\* PublishResult: the flag is set whether or not anyone gets it.
PublishResult(w) ==
  /\ published' = [published EXCEPT ![w] = TRUE]
  /\ results' = [results EXCEPT ![order[w]] = @ + 1]
  /\ ToAmbassador(ResultTopic(order[w]), order[w])
  /\ lost' = IF Reaches(ResultTopic(order[w])) THEN lost ELSE lost \cup {order[w]}

CheckBudget(w) ==
  LET max == BudgetOf[order[w]].maxSteps IN (max > 0 => step[w] < max) /\ w \notin overdue

Release(w) ==
  /\ worker' = [worker EXCEPT ![w] = "idle"]
  /\ order' = [order EXCEPT ![w] = None]
  /\ UNCHANGED <<profile, orders, step, overdue, conn>>

\* The end of processWorkOrder: a handler that published no result gets one.
Finish(w) ==
  /\ worker[w] = "returned"
  /\ IF published[w] THEN UNCHANGED <<published, results, inbox, lost>> ELSE PublishResult(w)
  /\ Release(w)

-----------------------------------------------------------------------------
(* The handlers *)

Returned(w) == worker' = [worker EXCEPT ![w] = "returned"]

HandlerVars == <<profile, orders, order, overdue, conn>>

\* Both handlers publish a result and return, with or without an error.
Report(w) == PublishResult(w) /\ Returned(w) /\ UNCHANGED <<step, HandlerVars>>

BuiltIn(w) == worker[w] = "busy" /\ profile[w] \in {"repo-search", "repo-inspector"}

\* The inputs do not parse, or the inspector's question is missing.
BadInputs(w) == BuiltIn(w) /\ step[w] = 0 /\ Report(w)

\* After which steps "complete" may follow: git is optional.
LastSteps(w) == IF profile[w] = "repo-search" THEN {2, 3} ELSE {3}

NextStep(w) ==
  /\ BuiltIn(w)
  /\ step[w] < 3
  /\ CheckBudget(w)
  /\ PublishProgress(w, step[w] + 1)
  /\ UNCHANGED <<worker, published, results, lost, HandlerVars>>

BudgetExhausted(w) == BuiltIn(w) /\ step[w] < 3 /\ ~CheckBudget(w) /\ Report(w)

Inspects(w) == BuiltIn(w) /\ profile[w] = "repo-inspector"

\* discoverFiles finds no file; a path or a search that fails only finds less.
NothingToInspect(w) == Inspects(w) /\ step[w] = 1 /\ Report(w)

\* The LLM does not answer analyze, or with no choice.
AnalysisFails(w) == Inspects(w) /\ step[w] = 3 /\ Report(w)

\* The final progress message and the result.
Complete(w) ==
  /\ BuiltIn(w)
  /\ step[w] \in LastSteps(w)
  /\ step' = [step EXCEPT ![w] = 4]
  /\ PublishResult(w)
  /\ Returned(w)
  /\ UNCHANGED HandlerVars

\* Any other WorkHandler may return without a result of its own.
HandlerReturns(w) ==
  /\ worker[w] = "busy"
  /\ profile[w] = "custom"
  /\ Returned(w)
  /\ UNCHANGED <<step, published, results, inbox, lost, HandlerVars>>

\* ... or ask for help through the runner's client, which changes nothing else.
HandlerAsks(w) ==
  /\ worker[w] = "busy"
  /\ profile[w] = "custom"
  /\ step[w] = 0
  /\ step' = [step EXCEPT ![w] = 1]  \* bound: once
  /\ ToAmbassador(NeedsTopic, order[w])
  /\ UNCHANGED <<worker, published, results, lost, HandlerVars>>

-----------------------------------------------------------------------------

\* The process crashes, or its lease ended and the supervisor terminated it.
Dies(w) ==
  /\ w \in Mortal
  /\ worker[w] \notin {"absent", "dead"}
  /\ worker' = [worker EXCEPT ![w] = "dead"]
  /\ orders' = [orders EXCEPT ![w] = <<>>]
  /\ order' = [order EXCEPT ![w] = None]
  /\ lost' = lost \cup ToSet(orders[w]) \cup (IF order[w] # None /\ results[order[w]] = 0 THEN {order[w]} ELSE {})
  /\ UNCHANGED <<profile, step, published, overdue, results, inbox, conn>>

Runner(w)  == Listen(w) \/ TakeOrder(w) \/ Finish(w)
Handler(w) == BadInputs(w) \/ NextStep(w) \/ BudgetExhausted(w) \/ NothingToInspect(w) \/ AnalysisFails(w)
                \/ Complete(w) \/ HandlerReturns(w) \/ HandlerAsks(w)
WorkerStep(w) == Runner(w) \/ Handler(w) \/ DeadlinePasses(w) \/ Dies(w)

=============================================================================

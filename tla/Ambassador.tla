----------------------------- MODULE Ambassador -----------------------------
(***************************************************************************)
(* The ambassador (internal/ambassador), which people talk to: an event    *)
(* loop that takes conversation turns and work results from the bus, and a *)
(* goroutine per turn, at most MaxConcurrentTurns of them, that has the    *)
(* LLM classify the turn and then answers, escalates or delegates it to    *)
(* workers (R2Worker). Results are answered by the loop itself.            *)
(*                                                                         *)
(* The LLM and the supervisor are seen as calls that answer or fail.       *)
(***************************************************************************)
EXTENDS R2Worker

CONSTANTS
  Turns,               \* conversation turns users ask for
  Plans,               \* turn -> classifications the LLM may give it
  MaxConcurrentTurns,  \* Config.MaxConcurrentTurns
  Uid                  \* the ambassador's own uid on the bus

\* A classification: its action, and for "delegate" the requested tasks with
\* their profiles. A task id is made of the turn's and of the time.
Classification(p) ==
  /\ p.action \in {"direct_answer", "delegate", "ask_followup", "escalate_admin", "nonsense"}
  /\ p.requests \in Seq([task : Tasks, profile : Profiles])
  /\ \A i, j \in DOMAIN p.requests : p.requests[i].task = p.requests[j].task => i = j

\* The tasks a turn may ask for are its own: a task id names its turn.
TurnTasks(t) == UNION {{r.task : r \in ToSet(p.requests)} : p \in Plans[t]}

ASSUME TurnAssumption ==
  /\ \A t \in Turns : \A p \in Plans[t] : Classification(p)
  /\ \A t, u \in Turns : t # u => TurnTasks(t) \cap TurnTasks(u) = {}
  /\ MaxConcurrentTurns \in Nat \ {0}
  /\ Uid \in Uids
  /\ None \notin Turns

VARIABLES
  pc,        \* turn -> where it, or its goroutine, is
  plan,      \* turn -> its classification
  next,      \* turn -> the worker request it is at
  assigned,  \* turn -> worker EnsureWorker returned for that request
  pending,   \* Ambassador.pending: task -> its turn; None when absent
  loop,      \* the event loop: "receive", "turn" (waits for a slot), "result", "answer", "forget"
  current,   \* the turn or task it is at
  answers    \* history: turn -> responses published for it, as [what, of]

turnVars == <<pc, plan, next, assigned>>
vars == <<workerVars, inbox, conn, lost, turnVars, pending, loop, current, answers>>

Init ==
  /\ WorkerInit
  /\ pc = [t \in Turns |-> "unasked"]
  /\ plan = [t \in Turns |-> None]
  /\ next = [t \in Turns |-> 1]
  /\ assigned = [t \in Turns |-> None]
  /\ pending = [k \in Tasks |-> None]
  /\ loop = "receive"
  /\ current = None
  /\ answers = [t \in Turns |-> <<>>]

-----------------------------------------------------------------------------
(* Turns *)

TurnTopic == <<"conversation", "turn", "requested">>

\* A user's shell publishes the request.
UserAsks(t) ==
  /\ pc[t] = "unasked"
  /\ pc' = [pc EXCEPT ![t] = "asked"]
  /\ ToAmbassador(TurnTopic, t)
  /\ lost' = IF Reaches(TurnTopic) THEN lost ELSE lost \cup {t}
  /\ UNCHANGED <<workerVars, conn, plan, next, assigned, pending, loop, current, answers>>

\* Bug: a turn keeps its slot until its tasks are answered.
RunningUntilAnswered ==
  {t \in Turns : pc[t] \notin {"unasked", "asked", "done"} \/ \E k \in Tasks : pending[k] = t}

Running == {t \in Turns : pc[t] \notin {"unasked", "asked", "done"}}

At(t, where) == pc[t] = where
Goto(t, where) == pc' = [pc EXCEPT ![t] = where]

TurnOnly == <<workerVars, inbox, conn, lost, pending, loop, current>>

\* publishTurnResponse; nothing arrives once the bus has refused a message.
Respond(t, what, of) ==
  answers' = IF conn = "open" THEN [answers EXCEPT ![t] = Append(@, [what |-> what, of |-> of])] ELSE answers

\* classifyTurn: what processTurn does next. Anything wrong with the answer is
\* an error, as is no answer.
After(p) ==
  CASE p.action = "direct_answer"  -> "answer"
    [] p.action = "ask_followup"   -> "done"
    [] p.action = "escalate_admin" -> "escalate"
    [] p.action = "delegate" /\ p.requests # <<>> -> "ensure"
    [] OTHER -> "error"

Classify(t) ==
  /\ At(t, "classify")
  /\ \E p \in Plans[t] :
       /\ plan' = [plan EXCEPT ![t] = p]
       /\ Goto(t, After(p))
       /\ IF p.action = "ask_followup" THEN Respond(t, "followup", None) ELSE UNCHANGED answers
  /\ UNCHANGED <<TurnOnly, next, assigned>>

Fail(t) == Goto(t, "error") /\ UNCHANGED <<TurnOnly, plan, next, assigned, answers>>

\* The LLM does not answer: ChatCompletion times out or returns an error.
LLMFails(t) == (At(t, "classify") \/ At(t, "answer")) /\ Fail(t)

\* parseClassification: it answers with something else than a classification.
Unparsable(t) == At(t, "classify") /\ Fail(t)

DirectAnswer(t) ==
  /\ At(t, "answer")
  /\ Goto(t, "done")
  /\ Respond(t, "direct", None)
  /\ UNCHANGED <<TurnOnly, plan, next, assigned>>

EscalationTopic == <<"admin", "escalation", "requested">>

\* escalateToAdmin: the bus refuses the event to a client that is not root, and
\* with it everything that client writes afterwards.
EscalateToAdmin(t) ==
  /\ At(t, "escalate")
  /\ Goto(t, "done")
  /\ IF validateTopicPublish([uid |-> Uid, kind |-> "peer"], EscalationTopic)
     THEN Respond(t, "escalated", None) /\ UNCHANGED conn
     ELSE conn' = (IF conn = "open" THEN "refused" ELSE conn) /\ UNCHANGED answers
  /\ UNCHANGED <<workerVars, inbox, lost, plan, next, assigned, pending, loop, current>>

Request(t) == plan[t].requests[next[t]]

\* The lease of a worker of the profile is reused, or a new worker is spawned;
\* the supervisor does not know whether a reused one is alive.
EnsureWorker(t) ==
  /\ At(t, "ensure")
  /\ Goto(t, "register")
  /\ \E w \in Workers :
       /\ profile[w] \in {None, Request(t).profile}
       /\ assigned' = [assigned EXCEPT ![t] = w]
       /\ profile' = [profile EXCEPT ![w] = Request(t).profile]
       /\ worker' = IF worker[w] = "absent" THEN [worker EXCEPT ![w] = "starting"] ELSE worker
  /\ UNCHANGED <<orders, order, step, published, overdue, results, inbox, conn, lost, plan, next, pending, loop,
                 current, answers>>

\* The supervisor refuses or cannot be reached: requests made before stand.
EnsureFails(t) == At(t, "ensure") /\ Fail(t)

Register(t) ==
  /\ At(t, "register")
  /\ Goto(t, "order")
  /\ pending' = [pending EXCEPT ![Request(t).task] = t]
  /\ UNCHANGED <<workerVars, inbox, conn, lost, plan, next, assigned, loop, current, answers>>

Listening(w) == worker[w] \in {"idle", "busy", "returned"} /\ Len(orders[w]) < QueueSize

SendOrder(t) ==
  LET w == assigned[t]
      task == Request(t).task
  IN  IF conn = "open" /\ Listening(w)
      THEN orders' = [orders EXCEPT ![w] = Append(@, task)] /\ UNCHANGED lost
      ELSE lost' = lost \cup {task} /\ UNCHANGED orders

\* Publishing on assignment.AssignmentTopic.
PublishOrder(t) ==
  /\ At(t, "order")
  /\ SendOrder(t)
  /\ next' = [next EXCEPT ![t] = @ + 1]
  /\ Goto(t, IF next[t] = Len(plan[t].requests) THEN "ack" ELSE "ensure")
  /\ UNCHANGED <<worker, profile, order, step, published, overdue, results, inbox, conn, plan, assigned, pending,
                 loop, current, answers>>

Acknowledge(t) ==
  /\ At(t, "ack")
  /\ Goto(t, "done")
  /\ Respond(t, "ack", None)
  /\ UNCHANGED <<TurnOnly, plan, next, assigned>>

\* Bug: an error is only logged.
LogError(t) == At(t, "error") /\ Goto(t, "done") /\ UNCHANGED <<TurnOnly, plan, next, assigned, answers>>

\* handleTurn: an error is told to the user.
TellError(t) ==
  /\ At(t, "error")
  /\ Goto(t, "done")
  /\ Respond(t, "error", None)
  /\ UNCHANGED <<TurnOnly, plan, next, assigned>>

TurnStep(t) ==
  \/ Classify(t) \/ LLMFails(t) \/ Unparsable(t) \/ DirectAnswer(t) \/ EscalateToAdmin(t)
  \/ EnsureWorker(t) \/ EnsureFails(t) \/ Register(t) \/ PublishOrder(t) \/ Acknowledge(t) \/ TellError(t)

-----------------------------------------------------------------------------
(* The event loop *)

Takes(topic) == loop = "receive" /\ inbox # <<>> /\ Head(inbox).topic = topic

LoopOnly == <<workerVars, conn, lost, plan, next, assigned>>

\* handleTurn blocks the loop until a slot is free.
ReceiveTurn ==
  /\ Takes(TurnTopic)
  /\ loop' = "turn"
  /\ current' = Head(inbox).of
  /\ inbox' = Tail(inbox)
  /\ UNCHANGED <<LoopOnly, pc, pending, answers>>

StartTurn ==
  /\ loop = "turn"
  /\ Cardinality(Running) < MaxConcurrentTurns
  /\ Goto(current, "classify")
  /\ loop' = "receive"
  /\ current' = None
  /\ UNCHANGED <<LoopOnly, inbox, pending, answers>>

\* handleWorkResult. Dispatch looks at the prefix of the topic only, so whatever
\* is subscribed to under it is a result.
ReceiveResult ==
  /\ loop = "receive"
  /\ inbox # <<>>
  /\ IsPrefix(<<"agent", "work", "result">>, Head(inbox).topic)
  /\ inbox' = Tail(inbox)
  /\ IF pending[Head(inbox).of] # None
     THEN loop' = "result" /\ current' = Head(inbox).of
     ELSE UNCHANGED <<loop, current>>
  /\ UNCHANGED <<LoopOnly, pc, pending, answers>>

\* Bug: without a synthesis there is no answer, and the task is kept.
SynthesizeOrGiveUp ==
  /\ loop = "result"
  /\ \/ loop' = "answer" /\ UNCHANGED current
     \/ loop' = "receive" /\ current' = None
  /\ UNCHANGED <<LoopOnly, inbox, pc, pending, answers>>

\* synthesizeWorkResult, which the loop waits for; the worker's own summary
\* takes the place of a synthesis that fails.
Synthesize ==
  /\ loop = "result"
  /\ loop' = "answer"
  /\ UNCHANGED <<LoopOnly, inbox, pc, pending, current, answers>>

AnswerResult ==
  /\ loop = "answer"
  /\ loop' = "forget"
  /\ Respond(pending[current], "result", current)
  /\ UNCHANGED <<LoopOnly, inbox, pc, pending, current>>

Forget ==
  /\ loop = "forget"
  /\ pending' = [pending EXCEPT ![current] = None]
  /\ loop' = "receive"
  /\ current' = None
  /\ UNCHANGED <<LoopOnly, inbox, pc, answers>>

ReceiveNeeds3PO ==
  /\ Takes(NeedsTopic)
  /\ inbox' = Tail(inbox)
  /\ IF pending[Head(inbox).of] # None THEN Respond(pending[Head(inbox).of], "paused", Head(inbox).of)
                                      ELSE UNCHANGED answers
  /\ UNCHANGED <<LoopOnly, pc, pending, loop, current>>

Loop == ReceiveTurn \/ StartTurn \/ ReceiveResult \/ Synthesize \/ AnswerResult \/ Forget \/ ReceiveNeeds3PO

\* The bus ends a refused connection; what its writer had sent can still be read.
\* The loop then logs the error of Receive for ever.
BusCloses ==
  /\ conn = "refused"
  /\ conn' = "closed"
  /\ \E n \in 0 .. Len(inbox) : inbox' = SubSeq(inbox, 1, n)
  /\ UNCHANGED <<workerVars, lost, turnVars, pending, loop, current, answers>>

-----------------------------------------------------------------------------

TurnVarsSame == UNCHANGED <<turnVars, pending, loop, current, answers>>

Next ==
  \/ \E t \in Turns : UserAsks(t) \/ TurnStep(t)
  \/ Loop
  \/ BusCloses
  \/ \E w \in Workers : WorkerStep(w) /\ TurnVarsSame

\* Goroutines and processes are scheduled; the LLM client has a timeout of two
\* minutes, the supervisor answers, and a handler's commands end.
Fairness ==
  /\ \A t \in Turns : WF_vars(TurnStep(t))
  /\ WF_vars(Loop)
  /\ \A w \in Workers : WF_vars((Runner(w) \/ Handler(w)) /\ TurnVarsSame)

Spec == Init /\ [][Next]_vars /\ Fairness

-----------------------------------------------------------------------------
(* Safety *)

Answered(task) == \E t \in Turns : \E i \in DOMAIN answers[t] : answers[t][i] = [what |-> "result", of |-> task]

\* A delegated task gives one result and one answer, whether its handler published
\* a result, failed or just returned, and progress messages are never taken for it.
OneAnswerPerTask ==
  \A k \in Tasks :
    /\ results[k] <= 1
    /\ \A t \in Turns : Cardinality({i \in DOMAIN answers[t] : answers[t][i].what = "result" /\ answers[t][i].of = k}) <= 1
    /\ Answered(k) => results[k] = 1

UnderWay(k) ==
  \/ \E t \in Turns : At(t, "order") /\ Request(t).task = k
  \/ \E w \in Workers : k \in ToSet(orders[w]) \/ order[w] = k
  \/ \E i \in DOMAIN inbox : inbox[i] = [topic |-> ResultTopic(k), of |-> k]
  \/ loop \in {"result", "answer", "forget"} /\ current = k

\* The pending table is neither early nor late: a result never comes back before
\* its task is there, however fast the worker is, and what is in the table is
\* under way somewhere unless a message or a worker was lost.
PendingIsOwed ==
  conn = "open" =>
    \A k \in Tasks :
      /\ results[k] = 1 /\ k \notin lost /\ ~Answered(k) => pending[k] # None
      /\ pending[k] # None => k \in lost \/ UnderWay(k)

(* Liveness *)

Cut == conn # "open"

Replied(t) == \E i \in DOMAIN answers[t] : answers[t][i].of = None

\* Nobody waits in vain: a turn the bus did not drop is answered, also while the
\* loop is held up by turns that occupy every slot and by failing calls, as long
\* as the ambassador is on the bus.
TurnsAnswered == \A t \in Turns : At(t, "asked") ~> (Replied(t) \/ t \in lost \/ Cut)

\* A delegated task is answered in the end, unless it was lost on the way.
TasksAnswered == \A k \in Tasks : pending[k] # None ~> (Answered(k) \/ k \in lost \/ Cut)

=============================================================================

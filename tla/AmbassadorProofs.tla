-------------------------- MODULE AmbassadorProofs --------------------------
(***************************************************************************)
(* What users can rely on when the ambassador delegates, for any number of *)
(* turns, tasks and workers, any queues and whatever is lost on the way.   *)
(***************************************************************************)
EXTENDS Ambassador, FiniteSetTheorems, TLAPS

-----------------------------------------------------------------------------
(* Sequences in which the elements of M occur at most once.                *)

Distinct(s, M) == \A i, j \in DOMAIN s : s[i] = s[j] /\ s[i] \in M => i = j

LEMMA AppendOnce ==
  ASSUME NEW S, NEW M, NEW s \in Seq(S), NEW e \in S
  PROVE  /\ Append(s, e) \in Seq(S) /\ ToSet(Append(s, e)) = ToSet(s) \cup {e}
         /\ Distinct(s, M) /\ e \notin ToSet(s) \cap M => Distinct(Append(s, e), M)
<1>1. PICK t : t = Append(s, e)
  OBVIOUS
<1>2. /\ t \in Seq(S) /\ DOMAIN t = 1..(Len(s) + 1) /\ DOMAIN s = 1..Len(s) /\ Len(s) \in Nat
      /\ \A i \in 1..Len(s) : t[i] = s[i]
      /\ t[Len(s) + 1] = e
  BY <1>1
<1>3. DOMAIN t = DOMAIN s \cup {Len(s) + 1}
  BY <1>2
<1>4. {t[i] : i \in DOMAIN t} = {s[i] : i \in DOMAIN s} \cup {e}
  <2>1. \A x : x \in {t[i] : i \in DOMAIN t} => x \in {s[i] : i \in DOMAIN s} \cup {e}
    BY <1>2, <1>3
  <2>2. \A x : x \in {s[i] : i \in DOMAIN s} => x \in {t[i] : i \in DOMAIN t}
    BY <1>2, <1>3
  <2>3. e \in {t[i] : i \in DOMAIN t}
    BY <1>2, <1>3
  <2>. QED
    BY <2>1, <2>2, <2>3
<1>5. ASSUME Distinct(s, M), e \notin ToSet(s) \cap M
      PROVE  Distinct(t, M)
  <2>. SUFFICES ASSUME NEW i \in DOMAIN t, NEW j \in DOMAIN t, t[i] = t[j], t[i] \in M
                PROVE  i = j
    BY DEF Distinct
  <2>1. \A n \in DOMAIN s : t[n] = s[n] /\ (s[n] \in M => s[n] # e)
    BY <1>2, <1>5 DEF ToSet
  <2>. QED
    BY <1>2, <1>3, <1>5, <2>1 DEF Distinct
<1>. QED
  BY <1>1, <1>2, <1>4, <1>5 DEF ToSet

LEMMA AppendSet ==
  ASSUME NEW S, NEW s \in Seq(S), NEW e \in S
  PROVE  Append(s, e) \in Seq(S) /\ ToSet(Append(s, e)) = ToSet(s) \cup {e}
BY AppendOnce

LEMMA TailOnce ==
  ASSUME NEW S, NEW M, NEW s \in Seq(S), s # <<>>
  PROVE  /\ Head(s) \in S /\ Tail(s) \in Seq(S) /\ ToSet(s) = ToSet(Tail(s)) \cup {Head(s)}
         /\ Distinct(s, M) => Distinct(Tail(s), M) /\ (Head(s) \in M => Head(s) \notin ToSet(Tail(s)))
<1>1. PICK t : t = Tail(s)
  OBVIOUS
<1>2. /\ t \in Seq(S) /\ DOMAIN t = 1..(Len(s) - 1) /\ DOMAIN s = 1..Len(s) /\ Len(s) \in Nat \ {0}
      /\ \A i \in DOMAIN t : i + 1 \in DOMAIN s /\ t[i] = s[i + 1]
      /\ 1 \in DOMAIN s /\ Head(s) = s[1]
  BY <1>1
<1>3. \A i \in DOMAIN s : i = 1 \/ (i - 1 \in DOMAIN t /\ s[i] = t[i - 1])
  BY <1>2
<1>4. {s[i] : i \in DOMAIN s} = {t[i] : i \in DOMAIN t} \cup {s[1]}
  BY <1>2, <1>3
<1>5. ASSUME Distinct(s, M)
      PROVE  Distinct(t, M) /\ (Head(s) \in M => Head(s) \notin ToSet(t))
  <2>1. \A i, j \in DOMAIN t : i + 1 = j + 1 => i = j
    BY <1>2
  <2>2. Distinct(t, M)
    BY <1>2, <1>5, <2>1 DEF Distinct
  <2>3. \A i \in DOMAIN t : i + 1 # 1
    BY <1>2
  <2>4. \A i \in DOMAIN t : s[1] \in M => t[i] # s[1]
    BY <1>2, <1>5, <2>3 DEF Distinct
  <2>5. s[1] \in M => s[1] \notin {t[i] : i \in DOMAIN t}
    BY <2>4
  <2>. QED
    BY <1>2, <2>2, <2>5 DEF ToSet
<1>6. ToSet(s) = ToSet(t) \cup {Head(s)}
  BY <1>2, <1>4, Zenon DEF ToSet
<1>. QED
  BY <1>1, <1>2, <1>5, <1>6

LEMMA CutOnce ==
  ASSUME NEW S, NEW M, NEW s \in Seq(S), NEW n \in 0..Len(s)
  PROVE  /\ SubSeq(s, 1, n) \in Seq(S) /\ ToSet(SubSeq(s, 1, n)) \subseteq ToSet(s)
         /\ Distinct(s, M) => Distinct(SubSeq(s, 1, n), M)
<1>1. PICK t : t = SubSeq(s, 1, n)
  OBVIOUS
<1>2. t \in Seq(S) /\ DOMAIN t \subseteq DOMAIN s /\ \A i \in DOMAIN t : t[i] = s[i]
  BY <1>1
<1>. QED
  BY <1>1, <1>2 DEF Distinct, ToSet

-----------------------------------------------------------------------------
(* What is on the bus, and what the parties know of it.                    *)

Asked(t)  == [topic |-> TurnTopic, of |-> t]
Result(k) == [topic |-> ResultTopic(k), of |-> k]
Needs(k)  == [topic |-> NeedsTopic, of |-> k]

AskedTurns == {Asked(t) : t \in Turns}
WorkResults == {Result(k) : k \in Tasks}
Messages == AskedTurns \cup WorkResults \cup {Needs(k) : k \in Tasks}

Places == {"unasked", "asked", "classify", "answer", "escalate", "ensure", "register", "order", "ack", "error", "done"}

\* Where a turn is in its plan.
TurnAt(t) ==
  /\ pc[t] \in {"unasked", "asked", "classify"} => next[t] = 1
  /\ pc[t] \in {"ensure", "register", "order"} => plan[t] \in Plans[t] /\ next[t] \in 1..Len(plan[t].requests)
  /\ next[t] > 1 => plan[t] \in Plans[t] /\ next[t] - 1 \in 1..Len(plan[t].requests)
  /\ pc[t] \in {"register", "order"} => assigned[t] \in Workers
  /\ Asked(t) \in ToSet(inbox) => pc[t] = "asked"

WaitsForSlot == loop = "turn" => current \in Turns /\ pc[current] = "asked" /\ Asked(current) \notin ToSet(inbox)

\* A turn is heard of once, and is at a request of its plan.
TurnsInv ==
  /\ pc \in [Turns -> Places]
  /\ DOMAIN plan = Turns
  /\ next \in [Turns -> Nat \ {0}]
  /\ DOMAIN assigned = Turns
  /\ inbox \in Seq(Messages)
  /\ Distinct(inbox, AskedTurns)
  /\ \A t \in Turns : TurnAt(t)
  /\ WaitsForSlot

\* The tasks that orders were published for, wherever these are by now.
Sent(k) == \E t \in Turns : \E i \in 1..(next[t] - 1) : plan[t].requests[i].task = k

Holds(w, k) == k \in ToSet(orders[w]) \/ order[w] = k

\* What a worker has.
WorkerHas(w) ==
  /\ order[w] # None <=> worker[w] \in {"busy", "returned"}
  /\ worker[w] = "busy" => ~published[w]
  /\ Distinct(orders[w], Tasks)
  /\ order[w] \notin ToSet(orders[w])
  /\ \A k \in ToSet(orders[w]) : results[k] = 0
  /\ order[w] # None => results[order[w]] = IF published[w] THEN 1 ELSE 0

\* A task is with one worker and was sent there.
HeldOnce(k) ==
  /\ \A w, v \in Workers : Holds(w, k) /\ Holds(v, k) => w = v
  /\ \A w \in Workers : Holds(w, k) => Sent(k)
  /\ results[k] = 1 => Sent(k)

\* A task is with one worker, once, and gives its result there.
WorkInv ==
  /\ worker \in [Workers -> {"absent", "starting", "idle", "busy", "returned", "dead"}]
  /\ orders \in [Workers -> Seq(Tasks)]
  /\ order \in [Workers -> Tasks \cup {None}]
  /\ published \in [Workers -> BOOLEAN]
  /\ results \in [Tasks -> {0, 1}]
  /\ \A w \in Workers : WorkerHas(w)
  /\ \A k \in Tasks : HeldOnce(k)

Replies == {"direct", "followup", "escalated", "ack", "error", "paused", "result"}
Answers == [what : Replies, of : Tasks \cup {None}]

ResultsOnce ==
  \A t, u \in Turns : \A i \in DOMAIN answers[t] : \A j \in DOMAIN answers[u] :
    answers[t][i].what = "result" /\ answers[u][j] = answers[t][i] => t = u /\ i = j

Handling == loop \in {"result", "answer", "forget"}

\* Where a result may be.
ResultAt(k) ==
  /\ Result(k) \in ToSet(inbox) => results[k] = 1 /\ ~Answered(k)
  /\ Answered(k) => results[k] = 1

\* A result is in the inbox, with the loop or answered, and never twice.
ResultsInv ==
  /\ pending \in [Tasks -> Turns \cup {None}]
  /\ answers \in [Turns -> Seq(Answers)]
  /\ ResultsOnce
  /\ Distinct(inbox, WorkResults)
  /\ \A k \in Tasks : ResultAt(k)
  /\ Handling => /\ current \in Tasks /\ pending[current] # None
                 /\ results[current] = 1 /\ Result(current) \notin ToSet(inbox)
  /\ loop \in {"result", "answer"} => ~Answered(current)

Inv == TurnsInv /\ WorkInv /\ ResultsInv

Owed(k) ==
  \/ \E t \in Turns : pc[t] = "order" /\ Request(t).task = k
  \/ \E w \in Workers : k \in ToSet(orders[w]) \/ (order[w] = k /\ results[k] = 0)
  \/ Result(k) \in ToSet(inbox)
  \/ Handling /\ current = k

\* A task in the table that is not lost has its result still to come.
OwedInv ==
  conn = "open" =>
    /\ \A k \in Tasks : Sent(k) /\ ~Answered(k) => pending[k] # None
    /\ \A t \in Turns : pc[t] = "order" => pending[Request(t).task] # None
    /\ loop = "forget" => Answered(current)
    /\ \A k \in Tasks : pending[k] # None /\ k \notin lost => Owed(k)

-----------------------------------------------------------------------------
(* The messages differ, and the ambassador does not hear of progress.      *)

LEMMA MessagesDiffer ==
  /\ \A t \in Turns, k \in Tasks : Asked(t) # Result(k) /\ Asked(t) # Needs(k)
  /\ \A j, k \in Tasks : Result(j) # Needs(k) /\ (Result(j) = Result(k) => j = k)
  /\ \A t, u \in Turns : Asked(t) = Asked(u) => t = u
<1>1. TurnTopic # NeedsTopic /\ \A k : ResultTopic(k) # TurnTopic /\ ResultTopic(k) # NeedsTopic
  BY DEF TurnTopic, NeedsTopic, ResultTopic
<1>. QED
  BY <1>1 DEF Asked, Result, Needs

LEMMA ProgressUnheard ==
  ASSUME NEW k PROVE ~Hears(ProgressTopic(k))
<1>1. PICK S : S = {"agent", "work", "result", "progress", k}
  OBVIOUS
<1>2. "agent" \in S /\ "work" \in S /\ "result" \in S /\ "progress" \in S /\ k \in S
  BY <1>1
<1>3. ASSUME NEW a \in S, NEW b \in S, NEW c \in S, NEW d \in S
      PROVE  <<a, b, c, d>> \in Seq(S) /\ Len(<<a, b, c, d>>) = 4
  OBVIOUS
<1>4. ResultTopic(k) \in Seq(S) /\ Len(ResultTopic(k)) = 4
  BY <1>2, <1>3 DEF ResultTopic
<1>5. ASSUME NEW s \in Seq(S), NEW e \in S, Len(s) = 4
      PROVE  Len(Append(s, e)) = 5
  <2>1. Len(Append(s, e)) = Len(s) + 1
    OBVIOUS
  <2>2. Len(s) + 1 = 5
    BY <1>5
  <2>. QED
    BY <2>1, <2>2, Zenon
<1>6. Len(ProgressTopic(k)) = 5
  <2>1. PICK r \in Seq(S), e \in S : r = ResultTopic(k) /\ e = "progress"
    BY <1>2, <1>4
  <2>2. Len(Append(r, e)) = 5
    BY <1>4, <1>5, <2>1, Zenon
  <2>. QED
    BY <2>1, <2>2, Zenon DEF ProgressTopic
<1>7. \A q \in Subscriptions : Len(q) # 5
  BY DEF Subscriptions, NeedsTopic
<1>. QED
  BY <1>6, <1>7, Zenon DEF Hears, TopicMatch

LEMMA OnlyResultsHandled ==
  ASSUME NEW m \in Messages, IsPrefix(<<"agent", "work", "result">>, m.topic)
  PROVE  \E k \in Tasks : m = Result(k) /\ m.of = k
<1>1. ~IsPrefix(<<"agent", "work", "result">>, TurnTopic)
  BY DEF IsPrefix, TurnTopic
<1>2. ~IsPrefix(<<"agent", "work", "result">>, NeedsTopic)
  BY DEF IsPrefix, NeedsTopic
<1>. QED
  BY <1>1, <1>2 DEF Messages, AskedTurns, WorkResults, Asked, Result, Needs

\* What the ambassador's queue is after a message was published to it.
LEMMA Arrives ==
  ASSUME inbox \in Seq(Messages), NEW topic, NEW of, ToAmbassador(topic, of), [topic |-> topic, of |-> of] \in Messages
  PROVE  LET m == [topic |-> topic, of |-> of] IN
         /\ inbox' \in Seq(Messages)
         /\ \/ inbox' = inbox /\ ~Reaches(topic)
            \/ Reaches(topic) /\ ToSet(inbox') = ToSet(inbox) \cup {m}
         /\ \A M : Distinct(inbox, M) /\ m \notin ToSet(inbox) \cap M => Distinct(inbox', M)
<1>1. PICK m : m = [topic |-> topic, of |-> of]
  OBVIOUS
<1>2. CASE Reaches(topic)
  <2>1. inbox' = Append(inbox, m)
    BY <1>1, <1>2 DEF ToAmbassador
  <2>2. /\ Append(inbox, m) \in Seq(Messages) /\ ToSet(Append(inbox, m)) = ToSet(inbox) \cup {m}
        /\ \A M : Distinct(inbox, M) /\ m \notin ToSet(inbox) \cap M => Distinct(Append(inbox, m), M)
    <3>1. PICK q \in Seq(Messages) : q = inbox
      OBVIOUS
    <3>2. m \in Messages
      BY <1>1
    <3>3. Append(q, m) \in Seq(Messages) /\ ToSet(Append(q, m)) = ToSet(q) \cup {m}
      BY <3>2, AppendSet
    <3>4. ASSUME NEW M, Distinct(q, M), m \notin ToSet(q) \cap M
          PROVE  Distinct(Append(q, m), M)
      BY <3>2, <3>4, AppendOnce
    <3>. QED
      BY <3>1, <3>3, <3>4, Zenon
  <2>. QED
    BY <1>1, <1>2, <2>1, <2>2
<1>3. CASE ~Reaches(topic)
  BY <1>3 DEF ToAmbassador
<1>. QED
  BY <1>2, <1>3

-----------------------------------------------------------------------------
(* What a turn asks for.                                                   *)

LEMMA PlansTyped ==
  ASSUME NEW t \in Turns, NEW p \in Plans[t]
  PROVE  /\ p.requests \in Seq([task : Tasks, profile : Profiles])
         /\ \A i \in 1..Len(p.requests) : p.requests[i].task \in Tasks /\ p.requests[i].task \in TurnTasks(t)
         /\ \A i, j \in 1..Len(p.requests) : p.requests[i].task = p.requests[j].task => i = j
         /\ After(p) \in Places \ {"unasked", "asked", "classify", "register", "order"}
         /\ After(p) = "ensure" => 1 \in 1..Len(p.requests)
<1>1. Classification(p)
  BY TurnAssumption
<1>2. p.requests \in Seq([task : Tasks, profile : Profiles])
  BY <1>1 DEF Classification
<1>3. PICK s \in Seq([task : Tasks, profile : Profiles]) : s = p.requests
  BY <1>2
<1>4. DOMAIN s = 1..Len(s) /\ Len(s) \in Nat /\ \A i \in 1..Len(s) : s[i] \in [task : Tasks, profile : Profiles]
  <2>1. ASSUME NEW S, NEW r \in Seq(S)
        PROVE  DOMAIN r = 1..Len(r) /\ Len(r) \in Nat /\ \A i \in 1..Len(r) : r[i] \in S
    OBVIOUS
  <2>. QED
    BY <2>1, Zenon
<1>5. ASSUME NEW i \in 1..Len(s)
      PROVE  s[i].task \in Tasks /\ s[i].task \in TurnTasks(t)
  <2>1. s[i].task \in Tasks
    BY <1>4
  <2>2. s[i] \in ToSet(p.requests)
    BY <1>3, <1>4 DEF ToSet
  <2>. QED
    BY <2>1, <2>2 DEF TurnTasks
<1>6. \A i, j \in 1..Len(s) : s[i].task = s[j].task => i = j
  BY <1>1, <1>3, <1>4 DEF Classification
<1>7. After(p) \in Places \ {"unasked", "asked", "classify", "register", "order"}
  BY DEF After, Places
<1>8. After(p) = "ensure" => p.requests # <<>>
  BY DEF After
<1>9. s # <<>> => 1 \in 1..Len(s)
  OBVIOUS
<1>. QED
  BY <1>2, <1>3, <1>5, <1>6, <1>7, <1>8, <1>9, Zenon

\* A request is made once: the tasks of a plan differ, and those of two turns.
LEMMA RequestFresh ==
  ASSUME TurnsInv, NEW t \in Turns, pc[t] \in {"ensure", "register", "order"}
  PROVE  /\ plan[t] \in Plans[t] /\ next[t] \in 1..Len(plan[t].requests)
         /\ Request(t).task \in Tasks /\ ~Sent(Request(t).task)
<1>1. plan[t] \in Plans[t] /\ next[t] \in 1..Len(plan[t].requests)
  BY DEF TurnsInv, TurnAt
<1>2. Request(t).task \in Tasks /\ Request(t).task \in TurnTasks(t)
  BY <1>1, PlansTyped DEF Request
<1>3. ASSUME NEW u \in Turns, NEW i \in 1..(next[u] - 1), plan[u].requests[i].task = Request(t).task
      PROVE  FALSE
  <2>1. next[u] \in Nat \ {0} /\ next[u] > 1
    BY DEF TurnsInv
  <2>2. plan[u] \in Plans[u] /\ next[u] - 1 \in 1..Len(plan[u].requests)
    BY <2>1 DEF TurnsInv, TurnAt
  <2>3. Len(plan[u].requests) \in Nat
    BY <2>2, PlansTyped
  <2>4. i \in 1..Len(plan[u].requests)
    BY <2>1, <2>2, <2>3
  <2>5. Request(t).task \in TurnTasks(u)
    BY <1>3, <2>2, <2>4, PlansTyped
  <2>6. u = t
    BY <1>2, <2>5, TurnAssumption
  <2>7. i = next[t]
    BY <1>1, <1>3, <2>4, <2>6, PlansTyped DEF Request
  <2>. QED
    BY <2>1, <2>6, <2>7
<1>. QED
  BY <1>1, <1>2, <1>3 DEF Sent

-----------------------------------------------------------------------------
(* What a worker's step does to its orders and to the ambassador's queue.  *)

Quiet(w) ==
  /\ UNCHANGED <<orders, order, published, results, lost>>
  /\ worker' \in [Workers -> {"absent", "starting", "idle", "busy", "returned", "dead"}]
  /\ \A v \in Workers : /\ worker'[v] \in {"busy", "returned"} <=> worker[v] \in {"busy", "returned"}
                        /\ worker'[v] = "busy" => worker[v] = "busy"
  /\ \/ inbox' = inbox
     \/ order[w] \in Tasks /\ ToAmbassador(NeedsTopic, order[w])

Begins(w) ==
  /\ worker[w] = "idle" /\ orders[w] # <<>>
  /\ worker' = [worker EXCEPT ![w] = "busy"]
  /\ order' = [order EXCEPT ![w] = Head(orders[w])]
  /\ orders' = [orders EXCEPT ![w] = Tail(@)]
  /\ published' = [published EXCEPT ![w] = FALSE]
  /\ UNCHANGED <<inbox, results, lost>>

Publishes(w) ==
  /\ order[w] \in Tasks /\ ~published[w]
  /\ PublishResult(w)
  /\ UNCHANGED orders
  /\ \/ worker' = [worker EXCEPT ![w] = "returned"] /\ UNCHANGED order
     \/ worker' = [worker EXCEPT ![w] = "idle"] /\ order' = [order EXCEPT ![w] = None]

Ends(w) ==
  /\ order[w] \in Tasks /\ published[w]
  /\ worker' = [worker EXCEPT ![w] = "idle"]
  /\ order' = [order EXCEPT ![w] = None]
  /\ UNCHANGED <<orders, published, results, inbox, lost>>

LEMMA WorkerEffects ==
  ASSUME WorkInv, NEW w \in Workers, WorkerStep(w)
  PROVE  conn' = conn /\ (Quiet(w) \/ Begins(w) \/ Publishes(w) \/ Ends(w) \/ Dies(w))
<1>1. /\ worker \in [Workers -> {"absent", "starting", "idle", "busy", "returned", "dead"}]
      /\ worker[w] \in {"busy", "returned"} => order[w] \in Tasks
      /\ worker[w] = "busy" => ~published[w]
      /\ published[w] \in BOOLEAN
  BY DEF WorkInv, WorkerHas
<1>2. \A k : ToAmbassador(ProgressTopic(k), k) => inbox' = inbox
  BY ProgressUnheard DEF ToAmbassador, Reaches
<1>3. CASE Listen(w)
  BY <1>1, <1>3 DEF Listen, Quiet
<1>4. CASE TakeOrder(w)
  BY <1>2, <1>4 DEF TakeOrder, Begins
<1>5. CASE Finish(w)
  BY <1>1, <1>5 DEF Finish, Release, Publishes, Ends
<1>6. CASE NextStep(w)
  BY <1>1, <1>2, <1>6 DEF NextStep, PublishProgress, HandlerVars, Quiet
<1>7. CASE HandlerReturns(w)
  BY <1>1, <1>7 DEF HandlerReturns, Returned, HandlerVars, Quiet
<1>8. CASE HandlerAsks(w)
  BY <1>1, <1>8 DEF HandlerAsks, HandlerVars, Quiet
<1>9. CASE DeadlinePasses(w)
  BY <1>1, <1>9 DEF DeadlinePasses, Quiet
<1>10. CASE Dies(w)
  BY <1>10 DEF Dies
<1>11. ASSUME worker[w] = "busy", Report(w)
       PROVE  conn' = conn /\ Publishes(w)
  BY <1>1, <1>11 DEF Report, Returned, HandlerVars, Publishes
<1>12. CASE BadInputs(w) \/ BudgetExhausted(w) \/ NothingToInspect(w) \/ AnalysisFails(w)
  BY <1>11, <1>12 DEF BadInputs, BudgetExhausted, NothingToInspect, AnalysisFails, Inspects, BuiltIn
<1>13. CASE Complete(w)
  BY <1>1, <1>13 DEF Complete, BuiltIn, Returned, HandlerVars, Publishes
<1>. QED
  BY <1>3, <1>4, <1>5, <1>6, <1>7, <1>8, <1>9, <1>10, <1>12, <1>13 DEF WorkerStep, Runner, Handler

-----------------------------------------------------------------------------
(* The turns                                                               *)

\* What reaches the ambassador's queue from a worker is about a task.
LEMMA WorkerInbox ==
  ASSUME TurnsInv, WorkInv, NEW w \in Workers, WorkerStep(w)
  PROVE  /\ inbox' \in Seq(Messages)
         /\ Distinct(inbox', AskedTurns)
         /\ \A t \in Turns : Asked(t) \in ToSet(inbox') => Asked(t) \in ToSet(inbox)
<1>1. inbox \in Seq(Messages) /\ Distinct(inbox, AskedTurns)
  BY DEF TurnsInv
<1>2. ASSUME NEW k \in Tasks, ToAmbassador(NeedsTopic, k)
      PROVE  /\ inbox' \in Seq(Messages)
             /\ Distinct(inbox', AskedTurns)
             /\ \A t \in Turns : Asked(t) \in ToSet(inbox') => Asked(t) \in ToSet(inbox)
  <2>1. PICK m : m = [topic |-> NeedsTopic, of |-> k]
    OBVIOUS
  <2>2. m \in Messages /\ m \notin AskedTurns
    BY <2>1, MessagesDiffer DEF Messages, AskedTurns, Needs
  <2>. QED
    BY <1>1, <1>2, <2>1, <2>2, Arrives DEF AskedTurns
<1>3. ASSUME NEW k \in Tasks, ToAmbassador(ResultTopic(k), k)
      PROVE  /\ inbox' \in Seq(Messages)
             /\ Distinct(inbox', AskedTurns)
             /\ \A t \in Turns : Asked(t) \in ToSet(inbox') => Asked(t) \in ToSet(inbox)
  <2>1. PICK m : m = [topic |-> ResultTopic(k), of |-> k]
    OBVIOUS
  <2>2. m \in Messages /\ m \notin AskedTurns
    BY <2>1, MessagesDiffer DEF Messages, AskedTurns, WorkResults, Result
  <2>. QED
    BY <1>1, <1>3, <2>1, <2>2, Arrives DEF AskedTurns
<1>4. CASE Quiet(w)
  BY <1>1, <1>2, <1>4 DEF Quiet
<1>5. CASE Begins(w) \/ Ends(w) \/ Dies(w)
  BY <1>1, <1>5 DEF Begins, Ends, Dies
<1>6. CASE Publishes(w)
  BY <1>1, <1>3, <1>6 DEF Publishes, PublishResult
<1>. QED
  BY <1>4, <1>5, <1>6, WorkerEffects

\* A goroutine fails or is done: it answers for itself at most.
Settles(t) ==
  /\ pc[t] \notin {"unasked", "asked", "order"}
  /\ \E where \in {"error", "done"} : Goto(t, where)
  /\ UNCHANGED <<workerVars, inbox, lost, plan, next, assigned, pending, loop, current>>
  /\ conn' = "open" => conn = "open"
  /\ \/ UNCHANGED answers
     \/ \E what \in {"direct", "escalated", "ack", "error"} : Respond(t, what, None)

LEMMA TurnEffects ==
  ASSUME NEW t \in Turns, TurnStep(t)
  PROVE  Classify(t) \/ EnsureWorker(t) \/ Register(t) \/ PublishOrder(t) \/ Settles(t)
<1>1. CASE LLMFails(t) \/ Unparsable(t) \/ EnsureFails(t)
  BY <1>1 DEF LLMFails, Unparsable, EnsureFails, Fail, Goto, At, TurnOnly, Settles
<1>2. CASE DirectAnswer(t)
  BY <1>2 DEF DirectAnswer, Goto, At, TurnOnly, Settles
<1>3. CASE EscalateToAdmin(t)
  BY <1>3 DEF EscalateToAdmin, Goto, At, Settles
<1>4. CASE Acknowledge(t)
  BY <1>4 DEF Acknowledge, Goto, At, TurnOnly, Settles
<1>5. CASE TellError(t)
  BY <1>5 DEF TellError, Goto, At, TurnOnly, Settles
<1>. QED
  BY <1>1, <1>2, <1>3, <1>4, <1>5 DEF TurnStep

\* A turn that is under way moves: it alone changes, and the queue does not.
LEMMA TurnMoves ==
  ASSUME TurnsInv, NEW t \in Turns, pc[t] \notin {"unasked", "asked"}, UNCHANGED <<inbox, loop, current>>,
         NEW where \in Places, where # "asked", Goto(t, where),
         \/ UNCHANGED plan
         \/ \E p : plan' = [plan EXCEPT ![t] = p],
         \/ UNCHANGED next
         \/ \E n \in Nat \ {0} : next' = [next EXCEPT ![t] = n],
         \/ UNCHANGED assigned
         \/ \E w : assigned' = [assigned EXCEPT ![t] = w],
         Asked(t) \notin ToSet(inbox) => TurnAt(t)'
  PROVE  TurnsInv'
<1>1. /\ pc' \in [Turns -> Places] /\ pc'[t] = where
      /\ \A u \in Turns : u # t => pc'[u] = pc[u]
  BY DEF TurnsInv, Goto
<1>2. /\ DOMAIN plan' = Turns /\ next' \in [Turns -> Nat \ {0}] /\ DOMAIN assigned' = Turns
      /\ \A u \in Turns : u # t => plan'[u] = plan[u] /\ next'[u] = next[u] /\ assigned'[u] = assigned[u]
  BY DEF TurnsInv
<1>3. \A u \in Turns : TurnAt(u)
  BY DEF TurnsInv
<1>4. Asked(t) \notin ToSet(inbox)
  BY <1>3 DEF TurnAt
<1>5. \A u \in Turns : TurnAt(u)'
  BY <1>1, <1>2, <1>3, <1>4 DEF TurnAt
<1>6. WaitsForSlot'
  BY <1>1 DEF TurnsInv, WaitsForSlot
<1>. QED
  BY <1>1, <1>2, <1>5, <1>6 DEF TurnsInv

LEMMA TurnsStep ==
  ASSUME TurnsInv, WorkInv, [Next]_vars
  PROVE  TurnsInv'
<1>. USE DEF TurnsInv
<1>1. ASSUME NEW t \in Turns, UserAsks(t)
      PROVE  TurnsInv'
  <2>1. PICK m : m = Asked(t)
    OBVIOUS
  <2>2. /\ inbox' \in Seq(Messages)
        /\ ToSet(inbox') \subseteq ToSet(inbox) \cup {m}
        /\ Distinct(inbox', AskedTurns)
    <3>1. m \in Messages /\ m = [topic |-> TurnTopic, of |-> t]
      BY <2>1 DEF Messages, AskedTurns, Asked
    <3>2. m \notin ToSet(inbox)
      BY <1>1, <2>1 DEF UserAsks, TurnAt
    <3>3. ToAmbassador(TurnTopic, t)
      BY <1>1 DEF UserAsks
    <3>. QED
      BY <3>1, <3>2, <3>3, Arrives
  <2>3. \A u \in Turns : pc'[u] = IF u = t THEN "asked" ELSE pc[u]
    BY <1>1 DEF UserAsks
  <2>4. pc' \in [Turns -> Places] /\ UNCHANGED <<plan, next, assigned, loop, current>> /\ pc[t] = "unasked"
    BY <1>1 DEF UserAsks, Places
  <2>5. \A u \in Turns : Asked(u) \in ToSet(inbox') => Asked(u) \in ToSet(inbox) \/ u = t
    BY <2>1, <2>2, MessagesDiffer
  <2>6. \A u \in Turns : TurnAt(u)'
    BY <2>3, <2>4, <2>5 DEF TurnAt
  <2>7. WaitsForSlot'
    BY <2>3, <2>4, <2>5 DEF WaitsForSlot
  <2>. QED
    BY <2>2, <2>4, <2>6, <2>7
<1>2. ASSUME NEW t \in Turns, TurnStep(t)
      PROVE  TurnsInv'
  <2>1. CASE Classify(t)
    <3>1. PICK p \in Plans[t] : plan' = [plan EXCEPT ![t] = p] /\ Goto(t, After(p))
      BY <2>1 DEF Classify
    <3>2. /\ UNCHANGED <<inbox, loop, current, next, assigned>> /\ pc[t] = "classify"
          /\ next[t] = 1
      BY <2>1 DEF Classify, TurnOnly, At, TurnAt
    <3>3. pc'[t] = After(p) /\ plan'[t] = p
      BY <3>1 DEF Goto
    <3>4. /\ After(p) \in Places \ {"unasked", "asked", "classify", "register", "order"}
          /\ After(p) = "ensure" => 1 \in 1..Len(p.requests)
      BY PlansTyped
    <3>5. Asked(t) \notin ToSet(inbox) => TurnAt(t)'
      BY <3>2, <3>3, <3>4 DEF TurnAt
    <3>6. After(p) # "asked" /\ pc[t] \notin {"unasked", "asked"}
      BY <3>2, <3>4
    <3>. QED
      BY <3>1, <3>2, <3>4, <3>5, <3>6, TurnMoves
  <2>2. CASE EnsureWorker(t)
    <3>1. PICK w \in Workers : assigned' = [assigned EXCEPT ![t] = w]
      BY <2>2 DEF EnsureWorker
    <3>2. UNCHANGED <<inbox, loop, current, next, plan>> /\ pc[t] = "ensure" /\ Goto(t, "register")
      BY <2>2 DEF EnsureWorker, At
    <3>3. pc'[t] = "register" /\ assigned'[t] = w
      BY <3>1, <3>2 DEF Goto
    <3>4. Asked(t) \notin ToSet(inbox) => TurnAt(t)'
      BY <3>2, <3>3 DEF TurnAt
    <3>5. "register" \in Places
      BY DEF Places
    <3>. QED
      BY <3>1, <3>2, <3>4, <3>5, TurnMoves
  <2>3. CASE Register(t)
    <3>2. UNCHANGED <<inbox, loop, current, next, plan, assigned>> /\ pc[t] = "register" /\ Goto(t, "order")
      BY <2>3 DEF Register, At
    <3>3. pc'[t] = "order"
      BY <3>2 DEF Goto
    <3>4. Asked(t) \notin ToSet(inbox) => TurnAt(t)'
      BY <3>2, <3>3 DEF TurnAt
    <3>5. "order" \in Places
      BY DEF Places
    <3>. QED
      BY <3>2, <3>4, <3>5, TurnMoves
  <2>4. CASE PublishOrder(t)
    <3>1. PICK where \in {"ack", "ensure"} :
            /\ Goto(t, where)
            /\ where = IF next[t] = Len(plan[t].requests) THEN "ack" ELSE "ensure"
      BY <2>4 DEF PublishOrder
    <3>2. /\ UNCHANGED <<inbox, loop, current, plan, assigned>> /\ pc[t] = "order"
          /\ next' = [next EXCEPT ![t] = next[t] + 1]
          /\ plan[t] \in Plans[t] /\ next[t] \in 1..Len(plan[t].requests)
      BY <2>4 DEF PublishOrder, At, TurnAt
    <3>3. pc'[t] = where /\ next'[t] = next[t] + 1 /\ next[t] + 1 \in Nat \ {0}
      BY <3>1, <3>2 DEF Goto
    <3>4. PICK n \in Nat : n = Len(plan[t].requests)
      <4>1. Len(plan[t].requests) \in Nat
        BY <3>2, PlansTyped
      <4>. QED
        BY <4>1
    <3>5. where = "ensure" => next'[t] \in 1..n
      BY <3>1, <3>2, <3>3, <3>4
    <3>6. next'[t] - 1 \in 1..n
      BY <3>2, <3>3, <3>4
    <3>7. Asked(t) \notin ToSet(inbox) => TurnAt(t)'
      BY <3>1, <3>2, <3>3, <3>4, <3>5, <3>6 DEF TurnAt
    <3>8. where \in Places /\ where # "asked"
      BY <3>1 DEF Places
    <3>. QED
      BY <3>1, <3>2, <3>3, <3>7, <3>8, TurnMoves
  <2>5. CASE Settles(t)
    <3>1. PICK where \in {"error", "done"} : Goto(t, where)
      BY <2>5 DEF Settles
    <3>2. UNCHANGED <<inbox, loop, current, next, plan, assigned>> /\ pc[t] \notin {"unasked", "asked"}
      BY <2>5 DEF Settles
    <3>3. pc'[t] = where
      BY <3>1 DEF Goto
    <3>4. Asked(t) \notin ToSet(inbox) => TurnAt(t)'
      BY <3>1, <3>2, <3>3 DEF TurnAt
    <3>5. where \in Places /\ where # "asked"
      BY <3>1 DEF Places
    <3>. QED
      BY <3>1, <3>2, <3>4, <3>5, TurnMoves
  <2>. QED
    BY <1>2, <2>1, <2>2, <2>3, <2>4, <2>5, TurnEffects
<1>3. ASSUME UNCHANGED <<pc, plan, next, assigned>>,
             inbox' \in Seq(Messages), Distinct(inbox', AskedTurns),
             \A t \in Turns : Asked(t) \in ToSet(inbox') => Asked(t) \in ToSet(inbox),
             WaitsForSlot'
      PROVE  TurnsInv'
  BY <1>3 DEF TurnAt
<1>4. ASSUME UNCHANGED <<loop, current, pc>> \/ (UNCHANGED pc /\ loop' # "turn"),
             \A t \in Turns : Asked(t) \in ToSet(inbox') => Asked(t) \in ToSet(inbox)
      PROVE  WaitsForSlot'
  BY <1>4 DEF WaitsForSlot

<1>5. CASE Loop
  <2>1. ASSUME inbox # <<>>, inbox' = Tail(inbox)
        PROVE  /\ inbox' \in Seq(Messages) /\ Distinct(inbox', AskedTurns)
               /\ \A t \in Turns : Asked(t) \in ToSet(inbox') => Asked(t) \in ToSet(inbox)
               /\ Head(inbox) \in Messages /\ Head(inbox) \in ToSet(inbox)
               /\ Head(inbox) \in AskedTurns => Head(inbox) \notin ToSet(inbox')
    <3>1. /\ Head(inbox) \in Messages /\ Tail(inbox) \in Seq(Messages)
          /\ ToSet(inbox) = ToSet(Tail(inbox)) \cup {Head(inbox)}
          /\ Distinct(Tail(inbox), AskedTurns)
          /\ Head(inbox) \in AskedTurns => Head(inbox) \notin ToSet(Tail(inbox))
      BY <2>1, TailOnce
    <3>. QED
      BY <2>1, <3>1
  <2>2. CASE ReceiveTurn
    <3>1. inbox # <<>> /\ inbox' = Tail(inbox) /\ Head(inbox).topic = TurnTopic /\ current' = Head(inbox).of
      BY <2>2 DEF ReceiveTurn, Takes
    <3>2. PICK t \in Turns : Head(inbox) = Asked(t)
      <4>1. \A k \in Tasks : Result(k).topic # TurnTopic /\ Needs(k).topic # TurnTopic
        BY DEF Result, Needs, TurnTopic, NeedsTopic, ResultTopic
      <4>. QED
        BY <2>1, <3>1, <4>1 DEF Messages, AskedTurns, WorkResults
    <3>3. current' = t
      BY <3>1, <3>2 DEF Asked
    <3>4. Asked(t) \notin ToSet(inbox') /\ pc[t] = "asked"
      BY <2>1, <3>1, <3>2 DEF AskedTurns, TurnAt
    <3>5. UNCHANGED <<pc, plan, next, assigned>>
      BY <2>2 DEF ReceiveTurn, LoopOnly
    <3>6. WaitsForSlot'
      BY <3>3, <3>4, <3>5 DEF WaitsForSlot
    <3>. QED
      BY <1>3, <2>1, <3>1, <3>5, <3>6
  <2>3. CASE StartTurn
    <3>1. /\ current \in Turns /\ pc[current] = "asked" /\ Asked(current) \notin ToSet(inbox)
          /\ pc' = [pc EXCEPT ![current] = "classify"] /\ loop' # "turn"
          /\ UNCHANGED <<plan, next, assigned, inbox>>
      BY <2>3 DEF StartTurn, WaitsForSlot, Goto, LoopOnly
    <3>2. pc' \in [Turns -> Places] /\ pc'[current] = "classify" /\ \A u \in Turns : u # current => pc'[u] = pc[u]
      BY <3>1 DEF Places
    <3>3. \A u \in Turns : TurnAt(u)'
      BY <3>1, <3>2 DEF TurnAt
    <3>4. WaitsForSlot'
      BY <3>1 DEF WaitsForSlot
    <3>. QED
      BY <3>1, <3>2, <3>3, <3>4
  <2>4. CASE ReceiveResult
    <3>1. /\ UNCHANGED <<pc, plan, next, assigned>> /\ inbox # <<>> /\ inbox' = Tail(inbox)
          /\ UNCHANGED <<loop, current>> \/ loop' # "turn"
      BY <2>4 DEF ReceiveResult, LoopOnly
    <3>. QED
      BY <1>3, <1>4, <2>1, <3>1
  <2>5. CASE Synthesize \/ AnswerResult \/ Forget
    <3>1. UNCHANGED <<pc, plan, next, assigned, inbox>> /\ loop' # "turn"
      BY <2>5 DEF Synthesize, AnswerResult, Forget, LoopOnly
    <3>. QED
      BY <1>3, <1>4, <3>1
  <2>6. CASE ReceiveNeeds3PO
    <3>1. UNCHANGED <<pc, plan, next, assigned, loop, current>> /\ inbox # <<>> /\ inbox' = Tail(inbox)
      BY <2>6 DEF ReceiveNeeds3PO, Takes, LoopOnly
    <3>. QED
      BY <1>3, <1>4, <2>1, <3>1
  <2>. QED
    BY <1>5, <2>2, <2>3, <2>4, <2>5, <2>6 DEF Loop
<1>6. CASE BusCloses
  <2>1. PICK n \in 0..Len(inbox) : inbox' = SubSeq(inbox, 1, n)
    BY <1>6 DEF BusCloses
  <2>2. /\ inbox' \in Seq(Messages) /\ Distinct(inbox', AskedTurns)
        /\ \A t \in Turns : Asked(t) \in ToSet(inbox') => Asked(t) \in ToSet(inbox)
    BY <2>1, CutOnce
  <2>3. UNCHANGED <<pc, plan, next, assigned, loop, current>>
    BY <1>6 DEF BusCloses, turnVars
  <2>. QED
    BY <1>3, <1>4, <2>2, <2>3
<1>7. ASSUME NEW w \in Workers, WorkerStep(w), TurnVarsSame
      PROVE  TurnsInv'
  <2>1. UNCHANGED <<pc, plan, next, assigned, loop, current>>
    BY <1>7 DEF TurnVarsSame, turnVars
  <2>. QED
    BY <1>3, <1>4, <1>7, <2>1, WorkerInbox
<1>8. CASE UNCHANGED vars
  BY <1>3, <1>4, <1>8 DEF vars, turnVars
<1>. QED
  BY <1>1, <1>2, <1>5, <1>6, <1>7, <1>8 DEF Next

-----------------------------------------------------------------------------
(* The work                                                                *)

LEMMA SentStep ==
  ASSUME TurnsInv, [Next]_vars
  PROVE  /\ \A k : Sent(k) => Sent(k)'
         /\ \A k : Sent(k)' => Sent(k) \/ \E t \in Turns : PublishOrder(t) /\ k = Request(t).task
<1>1. CASE UNCHANGED <<plan, next>>
  BY <1>1 DEF Sent
<1>2. ASSUME NEW t \in Turns, Classify(t)
      PROVE  \A k : Sent(k)' <=> Sent(k)
  <2>1. next[t] = 1 /\ next' = next /\ \A u \in Turns : u # t => plan'[u] = plan[u]
    BY <1>2 DEF Classify, At, TurnsInv, TurnAt
  <2>2. \A u \in Turns : \A i \in 1..(next[u] - 1) : u # t
    BY <2>1
  <2>. QED
    BY <2>1, <2>2 DEF Sent
<1>3. ASSUME NEW t \in Turns, PublishOrder(t)
      PROVE  \A k : Sent(k)' <=> Sent(k) \/ k = Request(t).task
  <2>1. /\ plan' = plan /\ next' \in [Turns -> Nat]
        /\ \A u \in Turns : next'[u] = IF u = t THEN next[t] + 1 ELSE next[u]
    BY <1>3 DEF PublishOrder, TurnsInv
  <2>2. \A u \in Turns : next[u] \in Nat \ {0}
    BY DEF TurnsInv
  <2>3. /\ \A u \in Turns : u # t => 1..(next'[u] - 1) = 1..(next[u] - 1)
        /\ 1..(next'[t] - 1) = 1..(next[t] - 1) \cup {next[t]}
    BY <2>1, <2>2
  <2>. QED
    BY <2>1, <2>3 DEF Sent, Request
<1>4. ASSUME NEW t \in Turns, TurnStep(t)
      PROVE  UNCHANGED <<plan, next>> \/ Classify(t) \/ PublishOrder(t)
  BY <1>4, TurnEffects DEF EnsureWorker, Register, Settles
<1>5. [Next]_vars => UNCHANGED <<plan, next>> \/ \E t \in Turns : Classify(t) \/ PublishOrder(t)
  BY <1>4 DEF Next, UserAsks, Loop, ReceiveTurn, StartTurn, ReceiveResult, Synthesize, AnswerResult, Forget,
     ReceiveNeeds3PO, BusCloses, TurnVarsSame, LoopOnly, turnVars, vars
<1>. QED
  BY <1>1, <1>2, <1>3, <1>5

LEMMA EmptyOnce ==
  \A S, M : <<>> \in Seq(S) /\ ToSet(<<>>) = {} /\ Distinct(<<>>, M)
BY DEF ToSet, Distinct

LEMMA SeqSet ==
  ASSUME NEW S, NEW s \in Seq(S) PROVE ToSet(s) \subseteq S
BY DEF ToSet

\* A worker that gets no other orders than it had and changes no result keeps the invariant.
LEMMA WorkKept ==
  ASSUME TurnsInv, WorkInv, [Next]_vars, UNCHANGED results,
         \A w \in Workers, k \in Tasks : Holds(w, k)' => Holds(w, k)
  PROVE  \A k \in Tasks : HeldOnce(k)'
BY SentStep DEF WorkInv, HeldOnce

LEMMA WorkStep ==
  ASSUME TurnsInv, WorkInv, [Next]_vars
  PROVE  WorkInv'
<1>. USE DEF WorkInv
<1>1. CASE UNCHANGED workerVars
  <2>1. \A w \in Workers, k \in Tasks : Holds(w, k)' => Holds(w, k)
    BY <1>1 DEF workerVars, Holds
  <2>. QED
    BY <1>1, <2>1, WorkKept DEF workerVars, WorkerHas
<1>2. ASSUME NEW t \in Turns, EnsureWorker(t)
      PROVE  WorkInv'
  <2>1. PICK w \in Workers : worker' = IF worker[w] = "absent" THEN [worker EXCEPT ![w] = "starting"] ELSE worker
    BY <1>2 DEF EnsureWorker
  <2>2. UNCHANGED <<orders, order, published, results>>
    BY <1>2 DEF EnsureWorker
  <2>3. /\ worker' \in [Workers -> {"absent", "starting", "idle", "busy", "returned", "dead"}]
        /\ \A v \in Workers : worker'[v] = worker[v] \/ (worker[v] = "absent" /\ worker'[v] = "starting")
    BY <2>1
  <2>4. \A v \in Workers : WorkerHas(v)'
    BY <2>2, <2>3 DEF WorkerHas
  <2>5. \A v \in Workers, k \in Tasks : Holds(v, k)' => Holds(v, k)
    BY <2>2 DEF Holds
  <2>. QED
    BY <2>2, <2>3, <2>4, <2>5, WorkKept
<1>3. ASSUME NEW t \in Turns, PublishOrder(t)
      PROVE  WorkInv'
  <2>1. PICK k \in Tasks : k = Request(t).task /\ ~Sent(k)
    BY <1>3, RequestFresh DEF PublishOrder, At
  <2>2. UNCHANGED <<worker, order, published, results>>
    BY <1>3 DEF PublishOrder
  <2>3. results[k] = 0 /\ \A v \in Workers : ~Holds(v, k)
    BY <2>1 DEF HeldOnce
  <2>4. CASE UNCHANGED orders
    <3>1. \A v \in Workers, j \in Tasks : Holds(v, j)' => Holds(v, j)
      BY <2>2, <2>4 DEF Holds
    <3>. QED
      BY <2>2, <2>4, <3>1, WorkKept DEF WorkerHas
  <2>5. ASSUME NEW w \in Workers, orders' = [orders EXCEPT ![w] = Append(@, k)]
        PROVE  WorkInv'
    <3>1. orders'[w] = Append(orders[w], k) /\ \A v \in Workers : v # w => orders'[v] = orders[v]
      BY <2>5
    <3>2. /\ orders'[w] \in Seq(Tasks) /\ ToSet(orders'[w]) = ToSet(orders[w]) \cup {k}
          /\ Distinct(orders'[w], Tasks)
      <4>1. orders[w] \in Seq(Tasks) /\ k \notin ToSet(orders[w]) /\ Distinct(orders[w], Tasks)
        BY <2>3 DEF Holds, WorkerHas
      <4>2. /\ Append(orders[w], k) \in Seq(Tasks) /\ ToSet(Append(orders[w], k)) = ToSet(orders[w]) \cup {k}
            /\ Distinct(Append(orders[w], k), Tasks)
        BY <4>1, AppendOnce
      <4>. QED
        BY <3>1, <4>2
    <3>3. orders' \in [Workers -> Seq(Tasks)]
      BY <2>5, <3>1, <3>2
    <3>4. \A v \in Workers : WorkerHas(v)'
      BY <2>2, <2>3, <3>1, <3>2 DEF WorkerHas, Holds
    <3>5. \A v \in Workers, j \in Tasks : Holds(v, j)' => Holds(v, j) \/ (v = w /\ j = k)
      BY <2>2, <3>1, <3>2 DEF Holds
    <3>6. Sent(k)' /\ \A j \in Tasks : Sent(j) => Sent(j)'
      <4>1. Sent(k)'
        <5>1. /\ plan' = plan /\ next' = [next EXCEPT ![t] = next[t] + 1] /\ next[t] \in Nat \ {0}
              /\ next'[t] = next[t] + 1
          BY <1>3 DEF PublishOrder, TurnsInv
        <5>2. next[t] \in 1..(next'[t] - 1) /\ plan'[t].requests[next[t]].task = k
          BY <2>1, <5>1 DEF Request
        <5>. QED
          BY <5>2 DEF Sent
      <4>. QED
        BY <4>1, SentStep
    <3>7. \A j \in Tasks : HeldOnce(j)'
      BY <2>2, <2>3, <3>5, <3>6 DEF HeldOnce
    <3>. QED
      BY <2>2, <3>3, <3>4, <3>7
  <2>6. assigned[t] \in Workers
    BY <1>3 DEF PublishOrder, At, TurnsInv, TurnAt
  <2>. QED
    BY <1>3, <2>1, <2>4, <2>5, <2>6 DEF PublishOrder, SendOrder

<1>4. ASSUME NEW w \in Workers, WorkerStep(w)
      PROVE  WorkInv'
  <2>0. WorkerHas(w)
    OBVIOUS
  <2>1. CASE Quiet(w)
    <3>1. \A v \in Workers, k \in Tasks : Holds(v, k)' => Holds(v, k)
      BY <2>1 DEF Quiet, Holds
    <3>. QED
      BY <2>1, <3>1, WorkKept DEF Quiet, WorkerHas
  <2>2. CASE Begins(w)
    <3>1. PICK k \in Tasks : k = Head(orders[w])
      BY <2>2, TailOnce DEF Begins
    <3>2. /\ Tail(orders[w]) \in Seq(Tasks) /\ ToSet(orders[w]) = ToSet(Tail(orders[w])) \cup {k}
          /\ Distinct(Tail(orders[w]), Tasks) /\ k \notin ToSet(Tail(orders[w]))
      BY <2>0, <2>2, <3>1, TailOnce DEF Begins, WorkerHas
    <3>3. /\ orders'[w] = Tail(orders[w]) /\ order'[w] = k /\ worker'[w] = "busy" /\ published'[w] = FALSE
          /\ worker[w] = "idle" /\ results' = results
      BY <2>2, <3>1 DEF Begins
    <3>4. \A v \in Workers : v # w => /\ orders'[v] = orders[v] /\ order'[v] = order[v]
                                      /\ worker'[v] = worker[v] /\ published'[v] = published[v]
      BY <2>2 DEF Begins
    <3>5. /\ worker' \in [Workers -> {"absent", "starting", "idle", "busy", "returned", "dead"}]
          /\ order' \in [Workers -> Tasks \cup {None}]
          /\ published' \in [Workers -> BOOLEAN]
      BY <2>2, <3>1 DEF Begins
    <3>6. orders' \in [Workers -> Seq(Tasks)]
      BY <2>2, <3>2 DEF Begins
    <3>7. \A v \in Workers, j \in Tasks : Holds(v, j)' => Holds(v, j)
      BY <3>2, <3>3, <3>4 DEF Holds
    <3>8. WorkerHas(w)'
      BY <2>0, <3>2, <3>3, WorkAssumption DEF WorkerHas
    <3>9. \A v \in Workers : v # w => WorkerHas(v)'
      BY <3>3, <3>4 DEF WorkerHas
    <3>. QED
      BY <3>3, <3>5, <3>6, <3>7, <3>8, <3>9, WorkKept
  <2>3. CASE Publishes(w)
    <3>1. PICK k \in Tasks : k = order[w]
      BY <2>3 DEF Publishes
    <3>2. /\ published' = [published EXCEPT ![w] = TRUE] /\ results' = [results EXCEPT ![k] = @ + 1] /\ orders' = orders
          /\ ~published[w]
      BY <2>3, <3>1 DEF Publishes, PublishResult
    <3>3. results[k] = 0 /\ k \notin ToSet(orders[w]) /\ Holds(w, k)
      BY <2>0, <3>1, <3>2, WorkAssumption DEF WorkerHas, Holds
    <3>4. results' \in [Tasks -> {0, 1}] /\ results'[k] = 1 /\ \A j \in Tasks : j # k => results'[j] = results[j]
      BY <3>2, <3>3
    <3>5. published' \in [Workers -> BOOLEAN] /\ published'[w] /\ \A v \in Workers : v # w => published'[v] = published[v]
      BY <3>2
    <3>6. /\ worker' \in [Workers -> {"absent", "starting", "idle", "busy", "returned", "dead"}]
          /\ order' \in [Workers -> Tasks \cup {None}]
          /\ \A v \in Workers : v # w => worker'[v] = worker[v] /\ order'[v] = order[v]
          /\ \/ worker'[w] = "returned" /\ order'[w] = k
             \/ worker'[w] = "idle" /\ order'[w] = None
      BY <2>3, <3>1 DEF Publishes
    <3>7. \A v \in Workers, j \in Tasks : Holds(v, j)' => Holds(v, j)
      BY <3>1, <3>2, <3>6, WorkAssumption DEF Holds
    <3>8. \A j \in Tasks : HeldOnce(j)'
      BY <3>3, <3>4, <3>7, SentStep DEF HeldOnce
    <3>9. \A v \in Workers : ToSet(orders[v]) \subseteq Tasks
      BY SeqSet
    <3>10. WorkerHas(w)'
      BY <2>0, <3>1, <3>2, <3>3, <3>4, <3>5, <3>6, <3>9, WorkAssumption DEF WorkerHas
    <3>11. ASSUME NEW v \in Workers, v # w
           PROVE  WorkerHas(v)'
      <4>1. ~Holds(v, k)
        BY <3>3, <3>11 DEF HeldOnce
      <4>2. k \notin ToSet(orders[v]) /\ order[v] # k /\ order[v] \in Tasks \cup {None}
        BY <4>1 DEF Holds
      <4>. QED
        BY <3>2, <3>4, <3>5, <3>6, <3>9, <3>11, <4>2 DEF WorkerHas
    <3>. QED
      BY <3>2, <3>4, <3>5, <3>6, <3>8, <3>10, <3>11
  <2>4. CASE Ends(w)
    <3>1. /\ worker' \in [Workers -> {"absent", "starting", "idle", "busy", "returned", "dead"}]
          /\ order' \in [Workers -> Tasks \cup {None}]
          /\ \A v \in Workers : v # w => worker'[v] = worker[v] /\ order'[v] = order[v]
          /\ worker'[w] = "idle" /\ order'[w] = None
          /\ UNCHANGED <<orders, published, results>>
      BY <2>4 DEF Ends
    <3>2. \A v \in Workers, j \in Tasks : Holds(v, j)' => Holds(v, j)
      BY <3>1, WorkAssumption DEF Holds
    <3>3. None \notin ToSet(orders[w])
      BY SeqSet, WorkAssumption
    <3>4. \A v \in Workers : WorkerHas(v)'
      BY <3>1, <3>3 DEF WorkerHas
    <3>. QED
      BY <3>1, <3>2, <3>4, WorkKept
  <2>5. CASE Dies(w)
    <3>1. /\ worker' \in [Workers -> {"absent", "starting", "idle", "busy", "returned", "dead"}]
          /\ order' \in [Workers -> Tasks \cup {None}]
          /\ \A v \in Workers : v # w => worker'[v] = worker[v] /\ order'[v] = order[v] /\ orders'[v] = orders[v]
          /\ worker'[w] = "dead" /\ order'[w] = None /\ orders'[w] = <<>>
          /\ UNCHANGED <<published, results>>
      BY <2>5 DEF Dies
    <3>2. orders' \in [Workers -> Seq(Tasks)]
      BY <2>5, EmptyOnce DEF Dies
    <3>3. \A v \in Workers, j \in Tasks : Holds(v, j)' => Holds(v, j)
      BY <3>1, EmptyOnce, WorkAssumption DEF Holds
    <3>4. \A v \in Workers : WorkerHas(v)'
      BY <3>1, EmptyOnce DEF WorkerHas
    <3>. QED
      BY <3>1, <3>2, <3>3, <3>4, WorkKept
  <2>. QED
    BY <1>4, <2>1, <2>2, <2>3, <2>4, <2>5, WorkerEffects
<1>5. ASSUME NEW t \in Turns, TurnStep(t)
      PROVE  UNCHANGED workerVars \/ EnsureWorker(t) \/ PublishOrder(t)
  BY <1>5, TurnEffects DEF Classify, TurnOnly, Register, Settles
<1>6. \/ UNCHANGED workerVars
      \/ \E t \in Turns : EnsureWorker(t) \/ PublishOrder(t)
      \/ \E w \in Workers : WorkerStep(w)
  BY <1>5 DEF Next, UserAsks, Loop, ReceiveTurn, StartTurn, ReceiveResult, Synthesize, AnswerResult, Forget,
     ReceiveNeeds3PO, BusCloses, LoopOnly, vars
<1>. QED
  BY <1>1, <1>2, <1>3, <1>4, <1>6

-----------------------------------------------------------------------------
(* The results                                                             *)

\* What a response adds to the answers.
LEMMA Responds ==
  ASSUME answers \in [Turns -> Seq(Answers)], NEW t \in Turns, NEW what \in Replies, NEW of \in Tasks \cup {None},
         Respond(t, what, of)
  PROVE  /\ answers' \in [Turns -> Seq(Answers)]
         /\ \A k : Answered(k) => Answered(k)'
         /\ \A k : Answered(k)' => Answered(k) \/ (what = "result" /\ k = of)
         /\ conn = "open" /\ what = "result" => Answered(of)'
         /\ ResultsOnce /\ (what = "result" => ~Answered(of)) => ResultsOnce'
<1>1. CASE conn # "open"
  BY <1>1 DEF Respond, Answered, ResultsOnce
<1>2. CASE conn = "open"
  <2>1. PICK m \in Answers : m = [what |-> what, of |-> of]
    BY DEF Answers
  <2>2. PICK s \in Seq(Answers) : s = answers[t]
    OBVIOUS
  <2>3. PICK r : r = Append(s, m)
    OBVIOUS
  <2>4. PICK n : n = Len(s) + 1
    OBVIOUS
  <2>5. /\ r \in Seq(Answers) /\ DOMAIN r = DOMAIN s \cup {n} /\ n \notin DOMAIN s /\ r[n] = m
        /\ \A i \in DOMAIN s : r[i] = s[i]
    BY <2>3, <2>4
  <2>6. answers' = [answers EXCEPT ![t] = r]
    BY <1>2, <2>1, <2>2, <2>3 DEF Respond
  <2>7. /\ answers' \in [Turns -> Seq(Answers)]
        /\ \A u \in Turns : answers'[u] = IF u = t THEN r ELSE answers[u]
    BY <2>5, <2>6
  <2>8. ASSUME NEW k, Answered(k)
        PROVE  Answered(k)'
    <3>1. PICK u \in Turns : \E i \in DOMAIN answers[u] : answers[u][i] = [what |-> "result", of |-> k]
      BY <2>8 DEF Answered
    <3>2. PICK i \in DOMAIN answers[u] : answers[u][i] = [what |-> "result", of |-> k]
      BY <3>1
    <3>3. i \in DOMAIN answers'[u] /\ answers'[u][i] = answers[u][i]
      BY <2>2, <2>5, <2>7
    <3>. QED
      BY <3>2, <3>3 DEF Answered
  <2>9. ASSUME NEW k, Answered(k)'
        PROVE  Answered(k) \/ (what = "result" /\ k = of)
    <3>1. PICK u \in Turns : \E i \in DOMAIN answers'[u] : answers'[u][i] = [what |-> "result", of |-> k]
      BY <2>9 DEF Answered
    <3>2. PICK i \in DOMAIN answers'[u] : answers'[u][i] = [what |-> "result", of |-> k]
      BY <3>1
    <3>3. CASE u = t /\ i = n
      BY <2>1, <2>5, <2>7, <3>2, <3>3
    <3>4. CASE ~(u = t /\ i = n)
      <4>1. i \in DOMAIN answers[u] /\ answers[u][i] = [what |-> "result", of |-> k]
        BY <2>2, <2>5, <2>7, <3>2, <3>4
      <4>. QED
        BY <4>1 DEF Answered
    <3>. QED
      BY <3>3, <3>4
  <2>10. what = "result" => Answered(of)'
    <3>1. n \in DOMAIN answers'[t] /\ answers'[t][n] = m
      BY <2>5, <2>7
    <3>. QED
      BY <2>1, <3>1 DEF Answered
  <2>11. ASSUME ResultsOnce, what = "result" => ~Answered(of)
         PROVE  ResultsOnce'
    <3>. SUFFICES ASSUME NEW a \in Turns, NEW b \in Turns, NEW i \in DOMAIN answers'[a], NEW j \in DOMAIN answers'[b],
                         answers'[a][i].what = "result", answers'[b][j] = answers'[a][i]
                  PROVE  a = b /\ i = j
      BY DEF ResultsOnce
    <3>1. ASSUME NEW u \in Turns, NEW l \in DOMAIN answers'[u], ~(u = t /\ l = n)
          PROVE  l \in DOMAIN answers[u] /\ answers'[u][l] = answers[u][l]
      BY <2>2, <2>5, <2>7, <3>1
    <3>2. ASSUME m.what = "result", NEW u \in Turns, NEW l \in DOMAIN answers[u]
          PROVE  answers[u][l] # m
      BY <2>1, <2>11, <3>2 DEF Answered
    <3>3. answers'[t][n] = m
      BY <2>5, <2>7
    <3>4. CASE ~(a = t /\ i = n) /\ ~(b = t /\ j = n)
      BY <2>11, <3>1, <3>4 DEF ResultsOnce
    <3>5. CASE (a = t /\ i = n) /\ ~(b = t /\ j = n)
      BY <3>1, <3>2, <3>3, <3>5
    <3>6. CASE ~(a = t /\ i = n) /\ (b = t /\ j = n)
      BY <3>1, <3>2, <3>3, <3>6
    <3>. QED
      BY <3>4, <3>5, <3>6
  <2>. QED
    BY <2>7, <2>8, <2>9, <2>10, <2>11
<1>. QED
  BY <1>1, <1>2

NoNewResult ==
  /\ Distinct(inbox', WorkResults)
  /\ \A k \in Tasks : Result(k) \in ToSet(inbox') => Result(k) \in ToSet(inbox)

\* All that happens to the queue but a result's arrival.
LEMMA OtherMessages ==
  ASSUME inbox \in Seq(Messages), Distinct(inbox, WorkResults),
         \/ UNCHANGED inbox
         \/ inbox # <<>> /\ inbox' = Tail(inbox)
         \/ \E n \in 0..Len(inbox) : inbox' = SubSeq(inbox, 1, n)
         \/ \E t \in Turns : ToAmbassador(TurnTopic, t)
         \/ \E k \in Tasks : ToAmbassador(NeedsTopic, k)
  PROVE  NoNewResult
<1>1. CASE UNCHANGED inbox
  BY <1>1 DEF NoNewResult
<1>2. CASE inbox # <<>> /\ inbox' = Tail(inbox)
  <2>1. ToSet(Tail(inbox)) \subseteq ToSet(inbox) /\ Distinct(Tail(inbox), WorkResults)
    BY <1>2, TailOnce
  <2>. QED
    BY <1>2, <2>1 DEF NoNewResult
<1>3. ASSUME NEW n \in 0..Len(inbox), inbox' = SubSeq(inbox, 1, n)
      PROVE  NoNewResult
  <2>1. ToSet(SubSeq(inbox, 1, n)) \subseteq ToSet(inbox) /\ Distinct(SubSeq(inbox, 1, n), WorkResults)
    BY CutOnce
  <2>. QED
    BY <1>3, <2>1 DEF NoNewResult
<1>4. ASSUME NEW topic, NEW of, ToAmbassador(topic, of), [topic |-> topic, of |-> of] \in Messages \ WorkResults
      PROVE  NoNewResult
  <2>1. PICK m : m = [topic |-> topic, of |-> of]
    OBVIOUS
  <2>2. \A k \in Tasks : Result(k) # m
    BY <1>4, <2>1 DEF WorkResults
  <2>3. ToSet(inbox') \subseteq ToSet(inbox) \cup {m} /\ Distinct(inbox', WorkResults)
    BY <1>4, <2>1, Arrives
  <2>. QED
    BY <2>2, <2>3 DEF NoNewResult
<1>5. ASSUME NEW t \in Turns, ToAmbassador(TurnTopic, t)
      PROVE  NoNewResult
  <2>1. Asked(t) \in Messages \ WorkResults
    BY MessagesDiffer DEF Messages, AskedTurns, WorkResults
  <2>. QED
    BY <1>4, <1>5, <2>1 DEF Asked
<1>6. ASSUME NEW k \in Tasks, ToAmbassador(NeedsTopic, k)
      PROVE  NoNewResult
  <2>1. Needs(k) \in Messages \ WorkResults
    BY MessagesDiffer DEF Messages, WorkResults
  <2>. QED
    BY <1>4, <1>6, <2>1 DEF Needs
<1>. QED
  BY <1>1, <1>2, <1>3, <1>5, <1>6

\* Answers stay, and the loop forgets a task when it has answered it.
ResultsNext ==
  /\ ResultsInv'
  /\ \A k : Answered(k) => Answered(k)'
  /\ conn = "open" /\ loop = "answer" /\ loop' = "forget" => Answered(current)'

\* A step that neither gives nor answers a result keeps the invariant.
LEMMA ResultsKept ==
  ASSUME ResultsInv, NoNewResult, UNCHANGED results,
         UNCHANGED <<loop, current>> \/ (~Handling)',
         pending' \in [Tasks -> Turns \cup {None}],
         \A k \in Tasks : pending[k] # None /\ Handling' => pending'[k] # None,
         \/ UNCHANGED answers
         \/ \E t \in Turns : \E what \in Replies \ {"result"} : \E of \in Tasks \cup {None} : Respond(t, what, of)
  PROVE  ResultsNext
<1>. USE DEF ResultsNext
<1>1. /\ answers' \in [Turns -> Seq(Answers)] /\ ResultsOnce'
      /\ \A k : Answered(k)' <=> Answered(k)
  <2>1. CASE UNCHANGED answers
    BY <2>1 DEF ResultsInv, ResultsOnce, Answered
  <2>2. ASSUME NEW t \in Turns, NEW what \in Replies \ {"result"}, NEW of \in Tasks \cup {None}, Respond(t, what, of)
        PROVE  /\ answers' \in [Turns -> Seq(Answers)] /\ ResultsOnce'
               /\ \A k : Answered(k)' <=> Answered(k)
    BY <2>2, Responds DEF ResultsInv
  <2>. QED
    BY <2>1, <2>2
<1>2. \A k \in Tasks : ResultAt(k)'
  BY <1>1 DEF ResultsInv, ResultAt, NoNewResult
<1>3. CASE UNCHANGED <<loop, current>>
  <2>1. Handling' <=> Handling
    BY <1>3 DEF Handling
  <2>2. Handling => /\ current' \in Tasks /\ pending'[current'] # None
                    /\ results'[current'] = 1 /\ Result(current') \notin ToSet(inbox')
    BY <1>3, <2>1 DEF ResultsInv, NoNewResult
  <2>. QED
    BY <1>1, <1>2, <1>3, <2>1, <2>2 DEF ResultsInv, NoNewResult
<1>4. CASE (~Handling)'
  BY <1>1, <1>2, <1>4 DEF ResultsInv, NoNewResult, Handling
<1>. QED
  BY <1>3, <1>4

LEMMA OtherResponses ==
  /\ {"followup", "direct", "escalated", "ack", "error", "paused"} \subseteq Replies \ {"result"}
  /\ "result" \in Replies /\ None \in Tasks \cup {None}
BY DEF Replies

LEMMA ResultsStep ==
  ASSUME TurnsInv, WorkInv, ResultsInv, [Next]_vars
  PROVE  ResultsNext
<1>0. inbox \in Seq(Messages) /\ Distinct(inbox, WorkResults) /\ pending \in [Tasks -> Turns \cup {None}]
  BY DEF TurnsInv, ResultsInv
<1>1. ASSUME NEW t \in Turns, UserAsks(t)
      PROVE  ResultsNext
  <2>1. ToAmbassador(TurnTopic, t) /\ UNCHANGED <<results, loop, current, pending, answers>>
    BY <1>1 DEF UserAsks, workerVars
  <2>. QED
    BY <1>0, <2>1, OtherMessages, ResultsKept
<1>2. ASSUME NEW t \in Turns, TurnStep(t)
      PROVE  ResultsNext
  <2>1. CASE Classify(t)
    <3>1. UNCHANGED <<results, inbox, loop, current, pending>>
      BY <2>1 DEF Classify, TurnOnly, workerVars
    <3>2. \/ UNCHANGED answers
          \/ \E u \in Turns : \E what \in Replies \ {"result"} : \E of \in Tasks \cup {None} : Respond(u, what, of)
      <4>1. UNCHANGED answers \/ Respond(t, "followup", None)
        BY <2>1 DEF Classify
      <4>2. "followup" \in Replies \ {"result"}
        BY OtherResponses
      <4>. QED
        BY <4>1, <4>2, OtherResponses, Zenon
    <3>. QED
      BY <1>0, <3>1, <3>2, OtherMessages, ResultsKept
  <2>2. CASE EnsureWorker(t) \/ PublishOrder(t)
    <3>1. UNCHANGED <<results, inbox, loop, current, pending, answers>>
      BY <2>2 DEF EnsureWorker, PublishOrder
    <3>. QED
      BY <1>0, <3>1, OtherMessages, ResultsKept
  <2>3. CASE Register(t)
    <3>1. UNCHANGED <<results, inbox, loop, current, answers>> /\ pending' = [pending EXCEPT ![Request(t).task] = t]
      BY <2>3 DEF Register, workerVars
    <3>2. pending' \in [Tasks -> Turns \cup {None}] /\ \A k \in Tasks : pending'[k] = pending[k] \/ pending'[k] = t
      BY <1>0, <3>1
    <3>3. \A k \in Tasks : pending[k] # None => pending'[k] # None
      BY <3>2, TurnAssumption
    <3>. QED
      BY <1>0, <3>1, <3>2, <3>3, OtherMessages, ResultsKept
  <2>4. CASE Settles(t)
    <3>1. UNCHANGED <<results, inbox, loop, current, pending>>
      BY <2>4 DEF Settles, workerVars
    <3>2. \/ UNCHANGED answers
          \/ \E u \in Turns : \E what \in Replies \ {"result"} : \E of \in Tasks \cup {None} : Respond(u, what, of)
      <4>1. \/ UNCHANGED answers
            \/ \E what \in {"direct", "escalated", "ack", "error"} : Respond(t, what, None)
        BY <2>4 DEF Settles
      <4>2. {"direct", "escalated", "ack", "error"} \subseteq Replies \ {"result"}
        BY OtherResponses
      <4>. QED
        BY <4>1, <4>2, OtherResponses, Zenon
    <3>. QED
      BY <1>0, <3>1, <3>2, OtherMessages, ResultsKept
  <2>. QED
    BY <1>2, <2>1, <2>2, <2>3, <2>4, TurnEffects
<1>3. CASE ReceiveTurn \/ StartTurn
  <2>1. /\ UNCHANGED <<results, pending, answers>> /\ (~Handling)'
        /\ UNCHANGED inbox \/ (inbox # <<>> /\ inbox' = Tail(inbox))
    BY <1>3 DEF ReceiveTurn, StartTurn, Takes, LoopOnly, workerVars, Handling
  <2>. QED
    BY <1>0, <2>1, OtherMessages, ResultsKept
<1>4. CASE ReceiveResult
  <2>1. /\ UNCHANGED <<results, pending, answers>> /\ inbox # <<>> /\ inbox' = Tail(inbox)
        /\ IsPrefix(<<"agent", "work", "result">>, Head(inbox).topic)
        /\ \/ UNCHANGED <<loop, current>>
           \/ loop' = "result" /\ current' = Head(inbox).of /\ pending[current'] # None
    BY <1>4 DEF ReceiveResult, LoopOnly, workerVars
  <2>2. CASE UNCHANGED <<loop, current>>
    BY <1>0, <2>1, <2>2, OtherMessages, ResultsKept
  <2>3. CASE loop' = "result" /\ current' = Head(inbox).of /\ pending[current'] # None
    <3>1. /\ Head(inbox) \in Messages /\ ToSet(inbox) = ToSet(inbox') \cup {Head(inbox)}
          /\ Head(inbox) \in WorkResults => Head(inbox) \notin ToSet(inbox')
      <4>1. /\ Head(inbox) \in Messages /\ ToSet(inbox) = ToSet(Tail(inbox)) \cup {Head(inbox)}
            /\ Head(inbox) \in WorkResults => Head(inbox) \notin ToSet(Tail(inbox))
        BY <1>0, <2>1, TailOnce
      <4>. QED
        BY <2>1, <4>1
    <3>2. PICK k \in Tasks : Head(inbox) = Result(k) /\ Head(inbox).of = k
      BY <2>1, <3>1, OnlyResultsHandled
    <3>3. Result(k) \notin ToSet(inbox') /\ results[k] = 1 /\ ~Answered(k)
      BY <3>1, <3>2 DEF WorkResults, ResultsInv, ResultAt
    <3>4. NoNewResult
      BY <1>0, <2>1, OtherMessages
    <3>5. current' = k /\ loop' = "result" /\ pending'[k] # None /\ results'[k] = 1
      BY <2>1, <2>3, <3>2, <3>3
    <3>6. ResultsOnce' /\ \A j : Answered(j)' <=> Answered(j)
      BY <2>1 DEF ResultsInv, ResultsOnce, Answered
    <3>7. \A j \in Tasks : ResultAt(j)'
      BY <2>1, <3>4, <3>6 DEF ResultsInv, ResultAt, NoNewResult
    <3>. QED
      BY <1>0, <2>1, <3>3, <3>4, <3>5, <3>6, <3>7 DEF ResultsInv, NoNewResult, ResultsNext
  <2>. QED
    BY <2>1, <2>2, <2>3

<1>5. CASE Synthesize
  <2>1. /\ loop = "result" /\ loop' = "answer" /\ UNCHANGED <<results, inbox, pending, current, answers>>
    BY <1>5 DEF Synthesize, LoopOnly, workerVars
  <2>2. Handling /\ ResultsOnce' /\ \A j : Answered(j)' <=> Answered(j)
    BY <2>1 DEF Handling, ResultsInv, ResultsOnce, Answered
  <2>3. \A j \in Tasks : ResultAt(j)'
    BY <2>1, <2>2 DEF ResultsInv, ResultAt
  <2>. QED
    BY <2>1, <2>2, <2>3 DEF ResultsInv, ResultsNext
<1>6. CASE AnswerResult
  <2>1. /\ loop = "answer" /\ loop' = "forget" /\ UNCHANGED <<results, inbox, pending, current>>
        /\ Respond(pending[current], "result", current)
    BY <1>6 DEF AnswerResult, LoopOnly, workerVars
  <2>2. /\ current \in Tasks /\ pending[current] \in Turns /\ results[current] = 1
        /\ Result(current) \notin ToSet(inbox) /\ ~Answered(current)
    BY <2>1 DEF Handling, ResultsInv
  <2>3. /\ answers' \in [Turns -> Seq(Answers)] /\ ResultsOnce'
        /\ \A j : Answered(j)' => Answered(j) \/ j = current
        /\ \A j : Answered(j) => Answered(j)'
        /\ conn = "open" => Answered(current)'
    <3>1. PICK t \in Turns, k \in Tasks : t = pending[current] /\ k = current
      BY <2>2
    <3>2. Respond(t, "result", k) /\ ~Answered(k) /\ ResultsOnce /\ answers \in [Turns -> Seq(Answers)]
      BY <2>1, <2>2, <3>1 DEF ResultsInv
    <3>3. PICK what \in Replies : what = "result"
      BY OtherResponses
    <3>4. Respond(t, what, k) /\ k \in Tasks \cup {None}
      BY <3>2, <3>3
    <3>5. /\ answers' \in [Turns -> Seq(Answers)] /\ ResultsOnce'
          /\ \A j : Answered(j)' => Answered(j) \/ j = k
          /\ \A j : Answered(j) => Answered(j)'
          /\ conn = "open" => Answered(k)'
      BY <3>2, <3>3, <3>4, Responds
    <3>6. current' = k
      BY <2>1, <3>1
    <3>. QED
      BY <3>1, <3>5, <3>6 DEF Answered
  <2>4. \A j \in Tasks : ResultAt(j)'
    BY <2>1, <2>2, <2>3 DEF ResultsInv, ResultAt
  <2>5. pending[current] # None
    BY <2>2, TurnAssumption
  <2>. QED
    BY <2>1, <2>2, <2>3, <2>4, <2>5 DEF ResultsInv, ResultsNext
<1>7. CASE Forget
  <2>1. (~Handling)' /\ UNCHANGED <<results, inbox, answers>> /\ pending' = [pending EXCEPT ![current] = None]
    BY <1>7 DEF Forget, LoopOnly, workerVars, Handling
  <2>2. pending' \in [Tasks -> Turns \cup {None}]
    BY <1>0, <2>1
  <2>. QED
    BY <1>0, <2>1, <2>2, OtherMessages, ResultsKept
<1>8. CASE ReceiveNeeds3PO
  <2>1. /\ UNCHANGED <<results, pending, loop, current>> /\ inbox # <<>> /\ inbox' = Tail(inbox)
        /\ Head(inbox).topic = NeedsTopic
        /\ \/ UNCHANGED answers
           \/ /\ pending[Head(inbox).of] # None
              /\ Respond(pending[Head(inbox).of], "paused", Head(inbox).of)
    BY <1>8 DEF ReceiveNeeds3PO, Takes, LoopOnly, workerVars
  <2>2. PICK k \in Tasks : Head(inbox).of = k
    <3>1. Head(inbox) \in Messages
      BY <1>0, <2>1, TailOnce
    <3>2. \A t \in Turns : Asked(t).topic # NeedsTopic
      BY DEF Asked, TurnTopic, NeedsTopic
    <3>3. \A k \in Tasks : Result(k).of = k /\ Needs(k).of = k
      BY DEF Result, Needs
    <3>. QED
      BY <2>1, <3>1, <3>2, <3>3 DEF Messages, AskedTurns, WorkResults
  <2>3. \/ UNCHANGED answers
        \/ \E t \in Turns : \E what \in Replies \ {"result"} : \E of \in Tasks \cup {None} : Respond(t, what, of)
    <3>1. pending[k] \in Turns \cup {None}
      BY <1>0
    <3>2. UNCHANGED answers \/ (pending[k] \in Turns /\ Respond(pending[k], "paused", k))
      BY <2>1, <2>2, <3>1
    <3>3. "paused" \in Replies \ {"result"} /\ k \in Tasks \cup {None}
      BY OtherResponses
    <3>. QED
      BY <3>2, <3>3, Zenon
  <2>. QED
    BY <1>0, <2>1, <2>3, OtherMessages, ResultsKept
<1>9. CASE BusCloses
  <2>1. UNCHANGED <<results, pending, loop, current, answers>> /\ \E n \in 0..Len(inbox) : inbox' = SubSeq(inbox, 1, n)
    BY <1>9 DEF BusCloses, workerVars
  <2>. QED
    BY <1>0, <2>1, OtherMessages, ResultsKept
<1>10. ASSUME NEW w \in Workers, WorkerStep(w), TurnVarsSame
       PROVE  ResultsNext
  <2>1. UNCHANGED <<pending, loop, current, answers>>
    BY <1>10 DEF TurnVarsSame
  <2>2. CASE Quiet(w)
    <3>1. UNCHANGED results /\ (UNCHANGED inbox \/ \E k \in Tasks : ToAmbassador(NeedsTopic, k))
      BY <2>2 DEF Quiet
    <3>. QED
      BY <1>0, <2>1, <3>1, OtherMessages, ResultsKept
  <2>3. CASE Begins(w) \/ Ends(w) \/ Dies(w)
    <3>1. UNCHANGED <<results, inbox>>
      BY <2>3 DEF Begins, Ends, Dies
    <3>. QED
      BY <1>0, <2>1, <3>1, OtherMessages, ResultsKept
  <2>4. CASE Publishes(w)
    <3>1. PICK k \in Tasks : k = order[w]
      BY <2>4 DEF Publishes
    <3>2. results' = [results EXCEPT ![k] = @ + 1] /\ ToAmbassador(ResultTopic(k), k) /\ ~published[w]
      BY <2>4, <3>1 DEF Publishes, PublishResult
    <3>3. results[k] = 0
      BY <3>1, <3>2, WorkAssumption DEF WorkInv, WorkerHas
    <3>4. Result(k) \notin ToSet(inbox) /\ ~Answered(k) /\ (Handling => current # k)
      BY <3>3 DEF ResultsInv, ResultAt
    <3>5. results'[k] = 1 /\ \A j \in Tasks : j # k => results'[j] = results[j]
      BY <3>2, <3>3 DEF WorkInv
    <3>6. ToSet(inbox') \subseteq ToSet(inbox) \cup {Result(k)} /\ Distinct(inbox', WorkResults)
      <4>1. PICK m \in Messages : m = [topic |-> ResultTopic(k), of |-> k]
        BY DEF Messages, WorkResults, Result
      <4>2. m = Result(k) /\ m \notin ToSet(inbox)
        BY <3>4, <4>1 DEF Result
      <4>. QED
        BY <1>0, <3>2, <4>1, <4>2, Arrives
    <3>7. \A j \in Tasks : j # k /\ Result(j) \in ToSet(inbox') => Result(j) \in ToSet(inbox)
      BY <3>6, MessagesDiffer
    <3>8. ResultsOnce' /\ (\A j : Answered(j)' <=> Answered(j)) /\ (Handling' <=> Handling)
      BY <2>1 DEF ResultsInv, ResultsOnce, Answered, Handling
    <3>9. \A j \in Tasks : ResultAt(j)'
      BY <3>4, <3>5, <3>7, <3>8 DEF ResultsInv, ResultAt
    <3>10. Handling => /\ current' \in Tasks /\ pending'[current'] # None
                       /\ results'[current'] = 1 /\ Result(current') \notin ToSet(inbox')
      BY <2>1, <3>4, <3>5, <3>7 DEF ResultsInv
    <3>. QED
      BY <1>0, <2>1, <3>6, <3>8, <3>9, <3>10 DEF ResultsInv, ResultsNext
  <2>. QED
    BY <1>10, <2>2, <2>3, <2>4, WorkerEffects
<1>11. CASE UNCHANGED vars
  <2>1. UNCHANGED <<inbox, results, pending, loop, current, answers>>
    BY <1>11 DEF vars, workerVars
  <2>. QED
    BY <1>0, <2>1, OtherMessages, ResultsKept
<1>. QED
  BY <1>1, <1>2, <1>3, <1>4, <1>5, <1>6, <1>7, <1>8, <1>9, <1>10, <1>11 DEF Next, Loop

-----------------------------------------------------------------------------
(* What is owed                                                            *)

\* The same turns are at an order, and at the same one.
OrdersSame ==
  \A t \in Turns : /\ pc'[t] = "order" => pc[t] = "order"
                   /\ pc[t] = "order" => pc'[t] = "order" /\ Request(t)' = Request(t)

LEMMA SameRequest ==
  ASSUME NEW t \in Turns, plan'[t] = plan[t], next'[t] = next[t]
  PROVE  Request(t)' = Request(t)
BY DEF Request

\* A step that leaves the table as it is and loses no task unseen keeps the invariant.
LEMMA OwedKept ==
  ASSUME OwedInv, conn = "open", ResultsNext, OrdersSame, UNCHANGED pending, lost \subseteq lost',
         \A k \in Tasks : Sent(k)' => Sent(k),
         loop' = "forget" => (loop = "forget" /\ current' = current) \/ Answered(current)',
         \A k \in Tasks : pending[k] # None /\ Owed(k) => Owed(k)' \/ k \in lost'
  PROVE  OwedInv'
<1>1. \A k : Answered(k) => Answered(k)'
  BY DEF ResultsNext
<1>2. \A k \in Tasks : Sent(k)' /\ ~Answered(k)' => pending'[k] # None
  BY <1>1 DEF OwedInv
<1>3. ASSUME NEW t \in Turns, pc'[t] = "order"
      PROVE  pending'[(Request(t).task)'] # None
  <2>1. pc[t] = "order" /\ Request(t)' = Request(t)
    BY <1>3 DEF OrdersSame
  <2>. QED
    BY <2>1 DEF OwedInv
<1>4. loop' = "forget" => Answered(current)'
  <2>1. ASSUME loop' = "forget", loop = "forget", current' = current
        PROVE  Answered(current)'
    <3>1. PICK k : k = current
      OBVIOUS
    <3>2. Answered(k)'
      BY <1>1, <2>1, <3>1 DEF OwedInv
    <3>. QED
      BY <2>1, <3>1, <3>2
  <2>. QED
    BY <2>1
<1>5. \A k \in Tasks : pending'[k] # None /\ k \notin lost' => Owed(k)'
  BY DEF OwedInv
<1>. QED
  BY <1>2, <1>3, <1>4, <1>5 DEF OwedInv

\* What is owed is still owed if the orders, their results and the queue have it still.
LEMMA OwedStays ==
  ASSUME NEW k \in Tasks, Owed(k), OrdersSame, UNCHANGED <<orders, order, results>>,
         Result(k) \in ToSet(inbox) => Result(k) \in ToSet(inbox'),
         Handling /\ current = k => Handling' /\ current' = k
  PROVE  Owed(k)'
<1>1. ASSUME NEW t \in Turns, pc[t] = "order", Request(t).task = k
      PROVE  Owed(k)'
  <2>1. pc'[t] = "order" /\ (Request(t).task)' = k
    BY <1>1 DEF OrdersSame
  <2>. QED
    BY <2>1 DEF Owed
<1>. QED
  BY <1>1 DEF Owed

\* Only an escalation and the bus change the state of the connection, and not to "open".
LEMMA ConnStep ==
  ASSUME TurnsInv, WorkInv, [Next]_vars, conn' = "open"
  PROVE  conn = "open" /\ ~BusCloses
<1>1. ASSUME NEW t \in Turns, TurnStep(t)
      PROVE  conn' = "open" => conn = "open"
  BY <1>1, TurnEffects DEF Classify, TurnOnly, EnsureWorker, Register, PublishOrder, Settles
<1>2. ASSUME NEW w \in Workers, WorkerStep(w)
      PROVE  conn' = conn
  BY <1>2, WorkerEffects
<1>3. BusCloses => conn' # "open"
  BY DEF BusCloses
<1>. QED
  BY <1>1, <1>2, <1>3 DEF Next, UserAsks, Loop, ReceiveTurn, StartTurn, ReceiveResult, Synthesize, AnswerResult,
     Forget, ReceiveNeeds3PO, LoopOnly, vars

LEMMA ArrivesStays ==
  ASSUME inbox \in Seq(Messages), NEW topic, NEW of, [topic |-> topic, of |-> of] \in Messages, ToAmbassador(topic, of)
  PROVE  ToSet(inbox) \subseteq ToSet(inbox')
BY Arrives

LEMMA SentSame ==
  ASSUME TurnsInv, [Next]_vars, UNCHANGED next
  PROVE  \A k : Sent(k)' => Sent(k)
<1>1. ASSUME NEW t \in Turns, PublishOrder(t)
      PROVE  FALSE
  <2>1. next' = [next EXCEPT ![t] = next[t] + 1] /\ next[t] \in Nat /\ t \in DOMAIN next
    BY <1>1 DEF PublishOrder, TurnsInv
  <2>2. next'[t] = next[t] + 1 /\ next'[t] = next[t]
    BY <2>1
  <2>. QED
    BY <2>1, <2>2
<1>. QED
  BY <1>1, SentStep

\* The head of the queue, as the loop takes it.
LEMMA TakesHead ==
  ASSUME inbox \in Seq(Messages), inbox # <<>>, inbox' = Tail(inbox)
  PROVE  Head(inbox) \in Messages /\ ToSet(inbox) = ToSet(inbox') \cup {Head(inbox)}
<1>1. Head(inbox) \in Messages /\ ToSet(inbox) = ToSet(Tail(inbox)) \cup {Head(inbox)}
  BY TailOnce
<1>. QED
  BY <1>1

LEMMA OwedStep ==
  ASSUME TurnsInv, WorkInv, ResultsInv, OwedInv, [Next]_vars
  PROVE  OwedInv'
<1>. SUFFICES ASSUME conn' = "open" PROVE OwedInv'
  BY DEF OwedInv
<1>0. conn = "open" /\ ~BusCloses /\ inbox \in Seq(Messages) /\ ResultsNext
  BY ConnStep, ResultsStep DEF TurnsInv
<1>1. ASSUME OrdersSame, UNCHANGED <<next, pending, orders, order, results>>, lost \subseteq lost',
             \A k \in Tasks : Result(k) \in ToSet(inbox) => Result(k) \in ToSet(inbox') \/ pending[k] = None,
             UNCHANGED <<loop, current>> \/ ~Handling, loop' # "forget" \/ UNCHANGED <<loop, current>>
      PROVE  OwedInv'
  <2>1. \A k \in Tasks : Sent(k)' => Sent(k)
    BY <1>1, SentSame
  <2>2. UNCHANGED <<loop, current>> => (Handling' <=> Handling)
    BY DEF Handling
  <2>3. \A k \in Tasks : pending[k] # None /\ Owed(k) => Owed(k)'
    BY <1>1, <2>2, OwedStays
  <2>. QED
    BY <1>0, <1>1, <2>1, <2>3, OwedKept
<1>2. ASSUME NEW t \in Turns, UserAsks(t)
      PROVE  OwedInv'
  <2>1. /\ UNCHANGED <<plan, next, pending, orders, order, results, loop, current>> /\ lost \subseteq lost'
        /\ ToAmbassador(TurnTopic, t)
        /\ pc[t] = "unasked" /\ pc' = [pc EXCEPT ![t] = "asked"]
    BY <1>2 DEF UserAsks, workerVars
  <2>2. OrdersSame
    BY <2>1 DEF OrdersSame, Request, TurnsInv
  <2>3. ToSet(inbox) \subseteq ToSet(inbox')
    <3>1. [topic |-> TurnTopic, of |-> t] \in Messages
      BY DEF Messages, AskedTurns, Asked
    <3>. QED
      BY <1>0, <2>1, <3>1, ArrivesStays
  <2>. QED
    BY <1>1, <2>1, <2>2, <2>3
<1>3. ASSUME NEW t \in Turns, Classify(t) \/ EnsureWorker(t) \/ Settles(t)
      PROVE  OwedInv'
  <2>1. /\ UNCHANGED <<next, pending, orders, order, results, loop, current, inbox, lost>> /\ pc[t] # "order"
        /\ \A u \in Turns : u # t => plan'[u] = plan[u]
        /\ \E where \in Places \ {"order"} : Goto(t, where)
    <3>1. CASE Classify(t)
      <4>1. \A p \in Plans[t] : After(p) \in Places \ {"order"}
        BY PlansTyped
      <4>. QED
        BY <3>1, <4>1 DEF Classify, TurnOnly, workerVars, TurnsInv, At
    <3>2. CASE EnsureWorker(t)
      BY <3>2 DEF EnsureWorker, Places, At
    <3>3. CASE Settles(t)
      BY <3>3 DEF Settles, workerVars, Places
    <3>. QED
      BY <1>3, <3>1, <3>2, <3>3
  <2>2. pc'[t] # "order" /\ \A u \in Turns : u # t => pc'[u] = pc[u]
    BY <2>1 DEF Goto, TurnsInv
  <2>3. OrdersSame
    BY <2>1, <2>2, SameRequest DEF OrdersSame
  <2>. QED
    BY <1>1, <2>1, <2>3
<1>4. ASSUME NEW t \in Turns, Register(t)
      PROVE  OwedInv'
  <2>1. /\ UNCHANGED <<plan, next, answers, orders, order, results, loop, current, inbox, lost>>
        /\ pc[t] = "register" /\ pc' = [pc EXCEPT ![t] = "order"]
        /\ pending' = [pending EXCEPT ![Request(t).task] = t]
    BY <1>4 DEF Register, At, Goto, workerVars
  <2>2. PICK k \in Tasks : k = Request(t).task
    BY <2>1, RequestFresh
  <2>3. /\ \A j \in Tasks : pending'[j] = IF j = k THEN t ELSE pending[j]
        /\ t # None
    BY <2>1, <2>2, TurnAssumption DEF ResultsInv
  <2>4. /\ \A u \in Turns : pc'[u] = IF u = t THEN "order" ELSE pc[u]
        /\ \A u \in Turns : Request(u)' = Request(u)
    BY <2>1 DEF TurnsInv, Request
  <2>5. (\A j : Answered(j)' <=> Answered(j)) /\ (\A j : Sent(j)' <=> Sent(j)) /\ (Handling' <=> Handling)
    BY <2>1 DEF Answered, Sent, Handling
  <2>6. \A j \in Tasks : Sent(j)' /\ ~Answered(j)' => pending'[j] # None
    BY <1>0, <2>3, <2>5 DEF OwedInv
  <2>7. \A u \in Turns : pc'[u] = "order" => pending'[(Request(u).task)'] # None
    <3>1. \A u \in Turns : pc[u] = "order" => pending[Request(u).task] # None /\ Request(u).task \in Tasks
      BY <1>0, RequestFresh DEF OwedInv
    <3>. QED
      BY <2>2, <2>3, <2>4, <3>1
  <2>8. loop' = "forget" => Answered(current)'
    BY <1>0, <2>1 DEF OwedInv, Answered
  <2>9. ASSUME NEW j \in Tasks, pending'[j] # None, j \notin lost'
        PROVE  Owed(j)'
    <3>1. CASE j = k
      BY <2>2, <2>4, <3>1 DEF Owed
    <3>2. CASE j # k
      <4>1. Owed(j)
        BY <1>0, <2>1, <2>3, <2>9, <3>2 DEF OwedInv
      <4>2. \A u \in Turns : pc[u] = "order" => pc'[u] = "order"
        BY <2>4
      <4>. QED
        BY <2>1, <2>4, <2>5, <4>1, <4>2 DEF Owed
    <3>. QED
      BY <3>1, <3>2
  <2>. QED
    BY <2>6, <2>7, <2>8, <2>9 DEF OwedInv
<1>5. ASSUME NEW t \in Turns, PublishOrder(t)
      PROVE  OwedInv'
  <2>1. /\ UNCHANGED <<plan, pending, answers, order, results, loop, current, inbox>>
        /\ pc[t] = "order" /\ \E where \in {"ack", "ensure"} : Goto(t, where)
        /\ next' = [next EXCEPT ![t] = @ + 1]
    BY <1>5 DEF PublishOrder, At
  <2>2. PICK k \in Tasks : k = Request(t).task
    BY <2>1, RequestFresh
  <2>3. /\ pc'[t] # "order" /\ \A u \in Turns : u # t => pc'[u] = pc[u] /\ next'[u] = next[u]
        /\ \A u \in Turns : u # t => Request(u)' = Request(u)
    BY <2>1 DEF TurnsInv, Goto, Request
  <2>4. (\A j : Answered(j)' <=> Answered(j)) /\ (Handling' <=> Handling)
    BY <2>1 DEF Answered, Handling
  <2>5. \A j \in Tasks : Sent(j)' /\ ~Answered(j)' => pending'[j] # None
    <3>1. \A u \in Turns : PublishOrder(u) => pending[Request(u).task] # None
      BY <1>0 DEF OwedInv, PublishOrder, At
    <3>. QED
      BY <1>0, <2>1, <2>4, <3>1, SentStep DEF OwedInv
  <2>6. \A u \in Turns : pc'[u] = "order" => pending'[(Request(u).task)'] # None
    BY <1>0, <2>1, <2>3 DEF OwedInv
  <2>7. loop' = "forget" => Answered(current)'
    BY <1>0, <2>1 DEF OwedInv, Answered
  <2>8. /\ lost \subseteq lost'
        /\ k \in lost' \/ \E w \in Workers : k \in ToSet(orders'[w])
        /\ \A w \in Workers : ToSet(orders[w]) \subseteq ToSet(orders'[w])
    <3>1. CASE UNCHANGED orders /\ lost' = lost \cup {k}
      BY <3>1
    <3>2. ASSUME NEW w \in Workers, orders' = [orders EXCEPT ![w] = Append(@, k)], UNCHANGED lost
          PROVE  /\ lost \subseteq lost'
                 /\ k \in ToSet(orders'[w])
                 /\ \A v \in Workers : ToSet(orders[v]) \subseteq ToSet(orders'[v])
      <4>1. orders \in [Workers -> Seq(Tasks)]
        BY DEF WorkInv
      <4>2. ToSet(Append(orders[w], k)) = ToSet(orders[w]) \cup {k}
        <5>1. PICK s \in Seq(Tasks) : s = orders[w]
          BY <4>1
        <5>2. ToSet(Append(s, k)) = ToSet(s) \cup {k}
          BY AppendSet
        <5>. QED
          BY <5>1, <5>2, Zenon
      <4>3. orders'[w] = Append(orders[w], k) /\ \A v \in Workers : v # w => orders'[v] = orders[v]
        BY <3>2, <4>1
      <4>. QED
        BY <3>2, <4>2, <4>3
    <3>3. assigned[t] \in Workers
      BY <2>1 DEF TurnsInv, TurnAt
    <3>. QED
      BY <1>5, <2>2, <3>1, <3>2, <3>3 DEF PublishOrder, SendOrder
  <2>9. ASSUME NEW j \in Tasks, pending'[j] # None, j \notin lost'
        PROVE  Owed(j)'
    <3>1. Owed(j)
      BY <1>0, <2>1, <2>8, <2>9 DEF OwedInv
    <3>2. ASSUME NEW u \in Turns, pc[u] = "order", Request(u).task = j
          PROVE  Owed(j)'
      <4>1. CASE u = t
        BY <2>2, <2>8, <2>9, <3>2, <4>1 DEF Owed
      <4>2. CASE u # t
        BY <2>3, <3>2, <4>2 DEF Owed
      <4>. QED
        BY <4>1, <4>2
    <3>3. ASSUME NEW w \in Workers, j \in ToSet(orders[w]) \/ (order[w] = j /\ results[j] = 0)
          PROVE  Owed(j)'
      BY <2>1, <2>8, <3>3 DEF Owed
    <3>4. CASE Result(j) \in ToSet(inbox) \/ (Handling /\ current = j)
      BY <2>1, <2>4, <3>4 DEF Owed
    <3>. QED
      BY <3>1, <3>2, <3>3, <3>4 DEF Owed
  <2>. QED
    BY <2>5, <2>6, <2>7, <2>9 DEF OwedInv
<1>6. CASE ReceiveTurn
  <2>1. /\ UNCHANGED <<pc, plan, next, pending, orders, order, results, lost>>
        /\ loop = "receive" /\ loop' = "turn" /\ inbox # <<>> /\ inbox' = Tail(inbox) /\ Head(inbox).topic = TurnTopic
    BY <1>6 DEF ReceiveTurn, Takes, LoopOnly, workerVars
  <2>2. \A k \in Tasks : Result(k) # Head(inbox)
    BY <2>1 DEF Result, TurnTopic, ResultTopic
  <2>3. OrdersSame
    BY <2>1, SameRequest DEF OrdersSame
  <2>4. \A k \in Tasks : Result(k) \in ToSet(inbox) => Result(k) \in ToSet(inbox')
    BY <1>0, <2>1, <2>2, TakesHead
  <2>. QED
    BY <1>1, <2>1, <2>3, <2>4 DEF Handling
<1>7. CASE StartTurn
  <2>1. /\ UNCHANGED <<plan, next, pending, orders, order, results, lost, inbox>>
        /\ loop = "turn" /\ loop' = "receive" /\ pc' = [pc EXCEPT ![current] = "classify"]
        /\ pc[current] = "asked" /\ current \in Turns
    BY <1>7 DEF StartTurn, LoopOnly, workerVars, Goto, TurnsInv, WaitsForSlot
  <2>2. OrdersSame
    BY <2>1, SameRequest DEF OrdersSame, TurnsInv
  <2>. QED
    BY <1>1, <2>1, <2>2 DEF Handling
<1>8. CASE ReceiveNeeds3PO
  <2>1. /\ UNCHANGED <<pc, plan, next, pending, orders, order, results, lost, loop, current>>
        /\ inbox # <<>> /\ inbox' = Tail(inbox) /\ Head(inbox).topic = NeedsTopic
    BY <1>8 DEF ReceiveNeeds3PO, Takes, LoopOnly, workerVars
  <2>2. \A k \in Tasks : Result(k) # Head(inbox)
    BY <2>1 DEF Result, NeedsTopic, ResultTopic
  <2>3. OrdersSame
    BY <2>1, SameRequest DEF OrdersSame
  <2>4. \A k \in Tasks : Result(k) \in ToSet(inbox) => Result(k) \in ToSet(inbox')
    BY <1>0, <2>1, <2>2, TakesHead
  <2>. QED
    BY <1>1, <2>1, <2>3, <2>4

<1>9. CASE ReceiveResult
  <2>1. /\ UNCHANGED <<pc, plan, next, pending, orders, order, results, lost>>
        /\ loop = "receive" /\ inbox # <<>> /\ inbox' = Tail(inbox)
        /\ IsPrefix(<<"agent", "work", "result">>, Head(inbox).topic)
        /\ IF pending[Head(inbox).of] # None
           THEN loop' = "result" /\ current' = Head(inbox).of
           ELSE UNCHANGED <<loop, current>>
    BY <1>9 DEF ReceiveResult, LoopOnly, workerVars
  <2>2. PICK k \in Tasks : Head(inbox) = Result(k) /\ Head(inbox).of = k
    <3>1. Head(inbox) \in Messages
      BY <1>0, <2>1, TakesHead
    <3>. QED
      BY <2>1, <3>1, OnlyResultsHandled
  <2>3. OrdersSame
    BY <2>1, SameRequest DEF OrdersSame
  <2>4. \A j \in Tasks : Result(j) \in ToSet(inbox) => j = k \/ Result(j) \in ToSet(inbox')
    BY <1>0, <2>1, <2>2, TakesHead, MessagesDiffer
  <2>5. loop' # "forget"
    BY <2>1
  <2>6. CASE pending[k] = None
    <3>1. UNCHANGED <<loop, current>>
      BY <2>1, <2>2, <2>6
    <3>. QED
      BY <1>1, <2>1, <2>3, <2>4, <2>5, <2>6, <3>1
  <2>7. CASE pending[k] # None
    <3>1. Handling' /\ current' = k /\ ~Handling
      BY <2>1, <2>2, <2>7 DEF Handling
    <3>2. ASSUME NEW j \in Tasks, Owed(j)
          PROVE  Owed(j)'
      <4>1. CASE j = k
        BY <3>1, <4>1 DEF Owed
      <4>2. CASE j # k
        BY <2>1, <2>3, <2>4, <3>1, <3>2, <4>2, OwedStays
      <4>. QED
        BY <4>1, <4>2
    <3>3. \A j \in Tasks : Sent(j)' => Sent(j)
      BY <2>1, SentSame
    <3>. QED
      BY <1>0, <2>1, <2>3, <2>5, <3>2, <3>3, OwedKept
  <2>. QED
    BY <2>6, <2>7
<1>10. CASE Synthesize \/ AnswerResult
  <2>1. /\ UNCHANGED <<pc, plan, next, pending, orders, order, results, lost, inbox, current>>
        /\ (loop = "result" /\ loop' = "answer") \/ (loop = "answer" /\ loop' = "forget")
    BY <1>10 DEF Synthesize, AnswerResult, LoopOnly, workerVars
  <2>2. Handling' /\ Handling
    BY <2>1 DEF Handling
  <2>3. OrdersSame
    BY <2>1, SameRequest DEF OrdersSame
  <2>4. \A k \in Tasks : pending[k] # None /\ Owed(k) => Owed(k)'
    BY <2>1, <2>2, <2>3, OwedStays
  <2>5. \A k \in Tasks : Sent(k)' => Sent(k)
    BY <2>1, SentSame
  <2>6. loop' = "forget" => Answered(current)'
    BY <1>0, <2>1 DEF ResultsNext
  <2>. QED
    BY <1>0, <2>1, <2>3, <2>4, <2>5, <2>6, OwedKept
<1>11. CASE Forget
  <2>1. /\ UNCHANGED <<pc, plan, next, answers, orders, order, results, lost, inbox>>
        /\ loop = "forget" /\ loop' = "receive" /\ pending' = [pending EXCEPT ![current] = None]
    BY <1>11 DEF Forget, LoopOnly, workerVars
  <2>2. PICK k \in Tasks : k = current /\ results[k] = 1 /\ Answered(k)
    <3>1. Handling
      BY <2>1 DEF Handling
    <3>. QED
      BY <1>0, <2>1, <3>1 DEF ResultsInv, OwedInv
  <2>3. Sent(k)
    BY <2>2 DEF WorkInv, HeldOnce
  <2>4. \A j \in Tasks : pending'[j] = IF j = k THEN None ELSE pending[j]
    BY <2>1, <2>2 DEF ResultsInv
  <2>5. (\A j : Answered(j)' <=> Answered(j)) /\ (\A j : Sent(j)' <=> Sent(j)) /\ \A t : Request(t)' = Request(t)
    BY <2>1 DEF Answered, Sent, Request
  <2>6. \A j \in Tasks : Sent(j)' /\ ~Answered(j)' => pending'[j] # None
    BY <1>0, <2>2, <2>4, <2>5 DEF OwedInv
  <2>7. ASSUME NEW t \in Turns, pc'[t] = "order"
        PROVE  pending'[(Request(t).task)'] # None
    <3>1. pc[t] = "order" /\ Request(t).task \in Tasks /\ ~Sent(Request(t).task) /\ pending[Request(t).task] # None
      BY <1>0, <2>1, <2>7, RequestFresh DEF OwedInv
    <3>2. (Request(t).task)' = Request(t).task /\ Request(t).task # k
      BY <2>3, <2>5, <3>1
    <3>. QED
      BY <2>4, <3>1, <3>2
  <2>8. ASSUME NEW j \in Tasks, pending'[j] # None, j \notin lost'
        PROVE  Owed(j)'
    <3>1. j # k /\ Owed(j)
      BY <1>0, <2>1, <2>4, <2>8 DEF OwedInv
    <3>2. OrdersSame
      BY <2>1, <2>5 DEF OrdersSame
    <3>. QED
      BY <2>1, <2>2, <3>1, <3>2, OwedStays
  <2>. QED
    BY <2>1, <2>6, <2>7, <2>8 DEF OwedInv
<1>12. ASSUME NEW w \in Workers, WorkerStep(w), TurnVarsSame
       PROVE  OwedInv'
  <2>1. UNCHANGED <<pc, plan, next, pending, loop, current>>
    BY <1>12 DEF TurnVarsSame, turnVars
  <2>2. OrdersSame /\ (\A k \in Tasks : Sent(k)' => Sent(k)) /\ (Handling' <=> Handling)
    BY <2>1, SameRequest, SentSame DEF OrdersSame, Handling
  <2>3. ASSUME lost \subseteq lost', \A k \in Tasks : Owed(k) => Owed(k)' \/ k \in lost'
        PROVE  OwedInv'
    BY <1>0, <2>1, <2>2, <2>3, OwedKept
  <2>4. ASSUME NEW k \in Tasks, Owed(k), lost \subseteq lost',
               \A v \in Workers : k \in ToSet(orders[v]) \/ (order[v] = k /\ results[k] = 0) => Owed(k)' \/ k \in lost',
               Result(k) \in ToSet(inbox) => Result(k) \in ToSet(inbox')
        PROVE  Owed(k)' \/ k \in lost'
    <3>1. ASSUME NEW t \in Turns, pc[t] = "order", Request(t).task = k
          PROVE  Owed(k)'
      <4>1. pc'[t] = "order" /\ (Request(t).task)' = k
        BY <2>2, <3>1 DEF OrdersSame
      <4>. QED
        BY <4>1 DEF Owed
    <3>. QED
      BY <2>1, <2>2, <2>4, <3>1 DEF Owed
  <2>5. CASE Quiet(w)
    <3>1. UNCHANGED <<orders, order, results, lost>> /\ ToSet(inbox) \subseteq ToSet(inbox')
      <4>1. CASE inbox' = inbox
        BY <2>5, <4>1 DEF Quiet
      <4>2. CASE order[w] \in Tasks /\ ToAmbassador(NeedsTopic, order[w])
        <5>1. [topic |-> NeedsTopic, of |-> order[w]] \in Messages
          BY <4>2 DEF Messages, Needs
        <5>. QED
          BY <1>0, <2>5, <4>2, <5>1, ArrivesStays DEF Quiet
      <4>. QED
        BY <2>5, <4>1, <4>2 DEF Quiet
    <3>. QED
      BY <1>1, <2>1, <2>2, <3>1
  <2>6. CASE Begins(w)
    <3>1. PICK h \in Tasks : h = Head(orders[w])
      BY <2>6, TailOnce DEF Begins, WorkInv
    <3>2. ToSet(orders[w]) = ToSet(Tail(orders[w])) \cup {h} /\ results[h] = 0
      <4>1. ToSet(orders[w]) = ToSet(Tail(orders[w])) \cup {h}
        <5>1. PICK q \in Seq(Tasks) : q = orders[w]
          BY DEF WorkInv
        <5>2. q # <<>>
          BY <2>6, <5>1 DEF Begins
        <5>3. ToSet(q) = ToSet(Tail(q)) \cup {Head(q)}
          BY <5>2, TailOnce, Zenon
        <5>. QED
          BY <3>1, <5>1, <5>3, Zenon
      <4>. QED
        BY <4>1 DEF WorkInv, WorkerHas
    <3>3. /\ orders'[w] = Tail(orders[w]) /\ order'[w] = h /\ order[w] = None
          /\ \A v \in Workers : v # w => orders'[v] = orders[v] /\ order'[v] = order[v]
          /\ UNCHANGED <<inbox, results, lost>>
      BY <2>6, <3>1 DEF Begins, WorkInv, WorkerHas
    <3>4. ASSUME NEW k \in Tasks, NEW v \in Workers, k \in ToSet(orders[v]) \/ (order[v] = k /\ results[k] = 0)
          PROVE  Owed(k)'
      <4>1. CASE v # w
        BY <3>3, <3>4, <4>1 DEF Owed
      <4>2. CASE v = w
        <5>1. k = h \/ k \in ToSet(orders'[w])
          BY <3>2, <3>3, <3>4, <4>2, WorkAssumption
        <5>2. order'[w] = h /\ results'[h] = 0
          BY <3>2, <3>3
        <5>. QED
          BY <5>1, <5>2 DEF Owed
      <4>. QED
        BY <4>1, <4>2
    <3>. QED
      BY <2>3, <2>4, <3>3, <3>4
  <2>7. CASE Publishes(w)
    <3>1. PICK h \in Tasks : h = order[w]
      BY <2>7 DEF Publishes
    <3>2. /\ ToAmbassador(ResultTopic(h), h) /\ orders' = orders /\ results' = [results EXCEPT ![h] = @ + 1]
          /\ lost' = IF Reaches(ResultTopic(h)) THEN lost ELSE lost \cup {h}
          /\ \A v \in Workers : v # w => order'[v] = order[v]
      BY <2>7, <3>1 DEF Publishes, PublishResult, WorkInv
    <3>3. /\ ToSet(inbox) \subseteq ToSet(inbox')
          /\ Reaches(ResultTopic(h)) => Result(h) \in ToSet(inbox')
      <4>1. PICK m \in Messages : m = [topic |-> ResultTopic(h), of |-> h] /\ m = Result(h)
        BY DEF Messages, WorkResults, Result
      <4>. QED
        BY <1>0, <3>2, <4>1, Arrives
    <3>4. Owed(h)' \/ h \in lost'
      BY <3>2, <3>3 DEF Owed
    <3>5. \A k \in Tasks : k # h => results'[k] = results[k]
      BY <3>2 DEF WorkInv
    <3>6. ASSUME NEW k \in Tasks, NEW v \in Workers, k \in ToSet(orders[v]) \/ (order[v] = k /\ results[k] = 0)
          PROVE  Owed(k)' \/ k \in lost'
      <4>1. CASE k = h
        BY <3>4, <4>1
      <4>2. CASE k # h
        BY <3>1, <3>2, <3>5, <3>6, <4>2 DEF Owed
      <4>. QED
        BY <4>1, <4>2
    <3>7. lost \subseteq lost'
      BY <3>2
    <3>. QED
      BY <2>3, <2>4, <3>3, <3>6, <3>7
  <2>8. CASE Ends(w)
    <3>1. /\ UNCHANGED <<orders, results, inbox, lost>> /\ order[w] \in Tasks /\ published[w]
          /\ \A v \in Workers : v # w => order'[v] = order[v]
      BY <2>8 DEF Ends, WorkInv
    <3>2. results[order[w]] = 1
      BY <3>1, WorkAssumption DEF WorkInv, WorkerHas
    <3>3. ASSUME NEW k \in Tasks, NEW v \in Workers, k \in ToSet(orders[v]) \/ (order[v] = k /\ results[k] = 0)
          PROVE  Owed(k)'
      <4>1. k \in ToSet(orders'[v]) \/ (order'[v] = k /\ results'[k] = 0)
        BY <3>1, <3>2, <3>3
      <4>. QED
        BY <4>1 DEF Owed
    <3>. QED
      BY <2>3, <2>4, <3>1, <3>3
  <2>9. CASE Dies(w)
    <3>1. /\ UNCHANGED <<results, inbox>>
          /\ lost' = lost \cup ToSet(orders[w])
                       \cup (IF order[w] # None /\ results[order[w]] = 0 THEN {order[w]} ELSE {})
          /\ \A v \in Workers : v # w => order'[v] = order[v] /\ orders'[v] = orders[v]
      BY <2>9 DEF Dies, WorkInv
    <3>2. ASSUME NEW k \in Tasks, NEW v \in Workers, k \in ToSet(orders[v]) \/ (order[v] = k /\ results[k] = 0)
          PROVE  Owed(k)' \/ k \in lost'
      <4>1. CASE v = w
        BY <3>1, <3>2, <4>1, WorkAssumption
      <4>2. CASE v # w
        BY <3>1, <3>2, <4>2 DEF Owed
      <4>. QED
        BY <4>1, <4>2
    <3>. QED
      BY <2>3, <2>4, <3>1, <3>2
  <2>. QED
    BY <1>12, <2>5, <2>6, <2>7, <2>8, <2>9, WorkerEffects
<1>13. CASE UNCHANGED vars
  <2>1. UNCHANGED <<pc, plan, next, pending, orders, order, results, loop, current, inbox, lost>>
    BY <1>13 DEF vars, workerVars, turnVars
  <2>2. OrdersSame
    BY <2>1, SameRequest DEF OrdersSame
  <2>. QED
    BY <1>1, <2>1, <2>2
<1>14. ASSUME NEW t \in Turns, TurnStep(t)
       PROVE  OwedInv'
  BY <1>3, <1>4, <1>5, <1>14, TurnEffects
<1>. QED
  BY <1>0, <1>2, <1>6, <1>7, <1>8, <1>9, <1>10, <1>11, <1>12, <1>13, <1>14 DEF Next, Loop

-----------------------------------------------------------------------------
(* The theorems                                                            *)

LEMMA InvInit == Init => Inv /\ OwedInv
<1>. SUFFICES ASSUME Init PROVE Inv /\ OwedInv
  OBVIOUS
<1>. USE DEF Init, WorkerInit
<1>1. \A t \in Turns : pc[t] = "unasked" /\ next[t] = 1 /\ answers[t] = <<>> /\ 1..(next[t] - 1) = {}
  OBVIOUS
<1>2. \A w \in Workers : worker[w] = "absent" /\ orders[w] = <<>> /\ order[w] = None /\ ToSet(orders[w]) = {}
  BY EmptyOnce
<1>3. ToSet(inbox) = {} /\ inbox \in Seq(Messages) /\ \A M : Distinct(inbox, M)
  BY EmptyOnce
<1>4. DOMAIN <<>> = {} /\ <<>> \in Seq(Answers)
  OBVIOUS
<1>5. ~Handling /\ (\A k : ~Answered(k)) /\ ResultsOnce
  BY <1>1, <1>4 DEF Handling, Answered, ResultsOnce
<1>6. \A k : ~Sent(k)
  BY <1>1 DEF Sent
<1>7. TurnsInv
  BY <1>1, <1>3 DEF TurnsInv, TurnAt, WaitsForSlot, Places
<1>8. WorkInv
  <2>1. \A w \in Workers : WorkerHas(w)
    BY <1>2, EmptyOnce DEF WorkerHas
  <2>2. \A k \in Tasks : HeldOnce(k)
    BY <1>2, WorkAssumption DEF HeldOnce, Holds
  <2>3. orders \in [Workers -> Seq(Tasks)]
    BY EmptyOnce
  <2>. QED
    BY <2>1, <2>2, <2>3 DEF WorkInv
<1>9. ResultsInv
  BY <1>3, <1>4, <1>5 DEF ResultsInv, ResultAt
<1>10. OwedInv
  BY <1>1, <1>6 DEF OwedInv
<1>. QED
  BY <1>7, <1>8, <1>9, <1>10 DEF Inv

LEMMA InvStep == Inv /\ OwedInv /\ [Next]_vars => Inv' /\ OwedInv'
BY TurnsStep, WorkStep, ResultsStep, OwedStep DEF Inv, ResultsNext

\* Turns, orders, results and the table of pending tasks stay as described, in any
\* behaviour: whatever is lost, whoever dies and whenever the bus cuts the ambassador off.
THEOREM InvCorrect == Spec => [](Inv /\ OwedInv)
<1>1. Init => Inv /\ OwedInv
  BY InvInit
<1>2. Inv /\ OwedInv /\ [Next]_vars => Inv' /\ OwedInv'
  BY InvStep
<1>. QED
  BY <1>1, <1>2, PTL DEF Spec

LEMMA AnsweredOnce ==
  ASSUME Inv PROVE OneAnswerPerTask
<1>1. ASSUME NEW k \in Tasks, NEW t \in Turns
      PROVE  Cardinality({i \in DOMAIN answers[t] : answers[t][i].what = "result" /\ answers[t][i].of = k}) <= 1
  <2>1. PICK I : I = {i \in DOMAIN answers[t] : answers[t][i].what = "result" /\ answers[t][i].of = k}
    OBVIOUS
  <2>2. answers[t] \in Seq(Answers)
    BY DEF Inv, ResultsInv
  <2>3. \A i \in DOMAIN answers[t] : answers[t][i] \in Answers
    BY <2>2
  <2>4. \A i, j \in I : answers[t][i] = answers[t][j]
    BY <2>1, <2>3 DEF Answers
  <2>5. \A i, j \in I : i = j
    BY <2>1, <2>4 DEF Inv, ResultsInv, ResultsOnce
  <2>6. CASE I = {}
    BY <2>1, <2>6, FS_EmptySet
  <2>7. ASSUME NEW i \in I
        PROVE  Cardinality(I) = 1
    <3>1. I = {i}
      BY <2>5, <2>7
    <3>. QED
      BY <3>1, FS_Singleton
  <2>. QED
    BY <2>1, <2>6, <2>7
<1>2. \A k \in Tasks : results[k] <= 1 /\ (Answered(k) => results[k] = 1)
  BY DEF Inv, WorkInv, ResultsInv, ResultAt
<1>. QED
  BY <1>1, <1>2 DEF OneAnswerPerTask

LEMMA TableIsOwed ==
  ASSUME Inv, OwedInv PROVE PendingIsOwed
<1>. SUFFICES ASSUME conn = "open", NEW k \in Tasks
              PROVE  /\ results[k] = 1 /\ k \notin lost /\ ~Answered(k) => pending[k] # None
                     /\ pending[k] # None => k \in lost \/ UnderWay(k)
  BY DEF PendingIsOwed
<1>1. results[k] = 1 => Sent(k)
  BY DEF Inv, WorkInv, HeldOnce
<1>2. Sent(k) /\ ~Answered(k) => pending[k] # None
  BY DEF OwedInv
<1>3. pending[k] # None /\ k \notin lost => Owed(k)
  BY DEF OwedInv
<1>4. Result(k) \in ToSet(inbox) => \E i \in DOMAIN inbox : inbox[i] = [topic |-> ResultTopic(k), of |-> k]
  BY DEF ToSet, Result
<1>5. Owed(k) => UnderWay(k)
  BY <1>4 DEF Owed, UnderWay, Handling, At
<1>. QED
  BY <1>1, <1>2, <1>3, <1>5

\* A delegated task gives at most one result, whatever its handler does, and users
\* get at most one answer to it, and only after its result: for any number of
\* turns at once, any queues, dying workers and lost messages.
THEOREM OneAnswerPerTaskCorrect == Spec => []OneAnswerPerTask
<1>1. Inv /\ OwedInv => OneAnswerPerTask
  BY AnsweredOnce
<1>. QED
  BY <1>1, InvCorrect, PTL

\* While the ambassador is on the bus, a task whose result is out and not yet
\* answered is in the table, and what is in the table and not lost is on its way.
THEOREM PendingIsOwedCorrect == Spec => []PendingIsOwed
<1>1. Inv /\ OwedInv => PendingIsOwed
  BY TableIsOwed
<1>. QED
  BY <1>1, InvCorrect, PTL

=============================================================================

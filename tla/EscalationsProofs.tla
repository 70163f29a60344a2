--------------------------- MODULE EscalationsProofs ---------------------------
(***************************************************************************)
(* What the two logs can be relied on for, for any number of connections,  *)
(* reviewers, requests and failures, and any queue on the bus.             *)
(***************************************************************************)
EXTENDS Escalations, FiniteSetTheorems, TLAPS

-----------------------------------------------------------------------------
(* Logs. What a write, a failed write and a loss of power make of a log is *)
(* all that the proofs use of them.                                        *)

\* The pieces of a log of entries from S.
Piece(S) == [entry : S, whole : BOOLEAN, newline : BOOLEAN]

\* log, or log and one piece with the entry e.
GrowsBy(log, new, e) ==
  /\ Len(new) \in {Len(log), Len(log) + 1}
  /\ \A i \in 1..Len(log) : new[i] = log[i]
  /\ Len(new) = Len(log) + 1 => new[Len(new)].entry = e

\* A beginning of log, of which the last piece may be damaged.
CutFrom(log, new, synced_) ==
  /\ Len(new) \in synced_..Len(log)
  /\ \A i \in 1..Len(new) : new[i].entry = log[i].entry /\ (new[i].whole => log[i].whole)
  /\ \A i \in 1..synced_ : new[i] = log[i]

\* A write appends a piece that is whole.
LEMMA WrittenGrows ==
  ASSUME NEW S, NEW log \in Seq(Piece(S)), NEW e \in S
  PROVE  /\ Written(log, e) \in Seq(Piece(S))
         /\ GrowsBy(log, Written(log, e), e)
         /\ Len(Written(log, e)) = Len(log) + 1
         /\ Written(log, e)[Len(log) + 1].entry = e
         /\ Written(log, e)[Len(log) + 1].whole
<1>. DEFINE piece == [entry |-> e, whole |-> TRUE, newline |-> TRUE]
<1>1. piece \in Piece(S) /\ piece.entry = e /\ piece.whole
  BY DEF Piece
<1>2. Written(log, e) = Append(log, piece)
  BY DEF Written
<1>. HIDE DEF piece
<1>. QED
  BY <1>1, <1>2 DEF GrowsBy

\* A write that fails appends nothing or a piece that may be whole.
LEMMA FailedGrows ==
  ASSUME NEW S, NEW log \in Seq(Piece(S)), NEW e \in S, NEW new \in WriteFailed(log, e)
  PROVE  new \in Seq(Piece(S)) /\ GrowsBy(log, new, e)
<1>1. CASE new = log
  BY <1>1 DEF GrowsBy
<1>2. ASSUME NEW w \in BOOLEAN, new = Append(log, [entry |-> e, whole |-> w, newline |-> FALSE])
      PROVE  new \in Seq(Piece(S)) /\ GrowsBy(log, new, e)
  <2>. DEFINE piece == [entry |-> e, whole |-> w, newline |-> FALSE]
  <2>1. piece \in Piece(S) /\ piece.entry = e
    BY DEF Piece
  <2>2. new = Append(log, piece)
    BY <1>2
  <2>. HIDE DEF piece
  <2>. QED
    BY <2>1, <2>2 DEF GrowsBy
<1>. QED
  BY <1>1, <1>2 DEF WriteFailed

\* A loss of power leaves what was synced and a beginning of the rest.
LEMMA PowerCuts ==
  ASSUME NEW S, NEW log \in Seq(Piece(S)), NEW n \in 0..Len(log), NEW new \in AfterPowerFailure(log, n)
  PROVE  new \in Seq(Piece(S)) /\ CutFrom(log, new, n)
<1>1. ASSUME NEW m \in n..Len(log)
      PROVE  /\ SubSeq(log, 1, m) \in Seq(Piece(S)) /\ Len(SubSeq(log, 1, m)) = m
             /\ \A i \in 1..m : SubSeq(log, 1, m)[i] = log[i]
  OBVIOUS
<1>2. ASSUME NEW m \in n..Len(log), new = SubSeq(log, 1, m)
      PROVE  new \in Seq(Piece(S)) /\ CutFrom(log, new, n)
  BY <1>1, <1>2 DEF CutFrom
<1>3. ASSUME NEW m \in n..(Len(log) - 1), NEW w \in BOOLEAN,
             new = Append(SubSeq(log, 1, m), Torn(log[m + 1], w))
      PROVE  new \in Seq(Piece(S)) /\ CutFrom(log, new, n)
  <2>1. log[m + 1] \in Piece(S)
    OBVIOUS
  <2>2. PICK piece : piece = Torn(log[m + 1], w)
    OBVIOUS
  <2>3. piece \in Piece(S) /\ piece.entry = log[m + 1].entry /\ (piece.whole => log[m + 1].whole)
    BY <2>1, <2>2 DEF Piece, Torn
  <2>4. PICK kept : kept = SubSeq(log, 1, m)
    OBVIOUS
  <2>5. kept \in Seq(Piece(S)) /\ Len(kept) = m /\ \A i \in 1..m : kept[i] = log[i]
    BY <1>1, <2>4
  <2>6. new = Append(kept, piece)
    BY <1>3, <2>2, <2>4
  <2>7. new \in Seq(Piece(S)) /\ Len(new) = m + 1 /\ new[m + 1] = piece /\ \A i \in 1..m : new[i] = log[i]
    BY <2>3, <2>5, <2>6
  <2>. QED
    BY <2>3, <2>7 DEF CutFrom
<1>4. CASE \E m \in n..Len(log) : new = SubSeq(log, 1, m)
  BY <1>2, <1>4
<1>5. CASE \E m \in n..(Len(log) - 1), w \in BOOLEAN :
             new = Append(SubSeq(log, 1, m), Torn(log[m + 1], w))
  BY <1>3, <1>5
<1>6. \/ \E m \in n..Len(log) : new = SubSeq(log, 1, m)
      \/ \E m \in n..(Len(log) - 1), w \in BOOLEAN :
           new = Append(SubSeq(log, 1, m), Torn(log[m + 1], w))
  BY DEF AfterPowerFailure
<1>. QED
  BY <1>4, <1>5, <1>6

-----------------------------------------------------------------------------
(* Types.                                                                  *)

Evaluation == [kind : {"evaluation"}, id : Nat, verdict : {"final", "escalate"}]
Decision == [kind : {"decision"}, id : Nat, verdict : Verdicts]

\* Where a goroutine is: idle, or at one of the places with an entry from S.
Place(places, S) == [pc : {"idle"} \cup places, entry : {None} \cup S]
Working(place, S) == place.pc # "idle" => place.entry \in S

LogsOK ==
  /\ adminLog \in Seq(Piece(Evaluation \cup Decision))
  /\ synced \in 0..Len(adminLog)
  /\ decisionLog \in Seq(Piece(Decision))

ConnsOK ==
  /\ conn \in [Conns -> Place({"write", "sync", "publish", "answer"}, Evaluation)]
  /\ \A c \in Conns : Working(conn[c], Evaluation)

ReviewersOK ==
  /\ reviewer \in [Reviewers -> Place({"append", "publish"}, Decision)]
  /\ \A r \in Reviewers : Working(reviewer[r], Decision)

LoggerOK ==
  /\ logger \in Place({"log", "sync"}, Decision)
  /\ Working(logger, Decision)
  /\ logger.pc = "idle" => logger.entry = None

TypeInv ==
  LogsOK /\ ConnsOK /\ ReviewersOK /\ LoggerOK /\ queue \in Seq(Decision) /\ requests \in Nat

LEMMA IdleIsPlace ==
  ASSUME NEW places, NEW S
  PROVE  Idle \in Place(places, S) /\ Working(Idle, S) /\ Idle.pc = "idle" /\ Idle.entry = None
BY DEF Idle, at, Place, Working

LEMMA AtIsPlace ==
  ASSUME NEW places, NEW S, NEW p \in places, NEW e \in S
  PROVE  at(p, e) \in Place(places, S) /\ Working(at(p, e), S) /\ at(p, e).pc = p /\ at(p, e).entry = e
BY DEF at, Place, Working

LEMMA MoveIsPlace ==
  ASSUME NEW places, NEW S, NEW p \in places, NEW h \in Place(places, S), h.pc # "idle", Working(h, S)
  PROVE  /\ [h EXCEPT !.pc = p] \in Place(places, S) /\ Working([h EXCEPT !.pc = p], S)
         /\ [h EXCEPT !.pc = p].pc = p /\ [h EXCEPT !.pc = p].entry = h.entry
BY DEF Place, Working

\* What is evaluated and what is decided has the form of an entry.
LEMMA EntriesAreTyped ==
  ASSUME NEW id \in Nat
  PROVE  /\ Evaluations(id) \subseteq Evaluation
         /\ Decisions(id) = {d \in Decision : d.id = id}
<1>1. Evaluations(id) \subseteq Evaluation
  BY DEF Evaluations, CallLLM, Evaluation
<1>2. Decisions(id) = {d \in Decision : d.id = id}
  BY DEF Decisions, Decision
<1>. QED
  BY <1>1, <1>2

-----------------------------------------------------------------------------
(* Which steps change what.                                                *)

\* The admin agent's log grows by one entry, or is not written.
AdminStep(e) == UNCHANGED <<decisionLog, lost>> /\ synced' = synced /\
                adminLog' \in Seq(Piece(Evaluation \cup Decision)) /\ GrowsBy(adminLog, adminLog', e)

LEMMA WritesGrow ==
  ASSUME TypeInv
  PROVE  /\ \A c \in Conns : WriteEntry(c) \/ WriteEntryFails(c) => AdminStep(conn[c].entry)
         /\ LogDecision \/ LogDecisionFails => AdminStep(logger.entry)
<1>1. ASSUME NEW c \in Conns, WriteEntry(c)
      PROVE  AdminStep(conn[c].entry)
  <2>1. conn[c].entry \in Evaluation \cup Decision
    BY <1>1 DEF TypeInv, ConnsOK, Working, WriteEntry
  <2>. QED
    BY <1>1, <2>1, WrittenGrows DEF TypeInv, LogsOK, AdminStep, WriteEntry, history
<1>2. ASSUME NEW c \in Conns, WriteEntryFails(c)
      PROVE  AdminStep(conn[c].entry)
  <2>1. conn[c].entry \in Evaluation \cup Decision
    BY <1>2 DEF TypeInv, ConnsOK, Working, WriteEntryFails
  <2>. QED
    BY <1>2, <2>1, FailedGrows DEF TypeInv, LogsOK, AdminStep, WriteEntryFails
<1>3. ASSUME LogDecision \/ LogDecisionFails
      PROVE  AdminStep(logger.entry)
  <2>1. logger.entry \in Evaluation \cup Decision
    BY <1>3 DEF TypeInv, LoggerOK, Working, LogDecision, LogDecisionFails, MayLog
  <2>2. CASE LogDecision
    BY <2>1, <2>2, WrittenGrows DEF TypeInv, LogsOK, AdminStep, LogDecision, history
  <2>3. CASE LogDecisionFails
    BY <2>1, <2>3, FailedGrows DEF TypeInv, LogsOK, AdminStep, LogDecisionFails
  <2>. QED
    BY <1>3, <2>2, <2>3
<1>. QED
  BY <1>1, <1>2, <1>3

\* A loss of power cuts both logs, the admin agent's behind what was synced.
LEMMA PowerCutsLogs ==
  ASSUME TypeInv, PowerFails
  PROVE  /\ adminLog' \in Seq(Piece(Evaluation \cup Decision)) /\ CutFrom(adminLog, adminLog', synced)
         /\ decisionLog' \in Seq(Piece(Decision)) /\ CutFrom(decisionLog, decisionLog', 0)
<1>1. adminLog' \in AfterPowerFailure(adminLog, synced) /\ decisionLog' \in AfterPowerFailure(decisionLog, 0)
  BY DEF PowerFails
<1>2. /\ adminLog \in Seq(Piece(Evaluation \cup Decision)) /\ synced \in 0..Len(adminLog)
      /\ decisionLog \in Seq(Piece(Decision)) /\ 0 \in 0..Len(decisionLog)
  BY DEF TypeInv, LogsOK
<1>3. adminLog' \in Seq(Piece(Evaluation \cup Decision)) /\ CutFrom(adminLog, adminLog', synced)
  BY <1>1, <1>2, PowerCuts
<1>. QED
  BY <1>1, <1>2, <1>3, PowerCuts

\* The shell UI's log grows by the decision of one reviewer, or is not written.
ShellStep(e) == UNCHANGED <<adminLog, synced, lost>> /\
                decisionLog' \in Seq(Piece(Decision)) /\ GrowsBy(decisionLog, decisionLog', e)

LEMMA AppendsGrow ==
  ASSUME TypeInv, NEW r \in Reviewers, AppendDecision(r) \/ AppendDecisionFails(r)
  PROVE  ShellStep(reviewer[r].entry) /\ reviewer[r].entry \in Decision
<1>1. reviewer[r].entry \in Decision
  BY DEF TypeInv, ReviewersOK, Working, AppendDecision, AppendDecisionFails
<1>2. CASE AppendDecision(r)
  BY <1>1, <1>2, WrittenGrows DEF TypeInv, LogsOK, ShellStep, AppendDecision, history
<1>3. CASE AppendDecisionFails(r)
  BY <1>1, <1>3, FailedGrows DEF TypeInv, LogsOK, ShellStep, AppendDecisionFails
<1>. QED
  BY <1>1, <1>2, <1>3

\* Every other step leaves both logs alone, but for how much is synced.
LogsStay == UNCHANGED <<adminLog, decisionLog, lost>> /\ synced' \in {synced, Len(adminLog)}

LEMMA LogSteps ==
  ASSUME TypeInv, [Next]_vars
  PROVE  \/ LogsStay
         \/ \E c \in Conns : WriteEntry(c) \/ WriteEntryFails(c)
         \/ LogDecision \/ LogDecisionFails
         \/ \E r \in Reviewers : AppendDecision(r) \/ AppendDecisionFails(r)
         \/ PowerFails
<1>1. ASSUME NEW c \in Conns, Evaluate(c) \/ SyncEntry(c) \/ SyncEntryFails(c) \/ PublishPending(c) \/ Answer(c)
      PROVE  LogsStay
  BY <1>1 DEF LogsStay, Evaluate, SyncEntry, SyncEntryFails, PublishPending, Answer, logs, history
<1>2. ASSUME NEW r \in Reviewers, Decide(r) \/ PublishDecision(r)
      PROVE  LogsStay
  BY <1>2 DEF LogsStay, Decide, PublishDecision, logs, history
<1>3. CASE Subscribe \/ Receive \/ Skip \/ SyncDecision
  BY <1>3 DEF LogsStay, Subscribe, Receive, Skip, SyncDecision, logs, history
<1>4. CASE BusDrops \/ AdminAgentRestarts \/ ShellRestarts
  BY <1>4 DEF LogsStay, BusDrops, AdminAgentRestarts, ShellRestarts, logs
<1>5. CASE UNCHANGED vars
  BY <1>5 DEF LogsStay, vars, logs, history
<1>. QED
  BY <1>1, <1>2, <1>3, <1>4, <1>5 DEF Next, ConnStep, ReviewerStep, LoggerStep

LEMMA LogsTyped ==
  ASSUME TypeInv, [Next]_vars
  PROVE  LogsOK'
<1>1. CASE LogsStay
  BY <1>1 DEF LogsStay, TypeInv, LogsOK
<1>2. ASSUME NEW e, AdminStep(e)
      PROVE  LogsOK'
  BY <1>2 DEF AdminStep, GrowsBy, TypeInv, LogsOK
<1>3. ASSUME NEW e, ShellStep(e)
      PROVE  LogsOK'
  BY <1>3 DEF ShellStep, TypeInv, LogsOK
<1>4. CASE PowerFails
  <2>1. synced' = Len(adminLog')
    BY <1>4 DEF PowerFails
  <2>. QED
    BY <1>4, <2>1, PowerCutsLogs DEF LogsOK
<1>. QED
  BY <1>1, <1>2, <1>3, <1>4, LogSteps, WritesGrow, AppendsGrow

LEMMA ConnsTyped ==
  ASSUME TypeInv, [Next]_vars
  PROVE  ConnsOK'
<1>. DEFINE Places == {"write", "sync", "publish", "answer"}
<1>1. ConnsOK
  BY DEF TypeInv
<1>2. ASSUME NEW c \in Conns, NEW h, h \in Place(Places, Evaluation), Working(h, Evaluation),
             conn' = [conn EXCEPT ![c] = h]
      PROVE  ConnsOK'
  BY <1>1, <1>2 DEF ConnsOK
<1>3. ASSUME NEW c \in Conns, Evaluate(c)
      PROVE  ConnsOK'
  <2>1. PICK e \in Evaluations(requests') : conn' = [conn EXCEPT ![c] = at("write", e)]
    BY <1>3 DEF Evaluate
  <2>2. requests' \in Nat
    BY <1>3 DEF Evaluate, TypeInv
  <2>3. e \in Evaluation
    BY <2>2, EntriesAreTyped
  <2>. QED
    BY <1>2, <2>1, <2>3, AtIsPlace
<1>4. ASSUME NEW c \in Conns, NEW p \in Places, conn[c].pc # "idle", conn' = [conn EXCEPT ![c].pc = p]
      PROVE  ConnsOK'
  <2>1. PICK h : h = [conn[c] EXCEPT !.pc = p]
    OBVIOUS
  <2>2. conn[c] \in Place(Places, Evaluation) /\ Working(conn[c], Evaluation)
    BY <1>1 DEF ConnsOK
  <2>3. h \in Place(Places, Evaluation) /\ Working(h, Evaluation)
    BY <1>4, <2>1, <2>2, MoveIsPlace
  <2>4. conn' = [conn EXCEPT ![c] = h]
    BY <1>4, <2>1
  <2>. QED
    BY <1>2, <2>3, <2>4
<1>5. ASSUME NEW c \in Conns, conn' = [conn EXCEPT ![c] = Idle]
      PROVE  ConnsOK'
  BY <1>2, <1>5, IdleIsPlace
<1>6. CASE conn' = [c \in Conns |-> Idle]
  BY <1>6, IdleIsPlace DEF ConnsOK
<1>7. ASSUME NEW c \in Conns, ConnStep(c)
      PROVE  ConnsOK'
  <2>1. CASE Evaluate(c)
    BY <2>1, <1>3
  <2>2. CASE WriteEntry(c)
    BY <2>2, <1>4 DEF WriteEntry
  <2>3. CASE SyncEntry(c)
    BY <2>3, <1>4 DEF SyncEntry, AfterLogging
  <2>4. CASE PublishPending(c)
    BY <2>4, <1>4 DEF PublishPending
  <2>5. CASE WriteEntryFails(c) \/ SyncEntryFails(c) \/ Answer(c)
    BY <2>5, <1>5 DEF WriteEntryFails, SyncEntryFails, Answer
  <2>. QED
    BY <1>7, <2>1, <2>2, <2>3, <2>4, <2>5 DEF ConnStep
<1>8. CASE AdminAgentRestarts \/ PowerFails
  BY <1>6, <1>8 DEF AdminAgentRestarts, PowerFails, AdminAgentGone
<1>9. CASE UNCHANGED conn
  BY <1>1, <1>9 DEF ConnsOK
<1>10. (\E c \in Conns : ConnStep(c)) \/ AdminAgentRestarts \/ PowerFails \/ UNCHANGED conn
  <2>1. ASSUME NEW r \in Reviewers, ReviewerStep(r)
        PROVE  UNCHANGED conn
    BY <2>1 DEF ReviewerStep, Decide, AppendDecision, AppendDecisionFails, PublishDecision
  <2>2. ASSUME LoggerStep \/ BusDrops \/ ShellRestarts \/ UNCHANGED vars
        PROVE  UNCHANGED conn
    BY <2>2 DEF LoggerStep, Subscribe, Receive, Skip, LogDecision, LogDecisionFails, SyncDecision,
                BusDrops, ShellRestarts, vars
  <2>. QED
    BY <2>1, <2>2 DEF Next
<1>. QED
  BY <1>7, <1>8, <1>9, <1>10

\* What waits for a human was logged, and is not decided as far as the UI's log tells.
LEMMA PendingIsLogged ==
  ASSUME NEW e \in Pending
  PROVE  e.id \notin DecidedIDs /\ \E i \in DOMAIN adminLog : e = adminLog[i].entry
<1>1. e \in {f \in Entries(adminLog) : f.kind = "evaluation" /\ f.verdict = "escalate" /\ f.id \notin DecidedIDs}
  BY DEF Pending
<1>2. e \in Entries(adminLog) /\ e.id \notin DecidedIDs
  BY <1>1
<1>. QED
  BY <1>2 DEF Entries

LEMMA ReviewersTyped ==
  ASSUME TypeInv, [Next]_vars
  PROVE  ReviewersOK'
<1>. DEFINE Places == {"append", "publish"}
<1>1. ReviewersOK
  BY DEF TypeInv
<1>2. ASSUME NEW r \in Reviewers, NEW h, h \in Place(Places, Decision), Working(h, Decision),
             reviewer' = [reviewer EXCEPT ![r] = h]
      PROVE  ReviewersOK'
  BY <1>1, <1>2 DEF ReviewersOK
<1>3. ASSUME NEW r \in Reviewers, Decide(r)
      PROVE  ReviewersOK'
  <2>1. PICK e \in Pending : \E d \in Decisions(e.id) : reviewer' = [reviewer EXCEPT ![r] = at("append", d)]
    BY <1>3 DEF Decide
  <2>0. PICK d \in Decisions(e.id) : reviewer' = [reviewer EXCEPT ![r] = at("append", d)]
    BY <2>1
  <2>2. PICK i \in DOMAIN adminLog : e = adminLog[i].entry
    BY PendingIsLogged
  <2>3. e.id \in Nat
    <3>1. adminLog[i] \in Piece(Evaluation \cup Decision)
      BY <2>2 DEF TypeInv, LogsOK
    <3>2. e \in Evaluation \cup Decision
      BY <2>2, <3>1 DEF Piece
    <3>. QED
      BY <3>2 DEF Evaluation, Decision
  <2>4. d \in Decision
    BY <2>3, EntriesAreTyped
  <2>. QED
    BY <1>2, <2>0, <2>4, AtIsPlace
<1>4. ASSUME NEW r \in Reviewers, AppendDecision(r)
      PROVE  ReviewersOK'
  <2>1. PICK h : h = [reviewer[r] EXCEPT !.pc = "publish"]
    OBVIOUS
  <2>2. reviewer[r] \in Place(Places, Decision) /\ Working(reviewer[r], Decision) /\ reviewer[r].pc # "idle"
    BY <1>1, <1>4 DEF ReviewersOK, AppendDecision
  <2>3. h \in Place(Places, Decision) /\ Working(h, Decision)
    BY <2>1, <2>2, MoveIsPlace
  <2>4. reviewer' = [reviewer EXCEPT ![r] = h]
    BY <1>4, <2>1 DEF AppendDecision
  <2>. QED
    BY <1>2, <2>3, <2>4
<1>5. ASSUME NEW r \in Reviewers, reviewer' = [reviewer EXCEPT ![r] = Idle]
      PROVE  ReviewersOK'
  BY <1>2, <1>5, IdleIsPlace
<1>6. ASSUME NEW r \in Reviewers, ReviewerStep(r)
      PROVE  ReviewersOK'
  <2>1. CASE AppendDecisionFails(r) \/ PublishDecision(r)
    BY <2>1, <1>5 DEF AppendDecisionFails, PublishDecision
  <2>. QED
    BY <1>3, <1>4, <1>6, <2>1 DEF ReviewerStep
<1>7. CASE reviewer' = [r \in Reviewers |-> Idle]
  BY <1>7, IdleIsPlace DEF ReviewersOK
<1>8. CASE ShellRestarts \/ PowerFails
  BY <1>7, <1>8 DEF ShellRestarts, PowerFails, ShellGone
<1>9. CASE UNCHANGED reviewer
  BY <1>1, <1>9 DEF ReviewersOK
<1>10. (\E r \in Reviewers : ReviewerStep(r)) \/ ShellRestarts \/ PowerFails \/ UNCHANGED reviewer
  <2>1. ASSUME NEW c \in Conns, ConnStep(c)
        PROVE  UNCHANGED reviewer
    BY <2>1 DEF ConnStep, Evaluate, WriteEntry, WriteEntryFails, SyncEntry, SyncEntryFails, PublishPending, Answer
  <2>2. ASSUME LoggerStep \/ BusDrops \/ AdminAgentRestarts \/ UNCHANGED vars
        PROVE  UNCHANGED reviewer
    BY <2>2 DEF LoggerStep, Subscribe, Receive, Skip, LogDecision, LogDecisionFails, SyncDecision,
                BusDrops, AdminAgentRestarts, vars
  <2>. QED
    BY <2>1, <2>2 DEF Next
<1>. QED
  BY <1>6, <1>8, <1>9, <1>10

LEMMA EmptyTyped == <<>> \in Seq(Decision)
OBVIOUS

\* The decision logger, and the events on their way to it.
LEMMA LoggerTyped ==
  ASSUME TypeInv, [Next]_vars
  PROVE  LoggerOK' /\ queue' \in Seq(Decision)
<1>. DEFINE Places == {"log", "sync"}
<1>1. LoggerOK /\ queue \in Seq(Decision)
  BY DEF TypeInv
<1>2. ASSUME logger' = Idle
      PROVE  LoggerOK'
  BY <1>2, IdleIsPlace DEF LoggerOK
<1>3. ASSUME NEW r \in Reviewers, PublishDecision(r)
      PROVE  queue' \in Seq(Decision) /\ UNCHANGED logger
  <2>1. reviewer[r].entry \in Decision
    BY <1>3 DEF TypeInv, ReviewersOK, Working, PublishDecision
  <2>. QED
    BY <1>1, <1>3, <2>1 DEF PublishDecision
<1>4. CASE Subscribe \/ BusDrops
  <2>1. queue' = <<>> /\ UNCHANGED logger
    BY <1>4 DEF Subscribe, BusDrops
  <2>. QED
    BY <1>1, <2>1, EmptyTyped DEF LoggerOK
<1>5. CASE Receive
  <2>1. Head(queue) \in Decision /\ Tail(queue) \in Seq(Decision)
    BY <1>1, <1>5 DEF Receive
  <2>2. PICK e \in Decision : e = Head(queue)
    BY <2>1
  <2>3. logger' = at("log", e) /\ queue' = Tail(queue)
    BY <1>5, <2>2 DEF Receive
  <2>4. PICK h : h = at("log", e)
    OBVIOUS
  <2>5. h \in Place(Places, Decision) /\ Working(h, Decision) /\ h.pc = "log"
    BY <2>4, AtIsPlace
  <2>. QED
    BY <2>1, <2>3, <2>4, <2>5 DEF LoggerOK
<1>6. CASE LogDecision
  <2>1. PICK h : h = [logger EXCEPT !.pc = "sync"]
    OBVIOUS
  <2>2. h \in Place(Places, Decision) /\ Working(h, Decision) /\ h.pc = "sync"
    <3>1. logger \in Place(Places, Decision) /\ Working(logger, Decision) /\ logger.pc # "idle"
      BY <1>1, <1>6 DEF LoggerOK, LogDecision, MayLog
    <3>. QED
      BY <2>1, <3>1, MoveIsPlace
  <2>. QED
    BY <1>1, <1>6, <2>1, <2>2 DEF LoggerOK, LogDecision, bus
<1>7. CASE Skip \/ LogDecisionFails \/ SyncDecision
  BY <1>1, <1>2, <1>7 DEF Skip, LogDecisionFails, SyncDecision, bus
<1>8. CASE AdminAgentRestarts \/ PowerFails
  <2>1. queue' = <<>> /\ logger' = Idle
    BY <1>8 DEF AdminAgentRestarts, PowerFails, AdminAgentGone
  <2>. QED
    BY <1>2, <2>1, EmptyTyped
<1>9. CASE UNCHANGED <<logger, queue>>
  BY <1>1, <1>9 DEF LoggerOK
<1>10. ASSUME NEW c \in Conns, ConnStep(c)
       PROVE  UNCHANGED <<logger, queue>>
  BY <1>10 DEF ConnStep, Evaluate, WriteEntry, WriteEntryFails, SyncEntry, SyncEntryFails, PublishPending, Answer, bus
<1>11. ASSUME NEW r \in Reviewers, Decide(r) \/ AppendDecision(r) \/ AppendDecisionFails(r)
       PROVE  UNCHANGED <<logger, queue>>
  BY <1>11 DEF Decide, AppendDecision, AppendDecisionFails, bus
<1>12. ASSUME ShellRestarts \/ UNCHANGED vars
       PROVE  UNCHANGED <<logger, queue>>
  BY <1>12 DEF ShellRestarts, vars, bus
<1>13. CASE \E r \in Reviewers : PublishDecision(r)
  BY <1>1, <1>3, <1>13 DEF LoggerOK
<1>. QED
  BY <1>4, <1>5, <1>6, <1>7, <1>8, <1>9, <1>10, <1>11, <1>12, <1>13 DEF Next, ReviewerStep, LoggerStep

\* Whatever the admin agent, the reviewers and the logger hold is an entry of the kind
\* they work on, and the logs are made of such entries (internal/admin, internal/shellui).
THEOREM TypeCorrect == Spec => []TypeInv
<1>1. Init => TypeInv
  BY IdleIsPlace, BoundsAssumption DEF Init, TypeInv, LogsOK, ConnsOK, ReviewersOK, LoggerOK
<1>2. TypeInv /\ [Next]_vars => TypeInv'
  <2>. SUFFICES ASSUME TypeInv, [Next]_vars
                PROVE  TypeInv'
    OBVIOUS
  <2>1. requests' \in Nat
    <3>1. ASSUME NEW c \in Conns, ConnStep(c)
          PROVE  requests' \in Nat
      BY <3>1 DEF TypeInv, ConnStep, Evaluate, WriteEntry, WriteEntryFails, SyncEntry, SyncEntryFails,
                  PublishPending, Answer, history
    <3>2. ASSUME NEW r \in Reviewers, ReviewerStep(r)
          PROVE  requests' \in Nat
      BY <3>2 DEF TypeInv, ReviewerStep, Decide, AppendDecision, AppendDecisionFails, PublishDecision, history
    <3>3. CASE LoggerStep
      BY <3>3 DEF TypeInv, LoggerStep, Subscribe, Receive, Skip, LogDecision, LogDecisionFails, SyncDecision, history
    <3>4. CASE BusDrops \/ AdminAgentRestarts \/ ShellRestarts \/ PowerFails \/ UNCHANGED vars
      BY <3>4 DEF TypeInv, BusDrops, AdminAgentRestarts, ShellRestarts, PowerFails, vars, history
    <3>. QED
      BY <3>1, <3>2, <3>3, <3>4 DEF Next
  <2>. QED
    BY <2>1, LogsTyped, ConnsTyped, ReviewersTyped, LoggerTyped DEF TypeInv
<1>. QED
  BY <1>1, <1>2, PTL DEF Spec

-----------------------------------------------------------------------------
(* Whoever was told of an evaluation finds it on the disk. Inductive with  *)
(* where every request is between its write and its answer: what is synced *)
(* is kept by every failure, what is only written by every one but a loss  *)
(* of power, which no request survives.                                    *)

OnDisk(log, n, e) == \E i \in 1..n : log[i].whole /\ log[i].entry = e

TellsTheTruth(c) ==
  /\ conn[c].pc \in {"publish", "answer"} => OnDisk(adminLog, synced, conn[c].entry)
  /\ conn[c].pc = "sync" => OnDisk(adminLog, Len(adminLog), conn[c].entry)

ToldInv == ToldIsLogged /\ \A c \in Conns : TellsTheTruth(c)

DiskGrows ==
  \A e : /\ OnDisk(adminLog, synced, e) => OnDisk(adminLog, synced, e)'
         /\ OnDisk(adminLog, Len(adminLog), e) => OnDisk(adminLog, Len(adminLog), e)'

LEMMA OnlyPowerCuts ==
  ASSUME TypeInv, [Next]_vars
  PROVE  DiskGrows \/ PowerFails
<1>1. Len(adminLog) \in Nat /\ synced \in 0..Len(adminLog)
  BY DEF TypeInv, LogsOK
<1>2. CASE LogsStay
  BY <1>1, <1>2 DEF LogsStay, DiskGrows, OnDisk
<1>3. ASSUME NEW e, AdminStep(e)
      PROVE  DiskGrows
  BY <1>1, <1>3 DEF AdminStep, GrowsBy, DiskGrows, OnDisk
<1>4. ASSUME NEW e, ShellStep(e)
      PROVE  DiskGrows
  BY <1>4 DEF ShellStep, DiskGrows, OnDisk
<1>. QED
  BY <1>2, <1>3, <1>4, LogSteps, WritesGrow, AppendsGrow

\* What any step makes of a connection.
LEMMA ConnGoes ==
  ASSUME TypeInv, [Next]_vars, NEW c \in Conns
  PROVE  \/ conn'[c] = conn[c]
         \/ conn'[c].pc \in {"idle", "write"}
         \/ WriteEntry(c)
         \/ SyncEntry(c)
         \/ PublishPending(c)
<1>1. conn \in [Conns -> Place({"write", "sync", "publish", "answer"}, Evaluation)]
  BY DEF TypeInv, ConnsOK
<1>2. ASSUME NEW b \in Conns, ConnStep(b), b # c
      PROVE  conn'[c] = conn[c]
  BY <1>1, <1>2 DEF ConnStep, Evaluate, WriteEntry, WriteEntryFails, SyncEntry, SyncEntryFails, PublishPending, Answer
<1>3. CASE Evaluate(c)
  BY <1>1, <1>3 DEF Evaluate, at
<1>4. CASE WriteEntryFails(c) \/ SyncEntryFails(c) \/ Answer(c)
  <2>1. conn'[c] = Idle
    BY <1>1, <1>4 DEF WriteEntryFails, SyncEntryFails, Answer
  <2>. QED
    BY <2>1, IdleIsPlace
<1>5. CASE AdminAgentRestarts \/ PowerFails
  <2>1. conn'[c] = Idle
    BY <1>5 DEF AdminAgentRestarts, PowerFails, AdminAgentGone
  <2>. QED
    BY <2>1, IdleIsPlace
<1>6. ASSUME NEW r \in Reviewers, ReviewerStep(r)
      PROVE  conn' = conn
  BY <1>6 DEF ReviewerStep, Decide, AppendDecision, AppendDecisionFails, PublishDecision
<1>7. ASSUME LoggerStep \/ BusDrops \/ ShellRestarts \/ UNCHANGED vars
      PROVE  conn' = conn
  BY <1>7 DEF LoggerStep, Subscribe, Receive, Skip, LogDecision, LogDecisionFails, SyncDecision,
              BusDrops, ShellRestarts, vars
<1>. QED
  BY <1>2, <1>3, <1>4, <1>5, <1>6, <1>7 DEF Next, ConnStep

\* Who is told of what: only PublishPending and Answer tell anybody.
LEMMA ToldGoes ==
  ASSUME [Next]_vars
  PROVE  \/ told' = told
         \/ \E c \in Conns : conn[c].pc \in {"publish", "answer"} /\ told' = told \cup {conn[c].entry}
<1>1. ASSUME NEW c \in Conns, ConnStep(c)
      PROVE  \/ told' = told
             \/ conn[c].pc \in {"publish", "answer"} /\ told' = told \cup {conn[c].entry}
  BY <1>1 DEF ConnStep, Evaluate, WriteEntry, WriteEntryFails, SyncEntry, SyncEntryFails, PublishPending, Answer, history
<1>2. ASSUME NEW r \in Reviewers, ReviewerStep(r)
      PROVE  told' = told
  BY <1>2 DEF ReviewerStep, Decide, AppendDecision, AppendDecisionFails, PublishDecision, history
<1>3. CASE LoggerStep
  BY <1>3 DEF LoggerStep, Subscribe, Receive, Skip, LogDecision, LogDecisionFails, SyncDecision, history
<1>4. CASE BusDrops \/ AdminAgentRestarts \/ ShellRestarts \/ PowerFails \/ UNCHANGED vars
  BY <1>4 DEF BusDrops, AdminAgentRestarts, ShellRestarts, PowerFails, vars, history
<1>. QED
  BY <1>1, <1>2, <1>3, <1>4 DEF Next

LEMMA ToldStep ==
  ASSUME TypeInv, ToldInv, [Next]_vars
  PROVE  ToldInv'
<1>1. \A e \in told : OnDisk(adminLog, synced, e)
  BY DEF ToldInv, ToldIsLogged, OnDisk
<1>2. \A e \in told' : OnDisk(adminLog, synced, e)
  BY <1>1, ToldGoes DEF ToldInv, TellsTheTruth
<1>3. CASE PowerFails
  <2>1. CutFrom(adminLog, adminLog', synced) /\ synced' = Len(adminLog') /\ synced \in 0..Len(adminLog)
    BY <1>3, PowerCutsLogs DEF PowerFails, TypeInv, LogsOK
  <2>2. \A e : OnDisk(adminLog, synced, e) => OnDisk(adminLog, synced, e)'
    BY <2>1 DEF CutFrom, OnDisk
  <2>3. ToldIsLogged'
    BY <1>2, <2>2 DEF ToldIsLogged, OnDisk
  <2>4. ASSUME NEW c \in Conns
        PROVE  conn'[c].pc = "idle"
    BY <1>3, IdleIsPlace DEF PowerFails, AdminAgentGone
  <2>. QED
    BY <2>3, <2>4 DEF ToldInv, TellsTheTruth
<1>4. CASE DiskGrows
  <2>1. ToldIsLogged'
    BY <1>2, <1>4 DEF ToldIsLogged, DiskGrows, OnDisk
  <2>2. ASSUME NEW c \in Conns
        PROVE  TellsTheTruth(c)'
    <3>1. conn \in [Conns -> Place({"write", "sync", "publish", "answer"}, Evaluation)] /\ TellsTheTruth(c)
      BY DEF TypeInv, ConnsOK, ToldInv
    <3>2. CASE conn'[c] = conn[c]
      BY <1>4, <3>1, <3>2 DEF TellsTheTruth, DiskGrows
    <3>3. CASE conn'[c].pc \in {"idle", "write"}
      BY <3>3 DEF TellsTheTruth
    <3>4. CASE WriteEntry(c)
      <4>1. conn'[c].pc = "sync" /\ conn'[c].entry = conn[c].entry /\ conn[c].entry \in Evaluation \cup Decision
        BY <3>1, <3>4 DEF WriteEntry, Place, TypeInv, ConnsOK, Working
      <4>2. adminLog' = Written(adminLog, conn[c].entry) /\ adminLog \in Seq(Piece(Evaluation \cup Decision))
        BY <3>4 DEF WriteEntry, TypeInv, LogsOK
      <4>3. /\ Len(adminLog') = Len(adminLog) + 1 /\ Len(adminLog) \in Nat
            /\ adminLog'[Len(adminLog) + 1].entry = conn[c].entry /\ adminLog'[Len(adminLog) + 1].whole
        BY <4>1, <4>2, WrittenGrows
      <4>. QED
        BY <4>1, <4>3 DEF TellsTheTruth, OnDisk
    <3>5. CASE SyncEntry(c)
      <4>1. conn[c].pc = "sync" /\ adminLog' = adminLog /\ synced' = Len(adminLog)
        BY <3>5 DEF SyncEntry
      <4>2. conn'[c].pc \in {"publish", "answer"} /\ conn'[c].entry = conn[c].entry
        BY <3>1, <3>5 DEF SyncEntry, AfterLogging, Place
      <4>. QED
        BY <3>1, <4>1, <4>2 DEF TellsTheTruth
    <3>6. CASE PublishPending(c)
      <4>1. conn[c].pc = "publish" /\ adminLog' = adminLog /\ synced' = synced
        BY <3>6 DEF PublishPending, logs
      <4>2. conn'[c].pc = "answer" /\ conn'[c].entry = conn[c].entry
        BY <3>1, <3>6 DEF PublishPending, Place
      <4>. QED
        BY <3>1, <4>1, <4>2 DEF TellsTheTruth
    <3>. QED
      BY <3>2, <3>3, <3>4, <3>5, <3>6, ConnGoes
  <2>. QED
    BY <2>1, <2>2 DEF ToldInv
<1>. QED
  BY <1>3, <1>4, OnlyPowerCuts

\* Whoever was told of an evaluation can rely on all of it being in the admin agent's
\* file, through every failure (logEntry syncs before HandleConn publishes and answers).
THEOREM ToldIsLoggedCorrect == Spec => []ToldIsLogged
<1>1. Init => ToldInv
  BY IdleIsPlace DEF Init, ToldInv, ToldIsLogged, TellsTheTruth
<1>2. TypeInv /\ ToldInv /\ [Next]_vars => ToldInv'
  BY ToldStep
<1>3. ToldInv => ToldIsLogged
  BY DEF ToldInv
<1>. QED
  BY <1>1, <1>2, <1>3, TypeCorrect, PTL DEF Spec

-----------------------------------------------------------------------------
(* No decision is logged twice. Inductive when it counts every piece of a  *)
(* decision, torn ones too: a torn one may be whole but for its newline.   *)

Decided(log, i) == log[i].entry.kind = "decision"

OncePerDecision ==
  \A i, j \in DOMAIN adminLog :
    Decided(adminLog, i) /\ Decided(adminLog, j) /\ adminLog[i].entry.id = adminLog[j].entry.id => i = j

\* What the logger may log is in no piece of the log, if no line of it is spoilt.
LEMMA MayLogIsNew ==
  ASSUME TypeInv, MayLog, NEW i \in DOMAIN adminLog, Decided(adminLog, i)
  PROVE  adminLog[i].entry.id # logger.entry.id
<1>1. adminLog[i] \in Piece(Evaluation \cup Decision)
  BY DEF TypeInv, LogsOK
<1>2. adminLog[i].entry \in Decision
  BY <1>1 DEF Piece, Evaluation, Decided
<1>3. logger.entry \in Decision
  BY DEF TypeInv, LoggerOK, Working, MayLog
<1>4. logger.entry.id \in Nat
  BY <1>3 DEF Decision
<1>5. \A k \in 1..i : Intact(adminLog, k)
  BY DEF MayLog, Decodes, TypeInv, LogsOK
<1>6. adminLog[i].entry \notin Decisions(logger.entry.id)
  BY <1>5 DEF MayLog, AlreadyLogged, Finds
<1>. QED
  BY <1>2, <1>4, <1>6, EntriesAreTyped

LEMMA OnceStep ==
  ASSUME TypeInv, OncePerDecision, [Next]_vars
  PROVE  OncePerDecision'
<1>. DEFINE NewEntry(e) == \A i \in DOMAIN adminLog : Decided(adminLog, i) => adminLog[i].entry.id # e.id
<1>1. adminLog \in Seq(Piece(Evaluation \cup Decision))
  BY DEF TypeInv, LogsOK
<1>2. CASE UNCHANGED adminLog
  BY <1>2 DEF OncePerDecision, Decided
<1>3. ASSUME NEW e, AdminStep(e), e.kind # "decision" \/ NewEntry(e)
      PROVE  OncePerDecision'
  <2>1. GrowsBy(adminLog, adminLog', e) /\ adminLog' \in Seq(Piece(Evaluation \cup Decision))
    BY <1>3 DEF AdminStep
  <2>. SUFFICES ASSUME NEW i \in DOMAIN adminLog', NEW j \in DOMAIN adminLog',
                       Decided(adminLog', i), Decided(adminLog', j),
                       adminLog'[i].entry.id = adminLog'[j].entry.id
                PROVE  i = j
    BY DEF OncePerDecision, Decided
  <2>2. \A k \in DOMAIN adminLog' :
         (k \in DOMAIN adminLog /\ adminLog'[k] = adminLog[k]) \/ (k = Len(adminLog') /\ adminLog'[k].entry = e)
    BY <1>1, <2>1 DEF GrowsBy
  <2>3. CASE i \in DOMAIN adminLog /\ adminLog'[i] = adminLog[i] /\ j \in DOMAIN adminLog /\ adminLog'[j] = adminLog[j]
    BY <2>3 DEF OncePerDecision, Decided
  <2>4. CASE i \in DOMAIN adminLog /\ adminLog'[i] = adminLog[i] /\ adminLog'[j].entry = e
    BY <1>3, <2>4 DEF Decided
  <2>5. CASE j \in DOMAIN adminLog /\ adminLog'[j] = adminLog[j] /\ adminLog'[i].entry = e
    BY <1>3, <2>5 DEF Decided
  <2>. QED
    BY <2>2, <2>3, <2>4, <2>5
<1>4. ASSUME NEW c \in Conns, WriteEntry(c) \/ WriteEntryFails(c)
      PROVE  OncePerDecision'
  <2>1. conn[c].entry.kind # "decision"
    <3>1. conn[c].entry \in Evaluation
      BY <1>4 DEF WriteEntry, WriteEntryFails, TypeInv, ConnsOK, Working
    <3>. QED
      BY <3>1 DEF Evaluation
  <2>. QED
    BY <1>3, <1>4, <2>1, WritesGrow
<1>5. CASE LogDecision \/ LogDecisionFails
  <2>1. NewEntry(logger.entry)
    BY <1>5, MayLogIsNew DEF LogDecision, LogDecisionFails
  <2>. QED
    BY <1>3, <1>5, <2>1, WritesGrow
<1>6. CASE PowerFails
  <2>1. CutFrom(adminLog, adminLog', synced) /\ adminLog' \in Seq(Piece(Evaluation \cup Decision))
    BY <1>6, PowerCutsLogs
  <2>2. \A i \in DOMAIN adminLog' : i \in DOMAIN adminLog /\ adminLog'[i].entry = adminLog[i].entry
    BY <1>1, <2>1 DEF CutFrom, TypeInv, LogsOK
  <2>. QED
    BY <2>2 DEF OncePerDecision, Decided
<1>7. ASSUME NEW r \in Reviewers, AppendDecision(r) \/ AppendDecisionFails(r)
      PROVE  UNCHANGED adminLog
  BY <1>7, AppendsGrow DEF ShellStep
<1>. QED
  BY <1>2, <1>4, <1>5, <1>6, <1>7, LogSteps DEF LogsStay

\* The admin agent's log has one human decision per escalation, whatever fails, and
\* however often it was published (loggedHumanDecisionID under the mutex of the write).
THEOREM LoggedOnceCorrect == Spec => []LoggedOnce
<1>1. Init => OncePerDecision
  BY DEF Init, OncePerDecision
<1>2. TypeInv /\ OncePerDecision /\ [Next]_vars => OncePerDecision'
  BY OnceStep
<1>3. OncePerDecision => LoggedOnce
  BY DEF OncePerDecision, LoggedOnce, Decided
<1>. QED
  BY <1>1, <1>2, <1>3, TypeCorrect, PTL DEF Spec

-----------------------------------------------------------------------------
(* A decision the admin agent hears of was recorded first. Inductive with  *)
(* every place it passes on its way: the reviewer who recorded it, the     *)
(* queue, the logger, and the admin agent's log.                           *)

Recorded == Entries(decisionLog) \cup lost

RecordedInv ==
  /\ \A r \in Reviewers : reviewer[r].pc = "publish" => reviewer[r].entry \in Recorded
  /\ \A i \in DOMAIN queue : queue[i] \in Recorded
  /\ logger.pc # "idle" => logger.entry \in Recorded
  /\ \A e \in Entries(adminLog) : e.kind = "decision" => e \in Recorded

\* What becomes of the entries of a log.
LEMMA EntriesGrow ==
  ASSUME NEW S, NEW log \in Seq(Piece(S)), NEW new \in Seq(Piece(S)), NEW e, GrowsBy(log, new, e)
  PROVE  Entries(log) \subseteq Entries(new) /\ Entries(new) \subseteq Entries(log) \cup {e}
<1>1. \A i \in DOMAIN log : i \in DOMAIN new /\ new[i] = log[i]
  BY DEF GrowsBy
<1>2. \A k \in DOMAIN new : (k \in DOMAIN log /\ new[k] = log[k]) \/ new[k].entry = e
  BY DEF GrowsBy
<1>. QED
  BY <1>1, <1>2 DEF Entries

LEMMA EntriesCut ==
  ASSUME NEW S, NEW log \in Seq(Piece(S)), NEW new \in Seq(Piece(S)), NEW n \in Nat, CutFrom(log, new, n)
  PROVE  Entries(new) \subseteq Entries(log)
<1>1. \A i \in DOMAIN new : i \in DOMAIN log /\ new[i].entry = log[i].entry /\ (new[i].whole => log[i].whole)
  BY DEF CutFrom
<1>. QED
  BY <1>1 DEF Entries

\* What was recorded stays so or is lost, and the one decision that is recorded by a
\* step is that of the reviewer who goes on to publish it.
LEMMA RecordedGrows ==
  ASSUME TypeInv, [Next]_vars
  PROVE  Recorded \subseteq Recorded'
<1>1. decisionLog \in Seq(Piece(Decision))
  BY DEF TypeInv, LogsOK
<1>2. CASE LogsStay
  BY <1>2 DEF LogsStay, Recorded
<1>3. ASSUME NEW e, AdminStep(e)
      PROVE  Recorded \subseteq Recorded'
  BY <1>3 DEF AdminStep, Recorded
<1>4. ASSUME NEW e, ShellStep(e)
      PROVE  Recorded \subseteq Recorded'
  BY <1>1, <1>4, EntriesGrow DEF ShellStep, Recorded
<1>5. CASE PowerFails
  BY <1>5 DEF PowerFails, Recorded
<1>. QED
  BY <1>2, <1>3, <1>4, <1>5, LogSteps, WritesGrow, AppendsGrow

LEMMA ReviewersRecord ==
  ASSUME TypeInv, RecordedInv, [Next]_vars, NEW r \in Reviewers, reviewer'[r].pc = "publish"
  PROVE  reviewer'[r].entry \in Recorded'
<1>1. reviewer \in [Reviewers -> Place({"append", "publish"}, Decision)]
  BY DEF TypeInv, ReviewersOK
<1>2. CASE reviewer'[r] = reviewer[r]
  BY <1>2, RecordedGrows DEF RecordedInv
<1>3. CASE AppendDecision(r)
  <2>1. reviewer'[r].entry = reviewer[r].entry /\ reviewer[r].entry \in Decision
    BY <1>1, <1>3, AppendsGrow DEF AppendDecision, Place
  <2>2. decisionLog' = Written(decisionLog, reviewer[r].entry) /\ decisionLog \in Seq(Piece(Decision))
    BY <1>3 DEF AppendDecision, TypeInv, LogsOK
  <2>3. /\ decisionLog' \in Seq(Piece(Decision)) /\ Len(decisionLog') = Len(decisionLog) + 1
        /\ decisionLog'[Len(decisionLog) + 1].entry = reviewer[r].entry
        /\ decisionLog'[Len(decisionLog) + 1].whole
    BY <2>1, <2>2, WrittenGrows
  <2>4. reviewer[r].entry \in Entries(decisionLog')
    BY <2>2, <2>3 DEF Entries
  <2>. QED
    BY <2>1, <2>4 DEF Recorded
<1>4. ASSUME NEW q \in Reviewers, ReviewerStep(q), q # r
      PROVE  reviewer'[r] = reviewer[r]
  BY <1>1, <1>4 DEF ReviewerStep, Decide, AppendDecision, AppendDecisionFails, PublishDecision
<1>5. CASE Decide(r)
  BY <1>1, <1>5 DEF Decide, at
<1>6. CASE AppendDecisionFails(r) \/ PublishDecision(r)
  <2>1. reviewer'[r] = Idle
    BY <1>1, <1>6 DEF AppendDecisionFails, PublishDecision
  <2>. QED
    BY <2>1, IdleIsPlace
<1>7. CASE ShellRestarts \/ PowerFails
  <2>1. reviewer'[r] = Idle
    BY <1>7 DEF ShellRestarts, PowerFails, ShellGone
  <2>. QED
    BY <2>1, IdleIsPlace
<1>8. ASSUME NEW c \in Conns, ConnStep(c)
      PROVE  reviewer' = reviewer
  BY <1>8 DEF ConnStep, Evaluate, WriteEntry, WriteEntryFails, SyncEntry, SyncEntryFails, PublishPending, Answer
<1>9. ASSUME LoggerStep \/ BusDrops \/ AdminAgentRestarts \/ UNCHANGED vars
      PROVE  reviewer' = reviewer
  BY <1>9 DEF LoggerStep, Subscribe, Receive, Skip, LogDecision, LogDecisionFails, SyncDecision,
              BusDrops, AdminAgentRestarts, vars
<1>. QED
  BY <1>2, <1>3, <1>4, <1>5, <1>6, <1>7, <1>8, <1>9 DEF Next, ReviewerStep

\* The queue and the logger get only what was recorded.
LEMMA LoggerHearsRecorded ==
  ASSUME TypeInv, RecordedInv, [Next]_vars
  PROVE  /\ \A i \in DOMAIN queue' : queue'[i] \in Recorded
         /\ logger'.pc # "idle" => logger'.entry \in Recorded
<1>1. queue \in Seq(Decision) /\ logger \in Place({"log", "sync"}, Decision)
  BY DEF TypeInv, LoggerOK
<1>2. ASSUME NEW r \in Reviewers, PublishDecision(r)
      PROVE  UNCHANGED logger /\ \A i \in DOMAIN queue' : queue'[i] \in Recorded
  <2>1. reviewer[r].entry \in Recorded /\ reviewer[r].entry \in Decision
    BY <1>2 DEF RecordedInv, PublishDecision, TypeInv, ReviewersOK, Working
  <2>2. CASE queue' = Append(queue, reviewer[r].entry)
    <3>1. \A i \in DOMAIN queue' : (i \in DOMAIN queue /\ queue'[i] = queue[i]) \/ queue'[i] = reviewer[r].entry
      BY <1>1, <2>1, <2>2
    <3>. QED
      BY <1>2, <2>1, <3>1 DEF RecordedInv, PublishDecision
  <2>. QED
    BY <1>2, <2>2 DEF RecordedInv, PublishDecision
<1>3. CASE Subscribe \/ BusDrops
  <2>1. queue' = <<>> /\ UNCHANGED logger
    BY <1>3 DEF Subscribe, BusDrops
  <2>. QED
    BY <2>1 DEF RecordedInv
<1>4. CASE Receive
  <2>1. queue # <<>> /\ queue' = Tail(queue) /\ logger' = at("log", Head(queue))
    BY <1>4 DEF Receive
  <2>2. Head(queue) = queue[1] /\ 1 \in DOMAIN queue /\ \A i \in DOMAIN Tail(queue) : i + 1 \in DOMAIN queue /\ Tail(queue)[i] = queue[i + 1]
    BY <1>1, <2>1
  <2>3. logger'.entry = Head(queue)
    BY <2>1 DEF at
  <2>. QED
    BY <2>1, <2>2, <2>3 DEF RecordedInv
<1>5. CASE LogDecision
  <2>1. logger'.entry = logger.entry /\ logger.pc # "idle" /\ UNCHANGED queue
    BY <1>1, <1>5 DEF LogDecision, MayLog, Place, bus
  <2>. QED
    BY <2>1 DEF RecordedInv
<1>6. CASE Skip \/ LogDecisionFails \/ SyncDecision
  <2>1. logger' = Idle /\ UNCHANGED queue
    BY <1>6 DEF Skip, LogDecisionFails, SyncDecision, bus
  <2>. QED
    BY <2>1, IdleIsPlace DEF RecordedInv
<1>7. CASE AdminAgentRestarts \/ PowerFails
  <2>1. logger' = Idle /\ queue' = <<>>
    BY <1>7 DEF AdminAgentRestarts, PowerFails, AdminAgentGone
  <2>. QED
    BY <2>1, IdleIsPlace
<1>8. CASE UNCHANGED <<logger, queue>>
  BY <1>8 DEF RecordedInv
<1>9. ASSUME NEW c \in Conns, ConnStep(c)
      PROVE  UNCHANGED <<logger, queue>>
  BY <1>9 DEF ConnStep, Evaluate, WriteEntry, WriteEntryFails, SyncEntry, SyncEntryFails, PublishPending, Answer, bus
<1>10. ASSUME NEW r \in Reviewers, Decide(r) \/ AppendDecision(r) \/ AppendDecisionFails(r)
       PROVE  UNCHANGED <<logger, queue>>
  BY <1>10 DEF Decide, AppendDecision, AppendDecisionFails, bus
<1>11. ASSUME ShellRestarts \/ UNCHANGED vars
       PROVE  UNCHANGED <<logger, queue>>
  BY <1>11 DEF ShellRestarts, vars, bus
<1>12. CASE \E r \in Reviewers : PublishDecision(r)
  BY <1>2, <1>12 DEF RecordedInv
<1>. QED
  BY <1>3, <1>4, <1>5, <1>6, <1>7, <1>8, <1>9, <1>10, <1>11, <1>12 DEF Next, ReviewerStep, LoggerStep

\* The admin agent logs only decisions it heard of.
LEMMA AdminLogsRecorded ==
  ASSUME TypeInv, RecordedInv, [Next]_vars
  PROVE  \A e \in Entries(adminLog') : e.kind = "decision" => e \in Recorded
<1>1. adminLog \in Seq(Piece(Evaluation \cup Decision))
  BY DEF TypeInv, LogsOK
<1>2. ASSUME NEW f, AdminStep(f), f.kind = "decision" => f \in Recorded
      PROVE  \A e \in Entries(adminLog') : e.kind = "decision" => e \in Recorded
  <2>1. Entries(adminLog') \subseteq Entries(adminLog) \cup {f}
    BY <1>1, <1>2, EntriesGrow DEF AdminStep
  <2>. QED
    BY <1>2, <2>1 DEF RecordedInv
<1>3. ASSUME NEW c \in Conns, WriteEntry(c) \/ WriteEntryFails(c)
      PROVE  \A e \in Entries(adminLog') : e.kind = "decision" => e \in Recorded
  <2>1. conn[c].entry \in Evaluation
    BY <1>3 DEF WriteEntry, WriteEntryFails, TypeInv, ConnsOK, Working
  <2>2. conn[c].entry.kind # "decision"
    BY <2>1 DEF Evaluation
  <2>. QED
    BY <1>2, <1>3, <2>2, WritesGrow
<1>4. CASE LogDecision \/ LogDecisionFails
  <2>1. logger.entry \in Recorded
    BY <1>4 DEF LogDecision, LogDecisionFails, MayLog, RecordedInv
  <2>. QED
    BY <1>2, <1>4, <2>1, WritesGrow
<1>5. CASE PowerFails
  <2>1. synced \in Nat
    BY <1>1 DEF TypeInv, LogsOK
  <2>2. Entries(adminLog') \subseteq Entries(adminLog)
    BY <1>1, <1>5, <2>1, PowerCutsLogs, EntriesCut
  <2>. QED
    BY <2>2 DEF RecordedInv
<1>6. CASE UNCHANGED adminLog
  BY <1>6 DEF RecordedInv
<1>7. ASSUME NEW r \in Reviewers, AppendDecision(r) \/ AppendDecisionFails(r)
      PROVE  UNCHANGED adminLog
  BY <1>7, AppendsGrow DEF ShellStep
<1>. QED
  BY <1>3, <1>4, <1>5, <1>6, <1>7, LogSteps DEF LogsStay

\* A decision that reaches the admin agent or its log was recorded by the shell UI
\* before, unless a loss of power took the record (handleEscalationDecision appends
\* before it publishes).
THEOREM RecordedFirstCorrect == Spec => []RecordedFirst
<1>1. Init => RecordedInv
  BY IdleIsPlace DEF Init, RecordedInv, Entries
<1>2. TypeInv /\ RecordedInv /\ [Next]_vars => RecordedInv'
  <2>. SUFFICES ASSUME TypeInv, RecordedInv, [Next]_vars
                PROVE  RecordedInv'
    OBVIOUS
  <2>1. Recorded \subseteq Recorded'
    BY RecordedGrows
  <2>2. \A r \in Reviewers : reviewer'[r].pc = "publish" => reviewer'[r].entry \in Recorded'
    BY ReviewersRecord
  <2>. QED
    BY <2>1, <2>2, LoggerHearsRecorded, AdminLogsRecorded DEF RecordedInv
<1>3. TypeInv /\ RecordedInv => RecordedFirst
  <2>. SUFFICES ASSUME TypeInv, RecordedInv,
                       NEW d \in ToSet(queue) \cup ({logger.entry} \ {None}) \cup Entries(adminLog),
                       d.kind = "decision"
                PROVE  d \in Recorded
    BY DEF RecordedFirst, Recorded
  <2>1. CASE d \in ToSet(queue)
    BY <2>1 DEF ToSet, RecordedInv
  <2>2. CASE d \in {logger.entry} \ {None}
    BY <2>2 DEF RecordedInv, TypeInv, LoggerOK
  <2>3. CASE d \in Entries(adminLog)
    BY <2>3 DEF RecordedInv
  <2>. QED
    BY <2>1, <2>2, <2>3
<1>. QED
  BY <1>1, <1>2, <1>3, TypeCorrect, PTL DEF Spec

-----------------------------------------------------------------------------
(* How often an escalation is decided. The check and the append are not    *)
(* one step, so every reviewer may pass the check once; none does after    *)
(* the first decision is recorded.                                         *)

DecidedAt(log, id) == {i \in DOMAIN log : log[i].whole /\ log[i].entry.id = id}
Deciding(id) == {r \in Reviewers : reviewer[r].pc = "append" /\ reviewer[r].entry.id = id}

SlackInv ==
  \A id \in Nat : Cardinality(DecidedAt(decisionLog, id)) + Cardinality(Deciding(id)) <= Cardinality(Reviewers)

LEMMA CountsAreNumbers ==
  ASSUME NEW id
  PROVE  /\ Cardinality(Reviewers) \in Nat
         /\ IsFiniteSet(Deciding(id)) /\ Cardinality(Deciding(id)) \in Nat
         /\ Cardinality(Deciding(id)) <= Cardinality(Reviewers)
BY ReviewersAssumption, FS_Subset, FS_CardinalityType DEF Deciding

LEMMA DecidedIsFinite ==
  ASSUME NEW S, NEW log \in Seq(Piece(S)), NEW id
  PROVE  IsFiniteSet(DecidedAt(log, id)) /\ Cardinality(DecidedAt(log, id)) \in Nat
<1>1. DecidedAt(log, id) \subseteq 1..Len(log) /\ 1 \in Int /\ Len(log) \in Int
  BY DEF DecidedAt
<1>2. IsFiniteSet(1..Len(log))
  BY <1>1, FS_Interval
<1>. QED
  BY <1>1, <1>2, FS_Subset, FS_CardinalityType

\* A write adds at most one decision, and only of its own escalation; a cut adds none.
LEMMA DecidedGrows ==
  ASSUME NEW S, NEW log \in Seq(Piece(S)), NEW new \in Seq(Piece(S)), NEW e, GrowsBy(log, new, e), NEW id
  PROVE  /\ Cardinality(DecidedAt(new, id)) <= Cardinality(DecidedAt(log, id)) + 1
         /\ e.id # id => Cardinality(DecidedAt(new, id)) <= Cardinality(DecidedAt(log, id))
<1>. DEFINE Old == DecidedAt(log, id)
<1>1. IsFiniteSet(Old) /\ Cardinality(Old) \in Nat /\ Cardinality(DecidedAt(new, id)) \in Nat
  BY DecidedIsFinite
<1>2. \A k \in DOMAIN new : (k \in DOMAIN log /\ new[k] = log[k]) \/ (k = Len(new) /\ new[k].entry = e)
  BY DEF GrowsBy
<1>3. DecidedAt(new, id) \subseteq Old \cup {Len(new)}
  BY <1>2 DEF DecidedAt
<1>4. IsFiniteSet(Old \cup {Len(new)}) /\ Cardinality(Old \cup {Len(new)}) \in {Cardinality(Old), Cardinality(Old) + 1}
  BY <1>1, FS_AddElement
<1>5. Cardinality(DecidedAt(new, id)) <= Cardinality(Old) + 1
  BY <1>1, <1>3, <1>4, FS_Subset
<1>6. ASSUME e.id # id
      PROVE  Cardinality(DecidedAt(new, id)) <= Cardinality(Old)
  <2>1. DecidedAt(new, id) \subseteq Old
    BY <1>2, <1>6 DEF DecidedAt
  <2>. QED
    BY <1>1, <2>1, FS_Subset
<1>. QED
  BY <1>5, <1>6

LEMMA DecidedCut ==
  ASSUME NEW S, NEW log \in Seq(Piece(S)), NEW new \in Seq(Piece(S)), NEW n \in Nat, CutFrom(log, new, n), NEW id
  PROVE  Cardinality(DecidedAt(new, id)) <= Cardinality(DecidedAt(log, id))
<1>1. \A i \in DOMAIN new : i \in DOMAIN log /\ new[i].entry = log[i].entry /\ (new[i].whole => log[i].whole)
  BY DEF CutFrom
<1>2. DecidedAt(new, id) \subseteq DecidedAt(log, id)
  BY <1>1 DEF DecidedAt
<1>. QED
  BY <1>2, DecidedIsFinite, FS_Subset

\* What any step but Decide and the two appends does to the reviewers.
LEMMA OthersDecideNothing ==
  ASSUME TypeInv, [Next]_vars, NEW id
  PROVE  \/ \E r \in Reviewers : Decide(r) \/ AppendDecision(r) \/ AppendDecisionFails(r)
         \/ Cardinality(Deciding(id)') <= Cardinality(Deciding(id))
<1>1. ASSUME Deciding(id)' \subseteq Deciding(id)
      PROVE  Cardinality(Deciding(id)') <= Cardinality(Deciding(id))
  BY <1>1, CountsAreNumbers, FS_Subset
<1>2. CASE UNCHANGED reviewer
  BY <1>1, <1>2 DEF Deciding
<1>3. ASSUME NEW r \in Reviewers, PublishDecision(r)
      PROVE  Deciding(id)' \subseteq Deciding(id)
  <2>1. reviewer' = [reviewer EXCEPT ![r] = Idle] /\ Idle.pc = "idle" /\ reviewer \in [Reviewers -> Place({"append", "publish"}, Decision)]
    BY <1>3, IdleIsPlace DEF PublishDecision, TypeInv, ReviewersOK
  <2>. QED
    BY <2>1 DEF Deciding
<1>4. CASE ShellRestarts \/ PowerFails
  <2>1. reviewer' = [r \in Reviewers |-> Idle] /\ Idle.pc = "idle"
    BY <1>4, IdleIsPlace DEF ShellRestarts, PowerFails, ShellGone
  <2>2. Deciding(id)' \subseteq Deciding(id)
    BY <2>1 DEF Deciding
  <2>. QED
    BY <1>1, <2>2
<1>5. ASSUME NEW c \in Conns, ConnStep(c)
      PROVE  UNCHANGED reviewer
  BY <1>5 DEF ConnStep, Evaluate, WriteEntry, WriteEntryFails, SyncEntry, SyncEntryFails, PublishPending, Answer
<1>6. ASSUME LoggerStep \/ BusDrops \/ AdminAgentRestarts \/ UNCHANGED vars
      PROVE  UNCHANGED reviewer
  BY <1>6 DEF LoggerStep, Subscribe, Receive, Skip, LogDecision, LogDecisionFails, SyncDecision,
              BusDrops, AdminAgentRestarts, vars
<1>. QED
  BY <1>1, <1>2, <1>3, <1>4, <1>5, <1>6 DEF Next, ReviewerStep

LEMMA SlackStep ==
  ASSUME TypeInv, SlackInv, [Next]_vars
  PROVE  SlackInv'
<1>. SUFFICES ASSUME NEW id \in Nat
              PROVE  (Cardinality(DecidedAt(decisionLog, id)) + Cardinality(Deciding(id)) <= Cardinality(Reviewers))'
  BY DEF SlackInv
<1>1. /\ reviewer \in [Reviewers -> Place({"append", "publish"}, Decision)]
      /\ \A r \in Reviewers : Working(reviewer[r], Decision)
      /\ decisionLog \in Seq(Piece(Decision))
  BY DEF TypeInv, ReviewersOK, LogsOK
<1>2. decisionLog' \in Seq(Piece(Decision)) /\ TypeInv
  BY LogsTyped DEF LogsOK
<1>. DEFINE D == Cardinality(DecidedAt(decisionLog, id))
            A == Cardinality(Deciding(id))
            N == Cardinality(Reviewers)
<1>3. D \in Nat /\ D' \in Nat /\ A \in Nat /\ A' \in Nat /\ N \in Nat /\ A <= N /\ D + A <= N
  <2>1. D \in Nat /\ D' \in Nat
    BY <1>1, <1>2, DecidedIsFinite
  <2>2. A \in Nat /\ N \in Nat /\ A <= N
    BY CountsAreNumbers
  <2>3. Deciding(id)' \subseteq Reviewers
    BY DEF Deciding
  <2>4. A' \in Nat
    BY <2>3, ReviewersAssumption, FS_Subset, FS_CardinalityType
  <2>. QED
    BY <2>1, <2>2, <2>4 DEF SlackInv
<1>4. ASSUME NEW r \in Reviewers, Decide(r)
      PROVE  D' + A' <= N
  <2>1. PICK e \in Pending : \E d \in Decisions(e.id) : reviewer' = [reviewer EXCEPT ![r] = at("append", d)]
    BY <1>4 DEF Decide
  <2>2. PICK d \in Decisions(e.id) : reviewer' = [reviewer EXCEPT ![r] = at("append", d)]
    BY <2>1
  <2>3. d.id = e.id
    BY <2>2 DEF Decisions
  <2>4. UNCHANGED decisionLog
    BY <1>4 DEF Decide, logs
  <2>5. PICK h : h = at("append", d)
    OBVIOUS
  <2>6. h.pc = "append" /\ h.entry = d /\ reviewer' = [reviewer EXCEPT ![r] = h]
    BY <2>2, <2>5 DEF at
  <2>7. CASE d.id # id
    <3>1. Deciding(id)' \subseteq Deciding(id)
      BY <1>1, <2>6, <2>7 DEF Deciding
    <3>2. A' <= A
      BY <3>1, CountsAreNumbers, FS_Subset
    <3>. QED
      BY <1>3, <2>4, <3>2
  <2>8. CASE d.id = id
    <3>1. DecidedAt(decisionLog, id) = {}
      <4>1. id \notin DecidedIDs
        BY <2>3, <2>8, PendingIsLogged
      <4>. SUFFICES ASSUME NEW i \in DecidedAt(decisionLog, id)
                    PROVE  FALSE
        OBVIOUS
      <4>2. i \in DOMAIN decisionLog /\ decisionLog[i].whole /\ decisionLog[i].entry.id = id
        BY DEF DecidedAt
      <4>3. decisionLog[i].entry \in Entries(decisionLog)
        BY <4>2 DEF Entries
      <4>. QED
        BY <4>1, <4>2, <4>3 DEF DecidedIDs
    <3>2. D = 0
      BY <3>1, FS_EmptySet
    <3>3. D' = 0
      BY <2>4, <3>2
    <3>4. Deciding(id)' \subseteq Reviewers
      BY DEF Deciding
    <3>5. A' <= N
      BY <3>4, ReviewersAssumption, FS_Subset
    <3>. QED
      BY <1>3, <3>3, <3>5
  <2>. QED
    BY <2>7, <2>8
<1>5. ASSUME NEW r \in Reviewers, AppendDecision(r) \/ AppendDecisionFails(r)
      PROVE  D' + A' <= N
  <2>. DEFINE e == reviewer[r].entry
  <2>1. GrowsBy(decisionLog, decisionLog', e)
    BY <1>5, AppendsGrow DEF ShellStep
  <2>2. reviewer[r].pc = "append"
    BY <1>5 DEF AppendDecision, AppendDecisionFails
  <2>3. PICK h : h.pc # "append" /\ reviewer' = [reviewer EXCEPT ![r] = h]
    <3>1. CASE AppendDecision(r)
      <4>1. PICK h : h = [reviewer[r] EXCEPT !.pc = "publish"]
        OBVIOUS
      <4>2. h.pc = "publish"
        BY <1>1, <4>1 DEF Place
      <4>. QED
        BY <3>1, <4>1, <4>2 DEF AppendDecision
    <3>2. CASE AppendDecisionFails(r)
      BY <3>2, IdleIsPlace DEF AppendDecisionFails
    <3>. QED
      BY <1>5, <3>1, <3>2
  <2>4. Deciding(id)' \subseteq Deciding(id) \ {r}
    BY <1>1, <2>3 DEF Deciding
  <2>5. IsFiniteSet(Deciding(id)) /\ IsFiniteSet(Deciding(id) \ {r})
    BY CountsAreNumbers, FS_Subset
  <2>6. A' <= Cardinality(Deciding(id) \ {r})
    BY <2>4, <2>5, FS_Subset
  <2>7. CASE e.id = id
    <3>1. r \in Deciding(id)
      BY <2>2, <2>7 DEF Deciding
    <3>2. Cardinality(Deciding(id) \ {r}) = A - 1
      BY <2>5, <3>1, FS_RemoveElement
    <3>3. D' <= D + 1
      BY <1>1, <1>2, <2>1, DecidedGrows
    <3>. QED
      BY <1>3, <2>6, <3>2, <3>3
  <2>8. CASE e.id # id
    <3>1. D' <= D
      BY <1>1, <1>2, <2>1, <2>8, DecidedGrows
    <3>2. A' <= A
      BY <2>4, <2>5, CountsAreNumbers, FS_Subset
    <3>. QED
      BY <1>3, <3>1, <3>2
  <2>. QED
    BY <2>7, <2>8
<1>6. CASE ~\E r \in Reviewers : Decide(r) \/ AppendDecision(r) \/ AppendDecisionFails(r)
  <2>1. A' <= A
    BY <1>6, OthersDecideNothing
  <2>2. D' <= D
    <3>1. CASE UNCHANGED decisionLog
      BY <1>3, <3>1
    <3>2. CASE PowerFails
      <4>1. CutFrom(decisionLog, decisionLog', 0)
        BY <3>2, PowerCutsLogs
      <4>. QED
        BY <1>1, <1>2, <4>1, DecidedCut
    <3>. QED
      BY <1>6, <3>1, <3>2, LogSteps, WritesGrow DEF LogsStay, AdminStep
  <2>. QED
    BY <1>3, <2>1, <2>2
<1>. QED
  BY <1>4, <1>5, <1>6

\* However the reviewers race, an escalation is decided at most once by each of them
\* (handleEscalationDecision looks up what is pending and appends without a lock).
THEOREM DecisionSlackCorrect == Spec => []DecisionSlack
<1>1. Init => SlackInv
  <2>. SUFFICES ASSUME Init, NEW id \in Nat
                PROVE  Cardinality(DecidedAt(decisionLog, id)) + Cardinality(Deciding(id)) <= Cardinality(Reviewers)
    BY DEF SlackInv
  <2>1. DecidedAt(decisionLog, id) = {} /\ Deciding(id) = {}
    BY IdleIsPlace DEF Init, DecidedAt, Deciding
  <2>. QED
    BY <2>1, FS_EmptySet, CountsAreNumbers
<1>2. TypeInv /\ SlackInv /\ [Next]_vars => SlackInv'
  BY SlackStep
<1>3. TypeInv /\ SlackInv => DecisionSlack
  BY DEF SlackInv, DecisionSlack, DecidedAt, Deciding, TypeInv
<1>. QED
  BY <1>1, <1>2, <1>3, TypeCorrect, PTL DEF Spec

=============================================================================

----------------------------- MODULE Escalations -----------------------------
(***************************************************************************)
(* What becomes of an agent's request for more rights. The admin agent     *)
(* (internal/admin) has it evaluated, logs the evaluation and answers; an  *)
(* evaluation that says "escalate" is left to a human, who decides in the  *)
(* shell UI (internal/shellui). The UI reads what is open from the admin   *)
(* agent's log and from its own log of decisions, appends the decision to  *)
(* that and publishes it; the admin agent's decision logger, subscribed    *)
(* over the bus, copies it to the admin agent's log. Two processes, two    *)
(* files, a bus that loses events, and any of it may fail in between.      *)
(***************************************************************************)
EXTENDS JsonLog, FiniteSets, SequencesExt

CONSTANTS
  Conns,        \* goroutines of HandleConn in the admin agent
  Verdicts,     \* what a human can say: approve or deny
  Reviewers,    \* goroutines of handleEscalationDecision in the shell UI
  Logger,       \* the goroutine of RunDecisionLogger
  None,
  Faults,       \* the failures that may happen, a subset of FaultKinds
  QueueSize,    \* events the bus keeps for the decision logger
  MaxRequests,  \* bound: requests of agents
  MaxEscalated, \* bound: how many of the first requests may be escalated
  MaxFaults     \* bound: failures

FaultKinds == {"admin_write", "admin_sync", "shell_write", "bus_drops", "admin_restarts", "shell_restarts",
               "power"}

ASSUME FaultsAssumption == Faults \subseteq FaultKinds
ASSUME LoggerAssumption == Logger \notin Conns /\ None \notin Conns \cup {Logger}
ASSUME ReviewersAssumption == IsFiniteSet(Reviewers)
ASSUME BoundsAssumption == QueueSize \in Nat \ {0} /\ {MaxRequests, MaxEscalated, MaxFaults} \subseteq Nat

VARIABLES
  adminLog,     \* the admin agent's log: evaluations and human decisions
  synced,       \* how much of it has reached the disk
  decisionLog,  \* the shell UI's log of decisions, which is never synced
  logMu,        \* who holds the admin agent's mutex
  conn,         \* Conns -> where HandleConn is, and the entry it works on
  reviewer,     \* Reviewers -> where the handler is, and its decision
  logger,       \* where the decision logger is, and its decision
  connected,    \* is it subscribed?
  queue,        \* the events on their way to it
  requests,     \* history: how many requests came in
  told,         \* history: evaluations somebody was told of
  lost,         \* history: decisions a power failure took from decisionLog
  faults        \* history: how many failures there were

logs    == <<adminLog, synced, decisionLog>>
bus     == <<connected, queue>>
history == <<requests, told, lost, faults>>
vars    == <<logs, logMu, conn, reviewer, logger, bus, history>>

at(pc, entry) == [pc |-> pc, entry |-> entry]
Idle == at("idle", None)

\* What the model makes of a request: approve and deny are "final", and the call
\* may fail or return nothing that can be used.
CallLLM(id) == {"final"} \cup (IF id <= MaxEscalated THEN {"escalate", "error"} ELSE {})

\* Never approve what was not evaluated.
Evaluations(id) ==
  {[kind |-> "evaluation", id |-> id, verdict |-> IF v = "error" THEN "escalate" ELSE v] : v \in CallLLM(id)}

Decisions(id) == {[kind |-> "decision", id |-> id, verdict |-> v] : v \in Verdicts}

Fault(kind) == kind \in Faults /\ faults < MaxFaults /\ faults' = faults + 1

Init ==
  /\ adminLog = <<>> /\ synced = 0 /\ decisionLog = <<>>
  /\ logMu = None
  /\ conn = [c \in Conns |-> Idle]
  /\ reviewer = [r \in Reviewers |-> Idle]
  /\ logger = Idle
  /\ connected = FALSE /\ queue = <<>>
  /\ requests = 0 /\ told = {} /\ lost = {} /\ faults = 0

-----------------------------------------------------------------------------
(* The admin agent answers a request. Write and Sync are one critical      *)
(* section of logEntry; an error of either is answered as such, and        *)
(* nothing is published.                                                   *)

Evaluate(c) ==
  /\ conn[c].pc = "idle" /\ requests < MaxRequests
  /\ requests' = requests + 1
  /\ \E e \in Evaluations(requests') : conn' = [conn EXCEPT ![c] = at("write", e)]
  /\ UNCHANGED <<logs, logMu, reviewer, logger, bus, told, lost, faults>>

WriteEntry(c) ==
  /\ conn[c].pc = "write" /\ logMu = None
  /\ adminLog' = Written(adminLog, conn[c].entry)
  /\ logMu' = c
  /\ conn' = [conn EXCEPT ![c].pc = "sync"]
  /\ UNCHANGED <<synced, decisionLog, reviewer, logger, bus, history>>

WriteEntryFails(c) ==
  /\ conn[c].pc = "write" /\ logMu = None /\ Fault("admin_write")
  /\ adminLog' \in WriteFailed(adminLog, conn[c].entry)
  /\ conn' = [conn EXCEPT ![c] = Idle]
  /\ UNCHANGED <<synced, decisionLog, logMu, reviewer, logger, bus, requests, told, lost>>

AfterLogging(c) == IF conn[c].entry.verdict = "escalate" THEN "publish" ELSE "answer"

SyncEntry(c) ==
  /\ conn[c].pc = "sync"
  /\ synced' = Len(adminLog)
  /\ logMu' = None
  /\ conn' = [conn EXCEPT ![c].pc = AfterLogging(c)]
  /\ UNCHANGED <<adminLog, decisionLog, reviewer, logger, bus, history>>

\* Bug: the result of Sync is not looked at.
SyncUnchecked(c) ==
  /\ conn[c].pc = "sync" /\ Fault("admin_sync")
  /\ logMu' = None
  /\ conn' = [conn EXCEPT ![c].pc = AfterLogging(c)]
  /\ UNCHANGED <<logs, reviewer, logger, bus, requests, told, lost>>

\* What could not be synced now may be by a later Sync.
SyncEntryFails(c) ==
  /\ conn[c].pc = "sync" /\ Fault("admin_sync")
  /\ logMu' = None
  /\ conn' = [conn EXCEPT ![c] = Idle]
  /\ UNCHANGED <<logs, reviewer, logger, bus, requests, told, lost>>

\* publishPending tells the humans, unless the bus is down: that is only logged.
PublishPending(c) ==
  /\ conn[c].pc = "publish"
  /\ told' \in {told, told \cup {conn[c].entry}}
  /\ conn' = [conn EXCEPT ![c].pc = "answer"]
  /\ UNCHANGED <<logs, logMu, reviewer, logger, bus, requests, lost, faults>>

Answer(c) ==
  /\ conn[c].pc = "answer"
  /\ told' = told \cup {conn[c].entry}
  /\ conn' = [conn EXCEPT ![c] = Idle]
  /\ UNCHANGED <<logs, logMu, reviewer, logger, bus, requests, lost, faults>>

-----------------------------------------------------------------------------
(* A human decides in the shell UI.                                        *)

\* Bug: what is decided is looked up in the admin agent's log.
PendingByAdminLog ==
  IF Decodes(adminLog) /\ Decodes(decisionLog)
  THEN {e \in Entries(adminLog) : e.kind = "evaluation" /\ e.verdict = "escalate"
                                  /\ \A d \in Entries(adminLog) : d.kind = "decision" => d.id # e.id}
  ELSE {}

\* The keys of the map that loadHumanDecisions returns.
DecidedIDs == {d.id : d \in Entries(decisionLog)}

\* Evaluations that wait for a human. If either file has a line that cannot be
\* decoded the request fails, which changes nothing.
Pending ==
  IF Decodes(adminLog) /\ Decodes(decisionLog)
  THEN {e \in Entries(adminLog) : e.kind = "evaluation" /\ e.verdict = "escalate"
                                  /\ e.id \notin DecidedIDs}
  ELSE {}

\* No lock is held from here to AppendDecision, nor does any file lock exist.
Decide(r) ==
  /\ reviewer[r].pc = "idle"
  /\ \E e \in Pending : \E d \in Decisions(e.id) : reviewer' = [reviewer EXCEPT ![r] = at("append", d)]
  /\ UNCHANGED <<logs, logMu, conn, logger, bus, history>>

AppendDecision(r) ==
  /\ reviewer[r].pc = "append"
  /\ decisionLog' = Written(decisionLog, reviewer[r].entry)
  /\ reviewer' = [reviewer EXCEPT ![r].pc = "publish"]
  /\ UNCHANGED <<adminLog, synced, logMu, conn, logger, bus, history>>

\* Bug: the decision is published although it could not be recorded.
AppendUnchecked(r) ==
  /\ reviewer[r].pc = "append" /\ Fault("shell_write")
  /\ decisionLog' \in WriteFailed(decisionLog, reviewer[r].entry)
  /\ reviewer' = [reviewer EXCEPT ![r].pc = "publish"]
  /\ UNCHANGED <<adminLog, synced, logMu, conn, logger, bus, requests, told, lost>>

AppendDecisionFails(r) ==
  /\ reviewer[r].pc = "append" /\ Fault("shell_write")
  /\ decisionLog' \in WriteFailed(decisionLog, reviewer[r].entry)
  /\ reviewer' = [reviewer EXCEPT ![r] = Idle]
  /\ UNCHANGED <<adminLog, synced, logMu, conn, logger, bus, requests, told, lost>>

\* publishBusEvent ignores every error: the event is lost if the bus is down, if it
\* finds the queue full or if nobody is subscribed.
PublishDecision(r) ==
  /\ reviewer[r].pc = "publish"
  /\ \/ connected /\ Len(queue) < QueueSize /\ queue' = Append(queue, reviewer[r].entry)
     \/ UNCHANGED queue
  /\ reviewer' = [reviewer EXCEPT ![r] = Idle]
  /\ UNCHANGED <<logs, logMu, conn, logger, connected, history>>

-----------------------------------------------------------------------------
(* The decision logger of the admin agent.                                 *)

Subscribe ==
  /\ ~connected /\ logger.pc = "idle"
  /\ connected' = TRUE /\ queue' = <<>>
  /\ UNCHANGED <<logs, logMu, conn, reviewer, logger, history>>

Receive ==
  /\ connected /\ logger.pc = "idle" /\ queue # <<>>
  /\ logger' = at("log", Head(queue))
  /\ queue' = Tail(queue)
  /\ UNCHANGED <<logs, logMu, conn, reviewer, connected, history>>

\* loggedHumanDecisionID, which runs in the critical section of the write.
AlreadyLogged(id) == Finds(adminLog, Decisions(id))

\* A decision that is found is a replay, and one that is not found in a log with a
\* line that cannot be decoded is an error. Either way it is not logged.
Skip ==
  /\ logger.pc = "log" /\ logMu = None
  /\ AlreadyLogged(logger.entry.id) \/ ~Decodes(adminLog)
  /\ logger' = Idle
  /\ UNCHANGED <<logs, logMu, conn, reviewer, bus, history>>

MayLog == logger.pc = "log" /\ logMu = None /\ ~AlreadyLogged(logger.entry.id) /\ Decodes(adminLog)

LogDecision ==
  /\ MayLog
  /\ adminLog' = Written(adminLog, logger.entry)
  /\ logMu' = Logger
  /\ logger' = [logger EXCEPT !.pc = "sync"]
  /\ UNCHANGED <<synced, decisionLog, conn, reviewer, bus, history>>

LogDecisionFails ==
  /\ MayLog /\ Fault("admin_write")
  /\ adminLog' \in WriteFailed(adminLog, logger.entry)
  /\ logger' = Idle
  /\ UNCHANGED <<synced, decisionLog, logMu, conn, reviewer, bus, requests, told, lost>>

SyncDecision ==
  /\ logger.pc = "sync"
  /\ \/ synced' = Len(adminLog) /\ UNCHANGED faults
     \/ Fault("admin_sync") /\ UNCHANGED synced
  /\ logMu' = None
  /\ logger' = Idle
  /\ UNCHANGED <<adminLog, decisionLog, conn, reviewer, bus, requests, told, lost>>

-----------------------------------------------------------------------------
(* Failures of whole processes.                                            *)

\* The bus restarts or drops the connection. The logger finds out when it comes
\* back for the next event.
BusDrops ==
  /\ connected /\ Fault("bus_drops")
  /\ connected' = FALSE /\ queue' = <<>>
  /\ UNCHANGED <<logs, logMu, conn, reviewer, logger, requests, told, lost>>

AdminAgentGone ==
  /\ logMu' = None
  /\ conn' = [c \in Conns |-> Idle]
  /\ logger' = Idle
  /\ connected' = FALSE /\ queue' = <<>>

ShellGone == reviewer' = [r \in Reviewers |-> Idle]

\* What was written survives the process, synced or not.
AdminAgentRestarts ==
  /\ Fault("admin_restarts") /\ AdminAgentGone
  /\ UNCHANGED <<logs, reviewer, requests, told, lost>>

ShellRestarts ==
  /\ Fault("shell_restarts") /\ ShellGone
  /\ UNCHANGED <<logs, logMu, conn, logger, bus, requests, told, lost>>

PowerFails ==
  /\ Fault("power") /\ AdminAgentGone /\ ShellGone
  /\ adminLog' \in AfterPowerFailure(adminLog, synced)
  /\ synced' = Len(adminLog')
  /\ decisionLog' \in AfterPowerFailure(decisionLog, 0)
  /\ lost' = lost \cup (Entries(decisionLog) \ Entries(decisionLog'))
  /\ UNCHANGED <<requests, told>>

-----------------------------------------------------------------------------
ConnStep(c) ==
  \/ Evaluate(c)
  \/ WriteEntry(c) \/ WriteEntryFails(c)
  \/ SyncEntry(c) \/ SyncEntryFails(c)
  \/ PublishPending(c) \/ Answer(c)

ReviewerStep(r) ==
  \/ Decide(r) \/ AppendDecision(r) \/ AppendDecisionFails(r) \/ PublishDecision(r)

LoggerStep ==
  Subscribe \/ Receive \/ Skip \/ LogDecision \/ LogDecisionFails \/ SyncDecision

Next ==
  \/ \E c \in Conns : ConnStep(c)
  \/ \E r \in Reviewers : ReviewerStep(r)
  \/ LoggerStep
  \/ BusDrops \/ AdminAgentRestarts \/ ShellRestarts \/ PowerFails

Spec == Init /\ [][Next]_vars

-----------------------------------------------------------------------------
(* Properties.                                                             *)

\* Whoever was told of an evaluation, the agent by the answer or the humans by the
\* pending event, can rely on all of it being in the file, through every failure up
\* to a loss of power. (A torn line before it may still spoil its line.)
ToldIsLogged ==
  \A e \in told : \E i \in 1..synced : adminLog[i].whole /\ adminLog[i].entry = e

\* The admin agent's log has one human decision per escalation, however often one
\* was published, by however many reviewers, and through restarts and torn lines.
LoggedOnce ==
  \A i, j \in DOMAIN adminLog :
    (/\ adminLog[i].whole /\ adminLog[i].entry.kind = "decision"
     /\ adminLog[j].whole /\ adminLog[j].entry.kind = "decision"
     /\ adminLog[i].entry.id = adminLog[j].entry.id) => i = j

\* A decision that is on its way to the admin agent or in its log was recorded by
\* the shell UI before, unless a power failure took that record: nothing syncs it.
RecordedFirst ==
  LET known == ToSet(queue) \cup ({logger.entry} \ {None}) \cup Entries(adminLog)
  IN  \A d \in known : d.kind = "decision" => d \in Entries(decisionLog) \cup lost

\* Check-then-act without a lock: two reviewers may decide the same escalation, and
\* even differently, but there are never more decisions than reviewers.
DecisionSlack ==
  \A id \in 1..requests :
    Cardinality({i \in DOMAIN decisionLog : decisionLog[i].whole /\ decisionLog[i].entry.id = id})
      + Cardinality({r \in Reviewers : reviewer[r].pc = "append" /\ reviewer[r].entry.id = id})
      <= Cardinality(Reviewers)

=============================================================================

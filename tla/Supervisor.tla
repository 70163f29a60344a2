----------------------------- MODULE Supervisor -----------------------------
(***************************************************************************)
(* The agent supervisor daemon (internal/supervisor, cmd/agent-supervisor) *)
(* with every goroutine it runs: one per connection, each serving one      *)
(* request (HandleConn), and the lease expiry loop. They share the lease   *)
(* store, whose methods are atomic one by one (it has a mutex), and the    *)
(* worker id counter (an atomic); everything a handler remembers between   *)
(* two such calls is in its own `job'. An action of this module is one     *)
(* critical section or one remote call of a handler.                       *)
(*                                                                         *)
(* The isolation service is seen through its socket: it hands out agent    *)
(* uids in increasing order and kills the agent it is told to kill. Remote *)
(* calls may go wrong in the ways listed in Faults.                        *)
(*                                                                         *)
(* A request the code answers with an error before it touched any shared   *)
(* state changes nothing, so it is a stuttering step and not an action.    *)
(***************************************************************************)
EXTENDS SupervisorPolicy, Functions

CONSTANTS
  Handlers,        \* goroutines that serve requests (bounds the concurrency)
  Loop,            \* the goroutine of StartExpiryLoop
  Uids,            \* requesters, by the kernel-verified uid of their socket
  Sessions,        \* session ids requesters name (never the empty string)
  EnsureRequests,  \* the ensure_worker requests clients may send
  EndRequests,     \* who may send release_worker and terminate_worker requests
  None,            \* "not set" in a job
  Faults,          \* what may go wrong, a subset of FaultKinds
  BudgetLimit,     \* the largest maxWorkers of any grant, when all have one
  MaxWorkerID,     \* bound: no ensure_worker once this many ids are or may be used
  MaxUID,          \* schema.AgentUIDMax - 1: the last uid isolation hands out
  MaxClock         \* bound: the last instant

FaultKinds == {"spawn_fails", "reply_lost", "kill_fails", "bus_down",
               "crash", "iso_restart", "agent_exits"}

EnsureRequest == [peer : Uids, session : Sessions, profile : STRING, seconds : Int]
EndRequest    == [peer : Uids, session : Sessions]

ASSUME ProcAssumption == Loop \notin Handlers /\ IsFiniteSet(Handlers)
ASSUME RequestAssumption ==
  /\ \A r \in EnsureRequests : r \in EnsureRequest
  /\ \A r \in EndRequests : r \in EndRequest
ASSUME NoneAssumption == None \notin Uids \cup Sessions \cup LeaseStates \cup STRING
ASSUME FaultAssumption == Faults \subseteq FaultKinds
ASSUME BoundAssumption ==
  /\ BudgetLimit \in Nat \ {0}
  /\ MaxWorkerID \in Nat
  /\ MaxUID \in Nat
  /\ MaxClock \in Nat

Procs == Handlers \cup {Loop}

VARIABLES
  leases,        \* WorkerLeaseStore.leases: worker id -> lease
  nextWorkerID,  \* Service.nextWorkerID: the last worker id issued
  pc,            \* where each goroutine is
  job,           \* what each goroutine remembers
  published,     \* lifecycle events on the bus since the supervisor started
  agents,        \* isolation: live agent uid -> the AGORA_WORKER_ID it runs with
  nextUID,       \* isolation: the next uid it will hand out
  clock          \* the wall clock, in seconds

store == <<leases, nextWorkerID>>
iso   == <<agents, nextUID>>
vars  == <<leases, nextWorkerID, pc, job, published, agents, nextUID, clock>>

-----------------------------------------------------------------------------
(* Types *)

Topics == {"spawned", "reused", "terminated"}

\* The steps of HandleEnsureWorker, of release and terminate, and of the loop.
EnsureSteps == {"snapshot", "choose", "get", "budget", "spawn", "add"}
EndSteps    == {"release", "terminate", "refetch", "kill"}
Steps       == {"idle", "sweep", "publish"} \cup EnsureSteps \cup EndSteps

Lease == [uid : Nat, profile : DOMAIN ProfileOf, session : Sessions, requester : Uids,
          expires : Nat \cup {NoExpiry}, state : LeaseStates]

Event == [topic : Topics, worker : Nat, state : LeaseStates]

\* peer, session, profile, expires: from the request. cands: the candidates of
\* the reuse loop, or the expired workers the loop has still to clean up.
\* worker, uid: the lease at hand. topic, state: the event being published.
Job == [peer : Uids \cup {None}, session : Sessions \cup {None},
        profile : DOMAIN ProfileOf \cup {None}, expires : Nat \cup {NoExpiry},
        cands : SUBSET Nat, worker : Nat, uid : Nat,
        topic : Topics \cup {None}, state : LeaseStates \cup {None}]

NoJob == [peer |-> None, session |-> None, profile |-> None, expires |-> NoExpiry,
          cands |-> {}, worker |-> 0, uid |-> 0, topic |-> None, state |-> None]

TypeOK ==
  /\ nextWorkerID \in Nat
  /\ DOMAIN leases \subseteq 1..nextWorkerID
  /\ leases \in [DOMAIN leases -> Lease]
  /\ pc \in [Procs -> Steps]
  /\ job \in [Procs -> Job]
  /\ published \subseteq Event
  /\ nextUID \in Nat \ {0}
  /\ DOMAIN agents \subseteq 1..(nextUID - 1)
  /\ agents \in [DOMAIN agents -> Nat]
  /\ clock \in Nat

Init ==
  /\ leases = [w \in {} |-> {}]
  /\ nextWorkerID = 0
  /\ pc = [p \in Procs |-> "idle"]
  /\ job = [p \in Procs |-> NoJob]
  /\ published = {}
  /\ agents = [u \in {} |-> 0]
  /\ nextUID = 1
  /\ clock = 0

-----------------------------------------------------------------------------
(* Moving a goroutine along *)

put(f, key, value) == [x \in DOMAIN f \cup {key} |-> IF x = key THEN value ELSE f[x]]

At(p, step) == pc[p] = step

Goto(p, step) == pc' = [pc EXCEPT ![p] = step]

\* The handler answers its client and its connection is closed.
Done(p) ==
  /\ Goto(p, "idle")
  /\ job' = [job EXCEPT ![p] = NoJob]

-----------------------------------------------------------------------------
(* HandleEnsureWorker *)

\* Handlers that may still have a worker id issued.
Undecided == {t \in Handlers : pc[t] \in {"snapshot", "choose", "budget"}}

\* A request that passes validation, the grant and the lease-length check. (The
\* second guard is the bound of the instances, not the code's.)
EnsureWorker(t, r) ==
  /\ At(t, "idle")
  /\ nextWorkerID + Cardinality(Undecided) < MaxWorkerID
  /\ r.profile \in DOMAIN ProfileOf
  /\ AllowedToRequest(r.peer, r.profile)
  /\ LeaseAccepted(r.peer, r.profile, r.seconds)
  /\ Goto(t, "snapshot")
  /\ job' = [job EXCEPT ![t] =
        [NoJob EXCEPT !.peer = r.peer, !.session = r.session, !.profile = r.profile,
                      !.expires = LeaseExpiry(clock, r.peer, r.profile, r.seconds)]]
  /\ UNCHANGED <<store, published, iso, clock>>

\* reuseCandidates copies the leases out of the store; of the copies the loop
\* can only pick those for which every check but the one of the time holds.
Snapshot(t) ==
  /\ At(t, "snapshot")
  /\ Goto(t, "choose")
  /\ job' = [job EXCEPT ![t].cands =
        {w \in DOMAIN leases :
           /\ IsCandidate(leases[w], job[t].session, job[t].profile)
           /\ CanManageLease(job[t].peer, leases[w])
           /\ Reusable(leases[w], job[t].session, job[t].profile)}]
  /\ UNCHANGED <<store, published, iso, clock>>

\* CanReuse accepts the copy: the time is read now, the rest is the copy's.
Choose(t) ==
  /\ At(t, "choose")
  /\ \E w \in job[t].cands :
       /\ ~Overdue(leases[w], clock)
       /\ job' = [job EXCEPT ![t].worker = w, ![t].cands = {}]
  /\ Goto(t, "get")
  /\ UNCHANGED <<store, published, iso, clock>>

ChooseNone(t) ==
  /\ At(t, "choose")
  /\ \A w \in job[t].cands : Overdue(leases[w], clock)
  /\ job' = [job EXCEPT ![t].cands = {}]
  /\ Goto(t, "budget")
  /\ UNCHANGED <<store, published, iso, clock>>

\* store.Get reads the lease again, whatever its state has become.
GetReused(t) ==
  /\ At(t, "get")
  /\ job[t].worker \in DOMAIN leases
  /\ job' = [job EXCEPT ![t].topic = "reused", ![t].state = leases[job[t].worker].state]
  /\ Goto(t, "publish")
  /\ UNCHANGED <<store, published, iso, clock>>

\* CountBySession: the running leases of a session, whoever requested them.
RunningIn(session) ==
  {w \in DOMAIN leases : leases[w].session = session /\ leases[w].state = "running"}

\* Bug: an off-by-one in the limit.
BudgetOffByOne(peer, session) ==
  GrantOf[peer].maxWorkers > 0 => Cardinality(RunningIn(session)) <= GrantOf[peer].maxWorkers

WithinBudget(peer, session) ==
  GrantOf[peer].maxWorkers > 0 => Cardinality(RunningIn(session)) < GrantOf[peer].maxWorkers

\* Bug: the id is the number of leases plus one, not a counter of its own.
CheckBudgetBySize(t) ==
  /\ At(t, "budget")
  /\ WithinBudget(job[t].peer, job[t].session)
  /\ nextWorkerID' = nextWorkerID + 1
  /\ job' = [job EXCEPT ![t].worker = Cardinality(DOMAIN leases) + 1]
  /\ Goto(t, "spawn")
  /\ UNCHANGED <<leases, published, iso, clock>>

\* CheckBudget passes and nextWorkerID.Add(1) issues the id.
CheckBudget(t) ==
  /\ At(t, "budget")
  /\ WithinBudget(job[t].peer, job[t].session)
  /\ nextWorkerID' = nextWorkerID + 1
  /\ job' = [job EXCEPT ![t].worker = nextWorkerID + 1]
  /\ Goto(t, "spawn")
  /\ UNCHANGED <<leases, published, iso, clock>>

OverBudget(t) ==
  /\ At(t, "budget")
  /\ ~WithinBudget(job[t].peer, job[t].session)
  /\ Done(t)
  /\ UNCHANGED <<store, published, iso, clock>>

\* Bug: the uid is not taken out of the pool.
SpawnSameUID(t) ==
  /\ At(t, "spawn")
  /\ nextUID <= MaxUID
  /\ agents' = put(agents, nextUID, job[t].worker)
  /\ job' = [job EXCEPT ![t].uid = nextUID]
  /\ Goto(t, "add")
  /\ UNCHANGED <<store, published, nextUID, clock>>

\* The isolation service creates the agent and its reply arrives.
Spawn(t) ==
  /\ At(t, "spawn")
  /\ nextUID <= MaxUID
  /\ agents' = put(agents, nextUID, job[t].worker)
  /\ nextUID' = nextUID + 1
  /\ job' = [job EXCEPT ![t].uid = nextUID]
  /\ Goto(t, "add")
  /\ UNCHANGED <<store, published, clock>>

\* It refuses (its uid pool is empty) or fails, before or after a uid is taken.
SpawnFails(t) ==
  /\ At(t, "spawn")
  /\ nextUID > MaxUID \/ "spawn_fails" \in Faults
  /\ \/ UNCHANGED nextUID
     \/ nextUID <= MaxUID /\ nextUID' = nextUID + 1
  /\ Done(t)
  /\ UNCHANGED <<store, published, agents, clock>>

\* The agent is created but the client never decodes the reply.
SpawnReplyLost(t) ==
  /\ At(t, "spawn")
  /\ nextUID <= MaxUID
  /\ "reply_lost" \in Faults
  /\ agents' = put(agents, nextUID, job[t].worker)
  /\ nextUID' = nextUID + 1
  /\ Done(t)
  /\ UNCHANGED <<store, published, clock>>

\* store.Add. Its error branch, which terminates the agent again, needs a
\* worker id that is in the store already: FreshWorkerID says there is none.
Add(t) ==
  /\ At(t, "add")
  /\ leases' = put(leases, job[t].worker,
        [uid |-> job[t].uid, profile |-> job[t].profile, session |-> job[t].session,
         requester |-> job[t].peer, expires |-> job[t].expires, state |-> "running"])
  /\ job' = [job EXCEPT ![t].topic = "spawned", ![t].state = "running"]
  /\ Goto(t, "publish")
  /\ UNCHANGED <<nextWorkerID, published, iso, clock>>

-----------------------------------------------------------------------------
(* HandleReleaseWorker and HandleTerminateWorker *)

\* Bug: the agent is killed without releasing its lease.
ReleaseWithoutStore(t, r, w) ==
  /\ At(t, "idle")
  /\ leases[w].session = r.session
  /\ CanManageLease(r.peer, leases[w])
  /\ job' = [job EXCEPT ![t] = [NoJob EXCEPT !.peer = r.peer, !.session = r.session,
                                            !.worker = w, !.uid = leases[w].uid]]
  /\ Goto(t, "refetch")
  /\ UNCHANGED <<store, published, iso, clock>>

\* store.Get and the checks on the copy it returns.
ReleaseWorker(t, r, w) ==
  /\ At(t, "idle")
  /\ leases[w].session = r.session
  /\ CanManageLease(r.peer, leases[w])
  /\ job' = [job EXCEPT ![t] = [NoJob EXCEPT !.peer = r.peer, !.session = r.session,
                                            !.worker = w, !.uid = leases[w].uid]]
  /\ Goto(t, "release")
  /\ UNCHANGED <<store, published, iso, clock>>

\* Bug: the owner is not checked.
TerminateByAnyone(t, r, w) ==
  /\ At(t, "idle")
  /\ job' = [job EXCEPT ![t] = [NoJob EXCEPT !.peer = r.peer,
                                            !.worker = w, !.uid = leases[w].uid]]
  /\ Goto(t, "terminate")
  /\ UNCHANGED <<store, published, iso, clock>>

\* The session the caller names is not looked at.
TerminateWorker(t, r, w) ==
  /\ At(t, "idle")
  /\ CanManageLease(r.peer, leases[w])
  /\ job' = [job EXCEPT ![t] = [NoJob EXCEPT !.peer = r.peer,
                                            !.worker = w, !.uid = leases[w].uid]]
  /\ Goto(t, "terminate")
  /\ UNCHANGED <<store, published, iso, clock>>

EndState == [release |-> "released", terminate |-> "terminated"]

\* store.UpdateState: reads, checks and writes under the store's lock.
UpdateState(t) ==
  /\ pc[t] \in DOMAIN EndState
  /\ TransitionAllowed(leases[job[t].worker].state, EndState[pc[t]])
  /\ leases' = [leases EXCEPT ![job[t].worker].state = EndState[pc[t]]]
  /\ Goto(t, "refetch")
  /\ UNCHANGED <<nextWorkerID, job, published, iso, clock>>

\* The lease has ended already: an error is the answer.
UpdateRefused(t) ==
  /\ pc[t] \in DOMAIN EndState
  /\ ~TransitionAllowed(leases[job[t].worker].state, EndState[pc[t]])
  /\ Done(t)
  /\ UNCHANGED <<store, published, iso, clock>>

\* Bug: the event carries the copy read before the state changed.
StaleEvent(p) ==
  /\ At(p, "refetch")
  /\ job' = [job EXCEPT ![p].topic = "terminated", ![p].state = "running"]
  /\ Goto(p, "publish")
  /\ UNCHANGED <<store, published, iso, clock>>

\* The lease is read again for the event.
Refetch(p) ==
  /\ At(p, "refetch")
  /\ job' = [job EXCEPT ![p].topic = "terminated", ![p].state = leases[job[p].worker].state]
  /\ Goto(p, "publish")
  /\ UNCHANGED <<store, published, iso, clock>>

\* BusClient.Publish; its errors are only logged. A "terminated" event is
\* followed by the call that kills the agent, the others by the reply.
Publish(p) ==
  /\ At(p, "publish")
  /\ \/ published' = published \cup
          {[topic |-> job[p].topic, worker |-> job[p].worker, state |-> job[p].state]}
     \/ "bus_down" \in Faults /\ UNCHANGED published
  /\ IF job[p].topic = "terminated" THEN Goto(p, "kill") /\ UNCHANGED job ELSE Done(p)
  /\ UNCHANGED <<store, iso, clock>>

\* Bug: the loop cleans up only one of the leases it expired.
AfterFirstKill(p) == Done(p)

\* Back to the client, or to the next expired lease.
AfterKill(p) ==
  IF p = Loop /\ job[p].cands # {} THEN Goto(p, "sweep") /\ UNCHANGED job ELSE Done(p)

\* IsolationClient.Terminate: removes the agent, or reports that it has no such
\* agent; the caller only logs the error.
Kill(p) ==
  /\ At(p, "kill")
  /\ agents' = Restrict(agents, DOMAIN agents \ {job[p].uid})
  /\ AfterKill(p)
  /\ UNCHANGED <<store, published, nextUID, clock>>

\* The call does not get through, or userdel fails: the agent stays.
KillFails(p) ==
  /\ At(p, "kill")
  /\ "kill_fails" \in Faults
  /\ AfterKill(p)
  /\ UNCHANGED <<store, published, iso, clock>>

-----------------------------------------------------------------------------
(* The expiry loop *)

\* Bug: every sweep compares with the time at which the loop was started.
ExpireByStart ==
  /\ At(Loop, "idle")
  /\ leases' = [w \in DOMAIN leases |->
        IF Overdue(leases[w], 0) /\ leases[w].state = "running"
        THEN [leases[w] EXCEPT !.state = "expired"] ELSE leases[w]]
  /\ UNCHANGED <<nextWorkerID, pc, job, published, iso, clock>>

\* A tick: the store marks every overdue running lease under its lock. (A tick
\* that was delayed carries an older time and only expires fewer leases.)
ExpireLeases ==
  LET expired == {w \in DOMAIN leases : leases[w].state = "running" /\ Overdue(leases[w], clock)}
  IN  /\ At(Loop, "idle")
      /\ leases' = [w \in DOMAIN leases |->
            IF w \in expired THEN [leases[w] EXCEPT !.state = "expired"] ELSE leases[w]]
      /\ job' = [job EXCEPT ![Loop].cands = expired]
      /\ IF expired = {} THEN UNCHANGED pc ELSE Goto(Loop, "sweep")
      /\ UNCHANGED <<nextWorkerID, published, iso, clock>>

\* The next expired worker, in any order: the store listed them from a map.
SweepNext ==
  /\ At(Loop, "sweep")
  /\ \E w \in job[Loop].cands :
       job' = [job EXCEPT ![Loop].cands = @ \ {w}, ![Loop].worker = w,
                          ![Loop].uid = leases[w].uid]
  /\ Goto(Loop, "refetch")
  /\ UNCHANGED <<store, published, iso, clock>>

-----------------------------------------------------------------------------
(* Time and what goes wrong around the supervisor *)

Tick ==
  /\ clock < MaxClock
  /\ clock' = clock + 1
  /\ UNCHANGED <<store, pc, job, published, iso>>

\* The daemon dies and is started again: NewWorkerLeaseStore and a new Service.
\* Nothing reads the isolation service's list of agents.
Crash ==
  /\ "crash" \in Faults
  /\ leases' = [w \in {} |-> {}]
  /\ nextWorkerID' = 0
  /\ pc' = [p \in Procs |-> "idle"]
  /\ job' = [p \in Procs |-> NoJob]
  /\ published' = {}
  /\ UNCHANGED <<iso, clock>>

\* The isolation service restarts: RecoverAgents adopts the agents that live
\* and goes on numbering just above them.
IsolationRestart ==
  /\ "iso_restart" \in Faults
  /\ nextUID' \in {n \in 1..nextUID :
                     /\ DOMAIN agents \subseteq 1..(n - 1)
                     /\ n = 1 \/ n - 1 \in DOMAIN agents}
  /\ UNCHANGED <<store, pc, job, published, agents, clock>>

\* An agent asks the isolation service to terminate itself, as it may.
AgentExits ==
  /\ "agent_exits" \in Faults
  /\ \E u \in DOMAIN agents : agents' = Restrict(agents, DOMAIN agents \ {u})
  /\ UNCHANGED <<store, pc, job, published, nextUID, clock>>

-----------------------------------------------------------------------------

\* Everything a goroutine does on its own once it has work.
Step(p) ==
  \/ Snapshot(p) \/ Choose(p) \/ ChooseNone(p) \/ GetReused(p)
  \/ CheckBudget(p) \/ OverBudget(p)
  \/ Spawn(p) \/ SpawnFails(p) \/ SpawnReplyLost(p) \/ Add(p)
  \/ UpdateState(p) \/ UpdateRefused(p)
  \/ Refetch(p) \/ Publish(p) \/ Kill(p) \/ KillFails(p)

Request(t) ==
  \/ \E r \in EnsureRequests : EnsureWorker(t, r)
  \/ \E r \in EndRequests, w \in DOMAIN leases : ReleaseWorker(t, r, w)
  \/ \E r \in EndRequests, w \in DOMAIN leases : TerminateWorker(t, r, w)

Next ==
  \/ \E t \in Handlers : Request(t)
  \/ \E p \in Procs : Step(p)
  \/ ExpireLeases
  \/ SweepNext
  \/ Tick
  \/ Crash
  \/ IsolationRestart
  \/ AgentExits

Spec == Init /\ [][Next]_vars

\* The Go runtime runs every goroutine that can run, each remote call returns,
\* the ticker ticks and time passes. Clients owe nobody a request.
Fairness ==
  /\ \A p \in Procs : WF_vars(Step(p))
  /\ WF_vars(ExpireLeases)
  /\ WF_vars(SweepNext)
  /\ WF_vars(Tick)

FairSpec == Spec /\ Fairness

-----------------------------------------------------------------------------
(* Safety *)

\* A running lease has its agent: no interleaving of handlers, and no failed
\* call, leaves a lease whose worker was killed by the supervisor or never was.
RunningHasAgent ==
  \A w \in DOMAIN leases :
    leases[w].state = "running" =>
      leases[w].uid \in DOMAIN agents /\ agents[leases[w].uid] = w

\* The process p has still to kill the agent of worker w, whose lease has ended.
CleaningUp(p, w) ==
  \/ /\ job[p].worker = w
     /\ pc[p] \in {"refetch", "kill"} \/ (At(p, "publish") /\ job[p].topic = "terminated")
  \/ p = Loop /\ w \in job[p].cands

\* No agent leaks: while calls get through, a live agent belongs to a running
\* lease, is about to be recorded in one, or is about to be killed.
NoAgentLeaks ==
  \A uid \in DOMAIN agents :
    LET w == agents[uid] IN
    \/ w \in DOMAIN leases /\ leases[w].uid = uid /\ leases[w].state = "running"
    \/ \E p \in Procs : At(p, "add") /\ job[p].worker = w /\ job[p].uid = uid
    \/ \E p \in Procs : CleaningUp(p, w)

\* store.Add never finds its worker id taken, and two handlers never work on
\* the same new id: the error branch of HandleEnsureWorker after Spawn is dead.
FreshWorkerID ==
  \A p \in Procs : pc[p] \in {"spawn", "add"} =>
    /\ job[p].worker \notin DOMAIN leases
    /\ \A q \in Procs \ {p} : pc[q] \in {"spawn", "add"} => job[q].worker # job[p].worker

\* The "lease disappeared" branch is dead too, and so are the not-found errors
\* of UpdateState: a worker a handler remembers is still in the store.
RememberedIsStored ==
  \A p \in Procs :
    /\ job[p].cands \subseteq DOMAIN leases
    /\ pc[p] \in {"get"} \cup EndSteps => job[p].worker \in DOMAIN leases

\* What the bus is told about the end of a worker is true when it is told and
\* ever after: no "terminated" event while the lease runs, and the state in it
\* is the lease's state or one the lease has since moved on from.
EventsAreTrue ==
  \A e \in published :
    /\ e.worker \in DOMAIN leases
    /\ \/ e.state = leases[e.worker].state
       \/ TransitionAllowed(e.state, leases[e.worker].state)
    /\ e.topic = "terminated" => e.state # "running"

\* Check-then-act lets a budget be exceeded, but never by more than the other
\* handlers there are: running workers of a session, together with those that
\* passed CheckBudget and are not in the store yet.
Admitted(session) ==
  {t \in Handlers : pc[t] \in {"spawn", "add"} /\ job[t].session = session}

BudgetSlack ==
  \A session \in Sessions :
    (\A uid \in DOMAIN GrantOf : GrantOf[uid].maxWorkers \in 1..BudgetLimit) =>
      Cardinality(RunningIn(session)) + Cardinality(Admitted(session))
        <= BudgetLimit + Cardinality(Handlers) - 1

\* Whatever length was asked for, a lease outlives neither its profile's nor its
\* requester's limit, counted from any moment on.
LeaseBounded ==
  \A w \in DOMAIN leases :
    \A max \in {ProfileOf[leases[w].profile].maxLease, GrantOf[leases[w].requester].maxLease} :
      max > 0 => leases[w].expires # NoExpiry /\ leases[w].expires <= clock + max

\* A worker is handed out again only to its requester (or root), for the same
\* profile, within the session unless the profile is lease-scoped, and only if
\* the caller could have asked for a new one; whatever happened since the
\* candidates were copied.
ReuseAuthorised ==
  \A t \in Handlers :
    At(t, "get") \/ (At(t, "publish") /\ job[t].topic = "reused") =>
      LET lease == leases[job[t].worker] IN
      /\ CanManageLease(job[t].peer, lease)
      /\ lease.profile = job[t].profile
      /\ AllowedToRequest(job[t].peer, lease.profile)
      /\ ProfileOf[lease.profile].reuse \in {"session", "lease"}
      /\ ProfileOf[lease.profile].reuse = "session" => lease.session = job[t].session

-----------------------------------------------------------------------------
(* Steps *)

\* The supervisor has an agent killed only for root, for the requester whose
\* worker it is, or because the lease of that worker expired.
KilledFor(p, w) ==
  \/ p # Loop /\ CanManageLease(job[p].peer, leases[w])
  \/ p = Loop /\ leases[w].state = "expired"

OnlyOwnerKills ==
  [][\A uid \in DOMAIN agents :
       uid \notin DOMAIN agents' =>
         \E p \in Procs : At(p, "kill") /\ agents[uid] \in DOMAIN leases /\ KilledFor(p, agents[uid])]_vars

\* The lease store implements LeaseLifecycle: terms are fixed when a lease is
\* granted, an ended lease never runs again, and nothing expires early.
TermsOf(lease) ==
  [uid |-> lease.uid, profile |-> lease.profile, session |-> lease.session,
   requester |-> lease.requester, expires |-> lease.expires]

Lifecycle == INSTANCE LeaseLifecycle WITH
  lease <- [w \in DOMAIN leases |-> [terms |-> TermsOf(leases[w]), state |-> leases[w].state]],
  now <- clock

ImplementsLifecycle == Lifecycle!Spec

-----------------------------------------------------------------------------
(* Liveness *)

\* A lease that is overdue stops running, however busy the handlers are.
OverdueEnds ==
  \A w \in 1..MaxWorkerID : Lifecycle!overdue(w) ~> ~Lifecycle!running(w)

\* The agent of a worker whose lease ended is eventually gone, unless a restart
\* of the daemon forgot the lease.
Undead(w) ==
  /\ w \in DOMAIN leases
  /\ leases[w].state # "running"
  /\ leases[w].uid \in DOMAIN agents
  /\ agents[leases[w].uid] = w

EndedAgentDies ==
  \A w \in 1..MaxWorkerID : Undead(w) ~> ~Undead(w)

=============================================================================

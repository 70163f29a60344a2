-------------------------- MODULE SupervisorProofs --------------------------
(***************************************************************************)
(* What holds of the supervisor for any number of handlers, requesters,    *)
(* sessions, profiles, workers and uids. First types, worker ids, and what *)
(* ties a lease to the one agent that works under it, and every agent to a *)
(* lease or to somebody who will kill it. Then the life of a lease: that   *)
(* its terms stay within the limits of the profile and the grant, that     *)
(* reuse hands it only to requesters entitled to it, that the store        *)
(* implements LeaseLifecycle, that the events about it are true, that only *)
(* its owner has its agent killed, and how far concurrent requests can     *)
(* exceed a budget.                                                        *)
(***************************************************************************)
EXTENDS Supervisor, FiniteSetTheorems, TLAPS

-----------------------------------------------------------------------------
(* Types                                                                   *)
(*                                                                         *)
(* TypeOK alone is not inductive: Add builds a lease out of what its       *)
(* handler remembers. JobOK says what a goroutine remembers at each step,  *)
(* and that the workers it remembers are still in the store.               *)
(***************************************************************************)

JobOK ==
  \A p \in Procs :
    /\ pc[p] \in EnsureSteps =>
         /\ p \in Handlers
         /\ job[p].peer \in Uids
         /\ job[p].session \in Sessions
         /\ job[p].profile \in DOMAIN ProfileOf
         /\ job[p].peer \in DOMAIN GrantOf
    /\ pc[p] \in {"spawn", "add"} => job[p].worker \in 1..nextWorkerID
    /\ pc[p] = "publish" =>
         /\ job[p].topic \in Topics
         /\ job[p].state \in LeaseStates
         /\ job[p].worker \in DOMAIN leases

TypeInv == TypeOK /\ JobOK /\ RememberedIsStored

\* A lease length that was accepted gives an instant or no expiry at all.
LEMMA LeaseExpiryType ==
  ASSUME NEW now \in Nat, NEW uid \in DOMAIN GrantOf, NEW name \in DOMAIN ProfileOf,
         NEW seconds \in Int, LeaseAccepted(uid, name, seconds)
  PROVE  LeaseExpiry(now, uid, name, seconds) \in Nat \cup {NoExpiry}
<1>1. ProfileOf[name].maxLease \in Nat /\ GrantOf[uid].maxLease \in Nat
  BY RegistryAssumption DEF Profile, Grant
<1>2. EffectiveMax(uid, name) \in Nat
  BY <1>1 DEF EffectiveMax
<1>. QED
  BY <1>2 DEF LeaseExpiry, LeaseAccepted

\* Adding a key to a map.
LEMMA PutType ==
  ASSUME NEW S, NEW f, f \in [DOMAIN f -> S], NEW key, NEW value \in S
  PROVE  /\ DOMAIN put(f, key, value) = DOMAIN f \cup {key}
         /\ put(f, key, value) \in [DOMAIN f \cup {key} -> S]
         /\ put(f, key, value)[key] = value
         /\ \A x \in DOMAIN f \ {key} : put(f, key, value)[x] = f[x]
BY DEF put

\* Initially every goroutine is idle and remembers nothing.
LEMMA TypeInit == Init => TypeInv
BY DEF Init, TypeInv, TypeOK, JobOK, RememberedIsStored, Steps, EnsureSteps, EndSteps, Job, NoJob,
       Topics, LeaseStates

\* Every step of the daemon, of the clock and of the world around it.
LEMMA TypeStep == TypeInv /\ [Next]_vars => TypeInv'
<1>. SUFFICES ASSUME TypeInv, [Next]_vars PROVE TypeInv'
  OBVIOUS
<1>. USE ProcAssumption DEF TypeInv, TypeOK, JobOK, RememberedIsStored, Procs, At, Goto,
         Job, Steps, EnsureSteps, EndSteps, Topics, LeaseStates, store, iso
<1>1. ASSUME NEW t \in Handlers, NEW r \in EnsureRequests, EnsureWorker(t, r)
      PROVE  TypeInv'
  BY <1>1, RequestAssumption, LeaseExpiryType DEF EnsureWorker, AllowedToRequest, EnsureRequest, NoJob
<1>2. ASSUME NEW t \in Handlers, NEW r \in EndRequests, NEW w \in DOMAIN leases, ReleaseWorker(t, r, w)
      PROVE  TypeInv'
  <2>1. /\ job' = [job EXCEPT ![t] = job'[t]]
        /\ job'[t] \in Job
        /\ job'[t].worker \in DOMAIN leases
        /\ job'[t].cands = {}
    <3>1. leases[w].uid \in Nat /\ w \in Nat
      BY DEF Lease
    <3>2. r.peer \in Uids /\ r.session \in Sessions
      BY RequestAssumption DEF EndRequest
    <3>. QED
      BY <1>2, <3>1, <3>2 DEF ReleaseWorker, NoJob
  <2>2. /\ pc' = [pc EXCEPT ![t] = "release"]
        /\ UNCHANGED <<leases, nextWorkerID, published, agents, nextUID, clock>>
    BY <1>2 DEF ReleaseWorker
  <2>. HIDE DEF Job
  <2>. QED
    BY <2>1, <2>2
<1>3. ASSUME NEW t \in Handlers, NEW r \in EndRequests, NEW w \in DOMAIN leases, TerminateWorker(t, r, w)
      PROVE  TypeInv'
  <2>1. /\ job' = [job EXCEPT ![t] = job'[t]]
        /\ job'[t] \in Job
        /\ job'[t].worker \in DOMAIN leases
        /\ job'[t].cands = {}
    <3>1. leases[w].uid \in Nat /\ w \in Nat
      BY DEF Lease
    <3>2. r.peer \in Uids /\ r.session \in Sessions
      BY RequestAssumption DEF EndRequest
    <3>. QED
      BY <1>3, <3>1, <3>2 DEF TerminateWorker, NoJob
  <2>2. /\ pc' = [pc EXCEPT ![t] = "terminate"]
        /\ UNCHANGED <<leases, nextWorkerID, published, agents, nextUID, clock>>
    BY <1>3 DEF TerminateWorker
  <2>. HIDE DEF Job
  <2>. QED
    BY <2>1, <2>2
<1>4. ASSUME NEW p \in Procs, Snapshot(p)
      PROVE  TypeInv'
  BY <1>4 DEF Snapshot, Lease, Event
<1>5. ASSUME NEW p \in Procs, Choose(p)
      PROVE  TypeInv'
  BY <1>5 DEF Choose, Lease, Event
<1>6. ASSUME NEW p \in Procs, ChooseNone(p)
      PROVE  TypeInv'
  BY <1>6 DEF ChooseNone, Lease, Event
<1>7. ASSUME NEW p \in Procs, GetReused(p)
      PROVE  TypeInv'
  BY <1>7 DEF GetReused, Lease, Event
<1>8. ASSUME NEW p \in Procs, CheckBudget(p)
      PROVE  TypeInv'
  BY <1>8 DEF CheckBudget, Lease, Event
<1>9. ASSUME NEW p \in Procs, OverBudget(p)
      PROVE  TypeInv'
  BY <1>9 DEF OverBudget, Done, NoJob, Lease, Event
<1>10. ASSUME NEW p \in Procs, Spawn(p)
      PROVE  TypeInv'
  BY <1>10 DEF Spawn, put, Lease, Event
<1>11. ASSUME NEW p \in Procs, SpawnFails(p)
      PROVE  TypeInv'
  BY <1>11 DEF SpawnFails, Done, NoJob, Lease, Event
<1>12. ASSUME NEW p \in Procs, SpawnReplyLost(p)
      PROVE  TypeInv'
  BY <1>12 DEF SpawnReplyLost, put, Done, NoJob, Lease, Event
<1>13. ASSUME NEW p \in Procs, Add(p)
      PROVE  TypeInv'
  BY <1>13 DEF Add, put, Lease, Event
<1>14. ASSUME NEW p \in Procs, UpdateState(p)
      PROVE  TypeInv'
  BY <1>14 DEF UpdateState, EndState, Lease, Event
<1>15. ASSUME NEW p \in Procs, UpdateRefused(p)
      PROVE  TypeInv'
  BY <1>15 DEF UpdateRefused, EndState, Done, NoJob, Lease, Event
<1>16. ASSUME NEW p \in Procs, Refetch(p)
      PROVE  TypeInv'
  BY <1>16 DEF Refetch, Lease, Event
<1>17. ASSUME NEW p \in Procs, Publish(p)
      PROVE  TypeInv'
  <2>1. job[p].topic \in Topics /\ job[p].state \in LeaseStates /\ job[p].worker \in Nat
    BY <1>17 DEF Publish
  <2>2. published' \subseteq Event
    BY <1>17, <2>1 DEF Publish, Event
  <2>3. CASE pc' = [pc EXCEPT ![p] = "kill"] /\ UNCHANGED job
    BY <1>17, <2>2, <2>3 DEF Publish
  <2>4. CASE pc' = [pc EXCEPT ![p] = "idle"] /\ job' = [job EXCEPT ![p] = NoJob]
    BY <1>17, <2>2, <2>4 DEF Publish, NoJob
  <2>. QED
    BY <1>17, <2>3, <2>4 DEF Publish, Done
<1>18. ASSUME NEW p \in Procs, Kill(p)
      PROVE  TypeInv'
  BY <1>18 DEF Kill, AfterKill, Done, NoJob, Restrict, Lease, Event
<1>19. ASSUME NEW p \in Procs, KillFails(p)
      PROVE  TypeInv'
  BY <1>19 DEF KillFails, AfterKill, Done, NoJob, Lease, Event
<1>20. CASE ExpireLeases
  <2>. DEFINE expired == {w \in DOMAIN leases : leases[w].state = "running" /\ Overdue(leases[w], clock)}
  <2>1. DOMAIN leases' = DOMAIN leases /\ leases' \in [DOMAIN leases -> Lease]
    BY <1>20 DEF ExpireLeases, Lease
  <2>2. /\ expired \subseteq DOMAIN leases
        /\ job' = [job EXCEPT ![Loop].cands = expired]
        /\ UNCHANGED <<nextWorkerID, published, agents, nextUID, clock>>
        /\ pc[Loop] = "idle"
        /\ pc' = pc \/ pc' = [pc EXCEPT ![Loop] = "sweep"]
    BY <1>20 DEF ExpireLeases
  <2>. HIDE DEF expired
  <2>3. expired \subseteq Nat
    BY <2>2
  <2>4. TypeOK'
    BY <2>1, <2>2, <2>3
  <2>5. JobOK'
    BY <2>1, <2>2
  <2>6. RememberedIsStored'
    BY <2>1, <2>2
  <2>. QED
    BY <2>4, <2>5, <2>6
<1>21. CASE SweepNext
  <2>1. PICK w \in job[Loop].cands :
               job' = [job EXCEPT ![Loop].cands = @ \ {w}, ![Loop].worker = w,
                                  ![Loop].uid = leases[w].uid]
    BY <1>21 DEF SweepNext
  <2>2. w \in DOMAIN leases /\ w \in Nat /\ leases[w].uid \in Nat
    <3>1. w \in DOMAIN leases
      OBVIOUS
    <3>2. leases[w] \in Lease
      BY <3>1
    <3>3. leases[w].uid \in Nat
      BY <3>2 DEF Lease
    <3>4. w \in Nat
      BY <3>1
    <3>. QED
      BY <3>1, <3>3, <3>4
  <2>3. job' = [job EXCEPT ![Loop] = job'[Loop]] /\ job'[Loop] \in Job
    <3>1. job[Loop] \in Job /\ job[Loop].cands \subseteq Nat
      BY DEF Job
    <3>2. /\ job' = [job EXCEPT ![Loop] = job'[Loop]]
          /\ job'[Loop] = [job[Loop] EXCEPT !.cands = @ \ {w}, !.worker = w, !.uid = leases[w].uid]
      BY <2>1
    <3>3. job[Loop].cands \ {w} \in SUBSET Nat
      BY <3>1
    <3>. QED
      BY <2>2, <3>1, <3>2, <3>3
  <2>4. job'[Loop].worker = w /\ job'[Loop].cands \subseteq DOMAIN leases
    BY <2>1
  <2>5. /\ pc' = [pc EXCEPT ![Loop] = "refetch"]
        /\ UNCHANGED <<leases, nextWorkerID, published, agents, nextUID, clock>>
    BY <1>21 DEF SweepNext
  <2>. HIDE DEF Job
  <2>. QED
    BY <2>2, <2>3, <2>4, <2>5
<1>22. CASE Tick
  BY <1>22 DEF Tick
<1>23. CASE Crash
  BY <1>23 DEF Crash, NoJob
<1>24. CASE IsolationRestart
  BY <1>24 DEF IsolationRestart
<1>25. CASE AgentExits
  BY <1>25 DEF AgentExits, Restrict
<1>26. CASE UNCHANGED vars
  BY <1>26 DEF vars
<1>. QED
  BY <1>1, <1>2, <1>3, <1>4, <1>5, <1>6, <1>7, <1>8, <1>9, <1>10, <1>11, <1>12, <1>13, <1>14, <1>15, <1>16, <1>17, <1>18, <1>19, <1>20, <1>21, <1>22, <1>23, <1>24, <1>25, <1>26 DEF Next, Request, Step

LEMMA TypeInvariant == Spec => []TypeInv
BY TypeInit, TypeStep, PTL DEF Spec

\* Every variable keeps its type: the store holds leases under ids that were
\* issued, isolation's agents run under uids it handed out.
THEOREM TypeCorrect == Spec => []TypeOK
<1>1. TypeInv => TypeOK
  BY DEF TypeInv
<1>. QED
  BY <1>1, TypeInvariant, PTL

\* The lease a handler or the loop is about to read or update is in the store,
\* whatever the others did since it looked: no lookup after the first one fails.
THEOREM RememberedCorrect == Spec => []RememberedIsStored
<1>1. TypeInv => RememberedIsStored
  BY DEF TypeInv
<1>. QED
  BY <1>1, TypeInvariant, PTL

-----------------------------------------------------------------------------
(* Worker ids                                                              *)
(*                                                                         *)
(* FreshWorkerID is inductive given the types: an id is issued above all   *)
(* ids in the store and above all those that handlers still work on.       *)
(***************************************************************************)

Working(p) == pc[p] \in {"spawn", "add"}

\* A step that neither stores a lease nor issues an id cannot spoil the ids.
LEMMA FreshFrame ==
  ASSUME FreshWorkerID,
         DOMAIN leases' = DOMAIN leases,
         \A p \in Procs : Working(p)' => Working(p) /\ job'[p].worker = job[p].worker
  PROVE  FreshWorkerID'
BY DEF FreshWorkerID, Working

\* No step of the daemon works on an id that is taken or that another works on.
LEMMA FreshStep == TypeInv /\ FreshWorkerID /\ [Next]_vars => FreshWorkerID'
<1>. SUFFICES ASSUME TypeInv, FreshWorkerID, [Next]_vars PROVE FreshWorkerID'
  OBVIOUS
<1>. USE ProcAssumption DEF Procs, At, Goto, Done, NoJob
<1>. DEFINE Framed == /\ DOMAIN leases' = DOMAIN leases
                      /\ \A p \in Procs : Working(p)' => Working(p) /\ job'[p].worker = job[p].worker
<1>0. /\ pc \in [Procs -> Steps] /\ job \in [Procs -> Job]
      /\ nextWorkerID \in Nat
      /\ DOMAIN leases \subseteq 1..nextWorkerID
      /\ \A p \in Procs : Working(p) => job[p].worker \in 1..nextWorkerID
  BY DEF TypeInv, TypeOK, JobOK, Working
<1>1. ASSUME NEW t \in Handlers, Request(t) PROVE Framed
  BY <1>0, <1>1 DEF Request, EnsureWorker, ReleaseWorker, TerminateWorker, Working, store
<1>2. ASSUME NEW p \in Procs, Snapshot(p) \/ Choose(p) \/ ChooseNone(p) \/ GetReused(p) \/ OverBudget(p)
      PROVE  Framed
  BY <1>0, <1>2 DEF Snapshot, Choose, ChooseNone, GetReused, OverBudget, Working, store
<1>3. ASSUME NEW p \in Procs, CheckBudget(p) PROVE FreshWorkerID'
  <2>1. /\ job'[p].worker = nextWorkerID + 1
        /\ \A q \in Procs \ {p} : pc'[q] = pc[q] /\ job'[q] = job[q]
        /\ leases' = leases
    BY <1>0, <1>3 DEF CheckBudget
  <2>2. \A q \in Procs \ {p} : Working(q) => job[q].worker # nextWorkerID + 1
    BY <1>0
  <2>3. nextWorkerID + 1 \notin DOMAIN leases
    BY <1>0
  <2>. QED
    BY <2>1, <2>2, <2>3 DEF FreshWorkerID, Working
<1>4. ASSUME NEW p \in Procs, Spawn(p) \/ SpawnFails(p) \/ SpawnReplyLost(p) PROVE Framed
  <2>1. CASE Spawn(p)
    BY <1>0, <2>1 DEF Spawn, Working, store, Job
  <2>2. CASE SpawnFails(p)
    BY <1>0, <2>2 DEF SpawnFails, Working, store
  <2>3. CASE SpawnReplyLost(p)
    BY <1>0, <2>3 DEF SpawnReplyLost, Working, store
  <2>. QED
    BY <1>4, <2>1, <2>2, <2>3
<1>5. ASSUME NEW p \in Procs, Add(p) PROVE FreshWorkerID'
  <2>1. /\ DOMAIN leases' = DOMAIN leases \cup {job[p].worker}
        /\ ~Working(p)' /\ Working(p)
        /\ \A q \in Procs \ {p} : pc'[q] = pc[q] /\ job'[q] = job[q]
    BY <1>0, <1>5 DEF Add, put, Working
  <2>. QED
    BY <2>1 DEF FreshWorkerID, Working
<1>6. ASSUME NEW p \in Procs, UpdateState(p) \/ UpdateRefused(p) \/ Refetch(p)
      PROVE  Framed
  BY <1>0, <1>6 DEF UpdateState, UpdateRefused, Refetch, Working, store
<1>7. ASSUME NEW p \in Procs, Publish(p) \/ Kill(p) \/ KillFails(p)
      PROVE  Framed
  BY <1>0, <1>7 DEF Publish, Kill, KillFails, AfterKill, Working, store
<1>8. CASE ExpireLeases \/ SweepNext
  BY <1>0, <1>8, FreshFrame DEF ExpireLeases, SweepNext, Working, store
<1>9. CASE Crash
  BY <1>9 DEF Crash, FreshWorkerID
<1>10. CASE Tick \/ IsolationRestart \/ AgentExits \/ UNCHANGED vars
  BY <1>10 DEF Tick, IsolationRestart, AgentExits, vars, store, FreshWorkerID
<1>. HIDE DEF Framed
<1>11. Framed => FreshWorkerID'
  BY FreshFrame DEF Framed
<1>. QED
  BY <1>1, <1>2, <1>3, <1>4, <1>5, <1>6, <1>7, <1>8, <1>9, <1>10, <1>11 DEF Next, Step

\* No two handlers ever work on the same new worker id and none is in the store
\* already: the branch of HandleEnsureWorker that kills a fresh agent because
\* store.Add refused its lease is never taken.
THEOREM FreshWorkerIDCorrect == Spec => []FreshWorkerID
<1>1. Init => FreshWorkerID
  BY DEF Init, FreshWorkerID
<1>. QED
  BY <1>1, FreshStep, TypeInvariant, PTL DEF Spec

-----------------------------------------------------------------------------
(* Agents                                                                  *)
(*                                                                         *)
(* A running lease keeps its agent because a kill names the uid of a lease *)
(* that has ended (KillOK) and no two leases, stored or about to be, share *)
(* a uid (UidsDistinct). The latter needs an isolation service that never  *)
(* hands a uid out twice, and the claim needs agents that do not exit by   *)
(* themselves: both are excluded by the theorem's assumption.              *)
(***************************************************************************)

Ending(p) == pc[p] \in {"refetch", "kill"} \/ (pc[p] = "publish" /\ job[p].topic = "terminated")

\* What a handler that will kill, or is about to end a lease, remembers of it.
Remembers(p) ==
  /\ pc[p] \in {"release", "terminate"} \/ Ending(p) =>
       job[p].worker \in DOMAIN leases /\ job[p].uid = leases[job[p].worker].uid
  /\ Ending(p) => leases[job[p].worker].state # "running"

KillOK ==
  /\ \A p \in Procs : Remembers(p)
  /\ \A w \in job[Loop].cands : w \in DOMAIN leases /\ leases[w].state # "running"

UidsDistinct ==
  /\ \A w \in DOMAIN leases : leases[w].uid \in 1..(nextUID - 1)
  /\ \A v, w \in DOMAIN leases : v # w => leases[v].uid # leases[w].uid
  /\ \A p \in Procs : pc[p] = "add" =>
       /\ job[p].uid \in DOMAIN agents
       /\ agents[job[p].uid] = job[p].worker
       /\ \A w \in DOMAIN leases : leases[w].uid # job[p].uid

AgentInv == KillOK /\ UidsDistinct /\ RunningHasAgent

LeasesKept ==
  \A w \in DOMAIN leases :
    /\ w \in DOMAIN leases'
    /\ leases'[w].uid = leases[w].uid
    /\ leases[w].state # "running" => leases'[w].state # "running"

\* While the daemon lives, leases keep their uid and an ended one never runs again.
LEMMA LeaseStep ==
  ASSUME TypeInv, FreshWorkerID, [Next]_vars, ~Crash
  PROVE  LeasesKept
<1>. USE DEF LeasesKept
<1>0. leases \in [DOMAIN leases -> Lease]
  BY DEF TypeInv, TypeOK
<1>1. ASSUME NEW p \in Procs, Add(p) PROVE LeasesKept
  BY <1>0, <1>1 DEF Add, At, put, FreshWorkerID
<1>2. ASSUME NEW p \in Procs, UpdateState(p) PROVE LeasesKept
  <2>1. job[p].worker \in DOMAIN leases
    BY <1>2 DEF TypeInv, RememberedIsStored, UpdateState, EndState, EndSteps
  <2>2. /\ pc[p] \in {"release", "terminate"}
        /\ EndState[pc[p]] \in {"released", "terminated"}
        /\ leases' = [leases EXCEPT ![job[p].worker].state = EndState[pc[p]]]
    BY <1>2 DEF UpdateState, EndState
  <2>. QED
    BY <1>0, <2>1, <2>2 DEF Lease
<1>3. ASSUME ExpireLeases PROVE LeasesKept
  BY <1>0, <1>3 DEF ExpireLeases, Lease
<1>4. ASSUME leases' = leases PROVE LeasesKept
  BY <1>4
<1>. HIDE DEF LeasesKept
<1>5. ASSUME NEW t \in Handlers, Request(t) PROVE LeasesKept
  BY <1>4, <1>5 DEF Request, EnsureWorker, ReleaseWorker, TerminateWorker, store
<1>6. ASSUME NEW p \in Procs, Step(p) PROVE LeasesKept
  <2>1. CASE Snapshot(p) \/ Choose(p) \/ ChooseNone(p) \/ GetReused(p) \/ CheckBudget(p) \/ OverBudget(p)
    BY <1>4, <2>1 DEF Snapshot, Choose, ChooseNone, GetReused, CheckBudget, OverBudget, store
  <2>2. CASE Spawn(p) \/ SpawnFails(p) \/ SpawnReplyLost(p)
    BY <1>4, <2>2 DEF Spawn, SpawnFails, SpawnReplyLost, store
  <2>3. CASE UpdateRefused(p) \/ Refetch(p) \/ Publish(p) \/ Kill(p) \/ KillFails(p)
    BY <1>4, <2>3 DEF UpdateRefused, Refetch, Publish, Kill, KillFails, store
  <2>. QED
    BY <1>1, <1>2, <1>6, <2>1, <2>2, <2>3 DEF Step
<1>7. ASSUME SweepNext \/ Tick \/ IsolationRestart \/ AgentExits \/ UNCHANGED vars PROVE LeasesKept
  BY <1>4, <1>7 DEF SweepNext, Tick, IsolationRestart, AgentExits, vars, store
<1>. QED
  BY <1>3, <1>5, <1>6, <1>7 DEF Next

\* One goroutine moves: the others remember what they did.
LEMMA KillFrame ==
  ASSUME KillOK, LeasesKept, NEW p \in Procs,
         \A q \in Procs \ {p} : pc'[q] = pc[q] /\ job'[q] = job[q],
         Remembers(p)',
         job'[Loop].cands \subseteq job[Loop].cands
  PROVE  KillOK'
<1>1. ASSUME NEW q \in Procs \ {p} PROVE Remembers(q)'
  BY <1>1 DEF KillOK, Remembers, LeasesKept, Ending
<1>2. \A w \in job'[Loop].cands : w \in DOMAIN leases' /\ leases'[w].state # "running"
  BY DEF KillOK, LeasesKept
<1>. QED
  BY <1>1, <1>2 DEF KillOK

\* Whoever is about to kill knows the uid of the lease that ended.
LEMMA KillStep == TypeInv /\ FreshWorkerID /\ KillOK /\ [Next]_vars => KillOK'
<1>. SUFFICES ASSUME TypeInv, FreshWorkerID, KillOK, [Next]_vars PROVE KillOK'
  OBVIOUS
<1>0. /\ pc \in [Procs -> Steps] /\ job \in [Procs -> Job]
      /\ leases \in [DOMAIN leases -> Lease]
      /\ Loop \in Procs /\ \A t \in Handlers : t \in Procs /\ t # Loop
      /\ \A p \in Procs : pc[p] \in EnsureSteps => p \in Handlers
  BY ProcAssumption DEF TypeInv, TypeOK, JobOK, Procs
<1>. USE DEF At, Goto, Done, Remembers, Ending
<1>1. CASE Crash
  <2>1. \A p \in Procs : pc'[p] = "idle" /\ job'[p] = NoJob
    BY <1>1 DEF Crash
  <2>2. \A p \in Procs : Remembers(p)'
    BY <2>1
  <2>3. job'[Loop].cands = {}
    BY <1>0, <2>1 DEF NoJob
  <2>. QED
    BY <2>2, <2>3 DEF KillOK
<1>. SUFFICES ASSUME ~Crash PROVE KillOK'
  BY <1>1
<1>2. LeasesKept
  BY LeaseStep
<1>3. ASSUME NEW t \in Handlers, NEW r \in EnsureRequests, EnsureWorker(t, r) PROVE KillOK'
  BY <1>0, <1>2, <1>3, KillFrame DEF EnsureWorker
<1>4. ASSUME NEW t \in Handlers, NEW r \in EndRequests, NEW w \in DOMAIN leases,
             ReleaseWorker(t, r, w) \/ TerminateWorker(t, r, w)
      PROVE  KillOK'
  <2>1. Remembers(t)'
    <3>1. /\ pc'[t] \in {"release", "terminate"}
          /\ leases' = leases
          /\ \E rec \in {[NoJob EXCEPT !.peer = r.peer, !.session = r.session,
                                    !.worker = w, !.uid = leases[w].uid],
                       [NoJob EXCEPT !.peer = r.peer, !.worker = w, !.uid = leases[w].uid]} :
               job'[t] = rec
      BY <1>0, <1>4 DEF ReleaseWorker, TerminateWorker, store
    <3>2. job'[t].worker = w /\ job'[t].uid = leases[w].uid
      BY <3>1 DEF NoJob
    <3>. QED
      BY <3>1, <3>2
  <2>. QED
    BY <1>0, <1>2, <1>4, <2>1, KillFrame DEF ReleaseWorker, TerminateWorker
<1>5. ASSUME NEW p \in Procs, Snapshot(p) \/ Choose(p) \/ ChooseNone(p) \/ GetReused(p)
                              \/ CheckBudget(p) \/ OverBudget(p)
      PROVE  KillOK'
  <2>1. p \in Handlers
    BY <1>0, <1>5 DEF Snapshot, Choose, ChooseNone, GetReused, CheckBudget, OverBudget, EnsureSteps
  <2>2. Remembers(p)'
    BY <1>0, <1>5 DEF Snapshot, Choose, ChooseNone, GetReused, CheckBudget, OverBudget, NoJob, Job
  <2>. QED
    BY <1>0, <1>2, <1>5, <2>1, <2>2, KillFrame
       DEF Snapshot, Choose, ChooseNone, GetReused, CheckBudget, OverBudget
<1>6. ASSUME NEW p \in Procs, Spawn(p) \/ SpawnFails(p) \/ SpawnReplyLost(p) \/ Add(p)
      PROVE  KillOK'
  <2>1. p \in Handlers
    BY <1>0, <1>6 DEF Spawn, SpawnFails, SpawnReplyLost, Add, EnsureSteps
  <2>2. Remembers(p)'
    BY <1>0, <1>6 DEF Spawn, SpawnFails, SpawnReplyLost, Add, NoJob, Job
  <2>. QED
    BY <1>0, <1>2, <1>6, <2>1, <2>2, KillFrame DEF Spawn, SpawnFails, SpawnReplyLost, Add
<1>7. ASSUME NEW p \in Procs, UpdateState(p) PROVE KillOK'
  <2>1. /\ pc[p] \in {"release", "terminate"}
        /\ leases' = [leases EXCEPT ![job[p].worker].state = EndState[pc[p]]]
        /\ EndState[pc[p]] # "running"
        /\ pc' = [pc EXCEPT ![p] = "refetch"] /\ job' = job
    BY <1>7 DEF UpdateState, EndState
  <2>2. job[p].worker \in DOMAIN leases /\ job[p].uid = leases[job[p].worker].uid
    BY <2>1 DEF KillOK
  <2>3. leases[job[p].worker] \in Lease
    BY <1>0, <2>2
  <2>4. leases'[job[p].worker].state # "running"
    BY <2>1, <2>2, <2>3 DEF Lease
  <2>5. Remembers(p)'
    BY <1>0, <1>2, <2>1, <2>2, <2>4 DEF LeasesKept
  <2>. QED
    BY <1>0, <1>2, <2>1, <2>5, KillFrame
<1>8. ASSUME NEW p \in Procs, UpdateRefused(p) PROVE KillOK'
  BY <1>0, <1>2, <1>8, KillFrame DEF UpdateRefused, NoJob
<1>9. ASSUME NEW p \in Procs, Refetch(p) \/ Publish(p) \/ Kill(p) \/ KillFails(p)
      PROVE  KillOK'
  <2>1. Remembers(p)'
    <3>1. CASE Refetch(p)
      BY <1>0, <3>1 DEF Refetch, KillOK, Job, store
    <3>2. CASE Publish(p)
      BY <1>0, <3>2 DEF Publish, NoJob, KillOK, store
    <3>3. CASE Kill(p) \/ KillFails(p)
      BY <1>0, <3>3 DEF Kill, KillFails, AfterKill, NoJob, KillOK, store
    <3>. QED
      BY <1>9, <3>1, <3>2, <3>3
  <2>2. /\ \A q \in Procs \ {p} : pc'[q] = pc[q] /\ job'[q] = job[q]
        /\ job'[Loop].cands \subseteq job[Loop].cands
    <3>1. CASE Refetch(p)
      BY <1>0, <3>1 DEF Refetch, Job
    <3>2. CASE Publish(p)
      BY <1>0, <3>2 DEF Publish, NoJob
    <3>3. CASE Kill(p) \/ KillFails(p)
      BY <1>0, <3>3 DEF Kill, KillFails, AfterKill, NoJob
    <3>. QED
      BY <1>9, <3>1, <3>2, <3>3
  <2>. QED
    BY <1>2, <2>1, <2>2, KillFrame
<1>10. CASE ExpireLeases
  <2>1. \A w \in job'[Loop].cands : w \in DOMAIN leases' /\ leases'[w].state # "running"
    BY <1>0, <1>10 DEF ExpireLeases, Lease
  <2>2. \A p \in Procs : Remembers(p)'
    BY <1>0, <1>2, <1>10 DEF ExpireLeases, KillOK, LeasesKept
  <2>. QED
    BY <2>1, <2>2 DEF KillOK
<1>11. CASE SweepNext
  <2>1. Remembers(Loop)'
    BY <1>0, <1>11 DEF SweepNext, KillOK, store
  <2>. QED
    BY <1>0, <1>2, <1>11, <2>1, KillFrame DEF SweepNext
<1>12. CASE Tick \/ IsolationRestart \/ AgentExits \/ UNCHANGED vars
  BY <1>12 DEF Tick, IsolationRestart, AgentExits, vars, store, KillOK
<1>. QED
  BY <1>3, <1>4, <1>5, <1>6, <1>7, <1>8, <1>9, <1>10, <1>11, <1>12 DEF Next, Step, Request

\* The agent of uid u lives on and works under the same id.
LivesOn(u) == u \in DOMAIN agents' /\ agents'[u] = agents[u]

\* No lease comes or goes, no handler gets an agent, and the agents that count live.
LEMMA AgentFrame ==
  ASSUME UidsDistinct, RunningHasAgent, LeasesKept, DOMAIN leases' = DOMAIN leases,
         nextUID \in Nat, nextUID' \in Nat, nextUID <= nextUID',
         \A p \in Procs : pc'[p] = "add" =>
           pc[p] = "add" /\ job'[p].worker = job[p].worker /\ job'[p].uid = job[p].uid,
         \A p \in Procs : pc[p] = "add" => LivesOn(job[p].uid),
         \A w \in DOMAIN leases : leases[w].state = "running" => LivesOn(leases[w].uid)
  PROVE  UidsDistinct' /\ RunningHasAgent'
<1>1. \A w \in DOMAIN leases' : leases'[w].uid \in 1..(nextUID' - 1)
  BY DEF UidsDistinct, LeasesKept
<1>2. \A v, w \in DOMAIN leases' : v # w => leases'[v].uid # leases'[w].uid
  BY DEF UidsDistinct, LeasesKept
<1>3. ASSUME NEW p \in Procs, pc'[p] = "add"
      PROVE  /\ job'[p].uid \in DOMAIN agents'
             /\ agents'[job'[p].uid] = job'[p].worker
             /\ \A w \in DOMAIN leases' : leases'[w].uid # job'[p].uid
  BY <1>3 DEF UidsDistinct, LeasesKept, LivesOn
<1>4. RunningHasAgent'
  BY DEF RunningHasAgent, LeasesKept, LivesOn
<1>. QED
  BY <1>1, <1>2, <1>3, <1>4 DEF UidsDistinct

\* Only Spawn puts a handler before Add, and only Add adds a lease.
LEMMA AgentStep ==
  ASSUME Faults \cap {"iso_restart", "agent_exits"} = {},
         TypeInv, FreshWorkerID, AgentInv, [Next]_vars
  PROVE  UidsDistinct' /\ RunningHasAgent'
<1>0. /\ pc \in [Procs -> Steps] /\ job \in [Procs -> Job]
      /\ leases \in [DOMAIN leases -> Lease]
      /\ nextUID \in Nat \ {0} /\ DOMAIN agents \subseteq 1..(nextUID - 1)
      /\ agents \in [DOMAIN agents -> Nat]
      /\ Loop \in Procs /\ \A t \in Handlers : t \in Procs
  BY ProcAssumption DEF TypeInv, TypeOK, Procs
<1>1. KillOK /\ UidsDistinct /\ RunningHasAgent
  BY DEF AgentInv
<1>. DEFINE Adders == \A p \in Procs : pc'[p] = "add" =>
                         /\ pc[p] = "add"
                         /\ job'[p].worker = job[p].worker /\ job'[p].uid = job[p].uid
<1>2. CASE Crash
  <2>1. DOMAIN leases' = {} /\ \A p \in Procs : pc'[p] # "add"
    BY <1>2 DEF Crash
  <2>. QED
    BY <2>1 DEF UidsDistinct, RunningHasAgent
<1>. SUFFICES ASSUME ~Crash PROVE UidsDistinct' /\ RunningHasAgent'
  BY <1>2
<1>3. LeasesKept
  BY LeaseStep
<1>. HIDE DEF Adders
\* Steps that leave the isolation service alone.
<1>4. ASSUME Adders, DOMAIN leases' = DOMAIN leases, UNCHANGED iso
      PROVE  UidsDistinct' /\ RunningHasAgent'
  <2>1. /\ \A p \in Procs : pc[p] = "add" => LivesOn(job[p].uid)
        /\ \A w \in DOMAIN leases : leases[w].state = "running" => LivesOn(leases[w].uid)
    BY <1>1, <1>4 DEF UidsDistinct, RunningHasAgent, LivesOn, iso
  <2>. QED
    BY <1>0, <1>1, <1>3, <1>4, <2>1, AgentFrame DEF Adders, iso
<1>. USE DEF At, Goto, Done
<1>5. ASSUME NEW t \in Handlers, Request(t) PROVE UidsDistinct' /\ RunningHasAgent'
  <2>1. DOMAIN leases' = DOMAIN leases /\ UNCHANGED iso
    BY <1>5 DEF Request, EnsureWorker, ReleaseWorker, TerminateWorker, store
  <2>2. Adders
    BY <1>0, <1>5 DEF Adders, Request, EnsureWorker, ReleaseWorker, TerminateWorker
  <2>. QED
    BY <1>4, <2>1, <2>2
<1>6. ASSUME NEW p \in Procs, Snapshot(p) \/ Choose(p) \/ ChooseNone(p) \/ GetReused(p)
                              \/ CheckBudget(p) \/ OverBudget(p)
      PROVE  UidsDistinct' /\ RunningHasAgent'
  <2>1. DOMAIN leases' = DOMAIN leases /\ UNCHANGED iso
    BY <1>6 DEF Snapshot, Choose, ChooseNone, GetReused, CheckBudget, OverBudget, store
  <2>2. Adders
    BY <1>0, <1>6 DEF Adders, Snapshot, Choose, ChooseNone, GetReused, CheckBudget, OverBudget
  <2>. QED
    BY <1>4, <2>1, <2>2
<1>7. ASSUME NEW p \in Procs, UpdateState(p) \/ UpdateRefused(p) \/ Refetch(p)
                              \/ Publish(p) \/ KillFails(p)
      PROVE  UidsDistinct' /\ RunningHasAgent'
  <2>1. DOMAIN leases' = DOMAIN leases /\ UNCHANGED iso
    BY <1>0, <1>7 DEF UpdateState, UpdateRefused, Refetch, Publish, KillFails, store
  <2>2. Adders
    BY <1>0, <1>7 DEF Adders, UpdateState, UpdateRefused, Refetch, Publish, KillFails, AfterKill
  <2>. QED
    BY <1>4, <2>1, <2>2
<1>8. CASE ExpireLeases \/ SweepNext \/ Tick \/ UNCHANGED vars
  <2>1. DOMAIN leases' = DOMAIN leases /\ UNCHANGED iso
    BY <1>0, <1>8 DEF ExpireLeases, SweepNext, Tick, vars, iso, store
  <2>2. Adders
    BY <1>0, <1>8 DEF Adders, ExpireLeases, SweepNext, Tick, vars
  <2>. QED
    BY <1>4, <2>1, <2>2

\* Steps that do not touch the isolation service's other agents.
<1>9. ASSUME NEW p \in Procs, SpawnFails(p) \/ SpawnReplyLost(p)
      PROVE  UidsDistinct' /\ RunningHasAgent'
  <2>1. leases' = leases /\ nextUID' \in Nat /\ nextUID <= nextUID'
    BY <1>0, <1>9 DEF SpawnFails, SpawnReplyLost, store
  <2>2. Adders
    BY <1>0, <1>9 DEF Adders, SpawnFails, SpawnReplyLost
  <2>3. \A u \in DOMAIN agents : LivesOn(u)
    BY <1>0, <1>9 DEF LivesOn, SpawnFails, SpawnReplyLost, put
  <2>4. /\ \A q \in Procs : pc[q] = "add" => LivesOn(job[q].uid)
        /\ \A w \in DOMAIN leases : leases[w].state = "running" => LivesOn(leases[w].uid)
    BY <1>1, <2>3 DEF UidsDistinct, RunningHasAgent
  <2>. QED
    BY <1>0, <1>1, <1>3, <2>1, <2>2, <2>4, AgentFrame DEF Adders
<1>10. ASSUME NEW p \in Procs, Kill(p) PROVE UidsDistinct' /\ RunningHasAgent'
  <2>1. leases' = leases /\ nextUID' = nextUID
    BY <1>10 DEF Kill, store
  <2>2. Adders
    BY <1>0, <1>10 DEF Adders, Kill, AfterKill
  <2>3. \A u \in DOMAIN agents \ {job[p].uid} : LivesOn(u)
    BY <1>10 DEF LivesOn, Kill, Restrict
  <2>4. /\ job[p].worker \in DOMAIN leases
        /\ job[p].uid = leases[job[p].worker].uid
        /\ leases[job[p].worker].state # "running"
    BY <1>1, <1>10 DEF Kill, KillOK, Remembers, Ending
  <2>5. /\ \A q \in Procs : pc[q] = "add" => LivesOn(job[q].uid)
        /\ \A w \in DOMAIN leases : leases[w].state = "running" => LivesOn(leases[w].uid)
    BY <1>1, <2>3, <2>4 DEF UidsDistinct, RunningHasAgent
  <2>. QED
    BY <1>0, <1>1, <1>3, <2>1, <2>2, <2>5, AgentFrame DEF Adders
<1>11. ASSUME NEW p \in Procs, Spawn(p) PROVE UidsDistinct' /\ RunningHasAgent'
  <2>1. /\ leases' = leases /\ nextUID' = nextUID + 1
        /\ DOMAIN agents' = DOMAIN agents \cup {nextUID}
        /\ agents'[nextUID] = job[p].worker
        /\ \A u \in DOMAIN agents : LivesOn(u)
    BY <1>0, <1>11 DEF Spawn, store, put, LivesOn
  <2>2. /\ job'[p].uid = nextUID /\ job'[p].worker = job[p].worker
        /\ \A q \in Procs \ {p} : pc'[q] = pc[q] /\ job'[q] = job[q]
    BY <1>0, <1>11 DEF Spawn, Job
  <2>3. RunningHasAgent'
    BY <1>1, <2>1 DEF RunningHasAgent, LivesOn
  <2>4. ASSUME NEW q \in Procs, pc'[q] = "add"
        PROVE  /\ job'[q].uid \in DOMAIN agents'
               /\ agents'[job'[q].uid] = job'[q].worker
               /\ \A w \in DOMAIN leases' : leases'[w].uid # job'[q].uid
    <3>1. CASE q = p
      BY <1>0, <1>1, <2>1, <2>2, <3>1 DEF UidsDistinct
    <3>2. CASE q # p
      BY <1>1, <2>1, <2>2, <2>4, <3>2 DEF UidsDistinct, LivesOn
    <3>. QED
      BY <3>1, <3>2
  <2>5. \A w \in DOMAIN leases' : leases'[w].uid \in 1..(nextUID' - 1)
    BY <1>0, <1>1, <2>1 DEF UidsDistinct
  <2>. QED
    BY <1>1, <2>1, <2>3, <2>4, <2>5 DEF UidsDistinct
<1>12. ASSUME NEW p \in Procs, Add(p) PROVE UidsDistinct' /\ RunningHasAgent'
  <2>. DEFINE W == job[p].worker
  <2>1. /\ pc[p] = "add" /\ pc'[p] = "publish"
        /\ W \notin DOMAIN leases
        /\ \A q \in Procs \ {p} : pc'[q] = pc[q] /\ job'[q] = job[q]
        /\ \A q \in Procs \ {p} : pc[q] = "add" => job[q].worker # W
        /\ agents' = agents /\ nextUID' = nextUID
    BY <1>0, <1>12 DEF Add, iso, FreshWorkerID
  <2>2. /\ DOMAIN leases' = DOMAIN leases \cup {W}
        /\ leases'[W].uid = job[p].uid
        /\ \A w \in DOMAIN leases : leases'[w] = leases[w]
    BY <1>12, <2>1 DEF Add, put
  <2>3. /\ job[p].uid \in DOMAIN agents
        /\ agents[job[p].uid] = W
        /\ \A w \in DOMAIN leases : leases[w].uid # job[p].uid
    BY <1>1, <2>1 DEF UidsDistinct
  <2>4. RunningHasAgent'
    BY <1>1, <2>1, <2>2, <2>3 DEF RunningHasAgent
  <2>5. ASSUME NEW q \in Procs, pc'[q] = "add"
        PROVE  /\ job'[q].uid \in DOMAIN agents'
               /\ agents'[job'[q].uid] = job'[q].worker
               /\ \A w \in DOMAIN leases' : leases'[w].uid # job'[q].uid
    <3>1. q # p /\ pc[q] = "add" /\ job'[q] = job[q]
      BY <2>1, <2>5
    <3>2. /\ job[q].uid \in DOMAIN agents
          /\ agents[job[q].uid] = job[q].worker
          /\ \A w \in DOMAIN leases : leases[w].uid # job[q].uid
      BY <1>1, <3>1 DEF UidsDistinct
    <3>3. job[q].uid # job[p].uid
      BY <2>1, <2>3, <3>1, <3>2
    <3>. QED
      BY <2>1, <2>2, <3>1, <3>2, <3>3
  <2>6. \A w \in DOMAIN leases' : leases'[w].uid \in 1..(nextUID' - 1)
    BY <1>0, <1>1, <2>1, <2>2, <2>3 DEF UidsDistinct
  <2>7. \A v, w \in DOMAIN leases' : v # w => leases'[v].uid # leases'[w].uid
    BY <1>1, <2>2, <2>3 DEF UidsDistinct
  <2>. QED
    BY <2>4, <2>5, <2>6, <2>7 DEF UidsDistinct
<1>13. ~IsolationRestart /\ ~AgentExits
  BY DEF IsolationRestart, AgentExits
<1>. QED
  BY <1>5, <1>6, <1>7, <1>8, <1>9, <1>10, <1>11, <1>12, <1>13 DEF Next, Step

\* While the isolation service neither restarts nor loses agents on its own, a
\* running lease has its agent: whatever the interleaving of requests, sweeps and
\* clean-ups, whatever calls fail, and across restarts of the supervisor.
THEOREM RunningHasAgentCorrect ==
  ASSUME Faults \cap {"iso_restart", "agent_exits"} = {}
  PROVE  Spec => []RunningHasAgent
<1>1. Init => AgentInv
  BY ProcAssumption DEF Init, AgentInv, KillOK, Remembers, Ending, UidsDistinct, RunningHasAgent, NoJob, Procs
<1>2. TypeInv /\ FreshWorkerID /\ AgentInv /\ [Next]_vars => AgentInv'
  BY KillStep, AgentStep DEF AgentInv
<1>3. AgentInv => RunningHasAgent
  BY DEF AgentInv
<1>. QED
  BY <1>1, <1>2, <1>3, TypeInvariant, FreshWorkerIDCorrect, PTL DEF Spec

-----------------------------------------------------------------------------
(* Leaks                                                                   *)
(*                                                                         *)
(* NoAgentLeaks is not inductive: whoever cleans up after a worker kills   *)
(* the uid it copied from the lease, which must be the agent's own, and    *)
(* the loop must come back for every lease that it expired.                *)
(***************************************************************************)

\* The loop leaves no expired lease behind when it goes to sleep.
LoopOK ==
  /\ pc[Loop] \in {"idle", "sweep", "refetch", "publish", "kill"}
  /\ pc[Loop] = "publish" => job[Loop].topic = "terminated"
  /\ pc[Loop] = "idle" => job[Loop].cands = {}

AccountedFor ==
  \A uid \in DOMAIN agents :
    LET w == agents[uid] IN
    \/ /\ w \in DOMAIN leases /\ leases[w].uid = uid
       /\ leases[w].state = "running" \/ \E p \in Procs : CleaningUp(p, w)
    \/ \E p \in Procs : pc[p] = "add" /\ job[p].worker = w /\ job[p].uid = uid

\* The handlers do not disturb the loop, which goes round.
LEMMA LoopStep == TypeInv /\ LoopOK /\ [Next]_vars => LoopOK'
<1>. SUFFICES ASSUME TypeInv, LoopOK, [Next]_vars PROVE LoopOK'
  OBVIOUS
<1>0. /\ pc \in [Procs -> Steps] /\ job \in [Procs -> Job]
      /\ Loop \in Procs /\ \A t \in Handlers : t \in Procs /\ t # Loop
      /\ \A p \in Procs : pc[p] \in EnsureSteps => p # Loop
  BY ProcAssumption DEF TypeInv, TypeOK, JobOK, Procs
<1>. USE DEF LoopOK, At, Goto, Done
<1>1. ASSUME pc'[Loop] = pc[Loop], job'[Loop] = job[Loop] PROVE LoopOK'
  BY <1>1
<1>2. ASSUME NEW t \in Handlers, Request(t) PROVE LoopOK'
  BY <1>0, <1>1, <1>2 DEF Request, EnsureWorker, ReleaseWorker, TerminateWorker
<1>3. ASSUME NEW p \in Procs, Snapshot(p) \/ Choose(p) \/ ChooseNone(p) \/ GetReused(p)
                              \/ CheckBudget(p) \/ OverBudget(p)
      PROVE  LoopOK'
  <2>1. p # Loop
    BY <1>0, <1>3 DEF Snapshot, Choose, ChooseNone, GetReused, CheckBudget, OverBudget, EnsureSteps
  <2>. QED
    BY <1>0, <1>1, <1>3, <2>1 DEF Snapshot, Choose, ChooseNone, GetReused, CheckBudget, OverBudget
<1>4. ASSUME NEW p \in Procs, Spawn(p) \/ SpawnFails(p) \/ SpawnReplyLost(p) \/ Add(p)
      PROVE  LoopOK'
  <2>1. p # Loop
    BY <1>0, <1>4 DEF Spawn, SpawnFails, SpawnReplyLost, Add, EnsureSteps
  <2>. QED
    BY <1>0, <1>1, <1>4, <2>1 DEF Spawn, SpawnFails, SpawnReplyLost, Add
<1>5. ASSUME NEW p \in Procs, UpdateState(p) \/ UpdateRefused(p) PROVE LoopOK'
  <2>1. p # Loop
    BY <1>5 DEF UpdateState, UpdateRefused, EndState
  <2>. QED
    BY <1>0, <1>1, <1>5, <2>1 DEF UpdateState, UpdateRefused
<1>6. ASSUME NEW p \in Procs, Refetch(p) PROVE LoopOK'
  BY <1>0, <1>6 DEF Refetch, Job
<1>7. ASSUME NEW p \in Procs, Publish(p) \/ Kill(p) \/ KillFails(p) PROVE LoopOK'
  BY <1>0, <1>7 DEF Publish, Kill, KillFails, AfterKill, NoJob
<1>8. CASE ExpireLeases \/ SweepNext
  <2>1. CASE ExpireLeases
    BY <1>0, <2>1 DEF ExpireLeases, Job
  <2>2. CASE SweepNext
    BY <1>0, <2>2 DEF SweepNext
  <2>. QED
    BY <1>8, <2>1, <2>2
<1>9. CASE Crash
  BY <1>0, <1>9 DEF Crash, NoJob
<1>10. CASE Tick \/ IsolationRestart \/ AgentExits \/ UNCHANGED vars
  BY <1>10 DEF Tick, IsolationRestart, AgentExits, vars
<1>. QED
  BY <1>2, <1>3, <1>4, <1>5, <1>6, <1>7, <1>8, <1>9, <1>10 DEF Next, Step

AgentsShrink == \A u \in DOMAIN agents' : u \in DOMAIN agents /\ agents'[u] = agents[u]

RunningGoOn == \A w \in DOMAIN leases : leases[w].state = "running" => leases'[w].state = "running"

\* One goroutine moves, no agent is born, no lease ends and no clean-up either.
LEMMA LeakFrame ==
  ASSUME AccountedFor, LeasesKept, RunningGoOn, AgentsShrink,
         NEW p \in Procs, \A q \in Procs \ {p} : pc'[q] = pc[q] /\ job'[q] = job[q],
         pc[p] # "add" \/ UNCHANGED <<pc, job>>,
         \A w \in DOMAIN leases : CleaningUp(p, w) => CleaningUp(p, w)'
  PROVE  AccountedFor'
<1>. SUFFICES ASSUME NEW uid \in DOMAIN agents', NEW w, w = agents'[uid]
              PROVE  \/ /\ w \in DOMAIN leases' /\ leases'[w].uid = uid
                        /\ leases'[w].state = "running" \/ \E q \in Procs : CleaningUp(q, w)'
                     \/ \E q \in Procs : pc'[q] = "add" /\ job'[q].worker = w /\ job'[q].uid = uid
  BY DEF AccountedFor
<1>1. uid \in DOMAIN agents /\ agents[uid] = w
  BY DEF AgentsShrink
<1>2. CASE w \in DOMAIN leases /\ leases[w].uid = uid /\ leases[w].state = "running"
  BY <1>2 DEF LeasesKept, RunningGoOn
<1>3. ASSUME w \in DOMAIN leases /\ leases[w].uid = uid, NEW q \in Procs, CleaningUp(q, w)
      PROVE  w \in DOMAIN leases' /\ leases'[w].uid = uid /\ CleaningUp(q, w)'
  <2>1. CASE q = p
    BY <1>3, <2>1 DEF LeasesKept
  <2>2. CASE q # p
    BY <1>3, <2>2 DEF LeasesKept, CleaningUp, At
  <2>. QED
    BY <2>1, <2>2
<1>4. ASSUME NEW q \in Procs, pc[q] = "add" /\ job[q].worker = w /\ job[q].uid = uid
      PROVE  pc'[q] = "add" /\ job'[q].worker = w /\ job'[q].uid = uid
  BY <1>4
<1>. QED
  BY <1>1, <1>2, <1>3, <1>4 DEF AccountedFor

\* While calls get through, every step accounts for every agent that lives on.
LEMMA LeakStep ==
  ASSUME Faults \cap {"reply_lost", "kill_fails", "crash"} = {},
         TypeInv, FreshWorkerID, KillOK, LoopOK, AccountedFor, [Next]_vars
  PROVE  AccountedFor'
<1>0. /\ pc \in [Procs -> Steps] /\ job \in [Procs -> Job]
      /\ leases \in [DOMAIN leases -> Lease]
      /\ nextUID \in Nat \ {0} /\ DOMAIN agents \subseteq 1..(nextUID - 1)
      /\ Loop \in Procs /\ \A t \in Handlers : t \in Procs /\ t # Loop
      /\ \A p \in Procs : pc[p] \in EnsureSteps => p # Loop
  BY ProcAssumption DEF TypeInv, TypeOK, JobOK, Procs
<1>1. ~Crash
  BY DEF Crash
<1>2. LeasesKept
  BY <1>1, LeaseStep
<1>. USE DEF At, Goto, Done
<1>3. \A p \in Procs : p # Loop /\ ~Ending(p) => \A w \in DOMAIN leases : ~CleaningUp(p, w)
  BY DEF CleaningUp, Ending
\* A goroutine that is not cleaning up moves.
<1>4. ASSUME NEW p \in Procs, p # Loop, ~Ending(p), pc[p] # "add", RunningGoOn, AgentsShrink,
             \A q \in Procs \ {p} : pc'[q] = pc[q] /\ job'[q] = job[q]
      PROVE  AccountedFor'
  BY <1>2, <1>3, <1>4, LeakFrame
<1>5. ASSUME UNCHANGED <<leases, pc, job>>, AgentsShrink PROVE AccountedFor'
  <2>1. RunningGoOn
    BY <1>5 DEF RunningGoOn
  <2>2. \A w \in DOMAIN leases : CleaningUp(Loop, w) => CleaningUp(Loop, w)'
    BY <1>5 DEF CleaningUp
  <2>. QED
    BY <1>0, <1>2, <1>5, <2>1, <2>2, LeakFrame
<1>6. ASSUME NEW t \in Handlers, Request(t) PROVE AccountedFor'
  <2>1. pc[t] = "idle" /\ UNCHANGED <<leases, agents>>
    BY <1>6 DEF Request, EnsureWorker, ReleaseWorker, TerminateWorker, store, iso
  <2>2. \A q \in Procs \ {t} : pc'[q] = pc[q] /\ job'[q] = job[q]
    BY <1>0, <1>6 DEF Request, EnsureWorker, ReleaseWorker, TerminateWorker
  <2>. QED
    BY <1>0, <1>4, <2>1, <2>2 DEF Ending, RunningGoOn, AgentsShrink
<1>7. ASSUME NEW p \in Procs, Snapshot(p) \/ Choose(p) \/ ChooseNone(p) \/ GetReused(p)
                              \/ CheckBudget(p) \/ OverBudget(p) \/ SpawnFails(p)
      PROVE  AccountedFor'
  <2>1. pc[p] \in {"snapshot", "choose", "get", "budget", "spawn"} /\ UNCHANGED <<leases, agents>>
    BY <1>7 DEF Snapshot, Choose, ChooseNone, GetReused, CheckBudget, OverBudget, SpawnFails, store, iso
  <2>2. \A q \in Procs \ {p} : pc'[q] = pc[q] /\ job'[q] = job[q]
    BY <1>0, <1>7 DEF Snapshot, Choose, ChooseNone, GetReused, CheckBudget, OverBudget, SpawnFails
  <2>. QED
    BY <1>0, <1>4, <2>1, <2>2 DEF Ending, RunningGoOn, AgentsShrink, EnsureSteps
<1>8. ASSUME NEW p \in Procs, UpdateRefused(p) PROVE AccountedFor'
  <2>1. p # Loop /\ pc[p] \in {"release", "terminate"} /\ UNCHANGED <<leases, agents>>
    BY <1>8 DEF UpdateRefused, EndState, LoopOK, store, iso
  <2>2. \A q \in Procs \ {p} : pc'[q] = pc[q] /\ job'[q] = job[q]
    BY <1>0, <1>8 DEF UpdateRefused
  <2>. QED
    BY <1>4, <2>1, <2>2 DEF Ending, RunningGoOn, AgentsShrink
<1>9. ASSUME NEW p \in Procs, Refetch(p) \/ Publish(p) PROVE AccountedFor'
  <2>1. RunningGoOn /\ AgentsShrink
    BY <1>9 DEF Refetch, Publish, RunningGoOn, AgentsShrink, store, iso
  <2>2. \A q \in Procs \ {p} : pc'[q] = pc[q] /\ job'[q] = job[q]
    BY <1>0, <1>9 DEF Refetch, Publish
  <2>3. pc[p] # "add"
    BY <1>9 DEF Refetch, Publish
  <2>4. \A w \in DOMAIN leases : CleaningUp(p, w) => CleaningUp(p, w)'
    <3>1. CASE Refetch(p)
      BY <1>0, <3>1 DEF Refetch, CleaningUp, Job
    <3>2. CASE Publish(p) /\ job[p].topic = "terminated"
      BY <1>0, <3>2 DEF Publish, CleaningUp
    <3>3. CASE Publish(p) /\ job[p].topic # "terminated"
      BY <1>0, <3>3 DEF Publish, CleaningUp, LoopOK
    <3>. QED
      BY <1>9, <3>1, <3>2, <3>3
  <2>. QED
    BY <1>2, <2>1, <2>2, <2>3, <2>4, LeakFrame
<1>10. CASE SweepNext
  <2>1. RunningGoOn /\ AgentsShrink
    BY <1>10 DEF SweepNext, RunningGoOn, AgentsShrink, store, iso
  <2>2. \A q \in Procs \ {Loop} : pc'[q] = pc[q] /\ job'[q] = job[q]
    BY <1>0, <1>10 DEF SweepNext
  <2>3. \A w \in DOMAIN leases : CleaningUp(Loop, w) => CleaningUp(Loop, w)'
    <3>1. PICK v \in job[Loop].cands :
            job' = [job EXCEPT ![Loop].cands = @ \ {v}, ![Loop].worker = v, ![Loop].uid = leases[v].uid]
      BY <1>10 DEF SweepNext
    <3>2. job'[Loop].cands = job[Loop].cands \ {v} /\ job'[Loop].worker = v
      BY <1>0, <3>1 DEF Job
    <3>3. pc[Loop] = "sweep" /\ pc'[Loop] = "refetch"
      BY <1>0, <1>10 DEF SweepNext
    <3>. QED
      BY <3>2, <3>3 DEF CleaningUp
  <2>. QED
    BY <1>0, <1>2, <1>10, <2>1, <2>2, <2>3, LeakFrame DEF SweepNext
<1>11. CASE Tick \/ IsolationRestart \/ AgentExits \/ UNCHANGED vars
  BY <1>5, <1>11 DEF Tick, IsolationRestart, AgentExits, vars, store, iso, AgentsShrink, Restrict
<1>12. ASSUME NEW p \in Procs, SpawnReplyLost(p) \/ KillFails(p) PROVE AccountedFor'
  BY <1>12 DEF SpawnReplyLost, KillFails

\* The steps that create, record, end and kill.
<1>13. ASSUME NEW p \in Procs, Spawn(p) PROVE AccountedFor'
  <2>1. /\ leases' = leases /\ pc[p] = "spawn" /\ pc'[p] = "add"
        /\ DOMAIN agents' = DOMAIN agents \cup {nextUID} /\ nextUID \notin DOMAIN agents
        /\ agents'[nextUID] = job[p].worker
        /\ \A u \in DOMAIN agents : agents'[u] = agents[u]
    BY <1>0, <1>13 DEF Spawn, store, put
  <2>2. /\ job'[p].uid = nextUID /\ job'[p].worker = job[p].worker
        /\ \A q \in Procs \ {p} : pc'[q] = pc[q] /\ job'[q] = job[q]
    BY <1>0, <1>13 DEF Spawn, Job
  <2>3. \A q \in Procs, w \in DOMAIN leases : CleaningUp(q, w) => CleaningUp(q, w)'
    <3>1. p # Loop /\ ~Ending(p)
      BY <1>0, <2>1 DEF EnsureSteps, Ending
    <3>. QED
      BY <1>3, <2>2, <3>1 DEF CleaningUp
  <2>. SUFFICES ASSUME NEW uid \in DOMAIN agents', NEW w, w = agents'[uid]
                PROVE  \/ /\ w \in DOMAIN leases' /\ leases'[w].uid = uid
                          /\ leases'[w].state = "running" \/ \E q \in Procs : CleaningUp(q, w)'
                       \/ \E q \in Procs : pc'[q] = "add" /\ job'[q].worker = w /\ job'[q].uid = uid
    BY DEF AccountedFor
  <2>4. CASE uid = nextUID
    BY <2>1, <2>2, <2>4
  <2>5. CASE uid # nextUID
    <3>1. uid \in DOMAIN agents /\ agents[uid] = w
      BY <2>1, <2>5
    <3>. QED
      BY <2>1, <2>2, <2>3, <3>1 DEF AccountedFor
  <2>. QED
    BY <2>4, <2>5
<1>14. ASSUME NEW p \in Procs, Add(p) PROVE AccountedFor'
  <2>. DEFINE W == job[p].worker
  <2>1. /\ pc[p] = "add" /\ W \notin DOMAIN leases
        /\ \A q \in Procs \ {p} : pc'[q] = pc[q] /\ job'[q] = job[q]
        /\ agents' = agents
    BY <1>0, <1>14 DEF Add, iso, FreshWorkerID
  <2>2. /\ DOMAIN leases' = DOMAIN leases \cup {W}
        /\ leases'[W].uid = job[p].uid /\ leases'[W].state = "running"
        /\ \A w \in DOMAIN leases : leases'[w] = leases[w]
    BY <1>14, <2>1 DEF Add, put
  <2>3. \A q \in Procs, w \in DOMAIN leases : CleaningUp(q, w) => CleaningUp(q, w)'
    <3>1. p # Loop /\ ~Ending(p)
      BY <1>0, <2>1 DEF EnsureSteps, Ending
    <3>. QED
      BY <1>3, <2>1, <3>1 DEF CleaningUp
  <2>. SUFFICES ASSUME NEW uid \in DOMAIN agents', NEW w, w = agents'[uid]
                PROVE  \/ /\ w \in DOMAIN leases' /\ leases'[w].uid = uid
                          /\ leases'[w].state = "running" \/ \E q \in Procs : CleaningUp(q, w)'
                       \/ \E q \in Procs : pc'[q] = "add" /\ job'[q].worker = w /\ job'[q].uid = uid
    BY DEF AccountedFor
  <2>4. CASE W = w /\ job[p].uid = uid
    BY <2>2, <2>4
  <2>5. ASSUME NEW q \in Procs, q # p, pc[q] = "add" /\ job[q].worker = w /\ job[q].uid = uid
        PROVE  pc'[q] = "add" /\ job'[q].worker = w /\ job'[q].uid = uid
    BY <2>1, <2>5
  <2>. QED
    BY <2>1, <2>2, <2>3, <2>4, <2>5 DEF AccountedFor
<1>15. ASSUME NEW p \in Procs, UpdateState(p) PROVE AccountedFor'
  <2>. DEFINE W == job[p].worker
  <2>1. /\ pc[p] \in {"release", "terminate"} /\ pc'[p] = "refetch" /\ p # Loop
        /\ W \in DOMAIN leases
        /\ leases' = [leases EXCEPT ![W].state = EndState[pc[p]]]
        /\ job' = job /\ agents' = agents
        /\ \A q \in Procs \ {p} : pc'[q] = pc[q]
    BY <1>0, <1>15 DEF UpdateState, EndState, EndSteps, iso, LoopOK, TypeInv, RememberedIsStored
  <2>2. CleaningUp(p, W)'
    BY <2>1 DEF CleaningUp
  <2>3. \A q \in Procs, w \in DOMAIN leases : CleaningUp(q, w) => CleaningUp(q, w)'
    <3>1. ~Ending(p)
      BY <2>1 DEF Ending
    <3>. QED
      BY <1>3, <2>1, <3>1 DEF CleaningUp
  <2>. SUFFICES ASSUME NEW uid \in DOMAIN agents', NEW w, w = agents'[uid]
                PROVE  \/ /\ w \in DOMAIN leases' /\ leases'[w].uid = uid
                          /\ leases'[w].state = "running" \/ \E q \in Procs : CleaningUp(q, w)'
                       \/ \E q \in Procs : pc'[q] = "add" /\ job'[q].worker = w /\ job'[q].uid = uid
    BY DEF AccountedFor
  <2>4. CASE w = W /\ leases[w].uid = uid
    <3>1. CleaningUp(p, w)'
      BY <2>1, <2>2, <2>4
    <3>. QED
      BY <1>2, <2>1, <2>4, <3>1 DEF LeasesKept
  <2>5. CASE w # W /\ w \in DOMAIN leases
    <3>1. leases'[w] = leases[w]
      BY <1>0, <2>1, <2>5
    <3>. QED
      BY <1>2, <2>1, <2>3, <2>5, <3>1 DEF AccountedFor, LeasesKept
  <2>6. ASSUME NEW q \in Procs, pc[q] = "add" /\ job[q].worker = w /\ job[q].uid = uid
        PROVE  pc'[q] = "add" /\ job'[q].worker = w /\ job'[q].uid = uid
    BY <2>1, <2>6
  <2>. QED
    BY <2>1, <2>4, <2>5, <2>6 DEF AccountedFor
<1>16. CASE ExpireLeases
  <2>. DEFINE expired == {w \in DOMAIN leases : leases[w].state = "running" /\ Overdue(leases[w], clock)}
  <2>1. /\ pc[Loop] = "idle" /\ job[Loop].cands = {}
        /\ job'[Loop].cands = expired /\ agents' = agents
        /\ \A q \in Procs \ {Loop} : pc'[q] = pc[q] /\ job'[q] = job[q]
        /\ \A w \in DOMAIN leases \ expired : leases'[w] = leases[w]
    BY <1>0, <1>16 DEF ExpireLeases, iso, LoopOK
  <2>. HIDE DEF expired
  <2>2. \A w \in expired : CleaningUp(Loop, w)'
    BY <2>1 DEF CleaningUp
  <2>3. \A q \in Procs, w \in DOMAIN leases : CleaningUp(q, w) => q # Loop /\ CleaningUp(q, w)'
    BY <2>1 DEF CleaningUp
  <2>. SUFFICES ASSUME NEW uid \in DOMAIN agents', NEW w, w = agents'[uid]
                PROVE  \/ /\ w \in DOMAIN leases' /\ leases'[w].uid = uid
                          /\ leases'[w].state = "running" \/ \E q \in Procs : CleaningUp(q, w)'
                       \/ \E q \in Procs : pc'[q] = "add" /\ job'[q].worker = w /\ job'[q].uid = uid
    BY DEF AccountedFor
  <2>4. CASE w \in expired /\ w \in DOMAIN leases /\ leases[w].uid = uid
    BY <1>0, <1>2, <2>2, <2>4 DEF LeasesKept
  <2>5. CASE w \in DOMAIN leases \ expired
    BY <1>2, <2>1, <2>3, <2>5 DEF AccountedFor, LeasesKept
  <2>6. ASSUME NEW q \in Procs, pc[q] = "add" /\ job[q].worker = w /\ job[q].uid = uid
        PROVE  pc'[q] = "add" /\ job'[q].worker = w /\ job'[q].uid = uid
    BY <2>1, <2>6
  <2>. QED
    BY <2>1, <2>4, <2>5, <2>6 DEF AccountedFor
<1>17. ASSUME NEW p \in Procs, Kill(p) PROVE AccountedFor'
  <2>1. /\ pc[p] = "kill" /\ UNCHANGED leases
        /\ DOMAIN agents' = DOMAIN agents \ {job[p].uid}
        /\ \A u \in DOMAIN agents' : agents'[u] = agents[u]
    BY <1>17 DEF Kill, store, Restrict
  <2>2. /\ job[p].worker \in DOMAIN leases
        /\ job[p].uid = leases[job[p].worker].uid
    BY <2>1 DEF KillOK, Remembers, Ending
  <2>3. \A q \in Procs \ {p} : pc'[q] = pc[q] /\ job'[q] = job[q]
    BY <1>0, <1>17 DEF Kill, AfterKill
  <2>4. \A w \in DOMAIN leases : w # job[p].worker /\ CleaningUp(p, w) => CleaningUp(p, w)'
    BY <1>0, <1>17 DEF Kill, AfterKill, CleaningUp
  <2>. SUFFICES ASSUME NEW uid \in DOMAIN agents', NEW w, w = agents'[uid]
                PROVE  \/ /\ w \in DOMAIN leases' /\ leases'[w].uid = uid
                          /\ leases'[w].state = "running" \/ \E q \in Procs : CleaningUp(q, w)'
                       \/ \E q \in Procs : pc'[q] = "add" /\ job'[q].worker = w /\ job'[q].uid = uid
    BY DEF AccountedFor
  <2>5. uid \in DOMAIN agents /\ agents[uid] = w /\ uid # job[p].uid
    BY <2>1
  <2>6. leases[w].uid = uid => w # job[p].worker
    BY <2>2, <2>5
  <2>7. ASSUME NEW q \in Procs, w \in DOMAIN leases, leases[w].uid = uid, CleaningUp(q, w)
        PROVE  CleaningUp(q, w)'
    <3>1. CASE q = p
      BY <2>4, <2>6, <2>7, <3>1
    <3>2. CASE q # p
      BY <2>3, <2>7, <3>2 DEF CleaningUp
    <3>. QED
      BY <3>1, <3>2
  <2>8. ASSUME NEW q \in Procs, pc[q] = "add" /\ job[q].worker = w /\ job[q].uid = uid
        PROVE  pc'[q] = "add" /\ job'[q].worker = w /\ job'[q].uid = uid
    BY <2>1, <2>3, <2>8
  <2>. QED
    BY <2>1, <2>5, <2>7, <2>8 DEF AccountedFor
<1>. QED
  BY <1>1, <1>6, <1>7, <1>8, <1>9, <1>10, <1>11, <1>12, <1>13, <1>14, <1>15, <1>16, <1>17 DEF Next, Step

\* While calls get through and the daemon lives, every agent belongs to a running
\* lease, is about to be recorded in one, or will be killed: whoever releases,
\* terminates and sweeps at the same time, and whatever agents exit meanwhile.
THEOREM NoAgentLeaksCorrect ==
  ASSUME Faults \cap {"reply_lost", "kill_fails", "crash"} = {}
  PROVE  Spec => []NoAgentLeaks
<1>. DEFINE LeakInv == KillOK /\ LoopOK /\ AccountedFor
<1>1. Init => LeakInv
  BY ProcAssumption DEF Init, KillOK, Remembers, Ending, LoopOK, AccountedFor, NoJob, Procs
<1>2. TypeInv /\ FreshWorkerID /\ LeakInv /\ [Next]_vars => LeakInv'
  BY KillStep, LoopStep, LeakStep
<1>3. LeakInv => NoAgentLeaks
  BY DEF AccountedFor, NoAgentLeaks, At
<1>. QED
  BY <1>1, <1>2, <1>3, TypeInvariant, FreshWorkerIDCorrect, PTL DEF Spec

-----------------------------------------------------------------------------
(* Terms are fixed                                                         *)
(***************************************************************************)

TermsKept ==
  \A w \in DOMAIN leases :
    /\ w \in DOMAIN leases'
    /\ leases'[w].profile = leases[w].profile
    /\ leases'[w].session = leases[w].session
    /\ leases'[w].requester = leases[w].requester
    /\ leases'[w].expires = leases[w].expires

\* While the daemon lives, no step changes the terms of a lease that was granted.
LEMMA TermsStep ==
  ASSUME TypeInv, FreshWorkerID, [Next]_vars, ~Crash
  PROVE  TermsKept
<1>. USE DEF TermsKept
<1>0. leases \in [DOMAIN leases -> Lease]
  BY DEF TypeInv, TypeOK
<1>1. ASSUME NEW p \in Procs, Add(p) PROVE TermsKept
  BY <1>0, <1>1 DEF Add, At, put, FreshWorkerID
<1>2. ASSUME NEW p \in Procs, UpdateState(p) PROVE TermsKept
  BY <1>0, <1>2 DEF UpdateState, Lease
<1>3. ASSUME ExpireLeases PROVE TermsKept
  BY <1>0, <1>3 DEF ExpireLeases, Lease
<1>4. ASSUME leases' = leases PROVE TermsKept
  BY <1>4
<1>. HIDE DEF TermsKept
<1>5. ASSUME NEW t \in Handlers, Request(t) PROVE TermsKept
  BY <1>4, <1>5 DEF Request, EnsureWorker, ReleaseWorker, TerminateWorker, store
<1>6. ASSUME NEW p \in Procs, Step(p) PROVE TermsKept
  <2>1. CASE Snapshot(p) \/ Choose(p) \/ ChooseNone(p) \/ GetReused(p) \/ CheckBudget(p) \/ OverBudget(p)
    BY <1>4, <2>1 DEF Snapshot, Choose, ChooseNone, GetReused, CheckBudget, OverBudget, store
  <2>2. CASE Spawn(p) \/ SpawnFails(p) \/ SpawnReplyLost(p)
    BY <1>4, <2>2 DEF Spawn, SpawnFails, SpawnReplyLost, store
  <2>3. CASE UpdateRefused(p) \/ Refetch(p) \/ Publish(p) \/ Kill(p) \/ KillFails(p)
    BY <1>4, <2>3 DEF UpdateRefused, Refetch, Publish, Kill, KillFails, store
  <2>. QED
    BY <1>1, <1>2, <1>6, <2>1, <2>2, <2>3 DEF Step
<1>7. ASSUME SweepNext \/ Tick \/ IsolationRestart \/ AgentExits \/ UNCHANGED vars PROVE TermsKept
  BY <1>4, <1>7 DEF SweepNext, Tick, IsolationRestart, AgentExits, vars, store
<1>. QED
  BY <1>3, <1>5, <1>6, <1>7 DEF Next

-----------------------------------------------------------------------------
(* Limits                                                                  *)
(*                                                                         *)
(* A handler carries the expiry it computed from the request over remote   *)
(* calls until it stores the lease; LimitsOK bounds it there too. Time     *)
(* only relaxes a bound.                                                   *)
(***************************************************************************)

Within(expires, profile, peer, now) ==
  \A max \in {ProfileOf[profile].maxLease, GrantOf[peer].maxLease} :
    max > 0 => expires # NoExpiry /\ expires <= now + max

LimitsOK ==
  /\ \A p \in Procs : pc[p] \in EnsureSteps =>
       Within(job[p].expires, job[p].profile, job[p].peer, clock)
  /\ \A w \in DOMAIN leases :
       /\ leases[w].requester \in DOMAIN GrantOf
       /\ Within(leases[w].expires, leases[w].profile, leases[w].requester, clock)

\* Limits are numbers.
LEMMA LimitType ==
  ASSUME NEW profile \in DOMAIN ProfileOf, NEW peer \in DOMAIN GrantOf
  PROVE  ProfileOf[profile].maxLease \in Nat /\ GrantOf[peer].maxLease \in Nat
BY RegistryAssumption DEF Profile, Grant

\* What leaseExpiry returns keeps both limits, whatever length was asked for.
LEMMA ExpiryWithin ==
  ASSUME NEW now \in Nat, NEW peer \in DOMAIN GrantOf, NEW profile \in DOMAIN ProfileOf,
         NEW seconds \in Int, LeaseAccepted(peer, profile, seconds)
  PROVE  Within(LeaseExpiry(now, peer, profile, seconds), profile, peer, now)
BY LimitType, NoExpiryAssumption DEF Within, LeaseExpiry, LeaseAccepted, EffectiveMax

\* A bound that holds now holds later.
LEMMA WithinLater ==
  ASSUME NEW now \in Nat, NEW later \in Nat, now <= later,
         NEW peer \in DOMAIN GrantOf, NEW profile \in DOMAIN ProfileOf,
         NEW expires \in Nat \cup {NoExpiry},
         Within(expires, profile, peer, now)
  PROVE  Within(expires, profile, peer, later)
BY LimitType DEF Within

\* Nobody starts to ensure a worker, and who does keeps to the request.
Ensuring ==
  \A p \in Procs : pc'[p] \in EnsureSteps =>
    /\ pc[p] \in EnsureSteps
    /\ job'[p].peer = job[p].peer
    /\ job'[p].session = job[p].session
    /\ job'[p].profile = job[p].profile
    /\ job'[p].expires = job[p].expires

\* EnsureWorker is the only way into the handler, Add the only lease out of it.
LEMMA EnsuringStep ==
  ASSUME TypeInv, [Next]_vars,
         \A t \in Handlers, r \in EnsureRequests : ~EnsureWorker(t, r)
  PROVE  Ensuring
<1>0. /\ pc \in [Procs -> Steps] /\ job \in [Procs -> Job]
      /\ Loop \in Procs /\ \A t \in Handlers : t \in Procs
  BY ProcAssumption DEF TypeInv, TypeOK, Procs
<1>. USE DEF Ensuring, EnsureSteps, At, Goto, Done
<1>1. ASSUME NEW t \in Handlers, Request(t) PROVE Ensuring
  BY <1>0, <1>1 DEF Request, ReleaseWorker, TerminateWorker
<1>2. ASSUME NEW p \in Procs, Snapshot(p) \/ Choose(p) \/ ChooseNone(p) PROVE Ensuring
  <2>1. CASE Snapshot(p)
    BY <1>0, <2>1 DEF Snapshot, Job
  <2>2. CASE Choose(p)
    BY <1>0, <2>2 DEF Choose, Job
  <2>3. CASE ChooseNone(p)
    BY <1>0, <2>3 DEF ChooseNone, Job
  <2>. QED
    BY <1>2, <2>1, <2>2, <2>3
<1>3. ASSUME NEW p \in Procs, GetReused(p) \/ CheckBudget(p) \/ OverBudget(p) PROVE Ensuring
  BY <1>0, <1>3 DEF GetReused, CheckBudget, OverBudget, Job
<1>4. ASSUME NEW p \in Procs, Spawn(p) PROVE Ensuring
  BY <1>0, <1>4 DEF Spawn, Job
<1>5. ASSUME NEW p \in Procs, SpawnFails(p) \/ SpawnReplyLost(p) \/ Add(p) PROVE Ensuring
  BY <1>0, <1>5 DEF SpawnFails, SpawnReplyLost, Add
<1>6. ASSUME NEW p \in Procs, UpdateState(p) \/ UpdateRefused(p) \/ Refetch(p) PROVE Ensuring
  BY <1>0, <1>6 DEF UpdateState, UpdateRefused, Refetch
<1>7. ASSUME NEW p \in Procs, Publish(p) \/ Kill(p) \/ KillFails(p) PROVE Ensuring
  BY <1>0, <1>7 DEF Publish, Kill, KillFails, AfterKill
<1>8. CASE ExpireLeases \/ SweepNext \/ Crash
  BY <1>0, <1>8 DEF ExpireLeases, SweepNext, Crash
<1>9. CASE Tick \/ IsolationRestart \/ AgentExits \/ UNCHANGED vars
  BY <1>9 DEF Tick, IsolationRestart, AgentExits, vars
<1>. QED
  BY <1>1, <1>2, <1>3, <1>4, <1>5, <1>6, <1>7, <1>8, <1>9 DEF Next, Step

\* No step takes a lease, stored or about to be, beyond its limits.
LEMMA LimitsStep == TypeInv /\ TypeInv' /\ FreshWorkerID /\ LimitsOK /\ [Next]_vars => LimitsOK'
<1>. SUFFICES ASSUME TypeInv, TypeInv', FreshWorkerID, LimitsOK, [Next]_vars PROVE LimitsOK'
  OBVIOUS
<1>0. /\ pc \in [Procs -> Steps] /\ job \in [Procs -> Job]
      /\ leases \in [DOMAIN leases -> Lease]
      /\ clock \in Nat
      /\ \A t \in Handlers : t \in Procs
      /\ \A p \in Procs : pc[p] \in EnsureSteps =>
           job[p].profile \in DOMAIN ProfileOf /\ job[p].peer \in DOMAIN GrantOf
  BY DEF TypeInv, TypeOK, JobOK, Procs
<1>1. CASE Crash
  BY <1>1 DEF Crash, LimitsOK, EnsureSteps
<1>. SUFFICES ASSUME ~Crash PROVE LimitsOK'
  BY <1>1
<1>2. TermsKept
  BY TermsStep
<1>3. clock' \in Nat /\ clock <= clock'
  <2>1. CASE Tick
    BY <1>0, <2>1 DEF Tick
  <2>2. CASE UNCHANGED clock
    BY <1>0, <2>2
  <2>3. ASSUME ~Tick PROVE UNCHANGED clock
    BY <2>3 DEF Next, Step, Request, EnsureWorker, ReleaseWorker, TerminateWorker, Snapshot, Choose,
       ChooseNone, GetReused, CheckBudget, OverBudget, Spawn, SpawnFails, SpawnReplyLost, Add,
       UpdateState, UpdateRefused, Refetch, Publish, Kill, KillFails, ExpireLeases, SweepNext,
       IsolationRestart, AgentExits, vars
  <2>. QED
    BY <2>1, <2>2, <2>3
<1>4. ASSUME NEW w \in DOMAIN leases
      PROVE  /\ leases'[w].requester \in DOMAIN GrantOf
             /\ Within(leases'[w].expires, leases'[w].profile, leases'[w].requester, clock')
  <2>1. /\ leases[w].profile \in DOMAIN ProfileOf
        /\ leases[w].requester \in DOMAIN GrantOf
        /\ leases[w].expires \in Nat \cup {NoExpiry}
        /\ Within(leases[w].expires, leases[w].profile, leases[w].requester, clock)
    BY <1>0 DEF LimitsOK, Lease
  <2>2. Within(leases[w].expires, leases[w].profile, leases[w].requester, clock')
    BY <1>0, <1>3, <2>1, WithinLater
  <2>. QED
    BY <1>2, <2>1, <2>2 DEF TermsKept
<1>5. ASSUME NEW p \in Procs, pc[p] \in EnsureSteps
      PROVE  Within(job[p].expires, job[p].profile, job[p].peer, clock')
  <2>1. job[p].expires \in Nat \cup {NoExpiry}
    BY <1>0 DEF Job
  <2>2. Within(job[p].expires, job[p].profile, job[p].peer, clock)
    BY <1>5 DEF LimitsOK
  <2>. QED
    BY <1>0, <1>3, <1>5, <2>1, <2>2, WithinLater
<1>6. ASSUME NEW t \in Handlers, NEW r \in EnsureRequests, EnsureWorker(t, r) PROVE LimitsOK'
  <2>1. /\ r.peer \in DOMAIN GrantOf /\ r.profile \in DOMAIN ProfileOf /\ r.seconds \in Int
        /\ LeaseAccepted(r.peer, r.profile, r.seconds)
        /\ leases' = leases /\ clock' = clock
        /\ \A q \in Procs \ {t} : pc'[q] = pc[q] /\ job'[q] = job[q]
    BY <1>0, <1>6, RequestAssumption DEF EnsureWorker, AllowedToRequest, EnsureRequest, Goto, store
  <2>2. /\ job'[t].peer = r.peer /\ job'[t].profile = r.profile
        /\ job'[t].expires = LeaseExpiry(clock, r.peer, r.profile, r.seconds)
    BY <1>0, <1>6 DEF EnsureWorker, NoJob
  <2>3. Within(job'[t].expires, job'[t].profile, job'[t].peer, clock)
    BY <1>0, <2>1, <2>2, ExpiryWithin
  <2>4. ASSUME NEW q \in Procs, pc'[q] \in EnsureSteps
        PROVE  Within(job'[q].expires, job'[q].profile, job'[q].peer, clock')
    BY <1>5, <2>1, <2>3, <2>4
  <2>. QED
    BY <1>4, <2>1, <2>4 DEF LimitsOK
<1>. SUFFICES ASSUME \A t \in Handlers, r \in EnsureRequests : ~EnsureWorker(t, r) PROVE LimitsOK'
  BY <1>6
<1>7. ASSUME NEW q \in Procs, pc'[q] \in EnsureSteps
      PROVE  Within(job'[q].expires, job'[q].profile, job'[q].peer, clock')
  BY <1>5, <1>7, EnsuringStep DEF Ensuring
<1>8. ASSUME NEW w \in DOMAIN leases', w \notin DOMAIN leases
      PROVE  /\ leases'[w].requester \in DOMAIN GrantOf
             /\ Within(leases'[w].expires, leases'[w].profile, leases'[w].requester, clock')
  <2>1. PICK p \in Procs : Add(p)
    BY <1>8 DEF Next, Step, Request, EnsureWorker, ReleaseWorker, TerminateWorker, Snapshot, Choose,
       ChooseNone, GetReused, CheckBudget, OverBudget, Spawn, SpawnFails, SpawnReplyLost,
       UpdateState, UpdateRefused, Refetch, Publish, Kill, KillFails, ExpireLeases, SweepNext,
       Tick, IsolationRestart, AgentExits, vars, store
  <2>2. /\ pc[p] \in EnsureSteps
        /\ leases'[w].requester = job[p].peer
        /\ leases'[w].profile = job[p].profile
        /\ leases'[w].expires = job[p].expires
    BY <1>8, <2>1 DEF Add, put, At, EnsureSteps
  <2>. QED
    BY <1>0, <1>5, <2>2
<1>. QED
  BY <1>4, <1>7, <1>8 DEF LimitsOK

\* No lease outlives its profile's or its requester's limit, whatever length was
\* asked for and however long the spawn took.
THEOREM LeaseBoundedCorrect == Spec => []LeaseBounded
<1>1. Init => LimitsOK
  BY DEF Init, LimitsOK, EnsureSteps
<1>2. LimitsOK => LeaseBounded
  BY DEF LimitsOK, LeaseBounded, Within
<1>. QED
  BY <1>1, <1>2, LimitsStep, TypeInvariant, FreshWorkerIDCorrect, PTL DEF Spec

-----------------------------------------------------------------------------
(* Reuse                                                                   *)
(*                                                                         *)
(* The reuse loop decides on copies of leases. What it decided stays true  *)
(* of the leases themselves, because it only looked at their terms (that   *)
(* they run may have changed: an ended lease can be handed out).           *)
(***************************************************************************)

\* The request p works on may be answered with worker w.
Entitled(p, w) ==
  /\ w \in DOMAIN leases
  /\ CanManageLease(job[p].peer, leases[w])
  /\ leases[w].profile = job[p].profile
  /\ ProfileOf[leases[w].profile].reuse \in {"session", "lease"}
  /\ ProfileOf[leases[w].profile].reuse = "session" => leases[w].session = job[p].session

Reusing(p) == pc[p] = "get" \/ (pc[p] = "publish" /\ job[p].topic = "reused")

ReuseOK ==
  \A p \in Procs :
    /\ pc[p] \in EnsureSteps \/ Reusing(p) => AllowedToRequest(job[p].peer, job[p].profile)
    /\ pc[p] = "choose" => \A w \in job[p].cands : Entitled(p, w)
    /\ Reusing(p) => Entitled(p, job[p].worker)

\* Who is choosing or handing out a lease was, and works on the same request.
Unmoved ==
  \A p \in Procs : pc'[p] = "choose" \/ Reusing(p)' => pc'[p] = pc[p] /\ job'[p] = job[p]

\* An entitlement outlives every step of the daemon.
LEMMA EntitledKept ==
  ASSUME TermsKept, NEW p \in Procs, NEW w, Entitled(p, w),
         job'[p].peer = job[p].peer, job'[p].session = job[p].session,
         job'[p].profile = job[p].profile
  PROVE  Entitled(p, w)'
BY DEF Entitled, TermsKept, CanManageLease

\* Only the steps of the reuse loop move a handler towards handing out a lease.
LEMMA UnmovedStep ==
  ASSUME TypeInv, [Next]_vars,
         \A p \in Procs : ~Snapshot(p) /\ ~Choose(p) /\ ~GetReused(p)
  PROVE  Unmoved
<1>0. /\ pc \in [Procs -> Steps] /\ job \in [Procs -> Job]
      /\ Loop \in Procs /\ \A t \in Handlers : t \in Procs
  BY ProcAssumption DEF TypeInv, TypeOK, Procs
<1>. USE DEF Unmoved, Reusing, At, Goto, Done
<1>1. ASSUME NEW t \in Handlers, Request(t) PROVE Unmoved
  BY <1>0, <1>1 DEF Request, EnsureWorker, ReleaseWorker, TerminateWorker
<1>2. ASSUME NEW p \in Procs, ChooseNone(p) \/ CheckBudget(p) \/ OverBudget(p) PROVE Unmoved
  BY <1>0, <1>2 DEF ChooseNone, CheckBudget, OverBudget
<1>3. ASSUME NEW p \in Procs, Spawn(p) \/ SpawnFails(p) \/ SpawnReplyLost(p) PROVE Unmoved
  BY <1>0, <1>3 DEF Spawn, SpawnFails, SpawnReplyLost
<1>4. ASSUME NEW p \in Procs, Add(p) PROVE Unmoved
  BY <1>0, <1>4 DEF Add, Job
<1>5. ASSUME NEW p \in Procs, UpdateState(p) \/ UpdateRefused(p) PROVE Unmoved
  BY <1>0, <1>5 DEF UpdateState, UpdateRefused
<1>6. ASSUME NEW p \in Procs, Refetch(p) PROVE Unmoved
  BY <1>0, <1>6 DEF Refetch, Job
<1>7. ASSUME NEW p \in Procs, Publish(p) \/ Kill(p) \/ KillFails(p) PROVE Unmoved
  BY <1>0, <1>7 DEF Publish, Kill, KillFails, AfterKill
<1>8. CASE ExpireLeases \/ SweepNext \/ Crash
  BY <1>0, <1>8 DEF ExpireLeases, SweepNext, Crash
<1>9. CASE Tick \/ IsolationRestart \/ AgentExits \/ UNCHANGED vars
  BY <1>9 DEF Tick, IsolationRestart, AgentExits, vars
<1>. QED
  BY <1>1, <1>2, <1>3, <1>4, <1>5, <1>6, <1>7, <1>8, <1>9 DEF Next, Step

\* A lease is only ever about to be handed out to someone entitled to it.
LEMMA ReuseStep == TypeInv /\ FreshWorkerID /\ ReuseOK /\ [Next]_vars => ReuseOK'
<1>. SUFFICES ASSUME TypeInv, FreshWorkerID, ReuseOK, [Next]_vars PROVE ReuseOK'
  OBVIOUS
<1>0. /\ pc \in [Procs -> Steps] /\ job \in [Procs -> Job]
      /\ \A t \in Handlers : t \in Procs
  BY DEF TypeInv, TypeOK, Procs
<1>1. CASE Crash
  BY <1>1 DEF Crash, ReuseOK, Reusing, EnsureSteps
<1>. SUFFICES ASSUME ~Crash PROVE ReuseOK'
  BY <1>1
<1>2. TermsKept
  BY TermsStep
<1>. USE DEF At, Goto
<1>3. ASSUME NEW t \in Handlers, NEW r \in EnsureRequests, EnsureWorker(t, r) PROVE ReuseOK'
  <2>1. /\ pc'[t] = "snapshot"
        /\ job'[t].peer = r.peer /\ job'[t].profile = r.profile
        /\ AllowedToRequest(r.peer, r.profile)
        /\ \A q \in Procs \ {t} : pc'[q] = pc[q] /\ job'[q] = job[q]
    BY <1>0, <1>3 DEF EnsureWorker, NoJob
  <2>2. ASSUME NEW q \in Procs \ {t}, NEW w, Entitled(q, w) PROVE Entitled(q, w)'
    BY <1>2, <2>1, <2>2, EntitledKept
  <2>. QED
    BY <2>1, <2>2 DEF ReuseOK, Reusing
<1>. SUFFICES ASSUME \A t \in Handlers, r \in EnsureRequests : ~EnsureWorker(t, r) PROVE ReuseOK'
  BY <1>3
<1>4. Ensuring
  BY EnsuringStep
<1>5. ASSUME NEW p \in Procs, Snapshot(p) PROVE ReuseOK'
  <2>1. /\ pc[p] = "snapshot" /\ pc'[p] = "choose"
        /\ job'[p].peer = job[p].peer /\ job'[p].session = job[p].session
        /\ job'[p].profile = job[p].profile
        /\ job'[p].cands = {w \in DOMAIN leases :
             /\ IsCandidate(leases[w], job[p].session, job[p].profile)
             /\ CanManageLease(job[p].peer, leases[w])
             /\ Reusable(leases[w], job[p].session, job[p].profile)}
    BY <1>0, <1>5 DEF Snapshot, Job
  <2>2. \A q \in Procs \ {p} : pc'[q] = pc[q] /\ job'[q] = job[q]
    BY <1>0, <1>5 DEF Snapshot
  <2>3. \A w \in job'[p].cands : Entitled(p, w)
    BY <2>1 DEF Entitled, Reusable
  <2>4. \A w \in job'[p].cands : Entitled(p, w)'
    BY <1>2, <2>1, <2>3, EntitledKept
  <2>5. ASSUME NEW q \in Procs \ {p}, NEW w, Entitled(q, w) PROVE Entitled(q, w)'
    BY <1>2, <2>2, <2>5, EntitledKept
  <2>. QED
    BY <2>1, <2>2, <2>4, <2>5 DEF ReuseOK, Reusing, EnsureSteps
<1>6. ASSUME NEW p \in Procs, Choose(p) \/ GetReused(p) PROVE ReuseOK'
  <2>1. /\ pc[p] \in EnsureSteps
        /\ pc'[p] \in {"get", "publish"}
        /\ job'[p].peer = job[p].peer /\ job'[p].session = job[p].session
        /\ job'[p].profile = job[p].profile
        /\ \A w : w = job'[p].worker => Entitled(p, w)
    <3>1. CASE Choose(p)
      BY <1>0, <3>1 DEF Choose, Job, ReuseOK, EnsureSteps
    <3>2. CASE GetReused(p)
      BY <1>0, <3>2 DEF GetReused, Job, ReuseOK, Reusing, EnsureSteps
    <3>. QED
      BY <1>6, <3>1, <3>2
  <2>2. \A q \in Procs \ {p} : pc'[q] = pc[q] /\ job'[q] = job[q]
    BY <1>0, <1>6 DEF Choose, GetReused
  <2>3. ASSUME NEW w, w = job'[p].worker PROVE Entitled(p, w)'
    BY <1>2, <2>1, <2>3, EntitledKept
  <2>4. ASSUME NEW q \in Procs \ {p}, NEW w, Entitled(q, w) PROVE Entitled(q, w)'
    BY <1>2, <2>2, <2>4, EntitledKept
  <2>. QED
    BY <2>1, <2>2, <2>3, <2>4 DEF ReuseOK, Reusing, EnsureSteps
<1>7. ASSUME \A p \in Procs : ~Snapshot(p) /\ ~Choose(p) /\ ~GetReused(p) PROVE ReuseOK'
  <2>1. Unmoved
    BY <1>7, UnmovedStep
  <2>2. ASSUME NEW q \in Procs, NEW w, Entitled(q, w), job'[q] = job[q] PROVE Entitled(q, w)'
    BY <1>2, <2>2, EntitledKept
  <2>. QED
    BY <1>4, <2>1, <2>2 DEF ReuseOK, Reusing, Unmoved, Ensuring
<1>. QED
  BY <1>5, <1>6, <1>7

\* A worker is handed out again only to its requester or root, for its profile and
\* within its session (unless the profile is lease-scoped), and only to someone
\* whose grant allows that profile, whatever happened since the leases were copied.
THEOREM ReuseAuthorisedCorrect == Spec => []ReuseAuthorised
<1>1. Init => ReuseOK
  BY DEF Init, ReuseOK, Reusing, EnsureSteps
<1>2. ReuseOK => ReuseAuthorised
  BY DEF ReuseOK, ReuseAuthorised, Reusing, Entitled, At, Procs
<1>. QED
  BY <1>1, <1>2, ReuseStep, TypeInvariant, FreshWorkerIDCorrect, PTL DEF Spec

-----------------------------------------------------------------------------
(* The abstract life of a lease                                            *)
(*                                                                         *)
(* The refinement of LeaseLifecycle, step by step: a restart forgets, Add  *)
(* grants, UpdateState ends, a sweep ends all that is overdue, and every   *)
(* other step but that of the clock leaves the leases alone.               *)
(***************************************************************************)

\* Each step of the daemon is a step of the lease life cycle or none.
LEMMA LifecycleStep == TypeInv /\ FreshWorkerID /\ [Next]_vars => [Lifecycle!Next]_(Lifecycle!vars)
<1>. SUFFICES ASSUME TypeInv, FreshWorkerID, [Next]_vars
              PROVE  Lifecycle!Next \/ UNCHANGED Lifecycle!vars
  OBVIOUS
<1>0. /\ leases \in [DOMAIN leases -> Lease]
      /\ clock \in Nat
  BY DEF TypeInv, TypeOK
<1>1. CASE Crash
  <2>1. Lifecycle!Forgotten
    BY <1>1 DEF Crash, Lifecycle!Forgotten
  <2>. QED
    BY <2>1 DEF Lifecycle!Next
<1>2. CASE Tick
  <2>1. Lifecycle!TimePasses
    BY <1>2 DEF Tick, store, Lifecycle!TimePasses
  <2>. QED
    BY <2>1 DEF Lifecycle!Next
<1>3. ASSUME NEW p \in Procs, Add(p) PROVE Lifecycle!Next
  <2>1. /\ job[p].worker \notin DOMAIN leases
        /\ DOMAIN leases' = DOMAIN leases \cup {job[p].worker}
        /\ leases'[job[p].worker].state = "running"
        /\ \A w \in DOMAIN leases : leases'[w] = leases[w]
        /\ clock' = clock
    BY <1>3 DEF Add, At, put, FreshWorkerID
  <2>2. Lifecycle!Granted
    BY <2>1 DEF Lifecycle!Granted, TermsOf
  <2>. QED
    BY <2>2 DEF Lifecycle!Next
<1>4. ASSUME NEW p \in Procs, UpdateState(p) PROVE Lifecycle!Next
  <2>1. /\ job[p].worker \in DOMAIN leases
        /\ EndState[pc[p]] \in {"released", "terminated"}
        /\ TransitionAllowed(leases[job[p].worker].state, EndState[pc[p]])
        /\ leases' = [leases EXCEPT ![job[p].worker].state = EndState[pc[p]]]
        /\ clock' = clock
    BY <1>4 DEF TypeInv, RememberedIsStored, UpdateState, EndState, EndSteps
  <2>2. PICK w \in DOMAIN leases, s \in {"released", "terminated"} :
          /\ TransitionAllowed(leases[w].state, s)
          /\ leases' = [leases EXCEPT ![w].state = s]
    BY <2>1
  <2>3. Lifecycle!Ended(w, s)
    <3>1. leases[w] \in Lease
      BY <1>0
    <3>2. /\ DOMAIN leases' = DOMAIN leases
          /\ leases'[w].state = s
          /\ TermsOf(leases'[w]) = TermsOf(leases[w])
          /\ \A v \in DOMAIN leases \ {w} : leases'[v] = leases[v]
      BY <1>0, <2>2, <3>1 DEF TermsOf, Lease
    <3>3. \/ leases[w].state = "running"
          \/ leases[w].state = "released" /\ s = "terminated"
      BY <2>2 DEF TransitionAllowed
    <3>. QED
      BY <2>1, <3>2, <3>3 DEF Lifecycle!Ended, Lifecycle!running
  <2>. QED
    BY <2>3 DEF Lifecycle!Next
<1>5. CASE ExpireLeases
  <2>1. Lifecycle!Swept
    BY <1>0, <1>5 DEF ExpireLeases, Overdue, Lifecycle!Swept, Lifecycle!overdue, Lifecycle!running,
       TermsOf, Lease
  <2>. QED
    BY <2>1 DEF Lifecycle!Next
<1>6. ASSUME leases' = leases, clock' = clock PROVE UNCHANGED Lifecycle!vars
  BY <1>6 DEF Lifecycle!vars, TermsOf
<1>7. ASSUME NEW t \in Handlers, Request(t) PROVE leases' = leases /\ clock' = clock
  BY <1>7 DEF Request, EnsureWorker, ReleaseWorker, TerminateWorker, store
<1>8. ASSUME NEW p \in Procs, Step(p), ~Add(p), ~UpdateState(p)
      PROVE  leases' = leases /\ clock' = clock
  BY <1>8 DEF Step, Snapshot, Choose, ChooseNone, GetReused, CheckBudget, OverBudget, Spawn,
     SpawnFails, SpawnReplyLost, UpdateRefused, Refetch, Publish, Kill, KillFails, store
<1>9. ASSUME SweepNext \/ IsolationRestart \/ AgentExits \/ UNCHANGED vars
      PROVE  leases' = leases /\ clock' = clock
  BY <1>9 DEF SweepNext, IsolationRestart, AgentExits, vars, store
<1>. QED
  BY <1>1, <1>2, <1>3, <1>4, <1>5, <1>6, <1>7, <1>8, <1>9 DEF Next

\* The lease store, with all its handlers, its expiry loop and its restarts,
\* implements the abstract life of a lease.
THEOREM ImplementsLifecycleCorrect == Spec => ImplementsLifecycle
<1>1. Init => Lifecycle!Init
  BY DEF Init, Lifecycle!Init
<1>. QED
  BY <1>1, LifecycleStep, TypeInvariant, FreshWorkerIDCorrect, PTL
     DEF Spec, ImplementsLifecycle, Lifecycle!Spec

-----------------------------------------------------------------------------
(* Events                                                                  *)
(*                                                                         *)
(* The state in an event is copied from the lease before the event is      *)
(* published, and anybody may move the lease on in between. EventsOK says  *)
(* of events on their way what EventsAreTrue says of those on the bus.     *)
(***************************************************************************)

Reaches(from, to) == from = to \/ TransitionAllowed(from, to)

Tells(topic, worker, state) ==
  /\ worker \in DOMAIN leases
  /\ Reaches(state, leases[worker].state)
  /\ topic = "terminated" => state # "running"

EventsOK ==
  /\ \A e \in published : Tells(e.topic, e.worker, e.state)
  /\ \A p \in Procs : pc[p] = "publish" => Tells(job[p].topic, job[p].worker, job[p].state)

StatesMove ==
  \A w \in DOMAIN leases : w \in DOMAIN leases' /\ Reaches(leases[w].state, leases'[w].state)

\* While the daemon lives, leases move along the state machine.
LEMMA StatesStep ==
  ASSUME TypeInv, FreshWorkerID, [Next]_vars, ~Crash
  PROVE  StatesMove
<1>. USE DEF StatesMove, Reaches
<1>0. leases \in [DOMAIN leases -> Lease]
  BY DEF TypeInv, TypeOK
<1>1. ASSUME NEW p \in Procs, Add(p) PROVE StatesMove
  BY <1>0, <1>1 DEF Add, At, put, FreshWorkerID
<1>2. ASSUME NEW p \in Procs, UpdateState(p) PROVE StatesMove
  BY <1>0, <1>2 DEF UpdateState, Lease
<1>3. ASSUME ExpireLeases PROVE StatesMove
  BY <1>0, <1>3 DEF ExpireLeases, Lease, TransitionAllowed
<1>4. ASSUME leases' = leases PROVE StatesMove
  BY <1>4
<1>. HIDE DEF StatesMove
<1>5. ASSUME NEW t \in Handlers, Request(t) PROVE StatesMove
  BY <1>4, <1>5 DEF Request, EnsureWorker, ReleaseWorker, TerminateWorker, store
<1>6. ASSUME NEW p \in Procs, Step(p) PROVE StatesMove
  <2>1. CASE Snapshot(p) \/ Choose(p) \/ ChooseNone(p) \/ GetReused(p) \/ CheckBudget(p) \/ OverBudget(p)
    BY <1>4, <2>1 DEF Snapshot, Choose, ChooseNone, GetReused, CheckBudget, OverBudget, store
  <2>2. CASE Spawn(p) \/ SpawnFails(p) \/ SpawnReplyLost(p)
    BY <1>4, <2>2 DEF Spawn, SpawnFails, SpawnReplyLost, store
  <2>3. CASE UpdateRefused(p) \/ Refetch(p) \/ Publish(p) \/ Kill(p) \/ KillFails(p)
    BY <1>4, <2>3 DEF UpdateRefused, Refetch, Publish, Kill, KillFails, store
  <2>. QED
    BY <1>1, <1>2, <1>6, <2>1, <2>2, <2>3 DEF Step
<1>7. ASSUME SweepNext \/ Tick \/ IsolationRestart \/ AgentExits \/ UNCHANGED vars PROVE StatesMove
  BY <1>4, <1>7 DEF SweepNext, Tick, IsolationRestart, AgentExits, vars, store
<1>. QED
  BY <1>3, <1>5, <1>6, <1>7 DEF Next

\* The state machine has no way back, so what was true of a lease stays true.
LEMMA TellsKept ==
  ASSUME StatesMove, NEW topic, NEW worker, NEW state, Tells(topic, worker, state)
  PROVE  Tells(topic, worker, state)'
BY DEF StatesMove, Tells, Reaches, TransitionAllowed

\* Nothing is published, and what is on its way was before or is true now.
LEMMA EventFrame ==
  ASSUME EventsOK, StatesMove, published' = published,
         \A p \in Procs : pc'[p] = "publish" =>
           \/ pc[p] = "publish" /\ job'[p] = job[p]
           \/ Tells(job[p].topic, job[p].worker, job[p].state)'
  PROVE  EventsOK'
<1>1. \A e \in published' : Tells(e.topic, e.worker, e.state)'
  BY TellsKept DEF EventsOK
<1>2. ASSUME NEW p \in Procs, pc[p] = "publish", job'[p] = job[p]
      PROVE  Tells(job[p].topic, job[p].worker, job[p].state)'
  <2>1. PICK j : j = job[p]
    OBVIOUS
  <2>2. Tells(j.topic, j.worker, j.state)'
    BY <1>2, <2>1, TellsKept DEF EventsOK
  <2>. QED
    BY <1>2, <2>1, <2>2 DEF Tells
<1>. QED
  BY <1>1, <1>2 DEF EventsOK

\* Every event tells the truth when it is made, when it is published and later.
LEMMA EventsStep == TypeInv /\ FreshWorkerID /\ KillOK /\ EventsOK /\ [Next]_vars => EventsOK'
<1>. SUFFICES ASSUME TypeInv, FreshWorkerID, KillOK, EventsOK, [Next]_vars PROVE EventsOK'
  OBVIOUS
<1>0. /\ pc \in [Procs -> Steps] /\ job \in [Procs -> Job]
      /\ leases \in [DOMAIN leases -> Lease]
      /\ Loop \in Procs /\ \A t \in Handlers : t \in Procs
  BY ProcAssumption DEF TypeInv, TypeOK, Procs
<1>. USE DEF At, Goto, Done
<1>1. CASE Crash
  <2>1. published' = {} /\ \A p \in Procs : pc'[p] # "publish"
    BY <1>1 DEF Crash
  <2>. QED
    BY <2>1 DEF EventsOK
<1>. SUFFICES ASSUME ~Crash PROVE EventsOK'
  BY <1>1
<1>2. StatesMove
  BY StatesStep
<1>. DEFINE Framed == /\ published' = published
                      /\ \A p \in Procs : pc'[p] = "publish" => pc[p] = "publish" /\ job'[p] = job[p]
<1>3. ASSUME NEW t \in Handlers, Request(t) PROVE Framed
  BY <1>0, <1>3 DEF Request, EnsureWorker, ReleaseWorker, TerminateWorker
<1>4. ASSUME NEW p \in Procs, Snapshot(p) \/ Choose(p) \/ ChooseNone(p) \/ CheckBudget(p) \/ OverBudget(p)
      PROVE  Framed
  BY <1>0, <1>4 DEF Snapshot, Choose, ChooseNone, CheckBudget, OverBudget
<1>5. ASSUME NEW p \in Procs, Spawn(p) \/ SpawnFails(p) \/ SpawnReplyLost(p) \/ UpdateState(p) \/ UpdateRefused(p)
      PROVE  Framed
  BY <1>0, <1>5 DEF Spawn, SpawnFails, SpawnReplyLost, UpdateState, UpdateRefused
<1>6. ASSUME NEW p \in Procs, Kill(p) \/ KillFails(p) PROVE Framed
  BY <1>0, <1>6 DEF Kill, KillFails, AfterKill
<1>7. ASSUME ExpireLeases \/ SweepNext \/ Tick \/ IsolationRestart \/ AgentExits \/ UNCHANGED vars
      PROVE  Framed
  <2>1. CASE ExpireLeases
    BY <1>0, <2>1 DEF ExpireLeases
  <2>2. CASE SweepNext
    BY <1>0, <2>2 DEF SweepNext
  <2>3. CASE Tick \/ IsolationRestart \/ AgentExits \/ UNCHANGED vars
    BY <2>3 DEF Tick, IsolationRestart, AgentExits, vars
  <2>. QED
    BY <1>7, <2>1, <2>2, <2>3
<1>. HIDE DEF Framed
<1>8. Framed => EventsOK'
  BY <1>2, EventFrame DEF Framed
<1>9. ASSUME NEW p \in Procs, GetReused(p) PROVE EventsOK'
  <2>1. /\ job[p].worker \in DOMAIN leases
        /\ job'[p].topic = "reused" /\ job'[p].worker = job[p].worker
        /\ job'[p].state = leases[job[p].worker].state
        /\ leases' = leases /\ published' = published
        /\ \A q \in Procs \ {p} : pc'[q] = pc[q] /\ job'[q] = job[q]
    BY <1>0, <1>9 DEF GetReused, Job, store
  <2>2. Tells(job[p].topic, job[p].worker, job[p].state)'
    BY <2>1 DEF Tells, Reaches
  <2>. QED
    BY <1>2, <2>1, <2>2, EventFrame
<1>10. ASSUME NEW p \in Procs, Add(p) PROVE EventsOK'
  <2>1. /\ job'[p].topic = "spawned" /\ job'[p].worker = job[p].worker /\ job'[p].state = "running"
        /\ published' = published
        /\ \A q \in Procs \ {p} : pc'[q] = pc[q] /\ job'[q] = job[q]
    BY <1>0, <1>10 DEF Add, Job
  <2>2. job[p].worker \in DOMAIN leases' /\ leases'[job[p].worker].state = "running"
    BY <1>10 DEF Add, put
  <2>3. Tells(job[p].topic, job[p].worker, job[p].state)'
    BY <2>1, <2>2 DEF Tells, Reaches
  <2>. QED
    BY <1>2, <2>1, <2>3, EventFrame
<1>11. ASSUME NEW p \in Procs, Refetch(p) PROVE EventsOK'
  <2>1. job[p].worker \in DOMAIN leases /\ leases[job[p].worker].state # "running"
    BY <1>11 DEF Refetch, KillOK, Remembers, Ending
  <2>2. /\ job'[p].topic = "terminated" /\ job'[p].worker = job[p].worker
        /\ job'[p].state = leases[job[p].worker].state
        /\ leases' = leases /\ published' = published
        /\ \A q \in Procs \ {p} : pc'[q] = pc[q] /\ job'[q] = job[q]
    BY <1>0, <1>11 DEF Refetch, Job, store
  <2>3. Tells(job[p].topic, job[p].worker, job[p].state)'
    BY <2>1, <2>2 DEF Tells, Reaches
  <2>. QED
    BY <1>2, <2>2, <2>3, EventFrame
<1>12. ASSUME NEW p \in Procs, Publish(p) PROVE EventsOK'
  <2>1. /\ leases' = leases
        /\ published' \subseteq
             published \cup {[topic |-> job[p].topic, worker |-> job[p].worker, state |-> job[p].state]}
        /\ \A q \in Procs : pc'[q] = "publish" => q # p
        /\ \A q \in Procs \ {p} : pc'[q] = pc[q] /\ job'[q] = job[q]
    BY <1>0, <1>12 DEF Publish, store
  <2>2. Tells(job[p].topic, job[p].worker, job[p].state)
    BY <1>12 DEF Publish, EventsOK
  <2>3. \A e \in published' : Tells(e.topic, e.worker, e.state)
    BY <2>1, <2>2 DEF EventsOK
  <2>4. \A e \in published' : Tells(e.topic, e.worker, e.state)'
    BY <2>1, <2>3 DEF Tells
  <2>5. \A q \in Procs : pc'[q] = "publish" => Tells(job[q].topic, job[q].worker, job[q].state)'
    BY <2>1 DEF EventsOK, Tells
  <2>. QED
    BY <2>4, <2>5 DEF EventsOK
<1>. QED
  BY <1>3, <1>4, <1>5, <1>6, <1>7, <1>8, <1>9, <1>10, <1>11, <1>12 DEF Next, Step

\* What the bus is told of a worker is true and stays true, for any set of faults:
\* no "terminated" event is published of a worker whose lease runs.
THEOREM EventsAreTrueCorrect == Spec => []EventsAreTrue
<1>. DEFINE IInv == KillOK /\ EventsOK
<1>1. Init => IInv
  BY ProcAssumption DEF Init, KillOK, Remembers, Ending, EventsOK, NoJob, Procs
<1>2. TypeInv /\ FreshWorkerID /\ IInv /\ [Next]_vars => IInv'
  BY KillStep, EventsStep
<1>3. IInv => EventsAreTrue
  BY DEF EventsOK, EventsAreTrue, Tells, Reaches
<1>. QED
  BY <1>1, <1>2, <1>3, TypeInvariant, FreshWorkerIDCorrect, PTL DEF Spec

-----------------------------------------------------------------------------
(* Kills                                                                   *)
(*                                                                         *)
(* The owner is checked on a copy of the lease, the kill follows two       *)
(* remote calls later and names a uid. KillersOK carries the reason for    *)
(* the kill there, AgentsOwn says that the uid is nobody else's by then.   *)
(***************************************************************************)

KillersOK ==
  /\ \A t \in Handlers : pc[t] \in {"release", "terminate"} \/ Ending(t) =>
       /\ job[t].worker \in DOMAIN leases
       /\ CanManageLease(job[t].peer, leases[job[t].worker])
  /\ Ending(Loop) => job[Loop].worker \in DOMAIN leases /\ leases[job[Loop].worker].state = "expired"
  /\ \A w \in job[Loop].cands : w \in DOMAIN leases /\ leases[w].state = "expired"

AgentsOwn ==
  \A w \in DOMAIN leases : leases[w].uid \in DOMAIN agents => agents[leases[w].uid] = w

\* Who ends a worker after the step did so before, for the same reason.
LEMMA KillersFrame ==
  ASSUME KillersOK, TermsKept, StatesMove,
         \A t \in Handlers : pc'[t] \in {"release", "terminate"} \/ Ending(t)' =>
           /\ pc[t] \in {"release", "terminate"} \/ Ending(t)
           /\ job'[t].worker = job[t].worker /\ job'[t].peer = job[t].peer,
         Ending(Loop)' => Ending(Loop) /\ job'[Loop].worker = job[Loop].worker,
         job'[Loop].cands \subseteq job[Loop].cands
  PROVE  KillersOK'
<1>1. \A w \in DOMAIN leases : leases[w].state = "expired" => leases'[w].state = "expired"
  BY DEF StatesMove, Reaches, TransitionAllowed
<1>2. \A t \in Handlers, w \in DOMAIN leases :
        CanManageLease(job[t].peer, leases[w]) => CanManageLease(job[t].peer, leases'[w])
  BY DEF TermsKept, CanManageLease
<1>. QED
  BY <1>1, <1>2 DEF KillersOK, TermsKept, CanManageLease

\* Requests start only for the owner, the sweep only for leases that expired.
LEMMA KillersStep ==
  TypeInv /\ FreshWorkerID /\ LoopOK /\ KillersOK /\ [Next]_vars => KillersOK'
<1>. SUFFICES ASSUME TypeInv, FreshWorkerID, LoopOK, KillersOK, [Next]_vars PROVE KillersOK'
  OBVIOUS
<1>0. /\ pc \in [Procs -> Steps] /\ job \in [Procs -> Job]
      /\ leases \in [DOMAIN leases -> Lease]
      /\ Loop \in Procs /\ \A t \in Handlers : t \in Procs /\ t # Loop
      /\ \A p \in Procs : pc[p] \in EnsureSteps => p # Loop
  BY ProcAssumption DEF TypeInv, TypeOK, JobOK, Procs
<1>. USE DEF At, Goto, Done, Ending
<1>1. CASE Crash
  <2>1. \A p \in Procs : pc'[p] = "idle" /\ job'[p].cands = {}
    BY <1>1 DEF Crash, NoJob
  <2>. QED
    BY <1>0, <2>1 DEF KillersOK
<1>. SUFFICES ASSUME ~Crash PROVE KillersOK'
  BY <1>1
<1>2. TermsKept /\ StatesMove
  BY TermsStep, StatesStep
<1>. DEFINE Framed ==
              /\ \A t \in Handlers : pc'[t] \in {"release", "terminate"} \/ Ending(t)' =>
                   /\ pc[t] \in {"release", "terminate"} \/ Ending(t)
                   /\ job'[t].worker = job[t].worker /\ job'[t].peer = job[t].peer
              /\ Ending(Loop)' => Ending(Loop) /\ job'[Loop].worker = job[Loop].worker
              /\ job'[Loop].cands \subseteq job[Loop].cands
<1>3. ASSUME NEW t \in Handlers, NEW r \in EnsureRequests, EnsureWorker(t, r) PROVE Framed
  BY <1>0, <1>3 DEF EnsureWorker
<1>4. ASSUME NEW p \in Procs, Snapshot(p) \/ Choose(p) \/ ChooseNone(p) \/ CheckBudget(p) \/ OverBudget(p)
      PROVE  Framed
  <2>1. p # Loop
    BY <1>0, <1>4 DEF Snapshot, Choose, ChooseNone, CheckBudget, OverBudget, EnsureSteps
  <2>. QED
    BY <1>0, <1>4, <2>1 DEF Snapshot, Choose, ChooseNone, CheckBudget, OverBudget
<1>5. ASSUME NEW p \in Procs, Spawn(p) \/ SpawnFails(p) \/ SpawnReplyLost(p) PROVE Framed
  <2>1. p # Loop
    BY <1>0, <1>5 DEF Spawn, SpawnFails, SpawnReplyLost, EnsureSteps
  <2>. QED
    BY <1>0, <1>5, <2>1 DEF Spawn, SpawnFails, SpawnReplyLost
<1>6. ASSUME NEW p \in Procs, GetReused(p) \/ Add(p) PROVE Framed
  <2>1. p # Loop
    BY <1>0, <1>6 DEF GetReused, Add, EnsureSteps
  <2>2. pc'[p] = "publish" /\ job'[p].topic # "terminated"
    BY <1>0, <1>6 DEF GetReused, Add, Job
  <2>3. \A q \in Procs \ {p} : pc'[q] = pc[q] /\ job'[q] = job[q]
    BY <1>0, <1>6 DEF GetReused, Add
  <2>. QED
    BY <1>0, <2>1, <2>2, <2>3
<1>7. ASSUME NEW p \in Procs, UpdateState(p) \/ UpdateRefused(p) PROVE Framed
  <2>1. p # Loop /\ pc[p] \in {"release", "terminate"}
    BY <1>7 DEF UpdateState, UpdateRefused, EndState, LoopOK
  <2>2. /\ \A q \in Procs \ {p} : pc'[q] = pc[q] /\ job'[q] = job[q]
        /\ job'[p] = job[p] \/ pc'[p] = "idle"
    BY <1>0, <1>7 DEF UpdateState, UpdateRefused
  <2>. QED
    BY <1>0, <2>1, <2>2
<1>8. ASSUME NEW p \in Procs, Refetch(p) PROVE Framed
  <2>1. /\ pc[p] = "refetch"
        /\ job'[p].worker = job[p].worker /\ job'[p].peer = job[p].peer /\ job'[p].cands = job[p].cands
        /\ \A q \in Procs \ {p} : pc'[q] = pc[q] /\ job'[q] = job[q]
    BY <1>0, <1>8 DEF Refetch, Job
  <2>. QED
    BY <1>0, <2>1
<1>9. ASSUME NEW p \in Procs, Publish(p) \/ Kill(p) \/ KillFails(p) PROVE Framed
  <2>1. /\ \A q \in Procs \ {p} : pc'[q] = pc[q] /\ job'[q] = job[q]
        /\ \/ pc'[p] = "kill" /\ pc[p] = "publish" /\ job[p].topic = "terminated" /\ job' = job
           \/ pc'[p] = "idle" /\ job'[p] = NoJob
           \/ pc'[p] = "sweep" /\ job' = job
    BY <1>0, <1>9 DEF Publish, Kill, KillFails, AfterKill
  <2>2. NoJob.cands = {}
    BY DEF NoJob
  <2>. QED
    BY <1>0, <2>1, <2>2
<1>10. ASSUME Tick \/ IsolationRestart \/ AgentExits \/ UNCHANGED vars PROVE Framed
  BY <1>10 DEF Tick, IsolationRestart, AgentExits, vars
<1>. HIDE DEF Framed
<1>11. Framed => KillersOK'
  BY <1>2, KillersFrame DEF Framed
<1>12. ASSUME NEW t \in Handlers, NEW r \in EndRequests, NEW w \in DOMAIN leases,
              ReleaseWorker(t, r, w) \/ TerminateWorker(t, r, w)
       PROVE  KillersOK'
  <2>1. \E rec \in {[NoJob EXCEPT !.peer = r.peer, !.session = r.session,
                                  !.worker = w, !.uid = leases[w].uid],
                    [NoJob EXCEPT !.peer = r.peer, !.worker = w, !.uid = leases[w].uid]} :
          job'[t] = rec
    BY <1>0, <1>12 DEF ReleaseWorker, TerminateWorker
  <2>2. job'[t].worker = w /\ job'[t].peer = r.peer
    BY <2>1 DEF NoJob
  <2>3. /\ CanManageLease(r.peer, leases[w]) /\ leases' = leases
        /\ \A q \in Procs \ {t} : pc'[q] = pc[q] /\ job'[q] = job[q]
    BY <1>0, <1>12 DEF ReleaseWorker, TerminateWorker, store
  <2>. QED
    BY <1>0, <2>2, <2>3 DEF KillersOK
<1>13. CASE ExpireLeases
  <2>. DEFINE expired == {w \in DOMAIN leases : leases[w].state = "running" /\ Overdue(leases[w], clock)}
  <2>1. /\ pc'[Loop] \in {"idle", "sweep"} /\ job'[Loop].cands = expired
        /\ \A q \in Procs \ {Loop} : pc'[q] = pc[q] /\ job'[q] = job[q]
    BY <1>0, <1>13 DEF ExpireLeases
  <2>2. \A w \in expired : w \in DOMAIN leases' /\ leases'[w].state = "expired"
    BY <1>0, <1>13 DEF ExpireLeases, Lease
  <2>. HIDE DEF expired
  <2>3. \A t \in Handlers, w \in DOMAIN leases :
          w \in DOMAIN leases' /\ leases'[w].requester = leases[w].requester
    BY <1>2 DEF TermsKept
  <2>. QED
    BY <1>0, <2>1, <2>2, <2>3 DEF KillersOK, CanManageLease
<1>14. CASE SweepNext
  <2>1. PICK v \in job[Loop].cands :
          job' = [job EXCEPT ![Loop].cands = @ \ {v}, ![Loop].worker = v, ![Loop].uid = leases[v].uid]
    BY <1>14 DEF SweepNext
  <2>2. /\ job'[Loop].cands = job[Loop].cands \ {v} /\ job'[Loop].worker = v
        /\ \A q \in Procs \ {Loop} : job'[q] = job[q]
    BY <1>0, <2>1 DEF Job
  <2>3. leases' = leases /\ \A q \in Procs \ {Loop} : pc'[q] = pc[q]
    BY <1>0, <1>14 DEF SweepNext, store
  <2>. QED
    BY <1>0, <2>2, <2>3 DEF KillersOK
<1>. QED
  BY <1>3, <1>4, <1>5, <1>6, <1>7, <1>8, <1>9, <1>10, <1>11, <1>12, <1>13, <1>14 DEF Next, Step, Request

\* A uid is never given to a second agent.
LEMMA AgentsOwnStep ==
  ASSUME Faults \cap {"iso_restart", "agent_exits"} = {},
         TypeInv, FreshWorkerID, UidsDistinct, AgentsOwn, [Next]_vars
  PROVE  AgentsOwn'
<1>0. /\ pc \in [Procs -> Steps] /\ job \in [Procs -> Job]
      /\ leases \in [DOMAIN leases -> Lease] /\ nextUID \in Nat \ {0}
      /\ \A t \in Handlers : t \in Procs
  BY DEF TypeInv, TypeOK, Procs
<1>1. CASE Crash
  BY <1>1 DEF Crash, AgentsOwn
<1>. SUFFICES ASSUME ~Crash PROVE AgentsOwn'
  BY <1>1
<1>2. LeasesKept
  BY LeaseStep
<1>3. ASSUME DOMAIN leases' = DOMAIN leases, AgentsShrink PROVE AgentsOwn'
  BY <1>2, <1>3 DEF AgentsOwn, LeasesKept, AgentsShrink
<1>4. ASSUME NEW p \in Procs, Spawn(p) \/ SpawnReplyLost(p) PROVE AgentsOwn'
  <2>1. /\ leases' = leases
        /\ \A u \in DOMAIN agents' : u = nextUID \/ (u \in DOMAIN agents /\ agents'[u] = agents[u])
    BY <1>4 DEF Spawn, SpawnReplyLost, put, store
  <2>2. \A w \in DOMAIN leases : leases[w].uid # nextUID
    BY <1>0 DEF UidsDistinct
  <2>. QED
    BY <2>1, <2>2 DEF AgentsOwn
<1>5. ASSUME NEW p \in Procs, Add(p) PROVE AgentsOwn'
  <2>1. /\ DOMAIN leases' = DOMAIN leases \cup {job[p].worker} /\ job[p].worker \notin DOMAIN leases
        /\ leases'[job[p].worker].uid = job[p].uid
        /\ \A w \in DOMAIN leases : leases'[w] = leases[w]
        /\ agents' = agents
    BY <1>5 DEF Add, At, put, iso, FreshWorkerID
  <2>2. agents[job[p].uid] = job[p].worker
    BY <1>5 DEF Add, At, UidsDistinct
  <2>. QED
    BY <2>1, <2>2 DEF AgentsOwn
<1>6. ASSUME NEW t \in Handlers, Request(t) PROVE AgentsOwn'
  BY <1>3, <1>6 DEF Request, EnsureWorker, ReleaseWorker, TerminateWorker, store, iso, AgentsShrink
<1>7. ASSUME NEW p \in Procs, Snapshot(p) \/ Choose(p) \/ ChooseNone(p) \/ GetReused(p)
                              \/ CheckBudget(p) \/ OverBudget(p) \/ SpawnFails(p)
      PROVE  AgentsOwn'
  BY <1>3, <1>7 DEF Snapshot, Choose, ChooseNone, GetReused, CheckBudget, OverBudget, SpawnFails,
                    store, iso, AgentsShrink
<1>8. ASSUME NEW p \in Procs, UpdateState(p) \/ UpdateRefused(p) \/ Refetch(p) \/ Publish(p) \/ KillFails(p)
      PROVE  AgentsOwn'
  BY <1>0, <1>3, <1>8 DEF UpdateState, UpdateRefused, Refetch, Publish, KillFails, store, iso, AgentsShrink
<1>9. ASSUME NEW p \in Procs, Kill(p) PROVE AgentsOwn'
  BY <1>3, <1>9 DEF Kill, Restrict, store, AgentsShrink
<1>10. CASE ExpireLeases \/ SweepNext \/ Tick \/ IsolationRestart \/ AgentExits \/ UNCHANGED vars
  BY <1>0, <1>3, <1>10 DEF ExpireLeases, SweepNext, Tick, IsolationRestart, AgentExits, vars, store, iso,
                           AgentsShrink, Restrict
<1>. QED
  BY <1>4, <1>5, <1>6, <1>7, <1>8, <1>9, <1>10 DEF Next, Step

\* While uids are not handed out twice, the supervisor has an agent killed only
\* for its requester or root, or because its lease expired; through crashes and
\* whatever calls fail.
THEOREM OnlyOwnerKillsCorrect ==
  ASSUME Faults \cap {"iso_restart", "agent_exits"} = {}
  PROVE  Spec => OnlyOwnerKills
<1>. DEFINE IInv == AgentInv /\ LoopOK /\ KillersOK /\ AgentsOwn
<1>1. Init => IInv
  BY ProcAssumption DEF Init, AgentInv, KillOK, Remembers, Ending, UidsDistinct, RunningHasAgent, NoJob, Procs,
                        LoopOK, KillersOK, AgentsOwn
<1>2. TypeInv /\ FreshWorkerID /\ IInv /\ [Next]_vars => IInv'
  BY KillStep, AgentStep, LoopStep, KillersStep, AgentsOwnStep DEF AgentInv
<1>3. ASSUME TypeInv, IInv, [Next]_vars, NEW uid \in DOMAIN agents, uid \notin DOMAIN agents'
      PROVE  \E p \in Procs : At(p, "kill") /\ agents[uid] \in DOMAIN leases /\ KilledFor(p, agents[uid])
  <2>1. PICK p \in Procs : Kill(p)
    <3>1. ASSUME NEW t \in Handlers, Request(t) PROVE FALSE
      BY <1>3, <3>1 DEF Request, EnsureWorker, ReleaseWorker, TerminateWorker, iso
    <3>2. ASSUME NEW p \in Procs, Step(p), ~Kill(p) PROVE FALSE
      <4>1. CASE Snapshot(p) \/ Choose(p) \/ ChooseNone(p) \/ GetReused(p) \/ CheckBudget(p) \/ OverBudget(p)
        BY <1>3, <4>1 DEF Snapshot, Choose, ChooseNone, GetReused, CheckBudget, OverBudget, iso
      <4>2. CASE Spawn(p) \/ SpawnFails(p) \/ SpawnReplyLost(p)
        BY <1>3, <4>2 DEF Spawn, SpawnFails, SpawnReplyLost, put, iso
      <4>3. CASE Add(p) \/ UpdateState(p) \/ UpdateRefused(p) \/ Refetch(p) \/ Publish(p) \/ KillFails(p)
        BY <1>3, <4>3 DEF Add, UpdateState, UpdateRefused, Refetch, Publish, KillFails, iso
      <4>. QED
        BY <3>2, <4>1, <4>2, <4>3 DEF Step
    <3>3. ASSUME ExpireLeases \/ SweepNext \/ Tick \/ Crash \/ IsolationRestart \/ UNCHANGED vars PROVE FALSE
      BY <1>3, <3>3 DEF ExpireLeases, SweepNext, Tick, Crash, IsolationRestart, vars, iso
    <3>4. ~AgentExits
      BY DEF AgentExits
    <3>. QED
      BY <1>3, <3>1, <3>2, <3>3, <3>4 DEF Next
  <2>2. pc[p] = "kill" /\ uid = job[p].uid
    BY <1>3, <2>1 DEF Kill, At, Restrict
  <2>3. job[p].worker \in DOMAIN leases /\ uid = leases[job[p].worker].uid
    BY <1>3, <2>2 DEF AgentInv, KillOK, Remembers, Ending
  <2>4. agents[uid] = job[p].worker
    BY <1>3, <2>3 DEF AgentsOwn
  <2>5. KilledFor(p, job[p].worker)
    BY <1>3, <2>2 DEF KillersOK, KilledFor, Ending, Procs
  <2>. QED
    BY <2>2, <2>3, <2>4, <2>5 DEF At
<1>4. TypeInv /\ IInv /\ [Next]_vars =>
        [\A uid \in DOMAIN agents :
           uid \notin DOMAIN agents' =>
             \E p \in Procs : At(p, "kill") /\ agents[uid] \in DOMAIN leases /\ KilledFor(p, agents[uid])]_vars
  BY <1>3
<1>. QED
  BY <1>1, <1>2, <1>4, TypeInvariant, FreshWorkerIDCorrect, PTL DEF Spec, OnlyOwnerKills

-----------------------------------------------------------------------------
(* Budgets                                                                 *)
(*                                                                         *)
(* BudgetSlack is inductive given the types: only CheckBudget adds to the  *)
(* sum, and when it does, less than the limit runs already and at most     *)
(* every handler is admitted.                                              *)
(***************************************************************************)

\* Both sets that the budget counts are finite.
LEMMA CountedAreFinite ==
  ASSUME TypeInv, NEW session
  PROVE  /\ IsFiniteSet(RunningIn(session)) /\ Cardinality(RunningIn(session)) \in Nat
         /\ IsFiniteSet(Admitted(session)) /\ Cardinality(Admitted(session)) \in Nat
         /\ Cardinality(Admitted(session)) <= Cardinality(Handlers) /\ Cardinality(Handlers) \in Nat
<1>1. nextWorkerID \in Nat /\ DOMAIN leases \subseteq 1..nextWorkerID
  BY DEF TypeInv, TypeOK
<1>2. IsFiniteSet(1..nextWorkerID)
  BY <1>1, FS_Interval
<1>3. IsFiniteSet(RunningIn(session))
  BY <1>1, <1>2, FS_Subset DEF RunningIn
<1>4. IsFiniteSet(Admitted(session)) /\ Cardinality(Admitted(session)) <= Cardinality(Handlers)
  BY ProcAssumption, FS_Subset DEF Admitted
<1>. QED
  BY <1>3, <1>4, ProcAssumption, FS_CardinalityType

\* No handler is admitted by a step and no lease starts to run.
LEMMA SlackFrame ==
  ASSUME TypeInv, TypeInv', BudgetSlack,
         \A session \in Sessions : RunningIn(session)' \subseteq RunningIn(session)
                                   /\ Admitted(session)' \subseteq Admitted(session)
  PROVE  BudgetSlack'
<1>. SUFFICES ASSUME NEW session \in Sessions,
                     \A uid \in DOMAIN GrantOf : GrantOf[uid].maxWorkers \in 1..BudgetLimit
              PROVE  Cardinality(RunningIn(session))' + Cardinality(Admitted(session))'
                       <= BudgetLimit + Cardinality(Handlers) - 1
  BY DEF BudgetSlack
<1>1. Cardinality(RunningIn(session)') <= Cardinality(RunningIn(session))
  BY CountedAreFinite, FS_Subset
<1>2. Cardinality(Admitted(session)') <= Cardinality(Admitted(session))
  BY CountedAreFinite, FS_Subset
<1>3. Cardinality(RunningIn(session)') \in Nat /\ Cardinality(Admitted(session)') \in Nat
  <2>1. IsFiniteSet(RunningIn(session)') /\ IsFiniteSet(Admitted(session)')
    BY CountedAreFinite, FS_Subset
  <2>. QED
    BY <2>1, FS_CardinalityType
<1>4. Cardinality(RunningIn(session)) + Cardinality(Admitted(session))
        <= BudgetLimit + Cardinality(Handlers) - 1
  BY DEF BudgetSlack
<1>. QED
  BY <1>1, <1>2, <1>3, <1>4, CountedAreFinite, BoundAssumption

\* A handler that is admitted found less than the limit; one that stores its lease
\* was admitted; every other step only takes away.
LEMMA SlackStep == TypeInv /\ TypeInv' /\ FreshWorkerID /\ BudgetSlack /\ [Next]_vars => BudgetSlack'
<1>. SUFFICES ASSUME TypeInv, TypeInv', FreshWorkerID, BudgetSlack, [Next]_vars PROVE BudgetSlack'
  OBVIOUS
<1>0. /\ pc \in [Procs -> Steps] /\ job \in [Procs -> Job]
      /\ leases \in [DOMAIN leases -> Lease]
      /\ Loop \notin Handlers /\ \A t \in Handlers : t \in Procs
      /\ \A p \in Procs : pc[p] \in EnsureSteps =>
           p \in Handlers /\ job[p].peer \in DOMAIN GrantOf /\ job[p].session \in Sessions
  BY ProcAssumption DEF TypeInv, TypeOK, JobOK, Procs
<1>. USE DEF At, Goto, Done
<1>. DEFINE Framed == \A session \in Sessions : RunningIn(session)' \subseteq RunningIn(session)
                                                /\ Admitted(session)' \subseteq Admitted(session)
<1>1. ASSUME UNCHANGED leases,
             \A t \in Handlers : pc'[t] \in {"spawn", "add"} =>
               pc[t] \in {"spawn", "add"} /\ job'[t].session = job[t].session
      PROVE  Framed
  BY <1>1 DEF RunningIn, Admitted
<1>2. ASSUME NEW t \in Handlers, Request(t) PROVE Framed
  BY <1>0, <1>1, <1>2 DEF Request, EnsureWorker, ReleaseWorker, TerminateWorker, store
<1>3. ASSUME NEW p \in Procs, Snapshot(p) \/ Choose(p) \/ ChooseNone(p) \/ GetReused(p) \/ OverBudget(p)
      PROVE  Framed
  BY <1>0, <1>1, <1>3 DEF Snapshot, Choose, ChooseNone, GetReused, OverBudget, store
<1>4. ASSUME NEW p \in Procs, SpawnFails(p) \/ SpawnReplyLost(p) PROVE Framed
  BY <1>0, <1>1, <1>4 DEF SpawnFails, SpawnReplyLost, store
<1>5. ASSUME NEW p \in Procs, Spawn(p) PROVE Framed
  <2>1. /\ leases' = leases /\ pc[p] = "spawn" /\ job'[p].session = job[p].session
        /\ \A q \in Procs \ {p} : pc'[q] = pc[q] /\ job'[q] = job[q]
    BY <1>0, <1>5 DEF Spawn, store, Job
  <2>. QED
    BY <1>0, <1>1, <2>1
<1>6. ASSUME NEW p \in Procs, UpdateState(p) PROVE Framed
  <2>1. job' = job /\ \A t \in Handlers : pc'[t] \in {"spawn", "add"} => pc[t] \in {"spawn", "add"}
    BY <1>0, <1>6 DEF UpdateState
  <2>2. DOMAIN leases' = DOMAIN leases
    BY <1>6 DEF UpdateState
  <2>3. ASSUME NEW w \in DOMAIN leases, leases'[w].state = "running"
        PROVE  leases[w].state = "running" /\ leases'[w].session = leases[w].session
    BY <1>0, <1>6, <2>3 DEF UpdateState, EndState, Lease
  <2>. QED
    BY <2>1, <2>2, <2>3 DEF RunningIn, Admitted
<1>7. ASSUME NEW p \in Procs, UpdateRefused(p) \/ Refetch(p) \/ Publish(p) \/ Kill(p) \/ KillFails(p)
      PROVE  Framed
  BY <1>0, <1>1, <1>7 DEF UpdateRefused, Refetch, Publish, Kill, KillFails, AfterKill, store
<1>8. ASSUME ExpireLeases PROVE Framed
  <2>1. /\ \A t \in Handlers : pc'[t] = pc[t] /\ job'[t] = job[t]
        /\ DOMAIN leases' = DOMAIN leases
    BY <1>0, <1>8 DEF ExpireLeases
  <2>2. \A w \in DOMAIN leases : leases'[w].state = "running" => leases'[w] = leases[w]
    BY <1>0, <1>8 DEF ExpireLeases, Lease
  <2>. QED
    BY <2>1, <2>2 DEF RunningIn, Admitted
<1>9. ASSUME SweepNext \/ Tick \/ Crash \/ IsolationRestart \/ AgentExits \/ UNCHANGED vars PROVE Framed
  <2>1. CASE Crash
    <3>1. \A session \in Sessions : RunningIn(session)' = {} /\ Admitted(session)' = {}
      BY <1>0, <2>1 DEF Crash, RunningIn, Admitted
    <3>. QED
      BY <3>1
  <2>2. CASE SweepNext
    BY <1>0, <1>1, <2>2 DEF SweepNext, store
  <2>3. CASE Tick \/ IsolationRestart \/ AgentExits \/ UNCHANGED vars
    BY <1>1, <2>3 DEF Tick, IsolationRestart, AgentExits, vars, store
  <2>. QED
    BY <1>9, <2>1, <2>2, <2>3
<1>. HIDE DEF Framed
<1>10. Framed => BudgetSlack'
  BY SlackFrame DEF Framed
<1>11. ASSUME NEW p \in Procs, CheckBudget(p) \/ Add(p) PROVE BudgetSlack'
  <2>. SUFFICES ASSUME NEW session \in Sessions,
                       \A uid \in DOMAIN GrantOf : GrantOf[uid].maxWorkers \in 1..BudgetLimit
                PROVE  Cardinality(RunningIn(session)') + Cardinality(Admitted(session)')
                         <= BudgetLimit + Cardinality(Handlers) - 1
    BY DEF BudgetSlack
  <2>1. /\ Cardinality(RunningIn(session)) + Cardinality(Admitted(session))
             <= BudgetLimit + Cardinality(Handlers) - 1
        /\ Cardinality(RunningIn(session)) \in Nat /\ Cardinality(Admitted(session)) \in Nat
        /\ IsFiniteSet(RunningIn(session)) /\ IsFiniteSet(Admitted(session))
        /\ Cardinality(Handlers) \in Nat
    BY CountedAreFinite DEF BudgetSlack
  <2>2. p \in Handlers /\ \A q \in Procs \ {p} : pc'[q] = pc[q] /\ job'[q] = job[q]
    BY <1>0, <1>11 DEF CheckBudget, Add, EnsureSteps
  <2>3. CASE session # job[p].session
    <3>1. RunningIn(session)' = RunningIn(session)
      <4>1. CASE CheckBudget(p)
        BY <4>1 DEF CheckBudget, RunningIn
      <4>2. CASE Add(p)
        <5>1. /\ DOMAIN leases' = DOMAIN leases \cup {job[p].worker} /\ job[p].worker \notin DOMAIN leases
              /\ leases'[job[p].worker].session = job[p].session
              /\ \A w \in DOMAIN leases : leases'[w] = leases[w]
          BY <1>0, <4>2 DEF Add, put, FreshWorkerID
        <5>. QED
          BY <2>3, <5>1 DEF RunningIn
      <4>. QED
        BY <1>11, <4>1, <4>2
    <3>2. job'[p].session = job[p].session
      BY <1>0, <1>11 DEF CheckBudget, Add, Job
    <3>3. Admitted(session)' = Admitted(session)
      BY <1>0, <2>2, <2>3, <3>2 DEF Admitted
    <3>. QED
      BY <2>1, <3>1, <3>3
  <2>4. CASE session = job[p].session /\ CheckBudget(p)
    <3>1. RunningIn(session)' = RunningIn(session)
      BY <2>4 DEF CheckBudget, RunningIn
    <3>2. /\ GrantOf[job[p].peer].maxWorkers \in 1..BudgetLimit
          /\ WithinBudget(job[p].peer, session)
      BY <1>0, <2>4 DEF CheckBudget, EnsureSteps
    <3>3. Cardinality(RunningIn(session)) <= BudgetLimit - 1
      BY <2>1, <3>2, BoundAssumption DEF WithinBudget
    <3>4. Cardinality(Admitted(session)') <= Cardinality(Handlers)
          /\ Cardinality(Admitted(session)') \in Nat
      <4>1. Admitted(session)' \subseteq Handlers
        BY DEF Admitted
      <4>2. IsFiniteSet(Admitted(session)') /\ Cardinality(Admitted(session)') <= Cardinality(Handlers)
        BY <4>1, ProcAssumption, FS_Subset
      <4>. QED
        BY <4>2, FS_CardinalityType
    <3>. QED
      BY <2>1, <3>1, <3>3, <3>4, BoundAssumption
  <2>5. CASE session = job[p].session /\ Add(p)
    <3>1. /\ DOMAIN leases' = DOMAIN leases \cup {job[p].worker} /\ job[p].worker \notin DOMAIN leases
          /\ leases'[job[p].worker].session = session /\ leases'[job[p].worker].state = "running"
          /\ \A w \in DOMAIN leases : leases'[w] = leases[w]
      BY <1>0, <2>5 DEF Add, put, FreshWorkerID
    <3>2. RunningIn(session)' = RunningIn(session) \cup {job[p].worker}
      BY <3>1 DEF RunningIn
    <3>3. job[p].worker \notin RunningIn(session)
      BY <3>1 DEF RunningIn
    <3>4. Admitted(session)' = Admitted(session) \ {p} /\ p \in Admitted(session)
      BY <1>0, <2>2, <2>5 DEF Add, Admitted
    <3>5. Cardinality(RunningIn(session)') = Cardinality(RunningIn(session)) + 1
      BY <2>1, <3>2, <3>3, FS_AddElement
    <3>6. Cardinality(Admitted(session)') = Cardinality(Admitted(session)) - 1
      BY <2>1, <3>4, FS_RemoveElement
    <3>. QED
      BY <2>1, <3>5, <3>6, BoundAssumption
  <2>. QED
    BY <1>11, <2>3, <2>4, <2>5
<1>. QED
  BY <1>2, <1>3, <1>4, <1>5, <1>6, <1>7, <1>8, <1>9, <1>10, <1>11 DEF Next, Step

\* Check-then-act exceeds a budget by less than the number of handlers, however
\* many requests race, leases end and calls fail.
THEOREM BudgetSlackCorrect == Spec => []BudgetSlack
<1>1. Init => BudgetSlack
  <2>. SUFFICES ASSUME Init, NEW session \in Sessions,
                       \A uid \in DOMAIN GrantOf : GrantOf[uid].maxWorkers \in 1..BudgetLimit
                PROVE  Cardinality(RunningIn(session)) + Cardinality(Admitted(session))
                         <= BudgetLimit + Cardinality(Handlers) - 1
    BY DEF BudgetSlack
  <2>1. RunningIn(session) = {} /\ Admitted(session) = {}
    BY DEF Init, RunningIn, Admitted, Procs
  <2>2. Cardinality({}) = 0
    BY FS_EmptySet
  <2>3. Cardinality(Handlers) \in Nat
    BY ProcAssumption, FS_CardinalityType
  <2>. QED
    BY <2>1, <2>2, <2>3, BoundAssumption
<1>. QED
  BY <1>1, SlackStep, TypeInvariant, FreshWorkerIDCorrect, PTL DEF Spec
=============================================================================

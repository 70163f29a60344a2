---------------------------- MODULE AgentManager ----------------------------
(***************************************************************************)
(* The isolation service (internal/isolation, internal/agent): one Linux   *)
(* user, systemd slice, command unit and nftables rule per agent, changed  *)
(* by one external command after the other. Manager.mu is held over all    *)
(* the commands of a Spawn or a Terminate, but the daemon may die between  *)
(* any two of them, each may fail, and a unit ends when it likes. What the *)
(* operating system keeps is modelled from the commands the code runs.     *)
(*                                                                         *)
(* A request that is refused before the manager changes anything is a      *)
(* stuttering step. The lifecycle events the service publishes are left    *)
(* out: no state depends on them.                                          *)
(***************************************************************************)
EXTENDS Integers, FiniteSetsExt, Functions

CONSTANTS
  Handlers,        \* goroutines that serve requests
  Names,           \* agent names in spawn requests
  SpawnRequests,   \* the spawn_agent requests root may send
  UIDBase, UIDMax, \* agent uids are UIDBase..UIDMax-1
  None,            \* nobody holds the mutex
  Faults,          \* which external commands may fail, and "crash"
  MaxHandle,       \* bound: rules added between two flushes of the chain
  MaxWaiters       \* bound: waitProcess goroutines of one uid

FaultKinds == {"useradd", "slice", "nft_add", "nft_parse", "nft_delete", "reapply",
               "start", "stop", "userdel", "getent", "crash"}

Policies == {"deny", "local_only", "allow"}

\* uid 0 asks for the next free one.
SpawnRequest == [uid : Nat, name : Names, net : Policies, command : BOOLEAN]

ASSUME UIDAssumption == UIDBase \in Nat \ {0} /\ UIDMax \in Nat /\ UIDBase < UIDMax
ASSUME SpawnAssumption == SpawnRequests \subseteq SpawnRequest
ASSUME MutexAssumption == None \notin Handlers
ASSUME ManagerFaultAssumption == Faults \subseteq FaultKinds
ASSUME ManagerBoundAssumption == MaxHandle \in Nat /\ MaxWaiters \in Nat

VARIABLES
  (* the operating system *)
  users,        \* uid -> user name, of the users called agent-...
  slices,       \* uids whose agent slice is active
  cmds,         \* uid of an active command unit -> the policy it was started under
  rules,        \* the rules in the agent chain
  nextHandle,   \* the handle of the next rule
  (* Manager *)
  agents, hasCmd, ruleHandles, nextUID,
  mu,           \* the handler that holds the mutex over several commands
  (* goroutines *)
  boot,         \* how far main() is
  found,        \* what RecoverAgents discovered and has still to adopt
  pc, job,      \* where a handler is and what it works on
  polling,      \* uid -> waitProcess goroutines that poll the unit
  marking       \* uid -> those that saw it end and wait for the mutex

os       == <<users, slices, cmds, rules, nextHandle>>
manager  == <<agents, hasCmd, ruleHandles, nextUID>>
handlers == <<mu, pc, job>>
waiters  == <<polling, marking>>
vars     == <<users, slices, cmds, rules, nextHandle, agents, hasCmd, ruleHandles, nextUID,
              mu, boot, found, pc, job, polling, marking>>

-----------------------------------------------------------------------------
(* Types *)

AgentUIDs == UIDBase..(UIDMax - 1)

\* fmt.Sprintf("agent-%s-%d", name, uid)
Username(name, uid) == [name |-> name, uid |-> uid]

Usernames == [name : Names, uid : AgentUIDs]

Agent == [name : Names \cup Usernames, status : {"running", "exited"}, net : Policies]

Rule == [uid : AgentUIDs, handle : Nat, net : Policies \ {"allow"}]

Boots == {"flush", "discover", "adopt", "serving"}

SpawnSteps     == {"useradd", "slice", "net", "start", "undo_net", "undo_slice", "undo_user"}
TerminateSteps == {"terminate", "stop_unit", "remove_rules", "stop_slice", "userdel"}

NoJob == [uid |-> 0, name |-> None, net |-> "allow", command |-> FALSE]

Job == [uid : AgentUIDs, name : Names \cup Usernames \cup {None}, net : Policies, command : BOOLEAN]

Found == [users : SUBSET AgentUIDs, slices : SUBSET AgentUIDs, cmds : SUBSET AgentUIDs]

NothingFound == [users |-> {}, slices |-> {}, cmds |-> {}]

TypeOK ==
  /\ DOMAIN users \subseteq AgentUIDs /\ users \in [DOMAIN users -> Usernames]
  /\ slices \subseteq AgentUIDs
  /\ DOMAIN cmds \subseteq AgentUIDs /\ cmds \in [DOMAIN cmds -> Policies]
  /\ rules \subseteq Rule
  /\ nextHandle \in Nat
  /\ DOMAIN agents \subseteq AgentUIDs /\ agents \in [DOMAIN agents -> Agent]
  /\ hasCmd \subseteq AgentUIDs
  /\ ruleHandles \in [AgentUIDs -> SUBSET Nat]
  /\ nextUID \in UIDBase..UIDMax
  /\ mu \in Handlers \cup {None}
  /\ boot \in Boots
  /\ found \in Found
  /\ pc \in [Handlers -> {"idle"} \cup SpawnSteps \cup TerminateSteps]
  /\ job \in [Handlers -> Job \cup {NoJob}]
  /\ polling \in [AgentUIDs -> Nat]
  /\ marking \in [AgentUIDs -> Nat]

NoWaiters == [u \in AgentUIDs |-> 0]

Init ==
  /\ users = [u \in {} |-> None]
  /\ slices = {}
  /\ cmds = [u \in {} |-> "allow"]
  /\ rules = {}
  /\ nextHandle = 1
  /\ agents = [u \in {} |-> None]
  /\ hasCmd = {}
  /\ ruleHandles = [u \in AgentUIDs |-> {}]
  /\ nextUID = UIDBase
  /\ mu = None
  /\ boot = "flush"
  /\ found = NothingFound
  /\ pc = [t \in Handlers |-> "idle"]
  /\ job = [t \in Handlers |-> NoJob]
  /\ polling = NoWaiters
  /\ marking = NoWaiters

-----------------------------------------------------------------------------
(* Helpers *)

put(f, key, value) == [x \in DOMAIN f \cup {key} |-> IF x = key THEN value ELSE f[x]]

drop(f, key) == Restrict(f, DOMAIN f \ {key})

At(t, step) == pc[t] = step

Goto(t, step) == pc' = [pc EXCEPT ![t] = step] /\ UNCHANGED <<mu, job>>

\* Unlock and answer.
Done(t) ==
  /\ mu' = None
  /\ pc' = [pc EXCEPT ![t] = "idle"]
  /\ job' = [job EXCEPT ![t] = NoJob]

\* A handler may take the mutex for itself.
Free == boot = "serving" /\ mu = None

\* userdel refuses an unknown user and one that has processes.
CanUserdel(name) == \E u \in DOMAIN users : users[u] = name /\ u \notin DOMAIN cmds

Userdel(name) == users' = Restrict(users, {u \in DOMAIN users : users[u] # name})

\* addNftRule: the kernel picks the handle.
AddNftRule(uid, net) ==
  /\ rules' = rules \cup {[uid |-> uid, handle |-> nextHandle, net |-> net]}
  /\ nextHandle' = nextHandle + 1

RememberHandle(uid) == ruleHandles' = [ruleHandles EXCEPT ![uid] = @ \cup {nextHandle}]

\* Bug: the handles are remembered for ever.
KeepHandles(uid) ==
  /\ rules' = {r \in rules : r.handle \notin ruleHandles[uid]}
  /\ UNCHANGED ruleHandles

\* removeNetRules: the handles are forgotten whatever nft answers.
RemoveNetRules(uid) ==
  /\ ruleHandles' = [ruleHandles EXCEPT ![uid] = {}]
  /\ \/ rules' = {r \in rules : r.handle \notin ruleHandles[uid]}
     \/ "nft_delete" \in Faults /\ UNCHANGED rules

-----------------------------------------------------------------------------
(* Spawn *)

\* The manager takes the mutex and a uid, the requested one or the next.
Spawn(t, r) ==
  LET uid == IF r.uid = 0 THEN nextUID ELSE r.uid IN
  /\ Free
  /\ At(t, "idle")
  /\ uid \in AgentUIDs
  /\ r.uid # 0 => uid \notin DOMAIN agents
  /\ nextHandle <= MaxHandle                       \* bound
  /\ polling[uid] + marking[uid] < MaxWaiters      \* bound
  /\ nextUID' = IF uid >= nextUID THEN uid + 1 ELSE nextUID
  /\ mu' = t
  /\ pc' = [pc EXCEPT ![t] = "useradd"]
  /\ job' = [job EXCEPT ![t] = [uid |-> uid, name |-> r.name, net |-> r.net, command |-> r.command]]
  /\ UNCHANGED <<os, agents, hasCmd, ruleHandles, boot, found, waiters>>

UserAdd(t) ==
  /\ At(t, "useradd")
  /\ job[t].uid \notin DOMAIN users
  /\ users' = put(users, job[t].uid, Username(job[t].name, job[t].uid))
  /\ Goto(t, "slice")
  /\ UNCHANGED <<slices, cmds, rules, nextHandle, manager, boot, found, waiters>>

UserAddFails(t) ==
  /\ At(t, "useradd")
  /\ job[t].uid \in DOMAIN users \/ "useradd" \in Faults
  /\ Done(t)
  /\ UNCHANGED <<os, manager, boot, found, waiters>>

CreateSlice(t) ==
  /\ At(t, "slice")
  /\ slices' = slices \cup {job[t].uid}
  /\ Goto(t, "net")
  /\ UNCHANGED <<users, cmds, rules, nextHandle, manager, boot, found, waiters>>

CreateSliceFails(t) ==
  /\ At(t, "slice")
  /\ "slice" \in Faults
  /\ Goto(t, "undo_user")
  /\ UNCHANGED <<os, manager, boot, found, waiters>>

\* applyNetRules, then the agent enters the map; without a command that is all.
ApplyNetRules(t) ==
  LET uid == job[t].uid IN
  /\ At(t, "net")
  /\ IF job[t].net = "allow"
       THEN UNCHANGED <<rules, nextHandle, ruleHandles>>
       ELSE AddNftRule(uid, job[t].net) /\ RememberHandle(uid)
  /\ agents' = put(agents, uid, [name |-> job[t].name, status |-> "running", net |-> job[t].net])
  /\ IF job[t].command THEN Goto(t, "start") ELSE Done(t)
  /\ UNCHANGED <<users, slices, cmds, hasCmd, nextUID, boot, found, waiters>>

\* nft fails, or its output has no handle; the slice is not stopped again.
ApplyNetRulesFails(t) ==
  /\ At(t, "net")
  /\ job[t].net # "allow"
  /\ \/ "nft_add" \in Faults /\ UNCHANGED <<rules, nextHandle>>
     \/ "nft_parse" \in Faults /\ AddNftRule(job[t].uid, job[t].net)
  /\ Goto(t, "undo_user")
  /\ UNCHANGED <<users, slices, cmds, manager, boot, found, waiters>>

\* startProcess: a stale unit is stopped, the new one started and waited for.
StartProcess(t) ==
  LET uid == job[t].uid IN
  /\ At(t, "start")
  /\ cmds' = put(cmds, uid, job[t].net)
  /\ hasCmd' = hasCmd \cup {uid}
  /\ polling' = [polling EXCEPT ![uid] = @ + 1]
  /\ Done(t)
  /\ UNCHANGED <<users, slices, rules, nextHandle, agents, ruleHandles, nextUID, boot, found, marking>>

StartProcessFails(t) ==
  /\ At(t, "start")
  /\ "start" \in Faults
  /\ cmds' = drop(cmds, job[t].uid)
  /\ agents' = drop(agents, job[t].uid)
  /\ Goto(t, "undo_net")
  /\ UNCHANGED <<users, slices, rules, nextHandle, hasCmd, ruleHandles, nextUID, boot, found, waiters>>

UndoNet(t) ==
  /\ At(t, "undo_net")
  /\ RemoveNetRules(job[t].uid)
  /\ Goto(t, "undo_slice")
  /\ UNCHANGED <<users, slices, cmds, nextHandle, agents, hasCmd, nextUID, boot, found, waiters>>

UndoSlice(t) ==
  /\ At(t, "undo_slice")
  /\ \/ slices' = slices \ {job[t].uid}
     \/ "stop" \in Faults /\ UNCHANGED slices
  /\ Goto(t, "undo_user")
  /\ UNCHANGED <<users, cmds, rules, nextHandle, manager, boot, found, waiters>>

\* Bug: the clean-up of a failed Spawn forgets the user.
UndoNothing(t) ==
  /\ At(t, "undo_user")
  /\ Done(t)
  /\ UNCHANGED <<os, manager, boot, found, waiters>>

\* Best effort: the error of this userdel is dropped.
UndoUser(t) ==
  /\ At(t, "undo_user")
  /\ LET name == Username(job[t].name, job[t].uid) IN
     \/ CanUserdel(name) /\ Userdel(name)
     \/ (~CanUserdel(name) \/ "userdel" \in Faults) /\ UNCHANGED users
  /\ Done(t)
  /\ UNCHANGED <<slices, cmds, rules, nextHandle, manager, boot, found, waiters>>

-----------------------------------------------------------------------------
(* List and Terminate *)

\* List asks systemd about every agent whose command it believes to run.
Refreshed ==
  LET ended == (hasCmd \cap DOMAIN agents) \ DOMAIN cmds IN
  /\ agents' = [u \in DOMAIN agents |->
                  IF u \in ended THEN [agents[u] EXCEPT !.status = "exited"] ELSE agents[u]]
  /\ hasCmd' = hasCmd \ ended

List ==
  /\ Free
  /\ Refreshed
  /\ UNCHANGED <<os, ruleHandles, nextUID, handlers, boot, found, waiters>>

\* handleTerminate lists the agents in a critical section of its own.
HandleTerminate(t, uid) ==
  /\ Free
  /\ At(t, "idle")
  /\ Refreshed
  /\ pc' = [pc EXCEPT ![t] = "terminate"]
  /\ job' = [job EXCEPT ![t] = [NoJob EXCEPT !.uid = uid]]
  /\ UNCHANGED <<os, ruleHandles, nextUID, mu, boot, found, waiters>>

\* Terminate finds the agent and keeps the mutex.
Terminate(t) ==
  /\ Free
  /\ At(t, "terminate")
  /\ job[t].uid \in DOMAIN agents
  /\ mu' = t
  /\ job' = [job EXCEPT ![t].name = agents[job[t].uid].name]
  /\ pc' = [pc EXCEPT ![t] = "stop_unit"]
  /\ UNCHANGED <<os, manager, boot, found, waiters>>

TerminateUnknown(t) ==
  /\ Free
  /\ At(t, "terminate")
  /\ job[t].uid \notin DOMAIN agents
  /\ Done(t)
  /\ UNCHANGED <<os, manager, boot, found, waiters>>

\* Bug: nothing kills what the agent still runs.
StopNothing(t) ==
  /\ At(t, "stop_unit")
  /\ hasCmd' = hasCmd \ {job[t].uid}
  /\ Goto(t, "remove_rules")
  /\ UNCHANGED <<os, agents, ruleHandles, nextUID, boot, found, waiters>>

\* Bug: the user goes before its processes.
UserdelFirst(t) ==
  /\ At(t, "stop_unit")
  /\ Userdel(Username(job[t].name, job[t].uid))
  /\ hasCmd' = hasCmd \ {job[t].uid}
  /\ Goto(t, "remove_rules")
  /\ UNCHANGED <<slices, cmds, rules, nextHandle, agents, ruleHandles, nextUID, boot, found, waiters>>

\* systemctl stop and pkill; their errors are dropped.
StopUnit(t) ==
  /\ At(t, "stop_unit")
  /\ \/ cmds' = drop(cmds, job[t].uid)
     \/ "stop" \in Faults /\ UNCHANGED cmds
  /\ hasCmd' = hasCmd \ {job[t].uid}
  /\ Goto(t, "remove_rules")
  /\ UNCHANGED <<users, slices, rules, nextHandle, agents, ruleHandles, nextUID, boot, found, waiters>>

\* Bug: the rules stay behind.
KeepRules(t) ==
  /\ At(t, "remove_rules")
  /\ ruleHandles' = [ruleHandles EXCEPT ![job[t].uid] = {}]
  /\ Goto(t, "stop_slice")
  /\ UNCHANGED <<os, agents, hasCmd, nextUID, boot, found, waiters>>

RemoveRules(t) ==
  /\ At(t, "remove_rules")
  /\ RemoveNetRules(job[t].uid)
  /\ Goto(t, "stop_slice")
  /\ UNCHANGED <<users, slices, cmds, nextHandle, agents, hasCmd, nextUID, boot, found, waiters>>

\* Stopping a slice stops what runs in it.
StopSlice(t) ==
  /\ At(t, "stop_slice")
  /\ \/ slices' = slices \ {job[t].uid} /\ cmds' = drop(cmds, job[t].uid)
     \/ "stop" \in Faults /\ UNCHANGED <<slices, cmds>>
  /\ Goto(t, "userdel")
  /\ UNCHANGED <<users, rules, nextHandle, manager, boot, found, waiters>>

RemoveUser(t) ==
  LET name == Username(job[t].name, job[t].uid) IN
  /\ At(t, "userdel")
  /\ CanUserdel(name)
  /\ Userdel(name)
  /\ agents' = drop(agents, job[t].uid)
  /\ Done(t)
  /\ UNCHANGED <<slices, cmds, rules, nextHandle, hasCmd, ruleHandles, nextUID, boot, found, waiters>>

\* The error is the answer and the agent stays in the map.
RemoveUserFails(t) ==
  LET name == Username(job[t].name, job[t].uid) IN
  /\ At(t, "userdel")
  /\ ~CanUserdel(name) \/ "userdel" \in Faults
  /\ Done(t)
  /\ UNCHANGED <<os, manager, boot, found, waiters>>

-----------------------------------------------------------------------------
(* Units end, and waitProcess notices *)

UnitEnds(uid) ==
  /\ uid \in DOMAIN cmds
  /\ cmds' = drop(cmds, uid)
  /\ UNCHANGED <<users, slices, rules, nextHandle, manager, handlers, boot, found, waiters>>

\* Bug: the goroutine gives up instead.
WaiterReturns(uid) ==
  /\ polling[uid] > 0
  /\ uid \notin DOMAIN cmds
  /\ polling' = [polling EXCEPT ![uid] = @ - 1]
  /\ UNCHANGED <<os, manager, handlers, boot, found, marking>>

\* A poll outside the mutex finds the unit inactive.
WaitProcess(uid) ==
  /\ polling[uid] > 0
  /\ uid \notin DOMAIN cmds
  /\ polling' = [polling EXCEPT ![uid] = @ - 1]
  /\ marking' = [marking EXCEPT ![uid] = @ + 1]
  /\ UNCHANGED <<os, manager, handlers, boot, found>>

\* With the mutex: whatever agent has the uid now is marked.
MarkExited(uid) ==
  /\ Free
  /\ marking[uid] > 0
  /\ marking' = [marking EXCEPT ![uid] = @ - 1]
  /\ agents' = IF uid \in DOMAIN agents THEN [agents EXCEPT ![uid].status = "exited"] ELSE agents
  /\ hasCmd' = hasCmd \ {uid}
  /\ UNCHANGED <<os, ruleHandles, nextUID, handlers, boot, found, polling>>

-----------------------------------------------------------------------------
(* The daemon starts, and dies *)

\* BootstrapNftables flushes the chain of the last run.
BootstrapNftables ==
  /\ boot = "flush"
  /\ rules' = {}
  /\ nextHandle' = 1
  /\ boot' = "discover"
  /\ UNCHANGED <<users, slices, cmds, manager, handlers, found, waiters>>

\* RecoverAgents looks for users, active slices and active command units.
Discover ==
  /\ boot = "discover"
  /\ \/ found' = [users |-> DOMAIN users, slices |-> slices, cmds |-> DOMAIN cmds]
     \/ "getent" \in Faults /\ found' = NothingFound
  /\ boot' = "adopt"
  /\ UNCHANGED <<os, manager, handlers, waiters>>

\* One user is adopted, with its whole user name for its name.
Adopt(uid) ==
  /\ boot = "adopt"
  /\ uid \in found.users
  /\ found' = [found EXCEPT !.users = @ \ {uid}]
  /\ \/ AddNftRule(uid, "deny") /\ RememberHandle(uid)
     \/ "reapply" \in Faults /\ UNCHANGED <<rules, nextHandle, ruleHandles>>
  /\ agents' = put(agents, uid,
        [name |-> users[uid], net |-> "deny",
         status |-> IF uid \in found.slices THEN "running" ELSE "exited"])
  /\ hasCmd' = IF uid \in found.cmds \cap DOMAIN cmds THEN hasCmd \cup {uid} ELSE hasCmd
  /\ UNCHANGED <<users, slices, cmds, nextUID, handlers, boot, waiters>>

\* nextUID goes above every user found, and the socket is opened.
Serve ==
  /\ boot = "adopt"
  /\ found.users = {}
  /\ nextUID' = Max({nextUID} \cup {u + 1 : u \in DOMAIN agents})
  /\ boot' = "serving"
  /\ found' = NothingFound
  /\ UNCHANGED <<os, agents, hasCmd, ruleHandles, handlers, waiters>>

\* The process dies: what it knew is gone, what it did stays.
Crash ==
  /\ "crash" \in Faults
  /\ agents' = [u \in {} |-> None]
  /\ hasCmd' = {}
  /\ ruleHandles' = [u \in AgentUIDs |-> {}]
  /\ nextUID' = UIDBase
  /\ mu' = None
  /\ boot' = "flush"
  /\ found' = NothingFound
  /\ pc' = [t \in Handlers |-> "idle"]
  /\ job' = [t \in Handlers |-> NoJob]
  /\ polling' = NoWaiters
  /\ marking' = NoWaiters
  /\ UNCHANGED os

-----------------------------------------------------------------------------

\* What a handler that holds the mutex does next.
Holding(t) ==
  \/ UserAdd(t) \/ UserAddFails(t) \/ CreateSlice(t) \/ CreateSliceFails(t)
  \/ ApplyNetRules(t) \/ ApplyNetRulesFails(t) \/ StartProcess(t) \/ StartProcessFails(t)
  \/ UndoNet(t) \/ UndoSlice(t) \/ UndoUser(t)
  \/ StopUnit(t) \/ RemoveRules(t) \/ StopSlice(t) \/ RemoveUser(t) \/ RemoveUserFails(t)

Request(t) ==
  \/ \E r \in SpawnRequests : Spawn(t, r)
  \/ \E uid \in AgentUIDs : HandleTerminate(t, uid)

Booting == BootstrapNftables \/ Discover \/ (\E uid \in AgentUIDs : Adopt(uid)) \/ Serve

Next ==
  \/ \E t \in Handlers : Request(t) \/ Terminate(t) \/ TerminateUnknown(t) \/ Holding(t)
  \/ List
  \/ \E uid \in AgentUIDs : UnitEnds(uid) \/ WaitProcess(uid) \/ MarkExited(uid)
  \/ Booting
  \/ Crash

Spec == Init /\ [][Next]_vars

\* External commands return and goroutines run; sync.Mutex hands itself on in
\* the order of arrival once someone has waited for it, so that a goroutine that
\* wants it does not starve.
Fairness ==
  /\ WF_vars(Booting)
  /\ \A t \in Handlers : WF_vars(Holding(t))
  /\ \A t \in Handlers : SF_vars(Terminate(t) \/ TerminateUnknown(t))
  /\ \A uid \in AgentUIDs : WF_vars(WaitProcess(uid)) /\ SF_vars(MarkExited(uid))

FairSpec == Spec /\ Fairness

-----------------------------------------------------------------------------
(* Safety *)

Covered(uid, net) == \E r \in rules : r.uid = uid /\ r.net \in {net, "deny"}

\* Nothing runs outside its network policy: while the service serves, a command
\* unit that was started under a policy has a rule at least as strict, through
\* every failed or interrupted Spawn and Terminate.
Confined ==
  boot = "serving" =>
    \A uid \in DOMAIN cmds : cmds[uid] = "allow" \/ Covered(uid, cmds[uid])

\* The manager knows each agent user, also after it died in the middle of a
\* Spawn or a Terminate; and each of its agents has its user.
UsersAreKnown == Free => DOMAIN users = DOMAIN agents

\* A new user inherits nothing: when useradd gives a uid out again, no process
\* and no rule of an earlier agent has it.
FreshUid ==
  [][\A uid \in DOMAIN users' \ DOMAIN users :
       uid \notin DOMAIN cmds /\ \A r \in rules : r.uid # uid]_vars

\* The same for the processes alone, whichever commands fail: no uid with a
\* process ever changes hands.
NoInheritedProcess ==
  [][\A uid \in AgentUIDs :
       (uid \in DOMAIN users) # (uid \in DOMAIN users') => uid \notin DOMAIN cmds]_vars

\* Whichever commands fail: a remembered handle is that of a rule of the same
\* uid, so that a Terminate never opens the network for another agent.
HandlesAreOwn ==
  boot # "flush" =>
    \A uid \in AgentUIDs : \A h \in ruleHandles[uid] :
      \E r \in rules : r.uid = uid /\ r.handle = h /\ \A q \in rules : q.handle = h => q = r

-----------------------------------------------------------------------------
(* Liveness *)

\* The end of a command is noticed without anyone asking, as long as the daemon
\* that started it lives.
ExitNoticed ==
  \A uid \in AgentUIDs :
    polling[uid] + marking[uid] > 0 /\ uid \in hasCmd \ DOMAIN cmds ~> uid \notin hasCmd \ DOMAIN cmds

=============================================================================

-------------------------- MODULE AgentManagerProofs --------------------------
(***************************************************************************)
(* What the isolation service guarantees, for any number of request        *)
(* handlers, any range of uids and any spawn requests. Each theorem says   *)
(* which external commands must not fail for it.                           *)
(***************************************************************************)
EXTENDS AgentManager, WellFoundedInduction, TLAPS

-----------------------------------------------------------------------------
(* Maps, and the largest of some numbers.                                  *)

IsMap(f, D, S) == DOMAIN f \subseteq D /\ f \in [DOMAIN f -> S]

LEMMA PutIsMap ==
  ASSUME NEW D, NEW S, NEW f, IsMap(f, D, S), NEW key \in D, NEW value \in S
  PROVE  IsMap(put(f, key, value), D, S)
BY DEF IsMap, put

LEMMA DropIsMap ==
  ASSUME NEW D, NEW S, NEW f, IsMap(f, D, S), NEW key
  PROVE  IsMap(drop(f, key), D, S)
BY DEF IsMap, drop, Restrict

LEMMA DropHas ==
  ASSUME NEW f, NEW key
  PROVE  /\ DOMAIN drop(f, key) = DOMAIN f \ {key}
         /\ \A x \in DOMAIN f \ {key} : drop(f, key)[x] = f[x]
BY DEF drop, Restrict

\* A set of numbers that is bounded has a largest one.
LEMMA MaxOfBounded ==
  ASSUME NEW bound \in Nat, NEW T, T \subseteq 0..bound, T # {}
  PROVE  Max(T) \in T /\ \A x \in T : Max(T) >= x
<1>. DEFINE Below == {bound - x : x \in T}
<1>0. \A x \in T : x \in Nat /\ bound - x \in Nat /\ bound - x \in Below
  OBVIOUS
<1>1. Below \subseteq Nat /\ Below # {}
  BY <1>0
<1>2. PICK m \in Below : \A k \in Below : ~ (<<k, m>> \in OpToRel(<, Nat))
  BY <1>1, WFMin, NatLessThanWellFounded
<1>3. \A k \in Below : ~ (k < m)
  BY <1>1, <1>2 DEF OpToRel
<1>4. PICK x \in T : m = bound - x
  OBVIOUS
<1>5. \A y \in T : x >= y
  <2>. SUFFICES ASSUME NEW y \in T
                PROVE  x >= y
    OBVIOUS
  <2>1. ~ (bound - y < bound - x)
    BY <1>0, <1>3, <1>4
  <2>. QED
    BY <1>0, <2>1
<1>. QED
  BY <1>5 DEF Max

-----------------------------------------------------------------------------
(* Types, and who holds the mutex: a handler that is in the middle of a    *)
(* Spawn or a Terminate, which only happens while the service serves.      *)

InMutex(t) == pc[t] \in SpawnSteps \cup (TerminateSteps \ {"terminate"})

JobOK(t) ==
  /\ pc[t] # "idle" => boot = "serving" /\ job[t].uid \in AgentUIDs
  /\ pc[t] \in SpawnSteps => job[t] \in Job /\ job[t].name \in Names
  /\ pc[t] \in TerminateSteps \ {"terminate"} => job[t] \in Job
  /\ InMutex(t) => mu = t

TypeInv == TypeOK /\ (\A t \in Handlers : JobOK(t)) /\ (mu # None => InMutex(mu))

LEMMA UIDsAreNumbers ==
  /\ UIDBase \in Nat /\ UIDMax \in Nat /\ UIDBase < UIDMax
  /\ \A u \in AgentUIDs : u \in Nat /\ u # 0 /\ UIDBase <= u /\ u < UIDMax
BY UIDAssumption DEF AgentUIDs

LEMMA JobStep ==
  ASSUME TypeInv, [Next]_vars
  PROVE  (\A t \in Handlers : JobOK(t)') /\ (mu' # None => InMutex(mu)')
<1>. DEFINE Same(t) == pc'[t] = pc[t] /\ job'[t] = job[t]
<1>0. /\ pc \in [Handlers -> {"idle"} \cup SpawnSteps \cup TerminateSteps]
      /\ job \in [Handlers -> Job \cup {NoJob}]
      /\ mu \in Handlers \cup {None} /\ None \notin Handlers
      /\ \A t \in Handlers : JobOK(t)
      /\ mu # None => InMutex(mu)
  BY MutexAssumption DEF TypeInv, TypeOK
<1>1. ASSUME NEW t \in Handlers, Holding(t)
      PROVE  /\ mu = t /\ boot = "serving" /\ boot' = boot
             /\ \/ Goto(t, pc'[t]) /\ pc'[t] \in SpawnSteps \cup (TerminateSteps \ {"terminate"})
                   /\ (pc'[t] \in SpawnSteps <=> pc[t] \in SpawnSteps)
                \/ Done(t)
  <2>. USE <1>0 DEF InMutex, JobOK, SpawnSteps, TerminateSteps, At
  <2>1. CASE UserAdd(t) \/ UserAddFails(t) \/ CreateSlice(t) \/ CreateSliceFails(t)
    BY <2>1 DEF UserAdd, UserAddFails, CreateSlice, CreateSliceFails, Goto
  <2>2. CASE ApplyNetRules(t) \/ ApplyNetRulesFails(t) \/ StartProcess(t) \/ StartProcessFails(t)
    BY <2>2 DEF ApplyNetRules, ApplyNetRulesFails, StartProcess, StartProcessFails, Goto
  <2>3. CASE UndoNet(t) \/ UndoSlice(t) \/ UndoUser(t)
    BY <2>3 DEF UndoNet, UndoSlice, UndoUser, Goto
  <2>4. CASE StopUnit(t) \/ RemoveRules(t) \/ StopSlice(t) \/ RemoveUser(t) \/ RemoveUserFails(t)
    BY <2>4 DEF StopUnit, RemoveRules, StopSlice, RemoveUser, RemoveUserFails, Goto
  <2>. QED
    BY <1>1, <2>1, <2>2, <2>3, <2>4 DEF Holding
<1>2. ASSUME NEW t \in Handlers, mu = t, boot = "serving", boot' = boot,
             Goto(t, pc'[t]), pc'[t] \in SpawnSteps \cup (TerminateSteps \ {"terminate"}),
             pc[t] \in SpawnSteps \cup (TerminateSteps \ {"terminate"}),
             pc'[t] \in SpawnSteps <=> pc[t] \in SpawnSteps
      PROVE  (\A s \in Handlers : JobOK(s)') /\ (mu' # None => InMutex(mu)')
  <2>1. mu' = mu /\ job' = job /\ \A s \in Handlers \ {t} : pc'[s] = pc[s]
    BY <1>0, <1>2 DEF Goto
  <2>2. JobOK(t)'
    BY <1>0, <1>2, <2>1 DEF JobOK, InMutex, SpawnSteps, TerminateSteps
  <2>3. ASSUME NEW s \in Handlers \ {t}
        PROVE  JobOK(s)'
    BY <1>0, <1>2, <2>1 DEF JobOK, InMutex
  <2>. QED
    BY <1>2, <2>1, <2>2, <2>3 DEF InMutex
<1>3. ASSUME NEW t \in Handlers, mu \in {t, None}, boot' = boot, Done(t)
      PROVE  (\A s \in Handlers : JobOK(s)') /\ (mu' # None => InMutex(mu)')
  <2>1. mu' = None /\ pc'[t] = "idle" /\ \A s \in Handlers \ {t} : Same(s)
    BY <1>0, <1>3 DEF Done
  <2>2. JobOK(t)'
    BY <2>1 DEF JobOK, InMutex, SpawnSteps, TerminateSteps
  <2>3. ASSUME NEW s \in Handlers \ {t}
        PROVE  JobOK(s)'
    BY <1>0, <1>3, <2>1 DEF JobOK, InMutex
  <2>. QED
    BY <2>1, <2>2, <2>3
<1>4. ASSUME NEW t \in Handlers, NEW p, NEW j, mu = None, boot = "serving", boot' = boot,
             pc' = [pc EXCEPT ![t] = p], job' = [job EXCEPT ![t] = j], j.uid \in AgentUIDs,
             \/ p = "useradd" /\ mu' = t /\ j \in Job /\ j.name \in Names
             \/ p = "stop_unit" /\ mu' = t /\ j \in Job
             \/ p = "terminate" /\ mu' = None
      PROVE  (\A s \in Handlers : JobOK(s)') /\ (mu' # None => InMutex(mu)')
  <2>1. pc'[t] = p /\ job'[t] = j /\ \A s \in Handlers \ {t} : Same(s)
    BY <1>0, <1>4
  <2>2. JobOK(t)' /\ (mu' # None => InMutex(mu)')
    BY <1>4, <2>1 DEF JobOK, InMutex, SpawnSteps, TerminateSteps
  <2>3. ASSUME NEW s \in Handlers \ {t}
        PROVE  JobOK(s)'
    BY <1>0, <1>4, <2>1 DEF JobOK, InMutex
  <2>. QED
    BY <2>2, <2>3
<1>5. ASSUME NEW t \in Handlers, Holding(t)
      PROVE  (\A s \in Handlers : JobOK(s)') /\ (mu' # None => InMutex(mu)')
  <2>1. pc[t] \in SpawnSteps \cup (TerminateSteps \ {"terminate"})
    BY <1>0, <1>1, <1>5 DEF InMutex
  <2>. QED
    BY <1>1, <1>2, <1>3, <1>5, <2>1
<1>6. ASSUME NEW t \in Handlers, NEW r \in SpawnRequests, Spawn(t, r)
      PROVE  (\A s \in Handlers : JobOK(s)') /\ (mu' # None => InMutex(mu)')
  <2>1. PICK uid \in AgentUIDs :
          job' = [job EXCEPT ![t] = [uid |-> uid, name |-> r.name, net |-> r.net, command |-> r.command]]
    BY <1>6 DEF Spawn
  <2>2. PICK j : j = [uid |-> uid, name |-> r.name, net |-> r.net, command |-> r.command]
    OBVIOUS
  <2>3. j \in Job /\ j.name \in Names /\ j.uid \in AgentUIDs
    BY <2>2, SpawnAssumption DEF SpawnRequest, Job
  <2>. QED
    BY <1>4, <1>6, <2>1, <2>2, <2>3 DEF Spawn, Free
<1>7. ASSUME NEW t \in Handlers, NEW uid \in AgentUIDs, HandleTerminate(t, uid)
      PROVE  (\A s \in Handlers : JobOK(s)') /\ (mu' # None => InMutex(mu)')
  <2>1. PICK j : j = [NoJob EXCEPT !.uid = uid]
    OBVIOUS
  <2>2. j.uid = uid
    BY <2>1 DEF NoJob
  <2>. QED
    BY <1>4, <1>7, <2>1, <2>2 DEF HandleTerminate, Free
<1>8. ASSUME NEW t \in Handlers, Terminate(t)
      PROVE  (\A s \in Handlers : JobOK(s)') /\ (mu' # None => InMutex(mu)')
  <2>1. job[t].uid \in DOMAIN agents /\ DOMAIN agents \subseteq AgentUIDs /\ agents \in [DOMAIN agents -> Agent]
    BY <1>8 DEF Terminate, TypeInv, TypeOK
  <2>2. job[t] \in Job
    BY <1>0, <2>1, UIDsAreNumbers DEF NoJob
  <2>3. PICK n : n = agents[job[t].uid].name
    OBVIOUS
  <2>4. n \in Names \cup Usernames
    BY <2>1, <2>3 DEF Agent
  <2>5. PICK j : j = [job[t] EXCEPT !.name = n]
    OBVIOUS
  <2>6. j \in Job /\ j.uid \in AgentUIDs
    BY <2>2, <2>4, <2>5 DEF Job
  <2>7. job' = [job EXCEPT ![t] = j]
    BY <1>8, <2>3, <2>5 DEF Terminate
  <2>. QED
    BY <1>4, <1>8, <2>6, <2>7 DEF Terminate, Free
<1>9. ASSUME NEW t \in Handlers, TerminateUnknown(t)
      PROVE  (\A s \in Handlers : JobOK(s)') /\ (mu' # None => InMutex(mu)')
  BY <1>3, <1>9 DEF TerminateUnknown, Free
<1>10. CASE UNCHANGED <<mu, pc, job, boot>>
  BY <1>0, <1>10 DEF JobOK, InMutex
<1>11. CASE Booting
  <2>1. boot # "serving" /\ UNCHANGED <<mu, pc, job>>
    BY <1>11 DEF Booting, BootstrapNftables, Discover, Adopt, Serve, handlers
  <2>2. \A t \in Handlers : pc[t] = "idle" /\ mu # t
    BY <1>0, <2>1 DEF JobOK, InMutex, SpawnSteps, TerminateSteps
  <2>. QED
    BY <1>0, <2>1, <2>2 DEF JobOK, InMutex, SpawnSteps, TerminateSteps
<1>12. CASE Crash
  BY <1>12 DEF Crash, JobOK, InMutex, SpawnSteps, TerminateSteps
<1>13. ASSUME List \/ (\E uid \in AgentUIDs : UnitEnds(uid) \/ WaitProcess(uid) \/ MarkExited(uid)) \/ UNCHANGED vars
       PROVE  UNCHANGED <<mu, pc, job, boot>>
  BY <1>13 DEF List, UnitEnds, WaitProcess, MarkExited, handlers, vars
<1>. QED
  BY <1>5, <1>6, <1>7, <1>8, <1>9, <1>10, <1>11, <1>12, <1>13 DEF Next, Request


-----------------------------------------------------------------------------
(* Types of what the steps change.                                         *)

UsersOK  == IsMap(users, AgentUIDs, Usernames)
CmdsOK   == slices \subseteq AgentUIDs /\ IsMap(cmds, AgentUIDs, Policies)
RulesOK  == rules \subseteq Rule /\ nextHandle \in Nat /\ ruleHandles \in [AgentUIDs -> SUBSET Nat]
AgentsOK == IsMap(agents, AgentUIDs, Agent) /\ hasCmd \subseteq AgentUIDs
NextOK   == nextUID \in UIDBase..UIDMax /\ found \in Found /\ boot \in Boots
MuOK     == /\ mu \in Handlers \cup {None}
            /\ pc \in [Handlers -> {"idle"} \cup SpawnSteps \cup TerminateSteps]
            /\ job \in [Handlers -> Job \cup {NoJob}]
CountsOK == polling \in [AgentUIDs -> Nat] /\ marking \in [AgentUIDs -> Nat]

LEMMA TypeParts ==
  TypeOK <=> UsersOK /\ CmdsOK /\ RulesOK /\ AgentsOK /\ NextOK /\ MuOK /\ CountsOK
BY DEF TypeOK, UsersOK, CmdsOK, RulesOK, AgentsOK, NextOK, MuOK, CountsOK, IsMap

\* What a handler in the middle of a Spawn works on.
LEMMA SpawnJob ==
  ASSUME TypeInv, NEW t \in Handlers
  PROVE  /\ pc[t] \in SpawnSteps => /\ job[t].uid \in AgentUIDs /\ job[t].name \in Names
                                    /\ job[t].net \in Policies
         /\ pc[t] \in SpawnSteps \cup TerminateSteps => job[t].uid \in AgentUIDs
<1>1. JobOK(t)
  BY DEF TypeInv
<1>2. pc[t] \in SpawnSteps => job[t] \in Job /\ job[t].name \in Names
  BY <1>1 DEF JobOK
<1>3. pc[t] # "idle" => job[t].uid \in AgentUIDs
  BY <1>1 DEF JobOK
<1>4. "idle" \notin SpawnSteps \cup TerminateSteps
  BY DEF SpawnSteps, TerminateSteps
<1>. QED
  BY <1>2, <1>3, <1>4 DEF Job

\* The steps a handler takes with the mutex, by where it is.
LEMMA HoldingAt ==
  ASSUME NEW t \in Handlers, Holding(t)
  PROVE  pc[t] \in SpawnSteps \cup (TerminateSteps \ {"terminate"})
BY DEF Holding, UserAdd, UserAddFails, CreateSlice, CreateSliceFails, ApplyNetRules, ApplyNetRulesFails,
       StartProcess, StartProcessFails, UndoNet, UndoSlice, UndoUser, StopUnit, RemoveRules, StopSlice,
       RemoveUser, RemoveUserFails, At, SpawnSteps, TerminateSteps

LEMMA MuTyped ==
  ASSUME TypeInv, [Next]_vars
  PROVE  MuOK'
<1>1. MuOK
  BY TypeParts DEF TypeInv
<1>2. ASSUME NEW t \in Handlers, Holding(t) \/ TerminateUnknown(t)
      PROVE  MuOK'
  <2>. USE <1>1 DEF MuOK, SpawnSteps, TerminateSteps, At, Goto, Done
  <2>1. CASE UserAdd(t) \/ UserAddFails(t) \/ CreateSlice(t) \/ CreateSliceFails(t)
    BY <2>1 DEF UserAdd, UserAddFails, CreateSlice, CreateSliceFails
  <2>2. CASE ApplyNetRules(t) \/ ApplyNetRulesFails(t) \/ StartProcess(t) \/ StartProcessFails(t)
    BY <2>2 DEF ApplyNetRules, ApplyNetRulesFails, StartProcess, StartProcessFails
  <2>3. CASE UndoNet(t) \/ UndoSlice(t) \/ UndoUser(t) \/ TerminateUnknown(t)
    BY <2>3 DEF UndoNet, UndoSlice, UndoUser, TerminateUnknown
  <2>4. CASE StopUnit(t) \/ RemoveRules(t) \/ StopSlice(t) \/ RemoveUser(t) \/ RemoveUserFails(t)
    BY <2>4 DEF StopUnit, RemoveRules, StopSlice, RemoveUser, RemoveUserFails
  <2>. QED
    BY <1>2, <2>1, <2>2, <2>3, <2>4 DEF Holding
<1>3. ASSUME NEW t \in Handlers, NEW r \in SpawnRequests, Spawn(t, r)
      PROVE  MuOK'
  <2>1. PICK uid \in AgentUIDs :
          job' = [job EXCEPT ![t] = [uid |-> uid, name |-> r.name, net |-> r.net, command |-> r.command]]
    BY <1>3 DEF Spawn
  <2>2. PICK j : j = [uid |-> uid, name |-> r.name, net |-> r.net, command |-> r.command]
    OBVIOUS
  <2>3. j \in Job
    BY <2>2, SpawnAssumption DEF SpawnRequest, Job
  <2>. QED
    BY <1>1, <1>3, <2>1, <2>2, <2>3 DEF MuOK, Spawn, SpawnSteps
<1>4. ASSUME NEW t \in Handlers, NEW uid \in AgentUIDs, HandleTerminate(t, uid)
      PROVE  MuOK'
  <2>1. PICK j : j = [NoJob EXCEPT !.uid = uid]
    OBVIOUS
  <2>2. j \in Job
    BY <2>1 DEF NoJob, Job, Policies
  <2>. QED
    BY <1>1, <1>4, <2>1, <2>2 DEF MuOK, HandleTerminate, TerminateSteps
<1>5. ASSUME NEW t \in Handlers, Terminate(t)
      PROVE  MuOK'
  <2>1. PICK j : j = [job[t] EXCEPT !.name = agents[job[t].uid].name] /\ job' = [job EXCEPT ![t] = j]
    BY <1>5 DEF Terminate
  <2>2. job[t].uid \in DOMAIN agents /\ IsMap(agents, AgentUIDs, Agent)
    BY <1>5, TypeParts DEF Terminate, TypeInv, AgentsOK
  <2>3. agents[job[t].uid].name \in Names \cup Usernames /\ job[t].uid \in AgentUIDs
    BY <2>2 DEF IsMap, Agent
  <2>4. job[t] \in Job
    BY <1>1, <2>3, UIDsAreNumbers DEF MuOK, NoJob
  <2>5. j \in Job
    BY <2>1, <2>3, <2>4 DEF Job
  <2>. QED
    BY <1>1, <1>5, <2>1, <2>5 DEF MuOK, Terminate, TerminateSteps
<1>6. CASE Crash
  BY <1>6 DEF Crash, MuOK
<1>7. CASE UNCHANGED <<mu, pc, job>>
  BY <1>1, <1>7 DEF MuOK
<1>8. ASSUME List \/ (\E uid \in AgentUIDs : UnitEnds(uid) \/ WaitProcess(uid) \/ MarkExited(uid)) \/ Booting \/ UNCHANGED vars
      PROVE  UNCHANGED <<mu, pc, job>>
  BY <1>8 DEF List, UnitEnds, WaitProcess, MarkExited, Booting, BootstrapNftables, Discover, Adopt, Serve, handlers, vars
<1>. QED
  BY <1>2, <1>3, <1>4, <1>5, <1>6, <1>7, <1>8 DEF Next, Request


-----------------------------------------------------------------------------
(* Which steps change what.                                                *)

LEMMA UsersGo ==
  ASSUME [Next]_vars
  PROVE  UNCHANGED users \/ \E t \in Handlers : UserAdd(t) \/ UndoUser(t) \/ RemoveUser(t)
<1>1. ASSUME NEW t \in Handlers, Holding(t), ~UserAdd(t), ~UndoUser(t), ~RemoveUser(t)
      PROVE  UNCHANGED users
  BY <1>1 DEF Holding, UserAddFails, CreateSlice, CreateSliceFails, ApplyNetRules, ApplyNetRulesFails,
              StartProcess, StartProcessFails, UndoNet, UndoSlice, StopUnit, RemoveRules, StopSlice,
              RemoveUserFails, os
<1>2. ASSUME NEW t \in Handlers, Request(t) \/ Terminate(t) \/ TerminateUnknown(t)
      PROVE  UNCHANGED users
  BY <1>2 DEF Request, Spawn, HandleTerminate, Terminate, TerminateUnknown, os
<1>3. ASSUME List \/ (\E uid \in AgentUIDs : UnitEnds(uid) \/ WaitProcess(uid) \/ MarkExited(uid))
               \/ Booting \/ Crash \/ UNCHANGED vars
      PROVE  UNCHANGED users
  BY <1>3 DEF List, UnitEnds, WaitProcess, MarkExited, Booting, BootstrapNftables, Discover, Adopt, Serve, Crash, vars, os
<1>. QED
  BY <1>1, <1>2, <1>3 DEF Next

\* A command unit is started by StartProcess alone; every other step may only end one.
CmdsShrink == \E ended : cmds' = Restrict(cmds, DOMAIN cmds \ ended)

LEMMA CmdsGo ==
  ASSUME TypeInv, [Next]_vars
  PROVE  CmdsShrink \/ \E t \in Handlers : StartProcess(t)
<1>1. IsMap(cmds, AgentUIDs, Policies)
  BY TypeParts DEF TypeInv, CmdsOK
<1>2. ASSUME UNCHANGED cmds
      PROVE  CmdsShrink
  <2>1. cmds = Restrict(cmds, DOMAIN cmds \ {})
    BY <1>1 DEF IsMap, Restrict
  <2>. QED
    BY <1>2, <2>1 DEF CmdsShrink
<1>3. ASSUME NEW uid, cmds' = drop(cmds, uid)
      PROVE  CmdsShrink
  BY <1>3 DEF CmdsShrink, drop
<1>4. ASSUME NEW t \in Handlers, Holding(t), ~StartProcess(t)
      PROVE  UNCHANGED cmds \/ cmds' = drop(cmds, job[t].uid)
  BY <1>4 DEF Holding, UserAdd, UserAddFails, CreateSlice, CreateSliceFails, ApplyNetRules, ApplyNetRulesFails,
              StartProcessFails, UndoNet, UndoSlice, UndoUser, StopUnit, RemoveRules, StopSlice, RemoveUser,
              RemoveUserFails, os
<1>5. ASSUME NEW t \in Handlers, Request(t) \/ Terminate(t) \/ TerminateUnknown(t)
      PROVE  UNCHANGED cmds
  BY <1>5 DEF Request, Spawn, HandleTerminate, Terminate, TerminateUnknown, os
<1>6. ASSUME NEW uid \in AgentUIDs, UnitEnds(uid)
      PROVE  cmds' = drop(cmds, uid)
  BY <1>6 DEF UnitEnds
<1>7. ASSUME List \/ (\E uid \in AgentUIDs : WaitProcess(uid) \/ MarkExited(uid)) \/ Booting \/ Crash \/ UNCHANGED vars
      PROVE  UNCHANGED cmds
  BY <1>7 DEF List, WaitProcess, MarkExited, Booting, BootstrapNftables, Discover, Adopt, Serve, Crash, vars, os
<1>. QED
  BY <1>2, <1>3, <1>4, <1>5, <1>6, <1>7 DEF Next

\* A rule is added by ApplyNetRules, by Adopt, or by an nft whose output is not
\* understood; rules are removed by UndoNet and RemoveRules, and all at a start.
AddsRule(uid, net) == AddNftRule(uid, net) /\ (RememberHandle(uid) \/ UNCHANGED ruleHandles)

RulesStay == UNCHANGED <<rules, nextHandle>> /\ (UNCHANGED ruleHandles \/ Crash)

LEMMA RulesGo ==
  ASSUME TypeInv, [Next]_vars
  PROVE  \/ RulesStay
         \/ \E t \in Handlers : /\ ApplyNetRules(t) \/ ApplyNetRulesFails(t)
                                /\ job[t].net # "allow" /\ AddsRule(job[t].uid, job[t].net)
         \/ \E uid \in AgentUIDs : Adopt(uid) /\ AddsRule(uid, "deny")
         \/ \E t \in Handlers : (UndoNet(t) \/ RemoveRules(t)) /\ RemoveNetRules(job[t].uid) /\ UNCHANGED nextHandle
         \/ BootstrapNftables
<1>1. ASSUME NEW t \in Handlers, Holding(t)
      PROVE  \/ RulesStay
             \/ /\ ApplyNetRules(t) \/ ApplyNetRulesFails(t)
                /\ job[t].net # "allow" /\ AddsRule(job[t].uid, job[t].net)
             \/ (UndoNet(t) \/ RemoveRules(t)) /\ RemoveNetRules(job[t].uid) /\ UNCHANGED nextHandle
  <2>1. CASE ApplyNetRules(t)
    BY <2>1 DEF ApplyNetRules, RulesStay, AddsRule
  <2>2. CASE ApplyNetRulesFails(t)
    BY <2>2 DEF ApplyNetRulesFails, RulesStay, AddsRule, manager
  <2>3. CASE UndoNet(t) \/ RemoveRules(t)
    BY <2>3 DEF UndoNet, RemoveRules
  <2>4. CASE UserAdd(t) \/ UserAddFails(t) \/ CreateSlice(t) \/ CreateSliceFails(t) \/ StartProcess(t) \/ StartProcessFails(t)
    BY <2>4 DEF UserAdd, UserAddFails, CreateSlice, CreateSliceFails, StartProcess, StartProcessFails, RulesStay, os, manager
  <2>5. CASE UndoSlice(t) \/ UndoUser(t) \/ StopUnit(t) \/ StopSlice(t) \/ RemoveUser(t) \/ RemoveUserFails(t)
    BY <2>5 DEF UndoSlice, UndoUser, StopUnit, StopSlice, RemoveUser, RemoveUserFails, RulesStay, os, manager
  <2>. QED
    BY <1>1, <2>1, <2>2, <2>3, <2>4, <2>5 DEF Holding
<1>2. ASSUME NEW t \in Handlers, Request(t) \/ Terminate(t) \/ TerminateUnknown(t)
      PROVE  RulesStay
  BY <1>2 DEF Request, Spawn, HandleTerminate, Terminate, TerminateUnknown, RulesStay, os, manager
<1>3. ASSUME NEW uid \in AgentUIDs, Adopt(uid)
      PROVE  RulesStay \/ AddsRule(uid, "deny")
  BY <1>3 DEF Adopt, RulesStay, AddsRule
<1>4. ASSUME \/ List \/ (\E uid \in AgentUIDs : UnitEnds(uid) \/ WaitProcess(uid) \/ MarkExited(uid))
             \/ Discover \/ Serve \/ Crash \/ UNCHANGED vars
      PROVE  RulesStay
  BY <1>4 DEF List, UnitEnds, WaitProcess, MarkExited, Discover, Serve, Crash, vars, RulesStay, os, manager
<1>. QED
  BY <1>1, <1>2, <1>3, <1>4 DEF Next, Booting

\* userdel removes one user at most: the one of that name and that uid.
LEMMA UserdelIs ==
  ASSUME UsersOK, \A u \in DOMAIN users : users[u].uid = u, NEW name, NEW uid,
         CanUserdel(Username(name, uid)), Userdel(Username(name, uid))
  PROVE  /\ uid \in DOMAIN users /\ uid \notin DOMAIN cmds
         /\ DOMAIN users' = DOMAIN users \ {uid}
         /\ \A u \in DOMAIN users' : users'[u] = users[u]
<1>1. PICK u \in DOMAIN users : users[u] = Username(name, uid) /\ u \notin DOMAIN cmds
  BY DEF CanUserdel
<1>2. Username(name, uid).uid = uid
  BY DEF Username
<1>3. u = uid
  BY <1>1, <1>2
<1>4. \A v \in DOMAIN users : users[v] # Username(name, uid) <=> v # uid
  BY <1>1, <1>2, <1>3
<1>5. users' = Restrict(users, {v \in DOMAIN users : users[v] # Username(name, uid)})
  BY DEF Userdel
<1>6. {v \in DOMAIN users : users[v] # Username(name, uid)} = DOMAIN users \ {uid}
  BY <1>4
<1>. QED
  BY <1>1, <1>3, <1>5, <1>6 DEF Restrict

-----------------------------------------------------------------------------
(* The users have the uid in their name and own every process. Inductive   *)
(* with what a Spawn has done so far.                                      *)

UserUIDs == \A u \in DOMAIN users : users[u].uid = u

OwnedByUsers == DOMAIN cmds \subseteq DOMAIN users

\* From useradd until its command starts, the new user has no process.
SpawnedUser(t) ==
  pc[t] \in SpawnSteps \ {"useradd"} =>
    /\ job[t].uid \in DOMAIN users \ DOMAIN cmds
    /\ users[job[t].uid] = Username(job[t].name, job[t].uid)

\* RecoverAgents works on users that exist.
FoundUsers == found.users \subseteq DOMAIN users /\ (boot # "adopt" => found.users = {})

UsersInv == UsersOK /\ UserUIDs /\ OwnedByUsers /\ FoundUsers /\ \A t \in Handlers : SpawnedUser(t)

\* Where only the holder of the mutex gets, after its first command.
Inside == (SpawnSteps \cup TerminateSteps) \ {"useradd", "terminate", "stop_unit"}

\* A handler in the middle of a Spawn or a Terminate moves only by its own steps.
LEMMA InsideStays ==
  ASSUME TypeInv, [Next]_vars, NEW t \in Handlers, pc'[t] \in Inside, ~Holding(t)
  PROVE  pc'[t] = pc[t] /\ job'[t] = job[t] /\ ~\E s \in Handlers : Holding(s)
<1>1. MuOK /\ JobOK(t)
  BY TypeParts DEF TypeInv
<1>2. ASSUME NEW s \in Handlers, Request(s) \/ Terminate(s) \/ TerminateUnknown(s)
      PROVE  pc'[t] = pc[t] /\ job'[t] = job[t]
  BY <1>1, <1>2 DEF MuOK, Request, Spawn, HandleTerminate, Terminate, TerminateUnknown, Done, Inside, SpawnSteps, TerminateSteps
<1>3. ASSUME List \/ (\E uid \in AgentUIDs : UnitEnds(uid) \/ WaitProcess(uid) \/ MarkExited(uid))
               \/ Booting \/ UNCHANGED vars
      PROVE  pc'[t] = pc[t] /\ job'[t] = job[t]
  BY <1>3 DEF List, UnitEnds, WaitProcess, MarkExited, Booting, BootstrapNftables, Discover, Adopt, Serve, vars, handlers
<1>4. ~Crash
  BY DEF Crash, Inside, SpawnSteps, TerminateSteps
<1>5. ASSUME NEW s \in Handlers, Holding(s)
      PROVE  FALSE
  <2>1. s # t /\ mu = s /\ JobOK(s)
    BY <1>5, HoldingAt DEF TypeInv, JobOK, InMutex
  <2>2. pc'[t] = pc[t]
    BY <1>1, <1>5, <2>1 DEF Holding, UserAdd, UserAddFails, CreateSlice, CreateSliceFails, ApplyNetRules, ApplyNetRulesFails,
       StartProcess, StartProcessFails, UndoNet, UndoSlice, UndoUser, StopUnit, RemoveRules, StopSlice,
       RemoveUser, RemoveUserFails, MuOK, Goto, Done
  <2>3. mu = t
    BY <1>1, <2>2 DEF JobOK, InMutex, Inside
  <2>. QED
    BY <2>1, <2>3
<1>. QED
  BY <1>2, <1>3, <1>4, <1>5 DEF Next

LEMMA SpawnedStep ==
  ASSUME TypeInv, UsersInv, [Next]_vars, NEW t \in Handlers
  PROVE  SpawnedUser(t)'
<1>. SUFFICES ASSUME pc'[t] \in SpawnSteps \ {"useradd"}
              PROVE  /\ job'[t].uid \in DOMAIN users' \ DOMAIN cmds'
                     /\ users'[job'[t].uid] = Username(job'[t].name, job'[t].uid)
  BY DEF SpawnedUser
<1>1. MuOK /\ JobOK(t) /\ SpawnedUser(t) /\ OwnedByUsers
  BY TypeParts DEF TypeInv, UsersInv
<1>2. CASE Holding(t)
  <2>0. pc' # [pc EXCEPT ![t] = "idle"]
    BY <1>1 DEF MuOK, SpawnSteps
  <2>1. CASE UserAdd(t)
    <3>1. job' = job /\ cmds' = cmds /\ job[t].uid \notin DOMAIN users
      BY <2>1 DEF UserAdd, Goto
    <3>2. users' = put(users, job[t].uid, Username(job[t].name, job[t].uid))
      BY <2>1 DEF UserAdd
    <3>3. DOMAIN users' = DOMAIN users \cup {job[t].uid} /\ users'[job[t].uid] = Username(job[t].name, job[t].uid)
      BY <3>2 DEF put
    <3>. QED
      BY <1>1, <3>1, <3>3 DEF OwnedByUsers
  <2>2. CASE CreateSlice(t) \/ CreateSliceFails(t) \/ ApplyNetRules(t) \/ ApplyNetRulesFails(t) \/ UndoNet(t) \/ UndoSlice(t)
    <3>1. UNCHANGED <<users, cmds, job>>
      BY <2>0, <2>2 DEF CreateSlice, CreateSliceFails, ApplyNetRules, ApplyNetRulesFails, UndoNet, UndoSlice, Goto, Done, os
    <3>2. pc[t] \in SpawnSteps \ {"useradd"}
      BY <2>2 DEF CreateSlice, CreateSliceFails, ApplyNetRules, ApplyNetRulesFails, UndoNet, UndoSlice, At, SpawnSteps
    <3>. QED
      BY <1>1, <3>1, <3>2 DEF SpawnedUser
  <2>3. CASE StartProcessFails(t)
    <3>1. UNCHANGED <<users, job>> /\ cmds' = drop(cmds, job[t].uid) /\ pc[t] \in SpawnSteps \ {"useradd"}
      BY <2>3 DEF StartProcessFails, Goto, At, SpawnSteps
    <3>2. DOMAIN cmds' = DOMAIN cmds \ {job[t].uid}
      BY <3>1, DropHas
    <3>. QED
      BY <1>1, <3>1, <3>2 DEF SpawnedUser
  <2>4. CASE UserAddFails(t) \/ StartProcess(t) \/ UndoUser(t) \/ RemoveUser(t) \/ RemoveUserFails(t)
    BY <2>0, <2>4 DEF UserAddFails, StartProcess, UndoUser, RemoveUser, RemoveUserFails, Done
  <2>5. CASE StopUnit(t) \/ RemoveRules(t) \/ StopSlice(t)
    BY <1>1, <2>5 DEF StopUnit, RemoveRules, StopSlice, Goto, MuOK, SpawnSteps
  <2>. QED
    BY <1>2, <2>1, <2>2, <2>3, <2>4, <2>5 DEF Holding
<1>3. CASE ~Holding(t)
  <2>1. pc'[t] = pc[t] /\ job'[t] = job[t] /\ ~\E s \in Handlers : Holding(s)
    BY <1>3, InsideStays DEF Inside, SpawnSteps, TerminateSteps
  <2>2. UNCHANGED users /\ CmdsShrink
    BY <2>1, UsersGo, CmdsGo DEF Holding
  <2>3. DOMAIN cmds' \subseteq DOMAIN cmds
    BY <2>2 DEF CmdsShrink, Restrict
  <2>. QED
    BY <1>1, <2>1, <2>2, <2>3 DEF SpawnedUser
<1>. QED
  BY <1>2, <1>3

LEMMA FoundStep ==
  ASSUME TypeInv, FoundUsers, [Next]_vars
  PROVE  FoundUsers' /\ found' \in Found /\ boot' \in Boots
<1>0. found \in Found /\ boot \in Boots /\ UsersOK /\ CmdsOK
  BY TypeParts DEF TypeInv, NextOK
<1>1. ASSUME NEW t \in Handlers, Holding(t)
      PROVE  boot = "serving" /\ UNCHANGED <<boot, found>>
  <2>1. JobOK(t) /\ pc[t] # "idle"
    BY <1>1, HoldingAt DEF TypeInv, SpawnSteps, TerminateSteps
  <2>. QED
    BY <1>1, <2>1 DEF JobOK, Holding, UserAdd, UserAddFails, CreateSlice, CreateSliceFails, ApplyNetRules,
       ApplyNetRulesFails, StartProcess, StartProcessFails, UndoNet, UndoSlice, UndoUser, StopUnit, RemoveRules,
       StopSlice, RemoveUser, RemoveUserFails
<1>2. ASSUME NEW t \in Handlers, Request(t) \/ Terminate(t) \/ TerminateUnknown(t)
      PROVE  UNCHANGED <<boot, found, users>>
  BY <1>2 DEF Request, Spawn, HandleTerminate, Terminate, TerminateUnknown, os
<1>3. ASSUME List \/ (\E uid \in AgentUIDs : UnitEnds(uid) \/ WaitProcess(uid) \/ MarkExited(uid)) \/ UNCHANGED vars
      PROVE  UNCHANGED <<boot, found, users>>
  BY <1>3 DEF List, UnitEnds, WaitProcess, MarkExited, vars, os
<1>4. NothingFound \in Found /\ NothingFound.users = {}
  BY DEF NothingFound, Found
<1>5. CASE BootstrapNftables
  BY <1>0, <1>5 DEF BootstrapNftables, FoundUsers, Boots
<1>6. CASE Discover
  <2>1. PICK f : f = [users |-> DOMAIN users, slices |-> slices, cmds |-> DOMAIN cmds]
    OBVIOUS
  <2>2. f \in Found /\ f.users = DOMAIN users
    BY <1>0, <2>1 DEF Found, UsersOK, CmdsOK, IsMap
  <2>3. found' \in {f, NothingFound} /\ boot' = "adopt" /\ users' = users
    BY <1>6, <2>1 DEF Discover, os
  <2>. QED
    BY <1>4, <2>2, <2>3 DEF FoundUsers, Boots
<1>7. ASSUME NEW uid \in AgentUIDs, Adopt(uid)
      PROVE  FoundUsers' /\ found' \in Found /\ boot' \in Boots
  <2>1. PICK f : f = [found EXCEPT !.users = @ \ {uid}]
    OBVIOUS
  <2>2. f \in Found /\ f.users = found.users \ {uid}
    BY <1>0, <2>1 DEF Found
  <2>3. found' = f /\ boot = "adopt" /\ UNCHANGED <<boot, users>>
    BY <1>7, <2>1 DEF Adopt
  <2>. QED
    BY <1>0, <2>2, <2>3 DEF FoundUsers
<1>8. CASE Serve
  BY <1>4, <1>8 DEF Serve, FoundUsers, Boots, os
<1>9. CASE Crash
  BY <1>4, <1>9 DEF Crash, FoundUsers, Boots, os
<1>. QED
  BY <1>0, <1>1, <1>2, <1>3, <1>5, <1>6, <1>7, <1>8, <1>9 DEF Next, Booting, FoundUsers

LEMMA UsersStep ==
  ASSUME TypeInv, UsersInv, [Next]_vars
  PROVE  UsersInv'
<1>1. UsersOK' /\ UserUIDs' /\ OwnedByUsers'
  <2>1. ASSUME NEW t \in Handlers, UserAdd(t)
        PROVE  UsersOK' /\ UserUIDs' /\ OwnedByUsers'
    <3>1. pc[t] \in SpawnSteps /\ job[t].uid \in AgentUIDs /\ job[t].name \in Names
      BY <2>1, SpawnJob DEF UserAdd, At, SpawnSteps
    <3>2. PICK name : name = Username(job[t].name, job[t].uid)
      OBVIOUS
    <3>3. name \in Usernames /\ name.uid = job[t].uid
      BY <3>1, <3>2 DEF Username, Usernames
    <3>4. users' = put(users, job[t].uid, name) /\ cmds' = cmds
      BY <2>1, <3>2 DEF UserAdd
    <3>5. UsersOK'
      BY <3>1, <3>3, <3>4, PutIsMap DEF UsersInv, UsersOK
    <3>6. /\ DOMAIN users' = DOMAIN users \cup {job[t].uid} /\ users'[job[t].uid] = name
          /\ \A u \in DOMAIN users \ {job[t].uid} : users'[u] = users[u]
      BY <3>4 DEF put
    <3>. QED
      BY <3>3, <3>4, <3>5, <3>6 DEF UsersInv, UserUIDs, OwnedByUsers
  <2>2. ASSUME UNCHANGED users
        PROVE  UsersOK' /\ UserUIDs' /\ OwnedByUsers'
    <3>1. CASE CmdsShrink
      BY <2>2, <3>1 DEF CmdsShrink, Restrict, UsersInv, UsersOK, UserUIDs, OwnedByUsers
    <3>2. ASSUME NEW t \in Handlers, StartProcess(t)
          PROVE  OwnedByUsers'
      <4>1. job[t].uid \in DOMAIN users
        BY <3>2 DEF StartProcess, At, SpawnSteps, UsersInv, SpawnedUser
      <4>2. DOMAIN cmds' = DOMAIN cmds \cup {job[t].uid}
        BY <3>2 DEF StartProcess, put
      <4>. QED
        BY <2>2, <4>1, <4>2 DEF UsersInv, OwnedByUsers
    <3>. QED
      BY <2>2, <3>1, <3>2, CmdsGo DEF UsersInv, UsersOK, UserUIDs
  <2>3. ASSUME NEW t \in Handlers, UndoUser(t) \/ RemoveUser(t)
        PROVE  UsersOK' /\ UserUIDs' /\ OwnedByUsers'
    <3>. DEFINE name == Username(job[t].name, job[t].uid)
    <3>1. UNCHANGED users \/ (CanUserdel(name) /\ Userdel(name))
      BY <2>3 DEF UndoUser, RemoveUser
    <3>2. ASSUME CanUserdel(name), Userdel(name)
          PROVE  UsersOK' /\ UserUIDs' /\ OwnedByUsers'
      <4>1. /\ job[t].uid \notin DOMAIN cmds
            /\ DOMAIN users' = DOMAIN users \ {job[t].uid}
            /\ \A u \in DOMAIN users' : users'[u] = users[u]
        BY <3>2, UserdelIs DEF UsersInv, UserUIDs
      <4>2. cmds' = cmds
        BY <2>3 DEF UndoUser, RemoveUser
      <4>3. UsersOK'
        <5>1. users' = Restrict(users, {u \in DOMAIN users : users[u] # name})
          BY <3>2 DEF Userdel
        <5>. QED
          BY <5>1 DEF Restrict, UsersInv, UsersOK, IsMap
      <4>. QED
        BY <4>1, <4>2, <4>3 DEF UsersInv, UserUIDs, OwnedByUsers
    <3>. QED
      BY <2>2, <3>1, <3>2
  <2>. QED
    BY <2>1, <2>2, <2>3, UsersGo
<1>. QED
  BY <1>1, SpawnedStep, FoundStep DEF UsersInv

-----------------------------------------------------------------------------
(* The other types.                                                        *)

LEMMA CmdsTyped ==
  ASSUME TypeInv, [Next]_vars
  PROVE  CmdsOK'
<1>0. CmdsOK
  BY TypeParts DEF TypeInv
<1>1. ASSUME CmdsShrink
      PROVE  IsMap(cmds', AgentUIDs, Policies)
  <2>1. PICK ended : cmds' = Restrict(cmds, DOMAIN cmds \ ended)
    BY <1>1 DEF CmdsShrink
  <2>. QED
    BY <1>0, <2>1 DEF Restrict, CmdsOK, IsMap
<1>2. ASSUME NEW t \in Handlers, StartProcess(t)
      PROVE  IsMap(cmds', AgentUIDs, Policies)
  <2>1. job[t].uid \in AgentUIDs /\ job[t].net \in Policies
    BY <1>2, SpawnJob DEF StartProcess, At, SpawnSteps
  <2>. QED
    BY <1>0, <1>2, <2>1, PutIsMap DEF StartProcess, CmdsOK
<1>3. IsMap(cmds', AgentUIDs, Policies)
  BY <1>1, <1>2, CmdsGo DEF CmdsOK
<1>4. slices' \subseteq AgentUIDs
  <2>1. ASSUME NEW t \in Handlers, Holding(t)
        PROVE  slices' \subseteq AgentUIDs
    <3>1. job[t].uid \in AgentUIDs
      BY <2>1, HoldingAt, SpawnJob
    <3>2. CASE CreateSlice(t) \/ UndoSlice(t) \/ StopSlice(t)
      BY <1>0, <3>1, <3>2 DEF CreateSlice, UndoSlice, StopSlice, CmdsOK
    <3>. QED
      BY <1>0, <2>1, <3>2 DEF CmdsOK, Holding, UserAdd, UserAddFails, CreateSliceFails, ApplyNetRules, ApplyNetRulesFails,
         StartProcess, StartProcessFails, UndoNet, UndoUser, StopUnit, RemoveRules, RemoveUser, RemoveUserFails, os
  <2>2. ASSUME NEW t \in Handlers, Request(t) \/ Terminate(t) \/ TerminateUnknown(t)
        PROVE  slices' = slices
    BY <2>2 DEF Request, Spawn, HandleTerminate, Terminate, TerminateUnknown, os
  <2>3. ASSUME List \/ (\E uid \in AgentUIDs : UnitEnds(uid) \/ WaitProcess(uid) \/ MarkExited(uid))
                 \/ Booting \/ Crash \/ UNCHANGED vars
        PROVE  slices' = slices
    BY <2>3 DEF List, UnitEnds, WaitProcess, MarkExited, Booting, BootstrapNftables, Discover, Adopt, Serve, Crash, vars, os
  <2>. QED
    BY <1>0, <2>1, <2>2, <2>3 DEF Next, CmdsOK
<1>. QED
  BY <1>3, <1>4 DEF CmdsOK

LEMMA RulesTyped ==
  ASSUME TypeInv, [Next]_vars
  PROVE  RulesOK'
<1>0. RulesOK
  BY TypeParts DEF TypeInv
<1>1. ASSUME NEW uid \in AgentUIDs, NEW net \in Policies \ {"allow"}, AddsRule(uid, net)
      PROVE  RulesOK'
  <2>1. [uid |-> uid, handle |-> nextHandle, net |-> net] \in Rule
    BY <1>0 DEF RulesOK, Rule
  <2>. QED
    BY <1>0, <1>1, <2>1 DEF AddsRule, AddNftRule, RememberHandle, RulesOK
<1>2. CASE RulesStay
  BY <1>0, <1>2 DEF RulesStay, Crash, RulesOK
<1>3. ASSUME NEW t \in Handlers, ApplyNetRules(t) \/ ApplyNetRulesFails(t), job[t].net # "allow",
             AddsRule(job[t].uid, job[t].net)
      PROVE  RulesOK'
  BY <1>1, <1>3, SpawnJob DEF ApplyNetRules, ApplyNetRulesFails, At, SpawnSteps
<1>4. ASSUME NEW t \in Handlers, RemoveNetRules(job[t].uid), UNCHANGED nextHandle
      PROVE  RulesOK'
  BY <1>0, <1>4 DEF RemoveNetRules, RulesOK
<1>5. CASE BootstrapNftables
  BY <1>0, <1>5 DEF BootstrapNftables, RulesOK, manager
<1>. QED
  BY <1>1, <1>2, <1>3, <1>4, <1>5, RulesGo DEF Policies

LEMMA AgentsTyped ==
  ASSUME TypeInv, UsersInv, [Next]_vars
  PROVE  AgentsOK'
<1>0. AgentsOK /\ UsersOK /\ NextOK
  BY TypeParts DEF TypeInv, UsersInv
<1>1. ASSUME NEW t \in Handlers, Holding(t)
      PROVE  AgentsOK'
  <2>1. job[t].uid \in AgentUIDs
    BY <1>1, HoldingAt, SpawnJob
  <2>2. CASE ApplyNetRules(t)
    <3>1. job[t].name \in Names /\ job[t].net \in Policies
      BY <2>2, SpawnJob DEF ApplyNetRules, At, SpawnSteps
    <3>2. PICK a : a = [name |-> job[t].name, status |-> "running", net |-> job[t].net]
      OBVIOUS
    <3>3. a \in Agent
      BY <3>1, <3>2 DEF Agent
    <3>4. agents' = put(agents, job[t].uid, a) /\ hasCmd' = hasCmd
      BY <2>2, <3>2 DEF ApplyNetRules
    <3>. QED
      BY <1>0, <2>1, <3>3, <3>4, PutIsMap DEF AgentsOK
  <2>3. CASE StartProcess(t)
    BY <1>0, <2>1, <2>3 DEF StartProcess, AgentsOK
  <2>4. CASE StartProcessFails(t) \/ RemoveUser(t)
    BY <1>0, <2>4, DropIsMap DEF StartProcessFails, RemoveUser, AgentsOK
  <2>5. CASE StopUnit(t)
    BY <1>0, <2>5 DEF StopUnit, AgentsOK
  <2>. QED
    BY <1>0, <1>1, <2>2, <2>3, <2>4, <2>5 DEF AgentsOK, Holding, UserAdd, UserAddFails, CreateSlice, CreateSliceFails,
       ApplyNetRulesFails, UndoNet, UndoSlice, UndoUser, RemoveRules, StopSlice, RemoveUserFails, manager
<1>2. ASSUME Refreshed
      PROVE  AgentsOK'
  <2>1. \A u \in DOMAIN agents : [agents[u] EXCEPT !.status = "exited"] \in Agent /\ agents[u] \in Agent
    BY <1>0 DEF AgentsOK, IsMap, Agent
  <2>2. DOMAIN agents' = DOMAIN agents /\ \A u \in DOMAIN agents : agents'[u] \in Agent
    BY <1>2, <2>1 DEF Refreshed
  <2>3. agents' = [u \in DOMAIN agents |-> agents'[u]]
    BY <1>2 DEF Refreshed
  <2>. QED
    BY <1>0, <1>2, <2>2, <2>3 DEF Refreshed, AgentsOK, IsMap
<1>3. ASSUME NEW t \in Handlers, Request(t) \/ Terminate(t) \/ TerminateUnknown(t)
      PROVE  AgentsOK'
  BY <1>0, <1>2, <1>3 DEF Request, Spawn, HandleTerminate, Terminate, TerminateUnknown, AgentsOK, manager
<1>4. ASSUME NEW uid \in AgentUIDs, MarkExited(uid)
      PROVE  AgentsOK'
  <2>1. CASE uid \in DOMAIN agents
    <3>1. [agents[uid] EXCEPT !.status = "exited"] \in Agent
      BY <1>0, <2>1 DEF AgentsOK, IsMap, Agent
    <3>2. PICK a \in Agent : a = [agents[uid] EXCEPT !.status = "exited"]
      BY <3>1
    <3>3. agents' = [agents EXCEPT ![uid] = a]
      BY <1>4, <2>1, <3>2 DEF MarkExited
    <3>. QED
      BY <1>0, <1>4, <3>3 DEF MarkExited, AgentsOK, IsMap
  <2>. QED
    BY <1>0, <1>4, <2>1 DEF MarkExited, AgentsOK
<1>5. ASSUME NEW uid \in AgentUIDs, Adopt(uid)
      PROVE  AgentsOK'
  <2>1. PICK a : a = [name |-> users[uid], net |-> "deny", status |-> IF uid \in found.slices THEN "running" ELSE "exited"]
    OBVIOUS
  <2>2. uid \in DOMAIN users
    BY <1>5 DEF Adopt, UsersInv, FoundUsers
  <2>3. a \in Agent
    BY <1>0, <2>1, <2>2 DEF UsersOK, IsMap, Agent, Policies
  <2>4. agents' = put(agents, uid, a) /\ hasCmd' \subseteq hasCmd \cup {uid}
    BY <1>5, <2>1 DEF Adopt
  <2>. QED
    BY <1>0, <1>5, <2>3, <2>4, PutIsMap DEF AgentsOK
<1>6. CASE Crash
  BY <1>6 DEF Crash, AgentsOK, IsMap
<1>7. ASSUME (\E uid \in AgentUIDs : UnitEnds(uid) \/ WaitProcess(uid)) \/ BootstrapNftables \/ Discover \/ Serve \/ UNCHANGED vars
      PROVE  AgentsOK'
  BY <1>0, <1>7 DEF UnitEnds, WaitProcess, BootstrapNftables, Discover, Serve, vars, manager, AgentsOK
<1>8. CASE List
  BY <1>2, <1>8 DEF List
<1>. QED
  BY <1>1, <1>3, <1>4, <1>5, <1>6, <1>7, <1>8 DEF Next, Booting

LEMMA NextTyped ==
  ASSUME TypeInv, UsersInv, [Next]_vars
  PROVE  NextOK'
<1>0. nextUID \in UIDBase..UIDMax
  BY TypeParts DEF TypeInv, NextOK
<1>1. ASSUME NEW t \in Handlers, NEW r \in SpawnRequests, Spawn(t, r)
      PROVE  nextUID' \in UIDBase..UIDMax
  <2>1. PICK uid \in AgentUIDs : nextUID' = IF uid >= nextUID THEN uid + 1 ELSE nextUID
    BY <1>1 DEF Spawn
  <2>. QED
    BY <1>0, <2>1, UIDsAreNumbers
<1>2. ASSUME Serve
      PROVE  nextUID' \in UIDBase..UIDMax
  <2>0. PICK T : T = {nextUID} \cup {u + 1 : u \in DOMAIN agents}
    OBVIOUS
  <2>1. DOMAIN agents \subseteq AgentUIDs
    BY TypeParts DEF TypeInv, AgentsOK, IsMap
  <2>2. T \subseteq UIDBase..UIDMax /\ T \subseteq 0..UIDMax /\ T # {}
    BY <1>0, <2>0, <2>1, UIDsAreNumbers
  <2>3. Max(T) \in T
    BY <2>2, MaxOfBounded, UIDsAreNumbers
  <2>4. nextUID' = Max(T)
    BY <1>2, <2>0 DEF Serve
  <2>. QED
    BY <2>2, <2>3, <2>4
<1>3. ASSUME Crash
      PROVE  nextUID' \in UIDBase..UIDMax
  BY <1>3, UIDsAreNumbers DEF Crash
<1>4. ASSUME NEW t \in Handlers, Holding(t)
      PROVE  nextUID' = nextUID
  BY <1>4 DEF Holding, UserAdd, UserAddFails, CreateSlice, CreateSliceFails, ApplyNetRules,
       ApplyNetRulesFails, StartProcess, StartProcessFails, UndoNet, UndoSlice, UndoUser, StopUnit, RemoveRules,
       StopSlice, RemoveUser, RemoveUserFails, manager
<1>5. ASSUME NEW t \in Handlers, (\E uid \in AgentUIDs : HandleTerminate(t, uid)) \/ Terminate(t) \/ TerminateUnknown(t)
      PROVE  nextUID' = nextUID
  BY <1>5 DEF HandleTerminate, Terminate, TerminateUnknown, manager
<1>6. ASSUME \/ List \/ (\E uid \in AgentUIDs : UnitEnds(uid) \/ WaitProcess(uid) \/ MarkExited(uid) \/ Adopt(uid))
             \/ BootstrapNftables \/ Discover \/ UNCHANGED vars
      PROVE  nextUID' = nextUID
  BY <1>6 DEF List, UnitEnds, WaitProcess, MarkExited, Adopt, BootstrapNftables, Discover, vars, manager
<1>7. nextUID' \in UIDBase..UIDMax
  BY <1>0, <1>1, <1>2, <1>3, <1>4, <1>5, <1>6 DEF Next, Request, Booting
<1>. QED
  BY <1>7, FoundStep DEF NextOK, UsersInv

LEMMA CountsTyped ==
  ASSUME TypeInv, [Next]_vars
  PROVE  CountsOK'
<1>0. polling \in [AgentUIDs -> Nat] /\ marking \in [AgentUIDs -> Nat]
  BY TypeParts DEF TypeInv, CountsOK
<1>1. ASSUME NEW t \in Handlers, Holding(t)
      PROVE  CountsOK'
  <2>1. CASE StartProcess(t)
    <3>1. PICK uid : uid = job[t].uid
      OBVIOUS
    <3>2. polling' = [polling EXCEPT ![uid] = @ + 1] /\ marking' = marking
      BY <2>1, <3>1 DEF StartProcess
    <3>3. \A u \in AgentUIDs : polling'[u] \in Nat
      BY <1>0, <3>2
    <3>4. DOMAIN polling' = AgentUIDs /\ polling' = [u \in AgentUIDs |-> polling'[u]]
      BY <1>0, <3>2
    <3>. QED
      BY <1>0, <3>2, <3>3, <3>4 DEF CountsOK
  <2>. QED
    BY <1>0, <1>1, <2>1 DEF CountsOK, waiters, Holding, UserAdd, UserAddFails, CreateSlice, CreateSliceFails, ApplyNetRules,
       ApplyNetRulesFails, StartProcessFails, UndoNet, UndoSlice, UndoUser, StopUnit, RemoveRules,
       StopSlice, RemoveUser, RemoveUserFails
<1>2. ASSUME NEW uid \in AgentUIDs, WaitProcess(uid)
      PROVE  CountsOK'
  BY <1>0, <1>2 DEF WaitProcess, CountsOK
<1>3. ASSUME NEW uid \in AgentUIDs, MarkExited(uid)
      PROVE  CountsOK'
  BY <1>0, <1>3 DEF MarkExited, CountsOK
<1>4. CASE Crash
  BY <1>4 DEF Crash, NoWaiters, CountsOK
<1>5. ASSUME NEW t \in Handlers, Request(t) \/ Terminate(t) \/ TerminateUnknown(t)
      PROVE  UNCHANGED <<polling, marking>>
  BY <1>5 DEF Request, Spawn, HandleTerminate, Terminate, TerminateUnknown, waiters
<1>6. ASSUME List \/ (\E uid \in AgentUIDs : UnitEnds(uid)) \/ Booting \/ UNCHANGED vars
      PROVE  UNCHANGED <<polling, marking>>
  BY <1>6 DEF List, UnitEnds, Booting, BootstrapNftables, Discover, Adopt, Serve, vars, waiters
<1>. QED
  BY <1>0, <1>1, <1>2, <1>3, <1>4, <1>5, <1>6 DEF Next, CountsOK

\* The types of everything the manager and the operating system keep, that only a
\* handler in the middle of a request has the mutex (Manager.mu), and that users own
\* the processes; whatever fails.
THEOREM ManagerTyped == Spec => [](TypeInv /\ UsersInv)
<1>1. Init => TypeInv /\ UsersInv
  <2>. SUFFICES ASSUME Init
                PROVE  TypeInv /\ UsersInv
    OBVIOUS
  <2>1. UsersOK /\ CmdsOK /\ AgentsOK
    BY DEF Init, UsersOK, CmdsOK, AgentsOK, IsMap
  <2>2. RulesOK /\ MuOK /\ CountsOK
    BY DEF Init, RulesOK, MuOK, CountsOK, NoWaiters
  <2>3. NextOK
    BY UIDsAreNumbers DEF Init, NextOK, Found, NothingFound, Boots
  <2>4. \A t \in Handlers : JobOK(t) /\ SpawnedUser(t)
    BY DEF Init, JobOK, SpawnedUser, InMutex, SpawnSteps, TerminateSteps
  <2>5. UserUIDs /\ OwnedByUsers /\ FoundUsers /\ mu = None
    BY DEF Init, UserUIDs, OwnedByUsers, FoundUsers, NothingFound
  <2>. QED
    BY <2>1, <2>2, <2>3, <2>4, <2>5, TypeParts DEF TypeInv, UsersInv
<1>2. TypeInv /\ UsersInv /\ [Next]_vars => (TypeInv /\ UsersInv)'
  <2>. SUFFICES ASSUME TypeInv, UsersInv, [Next]_vars
                PROVE  (TypeInv /\ UsersInv)'
    OBVIOUS
  <2>1. UsersInv'
    BY UsersStep
  <2>2. UsersOK' /\ CmdsOK' /\ RulesOK' /\ AgentsOK' /\ NextOK' /\ MuOK' /\ CountsOK'
    BY <2>1, CmdsTyped, RulesTyped, AgentsTyped, NextTyped, MuTyped, CountsTyped DEF UsersInv
  <2>3. TypeOK'
    BY <2>2 DEF TypeOK, UsersOK, CmdsOK, RulesOK, AgentsOK, NextOK, MuOK, CountsOK, IsMap
  <2>. QED
    BY <2>1, <2>3, JobStep DEF TypeInv
<1>. QED
  BY <1>1, <1>2, PTL DEF Spec

\* What the manager and the operating system keep has its types.
THEOREM TypeCorrect == Spec => []TypeOK
BY ManagerTyped, PTL DEF TypeInv

\* No uid with a process changes hands, whichever commands fail: useradd refuses a user
\* that exists, userdel one that has processes.
THEOREM NoInheritedProcessCorrect == Spec => NoInheritedProcess
<1>1. TypeInv /\ UsersInv /\ [Next]_vars =>
        [\A uid \in AgentUIDs : (uid \in DOMAIN users) # (uid \in DOMAIN users') => uid \notin DOMAIN cmds]_vars
  <2>. SUFFICES ASSUME TypeInv, UsersInv, [Next]_vars, NEW uid \in AgentUIDs,
                       (uid \in DOMAIN users) # (uid \in DOMAIN users')
                PROVE  uid \notin DOMAIN cmds
    OBVIOUS
  <2>1. ASSUME NEW t \in Handlers, UserAdd(t)
        PROVE  uid \notin DOMAIN cmds
    <3>1. DOMAIN users' = DOMAIN users \cup {job[t].uid}
      BY <2>1 DEF UserAdd, put
    <3>. QED
      BY <3>1 DEF UsersInv, OwnedByUsers
  <2>2. ASSUME NEW t \in Handlers, UndoUser(t) \/ RemoveUser(t)
        PROVE  uid \notin DOMAIN cmds
    <3>. DEFINE name == Username(job[t].name, job[t].uid)
    <3>1. UNCHANGED users \/ (CanUserdel(name) /\ Userdel(name))
      BY <2>2 DEF UndoUser, RemoveUser
    <3>2. job[t].uid \notin DOMAIN cmds /\ DOMAIN users' = DOMAIN users \ {job[t].uid}
      BY <3>1, UserdelIs DEF UsersInv, UserUIDs
    <3>. QED
      BY <3>2
  <2>. QED
    BY <2>1, <2>2, UsersGo
<1>. QED
  BY <1>1, ManagerTyped, PTL DEF Spec, NoInheritedProcess

-----------------------------------------------------------------------------
(* Rule handles. Inductive when handles are unique and the next one is     *)
(* new, which nft guarantees until the chain is flushed.                   *)

UniqueHandles ==
  /\ \A r \in rules : r.handle < nextHandle
  /\ \A r, q \in rules : r.handle = q.handle => r = q

OwnHandles == \A uid \in AgentUIDs : \A h \in ruleHandles[uid] : \E r \in rules : r.uid = uid /\ r.handle = h

\* No handle survives the daemon, and so none a flush of the chain.
HandlesInv ==
  /\ UniqueHandles /\ OwnHandles
  /\ boot \in {"flush", "discover"} => \A uid \in AgentUIDs : ruleHandles[uid] = {}

LEMMA BootGoes ==
  ASSUME TypeInv, [Next]_vars, boot' \in {"flush", "discover"}
  PROVE  Crash \/ BootstrapNftables \/ (boot' = boot /\ RulesStay)
<1>1. ASSUME NEW t \in Handlers, Holding(t)
      PROVE  FALSE
  <2>1. JobOK(t) /\ pc[t] # "idle"
    BY <1>1, HoldingAt DEF TypeInv, SpawnSteps, TerminateSteps
  <2>. QED
    BY <1>1, <2>1 DEF JobOK, Holding, UserAdd, UserAddFails, CreateSlice, CreateSliceFails, ApplyNetRules,
       ApplyNetRulesFails, StartProcess, StartProcessFails, UndoNet, UndoSlice, UndoUser, StopUnit, RemoveRules,
       StopSlice, RemoveUser, RemoveUserFails
<1>2. ASSUME NEW t \in Handlers, Request(t) \/ Terminate(t) \/ TerminateUnknown(t)
      PROVE  boot' = boot /\ RulesStay
  BY <1>2 DEF Request, Spawn, HandleTerminate, Terminate, TerminateUnknown, RulesStay, os, manager
<1>3. ASSUME List \/ (\E uid \in AgentUIDs : UnitEnds(uid) \/ WaitProcess(uid) \/ MarkExited(uid)) \/ UNCHANGED vars
      PROVE  boot' = boot /\ RulesStay
  BY <1>3 DEF List, UnitEnds, WaitProcess, MarkExited, vars, RulesStay, os, manager
<1>4. ASSUME Discover \/ (\E uid \in AgentUIDs : Adopt(uid)) \/ Serve
      PROVE  FALSE
  BY <1>4 DEF Discover, Adopt, Serve
<1>. QED
  BY <1>1, <1>2, <1>3, <1>4 DEF Next, Booting

LEMMA HandlesStep ==
  ASSUME TypeInv, UsersInv, HandlesInv, [Next]_vars
  PROVE  HandlesInv'
<1>0. /\ rules \subseteq Rule /\ nextHandle \in Nat /\ ruleHandles \in [AgentUIDs -> SUBSET Nat]
      /\ \A r \in rules : r.handle \in Nat
  BY TypeParts DEF TypeInv, RulesOK, Rule
<1>1. UniqueHandles' /\ OwnHandles'
  <2>1. CASE RulesStay
    BY <2>1 DEF RulesStay, Crash, HandlesInv, UniqueHandles, OwnHandles
  <2>2. ASSUME NEW uid \in AgentUIDs, NEW net, AddsRule(uid, net)
        PROVE  UniqueHandles' /\ OwnHandles'
    <3>1. PICK new : new = [uid |-> uid, handle |-> nextHandle, net |-> net]
      OBVIOUS
    <3>2. rules' = rules \cup {new} /\ nextHandle' = nextHandle + 1 /\ new.handle = nextHandle /\ new.uid = uid
      BY <2>2, <3>1 DEF AddsRule, AddNftRule
    <3>3. UniqueHandles'
      BY <1>0, <3>2 DEF HandlesInv, UniqueHandles
    <3>4. \A u \in AgentUIDs : \A h \in ruleHandles'[u] : h \in ruleHandles[u] \/ (u = uid /\ h = nextHandle)
      BY <1>0, <2>2 DEF AddsRule, RememberHandle
    <3>5. OwnHandles'
      BY <3>2, <3>4 DEF HandlesInv, OwnHandles
    <3>. QED
      BY <3>3, <3>5
  <2>3. ASSUME NEW uid \in AgentUIDs, RemoveNetRules(uid), UNCHANGED nextHandle
        PROVE  UniqueHandles' /\ OwnHandles'
    <3>1. rules' \subseteq rules /\ nextHandle' = nextHandle /\ \A r \in rules : r.handle \notin ruleHandles[uid] => r \in rules'
      BY <2>3 DEF RemoveNetRules
    <3>2. UniqueHandles'
      BY <3>1 DEF HandlesInv, UniqueHandles
    <3>3. ASSUME NEW u \in AgentUIDs, NEW h \in ruleHandles'[u]
          PROVE  \E r \in rules' : r.uid = u /\ r.handle = h
      <4>1. u # uid /\ h \in ruleHandles[u]
        BY <1>0, <2>3, <3>3 DEF RemoveNetRules
      <4>2. PICK r \in rules : r.uid = u /\ r.handle = h
        BY <4>1 DEF HandlesInv, OwnHandles
      <4>3. r.handle \notin ruleHandles[uid]
        BY <4>1, <4>2 DEF HandlesInv, OwnHandles, UniqueHandles
      <4>. QED
        BY <3>1, <4>2, <4>3
    <3>. QED
      BY <3>2, <3>3 DEF OwnHandles
  <2>4. ASSUME NEW t \in Handlers, ApplyNetRules(t) \/ ApplyNetRulesFails(t) \/ UndoNet(t) \/ RemoveRules(t)
        PROVE  job[t].uid \in AgentUIDs
    BY <2>4, SpawnJob DEF ApplyNetRules, ApplyNetRulesFails, UndoNet, RemoveRules, At, SpawnSteps, TerminateSteps
  <2>5. CASE BootstrapNftables
    BY <2>5 DEF BootstrapNftables, manager, HandlesInv, UniqueHandles, OwnHandles
  <2>. QED
    BY <2>1, <2>2, <2>3, <2>4, <2>5, RulesGo
<1>2. ASSUME boot' \in {"flush", "discover"}
      PROVE  \A uid \in AgentUIDs : ruleHandles'[uid] = {}
  BY <1>2, BootGoes DEF HandlesInv, RulesStay, Crash, BootstrapNftables, manager
<1>. QED
  BY <1>1, <1>2 DEF HandlesInv

LEMMA HandlesAlways == Spec => [](TypeInv /\ UsersInv /\ HandlesInv)
<1>1. Init => HandlesInv
  BY DEF Init, HandlesInv, UniqueHandles, OwnHandles
<1>. QED
  BY <1>1, HandlesStep, ManagerTyped, PTL DEF Spec

\* Whichever commands fail, a handle the manager remembers for a uid is that of one
\* rule, and of a rule of that uid: removeNetRules never deletes another agent's rule.
THEOREM HandlesAreOwnCorrect == Spec => []HandlesAreOwn
<1>1. HandlesInv => HandlesAreOwn
  BY DEF HandlesInv, UniqueHandles, OwnHandles, HandlesAreOwn
<1>. QED
  BY <1>1, HandlesAlways, PTL

-----------------------------------------------------------------------------
(* The manager knows each agent user. Inductive with the one user a Spawn  *)
(* has made and not yet entered, with the users RecoverAgents has still to *)
(* adopt, and with a nextUID above every agent: a Spawn that took a uid in *)
(* use would undo the user of another agent.                               *)

\* The Spawn of t made a user and its agent is not, or no longer, in the map.
Making(t) == pc[t] \in SpawnSteps \ {"useradd", "start"}

KnownBy(t) ==
  /\ DOMAIN users = DOMAIN agents \cup (IF Making(t) THEN {job[t].uid} ELSE {})
  /\ pc[t] \in SpawnSteps \ {"start"} => job[t].uid \notin DOMAIN agents
  /\ pc[t] \in SpawnSteps => job[t].uid < nextUID

KnownInv ==
  /\ boot \in {"flush", "discover"} => DOMAIN agents = {}
  /\ boot = "adopt" => DOMAIN agents \cup found.users = DOMAIN users
  /\ boot = "serving" =>
       /\ \A u \in DOMAIN agents : u < nextUID
       /\ mu = None => DOMAIN users = DOMAIN agents
       /\ mu # None => KnownBy(mu)

LEMMA KnownStepHolding ==
  ASSUME TypeInv, UsersInv, KnownInv, NEW t \in Handlers, Holding(t), Faults \cap {"getent", "userdel"} = {}
  PROVE  KnownInv'
<1>0. /\ mu = t /\ mu # None /\ boot = "serving" /\ JobOK(t) /\ SpawnedUser(t) /\ MuOK
      /\ pc[t] \in SpawnSteps => job[t].uid \in AgentUIDs
  BY HoldingAt, TypeParts, MutexAssumption, SpawnJob DEF TypeInv, UsersInv, JobOK, InMutex, SpawnSteps, TerminateSteps
<1>1. KnownBy(t) /\ \A u \in DOMAIN agents : u < nextUID
  BY <1>0 DEF KnownInv
<1>2. boot' = "serving" /\ nextUID' = nextUID
  BY <1>0 DEF Holding, UserAdd, UserAddFails, CreateSlice, CreateSliceFails, ApplyNetRules,
       ApplyNetRulesFails, StartProcess, StartProcessFails, UndoNet, UndoSlice, UndoUser, StopUnit, RemoveRules,
       StopSlice, RemoveUser, RemoveUserFails, manager
\* A step that leaves the users and the agents alone, and one that ends the request.
<1>3. ASSUME DOMAIN users' = DOMAIN users, DOMAIN agents' = DOMAIN agents, NEW p, Goto(t, p),
             p \in SpawnSteps <=> pc[t] \in SpawnSteps,
             p \in SpawnSteps \ {"useradd", "start"} <=> Making(t), p = "start" <=> pc[t] = "start"
      PROVE  KnownInv'
  <2>1. mu' = mu /\ job' = job /\ pc'[t] = p
    BY <1>0, <1>3 DEF Goto, MuOK
  <2>2. KnownBy(t)'
    BY <1>1, <1>2, <1>3, <2>1 DEF KnownBy, Making
  <2>. QED
    BY <1>0, <1>1, <1>2, <1>3, <2>1, <2>2 DEF KnownInv
<1>4. ASSUME DOMAIN users' = DOMAIN agents', DOMAIN agents' \subseteq DOMAIN agents, Done(t)
      PROVE  KnownInv'
  BY <1>1, <1>2, <1>4 DEF KnownInv, Done
<1>. USE DEF At, Making, SpawnSteps
<1>5. CASE UserAdd(t)
  <2>1. DOMAIN users' = DOMAIN users \cup {job[t].uid} /\ agents' = agents /\ pc[t] = "useradd"
    BY <1>5 DEF UserAdd, put, manager
  <2>2. mu' = mu /\ job' = job /\ pc'[t] = "slice"
    BY <1>0, <1>5 DEF UserAdd, Goto, MuOK
  <2>3. KnownBy(t)'
    BY <1>1, <1>2, <2>1, <2>2 DEF KnownBy
  <2>. QED
    BY <1>0, <1>1, <1>2, <2>1, <2>2, <2>3 DEF KnownInv
<1>6. CASE UserAddFails(t)
  BY <1>1, <1>4, <1>6 DEF UserAddFails, KnownBy, os, manager
<1>7. CASE CreateSlice(t) \/ CreateSliceFails(t) \/ ApplyNetRulesFails(t)
  BY <1>3, <1>7 DEF CreateSlice, CreateSliceFails, ApplyNetRulesFails, os, manager
<1>8. CASE ApplyNetRules(t)
  <2>1. DOMAIN agents' = DOMAIN agents \cup {job[t].uid} /\ users' = users /\ pc[t] = "net"
    BY <1>8 DEF ApplyNetRules, put
  <2>2. DOMAIN users' = DOMAIN agents' /\ \A u \in DOMAIN agents' : u < nextUID'
    BY <1>1, <1>2, <2>1 DEF KnownBy
  <2>3. CASE Goto(t, "start")
    <3>1. mu' = mu /\ job' = job /\ pc'[t] = "start"
      BY <1>0, <2>3 DEF Goto, MuOK
    <3>2. KnownBy(t)'
      BY <1>1, <1>2, <2>1, <2>2, <3>1 DEF KnownBy
    <3>. QED
      BY <1>0, <1>2, <2>2, <3>1, <3>2 DEF KnownInv
  <2>4. CASE Done(t)
    BY <1>2, <2>2, <2>4 DEF KnownInv, Done
  <2>. QED
    BY <1>8, <2>3, <2>4 DEF ApplyNetRules
<1>9. CASE StartProcess(t)
  BY <1>1, <1>4, <1>9 DEF StartProcess, KnownBy
<1>10. CASE StartProcessFails(t)
  <2>1. DOMAIN agents' = DOMAIN agents \ {job[t].uid} /\ users' = users /\ pc[t] = "start"
    BY <1>10, DropHas DEF StartProcessFails
  <2>2. job[t].uid \in DOMAIN users
    BY <1>0, <2>1 DEF SpawnedUser
  <2>3. mu' = mu /\ job' = job /\ pc'[t] = "undo_net"
    BY <1>0, <1>10 DEF StartProcessFails, Goto, MuOK
  <2>4. KnownBy(t)'
    BY <1>1, <1>2, <2>1, <2>2, <2>3 DEF KnownBy
  <2>. QED
    BY <1>0, <1>1, <1>2, <2>1, <2>3, <2>4 DEF KnownInv
<1>11. CASE UndoNet(t) \/ UndoSlice(t)
  BY <1>3, <1>11 DEF UndoNet, UndoSlice, manager
<1>12. CASE UndoUser(t)
  <2>. DEFINE name == Username(job[t].name, job[t].uid)
  <2>1. pc[t] = "undo_user" /\ agents' = agents /\ Done(t)
    BY <1>12 DEF UndoUser, manager
  <2>2. CanUserdel(name)
    BY <1>0, <2>1 DEF SpawnedUser, CanUserdel
  <2>3. Userdel(name)
    BY <1>12, <2>2 DEF UndoUser
  <2>4. DOMAIN users' = DOMAIN users \ {job[t].uid}
    BY <2>2, <2>3, UserdelIs DEF UsersInv, UserUIDs
  <2>. QED
    BY <1>1, <1>4, <2>1, <2>4 DEF KnownBy
<1>13. CASE StopUnit(t) \/ RemoveRules(t) \/ StopSlice(t)
  BY <1>3, <1>13 DEF StopUnit, RemoveRules, StopSlice, manager
<1>14. CASE RemoveUser(t)
  <2>. DEFINE name == Username(job[t].name, job[t].uid)
  <2>1. CanUserdel(name) /\ Userdel(name) /\ agents' = drop(agents, job[t].uid) /\ Done(t) /\ pc[t] = "userdel"
    BY <1>14 DEF RemoveUser
  <2>2. DOMAIN users' = DOMAIN users \ {job[t].uid}
    BY <2>1, UserdelIs DEF UsersInv, UserUIDs
  <2>3. DOMAIN agents' = DOMAIN agents \ {job[t].uid}
    BY <2>1, DropHas
  <2>. QED
    BY <1>1, <1>4, <2>1, <2>2, <2>3 DEF KnownBy
<1>15. CASE RemoveUserFails(t)
  BY <1>1, <1>4, <1>15 DEF RemoveUserFails, KnownBy, os, manager
<1>. QED
  BY <1>5, <1>6, <1>7, <1>8, <1>9, <1>10, <1>11, <1>12, <1>13, <1>14, <1>15 DEF Holding

\* What the steps outside a Spawn or a Terminate keep.
LEMMA RefreshedKeeps ==
  ASSUME Refreshed
  PROVE  DOMAIN agents' = DOMAIN agents
BY DEF Refreshed

LEMMA KnownStep ==
  ASSUME TypeInv, UsersInv, KnownInv, [Next]_vars, Faults \cap {"getent", "userdel"} = {}
  PROVE  KnownInv'
<1>0. MuOK /\ IsMap(agents, AgentUIDs, Agent) /\ nextUID \in UIDBase..UIDMax /\ None \notin Handlers
  BY TypeParts, MutexAssumption DEF TypeInv, AgentsOK, NextOK
<1>1. ASSUME boot = "serving", boot' = boot, mu = None, mu' = None, UNCHANGED <<users, nextUID>>,
             DOMAIN agents' = DOMAIN agents
      PROVE  KnownInv'
  BY <1>1 DEF KnownInv
<1>2. ASSUME NEW t \in Handlers, NEW r \in SpawnRequests, Spawn(t, r)
      PROVE  KnownInv'
  <2>1. PICK uid : uid = (IF r.uid = 0 THEN nextUID ELSE r.uid)
    OBVIOUS
  <2>2. uid \in AgentUIDs /\ uid \notin DOMAIN agents
    BY <1>0, <1>2, <2>1, UIDsAreNumbers DEF Spawn, Free, KnownInv, IsMap
  <2>3. PICK j : j = [uid |-> uid, name |-> r.name, net |-> r.net, command |-> r.command]
    OBVIOUS
  <2>4. j.uid = uid /\ job' = [job EXCEPT ![t] = j] /\ pc' = [pc EXCEPT ![t] = "useradd"]
    BY <1>2, <2>1, <2>3 DEF Spawn
  <2>5. pc'[t] = "useradd" /\ job'[t].uid = uid
    BY <1>0, <2>4 DEF MuOK
  <2>6. nextUID' = (IF uid >= nextUID THEN uid + 1 ELSE nextUID)
    BY <1>2, <2>1 DEF Spawn
  <2>7. uid < nextUID' /\ nextUID <= nextUID'
    BY <1>0, <2>2, <2>6, UIDsAreNumbers
  <2>8. users' = users /\ agents' = agents /\ mu' = t /\ boot = "serving" /\ boot' = boot /\ mu = None
    BY <1>2 DEF Spawn, Free, os
  <2>9. \A u \in DOMAIN agents : u < nextUID'
    <3>1. nextUID' \in Nat /\ \A u \in DOMAIN agents : u \in Nat /\ u < nextUID
      BY <1>0, <2>2, <2>6, <2>8, UIDsAreNumbers DEF KnownInv, IsMap
    <3>. QED
      BY <1>0, <2>7, <3>1, UIDsAreNumbers
  <2>10. KnownBy(t)'
    BY <2>2, <2>5, <2>7, <2>8 DEF KnownBy, Making, KnownInv
  <2>. QED
    BY <1>0, <2>8, <2>9, <2>10 DEF KnownInv
<1>3. ASSUME NEW t \in Handlers, Terminate(t)
      PROVE  KnownInv'
  <2>1. users' = users /\ agents' = agents /\ nextUID' = nextUID /\ mu' = t /\ boot = "serving" /\ boot' = boot /\ mu = None
    BY <1>3 DEF Terminate, Free, os, manager
  <2>2. pc'[t] = "stop_unit"
    BY <1>0, <1>3 DEF Terminate, MuOK
  <2>3. KnownBy(t)'
    BY <2>1, <2>2 DEF KnownBy, Making, KnownInv, SpawnSteps
  <2>. QED
    BY <1>0, <2>1, <2>3 DEF KnownInv
<1>4. ASSUME NEW t \in Handlers, (\E uid \in AgentUIDs : HandleTerminate(t, uid)) \/ TerminateUnknown(t)
      PROVE  KnownInv'
  BY <1>1, <1>4, RefreshedKeeps DEF HandleTerminate, TerminateUnknown, Free, Done, os, manager
<1>5. ASSUME List \/ \E uid \in AgentUIDs : MarkExited(uid)
      PROVE  KnownInv'
  BY <1>1, <1>5, RefreshedKeeps DEF List, MarkExited, Free, handlers, os
<1>6. ASSUME (\E uid \in AgentUIDs : UnitEnds(uid) \/ WaitProcess(uid)) \/ UNCHANGED vars
      PROVE  KnownInv'
  BY <1>6 DEF UnitEnds, WaitProcess, vars, os, manager, handlers, KnownInv, KnownBy, Making
<1>7. boot # "serving" => mu = None
  BY <1>0 DEF TypeInv, JobOK, InMutex, SpawnSteps, TerminateSteps, MuOK
<1>8. CASE BootstrapNftables
  BY <1>8 DEF BootstrapNftables, manager, KnownInv
<1>9. CASE Discover
  <2>1. found' = [users |-> DOMAIN users, slices |-> slices, cmds |-> DOMAIN cmds] /\ boot = "discover" /\ boot' = "adopt"
    BY <1>9 DEF Discover
  <2>2. found'.users = DOMAIN users
    BY <2>1
  <2>. QED
    BY <1>9, <2>1, <2>2 DEF Discover, os, manager, KnownInv
<1>10. ASSUME NEW uid \in AgentUIDs, Adopt(uid)
       PROVE  KnownInv'
  <2>1. DOMAIN agents' = DOMAIN agents \cup {uid} /\ UNCHANGED <<users, boot>> /\ boot = "adopt" /\ uid \in found.users
    BY <1>10 DEF Adopt, put
  <2>2. found' = [found EXCEPT !.users = @ \ {uid}] /\ found \in Found
    BY <1>10, TypeParts DEF Adopt, TypeInv, NextOK
  <2>3. found'.users = found.users \ {uid}
    BY <2>2 DEF Found
  <2>. QED
    BY <2>1, <2>3 DEF KnownInv
<1>11. CASE Serve
  <2>0. PICK T : T = {nextUID} \cup {u + 1 : u \in DOMAIN agents}
    OBVIOUS
  <2>1. DOMAIN agents \subseteq AgentUIDs
    BY <1>0 DEF IsMap
  <2>2. T \subseteq 0..UIDMax /\ T # {}
    BY <1>0, <2>0, <2>1, UIDsAreNumbers
  <2>3. Max(T) \in T /\ \A x \in T : Max(T) >= x
    BY <2>2, MaxOfBounded, UIDsAreNumbers
  <2>4. nextUID' = Max(T) /\ boot = "adopt" /\ boot' = "serving" /\ found.users = {}
    BY <1>11, <2>0 DEF Serve
  <2>5. \A u \in DOMAIN agents : u \in Nat /\ u + 1 \in T
    BY <2>0, <2>1, UIDsAreNumbers
  <2>6. ASSUME NEW u \in DOMAIN agents
        PROVE  u < nextUID'
    <3>1. PICK m : m = Max(T)
      OBVIOUS
    <3>2. m \in 0..UIDMax /\ m >= u + 1 /\ u \in Nat
      BY <2>2, <2>3, <2>5, <3>1
    <3>. QED
      BY <2>4, <3>1, <3>2, UIDsAreNumbers
  <2>7. UNCHANGED <<users, agents, mu>>
    BY <1>11 DEF Serve, os, handlers
  <2>. QED
    BY <1>7, <2>4, <2>6, <2>7 DEF KnownInv
<1>12. CASE Crash
  BY <1>12 DEF Crash, KnownInv
<1>. QED
  BY <1>2, <1>3, <1>4, <1>5, <1>6, <1>8, <1>9, <1>10, <1>11, <1>12, KnownStepHolding DEF Next, Request, Booting

\* While the service serves and no request is in the middle of its commands, the agents
\* it knows are exactly the agent users of the system, whatever was interrupted by a
\* crash: as long as userdel does not fail of itself and the discovery of users works.
THEOREM UsersAreKnownCorrect ==
  ASSUME Faults \cap {"getent", "userdel"} = {}
  PROVE  Spec => []UsersAreKnown
<1>1. Init => KnownInv
  BY DEF Init, KnownInv
<1>2. TypeInv /\ UsersInv /\ KnownInv /\ [Next]_vars => KnownInv'
  BY KnownStep
<1>3. KnownInv => UsersAreKnown
  BY DEF KnownInv, UsersAreKnown, Free
<1>. QED
  BY <1>1, <1>2, <1>3, ManagerTyped, PTL DEF Spec

-----------------------------------------------------------------------------
(* Confined. A command is started under a rule that is already there, its  *)
(* rules are removed only when it has stopped, and a daemon that starts    *)
(* has flushed the chain and covers each user with a process again before  *)
(* it serves.                                                              *)

\* What covers a uid goes away only when the rules of that uid are removed, or all are.
LEMMA CoveredStays ==
  ASSUME TypeInv, HandlesInv, [Next]_vars, NEW uid, NEW net, Covered(uid, net)
  PROVE  \/ Covered(uid, net)'
         \/ \E t \in Handlers : (UndoNet(t) \/ RemoveRules(t)) /\ job[t].uid = uid
         \/ BootstrapNftables
<1>1. PICK r \in rules : r.uid = uid /\ r.net \in {net, "deny"}
  BY DEF Covered
<1>2. CASE RulesStay
  BY <1>1, <1>2 DEF RulesStay, Covered
<1>3. ASSUME NEW u, NEW n, AddsRule(u, n)
      PROVE  Covered(uid, net)'
  BY <1>1, <1>3 DEF AddsRule, AddNftRule, Covered
<1>4. ASSUME NEW t \in Handlers, UndoNet(t) \/ RemoveRules(t), RemoveNetRules(job[t].uid), job[t].uid # uid
      PROVE  Covered(uid, net)'
  <2>1. job[t].uid \in AgentUIDs
    BY <1>4, SpawnJob DEF UndoNet, RemoveRules, At, SpawnSteps, TerminateSteps
  <2>2. r.handle \notin ruleHandles[job[t].uid]
    BY <1>1, <1>4, <2>1 DEF HandlesInv, OwnHandles, UniqueHandles
  <2>. QED
    BY <1>1, <1>4, <2>2 DEF RemoveNetRules, Covered
<1>. QED
  BY <1>2, <1>3, <1>4, RulesGo

\* Nothing but main() and the end of the daemon changes how far main() is.
LEMMA BootStays ==
  ASSUME TypeInv, [Next]_vars, ~Booting, ~Crash
  PROVE  UNCHANGED <<boot, found>> /\ ((\E t \in Handlers : Holding(t)) => boot = "serving")
<1>1. ASSUME NEW t \in Handlers, Holding(t)
      PROVE  boot = "serving" /\ UNCHANGED <<boot, found>>
  <2>1. JobOK(t) /\ pc[t] # "idle"
    BY <1>1, HoldingAt DEF TypeInv, SpawnSteps, TerminateSteps
  <2>. QED
    BY <1>1, <2>1 DEF JobOK, Holding, UserAdd, UserAddFails, CreateSlice, CreateSliceFails, ApplyNetRules,
       ApplyNetRulesFails, StartProcess, StartProcessFails, UndoNet, UndoSlice, UndoUser, StopUnit, RemoveRules,
       StopSlice, RemoveUser, RemoveUserFails
<1>2. ASSUME NEW t \in Handlers, Request(t) \/ Terminate(t) \/ TerminateUnknown(t)
      PROVE  UNCHANGED <<boot, found>>
  BY <1>2 DEF Request, Spawn, HandleTerminate, Terminate, TerminateUnknown
<1>3. ASSUME List \/ (\E uid \in AgentUIDs : UnitEnds(uid) \/ WaitProcess(uid) \/ MarkExited(uid)) \/ UNCHANGED vars
      PROVE  UNCHANGED <<boot, found>>
  BY <1>3 DEF List, UnitEnds, WaitProcess, MarkExited, vars
<1>. QED
  BY <1>1, <1>2, <1>3 DEF Next

AllCovered == \A uid \in DOMAIN cmds : cmds[uid] = "allow" \/ Covered(uid, cmds[uid])

CoverInv ==
  /\ boot = "serving" => AllCovered
  /\ boot = "adopt" => \A uid \in DOMAIN cmds : uid \in found.users \/ Covered(uid, "deny")
  /\ \A t \in Handlers : pc[t] = "start" => job[t].net = "allow" \/ Covered(job[t].uid, job[t].net)
  /\ \A t \in Handlers : pc[t] = "remove_rules" => job[t].uid \notin DOMAIN cmds

LEMMA CoverStart ==
  ASSUME TypeInv, HandlesInv, CoverInv, [Next]_vars, NEW t \in Handlers, pc'[t] = "start"
  PROVE  (job[t].net = "allow" \/ Covered(job[t].uid, job[t].net))'
<1>0. MuOK /\ MuOK' /\ JobOK(t)
  BY TypeParts, MuTyped DEF TypeInv
<1>1. CASE Holding(t)
  <2>1. CASE ApplyNetRules(t)
    <3>1. job' = job
      BY <1>0, <2>1 DEF ApplyNetRules, Goto, Done, MuOK
    <3>2. CASE job[t].net # "allow"
      <4>1. PICK r : r = [uid |-> job[t].uid, handle |-> nextHandle, net |-> job[t].net]
        OBVIOUS
      <4>2. r \in rules' /\ r.uid = job[t].uid /\ r.net = job[t].net
        BY <2>1, <3>2, <4>1 DEF ApplyNetRules, AddNftRule
      <4>. QED
        BY <3>1, <4>2 DEF Covered
    <3>. QED
      BY <3>1, <3>2
  <2>2. ASSUME ~ApplyNetRules(t)
        PROVE  FALSE
    BY <1>0, <1>1, <2>2 DEF Holding, UserAdd, UserAddFails, CreateSlice, CreateSliceFails,
       ApplyNetRulesFails, StartProcess, StartProcessFails, UndoNet, UndoSlice, UndoUser, StopUnit, RemoveRules,
       StopSlice, RemoveUser, RemoveUserFails, Goto, Done, MuOK
  <2>. QED
    BY <2>1, <2>2
<1>2. CASE ~Holding(t)
  <2>1. pc[t] = "start" /\ job'[t] = job[t] /\ ~\E s \in Handlers : Holding(s)
    BY <1>2, InsideStays DEF Inside, SpawnSteps, TerminateSteps
  <2>2. ~BootstrapNftables
    BY <1>0, <2>1 DEF JobOK, BootstrapNftables
  <2>3. PICK u, n : u = job[t].uid /\ n = job[t].net
    OBVIOUS
  <2>4. n = "allow" \/ Covered(u, n)'
    BY <2>1, <2>2, <2>3, CoveredStays DEF CoverInv, Holding
  <2>. QED
    BY <2>1, <2>3, <2>4
<1>. QED
  BY <1>1, <1>2

LEMMA CoverRemove ==
  ASSUME TypeInv, CoverInv, [Next]_vars, "stop" \notin Faults, NEW t \in Handlers, pc'[t] = "remove_rules"
  PROVE  job'[t].uid \notin DOMAIN cmds'
<1>0. MuOK
  BY TypeParts DEF TypeInv
<1>1. CASE Holding(t)
  <2>1. CASE StopUnit(t)
    <3>1. job' = job /\ cmds' = drop(cmds, job[t].uid)
      BY <2>1 DEF StopUnit, Goto
    <3>2. PICK u : u = job[t].uid
      OBVIOUS
    <3>3. u \notin DOMAIN drop(cmds, u)
      BY DropHas
    <3>. QED
      BY <3>1, <3>2, <3>3
  <2>2. ASSUME ~StopUnit(t)
        PROVE  FALSE
    BY <1>0, <1>1, <2>2 DEF Holding, UserAdd, UserAddFails, CreateSlice, CreateSliceFails, ApplyNetRules,
       ApplyNetRulesFails, StartProcess, StartProcessFails, UndoNet, UndoSlice, UndoUser, RemoveRules,
       StopSlice, RemoveUser, RemoveUserFails, Goto, Done, MuOK
  <2>. QED
    BY <2>1, <2>2
<1>2. CASE ~Holding(t)
  <2>1. pc[t] = "remove_rules" /\ job'[t] = job[t] /\ ~\E s \in Handlers : Holding(s)
    BY <1>2, InsideStays DEF Inside, SpawnSteps, TerminateSteps
  <2>2. CmdsShrink
    BY <2>1, CmdsGo DEF Holding
  <2>. QED
    BY <2>1, <2>2 DEF CmdsShrink, Restrict, CoverInv
<1>. QED
  BY <1>1, <1>2

LEMMA CoverServing ==
  ASSUME TypeInv, UsersInv, HandlesInv, CoverInv, [Next]_vars, boot = "serving", boot' = "serving"
  PROVE  AllCovered'
<1>1. ASSUME NEW t \in Handlers, StartProcess(t)
      PROVE  AllCovered'
  <2>1. rules' = rules /\ cmds' = put(cmds, job[t].uid, job[t].net) /\ pc[t] = "start"
    BY <1>1 DEF StartProcess, At
  <2>2. \A uid \in DOMAIN cmds' : IF uid = job[t].uid THEN cmds'[uid] = job[t].net
                                                      ELSE uid \in DOMAIN cmds /\ cmds'[uid] = cmds[uid]
    BY <2>1 DEF put
  <2>. QED
    BY <2>1, <2>2 DEF AllCovered, CoverInv, Covered
<1>2. ASSUME CmdsShrink, NEW uid \in DOMAIN cmds'
      PROVE  (cmds[uid] = "allow" \/ Covered(uid, cmds[uid]))'
  <2>1. uid \in DOMAIN cmds /\ cmds'[uid] = cmds[uid]
    BY <1>2 DEF CmdsShrink, Restrict
  <2>2. ASSUME NEW t \in Handlers, UndoNet(t) \/ RemoveRules(t)
        PROVE  job[t].uid \notin DOMAIN cmds
    BY <2>2 DEF UndoNet, RemoveRules, At, CoverInv, UsersInv, SpawnedUser, SpawnSteps
  <2>3. ~BootstrapNftables
    BY DEF BootstrapNftables
  <2>4. PICK n : n = cmds[uid]
    OBVIOUS
  <2>5. n = "allow" \/ Covered(uid, n)'
    BY <2>1, <2>2, <2>3, <2>4, CoveredStays DEF CoverInv, AllCovered
  <2>. QED
    BY <2>1, <2>4, <2>5
<1>. QED
  BY <1>1, <1>2, CmdsGo DEF AllCovered

LEMMA CoverAdopt ==
  ASSUME TypeInv, UsersInv, HandlesInv, CoverInv, [Next]_vars, Faults \cap {"reapply", "getent"} = {},
         boot' = "adopt", NEW uid \in DOMAIN cmds'
  PROVE  uid \in found'.users \/ Covered(uid, "deny")'
<1>0. UNCHANGED cmds => uid \in DOMAIN cmds /\ uid \in DOMAIN users
  BY DEF UsersInv, OwnedByUsers
<1>1. CASE Discover
  <2>1. found' = [users |-> DOMAIN users, slices |-> slices, cmds |-> DOMAIN cmds] /\ cmds' = cmds
    BY <1>1 DEF Discover, os
  <2>. QED
    BY <1>0, <2>1
<1>2. ASSUME NEW u \in AgentUIDs, Adopt(u)
      PROVE  uid \in found'.users \/ Covered(uid, "deny")'
  <2>1. found' = [found EXCEPT !.users = @ \ {u}] /\ found \in Found /\ cmds' = cmds /\ AddNftRule(u, "deny") /\ boot = "adopt"
    BY <1>2, TypeParts DEF Adopt, TypeInv, NextOK
  <2>2. found'.users = found.users \ {u}
    BY <2>1 DEF Found
  <2>3. PICK r : r = [uid |-> u, handle |-> nextHandle, net |-> "deny"]
    OBVIOUS
  <2>4. rules' = rules \cup {r} /\ r.uid = u /\ r.net = "deny"
    BY <2>1, <2>3 DEF AddNftRule
  <2>5. uid \in found.users \/ Covered(uid, "deny")
    BY <1>0, <2>1 DEF CoverInv
  <2>. QED
    BY <2>2, <2>4, <2>5 DEF Covered
<1>3. CASE ~Booting /\ ~Crash
  <2>1. UNCHANGED <<boot, found>> /\ ~\E t \in Handlers : Holding(t)
    BY <1>3, BootStays
  <2>2. CmdsShrink /\ ~BootstrapNftables
    BY <1>3, <2>1, CmdsGo DEF Holding, Booting
  <2>3. uid \in DOMAIN cmds
    BY <2>2 DEF CmdsShrink, Restrict
  <2>4. Covered(uid, "deny") => Covered(uid, "deny")'
    BY <2>1, <2>2, CoveredStays DEF Holding
  <2>. QED
    BY <2>1, <2>3, <2>4 DEF CoverInv
<1>. QED
  BY <1>1, <1>2, <1>3 DEF Booting, BootstrapNftables, Serve, Crash

LEMMA CoverStep ==
  ASSUME TypeInv, UsersInv, HandlesInv, CoverInv, [Next]_vars, Faults \cap {"reapply", "stop", "getent"} = {}
  PROVE  CoverInv'
<1>1. boot' = "serving" => AllCovered'
  <2>1. CASE Serve
    <3>1. UNCHANGED <<cmds, rules>> /\ boot = "adopt" /\ found.users = {}
      BY <2>1 DEF Serve, os
    <3>. QED
      BY <3>1 DEF CoverInv, AllCovered, Covered
  <2>2. CASE boot = "serving"
    BY <2>2, CoverServing
  <2>3. ASSUME ~Serve, boot # "serving"
        PROVE  boot' # "serving"
    BY <2>3, BootStays DEF Booting, BootstrapNftables, Discover, Adopt, Crash
  <2>. QED
    BY <2>1, <2>2, <2>3
<1>2. boot' = "adopt" => \A uid \in DOMAIN cmds' : uid \in found'.users \/ Covered(uid, "deny")'
  BY CoverAdopt
<1>. QED
  BY <1>1, <1>2, CoverStart, CoverRemove DEF CoverInv

\* Nothing runs outside its network policy while the service serves, through failed and
\* interrupted Spawns and Terminates and restarts of the daemon: as long as the commands
\* that stop a unit work, and at a start those that find the users and apply deny rules.
THEOREM ConfinedCorrect ==
  ASSUME Faults \cap {"reapply", "stop", "getent"} = {}
  PROVE  Spec => []Confined
<1>1. Init => CoverInv
  BY DEF Init, CoverInv
<1>2. TypeInv /\ UsersInv /\ HandlesInv /\ CoverInv /\ [Next]_vars => CoverInv'
  BY CoverStep
<1>3. CoverInv => Confined
  BY DEF CoverInv, AllCovered, Confined
<1>. QED
  BY <1>1, <1>2, <1>3, HandlesAlways, PTL DEF Spec

-----------------------------------------------------------------------------
(* A new user inherits nothing. Inductive because every rule of the chain  *)
(* is remembered and belongs to a user, and has been removed before the    *)
(* user is.                                                                *)

\* Where a handler is while its uid has a user and no rule.
Ruleless == {"slice", "net", "undo_slice", "undo_user", "stop_slice", "userdel"}

RulesOwned == \A r \in rules : r.handle \in ruleHandles[r.uid] /\ r.uid \in DOMAIN users

FreshInv ==
  boot # "flush" =>
    /\ RulesOwned
    /\ \A t \in Handlers : pc[t] \in Ruleless => \A r \in rules : r.uid # job[t].uid

\* removeNetRules removes every rule of its uid, and no other.
LEMMA RemovesAll ==
  ASSUME RulesOK, RulesOwned, "nft_delete" \notin Faults, NEW uid \in AgentUIDs, RemoveNetRules(uid)
  PROVE  \A r \in rules' : r \in rules /\ r.uid # uid /\ r.handle \in ruleHandles'[r.uid]
<1>1. /\ rules' = {r \in rules : r.handle \notin ruleHandles[uid]}
      /\ ruleHandles' = [ruleHandles EXCEPT ![uid] = {}]
  BY DEF RemoveNetRules
<1>. SUFFICES ASSUME NEW r \in rules'
              PROVE  r \in rules /\ r.uid # uid /\ r.handle \in ruleHandles'[r.uid]
  OBVIOUS
<1>2. r \in rules /\ r.handle \notin ruleHandles[uid] /\ r.handle \in ruleHandles[r.uid] /\ r.uid \in AgentUIDs
  BY <1>1 DEF RulesOwned, RulesOK, Rule
<1>. QED
  BY <1>1, <1>2 DEF RulesOK

LEMMA FreshOwned ==
  ASSUME TypeInv, UsersInv, FreshInv, [Next]_vars, Faults \cap {"nft_parse", "nft_delete"} = {},
         boot # "flush", ~Crash, ~BootstrapNftables
  PROVE  RulesOwned'
<1>0. RulesOK /\ RulesOwned
  BY TypeParts DEF TypeInv, FreshInv
<1>1. ASSUME UNCHANGED <<rules, ruleHandles>>
      PROVE  RulesOwned'
  <2>1. CASE UNCHANGED users
    BY <1>0, <1>1, <2>1 DEF RulesOwned
  <2>2. ASSUME NEW t \in Handlers, UserAdd(t)
        PROVE  DOMAIN users \subseteq DOMAIN users'
    BY <2>2 DEF UserAdd, put
  <2>3. ASSUME NEW t \in Handlers, UndoUser(t) \/ RemoveUser(t)
        PROVE  RulesOwned'
    <3>. DEFINE name == Username(job[t].name, job[t].uid)
    <3>1. UNCHANGED users \/ (CanUserdel(name) /\ Userdel(name))
      BY <2>3 DEF UndoUser, RemoveUser
    <3>2. UNCHANGED users \/ DOMAIN users' = DOMAIN users \ {job[t].uid}
      BY <3>1, UserdelIs DEF UsersInv, UserUIDs
    <3>3. \A r \in rules : r.uid # job[t].uid
      BY <2>3 DEF UndoUser, RemoveUser, At, FreshInv, Ruleless
    <3>. QED
      BY <1>0, <1>1, <2>1, <3>2, <3>3 DEF RulesOwned
  <2>. QED
    BY <1>0, <1>1, <2>1, <2>2, <2>3, UsersGo DEF RulesOwned
<1>2. ASSUME NEW uid \in DOMAIN users \cap AgentUIDs, NEW net, AddNftRule(uid, net), RememberHandle(uid), UNCHANGED users
      PROVE  RulesOwned'
  <2>1. PICK new : new = [uid |-> uid, handle |-> nextHandle, net |-> net]
    OBVIOUS
  <2>2. rules' = rules \cup {new} /\ new.uid = uid /\ new.handle = nextHandle
    BY <1>2, <2>1 DEF AddNftRule
  <2>3. nextHandle \in ruleHandles'[uid] /\ \A u \in AgentUIDs : ruleHandles[u] \subseteq ruleHandles'[u]
    BY <1>0, <1>2 DEF RememberHandle, RulesOK
  <2>4. \A r \in rules : r.uid \in AgentUIDs
    BY <1>0 DEF RulesOK, Rule
  <2>. QED
    BY <1>0, <1>2, <2>2, <2>3, <2>4 DEF RulesOwned
<1>3. ASSUME NEW t \in Handlers, ApplyNetRules(t) \/ ApplyNetRulesFails(t), job[t].net # "allow", AddsRule(job[t].uid, job[t].net)
      PROVE  RulesOwned'
  <2>1. ApplyNetRules(t)
    BY <1>0, <1>3 DEF ApplyNetRulesFails, AddsRule, AddNftRule, RulesOK
  <2>2. job[t].uid \in DOMAIN users \cap AgentUIDs
    BY <2>1, SpawnJob DEF ApplyNetRules, At, UsersInv, SpawnedUser, SpawnSteps
  <2>. QED
    BY <1>2, <1>3, <2>1, <2>2 DEF ApplyNetRules
<1>4. ASSUME NEW uid \in AgentUIDs, Adopt(uid)
      PROVE  RulesOwned'
  <2>1. uid \in DOMAIN users /\ UNCHANGED users
    BY <1>4 DEF Adopt, UsersInv, FoundUsers
  <2>. QED
    BY <1>1, <1>2, <1>4, <2>1 DEF Adopt
<1>5. ASSUME NEW t \in Handlers, UndoNet(t) \/ RemoveRules(t)
      PROVE  RulesOwned'
  <2>1. job[t].uid \in AgentUIDs /\ RemoveNetRules(job[t].uid) /\ users' = users
    BY <1>5, SpawnJob DEF UndoNet, RemoveRules, At, SpawnSteps, TerminateSteps
  <2>. QED
    BY <1>0, <2>1, RemovesAll DEF RulesOwned
<1>. QED
  BY <1>1, <1>3, <1>4, <1>5, RulesGo DEF RulesStay

LEMMA FreshHandlers ==
  ASSUME TypeInv, UsersInv, FreshInv, [Next]_vars, Faults \cap {"nft_parse", "nft_delete"} = {},
         NEW t \in Handlers, pc'[t] \in Ruleless, boot # "flush"
  PROVE  \A r \in rules' : r.uid # job'[t].uid
<1>0. MuOK /\ RulesOK /\ JobOK(t) /\ RulesOwned
  BY TypeParts DEF TypeInv, FreshInv
<1>1. CASE Holding(t)
  <2>1. CASE UserAdd(t)
    <3>1. UNCHANGED <<job, rules>> /\ job[t].uid \notin DOMAIN users
      BY <2>1 DEF UserAdd, Goto
    <3>. QED
      BY <1>0, <3>1 DEF RulesOwned
  <2>2. CASE CreateSlice(t) \/ CreateSliceFails(t) \/ UndoSlice(t) \/ StopSlice(t) \/ ApplyNetRulesFails(t)
    <3>1. UNCHANGED <<job, rules>> /\ pc[t] \in Ruleless
      BY <2>2 DEF CreateSlice, CreateSliceFails, UndoSlice, StopSlice, ApplyNetRulesFails, Goto, At, Ruleless, os
    <3>. QED
      BY <3>1 DEF FreshInv
  <2>3. CASE UndoNet(t) \/ RemoveRules(t)
    <3>1. job[t].uid \in AgentUIDs /\ RemoveNetRules(job[t].uid) /\ job' = job
      BY <2>3, SpawnJob DEF UndoNet, RemoveRules, Goto, At, SpawnSteps, TerminateSteps
    <3>2. \A r \in rules' : r.uid # job[t].uid
      BY <1>0, <3>1, RemovesAll
    <3>. QED
      BY <3>1, <3>2
  <2>4. ASSUME ~UserAdd(t), ~CreateSlice(t), ~CreateSliceFails(t), ~UndoSlice(t), ~StopSlice(t), ~ApplyNetRulesFails(t),
               ~UndoNet(t), ~RemoveRules(t)
        PROVE  UNCHANGED <<job, rules>> /\ pc[t] \in Ruleless
    <3>1. CASE StartProcessFails(t) \/ StopUnit(t)
      BY <1>0, <3>1 DEF StartProcessFails, StopUnit, Goto, MuOK, Ruleless
    <3>2. CASE ApplyNetRules(t)
      BY <1>0, <3>2 DEF ApplyNetRules, Goto, Done, MuOK, Ruleless
    <3>3. CASE UserAddFails(t) \/ StartProcess(t) \/ UndoUser(t) \/ RemoveUser(t) \/ RemoveUserFails(t)
      BY <1>0, <3>3 DEF UserAddFails, StartProcess, UndoUser, RemoveUser, RemoveUserFails, Done, MuOK, Ruleless
    <3>. QED
      BY <1>1, <2>4, <3>1, <3>2, <3>3 DEF Holding
  <2>. QED
    BY <2>1, <2>2, <2>3, <2>4 DEF FreshInv
<1>2. CASE ~Holding(t)
  <2>1. pc'[t] = pc[t] /\ job'[t] = job[t] /\ ~\E s \in Handlers : Holding(s)
    BY <1>2, InsideStays DEF Inside, Ruleless, SpawnSteps, TerminateSteps
  <2>2. boot = "serving"
    BY <1>0, <2>1 DEF JobOK, Ruleless
  <2>3. UNCHANGED rules
    BY <2>1, <2>2, RulesGo DEF Holding, RulesStay, Adopt, BootstrapNftables
  <2>. QED
    BY <2>1, <2>2, <2>3 DEF FreshInv
<1>. QED
  BY <1>1, <1>2

LEMMA FreshStep ==
  ASSUME TypeInv, UsersInv, FreshInv, [Next]_vars, Faults \cap {"nft_parse", "nft_delete"} = {}
  PROVE  FreshInv'
<1>0. MuOK /\ \A t \in Handlers : JobOK(t)
  BY TypeParts DEF TypeInv
<1>1. CASE Crash
  BY <1>1 DEF Crash, FreshInv
<1>2. CASE BootstrapNftables
  BY <1>2 DEF BootstrapNftables, FreshInv, RulesOwned
<1>3. CASE ~Crash /\ ~BootstrapNftables /\ boot = "flush"
  BY <1>3, BootStays DEF Booting, Discover, Adopt, Serve, FreshInv
<1>4. CASE ~Crash /\ ~BootstrapNftables /\ boot # "flush"
  BY <1>4, FreshOwned, FreshHandlers DEF FreshInv
<1>. QED
  BY <1>1, <1>2, <1>3, <1>4

\* A uid that useradd gives out again comes without a process and without a rule of the
\* agent that had it before: as long as nft removes the rules it is asked to remove and
\* its answers are understood.
THEOREM FreshUidCorrect ==
  ASSUME Faults \cap {"nft_parse", "nft_delete"} = {}
  PROVE  Spec => FreshUid
<1>1. Init => FreshInv
  BY DEF Init, FreshInv
<1>2. TypeInv /\ UsersInv /\ FreshInv /\ [Next]_vars => FreshInv'
  BY FreshStep
<1>3. TypeInv /\ UsersInv /\ FreshInv /\ [Next]_vars =>
        [\A uid \in DOMAIN users' \ DOMAIN users : uid \notin DOMAIN cmds /\ \A r \in rules : r.uid # uid]_vars
  <2>. SUFFICES ASSUME TypeInv, UsersInv, FreshInv, [Next]_vars, NEW uid \in DOMAIN users' \ DOMAIN users
                PROVE  uid \notin DOMAIN cmds /\ \A r \in rules : r.uid # uid
    OBVIOUS
  <2>1. ASSUME NEW t \in Handlers, UndoUser(t) \/ RemoveUser(t)
        PROVE  DOMAIN users' \subseteq DOMAIN users
    BY <2>1 DEF UndoUser, RemoveUser, Userdel, Restrict
  <2>2. PICK t \in Handlers : UserAdd(t)
    BY <2>1, UsersGo
  <2>3. boot # "flush"
    BY <2>2 DEF UserAdd, At, TypeInv, JobOK
  <2>. QED
    BY <2>3 DEF FreshInv, RulesOwned, UsersInv, OwnedByUsers
<1>. QED
  BY <1>1, <1>2, <1>3, ManagerTyped, PTL DEF Spec, FreshUid

=============================================================================

--------------------------- MODULE CompositorBridge ---------------------------
(***************************************************************************)
(* The compositor bridge (internal/compositor, cmd/compositor-bridge) and  *)
(* the plugin it talks to. Bridge.mu makes every section between a Lock    *)
(* and an Unlock atomic; the goroutine of a plugin connection handles its  *)
(* lines in order, that of a control connection sends a request to the     *)
(* plugin and waits, without the lock, for the answer, for an event that   *)
(* shows the effect, or for its deadline.                                  *)
(***************************************************************************)
EXTENDS CompositorPlugin

CONSTANTS
  Handlers,     \* goroutines of control connections
  Kinds,        \* kinds of surface actions the clients ask for
  Outputs,      \* logical outputs an output action may name
  Wanted,       \* surface -> the output its launch expects, or None
  GrantSets,    \* sets of actions an operator may grant
  Overrides,    \* policies an operator may set directly
  Operations,   \* kinds of operator calls: "policy", "request", "output"
  MaxRequests, MaxControls   \* bounds

\* What the dispatcher knows how to do with a surface.
SurfaceActions == {"focus", "raise", "move", "resize", "tile", "tag", "always_on_top", "fullscreen",
                   "maximize", "minimize", "capture", "input", "output"}

Devices == {"pointer", "keyboard"}
AccessActions == Devices \cup {"read_pixels"}

ASSUME GrantAssumption == GrantSets \subseteq SUBSET AccessActions /\ 0 \in Uids
ASSUME KindAssumption == Kinds \subseteq SurfaceActions /\ None \notin SurfaceActions
ASSUME WantedAssumption == Wanted \in [Surfaces -> Outputs \cup {None}]
ASSUME WaiterAssumption == None \notin {"empty", "ok", "error"}

VARIABLES
  conn,           \* connection -> "new", "installed", "reading", "gone"
  session,        \* Bridge.plugin, 0: none
  surfaces,       \* Bridge.surfaces, None: not tracked
  policies,       \* Bridge.policies
  grants,         \* Bridge.grants: surface -> uid -> actions
  actorUID,       \* Bridge.actorUID
  outputs,        \* names in Bridge.outputs
  surfaceOutput,  \* Bridge.surfaceOutput
  placed,         \* keys of Bridge.surfacePlacements
  tagged,         \* surfaces listed by the one tag of Bridge.layoutTags
  autoplace,      \* surfaces about to be put on the output of their launch
  seq,            \* requests sent so far
  waiters,        \* request id -> None: no waiter, "empty", or the answer
  handler,        \* what each control goroutine is doing
  controls        \* operator calls so far

access  == <<policies, grants>>
layout  == <<placed, tagged>>
control == <<actorUID, outputs, controls, layout>>
plugin  == <<screen, work, policy, sockets, up, moves, faults>>
serving == <<seq, waiters, handler>>
bridge  == <<conn, session, surfaces, access, control, surfaceOutput, autoplace, serving>>
vars    == <<compositor, bridge>>

NoGrants == [u \in Uids |-> {}]
Idle == [pc |-> "idle", kind |-> None, surface |-> None, value |-> 0, id |-> 0, conn |-> 0,
         before |-> {}, output |-> None, todo |-> {}]

Init ==
  /\ PluginInit
  /\ conn = [c \in Conns |-> "new"] /\ session = 0
  /\ surfaces = [s \in Surfaces |-> None]
  /\ policies = [s \in Surfaces |-> None]
  /\ grants = [s \in Surfaces |-> NoGrants]
  /\ actorUID = None
  /\ outputs = {} /\ surfaceOutput = [s \in Surfaces |-> None] /\ autoplace = {}
  /\ placed = {} /\ tagged = {}
  /\ seq = 0 /\ waiters = [i \in 0..MaxRequests |-> None]
  /\ handler = [h \in Handlers |-> Idle]
  /\ controls = 0

-----------------------------------------------------------------------------
(* Policies *)

\* An encoder whose connection is closed returns an error, which the callers
\* pass on or log; without a session nothing is sent.
Tell(messages) ==
  down' = IF session \in link THEN [down EXCEPT ![session] = @ \o messages] ELSE down

Upsert(s, p) == [op |-> "policy_upsert", surface |-> s, policy |-> p]

\* rebuildSurfacePolicyLocked
Derived(s, surf, granted) ==
  [owner |-> surf.owner,
   pointer |-> {u \in Uids : "pointer" \in granted[u]},
   keyboard |-> {u \in Uids : "keyboard" \in granted[u]}]

\* syncDerivedPolicyLocked
SyncDerived(s, surf, granted) ==
  /\ policies' = [policies EXCEPT ![s] = Derived(s, surf, granted)]
  /\ Tell(<<Upsert(s, Derived(s, surf, granted))>>)

Controls ==
  /\ controls < MaxControls /\ controls' = controls + 1  \* bound
  /\ UNCHANGED <<plugin, conn, session, surfaces, layout, autoplace, seq, waiters>>

\* Calls that are over when the handler returns.
Calls == Controls /\ UNCHANGED <<outputs, surfaceOutput, handler>>

UpsertSurfacePolicy(s, p) ==
  /\ Calls
  /\ policies' = [policies EXCEPT ![s] = p]
  /\ Tell(<<Upsert(s, p)>>)
  /\ UNCHANGED <<grants, actorUID>>

RemoveSurfacePolicy(s) ==
  /\ Calls
  /\ policies' = [policies EXCEPT ![s] = None]
  /\ Tell(<<[op |-> "policy_remove", surface |-> s]>>)
  /\ UNCHANGED <<grants, actorUID>>

SetInputContext(u) ==
  /\ Calls
  /\ actorUID' = u
  /\ Tell(<<[op |-> "input_context", uid |-> u]>>)
  /\ UNCHANGED access

\* The grant stays when telling the plugin fails.
GrantViewport(s, u, actions) ==
  /\ Calls
  /\ actions # {} /\ surfaces[s] # None
  /\ grants' = [grants EXCEPT ![s][u] = actions]
  /\ SyncDerived(s, surfaces[s], grants'[s])
  /\ UNCHANGED actorUID

RevokeViewport(s, u) ==
  /\ Calls
  /\ grants[s][u] # {}
  /\ grants' = [grants EXCEPT ![s][u] = {}]
  /\ IF surfaces[s] # None THEN SyncDerived(s, surfaces[s], grants'[s])
                           ELSE UNCHANGED <<policies, down>>
  /\ UNCHANGED actorUID

-----------------------------------------------------------------------------
(* The goroutine of a plugin connection *)

\* installPluginSession; the previous session is closed.
Install(c) ==
  /\ c <= latest /\ conn[c] = "new"
  /\ conn' = [conn EXCEPT ![c] = "installed"]
  /\ session' = c
  /\ link' = link \ {session}
  /\ UNCHANGED <<screen, work, policy, fd, latest, up, down, moves, faults,
                 surfaces, access, control, surfaceOutput, autoplace, serving>>

\* clearPluginSession, conn.Close
Leave(c) ==
  /\ conn' = [conn EXCEPT ![c] = "gone"]
  /\ session' = IF session = c THEN 0 ELSE session
  /\ link' = link \ {c}
  /\ up' = [up EXCEPT ![c] = <<>>]
  /\ UNCHANGED <<screen, work, policy, fd, latest, moves,
                 surfaces, access, control, surfaceOutput, autoplace, serving>>

\* Bug: a new connection is only sent the policies.
SyncPolicies(c) ==
  /\ conn[c] = "installed" /\ c \in link
  /\ down' = [down EXCEPT ![c] = Append(@, [op |-> "policy_replace", policies |-> policies])]
  /\ conn' = [conn EXCEPT ![c] = "reading"]
  /\ UNCHANGED <<screen, work, policy, sockets, up, moves, faults, session,
                 surfaces, access, control, surfaceOutput, autoplace, serving>>

\* syncPluginSession
Sync(c) ==
  /\ conn[c] = "installed"
  /\ IF c \in link
     THEN /\ down' = [down EXCEPT ![c] = @ \o <<[op |-> "policy_replace", policies |-> policies],
                                               [op |-> "input_context", uid |-> actorUID]>>]
          /\ conn' = [conn EXCEPT ![c] = "reading"]
          /\ UNCHANGED <<screen, work, policy, sockets, up, moves, faults,
                         session, surfaces, access, control, surfaceOutput, autoplace,
                         serving>>
     ELSE Leave(c) /\ UNCHANGED <<down, faults>>

\* The other side is gone and everything it sent is read, or a newer session
\* has closed this one.
ReaderEnds(c) ==
  /\ conn[c] = "reading" /\ c \notin link
  /\ up[c] = <<>> \/ session # c
  /\ Leave(c) /\ UNCHANGED <<down, faults>>

DecodeFails(c) ==
  /\ "decode" \in Faults /\ faults < MaxFaults
  /\ conn[c] = "reading" /\ up[c] # <<>>
  /\ faults' = faults + 1
  /\ Leave(c) /\ UNCHANGED down

\* The process is gone with everything it kept. Request ids hold the time, so
\* the new one does not use those of the old.
BridgeRestarts ==
  /\ "bridge" \in Faults /\ faults < MaxFaults
  /\ faults' = faults + 1
  /\ conn' = [c \in Conns |-> IF c <= latest THEN "gone" ELSE "new"]
  /\ session' = 0 /\ link' = {}
  /\ up' = [c \in Conns |-> <<>>]
  /\ surfaces' = [s \in Surfaces |-> None]
  /\ policies' = [s \in Surfaces |-> None]
  /\ grants' = [s \in Surfaces |-> NoGrants]
  /\ actorUID' = None
  /\ outputs' = {} /\ surfaceOutput' = [s \in Surfaces |-> None] /\ autoplace' = {}
  /\ placed' = {} /\ tagged' = {}
  /\ waiters' = [i \in 0..MaxRequests |-> None]
  /\ handler' = [h \in Handlers |-> Idle]
  /\ UNCHANGED <<screen, work, policy, fd, latest, down, moves, seq, controls>>

Decodes(c, m) ==
  /\ conn[c] = "reading" /\ up[c] # <<>> /\ m = Head(up[c])
  /\ up' = [up EXCEPT ![c] = Tail(@)]
  /\ UNCHANGED <<screen, work, policy, sockets, moves, faults,
                 conn, session, control>>

IsEvent(m, events) == m.type = "event" /\ m.event \in events

WasFocused(s) == surfaces[s] # None /\ surfaces[s].focused

NewRecord(m, focused) ==
  [owner |-> m.owner, state |-> m.state, top |-> m.top, focused |-> focused]

\* A new surface of a launch that expects an output is put there by a goroutine.
PlaceLater(s) ==
  autoplace' = IF Wanted[s] # None THEN autoplace \cup {s} ELSE autoplace

\* handleSurfaceEvent: mapped
HandleMapped(c, m) ==
  /\ Decodes(c, m) /\ IsEvent(m, {"mapped"})
  /\ surfaces' = [surfaces EXCEPT ![m.surface] = NewRecord(m, WasFocused(m.surface))]
  /\ SyncDerived(m.surface, m, grants[m.surface])
  /\ PlaceLater(m.surface)
  /\ UNCHANGED <<grants, surfaceOutput, serving>>

\* Bug: only "restored" takes the mark from the others.
HandleStateKeepingMarks(c, m) ==
  /\ Decodes(c, m)
  /\ IsEvent(m, {"focused", "restored", "minimized", "stacked"})
  /\ surfaces' = [t \in Surfaces |->
       IF t = m.surface THEN NewRecord(m, m.event = "focused" \/ WasFocused(t))
       ELSE IF surfaces[t] # None /\ m.event = "restored"
            THEN [surfaces[t] EXCEPT !.focused = FALSE]
            ELSE surfaces[t]]
  /\ UNCHANGED <<policies, down, autoplace, grants, surfaceOutput, serving>>

\* handleSurfaceEvent: focused, restored, minimized, stacked
HandleState(c, m) ==
  /\ Decodes(c, m)
  /\ IsEvent(m, {"focused", "restored", "minimized", "stacked"})
  /\ LET s == m.surface
         focused == m.event = "focused" \/ (m.event = "stacked" /\ WasFocused(s))
     IN /\ surfaces' = [t \in Surfaces |->
             IF t = s THEN NewRecord(m, focused)
             ELSE IF surfaces[t] # None /\ m.event \in {"focused", "restored"}
                  THEN [surfaces[t] EXCEPT !.focused = FALSE]
                  ELSE surfaces[t]]
        /\ IF policies[s] # None THEN UNCHANGED <<policies, down>>
           ELSE SyncDerived(s, m, grants[s])
        /\ PlaceLater(s)
  /\ UNCHANGED <<grants, surfaceOutput, serving>>

\* Bug: the surface is kept for a later event to overwrite.
HandleUnmappedAsState(c, m) ==
  /\ Decodes(c, m) /\ IsEvent(m, {"unmapped"})
  /\ UNCHANGED <<down, surfaces, access, surfaceOutput, autoplace, serving>>

\* Bug: grants outlive the surface.
HandleUnmappedKeepingGrants(c, m) ==
  /\ Decodes(c, m) /\ IsEvent(m, {"unmapped"})
  /\ surfaces' = [surfaces EXCEPT ![m.surface] = None]
  /\ surfaceOutput' = [surfaceOutput EXCEPT ![m.surface] = None]
  /\ policies' = [policies EXCEPT ![m.surface] = None]
  /\ Tell(<<[op |-> "policy_remove", surface |-> m.surface]>>)
  /\ UNCHANGED <<grants, autoplace, serving>>

\* handleSurfaceEvent: unmapped
HandleUnmapped(c, m) ==
  /\ Decodes(c, m) /\ IsEvent(m, {"unmapped"})
  /\ surfaces' = [surfaces EXCEPT ![m.surface] = None]
  /\ surfaceOutput' = [surfaceOutput EXCEPT ![m.surface] = None]
  /\ policies' = [policies EXCEPT ![m.surface] = None]
  /\ grants' = [grants EXCEPT ![m.surface] = NoGrants]
  /\ Tell(<<[op |-> "policy_remove", surface |-> m.surface]>>)
  /\ UNCHANGED <<autoplace, serving>>

\* handlePlaceResponse and its siblings: an unknown id is ignored, a second
\* answer finds the channel full.
HandleResponse(c, m) ==
  /\ Decodes(c, m) /\ m.type = "response"
  /\ waiters' = IF waiters[m.id] = "empty"
                THEN [waiters EXCEPT ![m.id] = IF m.ok THEN "ok" ELSE "error"]
                ELSE waiters
  /\ UNCHANGED <<down, surfaces, access, surfaceOutput, autoplace, seq, handler>>

-----------------------------------------------------------------------------
(* Surface actions. What a client asks for is checked against the tracked  *)
(* surface; a denial changes nothing and has no step. A value is that of   *)
(* the property; 2 is a geometry a resize or a tile does not accept.       *)

PropOf(kind) ==
  CASE kind \in {"move", "resize", "tile", "tag", "output"} -> "geometry"
    [] kind = "always_on_top" -> "above"
    [] kind = "fullscreen" -> "fullscreen"
    [] kind = "maximize" -> "maximized"
    [] kind = "minimize" -> "minimized"
    [] OTHER -> None

OpOf(kind) ==
  CASE PropOf(kind) = "geometry" -> "place"
    [] kind = "always_on_top" -> "property"
    [] PropOf(kind) \in {"fullscreen", "maximized", "minimized"} -> "state"
    [] OTHER -> kind

Known(s) == surfaces[s] # None
\* A minimized view reports that it is not visible.
WorkSurface(s) == Known(s) /\ surfaces[s].state["minimized"] = 0

FocusSurface(s, v)       == WorkSurface(s) /\ v = 1
RaiseSurface(s, v)       == WorkSurface(s) /\ v = 1 /\ surfaces[s].state["fullscreen"] = 0
MoveSurface(s, v)        == WorkSurface(s) /\ v \in 0..1
ResizeSurface(s, v)      == WorkSurface(s) /\ v # 2
TileSurface(s, v)        == v # 2 /\ WorkSurface(s)
AssignSurfaceTag(s, v)   == WorkSurface(s) /\ v # 2
AlwaysOnTop(s, v)        == WorkSurface(s) /\ v \in 0..1
FullscreenSurface(s, v)  == WorkSurface(s) /\ v \in 0..1
MaximizeSurface(s, v)    == WorkSurface(s) /\ v \in 0..1
MinimizeSurface(s, v)    == Known(s) /\ (v = 0 \/ (v = 1 /\ WorkSurface(s)))
CaptureSurface(s, v)     == Known(s) /\ v = 1
InjectInput(s, v)        == Known(s) /\ v = 1
OutputKnown(s, v, o)     == Known(s) /\ v = 1 /\ o \in outputs

Asked(kind, s, v, o) ==
  CASE kind = "focus" -> FocusSurface(s, v)
    [] kind = "raise" -> RaiseSurface(s, v)
    [] kind = "move" -> MoveSurface(s, v)
    [] kind = "resize" -> ResizeSurface(s, v)
    [] kind = "tile" -> TileSurface(s, v)
    [] kind = "tag" -> AssignSurfaceTag(s, v)
    [] kind = "always_on_top" -> AlwaysOnTop(s, v)
    [] kind = "fullscreen" -> FullscreenSurface(s, v)
    [] kind = "maximize" -> MaximizeSurface(s, v)
    [] kind = "minimize" -> MinimizeSurface(s, v)
    [] kind = "capture" -> CaptureSurface(s, v)
    [] kind = "input" -> InjectInput(s, v)
    [] kind = "output" -> OutputKnown(s, v, o)

\* surfaceGeometryMatches, surfaceIsTopInScopedStack and their siblings
Matches(kind, s, v) ==
  /\ Known(s)
  /\ IF kind = "raise" THEN surfaces[s].top ELSE surfaces[s].state[PropOf(kind)] = v

\* These are done at once when the tracked surface is already as they want it.
AlreadyDone(kind, s, v) ==
  kind \in {"fullscreen", "maximize", "minimize"} /\ Matches(kind, s, v)

\* These are done with the plugin's answer, the others when an event shows it.
DoneWhenAnswered(kind) == kind \in {"focus", "capture", "input"}

FocusedSurface == {t \in Surfaces : WasFocused(t)}

Acts == UNCHANGED <<plugin, conn, session, access, control>>

\* What raise will compare with and tag will write back.
Copied(kind) ==
  CASE kind = "raise" -> FocusedSurface [] kind = "tag" -> tagged [] OTHER -> {}

\* The waiter is registered before the request goes out.
Begins(h, kind, s, v, o, todo) ==
  LET r == [pc |-> "send", kind |-> kind, surface |-> s, value |-> v, id |-> seq + 1,
            conn |-> session, before |-> Copied(kind), output |-> o, todo |-> todo]
  IN /\ Asked(kind, s, v, o)
     /\ IF AlreadyDone(kind, s, v)
        THEN /\ handler' = [handler EXCEPT ![h] = [r EXCEPT !.pc = "final", !.id = 0]]
             /\ UNCHANGED <<seq, waiters>>
        ELSE /\ session # 0 /\ seq < MaxRequests
             /\ seq' = seq + 1
             /\ waiters' = [waiters EXCEPT ![seq + 1] = "empty"]
             /\ handler' = [handler EXCEPT ![h] = r]

Available(h) == handler[h].pc = "idle" /\ handler[h].todo = {}

Begin(h, kind, s, v, o) ==
  /\ Available(h) /\ kind \in Kinds /\ (kind = "output") = (o # None)
  /\ Begins(h, kind, s, v, o, {})
  /\ Acts /\ UNCHANGED <<down, surfaces, surfaceOutput, autoplace>>

\* The goroutine that handleSurfaceEvent starts.
AutoPlace(h, s) ==
  /\ Available(h) /\ s \in autoplace
  /\ autoplace' = autoplace \ {s}
  /\ IF surfaceOutput[s] = None /\ OutputKnown(s, 1, Wanted[s]) /\ session # 0
     THEN Begins(h, "output", s, 1, Wanted[s], {})
     ELSE UNCHANGED serving
  /\ Acts /\ UNCHANGED <<down, surfaces, surfaceOutput>>

Finish(h) ==
  /\ handler' = [handler EXCEPT ![h] = [Idle EXCEPT !.todo = handler[h].todo]]
  /\ waiters' = [waiters EXCEPT ![handler[h].id] = None]
  /\ UNCHANGED seq

\* Bug: the waiter is removed only when an answer came.
FailKeepingWaiter(h) ==
  /\ handler' = [handler EXCEPT ![h] = Idle]
  /\ UNCHANGED <<seq, waiters>>

\* An error ends applyAllOutputAssignments as well.
Fail(h) ==
  /\ handler' = [handler EXCEPT ![h] = Idle]
  /\ waiters' = [waiters EXCEPT ![handler[h].id] = None]
  /\ UNCHANGED seq

\* A focus request goes to the session of the moment, the others to the one
\* they were registered for.
Send(h) ==
  LET r == handler[h]
      c == IF r.kind = "focus" THEN session ELSE r.conn
  IN /\ r.pc = "send"
     /\ IF c \in link
        THEN /\ down' = [down EXCEPT ![c] = Append(@,
                   [op |-> OpOf(r.kind), id |-> r.id, surface |-> r.surface,
                    prop |-> PropOf(r.kind), value |-> r.value])]
             /\ handler' = [handler EXCEPT ![h].pc = "wait"]
             /\ UNCHANGED <<seq, waiters>>
        ELSE Fail(h) /\ UNCHANGED down
     /\ Acts /\ UNCHANGED <<surfaces, surfaceOutput, autoplace>>

Confirm(h) ==
  /\ handler' = [handler EXCEPT ![h].pc = "final"]
  /\ waiters' = [waiters EXCEPT ![handler[h].id] = None]
  /\ UNCHANGED seq

TakeAnswer(h) ==
  LET r == handler[h]
  IN /\ r.pc = "wait" /\ waiters[r.id] \in {"ok", "error"}
     /\ IF waiters[r.id] = "error" THEN Fail(h)
        ELSE IF DoneWhenAnswered(r.kind) \/ Matches(r.kind, r.surface, r.value) THEN Confirm(h)
        ELSE waiters' = [waiters EXCEPT ![r.id] = "empty"] /\ UNCHANGED <<seq, handler>>
     /\ Acts /\ UNCHANGED <<down, surfaces, surfaceOutput, autoplace>>

\* Every 50 ms, whether the plugin has answered or not.
Readback(h) ==
  LET r == handler[h]
  IN /\ r.pc = "wait" /\ ~DoneWhenAnswered(r.kind)
     /\ Matches(r.kind, r.surface, r.value)
     /\ Confirm(h)
     /\ Acts /\ UNCHANGED <<down, surfaces, surfaceOutput, autoplace>>

TimesOut(h) ==
  /\ handler[h].pc = "wait"
  /\ Fail(h)
  /\ Acts /\ UNCHANGED <<down, surfaces, surfaceOutput, autoplace>>

\* Whether the answer to the client is "accepted".
Accepted(h) ==
  LET r == handler[h]
  IN /\ Known(r.surface)
     /\ PropOf(r.kind) \notin {None, "geometry"} => Matches(r.kind, r.surface, r.value)
     /\ r.kind = "raise" => Matches("raise", r.surface, 1) /\ FocusedSurface = r.before

Answer(h) ==
  /\ handler[h].pc = "final" /\ handler[h].kind \notin {"output", "tag"}
  /\ IF Accepted(h) THEN Finish(h) ELSE Fail(h)
  /\ Acts /\ UNCHANGED <<down, surfaces, surfaceOutput, autoplace>>

\* MoveSurfaceToOutput writes the surface back, also when it is gone by now.
EmptyRecord == [owner |-> 0, state |-> Fresh, top |-> FALSE, focused |-> FALSE]

AssignOutput(h) ==
  LET r == handler[h]
      old == IF Known(r.surface) THEN surfaces[r.surface] ELSE EmptyRecord
  IN /\ r.pc = "final" /\ r.kind = "output"
     /\ surfaces' = [surfaces EXCEPT ![r.surface] = [old EXCEPT !.state["geometry"] = 1]]
     /\ surfaceOutput' = [surfaceOutput EXCEPT ![r.surface] = r.output]
     /\ Finish(h)
     /\ Acts /\ UNCHANGED <<down, autoplace>>

\* AssignSurfaceTag looks whether the surface is still there, and records its
\* place under another lock, with the copy of the tag it began with.
CheckPlaced(h) ==
  /\ handler[h].pc = "final" /\ handler[h].kind = "tag"
  /\ IF Known(handler[h].surface)
     THEN handler' = [handler EXCEPT ![h].pc = "record"] /\ UNCHANGED <<seq, waiters>>
     ELSE Fail(h)
  /\ Acts /\ UNCHANGED <<down, surfaces, surfaceOutput, autoplace>>

RecordPlacement(h) ==
  LET r == handler[h]
  IN /\ r.pc = "record"
     /\ placed' = placed \cup {r.surface}
     /\ tagged' = r.before \cup {r.surface}
     /\ Finish(h)
     /\ UNCHANGED <<plugin, down, conn, session, surfaces, access, actorUID, outputs, controls,
                    surfaceOutput, autoplace>>

\* Requests nobody waits for: the plugin's answer carries no known id.
Requests(m) ==
  /\ Calls /\ UNCHANGED <<access, actorUID>>
  /\ session # 0 /\ Tell(<<m>>)

CloseSurface(s) ==
  /\ WorkSurface(s)
  /\ Requests([op |-> "close", surface |-> s])

CloseSurfacesByUID(u) ==
  /\ \E s \in Surfaces : Known(s) /\ surfaces[s].owner = u
  /\ Requests([op |-> "close_by_uid", surface |-> None, uid |-> u])

SetViewProperty(s, v) ==
  /\ Known(s)
  /\ Requests([op |-> "property", id |-> 0, surface |-> s, prop |-> "above", value |-> v])

-----------------------------------------------------------------------------
(* Outputs. Every surface that is assigned to an output is placed again,   *)
(* one after the other, when the outputs change.                           *)

Assigned(names) == {s \in Surfaces : surfaceOutput[s] \in names \ {None}}

\* CreateOutput also updates an output that exists.
CreateOutput(h, o) ==
  /\ Available(h) /\ Controls
  /\ outputs' = outputs \cup {o}
  /\ handler' = [handler EXCEPT ![h].todo = Assigned(Outputs)]
  /\ UNCHANGED <<down, access, actorUID, surfaceOutput>>

DestroyOutput(h, o) ==
  /\ Available(h) /\ Controls
  /\ o \in outputs /\ outputs' = outputs \ {o}
  /\ surfaceOutput' = [s \in Surfaces |-> IF surfaceOutput[s] = o THEN None ELSE surfaceOutput[s]]
  /\ handler' = [handler EXCEPT ![h].todo = Assigned(Outputs \ {o})]
  /\ UNCHANGED <<down, access, actorUID>>

ResizeOutput(h, o) ==
  /\ Available(h) /\ Controls
  /\ o \in outputs
  /\ handler' = [handler EXCEPT ![h].todo = Assigned({o})]
  /\ UNCHANGED <<down, access, actorUID, outputs, surfaceOutput>>

\* applyOutputAssignments
Reassign(h, s) ==
  /\ handler[h].pc = "idle" /\ s \in handler[h].todo
  /\ LET rest == handler[h].todo \ {s}
         o    == surfaceOutput[s]
     IN IF ~Known(s)
        THEN /\ surfaceOutput' = [surfaceOutput EXCEPT ![s] = None]
             /\ handler' = [handler EXCEPT ![h].todo = rest]
             /\ UNCHANGED <<seq, waiters>>
        ELSE /\ IF o \in outputs /\ session # 0
                THEN Begins(h, "output", s, 1, o, rest)
                ELSE handler' = [handler EXCEPT ![h] = Idle] /\ UNCHANGED <<seq, waiters>>
             /\ UNCHANGED surfaceOutput
  /\ Acts /\ UNCHANGED <<down, surfaces, autoplace>>

-----------------------------------------------------------------------------
ConnNext(c) ==
  \/ Install(c) \/ Sync(c) \/ ReaderEnds(c) \/ DecodeFails(c)
  \/ \E m \in ToSet(up[c]) :
       HandleMapped(c, m) \/ HandleState(c, m) \/ HandleUnmapped(c, m) \/ HandleResponse(c, m)

HandlerNext(h) ==
  \/ Send(h) \/ TakeAnswer(h) \/ Readback(h) \/ TimesOut(h) \/ Answer(h) \/ AssignOutput(h)
  \/ CheckPlaced(h) \/ RecordPlacement(h)
  \/ \E s \in Surfaces : Reassign(h, s)

PolicyNext ==
  /\ "policy" \in Operations
  /\ \/ \E s \in Surfaces, p \in Overrides : UpsertSurfacePolicy(s, p)
     \/ \E s \in Surfaces : RemoveSurfacePolicy(s)
     \/ \E u \in Uids \cup {None} : SetInputContext(u)
     \/ \E s \in Surfaces, u \in Uids, a \in GrantSets : GrantViewport(s, u, a)
     \/ \E s \in Surfaces, u \in Uids : RevokeViewport(s, u)

RequestNext ==
  /\ "request" \in Operations
  /\ \/ \E s \in Surfaces : CloseSurface(s)
     \/ \E u \in Uids : CloseSurfacesByUID(u)
     \/ \E s \in Surfaces, v \in 0..1 : SetViewProperty(s, v)

OutputNext ==
  /\ "output" \in Operations
  /\ \E h \in Handlers, o \in Outputs :
       CreateOutput(h, o) \/ DestroyOutput(h, o) \/ ResizeOutput(h, o)

Next ==
  \/ PluginNext /\ UNCHANGED bridge
  \/ PolicyNext \/ RequestNext \/ OutputNext \/ BridgeRestarts
  \/ \E c \in Conns : ConnNext(c)
  \/ \E h \in Handlers : HandlerNext(h)
  \/ \E h \in Handlers, s \in Surfaces : AutoPlace(h, s)
  \/ \E h \in Handlers, kind \in Kinds, s \in Surfaces, v \in 0..2, o \in Outputs \cup {None} :
       Begin(h, kind, s, v, o)

Spec == Init /\ [][Next]_vars

-----------------------------------------------------------------------------
\* At most one tracked surface is marked focused, whatever order events and
\* reconnects come in: raise compares the marks to tell whether the focus moved.
OneFocused == Cardinality(FocusedSurface) <= 1

\* Both sides have read and done all there is, and no older connection is left.
Quiet ==
  /\ fd # 0 /\ fd \in link /\ session = fd /\ conn[fd] = "reading"
  /\ \A c \in Conns : up[c] = <<>> /\ down[c] = <<>> /\ (c < fd => conn[c] = "gone")
  /\ pending = <<>> /\ ~resync /\ LoopIdle

\* Once quiet, the bridge tracks every view with its true owner and state,
\* through commands, lost connections and what happened while there was none.
RecordConverges ==
  Quiet => \A s \in mapped :
             Known(s) /\ surfaces[s].owner = owner[s] /\ surfaces[s].state = view[s]

\* Without faults it tracks nothing else once quiet.
NoGhosts == Quiet /\ faults = 0 => \A s \in Surfaces : Known(s) => s \in mapped

\* Once quiet, the plugin decides about input by the bridge's policies and for
\* its actor, whenever they were changed.
CacheConverges == Quiet => cache = policies /\ actor = actorUID

\* Nobody holds a grant for a surface that is not tracked: the next surface
\* with its id would inherit it.
GrantsHaveSurfaces == \A s \in Surfaces, u \in Uids : grants[s][u] # {} => Known(s)

\* A waiter for an answer belongs to a request that is still waiting: none is
\* left behind by an error, a timeout or an effect seen before the answer.
WaitersAreOwned ==
  \A i \in DOMAIN waiters : waiters[i] # None =>
    \E h \in Handlers : handler[h].id = i /\ handler[h].pc \in {"send", "wait"}

=============================================================================

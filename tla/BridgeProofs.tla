----------------------------- MODULE BridgeProofs -----------------------------
(***************************************************************************)
(* What the compositor bridge guarantees whatever the plugin sends, for    *)
(* any number of surfaces, clients, connections and handlers.              *)
(***************************************************************************)
EXTENDS CompositorBridge, FiniteSetTheorems, TLAPS

-----------------------------------------------------------------------------
(* Which steps change what the bridge tracks.                              *)

LEMMA SurfacesGo ==
  ASSUME [Next]_vars
  PROVE  \/ UNCHANGED <<surfaces, grants>>
         \/ BridgeRestarts
         \/ \E c \in Conns : \E m \in ToSet(up[c]) : HandleMapped(c, m) \/ HandleState(c, m) \/ HandleUnmapped(c, m)
         \/ \E h \in Handlers : AssignOutput(h)
         \/ UNCHANGED surfaces /\ \E s \in Surfaces, u \in Uids : (\E a \in GrantSets : GrantViewport(s, u, a)) \/ RevokeViewport(s, u)
<1>1. CASE PluginNext /\ UNCHANGED bridge
  BY <1>1 DEF bridge, access
<1>2. CASE PolicyNext
  BY <1>2 DEF PolicyNext, UpsertSurfacePolicy, RemoveSurfacePolicy, SetInputContext, GrantViewport, RevokeViewport,
              Calls, Controls, access
<1>3. CASE RequestNext
  BY <1>3 DEF RequestNext, CloseSurface, CloseSurfacesByUID, SetViewProperty, Requests, Calls, Controls, access
<1>4. CASE OutputNext
  BY <1>4 DEF OutputNext, CreateOutput, DestroyOutput, ResizeOutput, Controls, access
<1>5. ASSUME NEW c \in Conns, Install(c) \/ Sync(c) \/ ReaderEnds(c) \/ DecodeFails(c)
                              \/ \E m \in ToSet(up[c]) : HandleResponse(c, m)
      PROVE  UNCHANGED <<surfaces, grants>>
  BY <1>5 DEF Install, Sync, ReaderEnds, DecodeFails, Leave, HandleResponse, access
<1>6. ASSUME NEW h \in Handlers, HandlerNext(h), ~AssignOutput(h)
      PROVE  UNCHANGED <<surfaces, grants>>
  BY <1>6 DEF HandlerNext, Send, TakeAnswer, Readback, TimesOut, Answer, CheckPlaced, RecordPlacement, Reassign, Acts, access
<1>7. ASSUME NEW h \in Handlers, NEW s \in Surfaces, AutoPlace(h, s)
      PROVE  UNCHANGED <<surfaces, grants>>
  BY <1>7 DEF AutoPlace, Acts, access
<1>8. ASSUME NEW h \in Handlers, NEW kind \in Kinds, NEW s \in Surfaces, NEW v \in 0..2, NEW o \in Outputs \cup {None},
             Begin(h, kind, s, v, o)
      PROVE  UNCHANGED <<surfaces, grants>>
  BY <1>8 DEF Begin, Acts, access
<1>9. CASE UNCHANGED vars
  BY <1>9 DEF vars, bridge, access
<1>. QED
  BY <1>1, <1>2, <1>3, <1>4, <1>5, <1>6, <1>7, <1>8, <1>9 DEF Next, ConnNext

-----------------------------------------------------------------------------
(* At most one mark. Inductive with the shape of a record.                 *)

IsRecord(x) == DOMAIN x = {"owner", "state", "top", "focused"}

Tracked == DOMAIN surfaces = Surfaces /\ \A s \in Surfaces : surfaces[s] = None \/ IsRecord(surfaces[s])

AtMostOne == \A s, t \in Surfaces : WasFocused(s) /\ WasFocused(t) => s = t

LEMMA RecordOfEvent ==
  ASSUME NEW m, NEW focused
  PROVE  IsRecord(NewRecord(m, focused)) /\ NewRecord(m, focused).focused = focused
BY DEF IsRecord, NewRecord

\* Taking the mark off, and writing a place, leave a record as it is otherwise.
LEMMA RecordChanged ==
  ASSUME NEW x, IsRecord(x)
  PROVE  /\ IsRecord([x EXCEPT !.focused = FALSE]) /\ [x EXCEPT !.focused = FALSE].focused = FALSE
         /\ IsRecord([x EXCEPT !.state["geometry"] = 1]) /\ [x EXCEPT !.state["geometry"] = 1].focused = x.focused
BY DEF IsRecord

\* What is tracked after an event that shows a state.
LEMMA StateTracked ==
  ASSUME Tracked, NEW c, NEW m, HandleState(c, m), NEW t \in Surfaces
  PROVE  /\ surfaces'[t] = None \/ IsRecord(surfaces'[t])
         /\ WasFocused(t)' => \/ t = m.surface /\ (m.event = "focused" \/ (m.event = "stacked" /\ WasFocused(t)))
                              \/ t # m.surface /\ m.event \in {"minimized", "stacked"} /\ WasFocused(t)
<1>1. PICK focused : focused = (m.event = "focused" \/ (m.event = "stacked" /\ WasFocused(m.surface)))
  OBVIOUS
<1>2. surfaces' = [u \in Surfaces |->
             IF u = m.surface THEN NewRecord(m, focused)
             ELSE IF surfaces[u] # None /\ m.event \in {"focused", "restored"}
                  THEN [surfaces[u] EXCEPT !.focused = FALSE]
                  ELSE surfaces[u]]
  BY <1>1 DEF HandleState
<1>3. CASE t = m.surface
  BY <1>1, <1>2, <1>3, RecordOfEvent DEF WasFocused
<1>4. CASE t # m.surface /\ surfaces[t] # None /\ m.event \in {"focused", "restored"}
  <2>1. surfaces'[t] = [surfaces[t] EXCEPT !.focused = FALSE] /\ IsRecord(surfaces[t])
    BY <1>2, <1>4 DEF Tracked
  <2>. QED
    BY <2>1, RecordChanged DEF WasFocused
<1>5. CASE t # m.surface /\ ~(surfaces[t] # None /\ m.event \in {"focused", "restored"})
  <2>1. surfaces'[t] = surfaces[t]
    BY <1>2, <1>5
  <2>2. m.event \in {"focused", "restored", "minimized", "stacked"}
    BY DEF HandleState, IsEvent
  <2>. QED
    BY <1>5, <2>1, <2>2 DEF WasFocused, Tracked
<1>. QED
  BY <1>3, <1>4, <1>5

LEMMA TrackedStep ==
  ASSUME Tracked, [Next]_vars
  PROVE  Tracked' /\ (AtMostOne => AtMostOne')
<1>1. CASE UNCHANGED surfaces
  BY <1>1 DEF Tracked, AtMostOne, WasFocused
<1>2. CASE BridgeRestarts
  BY <1>2 DEF BridgeRestarts, Tracked, AtMostOne, WasFocused
<1>3. ASSUME NEW c \in Conns, NEW m, HandleMapped(c, m)
      PROVE  Tracked' /\ (AtMostOne => AtMostOne')
  <2>1. PICK focused : focused = WasFocused(m.surface)
    OBVIOUS
  <2>2. PICK x : x = NewRecord(m, focused)
    OBVIOUS
  <2>3. IsRecord(x) /\ x.focused = focused
    BY <2>2, RecordOfEvent
  <2>4. surfaces' = [surfaces EXCEPT ![m.surface] = x]
    BY <1>3, <2>1, <2>2 DEF HandleMapped
  <2>5. \A t \in Surfaces : surfaces'[t] = IF t = m.surface THEN x ELSE surfaces[t]
    BY <2>4 DEF Tracked
  <2>6. Tracked'
    BY <2>3, <2>4, <2>5 DEF Tracked
  <2>7. \A t \in Surfaces : WasFocused(t)' => WasFocused(t)
    BY <2>1, <2>3, <2>5 DEF WasFocused
  <2>. QED
    BY <2>6, <2>7 DEF AtMostOne
<1>4. ASSUME NEW c \in Conns, NEW m, HandleState(c, m)
      PROVE  Tracked' /\ (AtMostOne => AtMostOne')
  <2>1. Tracked'
    BY <1>4, StateTracked DEF Tracked, HandleState
  <2>2. ASSUME AtMostOne, NEW s \in Surfaces, NEW t \in Surfaces, WasFocused(s)', WasFocused(t)'
        PROVE  s = t
    BY <1>4, <2>2, StateTracked DEF AtMostOne
  <2>. QED
    BY <2>1, <2>2 DEF AtMostOne
<1>5. ASSUME NEW c \in Conns, NEW m, HandleUnmapped(c, m)
      PROVE  Tracked' /\ (AtMostOne => AtMostOne')
  <2>1. \A t \in Surfaces : surfaces'[t] = None \/ surfaces'[t] = surfaces[t]
    BY <1>5 DEF HandleUnmapped, Tracked
  <2>. QED
    BY <1>5, <2>1 DEF HandleUnmapped, Tracked, AtMostOne, WasFocused
<1>6. ASSUME NEW h \in Handlers, AssignOutput(h)
      PROVE  Tracked' /\ (AtMostOne => AtMostOne')
  <2>1. PICK s : s = handler[h].surface
    OBVIOUS
  <2>2. PICK old : old = IF Known(s) THEN surfaces[s] ELSE EmptyRecord
    OBVIOUS
  <2>3. surfaces' = [surfaces EXCEPT ![s] = [old EXCEPT !.state["geometry"] = 1]]
    BY <1>6, <2>1, <2>2 DEF AssignOutput
  <2>4. s \in Surfaces => IsRecord(old) /\ (old.focused => WasFocused(s))
    BY <2>2 DEF Known, EmptyRecord, IsRecord, Tracked, WasFocused
  <2>5. PICK x : x = [old EXCEPT !.state["geometry"] = 1]
    OBVIOUS
  <2>6. s \in Surfaces => IsRecord(x) /\ (x.focused => WasFocused(s))
    BY <2>4, <2>5, RecordChanged
  <2>7. \A t \in Surfaces : surfaces'[t] = IF t = s THEN x ELSE surfaces[t]
    BY <2>3, <2>5 DEF Tracked
  <2>8. Tracked'
    BY <2>3, <2>6, <2>7 DEF Tracked
  <2>9. \A t \in Surfaces : WasFocused(t)' => WasFocused(t)
    BY <2>6, <2>7 DEF WasFocused
  <2>. QED
    BY <2>8, <2>9 DEF AtMostOne
<1>. QED
  BY <1>1, <1>2, <1>3, <1>4, <1>5, <1>6, SurfacesGo

\* However the events and connections of the plugin are interleaved with output
\* assignments that write a surface back, at most one tracked surface is marked focused.
THEOREM OneFocusedCorrect == Spec => []OneFocused
<1>1. Init => Tracked /\ AtMostOne
  BY DEF Init, Tracked, AtMostOne, WasFocused
<1>2. Tracked /\ AtMostOne /\ [Next]_vars => (Tracked /\ AtMostOne)'
  BY TrackedStep
<1>3. AtMostOne => OneFocused
  <2>. SUFFICES ASSUME AtMostOne
                PROVE  Cardinality(FocusedSurface) <= 1
    BY DEF OneFocused
  <2>1. CASE FocusedSurface = {}
    BY <2>1, FS_EmptySet
  <2>2. CASE \E t : FocusedSurface = {t}
    BY <2>2, FS_Singleton
  <2>. QED
    BY <2>1, <2>2 DEF AtMostOne, FocusedSurface
<1>. QED
  BY <1>1, <1>2, <1>3, PTL DEF Spec

-----------------------------------------------------------------------------
(* Grants. Inductive with the shapes; nil is not a record.                 *)

GrantsInv ==
  /\ Tracked
  /\ DOMAIN grants = Surfaces /\ \A s \in Surfaces : DOMAIN grants[s] = Uids
  /\ GrantsHaveSurfaces

\* No event but "unmapped" makes the bridge forget a surface.
LEMMA KnownStays ==
  ASSUME ~IsRecord(None), Tracked, NEW t \in Surfaces, Known(t),
         \/ \E c, m : HandleMapped(c, m) \/ HandleState(c, m)
         \/ \E h \in Handlers : AssignOutput(h)
  PROVE  Known(t)'
<1>0. IsRecord(surfaces[t])
  BY DEF Tracked, Known
<1>1. ASSUME NEW c, NEW m, HandleMapped(c, m)
      PROVE  IsRecord(surfaces'[t])
  <2>1. PICK x : x = NewRecord(m, WasFocused(m.surface))
    OBVIOUS
  <2>2. surfaces' = [surfaces EXCEPT ![m.surface] = x]
    BY <1>1, <2>1 DEF HandleMapped
  <2>3. IsRecord(x)
    BY <2>1, RecordOfEvent
  <2>. QED
    BY <1>0, <2>2, <2>3 DEF Tracked
<1>2. ASSUME NEW c, NEW m, HandleState(c, m)
      PROVE  IsRecord(surfaces'[t])
  <2>1. PICK focused : surfaces' = [u \in Surfaces |->
             IF u = m.surface THEN NewRecord(m, focused)
             ELSE IF surfaces[u] # None /\ m.event \in {"focused", "restored"}
                  THEN [surfaces[u] EXCEPT !.focused = FALSE]
                  ELSE surfaces[u]]
    BY <1>2 DEF HandleState
  <2>. QED
    BY <1>0, <2>1, RecordOfEvent, RecordChanged
<1>3. ASSUME NEW h \in Handlers, AssignOutput(h)
      PROVE  IsRecord(surfaces'[t])
  <2>1. CASE handler[h].surface # t
    BY <1>0, <1>3, <2>1 DEF AssignOutput, Tracked
  <2>2. CASE handler[h].surface = t
    <3>1. surfaces'[t] = [surfaces[t] EXCEPT !.state["geometry"] = 1]
      BY <1>3, <2>2 DEF AssignOutput, Tracked
    <3>. QED
      BY <1>0, <3>1, RecordChanged
  <2>. QED
    BY <2>1, <2>2
<1>. QED
  BY <1>1, <1>2, <1>3 DEF Known

LEMMA GrantsStep ==
  ASSUME ~IsRecord(None), GrantsInv, [Next]_vars
  PROVE  GrantsInv'
<1>0. Tracked /\ Tracked' /\ GrantsHaveSurfaces /\ DOMAIN grants = Surfaces /\ \A s \in Surfaces : DOMAIN grants[s] = Uids
  BY TrackedStep DEF GrantsInv
<1>1. CASE UNCHANGED <<surfaces, grants>>
  BY <1>0, <1>1 DEF GrantsInv, GrantsHaveSurfaces, Known
<1>2. CASE BridgeRestarts
  BY <1>0, <1>2 DEF BridgeRestarts, GrantsInv, GrantsHaveSurfaces, NoGrants
<1>3. ASSUME \/ \E c \in Conns : \E m \in ToSet(up[c]) : HandleMapped(c, m) \/ HandleState(c, m)
             \/ \E h \in Handlers : AssignOutput(h)
      PROVE  GrantsInv'
  <2>1. UNCHANGED grants
    BY <1>3 DEF HandleMapped, HandleState, AssignOutput, Acts, access
  <2>2. \A t \in Surfaces : Known(t) => Known(t)'
    BY <1>0, <1>3, KnownStays
  <2>. QED
    BY <1>0, <2>1, <2>2 DEF GrantsInv, GrantsHaveSurfaces
<1>4. ASSUME NEW c \in Conns, NEW m, HandleUnmapped(c, m)
      PROVE  GrantsInv'
  <2>1. PICK s : s = m.surface
    OBVIOUS
  <2>2. surfaces' = [surfaces EXCEPT ![s] = None] /\ grants' = [grants EXCEPT ![s] = NoGrants]
    BY <1>4, <2>1 DEF HandleUnmapped
  <2>3. \A t \in Surfaces : IF t = s THEN grants'[t] = NoGrants
                                      ELSE surfaces'[t] = surfaces[t] /\ grants'[t] = grants[t]
    BY <1>0, <2>2 DEF Tracked
  <2>. QED
    BY <1>0, <2>2, <2>3 DEF GrantsInv, GrantsHaveSurfaces, NoGrants, Known
<1>5. ASSUME NEW s \in Surfaces, NEW u \in Uids, UNCHANGED surfaces,
             (\E a \in GrantSets : GrantViewport(s, u, a)) \/ RevokeViewport(s, u)
      PROVE  GrantsInv'
  <2>1. PICK a : grants' = [grants EXCEPT ![s][u] = a] /\ (a = {} \/ Known(s))
    BY <1>5 DEF GrantViewport, RevokeViewport, Known
  <2>2. /\ \A t \in Surfaces : DOMAIN grants'[t] = Uids
        /\ \A t \in Surfaces, v \in Uids : grants'[t][v] = IF t = s /\ v = u THEN a ELSE grants[t][v]
    BY <1>0, <2>1
  <2>. QED
    BY <1>0, <1>5, <2>1, <2>2 DEF GrantsInv, GrantsHaveSurfaces, Known
<1>. QED
  BY <1>1, <1>2, <1>3, <1>4, <1>5, SurfacesGo

\* Whenever an operator grants, revokes or is told about surfaces, whatever restarts: no
\* grant is left for a surface the bridge does not track, for the next surface with
\* that id to inherit.
THEOREM GrantsHaveSurfacesCorrect ==
  ASSUME ~IsRecord(None)
  PROVE  Spec => []GrantsHaveSurfaces
<1>1. Init => GrantsInv
  BY DEF Init, GrantsInv, Tracked, GrantsHaveSurfaces, NoGrants
<1>2. GrantsInv /\ [Next]_vars => GrantsInv'
  BY GrantsStep
<1>3. GrantsInv => GrantsHaveSurfaces
  BY DEF GrantsInv
<1>. QED
  BY <1>1, <1>2, <1>3, PTL DEF Spec

-----------------------------------------------------------------------------
(* Waiters. Inductive with the shape of what a handler is doing.           *)

IsTask(x) == DOMAIN x = DOMAIN Idle

Tasks == DOMAIN handler = Handlers /\ \A h \in Handlers : IsTask(handler[h])

WaitersInv == Tasks /\ WaitersAreOwned

\* A handler is done with its waiter.
Releases(h) ==
  /\ waiters' = [waiters EXCEPT ![handler[h].id] = None]
  /\ \E x : IsTask(x) /\ handler' = [handler EXCEPT ![h] = x]

\* A handler begins to wait.
Registers(h) ==
  \E x, i : /\ IsTask(x) /\ x.id = i /\ x.pc \in {"send", "wait"}
            /\ waiters' = [waiters EXCEPT ![i] = "empty"]
            /\ handler' = [handler EXCEPT ![h] = x]
            /\ handler[h].pc = "idle"

\* A handler that had no waiter goes on, or one that waits does.
GoesOn(h) ==
  /\ waiters' = waiters
  /\ \E x : /\ IsTask(x) /\ handler' = [handler EXCEPT ![h] = x]
            /\ \/ handler[h].pc \notin {"send", "wait"}
               \/ x.pc \in {"send", "wait"} /\ x.id = handler[h].id

LEMMA WaitersGo ==
  ASSUME Tasks, [Next]_vars
  PROVE  \/ UNCHANGED <<waiters, handler>>
         \/ BridgeRestarts
         \/ \E c \in Conns : \E m : HandleResponse(c, m)
         \/ \E h \in Handlers : Releases(h) \/ Registers(h) \/ GoesOn(h)
         \/ \E h \in Handlers : handler' = handler /\ waiters[handler[h].id] # None /\ waiters' = [waiters EXCEPT ![handler[h].id] = "empty"]
<1>0. \A h \in Handlers : DOMAIN handler[h] = DOMAIN Idle /\ handler[h] = handler[h]
  BY DEF Tasks, IsTask
<1>1. ASSUME NEW h \in Handlers, NEW x, x = [handler[h] EXCEPT !.pc = "wait"] \/ x = [handler[h] EXCEPT !.pc = "final"]
                                       \/ x = [handler[h] EXCEPT !.pc = "record"]
      PROVE  IsTask(x) /\ x.id = handler[h].id /\ x.pc \in {"wait", "final", "record"}
  BY <1>0, <1>1 DEF IsTask, Idle
<1>2. ASSUME NEW todo
      PROVE  IsTask([Idle EXCEPT !.todo = todo]) /\ IsTask(Idle)
  BY DEF IsTask, Idle
<1>3. ASSUME NEW h \in Handlers, Finish(h) \/ Fail(h) \/ Confirm(h)
      PROVE  Releases(h)
  <2>1. CASE Finish(h)
    BY <1>2, <2>1 DEF Finish, Releases
  <2>2. CASE Fail(h)
    BY <1>2, <2>2 DEF Fail, Releases
  <2>3. CASE Confirm(h)
    <3>1. PICK x : x = [handler[h] EXCEPT !.pc = "final"]
      OBVIOUS
    <3>2. handler' = [handler EXCEPT ![h] = x]
      BY <2>3, <3>1 DEF Confirm
    <3>. QED
      BY <1>1, <2>3, <3>1, <3>2 DEF Confirm, Releases
  <2>. QED
    BY <1>3, <2>1, <2>2, <2>3
<1>4. ASSUME NEW h \in Handlers, NEW kind, NEW s, NEW v, NEW o, NEW todo,
             Begins(h, kind, s, v, o, todo), handler[h].pc = "idle"
      PROVE  Registers(h) \/ GoesOn(h)
  <2>1. PICK r : r = [pc |-> "send", kind |-> kind, surface |-> s, value |-> v, id |-> seq + 1,
                      conn |-> session, before |-> Copied(kind), output |-> o, todo |-> todo]
    OBVIOUS
  <2>2. IsTask(r) /\ r.pc = "send" /\ r.id = seq + 1
    BY <2>1 DEF IsTask, Idle
  <2>3. PICK x : x = [r EXCEPT !.pc = "final", !.id = 0]
    OBVIOUS
  <2>4. IsTask(x)
    BY <2>1, <2>3 DEF IsTask, Idle
  <2>5. \/ handler' = [handler EXCEPT ![h] = x] /\ waiters' = waiters
        \/ handler' = [handler EXCEPT ![h] = r] /\ waiters' = [waiters EXCEPT ![seq + 1] = "empty"]
    BY <1>4, <2>1, <2>3 DEF Begins
  <2>. QED
    BY <1>4, <2>2, <2>4, <2>5 DEF Registers, GoesOn
<1>5. ASSUME NEW h \in Handlers, HandlerNext(h)
      PROVE  \/ UNCHANGED <<waiters, handler>> \/ Releases(h) \/ Registers(h) \/ GoesOn(h)
             \/ handler' = handler /\ waiters[handler[h].id] # None /\ waiters' = [waiters EXCEPT ![handler[h].id] = "empty"]
  <2>1. CASE Send(h)
    <3>1. PICK x : x = [handler[h] EXCEPT !.pc = "wait"]
      OBVIOUS
    <3>2. Fail(h) \/ (handler' = [handler EXCEPT ![h] = x] /\ waiters' = waiters)
      BY <2>1, <3>1 DEF Send
    <3>3. x.pc = "wait"
      BY <1>0, <3>1 DEF Idle
    <3>. QED
      BY <1>1, <1>3, <3>1, <3>2, <3>3 DEF GoesOn
  <2>2. CASE TakeAnswer(h)
    <3>1. \/ Fail(h) \/ Confirm(h)
          \/ handler' = handler /\ waiters[handler[h].id] \in {"ok", "error"} /\ waiters' = [waiters EXCEPT ![handler[h].id] = "empty"]
      BY <2>2 DEF TakeAnswer
    <3>. QED
      BY <1>3, <3>1, WaiterAssumption
  <2>3. CASE Readback(h) \/ TimesOut(h) \/ Answer(h) \/ AssignOutput(h)
    BY <1>3, <2>3 DEF Readback, TimesOut, Answer, AssignOutput
  <2>4. CASE CheckPlaced(h)
    <3>1. PICK x : x = [handler[h] EXCEPT !.pc = "record"]
      OBVIOUS
    <3>2. Fail(h) \/ (handler[h].pc = "final" /\ handler' = [handler EXCEPT ![h] = x] /\ waiters' = waiters)
      BY <2>4, <3>1 DEF CheckPlaced
    <3>. QED
      BY <1>1, <1>3, <3>1, <3>2 DEF GoesOn
  <2>5. CASE RecordPlacement(h)
    BY <1>3, <2>5 DEF RecordPlacement
  <2>6. ASSUME NEW s \in Surfaces, Reassign(h, s)
        PROVE  Registers(h) \/ GoesOn(h)
    <3>1. PICK x : x = [handler[h] EXCEPT !.todo = handler[h].todo \ {s}]
      OBVIOUS
    <3>2. IsTask(x)
      BY <1>0, <3>1 DEF IsTask
    <3>3. /\ handler[h].pc = "idle"
          /\ \/ handler' = [handler EXCEPT ![h] = x] /\ waiters' = waiters
             \/ handler' = [handler EXCEPT ![h] = Idle] /\ waiters' = waiters
             \/ Begins(h, "output", s, 1, surfaceOutput[s], handler[h].todo \ {s})
      BY <2>6, <3>1 DEF Reassign
    <3>. QED
      BY <1>2, <1>4, <3>2, <3>3 DEF GoesOn
  <2>. QED
    BY <1>5, <2>1, <2>2, <2>3, <2>4, <2>5, <2>6 DEF HandlerNext
<1>6. ASSUME OutputNext
      PROVE  \E h \in Handlers : GoesOn(h)
  <2>1. PICK h \in Handlers, o \in Outputs : CreateOutput(h, o) \/ DestroyOutput(h, o) \/ ResizeOutput(h, o)
    BY <1>6 DEF OutputNext
  <2>2. PICK todo : handler' = [handler EXCEPT ![h].todo = todo]
    BY <2>1 DEF CreateOutput, DestroyOutput, ResizeOutput
  <2>3. PICK x : x = [handler[h] EXCEPT !.todo = todo]
    OBVIOUS
  <2>4. IsTask(x) /\ handler' = [handler EXCEPT ![h] = x]
    BY <1>0, <2>2, <2>3 DEF IsTask, Tasks
  <2>5. handler[h].pc = "idle" /\ waiters' = waiters
    BY <2>1 DEF CreateOutput, DestroyOutput, ResizeOutput, Available, Controls
  <2>. QED
    BY <2>4, <2>5 DEF GoesOn
<1>7. ASSUME \/ PluginNext /\ UNCHANGED bridge
             \/ PolicyNext \/ RequestNext \/ UNCHANGED vars
      PROVE  UNCHANGED <<waiters, handler>>
  BY <1>7 DEF bridge, vars, serving, PolicyNext, RequestNext, UpsertSurfacePolicy, RemoveSurfacePolicy, SetInputContext,
     GrantViewport, RevokeViewport, CloseSurface, CloseSurfacesByUID, SetViewProperty, Requests, Calls, Controls
<1>8. ASSUME NEW c \in Conns, ConnNext(c), ~\E m : HandleResponse(c, m)
      PROVE  UNCHANGED <<waiters, handler>>
  BY <1>8 DEF ConnNext, Install, Sync, ReaderEnds, DecodeFails, Leave, HandleMapped, HandleState, HandleUnmapped, serving
<1>9. ASSUME NEW h \in Handlers, NEW s \in Surfaces, AutoPlace(h, s)
      PROVE  UNCHANGED <<waiters, handler>> \/ Registers(h) \/ GoesOn(h)
  <2>1. \/ UNCHANGED <<waiters, handler>>
        \/ Begins(h, "output", s, 1, Wanted[s], {}) /\ handler[h].pc = "idle"
    BY <1>9 DEF AutoPlace, Available, serving
  <2>. QED
    BY <1>4, <2>1
<1>10. ASSUME NEW h \in Handlers, NEW kind \in Kinds, NEW s \in Surfaces, NEW v \in 0..2, NEW o \in Outputs \cup {None},
              Begin(h, kind, s, v, o)
       PROVE  Registers(h) \/ GoesOn(h)
  BY <1>4, <1>10 DEF Begin, Available
<1>. QED
  BY <1>5, <1>6, <1>7, <1>8, <1>9, <1>10 DEF Next

LEMMA WaitersStep ==
  ASSUME WaitersInv, [Next]_vars
  PROVE  WaitersInv'
<1>0. Tasks /\ WaitersAreOwned /\ DOMAIN handler = Handlers
  BY DEF WaitersInv, Tasks
<1>1. CASE UNCHANGED <<waiters, handler>>
  BY <1>0, <1>1 DEF WaitersInv, Tasks, WaitersAreOwned
<1>2. CASE BridgeRestarts
  BY <1>2 DEF BridgeRestarts, WaitersInv, Tasks, IsTask, WaitersAreOwned
<1>3. ASSUME NEW c \in Conns, NEW m, HandleResponse(c, m)
      PROVE  WaitersInv'
  <2>1. handler' = handler
    BY <1>3 DEF HandleResponse
  <2>2. DOMAIN waiters' = DOMAIN waiters /\ \A i \in DOMAIN waiters' : waiters'[i] # None => waiters[i] # None
    BY <1>3, WaiterAssumption DEF HandleResponse
  <2>. QED
    BY <1>0, <2>1, <2>2 DEF WaitersInv, Tasks, WaitersAreOwned
<1>4. ASSUME NEW h \in Handlers, NEW x, IsTask(x), handler' = [handler EXCEPT ![h] = x]
      PROVE  Tasks' /\ handler'[h] = x /\ \A g \in Handlers \ {h} : handler'[g] = handler[g]
  BY <1>0, <1>4 DEF Tasks
<1>5. ASSUME NEW h \in Handlers, Releases(h)
      PROVE  WaitersInv'
  <2>1. PICK x : IsTask(x) /\ handler' = [handler EXCEPT ![h] = x]
    BY <1>5 DEF Releases
  <2>2. DOMAIN waiters' = DOMAIN waiters /\ \A i \in DOMAIN waiters' : waiters'[i] # None => waiters[i] # None /\ i # handler[h].id
    BY <1>5 DEF Releases
  <2>3. ASSUME NEW i \in DOMAIN waiters', waiters'[i] # None
        PROVE  \E g \in Handlers : handler'[g].id = i /\ handler'[g].pc \in {"send", "wait"}
    BY <1>0, <1>4, <2>1, <2>2, <2>3 DEF WaitersAreOwned
  <2>. QED
    BY <1>4, <2>1, <2>3 DEF WaitersInv, WaitersAreOwned
<1>6. ASSUME NEW h \in Handlers, Registers(h)
      PROVE  WaitersInv'
  <2>1. PICK x, i : /\ IsTask(x) /\ x.id = i /\ x.pc \in {"send", "wait"}
                    /\ waiters' = [waiters EXCEPT ![i] = "empty"]
                    /\ handler' = [handler EXCEPT ![h] = x]
                    /\ handler[h].pc = "idle"
    BY <1>6 DEF Registers
  <2>2. DOMAIN waiters' = DOMAIN waiters /\ \A j \in DOMAIN waiters' : waiters'[j] # None => waiters[j] # None \/ j = i
    BY <2>1
  <2>3. ASSUME NEW j \in DOMAIN waiters', waiters'[j] # None
        PROVE  \E g \in Handlers : handler'[g].id = j /\ handler'[g].pc \in {"send", "wait"}
    BY <1>0, <1>4, <2>1, <2>2, <2>3 DEF WaitersAreOwned
  <2>. QED
    BY <1>4, <2>1, <2>3 DEF WaitersInv, WaitersAreOwned
<1>7. ASSUME NEW h \in Handlers, GoesOn(h)
      PROVE  WaitersInv'
  <2>1. PICK x : /\ IsTask(x) /\ handler' = [handler EXCEPT ![h] = x]
                 /\ \/ handler[h].pc \notin {"send", "wait"}
                    \/ x.pc \in {"send", "wait"} /\ x.id = handler[h].id
    BY <1>7 DEF GoesOn
  <2>2. ASSUME NEW j \in DOMAIN waiters, waiters[j] # None
        PROVE  \E g \in Handlers : handler'[g].id = j /\ handler'[g].pc \in {"send", "wait"}
    BY <1>0, <1>4, <2>1, <2>2 DEF WaitersAreOwned
  <2>. QED
    BY <1>4, <1>7, <2>1, <2>2 DEF WaitersInv, WaitersAreOwned, GoesOn
<1>8. ASSUME NEW h \in Handlers, handler' = handler, waiters[handler[h].id] # None,
             waiters' = [waiters EXCEPT ![handler[h].id] = "empty"]
      PROVE  WaitersInv'
  <2>1. DOMAIN waiters' = DOMAIN waiters /\ \A i \in DOMAIN waiters' : waiters'[i] # None => waiters[i] # None
    BY <1>8
  <2>. QED
    BY <1>0, <1>8, <2>1 DEF WaitersInv, Tasks, WaitersAreOwned
<1>. QED
  BY <1>0, <1>1, <1>2, <1>3, <1>5, <1>6, <1>7, <1>8, WaitersGo

\* Answers, timeouts, errors, effects seen first and restarts of the bridge leave no
\* waiter behind that no request waits for any more.
THEOREM WaitersAreOwnedCorrect == Spec => []WaitersAreOwned
<1>1. Init => WaitersInv
  BY DEF Init, WaitersInv, Tasks, IsTask, WaitersAreOwned
<1>2. WaitersInv /\ [Next]_vars => WaitersInv'
  BY WaitersStep
<1>3. WaitersInv => WaitersAreOwned
  BY DEF WaitersInv
<1>. QED
  BY <1>1, <1>2, <1>3, PTL DEF Spec


-----------------------------------------------------------------------------
(* Connections. The plugin has at most one that is open, and the goroutine *)
(* that serves an open one is the session's.                               *)

IsSequence(q) == q \in Seq(ToSet(q))

OverSurfaces(f) == f = [s \in Surfaces |-> f[s]]

Links ==
  /\ latest \in 0..MaxConns /\ fd \in 0..latest /\ link \subseteq {fd} \ {0}
  /\ conn \in [Conns -> {"new", "installed", "reading", "gone"}]
  /\ session \in 0..MaxConns /\ (session # 0 => conn[session] \in {"installed", "reading"})
  /\ \A c \in Conns : /\ c > latest => conn[c] = "new"
                      /\ c \in link /\ conn[c] \in {"installed", "reading"} => session = c

\* Every set of policies the bridge sends is one of all surfaces.
Whole(q) == \A i \in DOMAIN q : q[i].op = "policy_replace" => OverSurfaces(q[i].policies)

Queues ==
  /\ DOMAIN up = Conns /\ DOMAIN down = Conns
  /\ \A c \in Conns : IsSequence(up[c]) /\ IsSequence(down[c]) /\ Whole(down[c])

-----------------------------------------------------------------------------
(* What a queue of lines will leave the reader with. A topic is the policy *)
(* of a surface, the actor, or what the events show of a surface.          *)

Policy(s) == <<"policy", s>>
Actor     == <<"actor", None>>
Shown(s)  == <<"event", s>>

Of(topic, m) ==
  CASE topic[1] = "policy" -> \/ m.op = "policy_replace"
                              \/ m.op \in {"policy_upsert", "policy_remove"} /\ m.surface = topic[2]
    [] topic[1] = "actor"  -> m.op = "input_context"
    [] topic[1] = "event"  -> m.type = "event" /\ m.surface = topic[2]

Content(topic, m) ==
  CASE topic[1] = "policy" -> (CASE m.op = "policy_replace" -> m.policies[topic[2]]
                                 [] m.op = "policy_upsert" -> m.policy
                                 [] m.op = "policy_remove" -> None)
    [] topic[1] = "actor"  -> m.uid
    [] topic[1] = "event"  -> IF m.event = "unmapped" THEN <<>> ELSE <<m.owner, m.state>>

Silent(q, topic) == \A i \in DOMAIN q : ~Of(topic, q[i])

\* The last line about the topic says x.
Says(q, topic, x) ==
  \E i \in DOMAIN q : /\ Of(topic, q[i]) /\ Content(topic, q[i]) = x
                      /\ \A j \in DOMAIN q : j > i => ~Of(topic, q[j])

\* A reader that holds y will hold x when it has read all.
Leads(q, topic, y, x) == Says(q, topic, x) \/ (Silent(q, topic) /\ y = x)

-----------------------------------------------------------------------------
(* The plugin's policies follow the bridge's.                              *)

\* The plugin has dropped the policy of a surface the bridge still tracks.
Drops(q, s) == \E i \in DOMAIN q : IsEvent(q[i], {"unmapped"}) /\ q[i].surface = s
Untold(s)   == Drops(up[fd], s)

CacheFollows ==
  fd \in link /\ conn[fd] = "reading" =>
    /\ \A s \in Surfaces : Untold(s) \/ Leads(down[fd], Policy(s), cache[s], policies[s])
    /\ Leads(down[fd], Actor, actor, actorUID)

CacheInv ==
  /\ Links /\ Queues /\ CacheFollows
  /\ OverSurfaces(cache) /\ OverSurfaces(policies)

-----------------------------------------------------------------------------
(* What the bridge tracks follows the screen.                              *)

\* Without restarts of the compositor no goroutine of an old connection is left.
Single ==
  /\ fd # 0 /\ fd \notin link => conn[fd] = "gone"
  /\ \A c \in Conns : c <= latest /\ c # fd => conn[c] = "gone"

Record(s) == IF Known(s) THEN <<surfaces[s].owner, surfaces[s].state>> ELSE <<>>

\* What the events of the screen as it is would leave in the record.
Screen(s) == IF s \in mapped THEN <<owner[s], view[s]>> ELSE <<>>

Scene == OverSurfaces(owner) /\ OverSurfaces(view) /\ mapped \subseteq Surfaces /\ announce \subseteq mapped

\* No surface is on an output, and nobody is about to put one on an output: nobody
\* writes to a record but the events.
Unplaced ==
  /\ surfaceOutput = [s \in Surfaces |-> None]
  /\ autoplace \cap Surfaces = {}
  /\ \A h \in Handlers : handler[h].kind # "output" /\ handler[h].todo = {}

\* Neither a client nor a launch asks for an output; there may be some.
NobodyPlaces == "output" \notin Kinds /\ \A s \in Surfaces : Wanted[s] = None

\* The plugin has still to announce the view.
Waiting(s) == resync \/ resyncing \/ s \in announce

RecordLeads(s) == Leads(up[fd], Shown(s), Record(s), Screen(s))

RecordFollows == fd \in link => \A s \in mapped : Waiting(s) \/ RecordLeads(s)

GhostsGo ==
  /\ faults \in Nat
  /\ faults = 0 =>
       /\ fd = latest /\ latest <= 1 /\ (fd # 0 => fd \in link)
       /\ fd = 0 => \A s \in Surfaces : ~Known(s)
       /\ fd = 0 => \A c \in Conns : up[c] = <<>>
       /\ fd # 0 => \A s \in Surfaces \ mapped : RecordLeads(s)

links == <<latest, fd, link, conn, session>>

\* Which steps change the connections.
LEMMA LinksGo ==
  ASSUME [Next]_vars
  PROVE  \/ UNCHANGED links
         \/ Connects /\ UNCHANGED bridge
         \/ LosesLink /\ UNCHANGED bridge
         \/ CompositorRestarts /\ UNCHANGED bridge
         \/ BridgeRestarts
         \/ \E c \in Conns : Install(c) \/ (Leave(c) /\ conn[c] \in {"installed", "reading"})
         \/ \E c \in Conns : c \in link /\ conn[c] = "installed" /\ conn' = [conn EXCEPT ![c] = "reading"]
                             /\ UNCHANGED <<latest, fd, link, session>>
<1>1. CASE LoopNext /\ UNCHANGED bridge
  BY <1>1 DEF LoopNext, Wake, ResyncSurfaces, Announce, ProcessChange, ProcessFocus, ProcessInput, GivesFocus,
              ProcessRaise, ProcessRaised, ProcessCapture, Refuses, ProcessClose, Serves, Stays,
              bridge, sockets, links
<1>2. ASSUME UNCHANGED bridge, NEW s \in Surfaces,
             UnmapView(s) \/ UserFocuses(s) \/ \E u \in Uids : MapView(s, u)
      PROVE  UNCHANGED links
  BY <1>2 DEF MapView, UnmapView, UserFocuses, bridge, sockets, links
<1>3. ASSUME UNCHANGED bridge, NEW m, ReadPolicy(m) \/ ReadCommand(m)
      PROVE  UNCHANGED links
  BY <1>3 DEF ReadPolicy, ReadCommand, bridge, sockets, links
<1>4. CASE PluginNext /\ UNCHANGED bridge
  BY <1>1, <1>2, <1>3, <1>4 DEF PluginNext
<1>5. CASE PolicyNext
  BY <1>5 DEF PolicyNext, UpsertSurfacePolicy, RemoveSurfacePolicy, SetInputContext, GrantViewport, RevokeViewport,
              Calls, Controls, plugin, sockets, links
<1>6. CASE RequestNext
  BY <1>6 DEF RequestNext, CloseSurface, CloseSurfacesByUID, SetViewProperty, Requests, Calls, Controls,
              plugin, sockets, links
<1>7. CASE OutputNext
  BY <1>7 DEF OutputNext, CreateOutput, DestroyOutput, ResizeOutput, Controls, plugin, sockets, links
<1>8. ASSUME NEW c \in Conns, NEW m, HandleMapped(c, m) \/ HandleState(c, m) \/ HandleUnmapped(c, m) \/ HandleResponse(c, m)
      PROVE  UNCHANGED links
  BY <1>8 DEF HandleMapped, HandleState, HandleUnmapped, HandleResponse, Decodes, sockets, links
<1>9. ASSUME NEW c \in Conns, Sync(c)
      PROVE  \/ Leave(c) /\ conn[c] = "installed"
             \/ c \in link /\ conn[c] = "installed" /\ conn' = [conn EXCEPT ![c] = "reading"]
                /\ UNCHANGED <<latest, fd, link, session>>
  BY <1>9 DEF Sync, sockets
<1>10. ASSUME NEW c \in Conns, ReaderEnds(c) \/ DecodeFails(c)
       PROVE  Leave(c) /\ conn[c] = "reading"
  BY <1>10 DEF ReaderEnds, DecodeFails
<1>11. ASSUME NEW h \in Handlers, HandlerNext(h)
       PROVE  UNCHANGED links
  BY <1>11 DEF HandlerNext, Send, TakeAnswer, Readback, TimesOut, Answer, AssignOutput, CheckPlaced, RecordPlacement,
               Reassign, Acts, plugin, sockets, links
<1>12. ASSUME NEW h \in Handlers, NEW s \in Surfaces, AutoPlace(h, s)
       PROVE  UNCHANGED links
  BY <1>12 DEF AutoPlace, Acts, plugin, sockets, links
<1>13. ASSUME NEW h \in Handlers, NEW kind \in Kinds, NEW s \in Surfaces, NEW v \in 0..2, NEW o \in Outputs \cup {None},
              Begin(h, kind, s, v, o)
       PROVE  UNCHANGED links
  BY <1>13 DEF Begin, Acts, plugin, sockets, links
<1>14. CASE UNCHANGED vars
  BY <1>14 DEF vars, bridge, compositor, sockets, links
<1>. QED
  BY <1>4, <1>5, <1>6, <1>7, <1>8, <1>9, <1>10, <1>11, <1>12, <1>13, <1>14 DEF Next, ConnNext

LEMMA LinksInit == Init => Links
BY BoundAssumption DEF Init, PluginInit, Links, Conns

LEMMA LinksStep ==
  ASSUME Links, [Next]_vars
  PROVE  Links'
<1>1. CASE UNCHANGED links
  BY <1>1 DEF links, Links
<1>2. CASE Connects /\ UNCHANGED bridge
  BY <1>2, BoundAssumption DEF Connects, bridge, Links, Conns
<1>3. CASE LosesLink /\ UNCHANGED bridge
  BY <1>3, BoundAssumption DEF LosesLink, bridge, Links, Conns
<1>4. CASE CompositorRestarts /\ UNCHANGED bridge
  BY <1>4, BoundAssumption DEF CompositorRestarts, bridge, Links, Conns
<1>5. CASE BridgeRestarts
  BY <1>5, BoundAssumption DEF BridgeRestarts, Links, Conns
<1>6. ASSUME NEW c \in Conns, Install(c)
      PROVE  Links'
  BY <1>6, BoundAssumption DEF Install, Links, Conns
<1>7. ASSUME NEW c \in Conns, Leave(c), conn[c] \in {"installed", "reading"}
      PROVE  Links'
  <2>1. /\ conn' = [conn EXCEPT ![c] = "gone"] /\ UNCHANGED <<latest, fd>>
        /\ link' = link \ {c}
        /\ session' = IF session = c THEN 0 ELSE session
    BY <1>7 DEF Leave
  <2>0. c <= latest
    BY <1>7, BoundAssumption DEF Links, Conns
  <2>2. /\ conn' \in [Conns -> {"new", "installed", "reading", "gone"}]
        /\ conn'[c] = "gone" /\ \A d \in Conns : d # c => conn'[d] = conn[d]
    BY <2>1 DEF Links
  <2>3. /\ session' \in 0..MaxConns
        /\ session' # 0 => conn'[session'] \in {"installed", "reading"}
    BY <2>1, <2>2, BoundAssumption DEF Links, Conns
  <2>4. \A d \in Conns : /\ d > latest' => conn'[d] = "new"
                         /\ d \in link' /\ conn'[d] \in {"installed", "reading"} => session' = d
    BY <2>0, <2>1, <2>2, BoundAssumption DEF Links, Conns
  <2>. QED
    BY <2>1, <2>2, <2>3, <2>4 DEF Links
<1>8. ASSUME NEW c \in Conns, c \in link, conn[c] = "installed", conn' = [conn EXCEPT ![c] = "reading"],
             UNCHANGED <<latest, fd, link, session>>
      PROVE  Links'
  BY <1>8, BoundAssumption DEF Links, Conns
<1>. QED
  BY <1>1, <1>2, <1>3, <1>4, <1>5, <1>6, <1>7, <1>8, LinksGo

-----------------------------------------------------------------------------
(* Queues.                                                                 *)

LEMMA Concatenation ==
  ASSUME NEW q, NEW r, IsSequence(q), IsSequence(r)
  PROVE  LET n == Len(q)
         IN /\ IsSequence(q \o r) /\ n \in Nat /\ Len(r) \in Nat
            /\ DOMAIN q = 1..n /\ DOMAIN r = 1..Len(r) /\ DOMAIN (q \o r) = 1..(n + Len(r))
            /\ \A i \in 1..n : (q \o r)[i] = q[i]
            /\ \A i \in 1..Len(r) : (q \o r)[n + i] = r[i]
<1>1. PICK S : S = ToSet(q) \cup ToSet(r)
  OBVIOUS
<1>2. q \in Seq(S) /\ r \in Seq(S)
  BY <1>1 DEF IsSequence
<1>3. PICK t : t = q \o r
  OBVIOUS
<1>4. /\ t \in Seq(S) /\ Len(q) \in Nat /\ Len(r) \in Nat /\ Len(t) = Len(q) + Len(r)
      /\ DOMAIN q = 1..Len(q) /\ DOMAIN r = 1..Len(r) /\ DOMAIN t = 1..(Len(q) + Len(r))
      /\ \A i \in 1..Len(q) : t[i] = q[i]
      /\ \A i \in 1..Len(r) : t[Len(q) + i] = r[i]
  BY <1>2, <1>3
<1>5. t \in Seq(ToSet(t))
  BY <1>4 DEF ToSet
<1>. QED
  BY <1>3, <1>4, <1>5 DEF IsSequence

LEMMA Appending ==
  ASSUME NEW q, IsSequence(q), NEW m
  PROVE  Append(q, m) = q \o <<m>>
<1>1. PICK S : S = ToSet(q) \cup {m}
  OBVIOUS
<1>2. q \in Seq(S) /\ m \in S
  BY <1>1 DEF IsSequence
<1>. QED
  BY <1>2

LEMMA Short ==
  ASSUME NEW a, NEW b
  PROVE  IsSequence(<<>>) /\ IsSequence(<<a>>) /\ IsSequence(<<a, b>>)
BY DEF IsSequence, ToSet

LEMMA Tails ==
  ASSUME NEW q, IsSequence(q), q # <<>>
  PROVE  LET n == Len(q)
         IN /\ IsSequence(Tail(q)) /\ n \in Nat \ {0} /\ Head(q) = q[1]
            /\ DOMAIN q = 1..n /\ DOMAIN Tail(q) = 1..(n - 1)
            /\ \A i \in 1..(n - 1) : Tail(q)[i] = q[i + 1]
<1>1. q \in Seq(ToSet(q))
  BY DEF IsSequence
<1>2. PICK t : t = Tail(q)
  OBVIOUS
<1>3. /\ t \in Seq(ToSet(q)) /\ Len(q) \in Nat \ {0} /\ Head(q) = q[1]
      /\ DOMAIN q = 1..Len(q) /\ DOMAIN t = 1..(Len(q) - 1) /\ Len(t) = Len(q) - 1
      /\ \A i \in 1..(Len(q) - 1) : t[i] = q[i + 1]
  BY <1>1, <1>2
<1>4. t \in Seq(ToSet(t))
  BY <1>3 DEF ToSet
<1>. QED
  BY <1>2, <1>3, <1>4 DEF IsSequence

\* More lines of which none is about the topic, or of which the last says x.
LEMMA LeadsOn ==
  ASSUME NEW q, NEW r, IsSequence(q), IsSequence(r), NEW topic, NEW x, NEW y
  PROVE  /\ Silent(r, topic) /\ Leads(q, topic, y, x) => Leads(q \o r, topic, y, x)
         /\ Says(r, topic, x) => Leads(q \o r, topic, y, x)
<1>0. PICK t, n, k : t = q \o r /\ n = Len(q) /\ k = Len(r)
  OBVIOUS
<1>1. /\ n \in Nat /\ k \in Nat /\ DOMAIN q = 1..n /\ DOMAIN r = 1..k /\ DOMAIN t = 1..(n + k)
      /\ \A i \in 1..n : t[i] = q[i]
      /\ \A i \in 1..k : t[n + i] = r[i]
  BY <1>0, Concatenation
<1>2. \A i \in DOMAIN t : i \in DOMAIN q \/ (i - n \in DOMAIN r /\ t[i] = r[i - n])
  <2>. SUFFICES ASSUME NEW i \in DOMAIN t, i \notin DOMAIN q
                PROVE  i - n \in DOMAIN r /\ t[i] = r[i - n]
    OBVIOUS
  <2>1. i - n \in 1..k /\ n + (i - n) = i
    BY <1>1
  <2>. QED
    BY <1>1, <2>1
<1>3. ASSUME Silent(r, topic), Silent(q, topic)
      PROVE  Silent(t, topic)
  BY <1>1, <1>2, <1>3 DEF Silent
<1>4. ASSUME Silent(r, topic), Says(q, topic, x)
      PROVE  Says(t, topic, x)
  <2>1. PICK i \in DOMAIN q : /\ Of(topic, q[i]) /\ Content(topic, q[i]) = x
                              /\ \A j \in DOMAIN q : j > i => ~Of(topic, q[j])
    BY <1>4 DEF Says
  <2>2. i \in DOMAIN t /\ t[i] = q[i]
    BY <1>1
  <2>3. \A j \in DOMAIN t : j > i => ~Of(topic, t[j])
    BY <1>1, <1>2, <1>4, <2>1 DEF Silent
  <2>. QED
    BY <2>1, <2>2, <2>3 DEF Says
<1>5. ASSUME Says(r, topic, x)
      PROVE  Says(t, topic, x)
  <2>1. PICK i \in DOMAIN r : /\ Of(topic, r[i]) /\ Content(topic, r[i]) = x
                              /\ \A j \in DOMAIN r : j > i => ~Of(topic, r[j])
    BY <1>5 DEF Says
  <2>2. n + i \in DOMAIN t /\ t[n + i] = r[i]
    BY <1>1
  <2>3. ASSUME NEW j \in DOMAIN t, j > n + i
        PROVE  ~Of(topic, t[j])
    <3>1. j \notin DOMAIN q /\ j - n > i
      BY <1>1, <2>3
    <3>. QED
      BY <1>2, <2>1, <3>1
  <2>. QED
    BY <2>1, <2>2, <2>3 DEF Says
<1>. QED
  BY <1>0, <1>3, <1>4, <1>5 DEF Leads

\* The first line read: the reader holds what it says, or what it held.
LEMMA LeadsOff ==
  ASSUME NEW q, IsSequence(q), q # <<>>, NEW topic, NEW x, NEW y, Leads(q, topic, y, x)
  PROVE  /\ Of(topic, Head(q)) => Leads(Tail(q), topic, Content(topic, Head(q)), x)
         /\ ~Of(topic, Head(q)) => Leads(Tail(q), topic, y, x)
<1>0. PICK t, n : t = Tail(q) /\ n = Len(q)
  OBVIOUS
<1>1. /\ n \in Nat \ {0} /\ Head(q) = q[1] /\ DOMAIN q = 1..n /\ DOMAIN t = 1..(n - 1)
      /\ \A i \in 1..(n - 1) : t[i] = q[i + 1]
  BY <1>0, Tails
<1>2. CASE Silent(q, topic) /\ y = x
  <2>1. ~Of(topic, q[1]) /\ Silent(t, topic)
    BY <1>1, <1>2 DEF Silent
  <2>. QED
    BY <1>0, <1>1, <1>2, <2>1 DEF Leads
<1>3. CASE Says(q, topic, x)
  <2>1. PICK i \in DOMAIN q : /\ Of(topic, q[i]) /\ Content(topic, q[i]) = x
                              /\ \A j \in DOMAIN q : j > i => ~Of(topic, q[j])
    BY <1>3 DEF Says
  <2>2. CASE i = 1
    <3>1. Silent(t, topic)
      BY <1>1, <2>1, <2>2 DEF Silent
    <3>. QED
      BY <1>0, <1>1, <2>1, <2>2, <3>1 DEF Leads
  <2>3. CASE i # 1
    <3>1. i - 1 \in DOMAIN t /\ t[i - 1] = q[i]
      BY <1>1, <2>3
    <3>2. ASSUME NEW j \in DOMAIN t, j > i - 1
          PROVE  ~Of(topic, t[j])
      <4>1. j + 1 \in DOMAIN q /\ j + 1 > i /\ t[j] = q[j + 1]
        BY <1>1, <3>2
      <4>. QED
        BY <2>1, <4>1
    <3>3. Says(t, topic, x)
      BY <2>1, <3>1, <3>2 DEF Says
    <3>. QED
      BY <1>0, <3>3 DEF Leads
  <2>. QED
    BY <2>2, <2>3
<1>. QED
  BY <1>2, <1>3 DEF Leads

\* One line or two.
LEMMA SaysShort ==
  ASSUME NEW a, NEW b, NEW topic
  PROVE  /\ Silent(<<>>, topic)
         /\ Of(topic, a) => Says(<<a>>, topic, Content(topic, a))
         /\ ~Of(topic, a) => Silent(<<a>>, topic)
         /\ Of(topic, b) => Says(<<a, b>>, topic, Content(topic, b))
         /\ Of(topic, a) /\ ~Of(topic, b) => Says(<<a, b>>, topic, Content(topic, a))
         /\ ~Of(topic, a) /\ ~Of(topic, b) => Silent(<<a, b>>, topic)
<1>1. Silent(<<>>, topic) /\ (~Of(topic, a) => Silent(<<a>>, topic))
  BY DEF Silent
<1>2. ~Of(topic, a) /\ ~Of(topic, b) => Silent(<<a, b>>, topic)
  BY DEF Silent
<1>3. ASSUME Of(topic, a)
      PROVE  Says(<<a>>, topic, Content(topic, a))
  BY <1>3 DEF Says
<1>4. ASSUME Of(topic, b)
      PROVE  Says(<<a, b>>, topic, Content(topic, b))
  <2>1. 2 \in DOMAIN <<a, b>> /\ <<a, b>>[2] = b /\ \A j \in DOMAIN <<a, b>> : ~(j > 2)
    OBVIOUS
  <2>. QED
    BY <1>4, <2>1 DEF Says
<1>5. ASSUME Of(topic, a), ~Of(topic, b)
      PROVE  Says(<<a, b>>, topic, Content(topic, a))
  <2>1. 1 \in DOMAIN <<a, b>> /\ <<a, b>>[1] = a /\ \A j \in DOMAIN <<a, b>> : j > 1 => <<a, b>>[j] = b
    OBVIOUS
  <2>. QED
    BY <1>5, <2>1 DEF Says
<1>. QED
  BY <1>1, <1>2, <1>3, <1>4, <1>5

-----------------------------------------------------------------------------
(* What the goroutines of control connections do.                          *)

KindsInv ==
  WaitersInv /\ \A h \in Handlers : handler[h].pc = "send" => handler[h].kind \in SurfaceActions

\* A handler goes on with what it does, is done, or begins something new; it has to
\* place again only surfaces that are on an output.
LEMMA HandlersGo ==
  ASSUME Tasks, [Next]_vars, NEW h \in Handlers
  PROVE  /\ handler'[h].todo \subseteq handler[h].todo \cup Assigned(Outputs)
         /\ \/ handler'[h].kind = handler[h].kind /\ (handler'[h].pc = "send" => handler[h].pc = "send")
            \/ handler'[h].kind = None /\ handler'[h].pc = "idle"
            \/ /\ handler'[h].kind \in SurfaceActions
               /\ \/ handler'[h].kind \in Kinds
                  \/ autoplace \cap Surfaces # {} \/ handler[h].todo # {}
<1>. DEFINE Left == handler[h].todo \cup Assigned(Outputs)
            Todo == handler'[h].todo \subseteq Left
            Same == Todo /\ handler'[h].kind = handler[h].kind /\ (handler'[h].pc = "send" => handler[h].pc = "send")
            Over == Todo /\ handler'[h].kind = None /\ handler'[h].pc = "idle"
            New  == Todo /\ handler'[h].kind \in SurfaceActions
                    /\ (handler'[h].kind \in Kinds \/ autoplace \cap Surfaces # {} \/ handler[h].todo # {})
<1>0. DOMAIN handler = Handlers /\ \A g \in Handlers : DOMAIN handler[g] = DOMAIN Idle
  BY DEF Tasks, IsTask
<1>1. ASSUME NEW g \in Handlers, NEW x, handler' = [handler EXCEPT ![g] = x]
      PROVE  Same \/ (g = h /\ handler'[h] = x)
  BY <1>0, <1>1
<1>2. ASSUME NEW todo
      PROVE  /\ [Idle EXCEPT !.todo = todo].kind = None /\ [Idle EXCEPT !.todo = todo].pc = "idle"
             /\ [Idle EXCEPT !.todo = todo].todo = todo
  BY DEF Idle
<1>3. ASSUME NEW g \in Handlers, Finish(g) \/ Fail(g)
      PROVE  Same \/ Over
  <2>1. PICK x : handler' = [handler EXCEPT ![g] = x] /\ x.kind = None /\ x.pc = "idle"
                 /\ x.todo \subseteq handler[g].todo
    BY <1>2, <1>3 DEF Finish, Fail, Idle
  <2>. QED
    BY <1>1, <2>1
<1>4. ASSUME NEW g \in Handlers, NEW pc \in {"wait", "final", "record"}, handler' = [handler EXCEPT ![g].pc = pc]
      PROVE  Same
  <2>1. PICK x : x = [handler[g] EXCEPT !.pc = pc]
    OBVIOUS
  <2>2. handler' = [handler EXCEPT ![g] = x] /\ x.kind = handler[g].kind /\ x.pc = pc /\ x.todo = handler[g].todo
    BY <1>0, <1>4, <2>1 DEF Idle
  <2>. QED
    BY <1>1, <2>2
<1>5. ASSUME NEW g \in Handlers, NEW todo \in SUBSET (handler[g].todo \cup Assigned(Outputs)),
             handler' = [handler EXCEPT ![g].todo = todo]
      PROVE  Same
  <2>1. PICK x : x = [handler[g] EXCEPT !.todo = todo]
    OBVIOUS
  <2>2. handler' = [handler EXCEPT ![g] = x] /\ x.kind = handler[g].kind /\ x.pc = handler[g].pc /\ x.todo = todo
    BY <1>0, <1>5, <2>1 DEF Idle
  <2>. QED
    BY <1>1, <2>2
<1>6. ASSUME NEW g \in Handlers, NEW kind \in SurfaceActions, NEW s, NEW v, NEW o,
             NEW todo \in SUBSET handler[g].todo, Begins(g, kind, s, v, o, todo),
             kind \in Kinds \/ autoplace \cap Surfaces # {} \/ handler[g].todo # {}
      PROVE  Same \/ New
  <2>1. PICK r : r = [pc |-> "send", kind |-> kind, surface |-> s, value |-> v, id |-> seq + 1,
                      conn |-> session, before |-> Copied(kind), output |-> o, todo |-> todo]
    OBVIOUS
  <2>2. PICK y : y = [r EXCEPT !.pc = "final", !.id = 0]
    OBVIOUS
  <2>3. r.kind = kind /\ y.kind = kind /\ r.todo = todo /\ y.todo = todo
    BY <2>1, <2>2
  <2>4. handler' = [handler EXCEPT ![g] = r] \/ handler' = [handler EXCEPT ![g] = y]
    BY <1>6, <2>1, <2>2 DEF Begins
  <2>. QED
    BY <1>1, <1>6, <2>3, <2>4
<1>7. ASSUME NEW g \in Handlers, HandlerNext(g)
      PROVE  Same \/ Over \/ New
  <2>1. CASE Send(g)
    BY <1>3, <1>4, <2>1 DEF Send
  <2>2. CASE TakeAnswer(g)
    BY <1>3, <1>4, <2>2 DEF TakeAnswer, Confirm
  <2>3. CASE Readback(g) \/ TimesOut(g) \/ Answer(g) \/ AssignOutput(g)
    BY <1>3, <1>4, <2>3 DEF Readback, TimesOut, Answer, AssignOutput, Confirm
  <2>4. CASE CheckPlaced(g) \/ RecordPlacement(g)
    BY <1>3, <1>4, <2>4 DEF CheckPlaced, RecordPlacement
  <2>5. ASSUME NEW s \in Surfaces, Reassign(g, s)
        PROVE  Same \/ Over \/ New
    <3>1. s \in handler[g].todo /\ handler[g].todo \ {s} \in SUBSET handler[g].todo
      BY <2>5 DEF Reassign
    <3>2. \/ handler' = [handler EXCEPT ![g].todo = handler[g].todo \ {s}]
          \/ handler' = [handler EXCEPT ![g] = Idle]
          \/ Begins(g, "output", s, 1, surfaceOutput[s], handler[g].todo \ {s})
      BY <2>5 DEF Reassign
    <3>3. Idle.kind = None /\ Idle.pc = "idle" /\ Idle.todo = {} /\ "output" \in SurfaceActions
      BY DEF Idle, SurfaceActions
    <3>. QED
      BY <1>1, <1>5, <1>6, <3>1, <3>2, <3>3
  <2>. QED
    BY <1>7, <2>1, <2>2, <2>3, <2>4, <2>5 DEF HandlerNext
<1>8. CASE OutputNext
  <2>1. PICK g \in Handlers, o \in Outputs : CreateOutput(g, o) \/ DestroyOutput(g, o) \/ ResizeOutput(g, o)
    BY <1>8 DEF OutputNext
  <2>2. \A names \in SUBSET Outputs : Assigned(names) \in SUBSET (handler[g].todo \cup Assigned(Outputs))
    BY DEF Assigned
  <2>3. \E names \in SUBSET Outputs : handler' = [handler EXCEPT ![g].todo = Assigned(names)]
    BY <2>1 DEF CreateOutput, DestroyOutput, ResizeOutput
  <2>. QED
    BY <1>5, <2>2, <2>3
<1>9. ASSUME \/ PluginNext /\ UNCHANGED bridge
             \/ PolicyNext \/ RequestNext \/ UNCHANGED vars
             \/ \E c \in Conns : ConnNext(c)
      PROVE  handler' = handler
  BY <1>9 DEF bridge, vars, serving, PolicyNext, RequestNext, UpsertSurfacePolicy, RemoveSurfacePolicy, SetInputContext,
     GrantViewport, RevokeViewport, CloseSurface, CloseSurfacesByUID, SetViewProperty, Requests, Calls, Controls,
     ConnNext, Install, Sync, ReaderEnds, DecodeFails, Leave, HandleMapped, HandleState, HandleUnmapped, HandleResponse
<1>10. CASE BridgeRestarts
  BY <1>10 DEF BridgeRestarts, Idle
<1>11. ASSUME NEW g \in Handlers, NEW s \in Surfaces, AutoPlace(g, s)
       PROVE  Same \/ New
  <2>1. autoplace \cap Surfaces # {} /\ {} \in SUBSET handler[h].todo /\ {} \in SUBSET handler[g].todo
    BY <1>11 DEF AutoPlace
  <2>. QED
    BY <1>6, <1>11, <2>1 DEF AutoPlace, serving, SurfaceActions
<1>12. ASSUME NEW g \in Handlers, NEW kind \in Kinds, NEW s \in Surfaces, NEW v \in 0..2, NEW o \in Outputs \cup {None},
              Begin(g, kind, s, v, o)
       PROVE  Same \/ New
  <2>1. {} \in SUBSET handler[g].todo
    OBVIOUS
  <2>. QED
    BY <1>6, <1>12, <2>1, KindAssumption DEF Begin
<1>. QED
  BY <1>7, <1>8, <1>9, <1>10, <1>11, <1>12 DEF Next

LEMMA KindsInit == Init => KindsInv
BY DEF Init, KindsInv, WaitersInv, Tasks, IsTask, WaitersAreOwned, Idle

LEMMA KindsStep ==
  ASSUME KindsInv, [Next]_vars
  PROVE  KindsInv'
<1>1. WaitersInv' /\ Tasks
  BY WaitersStep DEF KindsInv, WaitersInv
<1>. QED
  BY <1>1, HandlersGo DEF KindsInv

-----------------------------------------------------------------------------
(* Which steps change the queues and the policies.                         *)

\* The bridge decides the policy of a surface and tells the plugin.
Decides(s, p) ==
  /\ policies' = [policies EXCEPT ![s] = p] /\ UNCHANGED actorUID
  /\ Tell(<<Upsert(s, p)>>) \/ (p = None /\ Tell(<<[op |-> "policy_remove", surface |-> s]>>))

SetsActor(u) ==
  /\ actorUID' = u /\ UNCHANGED policies
  /\ Tell(<<[op |-> "input_context", uid |-> u]>>)

\* It asks for something that is not about policies.
Asks ==
  /\ UNCHANGED <<policies, actorUID>>
  /\ \/ UNCHANGED down
     \/ \E c \in link : \E m : m.op \in Commands /\ down' = [down EXCEPT ![c] = @ \o <<m>>]

Talks == (\E s, p : Decides(s, p)) \/ (\E u : SetsActor(u)) \/ Asks

Hears(c, m) ==
  /\ Decodes(c, m) /\ UNCHANGED <<links, policy>> /\ Talks
  /\ IsEvent(m, {"unmapped"}) => Decides(m.surface, None)

Reports ==
  \E lines : IsSequence(lines) /\ SendLines(lines) /\ UNCHANGED <<links, down, policy, policies, actorUID>>

LEMMA PluginGoes ==
  ASSUME PluginNext, UNCHANGED bridge
  PROVE  \/ UNCHANGED <<links, up, down, policy, policies, actorUID>>
         \/ Reports
         \/ \E s \in Surfaces : UnmapView(s)
         \/ \E m : ReadPolicy(m) \/ ReadCommand(m)
         \/ Connects \/ LosesLink \/ CompositorRestarts
<1>. DEFINE Rest == UNCHANGED <<links, down, policy, policies, actorUID>>
<1>1. UNCHANGED <<conn, session, policies, actorUID>>
  BY DEF bridge, access, control
<1>2. ASSUME NEW a, NEW b, SendLines(<<a>>) \/ SendLines(<<a, b>>), Rest
      PROVE  Reports
  BY <1>2, Short DEF Reports
<1>3. ASSUME Stays
      PROVE  Rest
  BY <1>1, <1>3 DEF Stays, sockets, links, policy
<1>4. CASE Wake \/ ResyncSurfaces
  BY <1>1, <1>4 DEF Wake, ResyncSurfaces, sockets, links, policy
<1>5. ASSUME NEW s \in Surfaces, Announce(s)
      PROVE  Reports
  BY <1>2, <1>3, <1>5 DEF Announce
<1>6. ASSUME NEW i \in DOMAIN wake, ProcessChange(i) \/ ProcessRaised(i) \/ ProcessCapture(i) \/ Refuses(i)
      PROVE  Reports
  BY <1>2, <1>3, <1>6 DEF ProcessChange, ProcessRaised, ProcessCapture, Refuses, Serves
<1>7. ASSUME NEW i \in DOMAIN wake, ProcessFocus(i) \/ ProcessInput(i)
      PROVE  Reports
  <2>1. GivesFocus(i) /\ Stays
    BY <1>7 DEF ProcessFocus, ProcessInput, GivesFocus, Serves
  <2>2. \/ SendLines(<<Response(wake[i], TRUE)>>)
        \/ SendLines(<<Shows("focused", wake[i].surface), Response(wake[i], TRUE)>>)
    BY <2>1 DEF GivesFocus
  <2>. QED
    BY <1>2, <1>3, <2>1, <2>2
<1>8. ASSUME NEW i \in DOMAIN wake, ProcessRaise(i) \/ ProcessClose(i)
      PROVE  Rest /\ UNCHANGED up
  BY <1>3, <1>8 DEF ProcessRaise, ProcessClose, Serves
<1>9. ASSUME NEW s \in Surfaces, UserFocuses(s) \/ \E u \in Uids : MapView(s, u)
      PROVE  Reports
  <2>1. Rest
    BY <1>1, <1>9 DEF UserFocuses, MapView, sockets, links, policy
  <2>. QED
    BY <1>2, <1>9, <2>1 DEF UserFocuses, MapView
<1>. QED
  BY <1>4, <1>5, <1>6, <1>7, <1>8, <1>9 DEF PluginNext, LoopNext

LEMMA BridgeGoes ==
  ASSUME KindsInv, Queues, [Next]_vars, ~(PluginNext /\ UNCHANGED bridge), ~UNCHANGED vars
  PROVE  \/ UNCHANGED <<links, up, policy>> /\ Talks
         \/ \E c \in Conns : \E m : Hears(c, m)
         \/ \E c \in Conns : Install(c)
         \/ \E c \in Conns : Leave(c) /\ conn[c] \in {"installed", "reading"} /\ UNCHANGED down
         \/ \E c \in Conns : Sync(c) /\ c \in link
         \/ BridgeRestarts
<1>. DEFINE Here == UNCHANGED <<links, up, policy>>
<1>1. ASSUME Controls
      PROVE  Here
  BY <1>1 DEF Controls, plugin, sockets, links
<1>2. CASE PolicyNext
  <2>1. ASSUME NEW s \in Surfaces, NEW p \in Overrides, UpsertSurfacePolicy(s, p)
        PROVE  Here /\ Talks
    BY <1>1, <2>1 DEF UpsertSurfacePolicy, Calls, Talks, Decides
  <2>2. ASSUME NEW s \in Surfaces, RemoveSurfacePolicy(s)
        PROVE  Here /\ Talks
    BY <1>1, <2>2 DEF RemoveSurfacePolicy, Calls, Talks, Decides
  <2>3. ASSUME NEW u \in Uids \cup {None}, SetInputContext(u)
        PROVE  Here /\ Talks
    BY <1>1, <2>3 DEF SetInputContext, Calls, Talks, SetsActor, access
  <2>4. ASSUME NEW s \in Surfaces, NEW u \in Uids, NEW a \in GrantSets, GrantViewport(s, u, a)
        PROVE  Here /\ Talks
    BY <1>1, <2>4 DEF GrantViewport, Calls, Talks, SyncDerived, Decides
  <2>5. ASSUME NEW s \in Surfaces, NEW u \in Uids, RevokeViewport(s, u)
        PROVE  Here /\ Talks
    BY <1>1, <2>5 DEF RevokeViewport, Calls, Talks, SyncDerived, Decides, Asks
  <2>. QED
    BY <1>2, <2>1, <2>2, <2>3, <2>4, <2>5 DEF PolicyNext
<1>3. CASE RequestNext
  <2>1. PICK m : m.op \in Commands /\ Requests(m)
    <3>1. PICK m : Requests(m) /\ m.op \in {"close", "close_by_uid", "property"}
      <4>1. ASSUME NEW s \in Surfaces, CloseSurface(s)
            PROVE  \E m : Requests(m) /\ m.op = "close"
        <5>1. PICK m : m = [op |-> "close", surface |-> s]
          OBVIOUS
        <5>. QED
          BY <4>1, <5>1 DEF CloseSurface
      <4>2. ASSUME NEW u \in Uids, CloseSurfacesByUID(u)
            PROVE  \E m : Requests(m) /\ m.op = "close_by_uid"
        <5>1. PICK m : m = [op |-> "close_by_uid", surface |-> None, uid |-> u]
          OBVIOUS
        <5>. QED
          BY <4>2, <5>1 DEF CloseSurfacesByUID
      <4>3. ASSUME NEW s \in Surfaces, NEW v \in 0..1, SetViewProperty(s, v)
            PROVE  \E m : Requests(m) /\ m.op = "property"
        <5>1. PICK m : m = [op |-> "property", id |-> 0, surface |-> s, prop |-> "above", value |-> v]
          OBVIOUS
        <5>. QED
          BY <4>3, <5>1 DEF SetViewProperty
      <4>. QED
        BY <1>3, <4>1, <4>2, <4>3 DEF RequestNext
    <3>. QED
      BY <3>1 DEF Commands
  <2>2. Here /\ UNCHANGED <<policies, actorUID>> /\ Tell(<<m>>)
    BY <1>1, <2>1 DEF Requests, Calls, access
  <2>. QED
    BY <2>1, <2>2 DEF Talks, Asks, Tell
<1>4. CASE OutputNext
  <2>1. PICK h \in Handlers, o \in Outputs : CreateOutput(h, o) \/ DestroyOutput(h, o) \/ ResizeOutput(h, o)
    BY <1>4 DEF OutputNext
  <2>2. Here /\ UNCHANGED <<down, policies, actorUID>>
    BY <1>1, <2>1 DEF CreateOutput, DestroyOutput, ResizeOutput, access
  <2>. QED
    BY <2>2 DEF Talks, Asks
<1>5. ASSUME NEW c \in Conns, ConnNext(c)
      PROVE  \/ \E m : Hears(c, m)
             \/ Install(c)
             \/ Leave(c) /\ conn[c] \in {"installed", "reading"} /\ UNCHANGED down
             \/ Sync(c) /\ c \in link
  <2>1. CASE Sync(c)
    BY <2>1 DEF Sync
  <2>2. CASE ReaderEnds(c) \/ DecodeFails(c)
    BY <2>2 DEF ReaderEnds, DecodeFails
  <2>3. ASSUME NEW m, HandleMapped(c, m) \/ HandleState(c, m) \/ HandleUnmapped(c, m) \/ HandleResponse(c, m)
        PROVE  Hears(c, m)
    <3>1. Decodes(c, m) /\ UNCHANGED <<links, policy, actorUID>>
      BY <2>3 DEF HandleMapped, HandleState, HandleUnmapped, HandleResponse, Decodes, sockets, links, control
    <3>2. CASE HandleMapped(c, m)
      BY <3>1, <3>2 DEF HandleMapped, SyncDerived, Hears, Talks, Decides, IsEvent
    <3>3. CASE HandleState(c, m)
      <4>1. \/ UNCHANGED <<policies, down>>
            \/ SyncDerived(m.surface, m, grants[m.surface])
        BY <3>3 DEF HandleState
      <4>2. ~IsEvent(m, {"unmapped"})
        BY <3>3 DEF HandleState, IsEvent
      <4>. QED
        BY <3>1, <4>1, <4>2 DEF SyncDerived, Hears, Talks, Decides, Asks
    <3>4. CASE HandleUnmapped(c, m)
      BY <3>1, <3>4 DEF HandleUnmapped, Hears, Talks, Decides
    <3>5. CASE HandleResponse(c, m)
      BY <3>1, <3>5 DEF HandleResponse, Hears, Talks, Asks, IsEvent, access
    <3>. QED
      BY <2>3, <3>2, <3>3, <3>4, <3>5
  <2>. QED
    BY <1>5, <2>1, <2>2, <2>3 DEF ConnNext
<1>6. ASSUME Acts
      PROVE  Here /\ UNCHANGED <<policies, actorUID>>
  BY <1>6 DEF Acts, plugin, sockets, links, access, control
<1>7. ASSUME NEW h \in Handlers, HandlerNext(h)
      PROVE  Here /\ Talks
  <2>1. CASE Send(h)
    <3>1. Here /\ UNCHANGED <<policies, actorUID>>
      BY <1>6, <2>1 DEF Send
    <3>2. PICK c, m : /\ m = [op |-> OpOf(handler[h].kind), id |-> handler[h].id, surface |-> handler[h].surface,
                             prop |-> PropOf(handler[h].kind), value |-> handler[h].value]
                      /\ UNCHANGED down \/ (c \in link /\ down' = [down EXCEPT ![c] = Append(@, m)])
      BY <2>1 DEF Send
    <3>3. handler[h].kind \in SurfaceActions
      BY <2>1 DEF Send, KindsInv
    <3>4. m.op \in Commands
      BY <3>2, <3>3 DEF SurfaceActions, OpOf, PropOf, Commands
    <3>5. ASSUME c \in link, down' = [down EXCEPT ![c] = Append(@, m)]
          PROVE  down' = [down EXCEPT ![c] = @ \o <<m>>]
      <4>1. CASE c \in Conns
        <5>1. IsSequence(down[c])
          BY <4>1 DEF Queues
        <5>. QED
          BY <3>5, <5>1, Appending
      <4>2. CASE c \notin Conns
        BY <3>5, <4>2 DEF Queues
      <4>. QED
        BY <4>1, <4>2
    <3>. QED
      BY <3>1, <3>2, <3>4, <3>5 DEF Talks, Asks
  <2>2. CASE TakeAnswer(h) \/ Readback(h) \/ TimesOut(h) \/ Answer(h) \/ AssignOutput(h) \/ CheckPlaced(h)
             \/ \E s \in Surfaces : Reassign(h, s)
    <3>1. Acts /\ UNCHANGED down
      BY <2>2 DEF TakeAnswer, Readback, TimesOut, Answer, AssignOutput, CheckPlaced, Reassign
    <3>. QED
      BY <1>6, <3>1 DEF Talks, Asks
  <2>3. CASE RecordPlacement(h)
    BY <2>3 DEF RecordPlacement, plugin, sockets, links, access, Talks, Asks
  <2>. QED
    BY <1>7, <2>1, <2>2, <2>3 DEF HandlerNext
<1>8. ASSUME NEW h \in Handlers, NEW s \in Surfaces, AutoPlace(h, s)
      PROVE  Here /\ Talks
  BY <1>6, <1>8 DEF AutoPlace, Talks, Asks
<1>9. ASSUME NEW h \in Handlers, NEW kind \in Kinds, NEW s \in Surfaces, NEW v \in 0..2, NEW o \in Outputs \cup {None},
              Begin(h, kind, s, v, o)
       PROVE  Here /\ Talks
  BY <1>6, <1>9 DEF Begin, Talks, Asks
<1>. QED
  BY <1>2, <1>3, <1>4, <1>5, <1>7, <1>8, <1>9 DEF Next

-----------------------------------------------------------------------------
(* The queues hold lines, and every step adds some, takes the first or     *)
(* drops them all.                                                         *)

LEMMA TopicOf ==
  ASSUME NEW s, NEW m
  PROVE  /\ Of(Policy(s), m) <=> \/ m.op = "policy_replace"
                                 \/ m.op \in {"policy_upsert", "policy_remove"} /\ m.surface = s
         /\ m.op = "policy_replace" => Content(Policy(s), m) = m.policies[s]
         /\ m.op = "policy_upsert" => Content(Policy(s), m) = m.policy
         /\ m.op = "policy_remove" => Content(Policy(s), m) = None
         /\ Of(Actor, m) <=> m.op = "input_context"
         /\ Content(Actor, m) = m.uid
         /\ Of(Shown(s), m) <=> m.type = "event" /\ m.surface = s
         /\ Content(Shown(s), m) = IF m.event = "unmapped" THEN <<>> ELSE <<m.owner, m.state>>
<1>1. Policy(s)[1] = "policy" /\ Policy(s)[2] = s
  BY DEF Policy
<1>2. Actor[1] = "actor" /\ Shown(s)[1] = "event" /\ Shown(s)[2] = s
  BY DEF Actor, Shown
<1>. QED
  BY <1>1, <1>2 DEF Of, Content

LEMMA WholeQueue ==
  ASSUME NEW q, NEW r, IsSequence(q), IsSequence(r), Whole(q)
  PROVE  /\ Whole(r) => IsSequence(q \o r) /\ Whole(q \o r)
         /\ q # <<>> => IsSequence(Tail(q)) /\ Whole(Tail(q))
<1>1. ASSUME Whole(r)
      PROVE  IsSequence(q \o r) /\ Whole(q \o r)
  <2>1. PICK t, n, k : t = q \o r /\ n = Len(q) /\ k = Len(r)
    OBVIOUS
  <2>2. /\ n \in Nat /\ k \in Nat /\ DOMAIN q = 1..n /\ DOMAIN r = 1..k /\ DOMAIN t = 1..(n + k)
        /\ \A i \in 1..n : t[i] = q[i]
        /\ \A i \in 1..k : t[n + i] = r[i]
        /\ IsSequence(t)
    BY <2>1, Concatenation
  <2>3. ASSUME NEW i \in DOMAIN t, t[i].op = "policy_replace"
        PROVE  OverSurfaces(t[i].policies)
    <3>1. CASE i \in 1..n
      BY <2>2, <2>3, <3>1 DEF Whole
    <3>2. CASE i \notin 1..n
      <4>1. i - n \in 1..k /\ n + (i - n) = i
        BY <2>2, <3>2
      <4>. QED
        BY <1>1, <2>2, <2>3, <4>1 DEF Whole
    <3>. QED
      BY <3>1, <3>2
  <2>. QED
    BY <2>1, <2>2, <2>3 DEF Whole
<1>2. ASSUME q # <<>>
      PROVE  IsSequence(Tail(q)) /\ Whole(Tail(q))
  <2>1. PICK t, n : t = Tail(q) /\ n = Len(q)
    OBVIOUS
  <2>2. /\ IsSequence(t) /\ n \in Nat \ {0} /\ DOMAIN q = 1..n /\ DOMAIN t = 1..(n - 1)
        /\ \A i \in 1..(n - 1) : t[i] = q[i + 1]
    BY <1>2, <2>1, Tails
  <2>3. \A i \in DOMAIN t : i + 1 \in DOMAIN q /\ t[i] = q[i + 1]
    BY <2>2
  <2>. QED
    BY <2>1, <2>2, <2>3 DEF Whole
<1>. QED
  BY <1>1, <1>2

LEMMA WholeShort ==
  ASSUME NEW a, NEW b
  PROVE  /\ Whole(<<>>)
         /\ a.op # "policy_replace" => Whole(<<a>>)
         /\ (a.op = "policy_replace" => OverSurfaces(a.policies)) /\ b.op # "policy_replace" => Whole(<<a, b>>)
<1>1. Whole(<<>>) /\ (a.op # "policy_replace" => Whole(<<a>>))
  BY DEF Whole
<1>2. ASSUME a.op = "policy_replace" => OverSurfaces(a.policies), b.op # "policy_replace"
      PROVE  Whole(<<a, b>>)
  <2>1. DOMAIN <<a, b>> = {1, 2} /\ <<a, b>>[1] = a /\ <<a, b>>[2] = b
    OBVIOUS
  <2>. QED
    BY <1>2, <2>1 DEF Whole
<1>. QED
  BY <1>1, <1>2

\* What the bridge sends while it talks: nothing, or one line on the open connection.
LEMMA TalksOneLine ==
  ASSUME Talks
  PROVE  \/ UNCHANGED down
         \/ \E c \in link : \E m : m.op # "policy_replace" /\ down' = [down EXCEPT ![c] = @ \o <<m>>]
<1>1. ASSUME NEW m, m.op # "policy_replace", Tell(<<m>>)
      PROVE  \/ UNCHANGED down
             \/ \E c \in link : m.op # "policy_replace" /\ down' = [down EXCEPT ![c] = @ \o <<m>>]
  BY <1>1 DEF Tell
<1>2. ASSUME NEW s, NEW p
      PROVE  Upsert(s, p).op = "policy_upsert"
  BY DEF Upsert
<1>3. ASSUME NEW s
      PROVE  [op |-> "policy_remove", surface |-> s].op = "policy_remove"
  OBVIOUS
<1>4. ASSUME NEW u
      PROVE  [op |-> "input_context", uid |-> u].op = "input_context"
  OBVIOUS
<1>5. "policy_replace" \notin Commands
  BY DEF Commands
<1>6. CASE Asks
  BY <1>5, <1>6 DEF Asks
<1>7. ASSUME NEW s, NEW p, Decides(s, p)
      PROVE  \/ UNCHANGED down
             \/ \E c \in link : \E m : m.op # "policy_replace" /\ down' = [down EXCEPT ![c] = @ \o <<m>>]
  <2>1. CASE Tell(<<Upsert(s, p)>>)
    BY <1>1, <1>2, <2>1
  <2>2. CASE Tell(<<[op |-> "policy_remove", surface |-> s]>>)
    BY <1>1, <1>3, <2>2
  <2>. QED
    BY <1>7, <2>1, <2>2 DEF Decides
<1>8. ASSUME NEW u, SetsActor(u)
      PROVE  \/ UNCHANGED down
             \/ \E c \in link : \E m : m.op # "policy_replace" /\ down' = [down EXCEPT ![c] = @ \o <<m>>]
  BY <1>1, <1>4, <1>8 DEF SetsActor
<1>. QED
  BY <1>6, <1>7, <1>8 DEF Talks

UpOK   == DOMAIN up = Conns /\ \A c \in Conns : IsSequence(up[c])
DownOK == DOMAIN down = Conns /\ \A c \in Conns : IsSequence(down[c]) /\ Whole(down[c])

LEMMA QueuesParts == Queues <=> UpOK /\ DownOK
BY DEF Queues, UpOK, DownOK

LEMMA Sending ==
  ASSUME UpOK, NEW lines, IsSequence(lines), SendLines(lines)
  PROVE  /\ UpOK'
         /\ fd \in link /\ fd \in Conns => up'[fd] = up[fd] \o lines
         /\ \A c \in Conns : c # fd => up'[c] = up[c]
<1>1. \A c \in Conns : IsSequence(up[c] \o lines)
  BY Concatenation DEF UpOK
<1>. QED
  BY <1>1 DEF UpOK, SendLines

LEMMA Telling ==
  ASSUME DownOK, NEW r, IsSequence(r), Whole(r), NEW c, down' = [down EXCEPT ![c] = @ \o r]
  PROVE  DownOK'
<1>1. \A d \in Conns : IsSequence(down[d] \o r) /\ Whole(down[d] \o r)
  BY WholeQueue DEF DownOK
<1>. QED
  BY <1>1 DEF DownOK

LEMMA TalkingDown ==
  ASSUME DownOK, Talks
  PROVE  DownOK'
<1>1. CASE UNCHANGED down
  BY <1>1 DEF DownOK
<1>2. ASSUME NEW c \in link, NEW m, m.op # "policy_replace", down' = [down EXCEPT ![c] = @ \o <<m>>]
      PROVE  DownOK'
  <2>1. IsSequence(<<m>>) /\ Whole(<<m>>)
    BY <1>2, Short, WholeShort
  <2>. QED
    BY <1>2, <2>1, Telling
<1>. QED
  BY <1>1, <1>2, TalksOneLine

\* A reader takes the first line; a restart drops them all.
LEMMA Taking ==
  ASSUME NEW c \in Conns
  PROVE  /\ UpOK /\ up[c] # <<>> /\ up' = [up EXCEPT ![c] = Tail(@)] => UpOK'
         /\ DownOK /\ down[c] # <<>> /\ down' = [down EXCEPT ![c] = Tail(@)] => DownOK'
         /\ UpOK /\ up' = [up EXCEPT ![c] = <<>>] => UpOK'
         /\ DownOK /\ down' = [down EXCEPT ![c] = <<>>] => DownOK'
<1>1. ASSUME UpOK, up[c] # <<>>, up' = [up EXCEPT ![c] = Tail(@)]
      PROVE  UpOK'
  <2>1. IsSequence(Tail(up[c]))
    BY <1>1, Tails DEF UpOK
  <2>. QED
    BY <1>1, <2>1 DEF UpOK
<1>2. ASSUME DownOK, down[c] # <<>>, down' = [down EXCEPT ![c] = Tail(@)]
      PROVE  DownOK'
  <2>1. IsSequence(Tail(down[c])) /\ Whole(Tail(down[c]))
    BY <1>2, WholeQueue, Short DEF DownOK
  <2>. QED
    BY <1>2, <2>1 DEF DownOK
<1>3. IsSequence(<<>>) /\ Whole(<<>>)
  BY Short, WholeShort
<1>. QED
  BY <1>1, <1>2, <1>3 DEF UpOK, DownOK

LEMMA QueuesStep ==
  ASSUME Links, KindsInv, Queues, OverSurfaces(policies), [Next]_vars
  PROVE  Queues'
<1>0. UpOK /\ DownOK
  BY QueuesParts
<1>a. UpOK' /\ DownOK' => Queues'
  BY DEF Queues, UpOK, DownOK
<1>b. UNCHANGED up => UpOK'
  BY <1>0 DEF UpOK
<1>c. UNCHANGED down => DownOK'
  BY <1>0 DEF DownOK
<1>1. CASE UNCHANGED <<up, down>>
  BY <1>1 DEF Queues
<1>2. CASE Reports
  BY <1>0, <1>2, Sending, <1>a, <1>c DEF Reports
<1>3. ASSUME NEW s \in Surfaces, UnmapView(s)
      PROVE  Queues'
  BY <1>0, <1>3, Sending, Short, <1>a, <1>c DEF UnmapView
<1>4. ASSUME NEW m, ReadPolicy(m) \/ ReadCommand(m)
      PROVE  Queues'
  <2>1. fd \in Conns /\ down[fd] # <<>> /\ down' = [down EXCEPT ![fd] = Tail(@)] /\ UNCHANGED up
    BY <1>4, BoundAssumption DEF ReadPolicy, ReadCommand, Reads, Links, Conns
  <2>. QED
    BY <1>0, <2>1, Taking, <1>a, <1>b
<1>5. CASE Connects
  BY <1>5 DEF Connects, Queues
<1>6. CASE LosesLink
  <2>1. fd \in Conns /\ down' = [down EXCEPT ![fd] = <<>>] /\ UNCHANGED up
    BY <1>6, BoundAssumption DEF LosesLink, Links, Conns
  <2>. QED
    BY <1>0, <2>1, Taking, <1>a, <1>b
<1>7. IsSequence(<<>>) /\ Whole(<<>>)
  BY Short, WholeShort
<1>8. CASE CompositorRestarts
  BY <1>7, <1>8 DEF CompositorRestarts, Queues
<1>9. CASE BridgeRestarts
  BY <1>7, <1>9 DEF BridgeRestarts, Queues
<1>10. CASE UNCHANGED up /\ Talks
  BY <1>0, <1>10, TalkingDown, <1>a, <1>b
<1>11. ASSUME NEW c \in Conns, NEW m, Hears(c, m)
       PROVE  Queues'
  <2>1. up[c] # <<>> /\ up' = [up EXCEPT ![c] = Tail(@)] /\ Talks
    BY <1>11 DEF Hears, Decodes
  <2>. QED
    BY <1>0, <2>1, Taking, TalkingDown, <1>a
<1>12. ASSUME NEW c \in Conns, Install(c)
       PROVE  UNCHANGED <<up, down>>
  BY <1>12 DEF Install
<1>13. ASSUME NEW c \in Conns, Leave(c), UNCHANGED down
       PROVE  Queues'
  <2>1. up' = [up EXCEPT ![c] = <<>>]
    BY <1>13 DEF Leave
  <2>. QED
    BY <1>0, <1>13, <2>1, Taking, <1>a, <1>c
<1>14. ASSUME NEW c \in Conns, Sync(c), c \in link
       PROVE  Queues'
  <2>1. PICK a, b : /\ a = [op |-> "policy_replace", policies |-> policies]
                    /\ b = [op |-> "input_context", uid |-> actorUID]
    OBVIOUS
  <2>2. down' = [down EXCEPT ![c] = @ \o <<a, b>>] /\ UNCHANGED up
    BY <1>14, <2>1 DEF Sync
  <2>3. a.policies = policies /\ b.op # "policy_replace"
    BY <2>1
  <2>4. IsSequence(<<a, b>>) /\ Whole(<<a, b>>)
    BY <2>3, Short, WholeShort
  <2>. QED
    BY <1>0, <2>2, <2>4, Telling, <1>a, <1>b
<1>15. CASE PluginNext /\ UNCHANGED bridge
  BY <1>1, <1>2, <1>3, <1>4, <1>5, <1>6, <1>8, <1>15, PluginGoes
<1>16. CASE UNCHANGED vars
  BY <1>1, <1>16 DEF vars, compositor
<1>. QED
  BY <1>1, <1>9, <1>10, <1>11, <1>12, <1>13, <1>14, <1>15, <1>16, BridgeGoes

-----------------------------------------------------------------------------
(* The plugin's policies follow the bridge's.                              *)

Reaching == fd \in link /\ conn[fd] = "reading"

PolicyLeads(s) == Leads(down[fd], Policy(s), cache[s], policies[s])
ActorLeads     == Leads(down[fd], Actor, actor, actorUID)

LEMMA OneLine ==
  ASSUME NEW q, IsSequence(q), NEW m, NEW topic, NEW x, NEW y
  PROVE  /\ Of(topic, m) => Leads(q \o <<m>>, topic, y, Content(topic, m))
         /\ ~Of(topic, m) /\ Leads(q, topic, y, x) => Leads(q \o <<m>>, topic, y, x)
<1>1. IsSequence(<<m>>)
  BY Short
<1>2. PICK r : r = <<m>>
  OBVIOUS
<1>3. (Of(topic, m) => Says(r, topic, Content(topic, m))) /\ (~Of(topic, m) => Silent(r, topic))
  BY <1>2, SaysShort
<1>4. PICK z : z = Content(topic, m)
  OBVIOUS
<1>5. ASSUME Of(topic, m)
      PROVE  Leads(q \o r, topic, y, z)
  BY <1>1, <1>2, <1>3, <1>4, <1>5, LeadsOn
<1>6. ASSUME ~Of(topic, m), Leads(q, topic, y, x)
      PROVE  Leads(q \o r, topic, y, x)
  BY <1>1, <1>2, <1>3, <1>6, LeadsOn
<1>. QED
  BY <1>2, <1>4, <1>5, <1>6

\* A line from the bridge reaches the plugin's connection.
LEMMA Told ==
  ASSUME Links, DownOK, Reaching, NEW m, Tell(<<m>>)
  PROVE  IsSequence(down[fd]) /\ down'[fd] = down[fd] \o <<m>>
<1>1. fd \in Conns /\ session = fd
  BY BoundAssumption DEF Links, Reaching, Conns
<1>. QED
  BY <1>1 DEF Tell, Reaching, DownOK

LEMMA DecidesLead ==
  ASSUME Links, DownOK, OverSurfaces(policies), Reaching, NEW s, NEW p, Decides(s, p)
  PROVE  /\ OverSurfaces(policies')
         /\ s \in Surfaces => Leads(down'[fd], Policy(s), cache[s], policies'[s])
         /\ \A t \in Surfaces : PolicyLeads(t) => Leads(down'[fd], Policy(t), cache[t], policies'[t])
         /\ ActorLeads => Leads(down'[fd], Actor, actor, actorUID')
<1>1. PICK m : /\ m.op \in {"policy_upsert", "policy_remove"} /\ m.surface = s
               /\ m.op = "policy_upsert" => m.policy = p
               /\ m.op = "policy_remove" => p = None
               /\ Tell(<<m>>)
  <2>1. PICK a : a = Upsert(s, p)
    OBVIOUS
  <2>2. PICK b : b = [op |-> "policy_remove", surface |-> s]
    OBVIOUS
  <2>3. a.op = "policy_upsert" /\ a.surface = s /\ a.policy = p
    BY <2>1 DEF Upsert
  <2>4. b.op = "policy_remove" /\ b.surface = s
    BY <2>2
  <2>5. Tell(<<a>>) \/ (p = None /\ Tell(<<b>>))
    BY <2>1, <2>2 DEF Decides
  <2>6. CASE Tell(<<a>>)
    BY <2>3, <2>6
  <2>7. CASE p = None /\ Tell(<<b>>)
    BY <2>4, <2>7
  <2>. QED
    BY <2>5, <2>6, <2>7
<1>2. IsSequence(down[fd]) /\ down'[fd] = down[fd] \o <<m>>
  BY <1>1, Told
<1>3. OverSurfaces(policies') /\ \A t \in Surfaces : policies'[t] = IF t = s THEN p ELSE policies[t]
  BY DEF Decides, OverSurfaces
<1>4. ASSUME s \in Surfaces
      PROVE  Leads(down'[fd], Policy(s), cache[s], policies'[s])
  <2>1. Of(Policy(s), m) /\ Content(Policy(s), m) = p
    BY <1>1, TopicOf
  <2>2. Leads(down[fd] \o <<m>>, Policy(s), cache[s], Content(Policy(s), m))
    BY <1>2, <2>1, OneLine
  <2>. QED
    BY <1>2, <1>3, <1>4, <2>1, <2>2
<1>5. ASSUME NEW t \in Surfaces, PolicyLeads(t)
      PROVE  Leads(down'[fd], Policy(t), cache[t], policies'[t])
  <2>1. CASE t = s
    BY <1>4, <2>1
  <2>2. CASE t # s
    <3>1. ~Of(Policy(t), m)
      BY <1>1, <2>2, TopicOf
    <3>2. Leads(down[fd] \o <<m>>, Policy(t), cache[t], policies[t])
      BY <1>2, <1>5, <3>1, OneLine DEF PolicyLeads
    <3>. QED
      BY <1>2, <1>3, <2>2, <3>2
  <2>. QED
    BY <2>1, <2>2
<1>6. ASSUME ActorLeads
      PROVE  Leads(down'[fd], Actor, actor, actorUID')
  <2>1. ~Of(Actor, m)
    BY <1>1, TopicOf
  <2>2. Leads(down[fd] \o <<m>>, Actor, actor, actorUID)
    BY <1>2, <1>6, <2>1, OneLine DEF ActorLeads
  <2>. QED
    BY <1>2, <2>2 DEF Decides
<1>. QED
  BY <1>3, <1>4, <1>5, <1>6

LEMMA TalksLead ==
  ASSUME Links, DownOK, OverSurfaces(policies), Reaching, Talks
  PROVE  /\ \A t \in Surfaces : PolicyLeads(t) => Leads(down'[fd], Policy(t), cache[t], policies'[t])
         /\ ActorLeads => Leads(down'[fd], Actor, actor, actorUID')
<1>1. ASSUME NEW s, NEW p, Decides(s, p)
      PROVE  /\ \A t \in Surfaces : PolicyLeads(t) => Leads(down'[fd], Policy(t), cache[t], policies'[t])
             /\ ActorLeads => Leads(down'[fd], Actor, actor, actorUID')
  BY <1>1, DecidesLead
<1>2. ASSUME NEW u, SetsActor(u)
      PROVE  /\ \A t \in Surfaces : PolicyLeads(t) => Leads(down'[fd], Policy(t), cache[t], policies'[t])
             /\ ActorLeads => Leads(down'[fd], Actor, actor, actorUID')
  <2>1. PICK m : m = [op |-> "input_context", uid |-> u]
    OBVIOUS
  <2>2. m.op = "input_context" /\ m.uid = u
    BY <2>1
  <2>3. IsSequence(down[fd]) /\ down'[fd] = down[fd] \o <<m>>
    BY <1>2, <2>1, Told DEF SetsActor
  <2>4. Of(Actor, m) /\ Content(Actor, m) = u
    BY <2>2, TopicOf
  <2>5. Leads(down[fd] \o <<m>>, Actor, actor, Content(Actor, m))
    BY <2>3, <2>4, OneLine
  <2>6. ASSUME NEW t \in Surfaces, PolicyLeads(t)
        PROVE  Leads(down[fd] \o <<m>>, Policy(t), cache[t], policies[t])
    <3>1. ~Of(Policy(t), m)
      BY <2>2, TopicOf
    <3>. QED
      BY <2>3, <2>6, <3>1, OneLine DEF PolicyLeads
  <2>. QED
    BY <1>2, <2>3, <2>4, <2>5, <2>6 DEF SetsActor
<1>3. ASSUME Asks
      PROVE  /\ \A t \in Surfaces : PolicyLeads(t) => Leads(down'[fd], Policy(t), cache[t], policies'[t])
             /\ ActorLeads => Leads(down'[fd], Actor, actor, actorUID')
  <2>1. UNCHANGED <<policies, actorUID>>
    BY <1>3 DEF Asks
  <2>2. CASE UNCHANGED down
    BY <2>1, <2>2 DEF PolicyLeads, ActorLeads
  <2>3. ASSUME NEW c \in link, NEW m, m.op \in Commands, down' = [down EXCEPT ![c] = @ \o <<m>>]
        PROVE  /\ \A t \in Surfaces : PolicyLeads(t) => Leads(down'[fd], Policy(t), cache[t], policies'[t])
               /\ ActorLeads => Leads(down'[fd], Actor, actor, actorUID')
    <3>1. c = fd /\ fd \in Conns
      BY <2>3, BoundAssumption DEF Links, Conns
    <3>2. IsSequence(down[fd]) /\ down'[fd] = down[fd] \o <<m>>
      BY <2>3, <3>1 DEF DownOK
    <3>3. m.op \notin {"policy_replace", "policy_upsert", "policy_remove", "input_context"}
      BY <2>3 DEF Commands
    <3>4. ASSUME NEW t \in Surfaces, PolicyLeads(t)
          PROVE  Leads(down[fd] \o <<m>>, Policy(t), cache[t], policies[t])
      <4>1. ~Of(Policy(t), m)
        BY <3>3, TopicOf
      <4>. QED
        BY <3>2, <3>4, <4>1, OneLine DEF PolicyLeads
    <3>5. ASSUME ActorLeads
          PROVE  Leads(down[fd] \o <<m>>, Actor, actor, actorUID)
      <4>1. ~Of(Actor, m)
        BY <3>3, TopicOf
      <4>. QED
        BY <3>2, <3>5, <4>1, OneLine DEF ActorLeads
    <3>. QED
      BY <2>1, <3>2, <3>4, <3>5
  <2>. QED
    BY <1>3, <2>2, <2>3 DEF Asks
<1>. QED
  BY <1>1, <1>2, <1>3 DEF Talks


\* The plugin reads: the line is about policies or it is a command.
LEMMA ReadsLead ==
  ASSUME Links, DownOK, OverSurfaces(cache), NEW m, ReadPolicy(m) \/ ReadCommand(m)
  PROVE  /\ OverSurfaces(cache')
         /\ \A s \in Surfaces : PolicyLeads(s) => Leads(down'[fd], Policy(s), cache'[s], policies[s])
         /\ ActorLeads => Leads(down'[fd], Actor, actor', actorUID)
<1>0. PICK q : q = down[fd]
  OBVIOUS
<1>1. fd \in Conns /\ q # <<>> /\ m = Head(q) /\ down' = [down EXCEPT ![fd] = Tail(@)]
  BY <1>0, BoundAssumption DEF ReadPolicy, ReadCommand, Reads, Links, Conns
<1>2. IsSequence(q) /\ Whole(q) /\ down'[fd] = Tail(q)
  BY <1>0, <1>1 DEF DownOK
<1>3. m.op = "policy_replace" => OverSurfaces(m.policies)
  <2>1. PICK n : n = Len(q)
    OBVIOUS
  <2>2. n \in Nat \ {0} /\ Head(q) = q[1] /\ DOMAIN q = 1..n
    BY <1>1, <1>2, <2>1, Tails
  <2>3. 1 \in DOMAIN q /\ m = q[1]
    BY <1>1, <2>2
  <2>. QED
    BY <1>2, <2>3 DEF Whole
<1>4. /\ OverSurfaces(cache')
      /\ \A s \in Surfaces : cache'[s] = IF Of(Policy(s), m) THEN Content(Policy(s), m) ELSE cache[s]
      /\ actor' = IF Of(Actor, m) THEN Content(Actor, m) ELSE actor
  <2>1. CASE m.op = "policy_replace" /\ cache' = m.policies /\ UNCHANGED actor
    BY <1>3, <2>1, TopicOf
  <2>2. CASE m.op = "policy_upsert" /\ cache' = [cache EXCEPT ![m.surface] = m.policy] /\ UNCHANGED actor
    <3>1. OverSurfaces(cache') /\ \A s \in Surfaces : cache'[s] = IF s = m.surface THEN m.policy ELSE cache[s]
      BY <2>2 DEF OverSurfaces
    <3>2. \A s \in Surfaces : /\ Of(Policy(s), m) <=> s = m.surface
                              /\ Content(Policy(s), m) = m.policy
      BY <2>2, TopicOf
    <3>3. ~Of(Actor, m)
      BY <2>2, TopicOf
    <3>. QED
      BY <2>2, <3>1, <3>2, <3>3
  <2>3. CASE m.op = "policy_remove" /\ cache' = [cache EXCEPT ![m.surface] = None] /\ UNCHANGED actor
    <3>1. OverSurfaces(cache') /\ \A s \in Surfaces : cache'[s] = IF s = m.surface THEN None ELSE cache[s]
      BY <2>3 DEF OverSurfaces
    <3>2. \A s \in Surfaces : /\ Of(Policy(s), m) <=> s = m.surface
                              /\ Content(Policy(s), m) = None
      BY <2>3, TopicOf
    <3>3. ~Of(Actor, m)
      BY <2>3, TopicOf
    <3>. QED
      BY <2>3, <3>1, <3>2, <3>3
  <2>4. CASE m.op = "input_context" /\ actor' = m.uid /\ UNCHANGED cache
    <3>1. Of(Actor, m) /\ Content(Actor, m) = m.uid /\ \A s \in Surfaces : ~Of(Policy(s), m)
      BY <2>4, TopicOf
    <3>. QED
      BY <2>4, <3>1
  <2>5. CASE m.op \in Commands /\ UNCHANGED <<cache, actor>>
    <3>1. m.op \notin {"policy_replace", "policy_upsert", "policy_remove", "input_context"}
      BY <2>5 DEF Commands
    <3>2. ~Of(Actor, m) /\ \A s \in Surfaces : ~Of(Policy(s), m)
      BY <3>1, TopicOf
    <3>. QED
      BY <2>5, <3>2
  <2>. QED
    BY <2>1, <2>2, <2>3, <2>4, <2>5 DEF ReadPolicy, ReadCommand, policy
<1>5. ASSUME NEW s \in Surfaces, PolicyLeads(s)
      PROVE  Leads(down'[fd], Policy(s), cache'[s], policies[s])
  <2>1. Leads(q, Policy(s), cache[s], policies[s])
    BY <1>0, <1>5 DEF PolicyLeads
  <2>2. /\ Of(Policy(s), Head(q)) => Leads(Tail(q), Policy(s), Content(Policy(s), Head(q)), policies[s])
        /\ ~Of(Policy(s), Head(q)) => Leads(Tail(q), Policy(s), cache[s], policies[s])
    BY <1>1, <1>2, <2>1, LeadsOff
  <2>. QED
    BY <1>1, <1>2, <1>4, <2>2
<1>6. ASSUME ActorLeads
      PROVE  Leads(down'[fd], Actor, actor', actorUID)
  <2>1. Leads(q, Actor, actor, actorUID)
    BY <1>0, <1>6 DEF ActorLeads
  <2>2. /\ Of(Actor, Head(q)) => Leads(Tail(q), Actor, Content(Actor, Head(q)), actorUID)
        /\ ~Of(Actor, Head(q)) => Leads(Tail(q), Actor, actor, actorUID)
    BY <1>1, <1>2, <2>1, LeadsOff
  <2>. QED
    BY <1>1, <1>2, <1>4, <2>2
<1>. QED
  BY <1>4, <1>5, <1>6

\* What the plugin reported stays on its way, and the bridge drops the policy
\* when it hears of it.
LEMMA StillUntold ==
  ASSUME NEW q, IsSequence(q), NEW r, IsSequence(r), NEW s
  PROVE  /\ Drops(q, s) => Drops(q \o r, s)
         /\ Drops(r, s) => Drops(q \o r, s)
         /\ q # <<>> /\ Drops(q, s) => \/ IsEvent(Head(q), {"unmapped"}) /\ Head(q).surface = s
                                      \/ Drops(Tail(q), s)
<1>0. PICK n, k, t, u : n = Len(q) /\ k = Len(r) /\ t = q \o r /\ u = Tail(q)
  OBVIOUS
<1>2. /\ n \in Nat /\ k \in Nat /\ DOMAIN q = 1..n /\ DOMAIN r = 1..k /\ DOMAIN t = 1..(n + k)
      /\ \A i \in 1..n : t[i] = q[i]
      /\ \A i \in 1..k : t[n + i] = r[i]
  BY <1>0, Concatenation
<1>3. ASSUME NEW i \in DOMAIN q
      PROVE  i \in DOMAIN t /\ t[i] = q[i]
  BY <1>2
<1>4. ASSUME NEW i \in DOMAIN r
      PROVE  n + i \in DOMAIN t /\ t[n + i] = r[i]
  BY <1>2
<1>5. ASSUME q # <<>>, NEW i \in DOMAIN q
      PROVE  q[i] = Head(q) \/ (i - 1 \in DOMAIN u /\ u[i - 1] = q[i])
  <2>1. n \in Nat \ {0} /\ Head(q) = q[1] /\ DOMAIN u = 1..(n - 1) /\ \A j \in 1..(n - 1) : u[j] = q[j + 1]
    BY <1>0, <1>5, Tails
  <2>2. CASE i = 1
    BY <2>1, <2>2
  <2>3. CASE i # 1
    <3>1. i - 1 \in 1..(n - 1) /\ (i - 1) + 1 = i
      BY <1>2, <1>5, <2>3
    <3>. QED
      BY <2>1, <3>1
  <2>. QED
    BY <2>2, <2>3
<1>6. ASSUME NEW i \in DOMAIN q, IsEvent(q[i], {"unmapped"}) /\ q[i].surface = s
      PROVE  Drops(t, s)
  BY <1>3, <1>6 DEF Drops
<1>7. ASSUME NEW i \in DOMAIN r, IsEvent(r[i], {"unmapped"}) /\ r[i].surface = s
      PROVE  Drops(t, s)
  BY <1>4, <1>7 DEF Drops
<1>8. ASSUME q # <<>>, NEW i \in DOMAIN q, IsEvent(q[i], {"unmapped"}) /\ q[i].surface = s
      PROVE  \/ IsEvent(Head(q), {"unmapped"}) /\ Head(q).surface = s
             \/ Drops(u, s)
  BY <1>5, <1>8 DEF Drops
<1>. QED
  BY <1>0, <1>6, <1>7, <1>8 DEF Drops


LEMMA CacheInit == Init => CacheInv /\ KindsInv
<1>. SUFFICES ASSUME Init
              PROVE  CacheInv
  BY KindsInit
<1>1. UpOK /\ DownOK
  BY Short, WholeShort DEF Init, PluginInit, UpOK, DownOK
<1>2. Links
  BY LinksInit
<1>3. OverSurfaces(cache) /\ OverSurfaces(policies) /\ CacheFollows
  BY DEF Init, PluginInit, OverSurfaces, CacheFollows
<1>. QED
  BY <1>1, <1>2, <1>3, QueuesParts DEF CacheInv

LEMMA PluginKeepsCache ==
  ASSUME CacheInv, PluginNext, UNCHANGED bridge
  PROVE  OverSurfaces(cache') /\ OverSurfaces(policies') /\ CacheFollows'
<1>0. UpOK /\ DownOK /\ Links /\ OverSurfaces(cache) /\ OverSurfaces(policies)
  BY QueuesParts DEF CacheInv
<1>1. UNCHANGED <<conn, session, policies, actorUID>>
  BY DEF bridge, access, control
<1>2. fd \in link => fd \in Conns
  BY <1>0, BoundAssumption DEF Links, Conns
<1>3. CASE UNCHANGED <<links, up, down, policy, policies, actorUID>>
  BY <1>3 DEF CacheInv, CacheFollows, Untold, links, policy, OverSurfaces
<1>4. CASE Reports
  <2>0. PICK lines : IsSequence(lines) /\ SendLines(lines)
    BY <1>4 DEF Reports
  <2>1. UNCHANGED <<links, down, policy, policies, actorUID>>
    BY <1>4 DEF Reports
  <2>2. fd \in link => up'[fd] = up[fd] \o lines
    BY <1>0, <1>2, <2>0, Sending
  <2>3. ASSUME NEW s \in Surfaces, fd \in link, Untold(s)
        PROVE  Drops(up'[fd], s)
    <3>1. IsSequence(up[fd])
      BY <1>0, <1>2, <2>3 DEF UpOK
    <3>. QED
      BY <2>0, <2>2, <2>3, <3>1, StillUntold DEF Untold
  <2>. QED
    BY <1>0, <2>1, <2>3 DEF CacheInv, CacheFollows, Untold, links, policy
<1>5. ASSUME NEW s \in Surfaces, UnmapView(s)
      PROVE  OverSurfaces(cache') /\ CacheFollows'
  <2>0. PICK m : m = Shows("unmapped", s)
    OBVIOUS
  <2>1. IsEvent(m, {"unmapped"}) /\ m.surface = s
    BY <2>0 DEF Shows, Event, IsEvent
  <2>2. PICK r : r = <<m>>
    OBVIOUS
  <2>3. IsSequence(r) /\ 1 \in DOMAIN r /\ r[1] = m
    <3>1. IsSequence(r)
      BY <2>2, Short
    <3>2. 1 \in DOMAIN r /\ r[1] = m
      BY <2>2
    <3>. QED
      BY <3>1, <3>2
  <2>4. SendLines(r) /\ UNCHANGED <<fd, latest, link, down, actor>> /\ cache' = [cache EXCEPT ![s] = None]
    BY <1>5, <2>0, <2>2 DEF UnmapView, sockets
  <2>5. fd \in link => up'[fd] = up[fd] \o r
    BY <1>0, <1>2, <2>3, <2>4, Sending
  <2>6. ASSUME NEW t \in Surfaces, fd \in link, Untold(t) \/ t = s
        PROVE  Drops(up'[fd], t)
    <3>1. IsSequence(up[fd])
      BY <1>0, <1>2, <2>6 DEF UpOK
    <3>2. Drops(r, s)
      BY <2>1, <2>3 DEF Drops
    <3>3. Drops(up[fd] \o r, t)
      BY <2>3, <2>6, <3>1, <3>2, StillUntold DEF Untold
    <3>. QED
      BY <2>5, <2>6, <3>3
  <2>7. OverSurfaces(cache') /\ \A t \in Surfaces : t # s => cache'[t] = cache[t]
    BY <1>0, <2>4 DEF OverSurfaces
  <2>8. ASSUME fd \in link /\ conn[fd] = "reading", NEW t \in Surfaces
        PROVE  \/ Drops(up'[fd], t)
               \/ Leads(down[fd], Policy(t), cache'[t], policies[t])
    BY <2>6, <2>7, <2>8 DEF CacheInv, CacheFollows
  <2>9. ASSUME fd \in link /\ conn[fd] = "reading"
        PROVE  Leads(down[fd], Actor, actor, actorUID)
    BY <2>9 DEF CacheInv, CacheFollows
  <2>. QED
    BY <1>1, <2>4, <2>7, <2>8, <2>9 DEF CacheFollows, Untold
<1>6. ASSUME NEW m, ReadPolicy(m) \/ ReadCommand(m)
      PROVE  OverSurfaces(cache') /\ CacheFollows'
  <2>1. UNCHANGED <<fd, link, up>>
    BY <1>6 DEF ReadPolicy, ReadCommand, sockets
  <2>2. /\ OverSurfaces(cache')
        /\ \A s \in Surfaces : PolicyLeads(s) => Leads(down'[fd], Policy(s), cache'[s], policies[s])
        /\ ActorLeads => Leads(down'[fd], Actor, actor', actorUID)
    BY <1>0, <1>6, ReadsLead
  <2>. QED
    BY <1>1, <2>1, <2>2 DEF CacheInv, CacheFollows, Untold, PolicyLeads, ActorLeads
<1>7. CASE Connects
  <2>1. conn[fd'] = "new" /\ UNCHANGED cache
    BY <1>0, <1>7, BoundAssumption DEF Connects, Links, Conns, policy
  <2>. QED
    BY <1>0, <1>1, <2>1 DEF CacheFollows
<1>8. CASE LosesLink
  <2>1. fd' \notin link' /\ UNCHANGED cache
    BY <1>0, <1>8 DEF LosesLink, Links, policy
  <2>. QED
    BY <1>0, <1>1, <2>1 DEF CacheFollows
<1>9. CASE CompositorRestarts
  <2>1. fd' \notin link' /\ OverSurfaces(cache')
    BY <1>0, <1>9 DEF CompositorRestarts, Links, OverSurfaces
  <2>. QED
    BY <1>0, <1>1, <2>1 DEF CacheFollows
<1>10. OverSurfaces(policies')
  BY <1>0, <1>1
<1>. QED
  BY <1>3, <1>4, <1>5, <1>6, <1>7, <1>8, <1>9, <1>10, PluginGoes

LEMMA BridgeKeepsCache ==
  ASSUME KindsInv, CacheInv, [Next]_vars, ~(PluginNext /\ UNCHANGED bridge)
  PROVE  OverSurfaces(cache') /\ OverSurfaces(policies') /\ CacheFollows'
<1>0. UpOK /\ DownOK /\ Links /\ Queues /\ OverSurfaces(cache) /\ OverSurfaces(policies)
  BY QueuesParts DEF CacheInv
<1>1. fd \in link => fd \in Conns
  BY <1>0, BoundAssumption DEF Links, Conns
<1>2. ASSUME Talks
      PROVE  OverSurfaces(policies')
  BY <1>0, <1>2 DEF Talks, Decides, SetsActor, Asks, OverSurfaces
<1>3. CASE UNCHANGED vars
  BY <1>0, <1>3 DEF CacheInv, CacheFollows, Untold, vars, compositor, bridge, sockets, policy, access, control
<1>4. CASE UNCHANGED <<links, up, policy>> /\ Talks
  <2>1. UNCHANGED <<fd, link, conn, up, cache, actor>>
    BY <1>4 DEF links, policy
  <2>2. Reaching => /\ \A t \in Surfaces : PolicyLeads(t) => Leads(down'[fd], Policy(t), cache[t], policies'[t])
                    /\ ActorLeads => Leads(down'[fd], Actor, actor, actorUID')
    BY <1>0, <1>4, TalksLead
  <2>3. CacheFollows'
    BY <2>1, <2>2 DEF CacheInv, CacheFollows, Untold, Reaching, PolicyLeads, ActorLeads
  <2>. QED
    BY <1>0, <1>2, <1>4, <2>1, <2>3
<1>5. ASSUME NEW c \in Conns, NEW m, Hears(c, m)
      PROVE  OverSurfaces(cache') /\ OverSurfaces(policies') /\ CacheFollows'
  <2>1. UNCHANGED <<fd, link, conn, cache, actor>> /\ Talks
    BY <1>5 DEF Hears, links, policy
  <2>2. up[c] # <<>> /\ m = Head(up[c]) /\ up' = [up EXCEPT ![c] = Tail(@)]
    BY <1>5 DEF Hears, Decodes
  <2>3. Reaching => /\ \A t \in Surfaces : PolicyLeads(t) => Leads(down'[fd], Policy(t), cache[t], policies'[t])
                    /\ ActorLeads => Leads(down'[fd], Actor, actor, actorUID')
    BY <1>0, <2>1, TalksLead
  <2>4. ASSUME Reaching, NEW s \in Surfaces, Untold(s)
        PROVE  \/ Drops(up'[fd], s)
               \/ Leads(down'[fd], Policy(s), cache[s], policies'[s])
    <3>1. CASE c # fd
      <4>1. up'[fd] = up[fd]
        BY <2>2, <3>1
      <4>. QED
        BY <2>4, <4>1 DEF Untold
    <3>2. CASE c = fd /\ IsEvent(m, {"unmapped"}) /\ m.surface = s
      <4>1. Decides(s, None)
        BY <1>5, <3>2 DEF Hears
      <4>. QED
        BY <1>0, <2>4, <4>1, DecidesLead
    <3>3. CASE c = fd /\ ~(IsEvent(m, {"unmapped"}) /\ m.surface = s)
      <4>1. up'[fd] = Tail(up[c])
        BY <1>0, <2>2, <3>3 DEF UpOK
      <4>2. \/ IsEvent(Head(up[c]), {"unmapped"}) /\ Head(up[c]).surface = s
            \/ Drops(Tail(up[c]), s)
        <5>1. IsSequence(up[c])
          BY <1>0 DEF UpOK
        <5>. QED
          BY <2>2, <2>4, <3>3, <5>1, StillUntold, Short DEF Untold
      <4>. QED
        BY <2>2, <3>3, <4>1, <4>2
    <3>. QED
      BY <3>1, <3>2, <3>3
  <2>5. CacheFollows'
    BY <2>1, <2>3, <2>4 DEF CacheInv, CacheFollows, Untold, Reaching, PolicyLeads, ActorLeads
  <2>. QED
    BY <1>0, <1>2, <2>1, <2>5
<1>6. ASSUME NEW c \in Conns, Install(c)
      PROVE  OverSurfaces(cache') /\ OverSurfaces(policies') /\ CacheFollows'
  <2>1. UNCHANGED <<cache, policies, fd>> /\ link' = link \ {session} /\ conn[c] = "new"
        /\ conn' = [conn EXCEPT ![c] = "installed"]
    BY <1>6 DEF Install, policy, access
  <2>2. ~(fd \in link' /\ conn'[fd] = "reading")
    BY <1>0, <1>1, <2>1 DEF Links
  <2>. QED
    BY <1>0, <2>1, <2>2 DEF CacheFollows
<1>7. ASSUME NEW c \in Conns, Leave(c), UNCHANGED down
      PROVE  OverSurfaces(cache') /\ OverSurfaces(policies') /\ CacheFollows'
  <2>1. /\ UNCHANGED <<cache, policies, fd, actor, actorUID>> /\ link' = link \ {c}
        /\ conn' = [conn EXCEPT ![c] = "gone"] /\ up' = [up EXCEPT ![c] = <<>>]
    BY <1>7 DEF Leave, policy, access, control
  <2>2. fd # c /\ fd \in link' /\ conn'[fd] = "reading" => Reaching /\ up'[fd] = up[fd]
    BY <1>1, <2>1 DEF Reaching
  <2>3. fd = c => fd \notin link'
    BY <2>1
  <2>4. CacheFollows'
    BY <1>7, <2>1, <2>2, <2>3 DEF CacheInv, CacheFollows, Untold, Reaching
  <2>. QED
    BY <1>0, <2>1, <2>4
<1>8. ASSUME NEW c \in Conns, Sync(c), c \in link
      PROVE  OverSurfaces(cache') /\ OverSurfaces(policies') /\ CacheFollows'
  <2>0. PICK a, b, r : /\ a = [op |-> "policy_replace", policies |-> policies]
                       /\ b = [op |-> "input_context", uid |-> actorUID]
                       /\ r = <<a, b>>
    OBVIOUS
  <2>1. a.op = "policy_replace" /\ a.policies = policies /\ b.op = "input_context" /\ b.uid = actorUID
    BY <2>0
  <2>2. UNCHANGED <<cache, policies, fd, link, actor, actorUID>> /\ down' = [down EXCEPT ![c] = @ \o r]
    BY <1>8, <2>0 DEF Sync, policy, access, control, sockets
  <2>3. c = fd /\ IsSequence(down[fd]) /\ down'[fd] = down[fd] \o r
    BY <1>0, <1>8, <2>2 DEF Links, DownOK
  <2>4. IsSequence(r)
    BY <2>0, Short
  <2>5. ASSUME NEW s \in Surfaces
        PROVE  Leads(down'[fd], Policy(s), cache[s], policies[s])
    <3>1. Of(Policy(s), a) /\ Content(Policy(s), a) = policies[s] /\ ~Of(Policy(s), b)
      BY <2>1, TopicOf
    <3>2. Says(r, Policy(s), policies[s])
      BY <2>0, <3>1, SaysShort
    <3>. QED
      BY <2>3, <2>4, <3>2, LeadsOn
  <2>6. Leads(down'[fd], Actor, actor, actorUID)
    <3>1. Of(Actor, b) /\ Content(Actor, b) = actorUID
      BY <2>1, TopicOf
    <3>2. Says(r, Actor, actorUID)
      BY <2>0, <3>1, SaysShort
    <3>. QED
      BY <2>3, <2>4, <3>2, LeadsOn
  <2>7. CacheFollows'
    BY <2>2, <2>5, <2>6 DEF CacheFollows
  <2>. QED
    BY <1>0, <2>2, <2>7
<1>9. CASE BridgeRestarts
  <2>1. link' = {} /\ UNCHANGED cache /\ OverSurfaces(policies')
    BY <1>9 DEF BridgeRestarts, policy, OverSurfaces
  <2>. QED
    BY <1>0, <2>1 DEF CacheFollows
<1>. QED
  BY <1>0, <1>3, <1>4, <1>5, <1>6, <1>7, <1>8, <1>9, BridgeGoes

LEMMA CacheStep ==
  ASSUME KindsInv, CacheInv, [Next]_vars
  PROVE  KindsInv' /\ CacheInv'
<1>1. KindsInv' /\ Links' /\ Queues'
  BY KindsStep, LinksStep, QueuesStep DEF CacheInv
<1>2. OverSurfaces(cache') /\ OverSurfaces(policies') /\ CacheFollows'
  BY PluginKeepsCache, BridgeKeepsCache
<1>. QED
  BY <1>1, <1>2 DEF CacheInv, OverSurfaces

LEMMA CacheAlways == Spec => [](KindsInv /\ CacheInv)
<1>1. Init => KindsInv /\ CacheInv
  BY CacheInit
<1>2. KindsInv /\ CacheInv /\ [Next]_vars => KindsInv' /\ CacheInv'
  BY CacheStep
<1>. QED
  BY <1>1, <1>2, PTL DEF Spec

\* CacheConverges: whatever policies were set, removed or derived, and however
\* often the plugin, the bridge or the link went down in between, the plugin
\* decides by the bridge's policies and for its actor once all lines are read
\* (policy_cache_t in plugin.cpp, syncPluginSession and the callers of
\* syncDerivedPolicyLocked in bridge.go).
THEOREM CacheConvergesAlways == Spec => []CacheConverges
<1>1. ASSUME CacheInv
      PROVE  CacheConverges
  <2>. SUFFICES ASSUME Quiet
                PROVE  cache = policies /\ actor = actorUID
    BY DEF CacheConverges
  <2>1. fd \in link /\ conn[fd] = "reading" /\ up[fd] = <<>> /\ down[fd] = <<>>
    BY <1>1, BoundAssumption DEF CacheInv, Quiet, Links, Conns
  <2>2. \A s \in Surfaces : ~Untold(s)
    BY <2>1 DEF Untold, Drops
  <2>3. \A topic, x, y : Leads(<<>>, topic, y, x) => y = x
    BY DEF Leads, Says
  <2>4. actor = actorUID /\ \A s \in Surfaces : cache[s] = policies[s]
    BY <1>1, <2>1, <2>2, <2>3 DEF CacheInv, CacheFollows
  <2>. QED
    BY <1>1, <2>4 DEF CacheInv, OverSurfaces
<1>. QED
  BY <1>1, CacheAlways, PTL


-----------------------------------------------------------------------------
(* What the bridge hears of a surface becomes its record.                  *)

LEMMA RecordHeard ==
  ASSUME ~IsRecord(None), Tracked, NEW c, NEW m, NEW t \in Surfaces,
         HandleMapped(c, m) \/ HandleState(c, m) \/ HandleUnmapped(c, m) \/ HandleResponse(c, m)
  PROVE  Record(t)' = IF Of(Shown(t), m) THEN Content(Shown(t), m) ELSE Record(t)
<1>1. /\ Of(Shown(t), m) <=> m.type = "event" /\ m.surface = t
      /\ Content(Shown(t), m) = IF m.event = "unmapped" THEN <<>> ELSE <<m.owner, m.state>>
  BY TopicOf
<1>2. ASSUME NEW focused
      PROVE  /\ NewRecord(m, focused) # None
             /\ NewRecord(m, focused).owner = m.owner /\ NewRecord(m, focused).state = m.state
  BY RecordOfEvent DEF NewRecord
<1>3. ASSUME NEW x, IsRecord(x)
      PROVE  /\ [x EXCEPT !.focused = FALSE] # None
             /\ [x EXCEPT !.focused = FALSE].owner = x.owner /\ [x EXCEPT !.focused = FALSE].state = x.state
  BY <1>3 DEF IsRecord
<1>4. CASE HandleMapped(c, m)
  <2>1. PICK x : x = NewRecord(m, WasFocused(m.surface))
    OBVIOUS
  <2>2. surfaces' = [surfaces EXCEPT ![m.surface] = x] /\ m.type = "event" /\ m.event # "unmapped"
    BY <1>4, <2>1 DEF HandleMapped, IsEvent
  <2>3. x # None /\ x.owner = m.owner /\ x.state = m.state
    BY <1>2, <2>1
  <2>4. surfaces'[t] = IF t = m.surface THEN x ELSE surfaces[t]
    BY <2>2 DEF Tracked
  <2>. QED
    BY <1>1, <2>2, <2>3, <2>4 DEF Record, Known
<1>5. CASE HandleState(c, m)
  <2>1. PICK focused : surfaces' = [u \in Surfaces |->
             IF u = m.surface THEN NewRecord(m, focused)
             ELSE IF surfaces[u] # None /\ m.event \in {"focused", "restored"}
                  THEN [surfaces[u] EXCEPT !.focused = FALSE]
                  ELSE surfaces[u]]
    BY <1>5 DEF HandleState
  <2>2. m.type = "event" /\ m.event # "unmapped"
    BY <1>5 DEF HandleState, IsEvent
  <2>3. CASE t = m.surface
    <3>1. surfaces'[t] = NewRecord(m, focused)
      BY <2>1, <2>3
    <3>. QED
      BY <1>1, <1>2, <2>2, <2>3, <3>1 DEF Record, Known
  <2>4. CASE t # m.surface /\ surfaces[t] # None /\ m.event \in {"focused", "restored"}
    <3>1. surfaces'[t] = [surfaces[t] EXCEPT !.focused = FALSE] /\ IsRecord(surfaces[t])
      BY <2>1, <2>4 DEF Tracked
    <3>. QED
      BY <1>1, <1>3, <2>4, <3>1 DEF Record, Known
  <2>5. CASE t # m.surface /\ ~(surfaces[t] # None /\ m.event \in {"focused", "restored"})
    <3>1. surfaces'[t] = surfaces[t]
      BY <2>1, <2>5
    <3>. QED
      BY <1>1, <2>5, <3>1 DEF Record, Known
  <2>. QED
    BY <2>3, <2>4, <2>5
<1>6. CASE HandleUnmapped(c, m)
  <2>1. surfaces' = [surfaces EXCEPT ![m.surface] = None] /\ m.type = "event" /\ m.event = "unmapped"
    BY <1>6 DEF HandleUnmapped, IsEvent
  <2>2. surfaces'[t] = IF t = m.surface THEN None ELSE surfaces[t]
    BY <2>1 DEF Tracked
  <2>. QED
    BY <1>1, <2>1, <2>2 DEF Record, Known
<1>7. CASE HandleResponse(c, m)
  <2>1. surfaces' = surfaces /\ m.type # "event"
    BY <1>7 DEF HandleResponse
  <2>. QED
    BY <1>1, <2>1 DEF Record, Known
<1>. QED
  BY <1>4, <1>5, <1>6, <1>7

\* What the plugin says of a view is what the screen shows of it.
LEMMA SaysShown ==
  ASSUME NEW name, NEW s, NEW state, NEW front, NEW r, NEW ok, NEW t
  PROVE  LET e == Event(name, s, state, front)
             a == Response(r, ok)
             x == IF name = "unmapped" THEN <<>> ELSE <<owner[s], state>>
         IN /\ Says(<<e>>, Shown(s), x) /\ Says(<<e, a>>, Shown(s), x)
            /\ t # s => Silent(<<e>>, Shown(t)) /\ Silent(<<e, a>>, Shown(t))
            /\ Silent(<<a>>, Shown(t))
<1>1. PICK e : e = Event(name, s, state, front)
  OBVIOUS
<1>2. PICK a : a = Response(r, ok)
  OBVIOUS
<1>3. e.type = "event" /\ e.surface = s /\ e.event = name /\ e.owner = owner[s] /\ e.state = state
  BY <1>1 DEF Event
<1>4. a.type = "response"
  BY <1>2 DEF Response
<1>5. PICK x : x = IF name = "unmapped" THEN <<>> ELSE <<owner[s], state>>
  OBVIOUS
<1>6. Of(Shown(s), e) /\ Content(Shown(s), e) = x
  BY <1>3, <1>5, TopicOf
<1>7. ~Of(Shown(s), a) /\ ~Of(Shown(t), a) /\ (t # s => ~Of(Shown(t), e))
  BY <1>3, <1>4, TopicOf
<1>8. Says(<<e>>, Shown(s), x) /\ Says(<<e, a>>, Shown(s), x)
  BY <1>6, <1>7, SaysShort
<1>9. Silent(<<a>>, Shown(t)) /\ (t # s => Silent(<<e>>, Shown(t)) /\ Silent(<<e, a>>, Shown(t)))
  BY <1>7, SaysShort
<1>. QED
  BY <1>1, <1>2, <1>5, <1>8, <1>9


\* What a step of the plugin shows: nothing new, or all that it changes.
Keeps(t) == Screen(t)' = Screen(t) /\ (t \in mapped /\ Waiting(t) => Waiting(t)')

ShowsLines(lines) ==
  /\ IsSequence(lines) /\ SendLines(lines)
  /\ \A t \in Surfaces : Says(lines, Shown(t), Screen(t)') \/ (Silent(lines, Shown(t)) /\ Keeps(t))

Displays ==
  /\ UNCHANGED <<fd, latest, link, faults>>
  /\ (UNCHANGED up /\ \A t \in Surfaces : Keeps(t)) \/ \E lines : ShowsLines(lines)

LEMMA ShowsGo ==
  ASSUME Scene, PluginNext, UNCHANGED bridge
  PROVE  /\ Scene'
         /\ Connects \/ LosesLink \/ CompositorRestarts \/ Displays
<1>0. /\ DOMAIN owner = Surfaces /\ DOMAIN view = Surfaces /\ mapped \subseteq Surfaces /\ announce \subseteq mapped
      /\ OverSurfaces(owner) /\ OverSurfaces(view)
  BY DEF Scene, OverSurfaces
<1>1. ASSUME UNCHANGED <<owner, mapped, view, resync, resyncing, announce>>
      PROVE  Scene' /\ \A t \in Surfaces : Keeps(t)
  BY <1>1 DEF Scene, OverSurfaces, Keeps, Screen, Waiting
<1>2. ASSUME Stays
      PROVE  UNCHANGED <<fd, latest, link, faults, owner, mapped, resync, resyncing>>
  BY <1>2 DEF Stays, sockets
\* One event, maybe with an answer, shows a surface as it is now.
<1>3. ASSUME NEW name, NEW s \in mapped, NEW state, NEW front, NEW r, NEW ok, name # "unmapped",
             UNCHANGED <<fd, latest, link, faults>>, UNCHANGED <<owner, mapped>>,
             view' = [view EXCEPT ![s] = state],
             SendLines(<<Event(name, s, state, front)>>) \/ SendLines(<<Event(name, s, state, front), Response(r, ok)>>),
             \A t \in Surfaces : t # s /\ Waiting(t) => Waiting(t)'
      PROVE  Displays
  <2>1. PICK e, a : e = Event(name, s, state, front) /\ a = Response(r, ok)
    OBVIOUS
  <2>2. PICK lines : SendLines(lines) /\ (lines = <<e>> \/ lines = <<e, a>>)
    BY <1>3, <2>1
  <2>3. IsSequence(lines)
    BY <2>2, Short
  <2>4. Screen(s)' = <<owner[s], state>>
    BY <1>0, <1>3 DEF Screen
  <2>5. \A t \in Surfaces : t # s => Keeps(t)
    BY <1>0, <1>3 DEF Screen, Keeps
  <2>6. Says(lines, Shown(s), <<owner[s], state>>)
    BY <1>3, <2>1, <2>2, SaysShown
  <2>7. \A t \in Surfaces : t # s => Silent(lines, Shown(t))
    BY <2>1, <2>2, SaysShown
  <2>. QED
    BY <1>3, <2>2, <2>3, <2>4, <2>5, <2>6, <2>7 DEF Displays, ShowsLines
<1>4. ASSUME NEW s \in mapped
      PROVE  [view EXCEPT ![s] = view[s]] = view
  BY <1>0 DEF OverSurfaces
<1>5. ASSUME NEW r, NEW ok, SendLines(<<Response(r, ok)>>), Stays, UNCHANGED <<view, announce>>
      PROVE  Scene' /\ Displays
  <2>1. PICK lines : lines = <<Response(r, ok)>>
    OBVIOUS
  <2>2. IsSequence(lines) /\ \A t \in Surfaces : Silent(lines, Shown(t))
    BY <2>1, Short, SaysShown
  <2>. QED
    BY <1>1, <1>2, <1>5, <2>1, <2>2 DEF Displays, ShowsLines
<1>6. CASE Wake
  BY <1>0, <1>6 DEF Wake, LoopIdle, screen, sockets, Scene, OverSurfaces, Displays, Keeps, Screen, Waiting
<1>7. CASE ResyncSurfaces
  <2>1. UNCHANGED <<owner, mapped, view, fd, latest, link, faults, up>> /\ announce' = mapped
    BY <1>7 DEF ResyncSurfaces, screen, sockets
  <2>2. ASSUME NEW t \in Surfaces
        PROVE  Keeps(t)
    BY <1>0, <1>7, <2>1 DEF ResyncSurfaces, Keeps, Screen, Waiting
  <2>. QED
    BY <1>0, <2>1, <2>2 DEF Scene, OverSurfaces, Displays
<1>8. ASSUME NEW s \in Surfaces, Announce(s)
      PROVE  Scene' /\ Displays
  <2>1. s \in mapped /\ Stays /\ UNCHANGED view /\ announce' = announce \ {s}
    BY <1>0, <1>8 DEF Announce
  <2>2. Scene'
    BY <1>0, <1>2, <2>1 DEF Scene, OverSurfaces
  <2>3. \A t \in Surfaces : t # s /\ Waiting(t) => Waiting(t)'
    BY <1>2, <2>1 DEF Waiting
  <2>4. SendLines(<<Event("mapped", s, view[s], top)>>)
    BY <1>8 DEF Announce, Shows
  <2>. QED
    BY <1>2, <1>3, <1>4, <2>1, <2>2, <2>3, <2>4
<1>9. ASSUME NEW i \in DOMAIN wake, ProcessChange(i)
      PROVE  Scene' /\ Displays
  <2>1. PICK r, s, state, name : /\ r = wake[i] /\ s = r.surface /\ name = Carrier(r)
                                 /\ state = [view[r.surface] EXCEPT ![r.prop] = r.value]
    OBVIOUS
  <2>2. /\ s \in mapped /\ Stays /\ view' = [view EXCEPT ![s] = state] /\ UNCHANGED announce
        /\ SendLines(<<Event(name, s, state, top), Response(r, TRUE)>>)
    BY <1>9, <2>1 DEF ProcessChange, Serves
  <2>3. name # "unmapped"
    BY <2>1 DEF Carrier
  <2>4. \A t \in Surfaces : Waiting(t) => Waiting(t)'
    BY <1>2, <2>2 DEF Waiting
  <2>5. Scene'
    BY <1>0, <1>2, <2>2 DEF Scene, OverSurfaces
  <2>. QED
    BY <1>2, <1>3, <2>2, <2>3, <2>4, <2>5
<1>10. ASSUME NEW i \in DOMAIN wake, ProcessFocus(i) \/ ProcessInput(i) \/ ProcessRaised(i)
       PROVE  Scene' /\ Displays
  <2>1. PICK r, s : r = wake[i] /\ s = r.surface
    OBVIOUS
  <2>2. /\ s \in mapped /\ Stays /\ UNCHANGED <<view, announce>>
        /\ \/ SendLines(<<Response(r, TRUE)>>)
           \/ SendLines(<<Event("focused", s, view[s], top), Response(r, TRUE)>>)
           \/ SendLines(<<Event("stacked", s, view[s], top), Response(r, TRUE)>>)
    BY <1>10, <2>1 DEF ProcessFocus, ProcessInput, ProcessRaised, GivesFocus, Serves, Shows
  <2>3. \A t \in Surfaces : Waiting(t) => Waiting(t)'
    BY <1>2, <2>2 DEF Waiting
  <2>4. Scene'
    BY <1>0, <1>2, <2>2 DEF Scene, OverSurfaces
  <2>5. CASE SendLines(<<Response(r, TRUE)>>)
    BY <1>5, <2>2, <2>5
  <2>6. ASSUME NEW name, name # "unmapped", SendLines(<<Event(name, s, view[s], top), Response(r, TRUE)>>)
        PROVE  Displays
    BY <1>2, <1>3, <1>4, <2>2, <2>3, <2>6
  <2>. QED
    BY <2>2, <2>4, <2>5, <2>6
<1>11. ASSUME NEW i \in DOMAIN wake, ProcessRaise(i)
       PROVE  Scene' /\ Displays
  <2>1. Stays /\ announce = {} /\ announce' = mapped /\ UNCHANGED <<view, up>>
    BY <1>11 DEF ProcessRaise, Turn
  <2>. QED
    BY <1>0, <1>2, <2>1 DEF Scene, OverSurfaces, Displays, Keeps, Screen, Waiting
<1>12. ASSUME NEW i \in DOMAIN wake, ProcessCapture(i) \/ Refuses(i)
       PROVE  Scene' /\ Displays
  BY <1>5, <1>12 DEF ProcessCapture, Refuses, Serves
<1>13. ASSUME NEW i \in DOMAIN wake, ProcessClose(i)
       PROVE  Scene' /\ Displays
  BY <1>1, <1>2, <1>13 DEF ProcessClose, Serves, Displays
<1>14. ASSUME NEW s \in Surfaces, NEW u \in Uids, MapView(s, u)
       PROVE  Scene' /\ Displays
  <2>0. PICK e : e = [type |-> "event", event |-> "mapped", surface |-> s, owner |-> u, state |-> view[s], top |-> top = s]
    OBVIOUS
  <2>1. /\ announce = {} /\ owner' = [owner EXCEPT ![s] = u] /\ mapped' = mapped \cup {s} /\ s \notin mapped
        /\ UNCHANGED <<view, announce, resync, resyncing, fd, latest, link, faults>>
        /\ SendLines(<<e>>)
    BY <1>14, <2>0 DEF MapView, LoopIdle, work, sockets
  <2>2. Scene'
    BY <1>0, <2>1 DEF Scene, OverSurfaces
  <2>3. Screen(s)' = <<u, view[s]>> /\ \A t \in Surfaces : t # s => Keeps(t)
    BY <1>0, <2>1 DEF Screen, Keeps, Waiting
  <2>4. e.type = "event" /\ e.event = "mapped" /\ e.surface = s /\ e.owner = u /\ e.state = view[s]
    BY <2>0
  <2>5. Of(Shown(s), e) /\ Content(Shown(s), e) = <<u, view[s]>> /\ \A t \in Surfaces : t # s => ~Of(Shown(t), e)
    BY <2>4, TopicOf
  <2>6. PICK lines : lines = <<e>>
    OBVIOUS
  <2>7. IsSequence(lines) /\ Says(lines, Shown(s), <<u, view[s]>>) /\ \A t \in Surfaces : t # s => Silent(lines, Shown(t))
    BY <2>5, <2>6, Short, SaysShort
  <2>. QED
    BY <2>1, <2>2, <2>3, <2>6, <2>7 DEF Displays, ShowsLines
<1>15. ASSUME NEW s \in Surfaces, UnmapView(s)
       PROVE  Scene' /\ Displays
  <2>1. /\ announce = {} /\ mapped' = mapped \ {s}
        /\ UNCHANGED <<owner, view, announce, resync, resyncing, fd, latest, link, faults>>
        /\ SendLines(<<Event("unmapped", s, view[s], top)>>)
    BY <1>15 DEF UnmapView, LoopIdle, sockets, Shows
  <2>2. Scene'
    BY <1>0, <2>1 DEF Scene, OverSurfaces
  <2>3. Screen(s)' = <<>> /\ \A t \in Surfaces : t # s => Keeps(t)
    BY <1>0, <2>1 DEF Screen, Keeps, Waiting
  <2>6. PICK lines : lines = <<Event("unmapped", s, view[s], top)>>
    OBVIOUS
  <2>7. IsSequence(lines) /\ Says(lines, Shown(s), <<>>) /\ \A t \in Surfaces : t # s => Silent(lines, Shown(t))
    BY <2>6, Short, SaysShown
  <2>. QED
    BY <2>1, <2>2, <2>3, <2>6, <2>7 DEF Displays, ShowsLines
<1>16. ASSUME NEW s \in Surfaces, UserFocuses(s)
       PROVE  Scene' /\ Displays
  <2>1. /\ s \in mapped /\ UNCHANGED <<owner, mapped, view, announce, resync, resyncing, fd, latest, link, faults>>
        /\ SendLines(<<Event("focused", s, view[s], s)>>)
    BY <1>16 DEF UserFocuses, work, sockets
  <2>2. \A t \in Surfaces : Waiting(t) => Waiting(t)'
    BY <2>1 DEF Waiting
  <2>. QED
    BY <1>1, <1>3, <1>4, <2>1, <2>2
<1>17. ASSUME NEW m, ReadPolicy(m) \/ ReadCommand(m)
       PROVE  Scene' /\ Displays
  <2>1. UNCHANGED <<owner, mapped, view, announce, resync, resyncing, fd, latest, link, faults, up>>
    BY <1>17 DEF ReadPolicy, ReadCommand, screen, work, sockets
  <2>. QED
    BY <1>1, <2>1 DEF Displays
<1>18. CASE Connects \/ LosesLink
  BY <1>0, <1>18 DEF Connects, LosesLink, screen, work, Scene, OverSurfaces
<1>19. CASE CompositorRestarts
  BY <1>19 DEF CompositorRestarts, Scene, OverSurfaces
<1>. QED
  BY <1>6, <1>7, <1>8, <1>9, <1>10, <1>11, <1>12, <1>13, <1>14, <1>15, <1>16, <1>17, <1>18, <1>19 DEF PluginNext, LoopNext


-----------------------------------------------------------------------------
(* The record follows the screen.                                          *)

Heard(c, m) == HandleMapped(c, m) \/ HandleState(c, m) \/ HandleUnmapped(c, m) \/ HandleResponse(c, m)

SetReading(c) ==
  /\ c \in link /\ conn[c] = "installed" /\ conn' = [conn EXCEPT ![c] = "reading"]
  /\ UNCHANGED <<latest, fd, link, session, up, surfaces, faults>>

Departs(c) ==
  /\ Leave(c) /\ conn[c] \in {"installed", "reading"}
  /\ (c \notin link /\ UNCHANGED faults) \/ faults' = faults + 1

stage == <<owner, mapped, view, resync, resyncing, announce, fd, latest>>

LEMMA BridgeShows ==
  ASSUME Unplaced, [Next]_vars, ~(PluginNext /\ UNCHANGED bridge)
  PROVE  /\ UNCHANGED stage
         /\ \/ UNCHANGED <<links, up, surfaces, faults>>
            \/ \E c \in Conns : Install(c) \/ Departs(c) \/ SetReading(c) \/ \E m : Heard(c, m)
            \/ BridgeRestarts
<1>. DEFINE Still == UNCHANGED stage /\ UNCHANGED <<links, up, surfaces, faults>>
<1>1. ASSUME UNCHANGED plugin, UNCHANGED <<conn, session, surfaces>>
      PROVE  Still
  BY <1>1 DEF plugin, screen, work, sockets, stage, links
<1>2. ASSUME Controls
      PROVE  Still
  BY <1>1, <1>2 DEF Controls
<1>3. CASE PolicyNext
  BY <1>2, <1>3 DEF PolicyNext, UpsertSurfacePolicy, RemoveSurfacePolicy, SetInputContext, GrantViewport, RevokeViewport, Calls
<1>4. CASE RequestNext
  BY <1>2, <1>4 DEF RequestNext, CloseSurface, CloseSurfacesByUID, SetViewProperty, Requests, Calls
<1>5. CASE OutputNext
  BY <1>2, <1>5 DEF OutputNext, CreateOutput, DestroyOutput, ResizeOutput
<1>6. ASSUME NEW h \in Handlers, HandlerNext(h)
      PROVE  Still
  <2>1. ~AssignOutput(h)
    BY DEF Unplaced, AssignOutput
  <2>2. UNCHANGED plugin /\ UNCHANGED <<conn, session, surfaces>>
    BY <1>6, <2>1 DEF HandlerNext, Send, TakeAnswer, Readback, TimesOut, Answer, CheckPlaced, RecordPlacement,
                      Reassign, Acts
  <2>. QED
    BY <1>1, <2>2
<1>7. ASSUME NEW h \in Handlers, NEW s \in Surfaces, AutoPlace(h, s)
      PROVE  Still
  BY <1>1, <1>7 DEF AutoPlace, Acts
<1>8. ASSUME NEW h \in Handlers, NEW kind \in Kinds, NEW s \in Surfaces, NEW v \in 0..2, NEW o \in Outputs \cup {None},
             Begin(h, kind, s, v, o)
      PROVE  Still
  BY <1>1, <1>8 DEF Begin, Acts
<1>9. CASE UNCHANGED vars
  BY <1>9 DEF vars, compositor, bridge, screen, work, sockets, stage, links
<1>10. CASE BridgeRestarts
  BY <1>10 DEF BridgeRestarts, screen, work, stage
<1>11. ASSUME NEW c \in Conns, ConnNext(c)
       PROVE  UNCHANGED stage /\ (Install(c) \/ Departs(c) \/ SetReading(c) \/ \E m : Heard(c, m))
  <2>1. ASSUME Leave(c)
        PROVE  UNCHANGED stage
    BY <2>1 DEF Leave, screen, work, stage
  <2>2. CASE Install(c)
    BY <2>2 DEF Install, screen, work, stage
  <2>3. CASE Sync(c)
    BY <2>1, <2>3 DEF Sync, Departs, SetReading, screen, work, sockets, stage
  <2>4. CASE ReaderEnds(c) \/ DecodeFails(c)
    BY <2>1, <2>4 DEF ReaderEnds, DecodeFails, Departs
  <2>5. ASSUME NEW m, Heard(c, m)
        PROVE  UNCHANGED stage
    BY <2>5 DEF Heard, HandleMapped, HandleState, HandleUnmapped, HandleResponse, Decodes, screen, work, sockets, stage
  <2>6. \/ Install(c) \/ Sync(c) \/ ReaderEnds(c) \/ DecodeFails(c) \/ \E m : Heard(c, m)
    BY <1>11 DEF ConnNext, Heard
  <2>. QED
    BY <2>2, <2>3, <2>4, <2>5, <2>6
<1>. QED
  BY <1>3, <1>4, <1>5, <1>6, <1>7, <1>8, <1>9, <1>10, <1>11 DEF Next

\* Outputs may come and go.
LEMMA UnplacedStep ==
  ASSUME NobodyPlaces, Tasks, Unplaced, [Next]_vars
  PROVE  Unplaced'
<1>. DEFINE Free == surfaceOutput' = [s \in Surfaces |-> None] /\ autoplace' \cap Surfaces = {}
<1>1. ASSUME UNCHANGED <<surfaceOutput, autoplace>>
      PROVE  Free
  BY <1>1 DEF Unplaced
<1>2. ASSUME PluginNext /\ UNCHANGED bridge
      PROVE  Free
  BY <1>1, <1>2 DEF bridge
<1>3. ASSUME PolicyNext \/ RequestNext
      PROVE  Free
  BY <1>1, <1>3 DEF PolicyNext, UpsertSurfacePolicy, RemoveSurfacePolicy, SetInputContext, GrantViewport, RevokeViewport,
     RequestNext, CloseSurface, CloseSurfacesByUID, SetViewProperty, Requests, Calls, Controls
<1>4. ASSUME OutputNext
      PROVE  Free
  BY <1>4 DEF OutputNext, CreateOutput, DestroyOutput, ResizeOutput, Controls, Unplaced
<1>5. ASSUME BridgeRestarts
      PROVE  Free
  BY <1>5 DEF BridgeRestarts
<1>6. ASSUME NEW c \in Conns, NEW m, HandleMapped(c, m) \/ HandleState(c, m)
      PROVE  Free
  BY <1>6 DEF HandleMapped, HandleState, PlaceLater, NobodyPlaces, Unplaced
<1>7. ASSUME NEW c \in Conns, NEW m, HandleUnmapped(c, m) \/ HandleResponse(c, m)
      PROVE  Free
  BY <1>7 DEF HandleUnmapped, HandleResponse, Unplaced
<1>8. ASSUME NEW c \in Conns, Install(c) \/ Sync(c) \/ ReaderEnds(c) \/ DecodeFails(c)
      PROVE  Free
  BY <1>1, <1>8 DEF Install, Sync, ReaderEnds, DecodeFails, Leave
<1>9. ASSUME NEW c \in Conns, ConnNext(c)
      PROVE  Free
  BY <1>6, <1>7, <1>8, <1>9 DEF ConnNext
<1>10. ASSUME NEW h \in Handlers, HandlerNext(h)
       PROVE  Free
  <2>1. ~AssignOutput(h) /\ \A s \in Surfaces : ~Reassign(h, s)
    BY DEF Unplaced, AssignOutput, Reassign
  <2>. QED
    BY <1>1, <1>10, <2>1 DEF HandlerNext, Send, TakeAnswer, Readback, TimesOut, Answer, CheckPlaced, RecordPlacement
<1>11. \A h \in Handlers, s \in Surfaces : ~AutoPlace(h, s)
  BY DEF AutoPlace, Unplaced
<1>12. ASSUME NEW h \in Handlers, NEW kind \in Kinds, NEW s \in Surfaces, NEW v \in 0..2, NEW o \in Outputs \cup {None},
              Begin(h, kind, s, v, o)
       PROVE  Free
  BY <1>1, <1>12 DEF Begin
<1>13. ASSUME UNCHANGED vars
      PROVE  Free
  BY <1>1, <1>13 DEF vars, bridge
<1>14. Free
  BY <1>2, <1>3, <1>4, <1>5, <1>9, <1>10, <1>11, <1>12, <1>13 DEF Next
<1>15. ASSUME NEW h \in Handlers
       PROVE  handler'[h].kind # "output" /\ handler'[h].todo = {}
  <2>1. None # "output"
    BY KindAssumption DEF SurfaceActions
  <2>2. Assigned(Outputs) = {}
    BY DEF Assigned, Unplaced
  <2>. QED
    BY <2>1, <2>2, HandlersGo DEF NobodyPlaces, Unplaced
<1>. QED
  BY <1>14, <1>15 DEF Unplaced

\* What the plugin shows reaches its connection, and what the bridge reads of it
\* its record.
LEMMA DisplaysLead ==
  ASSUME UpOK, fd \in link, fd \in Conns, Displays, UNCHANGED surfaces, NEW t \in Surfaces
  PROVE  RecordLeads(t)' \/ (~RecordLeads(t) /\ Keeps(t))
<1>1. fd' = fd /\ Record(t)' = Record(t)
  BY DEF Displays, Record, Known
<1>2. CASE UNCHANGED up /\ Keeps(t)
  <2>1. Screen(t)' = Screen(t)
    BY <1>2 DEF Keeps
  <2>2. RecordLeads(t) => RecordLeads(t)'
    BY <1>1, <1>2, <2>1 DEF RecordLeads
  <2>. QED
    BY <1>2, <2>2
<1>3. ASSUME NEW lines, ShowsLines(lines)
      PROVE  RecordLeads(t)' \/ (~RecordLeads(t) /\ Keeps(t))
  <2>1. IsSequence(lines) /\ IsSequence(up[fd]) /\ up'[fd] = up[fd] \o lines
    BY <1>3, Sending DEF ShowsLines, UpOK
  <2>2. PICK x, y : x = Screen(t)' /\ y = Record(t)
    OBVIOUS
  <2>3. CASE Says(lines, Shown(t), x)
    <3>1. Leads(up[fd] \o lines, Shown(t), y, x)
      BY <2>1, <2>3, LeadsOn
    <3>. QED
      BY <1>1, <2>1, <2>2, <3>1 DEF RecordLeads
  <2>4. CASE Silent(lines, Shown(t)) /\ Keeps(t) /\ RecordLeads(t)
    <3>1. Screen(t) = x
      BY <2>2, <2>4 DEF Keeps
    <3>2. Leads(up[fd], Shown(t), y, x)
      BY <2>2, <2>4, <3>1 DEF RecordLeads
    <3>3. Leads(up[fd] \o lines, Shown(t), y, x)
      BY <2>1, <2>4, <3>2, LeadsOn
    <3>. QED
      BY <1>1, <2>1, <2>2, <3>3 DEF RecordLeads
  <2>. QED
    BY <1>3, <2>2, <2>3, <2>4 DEF ShowsLines
<1>. QED
  BY <1>2, <1>3 DEF Displays

LEMMA HeardLeads ==
  ASSUME ~IsRecord(None), UpOK, Tracked, fd \in Conns, NEW m, Heard(fd, m), UNCHANGED stage,
         NEW t \in Surfaces, RecordLeads(t)
  PROVE  RecordLeads(t)'
<1>1. PICK q, x, y : q = up[fd] /\ x = Screen(t) /\ y = Record(t)
  OBVIOUS
<1>2. q # <<>> /\ m = Head(q) /\ up'[fd] = Tail(q) /\ IsSequence(q)
  BY <1>1 DEF Heard, HandleMapped, HandleState, HandleUnmapped, HandleResponse, Decodes, UpOK
<1>3. Record(t)' = IF Of(Shown(t), m) THEN Content(Shown(t), m) ELSE y
  BY <1>1, RecordHeard DEF Heard
<1>4. Leads(q, Shown(t), y, x)
  BY <1>1 DEF RecordLeads
<1>5. Leads(Tail(q), Shown(t), IF Of(Shown(t), m) THEN Content(Shown(t), m) ELSE y, x)
  BY <1>2, <1>4, LeadsOff
<1>6. Screen(t)' = x /\ fd' = fd
  BY <1>1 DEF stage, Screen
<1>. QED
  BY <1>2, <1>3, <1>5, <1>6 DEF RecordLeads


TrackingInv == KindsInv /\ CacheInv /\ Tracked /\ Scene /\ Unplaced

LEMMA TrackingInit ==
  ASSUME Init
  PROVE  TrackingInv /\ Single /\ RecordFollows /\ GhostsGo
<1>1. KindsInv /\ CacheInv /\ Links
  BY CacheInit, LinksInit
<1>2. Tracked /\ Scene /\ Unplaced
  <2>1. None # "output"
    BY KindAssumption DEF SurfaceActions
  <2>. QED
    BY <2>1 DEF Init, PluginInit, Tracked, Scene, OverSurfaces, Unplaced, Idle
<1>3. fd = 0 /\ latest = 0 /\ link = {} /\ faults = 0 /\ conn = [c \in Conns |-> "new"]
      /\ up = [c \in Conns |-> <<>>] /\ surfaces = [s \in Surfaces |-> None]
  BY DEF Init, PluginInit
<1>4. Single /\ RecordFollows
  BY <1>3 DEF Single, RecordFollows, Conns
<1>5. GhostsGo
  BY <1>3 DEF GhostsGo, Known
<1>. QED
  BY <1>1, <1>2, <1>4, <1>5 DEF TrackingInv

LEMMA TrackingStep ==
  ASSUME NobodyPlaces, TrackingInv, [Next]_vars
  PROVE  TrackingInv'
<1>1. KindsInv' /\ CacheInv' /\ Tracked' /\ Unplaced'
  BY CacheStep, TrackedStep, KindsStep, UnplacedStep DEF TrackingInv, KindsInv, WaitersInv
<1>2. Scene'
  <2>1. CASE PluginNext /\ UNCHANGED bridge
    BY <2>1, ShowsGo DEF TrackingInv
  <2>2. CASE UNCHANGED stage
    BY <2>2 DEF TrackingInv, Scene, stage, OverSurfaces
  <2>. QED
    BY <2>1, <2>2, BridgeShows DEF TrackingInv
<1>. QED
  BY <1>1, <1>2 DEF TrackingInv

\* A surface that is not on the screen shows nothing.
LEMMA OffScreen ==
  ASSUME NEW t
  PROVE  /\ t \notin mapped => Screen(t) = <<>>
         /\ Keeps(t) => (t \in mapped <=> t \in mapped')
<1>1. <<owner[t], view[t]>> # <<>> /\ <<owner'[t], view'[t]>> # <<>>
  <2>. \A a, b : <<a, b>> # <<>>
    OBVIOUS
  <2>. QED
    OBVIOUS
<1>. QED
  BY <1>1 DEF Screen, Keeps

LEMMA GhostsStep ==
  ASSUME ~IsRecord(None), TrackingInv, GhostsGo, [Next]_vars
  PROVE  GhostsGo'
<1>0. UpOK /\ Links /\ Tracked /\ Scene /\ Unplaced /\ faults \in Nat
  BY QueuesParts DEF TrackingInv, CacheInv, GhostsGo
<1>1. fd \in link => fd \in Conns
  BY <1>0, BoundAssumption DEF Links, Conns
<1>2. CASE faults' = faults + 1
  BY <1>0, <1>2 DEF GhostsGo
<1>3. CASE faults # 0 /\ UNCHANGED faults
  BY <1>0, <1>3 DEF GhostsGo
<1>4. ASSUME faults = 0
      PROVE  /\ fd = latest /\ latest <= 1 /\ (fd # 0 => fd \in link)
             /\ fd = 0 => \A s \in Surfaces : ~Known(s)
             /\ fd = 0 => \A c \in Conns : up[c] = <<>>
             /\ fd # 0 => \A s \in Surfaces \ mapped : RecordLeads(s)
             /\ fd = 0 \/ fd = 1
  BY <1>0, <1>4, BoundAssumption DEF GhostsGo, Links
<1>5. CASE faults = 0 /\ UNCHANGED bridge /\ Displays
  <2>1. UNCHANGED <<fd, latest, link, faults, surfaces>>
    BY <1>5 DEF Displays, bridge
  <2>2. fd = 0 => up' = up
    <3>1. fd = 0 => fd \notin link
      BY <1>0 DEF Links
    <3>. QED
      BY <1>5, <3>1 DEF Displays, ShowsLines, SendLines
  <2>3. ASSUME fd # 0, NEW t \in Surfaces \ mapped'
        PROVE  RecordLeads(t)'
    <3>1. fd \in link /\ fd \in Conns
      BY <1>1, <1>4, <1>5, <2>3
    <3>2. RecordLeads(t)' \/ (~RecordLeads(t) /\ Keeps(t))
      BY <1>0, <1>5, <2>1, <3>1, DisplaysLead
    <3>3. t \in mapped => ~Keeps(t)
      BY <2>3, OffScreen
    <3>. QED
      BY <1>4, <1>5, <2>3, <3>2, <3>3
  <2>. QED
    BY <1>0, <1>4, <1>5, <2>1, <2>2, <2>3 DEF GhostsGo, Known
<1>6. CASE faults = 0 /\ UNCHANGED bridge /\ Connects
  <2>1. /\ fd = 0 /\ latest = 0 /\ fd' = 1 /\ latest' = 1 /\ link' = link \cup {1} /\ 1 \in Conns
        /\ UNCHANGED <<faults, mapped, up, surfaces>>
    BY <1>4, <1>6, BoundAssumption DEF Connects, bridge, screen, Conns
  <2>2. ASSUME NEW t \in Surfaces \ mapped'
        PROVE  RecordLeads(t)'
    <3>1. up'[fd'] = <<>> /\ ~Known(t)'
      BY <1>4, <1>6, <2>1 DEF Known
    <3>2. Screen(t)' = <<>> /\ Record(t)' = <<>>
      BY <2>2, <3>1 DEF Screen, Record
    <3>3. Leads(<<>>, Shown(t), <<>>, <<>>)
      BY SaysShort DEF Leads
    <3>. QED
      BY <3>1, <3>2, <3>3 DEF RecordLeads
  <2>. QED
    BY <1>0, <2>1, <2>2 DEF GhostsGo
<1>7. CASE faults = 0 /\ LosesLink
  BY <1>4, <1>7 DEF LosesLink
<1>8. CASE faults = 0 /\ UNCHANGED stage /\ UNCHANGED <<links, up, surfaces, faults>>
  <2>1. UNCHANGED <<fd, latest, link, mapped>> /\ \A t \in Surfaces : RecordLeads(t) => RecordLeads(t)'
    BY <1>8 DEF stage, links, RecordLeads, Record, Known, Screen
  <2>. QED
    BY <1>0, <1>4, <1>8, <2>1 DEF GhostsGo, Known
<1>9. ASSUME faults = 0, UNCHANGED stage, NEW c \in Conns, Install(c)
      PROVE  GhostsGo'
  <2>1. c \in Nat /\ c # 0 /\ c <= latest /\ conn[c] = "new" /\ link' = link \ {session} /\ UNCHANGED <<up, surfaces, faults>>
    BY <1>9, BoundAssumption DEF Install, Conns
  <2>2. c = fd
    BY <1>4, <1>9, <2>1
  <2>3. session # 0 => conn[session] \in {"installed", "reading"} /\ session \in Conns
    BY <1>0, BoundAssumption DEF Links, Conns
  <2>4. session # fd
    BY <2>1, <2>2, <2>3
  <2>5. UNCHANGED <<fd, latest, mapped>> /\ (fd # 0 => fd \in link')
    BY <1>4, <1>9, <2>1, <2>4 DEF stage
  <2>6. \A t \in Surfaces : RecordLeads(t) => RecordLeads(t)'
    BY <1>9, <2>1 DEF stage, RecordLeads, Record, Known, Screen
  <2>. QED
    BY <1>0, <1>4, <1>9, <2>1, <2>5, <2>6 DEF GhostsGo, Known
<1>10. ASSUME faults = 0, NEW c \in Conns, conn[c] \in {"installed", "reading"}
       PROVE  c = fd /\ fd \in link
  <2>1. c <= latest /\ c \in Nat \ {0}
    BY <1>0, <1>10, BoundAssumption DEF Links, Conns
  <2>. QED
    BY <1>4, <1>10, <2>1
<1>11. ASSUME faults = 0, UNCHANGED stage, NEW c \in Conns, SetReading(c)
       PROVE  GhostsGo'
  <2>1. UNCHANGED <<fd, latest, link, mapped, up, surfaces, faults>>
    BY <1>11 DEF SetReading, stage
  <2>2. \A t \in Surfaces : RecordLeads(t) => RecordLeads(t)'
    BY <1>11, <2>1 DEF stage, RecordLeads, Record, Known, Screen
  <2>. QED
    BY <1>0, <1>4, <1>11, <2>1, <2>2 DEF GhostsGo, Known
<1>12. ASSUME faults = 0, UNCHANGED stage, NEW c \in Conns, NEW m, Heard(c, m)
       PROVE  GhostsGo'
  <2>1. conn[c] = "reading" /\ UNCHANGED <<fd, latest, link, mapped, faults>>
    BY <1>12 DEF Heard, HandleMapped, HandleState, HandleUnmapped, HandleResponse, Decodes, stage, sockets
  <2>2. c = fd /\ fd \in link /\ fd # 0
    BY <1>0, <1>10, <1>12, <2>1 DEF Links
  <2>3. \A t \in Surfaces : RecordLeads(t) => RecordLeads(t)'
    BY <1>0, <1>12, <2>2, HeardLeads
  <2>. QED
    BY <1>0, <1>4, <1>12, <2>1, <2>2, <2>3 DEF GhostsGo
<1>13. ASSUME faults = 0, NEW c \in Conns, Departs(c)
       PROVE  faults' = faults + 1
  BY <1>10, <1>13 DEF Departs
<1>14. CASE PluginNext /\ UNCHANGED bridge
  <2>1. Connects \/ LosesLink \/ CompositorRestarts \/ Displays
    BY <1>0, <1>14, ShowsGo
  <2>2. CASE CompositorRestarts
    BY <1>2, <2>2 DEF CompositorRestarts
  <2>3. ~CompositorRestarts => UNCHANGED faults
    BY <2>1 DEF Connects, LosesLink, Displays
  <2>. QED
    BY <1>3, <1>5, <1>6, <1>7, <1>14, <2>1, <2>2, <2>3
<1>15. CASE ~(PluginNext /\ UNCHANGED bridge)
  <2>1. /\ UNCHANGED stage
        /\ \/ UNCHANGED <<links, up, surfaces, faults>>
           \/ \E c \in Conns : Install(c) \/ Departs(c) \/ SetReading(c) \/ \E m : Heard(c, m)
           \/ BridgeRestarts
    BY <1>0, <1>15, BridgeShows
  <2>2. UNCHANGED faults \/ faults' = faults + 1
    <3>1. ASSUME NEW c \in Conns, NEW m, Heard(c, m)
          PROVE  UNCHANGED faults
      BY <3>1 DEF Heard, HandleMapped, HandleState, HandleUnmapped, HandleResponse, Decodes
    <3>2. ASSUME NEW c \in Conns, Install(c) \/ Departs(c) \/ SetReading(c)
          PROVE  UNCHANGED faults \/ faults' = faults + 1
      BY <3>2 DEF Install, Departs, SetReading
    <3>. QED
      BY <2>1, <3>1, <3>2 DEF BridgeRestarts
  <2>3. CASE BridgeRestarts
    BY <1>2, <2>3 DEF BridgeRestarts
  <2>. QED
    BY <1>2, <1>3, <1>8, <1>9, <1>11, <1>12, <1>13, <2>1, <2>2, <2>3
<1>. QED
  BY <1>14, <1>15

\* NoGhosts: without faults the bridge tracks nothing that is not on the screen
\* once all lines are read, whatever is mapped, unmapped and asked for meanwhile
\* (handleSurfaceEvent in bridge.go, the unmap handler in plugin.cpp). No surface is
\* moved to an output: MoveSurfaceToOutput writes one back that may be gone by then.
THEOREM NoGhostsCorrect ==
  ASSUME ~IsRecord(None), NobodyPlaces
  PROVE  Spec => []NoGhosts
<1>1. Init => TrackingInv /\ GhostsGo
  BY TrackingInit
<1>2. TrackingInv /\ GhostsGo /\ [Next]_vars => (TrackingInv /\ GhostsGo)'
  BY TrackingStep, GhostsStep
<1>3. TrackingInv /\ GhostsGo => NoGhosts
  <2>. SUFFICES ASSUME TrackingInv, GhostsGo, Quiet, faults = 0, NEW s \in Surfaces, s \notin mapped
                PROVE  ~Known(s)
    BY DEF NoGhosts
  <2>1. fd # 0 /\ up[fd] = <<>> /\ RecordLeads(s)
    BY BoundAssumption DEF TrackingInv, CacheInv, Links, Quiet, GhostsGo, Conns
  <2>2. \A topic, x, y : Leads(<<>>, topic, y, x) => y = x
    BY DEF Leads, Says
  <2>3. Record(s) = <<>>
    BY <2>1, <2>2, OffScreen DEF RecordLeads
  <2>4. \A a, b : <<a, b>> # <<>>
    OBVIOUS
  <2>. QED
    BY <2>3, <2>4 DEF Record
<1>. QED
  BY <1>1, <1>2, <1>3, PTL DEF Spec


LEMMA SingleStep ==
  ASSUME "restart" \notin Faults, Links, Single, [Next]_vars
  PROVE  Single'
<1>1. CASE UNCHANGED links
  BY <1>1 DEF links, Single
<1>2. CASE Connects /\ UNCHANGED bridge
  <2>1. fd = 0 /\ fd' = latest + 1 /\ latest' = latest + 1 /\ link' = link \cup {latest + 1} /\ conn' = conn
    BY <1>2 DEF Connects, bridge
  <2>. QED
    BY <2>1, BoundAssumption DEF Single, Links, Conns
<1>3. CASE LosesLink /\ UNCHANGED bridge
  <2>1. fd # 0 /\ fd \notin link /\ fd' = 0 /\ UNCHANGED <<latest, link, conn>>
    BY <1>3 DEF LosesLink, bridge
  <2>. QED
    BY <2>1 DEF Single
<1>4. ~CompositorRestarts
  BY DEF CompositorRestarts
<1>5. CASE BridgeRestarts
  <2>1. conn' = [c \in Conns |-> IF c <= latest THEN "gone" ELSE "new"] /\ UNCHANGED <<fd, latest>>
    BY <1>5 DEF BridgeRestarts
  <2>2. fd # 0 => fd \in Conns /\ fd <= latest
    BY BoundAssumption DEF Links, Conns
  <2>. QED
    BY <2>1, <2>2 DEF Single
<1>6. ASSUME NEW c \in Conns, Install(c)
      PROVE  Single'
  <2>1. /\ c <= latest /\ conn[c] = "new" /\ conn' = [conn EXCEPT ![c] = "installed"]
        /\ link' = link \ {session} /\ UNCHANGED <<fd, latest>>
    BY <1>6 DEF Install
  <2>2. c = fd /\ fd \in link
    BY <2>1, BoundAssumption DEF Single, Links, Conns
  <2>3. session # fd
    BY <2>1, <2>2, BoundAssumption DEF Links, Conns
  <2>. QED
    BY <2>1, <2>2, <2>3 DEF Single, Links
<1>7. ASSUME NEW c \in Conns, Leave(c)
      PROVE  Single'
  <2>1. conn' = [conn EXCEPT ![c] = "gone"] /\ link' = link \ {c} /\ UNCHANGED <<fd, latest>>
    BY <1>7 DEF Leave
  <2>2. fd # 0 => fd \in Conns
    BY BoundAssumption DEF Links, Conns
  <2>. QED
    BY <2>1, <2>2 DEF Single, Links
<1>8. ASSUME NEW c \in Conns, c \in link, conn[c] = "installed", conn' = [conn EXCEPT ![c] = "reading"],
             UNCHANGED <<latest, fd, link, session>>
      PROVE  Single'
  BY <1>8, BoundAssumption DEF Single, Links, Conns
<1>. QED
  BY <1>1, <1>2, <1>3, <1>4, <1>5, <1>6, <1>7, <1>8, LinksGo

LEMMA RecordStep ==
  ASSUME ~IsRecord(None), "restart" \notin Faults, TrackingInv, Single, RecordFollows, [Next]_vars
  PROVE  RecordFollows'
<1>0. UpOK /\ Links /\ Tracked /\ Scene /\ Unplaced
  BY QueuesParts DEF TrackingInv, CacheInv
<1>1. fd \in link => fd \in Conns /\ fd # 0
  BY <1>0, BoundAssumption DEF Links, Conns
<1>2. CASE PluginNext /\ UNCHANGED bridge
  <2>1. UNCHANGED surfaces
    BY <1>2 DEF bridge
  <2>2. Connects \/ LosesLink \/ Displays
    BY <1>0, <1>2, ShowsGo DEF CompositorRestarts
  <2>3. CASE Connects
    BY <2>3 DEF Connects, RecordFollows, Waiting
  <2>4. CASE LosesLink
    BY <1>0, <2>4 DEF LosesLink, RecordFollows, Links
  <2>5. CASE Displays
    <3>1. UNCHANGED <<fd, link>>
      BY <2>5 DEF Displays
    <3>2. ASSUME fd \in link, NEW t \in mapped'
          PROVE  Waiting(t)' \/ RecordLeads(t)'
      <4>1. t \in Surfaces
        BY <1>0, <1>2, <3>2, ShowsGo DEF Scene
      <4>2. RecordLeads(t)' \/ (~RecordLeads(t) /\ Keeps(t))
        BY <1>0, <1>1, <2>1, <2>5, <3>2, <4>1, DisplaysLead
      <4>3. CASE ~RecordLeads(t) /\ Keeps(t)
        <5>1. t \in mapped
          BY <3>2, <4>3, OffScreen
        <5>2. Waiting(t)
          BY <3>2, <4>3, <5>1 DEF RecordFollows
        <5>. QED
          BY <4>3, <5>1, <5>2 DEF Keeps
      <4>. QED
        BY <4>2, <4>3
    <3>. QED
      BY <3>1, <3>2 DEF RecordFollows
  <2>. QED
    BY <2>2, <2>3, <2>4, <2>5
<1>3. ASSUME UNCHANGED stage, link' \subseteq link, UNCHANGED surfaces, fd \in link' => up'[fd] = up[fd]
      PROVE  RecordFollows'
  BY <1>3 DEF stage, RecordFollows, RecordLeads, Waiting, Record, Known, Screen
<1>4. ASSUME UNCHANGED stage, NEW c \in Conns, Install(c) \/ SetReading(c)
      PROVE  RecordFollows'
  <2>1. link' \subseteq link /\ UNCHANGED <<surfaces, up>>
    BY <1>4 DEF Install, SetReading
  <2>. QED
    BY <1>3, <1>4, <2>1
<1>5. ASSUME UNCHANGED stage, NEW c \in Conns, Departs(c)
      PROVE  RecordFollows'
  <2>1. link' = link \ {c} /\ UNCHANGED surfaces /\ up' = [up EXCEPT ![c] = <<>>]
    BY <1>5 DEF Departs, Leave
  <2>. QED
    BY <1>3, <1>5, <2>1
<1>6. ASSUME UNCHANGED stage, NEW c \in Conns, NEW m, Heard(c, m)
      PROVE  RecordFollows'
  <2>1. conn[c] = "reading" /\ UNCHANGED <<fd, link>>
    BY <1>6 DEF Heard, HandleMapped, HandleState, HandleUnmapped, HandleResponse, Decodes, sockets
  <2>2. c = fd
    BY <1>0, <2>1, BoundAssumption DEF Single, Links, Conns
  <2>3. \A t \in Surfaces : RecordLeads(t) => RecordLeads(t)'
    BY <1>0, <1>6, <2>2, HeardLeads
  <2>4. \A t \in Surfaces : Waiting(t) => Waiting(t)'
    BY <1>6 DEF stage, Waiting
  <2>5. UNCHANGED mapped /\ mapped \subseteq Surfaces
    BY <1>0, <1>6 DEF stage, Scene
  <2>. QED
    BY <2>1, <2>3, <2>4, <2>5 DEF RecordFollows
<1>7. CASE BridgeRestarts
  BY <1>7 DEF BridgeRestarts, RecordFollows
<1>8. CASE UNCHANGED stage /\ UNCHANGED <<links, up, surfaces, faults>>
  <2>1. UNCHANGED link
    BY <1>8 DEF links
  <2>. QED
    BY <1>3, <1>8, <2>1
<1>9. CASE ~(PluginNext /\ UNCHANGED bridge)
  <2>1. /\ UNCHANGED stage
        /\ \/ UNCHANGED <<links, up, surfaces, faults>>
           \/ \E c \in Conns : Install(c) \/ Departs(c) \/ SetReading(c) \/ \E m : Heard(c, m)
           \/ BridgeRestarts
    BY <1>0, <1>9, BridgeShows
  <2>. QED
    BY <1>4, <1>5, <1>6, <1>7, <1>8, <2>1
<1>. QED
  BY <1>2, <1>9

\* RecordConverges: through commands, a link that breaks between any two lines, a
\* bridge that restarts and all that happened while there was no link, the bridge
\* tracks every view with its owner and state once all lines are read
\* (resync_surfaces in plugin.cpp, handleSurfaceEvent in bridge.go). No surface is
\* moved to an output, as before, and the compositor does not restart: then the goroutine of the old
\* connection may still be handling lines about views that are no more.
THEOREM RecordConvergesAlways ==
  ASSUME ~IsRecord(None), NobodyPlaces, "restart" \notin Faults
  PROVE  Spec => []RecordConverges
<1>1. Init => TrackingInv /\ Single /\ RecordFollows
  BY TrackingInit
<1>2. TrackingInv /\ Single /\ RecordFollows /\ [Next]_vars => (TrackingInv /\ Single /\ RecordFollows)'
  BY TrackingStep, SingleStep, RecordStep DEF TrackingInv, CacheInv
<1>3. TrackingInv /\ RecordFollows => RecordConverges
  <2>. SUFFICES ASSUME TrackingInv, RecordFollows, Quiet, NEW s \in mapped
                PROVE  Known(s) /\ surfaces[s].owner = owner[s] /\ surfaces[s].state = view[s]
    BY DEF RecordConverges
  <2>1. fd \in link /\ up[fd] = <<>> /\ ~Waiting(s)
    BY BoundAssumption DEF TrackingInv, CacheInv, Links, Quiet, Conns, Waiting, LoopIdle
  <2>2. \A topic, x, y : Leads(<<>>, topic, y, x) => y = x
    BY DEF Leads, Says
  <2>3. Record(s) = Screen(s)
    BY <2>1, <2>2 DEF RecordFollows, RecordLeads
  <2>4. \A a, b, x, y : <<a, b>> # <<>> /\ (<<a, b>> = <<x, y>> => a = x /\ b = y)
    OBVIOUS
  <2>5. Known(s)
    BY <2>3, <2>4 DEF Record, Screen
  <2>6. <<surfaces[s].owner, surfaces[s].state>> = <<owner[s], view[s]>>
    BY <2>3, <2>5 DEF Record, Screen
  <2>. QED
    BY <2>4, <2>5, <2>6
<1>. QED
  BY <1>1, <1>2, <1>3, PTL DEF Spec

=============================================================================

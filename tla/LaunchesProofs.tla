---------------------------- MODULE LaunchesProofs ----------------------------
(***************************************************************************)
(* What holds of sessions, launches and the surfaces they own for any      *)
(* number of windows, launches, sessions and control connections, and      *)
(* whatever the hints match.                                               *)
(***************************************************************************)
EXTENDS CompositorLaunches, TLAPS

-----------------------------------------------------------------------------
(* Types. What a goroutine is about to read names a launch that exists.    *)

HandlerOK ==
  \A h \in Handlers :
    handler[h].pc \in {"record", "surface", "signal", "exit", "killed"} =>
      handler[h].launch \in Launches

TypeInv == TypeOK /\ HandlerOK

\* Initially nothing is running and nobody asks for anything.
LEMMA TypeInit == Init => TypeInv
BY DEF Init, TypeInv, TypeOK, HandlerOK, HandlerState, Idle, LaunchRecord, LaunchStatus

\* A goroutine goes on with r.
LEMMA GoesType ==
  ASSUME TypeInv, NEW h \in Handlers, NEW r \in HandlerState, Goes(h, r),
         r.pc \in {"record", "surface", "signal", "exit", "killed"} => r.launch \in Launches
  PROVE  handler' \in [Handlers -> HandlerState] /\ HandlerOK'
<1>. HIDE DEF HandlerState
<1>. QED
  BY DEF TypeInv, TypeOK, HandlerOK, Goes

\* What TerminateLaunch makes of a goroutine's state.
LEMMA TerminatingType ==
  ASSUME TypeOK, NEW r \in HandlerState, NEW l \in Launches
  PROVE  /\ Terminating(r, l) \in HandlerState
         /\ Terminating(r, l).pc \in {"signal", "next"}
         /\ Terminating(r, l).pc = "signal" => Terminating(r, l).launch = l
<1>1. launch[l] # None => launch[l].status \in LaunchStatus
  BY DEF TypeOK, LaunchRecord
<1>2. Owned(l) \subseteq Windows
  BY DEF Owned, TypeOK
<1>. QED
  BY <1>1, <1>2 DEF Terminating, HandlerState

\* A goroutine fails, or goes on to the end of the reset.
LEMMA FailsType ==
  ASSUME NEW r \in HandlerState
  PROVE  /\ [r EXCEPT !.pc = "next"] \in HandlerState
         /\ [r EXCEPT !.pc = "next"].pc = "next"
         /\ [r EXCEPT !.pc = "reset"] \in HandlerState
         /\ [r EXCEPT !.pc = "reset"].pc = "reset"
         /\ [r EXCEPT !.pc = "next", !.failed = TRUE] \in HandlerState
         /\ [r EXCEPT !.pc = "next", !.failed = TRUE].pc = "next"
         /\ Idle \in HandlerState /\ Idle.pc = "idle"
<1>1. [r EXCEPT !.pc = "next"] \in HandlerState /\ [r EXCEPT !.pc = "next"].pc = "next"
  BY DEF HandlerState
<1>2. [r EXCEPT !.pc = "reset"] \in HandlerState /\ [r EXCEPT !.pc = "reset"].pc = "reset"
  BY DEF HandlerState
<1>3. /\ [r EXCEPT !.pc = "next", !.failed = TRUE] \in HandlerState
      /\ [r EXCEPT !.pc = "next", !.failed = TRUE].pc = "next"
  BY DEF HandlerState
<1>4. Idle \in HandlerState /\ Idle.pc = "idle"
  BY DEF HandlerState, Idle
<1>. QED
  BY <1>1, <1>2, <1>3, <1>4

\* Every request, every event and every end of a process.
LEMMA TypeStep == TypeInv /\ [Next]_vars => TypeInv'
<1>. SUFFICES ASSUME TypeInv, [Next]_vars PROVE TypeInv'
  OBVIOUS
<1>. USE DEF TypeInv, TypeOK, HandlerOK
<1>1. ASSUME NEW s \in Sessions, CreateSession(s) PROVE TypeInv'
  BY <1>1 DEF CreateSession, processes, screen, tracking
<1>2. ASSUME NEW w \in Windows, NEW l \in Launches, ClientMaps(w, l) PROVE TypeInv'
  BY <1>2 DEF ClientMaps, processes, screen, tracking
<1>3. ASSUME NEW w \in Windows, ClientUnmaps(w) \/ HandleUnmapped(w) PROVE TypeInv'
  BY <1>3 DEF ClientUnmaps, HandleUnmapped, processes, screen, tracking
<1>4. ASSUME NEW w \in Windows, HandleShown(w) PROVE TypeInv'
  <2>1. Associated(w) \subseteq Launches \cup {None}
    BY DEF Associated, Running, Recorded
  <2>2. Recorded \subseteq Launches
    BY DEF Recorded
  <2>. QED
    BY <1>4, <2>1, <2>2 DEF HandleShown, processes, screen, tracking
<1>5. ASSUME NEW l \in Launches, ProcessExits(l) PROVE TypeInv'
  BY <1>5 DEF ProcessExits, Dies, processes, screen, tracking
<1>6. ASSUME NEW l \in Launches, WaitLaunch(l) PROVE TypeInv'
  <2>1. launch[l] \in LaunchRecord
    BY <1>6 DEF WaitLaunch, Running, Recorded
  <2>2. launch'[l] \in LaunchRecord
    BY <1>6, <2>1 DEF WaitLaunch, LaunchRecord, LaunchStatus
  <2>3. /\ UNCHANGED <<session, processes, screen, recent, handler>>
        /\ closed' = closed \cup {l}
        /\ launch' = [launch EXCEPT ![l].status = "exited"]
        /\ surfaces' \subseteq surfaces
        /\ bound' \in [Windows -> Launches \cup {None}]
    BY <1>6 DEF WaitLaunch, RemoveLayerShell, TypeInv, TypeOK, tracking
  <2>. HIDE DEF LaunchRecord, HandlerState
  <2>4. launch' \in [Launches -> LaunchRecord \cup {None}]
    BY <2>2, <2>3 DEF TypeInv, TypeOK
  <2>. QED
    BY <2>3, <2>4 DEF TypeInv, TypeOK, HandlerOK, processes, screen
<1>7. ASSUME NEW h \in Handlers, NEW s \in Sessions \cup {None}, NEW l \in Launches, LaunchApp(h, s, l)
      PROVE  TypeInv'
  BY <1>7 DEF LaunchApp, Goes, Idle, HandlerState, LaunchStatus, processes, screen, tracking
<1>8. ASSUME NEW h \in Handlers, NEW l \in Launches, TerminateLaunch(h, l) PROVE TypeInv'
  <2>1. [Idle EXCEPT !.op = "terminate"] \in HandlerState
    BY DEF Idle, HandlerState
  <2>2. PICK r : r = Terminating([Idle EXCEPT !.op = "terminate"], l)
    OBVIOUS
  <2>3. r \in HandlerState /\ r.pc \in {"signal", "next"} /\ (r.pc = "signal" => r.launch = l)
    BY <2>1, <2>2, TerminatingType DEF TypeInv
  <2>4. Goes(h, r) /\ UNCHANGED <<session, launch, processes, closed, screen, tracking>>
    BY <1>8, <2>2 DEF TerminateLaunch
  <2>5. handler' \in [Handlers -> HandlerState] /\ HandlerOK'
    BY <2>3, <2>4, GoesType
  <2>. QED
    BY <2>4, <2>5 DEF TypeInv, TypeOK, processes, screen, tracking
<1>9. ASSUME NEW h \in Handlers, NEW s \in Sessions, NEW op \in {"reset", "destroy"}, ResetSession(h, op, s)
      PROVE  TypeInv'
  BY <1>9 DEF ResetSession, Recorded, Goes, Idle, HandlerState, LaunchStatus, processes, screen, tracking
<1>10. ASSUME NEW h \in Handlers, RecordLaunch(h) PROVE TypeInv'
  <2>1. handler[h].launch \in Launches /\ handler[h].session \in Sessions \cup {None}
    BY <1>10 DEF RecordLaunch, At, HandlerState
  <2>. QED
    BY <1>10, <2>1 DEF RecordLaunch, At, Goes, Idle, HandlerState, LaunchRecord, LaunchStatus,
                       processes, screen, tracking
<1>11. ASSUME NEW h \in Handlers, PollSurface(h) PROVE TypeInv'
  <2>1. handler[h].launch \in Launches
    BY <1>11 DEF PollSurface, At
  <2>2. bound' \in [Windows -> Launches \cup {None}]
    BY <1>11, <2>1 DEF PollSurface, Reconcilable
  <2>. QED
    BY <1>11, <2>1, <2>2 DEF PollSurface, Goes, Idle, HandlerState, processes, screen, tracking
<1>12. ASSUME NEW h \in Handlers, SurfaceTimesOut(h) PROVE TypeInv'
  <2>1. Goes(h, Terminating(handler[h], handler[h].launch))
    BY <1>12 DEF SurfaceTimesOut
  <2>2. handler' \in [Handlers -> HandlerState] /\ HandlerOK'
    BY <1>12, <2>1, GoesType, TerminatingType DEF SurfaceTimesOut, At
  <2>. QED
    BY <1>12, <2>2 DEF SurfaceTimesOut, processes, screen, tracking
<1>13. ASSUME NEW h \in Handlers, Signal(h) PROVE TypeInv'
  BY <1>13 DEF Signal, At, Goes, HandlerState, processes, screen, tracking
<1>14. ASSUME NEW h \in Handlers, Exited(h) \/ ExitTimesOut(h) PROVE TypeInv'
  <2>1. CASE Exited(h)
    BY <2>1 DEF Exited, Goes, HandlerState, processes, screen, tracking
  <2>2. CASE ExitTimesOut(h)
    <3>1. Goes(h, [handler[h] EXCEPT !.pc = "next", !.failed = TRUE])
      BY <2>2 DEF ExitTimesOut
    <3>2. handler' \in [Handlers -> HandlerState] /\ HandlerOK'
      BY <3>1, FailsType, GoesType
    <3>. QED
      BY <2>2, <3>2 DEF ExitTimesOut, processes, screen, tracking
  <2>. QED
    BY <1>14, <2>1, <2>2
<1>15. ASSUME NEW h \in Handlers, Kill(h) PROVE TypeInv'
  BY <1>15 DEF Kill, Dies, At, Goes, HandlerState, processes, screen, tracking
<1>16. ASSUME NEW h \in Handlers, CloseSurfaces(h) PROVE TypeInv'
  <2>1. PICK r \in {[handler[h] EXCEPT !.pc = "next"],
                    [handler[h] EXCEPT !.pc = "next", !.failed = TRUE]} : Goes(h, r)
    BY <1>16 DEF CloseSurfaces
  <2>2. r \in HandlerState /\ r.pc = "next"
    <3>1. CASE r = [handler[h] EXCEPT !.pc = "next"]
      BY <3>1, FailsType
    <3>2. CASE r = [handler[h] EXCEPT !.pc = "next", !.failed = TRUE]
      BY <3>2, FailsType
    <3>. QED
      BY <3>1, <3>2
  <2>3. handler' \in [Handlers -> HandlerState] /\ HandlerOK'
    BY <2>1, <2>2, GoesType
  <2>4. closing' \subseteq Windows
    BY <1>16 DEF CloseSurfaces, HandlerState
  <2>. QED
    BY <1>16, <2>3, <2>4 DEF CloseSurfaces, processes, screen, tracking
<1>17. ASSUME NEW h \in Handlers, ResetNext(h) PROVE TypeInv'
  <2>1. PICK l \in handler[h].todo :
          Goes(h, Terminating([handler[h] EXCEPT !.todo = @ \ {l}], l))
    BY <1>17 DEF ResetNext
  <2>2. l \in Launches /\ [handler[h] EXCEPT !.todo = @ \ {l}] \in HandlerState
    BY DEF HandlerState
  <2>3. handler' \in [Handlers -> HandlerState] /\ HandlerOK'
    BY <2>1, <2>2, GoesType, TerminatingType
  <2>. QED
    BY <1>17, <2>3 DEF ResetNext, processes, screen, tracking
<1>18. ASSUME NEW h \in Handlers, ResetDone(h) \/ ResetReturns(h) PROVE TypeInv'
  <2>1. PICK r \in {[handler[h] EXCEPT !.pc = "reset"], Idle} : Goes(h, r)
    BY <1>18 DEF ResetDone, ResetReturns
  <2>2. r \in HandlerState /\ r.pc \in {"reset", "idle"}
    <3>1. CASE r = [handler[h] EXCEPT !.pc = "reset"]
      BY <3>1, FailsType
    <3>2. CASE r = Idle
      BY <3>2, FailsType
    <3>. QED
      BY <3>1, <3>2
  <2>3. handler' \in [Handlers -> HandlerState] /\ HandlerOK'
    BY <2>1, <2>2, GoesType
  <2>4. session' \in [Sessions -> {"none", "live", "destroyed", "blank"}]
    BY <1>18 DEF ResetDone, ResetReturns
  <2>. QED
    BY <1>18, <2>3, <2>4 DEF ResetDone, ResetReturns, processes, screen, tracking
<1>19. ASSUME NEW h \in Handlers, DestroySession(h) PROVE TypeInv'
  BY <1>19 DEF DestroySession, At, Goes, Idle, HandlerState, processes, screen, tracking
<1>20. CASE UNCHANGED vars
  BY <1>20 DEF vars, processes, screen, tracking
<1>. QED
  BY <1>1, <1>2, <1>3, <1>4, <1>5, <1>6, <1>7, <1>8, <1>9, <1>10, <1>11, <1>12, <1>13, <1>14, <1>15, <1>16,
     <1>17, <1>18, <1>19, <1>20 DEF Next

\* Every variable keeps its type, and no goroutine goes on with a launch that
\* it was not given.
THEOREM TypeCorrect == Spec => []TypeInv
BY TypeInit, TypeStep, PTL DEF Spec

-----------------------------------------------------------------------------
(* The owners of surfaces. The types are all that the invariant needs to   *)
(* be inductive: a launch is given away only while it has an entry, and    *)
(* the only request that deletes entries looks through the owners.         *)

\* Every request and every event keeps the owners among the launches that are
\* listed and the owned surfaces among those that are tracked.
LEMMA OwnersStep == TypeInv /\ OwnersAreListed /\ [Next]_vars => OwnersAreListed'
<1>. SUFFICES ASSUME TypeInv, OwnersAreListed, [Next]_vars PROVE OwnersAreListed'
  OBVIOUS
<1>. USE DEF TypeInv, TypeOK, OwnersAreListed
<1>1. CASE UNCHANGED <<tracking, launch>>
  BY <1>1 DEF tracking, Recorded
<1>2. ASSUME NEW w \in Windows, HandleShown(w) PROVE OwnersAreListed'
  <2>1. Associated(w) \subseteq Recorded \cup {None}
    BY DEF Associated, Running
  <2>. QED
    BY <1>2, <2>1 DEF HandleShown, Recorded
<1>3. ASSUME NEW w \in Windows, HandleUnmapped(w) PROVE OwnersAreListed'
  BY <1>3 DEF HandleUnmapped, Recorded
<1>4. ASSUME NEW l \in Launches, WaitLaunch(l) PROVE OwnersAreListed'
  <2>1. launch'[l] # None
    BY <1>4, NoneAssumption, TypeStep DEF WaitLaunch, Running, Recorded, LaunchRecord, LaunchStatus
  <2>2. Recorded \subseteq Recorded'
    BY <1>4, <2>1 DEF WaitLaunch, Recorded
  <2>. QED
    BY <1>4, <2>2 DEF WaitLaunch, RemoveLayerShell
<1>5. ASSUME NEW h \in Handlers, RecordLaunch(h) PROVE OwnersAreListed'
  <2>1. handler[h].session \in Sessions \cup {None}
    BY DEF HandlerState
  <2>2. [session |-> handler[h].session, status |-> "running"] # None
    BY <2>1, NoneAssumption DEF LaunchRecord, LaunchStatus
  <2>3. Recorded \subseteq Recorded'
    BY <1>5, <2>2 DEF RecordLaunch, Recorded
  <2>. QED
    BY <1>5, <2>3 DEF RecordLaunch, tracking
<1>6. ASSUME NEW h \in Handlers, PollSurface(h) PROVE OwnersAreListed'
  <2>1. handler[h].launch \in Recorded
    BY <1>6 DEF PollSurface, At, HandlerOK, Recorded
  <2>2. \A w \in Reconcilable(handler[h].launch) : w \in surfaces
    BY DEF Reconcilable
  <2>. QED
    BY <1>6, <2>1, <2>2 DEF PollSurface, Recorded
<1>7. ASSUME NEW h \in Handlers, DestroySession(h) PROVE OwnersAreListed'
  BY <1>7 DEF DestroySession, Recorded
<1>. QED
  BY <1>1, <1>2, <1>3, <1>4, <1>5, <1>6, <1>7
  DEF Next, vars, CreateSession, ClientMaps, ClientUnmaps, ProcessExits, LaunchApp, TerminateLaunch,
      ResetSession, SurfaceTimesOut, Signal, Exited, Kill, ExitTimesOut, CloseSurfaces, ResetNext,
      ResetDone, ResetReturns

\* Through concurrent launches, terminations, resets and destructions, and for
\* every number of them, a surface is owned by nobody or by a launch that is
\* still listed.
THEOREM OwnersCorrect == Spec => []OwnersAreListed
<1>1. Init => OwnersAreListed
  BY DEF Init, OwnersAreListed
<1>. QED
  BY <1>1, OwnersStep, TypeCorrect, PTL DEF Spec

-----------------------------------------------------------------------------
(* The end of a reset. What a goroutine does next depends on copies it     *)
(* took under the lock, so the invariant says what they still say of the   *)
(* processes when they are used.                                           *)

\* An entry, a closed channel and the status "exited" belong to shells that
\* were started; the last two to shells that have ended.
ShellsEnd ==
  /\ alive \subseteq started /\ Recorded \subseteq started /\ closed \subseteq started
  /\ closed \cap alive = {}
  /\ \A l \in Recorded : launch[l].status = "exited" => l \notin alive

\* Shells that are not signalled because the copy says that they have exited
\* have, and those that got SIGKILL have too.
Awaited(r) ==
  /\ r.pc \in {"record", "signal", "exit", "killed"} => r.launch \in started
  /\ r.pc = "signal" /\ r.status # "running" => r.launch \notin alive
  /\ r.pc = "killed" => r.launch \notin alive

\* Of the shells that a reset found, those that still run are to be
\* terminated or being terminated, unless the reset has failed.
AskedEnd(r) ==
  /\ r.asked \subseteq started
  /\ ~r.failed =>
       \A l \in r.asked \cap alive : l \in r.todo \/ (l = r.launch /\ r.pc \in {"signal", "exit"})
  /\ r.pc = "reset" => ~r.failed /\ r.todo = {}

ResetInv == TypeInv /\ ShellsEnd /\ \A h \in Handlers : Awaited(handler[h]) /\ AskedEnd(handler[h])

LEMMA ResetInit == Init => ResetInv
BY TypeInit DEF Init, ResetInv, ShellsEnd, Awaited, AskedEnd, Idle, Recorded

\* Shells that were started do not come back to life, so what the other
\* goroutines know of them stays true.
LEMMA OthersKeep ==
  ASSUME ResetInv, NEW h \in Handlers, NEW r, Goes(h, r),
         started \subseteq started', alive' \cap started \subseteq alive,
         Awaited(r)', AskedEnd(r)'
  PROVE  (\A g \in Handlers : Awaited(handler[g]) /\ AskedEnd(handler[g]))'
<1>. SUFFICES ASSUME NEW g \in Handlers PROVE (Awaited(handler[g]) /\ AskedEnd(handler[g]))'
  OBVIOUS
<1>1. CASE g = h
  <2>1. handler'[g] = r
    BY <1>1 DEF Goes, ResetInv, TypeInv, TypeOK
  <2>. QED
    BY <2>1 DEF Awaited, AskedEnd
<1>2. CASE g # h
  <2>1. handler'[g] = handler[g]
    BY <1>2 DEF Goes, ResetInv, TypeInv, TypeOK
  <2>2. Awaited(handler[g]) /\ AskedEnd(handler[g])
    BY DEF ResetInv
  <2>3. Awaited(handler[g])'
    BY <2>1, <2>2 DEF Awaited
  <2>4. AskedEnd(handler[g])'
    BY <2>1, <2>2 DEF AskedEnd
  <2>. QED
    BY <2>3, <2>4
<1>. QED
  BY <1>1, <1>2

\* TerminateLaunch starts with copies that are true when they are taken.
LEMMA TerminatingEnds ==
  ASSUME ResetInv, UNCHANGED <<started, alive>>,
         NEW r \in HandlerState, r.asked \subseteq started,
         NEW l \in Launches, ~r.failed => r.asked \cap alive \subseteq r.todo \cup {l},
         NEW q, q = Terminating(r, l)
  PROVE  Awaited(q)' /\ AskedEnd(q)'
<1>1. CASE launch[l] = None
  <2>1. q = [r EXCEPT !.failed = TRUE, !.pc = "next"]
    BY <1>1 DEF Terminating
  <2>2. q.pc = "next" /\ q.failed = TRUE /\ q.asked = r.asked
    BY <2>1 DEF HandlerState
  <2>. QED
    BY <2>2 DEF Awaited, AskedEnd
<1>2. CASE launch[l] # None
  <2>1. q = [r EXCEPT !.pc = "signal", !.launch = l, !.status = launch[l].status, !.windows = Owned(l)]
    BY <1>2 DEF Terminating
  <2>2. /\ q.pc = "signal" /\ q.launch = l /\ q.status = launch[l].status
        /\ q.asked = r.asked /\ q.todo = r.todo /\ q.failed = r.failed
    BY <2>1 DEF HandlerState
  <2>3. l \in started /\ (launch[l].status # "running" => l \notin alive)
    BY <1>2 DEF ResetInv, ShellsEnd, Recorded, TypeInv, TypeOK, LaunchRecord, LaunchStatus
  <2>. QED
    BY <2>2, <2>3 DEF Awaited, AskedEnd
<1>. QED
  BY <1>1, <1>2

\* A goroutine that goes on with r keeps the invariant if r does and processes
\* and entries are left alone.
LEMMA GoesOn ==
  ASSUME ResetInv, TypeInv', NEW h \in Handlers, NEW r, Goes(h, r),
         UNCHANGED <<launch, started, alive, closed>>, Awaited(r)', AskedEnd(r)'
  PROVE  ResetInv'
<1>1. (\A g \in Handlers : Awaited(handler[g]) /\ AskedEnd(handler[g]))'
  BY OthersKeep
<1>. QED
  BY <1>1 DEF ResetInv, ShellsEnd, Recorded

\* Every request, every event and every end of a process.
LEMMA ResetStep == ResetInv /\ [Next]_vars => ResetInv'
<1>. SUFFICES ASSUME ResetInv, [Next]_vars PROVE ResetInv'
  OBVIOUS
<1>0. TypeInv /\ TypeInv' /\ \A h \in Handlers : handler[h] \in HandlerState
  BY TypeStep DEF ResetInv, TypeInv, TypeOK
<1>1. CASE UNCHANGED <<launch, started, alive, closed, handler>>
  BY <1>0, <1>1 DEF ResetInv, ShellsEnd, Awaited, AskedEnd, Recorded
<1>2. ASSUME NEW l \in Launches, ProcessExits(l) PROVE ResetInv'
  BY <1>0, <1>2 DEF ProcessExits, Dies, ResetInv, ShellsEnd, Awaited, AskedEnd, Recorded
<1>3. ASSUME NEW l \in Launches, WaitLaunch(l) PROVE ResetInv'
  <2>1. ShellsEnd'
    <3>1. l \in Recorded /\ l \in started
      BY <1>3 DEF WaitLaunch, Running, ResetInv, ShellsEnd
    <3>2. Recorded' \subseteq Recorded
      BY <1>3, <3>1 DEF WaitLaunch, Recorded
    <3>3. \A k \in Launches : k # l => launch'[k] = launch[k]
      BY <1>0, <1>3 DEF WaitLaunch, TypeInv, TypeOK
    <3>4. \A k \in Recorded' : launch'[k].status = "exited" => k \notin alive
      BY <1>3, <3>2, <3>3 DEF WaitLaunch, ResetInv, ShellsEnd, Recorded
    <3>. QED
      BY <1>3, <3>1, <3>2, <3>4 DEF WaitLaunch, ResetInv, ShellsEnd, processes
  <2>. QED
    BY <1>0, <1>3, <2>1 DEF WaitLaunch, ResetInv, Awaited, AskedEnd, processes
<1>4. ASSUME NEW h \in Handlers, NEW s \in Sessions \cup {None}, NEW l \in Launches, LaunchApp(h, s, l)
      PROVE  ResetInv'
  <2>1. PICK r : r = [Idle EXCEPT !.pc = "record", !.op = "launch", !.session = s, !.launch = l] /\ Goes(h, r)
    BY <1>4 DEF LaunchApp
  <2>2. r.pc = "record" /\ r.launch = l /\ r.asked = {} /\ r.todo = {}
    BY <2>1 DEF Idle
  <2>3. /\ l \notin started /\ started' = started \cup {l} /\ alive' = alive \cup {l}
        /\ UNCHANGED <<launch, closed>>
    BY <1>4 DEF LaunchApp
  <2>4. Awaited(r)' /\ AskedEnd(r)'
    BY <2>2, <2>3 DEF Awaited, AskedEnd
  <2>5. (\A g \in Handlers : Awaited(handler[g]) /\ AskedEnd(handler[g]))'
    BY <2>1, <2>3, <2>4, OthersKeep
  <2>6. ShellsEnd'
    BY <2>3 DEF ResetInv, ShellsEnd, Recorded
  <2>. QED
    BY <1>0, <2>5, <2>6 DEF ResetInv
<1>5. ASSUME NEW h \in Handlers, NEW l \in Launches, TerminateLaunch(h, l) PROVE ResetInv'
  <2>1. PICK r : r = [Idle EXCEPT !.op = "terminate"]
    OBVIOUS
  <2>2. r \in HandlerState /\ r.asked = {}
    BY <2>1 DEF Idle, HandlerState
  <2>3. PICK q : q = Terminating(r, l) /\ Goes(h, q)
    BY <1>5, <2>1 DEF TerminateLaunch
  <2>4. UNCHANGED <<launch, started, alive, closed>>
    BY <1>5 DEF TerminateLaunch, processes
  <2>5. Awaited(q)' /\ AskedEnd(q)'
    BY <2>2, <2>3, <2>4, TerminatingEnds
  <2>. QED
    BY <1>0, <2>3, <2>4, <2>5, GoesOn
<1>6. ASSUME NEW h \in Handlers, NEW s \in Sessions, NEW op \in {"reset", "destroy"}, ResetSession(h, op, s)
      PROVE  ResetInv'
  <2>1. PICK ours \in SUBSET Recorded :
          Goes(h, [Idle EXCEPT !.pc = "next", !.op = op, !.session = s, !.todo = ours, !.asked = ours])
    BY <1>6 DEF ResetSession
  <2>2. PICK r : /\ r = [Idle EXCEPT !.pc = "next", !.op = op, !.session = s, !.todo = ours, !.asked = ours]
                 /\ Goes(h, r)
    BY <2>1
  <2>3. r.pc = "next" /\ r.todo = ours /\ r.asked = ours
    BY <2>2 DEF Idle
  <2>4. UNCHANGED <<launch, started, alive, closed>>
    BY <1>6 DEF ResetSession, processes
  <2>5. Awaited(r)' /\ AskedEnd(r)'
    BY <2>3, <2>4 DEF ResetInv, ShellsEnd, Awaited, AskedEnd
  <2>. QED
    BY <1>0, <2>2, <2>4, <2>5, GoesOn
<1>7. ASSUME NEW h \in Handlers, RecordLaunch(h) PROVE ResetInv'
  <2>1. handler[h].pc = "record" /\ handler[h].launch \in started /\ handler[h].launch \in Launches
    BY <1>0, <1>7 DEF RecordLaunch, At, ResetInv, Awaited, TypeInv, HandlerOK
  <2>2. PICK r : r \in {[handler[h] EXCEPT !.pc = "surface"], Idle} /\ Goes(h, r)
    BY <1>7 DEF RecordLaunch
  <2>3. \/ r.pc = "idle" /\ r.asked = {}
        \/ r.pc = "surface" /\ r.asked = handler[h].asked /\ r.todo = handler[h].todo
           /\ r.failed = handler[h].failed
    <3>1. CASE r = Idle
      BY <3>1 DEF Idle
    <3>2. CASE r = [handler[h] EXCEPT !.pc = "surface"]
      BY <1>0, <3>2 DEF HandlerState
    <3>. QED
      BY <2>2, <3>1, <3>2
  <2>4. UNCHANGED <<started, alive, closed>>
    BY <1>7 DEF RecordLaunch, processes
  <2>5. Awaited(r)' /\ AskedEnd(r)'
    BY <2>1, <2>3, <2>4 DEF ResetInv, Awaited, AskedEnd
  <2>6. (\A g \in Handlers : Awaited(handler[g]) /\ AskedEnd(handler[g]))'
    BY <2>2, <2>4, <2>5, OthersKeep
  <2>7. ShellsEnd'
    <3>1. launch'[handler[h].launch] = [session |-> handler[h].session, status |-> "running"]
      BY <1>0, <1>7, <2>1 DEF RecordLaunch, TypeInv, TypeOK
    <3>2. \A k \in Launches : k # handler[h].launch => launch'[k] = launch[k]
      BY <1>0, <1>7 DEF RecordLaunch, TypeInv, TypeOK
    <3>3. launch'[handler[h].launch].status = "running"
      BY <3>1
    <3>. QED
      BY <2>1, <2>4, <3>2, <3>3 DEF ResetInv, ShellsEnd, Recorded
  <2>. QED
    BY <1>0, <2>6, <2>7 DEF ResetInv
<1>8. ASSUME NEW h \in Handlers, PollSurface(h) PROVE ResetInv'
  <2>1. PICK r \in {Idle, handler[h]} : Goes(h, r)
    BY <1>8 DEF PollSurface
  <2>2. UNCHANGED <<launch, started, alive, closed>>
    BY <1>8 DEF PollSurface, processes
  <2>3. Awaited(r)' /\ AskedEnd(r)'
    <3>1. CASE r = Idle
      BY <3>1 DEF Idle, Awaited, AskedEnd
    <3>2. CASE r = handler[h]
      BY <2>2, <3>2 DEF ResetInv, Awaited, AskedEnd
    <3>. QED
      BY <2>1, <3>1, <3>2
  <2>. QED
    BY <1>0, <2>1, <2>2, <2>3, GoesOn
<1>9. ASSUME NEW h \in Handlers, SurfaceTimesOut(h) PROVE ResetInv'
  <2>1. PICK r \in HandlerState : r = handler[h]
    BY <1>0
  <2>2. PICK q : q = Terminating(r, r.launch) /\ Goes(h, q)
    BY <1>9, <2>1 DEF SurfaceTimesOut
  <2>3. UNCHANGED <<launch, started, alive, closed>>
    BY <1>9 DEF SurfaceTimesOut, processes
  <2>4. r.pc = "surface" /\ r.launch \in Launches /\ AskedEnd(r)
    BY <1>0, <1>9, <2>1 DEF SurfaceTimesOut, At, ResetInv, TypeInv, HandlerOK
  <2>5. Awaited(q)' /\ AskedEnd(q)'
    BY <2>2, <2>3, <2>4, TerminatingEnds DEF AskedEnd
  <2>. QED
    BY <1>0, <2>2, <2>3, <2>5, GoesOn
<1>10. ASSUME NEW h \in Handlers, Signal(h) PROVE ResetInv'
  <2>1. PICK sent \in BOOLEAN :
          /\ handler[h].launch \in alive => sent
          /\ Goes(h, [handler[h] EXCEPT !.pc =
                        IF handler[h].status = "running" /\ sent THEN "exit" ELSE "close"])
    BY <1>10 DEF Signal
  <2>2. PICK pc \in {"exit", "close"} :
          /\ pc = IF handler[h].status = "running" /\ sent THEN "exit" ELSE "close"
          /\ Goes(h, [handler[h] EXCEPT !.pc = pc])
    BY <2>1
  <2>3. PICK r : r = [handler[h] EXCEPT !.pc = pc] /\ Goes(h, r)
    BY <2>2
  <2>4. /\ r.pc = pc /\ r.launch = handler[h].launch /\ r.asked = handler[h].asked
        /\ r.todo = handler[h].todo /\ r.failed = handler[h].failed
    BY <1>0, <2>3 DEF HandlerState
  <2>5. UNCHANGED <<launch, started, alive, closed>>
    BY <1>10 DEF Signal, processes
  <2>6. handler[h].pc = "signal" /\ Awaited(handler[h]) /\ AskedEnd(handler[h])
    BY <1>10 DEF Signal, At, ResetInv
  <2>7. pc = "close" => handler[h].launch \notin alive
    BY <2>1, <2>2, <2>6 DEF Awaited
  <2>8. Awaited(r)' /\ AskedEnd(r)'
    BY <2>4, <2>5, <2>6, <2>7 DEF Awaited, AskedEnd
  <2>. QED
    BY <1>0, <2>3, <2>5, <2>8, GoesOn
<1>11. ASSUME NEW h \in Handlers, Exited(h) PROVE ResetInv'
  <2>1. PICK r : r = [handler[h] EXCEPT !.pc = "close"] /\ Goes(h, r)
    BY <1>11 DEF Exited
  <2>2. /\ r.pc = "close" /\ r.asked = handler[h].asked
        /\ r.todo = handler[h].todo /\ r.failed = handler[h].failed
    BY <1>0, <2>1 DEF HandlerState
  <2>3. UNCHANGED <<launch, started, alive, closed>>
    BY <1>11 DEF Exited, processes
  <2>4. handler[h].launch \notin alive /\ AskedEnd(handler[h])
    BY <1>11 DEF Exited, ResetInv, ShellsEnd
  <2>5. Awaited(r)' /\ AskedEnd(r)'
    BY <2>2, <2>3, <2>4 DEF Awaited, AskedEnd
  <2>. QED
    BY <1>0, <2>1, <2>3, <2>5, GoesOn
<1>12. ASSUME NEW h \in Handlers, Kill(h) PROVE ResetInv'
  <2>1. PICK r : r = [handler[h] EXCEPT !.pc = "killed"] /\ Goes(h, r)
    BY <1>12 DEF Kill
  <2>2. /\ r.pc = "killed" /\ r.launch = handler[h].launch /\ r.asked = handler[h].asked
        /\ r.todo = handler[h].todo /\ r.failed = handler[h].failed
    BY <1>0, <2>1 DEF HandlerState
  <2>3. alive' = alive \ {handler[h].launch} /\ UNCHANGED <<launch, started, closed>>
    BY <1>12 DEF Kill, Dies
  <2>4. handler[h].pc = "exit" /\ Awaited(handler[h]) /\ AskedEnd(handler[h])
    BY <1>12 DEF Kill, At, ResetInv
  <2>5. Awaited(r)' /\ AskedEnd(r)'
    BY <2>2, <2>3, <2>4 DEF Awaited, AskedEnd
  <2>6. (\A g \in Handlers : Awaited(handler[g]) /\ AskedEnd(handler[g]))'
    BY <2>1, <2>3, <2>5, OthersKeep
  <2>7. ShellsEnd'
    BY <2>3 DEF ResetInv, ShellsEnd, Recorded
  <2>. QED
    BY <1>0, <2>6, <2>7 DEF ResetInv
<1>13. ASSUME NEW h \in Handlers, ExitTimesOut(h) PROVE ResetInv'
  <2>1. PICK r : r = [handler[h] EXCEPT !.pc = "next", !.failed = TRUE] /\ Goes(h, r)
    BY <1>13 DEF ExitTimesOut
  <2>2. r.pc = "next" /\ r.asked = handler[h].asked /\ r.failed = TRUE
    BY <1>0, <2>1 DEF HandlerState
  <2>3. UNCHANGED <<launch, started, alive, closed>>
    BY <1>13 DEF ExitTimesOut, processes
  <2>4. Awaited(r)' /\ AskedEnd(r)'
    BY <2>2, <2>3 DEF ResetInv, Awaited, AskedEnd
  <2>. QED
    BY <1>0, <2>1, <2>3, <2>4, GoesOn
<1>14. ASSUME NEW h \in Handlers, CloseSurfaces(h) PROVE ResetInv'
  <2>1. PICK r : /\ r \in {[handler[h] EXCEPT !.pc = "next"], [handler[h] EXCEPT !.pc = "next", !.failed = TRUE]}
                 /\ Goes(h, r)
    BY <1>14 DEF CloseSurfaces
  <2>2. /\ r.pc = "next" /\ r.asked = handler[h].asked /\ r.todo = handler[h].todo
        /\ r.failed \in BOOLEAN /\ (~r.failed => ~handler[h].failed)
    <3>1. CASE r = [handler[h] EXCEPT !.pc = "next"]
      BY <1>0, <3>1 DEF HandlerState
    <3>2. CASE r = [handler[h] EXCEPT !.pc = "next", !.failed = TRUE]
      BY <1>0, <3>2 DEF HandlerState
    <3>. QED
      BY <2>1, <3>1, <3>2
  <2>3. UNCHANGED <<launch, started, alive, closed>>
    BY <1>14 DEF CloseSurfaces, processes
  <2>4. handler[h].pc = "close" /\ AskedEnd(handler[h])
    BY <1>14 DEF CloseSurfaces, At, ResetInv
  <2>5. Awaited(r)' /\ AskedEnd(r)'
    BY <2>2, <2>3, <2>4 DEF Awaited, AskedEnd
  <2>. QED
    BY <1>0, <2>1, <2>3, <2>5, GoesOn
<1>15. ASSUME NEW h \in Handlers, ResetNext(h) PROVE ResetInv'
  <2>1. PICK l \in handler[h].todo : Goes(h, Terminating([handler[h] EXCEPT !.todo = @ \ {l}], l))
    BY <1>15 DEF ResetNext
  <2>2. PICK r : r = [handler[h] EXCEPT !.todo = @ \ {l}]
    OBVIOUS
  <2>3. PICK q : q = Terminating(r, l) /\ Goes(h, q)
    BY <2>1, <2>2
  <2>4. /\ r \in HandlerState /\ l \in Launches
        /\ r.asked = handler[h].asked /\ r.todo = handler[h].todo \ {l} /\ r.failed = handler[h].failed
    BY <1>0, <2>2 DEF HandlerState
  <2>5. UNCHANGED <<launch, started, alive, closed>>
    BY <1>15 DEF ResetNext, processes
  <2>6. handler[h].pc = "next" /\ AskedEnd(handler[h])
    BY <1>15 DEF ResetNext, At, ResetInv
  <2>7. r.asked \subseteq started /\ (~r.failed => r.asked \cap alive \subseteq r.todo \cup {l})
    BY <2>4, <2>6 DEF AskedEnd
  <2>8. Awaited(q)' /\ AskedEnd(q)'
    BY <2>3, <2>4, <2>5, <2>7, TerminatingEnds
  <2>. QED
    BY <1>0, <2>3, <2>5, <2>8, GoesOn
<1>16. ASSUME NEW h \in Handlers, ResetDone(h) PROVE ResetInv'
  <2>1. PICK r : /\ r = Idle \/ (r = [handler[h] EXCEPT !.pc = "reset"] /\ ~handler[h].failed)
                 /\ Goes(h, r)
    BY <1>16 DEF ResetDone
  <2>2. UNCHANGED <<launch, started, alive, closed>>
    BY <1>16 DEF ResetDone, processes
  <2>3. handler[h].pc = "next" /\ handler[h].todo = {} /\ AskedEnd(handler[h])
    BY <1>16 DEF ResetDone, At, ResetInv
  <2>4. Awaited(r)' /\ AskedEnd(r)'
    <3>1. CASE r = Idle
      BY <3>1 DEF Idle, Awaited, AskedEnd
    <3>2. CASE r = [handler[h] EXCEPT !.pc = "reset"] /\ ~handler[h].failed
      <4>1. /\ r.pc = "reset" /\ r.asked = handler[h].asked
            /\ r.todo = handler[h].todo /\ r.failed = handler[h].failed
        BY <1>0, <3>2 DEF HandlerState
      <4>. QED
        BY <2>2, <2>3, <3>2, <4>1 DEF Awaited, AskedEnd
    <3>. QED
      BY <2>1, <3>1, <3>2
  <2>. QED
    BY <1>0, <2>1, <2>2, <2>4, GoesOn
<1>17. ASSUME NEW h \in Handlers, ResetReturns(h) \/ DestroySession(h) PROVE ResetInv'
  <2>1. PICK r : r = Idle /\ Goes(h, r)
    BY <1>17 DEF ResetReturns, DestroySession
  <2>2. UNCHANGED <<started, alive, closed>>
    BY <1>17 DEF ResetReturns, DestroySession, processes
  <2>3. Awaited(r)' /\ AskedEnd(r)'
    BY <2>1 DEF Idle, Awaited, AskedEnd
  <2>4. (\A g \in Handlers : Awaited(handler[g]) /\ AskedEnd(handler[g]))'
    BY <2>1, <2>2, <2>3, OthersKeep
  <2>5. \A l \in Recorded' : l \in Recorded /\ launch'[l] = launch[l]
    BY <1>17 DEF ResetReturns, DestroySession, Recorded
  <2>6. ShellsEnd'
    BY <2>2, <2>5 DEF ResetInv, ShellsEnd
  <2>. QED
    BY <1>0, <2>4, <2>6 DEF ResetInv
<1>. QED
  BY <1>1, <1>2, <1>3, <1>4, <1>5, <1>6, <1>7, <1>8, <1>9, <1>10, <1>11, <1>12, <1>13, <1>14, <1>15, <1>16,
     <1>17
  DEF Next, vars, processes, CreateSession, ClientMaps, ClientUnmaps, HandleShown, HandleUnmapped

\* A reset that succeeds has ended every shell that it found, for any number of
\* concurrent terminations, resets and destructions of the same session.
THEOREM ResetEndsCorrect == Spec => []ResetEnds
<1>1. ResetInv => ResetEnds
  BY DEF ResetInv, ResetEnds, AskedEnd, At
<1>. QED
  BY <1>1, ResetInit, ResetStep, PTL DEF Spec
=============================================================================

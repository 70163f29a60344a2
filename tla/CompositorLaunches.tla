-------------------------- MODULE CompositorLaunches --------------------------
(***************************************************************************)
(* Sessions, launched processes and the surfaces they own in the           *)
(* compositor bridge. A launch is a shell in a process group of its own;   *)
(* its windows are recognised by descent from the shell or, for clients    *)
(* that leave the group, by the app id or the title the caller expects.    *)
(* Bridge.mu is released while a process is started, signalled or waited   *)
(* for, so launches, terminations, resets and destructions interleave.     *)
(***************************************************************************)
EXTENDS Integers, FiniteSets

CONSTANTS
  Sessions, Launches,  \* ids, each used once
  Windows,             \* surface ids, each mapped once
  LayerShell,          \* windows that are layer-shell surfaces
  Forked,              \* windows whose client does not descend from a shell
  Hints,               \* pairs <<window, launch>> that surfaceMatchesLaunchHint accepts
  Handlers,            \* goroutines of control connections
  None

ASSUME WindowsAssumption == LayerShell \subseteq Windows /\ Forked \subseteq Windows
ASSUME HintsAssumption == Hints \subseteq Windows \X Launches

LaunchStatus == {"running", "exited"}
LaunchRecord == [session : Sessions \cup {None}, status : LaunchStatus]

ASSUME NoneAssumption == None \notin Launches \cup LaunchRecord

VARIABLES
  session,   \* Bridge.sessions: "none", "live", "destroyed", or "blank", an entry without token
  launch,    \* Bridge.launches: session and status, None: no entry
  started,   \* launches whose shell was started
  alive,     \* those whose shell runs
  closed,    \* those whose done channel is closed
  maker,     \* window -> launch whose client made it
  mapped,    \* windows on the screen
  closing,   \* windows asked to close
  surfaces,  \* keys of Bridge.surfaces
  recent,    \* window -> launches no younger than its last event
  bound,     \* Bridge.surfaceLaunch
  handler    \* what each control goroutine is doing

processes == <<started, alive>>
screen    == <<maker, mapped, closing>>
tracking  == <<surfaces, recent, bound>>
vars      == <<session, launch, processes, closed, screen, tracking, handler>>

Idle == [pc |-> "idle", op |-> None, session |-> None, launch |-> None, status |-> None,
         windows |-> {}, todo |-> {}, asked |-> {}, failed |-> FALSE]

HandlerState ==
  [pc      : {"idle", "record", "surface", "signal", "exit", "killed", "close", "next", "reset"},
   op      : {None, "launch", "terminate", "reset", "destroy"},
   session : Sessions \cup {None},
   launch  : Launches \cup {None},
   status  : LaunchStatus \cup {None},
   windows : SUBSET Windows, todo : SUBSET Launches, asked : SUBSET Launches, failed : BOOLEAN]

TypeOK ==
  /\ session \in [Sessions -> {"none", "live", "destroyed", "blank"}]
  /\ launch \in [Launches -> LaunchRecord \cup {None}]
  /\ started \subseteq Launches /\ alive \subseteq Launches /\ closed \subseteq Launches
  /\ maker \in [Windows -> Launches \cup {None}]
  /\ mapped \subseteq Windows /\ closing \subseteq Windows /\ surfaces \subseteq Windows
  /\ recent \in [Windows -> SUBSET Launches]
  /\ bound \in [Windows -> Launches \cup {None}]
  /\ handler \in [Handlers -> HandlerState]

Init ==
  /\ session = [s \in Sessions |-> "none"]
  /\ launch = [l \in Launches |-> None]
  /\ started = {} /\ alive = {} /\ closed = {}
  /\ maker = [w \in Windows |-> None] /\ mapped = {} /\ closing = {}
  /\ surfaces = {} /\ recent = [w \in Windows |-> {}] /\ bound = [w \in Windows |-> None]
  /\ handler = [h \in Handlers |-> Idle]

Recorded == {l \in Launches : launch[l] # None}
Running  == {l \in Recorded : launch[l].status = "running"}

-----------------------------------------------------------------------------
(* Ownership of surfaces *)

Descends(w, l) == maker[w] = l /\ w \notin Forked
Hinted(w, l)   == <<w, l>> \in Hints

\* associateSurfaceLocked for a surface whose last event is new.
Associated(w) ==
  IF bound[w] # None THEN {bound[w]}
  ELSE LET own    == {l \in Running : Descends(w, l)}
           hinted == {l \in Running : Hinted(w, l)}
       IN IF own # {} THEN own
          ELSE IF Cardinality(hinted) = 1 THEN hinted ELSE {None}

\* reconcileLaunchSurfaceLocked: the windows it may bind to l.
Reconcilable(l) ==
  LET free   == {w \in surfaces : bound[w] = None /\ l \in recent[w]}
      own    == {w \in free : Descends(w, l)}
      hinted == {w \in free : Hinted(w, l)}
  IN own \cup (IF Cardinality(hinted) = 1 THEN hinted ELSE {})

Owned(l) == {w \in surfaces : bound[w] = l}

\* removeLayerShellSurfacesForLaunchLocked
RemoveLayerShell(l) ==
  LET gone == Owned(l) \cap LayerShell
  IN /\ surfaces' = surfaces \ gone
     /\ bound' = [w \in Windows |-> IF w \in gone THEN None ELSE bound[w]]

-----------------------------------------------------------------------------
(* Processes, clients and the events of the plugin *)

ClientMaps(w, l) ==
  /\ maker[w] = None /\ l \in alive
  /\ maker' = [maker EXCEPT ![w] = l]
  /\ mapped' = mapped \cup {w}
  /\ UNCHANGED <<session, launch, processes, closed, closing, tracking, handler>>

ClientUnmaps(w) ==
  /\ w \in closing
  /\ mapped' = mapped \ {w} /\ closing' = closing \ {w}
  /\ UNCHANGED <<session, launch, processes, closed, maker, tracking, handler>>

\* The windows of the group go with it.
Dies(l) ==
  /\ alive' = alive \ {l}
  /\ mapped' = {w \in mapped : ~Descends(w, l)}
  /\ closing' = closing \cap mapped'

ProcessExits(l) ==
  /\ l \in alive /\ Dies(l)
  /\ UNCHANGED <<session, launch, started, closed, maker, tracking, handler>>

\* waitLaunch; without an entry nothing is done, the channel stays open.
WaitLaunch(l) ==
  /\ l \in Running /\ l \notin alive
  /\ launch' = [launch EXCEPT ![l].status = "exited"]
  /\ RemoveLayerShell(l)
  /\ closed' = closed \cup {l}
  /\ UNCHANGED <<session, processes, screen, recent, handler>>

\* handleSurfaceEvent: mapped, and events about a window that is mapped
HandleShown(w) ==
  /\ w \in mapped
  /\ surfaces' = surfaces \cup {w}
  /\ recent' = [recent EXCEPT ![w] = Recorded]
  /\ \E l \in Associated(w) : bound' = [bound EXCEPT ![w] = l]
  /\ UNCHANGED <<session, launch, processes, closed, screen, handler>>

\* handleSurfaceEvent: unmapped
HandleUnmapped(w) ==
  /\ w \in surfaces /\ w \notin mapped
  /\ surfaces' = surfaces \ {w}
  /\ bound' = [bound EXCEPT ![w] = None]
  /\ UNCHANGED <<session, launch, processes, closed, screen, recent, handler>>

-----------------------------------------------------------------------------
(* Control requests. A session's token is checked first; that of a blank   *)
(* entry is empty and never accepted.                                      *)

At(h, pc) == handler[h].pc = pc
Goes(h, r) == handler' = [handler EXCEPT ![h] = r]

CreateSession(s) ==
  /\ session[s] = "none"
  /\ session' = [session EXCEPT ![s] = "live"]
  /\ UNCHANGED <<launch, processes, closed, screen, tracking, handler>>

Authorised(s) == s # None => session[s] = "live"

\* launchAppAsPeer up to cmd.Start
LaunchApp(h, s, l) ==
  /\ At(h, "idle") /\ Authorised(s) /\ l \notin started
  /\ started' = started \cup {l} /\ alive' = alive \cup {l}
  /\ Goes(h, [Idle EXCEPT !.pc = "record", !.op = "launch", !.session = s, !.launch = l])
  /\ UNCHANGED <<session, launch, closed, screen, tracking>>

RecordLaunch(h) ==
  LET r == handler[h]
  IN /\ At(h, "record")
     /\ launch' = [launch EXCEPT ![r.launch] = [session |-> r.session, status |-> "running"]]
     /\ \E waits \in BOOLEAN : Goes(h, IF waits THEN [r EXCEPT !.pc = "surface"] ELSE Idle)
     /\ UNCHANGED <<session, processes, closed, screen, tracking>>

\* A round of waitForLaunchSurface. The surface it finds is returned once it
\* has settled.
PollSurface(h) ==
  LET l == handler[h].launch
  IN /\ At(h, "surface") /\ launch[l] # None
     /\ IF Owned(l) # {} THEN UNCHANGED bound
        ELSE \E w \in Reconcilable(l) : bound' = [bound EXCEPT ![w] = l]
     /\ \E settled \in BOOLEAN : Goes(h, IF settled THEN Idle ELSE handler[h])
     /\ UNCHANGED <<session, launch, processes, closed, screen, surfaces, recent>>

\* The copies that TerminateLaunch takes under the lock.
Terminating(r, l) ==
  IF launch[l] = None THEN [r EXCEPT !.failed = TRUE, !.pc = "next"]
  ELSE [r EXCEPT !.pc = "signal", !.launch = l, !.status = launch[l].status, !.windows = Owned(l)]

SurfaceTimesOut(h) ==
  /\ At(h, "surface")
  /\ Goes(h, Terminating(handler[h], handler[h].launch))
  /\ UNCHANGED <<session, launch, processes, closed, screen, tracking>>

TerminateLaunch(h, l) ==
  /\ At(h, "idle") /\ launch[l] # None /\ Authorised(launch[l].session)
  /\ Goes(h, Terminating([Idle EXCEPT !.op = "terminate"], l))
  /\ UNCHANGED <<session, launch, processes, closed, screen, tracking>>

\* Bug: nobody waits for the shell to exit.
SignalAndClose(h) ==
  /\ At(h, "signal")
  /\ Goes(h, [handler[h] EXCEPT !.pc = "close"])
  /\ UNCHANGED <<session, launch, processes, closed, screen, tracking>>

\* SIGTERM, which a shell may ignore. A shell that has exited takes the signal
\* until it is waited for.
Signal(h) ==
  LET r == handler[h]
  IN /\ At(h, "signal")
     /\ \E sent \in BOOLEAN :
          /\ r.launch \in alive => sent
          /\ Goes(h, [r EXCEPT !.pc = IF r.status = "running" /\ sent THEN "exit" ELSE "close"])
     /\ UNCHANGED <<session, launch, processes, closed, screen, tracking>>

Exited(h) ==
  /\ handler[h].pc \in {"exit", "killed"} /\ handler[h].launch \in closed
  /\ Goes(h, [handler[h] EXCEPT !.pc = "close"])
  /\ UNCHANGED <<session, launch, processes, closed, screen, tracking>>

\* SIGKILL after two seconds
Kill(h) ==
  /\ At(h, "exit") /\ Dies(handler[h].launch)
  /\ Goes(h, [handler[h] EXCEPT !.pc = "killed"])
  /\ UNCHANGED <<session, launch, started, closed, maker, tracking>>

\* Two more seconds
ExitTimesOut(h) ==
  /\ At(h, "killed")
  /\ Goes(h, [handler[h] EXCEPT !.pc = "next", !.failed = TRUE])
  /\ UNCHANGED <<session, launch, processes, closed, screen, tracking>>

\* Without a plugin the surfaces cannot be closed.
CloseSurfaces(h) ==
  LET r == handler[h]
  IN /\ At(h, "close")
     /\ \/ /\ closing' = closing \cup (r.windows \cap mapped)
           /\ Goes(h, [r EXCEPT !.pc = "next"])
        \/ /\ r.windows # {} /\ UNCHANGED closing
           /\ Goes(h, [r EXCEPT !.pc = "next", !.failed = TRUE])
     /\ UNCHANGED <<session, launch, processes, closed, maker, mapped, tracking>>

\* ResetSession, by itself or as the first half of DestroySession
ResetSession(h, op, s) ==
  LET ours == {l \in Recorded : launch[l].session = s /\ (l \in Running \/ Owned(l) # {})}
  IN /\ At(h, "idle") /\ s # None /\ Authorised(s)
     /\ Goes(h, [Idle EXCEPT !.pc = "next", !.op = op, !.session = s, !.todo = ours, !.asked = ours])
     /\ UNCHANGED <<session, launch, processes, closed, screen, tracking>>

ResetNext(h) ==
  LET r == handler[h]
  IN /\ At(h, "next")
     /\ \E l \in r.todo : Goes(h, Terminating([r EXCEPT !.todo = @ \ {l}], l))
     /\ UNCHANGED <<session, launch, processes, closed, screen, tracking>>

\* The entry is written back, also when it is gone by now: then it is blank.
ResetDone(h) ==
  LET r == handler[h]
      reset == r.op \in {"reset", "destroy"} /\ ~r.failed
  IN /\ At(h, "next") /\ r.todo = {}
     /\ IF reset
        THEN session' = [session EXCEPT ![r.session] = IF @ = "destroyed" THEN "blank" ELSE @]
        ELSE UNCHANGED session
     /\ Goes(h, IF reset THEN [r EXCEPT !.pc = "reset"] ELSE Idle)
     /\ UNCHANGED <<launch, processes, closed, screen, tracking>>

ResetReturns(h) ==
  /\ At(h, "reset") /\ handler[h].op = "reset"
  /\ Goes(h, Idle)
  /\ UNCHANGED <<session, launch, processes, closed, screen, tracking>>

\* Bug: the surfaces keep the id of the launch that is deleted.
DestroySessionOnly(h) ==
  LET s == handler[h].session
  IN /\ At(h, "reset") /\ handler[h].op = "destroy"
     /\ session' = [session EXCEPT ![s] = "destroyed"]
     /\ launch' = [l \in Launches |-> IF l \in Recorded /\ launch[l].session = s THEN None ELSE launch[l]]
     /\ Goes(h, Idle)
     /\ UNCHANGED <<processes, closed, screen, tracking>>

DestroySession(h) ==
  LET s == handler[h].session
      ours == {l \in Recorded : launch[l].session = s}
  IN /\ At(h, "reset") /\ handler[h].op = "destroy"
     /\ session' = [session EXCEPT ![s] = "destroyed"]
     /\ launch' = [l \in Launches |-> IF l \in ours THEN None ELSE launch[l]]
     /\ bound' = [w \in Windows |-> IF bound[w] \in Recorded \ ours THEN bound[w] ELSE None]
     /\ Goes(h, Idle)
     /\ UNCHANGED <<processes, closed, screen, surfaces, recent>>

-----------------------------------------------------------------------------
Next ==
  \/ \E s \in Sessions : CreateSession(s)
  \/ \E w \in Windows, l \in Launches : ClientMaps(w, l)
  \/ \E w \in Windows : ClientUnmaps(w) \/ HandleShown(w) \/ HandleUnmapped(w)
  \/ \E l \in Launches : ProcessExits(l) \/ WaitLaunch(l)
  \/ \E h \in Handlers, s \in Sessions \cup {None}, l \in Launches : LaunchApp(h, s, l)
  \/ \E h \in Handlers, l \in Launches : TerminateLaunch(h, l)
  \/ \E h \in Handlers, s \in Sessions, op \in {"reset", "destroy"} : ResetSession(h, op, s)
  \/ \E h \in Handlers :
       \/ RecordLaunch(h) \/ PollSurface(h) \/ SurfaceTimesOut(h)
       \/ Signal(h) \/ Exited(h) \/ Kill(h) \/ ExitTimesOut(h) \/ CloseSurfaces(h)
       \/ ResetNext(h) \/ ResetDone(h) \/ ResetReturns(h) \/ DestroySession(h)

Spec == Init /\ [][Next]_vars

-----------------------------------------------------------------------------
\* The owner of a surface is a launch that is still listed, and the surface is
\* tracked: otherwise it could never be given to another launch, nor be closed
\* with its session. Launches disappear with their session only.
OwnersAreListed ==
  \A w \in Windows : bound[w] # None => w \in surfaces /\ bound[w] \in Recorded

\* A reset that succeeds has ended every process it found, also those that had
\* to be killed or were terminated by somebody else meanwhile.
ResetEnds ==
  \A h \in Handlers : At(h, "reset") => handler[h].asked \cap alive = {}

\* A window that the hints of several running launches match is not given to
\* any of them, unless it descends from it.
AmbiguousUnbound ==
  [][\A w \in Windows, l \in Running :
       bound[w] = None /\ bound'[w] = l /\ ~Descends(w, l) =>
         {k \in Running : Hinted(w, k)} = {l}]_vars

=============================================================================

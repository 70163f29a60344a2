--------------------------- MODULE CompositorPlugin ---------------------------
(***************************************************************************)
(* The compositor with its bridge plugin (compositor/wayfire-plugin): the  *)
(* views it shows, the plugin's copy of the input policies, and the socket *)
(* to the bridge. A reader thread takes the bridge's lines: it applies     *)
(* policies at once and queues commands by kind; the compositor's event    *)
(* loop takes all that is queued, handles one kind after the other, and    *)
(* reports what it does.                                                   *)
(***************************************************************************)
EXTENDS Integers, FiniteSets, SequencesExt

CONSTANTS
  Surfaces,    \* surface ids, "view-<n>" after the compositor's view ids
  Uids,        \* of the clients and of the agents that drive input
  None,
  Faults,      \* "decode": the bridge gives up a connection
               \* "restart": the compositor restarts
               \* "bridge": the bridge restarts
  MaxFaults, MaxConns, MaxMoves   \* bounds

ASSUME BoundAssumption == MaxFaults \in Nat /\ MaxConns \in Nat /\ MaxMoves \in Nat

\* What a client or a command may change of a view. A geometry is 0 or 1, two
\* places too far apart to be taken for one another.
Props == {"geometry", "above", "fullscreen", "maximized", "minimized"}
State == [Props -> 0..1]
Fresh == [p \in Props |-> 0]

Conns == 1..MaxConns

VARIABLES
  owner,    \* surface -> uid of its client, None while the id is unused
  mapped,   \* surfaces on the screen
  view,     \* surface -> its State
  top,      \* the topmost view
  focus,    \* keyboard_focus_view_
  closing,  \* views whose client was asked to close
  pending,  \* pending_..._requests_, all kinds
  resync,   \* pending_surface_resync_
  wake,     \* requests process_close_wake has taken and not handled yet
  resyncing, \* it has to announce everything again
  announce, \* views resync_surfaces has still to announce
  cache,    \* policy_cache_t::by_surface_
  actor,    \* policy_cache_t::actor_uid_
  fd,       \* the plugin's connection, 0: none
  latest,   \* connections made so far
  link,     \* connections that neither side has closed
  up, down, \* connection -> lines not read yet
  moves, faults  \* for the bounds

screen   == <<owner, mapped, view, top, focus>>
work     == <<closing, pending, resync, wake, resyncing, announce>>
policy   == <<cache, actor>>
sockets  == <<fd, latest, link>>
compositor == <<screen, work, policy, sockets, up, down, moves, faults>>

PluginInit ==
  /\ owner = [s \in Surfaces |-> None]
  /\ mapped = {} /\ closing = {}
  /\ view = [s \in Surfaces |-> Fresh]
  /\ top = None /\ focus = None
  /\ pending = <<>> /\ resync = FALSE
  /\ wake = <<>> /\ resyncing = FALSE /\ announce = {}
  /\ cache = [s \in Surfaces |-> None] /\ actor = None
  /\ fd = 0 /\ latest = 0 /\ link = {}
  /\ up = [c \in Conns |-> <<>>] /\ down = [c \in Conns |-> <<>>]
  /\ moves = 0 /\ faults = 0

-----------------------------------------------------------------------------
(* Lines to the bridge *)

\* A line sent without a connection is lost.
SendLines(lines) ==
  up' = IF fd \in link THEN [up EXCEPT ![fd] = @ \o lines] ELSE up

Event(name, s, state, front) ==
  [type |-> "event", event |-> name, surface |-> s, owner |-> owner[s],
   state |-> state, top |-> front = s]

Shows(name, s) == Event(name, s, view[s], top)

Response(r, ok) == [type |-> "response", id |-> r.id, ok |-> ok]

-----------------------------------------------------------------------------
(* The event loop. It takes everything that is queued at once and handles  *)
(* one request after the other, while the reader thread goes on.           *)

LoopIdle == wake = <<>> /\ ~resyncing /\ announce = {}

\* process_close_wake
Wake ==
  /\ LoopIdle /\ (pending # <<>> \/ resync)
  /\ wake' = pending /\ pending' = <<>>
  /\ resyncing' = resync /\ resync' = FALSE
  /\ UNCHANGED <<screen, closing, announce, policy, sockets, up, down, moves, faults>>

\* Kinds in the order they are handled; the second half of a raise comes
\* before the next raise, and closing after a resync.
InOrder == [place |-> 1, property |-> 2, state |-> 3, focus |-> 4, raised |-> 5, raise |-> 6,
            capture |-> 7, input |-> 8, close |-> 9, close_by_uid |-> 9]

Closes(r) == r.op \in {"close", "close_by_uid"}

Turn(i) ==
  /\ announce = {} /\ (resyncing => ~Closes(wake[i]))
  /\ \A j \in DOMAIN wake : \/ InOrder[wake[j].op] > InOrder[wake[i].op]
                            \/ InOrder[wake[j].op] = InOrder[wake[i].op] /\ j >= i

Stays == UNCHANGED <<owner, mapped, pending, resync, resyncing, policy, sockets, down, moves, faults>>

Serves(i) == Turn(i) /\ wake' = RemoveAt(wake, i) /\ Stays

\* The event that carries the new state to the bridge.
Carrier(r) ==
  CASE r.prop # "minimized" -> "focused"
    [] r.prop = "minimized" /\ r.value = 1 -> "minimized"
    [] OTHER -> "restored"

\* A minimized view gives up the focus.
ProcessChange(i) ==
  LET r     == wake[i]
      state == [view[r.surface] EXCEPT ![r.prop] = r.value]
  IN /\ r.op \in {"place", "property", "state"} /\ r.surface \in mapped
     /\ Serves(i)
     /\ view' = [view EXCEPT ![r.surface] = state]
     /\ focus' = IF r.prop = "minimized" /\ r.value = 1 /\ focus = r.surface THEN None ELSE focus
     /\ SendLines(<<Event(Carrier(r), r.surface, state, top), Response(r, TRUE)>>)
     /\ UNCHANGED <<top, closing, announce>>

GivesFocus(i) ==
  LET r == wake[i]
  IN /\ r.surface \in mapped
     /\ Serves(i)
     /\ focus' = r.surface
     /\ SendLines(IF focus = r.surface THEN <<Response(r, TRUE)>>
                  ELSE <<Shows("focused", r.surface), Response(r, TRUE)>>)
     /\ UNCHANGED <<view, top, closing, announce>>

ProcessFocus(i) == wake[i].op = "focus" /\ GivesFocus(i)

\* Keys and clicks go to the view, which gets the focus first.
ProcessInput(i) == wake[i].op = "input" /\ GivesFocus(i)

\* Everything is announced again before the raise is.
ProcessRaise(i) ==
  LET r == wake[i]
  IN /\ r.op = "raise" /\ r.surface \in mapped
     /\ Turn(i) /\ Stays
     /\ wake' = [wake EXCEPT ![i].op = "raised"]
     /\ top' = r.surface
     /\ announce' = mapped
     /\ UNCHANGED <<view, focus, closing, up>>

ProcessRaised(i) ==
  LET r == wake[i]
  IN /\ r.op = "raised" /\ r.surface \in mapped
     /\ Serves(i)
     /\ SendLines(<<Shows("stacked", r.surface), Response(r, TRUE)>>)
     /\ UNCHANGED <<view, top, focus, closing, announce>>

ProcessCapture(i) ==
  LET r == wake[i]
  IN /\ r.op = "capture" /\ r.surface \in mapped
     /\ Serves(i)
     /\ SendLines(<<Response(r, TRUE)>>)
     /\ UNCHANGED <<view, top, focus, closing, announce>>

\* A view that is gone, or a request the compositor does not carry out.
Refuses(i) ==
  LET r == wake[i]
  IN /\ ~Closes(r) /\ r.op # "raised"
     /\ r.surface \notin mapped \/ r.op # "place"
     /\ Serves(i)
     /\ SendLines(<<Response(r, FALSE)>>)
     /\ UNCHANGED <<view, top, focus, closing, announce>>

\* What close_surface and close_surfaces_by_uid ask for.
CloseTargets(r) ==
  {s \in mapped : IF r.op = "close" THEN r.surface = s ELSE r.uid = owner[s]}

ProcessClose(i) ==
  /\ Closes(wake[i])
  /\ Serves(i)
  /\ closing' = closing \cup CloseTargets(wake[i])
  /\ UNCHANGED <<view, top, focus, up, announce>>

\* resync_surfaces
ResyncSurfaces ==
  /\ resyncing /\ announce = {} /\ \A i \in DOMAIN wake : Closes(wake[i])
  /\ resyncing' = FALSE
  /\ announce' = mapped
  /\ UNCHANGED <<screen, closing, wake, pending, resync, policy, sockets, up, down, moves, faults>>

Announce(s) ==
  /\ s \in announce /\ announce' = announce \ {s}
  /\ SendLines(<<Shows("mapped", s)>>)
  /\ UNCHANGED <<view, top, focus, closing, wake>> /\ Stays

LoopNext ==
  \/ Wake \/ ResyncSurfaces \/ \E s \in Surfaces : Announce(s)
  \/ \E i \in DOMAIN wake :
       \/ ProcessChange(i) \/ ProcessFocus(i) \/ ProcessInput(i) \/ ProcessRaise(i)
       \/ ProcessRaised(i) \/ ProcessCapture(i) \/ Refuses(i) \/ ProcessClose(i)

-----------------------------------------------------------------------------
(* Clients and the user *)

Moves == moves < MaxMoves /\ moves' = moves + 1  \* bound

MapView(s, u) ==
  /\ LoopIdle /\ Moves /\ s \notin mapped
  /\ owner[s] \in {u, None}
  /\ owner' = [owner EXCEPT ![s] = u]
  /\ mapped' = mapped \cup {s}
  /\ SendLines(<<[type |-> "event", event |-> "mapped", surface |-> s, owner |-> u,
                  state |-> view[s], top |-> top = s]>>)
  /\ UNCHANGED <<view, top, focus, work, policy, sockets, down, faults>>

\* The client unmaps its surface by itself or because it was asked to.
UnmapView(s) ==
  /\ LoopIdle /\ s \in mapped
  /\ IF s \in closing THEN UNCHANGED moves ELSE Moves
  /\ SendLines(<<Shows("unmapped", s)>>)
  /\ focus' = IF focus = s THEN None ELSE focus
  /\ top' = IF top = s THEN None ELSE top
  /\ mapped' = mapped \ {s}
  /\ closing' = closing \ {s}
  /\ cache' = [cache EXCEPT ![s] = None]
  /\ UNCHANGED <<owner, view, pending, resync, wake, resyncing, announce, actor, sockets, down, faults>>

\* A click raises the view as well.
UserFocuses(s) ==
  /\ LoopIdle /\ Moves /\ s \in mapped /\ focus # s
  /\ focus' = s /\ top' = s
  /\ SendLines(<<Event("focused", s, view[s], s)>>)
  /\ UNCHANGED <<owner, mapped, view, work, policy, sockets, down, faults>>

-----------------------------------------------------------------------------
(* The reader thread *)

Reads(m) ==
  /\ fd # 0 /\ down[fd] # <<>> /\ m = Head(down[fd])
  /\ down' = [down EXCEPT ![fd] = Tail(@)]

ReadPolicy(m) ==
  /\ Reads(m)
  /\ \/ m.op = "policy_replace" /\ cache' = m.policies /\ UNCHANGED actor
     \/ m.op = "policy_upsert" /\ cache' = [cache EXCEPT ![m.surface] = m.policy] /\ UNCHANGED actor
     \/ m.op = "policy_remove" /\ cache' = [cache EXCEPT ![m.surface] = None] /\ UNCHANGED actor
     \/ m.op = "input_context" /\ actor' = m.uid /\ UNCHANGED cache
  /\ UNCHANGED <<screen, work, sockets, up, moves, faults>>

Commands == {"place", "property", "state", "focus", "raise", "capture", "input",
             "close", "close_by_uid"}

ReadCommand(m) ==
  /\ Reads(m) /\ m.op \in Commands
  /\ pending' = Append(pending, m)
  /\ UNCHANGED <<screen, closing, resync, wake, resyncing, announce, policy, sockets, up, moves, faults>>

\* Bug: what the plugin shows is not announced again.
ConnectsSilently ==
  /\ fd = 0 /\ latest < MaxConns
  /\ latest' = latest + 1 /\ fd' = latest + 1
  /\ link' = link \cup {latest + 1}
  /\ UNCHANGED <<screen, work, policy, up, down, moves, faults>>

Connects ==
  /\ fd = 0 /\ latest < MaxConns
  /\ latest' = latest + 1 /\ fd' = latest + 1
  /\ link' = link \cup {latest + 1}
  /\ resync' = TRUE
  /\ UNCHANGED <<screen, closing, pending, wake, resyncing, announce, policy, up, down, moves, faults>>

LosesLink ==
  /\ fd # 0 /\ fd \notin link
  /\ fd' = 0
  /\ down' = [down EXCEPT ![fd] = <<>>]
  /\ UNCHANGED <<screen, work, policy, latest, link, up, moves, faults>>

\* The process and all its views are gone; view ids start again from the first.
CompositorRestarts ==
  /\ "restart" \in Faults /\ faults < MaxFaults
  /\ faults' = faults + 1
  /\ owner' = [s \in Surfaces |-> None]
  /\ mapped' = {} /\ closing' = {}
  /\ view' = [s \in Surfaces |-> Fresh]
  /\ top' = None /\ focus' = None
  /\ pending' = <<>> /\ resync' = FALSE
  /\ wake' = <<>> /\ resyncing' = FALSE /\ announce' = {}
  /\ cache' = [s \in Surfaces |-> None] /\ actor' = None
  /\ link' = link \ {fd} /\ fd' = 0
  /\ down' = [c \in Conns |-> <<>>]
  /\ UNCHANGED <<latest, up, moves>>

PluginNext ==
  \/ \E s \in Surfaces, u \in Uids : MapView(s, u)
  \/ \E s \in Surfaces : UnmapView(s) \/ UserFocuses(s)
  \/ \E c \in Conns : \E m \in ToSet(down[c]) : ReadPolicy(m) \/ ReadCommand(m)
  \/ LoopNext \/ Connects \/ LosesLink \/ CompositorRestarts

=============================================================================

--------------------------- MODULE LeaseLifecycle ---------------------------
(***************************************************************************)
(* What the supervisor promises about worker leases, with none of its      *)
(* goroutines: a lease is granted once, under terms that never change,     *)
(* runs until it is released, terminated or overdue, and never runs again. *)
(* It may not be declared expired before its time. Leases are kept in      *)
(* memory: a restart of the daemon forgets them all. Supervisor.tla        *)
(* implements this.                                                        *)
(***************************************************************************)
EXTENDS Integers

CONSTANT NoExpiry  \* the expiry of a lease that never expires

VARIABLES
  lease,   \* worker -> [terms, state], for the workers granted so far
  now      \* the current time

vars == <<lease, now>>

running(w) == w \in DOMAIN lease /\ lease[w].state = "running"

overdue(w) ==
  /\ running(w)
  /\ lease[w].terms.expires # NoExpiry
  /\ lease[w].terms.expires < now

Init ==
  /\ lease = [w \in {} |-> {}]
  /\ now = 0

\* A worker that has no lease gets one, under whatever terms, and runs.
Granted ==
  /\ \E w \in DOMAIN lease' \ DOMAIN lease :
       /\ DOMAIN lease' = DOMAIN lease \cup {w}
       /\ lease'[w].state = "running"
  /\ \A v \in DOMAIN lease : lease'[v] = lease[v]
  /\ UNCHANGED now

Ended(w, state) ==
  /\ \/ running(w) /\ state \in {"released", "terminated"}
     \/ w \in DOMAIN lease /\ lease[w].state = "released" /\ state = "terminated"
  /\ lease' = [lease EXCEPT ![w].state = state]
  /\ UNCHANGED now

\* One sweep ends every overdue lease at once.
Swept ==
  /\ lease' = [w \in DOMAIN lease |->
                 IF overdue(w) THEN [lease[w] EXCEPT !.state = "expired"] ELSE lease[w]]
  /\ UNCHANGED now

Forgotten ==
  /\ lease' = [w \in {} |-> {}]
  /\ UNCHANGED now

TimePasses == now' = now + 1 /\ UNCHANGED lease

Next ==
  \/ Granted
  \/ \E w \in DOMAIN lease, state \in {"released", "terminated"} : Ended(w, state)
  \/ Swept
  \/ Forgotten
  \/ TimePasses

Spec == Init /\ [][Next]_vars

=============================================================================

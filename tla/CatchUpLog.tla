----------------------------- MODULE CatchUpLog -----------------------------
(***************************************************************************)
(* What the audit service promises a subscriber: the last Window events    *)
(* before it came and then every event, in order and without a gap at the  *)
(* seam. An event may be missing for one reason only: when it was          *)
(* published, the subscriber had Room or more others still to get.         *)
(***************************************************************************)
EXTENDS Integers, Sequences

CONSTANTS
  Readers,
  Window,  \* a positive number
  Room     \* a number

VARIABLES
  length,  \* how many events were published, numbered from 1
  phase,   \* reader -> "new", "joined", "left"
  owed,    \* reader -> the numbers of the events it has still to get
  got      \* reader -> the numbers of the events it got, in order

TypeOK ==
  /\ length \in Nat
  /\ phase \in [Readers -> {"new", "joined", "left"}]
  /\ owed \in [Readers -> Seq(Nat)]
  /\ got \in [Readers -> Seq(Nat)]

Init ==
  /\ length = 0
  /\ phase = [r \in Readers |-> "new"]
  /\ owed = [r \in Readers |-> <<>>]
  /\ got = [r \in Readers |-> <<>>]

Recent ==
  LET n == IF length < Window THEN length ELSE Window
  IN  [i \in 1..n |-> length - n + i]

Join(r) ==
  /\ phase[r] = "new"
  /\ phase' = [phase EXCEPT ![r] = "joined"]
  /\ owed' = [owed EXCEPT ![r] = Recent]
  /\ UNCHANGED <<length, got>>

Joined == {r \in Readers : phase[r] = "joined"}

Publish ==
  /\ length' = length + 1
  /\ \E missing \in SUBSET {r \in Joined : Len(owed[r]) >= Room} :
       owed' = [r \in Readers |->
                  IF r \in Joined \ missing THEN Append(owed[r], length + 1) ELSE owed[r]]
  /\ UNCHANGED <<phase, got>>

Deliver(r) ==
  /\ phase[r] = "joined"
  /\ owed[r] # <<>>
  /\ got' = [got EXCEPT ![r] = Append(@, Head(owed[r]))]
  /\ owed' = [owed EXCEPT ![r] = Tail(@)]
  /\ UNCHANGED <<length, phase>>

Leave(r) ==
  /\ phase[r] = "joined"
  /\ phase' = [phase EXCEPT ![r] = "left"]
  /\ owed' = [owed EXCEPT ![r] = <<>>]
  /\ UNCHANGED <<length, got>>

Next == Publish \/ \E r \in Readers : Join(r) \/ Deliver(r) \/ Leave(r)

Spec == Init /\ [][Next]_<<length, phase, owed, got>>

=============================================================================

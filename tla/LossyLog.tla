------------------------------- MODULE LossyLog -------------------------------
(***************************************************************************)
(* What the event bus promises a subscriber: events come in the order in   *)
(* which they were published, the same for everyone, none twice and none   *)
(* before it was published. Any of them may be missing.                    *)
(***************************************************************************)
EXTENDS Integers, Sequences

CONSTANT Readers

VARIABLES
  length,  \* how many events were published, numbered from 1
  got      \* reader -> the numbers of the events it got, in order

TypeOK == length \in Nat /\ got \in [Readers -> Seq(1..length)]

Init == length = 0 /\ got = [r \in Readers |-> <<>>]

Publish == length' = length + 1 /\ UNCHANGED got

latest(r) == IF got[r] = <<>> THEN 0 ELSE got[r][Len(got[r])]

Deliver(r) ==
  /\ \E n \in (latest(r) + 1)..length : got' = [got EXCEPT ![r] = Append(@, n)]
  /\ UNCHANGED length

Next == Publish \/ \E r \in Readers : Deliver(r)

Spec == Init /\ [][Next]_<<length, got>>

=============================================================================

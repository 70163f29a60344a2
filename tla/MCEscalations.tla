---------------------------- MODULE MCEscalations ----------------------------
(***************************************************************************)
(* A small instance of Escalations for TLC: two reviewers that race for    *)
(* one escalation, and the fault kinds.                                    *)
(***************************************************************************)
EXTENDS Escalations, TLC

CONSTANTS c1, r1, r2, approve, deny

Symmetry == Permutations({r1, r2}) \cup Permutations({approve, deny})

=============================================================================

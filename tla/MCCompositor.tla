----------------------------- MODULE MCCompositor -----------------------------
(* Constants of the compositor runs. *)
EXTENDS CompositorBridge

CONSTANTS v1, v2, o1

NoneWanted == [s \in Surfaces |-> None]
FirstWanted == [s \in Surfaces |-> IF s = v1 THEN o1 ELSE None]
SomeGrants == {{"pointer"}}
SomeOverrides == {[owner |-> 0, pointer |-> {}, keyboard |-> {0}]}
Symmetry == Permutations(Surfaces)
=============================================================================

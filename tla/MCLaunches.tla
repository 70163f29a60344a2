------------------------------ MODULE MCLaunches ------------------------------
(* Constants of the launch runs. *)
EXTENDS CompositorLaunches

CONSTANTS w1, w2, l1, l2

\* w2 is a window of a client that has left the group of its launch.
OneHint  == {<<w2, l1>>}
TwoHints == {<<w2, l1>>, <<w2, l2>>}
=============================================================================

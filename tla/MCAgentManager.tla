-------------------------- MODULE MCAgentManager ----------------------------
(***************************************************************************)
(* Small instances of AgentManager for TLC.                                *)
(***************************************************************************)
EXTENDS AgentManager

CONSTANTS h1, h2, n1

spawn(uid, net, command) == [uid |-> uid, name |-> n1, net |-> net, command |-> command]

\* The next uid or a named one; confined or not; with and without a command.
MCSpawns == {spawn(0, "deny", TRUE), spawn(1, "local_only", TRUE), spawn(0, "allow", FALSE)}

=============================================================================

------------------------------ MODULE MCEventBus ------------------------------
(***************************************************************************)
(* Small instances of EventBus: a root service, an agent on the socket and *)
(* a browser behind the gateway, with topics of every kind of policy and   *)
(* wildcards that cut across them.                                         *)
(***************************************************************************)
EXTENDS EventBus, TLC

CONSTANTS service, agent, browser

MCUids == {0, 7, 8}
MCSegOf == 0 :> "0" @@ 7 :> "7" @@ 8 :> "8"

MCPeerOf     == service :> 0 @@ agent :> 7 @@ browser :> 0
MCIdentityOf == service :> None @@ agent :> None @@ browser :> [role |-> "agent", uid |-> 8]

envelope(from, to) == [from |-> from, to |-> to, kind |-> "note"]
note(from, to) == <<"agent", "message", SegOf[from], SegOf[to], "note">>

pub(topic, body, as) == [op |-> "pub", topic |-> topic, body |-> body, as |-> as]
sub(pattern) == [op |-> "sub", topic |-> pattern, body |-> None, as |-> None]
unsub(pattern) == [op |-> "unsub", topic |-> pattern, body |-> None, as |-> None]

Requested == <<"admin", "escalation", "requested">>
Spawned   == <<"agent", "lifecycle", "spawned">>
Theme     == <<"shell", "apply_theme">>

for(uid, kind) == [uid |-> uid, kind |-> kind]

\* The service listens to agent messages by wildcard; the agent tries what it
\* may and may not do; so does the browser, which is agent 8.
MCMessages ==
  service :> {pub(Requested, None, None), pub(note(0, 7), envelope(0, 7), None),
              sub(<<"agent", "*", "*", "*", "*">>)} @@
  agent :> {pub(Spawned, None, None), pub(note(8, 8), envelope(8, 8), for(8, "delegated")),
            pub(note(7, 8), envelope(7, 8), None), sub(<<"*", "*", "requested">>),
            sub(<<"shell", "*">>), unsub(<<"shell", "*">>)} @@
  browser :> {pub(Theme, None, None),
              sub(<<"agent", "message", "*", "8", "*">>), sub(<<"agent", "message", "*", "*", "*">>)}

MCMaxSent == service :> 1 @@ agent :> 3 @@ browser :> 1

=============================================================================

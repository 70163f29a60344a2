---------------------------- MODULE MCAmbassador ----------------------------
(***************************************************************************)
(* Small instances of Ambassador: turns that delegate one or two tasks,    *)
(* are answered, fail or escalate, over queues of a single event.         *)
(***************************************************************************)
EXTENDS Ambassador, TLC

CONSTANTS t1, t2, w1, k1, k2, k3

MCUids  == {0, 7}
MCSegOf == 0 :> "0" @@ 7 :> "7"

plain(action) == [action |-> action, requests |-> <<>>]
ask(task, prof) == [task |-> task, profile |-> prof]
delegate(requests) == [action |-> "delegate", requests |-> requests]

MCPlans ==
  t1 :> {plain("direct_answer"), plain("nonsense"), plain("ask_followup"), plain("escalate_admin")} @@
  t2 :> {delegate(<<ask(k1, "custom"), ask(k2, "custom")>>), delegate(<<ask(k3, "repo-search")>>),
         delegate(<<ask(k3, "repo-inspector")>>)}

MCBudgetOf ==
  k1 :> [maxSteps |-> 0, timed |-> FALSE] @@ k2 :> [maxSteps |-> 0, timed |-> FALSE] @@
  k3 :> [maxSteps |-> 2, timed |-> TRUE]

=============================================================================

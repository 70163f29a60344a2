------------------------------ MODULE BusPolicy ------------------------------
(***************************************************************************)
(* Who may publish and subscribe to what: the topic matcher and the checks *)
(* of the event bus (internal/bus) and of the websocket gateway before it  *)
(* (internal/webbus). A topic or a pattern is the sequence of its dot-     *)
(* separated segments; a uid in a topic is the segment SegOf gives it.     *)
(***************************************************************************)
EXTENDS Integers, SequencesExt

CONSTANTS
  Uids,   \* uids of peers, senders and recipients; 0 is root
  SegOf   \* uid -> the segment strconv.FormatUint makes of it

ASSUME SegAssumption ==
  /\ 0 \in Uids /\ Uids \subseteq Nat
  /\ SegOf \in [Uids -> STRING \ {"", "*"}]
  /\ \A u, v \in Uids : SegOf[u] = SegOf[v] => u = v

(* Topics *)

\* strings.HasPrefix with a family that ends in a dot: something follows it.
Under(topic, family) == Len(topic) > Len(family) /\ IsPrefix(family, topic)

\* TopicMatch: "*" in a pattern is any one segment of the topic.
TopicMatch(pattern, topic) ==
  /\ Len(pattern) = Len(topic)
  /\ \A i \in DOMAIN pattern : pattern[i] \in {"*", topic[i]}

AgentMessage == <<"agent", "message">>

IsUid(segment) == \E u \in Uids : SegOf[u] = segment

\* ParseAgentMessageTopic and ParseAgentMessagePattern: five segments, two uids.
IsAgentMessage(topic) ==
  /\ Len(topic) = 5
  /\ Under(topic, AgentMessage)
  /\ IsUid(topic[3])
  /\ IsUid(topic[4])
  /\ topic[5] \notin {"", "*"}

IsAgentMessagePattern(pattern) ==
  /\ Len(pattern) = 5
  /\ Under(pattern, AgentMessage)
  /\ \A i \in {3, 4} : pattern[i] = "*" \/ IsUid(pattern[i])
  /\ pattern[5] # ""

-----------------------------------------------------------------------------
(* The event bus: provenance.go and agent_message.go *)

\* "agent.work.assigned" has no dot at its end: the topic itself is guarded too.
PrivilegedPublish(topic) ==
  \/ \E family \in {<<"agent", "lifecycle">>, <<"compositor", "surface">>, <<"shell", "action">>,
                    <<"audit">>, <<"admin", "escalation">>} : Under(topic, family)
  \/ IsPrefix(<<"agent", "work", "assigned">>, topic)

\* The topics a subscription is tested against.
Escalations == {<<"admin", "escalation", suffix>> : suffix \in {"decided", "requested"}}

isRootOrDelegated(sender) == sender.uid = 0 \/ sender.kind = "delegated"

validateTopicPublish(sender, topic) == PrivilegedPublish(topic) => isRootOrDelegated(sender)

\* Bug: the pattern is compared with the family, wildcards are forgotten.
SubscribeByPrefix(uid, pattern) == Under(pattern, <<"admin", "escalation">>) => uid = 0

validateTopicSubscribe(uid, pattern) ==
  (\E topic \in Escalations : TopicMatch(pattern, topic)) => uid = 0

\* The envelope of an agent message names its publisher, and the topic names both.
validateAgentMessagePublish(publisher, topic, envelope) ==
  Under(topic, AgentMessage) =>
    /\ IsAgentMessage(topic)
    /\ envelope.from = publisher
    /\ topic[3] = SegOf[envelope.from]
    /\ topic[4] = SegOf[envelope.to]
    /\ topic[5] = envelope.kind

validateAgentMessageSubscription(uid, pattern) ==
  uid # 0 /\ Under(pattern, AgentMessage) =>
    IsAgentMessagePattern(pattern) /\ pattern[4] = SegOf[uid]

-----------------------------------------------------------------------------
(* The web bus gateway: policy.go and the claims of token.go *)

Roles == {"human", "agent"}

\* Claims.Validate: a human is uid 0 and an agent is not.
Identities == {i \in [role : Roles, uid : Uids] : i.role = "human" <=> i.uid = 0}

ShellTopics ==
  {<<"shell", name>> : name \in {"apply_theme", "reset_theme", "layout_updated", "theme_applied"}}
    \cup {<<"shell", "widget", name>> : name \in {"inject", "remove"}}

IsWidgetTopic(topic) == Len(topic) >= 3 /\ topic[1] = "widget" /\ topic[2] \notin {"", "*"}

IsOwnInbox(uid, topic) ==
  Len(topic) >= 4 /\ topic[1] = "webview" /\ topic[2] = "inbox" /\ topic[3] = SegOf[uid]

\* What an agent may both publish and subscribe to.
AgentMayUse(uid, topic) ==
  \/ Under(topic, <<"webview", "broadcast">>)
  \/ IsOwnInbox(uid, topic)
  \/ topic \in ShellTopics
  \/ IsWidgetTopic(topic)

\* Bug: the pattern only has to be well formed.
SubscribeUnscoped(identity, pattern) ==
  identity.role = "human" \/ AgentMayUse(identity.uid, pattern) \/ IsAgentMessagePattern(pattern)

CanSubscribe(identity, pattern) ==
  \/ identity.role = "human"
  \/ AgentMayUse(identity.uid, pattern)
  \/ IsAgentMessagePattern(pattern) /\ pattern[4] = SegOf[identity.uid]
  \/ Under(pattern, <<"compositor", "surface">>)

CanPublish(identity, topic) ==
  /\ ~Under(topic, <<"shell", "action">>)
  /\ \/ identity.role = "human"
     \/ AgentMayUse(identity.uid, topic)
     \/ IsAgentMessage(topic) /\ topic[3] = SegOf[identity.uid]

=============================================================================

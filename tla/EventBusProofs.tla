--------------------------- MODULE EventBusProofs ---------------------------
(***************************************************************************)
(* What the event bus guarantees to those who receive events, for any      *)
(* number of connections and any messages their clients send.              *)
(***************************************************************************)
EXTENDS EventBus, TLAPS

-----------------------------------------------------------------------------
(* Topics *)

Topics == Seq(STRING)

LEMMA UnderOne ==
  ASSUME NEW t \in Topics, NEW a
  PROVE  Under(t, <<a>>) <=> Len(t) > 1 /\ t[1] = a
BY DEF Under, IsPrefix, Topics

LEMMA UnderTwo ==
  ASSUME NEW t \in Topics, NEW a, NEW b
  PROVE  Under(t, <<a, b>>) <=> Len(t) > 2 /\ t[1] = a /\ t[2] = b
BY DEF Under, IsPrefix, Topics

LEMMA PrefixThree ==
  ASSUME NEW t \in Topics, NEW a, NEW b, NEW d
  PROVE  IsPrefix(<<a, b, d>>, t) => t[1] = a /\ t[2] = b
BY DEF IsPrefix, Topics

LEMMA PrivilegedTopics ==
  ASSUME NEW t \in Topics, PrivilegedPublish(t)
  PROVE  \/ t[1] = "agent" /\ t[2] \in {"lifecycle", "work"}
         \/ t[1] = "compositor" /\ t[2] = "surface"
         \/ t[1] = "shell" /\ t[2] = "action" /\ Len(t) > 2
         \/ t[1] = "audit"
         \/ t[1] = "admin" /\ t[2] = "escalation"
BY UnderOne, UnderTwo, PrefixThree DEF PrivilegedPublish

LEMMA AgentsOwnTopics ==
  ASSUME NEW t \in Topics, NEW uid, AgentMayUse(uid, t)
  PROVE  \/ t[1] = "webview" /\ t[2] = "broadcast" /\ Len(t) > 2
         \/ t[1] = "webview" /\ t[2] = "inbox" /\ t[3] = SegOf[uid] /\ Len(t) > 3
         \/ t[1] = "shell" /\ (Len(t) = 2 \/ (Len(t) = 3 /\ t[2] = "widget"))
         \/ t[1] = "widget" /\ Len(t) > 2
<1>1. ASSUME t \in ShellTopics
      PROVE  t[1] = "shell" /\ (Len(t) = 2 \/ (Len(t) = 3 /\ t[2] = "widget"))
  <2>1. CASE \E name : t = <<"shell", name>>
    BY <2>1
  <2>2. CASE \E name : t = <<"shell", "widget", name>>
    BY <2>2
  <2>. QED
    BY <1>1, <2>1, <2>2 DEF ShellTopics
<1>2. Len(t) \in Nat
  BY DEF Topics
<1>3. CASE Under(t, <<"webview", "broadcast">>)
  BY <1>3, UnderTwo
<1>4. CASE IsOwnInbox(uid, t)
  BY <1>2, <1>4 DEF IsOwnInbox
<1>5. CASE IsWidgetTopic(t)
  <2>1. Len(t) >= 3 /\ t[1] = "widget"
    BY <1>5, Zenon DEF IsWidgetTopic
  <2>. QED
    BY <1>2, <2>1
<1>. QED
  BY <1>1, <1>3, <1>4, <1>5 DEF AgentMayUse

\* What an agent may publish through the gateway is no authoritative topic.
LEMMA AgentTopics ==
  ASSUME NEW t \in Topics, NEW identity \in Identities, identity.role = "agent", CanPublish(identity, t)
  PROVE  ~PrivilegedPublish(t)
<1>. SUFFICES ASSUME PrivilegedPublish(t)
              PROVE  FALSE
  OBVIOUS
<1>0. \/ t[1] = "agent" /\ t[2] \in {"lifecycle", "work"}
      \/ t[1] = "compositor" /\ t[2] = "surface"
      \/ t[1] = "shell" /\ t[2] = "action" /\ Len(t) > 2
      \/ t[1] = "audit"
      \/ t[1] = "admin" /\ t[2] = "escalation"
  BY PrivilegedTopics
<1>1. CASE AgentMayUse(identity.uid, t)
  <2>1. PICK uid : uid = identity.uid
    OBVIOUS
  <2>2. AgentMayUse(uid, t)
    BY <1>1, <2>1
  <2>3. \/ t[1] = "webview" /\ t[2] = "broadcast" /\ Len(t) > 2
        \/ t[1] = "webview" /\ t[2] = "inbox" /\ t[3] = SegOf[uid] /\ Len(t) > 3
        \/ t[1] = "shell" /\ (Len(t) = 2 \/ (Len(t) = 3 /\ t[2] = "widget"))
        \/ t[1] = "widget" /\ Len(t) > 2
    BY <2>2, AgentsOwnTopics, Zenon
  <2>4. CASE t[1] = "shell" /\ (Len(t) = 2 \/ (Len(t) = 3 /\ t[2] = "widget"))
    <3>1. t[2] = "action" /\ Len(t) > 2
      BY <1>0, <2>4
    <3>2. t[2] # "widget"
      BY <3>1
    <3>3. Len(t) = 2
      BY <2>4, <3>2
    <3>. QED
      BY <3>1, <3>3
  <2>5. CASE t[1] = "webview" \/ t[1] = "widget"
    BY <1>0, <2>5
  <2>. QED
    BY <2>3, <2>4, <2>5
<1>2. CASE IsAgentMessage(t)
  <2>1. t[1] = "agent" /\ t[2] = "message"
    BY <1>2, UnderTwo DEF IsAgentMessage, AgentMessage
  <2>. QED
    BY <1>0, <2>1
<1>. QED
  BY <1>1, <1>2 DEF CanPublish

\* What an agent may subscribe to, by the first segments a match can have.
LEMMA AgentPatterns ==
  ASSUME NEW p \in Topics, NEW t \in Topics, NEW identity \in Identities, identity.role = "agent",
         CanSubscribe(identity, p), TopicMatch(p, t)
  PROVE  /\ t \notin Escalations
         /\ Under(t, AgentMessage) => t[4] = SegOf[identity.uid]
         /\ Under(t, <<"webview", "inbox">>) => t[3] = SegOf[identity.uid]
<1>0. /\ Len(p) = Len(t) /\ DOMAIN p = 1..Len(p) /\ Len(p) \in Nat
      /\ \A i \in 1..Len(p) : p[i] = "*" \/ p[i] = t[i]
  BY DEF TopicMatch, Topics
<1>1. SegOf[identity.uid] # "*"
  BY SegAssumption DEF Identities
<1>2. CASE AgentMayUse(identity.uid, p)
  <2>1. \/ p[1] = "webview" /\ p[2] = "broadcast" /\ Len(p) > 2
        \/ p[1] = "webview" /\ p[2] = "inbox" /\ p[3] = SegOf[identity.uid] /\ Len(p) > 3
        \/ p[1] = "shell" /\ Len(p) > 1
        \/ p[1] = "widget" /\ Len(p) > 2
    BY <1>2, AgentsOwnTopics
  <2>. QED
    BY <1>0, <1>1, <2>1, UnderTwo DEF Escalations, AgentMessage
<1>3. CASE IsAgentMessagePattern(p) /\ p[4] = SegOf[identity.uid]
  <2>1. p[1] = "agent" /\ p[2] = "message" /\ Len(p) = 5
    BY <1>3, UnderTwo DEF IsAgentMessagePattern, AgentMessage
  <2>. QED
    BY <1>0, <1>1, <1>3, <2>1, UnderTwo DEF Escalations, AgentMessage
<1>4. CASE Under(p, <<"compositor", "surface">>)
  <2>1. p[1] = "compositor" /\ Len(p) > 2
    BY <1>4, UnderTwo
  <2>. QED
    BY <1>0, <2>1, UnderTwo DEF Escalations, AgentMessage
<1>. QED
  BY <1>2, <1>3, <1>4 DEF CanSubscribe, Identities

-----------------------------------------------------------------------------
(* What may be on its way: the messages a connection delivers, those the   *)
(* bus publishes, the patterns it keeps and the events it queues.          *)

Arrivals(c) ==
  {OnBehalf(c, m) : m \in {n \in Messages[c] : IdentityOf[c] # None => ForwardAllowed(IdentityOf[c], n)}}

Published(c) == {m \in Arrivals(c) : m.op = "pub" /\ PublishAccepted(PeerOf[c], m)}

Subscribable(c) ==
  {p \in Topics : validateTopicSubscribe(PeerOf[c], p) /\ (IdentityOf[c] # None => CanSubscribe(IdentityOf[c], p))}

Event == [topic : Topics, body : Envelope \cup {None}, sender : Senders \cup {None}, number : Nat, by : Conns]

Events(d) ==
  {e \in Event :
     /\ \E m \in Published(e.by) : /\ e.topic = m.topic /\ e.body = m.body
                                   /\ e.sender \in {EffectiveSender(PeerOf[e.by], m), None}
     /\ \E p \in Subscribable(d) : TopicMatch(p, e.topic)}

LEMMA ArrivalsTyped ==
  ASSUME NEW c \in Conns, NEW m \in Arrivals(c)
  PROVE  /\ m.topic \in Topics /\ m.body \in Envelope \cup {None} /\ m.as \in Senders \cup {None}
         /\ IdentityOf[c] # None => ForwardAllowed(IdentityOf[c], m)
         /\ IdentityOf[c] # None /\ m.op = "pub" => m.as = [uid |-> IdentityOf[c].uid, kind |-> "delegated"]
<1>1. PICK n \in Messages[c] : m = OnBehalf(c, n) /\ (IdentityOf[c] # None => ForwardAllowed(IdentityOf[c], n))
  BY DEF Arrivals
<1>2. n.topic \in Topics /\ n.body \in Envelope \cup {None} /\ n.as \in Senders \cup {None}
      /\ DOMAIN n = {"op", "topic", "body", "as"}
  BY ConnAssumption DEF ClientMsg, Topics
<1>3. CASE m = n /\ ~(n.op = "pub" /\ IdentityOf[c] # None)
  BY <1>1, <1>2, <1>3
<1>4. CASE n.op = "pub" /\ IdentityOf[c] # None
  <2>1. PICK as : as = [uid |-> IdentityOf[c].uid, kind |-> "delegated"]
    OBVIOUS
  <2>2. m = [n EXCEPT !.as = as]
    BY <1>1, <1>4, <2>1 DEF OnBehalf
  <2>3. m.as = as /\ m.topic = n.topic /\ m.op = n.op /\ m.body = n.body
    BY <1>2, <2>2
  <2>4. as \in Senders
    BY <1>4, <2>1, ConnAssumption DEF Identities, Senders
  <2>5. ForwardAllowed(IdentityOf[c], m)
    BY <1>1, <1>4, <2>3 DEF ForwardAllowed
  <2>. QED
    BY <1>2, <2>1, <2>3, <2>4, <2>5
<1>. QED
  BY <1>1, <1>3, <1>4 DEF OnBehalf

LEMMA SendersTyped ==
  ASSUME NEW c \in Conns, NEW m \in Arrivals(c)
  PROVE  EffectiveSender(PeerOf[c], m) \in Senders
<1>1. m.as \in Senders \cup {None} /\ PeerOf[c] \in Uids
  BY ArrivalsTyped, ConnAssumption
<1>. QED
  BY <1>1 DEF EffectiveSender, Delegated, Senders

\* A published message comes from someone its connection speaks for.
LEMMA PublishersSpeak ==
  ASSUME NEW c \in Conns, NEW m \in Published(c), NEW sender, sender = EffectiveSender(PeerOf[c], m)
  PROVE  /\ sender.uid \in SpeaksFor(c)
         /\ sender.kind = "peer" => sender.uid = PeerOf[c]
         /\ Under(m.topic, AgentMessage) => m.body.from \in SpeaksFor(c)
         /\ PrivilegedPublish(m.topic) => IsTrusted(c)
<1>1. m \in Arrivals(c) /\ m.op = "pub" /\ PublishAccepted(PeerOf[c], m)
  BY DEF Published
<1>2. sender.uid \in SpeaksFor(c)
  <2>1. sender.uid \in Uids
    BY <1>1, SendersTyped DEF Senders
  <2>2. CASE IdentityOf[c] # None
    <3>1. PICK as : as = [uid |-> IdentityOf[c].uid, kind |-> "delegated"]
      OBVIOUS
    <3>2. m.as = as /\ as \in Senders /\ PeerOf[c] = 0
      BY <1>1, <2>2, <3>1, ArrivalsTyped, ConnAssumption DEF Identities, Senders
    <3>3. sender.uid = IdentityOf[c].uid
      BY <3>1, <3>2, NoneAssumption DEF EffectiveSender, Delegated
    <3>. QED
      BY <2>2, <3>3 DEF SpeaksFor
  <2>3. CASE IdentityOf[c] = None /\ PeerOf[c] = 0
    BY <2>1, <2>3 DEF SpeaksFor
  <2>4. CASE IdentityOf[c] = None /\ PeerOf[c] # 0
    BY <2>4 DEF SpeaksFor, EffectiveSender, Delegated
  <2>. QED
    BY <2>2, <2>3, <2>4
<1>3. sender.kind = "peer" => sender.uid = PeerOf[c]
  BY DEF EffectiveSender
<1>4. Under(m.topic, AgentMessage) => m.body.from \in SpeaksFor(c)
  BY <1>1, <1>2 DEF PublishAccepted, validateAgentMessagePublish
<1>5. ASSUME PrivilegedPublish(m.topic)
      PROVE  IsTrusted(c)
  <2>1. PeerOf[c] = 0
    <3>1. sender.uid = 0 \/ sender.kind = "delegated"
      BY <1>1, <1>5 DEF PublishAccepted, validateTopicPublish, isRootOrDelegated
    <3>2. CASE Delegated(PeerOf[c], m)
      BY <3>2 DEF Delegated
    <3>3. CASE ~Delegated(PeerOf[c], m)
      BY <3>1, <3>3 DEF EffectiveSender
    <3>. QED
      BY <3>2, <3>3
  <2>2. ASSUME IdentityOf[c] # None, IdentityOf[c].role # "human"
        PROVE  FALSE
    <3>1. IdentityOf[c] \in Identities /\ IdentityOf[c].role = "agent"
      BY <2>2, ConnAssumption DEF Identities, Roles
    <3>2. CanPublish(IdentityOf[c], m.topic) /\ m.topic \in Topics
      BY <1>1, <2>2, ArrivalsTyped DEF ForwardAllowed
    <3>. QED
      BY <1>5, <3>1, <3>2, AgentTopics
  <2>. QED
    BY <2>1, <2>2 DEF IsTrusted
<1>. QED
  BY <1>2, <1>3, <1>4, <1>5

\* A subscriber gets what its patterns may match.
LEMMA SubscribersSee ==
  ASSUME NEW d \in Conns, NEW e \in Events(d)
  PROVE  /\ e.topic \in Escalations => IsTrusted(d)
         /\ IdentityOf[d] # None /\ IdentityOf[d].role = "agent" =>
              /\ Under(e.topic, AgentMessage) => e.body.to = IdentityOf[d].uid
              /\ Under(e.topic, <<"webview", "inbox">>) => e.topic[3] = SegOf[IdentityOf[d].uid]
<1>1. PICK p \in Subscribable(d) : TopicMatch(p, e.topic)
  BY DEF Events
<1>2. PICK m \in Published(e.by) : e.topic = m.topic /\ e.body = m.body
  BY DEF Events
<1>3. e.topic \in Topics /\ e.by \in Conns /\ p \in Topics
  BY DEF Events, Event, Subscribable
<1>4. ASSUME IdentityOf[d] # None, IdentityOf[d].role = "agent"
      PROVE  /\ e.topic \notin Escalations
             /\ Under(e.topic, AgentMessage) => e.topic[4] = SegOf[IdentityOf[d].uid]
             /\ Under(e.topic, <<"webview", "inbox">>) => e.topic[3] = SegOf[IdentityOf[d].uid]
  <2>1. IdentityOf[d] \in Identities /\ CanSubscribe(IdentityOf[d], p)
    BY <1>4, ConnAssumption DEF Subscribable
  <2>. QED
    BY <1>1, <1>3, <1>4, <2>1, AgentPatterns
<1>5. ASSUME e.topic \in Escalations
      PROVE  IsTrusted(d)
  <2>1. PeerOf[d] = 0
    BY <1>1, <1>5 DEF Subscribable, validateTopicSubscribe
  <2>2. IdentityOf[d] # None => IdentityOf[d].role \in {"human", "agent"}
    BY ConnAssumption DEF Identities, Roles
  <2>. QED
    BY <1>4, <1>5, <2>1, <2>2 DEF IsTrusted
<1>6. ASSUME IdentityOf[d] # None, IdentityOf[d].role = "agent", Under(e.topic, AgentMessage)
      PROVE  e.body.to = IdentityOf[d].uid
  <2>1. m \in Arrivals(e.by) /\ PublishAccepted(PeerOf[e.by], m)
    BY <1>2 DEF Published
  <2>2. m.body # None /\ m.topic[4] = SegOf[m.body.to]
    BY <1>2, <1>6, <2>1 DEF PublishAccepted, validateAgentMessagePublish
  <2>3. m.body.to \in Uids /\ IdentityOf[d].uid \in Uids
    BY <1>3, <1>6, <2>1, <2>2, ArrivalsTyped, ConnAssumption DEF Envelope, Identities
  <2>. QED
    BY <1>2, <1>4, <1>6, <2>2, <2>3, SegAssumption
<1>. QED
  BY <1>4, <1>5, <1>6

-----------------------------------------------------------------------------
(* Messages between a client and the broker: each passed the checks of the *)
(* places it has come through.                                             *)

MessagesInv ==
  /\ conn \in [Conns -> {"new", "open", "unregistered", "closed"}]
  /\ reader \in [Conns -> {"decode", "publish", "stopped"}]
  /\ DOMAIN sock = Conns /\ DOMAIN pending = Conns
  /\ \A c \in Conns : sock[c] \in Seq(Arrivals(c))
  /\ \A c \in Conns : reader[c] = "publish" => pending[c] \in Published(c) /\ conn[c] # "new"

\* A client that is gone does not come back.
Gone(c) == conn[c] \in {"unregistered", "closed"}

LEMMA GoneForGood ==
  ASSUME MessagesInv, [Next]_vars, NEW c \in Conns, Gone(c)
  PROVE  Gone(c)'
<1>. USE DEF MessagesInv, Gone
<1>1. CASE UNCHANGED conn
  BY <1>1
<1>2. CASE \E d \in Conns : Connect(d) \/ Unregister(d) \/ CloseConn(d)
  BY <1>2 DEF Connect, Unregister, CloseConn
<1>. QED
  BY <1>1, <1>2 DEF Next, vars, ClientStep, Reader, Writer, CleanUp, ClientSends, ForwardInbound, Send, ClientCloses,
     WebsocketEnds, HangUp, DecodePub, DecodeSub, DecodeUnsub, Refuse, DecodeFails, Publish, Write, WriteFails

\* A client sends something the gateway, if it has one, lets through.
LEMMA SentArrives ==
  ASSUME NEW c \in Conns, NEW m \in Messages[c], ClientSends(c, m) \/ ForwardInbound(c, m)
  PROVE  \E n \in Arrivals(c) : Send(c, n)
<1>1. CASE ClientSends(c, m)
  <2>1. m = OnBehalf(c, m)
    BY <1>1 DEF ClientSends, OnBehalf
  <2>. QED
    BY <1>1, <2>1 DEF ClientSends, Arrivals
<1>2. CASE ForwardInbound(c, m)
  BY <1>2 DEF ForwardInbound, Arrivals
<1>. QED
  BY <1>1, <1>2

LEMMA HeadArrives ==
  ASSUME MessagesInv, NEW c \in Conns, sock[c] # <<>>
  PROVE  Head(sock[c]) \in Arrivals(c) /\ Tail(sock[c]) \in Seq(Arrivals(c))
BY DEF MessagesInv

LEMMA MessagesStep ==
  ASSUME MessagesInv, [Next]_vars
  PROVE  MessagesInv'
<1>. USE DEF MessagesInv
<1>1. CASE UNCHANGED <<conn, reader, sock, pending>>
  BY <1>1
<1>2. ASSUME NEW c \in Conns, Connect(c) \/ Unregister(c) \/ CloseConn(c)
      PROVE  MessagesInv'
  BY <1>2 DEF Connect, Unregister, CloseConn, client
<1>3. ASSUME NEW c \in Conns, NEW m \in Messages[c], ClientSends(c, m) \/ ForwardInbound(c, m)
      PROVE  MessagesInv'
  <2>1. PICK n \in Arrivals(c) : Send(c, n)
    BY <1>3, SentArrives
  <2>2. Append(sock[c], n) \in Seq(Arrivals(c))
    OBVIOUS
  <2>. QED
    BY <2>1, <2>2 DEF Send
<1>4. ASSUME NEW c \in Conns, DecodePub(c)
      PROVE  MessagesInv'
  <2>1. sock[c] # <<>> /\ conn[c] # "new"
    BY <1>4 DEF DecodePub, Decodes
  <2>2. Head(sock[c]) \in Published(c)
    BY <1>4, <2>1, HeadArrives DEF DecodePub, Decodes, Published
  <2>. QED
    BY <1>4, <2>1, <2>2, HeadArrives DEF DecodePub, Consume
<1>5. ASSUME NEW c \in Conns, DecodeSub(c) \/ DecodeUnsub(c) \/ Refuse(c)
      PROVE  MessagesInv'
  <2>1. sock[c] # <<>> /\ reader[c] = "decode"
    BY <1>5 DEF DecodeSub, DecodeUnsub, Refuse, Decodes
  <2>2. UNCHANGED <<conn, pending>> /\ sock' = [sock EXCEPT ![c] = Tail(@)]
        /\ (reader' = reader \/ reader' = [reader EXCEPT ![c] = "stopped"])
    BY <1>5 DEF DecodeSub, DecodeUnsub, Refuse, Consume, Stop
  <2>. QED
    BY <2>1, <2>2, HeadArrives
<1>6. ASSUME NEW c \in Conns, DecodeFails(c)
      PROVE  MessagesInv'
  BY <1>6 DEF DecodeFails, Stop, client
<1>7. ASSUME NEW c \in Conns, Publish(c)
      PROVE  MessagesInv'
  BY <1>7 DEF Publish, client
<1>8. ASSUME NEW c \in Conns, ClientCloses(c) \/ WebsocketEnds(c) \/ Writer(c)
      PROVE  MessagesInv'
  <2>1. UNCHANGED <<conn, reader, sock, pending>>
    BY <1>8 DEF ClientCloses, WebsocketEnds, HangUp, Writer, Write, WriteFails, client
  <2>. QED
    BY <1>1, <2>1
<1>9. CASE UNCHANGED vars
  BY <1>1, <1>9 DEF vars
<1>. HIDE DEF MessagesInv
<1>. QED
  BY <1>2, <1>3, <1>4, <1>5, <1>6, <1>7, <1>8, <1>9 DEF Next, ClientStep, Reader, CleanUp

-----------------------------------------------------------------------------
(* Patterns and queues: a client subscribes to what it may see, and every  *)
(* event it is sent was published by someone who might and matches one of  *)
(* the patterns it could have. A stamp is missing only for the departed.   *)

QueuesInv ==
  /\ length \in Nat
  /\ DOMAIN patterns = Conns /\ DOMAIN ch = Conns /\ DOMAIN delivered = Conns
  /\ \A c \in Conns : patterns[c] \subseteq Subscribable(c)
  /\ \A c \in Conns : ch[c] \in Seq(Events(c)) /\ delivered[c] \in Seq(Events(c))

UnstampedInv == \A c \in Conns : \A e \in Received(c) : e.sender = None => Gone(e.by)

\* The event a reader is about to publish.
EventOf(c) ==
  [topic |-> pending[c].topic, body |-> pending[c].body, sender |-> Stamped(c), number |-> length + 1, by |-> c]

Queues(c, event, d) ==
  ch'[d] = ch[d] \/ (ch'[d] = Append(ch[d], event) /\ \E p \in patterns[d] : TopicMatch(p, event.topic))

LEMMA PublishQueues ==
  ASSUME QueuesInv, NEW c \in Conns, Publish(c)
  PROVE  /\ \A d \in Conns : Queues(c, EventOf(c), d)
         /\ length' = length + 1 /\ DOMAIN ch' = Conns /\ UNCHANGED <<conn, patterns, delivered>>
<1>1. PICK event : event = EventOf(c)
  OBVIOUS
<1>2. ch' = [d \in Conns |-> IF d # c /\ Wants(d, event.topic) /\ Len(ch[d]) < BufSize THEN Append(ch[d], event)
                                                                                     ELSE ch[d]]
  BY <1>1 DEF Publish, EventOf
<1>. QED
  BY <1>1, <1>2 DEF Publish, Queues, Wants

LEMMA EventIsAllowed ==
  ASSUME MessagesInv, QueuesInv, NEW c \in Conns, reader[c] = "publish", NEW d \in Conns,
         NEW p \in patterns[d], TopicMatch(p, EventOf(c).topic), NEW event, event = EventOf(c)
  PROVE  /\ event \in Events(d) /\ event.number = length + 1 /\ event.by = c
         /\ event.sender = None => Gone(c)
<1>1. PICK m : m = pending[c]
  OBVIOUS
<1>2. m \in Published(c) /\ m \in Arrivals(c) /\ conn[c] # "new"
  BY <1>1 DEF MessagesInv, Published
<1>3. PICK s : s = Stamped(c)
  OBVIOUS
<1>4. EffectiveSender(PeerOf[c], m) \in Senders /\ s \in {EffectiveSender(PeerOf[c], m), None}
  BY <1>1, <1>2, <1>3, SendersTyped DEF Stamped
<1>5. s = None => conn[c] # "open"
  BY <1>1, <1>3, <1>4, NoneAssumption DEF Stamped, Registered
<1>6. m.topic \in Topics /\ m.body \in Envelope \cup {None} /\ length + 1 \in Nat
  <2>1. m.topic \in Topics /\ m.body \in Envelope \cup {None}
    BY <1>2, ArrivalsTyped
  <2>. QED
    BY <2>1 DEF QueuesInv
<1>7. event = [topic |-> m.topic, body |-> m.body, sender |-> s, number |-> length + 1, by |-> c]
  BY <1>1, <1>3 DEF EventOf
<1>8. event \in Event /\ event.topic = m.topic /\ event.body = m.body /\ event.sender = s /\ event.by = c
      /\ event.number = length + 1
  BY <1>4, <1>6, <1>7 DEF Event
<1>9. p \in Subscribable(d) /\ TopicMatch(p, event.topic)
  BY DEF QueuesInv
<1>10. event \in Events(d)
  BY <1>2, <1>4, <1>8, <1>9 DEF Events
<1>. QED
  BY <1>2, <1>5, <1>8, <1>10 DEF Gone, MessagesInv

LEMMA HeadLeaves ==
  ASSUME NEW S, NEW s \in Seq(S), s # <<>>
  PROVE  Head(s) \in S /\ Tail(s) \in Seq(S) /\ Head(s) \in ToSet(s) /\ ToSet(Tail(s)) \subseteq ToSet(s)
BY DEF ToSet

LEMMA AppendedSet ==
  ASSUME NEW S, NEW s \in Seq(S), NEW e \in S
  PROVE  Append(s, e) \in Seq(S) /\ ToSet(Append(s, e)) = ToSet(s) \cup {e}
<1>1. PICK t : t = Append(s, e)
  OBVIOUS
<1>2. /\ t \in Seq(S) /\ DOMAIN t = 1..(Len(s) + 1) /\ DOMAIN s = 1..Len(s) /\ Len(s) \in Nat
      /\ \A i \in 1..Len(s) : t[i] = s[i]
      /\ t[Len(s) + 1] = e
  BY <1>1
<1>3. DOMAIN t = DOMAIN s \cup {Len(s) + 1}
  BY <1>2
<1>4. {t[i] : i \in DOMAIN t} = {s[i] : i \in DOMAIN s} \cup {e}
  <2>1. \A x : x \in {t[i] : i \in DOMAIN t} => x \in {s[i] : i \in DOMAIN s} \cup {e}
    BY <1>2, <1>3
  <2>2. \A x : x \in {s[i] : i \in DOMAIN s} => x \in {t[i] : i \in DOMAIN t}
    BY <1>2, <1>3
  <2>3. e \in {t[i] : i \in DOMAIN t}
    BY <1>2, <1>3
  <2>. QED
    BY <2>1, <2>2, <2>3
<1>. QED
  BY <1>1, <1>2, <1>4 DEF ToSet

LEMMA WriteMoves ==
  ASSUME QueuesInv, NEW c \in Conns, Write(c)
  PROVE  /\ ch[c] # <<>> /\ UNCHANGED <<conn, patterns, length>> /\ DOMAIN ch' = Conns /\ DOMAIN delivered' = Conns
         /\ ch'[c] = Tail(ch[c]) /\ delivered'[c] = Append(delivered[c], Head(ch[c]))
         /\ \A d \in Conns \ {c} : ch'[d] = ch[d] /\ delivered'[d] = delivered[d]
BY DEF Write, QueuesInv

\* What the other steps may do to them.
LEMMA OtherSteps ==
  ASSUME MessagesInv, QueuesInv, [Next]_vars
  PROVE  \/ \E c \in Conns : Publish(c) \/ Write(c)
         \/ /\ UNCHANGED <<ch, length, delivered>>
            /\ \/ UNCHANGED patterns
               \/ \E c \in Conns : \E p \in Subscribable(c) : patterns' = [patterns EXCEPT ![c] = @ \cup {p}]
               \/ \E c \in Conns : \E P \in SUBSET patterns[c] : patterns' = [patterns EXCEPT ![c] = P]
<1>. DEFINE Still == UNCHANGED <<ch, length, delivered>>
<1>1. ASSUME NEW c \in Conns, DecodeSub(c)
      PROVE  Still /\ (UNCHANGED patterns \/ \E p \in Subscribable(c) : patterns' = [patterns EXCEPT ![c] = @ \cup {p}])
  <2>1. PICK m : m = Head(sock[c])
    OBVIOUS
  <2>2. m \in Arrivals(c) /\ m.op = "sub" /\ SubscribeAccepted(PeerOf[c], m)
    BY <1>1, <2>1, HeadArrives DEF DecodeSub, Decodes
  <2>3. m.topic \in Subscribable(c)
    BY <2>2, ArrivalsTyped DEF Subscribable, SubscribeAccepted, ForwardAllowed
  <2>4. Still /\ (patterns' = patterns \/ patterns' = [patterns EXCEPT ![c] = @ \cup {m.topic}])
    BY <1>1, <2>1 DEF DecodeSub
  <2>. QED
    BY <2>3, <2>4
<1>2. ASSUME NEW c \in Conns, DecodeUnsub(c) \/ Unregister(c)
      PROVE  Still /\ \E P \in SUBSET patterns[c] : patterns' = [patterns EXCEPT ![c] = P]
  BY <1>2 DEF DecodeUnsub, Unregister
<1>3. ASSUME NEW c \in Conns, NEW m \in Messages[c], ClientSends(c, m) \/ ForwardInbound(c, m)
      PROVE  Still /\ UNCHANGED patterns
  BY <1>3 DEF ClientSends, ForwardInbound, Send, broker
<1>4. ASSUME NEW c \in Conns, Connect(c) \/ ClientCloses(c) \/ WebsocketEnds(c) \/ WriteFails(c) \/ CloseConn(c)
      PROVE  Still /\ UNCHANGED patterns
  BY <1>4 DEF Connect, ClientCloses, WebsocketEnds, HangUp, WriteFails, CloseConn, broker
<1>5. ASSUME NEW c \in Conns, DecodePub(c) \/ Refuse(c) \/ DecodeFails(c)
      PROVE  Still /\ UNCHANGED patterns
  BY <1>5 DEF DecodePub, Refuse, DecodeFails, broker
<1>6. CASE UNCHANGED vars
  BY <1>6 DEF vars
<1>. HIDE DEF Still
<1>7. CASE Next
  <2>1. PICK c \in Conns : ClientStep(c) \/ Reader(c) \/ Writer(c) \/ CleanUp(c)
    BY <1>7 DEF Next
  <2>2. CASE ClientStep(c)
    BY <1>3, <1>4, <2>2 DEF ClientStep, Still
  <2>3. CASE Reader(c)
    BY <1>1, <1>2, <1>5, <2>3 DEF Reader, Still
  <2>4. CASE Writer(c)
    BY <1>4, <2>4 DEF Writer, Still
  <2>5. CASE CleanUp(c)
    BY <1>2, <1>4, <2>5 DEF CleanUp, Still
  <2>. QED
    BY <2>1, <2>2, <2>3, <2>4, <2>5
<1>. QED
  BY <1>6, <1>7

LEMMA QueuesStep ==
  ASSUME MessagesInv, QueuesInv, [Next]_vars
  PROVE  QueuesInv'
<1>1. ASSUME NEW c \in Conns, Publish(c)
      PROVE  QueuesInv'
  <2>1. /\ \A d \in Conns : Queues(c, EventOf(c), d)
        /\ length' = length + 1 /\ DOMAIN ch' = Conns /\ UNCHANGED <<conn, patterns, delivered>>
    BY <1>1, PublishQueues
  <2>2. PICK event : event = EventOf(c)
    OBVIOUS
  <2>3. ASSUME NEW d \in Conns
        PROVE  ch'[d] \in Seq(Events(d))
    <3>1. CASE ch'[d] = ch[d]
      BY <3>1 DEF QueuesInv
    <3>2. CASE ch'[d] = Append(ch[d], event) /\ \E p \in patterns[d] : TopicMatch(p, event.topic)
      <4>1. event \in Events(d)
        BY <1>1, <2>2, <3>2, EventIsAllowed DEF Publish
      <4>. QED
        BY <3>2, <4>1 DEF QueuesInv
    <3>. QED
      BY <2>1, <2>2, <3>1, <3>2 DEF Queues
  <2>. QED
    BY <2>1, <2>3 DEF QueuesInv
<1>2. ASSUME NEW c \in Conns, Write(c)
      PROVE  QueuesInv'
  <2>1. Head(ch[c]) \in Events(c) /\ Tail(ch[c]) \in Seq(Events(c))
    BY <1>2, WriteMoves, HeadLeaves DEF QueuesInv
  <2>2. ch'[c] = Tail(ch[c]) /\ delivered'[c] = Append(delivered[c], Head(ch[c]))
    BY <1>2, WriteMoves
  <2>3. delivered[c] \in Seq(Events(c))
    BY DEF QueuesInv
  <2>4. Append(delivered[c], Head(ch[c])) \in Seq(Events(c))
    BY <2>1, <2>3, AppendedSet
  <2>. QED
    BY <1>2, <2>1, <2>2, <2>4, WriteMoves DEF QueuesInv
<1>3. CASE UNCHANGED <<ch, length, delivered, patterns>>
  BY <1>3 DEF QueuesInv
<1>4. ASSUME UNCHANGED <<ch, length, delivered>>, NEW c \in Conns, NEW P \in SUBSET Subscribable(c),
             patterns' = [patterns EXCEPT ![c] = P]
      PROVE  QueuesInv'
  BY <1>4 DEF QueuesInv
<1>5. ASSUME UNCHANGED <<ch, length, delivered>>, NEW c \in Conns, NEW p \in Subscribable(c),
             patterns' = [patterns EXCEPT ![c] = @ \cup {p}]
      PROVE  QueuesInv'
  <2>1. patterns[c] \cup {p} \in SUBSET Subscribable(c)
    BY DEF QueuesInv
  <2>. QED
    BY <1>4, <1>5, <2>1
<1>6. ASSUME UNCHANGED <<ch, length, delivered>>, NEW c \in Conns, NEW P \in SUBSET patterns[c],
             patterns' = [patterns EXCEPT ![c] = P]
      PROVE  QueuesInv'
  <2>1. P \in SUBSET Subscribable(c)
    BY DEF QueuesInv
  <2>. QED
    BY <1>4, <1>6, <2>1
<1>. QED
  BY <1>1, <1>2, <1>3, <1>5, <1>6, OtherSteps

LEMMA UnstampedStep ==
  ASSUME MessagesInv, QueuesInv, UnstampedInv, [Next]_vars
  PROVE  UnstampedInv'
<1>1. ASSUME NEW d \in Conns, NEW e \in Received(d), e.sender = None
      PROVE  Gone(e.by)'
  <2>1. e \in Events(d)
    BY DEF QueuesInv, Received, ToSet
  <2>2. e.by \in Conns /\ Gone(e.by)
    BY <1>1, <2>1 DEF UnstampedInv, Events, Event
  <2>. QED
    BY <2>2, GoneForGood
<1>2. ASSUME NEW c \in Conns, Publish(c), NEW d \in Conns, NEW e \in Received(d)', e.sender = None
      PROVE  Gone(e.by)'
  <2>1. PICK event : event = EventOf(c)
    OBVIOUS
  <2>2. Queues(c, event, d) /\ UNCHANGED delivered
    BY <1>2, <2>1, PublishQueues
  <2>3. CASE ch'[d] = ch[d]
    BY <1>1, <1>2, <2>2, <2>3 DEF Received
  <2>4. CASE ch'[d] = Append(ch[d], event) /\ \E p \in patterns[d] : TopicMatch(p, event.topic)
    <3>1. event.by = c /\ (event.sender = None => Gone(c))
      BY <1>2, <2>1, <2>4, EventIsAllowed DEF Publish
    <3>2. e \in Received(d) \cup {event}
      <4>1. event \in Events(d) /\ ch[d] \in Seq(Events(d))
        BY <1>2, <2>1, <2>4, EventIsAllowed DEF Publish, QueuesInv
      <4>. QED
        BY <2>2, <2>4, <4>1, AppendedSet DEF Received
    <3>. QED
      BY <1>1, <1>2, <3>1, <3>2, GoneForGood
  <2>. QED
    BY <2>2, <2>3, <2>4 DEF Queues
<1>3. ASSUME NEW c \in Conns, Write(c), NEW d \in Conns, NEW e \in Received(d)', e.sender = None
      PROVE  Gone(e.by)'
  <2>1. CASE d = c
    <3>1. ToSet(ch'[c]) \subseteq ToSet(ch[c]) /\ ToSet(delivered'[c]) \subseteq ToSet(delivered[c]) \cup ToSet(ch[c])
      <4>1. ch[c] \in Seq(Events(c)) /\ delivered[c] \in Seq(Events(c)) /\ ch[c] # <<>>
        BY <1>3, WriteMoves DEF QueuesInv
      <4>2. Head(ch[c]) \in Events(c) /\ Head(ch[c]) \in ToSet(ch[c]) /\ ToSet(Tail(ch[c])) \subseteq ToSet(ch[c])
        BY <4>1, HeadLeaves
      <4>3. ToSet(Append(delivered[c], Head(ch[c]))) = ToSet(delivered[c]) \cup {Head(ch[c])}
        BY <4>1, <4>2, AppendedSet
      <4>. QED
        BY <1>3, <4>2, <4>3, WriteMoves
    <3>. QED
      BY <1>1, <1>3, <2>1, <3>1 DEF Received
  <2>2. CASE d # c
    BY <1>1, <1>3, <2>2, WriteMoves DEF Received
  <2>. QED
    BY <2>1, <2>2
<1>4. ASSUME UNCHANGED <<ch, delivered>>, NEW d \in Conns, NEW e \in Received(d)', e.sender = None
      PROVE  Gone(e.by)'
  BY <1>1, <1>4 DEF Received
<1>. QED
  BY <1>2, <1>3, <1>4, OtherSteps DEF UnstampedInv

-----------------------------------------------------------------------------
(* Safety *)

BusInv == MessagesInv /\ QueuesInv /\ UnstampedInv

LEMMA BusInitial == Init => BusInv
<1>1. \A S : <<>> \in Seq(S) /\ ToSet(<<>>) = {}
  BY DEF ToSet
<1>. QED
  BY <1>1 DEF Init, BusInv, MessagesInv, QueuesInv, UnstampedInv, Received

LEMMA BusInvariant == Spec => []BusInv
<1>1. BusInv /\ [Next]_vars => BusInv'
  BY MessagesStep, QueuesStep, UnstampedStep DEF BusInv
<1>. QED
  BY BusInitial, <1>1, PTL DEF Spec

\* Whatever a connection got is an event that could be sent to it.
LEMMA ReceivedAllowed ==
  ASSUME BusInv, NEW c \in Conns, NEW e \in Received(c)
  PROVE  e \in Events(c)
BY DEF BusInv, QueuesInv, Received, ToSet

LEMMA EventsSpeak ==
  ASSUME NEW d \in Conns, NEW e \in Events(d)
  PROVE  /\ e.by \in Conns
         /\ e.sender # None => e.sender.uid \in SpeaksFor(e.by)
         /\ e.sender # None /\ e.sender.kind = "peer" => e.sender.uid = PeerOf[e.by]
         /\ Under(e.topic, AgentMessage) => e.body.from \in SpeaksFor(e.by)
         /\ PrivilegedPublish(e.topic) => IsTrusted(e.by)
<1>1. e.by \in Conns
  BY DEF Events, Event
<1>2. PICK m \in Published(e.by) : /\ e.topic = m.topic /\ e.body = m.body
                                   /\ e.sender \in {EffectiveSender(PeerOf[e.by], m), None}
  BY DEF Events
<1>3. PICK s : s = EffectiveSender(PeerOf[e.by], m)
  OBVIOUS
<1>4. /\ s.uid \in SpeaksFor(e.by)
      /\ s.kind = "peer" => s.uid = PeerOf[e.by]
      /\ Under(m.topic, AgentMessage) => m.body.from \in SpeaksFor(e.by)
      /\ PrivilegedPublish(m.topic) => IsTrusted(e.by)
  BY <1>1, <1>3, PublishersSpeak
<1>. QED
  BY <1>1, <1>2, <1>3, <1>4

\* The sender of an event, and the from_uid of an agent message, are someone
\* the publishing connection speaks for (provenance.go, broker.go).
THEOREM SenderIsTrueCorrect == Spec => []SenderIsTrue
<1>1. BusInv => SenderIsTrue
  <2>. SUFFICES ASSUME BusInv, NEW c \in Conns, NEW e \in Received(c)
                PROVE  /\ e.sender = None => ~Registered(e.by)
                       /\ e.sender # None => e.sender.uid \in SpeaksFor(e.by)
                       /\ e.sender # None /\ e.sender.kind = "peer" => e.sender.uid = PeerOf[e.by]
                       /\ Under(e.topic, AgentMessage) => e.body.from \in SpeaksFor(e.by)
    BY DEF SenderIsTrue
  <2>1. e.sender = None => ~Registered(e.by)
    BY DEF BusInv, UnstampedInv, Gone, Registered
  <2>. QED
    BY <2>1, ReceivedAllowed, EventsSpeak
<1>. QED
  BY BusInvariant, <1>1, PTL

\* Only the trusted publish on authoritative topics and hear of escalations.
THEOREM FamiliesGuardedCorrect == Spec => []FamiliesGuarded
<1>1. BusInv => FamiliesGuarded
  <2>. SUFFICES ASSUME BusInv, NEW c \in Conns, NEW e \in Received(c)
                PROVE  /\ PrivilegedPublish(e.topic) => IsTrusted(e.by)
                       /\ e.topic \in Escalations => IsTrusted(c)
    BY DEF FamiliesGuarded
  <2>. QED
    BY ReceivedAllowed, EventsSpeak, SubscribersSee
<1>. QED
  BY BusInvariant, <1>1, PTL

\* An agent at the gateway reads only its own messages and inbox (webbus/policy.go).
THEOREM WebAgentsSeeOwnCorrect == Spec => []WebAgentsSeeOwn
<1>1. BusInv => WebAgentsSeeOwn
  <2>. SUFFICES ASSUME BusInv, NEW c \in Conns, NEW e \in Received(c),
                       IdentityOf[c] # None, IdentityOf[c].role = "agent"
                PROVE  /\ Under(e.topic, AgentMessage) => e.body.to = IdentityOf[c].uid
                       /\ Under(e.topic, <<"webview", "inbox">>) => e.topic[3] = SegOf[IdentityOf[c].uid]
    BY DEF WebAgentsSeeOwn
  <2>. QED
    BY ReceivedAllowed, SubscribersSee
<1>. QED
  BY BusInvariant, <1>1, PTL

-----------------------------------------------------------------------------
(* The bus implements the lossy log: the numbers in a queue increase, none *)
(* is beyond the log, and all are newer than what its client got.          *)

LastSeen(c) == IF delivered[c] = <<>> THEN 0 ELSE delivered[c][Len(delivered[c])].number

InOrder(c) ==
  /\ \A i \in 1..Len(ch[c]) : LastSeen(c) < ch[c][i].number /\ ch[c][i].number <= length
  /\ \A i, j \in 1..Len(ch[c]) : i < j => ch[c][i].number < ch[c][j].number

OrderInv == \A c \in Conns : LastSeen(c) \in 0..length /\ InOrder(c)

LEMMA OrderStep ==
  ASSUME MessagesInv, QueuesInv, OrderInv, [Next]_vars
  PROVE  OrderInv'
<1>1. ASSUME NEW c \in Conns, Publish(c)
      PROVE  OrderInv'
  <2>1. PICK event : event = EventOf(c)
    OBVIOUS
  <2>2. length' = length + 1 /\ delivered' = delivered /\ length \in Nat
    BY <1>1, PublishQueues DEF QueuesInv
  <2>3. ASSUME NEW d \in Conns
        PROVE  (LastSeen(d) \in 0..length /\ InOrder(d))'
    <3>1. LastSeen(d)' = LastSeen(d) /\ LastSeen(d) \in 0..length
      BY <2>2 DEF LastSeen, OrderInv
    <3>2. ch[d] \in Seq(Events(d)) /\ \A i \in 1..Len(ch[d]) : ch[d][i].number \in Nat
      BY DEF QueuesInv, Events, Event
    <3>3. CASE ch'[d] = ch[d]
      BY <2>2, <3>1, <3>2, <3>3 DEF OrderInv, InOrder
    <3>4. CASE ch'[d] = Append(ch[d], event) /\ \E p \in patterns[d] : TopicMatch(p, event.topic)
      <4>1. event \in Events(d) /\ event.number = length + 1
        BY <1>1, <2>1, <3>4, EventIsAllowed DEF Publish
      <4>2. /\ Len(ch'[d]) = Len(ch[d]) + 1 /\ Len(ch[d]) \in Nat
            /\ \A i \in 1..Len(ch[d]) : ch'[d][i] = ch[d][i]
            /\ ch'[d][Len(ch[d]) + 1] = event
        BY <3>2, <3>4, <4>1
      <4>3. \A i \in 1..Len(ch'[d]) : i \in 1..Len(ch[d]) \/ i = Len(ch[d]) + 1
        BY <4>2
      <4>4. \A i \in 1..Len(ch[d]) : LastSeen(d) < ch[d][i].number /\ ch[d][i].number <= length
        BY DEF OrderInv, InOrder
      <4>5. \A i, j \in 1..Len(ch[d]) : i < j => ch[d][i].number < ch[d][j].number
        BY DEF OrderInv, InOrder
      <4>6. \A i \in 1..Len(ch'[d]) : LastSeen(d) < ch'[d][i].number /\ ch'[d][i].number <= length + 1
        <5>. SUFFICES ASSUME NEW i \in 1..Len(ch'[d])
                      PROVE  LastSeen(d) < ch'[d][i].number /\ ch'[d][i].number <= length + 1
          OBVIOUS
        <5>1. CASE i \in 1..Len(ch[d])
          <6>1. ch'[d][i] = ch[d][i] /\ LastSeen(d) < ch[d][i].number /\ ch[d][i].number <= length
            BY <4>2, <4>4, <5>1
          <6>2. ch[d][i].number \in Nat
            BY <3>2, <5>1
          <6>3. length \in Nat
            BY <2>2
          <6>. QED
            BY <6>1, <6>2, <6>3
        <5>2. CASE i = Len(ch[d]) + 1
          BY <2>2, <3>1, <4>1, <4>2, <5>2
        <5>. QED
          BY <4>3, <5>1, <5>2
      <4>7. \A i, j \in 1..Len(ch'[d]) : i < j => ch'[d][i].number < ch'[d][j].number
        <5>. SUFFICES ASSUME NEW i \in 1..Len(ch'[d]), NEW j \in 1..Len(ch'[d]), i < j
                      PROVE  ch'[d][i].number < ch'[d][j].number
          OBVIOUS
        <5>1. i \in 1..Len(ch[d])
          BY <4>2
        <5>2. CASE j \in 1..Len(ch[d])
          BY <4>2, <4>5, <5>1, <5>2
        <5>3. CASE j = Len(ch[d]) + 1
          BY <2>2, <3>2, <4>1, <4>2, <4>4, <5>1, <5>3
        <5>. QED
          BY <4>3, <5>2, <5>3
      <4>. QED
        BY <2>2, <3>1, <4>6, <4>7 DEF InOrder
    <3>. QED
      BY <1>1, <2>1, <3>3, <3>4, PublishQueues DEF Queues
  <2>. QED
    BY <2>3 DEF OrderInv
<1>2. ASSUME NEW c \in Conns, Write(c), NEW d \in Conns
      PROVE  (LastSeen(d) \in 0..length /\ InOrder(d))'
  <2>1. CASE d = c
    <3>1. /\ ch[c] \in Seq(Events(c)) /\ delivered[c] \in Seq(Events(c)) /\ ch[c] # <<>> /\ length' = length
          /\ ch'[c] = Tail(ch[c]) /\ delivered'[c] = Append(delivered[c], Head(ch[c])) /\ length \in Nat
      BY <1>2, WriteMoves DEF QueuesInv
    <3>2. /\ Len(ch'[c]) = Len(ch[c]) - 1 /\ Len(ch[c]) \in Nat \ {0}
          /\ \A i \in 1..Len(ch'[c]) : ch'[c][i] = ch[c][i + 1]
      BY <3>1
    <3>3. LastSeen(c)' = ch[c][1].number
      BY <3>1 DEF LastSeen
    <3>4. \A i \in 1..Len(ch[c]) : ch[c][i].number \in Nat /\ ch[c][i].number <= length
      BY <3>1 DEF OrderInv, InOrder, Events, Event
    <3>5. \A i, j \in 1..Len(ch[c]) : i < j => ch[c][i].number < ch[c][j].number
      BY DEF OrderInv, InOrder
    <3>6. \A i \in 1..Len(ch'[c]) : ch[c][1].number < ch'[c][i].number /\ ch'[c][i].number <= length
      <4>. SUFFICES ASSUME NEW i \in 1..Len(ch'[c])
                    PROVE  ch[c][1].number < ch'[c][i].number /\ ch'[c][i].number <= length
        OBVIOUS
      <4>1. i + 1 \in 1..Len(ch[c]) /\ 1 \in 1..Len(ch[c]) /\ 1 < i + 1 /\ ch'[c][i] = ch[c][i + 1]
        BY <3>2
      <4>. QED
        BY <3>4, <3>5, <4>1
    <3>7. \A i, j \in 1..Len(ch'[c]) : i < j => ch'[c][i].number < ch'[c][j].number
      <4>. SUFFICES ASSUME NEW i \in 1..Len(ch'[c]), NEW j \in 1..Len(ch'[c]), i < j
                    PROVE  ch'[c][i].number < ch'[c][j].number
        OBVIOUS
      <4>1. i + 1 \in 1..Len(ch[c]) /\ j + 1 \in 1..Len(ch[c]) /\ i + 1 < j + 1
            /\ ch'[c][i] = ch[c][i + 1] /\ ch'[c][j] = ch[c][j + 1]
        BY <3>2
      <4>. QED
        BY <3>5, <4>1
    <3>8. ch[c][1].number \in 0..length
      BY <3>1, <3>2, <3>4
    <3>. QED
      BY <2>1, <3>1, <3>3, <3>6, <3>7, <3>8 DEF InOrder
  <2>2. CASE d # c
    <3>1. ch'[d] = ch[d] /\ delivered'[d] = delivered[d] /\ length' = length
      BY <1>2, <2>2, WriteMoves
    <3>. QED
      BY <3>1 DEF OrderInv, InOrder, LastSeen
  <2>. QED
    BY <2>1, <2>2
<1>3. CASE UNCHANGED <<ch, length, delivered>>
  BY <1>3 DEF OrderInv, InOrder, LastSeen
<1>. QED
  BY <1>1, <1>2, <1>3, OtherSteps DEF OrderInv

numbers(s) == [i \in DOMAIN s |-> s[i].number]

got == [c \in Conns |-> numbers(delivered[c])]

LEMMA NumbersAppend ==
  ASSUME NEW S, NEW s \in Seq(S), NEW e \in S
  PROVE  numbers(Append(s, e)) = Append(numbers(s), e.number)
<1>1. PICK t : t = Append(s, e)
  OBVIOUS
<1>2. /\ DOMAIN t = 1..(Len(s) + 1) /\ DOMAIN s = 1..Len(s) /\ Len(s) \in Nat
      /\ \A i \in 1..Len(s) : t[i] = s[i]
      /\ t[Len(s) + 1] = e
  BY <1>1
<1>3. numbers(s) \in Seq({s[i].number : i \in DOMAIN s}) /\ Len(numbers(s)) = Len(s)
  BY <1>2 DEF numbers
<1>4. Append(numbers(s), e.number) = [i \in 1..(Len(s) + 1) |-> IF i = Len(s) + 1 THEN e.number ELSE numbers(s)[i]]
  BY <1>3
<1>. QED
  BY <1>1, <1>2, <1>4 DEF numbers

LEMMA WriteDelivers ==
  ASSUME MessagesInv, QueuesInv, OrderInv, NEW c \in Conns, Write(c)
  PROVE  \E n \in (LastSeen(c) + 1)..length : got' = [got EXCEPT ![c] = Append(@, n)]
<1>1. /\ ch[c] \in Seq(Events(c)) /\ delivered[c] \in Seq(Events(c)) /\ ch[c] # <<>>
      /\ delivered'[c] = Append(delivered[c], Head(ch[c])) /\ length \in Nat
      /\ \A d \in Conns \ {c} : delivered'[d] = delivered[d]
  BY WriteMoves DEF QueuesInv
<1>2. PICK e : e = Head(ch[c])
  OBVIOUS
<1>3. e \in Events(c) /\ e = ch[c][1] /\ 1 \in 1..Len(ch[c])
  BY <1>1, <1>2
<1>4. e.number \in Nat /\ LastSeen(c) < e.number /\ e.number <= length /\ LastSeen(c) \in 0..length
  BY <1>3 DEF OrderInv, InOrder, Events, Event
<1>5. numbers(delivered'[c]) = Append(numbers(delivered[c]), e.number)
  BY <1>1, <1>2, <1>3, NumbersAppend
<1>6. PICK n : n = e.number
  OBVIOUS
<1>7. got' = [got EXCEPT ![c] = Append(@, n)]
  BY <1>1, <1>5, <1>6 DEF got
<1>8. n \in (LastSeen(c) + 1)..length
  BY <1>1, <1>4, <1>6
<1>. QED
  BY <1>7, <1>8, Zenon

LEMMA LatestIsLastSeen ==
  ASSUME QueuesInv, NEW c \in Conns
  PROVE  LastSeen(c) = IF got[c] = <<>> THEN 0 ELSE got[c][Len(got[c])]
<1>1. delivered[c] \in Seq(Events(c)) /\ got[c] = numbers(delivered[c])
  BY DEF QueuesInv, got
<1>2. Len(numbers(delivered[c])) = Len(delivered[c]) /\ (numbers(delivered[c]) = <<>> <=> delivered[c] = <<>>)
  BY <1>1 DEF numbers
<1>. QED
  BY <1>1, <1>2 DEF LastSeen, numbers

\* Every subscriber gets the events in the order of their publication and none
\* twice: the bus is a lossy log, with Publish appending and Write delivering.
THEOREM ImplementsLossyLogCorrect == Spec => ImplementsLossyLog
<1>1. Init => Log!Init /\ OrderInv
  <2>1. \A i \in DOMAIN <<>> : FALSE
    OBVIOUS
  <2>2. Init => [c \in Conns |-> [i \in DOMAIN delivered[c] |-> delivered[c][i].number]] = [c \in Conns |-> <<>>]
    BY DEF Init
  <2>. QED
    BY <2>2 DEF Init, Log!Init, OrderInv, InOrder, LastSeen
<1>2. BusInv /\ OrderInv /\ [Next]_vars => OrderInv'
  BY OrderStep DEF BusInv
<1>3. BusInv /\ OrderInv /\ [Next]_vars =>
        [Log!Next]_<<length, [c \in Conns |-> [i \in DOMAIN delivered[c] |-> delivered[c][i].number]]>>
  <2>. SUFFICES ASSUME BusInv, OrderInv, [Next]_vars
                PROVE  [Log!Next]_<<length, got>>
    BY DEF got, numbers
  <2>1. CASE \E c \in Conns : Publish(c)
    <3>1. length' = length + 1 /\ got' = got
      BY <2>1, PublishQueues DEF BusInv, got
    <3>. QED
      BY <3>1 DEF Log!Next, Log!Publish, got, numbers
  <2>2. ASSUME NEW c \in Conns, Write(c)
        PROVE  Log!Deliver(c)
    <3>1. \E n \in (LastSeen(c) + 1)..length : got' = [got EXCEPT ![c] = Append(@, n)]
      BY <2>2, WriteDelivers DEF BusInv
    <3>2. Log!latest(c) = LastSeen(c)
      BY LatestIsLastSeen DEF BusInv, Log!latest, got, numbers
    <3>3. length' = length
      BY <2>2, WriteMoves DEF BusInv
    <3>. QED
      BY <3>1, <3>2, <3>3 DEF Log!Deliver, got, numbers
  <2>3. CASE UNCHANGED <<ch, length, delivered>>
    BY <2>3 DEF got
  <2>. QED
    BY <2>1, <2>2, <2>3, OtherSteps DEF BusInv, Log!Next
<1>. QED
  BY BusInvariant, <1>1, <1>2, <1>3, PTL DEF Spec, ImplementsLossyLog, Log!Spec

=============================================================================

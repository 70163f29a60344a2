------------------------------- MODULE EventBus -------------------------------
(***************************************************************************)
(* The event bus daemon (internal/bus, cmd/event-bus): a broker shared by  *)
(* two goroutines per connection, a reader that decodes, checks and        *)
(* executes the client's messages and a writer that sends it the events of *)
(* its queue. The broker's methods are atomic (Broker.mu), what a reader   *)
(* decides before it calls one of them is not. Whichever goroutine stops   *)
(* first unregisters the client and closes the connection.                 *)
(*                                                                         *)
(* The web bus gateway (internal/webbus) is a root client with one         *)
(* connection per websocket: it checks each message against the identity   *)
(* of the token and passes it on, publishing on behalf of that identity.   *)
(***************************************************************************)
EXTENDS BusPolicy

CONSTANTS
  Conns,       \* connections; a client id is never given out again
  PeerOf,      \* connection -> the uid SO_PEERCRED reports
  IdentityOf,  \* connection -> identity of the websocket behind it, or None
  Messages,    \* connection -> the messages its client may send
  None,
  BufSize,     \* subscriberBufSize
  Leaving,     \* bound: connections whose client may hang up
  MaxSent,     \* bound: connection -> messages its client sends
  MaxUnread    \* bound: messages it sends ahead of the reader

Senders == [uid : Uids, kind : {"peer", "delegated"}]

Envelope == [from : Uids, to : Uids, kind : STRING]

\* as: the sender_uid and sender_kind fields, honoured from root only.
ClientMsg(m) ==
  /\ DOMAIN m = {"op", "topic", "body", "as"}
  /\ m.op \in {"pub", "sub", "unsub"}
  /\ m.topic \in Seq(STRING)
  /\ m.body \in Envelope \cup {None}
  /\ m.as \in Senders \cup {None}

ASSUME ConnAssumption ==
  /\ PeerOf \in [Conns -> Uids]
  /\ \A c \in Conns : IdentityOf[c] = None \/ (IdentityOf[c] \in Identities /\ PeerOf[c] = 0)
  /\ \A c \in Conns : \A m \in Messages[c] : ClientMsg(m)
ASSUME NoneAssumption == None \notin Senders
ASSUME BufAssumption == BufSize \in Nat \ {0} /\ MaxSent \in [Conns -> Nat] /\ MaxUnread \in Nat

VARIABLES
  conn,       \* "new", "open", "unregistered" (cleanup is half way), "closed"
  patterns,   \* subscriber.patterns
  ch,         \* subscriber.ch, the queue of events
  sock,       \* messages sent and not decoded yet
  sent,       \* how many messages the client has sent (for the bound)
  hungUp,     \* connections whose client has closed its end
  reader,     \* "decode", "publish" (a message passed the checks), "stopped"
  pending,    \* the message about to be published
  failed,     \* connections whose writer met an error
  length,     \* events published so far
  delivered   \* connection -> events its client got

broker == <<patterns, ch, length>>
client == <<sock, sent, hungUp>>
vars   == <<conn, patterns, ch, sock, sent, hungUp, reader, pending, failed, length, delivered>>

Registered(c) == conn[c] = "open"

\* What goes over the bus connection: the gateway publishes for its identity.
OnBehalf(c, m) ==
  IF m.op = "pub" /\ IdentityOf[c] # None
  THEN [m EXCEPT !.as = [uid |-> IdentityOf[c].uid, kind |-> "delegated"]]
  ELSE m

Sendable(c) == {OnBehalf(c, m) : m \in Messages[c]}

Init ==
  /\ conn = [c \in Conns |-> "new"]
  /\ patterns = [c \in Conns |-> {}]
  /\ ch = [c \in Conns |-> <<>>]
  /\ sock = [c \in Conns |-> <<>>]
  /\ sent = [c \in Conns |-> 0]
  /\ hungUp = {}
  /\ reader = [c \in Conns |-> "decode"]
  /\ pending = [c \in Conns |-> None]
  /\ failed = {}
  /\ length = 0
  /\ delivered = [c \in Conns |-> <<>>]

-----------------------------------------------------------------------------
(* Clients *)

Connect(c) ==
  /\ conn[c] = "new"
  /\ conn' = [conn EXCEPT ![c] = "open"]
  /\ UNCHANGED <<broker, client, reader, pending, failed, delivered>>

CanSend(c) ==
  /\ conn[c] \in {"open", "unregistered"} /\ c \notin hungUp
  /\ sent[c] < MaxSent[c] /\ Len(sock[c]) < MaxUnread  \* bounds

Send(c, m) ==
  /\ sock' = [sock EXCEPT ![c] = Append(@, m)]
  /\ sent' = [sent EXCEPT ![c] = @ + 1]
  /\ UNCHANGED <<hungUp, conn, broker, reader, pending, failed, delivered>>

\* Client.Publish, PublishAs, Subscribe, Unsubscribe: the encoder's mutex keeps
\* messages apart, nothing is answered.
ClientSends(c, m) == IdentityOf[c] = None /\ CanSend(c) /\ Send(c, m)

HangUp(c) ==
  /\ conn[c] # "new"
  /\ c \in Leaving \ hungUp
  /\ hungUp' = hungUp \cup {c}
  /\ UNCHANGED <<conn, broker, sock, sent, reader, pending, failed, delivered>>

\* Client.Close, or the client dies.
ClientCloses(c) == IdentityOf[c] = None /\ HangUp(c)

\* Gateway.forwardInbound.
ForwardAllowed(identity, m) ==
  CASE m.op = "sub"   -> CanSubscribe(identity, m.topic)
    [] m.op = "pub"   -> CanPublish(identity, m.topic)
    [] m.op = "unsub" -> TRUE

ForwardInbound(c, m) ==
  /\ IdentityOf[c] # None
  /\ CanSend(c)
  /\ ForwardAllowed(IdentityOf[c], m)
  /\ Send(c, OnBehalf(c, m))

\* A refused message ends the websocket and with it the bus connection; so does
\* the browser, and the bus when it closes the connection.
WebsocketEnds(c) == IdentityOf[c] # None /\ HangUp(c)

-----------------------------------------------------------------------------
(* The reader goroutine *)

\* effectivePublishSender: an override is honoured from root only, and its kind
\* must be "delegated".
Delegated(uid, m) == uid = 0 /\ m.as # None

\* Bug: whoever asks is believed.
SenderAsAsked(uid, m) == IF m.as # None THEN m.as ELSE [uid |-> uid, kind |-> "peer"]

EffectiveSender(uid, m) ==
  IF Delegated(uid, m) THEN [uid |-> m.as.uid, kind |-> "delegated"] ELSE [uid |-> uid, kind |-> "peer"]

PublishAccepted(uid, m) ==
  LET sender == EffectiveSender(uid, m) IN
  /\ Delegated(uid, m) => m.as.kind = "delegated"
  /\ Under(m.topic, AgentMessage) => m.body # None
  /\ validateAgentMessagePublish(sender.uid, m.topic, m.body)
  /\ validateTopicPublish(sender, m.topic)

SubscribeAccepted(uid, m) ==
  /\ validateAgentMessageSubscription(uid, m.topic)
  /\ validateTopicSubscribe(uid, m.topic)

\* The connection still delivers what the client sent before it hung up.
Decodes(c, op) ==
  /\ reader[c] = "decode"
  /\ conn[c] \in {"open", "unregistered"}
  /\ sock[c] # <<>>
  /\ Head(sock[c]).op = op

Consume(c) == sock' = [sock EXCEPT ![c] = Tail(@)] /\ UNCHANGED <<sent, hungUp>>

DecodePub(c) ==
  /\ Decodes(c, "pub")
  /\ PublishAccepted(PeerOf[c], Head(sock[c]))
  /\ pending' = [pending EXCEPT ![c] = Head(sock[c])]
  /\ reader' = [reader EXCEPT ![c] = "publish"]
  /\ Consume(c)
  /\ UNCHANGED <<conn, broker, failed, delivered>>

\* Broker.Subscribe and Unsubscribe do nothing for a client that is gone.
DecodeSub(c) ==
  /\ Decodes(c, "sub")
  /\ SubscribeAccepted(PeerOf[c], Head(sock[c]))
  /\ patterns' = IF Registered(c) THEN [patterns EXCEPT ![c] = @ \cup {Head(sock[c]).topic}] ELSE patterns
  /\ Consume(c)
  /\ UNCHANGED <<conn, ch, length, reader, pending, failed, delivered>>

DecodeUnsub(c) ==
  /\ Decodes(c, "unsub")
  /\ patterns' = [patterns EXCEPT ![c] = @ \ {Head(sock[c]).topic}]
  /\ Consume(c)
  /\ UNCHANGED <<conn, ch, length, reader, pending, failed, delivered>>

Stop(c) == reader' = [reader EXCEPT ![c] = "stopped"]

\* Any refusal ends the goroutine.
Refuse(c) ==
  /\ \/ Decodes(c, "pub") /\ ~PublishAccepted(PeerOf[c], Head(sock[c]))
     \/ Decodes(c, "sub") /\ ~SubscribeAccepted(PeerOf[c], Head(sock[c]))
  /\ Consume(c)
  /\ Stop(c)
  /\ UNCHANGED <<conn, broker, pending, failed, delivered>>

\* dec.Decode fails: the client hung up, or this end was closed.
DecodeFails(c) ==
  /\ reader[c] = "decode"
  /\ \/ conn[c] = "closed"
     \/ conn[c] # "new" /\ sock[c] = <<>> /\ c \in hungUp
  /\ Stop(c)
  /\ UNCHANGED <<conn, broker, client, pending, failed, delivered>>

\* publishWithSender: no sender when the publisher was unregistered meanwhile.
Stamped(c) ==
  IF Delegated(PeerOf[c], pending[c]) \/ Registered(c) THEN EffectiveSender(PeerOf[c], pending[c]) ELSE None

Wants(d, topic) == Registered(d) /\ \E p \in patterns[d] : TopicMatch(p, topic)

\* Broker.Publish and PublishAs: a full queue drops the event.
Publish(c) ==
  LET event == [topic |-> pending[c].topic, body |-> pending[c].body, sender |-> Stamped(c),
                number |-> length + 1, by |-> c]
  IN  /\ reader[c] = "publish"
      /\ length' = length + 1
      /\ ch' = [d \in Conns |->
            IF d # c /\ Wants(d, event.topic) /\ Len(ch[d]) < BufSize THEN Append(ch[d], event) ELSE ch[d]]
      /\ pending' = [pending EXCEPT ![c] = None]
      /\ reader' = [reader EXCEPT ![c] = "decode"]
      /\ UNCHANGED <<conn, patterns, client, failed, delivered>>

-----------------------------------------------------------------------------
(* The writer goroutine and the clean-up *)

\* Bug: the newest event is taken first.
WriteNewest(c) ==
  /\ ch[c] # <<>>
  /\ conn[c] \in {"open", "unregistered"}
  /\ c \notin hungUp \cup failed
  /\ delivered' = [delivered EXCEPT ![c] = Append(@, Last(ch[c]))]
  /\ ch' = [ch EXCEPT ![c] = Front(@)]
  /\ UNCHANGED <<conn, patterns, length, client, reader, pending, failed>>

\* Also after the queue was closed: what is in it is still sent.
Write(c) ==
  /\ ch[c] # <<>>
  /\ conn[c] \in {"open", "unregistered"}
  /\ c \notin hungUp \cup failed
  /\ delivered' = [delivered EXCEPT ![c] = Append(@, Head(ch[c]))]
  /\ ch' = [ch EXCEPT ![c] = Tail(@)]
  /\ UNCHANGED <<conn, patterns, length, client, reader, pending, failed>>

WriteFails(c) ==
  /\ ch[c] # <<>>
  /\ c \in hungUp \/ conn[c] = "closed"
  /\ c \notin failed
  /\ failed' = failed \cup {c}
  /\ UNCHANGED <<conn, broker, client, reader, pending, delivered>>

\* Bug: only the writer's error ends the connection.
UnregisterByWriter(c) ==
  /\ conn[c] = "open"
  /\ c \in failed
  /\ conn' = [conn EXCEPT ![c] = "unregistered"]
  /\ patterns' = [patterns EXCEPT ![c] = {}]
  /\ UNCHANGED <<ch, length, client, reader, pending, failed, delivered>>

\* cleanup, by the first of the two goroutines to stop; the other waits for it.
Unregister(c) ==
  /\ conn[c] = "open"
  /\ reader[c] = "stopped" \/ c \in failed
  /\ conn' = [conn EXCEPT ![c] = "unregistered"]
  /\ patterns' = [patterns EXCEPT ![c] = {}]
  /\ UNCHANGED <<ch, length, client, reader, pending, failed, delivered>>

CloseConn(c) ==
  /\ conn[c] = "unregistered"
  /\ conn' = [conn EXCEPT ![c] = "closed"]
  /\ UNCHANGED <<broker, client, reader, pending, failed, delivered>>

-----------------------------------------------------------------------------

ClientStep(c) ==
  \/ Connect(c)
  \/ \E m \in Messages[c] : ClientSends(c, m) \/ ForwardInbound(c, m)
  \/ ClientCloses(c)
  \/ WebsocketEnds(c)

Reader(c) ==
  \/ DecodePub(c) \/ DecodeSub(c) \/ DecodeUnsub(c) \/ Refuse(c) \/ DecodeFails(c) \/ Publish(c)

Writer(c) == Write(c) \/ WriteFails(c)

CleanUp(c) == Unregister(c) \/ CloseConn(c)

Next == \E c \in Conns : ClientStep(c) \/ Reader(c) \/ Writer(c) \/ CleanUp(c)

Spec == Init /\ [][Next]_vars

\* A reader and the clean-up never wait for a client, nor for one another but for
\* Broker.mu; the writer may, and clients do as they like.
Fairness == \A c \in Conns : WF_vars(Reader(c)) /\ WF_vars(CleanUp(c))

FairSpec == Spec /\ Fairness

-----------------------------------------------------------------------------
(* Safety *)

Received(c) == ToSet(ch[c]) \cup ToSet(delivered[c])

\* The uid a connection may speak for; root's own clients speak for anyone.
SpeaksFor(c) ==
  CASE IdentityOf[c] # None                  -> {IdentityOf[c].uid}
    [] IdentityOf[c] = None /\ PeerOf[c] = 0 -> Uids
    [] OTHER                                 -> {PeerOf[c]}

\* Sender metadata can be believed: whatever fields the message had and whenever
\* it was published, the stamp and the from_uid of an agent message name someone
\* the publishing connection speaks for, "peer" is the connection's own uid, and
\* the stamp is missing only if the publisher had been unregistered by then.
SenderIsTrue ==
  \A c \in Conns : \A e \in Received(c) :
    /\ e.sender = None => ~Registered(e.by)
    /\ e.sender # None => e.sender.uid \in SpeaksFor(e.by)
    /\ e.sender # None /\ e.sender.kind = "peer" => e.sender.uid = PeerOf[e.by]
    /\ Under(e.topic, AgentMessage) => e.body.from \in SpeaksFor(e.by)

IsTrusted(c) == PeerOf[c] = 0 /\ (IdentityOf[c] # None => IdentityOf[c].role = "human")

\* Authoritative topics come from root's services or the human at a browser, and
\* escalations only reach those, by whatever wildcard anyone subscribes.
FamiliesGuarded ==
  \A c \in Conns : \A e \in Received(c) :
    /\ PrivilegedPublish(e.topic) => IsTrusted(e.by)
    /\ e.topic \in Escalations => IsTrusted(c)

\* An agent behind the gateway reads no agent message and no inbox of another
\* agent, although its bus connection is root's.
WebAgentsSeeOwn ==
  \A c \in Conns : \A e \in Received(c) :
    IdentityOf[c] # None /\ IdentityOf[c].role = "agent" =>
      /\ Under(e.topic, AgentMessage) => e.body.to = IdentityOf[c].uid
      /\ Under(e.topic, <<"webview", "inbox">>) => e.topic[3] = SegOf[IdentityOf[c].uid]

\* Everyone sees the events he gets in the order of their publication, once.
Log == INSTANCE LossyLog WITH
  Readers <- Conns,
  got <- [c \in Conns |-> [i \in DOMAIN delivered[c] |-> delivered[c][i].number]]

ImplementsLossyLog == Log!Spec

-----------------------------------------------------------------------------
(* Liveness *)

\* No half-dead connection: once its client has left, a message was refused or
\* the writer met an error, the clean-up unregisters and closes it, whatever the
\* queue holds and however many of its messages wait to be decoded.
EndedIsClosed ==
  \A c \in Conns : (c \in hungUp \cup failed \/ reader[c] = "stopped") ~> conn[c] = "closed"

=============================================================================

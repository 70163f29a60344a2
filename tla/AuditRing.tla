------------------------------ MODULE AuditRing ------------------------------
(***************************************************************************)
(* The audit service's broker (internal/audit): a ring of the latest audit *)
(* events, a bounded channel per subscriber, and a goroutine per           *)
(* connection that writes the backlog of the ring and then what comes      *)
(* through the channel. Publish, Subscribe and Unsubscribe are atomic      *)
(* (Broker.mu); what a goroutine does with its copy of the backlog is not. *)
(*                                                                         *)
(* An event is its number. What the service's loop reads from fanotify and *)
(* writes to its log file before it publishes is left out.                 *)
(***************************************************************************)
EXTENDS Integers, Sequences

CONSTANTS
  Subscribers,  \* connections; a subscriber id is never given out again
  RingSize,     \* slots of the ring
  BufSize,      \* subscriberBufSize
  Leaving,      \* bound: connections whose client may shut down or close
  MaxEvents     \* bound: events published

ASSUME RingAssumption == RingSize \in Nat \ {0}
ASSUME ChannelAssumption == BufSize \in Nat
ASSUME AuditBoundAssumption == Leaving \subseteq Subscribers /\ MaxEvents \in Nat

VARIABLES
  (* Broker *)
  ring,     \* slot -> the event in it, 0 for none
  pos,      \* next write index
  count,    \* how many slots are occupied
  ch,       \* subscriber -> what its channel holds
  (* handleSubscriber *)
  pc,       \* "new", "backlog", "stream", "returns", "gone"
  backlog,  \* what it has still to write of the backlog
  client,   \* "open", "shut" (sends nothing more), "closed"
  (* history *)
  length,   \* events published so far
  got       \* subscriber -> the events written to its connection

vars == <<ring, pos, count, ch, pc, backlog, client, length, got>>

Slots == 0..(RingSize - 1)

TypeOK ==
  /\ ring \in [Slots -> Nat]
  /\ pos \in Slots
  /\ count \in 0..RingSize
  /\ ch \in [Subscribers -> Seq(Nat)]
  /\ pc \in [Subscribers -> {"new", "backlog", "stream", "returns", "gone"}]
  /\ backlog \in [Subscribers -> Seq(Nat)]
  /\ client \in [Subscribers -> {"open", "shut", "closed"}]
  /\ length \in Nat
  /\ got \in [Subscribers -> Seq(Nat)]

Init ==
  /\ ring = [k \in Slots |-> 0]
  /\ pos = 0
  /\ count = 0
  /\ ch = [s \in Subscribers |-> <<>>]
  /\ pc = [s \in Subscribers |-> "new"]
  /\ backlog = [s \in Subscribers |-> <<>>]
  /\ client = [s \in Subscribers |-> "open"]
  /\ length = 0
  /\ got = [s \in Subscribers |-> <<>>]

-----------------------------------------------------------------------------
(* The broker *)

Registered(s) == pc[s] \in {"backlog", "stream", "returns"}

\* A full channel drops the event.
FanOut(event) ==
  ch' = [s \in Subscribers |->
           IF Registered(s) /\ Len(ch[s]) < BufSize THEN Append(ch[s], event) ELSE ch[s]]

Publish ==
  /\ length < MaxEvents  \* bound
  /\ ring' = [ring EXCEPT ![pos] = length + 1]
  /\ pos' = (pos + 1) % RingSize
  /\ count' = IF count < RingSize THEN count + 1 ELSE count
  /\ FanOut(length + 1)
  /\ length' = length + 1
  /\ UNCHANGED <<pc, backlog, client, got>>

\* Bug: the oldest event is looked for in the first slot.
FirstSlot == 0

\* The slot of the oldest event.
Oldest == IF count >= RingSize THEN pos ELSE 0

Backlog == [i \in 1..count |-> ring[(Oldest + i - 1) % RingSize]]

Subscribe(s) ==
  /\ pc[s] = "new"
  /\ backlog' = [backlog EXCEPT ![s] = Backlog]
  /\ pc' = [pc EXCEPT ![s] = "backlog"]
  /\ UNCHANGED <<ring, pos, count, ch, client, length, got>>

\* What is left of the backlog and the channel goes with the goroutine.
Unsubscribe(s) ==
  /\ pc[s] = "returns"
  /\ pc' = [pc EXCEPT ![s] = "gone"]
  /\ backlog' = [backlog EXCEPT ![s] = <<>>]
  /\ ch' = [ch EXCEPT ![s] = <<>>]
  /\ UNCHANGED <<ring, pos, count, client, length, got>>

-----------------------------------------------------------------------------
(* A subscriber's goroutine and its client *)

Write(s, event) == client[s] # "closed" /\ got' = [got EXCEPT ![s] = Append(@, event)]

WriteBacklog(s) ==
  /\ pc[s] = "backlog"
  /\ backlog[s] # <<>>
  /\ Write(s, Head(backlog[s]))
  /\ backlog' = [backlog EXCEPT ![s] = Tail(@)]
  /\ UNCHANGED <<ring, pos, count, ch, pc, client, length>>

BacklogWritten(s) ==
  /\ pc[s] = "backlog"
  /\ backlog[s] = <<>>
  /\ pc' = [pc EXCEPT ![s] = "stream"]
  /\ UNCHANGED <<ring, pos, count, ch, backlog, client, length, got>>

WriteLive(s) ==
  /\ pc[s] = "stream"
  /\ ch[s] # <<>>
  /\ Write(s, Head(ch[s]))
  /\ ch' = [ch EXCEPT ![s] = Tail(@)]
  /\ UNCHANGED <<ring, pos, count, pc, backlog, client, length>>

Return(s) ==
  /\ pc' = [pc EXCEPT ![s] = "returns"]
  /\ UNCHANGED <<ring, pos, count, ch, backlog, client, length, got>>

WriteFails(s) ==
  /\ \/ pc[s] = "backlog" /\ backlog[s] # <<>>
     \/ pc[s] = "stream" /\ ch[s] # <<>>
  /\ client[s] = "closed"
  /\ Return(s)

\* The channel done, of the goroutine that reads what the client sends: nobody
\* looks at it while the backlog is written.
PeerDone(s) ==
  /\ pc[s] = "stream"
  /\ client[s] # "open"
  /\ Return(s)

Shuts(s) ==
  /\ s \in Leaving
  /\ pc[s] # "new"
  /\ \/ client[s] = "open" /\ client' = [client EXCEPT ![s] = "shut"]
     \/ client[s] # "closed" /\ client' = [client EXCEPT ![s] = "closed"]
  /\ UNCHANGED <<ring, pos, count, ch, pc, backlog, length, got>>

-----------------------------------------------------------------------------

Goroutine(s) ==
  \/ Subscribe(s) \/ WriteBacklog(s) \/ BacklogWritten(s) \/ WriteLive(s)
  \/ WriteFails(s) \/ PeerDone(s) \/ Unsubscribe(s)

Next == Publish \/ \E s \in Subscribers : Goroutine(s) \/ Shuts(s)

Spec == Init /\ [][Next]_vars

-----------------------------------------------------------------------------

\* How far a subscriber is, and what it has still to get: the rest of its
\* backlog and then what is in its channel.
phase ==
  [s \in Subscribers |->
     CASE pc[s] = "new" -> "new" [] pc[s] = "gone" -> "left" [] OTHER -> "joined"]

owed == [s \in Subscribers |-> backlog[s] \o ch[s]]

Log == INSTANCE CatchUpLog WITH Readers <- Subscribers, Window <- RingSize, Room <- BufSize

\* A subscriber gets the latest RingSize events from before it came, no slot that
\* was overwritten and oldest first, and everything since unless its channel was
\* full: nothing is lost or repeated between the ring and the channel.
ImplementsCatchUpLog == Log!Spec

=============================================================================

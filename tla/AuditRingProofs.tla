--------------------------- MODULE AuditRingProofs ---------------------------
(***************************************************************************)
(* The audit service's ring and channels implement CatchUpLog, for any     *)
(* size of the ring, any size of the channels, any number of events and    *)
(* any set of subscribers that come and go.                                *)
(***************************************************************************)
EXTENDS AuditRing, SequenceTheorems, TLAPS

-----------------------------------------------------------------------------
(* Arithmetic of the ring *)

LEMMA ModBelow ==
  ASSUME NEW N \in Nat \ {0}, NEW a \in 0..(N - 1)
  PROVE  a % N = a
OBVIOUS

LEMMA ModOnce ==
  ASSUME NEW N \in Nat \ {0}, NEW a \in N..(N + N - 1)
  PROVE  a % N = a - N
OBVIOUS

LEMMA Mod ==
  ASSUME NEW a \in Nat, a < RingSize + RingSize
  PROVE  a % RingSize = IF a < RingSize THEN a ELSE a - RingSize
<1>1. RingSize \in Nat \ {0}
  BY RingAssumption
<1>2. CASE a < RingSize
  <2>1. a \in 0..(RingSize - 1)
    BY <1>1, <1>2
  <2>. QED
    BY <1>1, <1>2, <2>1, ModBelow
<1>3. CASE ~(a < RingSize)
  <2>1. a \in RingSize..(RingSize + RingSize - 1)
    BY <1>1, <1>3
  <2>. QED
    BY <1>1, <1>3, <2>1, ModOnce
<1>. QED
  BY <1>2, <1>3

LEMMA NextPos ==
  ASSUME pos \in Slots
  PROVE  (pos + 1) % RingSize = IF pos + 1 < RingSize THEN pos + 1 ELSE 0
<1>. DEFINE a == pos + 1
<1>1. a \in Nat /\ a < RingSize + RingSize
  BY RingAssumption DEF Slots
<1>2. ~(a < RingSize) => a - RingSize = 0
  BY RingAssumption DEF Slots
<1>. HIDE DEF a
<1>3. a % RingSize = IF a < RingSize THEN a ELSE a - RingSize
  BY <1>1, Mod
<1>4. a % RingSize = IF a < RingSize THEN a ELSE 0
  BY <1>2, <1>3
<1>. QED
  BY <1>4 DEF a

-----------------------------------------------------------------------------
(* Types *)

\* The ring holds what Backlog copies.
LEMMA BacklogTyped ==
  ASSUME TypeOK
  PROVE  Backlog \in Seq(Nat)
<1>1. ASSUME NEW i \in 1..count
      PROVE  (Oldest + i - 1) % RingSize \in Slots
  BY RingAssumption DEF TypeOK, Oldest, Slots
<1>2. ASSUME NEW i \in 1..count
      PROVE  ring[(Oldest + i - 1) % RingSize] \in Nat
  BY <1>1 DEF TypeOK
<1>3. count \in Nat
  BY RingAssumption DEF TypeOK
<1>. QED
  BY <1>2, <1>3, IsASeq DEF Backlog

LEMMA TypeInitial == Init => TypeOK
BY RingAssumption, EmptySeq DEF Init, TypeOK, Slots

LEMMA PublishTyped ==
  ASSUME TypeOK, Publish
  PROVE  TypeOK'
<1>1. length + 1 \in Nat /\ ring' \in [Slots -> Nat]
  BY DEF TypeOK, Publish
<1>2. pos' \in Slots /\ count' \in 0..RingSize
  BY NextPos, RingAssumption DEF TypeOK, Publish, Slots
<1>3. ASSUME NEW s \in Subscribers
      PROVE  Append(ch[s], length + 1) \in Seq(Nat) /\ ch[s] \in Seq(Nat)
  BY <1>1, AppendProperties DEF TypeOK
<1>4. ch' \in [Subscribers -> Seq(Nat)]
  BY <1>3 DEF Publish, FanOut
<1>. QED
  BY <1>1, <1>2, <1>4 DEF TypeOK, Publish

LEMMA GoroutineTyped ==
  ASSUME TypeOK, NEW s \in Subscribers, Goroutine(s) \/ Shuts(s)
  PROVE  TypeOK'
<1>1. CASE Subscribe(s)
  BY <1>1, BacklogTyped DEF Subscribe, TypeOK
<1>2. CASE WriteBacklog(s)
  <2>1. Head(backlog[s]) \in Nat /\ Tail(backlog[s]) \in Seq(Nat)
    BY <1>2, HeadTailProperties DEF WriteBacklog, TypeOK
  <2>2. Append(got[s], Head(backlog[s])) \in Seq(Nat)
    BY <2>1, AppendProperties DEF TypeOK
  <2>. QED
    BY <1>2, <2>1, <2>2 DEF WriteBacklog, Write, TypeOK
<1>3. CASE BacklogWritten(s)
  BY <1>3 DEF BacklogWritten, TypeOK
<1>4. CASE WriteLive(s)
  <2>1. Head(ch[s]) \in Nat /\ Tail(ch[s]) \in Seq(Nat)
    BY <1>4, HeadTailProperties DEF WriteLive, TypeOK
  <2>2. Append(got[s], Head(ch[s])) \in Seq(Nat)
    BY <2>1, AppendProperties DEF TypeOK
  <2>. QED
    BY <1>4, <2>1, <2>2 DEF WriteLive, Write, TypeOK
<1>5. CASE WriteFails(s) \/ PeerDone(s)
  BY <1>5 DEF WriteFails, PeerDone, Return, TypeOK
<1>6. CASE Unsubscribe(s)
  BY <1>6, EmptySeq DEF Unsubscribe, TypeOK
<1>7. CASE Shuts(s)
  BY <1>7 DEF Shuts, TypeOK
<1>. QED
  BY <1>1, <1>2, <1>3, <1>4, <1>5, <1>6, <1>7 DEF Goroutine

LEMMA TypeStep == TypeOK /\ [Next]_vars => TypeOK'
<1>. SUFFICES ASSUME TypeOK, [Next]_vars
              PROVE  TypeOK'
  OBVIOUS
<1>1. CASE UNCHANGED vars
  BY <1>1 DEF vars, TypeOK
<1>. QED
  BY <1>1, PublishTyped, GoroutineTyped DEF Next

\* Every variable of the broker and its goroutines keeps its type.
THEOREM TypeCorrect == Spec => []TypeOK
<1>. QED
  BY TypeInitial, TypeStep, PTL DEF Spec

-----------------------------------------------------------------------------
(* The ring holds the latest events *)

\* What is left of pos was written in this round, the rest in the one before.
RingInv ==
  /\ count < RingSize => pos = count /\ length = count
  /\ count <= length
  /\ \A k \in Slots : k < pos => ring[k] = length - pos + 1 + k
  /\ count = RingSize =>
       \A k \in Slots : k >= pos => ring[k] = length - pos + 1 + k - RingSize

LEMMA RingInitial == Init => RingInv
BY RingAssumption DEF Init, RingInv, Slots

LEMMA PublishKeepsRing ==
  ASSUME TypeOK, RingInv, Publish
  PROVE  RingInv'
<1>1. /\ RingSize \in Nat \ {0} /\ pos \in 0..(RingSize - 1) /\ count \in 0..RingSize
      /\ length \in Nat /\ length' = length + 1
  BY RingAssumption DEF TypeOK, Publish, Slots
<1>2. pos' = IF pos + 1 < RingSize THEN pos + 1 ELSE 0
  BY NextPos DEF TypeOK, Publish
<1>3. count' = IF count < RingSize THEN count + 1 ELSE count
  BY DEF Publish
<1>4. \A k \in Slots : ring'[k] = IF k = pos THEN length + 1 ELSE ring[k]
  BY DEF Publish, TypeOK
<1>5. (count' < RingSize => pos' = count' /\ length' = count') /\ count' <= length'
  BY <1>1, <1>2, <1>3 DEF RingInv
<1>6. ASSUME NEW k \in Slots, k < pos'
      PROVE  ring'[k] = length' - pos' + 1 + k
  BY <1>1, <1>2, <1>4, <1>6 DEF RingInv, Slots
<1>7. ASSUME count' = RingSize, NEW k \in Slots, k >= pos'
      PROVE  ring'[k] = length' - pos' + 1 + k - RingSize
  <2>1. CASE pos + 1 < RingSize
    <3>1. count = RingSize
      BY <1>1, <1>3, <1>7, <2>1 DEF RingInv
    <3>. QED
      BY <1>1, <1>2, <1>4, <1>7, <2>1, <3>1 DEF RingInv, Slots
  <2>2. CASE pos + 1 = RingSize
    BY <1>1, <1>2, <1>4, <1>7, <2>2 DEF RingInv, Slots
  <2>. QED
    BY <1>1, <2>1, <2>2
<1>. QED
  BY <1>5, <1>6, <1>7 DEF RingInv

\* The copy Subscribe makes is that of the latest events, oldest first.
LEMMA BacklogIsRecent ==
  ASSUME TypeOK, RingInv
  PROVE  Backlog = Log!Recent
<1>1. /\ RingSize \in Nat \ {0} /\ pos \in 0..(RingSize - 1) /\ count \in 0..RingSize
      /\ length \in Nat
  BY RingAssumption DEF TypeOK, Slots
<1>2. count = IF length < RingSize THEN length ELSE RingSize
  BY <1>1 DEF RingInv
<1>3. ASSUME NEW i \in 1..count
      PROVE  ring[(Oldest + i - 1) % RingSize] = length - count + i
  <2>. DEFINE a == Oldest + i - 1
  <2>1. a \in Nat /\ a < RingSize + RingSize
    BY <1>1 DEF Oldest
  <2>2. CASE count < RingSize
    <3>1. a \in Slots /\ a < pos /\ a < RingSize /\ a = i - 1
      BY <1>1, <2>2 DEF Oldest, RingInv, Slots
    <3>2. ring[a] = length - count + i
      BY <1>1, <2>2, <3>1 DEF RingInv
    <3>. HIDE DEF a
    <3>3. a % RingSize = a
      BY <2>1, <3>1, Mod
    <3>4. ring[a % RingSize] = length - count + i
      BY <3>2, <3>3
    <3>. QED
      BY <3>4 DEF a
  <2>3. CASE count = RingSize /\ a < RingSize
    <3>1. a \in Slots /\ a >= pos /\ a = pos + i - 1
      BY <1>1, <2>3 DEF Oldest, Slots
    <3>2. ring[a] = length - count + i
      BY <1>1, <2>3, <3>1 DEF RingInv
    <3>. HIDE DEF a
    <3>3. a % RingSize = a
      BY <2>1, <2>3, Mod
    <3>4. ring[a % RingSize] = length - count + i
      BY <3>2, <3>3
    <3>. QED
      BY <3>4 DEF a
  <2>4. CASE count = RingSize /\ ~(a < RingSize)
    <3>1. a - RingSize \in Slots /\ a - RingSize < pos /\ a = pos + i - 1
      BY <1>1, <2>4 DEF Oldest, Slots
    <3>2. ring[a - RingSize] = length - count + i
      BY <1>1, <2>4, <3>1 DEF RingInv
    <3>. HIDE DEF a
    <3>3. a % RingSize = a - RingSize
      BY <2>1, <2>4, Mod
    <3>4. ring[a % RingSize] = length - count + i
      BY <3>2, <3>3
    <3>. QED
      BY <3>4 DEF a
  <2>. QED
    BY <1>1, <2>2, <2>3, <2>4
<1>. QED
  BY <1>2, <1>3 DEF Backlog, Log!Recent

-----------------------------------------------------------------------------
(* Refinement *)

\* The channel is looked at after the backlog only, and who has no goroutine has
\* neither.
GoroutineInv ==
  \A s \in Subscribers :
    /\ pc[s] \in {"stream", "new", "gone"} => backlog[s] = <<>>
    /\ pc[s] \in {"new", "gone"} => ch[s] = <<>>

Inv == TypeOK /\ RingInv /\ GoroutineInv

\* Nothing but Publish changes the ring, and a goroutine changes its own share.
LEMMA GoroutineKeepsRing ==
  ASSUME NEW s \in Subscribers, Goroutine(s) \/ Shuts(s)
  PROVE  UNCHANGED <<ring, pos, count, length>>
BY DEF Goroutine, Subscribe, WriteBacklog, BacklogWritten, WriteLive, WriteFails, PeerDone, Unsubscribe,
       Return, Shuts

LEMMA OwedTyped ==
  ASSUME TypeOK, NEW s \in Subscribers
  PROVE  /\ backlog[s] \in Seq(Nat) /\ ch[s] \in Seq(Nat) /\ owed[s] \in Seq(Nat)
         /\ owed[s] = backlog[s] \o ch[s]
         /\ Len(owed[s]) = Len(backlog[s]) + Len(ch[s])
BY ConcatProperties DEF TypeOK, owed

LEMMA HeadOfConcat ==
  ASSUME NEW b \in Seq(Nat), b # <<>>, NEW c \in Seq(Nat)
  PROVE  b \o c # <<>> /\ Head(b \o c) = Head(b) /\ Tail(b \o c) = Tail(b) \o c
<1>1. PICK d : d = b \o c
  OBVIOUS
<1>2. /\ d \in Seq(Nat) /\ Len(d) = Len(b) + Len(c) /\ Len(b) \in Nat /\ Len(c) \in Nat
      /\ \A i \in 1..(Len(b) + Len(c)) : d[i] = IF i <= Len(b) THEN b[i] ELSE c[i - Len(b)]
  BY <1>1, ConcatProperties, LenProperties
<1>3. Len(b) > 0
  BY <1>2, EmptySeq
<1>4. d # <<>> /\ Head(d) = Head(b)
  BY <1>2, <1>3
<1>5. /\ Tail(b) \in Seq(Nat) /\ Len(Tail(b)) = Len(b) - 1
      /\ \A i \in 1..Len(Tail(b)) : Tail(b)[i] = b[i + 1]
  BY HeadTailProperties
<1>6. PICK u : u = Tail(d)
  OBVIOUS
<1>7. /\ u \in Seq(Nat) /\ Len(u) = Len(b) + Len(c) - 1
      /\ \A i \in 1..(Len(b) + Len(c) - 1) : u[i] = d[i + 1]
  <2>1. Tail(d) \in Seq(Nat) /\ Len(Tail(d)) = Len(d) - 1 /\ \A i \in 1..Len(Tail(d)) : Tail(d)[i] = d[i + 1]
    BY <1>2, <1>4, HeadTailProperties
  <2>. QED
    BY <1>2, <1>6, <2>1
<1>8. PICK t : t = Tail(b) \o c
  OBVIOUS
<1>9. /\ t \in Seq(Nat) /\ Len(t) = Len(b) + Len(c) - 1
      /\ \A i \in 1..(Len(b) + Len(c) - 1) : t[i] = IF i < Len(b) THEN b[i + 1] ELSE c[i + 1 - Len(b)]
  <2>1. /\ t \in Seq(Nat) /\ Len(t) = Len(b) - 1 + Len(c)
        /\ \A i \in 1..(Len(b) - 1 + Len(c)) : t[i] = IF i <= Len(b) - 1 THEN Tail(b)[i] ELSE c[i - (Len(b) - 1)]
    BY <1>5, <1>8, ConcatProperties
  <2>2. ASSUME NEW i \in 1..(Len(b) + Len(c) - 1)
        PROVE  t[i] = IF i < Len(b) THEN b[i + 1] ELSE c[i + 1 - Len(b)]
    <3>1. CASE i < Len(b)
      BY <1>2, <1>5, <2>1, <3>1
    <3>2. CASE ~(i < Len(b))
      <4>1. t[i] = c[i - (Len(b) - 1)] /\ i - (Len(b) - 1) = i + 1 - Len(b)
        BY <1>2, <2>1, <3>2
      <4>. QED
        BY <3>2, <4>1
    <3>. QED
      BY <3>1, <3>2
  <2>. QED
    BY <1>2, <2>1, <2>2
<1>10. ASSUME NEW i \in 1..Len(t)
       PROVE  t[i] = u[i]
  <2>1. i \in 1..(Len(b) + Len(c) - 1) /\ i + 1 \in 1..(Len(b) + Len(c))
    BY <1>2, <1>9
  <2>2. u[i] = IF i + 1 <= Len(b) THEN b[i + 1] ELSE c[i + 1 - Len(b)]
    <3>1. PICK j : j = i + 1
      OBVIOUS
    <3>2. d[j] = IF j <= Len(b) THEN b[j] ELSE c[j - Len(b)]
      BY <1>2, <2>1, <3>1
    <3>. QED
      BY <1>7, <2>1, <3>1, <3>2
  <2>3. t[i] = IF i < Len(b) THEN b[i + 1] ELSE c[i + 1 - Len(b)]
    BY <1>9, <2>1
  <2>4. i < Len(b) <=> i + 1 <= Len(b)
    BY <1>2
  <2>. QED
    BY <2>2, <2>3, <2>4
<1>11. t = u
  BY <1>7, <1>9, <1>10, SeqEqual
<1>. QED
  BY <1>1, <1>4, <1>6, <1>8, <1>11

LEMMA AppendToConcat ==
  ASSUME NEW b \in Seq(Nat), NEW c \in Seq(Nat), NEW e \in Nat
  PROVE  b \o Append(c, e) = Append(b \o c, e)
<1>1. <<e>> \in Seq(Nat)
  OBVIOUS
<1>2. b \o Append(c, e) = b \o (c \o <<e>>) /\ Append(b \o c, e) = (b \o c) \o <<e>>
  BY AppendIsConcat, ConcatProperties
<1>. QED
  BY <1>1, <1>2, ConcatAssociative

LEMMA InvInitial == Init => Inv /\ Log!Init
<1>. SUFFICES ASSUME Init
              PROVE  Inv /\ Log!Init
  OBVIOUS
<1>1. Inv
  BY TypeInitial, RingInitial DEF Inv, Init, GoroutineInv
<1>2. \A s \in Subscribers : owed[s] = <<>> /\ phase[s] = "new"
  BY ConcatEmptySeq, EmptySeq DEF Init, owed, phase
<1>3. Log!Init
  BY <1>2 DEF Log!Init, Init, owed, phase
<1>. QED
  BY <1>1, <1>3

\* Whoever loses the event has a full channel.
LEMMA PublishRefines ==
  ASSUME Inv, Publish
  PROVE  GoroutineInv' /\ Log!Publish
<1>1. \A s \in Subscribers :
        ch'[s] = IF Registered(s) /\ Len(ch[s]) < BufSize THEN Append(ch[s], length + 1) ELSE ch[s]
  BY DEF Publish, FanOut
<1>2. UNCHANGED <<pc, backlog, got>> /\ length' = length + 1 /\ length + 1 \in Nat
  BY DEF Inv, TypeOK, Publish
<1>3. GoroutineInv'
  BY <1>1, <1>2 DEF Inv, GoroutineInv, Registered
<1>4. \A s \in Subscribers : Registered(s) <=> phase[s] = "joined"
  BY DEF Inv, TypeOK, Registered, phase
<1>. DEFINE missing == {s \in Subscribers : Registered(s) /\ ~(Len(ch[s]) < BufSize)}
<1>5. missing \in SUBSET {s \in Log!Joined : Len(owed[s]) >= BufSize}
  <2>. SUFFICES ASSUME NEW s \in missing
                PROVE  s \in Log!Joined /\ Len(owed[s]) >= BufSize
    OBVIOUS
  <2>1. s \in Log!Joined
    BY <1>4 DEF Log!Joined
  <2>2. Len(owed[s]) = Len(backlog[s]) + Len(ch[s]) /\ Len(backlog[s]) \in Nat /\ Len(ch[s]) \in Nat
    BY OwedTyped, LenProperties DEF Inv
  <2>3. Len(ch[s]) >= BufSize
    BY <2>2, ChannelAssumption
  <2>. HIDE DEF missing
  <2>4. PICK n, b, c : n = Len(owed[s]) /\ b = Len(backlog[s]) /\ c = Len(ch[s])
    OBVIOUS
  <2>5. n = b + c /\ b \in Nat /\ c \in Nat /\ c >= BufSize
    BY <2>2, <2>3, <2>4, Zenon
  <2>6. n >= BufSize
    BY <2>5, ChannelAssumption
  <2>. QED
    BY <2>1, <2>4, <2>6, Zenon
<1>6. ASSUME NEW s \in Subscribers
      PROVE  owed'[s] = IF s \in Log!Joined \ missing THEN Append(owed[s], length + 1) ELSE owed[s]
  <2>1. owed'[s] = backlog[s] \o ch'[s] /\ owed[s] = backlog[s] \o ch[s]
    BY <1>2 DEF owed
  <2>2. backlog[s] \o Append(ch[s], length + 1) = Append(owed[s], length + 1)
    BY <1>2, <2>1, AppendToConcat DEF Inv, TypeOK
  <2>3. s \in Log!Joined \ missing <=> Registered(s) /\ Len(ch[s]) < BufSize
    BY <1>4 DEF Log!Joined
  <2>. QED
    BY <1>1, <2>1, <2>2, <2>3
<1>7. owed' = [s \in Subscribers |-> IF s \in Log!Joined \ missing THEN Append(owed[s], length + 1) ELSE owed[s]]
  BY <1>6 DEF owed
<1>8. phase' = phase
  BY <1>2 DEF phase
<1>. HIDE DEF missing
<1>. QED
  BY <1>2, <1>3, <1>5, <1>7, <1>8 DEF Log!Publish

LEMMA SubscribeRefines ==
  ASSUME Inv, NEW s \in Subscribers, Subscribe(s)
  PROVE  GoroutineInv' /\ Log!Join(s)
<1>1. /\ pc[s] = "new" /\ UNCHANGED <<ch, length, got>>
      /\ backlog' = [backlog EXCEPT ![s] = Backlog] /\ pc' = [pc EXCEPT ![s] = "backlog"]
  BY DEF Subscribe
<1>2. GoroutineInv'
  BY <1>1 DEF Inv, TypeOK, GoroutineInv
<1>3. ch[s] = <<>> /\ Backlog \o ch[s] = Log!Recent
  BY <1>1, BacklogTyped, BacklogIsRecent, ConcatEmptySeq DEF Inv, GoroutineInv
<1>4. owed' = [owed EXCEPT ![s] = Log!Recent]
  BY <1>1, <1>3 DEF owed, Inv, TypeOK
<1>5. phase[s] = "new" /\ phase' = [phase EXCEPT ![s] = "joined"]
  BY <1>1 DEF phase, Inv, TypeOK
<1>. QED
  BY <1>1, <1>2, <1>4, <1>5 DEF Log!Join

LEMMA UnsubscribeRefines ==
  ASSUME Inv, NEW s \in Subscribers, Unsubscribe(s)
  PROVE  GoroutineInv' /\ Log!Leave(s)
<1>1. /\ pc[s] = "returns" /\ UNCHANGED <<length, got>> /\ pc' = [pc EXCEPT ![s] = "gone"]
      /\ backlog' = [backlog EXCEPT ![s] = <<>>] /\ ch' = [ch EXCEPT ![s] = <<>>]
  BY DEF Unsubscribe
<1>2. GoroutineInv'
  BY <1>1 DEF Inv, TypeOK, GoroutineInv
<1>3. <<>> \o <<>> = <<>>
  BY ConcatEmptySeq, EmptySeq
<1>4. owed' = [owed EXCEPT ![s] = <<>>]
  BY <1>1, <1>3 DEF owed, Inv, TypeOK
<1>5. phase[s] = "joined" /\ phase' = [phase EXCEPT ![s] = "left"]
  BY <1>1 DEF phase, Inv, TypeOK
<1>. QED
  BY <1>1, <1>2, <1>4, <1>5 DEF Log!Leave

\* Both writes take the head of what is owed.
LEMMA WriteRefines ==
  ASSUME Inv, NEW s \in Subscribers, WriteBacklog(s) \/ WriteLive(s)
  PROVE  GoroutineInv' /\ Log!Deliver(s)
<1>1. UNCHANGED <<pc, length>> /\ phase' = phase /\ phase[s] = "joined"
  BY DEF WriteBacklog, WriteLive, phase
<1>2. CASE WriteBacklog(s)
  <2>1. /\ backlog[s] # <<>> /\ backlog' = [backlog EXCEPT ![s] = Tail(@)] /\ ch' = ch
        /\ got' = [got EXCEPT ![s] = Append(@, Head(backlog[s]))] /\ pc[s] = "backlog"
    BY <1>2 DEF WriteBacklog, Write
  <2>2. GoroutineInv'
    BY <1>1, <2>1 DEF Inv, TypeOK, GoroutineInv
  <2>3. owed[s] # <<>> /\ Head(owed[s]) = Head(backlog[s]) /\ Tail(owed[s]) = Tail(backlog[s]) \o ch[s]
    <3>1. backlog[s] \in Seq(Nat) /\ ch[s] \in Seq(Nat) /\ owed[s] = backlog[s] \o ch[s]
      BY OwedTyped DEF Inv
    <3>2. PICK b, c : b = backlog[s] /\ c = ch[s]
      OBVIOUS
    <3>3. b \o c # <<>> /\ Head(b \o c) = Head(b) /\ Tail(b \o c) = Tail(b) \o c
      BY <2>1, <3>1, <3>2, HeadOfConcat
    <3>. QED
      BY <3>1, <3>2, <3>3
  <2>4. owed' = [owed EXCEPT ![s] = Tail(@)]
    BY <2>1, <2>3 DEF owed, Inv, TypeOK
  <2>. QED
    BY <1>1, <2>1, <2>2, <2>3, <2>4 DEF Log!Deliver
<1>3. CASE WriteLive(s)
  <2>1. /\ ch[s] # <<>> /\ ch' = [ch EXCEPT ![s] = Tail(@)] /\ backlog' = backlog
        /\ got' = [got EXCEPT ![s] = Append(@, Head(ch[s]))] /\ pc[s] = "stream"
    BY <1>3 DEF WriteLive, Write
  <2>2. GoroutineInv'
    BY <1>1, <2>1 DEF Inv, TypeOK, GoroutineInv
  <2>3. backlog[s] = <<>> /\ owed[s] = ch[s]
    BY <2>1, ConcatEmptySeq, OwedTyped DEF Inv, GoroutineInv
  <2>4. <<>> \o Tail(ch[s]) = Tail(ch[s])
    BY <2>1, HeadTailProperties, ConcatEmptySeq DEF Inv, TypeOK
  <2>5. owed' = [owed EXCEPT ![s] = Tail(@)]
    BY <2>1, <2>3, <2>4 DEF owed, Inv, TypeOK
  <2>. QED
    BY <1>1, <2>1, <2>2, <2>3, <2>5 DEF Log!Deliver
<1>. QED
  BY <1>2, <1>3

\* The rest of what a goroutine and its client do changes nothing of the log.
LEMMA OtherStepsRefine ==
  ASSUME Inv, NEW s \in Subscribers, BacklogWritten(s) \/ WriteFails(s) \/ PeerDone(s) \/ Shuts(s)
  PROVE  GoroutineInv' /\ UNCHANGED <<length, phase, owed, got>>
<1>1. /\ UNCHANGED <<backlog, ch, length, got>>
      /\ \/ pc[s] = "backlog" /\ backlog[s] = <<>> /\ pc' = [pc EXCEPT ![s] = "stream"]
         \/ pc[s] \in {"backlog", "stream"} /\ pc' = [pc EXCEPT ![s] = "returns"]
         \/ pc' = pc
  BY DEF BacklogWritten, WriteFails, PeerDone, Return, Shuts
<1>2. GoroutineInv'
  BY <1>1 DEF Inv, TypeOK, GoroutineInv
<1>3. \A r \in Subscribers : phase'[r] = phase[r]
  BY <1>1 DEF phase, Inv, TypeOK
<1>4. phase' = phase /\ owed' = owed
  BY <1>1, <1>3 DEF phase, owed
<1>. QED
  BY <1>1, <1>2, <1>4

LEMMA InvStep ==
  ASSUME Inv, [Next]_vars
  PROVE  Inv' /\ [Log!Next]_<<length, phase, owed, got>>
<1>1. TypeOK'
  BY TypeStep DEF Inv
<1>2. CASE Publish
  BY <1>1, <1>2, PublishKeepsRing, PublishRefines DEF Inv, Log!Next
<1>3. ASSUME NEW s \in Subscribers, Goroutine(s) \/ Shuts(s)
      PROVE  Inv' /\ [Log!Next]_<<length, phase, owed, got>>
  <2>1. RingInv'
    BY <1>3, GoroutineKeepsRing DEF Inv, RingInv
  <2>2. GoroutineInv' /\ [Log!Next]_<<length, phase, owed, got>>
    <3>1. CASE Subscribe(s)
      BY <3>1, SubscribeRefines DEF Log!Next
    <3>2. CASE Unsubscribe(s)
      BY <3>2, UnsubscribeRefines DEF Log!Next
    <3>3. CASE WriteBacklog(s) \/ WriteLive(s)
      BY <3>3, WriteRefines DEF Log!Next
    <3>4. CASE BacklogWritten(s) \/ WriteFails(s) \/ PeerDone(s) \/ Shuts(s)
      BY <3>4, OtherStepsRefine
    <3>. QED
      BY <1>3, <3>1, <3>2, <3>3, <3>4 DEF Goroutine
  <2>. QED
    BY <1>1, <2>1, <2>2 DEF Inv
<1>4. CASE UNCHANGED vars
  <2>1. RingInv' /\ GoroutineInv'
    BY <1>4 DEF vars, Inv, RingInv, GoroutineInv
  <2>2. UNCHANGED <<length, phase, owed, got>>
    BY <1>4 DEF vars, phase, owed
  <2>. QED
    BY <1>1, <2>1, <2>2 DEF Inv
<1>. QED
  BY <1>2, <1>3, <1>4 DEF Next

\* Subscribe gives the latest events in order, neither one that was overwritten
\* nor one twice, and the channel goes on where they end: the ring, the channels
\* and the goroutines implement CatchUpLog.
THEOREM ImplementsCatchUpLogCorrect == Spec => ImplementsCatchUpLog
<1>1. Inv /\ [Next]_vars => Inv' /\ [Log!Next]_<<length, phase, owed, got>>
  BY InvStep
<1>. QED
  BY InvInitial, <1>1, PTL DEF Spec, ImplementsCatchUpLog, Log!Spec

=============================================================================

--------------------------- MODULE DeliveryProofs ---------------------------
(***************************************************************************)
(* Proofs about Transport for a caller that leaves one batch unanswered:   *)
(* nothing is lost, and the link implements Delivery.                      *)
(***************************************************************************)
EXTENDS CopyProofs

-----------------------------------------------------------------------------
(* One batch at a time.                                                    *)

\* The one batch that is pending is the last one.
LEMMA Lone ==
  ASSUME Window = 1, TypeOK, WindowInv, NEW b \in Pending
  PROVE  b = submitted
<1>1. submitted \in Nat /\ b \in 1 .. submitted
  BY DEF TypeOK, CallerTypeOK, Pending
<1>2. b + 1 > submitted
  BY DEF WindowInv
<1> QED
  BY <1>1, <1>2

\* What a place other than acked holds is pending.
LEMMA PlacedIsPending ==
  ASSUME CopyInv, NEW r \in Places \ {"acked"}, NEW b \in Copies[r]
  PROVE  b \in Pending
<1>1. b \in 1 .. submitted /\ Copies[r] \cap Copies["acked"] = {}
  BY DEF CopyInv, OneCopy, Apart, Places
<1> QED
  BY <1>1, CopiesAt DEF Pending

\* While a batch is in flight there is none in d.send.
LEMMA NothingWaits ==
  ASSUME Window = 1, TypeOK, CopyInv, inflight # 0
  PROVE  inflight = submitted /\ sendCh = <<>>
<1>1. inflight \in Pending
  BY CopiesAt DEF CopyInv, InflightInv, AtSource, Pending
<1>2. inflight = submitted
  BY <1>1, Lone DEF CopyInv
<1>3. ASSUME sendCh # <<>> PROVE FALSE
  <2>1. sendCh \in Seq(Batches) /\ Single(sendCh)
    BY DEF TypeOK, DialerTypeOK, ChanTypeOK, CopyInv, OneCopy
  <2>2. Head(sendCh) \in Copies["send"]
    BY <1>3, <2>1, TailIds, CopiesAt
  <2>3. Head(sendCh) \in Pending
    BY <2>2, PlacedIsPending DEF Places
  <2>4. Head(sendCh) = submitted
    BY <2>3, Lone DEF CopyInv
  <2> QED
    BY <1>2, <2>2, <2>4 DEF CopyInv, InflightInv, AtSource
<1> QED
  BY <1>2, <1>3

\* The rest of a queue, and its first.
LEMMA TailCovers ==
  ASSUME NEW S, NEW s \in Seq(S), s # <<>>
  PROVE  IdsOf(s) \subseteq {Head(s)} \cup IdsOf(Tail(s))
<1>1. /\ Len(s) \in Nat /\ Len(s) > 0 /\ DOMAIN s = 1 .. Len(s)
      /\ Head(s) = s[1] /\ DOMAIN Tail(s) = 1 .. (Len(s) - 1)
      /\ \A i \in 1 .. (Len(s) - 1) : Tail(s)[i] = s[i + 1]
  OBVIOUS
<1>2. ASSUME NEW i \in DOMAIN s, i # 1 PROVE s[i] \in IdsOf(Tail(s))
  <2>1. i - 1 \in DOMAIN Tail(s) /\ Tail(s)[i - 1] = s[i]
    BY <1>1, <1>2
  <2> QED
    BY <2>1 DEF IdsOf
<1> QED
  BY <1>1, <1>2 DEF IdsOf

-----------------------------------------------------------------------------
(* No batch is lost.                                                       *)

\* What stream() last answered is of interest only until it is delivered.
HeldInv == NoBatchLost /\ (pc # "deliver" => resp = NoMsg)

\* A step that loses nothing the source holds.
LEMMA HeldFrame ==
  ASSUME NoBatchLost, submitted' = submitted, acked \subseteq acked',
         HeldAtSource \subseteq HeldAtSource' \cup acked' \cup {0}
  PROVE  NoBatchLost'
<1>1. Pending' \subseteq Pending /\ Pending' \cap acked' = {} /\ 0 \notin Pending'
  BY DEF Pending
<1> QED
  BY <1>1 DEF NoBatchLost

LEMMA NextHeld ==
  ASSUME Window = 1
  PROVE  TypeOK /\ CopyInv /\ HeldInv /\ [Next]_vars => HeldInv'
<1> SUFFICES ASSUME TypeOK, CopyInv, HeldInv, [Next]_vars PROVE HeldInv'
  OBVIOUS
<1>t. /\ sendCh \in Seq(Batches) /\ acks \in Seq(Batches) /\ nacks \in Seq(Batches)
      /\ Single(sendCh) /\ Single(acks) /\ Single(nacks)
      /\ submitted \in Nat /\ NoMsg.id = 0
  BY DEF TypeOK, DialerTypeOK, ChanTypeOK, CallerTypeOK, CopyInv, OneCopy, NoMsg
<1>h. NoBatchLost /\ (pc # "deliver" => resp = NoMsg)
  BY DEF HeldInv
<1>1. CASE Submit /\ UNCHANGED sinkVars
  <2>1. /\ sendCh' = Append(sendCh, submitted + 1) /\ submitted' = submitted + 1
        /\ submitted + 1 \in Batches /\ UNCHANGED <<acked, pc, resp>>
    BY <1>t, <1>1, ConnAssumption
    DEF Submit, SendBatch, runVars, Batches, ConnAssumption
  <2>2. submitted + 1 \in HeldAtSource'
    BY <1>t, <2>1, AppendIds DEF HeldAtSource, IdsOf
  <2>3. Pending = {}
    <3>1. \A b \in Pending : b + 1 > submitted + 1
      BY <1>1 DEF Submit, WindowOpen
    <3>2. \A b \in Pending : b \in 1 .. submitted
      BY DEF Pending
    <3> QED
      BY <1>t, <3>1, <3>2
  <2>4. Pending' \subseteq {submitted + 1}
    BY <1>t, <2>1, <2>3 DEF Pending
  <2> QED
    BY <1>h, <2>1, <2>2, <2>4 DEF HeldInv, NoBatchLost
<1>2. ASSUME NEW b \in Batches, Retry(b), UNCHANGED sinkVars PROVE HeldInv'
  <2>1. /\ redo' = redo \ {b} /\ sendCh' = Append(sendCh, b)
        /\ UNCHANGED <<submitted, acked, pc, resp, inflight, acks, nacks>>
    BY <1>2 DEF Retry, SendBatch, runVars
  <2>2. IdsOf(sendCh') = IdsOf(sendCh) \cup {b}
    BY <1>t, <2>1, AppendIds
  <2>3. HeldAtSource \subseteq HeldAtSource'
    BY <2>1, <2>2 DEF HeldAtSource, IdsOf
  <2> QED
    BY <1>h, <2>1, <2>3, HeldFrame DEF HeldInv
<1>3. CASE TakeAck /\ UNCHANGED sinkVars
  <2>1. /\ acks # <<>> /\ acks' = Tail(acks) /\ acked' = acked \cup {Head(acks)}
        /\ UNCHANGED <<submitted, redo, pc, resp, inflight, sendCh, nacks>>
    BY <1>3 DEF TakeAck, runVars
  <2>2. IdsOf(acks) \subseteq IdsOf(acks') \cup acked'
    BY <1>t, <2>1, TailCovers
  <2>3. HeldAtSource \subseteq HeldAtSource' \cup acked'
    BY <2>1, <2>2 DEF HeldAtSource, IdsOf
  <2> QED
    BY <1>h, <2>1, <2>3, HeldFrame DEF HeldInv
<1>4. CASE TakeNack /\ UNCHANGED sinkVars
  <2>1. /\ nacks # <<>> /\ nacks' = Tail(nacks) /\ redo' = redo \cup {Head(nacks)}
        /\ UNCHANGED <<submitted, acked, pc, resp, inflight, sendCh, acks>>
    BY <1>4 DEF TakeNack, runVars
  <2>2. IdsOf(nacks) \subseteq IdsOf(nacks') \cup redo'
    BY <1>t, <2>1, TailCovers
  <2>3. HeldAtSource \subseteq HeldAtSource'
    BY <2>1, <2>2 DEF HeldAtSource, IdsOf
  <2> QED
    BY <1>h, <2>1, <2>3, HeldFrame DEF HeldInv
<1>5. CASE UNCHANGED <<sendCh, acks, nacks, redo, acked, submitted, resp, inflight>>
           /\ (pc = "deliver" => pc' = "deliver")
  <2>1. HeldAtSource' = HeldAtSource
    BY <1>5 DEF HeldAtSource, IdsOf
  <2> QED
    BY <1>h, <1>5, <2>1, HeldFrame DEF HeldInv
<1>6. CASE (\/ RunStart \/ BackoffElapsed \/ BackoffCancelled \/ DialFails \/ Connect
            \/ SendHello \/ SendHelloFails \/ RecvEnter \/ RecvHelloAckFails
            \/ RecvHelloAck) /\ UNCHANGED callerVars
  <2>1. /\ UNCHANGED <<sendCh, acks, nacks, redo, acked, submitted, resp>>
        /\ inflight' \in {0, inflight} /\ ~Streaming /\ pc # "deliver"
    BY <1>6 DEF RunStart, BackoffElapsed, BackoffCancelled, DialFails, Connect, Dial,
      SendHello, SendHelloFails, RecvEnter, RecvHelloAckFails, RecvHelloAck, Lost,
      Streaming, callerVars, chanVars
  <2>2. inflight' = inflight
    BY <2>1 DEF CopyInv, InflightInv
  <2> QED
    BY <1>5, <2>1, <2>2
<1>7. CASE (StreamCancelled \/ StreamRecvErr \/ WriteBatchFails) /\ UNCHANGED callerVars
  <2>1. /\ sendCh' = Requeued /\ pc # "deliver"
        /\ UNCHANGED <<acks, nacks, redo, acked, submitted, resp>>
    BY <1>7 DEF StreamCancelled, StreamRecvErr, WriteBatchFails, callerVars
  <2>2. IdsOf(sendCh) \cup {inflight} \subseteq IdsOf(sendCh') \cup {0}
    <3>1. CASE inflight = 0
      BY <2>1, <3>1 DEF Requeued
    <3>2. CASE inflight # 0
      <4>1. sendCh = <<>>
        BY <3>2, NothingWaits
      <4>a. inflight \in Batches
        BY <3>2, ConnAssumption
        DEF TypeOK, DialerTypeOK, RunTypeOK, Batches, ConnAssumption
      <4>2. Len(sendCh) < SendCap
        BY <4>1, DialerAssumption DEF DialerAssumption
      <4>3. sendCh' = Append(sendCh, inflight)
        BY <2>1, <3>2, <4>2 DEF Requeued
      <4>4. IdsOf(Append(sendCh, inflight)) = IdsOf(sendCh) \cup {inflight}
        BY <1>t, <4>a, AppendIds
      <4> QED
        BY <4>3, <4>4
    <3> QED
      BY <3>1, <3>2
  <2>3. HeldAtSource \subseteq HeldAtSource' \cup {0}
    BY <2>1, <2>2 DEF HeldAtSource, IdsOf
  <2> QED
    BY <1>h, <2>1, <2>3, HeldFrame DEF HeldInv
<1>8. CASE StreamTake /\ UNCHANGED callerVars
  <2>1. /\ pc = "stream" /\ sendCh # <<>> /\ sendCh' = Tail(sendCh)
        /\ inflight' = Head(sendCh)
        /\ UNCHANGED <<acks, nacks, redo, acked, submitted, resp>>
    BY <1>8 DEF StreamTake, callerVars
  <2>2. inflight = 0
    BY <2>1, NothingWaits
  <2>3. IdsOf(sendCh) \subseteq IdsOf(sendCh') \cup {inflight'}
    BY <1>t, <2>1, TailCovers
  <2>4. HeldAtSource \subseteq HeldAtSource' \cup {0}
    BY <2>1, <2>2, <2>3 DEF HeldAtSource, IdsOf
  <2> QED
    BY <1>h, <2>1, <2>4, HeldFrame DEF HeldInv
<1>9. CASE StreamAnswer /\ UNCHANGED callerVars
  <2>1. /\ pc = "stream" /\ pc' = "deliver" /\ CanRecv(recvCh, cur)
        /\ resp' = Head(recvCh[cur]) /\ inflight' = 0
        /\ UNCHANGED <<sendCh, acks, nacks, redo, acked, submitted>>
    BY <1>9 DEF StreamAnswer, callerVars, chanVars
  <2>2. resp.id = 0
    BY <1>h, <1>t, <2>1
  <2>3. inflight \in {0, resp'.id}
    <3> SUFFICES ASSUME inflight # 0 PROVE inflight = resp'.id
      OBVIOUS
    <3>1. /\ Streaming /\ cur \in Conns /\ recvCh \in [Conns -> Seq(Message)]
          /\ SingleIds(recvCh[cur])
      BY <2>1 DEF Streaming, TypeOK, DialerTypeOK, RunTypeOK, ReaderTypeOK, CopyInv,
        OneCopy
    <3>2. resp'.id \in Copies["recv"]
      <4>1. Head(recvCh[cur]).id \in Ids(recvCh[cur])
        BY <2>1, <3>1, TakeIds
      <4>2. Copies["recv"] = Ids(recvCh[cur])
        BY <3>1, CopiesAt
      <4> QED  BY <2>1, <4>1, <4>2
    <3>3. resp'.id \in Pending
      BY <3>2, PlacedIsPending DEF Places
    <3>4. resp'.id = submitted
      BY <3>3, Lone DEF CopyInv
    <3> QED
      BY <3>4, NothingWaits
  <2>4. HeldAtSource \subseteq HeldAtSource' \cup {0}
    BY <2>1, <2>2, <2>3 DEF HeldAtSource, IdsOf
  <2> QED
    BY <1>h, <2>1, <2>4, HeldFrame DEF HeldInv
<1>10. CASE Deliver /\ UNCHANGED callerVars
  <2>1. /\ pc = "deliver" /\ pc' = "stream" /\ resp' = NoMsg
        /\ UNCHANGED <<inflight, sendCh, redo, acked, submitted>>
        /\ \/ acks' = Append(acks, resp.id) /\ nacks' = nacks
           \/ nacks' = Append(nacks, resp.id) /\ acks' = acks
    BY <1>10 DEF Deliver, callerVars
  <2>2. resp.id \in Batches
    BY <1>10, MessageFacts DEF Deliver, TypeOK, DialerTypeOK, RunTypeOK
  <2>3. IdsOf(acks) \cup IdsOf(nacks) \cup {resp.id} \subseteq IdsOf(acks') \cup IdsOf(nacks')
    <3>1. /\ IdsOf(Append(acks, resp.id)) = IdsOf(acks) \cup {resp.id}
          /\ IdsOf(Append(nacks, resp.id)) = IdsOf(nacks) \cup {resp.id}
      BY <1>t, <2>2, AppendIds
    <3> QED
      BY <2>1, <3>1
  <2>4. HeldAtSource \subseteq HeldAtSource'
    BY <2>1, <2>3 DEF HeldAtSource, IdsOf
  <2> QED
    BY <1>h, <2>1, <2>4, HeldFrame DEF HeldInv
<1>11. CASE WriteBatch /\ UNCHANGED callerVars
  BY <1>5, <1>11 DEF WriteBatch, callerVars, chanVars
<1>12. CASE Cancel /\ UNCHANGED callerVars
  BY <1>5, <1>12 DEF Cancel, callerVars, chanVars, runVars
<1>13. ASSUME NEW c \in Conns, ReaderStep(c), UNCHANGED callerVars PROVE HeldInv'
  BY <1>5, <1>13 DEF ReaderStep, ReaderEnter, ReaderRecv, ReaderPut, ReaderFails,
    callerVars, chanVars, runVars
<1>14. CASE UNCHANGED <<dialerVars, callerVars>>
  BY <1>5, <1>14 DEF dialerVars, callerVars, chanVars, runVars
<1> QED
  BY <1>1, <1>2, <1>3, <1>4, <1>6, <1>7, <1>8, <1>9, <1>10, <1>11, <1>12, <1>13, <1>14
  DEF Next, CallerStep, DialerStep, RunStep, Terminated, vars

\* A batch that SendBatch has accepted is acknowledged or still held at the
\* source, if the caller waits for each answer (dialer.go: stream re-queues what
\* was in flight).
THEOREM NothingLost ==
  ASSUME Window = 1
  PROVE  Spec => []NoBatchLost
<1>1. Init => HeldInv
  BY DEF Init, DialerInit, HeldInv, NoBatchLost, Pending
<1>2. TypeOK /\ CopyInv /\ HeldInv /\ [Next]_vars => HeldInv'
  BY NextHeld
<1>3. HeldInv => NoBatchLost
  BY DEF HeldInv
<1> QED
  BY <1>1, <1>2, <1>3, CopiesCounted, TypeCorrect, PTL DEF Spec

-----------------------------------------------------------------------------
(* The link implements Delivery.                                           *)

\* The sink gets nothing to see that was not submitted, on any connection: not
\* even the handler that outlives its connection.
SubmittedOn(c) == Ids(up[c]) \subseteq 0 .. submitted /\ work[c].id \in 0 .. submitted

SubmittedInv == \A c \in Conns : SubmittedOn(c)

\* The messages that a Send leaves on a connection, and those that a Recv does.
LEMMA WireIds ==
  ASSUME NEW q, q \in [Conns -> Seq(Message)], NEW c \in Conns, NEW d \in Conns
  PROVE  /\ \A m \in Message : Ids(Put(q, c, m)[d]) \subseteq Ids(q[d]) \cup {m.id}
         /\ CanRecv(q, c) => /\ Ids(Take(q, c)[d]) \subseteq Ids(q[d])
                             /\ Head(q[c]).id \in Ids(q[c])
<1> DEFINE s == q[c]
<1>1. s \in Seq(Message) /\ Len(s) \in Nat /\ DOMAIN s = 1 .. Len(s)
  OBVIOUS
<1>2. ASSUME NEW m \in Message PROVE Ids(Put(q, c, m)[d]) \subseteq Ids(q[d]) \cup {m.id}
  <2> DEFINE t == Append(s, m)
  <2>1. /\ DOMAIN t = 1 .. (Len(s) + 1) /\ t[Len(s) + 1] = m
        /\ \A i \in 1 .. Len(s) : t[i] = s[i]
    OBVIOUS
  <2>2. Put(q, c, m)[d] \in {q[d], IF c = d THEN t ELSE q[d]}
    BY DEF Put
  <2> HIDE DEF t
  <2>3. Ids(t) \subseteq Ids(s) \cup {m.id}
    BY <1>1, <2>1 DEF Ids
  <2> QED
    BY <2>2, <2>3
<1>3. ASSUME CanRecv(q, c)
      PROVE  Ids(Take(q, c)[d]) \subseteq Ids(q[d]) /\ Head(s).id \in Ids(s)
  <2> DEFINE t == Tail(s)
  <2>1. /\ s # <<>> /\ Head(s) = s[1] /\ 1 \in DOMAIN s
        /\ \A i \in DOMAIN t : i + 1 \in DOMAIN s /\ t[i] = s[i + 1]
    BY <1>3 DEF CanRecv
  <2>2. Take(q, c)[d] = IF c = d THEN t ELSE q[d]
    BY DEF Take
  <2> HIDE DEF t
  <2>3. Ids(t) \subseteq Ids(s) /\ Head(s).id \in Ids(s)
    BY <2>1 DEF Ids
  <2> QED
    BY <2>2, <2>3
<1> QED
  BY <1>2, <1>3

\* A step that brings nothing new to a connection.
LEMMA SubmittedFrame ==
  ASSUME TypeOK, NEW c \in Conns, SubmittedOn(c),
         submitted' \in {submitted, submitted + 1},
         Ids(up'[c]) \subseteq 0 .. submitted, work'[c].id \in 0 .. submitted
  PROVE  SubmittedOn(c)'
<1>1. submitted \in Nat /\ submitted' \in Nat /\ submitted <= submitted'
  BY DEF TypeOK, CallerTypeOK
<1>2. 0 .. submitted \subseteq 0 .. submitted'
  BY <1>1
<1>3. Ids(up'[c]) \subseteq 0 .. submitted' /\ work'[c].id \in 0 .. submitted'
  BY <1>2
<1> QED
  BY <1>3 DEF SubmittedOn, Ids

LEMMA NextSubmitted ==
  TypeOK /\ CopyInv /\ SubmittedInv /\ [Next]_vars => SubmittedInv'
<1> SUFFICES ASSUME TypeOK, CopyInv, SubmittedInv, [Next]_vars, NEW d \in Conns
             PROVE  SubmittedOn(d)'
  BY DEF SubmittedInv
<1>t. /\ up \in [Conns -> Seq(Message)] /\ work \in [Conns -> Message \cup {NoMsg}]
      /\ submitted \in Nat
  BY DEF TypeOK, ConnTypeOK, SinkTypeOK, CallerTypeOK
<1>d. Ids(up[d]) \subseteq 0 .. submitted /\ work[d].id \in 0 .. submitted
  BY DEF SubmittedInv, SubmittedOn
<1>o. SubmittedOn(d)
  BY DEF SubmittedInv
<1>1. CASE UNCHANGED <<up, work>> /\ submitted' \in {submitted, submitted + 1}
  BY <1>o, <1>d, <1>1, SubmittedFrame
<1>2. CASE CallerStep /\ UNCHANGED sinkVars
  BY <1>1, <1>2
  DEF CallerStep, Submit, Retry, SendBatch, TakeAck, TakeNack, sinkVars, connVars
<1>3. CASE (SendHello \/ WriteBatch) /\ UNCHANGED <<sinkVars, callerVars>>
  <2>1. PICK m \in {Msg("hello", 0), Msg("change_batch", inflight)} :
          /\ up' = Put(up, cur, m) /\ cur \in Conns
          /\ m = Msg("hello", 0) \/ inflight # 0
          /\ UNCHANGED <<work, submitted>>
    BY <1>3 DEF SendHello, WriteBatch, sinkVars, callerVars, TypeOK, DialerTypeOK,
      RunTypeOK
  <2>2. m \in Message /\ m.id \in 0 .. submitted
    <3>1. CASE m = Msg("hello", 0)
      BY <1>t, <3>1, MessageFacts
    <3>2. CASE m = Msg("change_batch", inflight) /\ inflight # 0
      <4>1. inflight \in 1 .. submitted
        BY <3>2 DEF CopyInv, InflightInv
      <4>2. inflight \in Batches
        BY <3>2, ConnAssumption
        DEF TypeOK, DialerTypeOK, RunTypeOK, Batches, ConnAssumption
      <4> QED
        BY <1>t, <3>2, <4>1, <4>2, MessageFacts
    <3> QED
      BY <2>1, <3>1, <3>2
  <2>3. Ids(up'[d]) \subseteq 0 .. submitted
    <3>1. cur \in Conns /\ m \in Message
      BY <2>1, <2>2
    <3>2. Ids(Put(up, cur, m)[d]) \subseteq Ids(up[d]) \cup {m.id}
      BY <1>t, <3>1, WireIds
    <3> QED
      BY <1>d, <2>1, <2>2, <3>2
  <2> QED
    BY <1>o, <1>d, <2>1, <2>3, SubmittedFrame
<1>4. CASE (\/ RunStart \/ BackoffElapsed \/ BackoffCancelled \/ DialFails
            \/ SendHelloFails \/ RecvEnter \/ RecvHelloAckFails \/ RecvHelloAck
            \/ StreamCancelled \/ StreamRecvErr \/ WriteBatchFails)
           /\ UNCHANGED <<sinkVars, callerVars>>
  BY <1>1, <1>4
  DEF RunStart, BackoffElapsed, BackoffCancelled, DialFails, SendHelloFails, RecvEnter,
      RecvHelloAckFails, RecvHelloAck, StreamCancelled, StreamRecvErr, WriteBatchFails,
      sinkVars, callerVars, connVars
<1>5. CASE (StreamTake \/ StreamAnswer \/ Deliver \/ Cancel)
           /\ UNCHANGED <<sinkVars, callerVars>>
  BY <1>1, <1>5 DEF StreamTake, StreamAnswer, Deliver, Cancel, sinkVars, callerVars,
    connVars
<1>6. CASE Connect /\ UNCHANGED callerVars
  BY <1>1, <1>6 DEF Connect, Dial, callerVars
<1>7. CASE ListenerLife /\ UNCHANGED <<dialerVars, callerVars>>
  BY <1>1, <1>7 DEF ListenerLife, connVars, callerVars
<1>8. ASSUME NEW c \in Conns, ReaderStep(c), UNCHANGED <<sinkVars, callerVars>>
      PROVE  SubmittedOn(d)'
  BY <1>1, <1>8 DEF ReaderStep, ReaderEnter, ReaderRecv, ReaderPut, ReaderFails,
    sinkVars, callerVars, connVars
<1>9. ASSUME NEW c \in Conns, Break(c), UNCHANGED <<dialerVars, sinkVars, callerVars>>
      PROVE  SubmittedOn(d)'
  BY <1>1, <1>9 DEF Break, sinkVars, callerVars
<1>10. ASSUME NEW c \in Conns, SinkStep(c), UNCHANGED <<dialerVars, callerVars>>
       PROVE  SubmittedOn(d)'
  <2>1. submitted' = submitted
    BY <1>10 DEF callerVars
  <2>2. Ids(up'[d]) \subseteq 0 .. submitted
    <3>1. up' = up \/ (CanRecv(up, c) /\ up' = Take(up, c))
      BY <1>10 DEF SinkStep, HandlerStep, RecvBatch, RecvBatchFails, ApplyOK,
        ApplyFails, CommitUnknown, Reply, ReplyFails, ListenerStep, RecvHello,
        RecvHelloFails, Reject, Accept, AcceptFails, connVars
    <3> QED
      BY <1>t, <1>d, <3>1, WireIds
  <2>3. work'[d].id \in 0 .. submitted
    <3>1. CASE RecvBatch(c)
      <4>1. CanRecv(up, c) /\ work' = [work EXCEPT ![c] = Head(up[c])]
        BY <3>1 DEF RecvBatch
      <4>2. Head(up[c]).id \in 0 .. submitted
        BY <1>t, <4>1, WireIds DEF SubmittedInv, SubmittedOn
      <4> QED
        BY <1>t, <1>d, <4>1, <4>2
    <3>2. CASE ApplyOK(c) \/ ApplyFails(c) \/ CommitUnknown(c)
      <4>1. PICK t \in {"ack", "nack"} : work' = [work EXCEPT ![c] = Msg(t, work[c].id)]
        BY <3>2 DEF ApplyOK, ApplyFails, CommitUnknown, AnswerWith
      <4> QED
        BY <1>t, <1>d, <4>1, MessageFacts
    <3>3. CASE Reply(c) \/ ReplyFails(c)
      <4>1. work' = [work EXCEPT ![c] = NoMsg] /\ NoMsg.id \in 0 .. submitted
        BY <1>t, <3>3 DEF Reply, ReplyFails, NoMsg
      <4> QED
        BY <1>t, <1>d, <4>1
    <3>4. CASE UNCHANGED work
      BY <1>d, <3>4
    <3> QED
      BY <1>10, <3>1, <3>2, <3>3, <3>4 DEF SinkStep, HandlerStep, RecvBatchFails
  <2> QED
    BY <1>o, <2>1, <2>2, <2>3, SubmittedFrame
<1>11. CASE UNCHANGED vars
  BY <1>1, <1>11 DEF vars, sinkVars, connVars, callerVars
<1> QED
  BY <1>2, <1>3, <1>4, <1>5, <1>6, <1>7, <1>8, <1>9, <1>10, <1>11
  DEF Next, DialerStep, RunStep, Terminated

\* What Delivery sees as cancelled.
Ends == <<ctxDone, server, published, cur, broken, srcEnd, snkEnd>>

\* A refused subscription stays refused: nothing changes what is published.
LEMMA RefusedStays ==
  ASSUME [Next]_vars
  PROVE  published' = published /\ Refused' = Refused
<1>1. published' = published
  BY DEF vars, sinkVars, Next, Terminated, DialerStep, Connect, ListenerLife,
    ServerStep, SinkStep
<1> QED
  BY <1>1 DEF Refused

\* A link that is cancelled, or abandoned, stays so: only a dial makes a new
\* connection, and Start that has returned accepts none.
LEMMA AbandonedStays ==
  ASSUME TypeOK, [Next]_vars, ctxDone \/ Abandoned
  PROVE  ctxDone' \/ Abandoned'
<1>t. /\ srcEnd \in [Conns -> EndStates] /\ snkEnd \in [Conns -> EndStates]
      /\ cur \in 0 .. (MaxBreaks + 1)
  BY DEF TypeOK, ConnTypeOK, DialerTypeOK, RunTypeOK
<1>c. cur # 0 => cur \in Conns
  BY <1>t, ConnAssumption DEF Conns, ConnAssumption
<1>m. CASE /\ server = "returned" => server' = "returned"
           /\ ctxDone => ctxDone'
           /\ cur' = cur /\ broken \subseteq broken'
           /\ srcEnd' = srcEnd \/ \E c : srcEnd' = [srcEnd EXCEPT ![c] = "closed"]
           /\ snkEnd' = snkEnd \/ \E c : snkEnd' = [snkEnd EXCEPT ![c] = "closed"]
  <2>1. CASE ctxDone
    BY <1>m, <2>1
  <2>2. CASE Abandoned /\ cur = 0
    BY <1>m, <2>2 DEF Abandoned
  <2>3. CASE Abandoned /\ cur # 0
    <3>1. Dead(cur) /\ cur \in Conns
      BY <1>c, <2>3 DEF Abandoned
    <3>2. srcEnd[cur] = "closed" => srcEnd'[cur] = "closed"
      BY <1>t, <1>m, <3>1
    <3>3. snkEnd[cur] = "closed" => snkEnd'[cur] = "closed"
      BY <1>t, <1>m, <3>1
    <3> QED
      BY <1>m, <2>3, <3>1, <3>2, <3>3 DEF Abandoned, Dead
  <2> QED
    BY <2>1, <2>2, <2>3
<1>1. CASE UNCHANGED Ends
  BY <1>1, <1>m DEF Ends
<1>2. CASE CallerStep /\ UNCHANGED sinkVars
  BY <1>1, <1>2
  DEF CallerStep, Submit, Retry, SendBatch, TakeAck, TakeNack, sinkVars, connVars,
      runVars, Ends
<1>3. CASE Cancel
  BY <1>3 DEF Cancel
<1>4. CASE (\/ RunStart \/ BackoffElapsed \/ BackoffCancelled \/ DialFails
            \/ SendHello \/ StreamTake \/ WriteBatch \/ StreamAnswer \/ Deliver)
           /\ UNCHANGED <<sinkVars, callerVars>>
  BY <1>1, <1>4
  DEF RunStart, BackoffElapsed, BackoffCancelled, DialFails, SendHello, StreamTake,
      WriteBatch, StreamAnswer, Deliver, sinkVars, connVars, Ends
<1>5. CASE (\/ SendHelloFails \/ RecvEnter \/ RecvHelloAckFails \/ RecvHelloAck
            \/ StreamCancelled \/ StreamRecvErr \/ WriteBatchFails)
           /\ UNCHANGED <<sinkVars, callerVars>>
  BY <1>m, <1>5
  DEF SendHelloFails, RecvEnter, RecvHelloAckFails, RecvHelloAck, StreamCancelled,
      StreamRecvErr, WriteBatchFails, Lost, sinkVars
<1>6. CASE Connect
  <2>1. server = "serving" /\ UNCHANGED ctxDone
    BY <1>6 DEF Connect, Dial, Upgrade
  <2> QED
    BY <2>1 DEF Abandoned
<1>7. CASE ListenerLife /\ UNCHANGED <<dialerVars, callerVars>>
  BY <1>m, <1>7
  DEF ListenerLife, ServerStep, Serve, ServerReturns, dialerVars, runVars, connVars
<1>8. ASSUME NEW c \in Conns, ReaderStep(c), UNCHANGED <<sinkVars, callerVars>>
      PROVE  ctxDone' \/ Abandoned'
  BY <1>1, <1>8 DEF ReaderStep, ReaderEnter, ReaderRecv, ReaderPut, ReaderFails,
    runVars, sinkVars, connVars, Ends
<1>9. ASSUME NEW c \in Conns, Break(c), UNCHANGED <<dialerVars, sinkVars, callerVars>>
      PROVE  ctxDone' \/ Abandoned'
  BY <1>m, <1>9 DEF Break, dialerVars, runVars, sinkVars
<1>10. ASSUME NEW c \in Conns, SinkStep(c), UNCHANGED <<dialerVars, callerVars>>
       PROVE  ctxDone' \/ Abandoned'
  <2>1. UNCHANGED <<ctxDone, server, cur>>
    BY <1>10 DEF SinkStep, dialerVars, runVars
  <2>2. /\ UNCHANGED <<broken, srcEnd>>
        /\ snkEnd' = snkEnd \/ snkEnd' = [snkEnd EXCEPT ![c] = "closed"]
    BY <1>10 DEF SinkStep, HandlerStep, RecvBatch, RecvBatchFails, ApplyOK,
      ApplyFails, CommitUnknown, Reply, ReplyFails, ListenerStep, RecvHello,
      RecvHelloFails, Reject, Accept, AcceptFails, CloseConn, connVars
  <2> QED
    BY <1>m, <2>1, <2>2
<1>11. CASE UNCHANGED vars
  BY <1>1, <1>11 DEF vars, dialerVars, runVars, sinkVars, connVars, Ends
<1> QED
  BY <1>2, <1>3, <1>4, <1>5, <1>6, <1>7, <1>8, <1>9, <1>10, <1>11
  DEF Next, DialerStep, RunStep, Terminated

\* Every step of the link is a step of Delivery or changes nothing that Delivery
\* speaks of.
LEMMA NextLink ==
  ASSUME Window = 1
  PROVE  TypeOK /\ HandshakeInv /\ AckInv /\ CopyInv /\ SubmittedInv /\ [Next]_vars
           => [Link!Next]_(Link!vars)
<1> SUFFICES ASSUME TypeOK, HandshakeInv, AckInv, CopyInv, SubmittedInv, [Next]_vars
             PROVE  [Link!Next]_(Link!vars)
  OBVIOUS
<1>t. submitted \in Nat /\ acks \in Seq(Batches) /\ work \in [Conns -> Message \cup {NoMsg}]
  BY DEF TypeOK, CallerTypeOK, DialerTypeOK, ChanTypeOK, SinkTypeOK
<1>p. acked \subseteq applied /\ acked \subseteq 1 .. submitted
  BY CopiesAt DEF AckInv, AckMeansCommitted, CopyInv, OneCopy, Apart, Places
<1>e. UNCHANGED Ends =>
        (ctxDone' \/ Abandoned' \/ Refused') = (ctxDone \/ Abandoned \/ Refused)
  BY DEF Ends, Abandoned, Dead, Refused
<1>0. CASE UNCHANGED <<submitted, applied, acked>>
  <2>1. (ctxDone \/ Abandoned \/ Refused) => (ctxDone' \/ Abandoned' \/ Refused')
    BY AbandonedStays, RefusedStays
  <2> QED
    BY <1>0, <2>1 DEF Link!Next, Link!Cancel, Link!vars
<1>1. CASE Submit /\ UNCHANGED sinkVars
  <2>1. /\ submitted < MaxBatch /\ submitted' = submitted + 1 /\ WindowOpen
        /\ UNCHANGED <<applied, acked>> /\ UNCHANGED Ends
    BY <1>1 DEF Submit, SendBatch, sinkVars, connVars, runVars, Ends
  <2>2. acked = 1 .. submitted
    <3>1. \A b \in Pending : b + 1 > submitted + 1
      BY <2>1 DEF WindowOpen
    <3>2. \A b \in Pending : b \in 1 .. submitted
      BY DEF Pending
    <3>3. Pending = {}
      BY <1>t, <3>1, <3>2
    <3> QED
      BY <1>p, <3>3 DEF Pending
  <2> QED
    BY <1>e, <2>1, <2>2 DEF Link!Next, Link!Submit
<1>2. CASE TakeAck /\ UNCHANGED sinkVars
  <2>1. /\ acks # <<>> /\ acked' = acked \cup {Head(acks)}
        /\ UNCHANGED <<submitted, applied>> /\ UNCHANGED Ends
    BY <1>2 DEF TakeAck, sinkVars, connVars, runVars, Ends
  <2>2. Head(acks) \in applied
    BY <2>1, HeadTail DEF AckInv
  <2>3. Head(acks) \in Pending
    <3>1. Head(acks) \in Copies["acks"]
      BY <1>t, <2>1, TailIds, CopiesAt DEF CopyInv, OneCopy
    <3> QED
      BY <3>1, PlacedIsPending DEF Places
  <2>4. Head(acks) = submitted
    BY <2>3, Lone DEF CopyInv
  <2>5. submitted \in applied \ acked
    BY <2>2, <2>3, <2>4 DEF Pending
  <2> QED
    BY <1>e, <2>1, <2>4, <2>5 DEF Link!Next, Link!Confirm
<1>3. ASSUME NEW c \in Conns, SinkStep(c), UNCHANGED <<dialerVars, callerVars>>
      PROVE  [Link!Next]_(Link!vars)
  <2>1. UNCHANGED <<submitted, acked>>
    BY <1>3 DEF callerVars
  <2>2. CASE ApplyOK(c) \/ CommitUnknown(c)
    <3> DEFINE b == work[c].id
    <3>1. srv[c] = "apply" /\ applied' = applied \cup {b} /\ UNCHANGED Ends
      BY <1>3, <2>2 DEF SinkStep, ApplyOK, CommitUnknown, Commit, connVars, dialerVars,
        runVars, Ends
    <3>2. b \in 1 .. submitted
      <4>1. b \in Batches /\ b \in 0 .. submitted
        BY <3>1, MessageFacts DEF HandshakeInv, HandshakeOn, SubmittedInv, SubmittedOn
      <4> QED
        BY <1>t, <4>1, ConnAssumption DEF Batches, ConnAssumption
    <3> HIDE DEF b
    <3>3. CASE b \in applied
      BY <1>0, <2>1, <3>1, <3>3
    <3>4. CASE b \notin applied
      <4>1. b = submitted
        BY <1>p, <3>2, <3>4, Lone DEF Pending, CopyInv
      <4>2. submitted \notin acked \cup applied /\ submitted > 0
        BY <1>t, <1>p, <3>2, <3>4, <4>1
      <4> QED
        BY <1>e, <2>1, <3>1, <4>1, <4>2 DEF Link!Next, Link!Commit
    <3> QED
      BY <3>3, <3>4
  <2>3. CASE ~(ApplyOK(c) \/ CommitUnknown(c))
    <3>1. UNCHANGED applied
      BY <1>3, <2>3 DEF SinkStep, HandlerStep, RecvBatch, RecvBatchFails, ApplyFails,
        Reply, ReplyFails
    <3> QED
      BY <1>0, <2>1, <3>1
  <2> QED
    BY <2>2, <2>3
<1>4. CASE (TakeNack \/ \E b \in Batches : Retry(b)) /\ UNCHANGED sinkVars
  BY <1>0, <1>4 DEF TakeNack, Retry, sinkVars
<1>5. CASE UNCHANGED <<sinkVars, callerVars>>
  BY <1>0, <1>5 DEF sinkVars, callerVars
<1>6. CASE (Connect \/ ListenerLife) /\ UNCHANGED callerVars
  BY <1>0, <1>6 DEF Connect, ListenerLife, callerVars
<1> QED
  BY <1>1, <1>2, <1>3, <1>4, <1>5, <1>6
  DEF Next, CallerStep, DialerStep, Terminated, vars

\* With one batch at a time, the dialer, the listener and the connections
\* between them are an in-order at-least-once channel, through any losses,
\* rejections and restarts of the stream (the contract in messages.go).
THEOREM LinkImplementsDelivery ==
  ASSUME Window = 1
  PROVE  Spec => LinkSpec
<1>1. Init => Link!Init
  BY DEF Init, ConnInit, DialerInit, SinkInit, ListenerInit, Link!Init, Abandoned,
    Refused
<1>2. Init => SubmittedInv
  <2> SUFFICES ASSUME Init, NEW c \in Conns PROVE SubmittedOn(c)
    BY DEF SubmittedInv
  <2>1. up[c] = <<>> /\ work[c].id = 0 /\ submitted = 0
    BY DEF Init, ConnInit, SinkInit, NoMsg
  <2> QED
    BY <2>1 DEF SubmittedOn, Ids
<1>3. TypeOK /\ CopyInv /\ SubmittedInv /\ [Next]_vars => SubmittedInv'
  BY NextSubmitted
<1>4. TypeOK /\ HandshakeInv /\ AckInv /\ CopyInv /\ SubmittedInv /\ [Next]_vars
        => [Link!Next]_(Link!vars)
  BY NextLink
<1> QED
  BY <1>1, <1>2, <1>3, <1>4, TypeCorrect, HandshakeHolds, AcksUnderWay, CopiesCounted, PTL
  DEF Spec, LinkSpec, Link!Spec

-----------------------------------------------------------------------------
(* What the sink and the caller can conclude from Delivery.                *)

\* Every batch but the last has been committed and its Ack has been taken, and
\* no batch is committed that has not been handed over.
OneInDoubt ==
  /\ submitted \in Nat
  /\ 1 .. (submitted - 1) \subseteq acked
  /\ acked \subseteq applied
  /\ applied \subseteq 1 .. submitted

LEMMA DoubtStep == OneInDoubt /\ [Link!Next]_(Link!vars) => OneInDoubt'
<1> SUFFICES ASSUME OneInDoubt, [Link!Next]_(Link!vars) PROVE OneInDoubt'
  OBVIOUS
<1> USE DEF OneInDoubt
<1>1. CASE Link!Submit
  <2>1. /\ submitted' = submitted + 1 /\ acked' = acked /\ applied' = applied
        /\ acked = 1 .. submitted
    BY <1>1 DEF Link!Submit
  <2>2. submitted' \in Nat /\ submitted' - 1 = submitted
    BY <2>1
  <2>3. \A b \in 1 .. submitted : b \in 1 .. submitted'
    BY <2>1
  <2> QED  BY <2>1, <2>2, <2>3
<1>2. CASE Link!Commit
  <2>1. submitted' = submitted /\ acked' = acked /\ applied' = applied \cup {submitted}
        /\ submitted \in 1 .. submitted
    BY <1>2 DEF Link!Commit
  <2> QED  BY <2>1
<1>3. CASE Link!Confirm
  <2>1. submitted' = submitted /\ applied' = applied /\ acked' = acked \cup {submitted}
        /\ submitted \in applied
    BY <1>3 DEF Link!Confirm
  <2> QED  BY <2>1
<1>4. CASE Link!Cancel \/ UNCHANGED Link!vars
  BY <1>4 DEF Link!Cancel, Link!vars
<1> QED  BY <1>1, <1>2, <1>3, <1>4 DEF Link!Next

\* With one batch at a time the sink has the batches in order and without a gap,
\* and only the last one can be in doubt: of all others the caller has the Ack
\* (SendBatch and Acks of dialer.go, with the handler at the other end).
THEOREM OnlyLastInDoubt ==
  ASSUME Window = 1
  PROVE  Spec => []OneInDoubt
<1>1. Link!Init => OneInDoubt
  BY DEF Link!Init, OneInDoubt
<1> QED
  BY <1>1, DoubtStep, LinkImplementsDelivery, PTL DEF LinkSpec, Link!Spec

=============================================================================

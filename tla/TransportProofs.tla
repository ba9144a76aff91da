-------------------------- MODULE TransportProofs ---------------------------
(***************************************************************************)
(* Proofs about Transport, for every value of its constants.               *)
(***************************************************************************)
EXTENDS Transport, TLAPS

-----------------------------------------------------------------------------
(* Messages and queues.                                                    *)

\* What is needed to know of the message types.
LEMMA MessageFacts ==
  /\ Frame \subseteq Message
  /\ NoMsg \notin Message
  /\ \A t \in {"hello", "accept", "reject"} : Msg(t, 0) \in Message
  /\ \A t \in {"change_batch", "ack", "nack"}, b \in Batches : Msg(t, b) \in Frame
  /\ \A m \in Frame : m.id \in Batches
  /\ \A m \in Message \cup {NoMsg} :
       m.type \in {"change_batch", "ack", "nack"} => m \in Frame
  /\ \A t, b : Msg(t, b).type = t /\ Msg(t, b).id = b
  BY ConnAssumption DEF ConnAssumption, Message, Greeting, Frame, Batches, NoMsg, Msg

\* A longer alphabet has more sequences.
LEMMA SeqMono ==
  ASSUME NEW S, NEW T, S \subseteq T, NEW s \in Seq(S)
  PROVE  s \in Seq(T)
  OBVIOUS

\* The first of a nonempty sequence, and the rest.
LEMMA HeadTail ==
  ASSUME NEW S, NEW s \in Seq(S), s # <<>>
  PROVE  /\ Head(s) \in S
         /\ Tail(s) \in Seq(S)
         /\ Len(s) \in Nat
         /\ Len(Tail(s)) = Len(s) - 1
  OBVIOUS

\* A message appended.
LEMMA AppendLen ==
  ASSUME NEW S, NEW s \in Seq(S), NEW m \in S
  PROVE  /\ Append(s, m) \in Seq(S)
         /\ Len(s) \in Nat
         /\ Len(Append(s, m)) = Len(s) + 1
  OBVIOUS

\* Conn.Send keeps the queue of every connection d within an alphabet S that
\* the message belongs to, if it is d's.
LEMMA PutSeq ==
  ASSUME NEW q, q \in [Conns -> Seq(Message)], NEW c \in Conns, NEW m \in Message,
         NEW S, NEW d \in Conns, q[d] \in Seq(S), c = d => m \in S
  PROVE  Put(q, c, m)[d] \in Seq(S)
<1>1. CASE Dead(c)
  BY <1>1 DEF Put
<1>2. CASE ~Dead(c) /\ c = d
  <2>1. Append(q[d], m) \in Seq(S)
    BY <1>2, AppendLen
  <2> QED
    BY <1>2, <2>1 DEF Put
<1>3. CASE ~Dead(c) /\ c # d
  BY <1>3 DEF Put
<1> QED
  BY <1>1, <1>2, <1>3

\* Conn.Send, all connections at once.
LEMMA PutType ==
  ASSUME NEW q, q \in [Conns -> Seq(Message)], NEW c \in Conns, NEW m \in Message
  PROVE  Put(q, c, m) \in [Conns -> Seq(Message)]
<1>1. Append(q[c], m) \in Seq(Message)
  BY AppendLen
<1> QED
  BY <1>1 DEF Put

\* Conn.Recv, the same.
LEMMA TakeSeq ==
  ASSUME NEW q, q \in [Conns -> Seq(Message)], NEW c \in Conns, CanRecv(q, c),
         NEW S, NEW d \in Conns, q[d] \in Seq(S)
  PROVE  /\ Take(q, c)[d] \in Seq(S)
         /\ c = d => Head(q[c]) \in S
<1>1. CASE c = d
  <2>1. Head(q[d]) \in S /\ Tail(q[d]) \in Seq(S)
    BY <1>1, HeadTail DEF CanRecv
  <2> QED
    BY <1>1, <2>1 DEF Take
<1>2. CASE c # d
  BY <1>2 DEF Take
<1> QED
  BY <1>1, <1>2

\* Conn.Recv, all connections at once.
LEMMA TakeType ==
  ASSUME NEW q, q \in [Conns -> Seq(Message)], NEW c \in Conns, CanRecv(q, c)
  PROVE  /\ Take(q, c) \in [Conns -> Seq(Message)]
         /\ Head(q[c]) \in Message
         /\ \A d \in Conns : Len(Take(q, c)[d]) <= Len(q[d])
<1>1. /\ Head(q[c]) \in Message /\ Tail(q[c]) \in Seq(Message)
      /\ Len(q[c]) \in Nat /\ Len(Tail(q[c])) = Len(q[c]) - 1
  BY HeadTail DEF CanRecv
<1>2. \A d \in Conns : Len(q[d]) \in Nat
  OBVIOUS
<1>3. Take(q, c) = [d \in Conns |-> IF d = c THEN Tail(q[c]) ELSE q[d]]
  BY DEF Take
<1>4. \A d \in Conns : Len(Take(q, c)[d]) <= Len(q[d])
  BY <1>1, <1>2, <1>3
<1> QED
  BY <1>1, <1>3, <1>4

-----------------------------------------------------------------------------
(* Type correctness.                                                       *)

\* requeue drops the batch rather than exceed the channel.
LEMMA RequeuedType ==
  ASSUME ChanTypeOK, RunTypeOK
  PROVE  Requeued \in Seq(Batches) /\ Len(Requeued) <= SendCap
<1> USE ConnAssumption, DialerAssumption DEF ConnAssumption, DialerAssumption
<1>1. CASE inflight # 0 /\ Len(sendCh) < SendCap
  <2>1. inflight \in Batches
    BY <1>1 DEF Batches, RunTypeOK
  <2>2. Append(sendCh, inflight) \in Seq(Batches) /\ Len(Append(sendCh, inflight)) = Len(sendCh) + 1
    BY <2>1, AppendLen DEF ChanTypeOK
  <2>3. Len(sendCh) \in Nat
    BY DEF ChanTypeOK
  <2> QED
    BY <1>1, <2>2, <2>3 DEF Requeued
<1>2. CASE ~(inflight # 0 /\ Len(sendCh) < SendCap)
  BY <1>2 DEF Requeued, ChanTypeOK
<1> QED
  BY <1>1, <1>2

\* The end of a connection is the same for all the ways to lose it.
LEMMA LostType ==
  ASSUME ConnTypeOK, Lost
  PROVE  /\ srcEnd' \in [Conns -> EndStates]
         /\ pc' \in {"backoff", "done"}
         /\ inflight' = 0
  BY DEF Lost, ConnTypeOK, EndStates

\* A step keeps the type of what it leaves alone.
LEMMA TypeFrame ==
  ASSUME TypeOK
  PROVE  /\ UNCHANGED connVars => ConnTypeOK'
         /\ UNCHANGED <<ctxDone, runVars>> => RunTypeOK'
         /\ UNCHANGED chanVars => ChanTypeOK'
         /\ UNCHANGED readerVars => ReaderTypeOK'
         /\ UNCHANGED sinkVars => SinkTypeOK'
         /\ UNCHANGED callerVars => CallerTypeOK'
<1>1. UNCHANGED connVars => ConnTypeOK'
  BY DEF TypeOK, ConnTypeOK, connVars
<1>2. UNCHANGED <<ctxDone, runVars>> => RunTypeOK'
  BY DEF TypeOK, DialerTypeOK, RunTypeOK, runVars
<1>3. UNCHANGED chanVars => ChanTypeOK'
  BY DEF TypeOK, DialerTypeOK, ChanTypeOK, chanVars
<1>4. UNCHANGED readerVars => ReaderTypeOK'
  BY DEF TypeOK, DialerTypeOK, ReaderTypeOK, readerVars
<1>5. UNCHANGED sinkVars => SinkTypeOK'
  BY DEF TypeOK, SinkTypeOK, ListenerTypeOK, sinkVars
<1>6. UNCHANGED callerVars => CallerTypeOK'
  BY DEF TypeOK, CallerTypeOK, callerVars
<1> QED
  BY <1>1, <1>2, <1>3, <1>4, <1>5, <1>6

\* A Dialer and a Listener that have just been made, with no connection.
LEMMA InitTypeOK == Init => TypeOK
<1> SUFFICES ASSUME Init PROVE TypeOK
  OBVIOUS
<1> USE ConnAssumption, DialerAssumption, SinkAssumption
    DEF ConnAssumption, DialerAssumption, SinkAssumption, Init
<1>1. ConnTypeOK
  BY DEF ConnInit, ConnTypeOK, EndStates
<1>2. RunTypeOK
  <2>1. 0 \in 0 .. MaxAttempt /\ 0 \in 0 .. (MaxBreaks + 1) /\ 0 \in 0 .. MaxBatch
    OBVIOUS
  <2> QED
    BY <2>1 DEF DialerInit, RunTypeOK, PCs
<1>3. ChanTypeOK
  BY DEF DialerInit, ChanTypeOK
<1>4. ReaderTypeOK
  BY DEF DialerInit, ReaderTypeOK, ReaderStates
<1>5. SinkTypeOK
  BY DEF SinkInit, SinkTypeOK, ListenerInit, ListenerTypeOK, ServerStates, Conns, Batches
<1>6. CallerTypeOK
  BY DEF CallerTypeOK, Batches
<1> QED
  BY <1>1, <1>2, <1>3, <1>4, <1>5, <1>6 DEF TypeOK, DialerTypeOK

\* Every step keeps the types; what a handler works on is a frame by the
\* handshake invariant.
LEMMA NextTypeOK == TypeOK /\ HandshakeInv /\ [Next]_vars => TypeOK'
<1> SUFFICES ASSUME TypeOK, HandshakeInv, [Next]_vars PROVE TypeOK'
  OBVIOUS
<1> USE ConnAssumption, DialerAssumption, SinkAssumption
    DEF ConnAssumption, DialerAssumption, SinkAssumption, TypeOK, DialerTypeOK
<1>1. CASE Submit /\ UNCHANGED sinkVars
  <2>1. submitted + 1 \in Batches /\ submitted + 1 \in 0 .. MaxBatch
    BY <1>1 DEF Submit, CallerTypeOK, Batches
  <2>2. ChanTypeOK'
    BY <1>1, <2>1, AppendLen DEF Submit, SendBatch, ChanTypeOK
  <2>3. CallerTypeOK'
    BY <1>1, <2>1 DEF Submit, CallerTypeOK
  <2> QED
    BY <1>1, <2>2, <2>3, TypeFrame
    DEF Submit, SendBatch, sinkVars, connVars, runVars, readerVars
<1>2. ASSUME NEW b \in Batches, Retry(b), UNCHANGED sinkVars PROVE TypeOK'
  <2>1. ChanTypeOK'
    BY <1>2, AppendLen DEF Retry, SendBatch, ChanTypeOK
  <2>2. CallerTypeOK'
    BY <1>2 DEF Retry, CallerTypeOK
  <2> QED
    BY <1>2, <2>1, <2>2, TypeFrame
    DEF Retry, SendBatch, sinkVars, connVars, runVars, readerVars
<1>3. CASE TakeAck /\ UNCHANGED sinkVars
  <2>1. ChanTypeOK'
    BY <1>3, HeadTail DEF TakeAck, ChanTypeOK
  <2>2. CallerTypeOK'
    BY <1>3, HeadTail DEF TakeAck, ChanTypeOK, CallerTypeOK
  <2> QED
    BY <1>3, <2>1, <2>2, TypeFrame
    DEF TakeAck, sinkVars, connVars, runVars, readerVars
<1>4. CASE TakeNack /\ UNCHANGED sinkVars
  <2>1. ChanTypeOK'
    BY <1>4, HeadTail DEF TakeNack, ChanTypeOK
  <2>2. CallerTypeOK'
    BY <1>4, HeadTail DEF TakeNack, ChanTypeOK, CallerTypeOK
  <2> QED
    BY <1>4, <2>1, <2>2, TypeFrame
    DEF TakeNack, sinkVars, connVars, runVars, readerVars
<1>5. CASE Cancel /\ UNCHANGED <<sinkVars, callerVars>>
  <2>1. RunTypeOK'
    BY <1>5 DEF Cancel, RunTypeOK, PCs, runVars
  <2> QED
    BY <1>5, <2>1, TypeFrame DEF Cancel, sinkVars, connVars, dialerVars,
      runVars, chanVars, readerVars, callerVars
<1>6. CASE RunStart /\ UNCHANGED <<sinkVars, callerVars>>
  <2>1. RunTypeOK'
    BY <1>6 DEF RunStart, RunTypeOK, PCs, NextAttempt
  <2> QED
    BY <1>6, <2>1, TypeFrame DEF RunStart, sinkVars, connVars, dialerVars,
      runVars, chanVars, readerVars, callerVars
<1>7. CASE BackoffElapsed /\ UNCHANGED <<sinkVars, callerVars>>
  <2>1. RunTypeOK'
    BY <1>7 DEF BackoffElapsed, RunTypeOK, PCs, NextAttempt
  <2> QED
    BY <1>7, <2>1, TypeFrame DEF BackoffElapsed, sinkVars, connVars,
      dialerVars, runVars, chanVars, readerVars, callerVars
<1>8. CASE BackoffCancelled /\ UNCHANGED <<sinkVars, callerVars>>
  <2>1. RunTypeOK'
    BY <1>8 DEF BackoffCancelled, RunTypeOK, PCs
  <2> QED
    BY <1>8, <2>1, TypeFrame DEF BackoffCancelled, sinkVars, connVars,
      dialerVars, runVars, chanVars, readerVars, callerVars
<1>9. CASE DialFails /\ UNCHANGED <<sinkVars, callerVars>>
  <2>1. RunTypeOK'
    BY <1>9 DEF DialFails, RunTypeOK, PCs
  <2> QED
    BY <1>9, <2>1, TypeFrame DEF DialFails, sinkVars, connVars, dialerVars,
      runVars, chanVars, readerVars, callerVars
<1>10. CASE Connect /\ UNCHANGED callerVars
  <2>1. ConnTypeOK'
    BY <1>10 DEF Connect, Dial, Upgrade, ConnTypeOK, EndStates, Conns
  <2>2. RunTypeOK'
    BY <1>10, <2>1 DEF Connect, Dial, Upgrade, RunTypeOK, PCs, Conns
  <2>3. SinkTypeOK'
    BY <1>10, <2>1, <2>2 DEF Connect, Dial, Upgrade, SinkTypeOK,
      ListenerTypeOK, ServerStates
  <2> QED
    BY <1>10, <2>1, <2>2, <2>3, TypeFrame DEF Connect, Dial, Upgrade,
      sinkVars, connVars, dialerVars, runVars, chanVars, readerVars,
      callerVars
<1>11. CASE SendHello /\ UNCHANGED <<sinkVars, callerVars>>
  <2>1. ConnTypeOK'
    BY <1>11, PutType, MessageFacts DEF SendHello, ConnTypeOK, EndStates,
      RunTypeOK
  <2>2. RunTypeOK'
    BY <1>11, <2>1 DEF SendHello, RunTypeOK, PCs
  <2> QED
    BY <1>11, <2>1, <2>2, TypeFrame DEF SendHello, sinkVars, connVars,
      dialerVars, runVars, chanVars, readerVars, callerVars
<1>12. CASE SendHelloFails /\ UNCHANGED <<sinkVars, callerVars>>
  <2>1. ConnTypeOK'
    BY <1>12, LostType DEF SendHelloFails, ConnTypeOK, EndStates
  <2>2. RunTypeOK'
    BY <1>12, <2>1, LostType DEF SendHelloFails, RunTypeOK, PCs
  <2> QED
    BY <1>12, <2>1, <2>2, TypeFrame DEF SendHelloFails, sinkVars, connVars,
      dialerVars, runVars, chanVars, readerVars, callerVars
<1>13. CASE RecvEnter /\ UNCHANGED <<sinkVars, callerVars>>
  <2>1. ConnTypeOK'
    BY <1>13, LostType DEF RecvEnter, ConnTypeOK, EndStates
  <2>2. RunTypeOK'
    BY <1>13, <2>1, LostType DEF RecvEnter, RunTypeOK, PCs
  <2> QED
    BY <1>13, <2>1, <2>2, TypeFrame DEF RecvEnter, sinkVars, connVars,
      dialerVars, runVars, chanVars, readerVars, callerVars
<1>14. CASE RecvHelloAck /\ UNCHANGED <<sinkVars, callerVars>>
  <2>1. ConnTypeOK'
    BY <1>14, LostType, TakeType DEF RecvHelloAck, ConnTypeOK, EndStates,
      RunTypeOK
  <2>2. RunTypeOK'
    BY <1>14, <2>1, LostType DEF RecvHelloAck, RunTypeOK, PCs
  <2>3. ReaderTypeOK'
    BY <1>14, <2>1, <2>2 DEF RecvHelloAck, ReaderTypeOK, ReaderStates,
      RunTypeOK
  <2> QED
    BY <1>14, <2>1, <2>2, <2>3, TypeFrame DEF RecvHelloAck, sinkVars,
      connVars, dialerVars, runVars, chanVars, readerVars, callerVars
<1>15. CASE RecvHelloAckFails /\ UNCHANGED <<sinkVars, callerVars>>
  <2>1. ConnTypeOK'
    BY <1>15, LostType DEF RecvHelloAckFails, ConnTypeOK, EndStates
  <2>2. RunTypeOK'
    BY <1>15, <2>1, LostType DEF RecvHelloAckFails, RunTypeOK, PCs
  <2> QED
    BY <1>15, <2>1, <2>2, TypeFrame DEF RecvHelloAckFails, sinkVars,
      connVars, dialerVars, runVars, chanVars, readerVars, callerVars
<1>16. CASE StreamCancelled /\ UNCHANGED <<sinkVars, callerVars>>
  <2>1. ConnTypeOK'
    BY <1>16, LostType DEF StreamCancelled, ConnTypeOK, EndStates
  <2>2. RunTypeOK'
    BY <1>16, <2>1, LostType DEF StreamCancelled, RunTypeOK, PCs
  <2>3. ChanTypeOK'
    BY <1>16, <2>1, <2>2, RequeuedType DEF StreamCancelled, ChanTypeOK
  <2> QED
    BY <1>16, <2>1, <2>2, <2>3, TypeFrame DEF StreamCancelled, sinkVars,
      connVars, dialerVars, runVars, chanVars, readerVars, callerVars
<1>17. CASE StreamRecvErr /\ UNCHANGED <<sinkVars, callerVars>>
  <2>1. ConnTypeOK'
    BY <1>17, LostType DEF StreamRecvErr, ConnTypeOK, EndStates
  <2>2. RunTypeOK'
    BY <1>17, <2>1, LostType DEF StreamRecvErr, RunTypeOK, PCs
  <2>3. ChanTypeOK'
    BY <1>17, <2>1, <2>2, RequeuedType DEF StreamRecvErr, ChanTypeOK
  <2>4. ReaderTypeOK'
    BY <1>17, <2>1, <2>2, <2>3 DEF StreamRecvErr, ReaderTypeOK, ReaderStates
  <2> QED
    BY <1>17, <2>1, <2>2, <2>3, <2>4, TypeFrame DEF StreamRecvErr, sinkVars,
      connVars, dialerVars, runVars, chanVars, readerVars, callerVars
<1>18. CASE StreamAnswer /\ UNCHANGED <<sinkVars, callerVars>>
  <2>1. cur \in Conns /\ recvCh \in [Conns -> Seq(Message)] /\ CanRecv(recvCh, cur)
    BY <1>18 DEF StreamAnswer, RunTypeOK, ReaderTypeOK
  <2>2. Head(recvCh[cur]) \in Message
    BY <2>1, TakeType
  <2>3. RunTypeOK'
    BY <1>18, <2>1, <2>2 DEF StreamAnswer, RunTypeOK, PCs
  <2>4. ReaderTypeOK'
    BY <1>18, <2>1, TakeType DEF StreamAnswer, ReaderTypeOK, ReaderStates, RunTypeOK
  <2> QED
    BY <1>18, <2>3, <2>4, TypeFrame
    DEF StreamAnswer, sinkVars, connVars, chanVars, callerVars
<1>19. CASE Deliver /\ UNCHANGED <<sinkVars, callerVars>>
  <2>1. resp.id \in Batches
    BY <1>19, MessageFacts DEF Deliver, RunTypeOK
  <2>2. RunTypeOK'
    BY <1>19 DEF Deliver, RunTypeOK, PCs
  <2>3. ChanTypeOK'
    <3>1. CASE Len(acks) < RespCap /\ acks' = Append(acks, resp.id) /\ UNCHANGED <<nacks, sendCh>>
      BY <2>1, <3>1, AppendLen DEF ChanTypeOK
    <3>2. CASE Len(nacks) < RespCap /\ nacks' = Append(nacks, resp.id) /\ UNCHANGED <<acks, sendCh>>
      BY <2>1, <3>2, AppendLen DEF ChanTypeOK
    <3> QED
      BY <1>19, <3>1, <3>2 DEF Deliver
  <2> QED
    BY <1>19, <2>2, <2>3, TypeFrame
    DEF Deliver, sinkVars, connVars, readerVars, callerVars
<1>20. CASE StreamTake /\ UNCHANGED <<sinkVars, callerVars>>
  <2>1. RunTypeOK'
    BY <1>20, HeadTail DEF StreamTake, RunTypeOK, PCs, ChanTypeOK, Batches
  <2>2. ChanTypeOK'
    BY <1>20, <2>1, HeadTail DEF StreamTake, ChanTypeOK
  <2> QED
    BY <1>20, <2>1, <2>2, TypeFrame DEF StreamTake, sinkVars, connVars,
      dialerVars, runVars, chanVars, readerVars, callerVars
<1>21. CASE WriteBatch /\ UNCHANGED <<sinkVars, callerVars>>
  <2>1. ConnTypeOK'
    BY <1>21, PutType, MessageFacts DEF WriteBatch, ConnTypeOK, EndStates,
      RunTypeOK, Batches
  <2>2. RunTypeOK'
    BY <1>21, <2>1 DEF WriteBatch, RunTypeOK, PCs
  <2> QED
    BY <1>21, <2>1, <2>2, TypeFrame DEF WriteBatch, sinkVars, connVars,
      dialerVars, runVars, chanVars, readerVars, callerVars
<1>22. CASE WriteBatchFails /\ UNCHANGED <<sinkVars, callerVars>>
  <2>1. ConnTypeOK'
    BY <1>22, LostType DEF WriteBatchFails, ConnTypeOK, EndStates
  <2>2. RunTypeOK'
    BY <1>22, <2>1, LostType DEF WriteBatchFails, RunTypeOK, PCs
  <2>3. ChanTypeOK'
    BY <1>22, <2>1, <2>2, RequeuedType DEF WriteBatchFails, ChanTypeOK
  <2> QED
    BY <1>22, <2>1, <2>2, <2>3, TypeFrame DEF WriteBatchFails, sinkVars,
      connVars, dialerVars, runVars, chanVars, readerVars, callerVars
<1>23. ASSUME NEW c \in Conns, ReaderEnter(c), UNCHANGED <<sinkVars, callerVars>> PROVE TypeOK'
  <2>1. ReaderTypeOK'
    BY <1>23 DEF ReaderEnter, ReaderTypeOK, ReaderStates
  <2> QED
    BY <1>23, <2>1, TypeFrame DEF ReaderEnter, sinkVars, connVars,
      dialerVars, runVars, chanVars, readerVars, callerVars
<1>24. ASSUME NEW c \in Conns, ReaderRecv(c), UNCHANGED <<sinkVars, callerVars>> PROVE TypeOK'
  <2>1. ConnTypeOK'
    BY <1>24, TakeType DEF ReaderRecv, ConnTypeOK, EndStates
  <2>2. ReaderTypeOK'
    BY <1>24, <2>1, TakeType DEF ReaderRecv, ReaderTypeOK, ReaderStates,
      ConnTypeOK
  <2> QED
    BY <1>24, <2>1, <2>2, TypeFrame DEF ReaderRecv, sinkVars, connVars,
      dialerVars, runVars, chanVars, readerVars, callerVars
<1>25. ASSUME NEW c \in Conns, ReaderPut(c), UNCHANGED <<sinkVars, callerVars>> PROVE TypeOK'
  <2>1. hand[c] \in Message
    BY <1>25 DEF ReaderPut, ReaderTypeOK
  <2>2. /\ Append(recvCh[c], hand[c]) \in Seq(Message)
        /\ Len(Append(recvCh[c], hand[c])) <= RecvCap
    BY <1>25, <2>1, AppendLen DEF ReaderPut, ReaderTypeOK
  <2>3. ReaderTypeOK'
    BY <1>25, <2>2 DEF ReaderPut, ReaderTypeOK, ReaderStates
  <2> QED
    BY <1>25, <2>3, TypeFrame DEF ReaderPut
<1>26. ASSUME NEW c \in Conns, ReaderFails(c), UNCHANGED <<sinkVars, callerVars>> PROVE TypeOK'
  <2>1. ReaderTypeOK'
    BY <1>26 DEF ReaderFails, ReaderTypeOK, ReaderStates
  <2> QED
    BY <1>26, <2>1, TypeFrame DEF ReaderFails, sinkVars, connVars,
      dialerVars, runVars, chanVars, readerVars, callerVars
<1>27. ASSUME NEW c \in Conns, RecvBatch(c), UNCHANGED <<published, server, dialerVars, callerVars>> PROVE TypeOK'
  <2>1. ConnTypeOK'
    BY <1>27, TakeType DEF RecvBatch, ConnTypeOK, EndStates
  <2>2. SinkTypeOK'
    BY <1>27, <2>1, TakeType DEF RecvBatch, SinkTypeOK, ListenerTypeOK,
      ServerStates, ConnTypeOK
  <2> QED
    BY <1>27, <2>1, <2>2, TypeFrame DEF RecvBatch, sinkVars, connVars,
      dialerVars, runVars, chanVars, readerVars, callerVars
<1>28. ASSUME NEW c \in Conns, RecvBatchFails(c), UNCHANGED <<published, server, dialerVars, callerVars>> PROVE TypeOK'
  <2>1. SinkTypeOK'
    BY <1>28 DEF RecvBatchFails, SinkTypeOK, ListenerTypeOK, ServerStates
  <2> QED
    BY <1>28, <2>1, TypeFrame DEF RecvBatchFails, sinkVars, connVars,
      dialerVars, runVars, chanVars, readerVars, callerVars
<1>29. ASSUME NEW c \in Conns, ApplyOK(c), UNCHANGED <<published, server, dialerVars, callerVars>> PROVE TypeOK'
  <2>1. work[c].id \in Batches
    BY <1>29, MessageFacts DEF ApplyOK, HandshakeInv, HandshakeOn
  <2>2. Msg("ack", work[c].id) \in Message /\ Msg("nack", work[c].id) \in Message
    BY <2>1, MessageFacts
  <2>3. srv' \in [Conns -> ServerStates] /\ work' \in [Conns -> Message \cup {NoMsg}]
    BY <1>29, <2>2
    DEF ApplyOK, AnswerWith, SinkTypeOK, ListenerTypeOK, ServerStates
  <2>4. applied' \subseteq applied \cup {work[c].id} /\ row' \in {row, work[c].id}
    BY <1>29 DEF ApplyOK, Commit
  <2>5. faults' \in 0 .. MaxFaults
    BY <1>29 DEF ApplyOK, SinkTypeOK
  <2>6. applied' \subseteq Batches /\ row' \in 0 .. MaxBatch
    BY <2>1, <2>4 DEF SinkTypeOK, Batches
  <2> QED
    BY <1>29, <2>3, <2>5, <2>6, TypeFrame DEF ApplyOK, SinkTypeOK, ListenerTypeOK, dialerVars
<1>30. ASSUME NEW c \in Conns, ApplyFails(c), UNCHANGED <<published, server, dialerVars, callerVars>> PROVE TypeOK'
  <2>1. work[c].id \in Batches
    BY <1>30, MessageFacts DEF ApplyFails, HandshakeInv, HandshakeOn
  <2>2. Msg("ack", work[c].id) \in Message /\ Msg("nack", work[c].id) \in Message
    BY <2>1, MessageFacts
  <2>3. srv' \in [Conns -> ServerStates] /\ work' \in [Conns -> Message \cup {NoMsg}]
    BY <1>30, <2>2
    DEF ApplyFails, AnswerWith, SinkTypeOK, ListenerTypeOK, ServerStates
  <2>4. applied' \subseteq applied \cup {work[c].id} /\ row' \in {row, work[c].id}
    BY <1>30 DEF ApplyFails, Commit
  <2>5. faults' \in 0 .. MaxFaults
    BY <1>30 DEF ApplyFails, SinkTypeOK
  <2>6. applied' \subseteq Batches /\ row' \in 0 .. MaxBatch
    BY <2>1, <2>4 DEF SinkTypeOK, Batches
  <2> QED
    BY <1>30, <2>3, <2>5, <2>6, TypeFrame DEF ApplyFails, SinkTypeOK, ListenerTypeOK, dialerVars
<1>31. ASSUME NEW c \in Conns, CommitUnknown(c), UNCHANGED <<published, server, dialerVars, callerVars>> PROVE TypeOK'
  <2>1. work[c].id \in Batches
    BY <1>31, MessageFacts DEF CommitUnknown, HandshakeInv, HandshakeOn
  <2>2. Msg("ack", work[c].id) \in Message /\ Msg("nack", work[c].id) \in Message
    BY <2>1, MessageFacts
  <2>3. srv' \in [Conns -> ServerStates] /\ work' \in [Conns -> Message \cup {NoMsg}]
    BY <1>31, <2>2
    DEF CommitUnknown, AnswerWith, SinkTypeOK, ListenerTypeOK, ServerStates
  <2>4. applied' \subseteq applied \cup {work[c].id} /\ row' \in {row, work[c].id}
    BY <1>31 DEF CommitUnknown, Commit
  <2>5. faults' \in 0 .. MaxFaults
    BY <1>31 DEF CommitUnknown, SinkTypeOK
  <2>6. applied' \subseteq Batches /\ row' \in 0 .. MaxBatch
    BY <2>1, <2>4 DEF SinkTypeOK, Batches
  <2> QED
    BY <1>31, <2>3, <2>5, <2>6, TypeFrame DEF CommitUnknown, SinkTypeOK, ListenerTypeOK, dialerVars
<1>32. ASSUME NEW c \in Conns, Reply(c), UNCHANGED <<published, server, dialerVars, callerVars>> PROVE TypeOK'
  <2>1. work[c] \in Message
    BY <1>32, MessageFacts DEF Reply, HandshakeInv, HandshakeOn
  <2>2. ConnTypeOK'
    BY <1>32, <2>1, PutType DEF Reply, ConnTypeOK
  <2>3. SinkTypeOK'
    BY <1>32 DEF Reply, SinkTypeOK, ListenerTypeOK, ServerStates
  <2> QED
    BY <1>32, <2>2, <2>3, TypeFrame DEF Reply, dialerVars
<1>33. ASSUME NEW c \in Conns, ReplyFails(c), UNCHANGED <<published, server, dialerVars, callerVars>> PROVE TypeOK'
  <2>1. SinkTypeOK'
    BY <1>33 DEF ReplyFails, SinkTypeOK, ListenerTypeOK, ServerStates
  <2> QED
    BY <1>33, <2>1, TypeFrame DEF ReplyFails, sinkVars, connVars, dialerVars,
      runVars, chanVars, readerVars, callerVars
<1>34. ASSUME NEW c \in Conns, RecvHello(c),
             UNCHANGED <<published, server, work, applied, row, faults,
                         dialerVars, callerVars>>
      PROVE  TypeOK'
  <2>1. ConnTypeOK'
    BY <1>34, TakeType DEF RecvHello, ConnTypeOK, EndStates
  <2>2. SinkTypeOK'
    BY <1>34, <2>1 DEF RecvHello, SinkTypeOK, ListenerTypeOK, ServerStates
  <2> QED
    BY <1>34, <2>1, <2>2, TypeFrame DEF RecvHello, sinkVars, connVars,
      dialerVars, runVars, chanVars, readerVars, callerVars
<1>35. ASSUME NEW c \in Conns, RecvHelloFails(c),
             UNCHANGED <<published, server, work, applied, row, faults,
                         dialerVars, callerVars>>
      PROVE  TypeOK'
  <2>1. ConnTypeOK'
    BY <1>35 DEF RecvHelloFails, ConnTypeOK, EndStates, CloseConn
  <2>2. SinkTypeOK'
    BY <1>35, <2>1 DEF RecvHelloFails, SinkTypeOK, ListenerTypeOK,
      ServerStates, CloseConn
  <2> QED
    BY <1>35, <2>1, <2>2, TypeFrame DEF RecvHelloFails, sinkVars, connVars,
      dialerVars, runVars, chanVars, readerVars, callerVars
<1>36. ASSUME NEW c \in Conns, Reject(c),
             UNCHANGED <<published, server, work, applied, row, faults,
                         dialerVars, callerVars>>
      PROVE  TypeOK'
  <2>1. ConnTypeOK'
    BY <1>36, PutType, MessageFacts DEF Reject, ConnTypeOK, EndStates,
      CloseConn
  <2>2. SinkTypeOK'
    BY <1>36, <2>1 DEF Reject, SinkTypeOK, ListenerTypeOK, ServerStates,
      CloseConn
  <2> QED
    BY <1>36, <2>1, <2>2, TypeFrame DEF Reject, sinkVars, connVars,
      dialerVars, runVars, chanVars, readerVars, callerVars
<1>37. ASSUME NEW c \in Conns, Accept(c),
             UNCHANGED <<published, server, work, applied, row, faults,
                         dialerVars, callerVars>>
      PROVE  TypeOK'
  <2>1. ConnTypeOK'
    BY <1>37, PutType, MessageFacts DEF Accept, ConnTypeOK, EndStates
  <2>2. SinkTypeOK'
    BY <1>37, <2>1 DEF Accept, SinkTypeOK, ListenerTypeOK, ServerStates
  <2> QED
    BY <1>37, <2>1, <2>2, TypeFrame DEF Accept, sinkVars, connVars,
      dialerVars, runVars, chanVars, readerVars, callerVars
<1>38. ASSUME NEW c \in Conns, AcceptFails(c),
             UNCHANGED <<published, server, work, applied, row, faults,
                         dialerVars, callerVars>>
      PROVE  TypeOK'
  <2>1. ConnTypeOK'
    BY <1>38 DEF AcceptFails, ConnTypeOK, EndStates, CloseConn
  <2>2. SinkTypeOK'
    BY <1>38, <2>1 DEF AcceptFails, SinkTypeOK, ListenerTypeOK, ServerStates,
      CloseConn
  <2> QED
    BY <1>38, <2>1, <2>2, TypeFrame DEF AcceptFails, sinkVars, connVars,
      dialerVars, runVars, chanVars, readerVars, callerVars
<1>39. ASSUME NEW c \in Conns, Break(c), UNCHANGED <<dialerVars, sinkVars, callerVars>>
      PROVE  TypeOK'
  <2>1. ConnTypeOK'
    BY <1>39 DEF Break, ConnTypeOK, EndStates
  <2> QED
    BY <1>39, <2>1, TypeFrame DEF Break, sinkVars, connVars, dialerVars,
      runVars, chanVars, readerVars, callerVars
<1>40. CASE ListenerLife /\ UNCHANGED <<dialerVars, callerVars>>
  <2>1. SinkTypeOK'
    BY <1>40 DEF ListenerLife, ServerStep, Serve, ServerReturns, SinkTypeOK,
      ListenerTypeOK
  <2> QED
    BY <1>40, <2>1, TypeFrame DEF ListenerLife, dialerVars
<1>41. CASE UNCHANGED vars
  BY <1>41, TypeFrame DEF vars, sinkVars, connVars, dialerVars, runVars, chanVars, readerVars, callerVars
<1> QED
  BY <1>1, <1>2, <1>3, <1>4, <1>5, <1>6, <1>7, <1>8, <1>9, <1>10, <1>11,
    <1>12, <1>13, <1>14, <1>15, <1>16, <1>17, <1>18, <1>19, <1>20, <1>21,
    <1>22, <1>23, <1>24, <1>25, <1>26, <1>27, <1>28, <1>29, <1>30, <1>31,
    <1>32, <1>33, <1>34, <1>35, <1>36, <1>37, <1>38, <1>39, <1>40,
    <1>41
  DEF Next, CallerStep, DialerStep, RunStep, ReaderStep, SinkStep, HandlerStep,
      ListenerStep, Terminated

-----------------------------------------------------------------------------
(* The handshake.                                                          *)

\* A step that does not touch a connection keeps the invariant of it.
LEMMA HandshakeElsewhere ==
  ASSUME NEW d \in Conns, HandshakeOn(d),
         up'[d] = up[d], down'[d] = down[d], srv'[d] = srv[d],
         snkEnd'[d] = snkEnd[d], work'[d] = work[d]
  PROVE  HandshakeOn(d)'
  BY DEF HandshakeOn, Serving, BatchFrames, Refusals

\* A step of Run that stays within a phase.
LEMMA HandshakeFrame ==
  ASSUME HandshakeInv, UNCHANGED <<up, down, srv, snkEnd, work, cur>>,
         \/ pc' = pc
         \/ pc' \notin {"hello", "stream", "write", "deliver"}
         \/ {pc, pc'} \subseteq {"stream", "write", "deliver"}
  PROVE  HandshakeInv'
<1>1. \A c \in Conns : HandshakeOn(c)'
  BY HandshakeElsewhere DEF HandshakeInv
<1>2. pc' = "hello" => srv'[cur'] \in {"hello", "closed"} /\ up'[cur'] = <<>>
  BY DEF HandshakeInv
<1>3. StreamsOnlyToHandler'
  BY DEF HandshakeInv, StreamsOnlyToHandler, Serving
<1> QED
  BY <1>1, <1>2, <1>3 DEF HandshakeInv

\* A step of the sink on connection c: what is left is to look at c.
LEMMA HandshakeSinkStep ==
  ASSUME TypeOK, HandshakeInv, NEW c \in Conns,
         UNCHANGED dialerVars, UNCHANGED srcEnd,
         \A d \in Conns \ {c} :
           /\ up'[d] = up[d] /\ down'[d] = down[d] /\ srv'[d] = srv[d]
           /\ snkEnd'[d] = snkEnd[d] /\ work'[d] = work[d],
         HandshakeOn(c)',
         c \in Serving => c \in Serving',
         srv[c] \in {"hello", "closed"} /\ up[c] = <<>>
           => srv'[c] \in {"hello", "closed"} /\ up'[c] = <<>>
  PROVE  HandshakeInv'
<1>1. \A d \in Conns : HandshakeOn(d)'
  BY HandshakeElsewhere DEF HandshakeInv
<1>2. pc' = pc /\ cur' = cur
  BY DEF dialerVars, runVars
<1>3. pc \in {"hello", "stream", "write", "deliver"} => cur \in Conns
  BY DEF TypeOK, DialerTypeOK, RunTypeOK
<1>4. pc' = "hello" => srv'[cur'] \in {"hello", "closed"} /\ up'[cur'] = <<>>
  <2> SUFFICES ASSUME pc = "hello"
               PROVE  srv'[cur] \in {"hello", "closed"} /\ up'[cur] = <<>>
    BY <1>2
  <2>1. CASE cur = c
    BY <2>1 DEF HandshakeInv
  <2>2. CASE cur # c
    BY <1>3, <2>2 DEF HandshakeInv
  <2> QED
    BY <2>1, <2>2
<1>5. StreamsOnlyToHandler'
  <2> SUFFICES ASSUME pc \in {"stream", "write", "deliver"} PROVE cur \in Serving'
    BY <1>2 DEF StreamsOnlyToHandler
  <2>1. cur \in Serving
    BY DEF HandshakeInv, StreamsOnlyToHandler
  <2>2. CASE cur = c
    BY <2>1, <2>2
  <2>3. CASE cur # c
    BY <1>3, <2>1, <2>3 DEF Serving
  <2> QED
    BY <2>2, <2>3
<1> QED
  BY <1>1, <1>4, <1>5 DEF HandshakeInv

\* Before the first dial there is no handshake to disagree about.
LEMMA InitHandshake == Init => HandshakeInv
<1> SUFFICES ASSUME Init PROVE HandshakeInv
  OBVIOUS
<1>1. ASSUME NEW c \in Conns PROVE HandshakeOn(c)
  <2>1. up[c] = <<>> /\ down[c] = <<>> /\ srv[c] = "none"
    BY DEF Init, ConnInit, SinkInit, ListenerInit
  <2> QED
    BY <2>1 DEF HandshakeOn, Serving
<1>2. pc = "start"
  BY DEF Init, DialerInit
<1> QED
  BY <1>1, <1>2 DEF HandshakeInv, StreamsOnlyToHandler

\* The Hello is the first frame of a connection (runOnce), the listener accepts
\* before it calls its handler (handleWS), and an answer that is not an
\* acceptance never starts stream().
LEMMA NextHandshake == TypeOK /\ HandshakeInv /\ [Next]_vars => HandshakeInv'
<1> SUFFICES ASSUME TypeOK, HandshakeInv, [Next]_vars PROVE HandshakeInv'
  OBVIOUS
<1>t. /\ up \in [Conns -> Seq(Message)] /\ down \in [Conns -> Seq(Message)]
      /\ snkEnd \in [Conns -> EndStates] /\ srv \in [Conns -> ServerStates]
      /\ work \in [Conns -> Message \cup {NoMsg}]
  BY DEF TypeOK, ConnTypeOK, SinkTypeOK, ListenerTypeOK
<1>c. pc \notin {"start", "backoff", "dial", "done"} => cur \in Conns
  BY DEF TypeOK, DialerTypeOK, RunTypeOK
<1>h. \A d \in Conns : HandshakeOn(d)
  BY DEF HandshakeInv
<1> DEFINE Keeps == UNCHANGED <<up, down, srv, snkEnd, work, cur>>
<1>1. CASE CallerStep /\ UNCHANGED sinkVars
  BY <1>1, HandshakeFrame
  DEF CallerStep, Submit, Retry, SendBatch, TakeAck, TakeNack, sinkVars, connVars, runVars
<1>2. CASE Cancel /\ UNCHANGED <<sinkVars, callerVars>>
  BY <1>2, HandshakeFrame DEF Cancel, sinkVars, connVars, runVars
<1>3. CASE UNCHANGED vars
  BY <1>3, HandshakeFrame DEF vars, sinkVars, connVars, dialerVars, runVars
<1>4. CASE (\/ RunStart \/ BackoffElapsed \/ BackoffCancelled \/ DialFails)
           /\ UNCHANGED <<sinkVars, callerVars>>
  BY <1>4, HandshakeFrame
  DEF RunStart, BackoffElapsed, BackoffCancelled, DialFails, sinkVars, connVars
<1>5. CASE (SendHelloFails \/ RecvEnter \/ RecvHelloAckFails)
           /\ UNCHANGED <<sinkVars, callerVars>>
  BY <1>5, HandshakeFrame
  DEF SendHelloFails, RecvEnter, RecvHelloAckFails, Lost, sinkVars
<1>6. CASE (StreamCancelled \/ StreamRecvErr \/ WriteBatchFails)
           /\ UNCHANGED <<sinkVars, callerVars>>
  BY <1>6, HandshakeFrame
  DEF StreamCancelled, StreamRecvErr, WriteBatchFails, Lost, sinkVars
<1>7. CASE (StreamAnswer \/ Deliver \/ StreamTake) /\ UNCHANGED <<sinkVars, callerVars>>
  BY <1>7, HandshakeFrame DEF StreamAnswer, Deliver, StreamTake, sinkVars, connVars
<1>8. CASE Connect /\ UNCHANGED callerVars
  <2>0. PICK n \in Conns : n = cur + 1
    BY <1>8, ConnAssumption
    DEF ConnAssumption, Connect, Dial, TypeOK, DialerTypeOK, RunTypeOK, Conns
  <2>1. /\ cur' = n /\ pc' = "hello" /\ srv[n] = "none"
        /\ srv' = [srv EXCEPT ![n] = "hello"]
        /\ snkEnd' = [snkEnd EXCEPT ![n] = "open"]
        /\ UNCHANGED <<up, down, work>>
    BY <1>8, <2>0 DEF Connect, Dial, Upgrade
  <2>2. up[n] = <<>> /\ srv'[n] = "hello"
    BY <1>t, <1>h, <2>1 DEF HandshakeOn
  <2>3. HandshakeOn(n)'
    <3>1. down[n] \in Seq(Refusals)
      BY <1>h, <2>1 DEF HandshakeOn, Serving
    <3>2. srv'[n] = "hello" /\ up'[n] = <<>> /\ down'[n] \in Seq(Refusals)
      BY <2>1, <2>2, <3>1
    <3> QED
      BY <3>2 DEF HandshakeOn, Serving, Refusals
  <2>4. \A d \in Conns \ {n} : HandshakeOn(d)'
    BY <1>t, <1>h, <2>1, HandshakeElsewhere
  <2>5. StreamsOnlyToHandler'
    BY <2>1 DEF StreamsOnlyToHandler
  <2>6. \A d \in Conns : HandshakeOn(d)'
    BY <2>3, <2>4
  <2> QED
    BY <2>1, <2>2, <2>5, <2>6 DEF HandshakeInv
<1>9. CASE SendHello /\ UNCHANGED <<sinkVars, callerVars>>
  <2>1. cur \in Conns /\ srv[cur] \in {"hello", "closed"} /\ up[cur] = <<>>
    BY <1>9, <1>c DEF SendHello, HandshakeInv
  <2>2. /\ pc' = "recvEnter" /\ cur' = cur
        /\ UNCHANGED <<down, srv, snkEnd, work>>
        /\ up' = Put(up, cur, Msg("hello", 0))
    BY <1>9 DEF SendHello, sinkVars
  <2>3. \A d \in Conns \ {cur} : HandshakeOn(d)'
    BY <1>t, <1>h, <2>1, <2>2, HandshakeElsewhere DEF Put
  <2>4. HandshakeOn(cur)'
    <3>1. CASE srv[cur] = "hello"
      <4>1. up'[cur] \in {<<>>, <<Msg("hello", 0)>>}
        BY <1>t, <2>1, <2>2 DEF Put
      <4> QED
        BY <1>h, <2>1, <2>2, <3>1, <4>1 DEF HandshakeOn, Serving, Refusals
    <3>2. CASE srv[cur] = "closed"
      BY <1>h, <2>1, <2>2, <3>2 DEF HandshakeOn, Serving, Refusals
    <3> QED
      BY <2>1, <3>1, <3>2
  <2>5. StreamsOnlyToHandler'
    BY <2>2 DEF StreamsOnlyToHandler
  <2> QED
    BY <2>2, <2>3, <2>4, <2>5 DEF HandshakeInv
<1>10. CASE RecvHelloAck /\ UNCHANGED <<sinkVars, callerVars>>
  <2>1. cur \in Conns /\ CanRecv(down, cur)
    BY <1>10, <1>c DEF RecvHelloAck
  <2>2. /\ UNCHANGED <<up, srv, snkEnd, work, cur>> /\ down' = Take(down, cur)
        /\ \/ Head(down[cur]).type = "accept" /\ pc' = "stream"
           \/ pc' \in {"backoff", "done"}
    BY <1>10 DEF RecvHelloAck, Lost, sinkVars
  <2>3. ASSUME NEW d \in Conns PROVE HandshakeOn(d)'
    <3>1. d \notin Serving => down'[d] \in Seq(Refusals)
      BY <1>t, <1>h, <2>1, <2>2, TakeSeq DEF HandshakeOn
    <3> QED
      BY <1>h, <2>2, <3>1 DEF HandshakeOn, Serving, BatchFrames, Refusals
  <2>4. StreamsOnlyToHandler'
    <3>1. pc' = "stream" => cur \in Serving
      <4> SUFFICES ASSUME pc' = "stream", cur \notin Serving PROVE FALSE
        OBVIOUS
      <4>1. down[cur] \in Seq(Refusals)
        BY <1>h, <2>1 DEF HandshakeOn
      <4>2. Head(down[cur]) \in Refusals
        BY <2>1, <4>1, HeadTail DEF CanRecv
      <4> QED
        BY <2>2, <4>2 DEF Refusals
    <3> QED
      BY <2>2, <3>1 DEF StreamsOnlyToHandler, Serving
  <2> QED
    BY <2>2, <2>3, <2>4 DEF HandshakeInv
<1>11. CASE WriteBatch /\ UNCHANGED <<sinkVars, callerVars>>
  <2>1. /\ cur \in Conns /\ cur \in Serving /\ inflight \in Batches
        /\ UNCHANGED <<down, srv, snkEnd, work, cur>> /\ pc = "write" /\ pc' = "stream"
        /\ up' = Put(up, cur, Msg("change_batch", inflight))
    BY <1>11, <1>c, ConnAssumption
    DEF ConnAssumption, WriteBatch, sinkVars, HandshakeInv, StreamsOnlyToHandler,
        TypeOK, DialerTypeOK, RunTypeOK, Batches
  <2>2. Msg("change_batch", inflight) \in BatchFrames
    BY <2>1, MessageFacts DEF BatchFrames
  <2>3. ASSUME NEW d \in Conns PROVE HandshakeOn(d)'
    <3>1. CASE d = cur
      <4>1. up'[d] \in Seq(BatchFrames)
        BY <1>t, <1>h, <2>1, <2>2, <3>1, PutSeq DEF HandshakeOn, BatchFrames
      <4> QED
        BY <1>h, <2>1, <3>1, <4>1 DEF HandshakeOn, Serving, BatchFrames
    <3>2. CASE d # cur
      BY <1>t, <1>h, <2>1, <3>2, HandshakeElsewhere DEF Put
    <3> QED
      BY <3>1, <3>2
  <2>4. StreamsOnlyToHandler'
    BY <2>1 DEF StreamsOnlyToHandler, Serving
  <2> QED
    BY <2>1, <2>3, <2>4 DEF HandshakeInv
<1>12. ASSUME NEW c \in Conns, ReaderRecv(c), UNCHANGED <<sinkVars, callerVars>>
       PROVE  HandshakeInv'
  <2>1. /\ UNCHANGED <<up, srv, snkEnd, work, cur, pc>>
        /\ CanRecv(down, c) /\ down' = Take(down, c)
    BY <1>12 DEF ReaderRecv, runVars, sinkVars
  <2>2. ASSUME NEW d \in Conns PROVE HandshakeOn(d)'
    <3>1. d \notin Serving => down'[d] \in Seq(Refusals)
      BY <1>t, <1>h, <2>1, TakeSeq DEF HandshakeOn
    <3> QED
      BY <1>h, <2>1, <3>1 DEF HandshakeOn, Serving, BatchFrames, Refusals
  <2> QED
    BY <2>1, <2>2 DEF HandshakeInv, StreamsOnlyToHandler, Serving
<1>13. ASSUME NEW c \in Conns, ReaderEnter(c) \/ ReaderPut(c) \/ ReaderFails(c),
              UNCHANGED <<sinkVars, callerVars>>
       PROVE  HandshakeInv'
  BY <1>13, HandshakeFrame
  DEF ReaderEnter, ReaderPut, ReaderFails, runVars, connVars, sinkVars
<1>14. ASSUME NEW c \in Conns, Break(c), UNCHANGED <<dialerVars, sinkVars, callerVars>>
       PROVE  HandshakeInv'
  BY <1>14, HandshakeFrame DEF Break, dialerVars, runVars, sinkVars
<1>15. ASSUME NEW c \in Conns, SinkStep(c), UNCHANGED <<dialerVars, callerVars>>
       PROVE  HandshakeInv'
  <2>0. /\ HandshakeOn(c)
        /\ BatchFrames \subseteq Frame /\ BatchFrames \subseteq Message
    BY <1>h, MessageFacts DEF BatchFrames
  <2> DEFINE Elsewhere == \A d \in Conns \ {c} :
           /\ up'[d] = up[d] /\ down'[d] = down[d] /\ srv'[d] = srv[d]
           /\ snkEnd'[d] = snkEnd[d] /\ work'[d] = work[d]
  <2> DEFINE Local ==
        /\ HandshakeOn(c)'
        /\ c \in Serving => c \in Serving'
        /\ srv[c] \in {"hello", "closed"} /\ up[c] = <<>>
             => srv'[c] \in {"hello", "closed"} /\ up'[c] = <<>>
  <2>1. UNCHANGED srcEnd /\ Elsewhere /\ Local
    <3>1. CASE RecvBatch(c)
      <4>1. /\ srv[c] = "recv" /\ srv' = [srv EXCEPT ![c] = "apply"]
            /\ CanRecv(up, c) /\ up' = Take(up, c) /\ up[c] \in Seq(BatchFrames)
            /\ work' = [work EXCEPT ![c] = Head(up[c])]
            /\ UNCHANGED <<down, srcEnd, snkEnd>>
        BY <2>0, <3>1 DEF RecvBatch, HandshakeOn, Serving
      <4>2. up'[c] \in Seq(BatchFrames) /\ work'[c] \in BatchFrames
        BY <1>t, <4>1, TakeSeq
      <4>3. srv'[c] = "apply"
        BY <1>t, <4>1
      <4>4. Elsewhere
        BY <1>t, <4>1 DEF Take
      <4> QED
        BY <2>0, <4>1, <4>2, <4>3, <4>4 DEF HandshakeOn, Serving, BatchFrames
    <3>2. CASE RecvBatchFails(c) \/ ReplyFails(c)
      <4>1. /\ c \in Serving /\ srv' = [srv EXCEPT ![c] = "returned"]
            /\ UNCHANGED connVars
            /\ \A d \in Conns \ {c} : work'[d] = work[d]
        BY <1>t, <3>2 DEF RecvBatchFails, ReplyFails, Serving
      <4>2. srv'[c] = "returned"
        BY <1>t, <4>1
      <4> QED
        BY <1>t, <2>0, <4>1, <4>2 DEF HandshakeOn, Serving, connVars, BatchFrames
    <3>3. CASE ApplyOK(c) \/ ApplyFails(c) \/ CommitUnknown(c)
      <4>1. /\ srv[c] = "apply" /\ srv' = [srv EXCEPT ![c] = "reply"]
            /\ \E t \in {"ack", "nack"} : work' = [work EXCEPT ![c] = Msg(t, work[c].id)]
            /\ UNCHANGED connVars
        BY <3>3 DEF ApplyOK, ApplyFails, CommitUnknown, AnswerWith
      <4>2. work[c].id \in Batches
        BY <2>0, <4>1, MessageFacts DEF HandshakeOn
      <4>3. work'[c] \in Frame /\ srv'[c] = "reply"
        BY <1>t, <4>1, <4>2, MessageFacts
      <4> QED
        BY <1>t, <2>0, <4>1, <4>3 DEF HandshakeOn, Serving, connVars, BatchFrames
    <3>4. CASE Reply(c)
      <4>1. /\ srv[c] = "reply" /\ srv' = [srv EXCEPT ![c] = "recv"]
            /\ down' = Put(down, c, work[c])
            /\ work' = [work EXCEPT ![c] = NoMsg]
            /\ UNCHANGED <<up, srcEnd, snkEnd>>
        BY <3>4 DEF Reply
      <4>2. srv'[c] = "recv"
        BY <1>t, <4>1
      <4>3. Elsewhere
        BY <1>t, <4>1 DEF Put
      <4> QED
        BY <2>0, <4>1, <4>2, <4>3 DEF HandshakeOn, Serving, BatchFrames
    <3>5. CASE RecvHello(c) /\ UNCHANGED <<work, applied, row, faults>>
      <4>1. /\ srv[c] = "hello" /\ CanRecv(up, c) /\ up' = Take(up, c)
            /\ \E s \in {"accept", "reject"} : srv' = [srv EXCEPT ![c] = s]
            /\ UNCHANGED <<down, srcEnd, snkEnd, work>>
        BY <3>5 DEF RecvHello
      <4>2. up[c] = <<Msg("hello", 0)>>
        BY <2>0, <4>1 DEF HandshakeOn, CanRecv
      <4>3. up'[c] = <<>>
        BY <1>t, <4>1, <4>2 DEF Take
      <4>4. srv'[c] \in {"accept", "reject"}
        BY <1>t, <4>1
      <4>5. Elsewhere
        BY <1>t, <4>1 DEF Take
      <4>6. up[c] # <<>>
        BY <4>1 DEF CanRecv
      <4> QED
        BY <2>0, <4>1, <4>3, <4>4, <4>5, <4>6 DEF HandshakeOn, Serving, Refusals
    <3>6. CASE (RecvHelloFails(c) \/ AcceptFails(c)) /\ UNCHANGED <<work, applied, row, faults>>
      <4>1. /\ srv[c] \in {"hello", "accept"} /\ srv' = [srv EXCEPT ![c] = "closed"]
            /\ snkEnd' = [snkEnd EXCEPT ![c] = "closed"]
            /\ UNCHANGED <<up, down, srcEnd, work>>
        BY <3>6 DEF RecvHelloFails, AcceptFails, CloseConn
      <4>2. srv'[c] = "closed" /\ snkEnd'[c] = "closed"
        BY <1>t, <4>1
      <4> QED
        BY <1>t, <2>0, <4>1, <4>2 DEF HandshakeOn, Serving, Refusals
    <3>7. CASE Reject(c) /\ UNCHANGED <<work, applied, row, faults>>
      <4>1. /\ srv[c] = "reject" /\ srv' = [srv EXCEPT ![c] = "closed"]
            /\ snkEnd' = [snkEnd EXCEPT ![c] = "closed"]
            /\ down' = Put(down, c, Msg("reject", 0))
            /\ UNCHANGED <<up, srcEnd, work>>
        BY <3>7 DEF Reject, CloseConn
      <4>2. srv'[c] = "closed" /\ snkEnd'[c] = "closed"
        BY <1>t, <4>1
      <4>3. Msg("reject", 0) \in Refusals
        BY MessageFacts DEF Refusals
      <4>4. down'[c] \in Seq(Refusals)
        BY <1>t, <2>0, <4>1, <4>3, PutSeq DEF HandshakeOn, Serving, Refusals
      <4>5. Elsewhere
        BY <1>t, <4>1 DEF Put
      <4> QED
        BY <2>0, <4>1, <4>2, <4>4, <4>5 DEF HandshakeOn, Serving, Refusals
    <3>8. CASE Accept(c) /\ UNCHANGED <<work, applied, row, faults>>
      <4>1. /\ srv[c] = "accept" /\ srv' = [srv EXCEPT ![c] = "recv"]
            /\ down' = Put(down, c, Msg("accept", 0))
            /\ UNCHANGED <<up, srcEnd, snkEnd, work>>
        BY <3>8 DEF Accept
      <4>2. srv'[c] = "recv"
        BY <1>t, <4>1
      <4>3. Elsewhere
        BY <1>t, <4>1 DEF Put
      <4> QED
        BY <2>0, <4>1, <4>2, <4>3 DEF HandshakeOn, Serving, BatchFrames
    <3> QED
      BY <1>15, <3>1, <3>2, <3>3, <3>4, <3>5, <3>6, <3>7, <3>8
      DEF SinkStep, HandlerStep, ListenerStep
  <2> QED
    BY <1>15, <2>1, HandshakeSinkStep
<1>16. CASE ListenerLife /\ UNCHANGED <<dialerVars, callerVars>>
  BY <1>16, HandshakeFrame
  DEF ListenerLife, ServerStep, connVars, dialerVars, runVars
<1> QED
  BY <1>1, <1>2, <1>3, <1>4, <1>5, <1>6, <1>7, <1>8, <1>9, <1>10, <1>11, <1>12,
     <1>13, <1>14, <1>15, <1>16
  DEF Next, DialerStep, RunStep, ReaderStep, Terminated

-----------------------------------------------------------------------------
(* Acknowledgments.                                                        *)

\* Commits are never taken back, so what was truthful remains so.
LEMMA TruthfulGrows ==
  ASSUME applied \subseteq applied'
  PROVE  Truthful \subseteq Truthful' /\ Truthful \subseteq Message
  BY DEF Truthful

\* A step that does not touch a connection keeps the invariant of it.
LEMMA AckElsewhere ==
  ASSUME NEW d \in Conns, AckOn(d), applied \subseteq applied',
         down'[d] = down[d], recvCh'[d] = recvCh[d],
         hand'[d] = hand[d], work'[d] = work[d]
  PROVE  AckOn(d)'
<1>1. Truthful \subseteq Truthful'
  BY TruthfulGrows
<1>2. down[d] \in Seq(Truthful') /\ recvCh[d] \in Seq(Truthful')
  BY <1>1, SeqMono DEF AckOn
<1> QED
  BY <1>1, <1>2 DEF AckOn

\* What Run, the caller and the channels hold, when they do not change.
LEMMA AckFrame ==
  ASSUME AckInv, applied \subseteq applied', UNCHANGED <<resp, acks, acked>>,
         \A d \in Conns : AckOn(d)'
  PROVE  AckInv'
<1>1. Truthful \subseteq Truthful'
  BY TruthfulGrows
<1>2. acks \in Seq(applied')
  BY SeqMono DEF AckInv
<1> QED
  BY <1>1, <1>2 DEF AckInv, AckMeansCommitted

\* Before the first dial no Ack is under way.
LEMMA InitAck == Init => AckInv
<1> SUFFICES ASSUME Init PROVE AckInv
  OBVIOUS
<1>1. ASSUME NEW c \in Conns PROVE AckOn(c)
  BY DEF Init, ConnInit, DialerInit, SinkInit, AckOn
<1>2. resp = NoMsg /\ acks = <<>> /\ acked = {}
  BY DEF Init, DialerInit
<1> QED
  BY <1>1, <1>2 DEF AckInv, AckMeansCommitted

\* An Ack comes into being only after Apply has returned nil, and neither the
\* wire, the reader, stream() nor the caller turns anything else into one.
LEMMA NextAck == TypeOK /\ HandshakeInv /\ AckInv /\ [Next]_vars => AckInv'
<1> SUFFICES ASSUME TypeOK, HandshakeInv, AckInv, [Next]_vars PROVE AckInv'
  OBVIOUS
<1>t. /\ up \in [Conns -> Seq(Message)] /\ down \in [Conns -> Seq(Message)]
      /\ recvCh \in [Conns -> Seq(Message)]
      /\ hand \in [Conns -> Message \cup {NoMsg}]
      /\ work \in [Conns -> Message \cup {NoMsg}]
      /\ srv \in [Conns -> ServerStates] /\ reader \in [Conns -> ReaderStates]
  BY DEF TypeOK, ConnTypeOK, DialerTypeOK, ReaderTypeOK, SinkTypeOK, ListenerTypeOK
<1>c. pc \notin {"start", "backoff", "dial", "done"} => cur \in Conns
  BY DEF TypeOK, DialerTypeOK, RunTypeOK
<1>a. /\ \A d \in Conns : AckOn(d)
      /\ Truthful \subseteq Message
  BY DEF AckInv, Truthful
<1>k. ASSUME UNCHANGED <<down, recvCh, hand, work, applied>>
      PROVE  \A d \in Conns : AckOn(d)'
  BY <1>a, <1>k, AckElsewhere
<1>1. CASE (Submit \/ \E b \in Batches : Retry(b)) /\ UNCHANGED sinkVars
  BY <1>1, <1>k, AckFrame
  DEF Submit, Retry, SendBatch, sinkVars, connVars, readerVars, runVars
<1>2. CASE TakeAck /\ UNCHANGED sinkVars
  <2>1. /\ acks # <<>> /\ acks' = Tail(acks) /\ acked' = acked \cup {Head(acks)}
        /\ UNCHANGED <<resp, down, recvCh, hand, work, applied>>
    BY <1>2 DEF TakeAck, sinkVars, connVars, readerVars, runVars
  <2>2. Head(acks) \in applied /\ Tail(acks) \in Seq(applied)
    BY <2>1, HeadTail DEF AckInv
  <2> QED
    BY <1>k, <2>1, <2>2 DEF AckInv, AckMeansCommitted, Truthful
<1>3. CASE TakeNack /\ UNCHANGED sinkVars
  BY <1>3, <1>k, AckFrame DEF TakeNack, sinkVars, connVars, readerVars, runVars
<1>4. CASE Cancel /\ UNCHANGED <<sinkVars, callerVars>>
  BY <1>4, <1>k, AckFrame
  DEF Cancel, sinkVars, connVars, readerVars, runVars, chanVars, callerVars
<1>5. CASE UNCHANGED vars
  BY <1>5, <1>k, AckFrame
  DEF vars, dialerVars, sinkVars, connVars, readerVars, runVars, chanVars, callerVars
<1>6. CASE (\/ RunStart \/ BackoffElapsed \/ BackoffCancelled \/ DialFails
            \/ SendHello \/ SendHelloFails \/ RecvEnter \/ RecvHelloAckFails)
           /\ UNCHANGED <<sinkVars, callerVars>>
  BY <1>6, <1>k, AckFrame
  DEF RunStart, BackoffElapsed, BackoffCancelled, DialFails, SendHello, SendHelloFails,
      RecvEnter, RecvHelloAckFails, sinkVars, connVars, readerVars, chanVars, callerVars
<1>7. CASE (\/ StreamCancelled \/ StreamRecvErr \/ StreamTake \/ WriteBatch
            \/ WriteBatchFails) /\ UNCHANGED <<sinkVars, callerVars>>
  BY <1>7, <1>k, AckFrame
  DEF StreamCancelled, StreamRecvErr, StreamTake, WriteBatch, WriteBatchFails,
      sinkVars, connVars, readerVars, chanVars, callerVars
<1>8. CASE Connect /\ UNCHANGED callerVars
  BY <1>8, <1>k, AckFrame DEF Connect, Dial, Upgrade, readerVars, chanVars, callerVars
<1>9. CASE RecvHelloAck /\ UNCHANGED <<sinkVars, callerVars>>
  <2>1. /\ cur \in Conns /\ CanRecv(down, cur) /\ down' = Take(down, cur)
        /\ UNCHANGED <<recvCh, hand, work, applied, resp, acks, acked>>
    BY <1>9, <1>c DEF RecvHelloAck, sinkVars, chanVars, callerVars
  <2>2. ASSUME NEW d \in Conns PROVE AckOn(d)'
    <3>1. down'[d] \in Seq(Truthful)
      BY <1>t, <1>a, <2>1, TakeSeq DEF AckOn
    <3> QED
      BY <1>a, <2>1, <3>1 DEF AckOn, Truthful
  <2> QED
    BY <2>1, <2>2, AckFrame
<1>10. CASE StreamAnswer /\ UNCHANGED <<sinkVars, callerVars>>
  <2>1. /\ cur \in Conns /\ CanRecv(recvCh, cur) /\ recvCh' = Take(recvCh, cur)
        /\ resp' = Head(recvCh[cur])
        /\ UNCHANGED <<down, hand, work, applied, acks, acked>>
    BY <1>10, <1>c DEF StreamAnswer, sinkVars, connVars, chanVars, callerVars
  <2>2. resp' \in Truthful
    BY <1>t, <1>a, <2>1, TakeSeq DEF AckOn
  <2>3. ASSUME NEW d \in Conns PROVE AckOn(d)'
    <3>1. recvCh'[d] \in Seq(Truthful)
      BY <1>t, <1>a, <2>1, TakeSeq DEF AckOn
    <3> QED
      BY <1>a, <2>1, <3>1 DEF AckOn, Truthful
  <2> QED
    BY <2>1, <2>2, <2>3 DEF AckInv, AckMeansCommitted, Truthful
<1>11. CASE Deliver /\ UNCHANGED <<sinkVars, callerVars>>
  <2>1. /\ resp' = NoMsg
        /\ \/ resp.type = "ack" /\ acks' = Append(acks, resp.id)
           \/ acks' = acks
        /\ UNCHANGED <<down, recvCh, hand, work, applied, acked>>
    BY <1>11 DEF Deliver, sinkVars, connVars, readerVars, callerVars
  <2>2. acks' \in Seq(applied)
    <3>1. resp.type = "ack" => resp.id \in applied
      BY DEF AckInv, Truthful, NoMsg
    <3> QED
      BY <2>1, <3>1, AppendLen DEF AckInv
  <2> QED
    BY <1>k, <2>1, <2>2 DEF AckInv, AckMeansCommitted
<1>12. ASSUME NEW c \in Conns, ReaderRecv(c), UNCHANGED <<sinkVars, callerVars>>
       PROVE  AckInv'
  <2>1. /\ CanRecv(down, c) /\ down' = Take(down, c)
        /\ hand' = [hand EXCEPT ![c] = Head(down[c])]
        /\ UNCHANGED <<recvCh, work, applied, resp, acks, acked>>
    BY <1>12 DEF ReaderRecv, sinkVars, runVars, chanVars, callerVars
  <2>2. ASSUME NEW d \in Conns PROVE AckOn(d)'
    <3>1. down'[d] \in Seq(Truthful)
      BY <1>t, <1>a, <2>1, TakeSeq DEF AckOn
    <3>2. hand'[d] \in Truthful \cup {NoMsg}
      BY <1>t, <1>a, <2>1, TakeSeq DEF AckOn
    <3> QED
      BY <1>a, <2>1, <3>1, <3>2 DEF AckOn, Truthful
  <2> QED
    BY <2>1, <2>2, AckFrame
<1>13. ASSUME NEW c \in Conns, ReaderPut(c), UNCHANGED <<sinkVars, callerVars>>
       PROVE  AckInv'
  <2>1. /\ hand[c] \in Truthful
        /\ recvCh' = [recvCh EXCEPT ![c] = Append(@, hand[c])]
        /\ hand' = [hand EXCEPT ![c] = NoMsg]
        /\ UNCHANGED <<down, work, applied, resp, acks, acked>>
    BY <1>13, <1>a, MessageFacts
    DEF ReaderPut, sinkVars, connVars, runVars, chanVars, callerVars, AckOn,
        TypeOK, DialerTypeOK, ReaderTypeOK
  <2>2. ASSUME NEW d \in Conns PROVE AckOn(d)'
    <3>1. Append(recvCh[c], hand[c]) \in Seq(Truthful)
      BY <1>a, <2>1, AppendLen DEF AckOn
    <3>2. recvCh'[d] \in Seq(Truthful) /\ hand'[d] \in Truthful \cup {NoMsg}
      BY <1>t, <1>a, <2>1, <3>1 DEF AckOn
    <3> QED
      BY <1>a, <2>1, <3>2 DEF AckOn, Truthful
  <2> QED
    BY <2>1, <2>2, AckFrame
<1>14. ASSUME NEW c \in Conns, ReaderEnter(c) \/ ReaderFails(c),
              UNCHANGED <<sinkVars, callerVars>>
       PROVE  AckInv'
  BY <1>14, <1>k, AckFrame
  DEF ReaderEnter, ReaderFails, sinkVars, connVars, runVars, chanVars, callerVars
<1>15. ASSUME NEW c \in Conns, Break(c), UNCHANGED <<dialerVars, sinkVars, callerVars>>
       PROVE  AckInv'
  BY <1>15, <1>k, AckFrame
  DEF Break, dialerVars, sinkVars, runVars, chanVars, readerVars, callerVars
<1>16. ASSUME NEW c \in Conns, SinkStep(c), UNCHANGED <<dialerVars, callerVars>>
       PROVE  AckInv'
  <2>1. UNCHANGED <<recvCh, hand, resp, acks, acked>>
    BY <1>16 DEF dialerVars, readerVars, runVars, chanVars, callerVars
  <2>2. applied \subseteq applied' /\ \A d \in Conns : AckOn(d)'
    <3>1. CASE RecvBatch(c)
      <4>1. /\ work' = [work EXCEPT ![c] = Head(up[c])]
            /\ CanRecv(up, c) /\ up[c] \in Seq(BatchFrames)
            /\ UNCHANGED <<applied, down>>
        BY <3>1 DEF RecvBatch, HandshakeInv, HandshakeOn, Serving
      <4>2. Head(up[c]) \in BatchFrames
        BY <4>1, HeadTail DEF CanRecv
      <4>3. ASSUME NEW d \in Conns PROVE AckOn(d)'
        <5>1. work'[d] \in Truthful \cup {NoMsg}
          BY <1>t, <1>a, <4>1, <4>2 DEF AckOn, BatchFrames, Truthful
        <5> QED
          BY <1>a, <2>1, <4>1, <5>1 DEF AckOn, Truthful
      <4> QED
        BY <4>1, <4>3
    <3>2. CASE ApplyOK(c) \/ ApplyFails(c) \/ CommitUnknown(c)
      <4>1. /\ applied \subseteq applied' /\ UNCHANGED down
            /\ work[c].id \in Batches
            /\ \/ /\ work[c].id \in applied'
                  /\ work' = [work EXCEPT ![c] = Msg("ack", work[c].id)]
               \/ work' = [work EXCEPT ![c] = Msg("nack", work[c].id)]
        BY <3>2, MessageFacts
        DEF ApplyOK, ApplyFails, CommitUnknown, AnswerWith, Commit, connVars,
            HandshakeInv, HandshakeOn
      <4>2. work'[c] \in Truthful'
        BY <1>t, <4>1, MessageFacts DEF Truthful
      <4>3. ASSUME NEW d \in Conns PROVE AckOn(d)'
        <5>1. CASE d = c
          <6>1. Truthful \subseteq Truthful'
            BY <4>1, TruthfulGrows
          <6>2. down[d] \in Seq(Truthful') /\ recvCh[d] \in Seq(Truthful')
            BY <1>a, <6>1, SeqMono DEF AckOn
          <6> QED
            BY <1>a, <2>1, <4>1, <4>2, <5>1, <6>1, <6>2 DEF AckOn
        <5>2. CASE d # c
          BY <1>t, <1>a, <2>1, <4>1, <5>2, AckElsewhere
        <5> QED
          BY <5>1, <5>2
      <4> QED
        BY <4>1, <4>3
    <3>3. CASE Reply(c)
      <4>1. /\ work[c] \in Truthful /\ work[c] \in Message
            /\ down' = Put(down, c, work[c])
            /\ work' = [work EXCEPT ![c] = NoMsg] /\ UNCHANGED applied
        BY <1>a, <3>3, MessageFacts DEF Reply, HandshakeInv, HandshakeOn, AckOn
      <4>2. ASSUME NEW d \in Conns PROVE AckOn(d)'
        <5>1. down'[d] \in Seq(Truthful)
          BY <1>t, <1>a, <4>1, PutSeq DEF AckOn
        <5>2. work'[d] \in Truthful \cup {NoMsg}
          BY <1>t, <1>a, <4>1 DEF AckOn
        <5> QED
          BY <1>a, <2>1, <4>1, <5>1, <5>2 DEF AckOn, Truthful
      <4> QED
        BY <4>1, <4>2
    <3>4. CASE RecvBatchFails(c) \/ ReplyFails(c)
      <4>1. /\ \A d \in Conns : work'[d] \in {work[d], NoMsg}
            /\ UNCHANGED <<applied, down>>
        BY <1>t, <3>4 DEF RecvBatchFails, ReplyFails, connVars
      <4> QED
        BY <1>a, <2>1, <4>1 DEF AckOn, Truthful
    <3>5. CASE (Reject(c) \/ Accept(c)) /\ UNCHANGED <<work, applied, row, faults>>
      <4>1. PICK m \in {Msg("reject", 0), Msg("accept", 0)} : down' = Put(down, c, m)
        BY <3>5 DEF Reject, Accept
      <4>2. m \in Truthful /\ m \in Message
        BY MessageFacts DEF Truthful
      <4>3. ASSUME NEW d \in Conns PROVE AckOn(d)'
        <5>1. down'[d] \in Seq(Truthful)
          BY <1>t, <1>a, <4>1, <4>2, PutSeq DEF AckOn
        <5> QED
          BY <1>a, <2>1, <3>5, <5>1 DEF AckOn, Truthful
      <4> QED
        BY <3>5, <4>3
    <3>6. CASE (RecvHello(c) \/ RecvHelloFails(c) \/ AcceptFails(c))
               /\ UNCHANGED <<work, applied, row, faults>>
      BY <1>k, <2>1, <3>6 DEF RecvHello, RecvHelloFails, AcceptFails
    <3> QED
      BY <1>16, <3>1, <3>2, <3>3, <3>4, <3>5, <3>6
      DEF SinkStep, HandlerStep, ListenerStep
  <2> QED
    BY <2>1, <2>2, AckFrame
<1>17. CASE ListenerLife /\ UNCHANGED <<dialerVars, callerVars>>
  BY <1>17, <1>k, AckFrame
  DEF ListenerLife, ServerStep, connVars, dialerVars, runVars, chanVars,
      readerVars, callerVars
<1> QED
  BY <1>1, <1>2, <1>3, <1>4, <1>5, <1>6, <1>7, <1>8, <1>9, <1>10, <1>11, <1>12,
     <1>13, <1>14, <1>15, <1>16, <1>17
  DEF Next, CallerStep, DialerStep, RunStep, ReaderStep, Terminated

-----------------------------------------------------------------------------
(* What is committed was subscribed to with the sink's consent.            *)

\* The states of a connection whose subscription has been accepted.
Admitted == {"accept", "recv", "apply", "reply", "returned"}

\* A subscription is admitted by the Hello that lists published tables only,
\* and nothing is committed but by the handler of an admitted connection.
LEMMA NextSubscription ==
  TypeOK /\ SubscriptionInv /\ [Next]_vars => SubscriptionInv'
<1> SUFFICES ASSUME TypeOK, SubscriptionInv, [Next]_vars
             PROVE  SubscriptionInv'
  OBVIOUS
<1>p. published' = published
  BY DEF Next, DialerStep, Connect, ListenerLife, ServerStep, SinkStep, Terminated,
    vars, sinkVars
<1> SUFFICES ASSUME ~(Subscribe \subseteq published)
             PROVE  SubscriptionInv'
  BY <1>p DEF SubscriptionInv, OnlyPublishedCommitted
<1>t. srv \in [Conns -> ServerStates]
  BY DEF TypeOK, SinkTypeOK, ListenerTypeOK
<1>a. \A c \in Conns : srv[c] \notin Admitted
  BY DEF SubscriptionInv, Serving, Admitted
<1>b. applied = {}
  BY DEF SubscriptionInv, OnlyPublishedCommitted
<1> SUFFICES (\A c \in Conns : srv'[c] \notin Admitted) /\ applied' = {}
  BY DEF SubscriptionInv, OnlyPublishedCommitted, Serving, Admitted
<1>1. CASE UNCHANGED sinkVars
  BY <1>1, <1>a, <1>b DEF sinkVars
<1>2. CASE Connect
  <2>1. PICK n \in Conns : n = cur + 1
    BY <1>2, ConnAssumption
    DEF ConnAssumption, Connect, Dial, TypeOK, DialerTypeOK, RunTypeOK, Conns
  <2>2. srv' = [srv EXCEPT ![n] = "hello"] /\ UNCHANGED applied
    BY <1>2, <2>1 DEF Connect, Dial, Upgrade
  <2> QED
    BY <2>2, <1>a, <1>b, <1>t DEF Admitted
<1>3. ASSUME NEW c \in Conns, SinkStep(c)
      PROVE  (\A d \in Conns : srv'[d] \notin Admitted) /\ applied' = {}
  <2>1. srv[c] \notin Admitted
    BY <1>a
  <2>2. ~HandlerStep(c)
    BY <2>1 DEF Admitted, HandlerStep, RecvBatch, RecvBatchFails, ApplyOK, ApplyFails,
      CommitUnknown, Reply, ReplyFails
  <2>3. ListenerStep(c) /\ UNCHANGED applied
    BY <1>3, <2>2 DEF SinkStep
  <2>4. srv' = [srv EXCEPT ![c] = "reject"] \/ srv' = [srv EXCEPT ![c] = "closed"]
    BY <2>1, <2>3 DEF Admitted, ListenerStep, RecvHello, Acceptable, RecvHelloFails,
      Reject, Accept, AcceptFails, CloseConn
  <2> QED
    BY <2>3, <2>4, <1>a, <1>b, <1>t DEF Admitted
<1>4. CASE UNCHANGED vars
  BY <1>4, <1>1 DEF vars
<1>5. CASE Next
  <2>1. \/ UNCHANGED sinkVars \/ Connect \/ \E c \in Conns : SinkStep(c)
        \/ ListenerLife \/ UNCHANGED vars
    BY <1>5 DEF Next, DialerStep, Terminated
  <2>2. ListenerLife => UNCHANGED <<srv, applied>>
    BY DEF ListenerLife, ServerStep
  <2> QED
    BY <2>1, <2>2, <1>1, <1>2, <1>3, <1>4, <1>a, <1>b
<1> QED
  BY <1>4, <1>5

-----------------------------------------------------------------------------
(* The theorems.                                                           *)

\* The inductive invariant: the handshake is what makes a handler's message a
\* batch, and the batch is what its Ack names.
Inv == TypeOK /\ HandshakeInv /\ AckInv

\* Inv is inductive, for any number of batches, connections, window, channel
\* capacities, and any tables.
THEOREM Invariance == Spec => []Inv
<1>1. Init => Inv
  BY InitTypeOK, InitHandshake, InitAck DEF Inv
<1>2. Inv /\ [Next]_vars => Inv'
  BY NextTypeOK, NextHandshake, NextAck DEF Inv
<1> QED
  BY <1>1, <1>2, PTL DEF Spec

\* Every variable keeps its type; in particular no channel of the Dialer ever
\* holds more than its capacity.
THEOREM TypeCorrect == Spec => []TypeOK
<1>1. Inv => TypeOK
  BY DEF Inv
<1> QED
  BY <1>1, Invariance, PTL

\* The whole of the handshake, on every connection (dialer.go, runOnce;
\* listener.go, handleWS): one Hello, first; no batch before the acceptance.
THEOREM HandshakeHolds == Spec => []HandshakeInv
<1>1. Inv => HandshakeInv
  BY DEF Inv
<1> QED
  BY <1>1, Invariance, PTL

\* No Ack of an uncommitted batch is under way anywhere: on a wire, in a reader,
\* in stream() or in the channel of the caller.
THEOREM AcksUnderWay == Spec => []AckInv
<1>1. Inv => AckInv
  BY DEF Inv
<1> QED
  BY <1>1, Invariance, PTL

\* Dialer and Listener agree on the outcome of every handshake (dialer.go,
\* runOnce; listener.go, handleWS).
THEOREM HandshakeAgreement == Spec => []StreamsOnlyToHandler
<1>1. Inv => StreamsOnlyToHandler
  BY DEF Inv, HandshakeInv
<1> QED
  BY <1>1, Invariance, PTL

\* An acknowledged batch is committed, for a caller that leaves any number of
\* batches unanswered (messages.go, Ack).
THEOREM AcksAreTrue == Spec => []AckMeansCommitted
<1>1. Inv => AckMeansCommitted
  BY DEF Inv, AckInv
<1> QED
  BY <1>1, Invariance, PTL

\* No change reaches the sink's database through a subscription to a table
\* that the sink does not publish (listener.go, handleWS).
THEOREM OnlyPublished == Spec => []OnlyPublishedCommitted
<1>1. Init => SubscriptionInv
  BY DEF Init, SinkInit, ListenerInit, SubscriptionInv, OnlyPublishedCommitted, Serving
<1>2. TypeOK /\ SubscriptionInv /\ [Next]_vars => SubscriptionInv'
  BY NextSubscription
<1>3. SubscriptionInv => OnlyPublishedCommitted
  BY DEF SubscriptionInv
<1> QED
  BY <1>1, <1>2, <1>3, TypeCorrect, PTL DEF Spec
=============================================================================

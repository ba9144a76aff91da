----------------------------- MODULE CopyProofs -----------------------------
(***************************************************************************)
(* Proofs about Transport that count the copies of a batch: whatever the   *)
(* window, no batch is ever in two places.                                 *)
(***************************************************************************)
EXTENDS TransportProofs, SequenceTheorems, FunctionTheorems, FiniteSetTheorems

-----------------------------------------------------------------------------
(* Places.                                                                 *)

\* No place gains a batch.
LEMMA Shrink ==
  ASSUME NEW H, NEW G, NEW n, Apart(H, n), \A r \in Places : G[r] \subseteq H[r]
  PROVE  Apart(G, n)
<1>1. \A p \in Places : G[p] \subseteq 1 .. n
  BY DEF Apart
<1>2. ASSUME NEW p \in Places, NEW q \in Places, p # q
      PROVE  G[p] \cap G[q] = {}
  <2>1. H[p] \cap H[q] = {} /\ G[p] \subseteq H[p] /\ G[q] \subseteq H[q]
    BY <1>2 DEF Apart
  <2> QED
    BY <2>1
<1> QED
  BY <1>1, <1>2 DEF Apart

\* A batch that is at p, and then not any more, may be at q.
LEMMA Move ==
  ASSUME NEW H, NEW G, NEW n, Apart(H, n), NEW p \in Places, NEW q \in Places,
         NEW b \in H[p],
         G[p] \subseteq H[p] \ {b}, G[q] \subseteq H[q] \cup {b},
         \A r \in Places \ {p, q} : G[r] \subseteq H[r]
  PROVE  Apart(G, n)
<1>1. \A r \in Places : G[r] \subseteq H[r] \cup {b}
  OBVIOUS
<1>2. b \in 1 .. n
  BY DEF Apart
<1>3. \A r \in Places : G[r] \subseteq 1 .. n
  BY <1>1, <1>2 DEF Apart
<1>4. \A r \in Places \ {q} : G[r] \subseteq H[r] \ {b}
  BY DEF Apart
<1>5. ASSUME NEW r \in Places, NEW s \in Places, r # s
      PROVE  G[r] \cap G[s] = {}
  <2>1. H[r] \cap H[s] = {}
    BY <1>5 DEF Apart
  <2>2. CASE r = q
    BY <1>1, <1>4, <1>5, <2>1, <2>2
  <2>3. CASE s = q
    BY <1>1, <1>4, <1>5, <2>1, <2>3
  <2>4. CASE r # q /\ s # q
    BY <1>4, <2>1, <2>4
  <2> QED
    BY <2>2, <2>3, <2>4
<1> QED
  BY <1>3, <1>5 DEF Apart

\* A batch that is nowhere else may enter at q.
LEMMA Enter ==
  ASSUME NEW H, NEW G, NEW n \in Nat, NEW m \in Nat, Apart(H, n), n <= m,
         NEW q \in Places, NEW b \in 1 .. m,
         \A r \in Places : b \notin G[r] \/ r = q,
         \A r \in Places : G[r] \subseteq H[r] \cup {b}
  PROVE  Apart(G, m)
<1>1. \A r \in Places : G[r] \subseteq 1 .. m
  BY DEF Apart
<1>2. ASSUME NEW r \in Places, NEW s \in Places, r # s
      PROVE  G[r] \cap G[s] = {}
  <2>1. H[r] \cap H[s] = {}
    BY <1>2 DEF Apart
  <2> QED
    BY <1>2, <2>1
<1> QED
  BY <1>1, <1>2 DEF Apart

-----------------------------------------------------------------------------
(* Queues without repetition.                                              *)

\* The first of the queue leaves it.
LEMMA TailIds ==
  ASSUME NEW S, NEW s \in Seq(S), s # <<>>, Single(s)
  PROVE  /\ Head(s) \in IdsOf(s)
         /\ IdsOf(Tail(s)) \subseteq IdsOf(s) \ {Head(s)}
         /\ Single(Tail(s))
<1>1. /\ Len(s) \in Nat /\ Len(s) > 0 /\ DOMAIN s = 1 .. Len(s)
      /\ Head(s) = s[1] /\ DOMAIN Tail(s) = 1 .. (Len(s) - 1)
      /\ \A i \in 1 .. (Len(s) - 1) : Tail(s)[i] = s[i + 1]
  OBVIOUS
<1>2. \A i \in DOMAIN Tail(s) : Tail(s)[i] \in IdsOf(s) /\ Tail(s)[i] # Head(s)
  BY <1>1 DEF Single, IdsOf
<1>3. Single(Tail(s))
  BY <1>1 DEF Single
<1> QED
  BY <1>1, <1>2, <1>3 DEF IdsOf

\* A batch joins a queue that it is not in.
LEMMA AppendIds ==
  ASSUME NEW S, NEW s \in Seq(S), NEW b \in S, Single(s)
  PROVE  /\ IdsOf(Append(s, b)) = IdsOf(s) \cup {b}
         /\ b \notin IdsOf(s) => Single(Append(s, b))
<1> DEFINE t == Append(s, b)
<1>1. /\ Len(s) \in Nat /\ DOMAIN s = 1 .. Len(s)
      /\ DOMAIN t = 1 .. (Len(s) + 1) /\ t[Len(s) + 1] = b
      /\ \A i \in 1 .. Len(s) : t[i] = s[i]
  OBVIOUS
<1> HIDE DEF t
<1>2. IdsOf(t) = IdsOf(s) \cup {b}
  BY <1>1 DEF IdsOf
<1>3. b \notin IdsOf(s) => Single(t)
  BY <1>1 DEF IdsOf, Single
<1> QED
  BY <1>2, <1>3 DEF t

-----------------------------------------------------------------------------
(* The start of a connection.                                              *)

\* A step that leaves a connection alone keeps what is known of it.
LEMMA FreshElsewhere ==
  ASSUME NEW d \in Conns, FreshOn(d), cur \in Nat, cur' \in Nat, cur' >= cur,
         down'[d] = down[d], srv'[d] = srv[d], reader'[d] = reader[d],
         recvCh'[d] = recvCh[d]
  PROVE  FreshOn(d)'
  BY ConnAssumption DEF FreshOn, Conns, ConnAssumption

\* A step that leaves all connections alone.
LEMMA FreshFrame ==
  ASSUME TypeOK, FreshInv, UNCHANGED <<up, down, srv, reader, recvCh, cur>>,
         \/ pc' \notin {"hello", "recvEnter", "await"}
         \/ pc \in {"hello", "recvEnter", "await"}
  PROVE  FreshInv'
<1>1. cur \in Nat
  BY ConnAssumption DEF ConnAssumption, TypeOK, DialerTypeOK, RunTypeOK
<1>2. \A d \in Conns : FreshOn(d)'
  BY <1>1, FreshElsewhere DEF FreshInv
<1>3. Greets'
  BY DEF FreshInv, Greets, Msg
<1> QED
  BY <1>2, <1>3 DEF FreshInv

\* A step at connection c.
LEMMA FreshStep ==
  ASSUME TypeOK, FreshInv, cur' = cur, NEW c \in Conns,
         \A d \in Conns \ {c} :
           /\ up'[d] = up[d] /\ down'[d] = down[d] /\ srv'[d] = srv[d]
           /\ reader'[d] = reader[d] /\ recvCh'[d] = recvCh[d],
         \/ pc' \notin {"hello", "recvEnter", "await"}
         \/ pc \in {"hello", "recvEnter", "await"},
         FreshOn(c)', c = cur => Greets'
  PROVE  FreshInv'
<1>1. cur \in Nat
  BY ConnAssumption DEF ConnAssumption, TypeOK, DialerTypeOK, RunTypeOK
<1>2. \A d \in Conns : FreshOn(d)'
  BY <1>1, FreshElsewhere DEF FreshInv
<1>3. CASE c # cur
  <2>1. pc \in {"hello", "recvEnter", "await"} => cur \in Conns
    BY DEF TypeOK, DialerTypeOK, RunTypeOK
  <2>2. Greets'
    BY <1>3, <2>1 DEF FreshInv, Greets, Msg
  <2> QED
    BY <1>2, <2>2 DEF FreshInv
<1> QED
  BY <1>2, <1>3 DEF FreshInv

\* There is no connection yet.
LEMMA InitFresh == Init => FreshInv
<1> SUFFICES ASSUME Init PROVE FreshInv
  OBVIOUS
<1>1. ASSUME NEW c \in Conns PROVE FreshOn(c)
  <2>1. /\ down[c] = <<>> /\ srv[c] = "none" /\ reader[c] = "off"
        /\ recvCh[c] = <<>>
    BY DEF Init, ConnInit, SinkInit, ListenerInit, DialerInit
  <2> QED
    BY <2>1 DEF FreshOn
<1>2. Greets
  BY DEF Init, DialerInit, Greets
<1> QED
  BY <1>1, <1>2 DEF FreshInv

\* The listener answers once, after the Hello (handleWS), and the dialer reads
\* that answer itself before it starts a reader (runOnce, stream).
LEMMA NextFresh == TypeOK /\ HandshakeInv /\ FreshInv /\ [Next]_vars => FreshInv'
<1> SUFFICES ASSUME TypeOK, HandshakeInv, FreshInv, [Next]_vars PROVE FreshInv'
  OBVIOUS
<1>t. /\ up \in [Conns -> Seq(Message)] /\ down \in [Conns -> Seq(Message)]
      /\ srv \in [Conns -> ServerStates] /\ reader \in [Conns -> ReaderStates]
      /\ recvCh \in [Conns -> Seq(Message)] /\ cur \in 0 .. (MaxBreaks + 1)
  BY DEF TypeOK, DialerTypeOK, ConnTypeOK, SinkTypeOK, ListenerTypeOK, RunTypeOK,
     ReaderTypeOK
<1>c. pc \notin {"start", "backoff", "dial", "done"} => cur \in Conns
  BY DEF TypeOK, DialerTypeOK, RunTypeOK
<1>h. \A d \in Conns : HandshakeOn(d)
  BY DEF HandshakeInv
<1>f. \A d \in Conns : FreshOn(d)
  BY DEF FreshInv
<1>1. CASE CallerStep /\ UNCHANGED sinkVars
  BY <1>1, FreshFrame
  DEF CallerStep, Submit, Retry, SendBatch, TakeAck, TakeNack, sinkVars, connVars,
      runVars, readerVars
<1>2. CASE Cancel /\ UNCHANGED <<sinkVars, callerVars>>
  BY <1>2, FreshFrame DEF Cancel, sinkVars, connVars, runVars, readerVars
<1>3. CASE UNCHANGED vars
  BY <1>3, FreshFrame DEF vars, sinkVars, connVars, dialerVars, runVars, readerVars
<1>4. CASE (\/ RunStart \/ BackoffElapsed \/ BackoffCancelled \/ DialFails)
           /\ UNCHANGED <<sinkVars, callerVars>>
  BY <1>4, FreshFrame
  DEF RunStart, BackoffElapsed, BackoffCancelled, DialFails, sinkVars, connVars,
      readerVars
<1>5. CASE (SendHelloFails \/ RecvEnter \/ RecvHelloAckFails)
           /\ UNCHANGED <<sinkVars, callerVars>>
  BY <1>5, FreshFrame
  DEF SendHelloFails, RecvEnter, RecvHelloAckFails, Lost, sinkVars, readerVars
<1>6. CASE (StreamCancelled \/ StreamRecvErr \/ WriteBatchFails)
           /\ UNCHANGED <<sinkVars, callerVars>>
  BY <1>6, FreshFrame
  DEF StreamCancelled, StreamRecvErr, WriteBatchFails, Lost, sinkVars, readerVars
<1>7. CASE (Deliver \/ StreamTake) /\ UNCHANGED <<sinkVars, callerVars>>
  BY <1>7, FreshFrame DEF Deliver, StreamTake, sinkVars, connVars, readerVars
<1>8. CASE Connect /\ UNCHANGED callerVars
  <2>0. PICK n \in Conns : n = cur + 1
    BY <1>8, ConnAssumption
    DEF ConnAssumption, Connect, Dial, TypeOK, DialerTypeOK, RunTypeOK, Conns
  <2>1. /\ cur' = n /\ srv[n] = "none" /\ srv' = [srv EXCEPT ![n] = "hello"]
        /\ UNCHANGED <<up, down, reader, recvCh>>
    BY <1>8, <2>0 DEF Connect, Dial, Upgrade, readerVars
  <2>2. n \in Nat /\ cur \in Nat /\ n > cur
    BY <1>t, <2>0, ConnAssumption DEF ConnAssumption, Conns
  <2>3. up[n] = <<>> /\ down[n] = <<>> /\ reader[n] = "off"
    BY <1>h, <1>f, <2>1, <2>2 DEF HandshakeOn, FreshOn
  <2>4. srv'[n] = "hello"
    BY <1>t, <2>1
  <2>5. FreshOn(n)'
    BY <1>f, <2>1, <2>2, <2>3, <2>4 DEF FreshOn
  <2>6. \A d \in Conns \ {n} : FreshOn(d)'
    BY <1>t, <1>f, <2>1, <2>2, FreshElsewhere
  <2>7. Greets'
    BY <2>1, <2>3, <2>4 DEF Greets, Msg
  <2> QED
    BY <2>5, <2>6, <2>7 DEF FreshInv
<1>9. CASE (SendHello \/ WriteBatch) /\ UNCHANGED <<sinkVars, callerVars>>
  <2>1. PICK m \in {Msg("hello", 0), Msg("change_batch", inflight)} :
          /\ cur \in Conns /\ up' = Put(up, cur, m)
          /\ UNCHANGED <<down, srv, reader, recvCh, cur>>
          /\ pc' = "stream" \/ (pc = "hello" /\ m = Msg("hello", 0))
    BY <1>9, <1>c DEF SendHello, WriteBatch, sinkVars, readerVars
  <2>2. FreshOn(cur)'
    BY <1>f, <2>1 DEF FreshOn
  <2>3. \A d \in Conns \ {cur} : up'[d] = up[d]
    BY <1>t, <2>1 DEF Put
  <2>4. CASE pc' = "stream"
    BY <2>1, <2>2, <2>3, <2>4, FreshStep DEF Greets
  <2>5. CASE pc = "hello" /\ m = Msg("hello", 0)
    <3>1. up[cur] = <<>>
      BY <2>5 DEF HandshakeInv
    <3>2. up'[cur] \in {<<>>, <<Msg("hello", 0)>>}
      BY <1>t, <2>1, <2>5, <3>1 DEF Put
    <3>3. Greets'
      BY <2>1, <2>5, <3>2 DEF FreshInv, Greets, Msg
    <3> QED
      BY <2>1, <2>2, <2>3, <2>5, <3>3, FreshStep
  <2> QED
    BY <2>1, <2>4, <2>5
<1>10. CASE RecvHelloAck /\ UNCHANGED <<sinkVars, callerVars>>
  <2>1. /\ cur \in Conns /\ CanRecv(down, cur) /\ down' = Take(down, cur)
        /\ UNCHANGED <<up, srv, recvCh, cur>>
        /\ pc' \notin {"hello", "recvEnter", "await"}
        /\ \/ reader' = reader
           \/ reader' = [reader EXCEPT ![cur] = "enter"]
    BY <1>10, <1>c DEF RecvHelloAck, Lost, sinkVars
  <2>2. down[cur] # <<>>
    BY <2>1 DEF CanRecv
  <2>3. srv[cur] \notin {"none", "hello", "accept", "reject"}
    BY <1>f, <2>1, <2>2 DEF FreshOn
  <2>4. FreshOn(cur)'
    BY <1>t, <1>f, <2>1, <2>3 DEF FreshOn
  <2>5. \A d \in Conns \ {cur} : down'[d] = down[d] /\ reader'[d] = reader[d]
    BY <1>t, <2>1 DEF Take
  <2> QED
    BY <2>1, <2>4, <2>5, FreshStep DEF Greets
<1>11. CASE StreamAnswer /\ UNCHANGED <<sinkVars, callerVars>>
  <2>1. /\ cur \in Conns /\ CanRecv(recvCh, cur) /\ recvCh' = Take(recvCh, cur)
        /\ UNCHANGED <<up, down, srv, reader, cur>> /\ pc' = "deliver"
    BY <1>11, <1>c DEF StreamAnswer, sinkVars, connVars
  <2>2. recvCh[cur] # <<>>
    BY <2>1 DEF CanRecv
  <2>3. FreshOn(cur)'
    BY <1>f, <2>1, <2>2 DEF FreshOn
  <2>4. \A d \in Conns \ {cur} : recvCh'[d] = recvCh[d]
    BY <1>t, <2>1 DEF Take
  <2> QED
    BY <2>1, <2>3, <2>4, FreshStep DEF Greets
<1>12. ASSUME NEW c \in Conns, ReaderStep(c), UNCHANGED <<sinkVars, callerVars>>
       PROVE  FreshInv'
  <2>1. /\ UNCHANGED <<up, srv, pc, cur>>
        /\ reader[c] # "off"
        /\ \E r \in ReaderStates \ {"off"} : reader' = [reader EXCEPT ![c] = r]
        /\ down' = down \/ (CanRecv(down, c) /\ down' = Take(down, c))
        /\ recvCh' = recvCh \/ recvCh' = [recvCh EXCEPT ![c] = Append(@, hand[c])]
    BY <1>12 DEF ReaderStep, ReaderEnter, ReaderRecv, ReaderPut, ReaderFails,
      ReaderStates, sinkVars, runVars, connVars
  <2>2. reader'[c] # "off" /\ \A d \in Conns \ {c} : reader'[d] = reader[d]
    BY <1>t, <2>1
  <2>3. srv[c] \in {"none", "hello", "accept", "reject"} => down' = down
    BY <1>f, <2>1 DEF FreshOn, CanRecv
  <2>4. FreshOn(c)'
    BY <1>f, <2>1, <2>2, <2>3 DEF FreshOn
  <2>5. \A d \in Conns \ {c} : down'[d] = down[d] /\ recvCh'[d] = recvCh[d]
    BY <1>t, <2>1 DEF Take
  <2>6. c = cur => Greets'
    BY <2>1 DEF FreshInv, Greets
  <2> QED
    BY <2>1, <2>2, <2>4, <2>5, <2>6, FreshStep
<1>13. ASSUME NEW c \in Conns, Break(c), UNCHANGED <<dialerVars, sinkVars, callerVars>>
       PROVE  FreshInv'
  BY <1>13, FreshFrame DEF Break, dialerVars, sinkVars, runVars, readerVars
<1>14. CASE ListenerLife /\ UNCHANGED <<dialerVars, callerVars>>
  BY <1>14, FreshFrame
  DEF ListenerLife, ServerStep, connVars, dialerVars, runVars, readerVars
<1>15. ASSUME NEW c \in Conns, SinkStep(c), UNCHANGED <<dialerVars, callerVars>>
       PROVE  FreshInv'
  <2>1. UNCHANGED <<reader, recvCh, pc, cur>>
    BY <1>15 DEF dialerVars, readerVars, runVars
  <2>2. CASE \/ RecvBatchFails(c) \/ ApplyOK(c) \/ ApplyFails(c) \/ CommitUnknown(c)
             \/ ReplyFails(c) \/ RecvHelloFails(c) \/ AcceptFails(c)
    <3>1. PICK t \in {"reply", "returned", "closed"} :
            /\ srv' = [srv EXCEPT ![c] = t] /\ srv[c] # "none"
            /\ t = "reply" => srv[c] = "apply"
      BY <2>2 DEF RecvBatchFails, ApplyOK, ApplyFails, CommitUnknown, AnswerWith,
        ReplyFails, RecvHelloFails, AcceptFails, CloseConn
    <3>2. UNCHANGED <<up, down>>
      BY <2>2 DEF RecvBatchFails, ApplyOK, ApplyFails, CommitUnknown, AnswerWith,
        ReplyFails, RecvHelloFails, AcceptFails, connVars
    <3>3. srv'[c] = t /\ \A d \in Conns \ {c} : srv'[d] = srv[d]
      BY <1>t, <3>1
    <3>4. FreshOn(c)'
      BY <1>f, <2>1, <3>1, <3>2, <3>3 DEF FreshOn
    <3>5. c = cur => Greets'
      BY <2>1, <3>1, <3>2, <3>3 DEF FreshInv, Greets, Msg
    <3> QED
      BY <2>1, <3>2, <3>3, <3>4, <3>5, FreshStep
  <2>3. CASE RecvBatch(c) \/ RecvHello(c)
    <3>1. /\ CanRecv(up, c) /\ up' = Take(up, c) /\ UNCHANGED down
          /\ \/ srv[c] = "recv" /\ srv' = [srv EXCEPT ![c] = "apply"]
             \/ srv[c] = "hello" /\ srv' = [srv EXCEPT ![c] = "accept"]
             \/ srv[c] = "hello" /\ srv' = [srv EXCEPT ![c] = "reject"]
      BY <2>3 DEF RecvBatch, RecvHello
    <3>2. srv'[c] \in {"apply", "accept", "reject"} /\ (srv'[c] = "apply" <=> srv[c] = "recv")
      BY <1>t, <3>1
    <3>3. \A d \in Conns \ {c} : srv'[d] = srv[d] /\ up'[d] = up[d]
      BY <1>t, <3>1 DEF Take
    <3>4. FreshOn(c)'
      BY <1>f, <2>1, <3>1, <3>2 DEF FreshOn
    <3>5. ASSUME c = cur, pc \in {"hello", "recvEnter", "await"}
          PROVE  srv[c] # "recv" /\ up'[c] = <<>>
      <4>1. up[c] = <<Msg("hello", 0)>>
        BY <3>1, <3>5 DEF FreshInv, Greets, CanRecv
      <4>2. up'[c] = <<>>
        BY <1>t, <3>1, <4>1 DEF Take
      <4>3. Head(up[c]).type = "hello"
        BY <4>1 DEF Msg
      <4>4. ASSUME srv[c] = "recv" PROVE FALSE
        <5>1. up[c] \in Seq(BatchFrames)
          BY <1>h, <4>4 DEF HandshakeOn, Serving
        <5>2. Head(up[c]) \in BatchFrames
          BY <3>1, <5>1, HeadTail DEF CanRecv
        <5> QED
          BY <4>3, <5>2 DEF BatchFrames
      <4> QED
        BY <4>2, <4>4
    <3>6. c = cur => Greets'
      BY <2>1, <3>1, <3>2, <3>5 DEF FreshInv, Greets, Msg
    <3> QED
      BY <2>1, <3>1, <3>3, <3>4, <3>6, FreshStep
  <2>4. CASE Reply(c) \/ Reject(c) \/ Accept(c)
    <3>1. PICK m \in Message : down' = Put(down, c, m)
      BY <1>h, <2>4, MessageFacts DEF Reply, Reject, Accept, HandshakeOn
    <3>2. PICK t \in {"recv", "closed"} : srv' = [srv EXCEPT ![c] = t]
      BY <2>4 DEF Reply, Reject, Accept, CloseConn
    <3>3. UNCHANGED up /\ srv[c] \in {"reply", "reject", "accept"}
      BY <2>4 DEF Reply, Reject, Accept
    <3>4. srv'[c] = t /\ \A d \in Conns \ {c} : srv'[d] = srv[d] /\ down'[d] = down[d]
      BY <1>t, <3>1, <3>2 DEF Put
    <3>5. FreshOn(c)'
      BY <1>f, <2>1, <3>3, <3>4 DEF FreshOn
    <3>6. ASSUME c = cur, pc \in {"hello", "recvEnter", "await"}
          PROVE  Len(down'[c]) <= 1
      <4>1. down[c] = <<>>
        BY <1>f, <3>3, <3>6 DEF FreshOn, FreshInv, Greets
      <4>2. <<>> \in Seq(Message) /\ Len(<<>>) = 0
        OBVIOUS
      <4>3. /\ Append(<<>>, m) \in Seq(Message)
            /\ Len(Append(<<>>, m)) = 1
        BY <4>2, AppendLen
      <4>4. down'[c] = <<>> \/ down'[c] = Append(<<>>, m)
        BY <1>t, <3>1, <4>1 DEF Put
      <4>5. CASE down'[c] = <<>>
        BY <4>2, <4>5
      <4>6. CASE down'[c] = Append(<<>>, m)
        BY <4>3, <4>6
      <4> QED
        BY <4>4, <4>5, <4>6
    <3>7. c = cur => Greets'
      BY <2>1, <3>3, <3>4, <3>6 DEF FreshInv, Greets, Msg
    <3> QED
      BY <2>1, <3>3, <3>4, <3>5, <3>7, FreshStep
  <2> QED
    BY <1>15, <2>2, <2>3, <2>4 DEF SinkStep, HandlerStep, ListenerStep
<1> QED
  BY <1>1, <1>2, <1>3, <1>4, <1>5, <1>6, <1>7, <1>8, <1>9, <1>10, <1>11, <1>12,
     <1>13, <1>14, <1>15
  DEF Next, CallerStep, DialerStep, RunStep, Terminated

-----------------------------------------------------------------------------
(* The places of a batch, one by one.                                      *)

\* A message joins a queue that has none of its id.
LEMMA AppendMsg ==
  ASSUME NEW S, NEW s \in Seq(S), NEW m \in S, SingleIds(s), m.id \notin Ids(s)
  PROVE  /\ Ids(Append(s, m)) \subseteq Ids(s) \cup {m.id}
         /\ SingleIds(Append(s, m))
<1> DEFINE t == Append(s, m)
<1>1. /\ Len(s) \in Nat /\ DOMAIN s = 1 .. Len(s)
      /\ DOMAIN t = 1 .. (Len(s) + 1) /\ t[Len(s) + 1] = m
      /\ \A i \in 1 .. Len(s) : t[i] = s[i]
  OBVIOUS
<1> HIDE DEF t
<1>2. Ids(t) \subseteq Ids(s) \cup {m.id}
  BY <1>1 DEF Ids
<1>3. SingleIds(t)
  BY <1>1 DEF Ids, SingleIds
<1> QED
  BY <1>2, <1>3 DEF t

\* Conn.Send adds a message that is not in the queue, if it adds any.
LEMMA PutIds ==
  ASSUME NEW q, q \in [Conns -> Seq(Message)], NEW c \in Conns, NEW m \in Message,
         SingleIds(q[c]), m.id \notin Ids(q[c])
  PROVE  /\ Ids(Put(q, c, m)[c]) \subseteq Ids(q[c]) \cup {m.id}
         /\ SingleIds(Put(q, c, m)[c])
<1>1. Put(q, c, m)[c] \in {q[c], Append(q[c], m)}
  BY DEF Put
<1>2. /\ Ids(Append(q[c], m)) \subseteq Ids(q[c]) \cup {m.id}
      /\ SingleIds(Append(q[c], m))
  BY AppendMsg
<1> QED
  BY <1>1, <1>2

\* Conn.Recv removes the message it returns.
LEMMA TakeIds ==
  ASSUME NEW q, q \in [Conns -> Seq(Message)], NEW c \in Conns, CanRecv(q, c),
         SingleIds(q[c])
  PROVE  /\ Head(q[c]).id \in Ids(q[c])
         /\ Ids(Take(q, c)[c]) \subseteq Ids(q[c]) \ {Head(q[c]).id}
         /\ SingleIds(Take(q, c)[c])
<1> DEFINE s == q[c]
           t == Tail(s)
<1>1. /\ Len(s) \in Nat /\ Len(s) > 0 /\ DOMAIN s = 1 .. Len(s)
      /\ Head(s) = s[1] /\ DOMAIN t = 1 .. (Len(s) - 1)
      /\ \A i \in 1 .. (Len(s) - 1) : t[i] = s[i + 1]
  BY DEF CanRecv
<1>2. Take(q, c)[c] = t /\ SingleIds(s)
  BY DEF Take
<1> HIDE DEF s, t
<1>a. \A i \in 1 .. (Len(s) - 1) :
        i + 1 \in DOMAIN s /\ i + 1 # 1 /\ t[i].id = s[i + 1].id
  BY <1>1
<1>b. 1 \in DOMAIN s /\ Head(s).id = s[1].id
  BY <1>1
<1>3. ASSUME NEW i \in 1 .. (Len(s) - 1)
      PROVE  t[i].id \in Ids(s) /\ t[i].id # Head(s).id
  BY <1>a, <1>b, <1>2 DEF SingleIds, Ids
<1>4. Ids(t) \subseteq Ids(s) \ {Head(s).id}
  BY <1>1, <1>3 DEF Ids
<1>5. SingleIds(t)
  <2> SUFFICES ASSUME NEW i \in 1 .. (Len(s) - 1), NEW j \in 1 .. (Len(s) - 1),
                      t[i].id = t[j].id
               PROVE  i = j
    BY <1>1 DEF SingleIds
  <2>1. i + 1 = j + 1
    BY <1>a, <1>2 DEF SingleIds
  <2> QED
    BY <2>1
<1>6. Head(s).id \in Ids(s)
  BY <1>b DEF Ids
<1> QED
  BY <1>2, <1>4, <1>5, <1>6 DEF s

\* The only message leaves nothing behind.
LEMMA OneLeft ==
  ASSUME NEW S, NEW s \in Seq(S), Len(s) <= 1, s # <<>>
  PROVE  Tail(s) = <<>>
<1> DEFINE n == Len(s)
<1>1. n \in Nat /\ n # 0 /\ n <= 1
  OBVIOUS
<1> HIDE DEF n
<1>2. n = 1
  BY <1>1
<1>3. Tail(s) \in Seq(S) /\ Len(Tail(s)) = n - 1
  BY <1>1 DEF n
<1>4. Len(Tail(s)) = 0
  BY <1>2, <1>3
<1> QED
  BY <1>3, <1>4, EmptySeq

\* The definition of Copies, now and after a step.
LEMMA CopiesAt ==
  /\ Copies["send"] = IdsOf(sendCh)
  /\ Copies["write"] = IF pc = "write" THEN {inflight} ELSE {}
  /\ Copies["up"] = IF Streaming THEN Ids(up[cur]) ELSE {}
  /\ Copies["work"] = IF Streaming /\ srv[cur] \in {"apply", "reply"}
                        THEN {work[cur].id} ELSE {}
  /\ Copies["down"] = IF Streaming THEN Ids(down[cur]) ELSE {}
  /\ Copies["hand"] = IF Streaming /\ reader[cur] = "holding"
                        THEN {hand[cur].id} ELSE {}
  /\ Copies["recv"] = IF Streaming THEN Ids(recvCh[cur]) ELSE {}
  /\ Copies["resp"] = IF pc = "deliver" THEN {resp.id} ELSE {}
  /\ Copies["acks"] = IdsOf(acks)
  /\ Copies["nacks"] = IdsOf(nacks)
  /\ Copies["redo"] = redo
  /\ Copies["acked"] = acked
  BY DEF Copies

LEMMA CopiesAtNext ==
  /\ Copies'["send"] = IdsOf(sendCh')
  /\ Copies'["write"] = IF pc' = "write" THEN {inflight'} ELSE {}
  /\ Copies'["up"] = IF Streaming' THEN Ids(up'[cur']) ELSE {}
  /\ Copies'["work"] = IF Streaming' /\ srv'[cur'] \in {"apply", "reply"}
                         THEN {work'[cur'].id} ELSE {}
  /\ Copies'["down"] = IF Streaming' THEN Ids(down'[cur']) ELSE {}
  /\ Copies'["hand"] = IF Streaming' /\ reader'[cur'] = "holding"
                         THEN {hand'[cur'].id} ELSE {}
  /\ Copies'["recv"] = IF Streaming' THEN Ids(recvCh'[cur']) ELSE {}
  /\ Copies'["resp"] = IF pc' = "deliver" THEN {resp'.id} ELSE {}
  /\ Copies'["acks"] = IdsOf(acks')
  /\ Copies'["nacks"] = IdsOf(nacks')
  /\ Copies'["redo"] = redo'
  /\ Copies'["acked"] = acked'
  BY DEF Copies, IdsOf, Ids, Streaming

\* A batch that is not in flight moves within the source.
LEMMA InflightKept ==
  ASSUME InflightInv, UNCHANGED inflight, Streaming' = Streaming,
         submitted \in Nat, submitted' \in Nat, submitted' >= submitted,
         NEW b, b # inflight,
         \A r \in AtSource : Copies'[r] \subseteq Copies[r] \cup {b}
  PROVE  InflightInv'
<1>1. inflight # 0 => \A p \in AtSource : inflight' \notin Copies'[p]
  BY DEF InflightInv
<1> QED
  BY <1>1 DEF InflightInv, AtSource

\* A step that moves no batch.
LEMMA CopyFrame ==
  ASSUME OneCopy, InflightInv,
         UNCHANGED <<sendCh, acks, nacks, redo, acked, submitted, inflight, resp>>,
         UNCHANGED <<pc, cur>>,
         Streaming =>
           /\ up'[cur] = up[cur] /\ down'[cur] = down[cur]
           /\ recvCh'[cur] = recvCh[cur]
           /\ srv'[cur] \in {"apply", "reply"} =>
                srv[cur] \in {"apply", "reply"} /\ work'[cur].id = work[cur].id
           /\ reader'[cur] = "holding" =>
                reader[cur] = "holding" /\ hand'[cur] = hand[cur]
  PROVE  OneCopy' /\ InflightInv'
<1>1. Streaming' = Streaming
  BY DEF Streaming
<1>2. \A r \in Places : Copies'[r] \subseteq Copies[r]
  BY <1>1, CopiesAt, CopiesAtNext DEF Places
<1>3. Apart(Copies', submitted)
  BY <1>2, Shrink DEF OneCopy
<1>4. OneCopy'
  BY <1>1, <1>3 DEF OneCopy, Apart, Single, SingleIds
<1>5. InflightInv'
  BY <1>1, <1>2 DEF InflightInv, AtSource, Places
<1> QED
  BY <1>4, <1>5

\* A step of Run while there is no stream.
LEMMA CopyQuiet ==
  ASSUME OneCopy, InflightInv, ~Streaming, ~Streaming',
         UNCHANGED <<sendCh, acks, nacks, redo, acked, submitted>>,
         inflight' \in {0, inflight}
  PROVE  OneCopy' /\ InflightInv'
<1>1. pc' \notin {"write", "deliver"}
  BY DEF Streaming
<1>2. \A r \in Places : Copies'[r] \subseteq Copies[r]
  BY <1>1, CopiesAt, CopiesAtNext DEF Places
<1>3. Apart(Copies', submitted)
  BY <1>2, Shrink DEF OneCopy
<1>4. OneCopy'
  BY <1>3 DEF OneCopy, Apart, Single, SingleIds
<1>5. InflightInv'
  BY DEF InflightInv
<1> QED
  BY <1>4, <1>5

\* Nobody has called SendBatch yet.
LEMMA InitCopy == Init => OneCopy /\ InflightInv
<1> SUFFICES ASSUME Init PROVE OneCopy /\ InflightInv
  OBVIOUS
<1>1. /\ sendCh = <<>> /\ acks = <<>> /\ nacks = <<>> /\ redo = {} /\ acked = {}
      /\ pc = "start" /\ inflight = 0
  BY DEF Init, DialerInit
<1>2. ~Streaming
  BY <1>1 DEF Streaming
<1>3. \A r \in Places : Copies[r] = {}
  BY <1>1, <1>2, CopiesAt DEF Places, IdsOf
<1> QED
  BY <1>1, <1>2, <1>3 DEF OneCopy, Apart, Single, InflightInv

-----------------------------------------------------------------------------
(* The caller moves batches between the channels of the Dialer.            *)

\* It leaves the stream alone.
LEMMA CopyCaller ==
  ASSUME OneCopy,
         UNCHANGED <<pc, cur, inflight, resp, up, down, srv, work, reader, hand,
                     recvCh>>
  PROVE  /\ Streaming' = Streaming
         /\ \A r \in Places \ {"send", "acks", "nacks", "redo", "acked"} :
              Copies'[r] = Copies[r]
         /\ Streaming' => /\ SingleIds(up'[cur']) /\ SingleIds(down'[cur'])
                          /\ SingleIds(recvCh'[cur'])
<1>1. Streaming' = Streaming
  BY DEF Streaming
<1>2. \A r \in Places \ {"send", "acks", "nacks", "redo", "acked"} :
        Copies'[r] = Copies[r]
  BY <1>1, CopiesAt, CopiesAtNext DEF Places
<1> QED
  BY <1>1, <1>2 DEF OneCopy

\* SendBatch of a batch that was not submitted before, or that was rejected.
LEMMA CallerCopy ==
  ASSUME TypeOK, OneCopy, InflightInv, CallerStep, UNCHANGED sinkVars
  PROVE  OneCopy' /\ InflightInv'
<1>t. /\ sendCh \in Seq(Batches) /\ acks \in Seq(Batches) /\ nacks \in Seq(Batches)
      /\ submitted \in Nat /\ submitted + 1 \in Nat
  BY DEF TypeOK, DialerTypeOK, ChanTypeOK, CallerTypeOK
<1>f. UNCHANGED <<pc, cur, inflight, resp, up, down, srv, work, reader, hand, recvCh>>
  BY DEF CallerStep, Submit, Retry, SendBatch, TakeAck, TakeNack, sinkVars, connVars,
     runVars, readerVars
<1>s. /\ Streaming' = Streaming
      /\ \A r \in Places \ {"send", "acks", "nacks", "redo", "acked"} :
           Copies'[r] = Copies[r]
      /\ Streaming' => /\ SingleIds(up'[cur']) /\ SingleIds(down'[cur'])
                       /\ SingleIds(recvCh'[cur'])
  BY <1>f, CopyCaller
<1>o. /\ Apart(Copies, submitted) /\ Single(sendCh) /\ Single(acks) /\ Single(nacks)
  BY DEF OneCopy
<1>i. inflight # 0 =>
        inflight \in 1 .. submitted /\ \A r \in AtSource : inflight \notin Copies[r]
  BY DEF InflightInv
<1>1. CASE Submit
  <2> DEFINE b == submitted + 1
  <2>1. /\ sendCh' = Append(sendCh, b) /\ submitted' = b /\ b \in Batches
        /\ UNCHANGED <<acks, nacks, redo, acked>>
    BY <1>1, <1>t, ConnAssumption DEF Submit, SendBatch, Batches, ConnAssumption
  <2>2. b \notin 1 .. submitted /\ b \in 1 .. b /\ submitted <= b
    BY <1>t
  <2> HIDE DEF b
  <2>3. \A r \in Places : b \notin Copies[r]
    BY <1>o, <2>2 DEF Apart
  <2>4. IdsOf(sendCh') = IdsOf(sendCh) \cup {b} /\ Single(sendCh')
    BY <1>t, <1>o, <2>1, <2>3, AppendIds, CopiesAt DEF Places
  <2>5. /\ Copies'["send"] = Copies["send"] \cup {b}
        /\ \A r \in Places \ {"send"} : Copies'[r] = Copies[r]
    BY <1>s, <2>1, <2>4, CopiesAt, CopiesAtNext DEF Places
  <2>6. b \in Nat /\ "send" \in Places
    BY <1>t, <2>1 DEF Places, Batches
  <2>7. /\ \A r \in Places : b \notin Copies'[r] \/ r = "send"
        /\ \A r \in Places : Copies'[r] \subseteq Copies[r] \cup {b}
    BY <2>3, <2>5
  <2>8. Apart(Copies', b)
    BY <1>t, <1>o, <2>2, <2>6, <2>7, Enter
  <2>9. OneCopy'
    BY <1>s, <1>o, <2>1, <2>4, <2>8 DEF OneCopy, Single
  <2>10. b # inflight
    BY <1>i, <2>2, <2>6 DEF Batches, b
  <2>11. InflightInv'
    BY <1>t, <1>f, <1>s, <2>1, <2>2, <2>6, <2>7, <2>10, InflightKept DEF AtSource, Places
  <2> QED
    BY <2>9, <2>11
<1>2. ASSUME NEW b \in Batches, Retry(b) PROVE OneCopy' /\ InflightInv'
  <2>1. /\ b \in redo /\ redo' = redo \ {b} /\ sendCh' = Append(sendCh, b)
        /\ UNCHANGED <<submitted, acks, nacks, acked>>
    BY <1>2 DEF Retry, SendBatch
  <2>2. b \in Copies["redo"] /\ b \notin Copies["send"]
    BY <1>o, <2>1, CopiesAt DEF Apart, Places
  <2>3. IdsOf(sendCh') = IdsOf(sendCh) \cup {b} /\ Single(sendCh')
    BY <1>t, <1>o, <2>1, <2>2, AppendIds, CopiesAt
  <2>4. /\ Copies'["redo"] = Copies["redo"] \ {b}
        /\ Copies'["send"] = Copies["send"] \cup {b}
        /\ \A r \in Places \ {"redo", "send"} : Copies'[r] = Copies[r]
    BY <1>s, <2>1, <2>3, CopiesAt, CopiesAtNext DEF Places
  <2>5. Apart(Copies', submitted)
    BY <1>o, <2>2, <2>4, Move DEF Places
  <2>6. OneCopy'
    BY <1>s, <1>o, <2>1, <2>3, <2>5 DEF OneCopy, Single
  <2>7. b # inflight
    BY <1>i, <2>2, ConnAssumption DEF AtSource, Batches, ConnAssumption
  <2>8. \A r \in AtSource : Copies'[r] \subseteq Copies[r] \cup {b}
    BY <2>4 DEF AtSource, Places
  <2>9. submitted' \in Nat /\ submitted' >= submitted
    BY <1>t, <2>1
  <2>10. InflightInv'
    BY <1>t, <1>f, <1>s, <2>7, <2>8, <2>9, InflightKept
  <2> QED
    BY <2>6, <2>10
<1>3. CASE TakeAck
  <2>1. /\ acks # <<>> /\ acks' = Tail(acks) /\ acked' = acked \cup {Head(acks)}
        /\ UNCHANGED <<submitted, sendCh, nacks, redo>>
    BY <1>3 DEF TakeAck
  <2> DEFINE b == Head(acks)
  <2>2. b \in IdsOf(acks) /\ IdsOf(acks') \subseteq IdsOf(acks) \ {b} /\ Single(acks')
    BY <1>t, <1>o, <2>1, TailIds
  <2>3. acked' = acked \cup {b} /\ b \in Batches
    BY <1>t, <2>1, HeadTail
  <2> HIDE DEF b
  <2>4. /\ b \in Copies["acks"] /\ Copies'["acks"] \subseteq Copies["acks"] \ {b}
        /\ Copies'["acked"] = Copies["acked"] \cup {b}
        /\ \A r \in Places \ {"acks", "acked"} : Copies'[r] = Copies[r]
    BY <1>s, <2>1, <2>2, <2>3, CopiesAt, CopiesAtNext DEF Places
  <2>5. Apart(Copies', submitted)
    BY <1>o, <2>4, Move DEF Places
  <2>6. OneCopy'
    BY <1>s, <1>o, <2>1, <2>2, <2>5 DEF OneCopy, Single
  <2>7. b # inflight
    BY <1>i, <2>3, <2>4, ConnAssumption DEF AtSource, Batches, ConnAssumption
  <2>8. \A r \in AtSource : Copies'[r] \subseteq Copies[r] \cup {b}
    BY <2>4 DEF AtSource, Places
  <2>9. submitted' \in Nat /\ submitted' >= submitted
    BY <1>t, <2>1
  <2>10. InflightInv'
    BY <1>t, <1>f, <1>s, <2>7, <2>8, <2>9, InflightKept
  <2> QED
    BY <2>6, <2>10
<1>4. CASE TakeNack
  <2>1. /\ nacks # <<>> /\ nacks' = Tail(nacks) /\ redo' = redo \cup {Head(nacks)}
        /\ UNCHANGED <<submitted, sendCh, acks, acked>>
    BY <1>4 DEF TakeNack
  <2> DEFINE b == Head(nacks)
  <2>2. b \in IdsOf(nacks) /\ IdsOf(nacks') \subseteq IdsOf(nacks) \ {b} /\ Single(nacks')
    BY <1>t, <1>o, <2>1, TailIds
  <2>3. redo' = redo \cup {b} /\ b \in Batches
    BY <1>t, <2>1, HeadTail
  <2> HIDE DEF b
  <2>4. /\ b \in Copies["nacks"] /\ Copies'["nacks"] \subseteq Copies["nacks"] \ {b}
        /\ Copies'["redo"] = Copies["redo"] \cup {b}
        /\ \A r \in Places \ {"nacks", "redo"} : Copies'[r] = Copies[r]
    BY <1>s, <2>1, <2>2, <2>3, CopiesAt, CopiesAtNext DEF Places
  <2>5. Apart(Copies', submitted)
    BY <1>o, <2>4, Move DEF Places
  <2>6. OneCopy'
    BY <1>s, <1>o, <2>1, <2>2, <2>5 DEF OneCopy, Single
  <2>7. b # inflight
    BY <1>i, <2>3, <2>4, ConnAssumption DEF AtSource, Batches, ConnAssumption
  <2>8. \A r \in AtSource : Copies'[r] \subseteq Copies[r] \cup {b}
    BY <2>4 DEF AtSource, Places
  <2>9. submitted' \in Nat /\ submitted' >= submitted
    BY <1>t, <2>1
  <2>10. InflightInv'
    BY <1>t, <1>f, <1>s, <2>7, <2>8, <2>9, InflightKept
  <2> QED
    BY <2>6, <2>10
<1> QED
  BY <1>1, <1>2, <1>3, <1>4 DEF CallerStep

-----------------------------------------------------------------------------
(* The stream.                                                             *)

\* stream() returns: what was in flight, if it fits, is in d.send again, and
\* nothing of the connection will be heard of.
LEMMA LossCopy ==
  ASSUME TypeOK, OneCopy, InflightInv, pc \in {"stream", "write"}, Lost,
         sendCh' = Requeued, UNCHANGED <<acks, nacks, redo, acked, submitted>>
  PROVE  OneCopy' /\ InflightInv'
<1>t. /\ sendCh \in Seq(Batches) /\ submitted \in Nat /\ inflight \in 0 .. MaxBatch
  BY DEF TypeOK, DialerTypeOK, ChanTypeOK, RunTypeOK, CallerTypeOK
<1>o. Apart(Copies, submitted) /\ Single(sendCh) /\ Single(acks) /\ Single(nacks)
  BY DEF OneCopy
<1>1. pc' \in {"backoff", "done"} /\ inflight' = 0 /\ ~Streaming'
  BY DEF Lost, Streaming
<1>2. InflightInv'
  BY <1>1 DEF InflightInv
<1>3. /\ \A r \in {"acks", "nacks", "redo", "acked"} : Copies'[r] = Copies[r]
      /\ \A r \in {"write", "up", "work", "down", "hand", "recv", "resp"} :
           Copies'[r] = {}
  BY <1>1, CopiesAt, CopiesAtNext
<1>4. CASE inflight # 0 /\ sendCh' = Append(sendCh, inflight)
  <2> DEFINE b == inflight
  <2>1. /\ b \in 1 .. submitted /\ b \in Batches
        /\ \A r \in AtSource : b \notin Copies[r]
    BY <1>t, <1>4, ConnAssumption DEF InflightInv, Batches, ConnAssumption
  <2>2. IdsOf(sendCh') = IdsOf(sendCh) \cup {b} /\ Single(sendCh')
    BY <1>t, <1>o, <1>4, <2>1, AppendIds, CopiesAt DEF AtSource
  <2>3. Copies'["send"] = Copies["send"] \cup {b}
    BY <2>2, CopiesAt, CopiesAtNext
  <2>4. /\ \A r \in Places : b \notin Copies'[r] \/ r = "send"
        /\ \A r \in Places : Copies'[r] \subseteq Copies[r] \cup {b}
        /\ "send" \in Places
    BY <1>3, <2>1, <2>3 DEF Places, AtSource
  <2>5. submitted <= submitted
    BY <1>t
  <2> HIDE DEF b
  <2>6. Apart(Copies', submitted)
    BY <1>t, <1>o, <2>1, <2>4, <2>5, Enter
  <2>7. OneCopy'
    BY <1>1, <1>o, <2>2, <2>6 DEF OneCopy, Single
  <2> QED
    BY <1>2, <2>7
<1>5. CASE sendCh' = sendCh
  <2>1. \A r \in Places : Copies'[r] \subseteq Copies[r]
    BY <1>3, <1>5, CopiesAt, CopiesAtNext DEF Places
  <2>2. Apart(Copies', submitted)
    BY <1>o, <2>1, Shrink
  <2> QED
    BY <1>1, <1>2, <1>5, <1>o, <2>2 DEF OneCopy, Single
<1> QED
  BY <1>4, <1>5 DEF Requeued

\* stream() starts with nothing on the connection but what it brought along.
LEMMA HelloAckCopy ==
  ASSUME TypeOK, HandshakeInv, OneCopy, InflightInv, FreshInv, RecvHelloAck,
         UNCHANGED <<sinkVars, callerVars>>
  PROVE  OneCopy' /\ InflightInv'
<1>t. /\ up \in [Conns -> Seq(Message)] /\ down \in [Conns -> Seq(Message)]
      /\ reader \in [Conns -> ReaderStates] /\ cur \in Conns
      /\ down[cur] \in Seq(Message)
  BY DEF TypeOK, DialerTypeOK, ConnTypeOK, RunTypeOK, ReaderTypeOK, RecvHelloAck
<1>1. /\ pc = "await" /\ CanRecv(down, cur) /\ down' = Take(down, cur)
      /\ UNCHANGED <<sendCh, acks, nacks, redo, acked, submitted, cur, up, srv, work,
                     recvCh>>
  BY DEF RecvHelloAck, sinkVars, callerVars, chanVars
<1>2. ~Streaming /\ inflight = 0
  BY <1>1 DEF Streaming, InflightInv
<1>3. CASE Head(down[cur]).type = "accept"
  <2>1. pc' = "stream" /\ reader' = [reader EXCEPT ![cur] = "enter"] /\ inflight' = 0
    BY <1>2, <1>3 DEF RecvHelloAck
  <2>2. cur \in Serving
    <3> SUFFICES ASSUME cur \notin Serving PROVE FALSE
      OBVIOUS
    <3>1. down[cur] \in Seq(Refusals)
      BY <1>t DEF HandshakeInv, HandshakeOn
    <3>2. Head(down[cur]) \in Refusals
      BY <1>1, <3>1, HeadTail DEF CanRecv
    <3> QED
      BY <1>3, <3>2 DEF Refusals
  <2>3. up[cur] = <<>>
    <3>1. up[cur] \in Seq(BatchFrames)
      BY <1>t, <2>2 DEF HandshakeInv, HandshakeOn
    <3>2. up[cur] \in {<<>>, <<Msg("hello", 0)>>}
      BY <1>1 DEF FreshInv, Greets
    <3>3. CASE up[cur] = <<Msg("hello", 0)>>
      <4>1. up[cur] # <<>> /\ Head(up[cur]).type = "hello"
        BY <3>3 DEF Msg
      <4>2. Head(up[cur]) \in BatchFrames
        BY <3>1, <4>1, HeadTail
      <4> QED
        BY <4>1, <4>2 DEF BatchFrames
    <3> QED
      BY <3>2, <3>3
  <2>4. down'[cur] = <<>>
    <3>1. Len(down[cur]) <= 1 /\ down[cur] # <<>>
      BY <1>1 DEF FreshInv, Greets, CanRecv
    <3>2. Tail(down[cur]) = <<>>
      BY <1>t, <3>1, OneLeft
    <3> QED
      BY <1>t, <1>1, <3>2 DEF Take
  <2>5. srv[cur] \notin {"apply", "reply"} /\ recvCh[cur] = <<>>
    BY <1>t, <1>1 DEF FreshInv, FreshOn, Greets
  <2>6. reader'[cur] = "enter"
    BY <1>t, <2>1
  <2>7. Streaming' /\ Ids(<<>>) = {} /\ SingleIds(<<>>)
    BY <2>1 DEF Streaming, Ids, SingleIds
  <2>8. \A r \in Places : Copies'[r] \subseteq Copies[r]
    BY <1>1, <2>1, <2>3, <2>4, <2>5, <2>6, <2>7, CopiesAt, CopiesAtNext DEF Places
  <2>9. Apart(Copies', submitted)
    BY <2>8, Shrink DEF OneCopy
  <2>10. OneCopy'
    BY <1>1, <2>3, <2>4, <2>5, <2>7, <2>9 DEF OneCopy, Single
  <2>11. InflightInv'
    BY <2>1 DEF InflightInv
  <2> QED
    BY <2>10, <2>11
<1>4. CASE Head(down[cur]).type # "accept"
  <2>1. pc' \in {"backoff", "done"} /\ inflight' = 0
    BY <1>4 DEF RecvHelloAck, Lost
  <2>2. ~Streaming'
    BY <2>1 DEF Streaming
  <2> QED
    BY <1>1, <1>2, <2>1, <2>2, CopyQuiet
<1> QED
  BY <1>3, <1>4

\* The cases of the select, and the write and the delivery that follow them.
LEMMA StreamCopy ==
  ASSUME TypeOK, OneCopy, InflightInv,
         StreamTake \/ WriteBatch \/ StreamAnswer \/ Deliver,
         UNCHANGED <<sinkVars, callerVars>>
  PROVE  OneCopy' /\ InflightInv'
<1>t. /\ up \in [Conns -> Seq(Message)] /\ recvCh \in [Conns -> Seq(Message)]
      /\ sendCh \in Seq(Batches) /\ acks \in Seq(Batches) /\ nacks \in Seq(Batches)
      /\ submitted \in Nat /\ inflight \in 0 .. MaxBatch /\ cur \in Conns
      /\ pc = "write" => inflight # 0
  BY DEF TypeOK, DialerTypeOK, ConnTypeOK, RunTypeOK, ReaderTypeOK, ChanTypeOK,
     CallerTypeOK, StreamTake, WriteBatch, StreamAnswer, Deliver
<1>f. UNCHANGED <<cur, down, srv, work, reader, hand, redo, acked, submitted>>
  BY DEF StreamTake, WriteBatch, StreamAnswer, Deliver, sinkVars, callerVars, connVars,
     readerVars
<1>s. Streaming /\ Streaming'
  BY DEF StreamTake, WriteBatch, StreamAnswer, Deliver, Streaming
<1>o. /\ Apart(Copies, submitted) /\ Single(sendCh) /\ Single(acks) /\ Single(nacks)
      /\ SingleIds(up[cur]) /\ SingleIds(down[cur]) /\ SingleIds(recvCh[cur])
  BY <1>s DEF OneCopy
<1>i. inflight # 0 =>
        inflight \in 1 .. submitted /\ \A r \in AtSource : inflight \notin Copies[r]
  BY DEF InflightInv
<1>c. \A r \in {"work", "down", "hand", "redo", "acked"} : Copies'[r] = Copies[r]
  BY <1>f, <1>s, CopiesAt, CopiesAtNext
<1>1. CASE StreamTake
  <2> DEFINE b == Head(sendCh)
  <2>1. /\ pc = "stream" /\ pc' = "write" /\ sendCh # <<>> /\ sendCh' = Tail(sendCh)
        /\ inflight' = b /\ UNCHANGED <<acks, nacks, resp, up, recvCh>>
    BY <1>1 DEF StreamTake, connVars, readerVars
  <2>2. b \in IdsOf(sendCh) /\ IdsOf(sendCh') \subseteq IdsOf(sendCh) \ {b} /\ Single(sendCh')
    BY <1>t, <1>o, <2>1, TailIds
  <2> HIDE DEF b
  <2>3. /\ b \in Copies["send"] /\ Copies'["send"] \subseteq Copies["send"] \ {b}
        /\ Copies'["write"] = {b}
        /\ \A r \in Places \ {"send", "write"} : Copies'[r] = Copies[r]
    BY <1>c, <1>f, <1>s, <2>1, <2>2, CopiesAt, CopiesAtNext DEF Places
  <2>4. Apart(Copies', submitted)
    BY <1>o, <2>3, Move DEF Places
  <2>5. OneCopy'
    BY <1>f, <1>o, <2>1, <2>2, <2>4 DEF OneCopy, Single, SingleIds
  <2>6. b \in 1 .. submitted
    BY <1>o, <2>3 DEF Apart, Places
  <2>7. \A r \in AtSource : b \notin Copies'[r]
    BY <2>3, <2>4 DEF Apart, Places, AtSource
  <2> QED
    BY <1>f, <1>s, <2>1, <2>5, <2>6, <2>7 DEF InflightInv
<1>2. CASE WriteBatch
  <2> DEFINE b == inflight
             m == Msg("change_batch", inflight)
  <2>1. /\ pc = "write" /\ pc' = "stream" /\ up' = Put(up, cur, m)
        /\ UNCHANGED <<inflight, resp, sendCh, acks, nacks, recvCh>>
    BY <1>2 DEF WriteBatch, chanVars, readerVars
  <2>2. b \in Batches /\ m \in Message /\ m.id = b
    BY <1>t, <2>1, MessageFacts, ConnAssumption DEF Batches, ConnAssumption
  <2> HIDE DEF b, m
  <2>3. b \in Copies["write"] /\ Copies'["write"] = {}
    BY <2>1, CopiesAt, CopiesAtNext DEF b
  <2>4. b \notin Ids(up[cur])
    BY <1>o, <1>s, <2>3, CopiesAt DEF Apart, Places
  <2>5. Ids(up'[cur]) \subseteq Ids(up[cur]) \cup {b} /\ SingleIds(up'[cur])
    BY <1>t, <1>o, <2>1, <2>2, <2>4, PutIds
  <2>6. /\ Copies'["up"] \subseteq Copies["up"] \cup {b}
        /\ \A r \in Places \ {"write", "up"} : Copies'[r] = Copies[r]
    BY <1>c, <1>f, <1>s, <2>1, <2>5, CopiesAt, CopiesAtNext DEF Places
  <2>7. Apart(Copies', submitted)
    BY <1>o, <2>3, <2>6, Move DEF Places
  <2>8. OneCopy'
    BY <1>f, <1>o, <2>1, <2>5, <2>7 DEF OneCopy, Single, SingleIds
  <2>9. InflightInv'
    BY <1>f, <1>i, <1>s, <2>1, <2>6 DEF InflightInv, AtSource, Places
  <2> QED
    BY <2>8, <2>9
<1>3. CASE StreamAnswer
  <2> DEFINE b == Head(recvCh[cur]).id
  <2>1. /\ pc = "stream" /\ pc' = "deliver" /\ CanRecv(recvCh, cur)
        /\ recvCh' = Take(recvCh, cur) /\ inflight' = 0 /\ resp'.id = b
        /\ UNCHANGED <<up, sendCh, acks, nacks>>
    BY <1>3 DEF StreamAnswer, chanVars, connVars
  <2>2. /\ b \in Ids(recvCh[cur]) /\ Ids(recvCh'[cur]) \subseteq Ids(recvCh[cur]) \ {b}
        /\ SingleIds(recvCh'[cur])
    BY <1>t, <1>o, <2>1, TakeIds
  <2> HIDE DEF b
  <2>3. /\ b \in Copies["recv"] /\ Copies'["recv"] \subseteq Copies["recv"] \ {b}
        /\ Copies'["resp"] = {b}
        /\ \A r \in Places \ {"recv", "resp"} : Copies'[r] \subseteq Copies[r]
    BY <1>c, <1>f, <1>s, <2>1, <2>2, CopiesAt, CopiesAtNext DEF Places
  <2>4. Apart(Copies', submitted)
    BY <1>o, <2>3, Move DEF Places
  <2>5. OneCopy'
    BY <1>f, <1>o, <2>1, <2>2, <2>4 DEF OneCopy, Single, SingleIds
  <2> QED
    BY <2>1, <2>5 DEF InflightInv
<1>4. CASE Deliver
  <2> DEFINE b == resp.id
  <2>1. /\ pc = "deliver" /\ pc' = "stream" /\ b \in Batches
        /\ UNCHANGED <<inflight, up, recvCh, sendCh>>
    BY <1>4, MessageFacts DEF Deliver, connVars, readerVars, TypeOK, DialerTypeOK,
      RunTypeOK
  <2> HIDE DEF b
  <2>2. b \in Copies["resp"] /\ Copies'["resp"] = {}
    BY <2>1, CopiesAt, CopiesAtNext DEF b
  <2>3. b \notin Copies["acks"] /\ b \notin Copies["nacks"]
    BY <1>o, <2>2 DEF Apart, Places
  <2>4. b # inflight
    BY <1>i, <2>1, <2>2, ConnAssumption DEF AtSource, Batches, ConnAssumption
  <2>5. CASE acks' = Append(acks, b) /\ nacks' = nacks
    <3>1. IdsOf(acks') = IdsOf(acks) \cup {b} /\ Single(acks')
      BY <1>t, <1>o, <2>1, <2>3, <2>5, AppendIds, CopiesAt
    <3>2. /\ Copies'["acks"] = Copies["acks"] \cup {b}
          /\ \A r \in Places \ {"resp", "acks"} : Copies'[r] \subseteq Copies[r]
      BY <1>c, <1>f, <1>s, <2>1, <2>5, <3>1, CopiesAt, CopiesAtNext DEF Places
    <3>3. Apart(Copies', submitted)
      BY <1>o, <2>2, <3>2, Move DEF Places
    <3>4. OneCopy'
      BY <1>f, <1>o, <2>1, <2>5, <3>1, <3>3 DEF OneCopy, Single, SingleIds
    <3>5. \A r \in AtSource : Copies'[r] \subseteq Copies[r] \cup {b}
      BY <2>2, <3>2 DEF AtSource, Places
    <3>6. InflightInv'
      BY <1>f, <1>i, <1>s, <2>1, <2>4, <3>5 DEF InflightInv
    <3> QED
      BY <3>4, <3>6
  <2>6. CASE nacks' = Append(nacks, b) /\ acks' = acks
    <3>1. IdsOf(nacks') = IdsOf(nacks) \cup {b} /\ Single(nacks')
      BY <1>t, <1>o, <2>1, <2>3, <2>6, AppendIds, CopiesAt
    <3>2. /\ Copies'["nacks"] = Copies["nacks"] \cup {b}
          /\ \A r \in Places \ {"resp", "nacks"} : Copies'[r] \subseteq Copies[r]
      BY <1>c, <1>f, <1>s, <2>1, <2>6, <3>1, CopiesAt, CopiesAtNext DEF Places
    <3>3. Apart(Copies', submitted)
      BY <1>o, <2>2, <3>2, Move DEF Places
    <3>4. OneCopy'
      BY <1>f, <1>o, <2>1, <2>6, <3>1, <3>3 DEF OneCopy, Single, SingleIds
    <3>5. \A r \in AtSource : Copies'[r] \subseteq Copies[r] \cup {b}
      BY <2>2, <3>2 DEF AtSource, Places
    <3>6. InflightInv'
      BY <1>f, <1>i, <1>s, <2>1, <2>4, <3>5 DEF InflightInv
    <3> QED
      BY <3>4, <3>6
  <2> QED
    BY <1>4, <2>5, <2>6 DEF Deliver, b
<1> QED
  BY <1>1, <1>2, <1>3, <1>4

-----------------------------------------------------------------------------
(* The reader, and the other side.                                         *)

\* The reader passes on what it has read.
LEMMA ReaderCopy ==
  ASSUME TypeOK, OneCopy, InflightInv, NEW c \in Conns, ReaderStep(c),
         UNCHANGED <<sinkVars, callerVars>>
  PROVE  OneCopy' /\ InflightInv'
<1>t. /\ down \in [Conns -> Seq(Message)] /\ recvCh \in [Conns -> Seq(Message)]
      /\ reader \in [Conns -> ReaderStates] /\ hand \in [Conns -> Message \cup {NoMsg}]
      /\ \A d \in Conns : reader[d] = "holding" => hand[d] \in Message
      /\ submitted \in Nat
  BY DEF TypeOK, DialerTypeOK, ConnTypeOK, ReaderTypeOK, CallerTypeOK
<1>f. UNCHANGED <<sendCh, acks, nacks, redo, acked, submitted, inflight, resp, pc, cur,
                  up, srv, work>>
  BY DEF ReaderStep, ReaderEnter, ReaderRecv, ReaderPut, ReaderFails, sinkVars,
     callerVars, runVars, chanVars, connVars
<1>s. Streaming' = Streaming /\ (Streaming => cur \in Conns)
  BY <1>f DEF Streaming, TypeOK, DialerTypeOK, RunTypeOK
<1>1. CASE ~Streaming
  BY <1>f, <1>1, CopyFrame
<1>2. CASE Streaming /\ (ReaderEnter(c) \/ ReaderFails(c))
  <2>1. /\ UNCHANGED <<down, recvCh, hand>>
        /\ \E r \in {"exited", "reading"} : reader' = [reader EXCEPT ![c] = r]
    BY <1>2 DEF ReaderEnter, ReaderFails, connVars
  <2>2. reader'[cur] = "holding" => reader[cur] = "holding"
    BY <1>t, <1>s, <1>2, <2>1
  <2> QED
    BY <1>f, <2>1, <2>2, CopyFrame
<1>3. CASE Streaming /\ c # cur /\ (ReaderRecv(c) \/ ReaderPut(c))
  <2>1. /\ down'[cur] = down[cur] /\ recvCh'[cur] = recvCh[cur]
        /\ reader'[cur] = reader[cur] /\ hand'[cur] = hand[cur]
    BY <1>t, <1>s, <1>3 DEF ReaderRecv, ReaderPut, Take, connVars
  <2> QED
    BY <1>f, <2>1, CopyFrame
<1>o. Streaming => /\ Apart(Copies, submitted) /\ SingleIds(up[cur])
                   /\ SingleIds(down[cur]) /\ SingleIds(recvCh[cur])
  BY DEF OneCopy
<1>4. CASE Streaming /\ c = cur /\ ReaderRecv(c)
  <2> DEFINE b == Head(down[cur]).id
  <2>1. /\ reader[cur] = "reading" /\ CanRecv(down, cur) /\ down' = Take(down, cur)
        /\ hand'[cur].id = b /\ reader'[cur] = "holding" /\ UNCHANGED recvCh
    BY <1>t, <1>4 DEF ReaderRecv
  <2>2. /\ b \in Ids(down[cur]) /\ Ids(down'[cur]) \subseteq Ids(down[cur]) \ {b}
        /\ SingleIds(down'[cur])
    BY <1>t, <1>s, <1>4, <1>o, <2>1, TakeIds
  <2> HIDE DEF b
  <2>3. /\ b \in Copies["down"] /\ Copies'["down"] \subseteq Copies["down"] \ {b}
        /\ Copies'["hand"] = {b}
        /\ \A r \in Places \ {"down", "hand"} : Copies'[r] = Copies[r]
    BY <1>f, <1>s, <1>4, <2>1, <2>2, CopiesAt, CopiesAtNext DEF Places
  <2>4. Apart(Copies', submitted)
    BY <1>o, <1>4, <2>3, Move DEF Places
  <2>5. OneCopy'
    BY <1>f, <1>o, <1>4, <2>1, <2>2, <2>4 DEF OneCopy, Single, SingleIds
  <2>6. InflightInv'
    BY <1>f, <1>s, <2>3 DEF InflightInv, AtSource, Places
  <2> QED
    BY <2>5, <2>6
<1>5. CASE Streaming /\ c = cur /\ ReaderPut(c)
  <2> DEFINE m == hand[cur]
             b == m.id
  <2>1. /\ reader[cur] = "holding" /\ m \in Message
        /\ recvCh'[cur] = Append(recvCh[cur], m)
        /\ reader'[cur] = "enter" /\ UNCHANGED down
    BY <1>t, <1>5 DEF ReaderPut, connVars
  <2>2. b \in Copies["hand"]
    BY <1>5, <2>1, CopiesAt
  <2>3. b \notin Ids(recvCh[cur])
    BY <1>5, <1>o, <2>2, CopiesAt DEF Apart, Places
  <2>4. Ids(recvCh'[cur]) \subseteq Ids(recvCh[cur]) \cup {b} /\ SingleIds(recvCh'[cur])
    <3>1. recvCh[cur] \in Seq(Message) /\ SingleIds(recvCh[cur])
      BY <1>t, <1>s, <1>5, <1>o
    <3>2. /\ Ids(Append(recvCh[cur], m)) \subseteq Ids(recvCh[cur]) \cup {b}
          /\ SingleIds(Append(recvCh[cur], m))
      BY <2>1, <2>3, <3>1, AppendMsg
    <3> QED
      BY <2>1, <3>2
  <2> HIDE DEF b
  <2>5. /\ Copies'["hand"] = {} /\ Copies'["recv"] \subseteq Copies["recv"] \cup {b}
        /\ \A r \in Places \ {"hand", "recv"} : Copies'[r] = Copies[r]
    <3>1. Copies'["hand"] = {} /\ Copies'["recv"] \subseteq Copies["recv"] \cup {b}
      BY <1>f, <1>s, <1>5, <2>1, <2>4, CopiesAt, CopiesAtNext
    <3>2. \A r \in Places \ {"hand", "recv"} : Copies'[r] = Copies[r]
      BY <1>f, <1>s, <1>5, <2>1, CopiesAt, CopiesAtNext DEF Places
    <3> QED  BY <3>1, <3>2
  <2>6. Apart(Copies', submitted)
    BY <1>o, <1>5, <2>2, <2>5, Move DEF Places
  <2>7. OneCopy'
    BY <1>f, <1>o, <1>5, <2>1, <2>4, <2>6 DEF OneCopy, Single, SingleIds
  <2>8. InflightInv'
    BY <1>f, <1>s, <2>5 DEF InflightInv, AtSource, Places
  <2> QED
    BY <2>7, <2>8
<1> QED
  BY <1>1, <1>2, <1>3, <1>4, <1>5 DEF ReaderStep

\* The listener and its handler touch their own connection only.
LEMMA SinkElsewhere ==
  ASSUME TypeOK, NEW c \in Conns, SinkStep(c), NEW d \in Conns \ {c}
  PROVE  up'[d] = up[d] /\ down'[d] = down[d] /\ srv'[d] = srv[d] /\ work'[d] = work[d]
<1>t. /\ up \in [Conns -> Seq(Message)] /\ down \in [Conns -> Seq(Message)]
      /\ srv \in [Conns -> ServerStates] /\ work \in [Conns -> Message \cup {NoMsg}]
  BY DEF TypeOK, ConnTypeOK, SinkTypeOK, ListenerTypeOK
<1>1. CASE HandlerStep(c)
  BY <1>t, <1>1 DEF HandlerStep, RecvBatch, RecvBatchFails, ApplyOK, ApplyFails,
    CommitUnknown, AnswerWith, Reply, ReplyFails, Take, Put, connVars
<1>2. CASE ListenerStep(c) /\ UNCHANGED work
  BY <1>t, <1>2 DEF ListenerStep, RecvHello, RecvHelloFails, Reject, Accept,
    AcceptFails, CloseConn, Take, Put
<1> QED
  BY <1>1, <1>2 DEF SinkStep

\* The handler has one batch in its hands, and answers it once.
LEMMA SinkCopy ==
  ASSUME TypeOK, HandshakeInv, OneCopy, InflightInv, NEW c \in Conns, SinkStep(c),
         UNCHANGED <<dialerVars, callerVars>>
  PROVE  OneCopy' /\ InflightInv'
<1>t. /\ up \in [Conns -> Seq(Message)] /\ down \in [Conns -> Seq(Message)]
      /\ srv \in [Conns -> ServerStates] /\ work \in [Conns -> Message \cup {NoMsg}]
  BY DEF TypeOK, ConnTypeOK, SinkTypeOK, ListenerTypeOK
<1>f. UNCHANGED <<sendCh, acks, nacks, redo, acked, submitted, inflight, resp, pc, cur,
                  reader, hand, recvCh>>
  BY DEF dialerVars, callerVars, runVars, chanVars, readerVars
<1>s. Streaming' = Streaming /\ (Streaming => cur \in Conns)
  BY <1>f DEF Streaming, TypeOK, DialerTypeOK, RunTypeOK
<1>1. CASE ~Streaming
  BY <1>f, <1>1, CopyFrame
<1>2. CASE Streaming /\ c # cur
  <2>1. /\ up'[cur] = up[cur] /\ down'[cur] = down[cur]
        /\ srv'[cur] = srv[cur] /\ work'[cur] = work[cur]
    BY <1>s, <1>2, SinkElsewhere
  <2> QED
    BY <1>f, <2>1, CopyFrame
<1>3. CASE Streaming /\ c = cur
  <2>1. srv[c] \in {"recv", "apply", "reply", "returned"}
    BY <1>3 DEF HandshakeInv, StreamsOnlyToHandler, Streaming, Serving
  <2>2. HandlerStep(c)
    BY <2>1 DEF SinkStep, ListenerStep, RecvHello, RecvHelloFails, Reject, Accept,
      AcceptFails
  <2>o. /\ Apart(Copies, submitted) /\ SingleIds(up[c])
        /\ SingleIds(down[c]) /\ SingleIds(recvCh[c])
    BY <1>3 DEF OneCopy
  <2>3. CASE RecvBatch(c)
    <3> DEFINE b == Head(up[c]).id
    <3>1. /\ srv[c] = "recv" /\ CanRecv(up, c) /\ up' = Take(up, c) /\ UNCHANGED down
          /\ work'[c].id = b /\ srv'[c] = "apply"
      BY <1>t, <2>3 DEF RecvBatch
    <3>2. /\ b \in Ids(up[c]) /\ Ids(up'[c]) \subseteq Ids(up[c]) \ {b}
          /\ SingleIds(up'[c])
      BY <1>t, <2>o, <3>1, TakeIds
    <3> HIDE DEF b
    <3>3. /\ b \in Copies["up"] /\ Copies'["up"] \subseteq Copies["up"] \ {b}
          /\ Copies'["work"] = {b}
          /\ \A r \in Places \ {"up", "work"} : Copies'[r] = Copies[r]
      BY <1>f, <1>s, <1>3, <3>1, <3>2, CopiesAt, CopiesAtNext DEF Places
    <3>4. Apart(Copies', submitted)
      BY <2>o, <3>3, Move DEF Places
    <3>5. OneCopy'
      BY <1>f, <1>3, <2>o, <3>1, <3>2, <3>4 DEF OneCopy, Single, SingleIds
    <3>6. InflightInv'
      BY <1>f, <1>s, <3>3 DEF InflightInv, AtSource, Places
    <3> QED
      BY <3>5, <3>6
  <2>4. CASE Reply(c)
    <3> DEFINE m == work[c]
               b == m.id
    <3>1. /\ srv[c] = "reply" /\ down' = Put(down, c, m) /\ UNCHANGED up
          /\ srv'[c] = "recv" /\ m \in Message
      BY <1>t, <2>4, MessageFacts DEF Reply, HandshakeInv, HandshakeOn
    <3>2. b \in Copies["work"]
      BY <1>3, <3>1, CopiesAt
    <3>3. b \notin Ids(down[c])
      BY <1>3, <2>o, <3>2, CopiesAt DEF Apart, Places
    <3>4. Ids(down'[c]) \subseteq Ids(down[c]) \cup {b} /\ SingleIds(down'[c])
      BY <1>t, <2>o, <3>1, <3>3, PutIds
    <3> HIDE DEF b
    <3>5. /\ Copies'["work"] = {} /\ Copies'["down"] \subseteq Copies["down"] \cup {b}
          /\ \A r \in Places \ {"work", "down"} : Copies'[r] = Copies[r]
      BY <1>f, <1>s, <1>3, <3>1, <3>4, CopiesAt, CopiesAtNext DEF Places
    <3>6. Apart(Copies', submitted)
      BY <2>o, <3>2, <3>5, Move DEF Places
    <3>7. OneCopy'
      BY <1>f, <1>3, <2>o, <3>1, <3>4, <3>6 DEF OneCopy, Single, SingleIds
    <3>8. InflightInv'
      BY <1>f, <1>s, <3>5 DEF InflightInv, AtSource, Places
    <3> QED
      BY <3>7, <3>8
  <2>5. CASE ApplyOK(c) \/ ApplyFails(c) \/ CommitUnknown(c)
    <3>1. srv[c] = "apply" /\ UNCHANGED <<up, down>> /\ work'[c].id = work[c].id
      BY <1>t, <2>5, MessageFacts DEF ApplyOK, ApplyFails, CommitUnknown, AnswerWith,
        connVars
    <3> QED
      BY <1>f, <1>3, <3>1, CopyFrame
  <2>6. CASE RecvBatchFails(c) \/ ReplyFails(c)
    <3>1. srv'[c] = "returned" /\ UNCHANGED <<up, down>>
      BY <1>t, <2>6 DEF RecvBatchFails, ReplyFails, connVars
    <3> QED
      BY <1>f, <1>3, <3>1, CopyFrame
  <2> QED
    BY <2>2, <2>3, <2>4, <2>5, <2>6 DEF HandlerStep
<1> QED
  BY <1>1, <1>2, <1>3

\* No step of any goroutine makes a second copy.
LEMMA NextCopy ==
  TypeOK /\ HandshakeInv /\ FreshInv /\ OneCopy /\ InflightInv /\ [Next]_vars
    => OneCopy' /\ InflightInv'
<1> SUFFICES ASSUME TypeOK, HandshakeInv, FreshInv, OneCopy, InflightInv, [Next]_vars
             PROVE  OneCopy' /\ InflightInv'
  OBVIOUS
<1>1. CASE CallerStep /\ UNCHANGED sinkVars
  BY <1>1, CallerCopy
<1>2. CASE Cancel /\ UNCHANGED <<sinkVars, callerVars>>
  BY <1>2, CopyFrame
  DEF Cancel, sinkVars, callerVars, connVars, runVars, chanVars, readerVars
<1>3. CASE UNCHANGED vars
  BY <1>3, CopyFrame
  DEF vars, dialerVars, sinkVars, callerVars, connVars, runVars, chanVars, readerVars
<1>4. CASE (\/ RunStart \/ BackoffElapsed \/ BackoffCancelled \/ DialFails
            \/ SendHello \/ SendHelloFails \/ RecvEnter \/ RecvHelloAckFails)
           /\ UNCHANGED <<sinkVars, callerVars>>
  <2>1. /\ UNCHANGED <<sendCh, acks, nacks, redo, acked, submitted>>
        /\ inflight' \in {0, inflight}
        /\ ~Streaming /\ ~Streaming'
    BY <1>4 DEF RunStart, BackoffElapsed, BackoffCancelled, DialFails, SendHello,
      SendHelloFails, RecvEnter, RecvHelloAckFails, Lost, Streaming, callerVars, chanVars
  <2> QED
    BY <2>1, CopyQuiet
<1>5. CASE Connect /\ UNCHANGED callerVars
  <2>1. /\ UNCHANGED <<sendCh, acks, nacks, redo, acked, submitted, inflight>>
        /\ ~Streaming /\ ~Streaming'
    BY <1>5 DEF Connect, Dial, Streaming, callerVars, chanVars
  <2> QED
    BY <2>1, CopyQuiet
<1>6. CASE RecvHelloAck /\ UNCHANGED <<sinkVars, callerVars>>
  BY <1>6, HelloAckCopy
<1>7. CASE (StreamCancelled \/ StreamRecvErr \/ WriteBatchFails)
           /\ UNCHANGED <<sinkVars, callerVars>>
  BY <1>7, LossCopy
  DEF StreamCancelled, StreamRecvErr, WriteBatchFails, callerVars
<1>8. CASE (StreamTake \/ WriteBatch \/ StreamAnswer \/ Deliver)
           /\ UNCHANGED <<sinkVars, callerVars>>
  BY <1>8, StreamCopy
<1>9. ASSUME NEW c \in Conns, ReaderStep(c), UNCHANGED <<sinkVars, callerVars>>
      PROVE  OneCopy' /\ InflightInv'
  BY <1>9, ReaderCopy
<1>10. ASSUME NEW c \in Conns, SinkStep(c), UNCHANGED <<dialerVars, callerVars>>
       PROVE  OneCopy' /\ InflightInv'
  BY <1>10, SinkCopy
<1>11. ASSUME NEW c \in Conns, Break(c), UNCHANGED <<dialerVars, sinkVars, callerVars>>
       PROVE  OneCopy' /\ InflightInv'
  BY <1>11, CopyFrame
  DEF Break, dialerVars, sinkVars, callerVars, runVars, chanVars, readerVars
<1>12. CASE ListenerLife /\ UNCHANGED <<dialerVars, callerVars>>
  BY <1>12, CopyFrame
  DEF ListenerLife, ServerStep, dialerVars, callerVars, connVars, runVars, chanVars,
      readerVars
<1> QED
  BY <1>1, <1>2, <1>3, <1>4, <1>5, <1>6, <1>7, <1>8, <1>9, <1>10, <1>11, <1>12
  DEF Next, DialerStep, RunStep, Terminated

-----------------------------------------------------------------------------
(* The window of the caller.                                               *)

\* A batch is submitted when the window is open, and only Acks move it.
LEMMA NextWindow == TypeOK /\ WindowInv /\ [Next]_vars => WindowInv'
<1> SUFFICES ASSUME TypeOK, WindowInv, [Next]_vars PROVE WindowInv'
  OBVIOUS
<1>t. submitted \in Nat /\ Window \in Nat \ {0}
  BY TransportAssumption DEF TransportAssumption, TypeOK, CallerTypeOK
<1>1. CASE Submit
  <2>1. submitted' = submitted + 1 /\ acked' = acked /\ WindowOpen
    BY <1>1 DEF Submit
  <2> SUFFICES ASSUME NEW b \in 1 .. (submitted + 1), b \notin acked
               PROVE  b + Window > submitted + 1
    BY <2>1 DEF WindowInv, Pending
  <2>2. CASE b = submitted + 1
    BY <1>t, <2>2
  <2>3. CASE b # submitted + 1
    <3>1. b \in Pending
      BY <1>t, <2>3 DEF Pending
    <3> QED
      BY <2>1, <3>1 DEF WindowOpen
  <2> QED
    BY <2>2, <2>3
<1>2. CASE UNCHANGED submitted /\ acked \subseteq acked'
  BY <1>2 DEF WindowInv, Pending
<1>3. CASE UNCHANGED callerVars
  BY <1>2, <1>3 DEF callerVars
<1> QED
  BY <1>1, <1>2, <1>3
  DEF Next, CallerStep, Retry, TakeAck, TakeNack, Terminated, vars, callerVars

\* So no more than Window batches are unanswered.
LEMMA PendingFits ==
  ASSUME TypeOK, WindowInv
  PROVE  IsFiniteSet(Pending) /\ Cardinality(Pending) <= Window
<1> DEFINE a == submitted + 1 - Window
<1>1. submitted \in Nat /\ Window \in Nat \ {0} /\ a \in Int /\ submitted \in Int
  BY TransportAssumption DEF TransportAssumption, TypeOK, CallerTypeOK
<1>2. Pending \subseteq a .. submitted
  BY <1>1 DEF WindowInv, Pending
<1>3. IsFiniteSet(a .. submitted) /\ Cardinality(a .. submitted) = Window
  <2>1. ~(a > submitted) /\ submitted - a + 1 = Window
    BY <1>1
  <2> HIDE DEF a
  <2> QED
    BY <1>1, <2>1, FS_Interval
<1> HIDE DEF a
<1>4. /\ IsFiniteSet(Pending)
      /\ Cardinality(Pending) <= Cardinality(a .. submitted)
  BY <1>2, <1>3, FS_Subset
<1> QED
  BY <1>3, <1>4

\* The pigeonhole principle, for queues.
LEMMA QueueFits ==
  ASSUME NEW T, IsFiniteSet(T), NEW n \in Nat, NEW f \in [1 .. n -> T],
         \A i, j \in 1 .. n : f[i] = f[j] => i = j
  PROVE  n <= Cardinality(T)
<1>1. f \in Injection(1 .. n, T)
  BY Fun_IsInj
<1>2. Cardinality(1 .. n) <= Cardinality(T)
  BY <1>1, FS_Injection
<1>3. Cardinality(1 .. n) = n
  <2>1. 1 \in Int /\ n \in Int
    OBVIOUS
  <2>2. Cardinality(1 .. n) = IF 1 > n THEN 0 ELSE n - 1 + 1
    BY <2>1, FS_Interval
  <2> QED
    BY <2>2
<1> QED
  BY <1>2, <1>3

\* A queue of batches is no longer than the batches it is from.
LEMMA BatchesFit ==
  ASSUME NEW S, NEW s \in Seq(S), Single(s), NEW T, IsFiniteSet(T), IdsOf(s) \subseteq T
  PROVE  Len(s) <= Cardinality(T)
<1>1. /\ Len(s) \in Nat /\ DOMAIN s = 1 .. Len(s) /\ s = [i \in 1 .. Len(s) |-> s[i]]
  OBVIOUS
<1>2. s \in [1 .. Len(s) -> T]
  BY <1>1 DEF IdsOf
<1> QED
  BY <1>1, <1>2, QueueFits DEF Single

\* The same of messages.
LEMMA MessagesFit ==
  ASSUME NEW S, NEW s \in Seq(S), SingleIds(s), IsFiniteSet(Ids(s))
  PROVE  Len(s) <= Cardinality(Ids(s))
<1>1. Len(s) \in Nat /\ DOMAIN s = 1 .. Len(s)
  OBVIOUS
<1> DEFINE f == [i \in 1 .. Len(s) |-> s[i].id]
<1>2. f \in [1 .. Len(s) -> Ids(s)]
  BY <1>1 DEF Ids
<1>3. \A i, j \in 1 .. Len(s) : f[i] = f[j] => i = j
  BY <1>1 DEF SingleIds
<1> QED
  BY <1>1, <1>2, <1>3, QueueFits

-----------------------------------------------------------------------------
(* The theorems.                                                           *)

\* There is one copy of each batch on its way out and back, whatever is lost,
\* rejected and sent again (dialer.go, Run and stream).
THEOREM CopiesCounted == Spec => []CopyInv
<1> DEFINE I == TypeOK /\ HandshakeInv /\ CopyInv
<1>1. Init => I
  <2>1. Init => WindowInv
    BY DEF Init, WindowInv, Pending
  <2> QED
    BY <2>1, InitTypeOK, InitHandshake, InitFresh, InitCopy DEF CopyInv
<1>2. I /\ [Next]_vars => I'
  BY NextTypeOK, NextHandshake, NextFresh, NextCopy, NextWindow DEF CopyInv
<1>3. I => CopyInv
  OBVIOUS
<1> QED
  BY <1>1, <1>2, <1>3, PTL DEF Spec

\* What the caller has seen acknowledged is not sent or offered again, for any
\* window: requeue and retry do not meet (dialer.go, stream; SendBatch).
THEOREM NeverResent == Spec => []AckedNeverResent
<1>1. CopyInv => AckedNeverResent
  <2> SUFFICES ASSUME CopyInv PROVE AckedNeverResent
    OBVIOUS
  <2>1. Apart(Copies, submitted)
    BY DEF CopyInv, OneCopy
  <2>2. acked \cap (IdsOf(sendCh) \cup IdsOf(nacks) \cup redo) = {}
    BY <2>1, CopiesAt DEF Apart, Places
  <2>3. 0 \notin acked
    BY <2>1, CopiesAt DEF Apart, Places
  <2>4. inflight # 0 => inflight \notin acked
    BY CopiesAt DEF CopyInv, InflightInv, AtSource
  <2> QED
    BY <2>2, <2>3, <2>4 DEF AckedNeverResent
<1> QED
  BY <1>1, CopiesCounted, PTL

\* With a window within the capacity of d.Acks and d.Nacks, Run is never
\* blocked on its consumer (dialer.go, stream: the delivery has no select).
THEOREM AnswersHaveRoom ==
  ASSUME Window <= RespCap
  PROVE  Spec => []AnswerHasRoom
<1>1. TypeOK /\ CopyInv => AnswerHasRoom
  <2> SUFFICES ASSUME TypeOK, CopyInv, pc = "deliver",
                      NEW s \in {acks, nacks}
               PROVE  Len(s) < RespCap
    BY DEF AnswerHasRoom
  <2>1. IsFiniteSet(Pending) /\ Cardinality(Pending) <= Window
    BY PendingFits DEF CopyInv
  <2> DEFINE b == resp.id
             T == Pending \ {b}
  <2>2. Apart(Copies, submitted) /\ Single(s) /\ s \in Seq(Batches)
    BY DEF CopyInv, OneCopy, TypeOK, DialerTypeOK, ChanTypeOK
  <2>3. b \in Copies["resp"]
    BY CopiesAt
  <2>4. b \in Pending
    BY <2>2, <2>3, CopiesAt DEF Apart, Places, Pending
  <2>5. IdsOf(s) \subseteq T
    BY <2>2, <2>3, CopiesAt DEF Apart, Places, Pending
  <2> HIDE DEF b
  <2>6. IsFiniteSet(T) /\ Cardinality(T) = Cardinality(Pending) - 1
    BY <2>1, <2>4, FS_RemoveElement
  <2>7. Len(s) <= Cardinality(T)
    BY <2>2, <2>5, <2>6, BatchesFit
  <2>8. Cardinality(Pending) \in Nat /\ Len(s) \in Nat /\ Window \in Nat /\ RespCap \in Nat
    BY <2>1, <2>2, FS_CardinalityType, TransportAssumption, DialerAssumption
    DEF TransportAssumption, DialerAssumption
  <2> QED
    BY <2>1, <2>6, <2>7, <2>8
<1> QED
  BY <1>1, CopiesCounted, TypeCorrect, PTL

\* Both directions of a connection together hold no more messages than batches
\* are unanswered (conn.go: Send has no deadline).
THEOREM WiresShort == Spec => []WiresAreShort
<1>1. TypeOK /\ CopyInv => WiresAreShort
  <2> SUFFICES ASSUME TypeOK, CopyInv, Streaming
               PROVE  Len(up[cur]) + Len(down[cur]) <= Window
    BY DEF WiresAreShort
  <2>1. IsFiniteSet(Pending) /\ Cardinality(Pending) <= Window
    BY PendingFits DEF CopyInv
  <2> DEFINE A == Ids(up[cur])
             B == Ids(down[cur])
  <2>2. A \subseteq Pending /\ B \subseteq Pending /\ A \cap B = {}
    BY CopiesAt DEF CopyInv, OneCopy, Apart, Places, Pending
  <2>3. /\ up[cur] \in Seq(Message) /\ down[cur] \in Seq(Message)
        /\ SingleIds(up[cur]) /\ SingleIds(down[cur])
    BY DEF CopyInv, OneCopy, Streaming, TypeOK, DialerTypeOK, RunTypeOK, ConnTypeOK
  <2>4. IsFiniteSet(A) /\ IsFiniteSet(B)
    BY <2>1, <2>2, FS_Subset
  <2>5. Len(up[cur]) <= Cardinality(A) /\ Len(down[cur]) <= Cardinality(B)
    BY <2>3, <2>4, MessagesFit
  <2> HIDE DEF A, B
  <2>6. Cardinality(A \cup B) = Cardinality(A) + Cardinality(B)
    <3>1. Cardinality(A \cup B)
            = Cardinality(A) + Cardinality(B) - Cardinality(A \cap B)
      BY <2>4, FS_Union
    <3>2. A \cap B = {} /\ Cardinality({}) = 0
      BY <2>2, FS_EmptySet
    <3>3. Cardinality(A) \in Nat /\ Cardinality(B) \in Nat
      BY <2>4, FS_CardinalityType
    <3>4. Cardinality(A \cup B) = Cardinality(A) + Cardinality(B) - Cardinality({})
      BY <3>1, <3>2, Zenon
    <3> QED
      BY <3>2, <3>3, <3>4
  <2>7. Cardinality(A \cup B) <= Cardinality(Pending)
    <3> DEFINE C == A \cup B
    <3>1. C \in SUBSET Pending
      BY <2>2
    <3> HIDE DEF C
    <3>2. Cardinality(C) <= Cardinality(Pending)
      BY <2>1, <3>1, FS_Subset
    <3> QED
      BY <3>2 DEF C
  <2>8. /\ Len(up[cur]) \in Nat /\ Len(down[cur]) \in Nat /\ Window \in Nat
        /\ Cardinality(A) \in Nat /\ Cardinality(B) \in Nat /\ Cardinality(Pending) \in Nat
    BY <2>1, <2>3, <2>4, FS_CardinalityType, TransportAssumption DEF TransportAssumption
  <2>9. \A u, d, a, b, p, w \in Nat :
          u <= a /\ d <= b /\ a + b <= p /\ p <= w => u + d <= w
    OBVIOUS
  <2>10. Cardinality(A) + Cardinality(B) <= Cardinality(Pending)
    BY <2>6, <2>7
  <2> QED
    BY <2>1, <2>5, <2>8, <2>9, <2>10
<1> QED
  BY <1>1, CopiesCounted, TypeCorrect, PTL

-----------------------------------------------------------------------------
(* Room in recvCh.                                                         *)

Held(c) == IF reader[c] = "holding" THEN 1 ELSE 0

\* The answers on connection c that stream() has not taken.
Answers(c) == Len(down[c]) + Held(c) + Len(recvCh[c])

\* On the connection that streams there are no more than unanswered batches.
StreamRoom == Streaming => Answers(cur) <= Window

\* Nor were there on one that did: Run has closed its end, so that no more come.
RoomOn(c) ==
  reader[c] # "off" =>
    /\ Answers(c) <= Window
    /\ (Streaming /\ c = cur) \/ srcEnd[c] = "closed"

RoomInv == \A c \in Conns : RoomOn(c)

\* Sets of batches that have none in common are together as large as the sum.
LEMMA ApartSum ==
  ASSUME NEW A, NEW B, IsFiniteSet(A), IsFiniteSet(B), A \cap B = {}
  PROVE  /\ IsFiniteSet(A \cup B)
         /\ Cardinality(A \cup B) = Cardinality(A) + Cardinality(B)
<1>1. /\ IsFiniteSet(A \cup B)
      /\ Cardinality(A \cup B)
           = Cardinality(A) + Cardinality(B) - Cardinality(A \cap B)
  BY FS_Union
<1>2. A \cap B = {} /\ Cardinality({}) = 0
  BY FS_EmptySet
<1>3. Cardinality(A) \in Nat /\ Cardinality(B) \in Nat
  BY FS_CardinalityType
<1>4. Cardinality(A \cup B) = Cardinality(A) + Cardinality(B) - Cardinality({})
  BY <1>1, <1>2, Zenon
<1> QED
  BY <1>1, <1>2, <1>3, <1>4

\* The answers on the connection that streams are of different batches.
LEMMA StreamFits == TypeOK /\ CopyInv => StreamRoom
<1> SUFFICES ASSUME TypeOK, CopyInv, Streaming
             PROVE  Answers(cur) <= Window
  BY DEF StreamRoom
<1> DEFINE A == Ids(down[cur])
           B == IF reader[cur] = "holding" THEN {hand[cur].id} ELSE {}
           C == Ids(recvCh[cur])
<1>1. IsFiniteSet(Pending) /\ Cardinality(Pending) <= Window
  BY PendingFits DEF CopyInv
<1>2. /\ A \subseteq Pending /\ B \subseteq Pending /\ C \subseteq Pending
      /\ A \cap B = {} /\ A \cap C = {} /\ B \cap C = {}
  BY CopiesAt DEF CopyInv, OneCopy, Apart, Places, Pending
<1>3. /\ cur \in Conns
      /\ down[cur] \in Seq(Message) /\ recvCh[cur] \in Seq(Message)
      /\ SingleIds(down[cur]) /\ SingleIds(recvCh[cur])
  BY DEF CopyInv, OneCopy, Streaming, TypeOK, DialerTypeOK, RunTypeOK, ConnTypeOK,
     ReaderTypeOK
<1>4. IsFiniteSet(A) /\ IsFiniteSet(B) /\ IsFiniteSet(C)
  BY <1>1, <1>2, FS_Subset
<1>5. Len(down[cur]) <= Cardinality(A) /\ Len(recvCh[cur]) <= Cardinality(C)
  BY <1>3, <1>4, MessagesFit
<1>6. Held(cur) <= Cardinality(B) /\ Held(cur) \in Nat
  <2>1. CASE reader[cur] = "holding"
    <3>1. B = {hand[cur].id}
      BY <2>1
    <3>2. Cardinality(B) = 1
      <4> HIDE DEF B
      <4> QED
        BY <3>1, FS_Singleton
    <3> QED
      BY <2>1, <3>2 DEF Held
  <2>2. CASE reader[cur] # "holding"
    <3>1. Cardinality(B) \in Nat
      BY <1>4, FS_CardinalityType
    <3> QED
      BY <2>2, <3>1 DEF Held
  <2> QED
    BY <2>1, <2>2
<1> HIDE DEF A, B, C
<1>7. /\ IsFiniteSet(A \cup B)
      /\ Cardinality(A \cup B) = Cardinality(A) + Cardinality(B)
  BY <1>2, <1>4, ApartSum
<1>8. Cardinality((A \cup B) \cup C) = Cardinality(A \cup B) + Cardinality(C)
  <2>1. (A \cup B) \cap C = {}
    BY <1>2
  <2> QED
    BY <1>4, <1>7, <2>1, ApartSum
<1>9. Cardinality((A \cup B) \cup C) <= Cardinality(Pending)
  <2> DEFINE D == (A \cup B) \cup C
  <2>1. D \in SUBSET Pending
    BY <1>2
  <2> HIDE DEF D
  <2>2. Cardinality(D) <= Cardinality(Pending)
    BY <1>1, <2>1, FS_Subset
  <2> QED
    BY <2>2 DEF D
<1>10. /\ Len(down[cur]) \in Nat /\ Len(recvCh[cur]) \in Nat /\ Window \in Nat
       /\ Cardinality(A) \in Nat /\ Cardinality(B) \in Nat
       /\ Cardinality(C) \in Nat /\ Cardinality(Pending) \in Nat
  BY <1>1, <1>3, <1>4, FS_CardinalityType, TransportAssumption
  DEF TransportAssumption
<1>11. Cardinality(A) + Cardinality(B) + Cardinality(C) <= Cardinality(Pending)
  BY <1>7, <1>8, <1>9, <1>10
<1>12. \A d, h, r, a, b, c, p, w \in Nat :
         d <= a /\ h <= b /\ r <= c /\ a + b + c <= p /\ p <= w => d + h + r <= w
  OBVIOUS
<1>13. Len(down[cur]) + Held(cur) + Len(recvCh[cur]) <= Window
  BY <1>1, <1>5, <1>6, <1>10, <1>11, <1>12
<1> QED
  BY <1>13 DEF Answers

\* A step that brings connection c no answer, where Run is not streaming.
LEMMA RoomKept ==
  ASSUME TypeOK, NEW c \in Conns, RoomOn(c), reader[c] # "off",
         \/ recvCh'[c] = recvCh[c] /\ reader'[c] = "holding"
              /\ down[c] # <<>> /\ down'[c] = Tail(down[c]) /\ reader[c] = "reading"
         \/ recvCh'[c] = recvCh[c] /\ down'[c] = down[c]
              /\ (reader'[c] = "holding" => reader[c] = "holding")
         \/ recvCh[c] # <<>> /\ recvCh'[c] = Tail(recvCh[c]) /\ down'[c] = down[c]
              /\ reader'[c] = reader[c]
         \/ recvCh'[c] = Append(recvCh[c], hand[c]) /\ down'[c] = down[c]
              /\ reader[c] = "holding" /\ reader'[c] # "holding",
         (Streaming' /\ c = cur') \/ srcEnd'[c] = "closed"
  PROVE  RoomOn(c)'
<1>1. /\ down[c] \in Seq(Message) /\ recvCh[c] \in Seq(Message)
      /\ reader[c] = "holding" => hand[c] \in Message
      /\ Window \in Nat
  BY TransportAssumption
  DEF TransportAssumption, TypeOK, ConnTypeOK, DialerTypeOK, ReaderTypeOK
<1>2. /\ Len(down[c]) \in Nat /\ Len(recvCh[c]) \in Nat
      /\ down[c] # <<>> => Len(Tail(down[c])) = Len(down[c]) - 1
      /\ recvCh[c] # <<>> => Len(Tail(recvCh[c])) = Len(recvCh[c]) - 1
      /\ reader[c] = "holding" => Len(Append(recvCh[c], hand[c])) = Len(recvCh[c]) + 1
  BY <1>1
<1> DEFINE d == Len(down[c])
           h == Held(c)
           r == Len(recvCh[c])
           d2 == Len(down'[c])
           h2 == IF reader'[c] = "holding" THEN 1 ELSE 0
           r2 == Len(recvCh'[c])
<1>3. d + h + r <= Window /\ d \in Nat /\ h \in Nat /\ r \in Nat
  BY <1>2 DEF RoomOn, Answers, Held
<1>4. \/ d2 = d - 1 /\ h = 0 /\ h2 = 1 /\ r2 = r
      \/ d2 = d /\ h2 \in Nat /\ h2 <= h /\ r2 = r
      \/ d2 = d /\ h2 = h /\ r2 = r - 1
      \/ d2 = d /\ h = 1 /\ h2 = 0 /\ r2 = r + 1
  <2>1. CASE recvCh'[c] = recvCh[c] /\ reader'[c] = "holding"
              /\ down[c] # <<>> /\ down'[c] = Tail(down[c]) /\ reader[c] = "reading"
    BY <1>2, <2>1 DEF Held
  <2>2. CASE recvCh'[c] = recvCh[c] /\ down'[c] = down[c]
              /\ (reader'[c] = "holding" => reader[c] = "holding")
    BY <1>2, <2>2 DEF Held
  <2>3. CASE recvCh[c] # <<>> /\ recvCh'[c] = Tail(recvCh[c]) /\ down'[c] = down[c]
              /\ reader'[c] = reader[c]
    BY <1>2, <2>3 DEF Held
  <2>4. CASE recvCh'[c] = Append(recvCh[c], hand[c]) /\ down'[c] = down[c]
              /\ reader[c] = "holding" /\ reader'[c] # "holding"
    BY <1>2, <2>4 DEF Held
  <2> QED
    BY <2>1, <2>2, <2>3, <2>4
<1> HIDE DEF d, h, r, d2, h2, r2
<1>5. d2 + h2 + r2 <= Window
  BY <1>1, <1>3, <1>4
<1> USE DEF d2, h2, r2
<1>6. Answers(c)' <= Window
  BY <1>5 DEF Answers, Held
<1> QED
  BY <1>6 DEF RoomOn

\* Nothing comes down a connection at whose source the end is closed.
LEMMA PutClosed ==
  ASSUME NEW c \in Conns, NEW d \in Conns, NEW m, c = d => srcEnd[c] = "closed",
         down \in [Conns -> Seq(Message)]
  PROVE  Put(down, d, m)[c] = down[c]
  BY DEF Put, Dead

\* A stream that has ended has closed its connection (runOnce, the deferred
\* Close), and its reader takes only what had come before.
LEMMA NextRoom ==
  TypeOK /\ FreshInv /\ RoomInv /\ StreamRoom' /\ [Next]_vars => RoomInv'
<1> SUFFICES ASSUME TypeOK, FreshInv, RoomInv, StreamRoom', [Next]_vars,
                    NEW c \in Conns, reader'[c] # "off",
                    ~(Streaming' /\ c = cur')
             PROVE  RoomOn(c)'
  BY DEF RoomInv, RoomOn, StreamRoom
<1>t. /\ up \in [Conns -> Seq(Message)] /\ down \in [Conns -> Seq(Message)]
      /\ reader \in [Conns -> ReaderStates] /\ srcEnd \in [Conns -> EndStates]
      /\ recvCh \in [Conns -> Seq(Message)] /\ cur \in Nat
  BY ConnAssumption
  DEF ConnAssumption, TypeOK, DialerTypeOK, ConnTypeOK, RunTypeOK, ReaderTypeOK
<1>c. pc \notin {"start", "backoff", "dial", "done"} => cur \in Conns
  BY DEF TypeOK, DialerTypeOK, RunTypeOK
<1>r. RoomOn(c)
  BY DEF RoomInv
\* The steps that leave everything of c alone.
<1>k. ASSUME reader[c] # "off", down'[c] = down[c], recvCh'[c] = recvCh[c],
             reader'[c] = "holding" => reader[c] = "holding",
             srcEnd'[c] = srcEnd[c],
             (Streaming /\ c = cur) => (Streaming' /\ c = cur')
      PROVE  RoomOn(c)'
  <2>1. srcEnd'[c] = "closed"
    BY <1>r, <1>k DEF RoomOn
  <2> QED
    BY <1>r, <1>k, <2>1, RoomKept
<1>1. CASE CallerStep /\ UNCHANGED sinkVars
  BY <1>1, <1>k
  DEF CallerStep, Submit, Retry, SendBatch, TakeAck, TakeNack, connVars, runVars,
      readerVars, Streaming
<1>2. CASE (Cancel \/ UNCHANGED vars) /\ UNCHANGED <<sinkVars, callerVars>>
  BY <1>2, <1>k
  DEF Cancel, vars, dialerVars, connVars, runVars, readerVars, Streaming
<1>3. CASE (\/ RunStart \/ BackoffElapsed \/ BackoffCancelled \/ DialFails)
           /\ UNCHANGED <<sinkVars, callerVars>>
  BY <1>3, <1>k
  DEF RunStart, BackoffElapsed, BackoffCancelled, DialFails, connVars, readerVars,
      Streaming
<1>4. CASE Connect /\ UNCHANGED callerVars
  <2>1. /\ pc = "dial" /\ srcEnd' = [srcEnd EXCEPT ![cur + 1] = "open"]
        /\ UNCHANGED <<down, reader, recvCh>>
    BY <1>4 DEF Connect, Dial, Upgrade, readerVars
  <2>2. c # cur + 1
    <3>1. c > cur => reader[c] = "off"
      BY DEF FreshInv, FreshOn
    <3> QED
      BY <1>t, <2>1, <3>1
  <2> QED
    BY <1>t, <1>k, <2>1, <2>2 DEF Streaming
<1>5. CASE SendHello /\ UNCHANGED <<sinkVars, callerVars>>
  BY <1>5, <1>k DEF SendHello, readerVars, Streaming
<1>6. CASE (SendHelloFails \/ RecvEnter \/ RecvHelloAckFails)
           /\ UNCHANGED <<sinkVars, callerVars>>
  <2>1. /\ UNCHANGED <<down, reader, recvCh>> /\ ~Streaming
        /\ srcEnd' = srcEnd \/ srcEnd' = [srcEnd EXCEPT ![cur] = "closed"]
    BY <1>6 DEF SendHelloFails, RecvEnter, RecvHelloAckFails, Lost, readerVars,
      Streaming
  <2>2. srcEnd[c] = "closed"
    BY <1>r, <2>1 DEF RoomOn
  <2>3. srcEnd'[c] = srcEnd[c]
    BY <1>t, <2>1, <2>2
  <2> QED
    BY <1>k, <2>1, <2>3
<1>7. CASE RecvHelloAck /\ UNCHANGED <<sinkVars, callerVars>>
  <2>1. /\ pc = "await" /\ cur \in Conns /\ down' = Take(down, cur)
        /\ UNCHANGED <<recvCh, cur>>
        /\ \/ pc' = "stream" /\ reader' = [reader EXCEPT ![cur] = "enter"]
                /\ srcEnd' = srcEnd
           \/ reader' = reader /\ srcEnd' = [srcEnd EXCEPT ![cur] = "closed"]
    BY <1>7, <1>c DEF RecvHelloAck, Lost
  <2>2. reader[cur] = "off"
    BY <2>1 DEF FreshInv, Greets
  <2>3. c # cur
    BY <2>1, <2>2 DEF Streaming
  <2>4. down'[c] = down[c] /\ reader'[c] = reader[c] /\ srcEnd'[c] = srcEnd[c]
    BY <1>t, <2>1, <2>3 DEF Take
  <2> QED
    BY <1>k, <2>1, <2>3, <2>4
<1>8. CASE (StreamCancelled \/ StreamRecvErr \/ WriteBatchFails)
           /\ UNCHANGED <<sinkVars, callerVars>>
  <2>1. /\ cur \in Conns /\ srcEnd' = [srcEnd EXCEPT ![cur] = "closed"]
        /\ UNCHANGED <<down, reader, recvCh>>
    BY <1>8, <1>c
    DEF StreamCancelled, StreamRecvErr, WriteBatchFails, Lost, readerVars
  <2>2. srcEnd'[c] = "closed"
    BY <1>t, <1>r, <2>1 DEF RoomOn
  <2> QED
    BY <1>r, <2>1, <2>2, RoomKept
<1>9. CASE (StreamAnswer \/ Deliver \/ StreamTake \/ WriteBatch)
           /\ UNCHANGED <<sinkVars, callerVars>>
  <2>1. /\ cur \in Conns /\ UNCHANGED <<down, reader, srcEnd, cur>> /\ Streaming'
        /\ recvCh' = recvCh \/ recvCh' = Take(recvCh, cur)
    BY <1>9, <1>c
    DEF StreamAnswer, Deliver, StreamTake, WriteBatch, connVars, readerVars, Streaming
  <2>2. c # cur
    BY <2>1
  <2>3. recvCh'[c] = recvCh[c]
    BY <1>t, <2>1, <2>2 DEF Take
  <2> QED
    BY <1>k, <2>1, <2>2, <2>3
<1>10. ASSUME NEW d \in Conns, ReaderStep(d), UNCHANGED <<sinkVars, callerVars>>
       PROVE  RoomOn(c)'
  <2>1. UNCHANGED <<srcEnd, pc, cur>> /\ Streaming' = Streaming
    BY <1>10 DEF ReaderStep, ReaderEnter, ReaderRecv, ReaderPut, ReaderFails,
      runVars, connVars, Streaming
  <2>2. CASE c # d
    <3>1. down'[c] = down[c] /\ recvCh'[c] = recvCh[c] /\ reader'[c] = reader[c]
      BY <1>t, <1>10, <2>2
      DEF ReaderStep, ReaderEnter, ReaderRecv, ReaderPut, ReaderFails, Take, connVars
    <3> QED
      BY <1>k, <2>1, <3>1
  <2>3. CASE c = d
    <3>1. reader[c] # "off"
      BY <1>10, <2>3 DEF ReaderStep, ReaderEnter, ReaderRecv, ReaderPut, ReaderFails
    <3>2. srcEnd'[c] = "closed"
      BY <1>r, <2>1, <3>1 DEF RoomOn
    <3>3. CASE ReaderRecv(c)
      <4>1. /\ reader[c] = "reading" /\ reader'[c] = "holding"
            /\ down[c] # <<>> /\ down'[c] = Tail(down[c]) /\ recvCh'[c] = recvCh[c]
        BY <1>t, <3>3 DEF ReaderRecv, CanRecv, Take
      <4> QED
        BY <1>r, <3>1, <3>2, <4>1, RoomKept
    <3>4. CASE ReaderPut(c)
      <4>1. /\ reader[c] = "holding" /\ reader'[c] # "holding"
            /\ recvCh'[c] = Append(recvCh[c], hand[c]) /\ down'[c] = down[c]
        BY <1>t, <3>4 DEF ReaderPut, connVars
      <4> QED
        BY <1>r, <3>1, <3>2, <4>1, RoomKept
    <3>5. CASE ReaderEnter(c) \/ ReaderFails(c)
      <4>1. /\ reader'[c] # "holding"
            /\ recvCh'[c] = recvCh[c] /\ down'[c] = down[c]
        BY <1>t, <3>5 DEF ReaderEnter, ReaderFails, connVars
      <4> QED
        BY <1>r, <3>1, <3>2, <4>1, RoomKept
    <3> QED
      BY <1>10, <2>3, <3>3, <3>4, <3>5 DEF ReaderStep
  <2> QED
    BY <2>2, <2>3
<1>11. ASSUME NEW d \in Conns, SinkStep(d), UNCHANGED <<dialerVars, callerVars>>
       PROVE  RoomOn(c)'
  <2>1. /\ UNCHANGED <<reader, recvCh, srcEnd, pc, cur>> /\ Streaming' = Streaming
    BY <1>11 DEF SinkStep, HandlerStep, RecvBatch, RecvBatchFails, ApplyOK, ApplyFails,
      CommitUnknown, Reply, ReplyFails, ListenerStep, RecvHello, RecvHelloFails,
      Reject, Accept, AcceptFails, connVars, dialerVars, runVars, readerVars, Streaming
  <2>2. srcEnd[c] = "closed"
    BY <1>r, <2>1 DEF RoomOn
  <2>3. down' = down \/ \E m : down' = Put(down, d, m)
    BY <1>11 DEF SinkStep, HandlerStep, RecvBatch, RecvBatchFails, ApplyOK, ApplyFails,
      CommitUnknown, Reply, ReplyFails, ListenerStep, RecvHello, RecvHelloFails,
      Reject, Accept, AcceptFails, connVars
  <2>4. down'[c] = down[c]
    BY <1>t, <2>2, <2>3, PutClosed
  <2> QED
    BY <1>k, <2>1, <2>4
<1>12. ASSUME NEW d \in Conns, Break(d), UNCHANGED <<dialerVars, sinkVars, callerVars>>
       PROVE  RoomOn(c)'
  BY <1>12, <1>k DEF Break, dialerVars, runVars, readerVars, Streaming
<1>13. CASE ListenerLife /\ UNCHANGED <<dialerVars, callerVars>>
  BY <1>13, <1>k DEF ListenerLife, connVars, dialerVars, runVars, readerVars, Streaming
<1>14. UNCHANGED vars => UNCHANGED <<sinkVars, callerVars>>
  BY DEF vars
<1> QED
  BY <1>1, <1>2, <1>3, <1>4, <1>5, <1>6, <1>7, <1>8, <1>9, <1>10, <1>11, <1>12,
     <1>13, <1>14
  DEF Next, CallerStep, DialerStep, RunStep, Terminated

\* With a window within recvCh no reader goroutine is ever left with an answer
\* that nobody takes (dialer.go, stream: the send to recvCh has no select).
THEOREM ReadersRoom == Spec => []ReadersHaveRoom
<1>1. Init => RoomInv
  <2> SUFFICES ASSUME Init, NEW c \in Conns PROVE reader[c] = "off"
    BY DEF RoomInv, RoomOn
  <2> QED
    BY DEF Init, DialerInit
<1>2. Spec => []StreamRoom
  BY StreamFits, CopiesCounted, TypeCorrect, PTL
<1>3. Spec => []FreshInv
  <2>1. CopyInv => FreshInv
    BY DEF CopyInv
  <2> QED
    BY <2>1, CopiesCounted, PTL
<1>4. Spec => []RoomInv
  BY <1>1, <1>2, <1>3, NextRoom, TypeCorrect, PTL DEF Spec
<1>5. TypeOK /\ RoomInv => ReadersHaveRoom
  <2> SUFFICES ASSUME TypeOK, RoomInv, Window <= RecvCap, NEW c \in Conns, Blocked(c)
               PROVE  FALSE
    BY DEF ReadersHaveRoom
  <2>1. Len(down[c]) + 1 + RecvCap <= Window
    BY DEF Blocked, RoomInv, RoomOn, Answers, Held
  <2>2. Len(down[c]) \in Nat /\ Window \in Nat /\ RecvCap \in Nat
    BY TransportAssumption, DialerAssumption
    DEF TransportAssumption, DialerAssumption, TypeOK, ConnTypeOK
  <2> QED
    BY <2>1, <2>2
<1> QED
  BY <1>4, <1>5, TypeCorrect, PTL
=============================================================================

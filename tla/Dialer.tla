------------------------------- MODULE Dialer -------------------------------
(***************************************************************************)
(* internal/transport/dialer.go: the source side of a node-to-node link.   *)
(*                                                                         *)
(* Three goroutines touch a Dialer: the caller of SendBatch (and consumer  *)
(* of Acks and Nacks), Run with its connect-handshake-stream loop, and one *)
(* reader goroutine per streamed connection.  pc is Run's program counter: *)
(*                                                                         *)
(*   start -> dial -> hello -> recvEnter -> await -> stream <-> write      *)
(*               ^                                     stream <-> deliver  *)
(*               +---- backoff <---- any loss                              *)
(*                                                                         *)
(* and "done" once Run has returned.  stream is the select of stream();    *)
(* write is conn.Send of the batch just taken; deliver is the blocking     *)
(* send of an answer on d.Acks or d.Nacks.                                 *)
(***************************************************************************)
EXTENDS Conn

CONSTANTS
  SendCap,     \* capacity of d.send, 16 in the code
  RespCap,     \* capacity of d.Acks and of d.Nacks, 16 in the code
  RecvCap,     \* capacity of a stream's recvCh, 4 in the code
  MaxAttempt   \* the attempt at which the backoff is at its cap

ASSUME DialerAssumption ==
  /\ SendCap \in Nat \ {0}
  /\ RespCap \in Nat \ {0}
  /\ RecvCap \in Nat \ {0}
  /\ MaxAttempt \in Nat \ {0}

VARIABLES
  ctxDone,     \* Run's context has been cancelled
  pc,          \* where Run is
  attempt,     \* connection attempts so far, saturated at MaxAttempt
  cur,         \* the connection Run made last, 0 before the first
  sendCh,      \* d.send
  acks,        \* d.Acks
  nacks,       \* d.Nacks
  inflight,    \* stream's inflight batch, 0 for nil
  resp,        \* the answer being delivered on d.Acks or d.Nacks
  reader,      \* reader[c]: the goroutine that reads connection c
  hand,        \* hand[c]: the message it is about to put on recvCh
  recvCh,      \* recvCh[c]: messages read from c, not yet selected
  recvErr      \* recvErr[c]: the reader has reported an error

runVars    == <<pc, attempt, cur, inflight, resp>>
chanVars   == <<sendCh, acks, nacks>>
readerVars == <<reader, hand, recvCh, recvErr>>
dialerVars == <<ctxDone, runVars, chanVars, readerVars>>

PCs == {"start", "backoff", "dial", "hello", "recvEnter", "await",
        "stream", "write", "deliver", "done"}

ReaderStates == {"off", "enter", "reading", "holding", "exited"}

RunTypeOK ==
  /\ ctxDone \in BOOLEAN
  /\ pc \in PCs
  /\ attempt \in 0 .. MaxAttempt
  /\ cur \in 0 .. (MaxBreaks + 1)
  /\ pc \notin {"start", "backoff", "dial", "done"} => cur \in Conns
  /\ inflight \in 0 .. MaxBatch
  /\ pc = "write" => inflight # 0
  /\ resp \in Message \cup {NoMsg}

ChanTypeOK ==
  /\ sendCh \in Seq(Batches) /\ Len(sendCh) <= SendCap
  /\ acks \in Seq(Batches) /\ Len(acks) <= RespCap
  /\ nacks \in Seq(Batches) /\ Len(nacks) <= RespCap

ReaderTypeOK ==
  /\ reader \in [Conns -> ReaderStates]
  /\ hand \in [Conns -> Message \cup {NoMsg}]
  /\ \A c \in Conns : reader[c] = "holding" => hand[c] \in Message
  /\ recvCh \in [Conns -> Seq(Message)]
  /\ \A c \in Conns : Len(recvCh[c]) <= RecvCap
  /\ recvErr \in [Conns -> BOOLEAN]

DialerTypeOK == RunTypeOK /\ ChanTypeOK /\ ReaderTypeOK

DialerInit ==
  /\ ctxDone = FALSE
  /\ pc = "start"
  /\ attempt = 0
  /\ cur = 0
  /\ sendCh = <<>> /\ acks = <<>> /\ nacks = <<>>
  /\ inflight = 0
  /\ resp = NoMsg
  /\ reader = [c \in Conns |-> "off"]
  /\ hand = [c \in Conns |-> NoMsg]
  /\ recvCh = [c \in Conns |-> <<>>]
  /\ recvErr = [c \in Conns |-> FALSE]

-----------------------------------------------------------------------------
\* The context is cancelled, by whoever started Run.
Cancel ==
  /\ ~ctxDone
  /\ ctxDone' = TRUE
  /\ UNCHANGED <<runVars, chanVars, readerVars, connVars>>

\* SendBatch returns nil as soon as the batch is in the channel.  While the
\* channel is full it blocks; returning ctx.Err() changes nothing.
SendBatch(b) ==
  /\ Len(sendCh) < SendCap
  /\ sendCh' = Append(sendCh, b)
  /\ UNCHANGED <<ctxDone, runVars, acks, nacks, readerVars, connVars>>

-----------------------------------------------------------------------------
\* Faulty variant of Lost: the deferred Close is forgotten.
LostUnclosed ==
  /\ inflight' = 0
  /\ pc' = IF ctxDone THEN "done" ELSE "backoff"
  /\ UNCHANGED srcEnd

\* runOnce has returned: its deferred Close runs, and Run goes back to the
\* top of its loop, which returns on a cancelled context.
Lost ==
  /\ srcEnd' = [srcEnd EXCEPT ![cur] = "closed"]
  /\ inflight' = 0
  /\ pc' = IF ctxDone THEN "done" ELSE "backoff"

\* Faulty variant of Requeued: the batch in flight is forgotten.
RequeuedNever == sendCh

\* requeue of the inflight batch; a full channel drops it.
Requeued ==
  IF inflight # 0 /\ Len(sendCh) < SendCap
    THEN Append(sendCh, inflight)
    ELSE sendCh

\* Faulty variant of NextAttempt: the index into delays is not clamped.
NextAttemptUnclamped == attempt + 1

NextAttempt == IF attempt < MaxAttempt THEN attempt + 1 ELSE attempt

\* First iteration: no backoff before the first attempt.
RunStart ==
  /\ pc = "start"
  /\ IF ctxDone
       THEN pc' = "done" /\ UNCHANGED attempt
       ELSE pc' = "dial" /\ attempt' = NextAttempt
  /\ UNCHANGED <<ctxDone, cur, inflight, resp, chanVars, readerVars, connVars>>

BackoffElapsed ==
  /\ pc = "backoff"
  /\ pc' = "dial"
  /\ attempt' = NextAttempt
  /\ UNCHANGED <<ctxDone, cur, inflight, resp, chanVars, readerVars, connVars>>

BackoffCancelled ==
  /\ pc = "backoff"
  /\ ctxDone
  /\ pc' = "done"
  /\ UNCHANGED <<ctxDone, attempt, cur, inflight, resp,
                 chanVars, readerVars, connVars>>

\* DialContext succeeds.  The listener's half is Listener!Upgrade.
Dial ==
  /\ pc = "dial"
  /\ ~ctxDone
  /\ cur <= MaxBreaks
  /\ cur' = cur + 1
  /\ srcEnd' = [srcEnd EXCEPT ![cur + 1] = "open"]
  /\ pc' = "hello"
  /\ UNCHANGED <<ctxDone, attempt, inflight, resp, chanVars, readerVars,
                 up, down, broken>>

\* Faulty variant of DialFails: the context is not looked at.
DialFailsDeaf ==
  /\ pc = "dial"
  /\ pc' = "backoff"
  /\ UNCHANGED <<ctxDone, attempt, cur, inflight, resp,
                 chanVars, readerVars, connVars>>

DialFails ==
  /\ pc = "dial"
  /\ pc' = IF ctxDone THEN "done" ELSE "backoff"
  /\ UNCHANGED <<ctxDone, attempt, cur, inflight, resp,
                 chanVars, readerVars, connVars>>

\* Faulty variant of SendHello: the answer is not waited for.
SendHelloNoWait ==
  /\ pc = "hello"
  /\ ~ctxDone
  /\ up' = Put(up, cur, Msg("hello", 0))
  /\ pc' = "stream"
  /\ reader' = [reader EXCEPT ![cur] = "enter"]
  /\ UNCHANGED <<ctxDone, attempt, cur, inflight, resp, chanVars,
                 hand, recvCh, recvErr, down, srcEnd, snkEnd, broken>>

\* The Hello is written; the next thing Run does is Recv.
SendHello ==
  /\ pc = "hello"
  /\ ~ctxDone
  /\ up' = Put(up, cur, Msg("hello", 0))
  /\ pc' = "recvEnter"
  /\ UNCHANGED <<ctxDone, attempt, cur, inflight, resp, chanVars, readerVars,
                 down, srcEnd, snkEnd, broken>>

SendHelloFails ==
  /\ pc = "hello"
  /\ ctxDone \/ SendFails(cur)
  /\ Lost
  /\ UNCHANGED <<ctxDone, attempt, cur, resp, chanVars, readerVars,
                 up, down, snkEnd, broken>>

\* Conn.Recv looks at the context once, before it blocks in ReadMessage.
RecvEnter ==
  /\ pc = "recvEnter"
  /\ IF ctxDone
       THEN Lost
       ELSE pc' = "await" /\ UNCHANGED <<srcEnd, inflight>>
  /\ UNCHANGED <<ctxDone, attempt, cur, resp, chanVars, readerVars,
                 up, down, snkEnd, broken>>

\* Faulty variant of RecvHelloAck: Accepted is not looked at.
RecvHelloAckUnchecked ==
  /\ pc = "await"
  /\ CanRecv(down, cur)
  /\ down' = Take(down, cur)
  /\ pc' = "stream"
  /\ reader' = [reader EXCEPT ![cur] = "enter"]
  /\ UNCHANGED <<ctxDone, attempt, cur, inflight, resp, chanVars,
                 hand, recvCh, recvErr, up, srcEnd, snkEnd, broken>>

\* The answer to Hello.  An acceptance starts stream() and its reader; a
\* rejection is returned as an error and Run retries like after any other.
RecvHelloAck ==
  /\ pc = "await"
  /\ CanRecv(down, cur)
  /\ down' = Take(down, cur)
  /\ IF Head(down[cur]).type = "accept"
       THEN /\ pc' = "stream"
            /\ reader' = [reader EXCEPT ![cur] = "enter"]
            /\ UNCHANGED <<srcEnd, inflight>>
       ELSE Lost /\ UNCHANGED reader
  /\ UNCHANGED <<ctxDone, attempt, cur, resp, chanVars,
                 hand, recvCh, recvErr, up, snkEnd, broken>>

RecvHelloAckFails ==
  /\ pc = "await"
  /\ SrcRecvFails(cur)
  /\ Lost
  /\ UNCHANGED <<ctxDone, attempt, cur, resp, chanVars, readerVars,
                 up, down, snkEnd, broken>>

-----------------------------------------------------------------------------
(* stream(): the select picks any case that is ready.                      *)

\* case <-ctx.Done()
StreamCancelled ==
  /\ pc = "stream"
  /\ ctxDone
  /\ sendCh' = Requeued
  /\ Lost
  /\ UNCHANGED <<ctxDone, attempt, cur, resp, acks, nacks, readerVars,
                 up, down, snkEnd, broken>>

\* case err := <-recvErr
StreamRecvErr ==
  /\ pc = "stream"
  /\ recvErr[cur]
  /\ recvErr' = [recvErr EXCEPT ![cur] = FALSE]
  /\ sendCh' = Requeued
  /\ Lost
  /\ UNCHANGED <<ctxDone, attempt, cur, resp, acks, nacks,
                 reader, hand, recvCh, up, down, snkEnd, broken>>

\* Faulty variant of StreamAnswer: inflight is not reset.
StreamAnswerKeeps ==
  /\ pc = "stream"
  /\ CanRecv(recvCh, cur)
  /\ recvCh' = Take(recvCh, cur)
  /\ resp' = Head(recvCh[cur])
  /\ pc' = "deliver"
  /\ UNCHANGED <<ctxDone, attempt, cur, inflight, chanVars,
                 reader, hand, recvErr, connVars>>

\* case msg := <-recvCh: an answer clears inflight whatever its BatchID is.
StreamAnswer ==
  /\ pc = "stream"
  /\ CanRecv(recvCh, cur)
  /\ recvCh' = Take(recvCh, cur)
  /\ inflight' = 0
  /\ resp' = Head(recvCh[cur])
  /\ pc' = "deliver"
  /\ UNCHANGED <<ctxDone, attempt, cur, chanVars, reader, hand, recvErr,
                 connVars>>

\* Faulty variant of Deliver: a Nack goes to d.Acks too.
DeliverAllAsAcks ==
  /\ pc = "deliver"
  /\ Len(acks) < RespCap
  /\ acks' = Append(acks, resp.id)
  /\ resp' = NoMsg
  /\ pc' = "stream"
  /\ UNCHANGED <<ctxDone, attempt, cur, inflight, sendCh, nacks, readerVars,
                 connVars>>

\* d.Acks <- m, d.Nacks <- m: blocks while the channel is full, context or not.
Deliver ==
  /\ pc = "deliver"
  /\ \/ /\ resp.type = "ack"
        /\ Len(acks) < RespCap
        /\ acks' = Append(acks, resp.id)
        /\ UNCHANGED nacks
     \/ /\ resp.type = "nack"
        /\ Len(nacks) < RespCap
        /\ nacks' = Append(nacks, resp.id)
        /\ UNCHANGED acks
  /\ resp' = NoMsg
  /\ pc' = "stream"
  /\ UNCHANGED <<ctxDone, attempt, cur, inflight, sendCh, readerVars, connVars>>

\* case batch := <-d.send: the batch replaces whatever was inflight.
StreamTake ==
  /\ pc = "stream"
  /\ sendCh # <<>>
  /\ inflight' = Head(sendCh)
  /\ sendCh' = Tail(sendCh)
  /\ pc' = "write"
  /\ UNCHANGED <<ctxDone, attempt, cur, resp, acks, nacks, readerVars, connVars>>

WriteBatch ==
  /\ pc = "write"
  /\ ~ctxDone
  /\ up' = Put(up, cur, Msg("change_batch", inflight))
  /\ pc' = "stream"
  /\ UNCHANGED <<ctxDone, attempt, cur, inflight, resp, chanVars, readerVars,
                 down, srcEnd, snkEnd, broken>>

WriteBatchFails ==
  /\ pc = "write"
  /\ ctxDone \/ SendFails(cur)
  /\ sendCh' = Requeued
  /\ Lost
  /\ UNCHANGED <<ctxDone, attempt, cur, resp, acks, nacks, readerVars,
                 up, down, snkEnd, broken>>

-----------------------------------------------------------------------------
(* The reader goroutine of connection c, which stream() leaves behind.     *)

ReaderEnter(c) ==
  /\ reader[c] = "enter"
  /\ IF ctxDone
       THEN /\ reader' = [reader EXCEPT ![c] = "exited"]
            /\ recvErr' = [recvErr EXCEPT ![c] = TRUE]
       ELSE /\ reader' = [reader EXCEPT ![c] = "reading"]
            /\ UNCHANGED recvErr
  /\ UNCHANGED <<ctxDone, runVars, chanVars, hand, recvCh, connVars>>

ReaderRecv(c) ==
  /\ reader[c] = "reading"
  /\ CanRecv(down, c)
  /\ down' = Take(down, c)
  /\ hand' = [hand EXCEPT ![c] = Head(down[c])]
  /\ reader' = [reader EXCEPT ![c] = "holding"]
  /\ UNCHANGED <<ctxDone, runVars, chanVars, recvCh, recvErr,
                 up, srcEnd, snkEnd, broken>>

\* recvCh <- msg: blocks while the buffer is full.
ReaderPut(c) ==
  /\ reader[c] = "holding"
  /\ Len(recvCh[c]) < RecvCap
  /\ recvCh' = [recvCh EXCEPT ![c] = Append(@, hand[c])]
  /\ hand' = [hand EXCEPT ![c] = NoMsg]
  /\ reader' = [reader EXCEPT ![c] = "enter"]
  /\ UNCHANGED <<ctxDone, runVars, chanVars, recvErr, connVars>>

ReaderFails(c) ==
  /\ reader[c] = "reading"
  /\ SrcRecvFails(c)
  /\ reader' = [reader EXCEPT ![c] = "exited"]
  /\ recvErr' = [recvErr EXCEPT ![c] = TRUE]
  /\ UNCHANGED <<ctxDone, runVars, chanVars, hand, recvCh, connVars>>

-----------------------------------------------------------------------------
\* Everything Run does but connecting.
RunStep ==
  \/ RunStart \/ BackoffElapsed \/ BackoffCancelled
  \/ SendHello \/ SendHelloFails \/ RecvEnter
  \/ RecvHelloAck \/ RecvHelloAckFails
  \/ StreamCancelled \/ StreamRecvErr \/ StreamAnswer \/ Deliver
  \/ StreamTake \/ WriteBatch \/ WriteBatchFails

ReaderStep(c) ==
  ReaderEnter(c) \/ ReaderRecv(c) \/ ReaderPut(c) \/ ReaderFails(c)
=============================================================================

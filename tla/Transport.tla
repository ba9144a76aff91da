----------------------------- MODULE Transport ------------------------------
(***************************************************************************)
(* One node-to-node link: a Dialer and its caller at the source, the       *)
(* Listener and its handlers at the sink, and the connections between.     *)
(*                                                                         *)
(* The caller is the pipeline engine, which is not in the repository yet;  *)
(* it follows the contract in the comments of dialer.go and messages.go:   *)
(* SendBatch, wait on Acks or Nacks, after a Nack retry the same batch.    *)
(* It keeps at most Window batches unanswered.                             *)
(***************************************************************************)
EXTENDS Dialer, Sink

CONSTANT Window   \* how many batches the caller leaves unanswered

ASSUME TransportAssumption == Window \in Nat \ {0}

VARIABLES
  submitted,   \* batches 1 .. submitted have been given to SendBatch
  acked,       \* batches whose Ack the caller has taken from d.Acks
  redo         \* batches whose Nack it has taken, to be sent again

callerVars == <<submitted, acked, redo>>
vars == <<dialerVars, connVars, sinkVars, callerVars>>

\* Submitted and, for all the caller knows, not delivered.
Pending == (1 .. submitted) \ acked

CallerTypeOK ==
  /\ submitted \in 0 .. MaxBatch
  /\ acked \subseteq Batches
  /\ redo \subseteq Batches

TypeOK == ConnTypeOK /\ DialerTypeOK /\ SinkTypeOK /\ CallerTypeOK

Init ==
  /\ ConnInit
  /\ DialerInit
  /\ SinkInit
  /\ submitted = 0
  /\ acked = {}
  /\ redo = {}

-----------------------------------------------------------------------------
(* The caller.                                                             *)

\* Everything but the last Window - 1 batches has been acknowledged.
WindowOpen == \A b \in Pending : b + Window > submitted + 1

Submit ==
  /\ submitted < MaxBatch
  /\ WindowOpen
  /\ SendBatch(submitted + 1)
  /\ submitted' = submitted + 1
  /\ UNCHANGED <<acked, redo>>

Retry(b) ==
  /\ b \in redo
  /\ SendBatch(b)
  /\ redo' = redo \ {b}
  /\ UNCHANGED <<submitted, acked>>

TakeAck ==
  /\ acks # <<>>
  /\ acks' = Tail(acks)
  /\ acked' = acked \cup {Head(acks)}
  /\ UNCHANGED <<submitted, redo, ctxDone, runVars, sendCh, nacks, readerVars,
                 connVars>>

TakeNack ==
  /\ nacks # <<>>
  /\ nacks' = Tail(nacks)
  /\ redo' = redo \cup {Head(nacks)}
  /\ UNCHANGED <<submitted, acked, ctxDone, runVars, sendCh, acks, readerVars,
                 connVars>>

CallerStep == Submit \/ (\E b \in Batches : Retry(b)) \/ TakeAck \/ TakeNack

-----------------------------------------------------------------------------
\* Both ends of connecting.
Connect ==
  /\ Dial /\ Upgrade(cur')
  /\ UNCHANGED <<published, server, work, applied, row, faults>>

DialerStep ==
  \/ (RunStep \/ DialFails) /\ UNCHANGED sinkVars
  \/ Connect

\* The listener's Start, beside the connections.
ListenerLife ==
  ServerStep /\ UNCHANGED <<connVars, work, applied, row, faults>>

\* Run has returned.  What is left at the sink and in the readers may finish.
Terminated == pc = "done" /\ UNCHANGED vars

Next ==
  \/ CallerStep /\ UNCHANGED sinkVars
  \/ Cancel /\ UNCHANGED <<sinkVars, callerVars>>
  \/ DialerStep /\ UNCHANGED callerVars
  \/ ListenerLife /\ UNCHANGED <<dialerVars, callerVars>>
  \/ \E c \in Conns :
       \/ ReaderStep(c) /\ UNCHANGED <<sinkVars, callerVars>>
       \/ SinkStep(c) /\ UNCHANGED <<dialerVars, callerVars>>
       \/ Break(c) /\ UNCHANGED <<dialerVars, sinkVars, callerVars>>
  \/ Terminated

Spec == Init /\ [][Next]_vars

-----------------------------------------------------------------------------
(* Fairness.  A goroutine that can run does; a dial that is tried again    *)
(* and again while the sink is up succeeds at last.                        *)

SourceFairness ==
  /\ WF_vars(CallerStep /\ UNCHANGED sinkVars)
  /\ WF_vars(DialerStep /\ UNCHANGED callerVars)
  /\ SF_vars(Connect /\ UNCHANGED callerVars)
  /\ \A c \in Conns : WF_vars(ReaderStep(c) /\ UNCHANGED <<sinkVars, callerVars>>)

\* No fairness of ServerReturns.
SinkFairness ==
  /\ WF_vars(Serve /\ ListenerLife /\ UNCHANGED <<dialerVars, callerVars>>)
  /\ \A c \in Conns : WF_vars(SinkStep(c) /\ UNCHANGED <<dialerVars, callerVars>>)

FairSpec == Spec /\ SourceFairness /\ SinkFairness

-----------------------------------------------------------------------------
(* Safety.                                                                 *)

\* Messages that wait in the sequence s carry these batch ids.
IdsOf(s) == {s[i] : i \in DOMAIN s}

\* Where stream() and the caller still hold a batch that has no Ack: in
\* d.send, in flight, or as an answer that is on its way to the caller.
HeldAtSource ==
  IdsOf(sendCh) \cup {inflight, resp.id} \cup IdsOf(acks) \cup IdsOf(nacks)
    \cup redo

\* A stream is up.
Streaming == pc \in {"stream", "write", "deliver"}

\* An Ack that reaches the caller is of a batch the sink has committed
\* (messages.go: "sent by the sink after successfully applying"), whatever
\* connections were lost between the commit, the Ack and its arrival.
AckMeansCommitted == acked \subseteq applied

\* A batch that SendBatch accepted and that is not acknowledged is still held
\* at the source: a lost connection re-queues it (dialer.go, stream).
NoBatchLost == Pending \subseteq HeldAtSource

\* The same, of the moments between two connections only: when a connection is
\* lost, the batches that were in flight on it are re-queued.
RequeuedOnLoss == pc = "backoff" => Pending \subseteq HeldAtSource

\* A batch the caller has seen acknowledged is not sent or offered again: the
\* requeue of stream() and the caller's retry never both keep one batch alive.
AckedNeverResent ==
  acked \cap (IdsOf(sendCh) \cup {inflight} \cup IdsOf(nacks) \cup redo) = {}

\* stream() never waits for the consumer of Acks and Nacks, where it would be
\* deaf to its context: a window within RespCap leaves room for every answer.
AnswerHasRoom ==
  pc = "deliver" => /\ resp.type = "ack" => Len(acks) < RespCap
                    /\ resp.type = "nack" => Len(nacks) < RespCap

\* A write never waits for long: there are no more messages on the connection
\* than batches are unanswered, so neither end fills the buffers of the network
\* while the other one does the same (conn.go: Send has no deadline).
WiresAreShort == Streaming => Len(up[cur]) + Len(down[cur]) <= Window

\* The dialer streams only on a connection that the listener has given to its
\* handler: the two ends agree on the outcome of the handshake.
StreamsOnlyToHandler ==
  pc \in {"stream", "write", "deliver"} => cur \in Serving

\* No change is committed through a subscription the sink does not publish.
OnlyPublishedCommitted == applied # {} => Subscribe \subseteq published

-----------------------------------------------------------------------------
(* What makes the safety properties inductive, for every Window.           *)

\* What the handler of a connection finds on it.
BatchFrames == {m \in Message : m.type = "change_batch"}

\* What the dialer finds on a connection that was not accepted.
Refusals == {m \in Message : m.type # "accept"}

\* The handshake of connection c: one Hello, first, while the listener waits
\* for it; only batches once it has been read; an acceptance only from a
\* connection that has its handler.
HandshakeOn(c) ==
  /\ srv[c] = "none" => up[c] = <<>>
  /\ srv[c] = "hello" => up[c] \in {<<>>, <<Msg("hello", 0)>>}
  /\ srv[c] \in {"accept", "reject"} \/ c \in Serving => up[c] \in Seq(BatchFrames)
  /\ c \notin Serving => down[c] \in Seq(Refusals)
  /\ srv[c] = "closed" => snkEnd[c] = "closed"
  /\ srv[c] \in {"apply", "reply"} => work[c] \in Frame

\* The two ends of the handshake never disagree: the Hello is the first frame
\* the listener reads, no batch is written before the acceptance is out.
HandshakeInv ==
  /\ \A c \in Conns : HandshakeOn(c)
  /\ pc = "hello" => srv[cur] \in {"hello", "closed"} /\ up[cur] = <<>>
  /\ StreamsOnlyToHandler

\* Once a subscription is accepted, let alone served, it is published; only
\* what is served is committed.
SubscriptionInv ==
  /\ \A c \in Conns :
       srv[c] = "accept" \/ c \in Serving => Subscribe \subseteq published
  /\ OnlyPublishedCommitted

\* Every message but an Ack of a batch that is not committed.
Truthful == {m \in Message : m.type = "ack" => m.id \in applied}

\* No Ack of an uncommitted batch on c's wire, in its reader or its handler.
AckOn(c) ==
  /\ down[c] \in Seq(Truthful)
  /\ recvCh[c] \in Seq(Truthful)
  /\ hand[c] \in Truthful \cup {NoMsg}
  /\ work[c] \in Truthful \cup {NoMsg}

\* An Ack is only ever under way for a batch that is committed, wherever it is.
AckInv ==
  /\ \A c \in Conns : AckOn(c)
  /\ resp \in Truthful \cup {NoMsg}
  /\ acks \in Seq(applied)
  /\ AckMeansCommitted

\* The ids of the batches that the messages of s are about.
Ids(s) == {s[i].id : i \in DOMAIN s}

\* Where a batch that SendBatch has accepted is on its way out and back: in
\* d.send, about to be written, on the wire, at the handler, on the wire again
\* as an answer, with the reader, in recvCh, in delivery, in d.Acks or d.Nacks,
\* and with the caller.  What is left of a connection that is lost does not
\* count: nobody listens to it.
Copies ==
  [send |-> IdsOf(sendCh),
   write |-> IF pc = "write" THEN {inflight} ELSE {},
   up |-> IF Streaming THEN Ids(up[cur]) ELSE {},
   work |-> IF Streaming /\ srv[cur] \in {"apply", "reply"}
              THEN {work[cur].id} ELSE {},
   down |-> IF Streaming THEN Ids(down[cur]) ELSE {},
   hand |-> IF Streaming /\ reader[cur] = "holding" THEN {hand[cur].id} ELSE {},
   recv |-> IF Streaming THEN Ids(recvCh[cur]) ELSE {},
   resp |-> IF pc = "deliver" THEN {resp.id} ELSE {},
   acks |-> IdsOf(acks),
   nacks |-> IdsOf(nacks),
   redo |-> redo,
   acked |-> acked]

Places == {"send", "write", "up", "work", "down", "hand", "recv", "resp",
           "acks", "nacks", "redo", "acked"}

\* The batches 1 .. n are distributed over the places, none to two of them.
Apart(at, n) ==
  /\ \A p \in Places : at[p] \subseteq 1 .. n
  /\ \A p, q \in Places : p # q => at[p] \cap at[q] = {}

\* No batch twice in a queue of batches, or of messages.
Single(s) == \A i, j \in DOMAIN s : s[i] = s[j] => i = j
SingleIds(s) == \A i, j \in DOMAIN s : s[i].id = s[j].id => i = j

\* No batch is in two places, or twice in one.
OneCopy ==
  /\ Apart(Copies, submitted)
  /\ Single(sendCh) /\ Single(acks) /\ Single(nacks)
  /\ Streaming =>
       SingleIds(up[cur]) /\ SingleIds(down[cur]) /\ SingleIds(recvCh[cur])

\* The places within the source from where a batch is sent, or answered.
AtSource == {"send", "resp", "acks", "nacks", "redo", "acked"}

\* What is in flight has not been answered, as far as stream() knows, and is
\* nowhere from where it would be sent a second time.
InflightInv ==
  inflight # 0 =>
    /\ Streaming
    /\ inflight \in 1 .. submitted
    /\ \A p \in AtSource : inflight \notin Copies[p]

\* Connection c carries nothing down before it is answered, and nothing at all
\* before it is dialled; no reader, nothing read.
FreshOn(c) ==
  /\ srv[c] \in {"none", "hello", "accept", "reject"} => down[c] = <<>>
  /\ c > cur => srv[c] = "none" /\ reader[c] = "off"
  /\ reader[c] = "off" => recvCh[c] = <<>>

\* A connection in its handshake carries a Hello at most, and one answer to it.
Greets ==
  pc \in {"hello", "recvEnter", "await"} =>
    /\ up[cur] \in {<<>>, <<Msg("hello", 0)>>}
    /\ Len(down[cur]) <= 1
    /\ srv[cur] \notin {"apply", "reply"}
    /\ reader[cur] = "off"

\* A connection that starts to stream carries no batch yet.
FreshInv == (\A c \in Conns : FreshOn(c)) /\ Greets

\* The caller keeps to its window.
WindowInv == \A b \in Pending : b + Window > submitted

CopyInv == OneCopy /\ InflightInv /\ FreshInv /\ WindowInv

-----------------------------------------------------------------------------
(* Liveness.                                                               *)

\* Cancelling the context makes Run return (dialer.go, Run), if the sink
\* keeps running.
CancelStopsRun == ctxDone ~> pc = "done"

\* The reader of connection c holds a message that recvCh has no room for: the
\* send at dialer.go:179 waits, and looks at no context.
Blocked(c) == reader[c] = "holding" /\ Len(recvCh[c]) = RecvCap

\* The reader goroutine of a connection that Run has given up exits, or it is
\* left behind for good with a message that nobody will take: Blocked, which
\* takes more answers on one connection than RecvCap.  It never stays for
\* another reason: the closed connection ends its Recv (dialer.go, stream).
ReadersExit ==
  \A c \in Conns :
    (reader[c] # "off" /\ (pc = "done" \/ cur > c))
      ~> reader[c] = "exited" \/ Blocked(c)

\* With a window within RecvCap no reader is ever left behind: there is room in
\* recvCh for every answer that can still come on its connection.
ReadersHaveRoom == Window <= RecvCap => \A c \in Conns : ~Blocked(c)

\* The listener is not served any more, and no connection of it is left.
Abandoned == server = "returned" /\ (cur = 0 \/ Dead(cur))

\* The listener does not publish all that the dialer subscribes to.
Refused == ~(Subscribe \subseteq published)

\* With one batch at a time, the link is an in-order at-least-once channel.
\* That Start has returned does not end it: the connection that is up goes on
\* delivering until it is lost.  A subscription that is refused is promised
\* nothing.
Link == INSTANCE Delivery WITH
  committed <- applied, confirmed <- acked,
  cancelled <- ctxDone \/ Abandoned \/ Refused

LinkSpec == Link!Spec
LinkLiveSpec == Link!LiveSpec
=============================================================================

-------------------------------- MODULE Conn --------------------------------
(***************************************************************************)
(* The wire of internal/transport: the messages of messages.go and the     *)
(* WebSocket connection that conn.go wraps.                                *)
(*                                                                         *)
(* A node keeps dialling after a loss, so there are several connections in *)
(* one run; connection c has a frame queue in each direction, and the two  *)
(* ends are closed independently.  The old connection's sink end outlives  *)
(* the source's: frames that were already under way are still readable.    *)
(***************************************************************************)
EXTENDS Naturals, Sequences

CONSTANTS
  MaxBatch,    \* bound: number of distinct change batches
  MaxBreaks    \* bound: number of connections the network may break

ASSUME ConnAssumption ==
  /\ MaxBatch \in Nat \ {0}
  /\ MaxBreaks \in Nat

Batches == 1 .. MaxBatch

\* Only the first MaxBreaks connections can break: the last one is stable.
Conns == 1 .. (MaxBreaks + 1)

\* The messages of the handshake; HelloAck is split by its Accepted field.
Greeting == [type : {"hello", "accept", "reject"}, id : {0}]

\* The messages of the stream that carry a BatchID.
Frame == [type : {"change_batch", "ack", "nack"}, id : Batches]

Message == Greeting \cup Frame

Msg(t, b) == [type |-> t, id |-> b]

\* An empty slot.
NoMsg == [type |-> "none", id |-> 0]

VARIABLES
  up,        \* up[c]: frames written by the source, not yet read by the sink
  down,      \* down[c]: frames written by the sink, not yet read by the source
  srcEnd,    \* srcEnd[c]: "none", "open" or "closed", the dialer's end
  snkEnd,    \* snkEnd[c]: the same for the listener's end
  broken     \* connections the network has cut

connVars == <<up, down, srcEnd, snkEnd, broken>>

EndStates == {"none", "open", "closed"}

ConnTypeOK ==
  /\ up \in [Conns -> Seq(Message)]
  /\ down \in [Conns -> Seq(Message)]
  /\ srcEnd \in [Conns -> EndStates]
  /\ snkEnd \in [Conns -> EndStates]
  /\ broken \subseteq Conns

ConnInit ==
  /\ up = [c \in Conns |-> <<>>]
  /\ down = [c \in Conns |-> <<>>]
  /\ srcEnd = [c \in Conns |-> "none"]
  /\ snkEnd = [c \in Conns |-> "none"]
  /\ broken = {}

-----------------------------------------------------------------------------
\* Nothing written on a dead connection arrives any more.
Dead(c) ==
  \/ c \in broken
  \/ srcEnd[c] = "closed"
  \/ snkEnd[c] = "closed"

\* Conn.Send: WriteMessage on an open end.  A write to a dead connection can
\* succeed locally, and the frame is then lost.
Put(q, c, m) == IF Dead(c) THEN q ELSE [q EXCEPT ![c] = Append(@, m)]

\* Conn.Send returns an error.
SendFails(c) == Dead(c)

\* Conn.Recv: ReadMessage returns the first frame, which decode recognises.
CanRecv(q, c) == q[c] # <<>>

Take(q, c) == [q EXCEPT ![c] = Tail(@)]

\* Conn.Recv returns an error at the source.  A peer that closed with nothing
\* unread ends the stream after its last frame; one that closed over unread
\* data, or a cut, resets it and the frames under way may be lost.
SrcRecvFails(c) ==
  \/ c \in broken
  \/ srcEnd[c] = "closed"
  \/ snkEnd[c] = "closed" /\ (down[c] = <<>> \/ up[c] # <<>>)

\* The same at the sink.
SnkRecvFails(c) ==
  \/ c \in broken
  \/ snkEnd[c] = "closed"
  \/ srcEnd[c] = "closed" /\ (up[c] = <<>> \/ down[c] # <<>>)

\* The network cuts a connection that the source still uses.
Break(c) ==
  /\ c <= MaxBreaks
  /\ srcEnd[c] = "open"
  /\ c \notin broken
  /\ broken' = broken \cup {c}
  /\ UNCHANGED <<up, down, srcEnd, snkEnd>>
=============================================================================

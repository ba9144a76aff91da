-------------------------------- MODULE Sink --------------------------------
(***************************************************************************)
(* The ConnHandler that a sink node gives its Listener, and the database   *)
(* it writes.  The handler is the pipeline engine's, which is not in the   *)
(* repository yet: it is modelled from its contract (listener.go, the      *)
(* comment on ConnHandler) and from connector/postgres, whose Apply it     *)
(* calls: Recv a batch, Apply it in one transaction, answer Ack or Nack,   *)
(* return when the connection fails.                                       *)
(*                                                                         *)
(* Every batch changes the same row, so row, the batch the row was last    *)
(* written by, tells orders of application apart.  Handlers of different   *)
(* connections run concurrently on the one database.                       *)
(***************************************************************************)
EXTENDS Listener

CONSTANT MaxFaults   \* bound: number of calls of Apply that return an error

ASSUME SinkAssumption == MaxFaults \in Nat

VARIABLES
  work,      \* work[c]: the batch received, or the answer to it, on c
  applied,   \* batches whose transaction has committed
  row,       \* the batch that last wrote the row, 0 before the first
  faults     \* calls of Apply that have returned an error

sinkVars == <<published, server, srv, work, applied, row, faults>>

SinkTypeOK ==
  /\ ListenerTypeOK
  /\ work \in [Conns -> Message \cup {NoMsg}]
  /\ applied \subseteq Batches
  /\ row \in 0 .. MaxBatch
  /\ faults \in 0 .. MaxFaults

SinkInit ==
  /\ ListenerInit
  /\ work = [c \in Conns |-> NoMsg]
  /\ applied = {}
  /\ row = 0
  /\ faults = 0

-----------------------------------------------------------------------------
\* The handler's Recv.  It returns on an error, and leaves the close to nobody.
RecvBatch(c) ==
  /\ srv[c] = "recv"
  /\ CanRecv(up, c)
  /\ up' = Take(up, c)
  /\ work' = [work EXCEPT ![c] = Head(up[c])]
  /\ srv' = [srv EXCEPT ![c] = "apply"]
  /\ UNCHANGED <<applied, row, faults, down, srcEnd, snkEnd, broken>>

RecvBatchFails(c) ==
  /\ srv[c] = "recv"
  /\ SnkRecvFails(c)
  /\ srv' = [srv EXCEPT ![c] = "returned"]
  /\ UNCHANGED <<work, applied, row, faults, connVars>>

\* Apply returns: the handler prepares the answer to the batch it works on.
AnswerWith(c, t) ==
  /\ work' = [work EXCEPT ![c] = Msg(t, work[c].id)]
  /\ srv' = [srv EXCEPT ![c] = "reply"]

\* The transaction of the batch commits.
Commit(b) ==
  /\ applied' = applied \cup {b}
  /\ row' = b

ApplyOK(c) ==
  /\ srv[c] = "apply"
  /\ Commit(work[c].id)
  /\ AnswerWith(c, "ack")
  /\ UNCHANGED <<faults, connVars>>

\* Faulty variant of ApplyFails: the error of Apply is swallowed.
ApplyFailsSilently(c) ==
  /\ srv[c] = "apply"
  /\ faults < MaxFaults
  /\ faults' = faults + 1
  /\ AnswerWith(c, "ack")
  /\ UNCHANGED <<applied, row, connVars>>

\* Begin or a change fails: the transaction is rolled back.
ApplyFails(c) ==
  /\ srv[c] = "apply"
  /\ faults < MaxFaults
  /\ faults' = faults + 1
  /\ AnswerWith(c, "nack")
  /\ UNCHANGED <<applied, row, connVars>>

\* The answer to COMMIT is lost: the server has committed, Apply says it failed.
CommitUnknown(c) ==
  /\ srv[c] = "apply"
  /\ faults < MaxFaults
  /\ faults' = faults + 1
  /\ Commit(work[c].id)
  /\ AnswerWith(c, "nack")
  /\ UNCHANGED connVars

Reply(c) ==
  /\ srv[c] = "reply"
  /\ down' = Put(down, c, work[c])
  /\ work' = [work EXCEPT ![c] = NoMsg]
  /\ srv' = [srv EXCEPT ![c] = "recv"]
  /\ UNCHANGED <<applied, row, faults, up, srcEnd, snkEnd, broken>>

ReplyFails(c) ==
  /\ srv[c] = "reply"
  /\ SendFails(c)
  /\ work' = [work EXCEPT ![c] = NoMsg]
  /\ srv' = [srv EXCEPT ![c] = "returned"]
  /\ UNCHANGED <<applied, row, faults, connVars>>

HandlerStep(c) ==
  \/ RecvBatch(c) \/ RecvBatchFails(c)
  \/ ApplyOK(c) \/ ApplyFails(c) \/ CommitUnknown(c)
  \/ Reply(c) \/ ReplyFails(c)

SinkStep(c) ==
  /\ \/ HandlerStep(c)
     \/ ListenerStep(c) /\ UNCHANGED <<work, applied, row, faults>>
  /\ UNCHANGED <<published, server>>
=============================================================================

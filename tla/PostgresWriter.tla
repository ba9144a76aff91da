--------------------------- MODULE PostgresWriter ---------------------------
(***************************************************************************)
(* connector/postgres: Apply and applyBatch, one transaction per batch,    *)
(* with the callers that share the connector's pool.                       *)
(*                                                                         *)
(*   idle -> begin -> exec ... exec -> committed -> idle                   *)
(*                      |                                                  *)
(*                      +--> rollback -> idle                              *)
(*                                                                         *)
(* The callers are the handlers of a listener's connections: after a       *)
(* reconnection the handler of the old connection may still be in Apply    *)
(* with the batch that the new one is given again.  Postgres itself is     *)
(* modelled as far as this needs: read committed, one lock per row until   *)
(* the end of the transaction, and a transaction whose client is gone      *)
(* keeps its locks until the server notices.                               *)
(***************************************************************************)
EXTENDS Naturals, Sequences

CONSTANTS
  Workers,     \* the callers of Apply
  Keys,        \* the primary keys of the table
  Contents,    \* what the other columns of a row may hold
  NoRow,       \* the content of a row that is not there
  NoWrite,     \* a row that the transaction has not written
  Stream,      \* Stream[b]: the changes of batch b
  MaxFaults    \* bound: number of failures

Ops == {"upsert", "touch", "delete", "unknown"}

\* A change as applyBatch tells them apart.  Insert and Update are upserts; a
\* "touch" is one whose After has no columns but the primary key.  pk is FALSE
\* for a change without PK.
Change == [op : Ops, key : Keys, content : Contents, pk : BOOLEAN]

ASSUME WriterAssumption ==
  /\ Stream \in Seq(Seq(Change))
  /\ NoRow \notin Contents
  /\ NoWrite \notin Contents \cup {NoRow}
  /\ MaxFaults \in Nat

VARIABLES
  pc,       \* pc[w]: where w's call of Apply is
  job,      \* job[w]: the batch w is applying, 0 for none
  step,     \* step[w]: the change that applyBatch executes next
  writes,   \* writes[w][k]: what w's transaction has written to row k
  locks,    \* locks[w]: the rows w's transaction has locked
  orphans,  \* rows locked by transactions that have lost their client
  table,    \* table[k]: the committed content of row k
  done,     \* batches 1 .. done have been answered with nil
  faults    \* failures so far

txVars == <<step, writes, locks>>
vars == <<pc, job, txVars, orphans, table, done, faults>>

Stored == Contents \cup {NoRow}
Clean == [k \in Keys |-> NoWrite]
Batch(w) == Stream[job[w]]

TypeOK ==
  /\ pc \in [Workers -> {"idle", "begin", "exec", "rollback", "committed"}]
  /\ job \in [Workers -> 0 .. Len(Stream)]
  /\ \A w \in Workers : job[w] = 0 <=> pc[w] = "idle"
  /\ \A w \in Workers : IF pc[w] \in {"exec", "rollback"}
                         THEN step[w] \in 1 .. (Len(Batch(w)) + 1)
                         ELSE step[w] = 1 /\ locks[w] = {}
  /\ writes \in [Workers -> [Keys -> Stored \cup {NoWrite}]]
  /\ locks \in [Workers -> SUBSET Keys]
  /\ orphans \subseteq Keys
  /\ table \in [Keys -> Stored]
  /\ done \in 0 .. Len(Stream)
  /\ faults \in 0 .. MaxFaults

Init ==
  /\ pc = [w \in Workers |-> "idle"]
  /\ job = [w \in Workers |-> 0]
  /\ step = [w \in Workers |-> 1]
  /\ writes = [w \in Workers |-> Clean]
  /\ locks = [w \in Workers |-> {}]
  /\ orphans = {}
  /\ table = [k \in Keys |-> NoRow]
  /\ done = 0
  /\ faults = 0

-----------------------------------------------------------------------------
(* The rows as Postgres shows them to a transaction.                       *)

\* The content of row k that w's next statement sees.
Sees(w, k) == IF writes[w][k] = NoWrite THEN table[k] ELSE writes[w][k]

\* execUpsert writes the row, unless it has no columns but its key and DO
\* NOTHING finds it there.
UpsertWrites(w, ch) == ch.op = "upsert" \/ Sees(w, ch.key) = NoRow

\* execDelete writes if there is a row; a missing one is a no-op.
DeleteWrites(w, ch) == Sees(w, ch.key) # NoRow

\* The statement of the change has something to do; else it locks nothing.
Writes(w, ch) ==
  IF ch.op = "delete" THEN DeleteWrites(w, ch) ELSE UpsertWrites(w, ch)

\* A statement waits for a transaction that has locked the row, unless it is
\* a delete, which does not even see a row that is not committed yet.
Waits(w, ch) ==
  /\ \/ ch.key \in orphans
     \/ \E v \in Workers \ {w} : ch.key \in locks[v]
  /\ ch.op = "delete" => Writes(w, ch)

\* What Postgres or applyBatch refuses: an op it does not know, an empty
\* conflict target, an empty WHERE.
Refused(ch) == ch.op = "unknown" \/ ~ch.pk

-----------------------------------------------------------------------------
\* A handler calls Apply with the batch that is due.  Another one may still be
\* at it, but none at an earlier batch.
CallApply(w) ==
  /\ pc[w] = "idle"
  /\ done < Len(Stream)
  /\ \A v \in Workers : job[v] \in {0, done + 1}
  /\ job' = [job EXCEPT ![w] = done + 1]
  /\ pc' = [pc EXCEPT ![w] = "begin"]
  /\ UNCHANGED <<txVars, orphans, table, done, faults>>

\* Nothing of w's transaction is left.
TxGone(w) ==
  /\ step' = [step EXCEPT ![w] = 1]
  /\ writes' = [writes EXCEPT ![w] = Clean]
  /\ locks' = [locks EXCEPT ![w] = {}]

\* Apply returns an error.
ReturnsError(w) ==
  /\ pc' = [pc EXCEPT ![w] = "idle"]
  /\ job' = [job EXCEPT ![w] = 0]

Fault == faults < MaxFaults /\ faults' = faults + 1

\* An empty batch needs no transaction.
Begin(w) ==
  /\ pc[w] = "begin"
  /\ pc' = [pc EXCEPT ![w] = IF Batch(w) = <<>> THEN "committed" ELSE "exec"]
  /\ UNCHANGED <<job, txVars, orphans, table, done, faults>>

BeginFails(w) ==
  /\ pc[w] = "begin"
  /\ Batch(w) # <<>>
  /\ Fault
  /\ ReturnsError(w)
  /\ UNCHANGED <<txVars, orphans, table, done>>

\* What is left of the batch, to a change that succeeds or one that does not.
Due(w) == pc[w] = "exec" /\ step[w] <= Len(Batch(w))

\* Faulty variant of ExecChange: every statement commits on its own.
ExecAutoCommit(w) ==
  /\ Due(w)
  /\ LET ch == Batch(w)[step[w]]
     IN  /\ ~Refused(ch)
         /\ ~Waits(w, ch)
         /\ IF Writes(w, ch)
              THEN table' = [table EXCEPT ![ch.key] =
                               IF ch.op = "delete" THEN NoRow ELSE ch.content]
              ELSE UNCHANGED table
  /\ step' = [step EXCEPT ![w] = @ + 1]
  /\ UNCHANGED <<pc, job, writes, locks, orphans, done, faults>>

\* execUpsert or execDelete of the next change.
ExecChange(w) ==
  /\ Due(w)
  /\ LET ch == Batch(w)[step[w]]
     IN  /\ ~Refused(ch)
         /\ ~Waits(w, ch)
         /\ IF Writes(w, ch)
              THEN /\ writes' = [writes EXCEPT ![w][ch.key] =
                                 IF ch.op = "delete" THEN NoRow ELSE ch.content]
                   /\ locks' = [locks EXCEPT ![w] = @ \cup {ch.key}]
              ELSE UNCHANGED <<writes, locks>>
  /\ step' = [step EXCEPT ![w] = @ + 1]
  /\ UNCHANGED <<pc, job, orphans, table, done, faults>>

\* Faulty variant of ExecFails: a delete of a missing row is an error too.
ExecFailsOnMissing(w) ==
  /\ Due(w)
  /\ LET ch == Batch(w)[step[w]]
     IN  \/ Refused(ch) /\ UNCHANGED faults
         \/ ch.op = "delete" /\ ~DeleteWrites(w, ch) /\ UNCHANGED faults
         \/ Fault
  /\ pc' = [pc EXCEPT ![w] = "rollback"]
  /\ UNCHANGED <<job, txVars, orphans, table, done>>

\* The next change is refused, or its statement fails.
ExecFails(w) ==
  /\ Due(w)
  /\ \/ Refused(Batch(w)[step[w]]) /\ UNCHANGED faults
     \/ Fault
  /\ pc' = [pc EXCEPT ![w] = "rollback"]
  /\ UNCHANGED <<job, txVars, orphans, table, done>>

\* Faulty variant of Rollback: the transaction is left open.
RollbackForgotten(w) ==
  /\ pc[w] = "rollback"
  /\ ReturnsError(w)
  /\ UNCHANGED <<txVars, orphans, table, done, faults>>

Rollback(w) ==
  /\ pc[w] = "rollback"
  /\ TxGone(w)
  /\ ReturnsError(w)
  /\ UNCHANGED <<orphans, table, done, faults>>

\* The rollback is best-effort: Apply returns, the server still has the
\* transaction.
RollbackFails(w) ==
  /\ pc[w] = "rollback"
  /\ Fault
  /\ TxGone(w)
  /\ orphans' = orphans \cup locks[w]
  /\ ReturnsError(w)
  /\ UNCHANGED <<table, done>>

\* The server makes the writes of w's transaction visible, all of them.
Commit(w) ==
  /\ pc[w] = "exec"
  /\ step[w] > Len(Batch(w))
  /\ table' = [k \in Keys |-> Sees(w, k)]
  /\ TxGone(w)
  /\ pc' = [pc EXCEPT ![w] = "committed"]
  /\ UNCHANGED <<job, orphans, done, faults>>

\* Faulty variant of CommitFails: the error is dropped, Apply returns nil.
CommitErrorDropped(w) ==
  /\ pc[w] = "exec"
  /\ step[w] > Len(Batch(w))
  /\ Fault
  /\ TxGone(w)
  /\ orphans' = orphans \cup locks[w]
  /\ pc' = [pc EXCEPT ![w] = "committed"]
  /\ UNCHANGED <<job, table, done>>

\* COMMIT does not reach the server, which aborts the transaction later.
CommitFails(w) ==
  /\ pc[w] = "exec"
  /\ step[w] > Len(Batch(w))
  /\ Fault
  /\ TxGone(w)
  /\ orphans' = orphans \cup locks[w]
  /\ ReturnsError(w)
  /\ UNCHANGED <<table, done>>

\* The answer to COMMIT is lost: Apply returns an error all the same.
CommitUnknown(w) ==
  /\ pc[w] = "committed"
  /\ Batch(w) # <<>>
  /\ Fault
  /\ ReturnsError(w)
  /\ UNCHANGED <<txVars, orphans, table, done>>

\* Apply returns nil; the handler sends the Ack.
ReturnNil(w) ==
  /\ pc[w] = "committed"
  /\ done' = job[w]
  /\ pc' = [pc EXCEPT ![w] = "idle"]
  /\ job' = [job EXCEPT ![w] = 0]
  /\ UNCHANGED <<txVars, orphans, table, faults>>

\* The node goes down with every call that is running.
Crash ==
  /\ \E w \in Workers : pc[w] # "idle"
  /\ Fault
  /\ orphans' = orphans \cup UNION {locks[w] : w \in Workers}
  /\ pc' = [w \in Workers |-> "idle"]
  /\ job' = [w \in Workers |-> 0]
  /\ step' = [w \in Workers |-> 1]
  /\ writes' = [w \in Workers |-> Clean]
  /\ locks' = [w \in Workers |-> {}]
  /\ UNCHANGED <<table, done>>

\* The server notices the lost clients and aborts their transactions.
ServerAborts ==
  /\ orphans # {}
  /\ orphans' = {}
  /\ UNCHANGED <<pc, job, txVars, table, done, faults>>

-----------------------------------------------------------------------------
WorkerStep(w) ==
  \/ Begin(w) \/ BeginFails(w)
  \/ ExecChange(w) \/ ExecFails(w)
  \/ Rollback(w) \/ RollbackFails(w)
  \/ Commit(w) \/ CommitFails(w) \/ CommitUnknown(w) \/ ReturnNil(w)

\* No handler is in Apply, and for now the source has no batch to send.
Quiet == (\A w \in Workers : pc[w] = "idle") /\ UNCHANGED vars

Next ==
  \/ \E w \in Workers : CallApply(w) \/ WorkerStep(w)
  \/ Crash \/ ServerAborts
  \/ Quiet

Spec == Init /\ [][Next]_vars

\* The handlers keep running, and the server finds lost clients in the end.
FairSpec ==
  /\ Spec
  /\ \A w \in Workers : WF_vars(WorkerStep(w))
  /\ WF_vars(\E w \in Workers : CallApply(w))
  /\ WF_vars(ServerAborts)

-----------------------------------------------------------------------------
\* The contract of connector.Writer.
Contract == INSTANCE Writer WITH
  call <- job, committed <- [w \in Workers |-> pc[w] = "committed"]

\* Apply makes all the changes of a batch at one moment or none of them, and
\* returns nil only after it has, even while another copy of the batch is
\* being applied (postgres.go, Apply).
ContractSpec == Contract!Spec

\* The table is always what the acknowledged batches made it, or that and the
\* next batch: errors after a commit, retries, copies and crashes leave no
\* batch applied in part, left out, or applied to a different table the
\* second time (apply.go: an upsert or delete that is repeated changes nothing).
TableIsPrefix ==
  table \in {Contract!TableAfter[done]}
    \cup (IF done < Len(Stream) THEN {Contract!TableAfter[done + 1]} ELSE {})

\* Every batch is applied in the end, up to the first that is refused, which
\* is retried for ever: copies of a batch never lock each other out for good.
EveryBatchApplied ==
  \A n \in DOMAIN Stream :
    (\A b \in 1 .. n : \A i \in DOMAIN Stream[b] : ~Refused(Stream[b][i]))
      => <>(done >= n)
=============================================================================

------------------------------- MODULE Writer -------------------------------
(***************************************************************************)
(* What connector.go promises of a sink connector's Writer: Apply makes    *)
(* all the changes of a batch at one moment or none of them, and does not  *)
(* return nil before it has.  An error says nothing: the batch may be in.  *)
(*                                                                         *)
(* Sink.tla uses Apply by this contract; PostgresWriter implements it.     *)
(***************************************************************************)
EXTENDS Naturals, Sequences

CONSTANTS
  Workers,   \* the callers of Apply
  Keys,      \* the primary keys of the table
  NoRow,     \* the content of a row that is not there
  Stream     \* Stream[b]: the changes of batch b

VARIABLES
  table,       \* table[k]: the committed content of row k
  call,        \* call[w]: the batch w has given to Apply, 0 for none
  committed,   \* committed[w]: this call has made its changes
  done         \* batches 1 .. done have been applied and answered with nil

vars == <<table, call, committed, done>>

Empty == [k \in Keys |-> NoRow]

\* The content of row ch.key after change ch.  A "touch" is the insert of a
\* row that has no columns but its key: it leaves a row that is there alone.
After(ch, t) ==
  CASE ch.op = "upsert" -> ch.content
    [] ch.op = "touch"  -> IF t[ch.key] = NoRow THEN ch.content ELSE t[ch.key]
    [] ch.op = "delete" -> NoRow

\* Table t after the first n changes of batch b.
Upto(b, t) ==
  LET upto[n \in 0 .. Len(b)] ==
        IF n = 0 THEN t
        ELSE [upto[n - 1] EXCEPT ![b[n].key] = After(b[n], upto[n - 1])]
  IN  upto

\* Table t after all the changes of batch b, in order.
ApplyAll(b, t) == Upto(b, t)[Len(b)]

\* The table after the first n batches.
TableAfter[n \in 0 .. Len(Stream)] ==
  IF n = 0 THEN Empty ELSE ApplyAll(Stream[n], TableAfter[n - 1])

Init ==
  /\ table = Empty
  /\ call = [w \in Workers |-> 0]
  /\ committed = [w \in Workers |-> FALSE]
  /\ done = 0

Call(w) ==
  /\ call[w] = 0
  /\ done < Len(Stream)
  /\ call' = [call EXCEPT ![w] = done + 1]
  /\ UNCHANGED <<table, committed, done>>

Commit(w) ==
  /\ call[w] # 0
  /\ ~committed[w]
  /\ table' = ApplyAll(Stream[call[w]], table)
  /\ committed' = [committed EXCEPT ![w] = TRUE]
  /\ UNCHANGED <<call, done>>

ReturnNil(w) ==
  /\ call[w] # 0
  /\ committed[w]
  /\ done' = call[w]
  /\ call' = [call EXCEPT ![w] = 0]
  /\ committed' = [committed EXCEPT ![w] = FALSE]
  /\ UNCHANGED table

\* An error, or the end of the process.
ReturnError(W) ==
  /\ call' = [w \in Workers |-> IF w \in W THEN 0 ELSE call[w]]
  /\ committed' = [w \in Workers |-> w \notin W /\ committed[w]]
  /\ UNCHANGED <<table, done>>

Next ==
  \/ \E w \in Workers : Call(w) \/ Commit(w) \/ ReturnNil(w)
  \/ \E W \in SUBSET Workers : ReturnError(W)

Spec == Init /\ [][Next]_vars
=============================================================================

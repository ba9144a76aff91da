------------------------------ MODULE Delivery ------------------------------
(***************************************************************************)
(* What a node-to-node link promises: batches are delivered at least once, *)
(* in the order they were submitted, and an acknowledgment means that the  *)
(* sink has committed the batch.  The caller keeps one batch outstanding.  *)
(*                                                                         *)
(* Transport with Window = 1 implements this specification.                *)
(***************************************************************************)
EXTENDS Naturals

CONSTANT MaxBatch

VARIABLES
  submitted,   \* batches 1 .. submitted have been handed over
  committed,   \* the batches the sink has committed at least once
  confirmed,   \* the batches the caller knows to be committed
  cancelled    \* nothing more is promised

vars == <<submitted, committed, confirmed, cancelled>>

Init ==
  /\ submitted = 0
  /\ committed = {}
  /\ confirmed = {}
  /\ cancelled \in BOOLEAN

Submit ==
  /\ confirmed = 1 .. submitted
  /\ submitted < MaxBatch
  /\ submitted' = submitted + 1
  /\ UNCHANGED <<committed, confirmed, cancelled>>

\* Only the batch that is outstanding is ever committed for the first time.
Commit ==
  /\ submitted \notin confirmed \cup committed
  /\ submitted > 0
  /\ committed' = committed \cup {submitted}
  /\ UNCHANGED <<submitted, confirmed, cancelled>>

Confirm ==
  /\ submitted \in committed \ confirmed
  /\ confirmed' = confirmed \cup {submitted}
  /\ UNCHANGED <<submitted, committed, cancelled>>

Cancel ==
  /\ ~cancelled
  /\ cancelled' = TRUE
  /\ UNCHANGED <<submitted, committed, confirmed>>

Next == Submit \/ Commit \/ Confirm \/ Cancel

Spec == Init /\ [][Next]_vars

\* Until it is cancelled, the link makes progress.
LiveSpec ==
  /\ Spec
  /\ WF_vars(~cancelled /\ Commit)
  /\ WF_vars(~cancelled /\ Confirm)
=============================================================================

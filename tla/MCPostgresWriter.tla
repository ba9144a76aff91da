-------------------------- MODULE MCPostgresWriter --------------------------
(***************************************************************************)
(* PostgresWriter for TLC.                                                 *)
(***************************************************************************)
EXTENDS PostgresWriter

CONSTANTS w1, w2, w3, k1, k2, old, new

MCWorkers == {w1, w2, w3}
MCKeys == {k1, k2}
MCContents == {old, new}

Upsert(k, c) == [op |-> "upsert", key |-> k, content |-> c, pk |-> TRUE]
Touch(k) == [op |-> "touch", key |-> k, content |-> old, pk |-> TRUE]
Delete(k) == [op |-> "delete", key |-> k, content |-> old, pk |-> TRUE]
WithoutPK(k) == [op |-> "upsert", key |-> k, content |-> new, pk |-> FALSE]

\* Rows are inserted, deleted before they exist, replaced, and deleted and
\* inserted again in one batch; one batch is empty; Postgres refuses a change
\* in the middle of the last.
MCStream ==
  << <<Upsert(k1, old), Delete(k2), Upsert(k2, old)>>,
     <<>>,
     <<Delete(k1), Touch(k2), Touch(k1), Upsert(k1, new)>>,
     <<Upsert(k2, new), Delete(k1)>>,
     <<Delete(k2), WithoutPK(k1), Upsert(k1, old)>> >>
=============================================================================

------------------------------ MODULE SourceDB ------------------------------
(***************************************************************************)
(* The SQL Server database that connector/sqlserver reads.  It is not in   *)
(* the repository: this is what the connector's queries rely on.           *)
(*                                                                         *)
(* The database is the log of its committed row changes.  A position in    *)
(* the log, the number of commits so far, stands for the LSN of CDC and    *)
(* for the version of Change Tracking; the content of a row is named by    *)
(* the commit that wrote it.  Change records are kept for a while and then *)
(* cleaned up.                                                             *)
(***************************************************************************)
EXTENDS Naturals, Sequences, FiniteSetsExt

CONSTANTS
  Tables,       \* the tables of the database
  Keys,         \* the primary keys of each table
  Ops,          \* what the applications do: a subset of OpNames
  MaxCommits,   \* bound: number of commits
  Retention     \* how many of the newest change records cleanup spares

OpNames == {"insert", "update", "delete"}

ASSUME SourceDBAssumption ==
  /\ Ops \subseteq OpNames
  /\ MaxCommits \in Nat
  /\ Retention \in Nat

Rows == Tables \X Keys

VARIABLES
  log,      \* the commits: log[v] is the change of version v
  purged    \* change records of the versions up to this one are gone

dbVars == <<log, purged>>

CommitRecord == [row : Rows, op : OpNames]

DBTypeOK ==
  /\ log \in Seq(CommitRecord) /\ Len(log) <= MaxCommits
  /\ purged \in 0 .. Len(log)

DBInit == log = <<>> /\ purged = 0

-----------------------------------------------------------------------------
\* The versions up to v that changed row r.
Writes(r, v) == {i \in 1 .. v : log[i].row = r}

\* The content of row r at version v: the version that wrote it, 0 for no row.
Content(r, v) ==
  LET w == Writes(r, v)
  IN  IF w = {} \/ log[Max(w)].op = "delete" THEN 0 ELSE Max(w)

\* An application commits a change that makes sense: it inserts a row that is
\* not there, and updates or deletes one that is.
CommitChange(r, op) ==
  /\ Len(log) < MaxCommits
  /\ op = "insert" <=> Content(r, Len(log)) = 0
  /\ log' = Append(log, [row |-> r, op |-> op])
  /\ UNCHANGED purged

\* The cleanup job of CDC or Change Tracking discards old change records.
Cleanup ==
  /\ purged + Retention < Len(log)
  /\ purged' = purged + 1
  /\ UNCHANGED log

-----------------------------------------------------------------------------
\* A set of versions, oldest first.
InOrder(S) ==
  LET pick[v \in 0 .. Len(log)] ==
        IF v = 0 THEN <<>>
        ELSE IF v \in S THEN Append(pick[v - 1], v) ELSE pick[v - 1]
  IN  pick[Len(log)]

\* The change records of table t that have not been cleaned up.
Records(t) == {i \in DOMAIN log : i > purged /\ log[i].row[1] = t}

\* cdc.fn_cdc_get_all_changes_t: the change records of a window of the log.
CDCRecords(t, first, last) == {i \in Records(t) : first <= i /\ i <= last}

\* sys.fn_cdc_map_time_to_lsn('smallest greater than or equal', now): where the
\* changes begin that are committed from now on.
NowAsLSN == Len(log) + 1

\* CHANGETABLE(CHANGES t, from), asked now: each row that changed since from
\* once, at the version that changed it last.
ChangeTable(t, from) ==
  {i \in Records(t) : from < i /\ i = Max(Writes(log[i].row, Len(log)))}
=============================================================================

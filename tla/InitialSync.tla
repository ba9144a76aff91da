---------------------------- MODULE InitialSync -----------------------------
(***************************************************************************)
(* connector/sqlserver/initialsync.go: the full read of a table, resumed   *)
(* after an interruption, while the applications keep changing the table,  *)
(* and the change stream that takes over.                                  *)
(*                                                                         *)
(*   new -> ready -> scan -> row -> kept -> scan ... -> synced -> stream   *)
(*            ^--------+------+------+  an error of Next, or a crash       *)
(*                                                                         *)
(* The query runs at the server, row by row and without a snapshot; rows   *)
(* it has read wait in the driver until Next scans them.  The consumer is  *)
(* the pipeline engine, which is not in the repository: as connector.go    *)
(* says, it processes a row and then persists its primary key.             *)
(*                                                                         *)
(* Of the change stream, which ChangeStream models step by step, this      *)
(* module has what one call of Next makes of the rows: the answers of its  *)
(* two statements, as they are meant, and what the consumer makes of them. *)
(***************************************************************************)
EXTENDS SourceDB

CONSTANTS
  table,         \* the table that is read; a row is named by its key columns
  PrimaryKeys,   \* the primary keys the table may have, each as the sequence
                 \* of its columns in the order of their names
  Mechanisms,    \* what Probe may find: "cdc", "ct"
  CursorFirst,   \* does the consumer take its change cursor before the scan?
  NoKey,         \* the nil LastPK
  Buffer,        \* bound: rows in the driver
  MaxFaults      \* bound: number of errors and crashes

ASSUME SyncAssumption ==
  /\ Tables = {table}
  /\ PrimaryKeys \subseteq Seq(Nat \ {0})
  /\ NoKey \notin Keys
  /\ Mechanisms \subseteq {"cdc", "ct"}
  /\ CursorFirst \in BOOLEAN
  /\ Buffer \in Nat \ {0}
  /\ MaxFaults \in Nat

\* Keys that agree on the columns of a primary key are the same row; the values
\* of a column are numbers, for the server to order.  A table without a primary
\* key, whose query has no ORDER BY, is left out.
ASSUME KeyAssumption ==
  \A pk \in PrimaryKeys : \A a, b \in Keys :
    /\ \A i \in DOMAIN pk : a[pk[i]] \in Nat
    /\ (\A i \in DOMAIN pk : a[pk[i]] = b[pk[i]]) => a = b

VARIABLES
  mechanism,  \* what Probe has found
  pkCols,     \* what primaryKeyColumns returns
  phase,      \* where the sync is
  mark,       \* the last key the server has read in this scan
  ended,      \* the server has read the last row of this scan
  rows,       \* rows read by the server, not yet scanned by Next
  row,        \* the row Next has returned, in a sequence of at most one
  lastPK,     \* the persisted InitialCursor
  from,       \* the change cursor the stream will start from
  replica,    \* replica[k]: the content of row k at the consumer
  caught,     \* the position up to which the stream has brought changes
  faults      \* errors and crashes so far

metaVars == <<mechanism, pkCols>>
scanVars == <<mark, ended, rows>>
vars == <<dbVars, metaVars, phase, scanVars, row, lastPK, from, replica,
          caught, faults>>

Versions == 0 .. MaxCommits
ScannedRow == [key : Keys, content : Versions \ {0}]

TypeOK ==
  /\ DBTypeOK
  /\ mechanism \in Mechanisms /\ pkCols \in PrimaryKeys
  /\ phase \in {"new", "ready", "scan", "row", "kept", "synced", "stream"}
  /\ mark \in Keys \cup {NoKey} /\ lastPK \in Keys \cup {NoKey}
  /\ ended \in BOOLEAN
  /\ rows \in Seq(ScannedRow) /\ Len(rows) <= Buffer
  /\ row \in Seq(ScannedRow)
  /\ row # <<>> <=> phase \in {"row", "kept"}
  /\ phase = "synced" => ended /\ rows = <<>>
  /\ from \in Versions /\ caught \in Versions
  /\ replica \in [Keys -> Versions]
  /\ faults \in 0 .. MaxFaults

Init ==
  /\ DBInit
  /\ mechanism \in Mechanisms /\ pkCols \in PrimaryKeys
  /\ phase = "new"
  /\ mark = NoKey /\ ended = FALSE /\ rows = <<>> /\ row = <<>>
  /\ lastPK = NoKey
  /\ from = 0 /\ caught = 0
  /\ replica = [k \in Keys |-> 0]
  /\ faults = 0

-----------------------------------------------------------------------------
Now == Len(log)
Here(k) == Content(<<table, k>>, Now)

\* ORDER BY the key columns, which primaryKeyColumns lists by name.
Before(a, b) ==
  \E i \in DOMAIN pkCols :
    /\ a[pkCols[i]] < b[pkCols[i]]
    /\ \A j \in 1 .. (i - 1) : a[pkCols[j]] = b[pkCols[j]]

\* Faulty variant of Resumed: WHERE pk >= @lastpk.
ResumedInclusive(k) ==
  lastPK # NoKey /\ Len(pkCols) = 1 => ~Before(k, lastPK)

\* WHERE pk > @lastpk, for a key of one column; a composite key has no WHERE.
Resumed(k) == lastPK # NoKey /\ Len(pkCols) = 1 => Before(lastPK, k)

\* The rows the server has still to come to.
Ahead ==
  {k \in Keys : Here(k) # 0 /\ Resumed(k) /\ (mark # NoKey => Before(mark, k))}

\* The consumer gets ready: careful, it opens a change stream before it reads
\* the table, and keeps its Cursor().
Prepare ==
  /\ phase = "new"
  /\ phase' = "ready"
  /\ from' = IF CursorFirst THEN Now ELSE from
  /\ UNCHANGED <<dbVars, metaVars, scanVars, row, lastPK, replica, caught,
                 faults>>

\* InitialSync(): the primary key columns, then the query.
OpenScan ==
  /\ phase = "ready"
  /\ phase' = "scan"
  /\ mark' = NoKey /\ ended' = FALSE /\ rows' = <<>>
  /\ UNCHANGED <<dbVars, metaVars, row, lastPK, from, replica, caught, faults>>

\* The server reads the next row as it is now.
ServerReads ==
  /\ phase \in {"scan", "row", "kept"}
  /\ ~ended
  /\ Len(rows) < Buffer
  /\ \/ \E k \in Ahead :
          /\ \A other \in Ahead \ {k} : Before(k, other)
          /\ mark' = k
          /\ rows' = Append(rows, [key |-> k, content |-> Here(k)])
          /\ UNCHANGED ended
     \/ Ahead = {} /\ ended' = TRUE /\ UNCHANGED <<mark, rows>>
  /\ UNCHANGED <<dbVars, metaVars, phase, row, lastPK, from, replica, caught,
                 faults>>

\* Next returns a row.
NextRow ==
  /\ phase = "scan"
  /\ rows # <<>>
  /\ row' = <<Head(rows)>>
  /\ rows' = Tail(rows)
  /\ phase' = "row"
  /\ UNCHANGED <<dbVars, metaVars, mark, ended, lastPK, from, replica, caught,
                 faults>>

\* Faulty variant of NextEOF: the end of the rows is returned as an error.
NextEOFRetries ==
  /\ phase = "scan"
  /\ rows = <<>>
  /\ ended
  /\ phase' = "ready"
  /\ UNCHANGED <<dbVars, metaVars, scanVars, row, lastPK, from, replica,
                 caught, faults>>

\* Next returns io.EOF.
NextEOF ==
  /\ phase = "scan"
  /\ rows = <<>>
  /\ ended
  /\ phase' = "synced"
  /\ UNCHANGED <<dbVars, metaVars, scanVars, row, lastPK, from, replica,
                 caught, faults>>

\* Faulty variant of NextFails: the error of the rows is taken for their end.
NextFailsAsEOF ==
  /\ phase = "scan"
  /\ faults < MaxFaults
  /\ faults' = faults + 1
  /\ phase' = "synced"
  /\ mark' = NoKey /\ ended' = FALSE /\ rows' = <<>>
  /\ UNCHANGED <<dbVars, metaVars, row, lastPK, from, replica, caught>>

\* Next returns an error: the consumer closes the stream and will open another
\* one from its cursor.
NextFails ==
  /\ phase = "scan"
  /\ faults < MaxFaults
  /\ faults' = faults + 1
  /\ phase' = "ready"
  /\ mark' = NoKey /\ ended' = FALSE /\ rows' = <<>>
  /\ UNCHANGED <<dbVars, metaVars, row, lastPK, from, replica, caught>>

-----------------------------------------------------------------------------
(* The consumer.                                                           *)

\* It writes the row as an Insert.
KeepRow ==
  /\ phase = "row"
  /\ replica' = [replica EXCEPT ![row[1].key] = row[1].content]
  /\ phase' = "kept"
  /\ UNCHANGED <<dbVars, metaVars, scanVars, row, lastPK, from, caught, faults>>

PersistPK ==
  /\ phase = "kept"
  /\ lastPK' = row[1].key
  /\ row' = <<>>
  /\ phase' = "scan"
  /\ UNCHANGED <<dbVars, metaVars, scanVars, from, replica, caught, faults>>

\* The node restarts in the middle of the sync.
Crash ==
  /\ phase \in {"scan", "row", "kept"}
  /\ faults < MaxFaults
  /\ faults' = faults + 1
  /\ phase' = "ready"
  /\ row' = <<>>
  /\ mark' = NoKey /\ ended' = FALSE /\ rows' = <<>>
  /\ UNCHANGED <<dbVars, metaVars, lastPK, from, replica, caught>>

\* Changes(): from the cursor taken before the scan, or with an empty cursor
\* from the current position.
OpenChanges ==
  /\ phase = "synced"
  /\ phase' = "stream"
  /\ from' = IF CursorFirst THEN from ELSE Now
  /\ caught' = from'
  /\ UNCHANGED <<dbVars, metaVars, scanVars, row, lastPK, replica, faults>>

\* The change records the stream reads of what has changed since.
Fetched ==
  IF mechanism = "cdc" THEN CDCRecords(table, caught + 1, Now)
  ELSE ChangeTable(table, caught)

\* They tell the consumer how row k is now: with CDC the last record of the row
\* does; Change Tracking has the row as it is, but of one that is gone no key.
Told(k) ==
  /\ \E i \in Fetched : log[i].row[2] = k
  /\ mechanism = "ct" => Here(k) # 0

\* Next, called until it has nothing pending: the fetch reads what has changed,
\* the consumer processes it, and the cursor is here.
CatchUp ==
  /\ phase = "stream"
  /\ caught < Now
  /\ replica' = [k \in Keys |-> IF Told(k) THEN Here(k) ELSE replica[k]]
  /\ caught' = Now
  /\ UNCHANGED <<dbVars, metaVars, phase, scanVars, row, lastPK, from, faults>>

-----------------------------------------------------------------------------
DBStep ==
  /\ \/ \E k \in Keys, op \in Ops : CommitChange(<<table, k>>, op)
     \/ Cleanup
  /\ UNCHANGED <<metaVars, phase, scanVars, row, lastPK, from, replica, caught,
                 faults>>

SyncStep ==
  \/ Prepare \/ OpenScan \/ ServerReads \/ NextRow \/ NextEOF
  \/ KeepRow \/ PersistPK \/ OpenChanges \/ CatchUp

\* The stream has brought everything and nothing changes any more.
Terminated == phase = "stream" /\ caught = Now /\ UNCHANGED vars

Next == DBStep \/ SyncStep \/ NextFails \/ Crash \/ Terminated

Spec == Init /\ [][Next]_vars

\* The sync runs on; interruptions are finitely many.
FairSpec == Spec /\ WF_vars(SyncStep)

-----------------------------------------------------------------------------
\* The consumer cannot know row k as its last commit has left it, one after the
\* cursor it kept: the change record has been cleaned up, or it is a deletion,
\* which the join of the Change Tracking statement returns without its key.
Untold(k) ==
  \E m \in (from + 1) .. Now :
    /\ m = Max(Writes(<<table, k>>, Now))
    /\ m <= purged \/ (mechanism = "ct" /\ log[m].op = "delete")

\* When the stream has caught up, the consumer has the table: neither the rows
\* that changed behind or ahead of the scan, nor those that changed while it
\* was interrupted, are missing or out of date, but for what it was not told
\* (changes.go, fetchCDC and fetchCT, with the statements as they are meant).
SyncedMirrors ==
  phase = "stream" /\ caught = Now =>
    \A k \in Keys : replica[k] = Here(k) \/ Untold(k)

\* A resumed scan does not return what was delivered before it, if the key is
\* one column: its rows come after the persisted key (initialsync.go,
\* InitialSync: rows with a PK value at or below LastPK are skipped).
ResumeSkipsDelivered ==
  Len(pkCols) = 1 =>
    \A i \in DOMAIN rows : lastPK # NoKey => Before(lastPK, rows[i].key)

\* The read of a table ends, whatever is committed and however it is
\* interrupted, and the stream catches up.
SyncEnds == <>[](phase = "stream" /\ caught = Now)
=============================================================================

---------------------------- MODULE ChangeStream ----------------------------
(***************************************************************************)
(* connector/sqlserver/changes.go: the stream of row changes of the source *)
(* database, by CDC or by Change Tracking, and the consumer that reads it. *)
(*                                                                         *)
(*   closed -> idle -> next -> fetch -> next -> got -> handled -> idle     *)
(*                       |       |                                         *)
(*                       +-------+--> poll -> idle                         *)
(*                                                                         *)
(* next is the top of the loop in Next(); fetch runs one query per table;  *)
(* poll is the wait after a fetch that found nothing.  In got the consumer *)
(* has been handed a change, in handled it has processed it.               *)
(*                                                                         *)
(* The consumer is the pipeline engine, which is not in the repository: it *)
(* follows connector.go: process a change, then persist Cursor(), and pass *)
(* it to Changes() on resume.  With Lagged it is more careful than that:   *)
(* it persists a position only when it has seen Cursor() move on from it.  *)
(*                                                                         *)
(* The text of the two queries is not what the code around them needs.     *)
(* statements tells which text the connector sends: "written", that of the *)
(* source, or "meant", with a window that starts at the cursor and a join  *)
(* on the primary key, which the comments and the bookkeeping of the       *)
(* cursor ask for.  The rest of the code is the same for both.             *)
(***************************************************************************)
EXTENDS SourceDB

CONSTANTS
  Mechanisms,   \* what Probe may find: "cdc", "ct"
  Statements,   \* the text of the queries: "meant", "written"
  Captured,     \* had CDC captured a change before the log begins?
  TableOrder,   \* cs.tables
  Lagged,       \* does the consumer persist positions one batch late?
  NoCursor,     \* the empty ChangeCursor
  MaxFaults,    \* bound: number of queries that fail
  MaxCrashes    \* bound: number of crashes of the node

ASSUME StreamAssumption ==
  /\ Mechanisms \subseteq {"cdc", "ct"}
  /\ Statements \subseteq {"meant", "written"}
  /\ Captured \in BOOLEAN
  /\ TableOrder \in Seq(Tables)
  /\ Lagged \in BOOLEAN
  /\ NoCursor \notin Nat
  /\ MaxFaults \in Nat
  /\ MaxCrashes \in Nat

VARIABLES
  mechanism, \* what Probe has found, at every start of the node
  statements, \* the text of the queries it sends
  pc,        \* where the stream and its consumer are
  cursor,    \* cs.cursor
  pending,   \* cs.pending
  upto,      \* newCursor of the fetch that is running
  todo,      \* the tables this fetch has still to query
  all,       \* the changes it has collected
  out,       \* the change Next has returned, in a sequence of at most one
  saved,     \* the position the consumer has persisted
  known,     \* the position the consumer saw last
  start,     \* the position of the first stream
  replica,   \* replica[r]: the content of row r at the consumer
  at,        \* at[r]: the newest version of r it has processed
  faults,    \* queries that have failed
  crashes    \* crashes so far

fetchVars  == <<upto, todo, all>>
streamVars == <<cursor, pending, fetchVars, out>>
queryVars  == <<mechanism, statements>>
startVars  == <<queryVars, start>>
copyVars   == <<replica, at>>
budgetVars == <<faults, crashes>>
vars == <<dbVars, pc, streamVars, saved, known, startVars, copyVars,
          budgetVars>>

Versions == 0 .. MaxCommits
Positions == Versions \cup {NoCursor}

Subscribed == {TableOrder[i] : i \in DOMAIN TableOrder}
SubscribedRows == Subscribed \X Keys

\* A connector.Change.  pk tells what its PK holds: nothing, the columns of
\* the row, or a null for every column.  version is where it was committed.
Change == [row : Rows, op : OpNames, content : Versions,
           pk : {"nil", "columns", "nulls"}, version : Versions]

TypeOK ==
  /\ DBTypeOK
  /\ mechanism \in Mechanisms /\ statements \in Statements
  /\ pc \in {"closed", "idle", "next", "fetch", "poll", "got", "handled"}
  /\ cursor \in 0 .. Len(log) /\ upto \in 0 .. Len(log)
  /\ pending \in Seq(Change) /\ all \in Seq(Change)
  /\ out \in Seq(Change) /\ (pc = "got" => out # <<>>)
  /\ todo \in Seq(Tables)
  /\ saved \in Positions /\ known \in Versions /\ start \in Positions
  /\ replica \in [SubscribedRows -> Versions]
  /\ at \in [SubscribedRows -> Versions]
  /\ faults \in 0 .. MaxFaults /\ crashes \in 0 .. MaxCrashes

Init ==
  /\ DBInit
  /\ mechanism \in Mechanisms /\ statements \in Statements
  /\ pc = "closed"
  /\ cursor = 0 /\ upto = 0
  /\ pending = <<>> /\ all = <<>> /\ out = <<>> /\ todo = <<>>
  /\ saved = NoCursor /\ known = 0 /\ start = NoCursor
  /\ replica = [r \in SubscribedRows |-> 0]
  /\ at = [r \in SubscribedRows |-> 0]
  /\ faults = 0 /\ crashes = 0

-----------------------------------------------------------------------------
(* The rows of the two mechanisms, as Change values.                       *)

\* currentMaxLSN and currentCTVersion: how far the log has come.
CurrentMaxLSN == Len(log)
CurrentCTVersion == Len(log)

CurrentVersion ==
  IF mechanism = "cdc" THEN CurrentMaxLSN ELSE CurrentCTVersion

\* scanCDCRows: a Delete has the old row as its PK, an Insert or Update the
\* new one as its After.  The before-image of an update makes no Change.
ScanCDCRow(i) ==
  LET op == log[i].op
  IN  [row |-> log[i].row,
       op |-> op,
       content |-> IF op = "delete" THEN 0 ELSE i,
       pk |-> IF op = "delete" THEN "columns" ELSE "nil",
       version |-> i]

\* scanCTRows: the row is joined to the table as it is now, so a row that is
\* gone has nothing but nulls.
ScanCTRow(i) ==
  LET now == Content(log[i].row, Len(log))
  IN  [row |-> log[i].row,
       op |-> IF now = 0 THEN "delete"
              ELSE IF Content(log[i].row, cursor) = 0 THEN "insert"
              ELSE "update",
       content |-> now,
       pk |-> IF now = 0 THEN "nulls" ELSE "nil",
       version |-> i]

\* Where the window of the CDC statement starts: at the time of the query, or,
\* as fetchCDCForTable promises, at fromLSN.
WindowStart == IF statements = "written" THEN NowAsLSN ELSE cursor

\* fetchCDCForTable: of the window up to the maximum LSN that was read before,
\* the changes after the cursor, in commit order.
FetchCDCForTable(t) ==
  LET versions == InOrder({i \in CDCRecords(t, WindowStart, upto) : i > cursor})
  IN  [n \in DOMAIN versions |-> ScanCDCRow(versions[n])]

\* fetchCTForTable: the changes after the cursor, those committed since the
\* version was read included.
FetchCTForTable(t) ==
  LET versions == InOrder(ChangeTable(t, cursor))
  IN  [n \in DOMAIN versions |-> ScanCTRow(versions[n])]

FetchForTable(t) ==
  IF mechanism = "cdc" THEN FetchCDCForTable(t) ELSE FetchCTForTable(t)

-----------------------------------------------------------------------------
(* Changes and Next.                                                       *)

\* from.Value == "": no position, or the maximum LSN while CDC has captured
\* nothing, a NULL that currentMaxLSN formats as the empty string.
NoPosition(p) == p = NoCursor \/ (mechanism = "cdc" /\ ~Captured /\ p = 0)

\* Changes(): without a cursor the stream starts at the current position.
\* The consumer persists where its first stream starts; what it has of the
\* tables then is the database at that position.
Changes ==
  /\ pc = "closed"
  /\ cursor' = IF NoPosition(saved) THEN CurrentVersion ELSE saved
  /\ saved' = cursor'
  /\ known' = cursor'
  /\ IF start = NoCursor
       THEN /\ start' = cursor'
            /\ replica' = [r \in SubscribedRows |-> Content(r, cursor')]
            /\ at' = [r \in SubscribedRows |-> cursor']
       ELSE UNCHANGED <<start, copyVars>>
  /\ pc' = "idle"
  /\ UNCHANGED <<dbVars, queryVars, pending, fetchVars, out, budgetVars>>

\* The consumer calls Next.
CallNext ==
  /\ pc = "idle"
  /\ pc' = "next"
  /\ UNCHANGED <<dbVars, streamVars, saved, known, startVars, copyVars,
                 budgetVars>>

\* Next returns the first pending change.
Pop ==
  /\ pc = "next"
  /\ pending # <<>>
  /\ out' = <<Head(pending)>>
  /\ pending' = Tail(pending)
  /\ pc' = "got"
  /\ UNCHANGED <<dbVars, cursor, fetchVars, saved, known, startVars, copyVars,
                 budgetVars>>

\* Faulty variant of NothingNew: off by one, one new version is not enough.
NothingNewYet(v) == v <= cursor + 1

\* The early return of fetchCDC and of fetchCT.
NothingNew(v) == IF mechanism = "cdc" THEN v = cursor ELSE v <= cursor

\* fetchCDC reads the maximum LSN, fetchCT the current version.
ReadVersion ==
  /\ pc = "next"
  /\ pending = <<>>
  /\ upto' = CurrentVersion
  /\ all' = <<>>
  /\ IF NothingNew(CurrentVersion)
       THEN pc' = "poll" /\ todo' = <<>>
       ELSE pc' = "fetch" /\ todo' = TableOrder
  /\ UNCHANGED <<dbVars, cursor, pending, out, saved, known, startVars, copyVars,
                 budgetVars>>

\* The join condition of the Change Tracking statement as it is written is a
\* placeholder, which is no column of any table.
QueryTable ==
  /\ pc = "fetch"
  /\ todo # <<>>
  /\ statements = "written" => mechanism = "cdc"
  /\ all' = all \o FetchForTable(Head(todo))
  /\ todo' = Tail(todo)
  /\ UNCHANGED <<dbVars, pc, cursor, pending, upto, out, saved, known, startVars,
                 copyVars, budgetVars>>

\* The server refuses a statement as it is written: the placeholder, or a window
\* that starts after its end.  Next returns the error.
StatementFails ==
  /\ pc = "fetch"
  /\ todo # <<>>
  /\ statements = "written"
  /\ all' = <<>> /\ todo' = <<>>
  /\ pc' = "idle"
  /\ UNCHANGED <<dbVars, cursor, pending, upto, out, saved, known, startVars,
                 copyVars, budgetVars>>

\* Faulty variant of FetchReturns: the version is read after the queries.
FetchReturnsLater ==
  /\ pc = "fetch"
  /\ todo = <<>>
  /\ IF all = <<>>
       THEN pc' = "poll" /\ UNCHANGED <<cursor, pending>>
       ELSE pc' = "next" /\ cursor' = CurrentVersion /\ pending' = all
  /\ all' = <<>>
  /\ UNCHANGED <<dbVars, upto, todo, out, saved, known, startVars, copyVars,
                 budgetVars>>

\* Faulty variant of FetchReturns: the cursor moves one too far.
FetchReturnsPast ==
  /\ pc = "fetch"
  /\ todo = <<>>
  /\ IF all = <<>>
       THEN pc' = "poll" /\ UNCHANGED <<cursor, pending>>
       ELSE pc' = "next" /\ cursor' = upto + 1 /\ pending' = all
  /\ all' = <<>>
  /\ UNCHANGED <<dbVars, upto, todo, out, saved, known, startVars, copyVars,
                 budgetVars>>

\* Every table has been queried.  The cursor moves to the end of the batch as
\* the batch becomes pending; it stays where it is if there was nothing.
FetchReturns ==
  /\ pc = "fetch"
  /\ todo = <<>>
  /\ IF all = <<>>
       THEN pc' = "poll" /\ UNCHANGED <<cursor, pending>>
       ELSE pc' = "next" /\ cursor' = upto /\ pending' = all
  /\ all' = <<>>
  /\ UNCHANGED <<dbVars, upto, todo, out, saved, known, startVars, copyVars,
                 budgetVars>>

\* Faulty variant of FetchFails: the cursor has been moved already.
FetchFailsAhead ==
  /\ pc = "fetch"
  /\ faults < MaxFaults
  /\ faults' = faults + 1
  /\ cursor' = upto
  /\ all' = <<>> /\ todo' = <<>>
  /\ pc' = "idle"
  /\ UNCHANGED <<dbVars, pending, upto, out, saved, known, startVars, copyVars,
                 crashes>>

\* The query of the version or of a table fails, or a row does not scan: what
\* was collected is dropped and Next returns the error.  The consumer asks
\* again, or resumes from Cursor(), which comes to the same.
FetchFails ==
  /\ pc \in {"next", "fetch"}
  /\ pending = <<>>
  /\ faults < MaxFaults
  /\ faults' = faults + 1
  /\ all' = <<>> /\ todo' = <<>>
  /\ pc' = "idle"
  /\ UNCHANGED <<dbVars, cursor, pending, upto, out, saved, known, startVars,
                 copyVars, crashes>>

\* The wait ends in one way only: the context of the call is cancelled.
PollCancelled ==
  /\ pc = "poll"
  /\ pc' = "idle"
  /\ UNCHANGED <<dbVars, streamVars, saved, known, startVars, copyVars,
                 budgetVars>>

-----------------------------------------------------------------------------
(* The consumer.                                                           *)

\* It processes the change: an upsert of its After, or a deletion of the row
\* its PK names.  A PK of nulls names no row.
Process ==
  /\ pc = "got"
  /\ LET ch == Head(out)
     IN  /\ replica' = IF ch.pk = "nulls" THEN replica
                       ELSE [replica EXCEPT ![ch.row] = ch.content]
         /\ at' = [at EXCEPT ![ch.row] = Max({@, ch.version})]
  /\ pc' = "handled"
  /\ UNCHANGED <<dbVars, streamVars, saved, known, startVars, budgetVars>>

\* What it persists next: Cursor(), or, when it is careful, the position that
\* Cursor() has just moved on from.
NextSaved ==
  IF ~Lagged THEN cursor
  ELSE IF cursor # known THEN known
  ELSE saved

Persist ==
  /\ pc = "handled"
  /\ saved' = NextSaved
  /\ known' = cursor
  /\ out' = <<>>
  /\ pc' = "idle"
  /\ UNCHANGED <<dbVars, cursor, pending, fetchVars, startVars, copyVars,
                 budgetVars>>

\* The node goes down, and the stream with it.
Crash ==
  /\ pc # "closed"
  /\ crashes < MaxCrashes
  /\ crashes' = crashes + 1
  /\ pc' = "closed"
  /\ pending' = <<>> /\ all' = <<>> /\ out' = <<>> /\ todo' = <<>>
  /\ UNCHANGED <<dbVars, cursor, upto, saved, known, startVars, copyVars,
                 faults>>

-----------------------------------------------------------------------------
DBStep ==
  /\ \/ \E r \in Rows, op \in Ops : CommitChange(r, op)
     \/ Cleanup
  /\ UNCHANGED <<pc, streamVars, saved, known, startVars, copyVars,
                 budgetVars>>

StreamStep ==
  Pop \/ ReadVersion \/ QueryTable \/ StatementFails \/ FetchReturns

ConsumerStep == Changes \/ CallNext \/ Process \/ Persist

Next ==
  \/ DBStep
  \/ StreamStep \/ FetchFails \/ PollCancelled
  \/ ConsumerStep \/ Crash

Spec == Init /\ [][Next]_vars

\* The connector and its consumer keep running; Next returns as it can.
Fairness == WF_vars(StreamStep) /\ WF_vars(ConsumerStep)

\* The consumer gives every call of Next a deadline.
DeadlineSpec == Spec /\ Fairness /\ WF_vars(PollCancelled)

\* It gives it a context that is not cancelled.
PatientSpec == Spec /\ Fairness

-----------------------------------------------------------------------------
(* Safety.                                                                 *)

\* The consumer has processed every change up to the position it has
\* persisted, or a later change of the same row (changes.go, Changes: no
\* change is skipped on connection loss), but for what the cleanup has
\* discarded before it was read.
SavedIsProcessed ==
  start # NoCursor =>
    \A i \in (start + 1) .. saved :
      i > purged /\ log[i].row \in SubscribedRows => at[log[i].row] >= i

\* The consumer cannot have row r as it was at version v: the change record is
\* gone, or it was a deletion, which Change Tracking returns without its key.
Untold(r, v) ==
  \/ \E i \in Writes(r, v) : i <= purged /\ i = Max(Writes(r, v))
  \/ mechanism = "ct" /\ Content(r, v) = 0

\* When the stream has nothing pending, every row at the consumer is the row
\* of the source at its position or, since Change Tracking looks at the rows
\* as they are, at some time after it: failed fetches, failed queries in the
\* middle of a fetch and crashes have cost nothing.
DrainedMirrors ==
  pc \in {"idle", "poll"} /\ pending = <<>> =>
    \A r \in SubscribedRows :
      \E v \in cursor .. Len(log) : replica[r] = Content(r, v) \/ Untold(r, v)

-----------------------------------------------------------------------------
(* What connector.go promises of a change stream.                          *)

SubscribedFeed == INSTANCE Feed WITH
  Rows <- SubscribedRows, every <- (mechanism = "cdc")

\* A stream is a feed of its rows: over failed fetches and crashes a row moves
\* forwards only, by its own versions, and CDC leaves out none that is kept
\* (connector.go, ChangeStream; Next and the fetches of changes.go).
FeedSpec == SubscribedFeed!Spec

\* And every change after the start arrives, or a later one of the same row, if
\* each call of Next has a deadline: the bookkeeping of Next and of the fetches
\* keeps its promise with the statements as they are meant.  As they are written
\* nothing arrives (MCChangeStream, ChangesArrive).
FeedCompletes == statements = "meant" => SubscribedFeed!Liveness
=============================================================================

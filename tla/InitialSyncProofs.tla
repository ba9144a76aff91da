------------------------- MODULE InitialSyncProofs --------------------------
(***************************************************************************)
(* Proofs about InitialSync: the types, that a resumed scan brings nothing *)
(* that was delivered before, and that scan and stream together bring the  *)
(* whole table, if the consumer takes its change cursor before the scan.   *)
(***************************************************************************)
EXTENDS InitialSync, NatSets

-----------------------------------------------------------------------------
(* The inductive invariant.                                                *)

\* Positions lie within the log.
TypeInv ==
  /\ TypeOK
  /\ from \in 0 .. Len(log) /\ caught \in 0 .. Len(log)

\* a comes no later than b in the order of the scan.
NotAfter(a, b) == a = b \/ Before(a, b)

\* The server reads the rows in the order of their keys, each once, after the
\* persisted key.
ScanInv ==
  /\ phase \in {"new", "ready"} => mark = NoKey /\ ~ended /\ rows = <<>>
  /\ phase = "new" => lastPK = NoKey /\ replica = [k \in Keys |-> 0]
  /\ Len(row) <= 1
  /\ \A i, j \in DOMAIN rows : i < j => Before(rows[i].key, rows[j].key)
  /\ \A i \in DOMAIN rows : /\ mark # NoKey /\ NotAfter(rows[i].key, mark)
                            /\ Resumed(rows[i].key)
  /\ row # <<>> => /\ mark # NoKey /\ NotAfter(row[1].key, mark)
                   /\ Resumed(row[1].key)
                   /\ \A i \in DOMAIN rows : Before(row[1].key, rows[i].key)

\* No commit after version v has changed row k.
Untouched(k, v) == \A i \in v + 1 .. Len(log) : log[i].row # <<table, k>>

\* Row k is on its way to the consumer.
OnItsWay(k) ==
  \/ \E i \in DOMAIN rows : rows[i].key = k
  \/ phase = "row" /\ row[1].key = k
  \/ ~ended /\ Resumed(k) /\ (mark # NoKey => Before(mark, k))

\* What the stream will not bring the scan does: a row that has not changed
\* since the cursor was taken is at the consumer or on its way, and the consumer
\* has no row that is not there.
SyncInv ==
  phase \notin {"new", "stream"} =>
    \A k \in Keys : Untouched(k, from) =>
      /\ replica[k] = Here(k) \/ (replica[k] = 0 /\ OnItsWay(k))
      /\ \A i \in DOMAIN rows : rows[i].key = k => rows[i].content = Here(k)
      /\ row # <<>> /\ row[1].key = k => row[1].content = Here(k)

\* What the stream has not brought up to date has changed since, or is what it
\* could not tell.
StreamInv ==
  phase = "stream" =>
    /\ from <= caught
    /\ \A k \in Keys : Untouched(k, caught) => replica[k] = Here(k) \/ Untold(k)

IInv == TypeInv /\ ScanInv /\ (CursorFirst => SyncInv /\ StreamInv)

-----------------------------------------------------------------------------
(* The order of the keys.                                                  *)

LEMMA KeyFacts ==
  ASSUME pkCols \in PrimaryKeys
  PROVE  /\ Len(pkCols) \in Nat /\ DOMAIN pkCols = 1 .. Len(pkCols)
         /\ \A a, b \in Keys :
              /\ \A i \in DOMAIN pkCols : a[pkCols[i]] \in Nat
              /\ (\A i \in DOMAIN pkCols : a[pkCols[i]] = b[pkCols[i]]) => a = b
<1>1. pkCols \in Seq(Nat \ {0})
  BY SyncAssumption
<1>2. Len(pkCols) \in Nat /\ DOMAIN pkCols = 1 .. Len(pkCols)
  BY <1>1
<1> QED  BY <1>2, KeyAssumption

LEMMA BeforeTransitive ==
  ASSUME pkCols \in PrimaryKeys, NEW a \in Keys, NEW b \in Keys, NEW c \in Keys,
         Before(a, b), Before(b, c)
  PROVE  Before(a, c)
<1>1. /\ DOMAIN pkCols = 1 .. Len(pkCols) /\ Len(pkCols) \in Nat
      /\ \A i \in DOMAIN pkCols :
           a[pkCols[i]] \in Nat /\ b[pkCols[i]] \in Nat /\ c[pkCols[i]] \in Nat
  BY KeyFacts
<1>2. PICK i \in DOMAIN pkCols : /\ a[pkCols[i]] < b[pkCols[i]]
                                 /\ \A j \in 1 .. i - 1 : a[pkCols[j]] = b[pkCols[j]]
  BY DEF Before
<1>3. PICK m \in DOMAIN pkCols : /\ b[pkCols[m]] < c[pkCols[m]]
                                 /\ \A j \in 1 .. m - 1 : b[pkCols[j]] = c[pkCols[j]]
  BY DEF Before
<1>4. i \in Nat /\ m \in Nat /\ i >= 1 /\ m >= 1
  BY <1>1
<1> DEFINE n == IF i < m THEN i ELSE m
<1>5. a[pkCols[n]] < c[pkCols[n]] /\ n \in DOMAIN pkCols
  <2>1. CASE i < m
    <3>1. i \in 1 .. m - 1
      BY <1>4, <2>1
    <3> QED  BY <1>1, <1>2, <1>3, <2>1, <3>1
  <2>2. CASE m < i
    <3>1. m \in 1 .. i - 1
      BY <1>4, <2>2
    <3> QED  BY <1>1, <1>2, <1>3, <1>4, <2>2, <3>1
  <2>3. CASE i = m
    BY <1>1, <1>2, <1>3, <2>3
  <2> QED  BY <1>4, <2>1, <2>2, <2>3
<1>6. \A j \in 1 .. n - 1 : a[pkCols[j]] = c[pkCols[j]]
  <2>1. \A j \in 1 .. n - 1 : j \in 1 .. i - 1 /\ j \in 1 .. m - 1
    BY <1>4
  <2> QED  BY <1>2, <1>3, <2>1
<1> HIDE DEF n
<1> QED  BY <1>5, <1>6 DEF Before

-----------------------------------------------------------------------------
(* The source.                                                             *)

LEMMA ContentType ==
  ASSUME NEW r, NEW v \in Nat
  PROVE  Content(r, v) \in 0 .. v
<1> DEFINE W == Writes(r, v)
<1>1. W \in SUBSET (1 .. v)
  BY DEF Writes
<1>2. W # {} => Max(W) \in 1 .. v
  <2> HIDE DEF W
  <2>1. W \in SUBSET Nat /\ \A n \in W : n <= v
    BY <1>1
  <2>2. W # {} => Max(W) \in W
    BY <2>1, MaxOfBounded
  <2> QED  BY <1>1, <2>2
<1> QED  BY <1>2 DEF Content

LEMMA TypeFacts ==
  ASSUME TypeInv
  PROVE  /\ log \in Seq(CommitRecord) /\ Len(log) \in Nat /\ DOMAIN log = 1 .. Len(log)
         /\ Len(log) <= MaxCommits /\ MaxCommits \in Nat /\ purged \in 0 .. Len(log)
         /\ pkCols \in PrimaryKeys
         /\ rows \in Seq(ScannedRow) /\ Len(rows) \in Nat /\ DOMAIN rows = 1 .. Len(rows)
         /\ \A i \in DOMAIN rows : /\ rows[i] \in ScannedRow /\ rows[i].key \in Keys
                                   /\ rows[i].content \in Versions \ {0}
         /\ row \in Seq(ScannedRow)
         /\ row # <<>> => /\ row[1] \in ScannedRow /\ row[1].key \in Keys
                          /\ row[1].content \in Versions \ {0}
         /\ mark \in Keys \cup {NoKey} /\ lastPK \in Keys \cup {NoKey}
         /\ from \in Nat /\ caught \in Nat /\ from <= Len(log) /\ caught <= Len(log)
         /\ \A k : Here(k) \in 0 .. Len(log)
<1>1. /\ log \in Seq(CommitRecord) /\ Len(log) <= MaxCommits /\ MaxCommits \in Nat
      /\ purged \in 0 .. Len(log) /\ pkCols \in PrimaryKeys
      /\ rows \in Seq(ScannedRow) /\ row \in Seq(ScannedRow)
      /\ mark \in Keys \cup {NoKey} /\ lastPK \in Keys \cup {NoKey}
      /\ from \in 0 .. Len(log) /\ caught \in 0 .. Len(log)
  BY SourceDBAssumption DEF TypeInv, TypeOK, DBTypeOK
<1>2. Len(log) \in Nat /\ DOMAIN log = 1 .. Len(log)
      /\ Len(rows) \in Nat /\ DOMAIN rows = 1 .. Len(rows)
      /\ \A i \in DOMAIN rows : rows[i] \in ScannedRow
      /\ row # <<>> => row[1] \in ScannedRow
  BY <1>1
<1>3. \A x \in ScannedRow : x.key \in Keys /\ x.content \in Versions \ {0}
  BY DEF ScannedRow
<1>4. \A k : Here(k) \in 0 .. Len(log)
  BY <1>2, ContentType DEF Here, Now
<1> QED  BY <1>1, <1>2, <1>3, <1>4

LEMMA HeadTail ==
  ASSUME NEW S, NEW s \in Seq(S), s # <<>>
  PROVE  /\ Head(s) \in S /\ Head(s) = s[1]
         /\ Tail(s) \in Seq(S) /\ Len(s) \in Nat /\ Len(s) > 0
         /\ Len(Tail(s)) = Len(s) - 1
         /\ DOMAIN s = 1 .. Len(s) /\ DOMAIN Tail(s) = 1 .. Len(s) - 1
         /\ \A i \in 1 .. Len(s) - 1 : Tail(s)[i] = s[i + 1]
OBVIOUS

-----------------------------------------------------------------------------
(* Types.                                                                  *)

LEMMA InitType == Init => TypeInv
<1> SUFFICES ASSUME Init PROVE TypeInv
  OBVIOUS
<1>1. log = <<>> /\ Len(log) = 0 /\ purged = 0
  BY DEF Init, DBInit
<1>2. DBTypeOK
  BY <1>1, SourceDBAssumption DEF DBTypeOK
<1>3. 0 \in Versions
  BY SourceDBAssumption DEF Versions
<1>4. /\ 0 <= Buffer /\ 0 \in 0 .. MaxFaults /\ <<>> \in Seq(ScannedRow)
      /\ Len(<<>>) = 0 /\ 0 \in 0 .. Len(log)
  BY <1>1, SyncAssumption
<1>5. replica \in [Keys -> Versions]
  BY <1>3 DEF Init
<1> QED
  BY <1>1, <1>2, <1>3, <1>4, <1>5 DEF Init, TypeInv, TypeOK

\* The log only grows, and only by changes of the table; what has been cleaned up
\* stays so.
LEMMA LogGrows ==
  ASSUME TypeInv, [Next]_vars
  PROVE  /\ ~DBStep => log' = log /\ purged' = purged
         /\ \/ log' = log
            \/ \E k \in Keys : /\ Len(log') = Len(log) + 1
                               /\ \A i \in DOMAIN log : log'[i] = log[i]
                               /\ log'[Len(log')].row = <<table, k>>
         /\ Len(log') \in Nat /\ Len(log) <= Len(log')
         /\ purged' \in Nat /\ purged <= purged'
         /\ DBTypeOK'
<1>0. log \in Seq(CommitRecord) /\ Len(log) \in Nat /\ DOMAIN log = 1 .. Len(log)
      /\ purged \in Nat /\ purged <= Len(log) /\ DBTypeOK
  BY TypeFacts DEF TypeInv, TypeOK
<1>1. ASSUME NEW k \in Keys, NEW op \in Ops, CommitChange(<<table, k>>, op)
      PROVE  /\ Len(log') = Len(log) + 1 /\ purged' = purged
             /\ \A i \in DOMAIN log : log'[i] = log[i]
             /\ log'[Len(log')].row = <<table, k>>
             /\ DBTypeOK'
  <2> DEFINE x == [row |-> <<table, k>>, op |-> op]
  <2>2. log' = Append(log, x) /\ purged' = purged /\ Len(log) < MaxCommits
    BY <1>1 DEF CommitChange
  <2>3. x \in CommitRecord /\ x.row = <<table, k>>
    BY SyncAssumption, SourceDBAssumption DEF CommitRecord, Rows
  <2> HIDE DEF x
  <2>4. /\ Len(log') = Len(log) + 1 /\ log' \in Seq(CommitRecord)
        /\ \A i \in 1 .. Len(log) : log'[i] = log[i]
        /\ log'[Len(log')] = x
    BY <1>0, <2>2, <2>3
  <2>5. DBTypeOK'
    BY <1>0, <2>2, <2>4, SourceDBAssumption DEF DBTypeOK
  <2> QED  BY <1>0, <2>2, <2>3, <2>4, <2>5
<1>2. Cleanup => /\ log' = log /\ purged' \in Nat /\ purged <= purged' /\ DBTypeOK'
  BY <1>0, SourceDBAssumption DEF Cleanup, DBTypeOK
<1>3. CASE DBStep
  <2>1. CASE Cleanup
    <3>1. Len(log') = Len(log)
      BY <1>2, <2>1
    <3>2. Len(log') \in Nat /\ Len(log) <= Len(log')
      BY <1>0, <3>1
    <3> QED  BY <1>2, <1>3, <2>1, <3>2
  <2>2. ASSUME NEW k \in Keys, NEW op \in Ops, CommitChange(<<table, k>>, op)
        PROVE  /\ \/ log' = log
                  \/ \E j \in Keys : /\ Len(log') = Len(log) + 1
                                     /\ \A i \in DOMAIN log : log'[i] = log[i]
                                     /\ log'[Len(log')].row = <<table, j>>
               /\ Len(log') \in Nat /\ Len(log) <= Len(log')
               /\ purged' \in Nat /\ purged <= purged'
               /\ DBTypeOK'
    BY <1>0, <1>1, <2>2
  <2> QED  BY <1>3, <2>1, <2>2 DEF DBStep
<1>4. CASE ~DBStep
  <2>1. log' = log /\ purged' = purged
    BY <1>4 DEF Next, SyncStep, Prepare, OpenScan, ServerReads, NextRow, NextEOF, KeepRow,
                PersistPK, OpenChanges, CatchUp, NextFails, Crash, Terminated, vars, dbVars
  <2>2. DBTypeOK'
    BY <1>0, <2>1 DEF DBTypeOK
  <2> QED  BY <1>0, <1>4, <2>1, <2>2
<1> QED  BY <1>3, <1>4

\* What the next state has to be.
LEMMA TypeParts ==
  ASSUME DBTypeOK', mechanism' \in Mechanisms, pkCols' \in PrimaryKeys,
         phase' \in {"new", "ready", "scan", "row", "kept", "synced", "stream"},
         mark' \in Keys \cup {NoKey}, lastPK' \in Keys \cup {NoKey}, ended' \in BOOLEAN,
         rows' \in Seq(ScannedRow), Len(rows') <= Buffer, row' \in Seq(ScannedRow),
         row' # <<>> <=> phase' \in {"row", "kept"},
         phase' = "synced" => ended' /\ rows' = <<>>,
         from' \in 0 .. Len(log'), caught' \in 0 .. Len(log'),
         replica' \in [Keys -> Versions], faults' \in 0 .. MaxFaults
  PROVE  TypeInv'
<1>1. Len(log') \in Nat /\ Len(log') <= MaxCommits /\ MaxCommits \in Nat
  BY SourceDBAssumption DEF DBTypeOK
<1>2. \A p \in 0 .. Len(log') : p \in Versions
  BY <1>1 DEF Versions
<1> QED
  BY <1>2 DEF TypeInv, TypeOK

\* And what this one is.
LEMMA PartsOfType ==
  ASSUME TypeInv
  PROVE  /\ DBTypeOK /\ mechanism \in Mechanisms /\ pkCols \in PrimaryKeys
         /\ phase \in {"new", "ready", "scan", "row", "kept", "synced", "stream"}
         /\ mark \in Keys \cup {NoKey} /\ lastPK \in Keys \cup {NoKey} /\ ended \in BOOLEAN
         /\ rows \in Seq(ScannedRow) /\ Len(rows) <= Buffer /\ row \in Seq(ScannedRow)
         /\ (row # <<>> <=> phase \in {"row", "kept"})
         /\ (phase = "synced" => ended /\ rows = <<>>)
         /\ from \in 0 .. Len(log) /\ caught \in 0 .. Len(log)
         /\ replica \in [Keys -> Versions] /\ faults \in 0 .. MaxFaults
BY DEF TypeInv, TypeOK

LEMMA NextType == TypeInv /\ [Next]_vars => TypeInv'
<1> SUFFICES ASSUME TypeInv, [Next]_vars PROVE TypeInv'
  OBVIOUS
<1> USE DEF metaVars, scanVars, dbVars
<1>a. /\ MaxFaults \in Nat /\ Buffer \in Nat \ {0} /\ <<>> \in Seq(ScannedRow)
      /\ Len(<<>>) <= Buffer /\ Len(log) \in Nat /\ Len(rows) \in Nat
      /\ \A p \in 0 .. Len(log) : p \in Versions
  BY SyncAssumption, TypeFacts DEF Versions
<1>b. DBTypeOK' /\ (~DBStep => log' = log)
      /\ \A p \in 0 .. Len(log) : p \in 0 .. Len(log')
  BY LogGrows, <1>a
<1>c. Len(log) \in 0 .. Len(log) /\ Now = Len(log)
  BY <1>a DEF Now
<1>1. CASE DBStep
  BY <1>1, <1>b, PartsOfType, TypeParts DEF DBStep
<1>2. CASE Prepare
  <2>1. log' = log /\ from' \in 0 .. Len(log)
    BY <1>2, <1>c, PartsOfType DEF Prepare
  <2> QED  BY <1>2, <1>b, <2>1, PartsOfType, TypeParts DEF Prepare
<1>3. CASE OpenScan
  BY <1>3, <1>a, <1>b, PartsOfType, TypeParts DEF OpenScan
<1>4. CASE ServerReads
  <2>1. /\ phase' = phase /\ phase \in {"scan", "row", "kept"}
        /\ UNCHANGED <<dbVars, metaVars, row, lastPK, from, replica, caught, faults>>
    BY <1>4 DEF ServerReads
  <2>2. /\ mark' \in Keys \cup {NoKey} /\ ended' \in BOOLEAN
        /\ rows' \in Seq(ScannedRow) /\ Len(rows') <= Buffer
    <3>1. CASE Ahead = {} /\ ended' = TRUE /\ UNCHANGED <<mark, rows>>
      BY <3>1, PartsOfType
    <3>2. ASSUME NEW k \in Ahead, mark' = k, ended' = ended,
                 rows' = Append(rows, [key |-> k, content |-> Here(k)])
          PROVE  /\ mark' \in Keys \cup {NoKey} /\ ended' \in BOOLEAN
                 /\ rows' \in Seq(ScannedRow) /\ Len(rows') <= Buffer
      <4>1. k \in Keys /\ Here(k) # 0 /\ Here(k) \in Versions
        BY <1>a, TypeFacts DEF Ahead
      <4>2. [key |-> k, content |-> Here(k)] \in ScannedRow
        BY <4>1 DEF ScannedRow
      <4>3. Len(rows) < Buffer /\ rows \in Seq(ScannedRow)
        BY <1>4, PartsOfType DEF ServerReads
      <4>4. rows' \in Seq(ScannedRow) /\ Len(rows') = Len(rows) + 1
        BY <3>2, <4>2, <4>3
      <4> QED  BY <1>a, <3>2, <4>1, <4>3, <4>4, PartsOfType
    <3> QED  BY <1>4, <3>1, <3>2 DEF ServerReads
  <2> QED  BY <1>b, <2>1, <2>2, PartsOfType, TypeParts
<1>5. CASE NextRow
  <2>1. Head(rows) \in ScannedRow /\ Tail(rows) \in Seq(ScannedRow)
        /\ Len(Tail(rows)) <= Buffer
    <3>1. /\ Head(rows) \in ScannedRow /\ Tail(rows) \in Seq(ScannedRow)
          /\ Len(Tail(rows)) = Len(rows) - 1
      BY <1>5, PartsOfType, HeadTail DEF NextRow
    <3> QED  BY <3>1, <1>a, PartsOfType
  <2>2. <<Head(rows)>> \in Seq(ScannedRow) /\ <<Head(rows)>> # <<>>
    BY <2>1
  <2> QED  BY <1>5, <1>b, <2>1, <2>2, PartsOfType, TypeParts DEF NextRow
<1>6. CASE NextEOF
  BY <1>6, <1>b, PartsOfType, TypeParts DEF NextEOF
<1>7. CASE KeepRow
  <2>1. row[1].content \in Versions
    BY <1>7, PartsOfType, TypeFacts DEF KeepRow
  <2>2. replica' \in [Keys -> Versions]
    BY <1>7, <2>1, PartsOfType DEF KeepRow
  <2> QED  BY <1>7, <1>b, <2>2, PartsOfType, TypeParts DEF KeepRow
<1>8. CASE PersistPK
  <2>1. lastPK' \in Keys
    BY <1>8, PartsOfType, TypeFacts DEF PersistPK
  <2> QED  BY <1>8, <1>a, <1>b, <2>1, PartsOfType, TypeParts DEF PersistPK
<1>9. CASE OpenChanges
  <2>1. log' = log /\ from' \in 0 .. Len(log) /\ caught' = from'
    BY <1>9, <1>c, PartsOfType DEF OpenChanges
  <2> QED  BY <1>9, <1>b, <2>1, PartsOfType, TypeParts DEF OpenChanges
<1>10. CASE CatchUp
  <2>1. log' = log /\ caught' \in 0 .. Len(log)
    BY <1>10, <1>c DEF CatchUp
  <2>2. \A k : Here(k) \in Versions
    BY <1>a, TypeFacts
  <2>3. replica' \in [Keys -> Versions]
    BY <1>10, <2>2, PartsOfType DEF CatchUp
  <2> QED  BY <1>10, <1>b, <2>1, <2>3, PartsOfType, TypeParts DEF CatchUp
<1>11. CASE NextFails
  <2>1. faults' \in 0 .. MaxFaults
    BY <1>11, <1>a, PartsOfType DEF NextFails
  <2> QED  BY <1>11, <1>a, <1>b, <2>1, PartsOfType, TypeParts DEF NextFails
<1>12. CASE Crash
  <2>1. faults' \in 0 .. MaxFaults
    BY <1>12, <1>a, PartsOfType DEF Crash
  <2> QED  BY <1>12, <1>a, <1>b, <2>1, PartsOfType, TypeParts DEF Crash
<1>13. CASE UNCHANGED vars
  BY <1>13, <1>b, PartsOfType, TypeParts DEF vars
<1> QED
  BY <1>1, <1>2, <1>3, <1>4, <1>5, <1>6, <1>7, <1>8, <1>9, <1>10, <1>11, <1>12, <1>13
  DEF Next, SyncStep, Terminated

\* The rows that are read, and the positions of the sync, are those of the table
\* (initialsync.go, InitialSync and Next).
THEOREM TypeCorrect == Spec => []TypeOK
<1>1. TypeInv => TypeOK
  BY DEF TypeInv
<1> QED
  BY <1>1, InitType, NextType, PTL DEF Spec

-----------------------------------------------------------------------------
(* The scan.                                                               *)

LEMMA KeysStay ==
  ASSUME [Next]_vars
  PROVE  /\ pkCols' = pkCols
         /\ \A a, b : Before(a, b)' <=> Before(a, b)
         /\ lastPK' = lastPK => \A k : Resumed(k)' <=> Resumed(k)
<1>1. pkCols' = pkCols
  BY DEF Next, DBStep, SyncStep, Prepare, OpenScan, ServerReads, NextRow, NextEOF, KeepRow,
         PersistPK, OpenChanges, CatchUp, NextFails, Crash, Terminated, metaVars, vars
<1>2. \A a, b : Before(a, b)' <=> Before(a, b)
  BY <1>1 DEF Before
<1> QED  BY <1>1, <1>2 DEF Resumed

LEMMA InitScan == Init => ScanInv
BY DEF Init, ScanInv

LEMMA NextScan ==
  ASSUME TypeInv, ScanInv, [Next]_vars
  PROVE  ScanInv'
<1> USE DEF metaVars, scanVars, dbVars
<1>a. /\ phase \in {"new", "ready"} => mark = NoKey /\ ~ended /\ rows = <<>>
      /\ phase = "new" => lastPK = NoKey /\ replica = [k \in Keys |-> 0]
      /\ Len(row) <= 1
      /\ \A i, j \in DOMAIN rows : i < j => Before(rows[i].key, rows[j].key)
      /\ \A i \in DOMAIN rows : /\ mark # NoKey /\ NotAfter(rows[i].key, mark)
                                /\ Resumed(rows[i].key)
      /\ row # <<>> => /\ mark # NoKey /\ NotAfter(row[1].key, mark)
                       /\ Resumed(row[1].key)
                       /\ \A i \in DOMAIN rows : Before(row[1].key, rows[i].key)
  BY DEF ScanInv
<1>b. /\ pkCols \in PrimaryKeys /\ NoKey \notin Keys
      /\ Len(rows) \in Nat /\ DOMAIN rows = 1 .. Len(rows) /\ rows \in Seq(ScannedRow)
      /\ \A i \in DOMAIN rows : rows[i].key \in Keys
      /\ row # <<>> => row[1].key \in Keys
      /\ mark \in Keys \cup {NoKey}
      /\ (row # <<>> <=> phase \in {"row", "kept"})
  BY TypeFacts, PartsOfType, SyncAssumption
<1>c. /\ \A a, b : Before(a, b)' <=> Before(a, b)
      /\ \A a, b : NotAfter(a, b)' <=> NotAfter(a, b)
      /\ lastPK' = lastPK => \A k : Resumed(k)' <=> Resumed(k)
  <2>1. \A a, b : NotAfter(a, b)' <=> NotAfter(a, b)
    BY KeysStay DEF NotAfter
  <2> QED  BY <2>1, KeysStay
<1>1. ASSUME phase' \in {"new", "ready"} => mark' = NoKey /\ ~ended' /\ rows' = <<>>,
             phase' = "new" => lastPK' = NoKey /\ replica' = [k \in Keys |-> 0],
             Len(row') <= 1,
             \A i, j \in DOMAIN rows' : i < j => Before(rows'[i].key, rows'[j].key),
             \A i \in DOMAIN rows' : /\ mark' # NoKey /\ NotAfter(rows'[i].key, mark')
                                     /\ Resumed(rows[i].key)',
             row' # <<>> => /\ mark' # NoKey /\ NotAfter(row'[1].key, mark')
                            /\ Resumed(row[1].key)'
                            /\ \A i \in DOMAIN rows' : Before(row'[1].key, rows'[i].key)
      PROVE  ScanInv'
  <2>1. pkCols' = pkCols
    BY KeysStay
  <2>2. (\A i, j \in DOMAIN rows : i < j => Before(rows[i].key, rows[j].key))'
    BY <1>1, <2>1 DEF Before
  <2>3. (\A i \in DOMAIN rows : /\ mark # NoKey /\ NotAfter(rows[i].key, mark)
                                /\ Resumed(rows[i].key))'
    BY <1>1, <2>1 DEF NotAfter, Before
  <2>4. (row # <<>> => /\ mark # NoKey /\ NotAfter(row[1].key, mark)
                       /\ Resumed(row[1].key)
                       /\ \A i \in DOMAIN rows : Before(row[1].key, rows[i].key))'
    BY <1>1, <2>1 DEF NotAfter, Before
  <2> QED  BY <1>1, <2>2, <2>3, <2>4 DEF ScanInv
<1>2. CASE DBStep \/ NextEOF \/ KeepRow \/ OpenChanges \/ CatchUp \/ UNCHANGED vars
           \/ OpenScan \/ Prepare
  <2>1. /\ phase' \in {"new", "ready"} => mark' = NoKey /\ ~ended' /\ rows' = <<>>
        /\ phase' = "new" => lastPK' = NoKey /\ replica' = [k \in Keys |-> 0]
        /\ row' = row /\ lastPK' = lastPK
        /\ (mark' = mark /\ rows' = rows) \/ (rows' = <<>> /\ row = <<>>)
    BY <1>2, <1>a, <1>b DEF DBStep, NextEOF, KeepRow, OpenChanges, CatchUp, vars, OpenScan,
                            Prepare
  <2>2. CASE mark' = mark /\ rows' = rows
    BY <2>1, <2>2, <1>a, <1>c, <1>1 DEF Resumed
  <2>3. CASE rows' = <<>> /\ row = <<>>
    BY <2>1, <2>3, <1>a, <1>1
  <2> QED  BY <2>1, <2>2, <2>3
<1>3. CASE NextFails \/ Crash
  <2>1. /\ phase' = "ready" /\ mark' = NoKey /\ ~ended' /\ rows' = <<>> /\ row' = <<>>
    BY <1>3, <1>b DEF NextFails, Crash
  <2> QED  BY <2>1, <1>1
<1>4. CASE ServerReads
  <2>1. phase' = phase /\ row' = row /\ lastPK' = lastPK
        /\ phase \in {"scan", "row", "kept"}
    BY <1>4 DEF ServerReads
  <2>2. CASE mark' = mark /\ rows' = rows
    BY <2>1, <2>2, <1>a, <1>c, <1>1 DEF Resumed
  <2>3. ASSUME NEW k \in Ahead, mark' = k,
               rows' = Append(rows, [key |-> k, content |-> Here(k)])
        PROVE  ScanInv'
    <3> DEFINE x == [key |-> k, content |-> Here(k)]
               n == Len(rows) + 1
    <3>1. /\ k \in Keys /\ k # NoKey /\ Resumed(k) /\ (mark # NoKey => Before(mark, k))
          /\ x.key = k
      BY <1>b DEF Ahead
    <3>2. /\ DOMAIN rows' = 1 .. n /\ rows'[n].key = k
          /\ \A i \in 1 .. Len(rows) : rows'[i] = rows[i]
      BY <2>3, <1>b
    <3> HIDE DEF x
    <3>3. ASSUME NEW a \in Keys, mark # NoKey, NotAfter(a, mark) PROVE Before(a, k)
      BY <3>1, <3>3, <1>b, BeforeTransitive DEF NotAfter
    <3>4. \A i \in 1 .. Len(rows) : Before(rows[i].key, k) /\ Resumed(rows[i].key)
      BY <3>3, <1>a, <1>b
    <3>5. \A i, j \in DOMAIN rows' : i < j => Before(rows'[i].key, rows'[j].key)
      <4> SUFFICES ASSUME NEW i \in DOMAIN rows', NEW j \in DOMAIN rows', i < j
                   PROVE  Before(rows'[i].key, rows'[j].key)
        OBVIOUS
      <4>1. i \in 1 .. Len(rows) /\ rows'[i] = rows[i] /\ (j = n \/ j \in 1 .. Len(rows))
        BY <3>2, <1>b
      <4>2. CASE j = n
        BY <3>2, <3>4, <4>1, <4>2
      <4>3. CASE j \in 1 .. Len(rows)
        BY <3>2, <4>1, <4>3, <1>a, <1>b
      <4> QED  BY <4>1, <4>2, <4>3
    <3>6. \A i \in DOMAIN rows' : /\ mark' # NoKey /\ NotAfter(rows'[i].key, mark')
                                  /\ Resumed(rows[i].key)'
      <4> SUFFICES ASSUME NEW i \in DOMAIN rows'
                   PROVE  NotAfter(rows'[i].key, k) /\ Resumed(rows[i].key)'
        BY <2>3, <3>1
      <4>1. i = n \/ (i \in 1 .. Len(rows) /\ rows'[i] = rows[i])
        BY <3>2, <1>b
      <4>2. NotAfter(rows'[i].key, k) /\ Resumed(rows'[i].key)
        BY <3>1, <3>2, <3>4, <4>1 DEF NotAfter
      <4> QED  BY <2>1, <4>2, <1>c DEF Resumed
    <3>7. row' # <<>> => /\ mark' # NoKey /\ NotAfter(row'[1].key, mark')
                         /\ Resumed(row[1].key)'
                         /\ \A i \in DOMAIN rows' : Before(row'[1].key, rows'[i].key)
      <4> SUFFICES ASSUME row # <<>>
                   PROVE  /\ NotAfter(row[1].key, k) /\ Resumed(row[1].key)'
                          /\ \A i \in DOMAIN rows' : Before(row[1].key, rows'[i].key)
        BY <2>1, <2>3, <3>1
      <4>1. row[1].key \in Keys /\ Before(row[1].key, k) /\ Resumed(row[1].key)
        BY <3>3, <1>a, <1>b
      <4>2. \A i \in DOMAIN rows' : i = n \/ (i \in 1 .. Len(rows) /\ rows'[i] = rows[i])
        BY <3>2, <1>b
      <4>3. \A i \in DOMAIN rows' : Before(row[1].key, rows'[i].key)
        BY <3>2, <4>1, <4>2, <1>a, <1>b
      <4>4. Resumed(row[1].key)'
        BY <2>1, <4>1, <1>c DEF Resumed
      <4> QED  BY <4>1, <4>3, <4>4 DEF NotAfter
    <3> HIDE DEF n
    <3> QED  BY <2>1, <3>5, <3>6, <3>7, <1>a, <1>1
  <2> QED  BY <2>2, <2>3, <1>4 DEF ServerReads
<1>5. CASE NextRow
  <2>1. /\ phase' = "row" /\ rows # <<>> /\ row' = <<Head(rows)>> /\ rows' = Tail(rows)
        /\ mark' = mark /\ lastPK' = lastPK
    BY <1>5 DEF NextRow
  <2>2. /\ Len(rows) > 0 /\ row'[1] = rows[1] /\ Len(row') = 1
        /\ DOMAIN rows' = 1 .. Len(rows) - 1
        /\ \A i \in 1 .. Len(rows) - 1 : rows'[i] = rows[i + 1]
    BY <2>1, <1>b, HeadTail
  <2>3. \A i \in DOMAIN rows' : /\ i + 1 \in DOMAIN rows /\ rows'[i] = rows[i + 1]
                                /\ i \in Nat /\ 1 < i + 1
    BY <2>2, <1>b
  <2>4. 1 \in DOMAIN rows
    BY <2>2, <1>b
  <2>5. \A i, j \in DOMAIN rows' : i < j => Before(rows'[i].key, rows'[j].key)
    BY <2>3, <1>a
  <2>6. \A i \in DOMAIN rows' : /\ mark' # NoKey /\ NotAfter(rows'[i].key, mark')
                                /\ Resumed(rows[i].key)'
    BY <2>1, <2>3, <1>a, <1>c DEF Resumed
  <2>7. /\ mark' # NoKey /\ NotAfter(row'[1].key, mark')
        /\ Resumed(row[1].key)'
        /\ \A i \in DOMAIN rows' : Before(row'[1].key, rows'[i].key)
    BY <2>1, <2>2, <2>3, <2>4, <1>a, <1>c DEF Resumed
  <2> QED  BY <2>1, <2>2, <2>5, <2>6, <2>7, <1>1
<1>6. CASE PersistPK
  <2>1. /\ phase' = "scan" /\ row' = <<>> /\ rows' = rows /\ mark' = mark
        /\ lastPK' = row[1].key /\ row # <<>>
    BY <1>6, <1>b DEF PersistPK
  <2>2. \A i \in DOMAIN rows : Before(lastPK', rows[i].key)
    BY <2>1, <1>a
  <2>3. \A i \in DOMAIN rows' : Resumed(rows[i].key)'
    BY <2>1, <2>2, <1>c DEF Resumed, Before
  <2>4. \A i, j \in DOMAIN rows' : i < j => Before(rows'[i].key, rows'[j].key)
    BY <2>1, <1>a
  <2>5. \A i \in DOMAIN rows' : mark' # NoKey /\ NotAfter(rows'[i].key, mark')
    BY <2>1, <1>a
  <2> QED  BY <2>1, <2>3, <2>4, <2>5, <1>1
<1> QED
  BY <1>2, <1>3, <1>4, <1>5, <1>6 DEF Next, SyncStep, Terminated

\* A scan that is resumed after a key of one column brings nothing up to that
\* key, however often it fails and restarts (initialsync.go, InitialSync).
THEOREM ResumeGoesOn == Spec => []ResumeSkipsDelivered
<1>1. Init => TypeInv /\ ScanInv
  BY InitType, InitScan
<1>2. TypeInv /\ ScanInv /\ [Next]_vars => (TypeInv /\ ScanInv)'
  BY NextType, NextScan
<1>3. ScanInv => ResumeSkipsDelivered
  BY DEF ScanInv, Resumed, ResumeSkipsDelivered
<1> QED
  BY <1>1, <1>2, <1>3, PTL DEF Spec

-----------------------------------------------------------------------------
(* Scan and stream together.                                               *)

\* A row that has not changed is what it was, and so is what was not told of it.
LEMMA HereStays ==
  ASSUME TypeInv, [Next]_vars, NEW k, NEW v \in Nat, v <= Len(log), Untouched(k, v)'
  PROVE  /\ Untouched(k, v) /\ Here(k)' = Here(k)
         /\ from' = from /\ Untold(k) => Untold(k)'
<1> DEFINE r == <<table, k>>
           W == Writes(r, Len(log))
<1>1. Len(log) \in Nat /\ DOMAIN log = 1 .. Len(log)
  BY TypeFacts
<1>a. /\ mechanism' = mechanism /\ Len(log') \in Nat /\ Len(log) <= Len(log')
      /\ purged \in Nat /\ purged' \in Nat /\ purged <= purged' /\ from \in Nat
  <2>1. mechanism' = mechanism
    BY DEF Next, DBStep, SyncStep, Prepare, OpenScan, ServerReads, NextRow, NextEOF, KeepRow,
         PersistPK, OpenChanges, CatchUp, NextFails, Crash, Terminated, metaVars, vars
  <2> QED  BY <2>1, LogGrows, TypeFacts
<1>2. ASSUME Writes(r, Len(log))' = W, \A i \in 1 .. Len(log) : log'[i] = log[i]
      PROVE  /\ Here(k)' = Here(k)
             /\ from' = from /\ Untold(k) => Untold(k)'
  <2>1. W # {} => Max(W) \in 1 .. Len(log)
    <3>1. W \in SUBSET Nat /\ \A n \in W : n <= Len(log)
      BY <1>1 DEF Writes
    <3>2. W # {} => Max(W) \in W
      <4> HIDE DEF W
      <4> QED  BY <1>1, <3>1, MaxOfBounded
    <3> QED  BY <3>2 DEF Writes
  <2>2. /\ Here(k) = IF W = {} \/ log[Max(W)].op = "delete" THEN 0 ELSE Max(W)
        /\ Here(k)' = IF W = {} \/ log'[Max(W)].op = "delete" THEN 0 ELSE Max(W)
    BY <1>2 DEF Here, Now, Content
  <2>3. ASSUME from' = from, Untold(k) PROVE Untold(k)'
    <3>1. PICK m \in (from + 1) .. Len(log) :
            m = Max(W) /\ (m <= purged \/ (mechanism = "ct" /\ log[m].op = "delete"))
      BY <2>3 DEF Untold, Now
    <3>2. m \in 1 .. Len(log)
      BY <1>1, <1>a, <3>1
    <3>3. m \in (from' + 1) .. Len(log') /\ log'[m] = log[m]
      BY <1>1, <1>2, <1>a, <2>3, <3>1, <3>2
    <3>4. m = Max(Writes(r, Len(log)))'
      BY <1>2, <3>1
    <3>5. m <= purged' \/ (mechanism' = "ct" /\ log'[m].op = "delete")
      BY <1>1, <1>a, <3>1, <3>2, <3>3
    <3> HIDE DEF W
    <3> QED  BY <3>3, <3>4, <3>5 DEF Untold, Now
  <2> HIDE DEF W
  <2> QED  BY <1>2, <2>1, <2>2, <2>3
<1>3. CASE log' = log
  <2>1. Writes(r, Len(log))' = W /\ Untouched(k, v)
    BY <1>3 DEF Writes, Untouched
  <2> QED  BY <1>2, <1>3, <2>1
<1>4. CASE /\ Len(log') = Len(log) + 1
           /\ \A i \in DOMAIN log : log'[i] = log[i]
  <2>1. \A i \in v + 1 .. Len(log') : log'[i].row # r
    BY DEF Untouched
  <2>2. Untouched(k, v)
    BY <1>1, <1>4, <2>1 DEF Untouched
  <2>3. Writes(r, Len(log))' = W
    <3>1. log'[Len(log) + 1].row # r
      BY <1>1, <1>4, <2>1
    <3> QED  BY <1>1, <1>4, <3>1 DEF Writes
  <2> QED  BY <1>1, <1>2, <1>4, <2>2, <2>3
<1> QED  BY <1>3, <1>4, LogGrows

LEMMA InitSync == Init => SyncInv /\ StreamInv
BY DEF Init, SyncInv, StreamInv

\* What SyncInv says of one row.
RowSynced(k) ==
  /\ replica[k] = Here(k) \/ (replica[k] = 0 /\ OnItsWay(k))
  /\ \A i \in DOMAIN rows : rows[i].key = k => rows[i].content = Here(k)
  /\ row # <<>> /\ row[1].key = k => row[1].content = Here(k)

LEMMA NextSync ==
  ASSUME CursorFirst, TypeInv, ScanInv, SyncInv, [Next]_vars
  PROVE  SyncInv'
<1> USE DEF metaVars, scanVars, dbVars
<1>a. /\ phase \in {"new", "ready"} => mark = NoKey /\ ~ended /\ rows = <<>>
      /\ phase = "new" => lastPK = NoKey /\ replica = [k \in Keys |-> 0]
      /\ \A i \in DOMAIN rows : Resumed(rows[i].key)
      /\ row # <<>> => /\ mark # NoKey /\ NotAfter(row[1].key, mark)
                       /\ Resumed(row[1].key)
  BY DEF ScanInv
<1>b. /\ pkCols \in PrimaryKeys /\ NoKey \notin Keys
      /\ Len(rows) \in Nat /\ DOMAIN rows = 1 .. Len(rows) /\ rows \in Seq(ScannedRow)
      /\ \A i \in DOMAIN rows : rows[i].key \in Keys
      /\ row # <<>> => row[1].key \in Keys
      /\ mark \in Keys \cup {NoKey} /\ replica \in [Keys -> Versions]
      /\ (row # <<>> <=> phase \in {"row", "kept"})
      /\ from \in Nat /\ from <= Len(log)
  BY TypeFacts, PartsOfType, SyncAssumption
<1> SUFFICES ASSUME phase' \notin {"new", "stream"}, NEW k \in Keys, Untouched(k, from)'
             PROVE  RowSynced(k)'
  BY DEF SyncInv, RowSynced
<1>1. CASE Prepare
  <2>1. /\ phase = "new" /\ phase' = "ready" /\ row = <<>>
        /\ UNCHANGED <<dbVars, metaVars, scanVars, row, lastPK, replica>>
    BY <1>1, <1>b DEF Prepare
  <2>2. replica'[k] = 0 /\ mark' = NoKey /\ ~ended' /\ rows' = <<>> /\ row' = <<>>
        /\ lastPK' = NoKey
    BY <2>1, <1>a
  <2>3. OnItsWay(k)'
    BY <2>2 DEF OnItsWay, Resumed
  <2> QED  BY <2>2, <2>3 DEF RowSynced
<1>2. ASSUME ~Prepare
      PROVE  /\ from' = from /\ Untouched(k, from) /\ Here(k)' = Here(k)
             /\ phase \notin {"new", "stream"} /\ RowSynced(k)
  <2>1. phase \notin {"new", "stream"} /\ from' = from
    BY <1>2 DEF Next, DBStep, SyncStep, OpenScan, ServerReads, NextRow, NextEOF,
         KeepRow, PersistPK, OpenChanges, CatchUp, NextFails, Crash, Terminated, vars
  <2>2. Untouched(k, from)' => Untouched(k, from) /\ Here(k)' = Here(k)
    <3>1. Untouched(k, from)' => \A i \in from + 1 .. Len(log') : log'[i].row # <<table, k>>
      BY <2>1 DEF Untouched
    <3>2. ASSUME NEW v \in Nat, v = from, \A i \in v + 1 .. Len(log') : log'[i].row # <<table, k>>
          PROVE  Untouched(k, v) /\ Here(k)' = Here(k)
      <4>1. Untouched(k, v)'
        BY <3>2 DEF Untouched
      <4> QED  BY <3>2, <4>1, <1>b, HereStays
    <3> QED  BY <3>1, <3>2, <1>b
  <2> QED  BY <2>1, <2>2 DEF SyncInv, RowSynced
<1>3. CASE DBStep \/ UNCHANGED vars \/ Terminated
  <2>1. /\ pkCols' = pkCols /\ phase' = phase /\ UNCHANGED scanVars /\ row' = row
        /\ lastPK' = lastPK /\ replica' = replica /\ ~Prepare
    BY <1>3 DEF DBStep, vars, Terminated, Prepare
  <2> QED  BY <2>1, <1>2 DEF RowSynced, OnItsWay, Resumed, Before
<1>4. CASE OpenScan
  <2>1. /\ phase = "ready" /\ mark' = NoKey /\ ~ended' /\ rows' = <<>> /\ row' = row
        /\ lastPK' = lastPK /\ replica' = replica /\ pkCols' = pkCols /\ ~Prepare
        /\ mark = NoKey /\ ~ended /\ rows = <<>>
    BY <1>4, <1>a DEF OpenScan, Prepare
  <2> QED  BY <2>1, <1>2 DEF RowSynced, OnItsWay, Resumed, Before
<1>5. CASE ServerReads
  <2>1. /\ phase \in {"scan", "row", "kept"} /\ phase' = phase /\ row' = row
        /\ lastPK' = lastPK /\ replica' = replica /\ pkCols' = pkCols /\ ~Prepare /\ ~ended
    BY <1>5 DEF ServerReads, Prepare
  <2>2. /\ RowSynced(k) /\ Here(k)' = Here(k)
    BY <2>1, <1>2
  <2>3. Here(k) # 0 /\ Resumed(k) /\ (mark # NoKey => Before(mark, k)) => k \in Ahead
    BY DEF Ahead
  <2>4. CASE Ahead = {} /\ ended' = TRUE /\ UNCHANGED <<mark, rows>>
    BY <2>1, <2>2, <2>3, <2>4 DEF RowSynced, OnItsWay, Resumed, Before
  <2>5. ASSUME NEW k0 \in Ahead, \A other \in Ahead \ {k0} : Before(k0, other), mark' = k0,
               rows' = Append(rows, [key |-> k0, content |-> Here(k0)]), ended' = ended
        PROVE  RowSynced(k)'
    <3> DEFINE n == Len(rows) + 1
    <3>1. /\ DOMAIN rows' = 1 .. n /\ n \in 1 .. n
          /\ rows'[n] = [key |-> k0, content |-> Here(k0)]
          /\ \A i \in 1 .. Len(rows) : rows'[i] = rows[i] /\ i \in 1 .. n
      BY <2>5, <1>b
    <3>2. rows'[n].key = k0 /\ rows'[n].content = Here(k0)
      BY <3>1
    <3>3. \A i \in DOMAIN rows' : i = n \/ (i \in DOMAIN rows /\ rows'[i] = rows[i])
      BY <3>1, <1>b
    <3>4. \A i \in DOMAIN rows' : rows'[i].key = k => rows'[i].content = Here(k)
      BY <2>2, <3>2, <3>3 DEF RowSynced
    <3>5. OnItsWay(k) /\ Here(k) # 0 => OnItsWay(k)'
      <4> SUFFICES ASSUME OnItsWay(k), Here(k) # 0 PROVE OnItsWay(k)'
        OBVIOUS
      <4>1. CASE \E i \in DOMAIN rows : rows[i].key = k
        <5>1. \E i \in DOMAIN rows' : rows'[i].key = k
          BY <3>1, <4>1, <1>b
        <5> QED  BY <5>1 DEF OnItsWay
      <4>2. CASE phase = "row" /\ row[1].key = k
        BY <2>1, <4>2 DEF OnItsWay
      <4>3. CASE Resumed(k) /\ (mark # NoKey => Before(mark, k))
        <5>1. k \in Ahead
          BY <2>3, <4>3
        <5>2. CASE k = k0
          <6>1. \E i \in DOMAIN rows' : rows'[i].key = k
            BY <3>1, <3>2, <5>2
          <6> QED  BY <6>1 DEF OnItsWay
        <5>3. CASE k # k0
          <6>1. Before(k0, k)
            BY <2>5, <5>1, <5>3
          <6> QED  BY <2>1, <2>5, <4>3, <6>1 DEF OnItsWay, Resumed, Before
        <5> QED  BY <5>2, <5>3
      <4> QED  BY <4>1, <4>2, <4>3 DEF OnItsWay
    <3> HIDE DEF n
    <3>6. replica[k] = Here(k) \/ (replica[k] = 0 /\ OnItsWay(k)')
      BY <2>2, <3>5 DEF RowSynced
    <3> QED  BY <2>1, <2>2, <3>4, <3>6 DEF RowSynced
  <2> QED  BY <1>5, <2>4, <2>5 DEF ServerReads
<1>6. CASE NextRow
  <2>1. /\ phase = "scan" /\ phase' = "row" /\ rows # <<>> /\ row' = <<Head(rows)>>
        /\ rows' = Tail(rows) /\ mark' = mark /\ ended' = ended
        /\ lastPK' = lastPK /\ replica' = replica /\ pkCols' = pkCols /\ ~Prepare
    BY <1>6 DEF NextRow, Prepare
  <2>2. /\ Len(rows) > 0 /\ row'[1] = rows[1] /\ 1 \in DOMAIN rows
        /\ DOMAIN rows' = 1 .. Len(rows) - 1
        /\ \A i \in 1 .. Len(rows) - 1 : rows'[i] = rows[i + 1]
    BY <2>1, <1>b, HeadTail
  <2>3. \A i \in DOMAIN rows' : i + 1 \in DOMAIN rows /\ rows'[i] = rows[i + 1]
    BY <2>2, <1>b
  <2>4. RowSynced(k) /\ Here(k)' = Here(k)
    BY <2>1, <1>2
  <2>5. OnItsWay(k) => OnItsWay(k)'
    <3>1. ASSUME NEW i \in DOMAIN rows, rows[i].key = k PROVE OnItsWay(k)'
      <4>1. CASE i = 1
        BY <2>1, <2>2, <3>1, <4>1 DEF OnItsWay
      <4>2. CASE i # 1
        <5>1. i - 1 \in DOMAIN rows' /\ rows'[i - 1] = rows[i]
          BY <2>2, <4>2, <1>b
        <5> QED  BY <3>1, <5>1 DEF OnItsWay
      <4> QED  BY <4>1, <4>2
    <3>2. CASE ~ended /\ Resumed(k) /\ (mark # NoKey => Before(mark, k))
      BY <2>1, <3>2 DEF OnItsWay, Resumed, Before
    <3> QED  BY <2>1, <3>1, <3>2 DEF OnItsWay
  <2>6. \A i \in DOMAIN rows' : rows'[i].key = k => rows'[i].content = Here(k)
    BY <2>3, <2>4 DEF RowSynced
  <2>7. row'[1].key = k => row'[1].content = Here(k)
    BY <2>2, <2>4 DEF RowSynced
  <2> QED  BY <2>1, <2>4, <2>5, <2>6, <2>7 DEF RowSynced
<1>7. CASE NextEOF
  <2>1. /\ phase = "scan" /\ phase' = "synced" /\ rows = <<>> /\ ended
        /\ UNCHANGED <<scanVars, row, replica>> /\ ~Prepare
    BY <1>7 DEF NextEOF, Prepare
  <2>2. RowSynced(k) /\ Here(k)' = Here(k) /\ ~OnItsWay(k)
    BY <2>1, <1>2 DEF OnItsWay
  <2> QED  BY <2>1, <2>2 DEF RowSynced
<1>8. CASE KeepRow
  <2>1. /\ phase = "row" /\ phase' = "kept" /\ row # <<>> /\ ~Prepare
        /\ replica' = [replica EXCEPT ![row[1].key] = row[1].content]
        /\ UNCHANGED <<metaVars, scanVars, row, lastPK>>
    BY <1>8, <1>b DEF KeepRow, Prepare
  <2>2. RowSynced(k) /\ Here(k)' = Here(k)
    BY <2>1, <1>2
  <2>3. CASE k = row[1].key
    <3>1. replica'[k] = Here(k)
      BY <2>1, <2>2, <2>3, <1>b DEF RowSynced
    <3> QED  BY <2>1, <2>2, <3>1 DEF RowSynced
  <2>4. CASE k # row[1].key
    <3>1. replica'[k] = replica[k]
      BY <2>1, <2>4, <1>b
    <3>2. OnItsWay(k) => OnItsWay(k)'
      BY <2>1, <2>4 DEF OnItsWay, Resumed, Before
    <3> QED  BY <2>1, <2>2, <3>1, <3>2 DEF RowSynced
  <2> QED  BY <2>3, <2>4
<1>9. CASE PersistPK
  <2>1. /\ phase = "kept" /\ phase' = "scan" /\ row # <<>> /\ row' = <<>> /\ ~Prepare
        /\ lastPK' = row[1].key
        /\ UNCHANGED <<metaVars, scanVars, replica>>
    BY <1>9, <1>b DEF PersistPK, Prepare
  <2>2. RowSynced(k) /\ Here(k)' = Here(k)
    BY <2>1, <1>2
  <2>3. OnItsWay(k) => OnItsWay(k)'
    <3>1. CASE \E i \in DOMAIN rows : rows[i].key = k
      BY <2>1, <3>1 DEF OnItsWay
    <3>2. CASE ~ended /\ Resumed(k) /\ (mark # NoKey => Before(mark, k))
      <4>1. mark # NoKey /\ NotAfter(row[1].key, mark) /\ mark \in Keys
            /\ row[1].key \in Keys
        BY <2>1, <1>a, <1>b
      <4>2. Before(row[1].key, k)
        BY <3>2, <4>1, <1>b, BeforeTransitive DEF NotAfter
      <4>3. Resumed(k)'
        BY <2>1, <4>2 DEF Resumed, Before
      <4>4. ~ended' /\ (mark # NoKey => Before(mark, k))'
        BY <2>1, <3>2 DEF Before
      <4> QED  BY <4>3, <4>4 DEF OnItsWay
    <3> QED  BY <2>1, <3>1, <3>2 DEF OnItsWay
  <2> QED  BY <2>1, <2>2, <2>3 DEF RowSynced
<1>10. CASE NextFails \/ Crash
  <2>1. /\ phase' = "ready" /\ mark' = NoKey /\ ~ended' /\ rows' = <<>> /\ row' = <<>>
        /\ UNCHANGED <<metaVars, lastPK, replica>> /\ ~Prepare
    BY <1>10, <1>b DEF NextFails, Crash, Prepare
  <2>2. RowSynced(k) /\ Here(k)' = Here(k)
    BY <2>1, <1>2
  <2>3. OnItsWay(k) => Resumed(k)
    BY <1>a, <1>b DEF OnItsWay
  <2>4. Resumed(k) => OnItsWay(k)'
    BY <2>1 DEF OnItsWay, Resumed, Before
  <2> QED  BY <2>1, <2>2, <2>3, <2>4 DEF RowSynced
<1>11. CASE OpenChanges \/ CatchUp
  BY <1>11 DEF OpenChanges, CatchUp
<1> QED
  BY <1>1, <1>3, <1>4, <1>5, <1>6, <1>7, <1>8, <1>9, <1>10, <1>11
  DEF Next, SyncStep

\* A row that has changed after the stream's position, and of which the stream
\* does not tell, is one that it could not tell of.
LEMMA NotTold ==
  ASSUME TypeInv, from <= caught, NEW k \in Keys, ~Untouched(k, caught), ~Told(k)
  PROVE  Untold(k)
<1> DEFINE r == <<table, k>>
           W == Writes(r, Len(log))
           m == Max(W)
<1>1. /\ Len(log) \in Nat /\ DOMAIN log = 1 .. Len(log) /\ from \in Nat /\ caught \in Nat
      /\ purged \in Nat /\ Now = Len(log)
  BY TypeFacts DEF Now
<1>2. PICK i \in caught + 1 .. Len(log) : log[i].row = r
  BY DEF Untouched
<1>3. i \in W /\ W \in SUBSET Nat /\ \A n \in W : n <= Len(log)
  BY <1>1, <1>2 DEF Writes
<1>4. /\ m \in W /\ \A n \in W : n <= m
  <2> HIDE DEF W
  <2> QED  BY <1>1, <1>3, MaxOfBounded
<1>5. /\ m \in 1 .. Len(log) /\ log[m].row = r
  BY <1>4 DEF Writes
<1>6. i <= m
  BY <1>3, <1>4
<1>7. m \in (from + 1) .. Len(log) /\ m \in (caught + 1) .. Len(log) /\ m \in Nat
  <2> HIDE DEF m
  <2> QED  BY <1>1, <1>2, <1>5, <1>6
<1>8. Here(k) = IF log[m].op = "delete" THEN 0 ELSE m
  BY <1>1, <1>3 DEF Here, Content
<1>9. r[1] = table /\ r[2] = k
  OBVIOUS
<1>10. m = Max(Writes(log[m].row, Len(log)))
  BY <1>5
<1> HIDE DEF m, r
<1>11. m > purged => m \in Records(table)
  BY <1>1, <1>5, <1>9 DEF Records
<1>12. m > purged => m \in Fetched
  <2>1. CASE mechanism = "cdc"
    BY <1>1, <1>7, <1>11, <2>1 DEF Fetched, CDCRecords
  <2>2. CASE mechanism # "cdc"
    BY <1>1, <1>7, <1>10, <1>11, <2>2 DEF Fetched, ChangeTable
  <2> QED  BY <2>1, <2>2
<1>13. m > purged => mechanism = "ct" /\ Here(k) = 0
  BY <1>5, <1>9, <1>12 DEF Told
<1>14. m <= purged \/ (mechanism = "ct" /\ log[m].op = "delete")
  BY <1>1, <1>7, <1>8, <1>13
<1>15. m = Max(Writes(<<table, k>>, Len(log)))
  BY DEF m, r
<1> QED  BY <1>1, <1>7, <1>14, <1>15 DEF Untold

LEMMA NextStream ==
  ASSUME CursorFirst, TypeInv, SyncInv, StreamInv, [Next]_vars
  PROVE  StreamInv'
<1> USE DEF metaVars, scanVars, dbVars
<1>a. /\ caught \in Nat /\ caught <= Len(log) /\ replica \in [Keys -> Versions]
      /\ from \in Nat /\ from <= Len(log)
      /\ (row # <<>> <=> phase \in {"row", "kept"})
      /\ (phase = "synced" => ended /\ rows = <<>>)
  BY TypeFacts, PartsOfType
<1> SUFFICES ASSUME phase' = "stream"
             PROVE  /\ from' <= caught'
                    /\ \A k \in Keys : Untouched(k, caught)' =>
                         replica'[k] = Here(k)' \/ Untold(k)'
  BY DEF StreamInv
<1>b. ASSUME NEW k \in Keys, NEW v \in Nat, v <= Len(log),
             \A i \in v + 1 .. Len(log') : log'[i].row # <<table, k>>
      PROVE  /\ Untouched(k, v) /\ Here(k)' = Here(k)
             /\ from' = from /\ Untold(k) => Untold(k)'
  <2>1. Untouched(k, v)'
    BY <1>b DEF Untouched
  <2> QED  BY <1>b, <2>1, HereStays
<1>c. \A k : Untouched(k, caught)' =>
        \A i \in caught' + 1 .. Len(log') : log'[i].row # <<table, k>>
  BY DEF Untouched
<1>1. CASE OpenChanges
  <2>1. /\ phase = "synced" /\ from' = from /\ caught' = from /\ replica' = replica
    BY <1>1 DEF OpenChanges
  <2>2. ASSUME NEW k \in Keys, Untouched(k, caught)'
        PROVE  replica'[k] = Here(k)'
    <3>1. Untouched(k, from) /\ Here(k)' = Here(k)
      BY <1>a, <1>b, <1>c, <2>1, <2>2
    <3>2. ~OnItsWay(k)
      BY <2>1, <1>a DEF OnItsWay
    <3> QED  BY <2>1, <3>1, <3>2 DEF SyncInv
  <2> QED  BY <1>a, <2>1, <2>2
<1>2. CASE CatchUp
  <2>1. /\ phase = "stream" /\ log' = log /\ purged' = purged /\ from' = from
        /\ mechanism' = mechanism /\ caught' = Len(log)
        /\ replica' = [j \in Keys |-> IF Told(j) THEN Here(j) ELSE replica[j]]
    BY <1>2 DEF CatchUp, Now
  <2>2. \A k : Here(k)' = Here(k) /\ (Untold(k) => Untold(k)')
    BY <2>1 DEF Untold, Here, Now, Content, Writes
  <2>3. ASSUME NEW k \in Keys PROVE replica'[k] = Here(k) \/ Untold(k)
    <3>1. CASE Told(k)
      BY <2>1, <3>1
    <3>2. CASE ~Told(k) /\ Untouched(k, caught)
      BY <2>1, <3>2 DEF StreamInv
    <3>3. CASE ~Told(k) /\ ~Untouched(k, caught)
      BY <2>1, <3>3, NotTold DEF StreamInv
    <3> QED  BY <3>1, <3>2, <3>3
  <2> QED  BY <1>a, <2>1, <2>2, <2>3
<1>3. CASE phase = "stream" /\ from' = from /\ caught' = caught /\ replica' = replica
  <2>1. ASSUME NEW k \in Keys, Untouched(k, caught)'
        PROVE  replica'[k] = Here(k)' \/ Untold(k)'
    <3>1. /\ Untouched(k, caught) /\ Here(k)' = Here(k)
          /\ Untold(k) => Untold(k)'
      BY <1>3, <1>a, <1>b, <1>c, <2>1
    <3> QED  BY <1>3, <3>1 DEF StreamInv
  <2> QED  BY <1>3, <2>1 DEF StreamInv
<1>4. DBStep \/ Terminated \/ UNCHANGED vars
      => phase' = phase /\ from' = from /\ caught' = caught /\ replica' = replica
  BY DEF DBStep, Terminated, vars
<1>5. Prepare \/ OpenScan \/ ServerReads \/ NextRow \/ NextEOF \/ KeepRow \/ PersistPK
      \/ NextFails \/ Crash => phase' # "stream"
  BY DEF Prepare, OpenScan, ServerReads, NextRow, NextEOF, KeepRow, PersistPK, NextFails,
         Crash
<1> QED
  BY <1>1, <1>2, <1>3, <1>4, <1>5 DEF Next, SyncStep

\* If the consumer takes its change cursor before it reads the table, it has the
\* table once the stream has caught up: no row that changed behind the scan,
\* ahead of it, or while it was interrupted is missing or out of date, and none
\* that was deleted remains, but for the rows whose last change the stream cannot
\* tell, cleaned up or deleted under Change Tracking (initialsync.go and
\* changes.go together, with the statements as they are meant).
THEOREM SyncIsComplete ==
  ASSUME CursorFirst
  PROVE  Spec => []SyncedMirrors
<1>1. Init => IInv
  BY InitType, InitScan, InitSync DEF IInv
<1>2. IInv /\ [Next]_vars => IInv'
  BY NextType, NextScan, NextSync, NextStream DEF IInv
<1>3. IInv => SyncedMirrors
  <2> SUFFICES ASSUME IInv, phase = "stream", caught = Now, NEW k \in Keys
               PROVE  replica[k] = Here(k) \/ Untold(k)
    BY DEF SyncedMirrors
  <2>1. TypeInv /\ StreamInv
    BY DEF IInv
  <2>2. Len(log) \in Nat /\ caught = Len(log)
    BY <2>1, TypeFacts DEF Now
  <2>3. \A n \in Nat : n + 1 .. n = {}
    OBVIOUS
  <2>4. Untouched(k, caught)
    BY <2>2, <2>3 DEF Untouched
  <2> QED  BY <2>1, <2>4 DEF StreamInv
<1> QED
  BY <1>1, <1>2, <1>3, PTL DEF Spec

=============================================================================

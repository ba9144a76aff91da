------------------------- MODULE ChangeStreamProofs -------------------------
(***************************************************************************)
(* Proofs about ChangeStream: the types, that a position is persisted only *)
(* when everything before it has been processed, that the rows at the      *)
(* consumer are those of the source when nothing is pending, and that the  *)
(* stream implements Feed.                                                 *)
(***************************************************************************)
EXTENDS ChangeStream, NatSets

-----------------------------------------------------------------------------
(* The log.                                                                *)

\* The versions that changed a row, and the last of them.
LEMMA WritesMax ==
  ASSUME NEW r, NEW v \in Nat, Writes(r, v) # {}
  PROVE  /\ Max(Writes(r, v)) \in Writes(r, v)
         /\ Max(Writes(r, v)) \in 1 .. v
         /\ \A i \in Writes(r, v) : i <= Max(Writes(r, v))
<1> DEFINE W == Writes(r, v)
<1>1. W \in SUBSET (1 .. v)
  BY DEF Writes
<1> HIDE DEF W
<1>2. W \in SUBSET Nat /\ \A n \in W : n <= v
  BY <1>1
<1>3. W # {}
  BY DEF W
<1>4. Max(W) \in W /\ \A n \in W : n <= Max(W)
  BY <1>2, <1>3, MaxOfBounded
<1> QED  BY <1>1, <1>4 DEF W

\* The row as its last change has left it.
LEMMA ContentIs ==
  ASSUME NEW r, NEW v \in Nat, NEW m \in Writes(r, v), \A i \in Writes(r, v) : i <= m
  PROVE  /\ Max(Writes(r, v)) = m
         /\ Content(r, v) = IF log[m].op = "delete" THEN 0 ELSE m
<1>1. Writes(r, v) \in SUBSET Nat
  BY DEF Writes
<1>2. Max(Writes(r, v)) = m
  BY <1>1, MaxIs
<1> QED  BY <1>2 DEF Content

LEMMA ContentType ==
  ASSUME NEW r, NEW v \in Nat
  PROVE  Content(r, v) \in 0 .. v
BY WritesMax DEF Content

\* What a log that only grows says of the past does not change.
LEMMA PastStays ==
  ASSUME log \in Seq(CommitRecord), NEW x, log' = Append(log, x),
         NEW r, NEW v \in 0 .. Len(log)
  PROVE  /\ Writes(r, v)' = Writes(r, v)
         /\ Content(r, v)' = Content(r, v)
<1>1. \A i \in 1 .. v : log'[i] = log[i]
  OBVIOUS
<1>2. Writes(r, v)' = Writes(r, v)
  BY <1>1 DEF Writes
<1>3. Writes(r, v) # {} => Max(Writes(r, v)) \in 1 .. v
  BY WritesMax
<1>4. Content(r, v)' = Content(r, v)
  BY <1>1, <1>2, <1>3 DEF Content
<1> QED  BY <1>2, <1>4

\* A row that no commit changes in between is the same.
LEMMA ContentStays ==
  ASSUME NEW r, NEW v \in Nat, NEW u \in Nat, v <= u,
         \A i \in v + 1 .. u : log[i].row # r
  PROVE  Writes(r, u) = Writes(r, v) /\ Content(r, u) = Content(r, v)
<1>1. Writes(r, u) = Writes(r, v)
  BY DEF Writes
<1> QED  BY <1>1 DEF Content

-----------------------------------------------------------------------------
(* The queries.                                                            *)

\* A sequence of numbers, each of them once, oldest first.
Rising(s) == \A i, j \in DOMAIN s : i < j => s[i] < s[j]

\* InOrder enumerates its set.
LEMMA InOrderFacts ==
  ASSUME log \in Seq(CommitRecord), NEW S \in SUBSET (1 .. Len(log))
  PROVE  /\ InOrder(S) \in Seq(S)
         /\ Rising(InOrder(S))
         /\ \A v \in S : \E i \in DOMAIN InOrder(S) : InOrder(S)[i] = v
<1> DEFINE L == Len(log)
           Pick(f, m) == f = [v \in 0 .. m |->
             IF v = 0 THEN <<>> ELSE IF v \in S THEN Append(f[v - 1], v) ELSE f[v - 1]]
           Good(s, m) == /\ s \in Seq(S) /\ Rising(s)
                         /\ \A i \in DOMAIN s : s[i] <= m
                         /\ \A v \in S : v <= m => \E i \in DOMAIN s : s[i] = v
           T == {m \in Nat : \E f : Pick(f, m) /\ Good(f[m], m)}
<1>0. L \in Nat /\ \A v \in S : v \in Nat
  OBVIOUS
<1> HIDE DEF L
<1>1. 0 \in T
  <2> DEFINE f == [v \in 0 .. 0 |-> <<>>]
  <2>1. Pick(f, 0)
    OBVIOUS
  <2>2. Good(f[0], 0)
    BY DEF Rising
  <2> HIDE DEF f, Pick, Good
  <2> QED  BY <2>1, <2>2
<1>2. ASSUME NEW m \in Nat, m \in T PROVE m + 1 \in T
  <2>1. PICK f : Pick(f, m) /\ Good(f[m], m)
    <3> HIDE DEF Pick, Good
    <3> QED  BY <1>2
  <2> DEFINE s == f[m]
             t == IF m + 1 \in S THEN Append(s, m + 1) ELSE s
             g == [v \in 0 .. m + 1 |-> IF v = m + 1 THEN t ELSE f[v]]
  <2>2. \A v \in 0 .. m : f[v] =
          IF v = 0 THEN <<>> ELSE IF v \in S THEN Append(f[v - 1], v) ELSE f[v - 1]
    BY <2>1
  <2>3. Pick(g, m + 1)
    <3>1. ASSUME NEW v \in 0 .. m + 1
          PROVE  g[v] = IF v = 0 THEN <<>>
                        ELSE IF v \in S THEN Append(g[v - 1], v) ELSE g[v - 1]
      <4>1. CASE v = m + 1
        BY <4>1
      <4>2. CASE v \in 0 .. m
        BY <4>2, <2>2
      <4> QED  BY <4>1, <4>2
    <3> QED  BY <3>1
  <2>4. Good(t, m + 1)
    <3>1. /\ s \in Seq(S) /\ Rising(s) /\ Len(s) \in Nat /\ DOMAIN s = 1 .. Len(s)
          /\ \A i \in DOMAIN s : s[i] <= m /\ s[i] \in Nat
          /\ \A v \in S : v <= m => \E i \in DOMAIN s : s[i] = v
      <4>1. Good(s, m)
        BY <2>1
      <4> HIDE DEF s
      <4>2. s \in Seq(S)
        BY <4>1
      <4>3. Len(s) \in Nat /\ DOMAIN s = 1 .. Len(s) /\ \A i \in DOMAIN s : s[i] \in S
        BY <4>2
      <4>4. \A i \in DOMAIN s : s[i] \in Nat
        BY <1>0, <4>3
      <4>5. /\ Rising(s) /\ \A i \in DOMAIN s : s[i] <= m
            /\ \A v \in S : v <= m => \E i \in DOMAIN s : s[i] = v
        BY <4>1
      <4> QED  BY <4>2, <4>3, <4>4, <4>5
    <3> HIDE DEF s
    <3>2. CASE m + 1 \notin S
      <4>1. t = s
        BY <3>2
      <4>2. \A v \in S : v <= m + 1 => v <= m
        BY <3>2
      <4>3. \A i \in DOMAIN s : s[i] <= m + 1
        BY <3>1
      <4> HIDE DEF t
      <4> QED  BY <3>1, <4>1, <4>2, <4>3
    <3>3. CASE m + 1 \in S
      <4>1. /\ t \in Seq(S) /\ DOMAIN t = 1 .. Len(s) + 1 /\ t[Len(s) + 1] = m + 1
            /\ \A i \in 1 .. Len(s) : t[i] = s[i]
        BY <3>1, <3>3
      <4> HIDE DEF t
      <4>2. Rising(t)
        BY <3>1, <4>1 DEF Rising
      <4>3. \A i \in DOMAIN t : t[i] <= m + 1
        BY <3>1, <4>1
      <4>4. \A v \in S : v <= m + 1 => \E i \in DOMAIN t : t[i] = v
        <5> SUFFICES ASSUME NEW v \in S, v <= m + 1
                     PROVE  \E i \in DOMAIN t : t[i] = v
          OBVIOUS
        <5>1. CASE v = m + 1
          BY <3>1, <4>1, <5>1
        <5>2. CASE v <= m
          <6>1. PICK i \in 1 .. Len(s) : s[i] = v
            BY <3>1, <5>2
          <6>2. t[i] = v /\ i \in DOMAIN t
            BY <3>1, <4>1, <6>1
          <6> QED  BY <6>2
        <5> QED  BY <5>1, <5>2
      <4> QED  BY <4>1, <4>2, <4>3, <4>4
    <3> QED  BY <3>2, <3>3
  <2>5. g[m + 1] = t
    OBVIOUS
  <2> HIDE DEF g, t, Pick, Good
  <2> QED  BY <2>3, <2>4, <2>5
<1>3. L \in T
  <2> HIDE DEF T
  <2> QED  BY <1>0, <1>1, <1>2, SetInduction
<1>4. PICK f : Pick(f, L) /\ Good(f[L], L)
  <2> HIDE DEF Pick, Good
  <2> QED  BY <1>3
<1> DEFINE F == CHOOSE h : Pick(h, L)
<1>5. F = f
  <2>1. Pick(F, L)
    <3> HIDE DEF Pick
    <3> QED  BY <1>4
  <2> DEFINE E == {m \in Nat : m <= L => F[m] = f[m]}
  <2>2. /\ \A v \in 0 .. L : F[v] =
             IF v = 0 THEN <<>> ELSE IF v \in S THEN Append(F[v - 1], v) ELSE F[v - 1]
        /\ \A v \in 0 .. L : f[v] =
             IF v = 0 THEN <<>> ELSE IF v \in S THEN Append(f[v - 1], v) ELSE f[v - 1]
    BY <1>4, <2>1
  <2> HIDE DEF F
  <2>3. 0 \in E
    BY <2>2, <1>0
  <2>4. ASSUME NEW m \in Nat, m \in E PROVE m + 1 \in E
    BY <2>2, <2>4, <1>0
  <2>5. \A m \in Nat : m \in E
    <3> HIDE DEF E
    <3> QED  BY <2>3, <2>4, SetInduction
  <2>6. \A v \in 0 .. L : F[v] = f[v]
    BY <2>5
  <2>7. F = [v \in 0 .. L |-> F[v]] /\ f = [v \in 0 .. L |-> f[v]]
    BY <1>4, <2>1
  <2> QED  BY <2>6, <2>7
<1>6. InOrder(S) = f[L]
  BY <1>5 DEF InOrder, L
<1> QED  BY <1>0, <1>4, <1>6 DEF L

-----------------------------------------------------------------------------
(* What a query returns.                                                   *)

\* Positions lie within the log.
TypeInv ==
  /\ TypeOK
  /\ saved # NoCursor => saved \in 0 .. Len(log)
  /\ start # NoCursor => start \in 0 .. Len(log)
  /\ known \in 0 .. Len(log)

LEMMA LogFacts ==
  ASSUME TypeInv
  PROVE  /\ log \in Seq(CommitRecord) /\ Len(log) \in Nat /\ DOMAIN log = 1 .. Len(log)
         /\ Len(log) <= MaxCommits /\ MaxCommits \in Nat
         /\ purged \in Nat /\ cursor \in Nat /\ upto \in Nat /\ known \in Nat
         /\ cursor <= Len(log) /\ upto <= Len(log) /\ known <= Len(log)
         /\ \A i \in DOMAIN log : log[i].row \in Rows /\ log[i].op \in OpNames
<1>1. /\ log \in Seq(CommitRecord) /\ Len(log) <= MaxCommits /\ MaxCommits \in Nat
      /\ purged \in 0 .. Len(log) /\ cursor \in 0 .. Len(log) /\ upto \in 0 .. Len(log)
      /\ known \in 0 .. Len(log)
  BY SourceDBAssumption DEF TypeInv, TypeOK, DBTypeOK
<1>2. DOMAIN log = 1 .. Len(log) /\ Len(log) \in Nat
      /\ \A i \in DOMAIN log : log[i] \in CommitRecord
  BY <1>1
<1> QED  BY <1>1, <1>2 DEF CommitRecord

\* The change records a query may return.
LEMMA RecordsFacts ==
  ASSUME TypeInv, NEW t
  PROVE  /\ Records(t) \in SUBSET (1 .. Len(log))
         /\ \A i \in Records(t) : i > purged /\ log[i].row[1] = t
BY LogFacts DEF Records

\* CDC: every change in the window, in order, with the row as it was then, or
\* nothing with the window of the statement as it is written.
LEMMA CDCQuery ==
  ASSUME TypeInv, NEW t, NEW q, q = FetchCDCForTable(t)
  PROVE  /\ q \in Seq(Change)
         /\ \A j \in DOMAIN q :
              /\ q[j].version \in Records(t)
              /\ cursor < q[j].version /\ q[j].version <= upto
              /\ q[j] = ScanCDCRow(q[j].version)
         /\ \A j, k \in DOMAIN q : j < k => q[j].version < q[k].version
         /\ statements = "meant" =>
              \A i \in Records(t) :
                cursor < i /\ i <= upto => \E j \in DOMAIN q : q[j].version = i
         /\ statements = "written" => q = <<>>
<1> DEFINE S == {i \in CDCRecords(t, WindowStart, upto) : i > cursor}
           s == InOrder(S)
<1>0. cursor \in Nat /\ upto \in Nat /\ upto <= Len(log) /\ Len(log) \in Nat
      /\ \A i \in Records(t) : i \in Nat
  BY LogFacts, RecordsFacts
<1>1. S \in SUBSET (1 .. Len(log))
  BY RecordsFacts DEF CDCRecords
<1>a. \A i \in S : i \in Records(t) /\ cursor < i /\ i <= upto
  BY <1>0 DEF CDCRecords
<1>b. statements = "meant" => \A i \in Records(t) : cursor < i /\ i <= upto => i \in S
  BY <1>0 DEF CDCRecords, WindowStart
<1>c. statements = "written" => S = {}
  BY <1>0 DEF CDCRecords, WindowStart, NowAsLSN
<1>2. /\ s \in Seq(S) /\ Rising(s)
      /\ \A v \in S : \E i \in DOMAIN s : s[i] = v
  <2> HIDE DEF S
  <2> QED  BY <1>1, LogFacts, InOrderFacts
<1>3. q = [n \in DOMAIN s |-> ScanCDCRow(s[n])]
  BY DEF FetchCDCForTable
<1> HIDE DEF s, S
<1>4. Len(s) \in Nat /\ DOMAIN s = 1 .. Len(s) /\ \A n \in DOMAIN s : s[n] \in S
  BY <1>2
<1>5. ASSUME NEW i \in S
      PROVE  /\ ScanCDCRow(i) \in Change /\ ScanCDCRow(i).version = i
             /\ i \in Records(t) /\ cursor < i /\ i <= upto
  <2>1. i \in Records(t) /\ cursor < i /\ i <= upto
    BY <1>a
  <2>2. i \in DOMAIN log /\ i \in Versions /\ 0 \in Versions
    BY <2>1, RecordsFacts, LogFacts DEF Versions
  <2>3. log[i].row \in Rows /\ log[i].op \in OpNames
    BY <2>2, LogFacts
  <2> QED  BY <2>1, <2>2, <2>3 DEF ScanCDCRow, Change
<1>6. /\ DOMAIN q = 1 .. Len(s) /\ q \in Seq(Change)
      /\ \A n \in DOMAIN q : q[n] = ScanCDCRow(s[n]) /\ q[n].version = s[n] /\ s[n] \in S
  <2>1. \A n \in DOMAIN s : q[n] = ScanCDCRow(s[n]) /\ q[n] \in Change /\ q[n].version = s[n]
    BY <1>3, <1>4, <1>5
  <2>2. q = [n \in 1 .. Len(s) |-> q[n]]
    BY <1>3, <1>4
  <2>3. q \in [1 .. Len(s) -> Change]
    BY <1>4, <2>1, <2>2
  <2> QED  BY <1>3, <1>4, <2>1, <2>3
<1>7. \A j \in DOMAIN q :
        /\ q[j].version \in Records(t)
        /\ cursor < q[j].version /\ q[j].version <= upto
        /\ q[j] = ScanCDCRow(q[j].version)
  BY <1>5, <1>6
<1>8. \A j, k \in DOMAIN q : j < k => q[j].version < q[k].version
  BY <1>2, <1>4, <1>6 DEF Rising
<1>9. ASSUME statements = "meant", NEW i \in Records(t), cursor < i, i <= upto
      PROVE  \E j \in DOMAIN q : q[j].version = i
  <2>1. i \in S
    BY <1>9, <1>b
  <2>2. PICK j \in DOMAIN s : s[j] = i
    BY <1>2, <2>1
  <2> QED  BY <1>4, <1>6, <2>2
<1>10. statements = "written" => q = <<>>
  BY <1>4, <1>6, <1>c
<1> QED  BY <1>6, <1>7, <1>8, <1>9, <1>10

\* Change Tracking: every row that has changed after the cursor, at the version
\* that changed it last, as it is now.
LEMMA CTQuery ==
  ASSUME TypeInv, NEW t, NEW q, q = FetchCTForTable(t)
  PROVE  /\ q \in Seq(Change)
         /\ \A j \in DOMAIN q :
              /\ q[j].version \in Records(t) /\ cursor < q[j].version
              /\ q[j].version = Max(Writes(q[j].row, Len(log)))
              /\ q[j] = ScanCTRow(q[j].version)
         /\ \A i \in Records(t) :
              cursor < i /\ i = Max(Writes(log[i].row, Len(log)))
                => \E j \in DOMAIN q : q[j].version = i
<1> DEFINE S == {i \in Records(t) :
                   cursor < i /\ i = Max(Writes(log[i].row, Len(log)))}
           s == InOrder(S)
<1>1. S \in SUBSET (1 .. Len(log)) /\ S = ChangeTable(t, cursor)
  BY RecordsFacts DEF ChangeTable
<1> HIDE DEF S
<1>2. /\ s \in Seq(S) /\ \A v \in S : \E i \in DOMAIN s : s[i] = v
  BY <1>1, LogFacts, InOrderFacts
<1>3. q = [n \in DOMAIN s |-> ScanCTRow(s[n])]
  BY <1>1 DEF FetchCTForTable
<1> HIDE DEF s
<1>4. Len(s) \in Nat /\ DOMAIN s = 1 .. Len(s) /\ \A n \in DOMAIN s : s[n] \in S
  BY <1>2
<1>5. ASSUME NEW i \in S
      PROVE  /\ ScanCTRow(i) \in Change /\ ScanCTRow(i).version = i
             /\ ScanCTRow(i).row = log[i].row
             /\ i \in Records(t) /\ cursor < i /\ i = Max(Writes(log[i].row, Len(log)))
  <2>1. i \in Records(t) /\ cursor < i /\ i = Max(Writes(log[i].row, Len(log)))
    BY DEF S
  <2>2. i \in DOMAIN log /\ i \in Versions
    BY <2>1, RecordsFacts, LogFacts DEF Versions
  <2>3. log[i].row \in Rows
    BY <2>2, LogFacts
  <2>4. Content(log[i].row, Len(log)) \in Versions
    BY ContentType, LogFacts DEF Versions
  <2> QED  BY <2>1, <2>2, <2>3, <2>4 DEF ScanCTRow, Change, OpNames
<1>6. /\ DOMAIN q = 1 .. Len(s) /\ q \in Seq(Change)
      /\ \A n \in DOMAIN q : /\ q[n] = ScanCTRow(s[n]) /\ s[n] \in S
                             /\ q[n].version = s[n] /\ q[n].row = log[s[n]].row
  <2>1. \A n \in DOMAIN s : /\ q[n] = ScanCTRow(s[n]) /\ q[n] \in Change
                            /\ q[n].version = s[n] /\ q[n].row = log[s[n]].row
    BY <1>3, <1>4, <1>5
  <2>2. q = [n \in 1 .. Len(s) |-> q[n]]
    BY <1>3, <1>4
  <2>3. q \in [1 .. Len(s) -> Change]
    BY <1>4, <2>1, <2>2
  <2> QED  BY <1>3, <1>4, <2>1, <2>3
<1>7. \A j \in DOMAIN q :
        /\ q[j].version \in Records(t) /\ cursor < q[j].version
        /\ q[j].version = Max(Writes(q[j].row, Len(log)))
        /\ q[j] = ScanCTRow(q[j].version)
  BY <1>5, <1>6
<1>8. ASSUME NEW i \in Records(t), cursor < i, i = Max(Writes(log[i].row, Len(log)))
      PROVE  \E j \in DOMAIN q : q[j].version = i
  <2>1. i \in S
    BY <1>8 DEF S
  <2>2. PICK j \in DOMAIN s : s[j] = i
    BY <1>2, <2>1
  <2> QED  BY <1>4, <1>6, <2>2
<1> QED  BY <1>6, <1>7, <1>8

\* Under either mechanism a query returns changes of its own table, of versions
\* after the cursor that have not been cleaned up.
LEMMA QueryFacts ==
  ASSUME TypeInv, NEW t, NEW q, q = FetchForTable(t)
  PROVE  /\ q \in Seq(Change) /\ Len(q) \in Nat /\ DOMAIN q = 1 .. Len(q)
         /\ \A j \in DOMAIN q :
              /\ q[j].version \in DOMAIN log /\ q[j].version \in Nat
              /\ q[j].version > cursor /\ q[j].version > purged
              /\ q[j].row = log[q[j].version].row /\ q[j].row[1] = t
<1>1. q \in Seq(Change)
  BY CDCQuery, CTQuery DEF FetchForTable
<1>2. \A j \in DOMAIN q : /\ q[j].version \in Records(t) /\ cursor < q[j].version
                          /\ q[j].row = log[q[j].version].row
  <2>1. \A j \in DOMAIN q : q[j].version \in Records(t) /\ cursor < q[j].version
    BY CDCQuery, CTQuery DEF FetchForTable
  <2>2. \A j \in DOMAIN q : q[j] \in {ScanCDCRow(q[j].version), ScanCTRow(q[j].version)}
    BY CDCQuery, CTQuery DEF FetchForTable
  <2>3. \A i : ScanCDCRow(i).row = log[i].row /\ ScanCTRow(i).row = log[i].row
    BY DEF ScanCDCRow, ScanCTRow
  <2> QED  BY <2>1, <2>2, <2>3
<1>3. Len(q) \in Nat /\ DOMAIN q = 1 .. Len(q)
  BY <1>1
<1>4. \A i \in Records(t) : i \in 1 .. Len(log) /\ i > purged /\ log[i].row[1] = t
  BY RecordsFacts
<1> QED  BY <1>1, <1>2, <1>3, <1>4, LogFacts

-----------------------------------------------------------------------------
(* The inductive invariant, for a consumer that persists positions late,   *)
(* and a source no position of which is read as none.                      *)

\* The changes the consumer has still to process: the one it has been handed,
\* and the pending ones.
Queue == IF pc = "got" THEN out \o pending ELSE pending

\* The tables that the fetch has still to query.
Waiting == {todo[i] : i \in DOMAIN todo}

\* The stream is somewhere at or after the persisted position; once everything
\* is processed and persisted, the consumer knows where.
PosInv ==
  /\ start = NoCursor <=> saved = NoCursor
  /\ pc # "closed" => saved # NoCursor
  /\ start # NoCursor => \A r \in SubscribedRows : start <= at[r]
  /\ pc # "closed" => saved <= known /\ known <= cursor
  /\ pc \notin {"closed", "handled"} /\ Queue = <<>> => known = cursor
  /\ pc = "fetch" => cursor <= upto
  /\ IF pc \in {"got", "handled"} THEN Len(out) = 1 ELSE out = <<>>
  /\ pc \in {"closed", "fetch", "poll"} => pending = <<>>
  /\ pc # "fetch" => all = <<>>

\* A change of a row at the version that it says.
Real(ch) ==
  /\ ch.row \in SubscribedRows
  /\ ch.version \in DOMAIN log
  /\ log[ch.version].row = ch.row

\* The statements as they are written return nothing.
RealInv ==
  /\ \A i \in DOMAIN Queue : Real(Queue[i])
  /\ \A i \in DOMAIN all : Real(all[i])
  /\ Waiting \subseteq Subscribed
  /\ statements = "written" => all = <<>>

\* Version i is of no concern to the consumer: its record is gone, or its
\* table is not subscribed to.
Exempt(i) == i <= purged \/ log[i].row \notin SubscribedRows

\* Among the changes s there is i, or a later change of its row.
Tells(s, i) == \E j \in DOMAIN s : s[j].row = log[i].row /\ s[j].version >= i

Reached(i) == Exempt(i) \/ at[log[i].row] >= i

\* Everything up to the position that is persisted next has been processed;
\* what has not been, up to the cursor, is in the queue; what a fetch has seen
\* of the versions after the cursor, it has collected.
CoverInv ==
  /\ pc = "closed" /\ saved # NoCursor => \A i \in start + 1 .. saved : Reached(i)
  /\ pc # "closed" =>
       /\ \A i \in start + 1 .. NextSaved : Reached(i)
       /\ \A i \in start + 1 .. cursor : Reached(i) \/ Tells(Queue, i)
  /\ pc = "fetch" /\ statements = "meant" =>
       \A i \in cursor + 1 .. upto :
         Exempt(i) \/ log[i].row[1] \in Waiting \/ Tells(all, i)

-----------------------------------------------------------------------------
(* Order: with CDC a change comes after the earlier ones of its row.       *)

\* Some change of the same row before position p has reached version i.
ToldBefore(s, p, i) ==
  \E q \in 1 .. p - 1 : s[q].row = s[p].row /\ s[q].version >= i

Earlier(ch, from) ==
  {i \in from + 1 .. ch.version - 1 : i > purged /\ log[i].row = ch.row}

OrderInv ==
  mechanism = "cdc" =>
    /\ \A p \in DOMAIN Queue : \A i \in Earlier(Queue[p], 0) :
         at[Queue[p].row] >= i \/ ToldBefore(Queue, p, i)
    /\ pc = "fetch" =>
         \A p \in DOMAIN all : \A i \in Earlier(all[p], cursor) :
           ToldBefore(all, p, i)

-----------------------------------------------------------------------------
(* The rows at the consumer.                                               *)

\* Content c is row r at version p or later, or cannot be told from it.
Fresh(r, c, p) == \E v \in p .. Len(log) : c = Content(r, v) \/ Untold(r, v)

\* Once ch has been processed, its row is as it is at version p or later.
Leaves(ch, p) ==
  IF ch.pk = "nulls" THEN \E v \in p .. Len(log) : Untold(ch.row, v)
  ELSE Fresh(ch.row, ch.content, p)

Absent(s, r) == \A i \in DOMAIN s : s[i].row # r

LastOf(s, i) == \A j \in DOMAIN s : j > i => s[j].row # s[i].row

SavedFresh ==
  saved # NoCursor => \A r \in SubscribedRows :
    Fresh(r, replica[r], IF pc = "closed" THEN saved ELSE NextSaved)

QueueFresh ==
  pc # "closed" =>
    /\ \A r \in SubscribedRows : Absent(Queue, r) => Fresh(r, replica[r], cursor)
    /\ \A i \in DOMAIN Queue : /\ Leaves(Queue[i], NextSaved)
                               /\ LastOf(Queue, i) => Leaves(Queue[i], cursor)

FetchFresh ==
  pc = "fetch" /\ statements = "meant" =>
    /\ \A r \in SubscribedRows :
         r[1] \notin Waiting /\ Absent(all, r) => Fresh(r, replica[r], upto)
    /\ \A i \in DOMAIN all : /\ Leaves(all[i], cursor)
                             /\ LastOf(all, i) => Leaves(all[i], upto)

FreshInv == SavedFresh /\ QueueFresh /\ FetchFresh

-----------------------------------------------------------------------------
(* Types.                                                                  *)

LEMMA HeadTail ==
  ASSUME NEW S, NEW s \in Seq(S), s # <<>>
  PROVE  /\ Head(s) \in S /\ Head(s) = s[1]
         /\ Tail(s) \in Seq(S) /\ Len(s) \in Nat /\ Len(s) > 0
         /\ Len(Tail(s)) = Len(s) - 1
         /\ DOMAIN s = 1 .. Len(s) /\ DOMAIN Tail(s) = 1 .. Len(s) - 1
         /\ \A i \in 1 .. Len(s) - 1 : Tail(s)[i] = s[i + 1]
OBVIOUS

LEMMA SubscribedFacts ==
  /\ Subscribed \subseteq Tables /\ SubscribedRows \subseteq Rows
  /\ \A r \in SubscribedRows : r[1] \in Subscribed
  /\ \A r \in Rows : r[1] \in Subscribed => r \in SubscribedRows
<1>1. Subscribed \subseteq Tables
  BY StreamAssumption DEF Subscribed
<1> QED  BY <1>1 DEF SubscribedRows, Rows

LEMMA InitType == Init => TypeInv
<1> SUFFICES ASSUME Init PROVE TypeInv
  OBVIOUS
<1>1. log = <<>> /\ Len(log) = 0 /\ purged = 0
  BY DEF Init, DBInit
<1>2. DBTypeOK
  BY <1>1, SourceDBAssumption DEF DBTypeOK
<1>3. 0 \in Versions
  BY SourceDBAssumption DEF Versions
<1> QED
  BY <1>1, <1>2, <1>3, StreamAssumption DEF Init, TypeInv, TypeOK, Positions

\* What the next state has to be.
LEMMA TypeParts ==
  ASSUME DBTypeOK', mechanism' \in Mechanisms, statements' \in Statements,
         pc' \in {"closed", "idle", "next", "fetch", "poll", "got", "handled"},
         cursor' \in 0 .. Len(log'), upto' \in 0 .. Len(log'),
         pending' \in Seq(Change), all' \in Seq(Change), out' \in Seq(Change),
         pc' = "got" => out' # <<>>, todo' \in Seq(Tables),
         saved' = NoCursor \/ saved' \in 0 .. Len(log'),
         start' = NoCursor \/ start' \in 0 .. Len(log'), known' \in 0 .. Len(log'),
         replica' \in [SubscribedRows -> Versions],
         at' \in [SubscribedRows -> Versions],
         faults' \in 0 .. MaxFaults, crashes' \in 0 .. MaxCrashes
  PROVE  TypeInv'
<1>1. Len(log') \in Nat /\ Len(log') <= MaxCommits /\ MaxCommits \in Nat
  BY SourceDBAssumption DEF DBTypeOK
<1>2. \A p \in 0 .. Len(log') : p \in Versions
  BY <1>1 DEF Versions
<1> QED
  BY <1>2 DEF TypeInv, TypeOK, Positions

\* And back.
LEMMA PartsOfType ==
  ASSUME TypeInv
  PROVE  /\ DBTypeOK /\ mechanism \in Mechanisms /\ statements \in Statements
         /\ pc \in {"closed", "idle", "next", "fetch", "poll", "got", "handled"}
         /\ cursor \in 0 .. Len(log) /\ upto \in 0 .. Len(log)
         /\ pending \in Seq(Change) /\ all \in Seq(Change) /\ out \in Seq(Change)
         /\ pc = "got" => out # <<>>
         /\ todo \in Seq(Tables)
         /\ saved = NoCursor \/ saved \in 0 .. Len(log)
         /\ start = NoCursor \/ start \in 0 .. Len(log)
         /\ known \in 0 .. Len(log)
         /\ replica \in [SubscribedRows -> Versions]
         /\ at \in [SubscribedRows -> Versions]
         /\ faults \in 0 .. MaxFaults /\ crashes \in 0 .. MaxCrashes
BY DEF TypeInv, TypeOK

LEMMA NextType == TypeInv /\ [Next]_vars => TypeInv'
<1> SUFFICES ASSUME TypeInv, [Next]_vars PROVE TypeInv'
  OBVIOUS
<1> USE DEF fetchVars, streamVars, queryVars, startVars, copyVars, budgetVars, dbVars
<1>a. MaxFaults \in Nat /\ MaxCrashes \in Nat /\ TableOrder \in Seq(Tables)
      /\ Len(log) \in Nat /\ <<>> \in Seq(Change) /\ <<>> \in Seq(Tables)
  BY StreamAssumption, LogFacts
<1>b. UNCHANGED dbVars => DBTypeOK'
  BY PartsOfType DEF DBTypeOK
<1>1. ASSUME NEW r \in Rows, NEW op \in Ops, CommitChange(r, op),
             UNCHANGED <<pc, streamVars, saved, known, startVars, copyVars, budgetVars>>
      PROVE  TypeInv'
  <2>1. /\ log' = Append(log, [row |-> r, op |-> op]) /\ purged' = purged
        /\ Len(log) < MaxCommits
    BY <1>1 DEF CommitChange
  <2>2. [row |-> r, op |-> op] \in CommitRecord
    BY SourceDBAssumption DEF CommitRecord
  <2>3. log' \in Seq(CommitRecord) /\ Len(log') = Len(log) + 1
    BY <2>1, <2>2, LogFacts
  <2>4. DBTypeOK'
    BY <2>1, <2>3, PartsOfType, LogFacts DEF DBTypeOK
  <2>5. \A p \in 0 .. Len(log) : p \in 0 .. Len(log')
    BY <2>3, LogFacts
  <2> QED  BY <1>1, <2>4, <2>5, PartsOfType, TypeParts
<1>2. CASE Cleanup /\ UNCHANGED <<pc, streamVars, saved, known, startVars, copyVars,
                                  budgetVars>>
  <2>1. DBTypeOK'
    BY <1>2, PartsOfType, SourceDBAssumption DEF Cleanup, DBTypeOK
  <2>2. log' = log
    BY <1>2 DEF Cleanup
  <2> QED  BY <1>2, <2>1, <2>2, PartsOfType, TypeParts
<1>3. CASE Pop
  <2>1. Head(pending) \in Change /\ Tail(pending) \in Seq(Change)
    BY <1>3, PartsOfType, HeadTail DEF Pop
  <2>2. <<Head(pending)>> \in Seq(Change) /\ <<Head(pending)>> # <<>>
    BY <2>1
  <2> QED  BY <1>3, <1>b, <2>1, <2>2, PartsOfType, TypeParts DEF Pop
<1>4. CASE ReadVersion
  <2>1. CurrentVersion \in 0 .. Len(log)
    BY <1>a DEF CurrentVersion, CurrentMaxLSN, CurrentCTVersion
  <2>2. /\ upto' = CurrentVersion /\ all' = <<>>
        /\ pc' \in {"poll", "fetch"} /\ todo' \in Seq(Tables)
        /\ UNCHANGED <<dbVars, cursor, pending, out, saved, known, startVars, copyVars,
                       budgetVars>>
    BY <1>4, <1>a DEF ReadVersion
  <2> QED  BY <1>a, <1>b, <2>1, <2>2, PartsOfType, TypeParts
<1>5. CASE QueryTable
  <2>1. Tail(todo) \in Seq(Tables)
    BY <1>5, PartsOfType, HeadTail DEF QueryTable
  <2>2. FetchForTable(Head(todo)) \in Seq(Change)
    BY QueryFacts
  <2>3. all \o FetchForTable(Head(todo)) \in Seq(Change)
    BY <2>2, PartsOfType
  <2> QED  BY <1>5, <1>b, <2>1, <2>3, PartsOfType, TypeParts DEF QueryTable
<1>6. CASE FetchReturns
  <2>1. /\ pc' \in {"poll", "next"} /\ cursor' \in {cursor, upto}
        /\ pending' \in {pending, all} /\ all' = <<>>
        /\ UNCHANGED <<dbVars, upto, todo, out, saved, known, startVars, copyVars,
                       budgetVars>>
    BY <1>6 DEF FetchReturns
  <2> QED  BY <1>a, <1>b, <2>1, PartsOfType, TypeParts
<1>7. CASE FetchFails
  <2>1. faults' \in 0 .. MaxFaults
    BY <1>7, <1>a, PartsOfType DEF FetchFails
  <2> QED  BY <1>7, <1>a, <1>b, <2>1, PartsOfType, TypeParts DEF FetchFails
<1>8. CASE PollCancelled \/ StatementFails
  BY <1>8, <1>a, <1>b, PartsOfType, TypeParts DEF PollCancelled, StatementFails
<1>9. CASE Changes
  <2>1. CurrentVersion \in 0 .. Len(log)
    BY <1>a DEF CurrentVersion, CurrentMaxLSN, CurrentCTVersion
  <2>2. cursor' \in 0 .. Len(log) /\ saved' = cursor' /\ known' = cursor'
    BY <1>9, <2>1, PartsOfType DEF Changes, NoPosition
  <2>3. cursor' \in Versions /\ \A r : Content(r, cursor') \in Versions
    <3>1. \A p \in 0 .. Len(log) : p \in Nat /\ p \in Versions
      BY LogFacts DEF Versions
    <3>2. ASSUME NEW r, NEW p \in 0 .. Len(log) PROVE Content(r, p) \in Versions
      BY <3>1, ContentType, LogFacts DEF Versions
    <3> QED  BY <2>2, <3>1, <3>2
  <2>4. /\ start' \in {start, cursor'} /\ pc' = "idle"
        /\ \/ UNCHANGED copyVars
           \/ /\ replica' = [r \in SubscribedRows |-> Content(r, cursor')]
              /\ at' = [r \in SubscribedRows |-> cursor']
        /\ UNCHANGED <<dbVars, queryVars, pending, fetchVars, out, budgetVars>>
    BY <1>9 DEF Changes
  <2>5. replica' \in [SubscribedRows -> Versions] /\ at' \in [SubscribedRows -> Versions]
    BY <2>3, <2>4, PartsOfType
  <2> QED  BY <1>b, <2>2, <2>4, <2>5, PartsOfType, TypeParts
<1>10. CASE CallNext
  BY <1>10, <1>b, PartsOfType, TypeParts DEF CallNext
<1>11. CASE Process
  <2> DEFINE ch == Head(out)
  <2>1. ch \in Change
    BY <1>11, PartsOfType, HeadTail DEF Process
  <2>2. ch.content \in Versions /\ ch.version \in Versions
        /\ Versions \subseteq Nat
    BY <2>1 DEF Change, Versions
  <2>3. replica' \in [SubscribedRows -> Versions]
    BY <1>11, <2>2, PartsOfType DEF Process
  <2>4. ch.row \in SubscribedRows => Max({at[ch.row], ch.version}) \in Versions
    <3> SUFFICES ASSUME ch.row \in SubscribedRows
                 PROVE  Max({at[ch.row], ch.version}) \in Versions
      OBVIOUS
    <3>1. at[ch.row] \in Versions
      BY PartsOfType
    <3>2. Max({at[ch.row], ch.version}) \in {at[ch.row], ch.version}
      BY <2>2, <3>1, MaxOfTwo
    <3> QED  BY <2>2, <3>1, <3>2
  <2>5. at' \in [SubscribedRows -> Versions]
    BY <1>11, <2>4, PartsOfType DEF Process
  <2> QED  BY <1>11, <1>b, <2>3, <2>5, PartsOfType, TypeParts DEF Process
<1>12. CASE Persist
  <2>1. NextSaved \in {cursor, known, saved}
    BY DEF NextSaved
  <2> QED  BY <1>12, <1>a, <1>b, <2>1, PartsOfType, TypeParts DEF Persist
<1>13. CASE Crash
  <2>1. crashes' \in 0 .. MaxCrashes
    BY <1>13, <1>a, PartsOfType DEF Crash
  <2> QED  BY <1>13, <1>a, <1>b, <2>1, PartsOfType, TypeParts DEF Crash
<1>14. CASE UNCHANGED vars
  BY <1>14, <1>b, PartsOfType, TypeParts DEF vars
<1> QED
  BY <1>1, <1>2, <1>3, <1>4, <1>5, <1>6, <1>7, <1>8, <1>9, <1>10, <1>11, <1>12, <1>13,
     <1>14
  DEF Next, DBStep, StreamStep, ConsumerStep

\* The cursor never points past the end of the source's log, whatever the
\* consumer passes back to Changes (changes.go, Changes and Next).
THEOREM TypeCorrect == Spec => []TypeOK
<1>1. TypeInv => TypeOK
  BY DEF TypeInv
<1> QED
  BY <1>1, InitType, NextType, PTL DEF Spec

-----------------------------------------------------------------------------
(* Positions.                                                              *)

\* Persisting a position does not change what is to be persisted next.
LEMMA NextSavedFacts ==
  ASSUME TypeInv, PosInv, pc # "closed"
  PROVE  /\ saved \in Nat /\ known \in Nat /\ cursor \in Nat /\ NextSaved \in Nat
         /\ saved <= NextSaved /\ NextSaved <= cursor
         /\ saved <= known /\ known <= cursor /\ cursor <= Len(log)
         /\ Lagged => NextSaved <= known
         /\ known = cursor /\ Lagged => NextSaved = saved
<1>1. saved \in Nat /\ known \in Nat /\ cursor \in Nat /\ cursor <= Len(log)
  BY LogFacts DEF TypeInv, PosInv
<1>2. saved <= known /\ known <= cursor
  BY DEF PosInv
<1> QED  BY <1>1, <1>2 DEF NextSaved

LEMMA InitPos == Init => PosInv
BY DEF Init, PosInv, Queue

LEMMA NextPos ==
  ASSUME TypeInv, PosInv, [Next]_vars
  PROVE  PosInv'
<1> USE DEF fetchVars, streamVars, queryVars, startVars, copyVars, budgetVars, dbVars
<1>a. /\ Len(log) \in Nat /\ cursor \in Nat /\ known \in Nat /\ upto \in Nat
      /\ cursor <= Len(log) /\ upto <= Len(log) /\ NoCursor \notin Nat
      /\ saved # NoCursor => saved \in Nat
      /\ start # NoCursor => start \in Nat
      /\ out \in Seq(Change) /\ pending \in Seq(Change) /\ all \in Seq(Change)
  BY LogFacts, PartsOfType, StreamAssumption
<1>b. /\ start = NoCursor <=> saved = NoCursor
      /\ pc # "closed" => saved # NoCursor
      /\ start # NoCursor => \A r \in SubscribedRows : start <= at[r]
      /\ pc # "closed" => saved <= known /\ known <= cursor
      /\ pc \notin {"closed", "handled"} /\ Queue = <<>> => known = cursor
      /\ pc = "fetch" => cursor <= upto
      /\ IF pc \in {"got", "handled"} THEN Len(out) = 1 ELSE out = <<>>
      /\ pc \in {"closed", "fetch", "poll"} => pending = <<>>
      /\ pc # "fetch" => all = <<>>
  BY DEF PosInv
<1>1. CASE DBStep \/ UNCHANGED vars
  BY <1>1, <1>b DEF DBStep, PosInv, Queue, vars
<1>2. CASE Pop
  <2>1. /\ pc = "next" /\ pending # <<>> /\ out' = <<Head(pending)>> /\ pc' = "got"
        /\ UNCHANGED <<cursor, fetchVars, saved, known, startVars, copyVars>>
    BY <1>2 DEF Pop
  <2>2. Len(out') = 1 /\ known' <= cursor' /\ out' \o pending' # <<>>
    <3>1. pending' \in Seq(Change) /\ out' \in Seq(Change)
      BY <1>2, <1>a, HeadTail DEF Pop
    <3> QED  BY <2>1, <3>1, <1>b
  <2>3. Queue' # <<>>
    BY <2>1, <2>2 DEF Queue
  <2> QED  BY <2>1, <2>2, <2>3, <1>b DEF PosInv
<1>3. CASE ReadVersion
  <2>1. CurrentVersion = Len(log)
    BY DEF CurrentVersion, CurrentMaxLSN, CurrentCTVersion
  <2>2. /\ pc = "next" /\ pending = <<>> /\ upto' = Len(log) /\ all' = <<>>
        /\ pc' \in {"poll", "fetch"}
        /\ UNCHANGED <<cursor, pending, out, saved, known, startVars, copyVars>>
    BY <1>3, <2>1 DEF ReadVersion
  <2> QED  BY <2>2, <1>a, <1>b DEF PosInv, Queue
<1>4. CASE QueryTable
  BY <1>4, <1>b DEF QueryTable, PosInv, Queue
<1>5. CASE FetchReturns
  BY <1>5, <1>a, <1>b DEF FetchReturns, PosInv, Queue
<1>6. CASE StatementFails \/ FetchFails \/ PollCancelled \/ CallNext
  BY <1>6, <1>b DEF StatementFails, FetchFails, PollCancelled, CallNext, PosInv, Queue
<1>7. CASE Changes
  <2>1. /\ pc = "closed" /\ pc' = "idle" /\ saved' = cursor' /\ known' = cursor'
        /\ UNCHANGED <<pending, fetchVars, out>>
    BY <1>7 DEF Changes
  <2>2. cursor' \in Nat
    BY <1>7, <1>a
    DEF Changes, NoPosition, CurrentVersion, CurrentMaxLSN, CurrentCTVersion
  <2>3. /\ start' # NoCursor
        /\ \A r \in SubscribedRows : start' <= at'[r]
    <3>1. CASE start = NoCursor
      BY <3>1, <1>7, <1>a, <2>2 DEF Changes
    <3>2. CASE start # NoCursor
      BY <3>2, <1>7, <1>b DEF Changes
    <3> QED  BY <3>1, <3>2
  <2> QED  BY <2>1, <2>2, <2>3, <1>a, <1>b DEF PosInv, Queue
<1>8. CASE Process
  <2> DEFINE ch == Head(out)
  <2>1. /\ pc = "got" /\ pc' = "handled"
        /\ UNCHANGED <<streamVars, saved, known, startVars>>
        /\ at' = [at EXCEPT ![ch.row] = Max({@, ch.version})]
    BY <1>8 DEF Process
  <2>2. ch \in Change
    BY <2>1, <1>a, HeadTail, PartsOfType
  <2>3. at \in [SubscribedRows -> Nat] /\ ch.version \in Nat
    <3>1. at \in [SubscribedRows -> Versions] /\ ch.version \in Versions
      BY <2>2, PartsOfType DEF Change
    <3> QED  BY <3>1 DEF Versions
  <2>4. \A r \in SubscribedRows : at'[r] \in Nat /\ at[r] <= at'[r]
    <3> SUFFICES ASSUME NEW r \in SubscribedRows
                 PROVE  at'[r] \in Nat /\ at[r] <= at'[r]
      OBVIOUS
    <3>1. CASE r = ch.row
      <4>1. at'[r] = Max({at[r], ch.version})
        BY <2>1, <2>3, <3>1
      <4> QED  BY <4>1, <2>3, MaxOfTwo
    <3>2. CASE r # ch.row
      BY <3>2, <2>1, <2>3
    <3> QED  BY <3>1, <3>2
  <2>5. start # NoCursor => \A r \in SubscribedRows : start <= at'[r]
    BY <2>3, <2>4, <1>a, <1>b
  <2> HIDE DEF ch
  <2> QED  BY <2>1, <2>5, <1>b DEF PosInv, Queue
<1>9. CASE Persist
  <2>1. /\ pc = "handled" /\ pc' = "idle" /\ out' = <<>>
        /\ saved' = NextSaved /\ known' = cursor
        /\ UNCHANGED <<cursor, pending, fetchVars, startVars, copyVars>>
    BY <1>9 DEF Persist
  <2>2. NextSaved \in Nat /\ NextSaved <= cursor
    BY <2>1, NextSavedFacts
  <2> QED  BY <2>1, <2>2, <1>a, <1>b DEF PosInv, Queue
<1>10. CASE Crash
  BY <1>10, <1>b DEF Crash, PosInv, Queue
<1> QED
  BY <1>1, <1>2, <1>3, <1>4, <1>5, <1>6, <1>7, <1>8, <1>9, <1>10
  DEF Next, StreamStep, ConsumerStep


-----------------------------------------------------------------------------
(* The queue.                                                              *)

LEMMA ConcatFacts ==
  ASSUME NEW S, NEW s \in Seq(S), NEW t \in Seq(S)
  PROVE  /\ s \o t \in Seq(S) /\ Len(s) \in Nat /\ Len(t) \in Nat
         /\ DOMAIN s = 1 .. Len(s) /\ DOMAIN t = 1 .. Len(t)
         /\ Len(s \o t) = Len(s) + Len(t)
         /\ DOMAIN (s \o t) = 1 .. Len(s) + Len(t)
         /\ \A i \in 1 .. Len(s) : (s \o t)[i] = s[i]
         /\ \A i \in 1 .. Len(t) : (s \o t)[Len(s) + i] = t[i]
         /\ \A i \in Len(s) + 1 .. Len(s) + Len(t) :
              i - Len(s) \in 1 .. Len(t) /\ (s \o t)[i] = t[i - Len(s)]
OBVIOUS

LEMMA QueueFacts ==
  ASSUME TypeInv, PosInv
  PROVE  /\ Queue \in Seq(Change) /\ Len(Queue) \in Nat /\ DOMAIN Queue = 1 .. Len(Queue)
         /\ pc = "got" =>
              /\ Queue # <<>> /\ Len(Queue) > 0 /\ Queue[1] = Head(out)
              /\ Len(pending) = Len(Queue) - 1
              /\ \A i \in 1 .. Len(Queue) - 1 : pending[i] = Queue[i + 1]
<1>1. out \in Seq(Change) /\ pending \in Seq(Change)
  BY PartsOfType
<1>2. CASE pc # "got"
  BY <1>1, <1>2 DEF Queue
<1>3. CASE pc = "got"
  <2>1. Queue = out \o pending /\ Len(out) = 1
    BY <1>3 DEF Queue, PosInv
  <2> HIDE DEF Queue
  <2> DEFINE s == out \o pending
  <2>0. /\ s \in Seq(Change) /\ Len(pending) \in Nat
        /\ Len(s) = Len(out) + Len(pending)
        /\ \A i \in 1 .. Len(out) : s[i] = out[i]
        /\ \A i \in 1 .. Len(pending) : s[Len(out) + i] = pending[i]
    BY <1>1, ConcatFacts
  <2>a. /\ Queue \in Seq(Change) /\ Len(pending) \in Nat
        /\ Len(Queue) = Len(out) + Len(pending)
        /\ \A i \in 1 .. Len(out) : Queue[i] = out[i]
        /\ \A i \in 1 .. Len(pending) : Queue[Len(out) + i] = pending[i]
    <3>1. Queue = s
      BY <2>1
    <3> HIDE DEF s
    <3> QED  BY <2>0, <3>1
  <2> HIDE DEF s
  <2>2. Queue \in Seq(Change) /\ Len(Queue) \in Nat /\ DOMAIN Queue = 1 .. Len(Queue)
        /\ Len(Queue) = 1 + Len(pending) /\ Len(pending) \in Nat
    BY <2>1, <2>a
  <2>3. Queue[1] = Head(out) /\ \A i \in 1 .. Len(pending) : Queue[1 + i] = pending[i]
    <3>1. Queue[1] = out[1]
      BY <2>1, <2>a
    <3>2. Head(out) = out[1]
      BY <1>1
    <3> QED  BY <2>1, <2>a, <3>1, <3>2
  <2>4. Queue # <<>>
    BY <2>2
  <2>5. \A i \in 1 .. Len(pending) : pending[i] = Queue[i + 1]
    BY <2>2, <2>3
  <2> QED  BY <2>2, <2>3, <2>4, <2>5
<1> QED  BY <1>2, <1>3

\* What is in the queue changes when a batch arrives, when a change is
\* processed, and when the node goes down.
LEMMA QueueMoves ==
  ASSUME TypeInv, PosInv, [Next]_vars
  PROVE  /\ Process => /\ Queue # <<>> /\ Head(out) = Queue[1]
                       /\ Queue' \in Seq(Change) /\ Len(Queue) > 0
                       /\ DOMAIN Queue' = 1 .. Len(Queue) - 1
                       /\ \A i \in 1 .. Len(Queue) - 1 : Queue'[i] = Queue[i + 1]
         /\ FetchReturns => Queue = <<>> /\ Queue' = all
         /\ Crash => Queue' = <<>>
         /\ ~Process /\ ~FetchReturns /\ ~Crash => Queue' = Queue
<1> USE DEF fetchVars, streamVars, queryVars, startVars, copyVars, budgetVars, dbVars
<1>1. Process => /\ Queue # <<>> /\ Head(out) = Queue[1]
                 /\ Queue' \in Seq(Change) /\ Len(Queue) > 0
                 /\ DOMAIN Queue' = 1 .. Len(Queue) - 1
                 /\ \A i \in 1 .. Len(Queue) - 1 : Queue'[i] = Queue[i + 1]
  <2> SUFFICES ASSUME Process
               PROVE  /\ Queue # <<>> /\ Head(out) = Queue[1]
                      /\ Queue' \in Seq(Change) /\ Len(Queue) > 0
                      /\ DOMAIN Queue' = 1 .. Len(Queue) - 1
                      /\ \A i \in 1 .. Len(Queue) - 1 : Queue'[i] = Queue[i + 1]
    OBVIOUS
  <2>1. pc = "got" /\ pc' = "handled" /\ pending' = pending
    BY DEF Process
  <2>2. Queue' = pending /\ pending \in Seq(Change)
    BY <2>1, PartsOfType DEF Queue
  <2> QED  BY <2>1, <2>2, QueueFacts
<1>2. FetchReturns => Queue = <<>> /\ Queue' = all
  BY DEF FetchReturns, PosInv, Queue
<1>3. Crash => Queue' = <<>>
  BY DEF Crash, Queue
<1>4. Pop => Queue' = Queue
  <2> SUFFICES ASSUME Pop PROVE Queue' = Queue
    OBVIOUS
  <2>1. /\ pc = "next" /\ pending # <<>> /\ out' = <<Head(pending)>> /\ pc' = "got"
        /\ pending' = Tail(pending) /\ pending \in Seq(Change)
    BY PartsOfType DEF Pop
  <2>2. <<Head(pending)>> \o Tail(pending) = pending
    BY <2>1
  <2> QED  BY <2>1, <2>2 DEF Queue
<1>5. DBStep \/ QueryTable \/ StatementFails \/ FetchFails \/ PollCancelled \/ CallNext
        \/ UNCHANGED vars => Queue' = Queue
  BY DEF DBStep, QueryTable, StatementFails, FetchFails, PollCancelled, CallNext, vars, Queue
<1>6. ReadVersion \/ Changes \/ Persist => Queue' = Queue
  BY DEF ReadVersion, Changes, Persist, Queue
<1> QED
  BY <1>1, <1>2, <1>3, <1>4, <1>5, <1>6 DEF Next, StreamStep, ConsumerStep

-----------------------------------------------------------------------------
(* The changes are real.                                                   *)

\* The log only grows, and what has been cleaned up stays so.
LEMMA LogGrows ==
  ASSUME TypeInv, [Next]_vars
  PROVE  /\ Len(log') \in Nat /\ Len(log) <= Len(log') /\ DOMAIN log \subseteq DOMAIN log'
         /\ \A i \in DOMAIN log : log'[i] = log[i]
         /\ purged' \in Nat /\ purged <= purged'
         /\ ~DBStep => log' = log /\ purged' = purged
<1> USE DEF fetchVars, streamVars, queryVars, startVars, copyVars, budgetVars, dbVars
<1>1. log \in Seq(CommitRecord) /\ Len(log) \in Nat /\ DOMAIN log = 1 .. Len(log)
      /\ purged \in Nat
  BY LogFacts
<1>2. ~DBStep => log' = log /\ purged' = purged
  BY DEF Next, StreamStep, ConsumerStep, Pop, ReadVersion, QueryTable, StatementFails, FetchReturns,
         FetchFails, PollCancelled, Changes, CallNext, Process, Persist, Crash, vars
<1>3. ASSUME NEW r \in Rows, NEW op \in Ops, CommitChange(r, op)
      PROVE  /\ Len(log') = Len(log) + 1 /\ DOMAIN log' = 1 .. Len(log) + 1
             /\ \A i \in 1 .. Len(log) : log'[i] = log[i]
             /\ purged' = purged
  <2>1. log' = Append(log, [row |-> r, op |-> op]) /\ purged' = purged
    BY <1>3 DEF CommitChange
  <2>2. [row |-> r, op |-> op] \in CommitRecord
    BY SourceDBAssumption DEF CommitRecord
  <2> QED  BY <1>1, <2>1, <2>2
<1>4. Cleanup => log' = log /\ purged' = purged + 1
  BY DEF Cleanup
<1> QED  BY <1>1, <1>2, <1>3, <1>4 DEF DBStep

LEMMA RealStays ==
  ASSUME TypeInv, [Next]_vars, NEW ch, Real(ch)
  PROVE  Real(ch)'
BY LogGrows DEF Real

LEMMA InitReal == Init => RealInv
BY DEF Init, RealInv, Queue, Waiting

LEMMA NextReal ==
  ASSUME TypeInv, PosInv, RealInv, [Next]_vars
  PROVE  RealInv'
<1> USE DEF fetchVars, streamVars, queryVars, startVars, copyVars, budgetVars, dbVars
<1>1. \A ch : Real(ch) => Real(ch)'
  BY RealStays
<1>2. (\A i \in DOMAIN Queue : Real(Queue[i]))'
  <2>1. CASE Process
    <3>1. /\ DOMAIN Queue' = 1 .. Len(Queue) - 1
          /\ \A i \in 1 .. Len(Queue) - 1 : Queue'[i] = Queue[i + 1]
      BY <2>1, QueueMoves
    <3>2. Len(Queue) \in Nat /\ DOMAIN Queue = 1 .. Len(Queue)
      BY QueueFacts
    <3>3. \A i \in 1 .. Len(Queue) - 1 : i + 1 \in DOMAIN Queue
      BY <3>2
    <3> QED  BY <3>1, <3>3, <1>1 DEF RealInv, Real
  <2>2. CASE FetchReturns
    BY <2>2, <1>1, QueueMoves DEF RealInv, Real
  <2>3. CASE Crash
    BY <2>3, QueueMoves
  <2>4. CASE ~Process /\ ~FetchReturns /\ ~Crash
    BY <2>4, <1>1, QueueMoves DEF RealInv, Real
  <2> QED  BY <2>1, <2>2, <2>3, <2>4
<1>3. (\A i \in DOMAIN all : Real(all[i]))' /\ Waiting' \subseteq Subscribed
  <2>1. CASE QueryTable
    <3> DEFINE t == Head(todo)
               q == FetchForTable(t)
    <3>1. /\ todo # <<>> /\ all' = all \o q /\ todo' = Tail(todo) /\ todo \in Seq(Tables)
          /\ all \in Seq(Change)
      BY <2>1, PartsOfType DEF QueryTable
    <3>2. /\ t \in Waiting /\ Waiting' \subseteq Waiting
      BY <3>1, HeadTail DEF Waiting
    <3>3. /\ q \in Seq(Change)
          /\ \A j \in DOMAIN q : /\ q[j].version \in DOMAIN log
                                 /\ q[j].row = log[q[j].version].row /\ q[j].row[1] = t
      BY QueryFacts
    <3>4. ASSUME NEW j \in DOMAIN q PROVE Real(q[j])
      <4>1. q[j].row \in Rows /\ q[j].row[1] \in Subscribed
        BY <3>2, <3>3, LogFacts DEF RealInv
      <4> QED  BY <4>1, <3>3, SubscribedFacts DEF Real
    <3> HIDE DEF t, q
    <3>5. \A i \in DOMAIN all' : \/ i \in DOMAIN all /\ all'[i] = all[i]
                                 \/ i - Len(all) \in DOMAIN q /\ all'[i] = q[i - Len(all)]
      BY <3>1, <3>3, ConcatFacts
    <3>6. \A i \in DOMAIN all' : Real(all'[i])
      BY <3>4, <3>5 DEF RealInv
    <3> QED  BY <1>1, <3>2, <3>6 DEF RealInv, Real
  <2>2. CASE ReadVersion
    <3>1. all' = <<>> /\ todo' \in {<<>>, TableOrder}
      BY <2>2 DEF ReadVersion
    <3> QED  BY <3>1 DEF Waiting, Subscribed
  <2>3. CASE FetchReturns \/ StatementFails \/ FetchFails \/ Crash
    <3>1. all' = <<>> /\ (todo' = <<>> \/ todo' = todo)
      BY <2>3 DEF FetchReturns, StatementFails, FetchFails, Crash
    <3> QED  BY <3>1 DEF Waiting, RealInv
  <2>4. CASE /\ ~QueryTable /\ ~ReadVersion /\ ~FetchReturns
             /\ ~StatementFails /\ ~FetchFails /\ ~Crash
    <3>1. all' = all /\ todo' = todo
      BY <2>4 DEF Next, DBStep, StreamStep, ConsumerStep, Pop, PollCancelled, Changes,
                  CallNext, Process, Persist, vars
    <3> QED  BY <1>1, <3>1 DEF RealInv, Real, Waiting
  <2> QED  BY <2>1, <2>2, <2>3, <2>4
<1>4. statements' = "written" => all' = <<>>
  <2> SUFFICES ASSUME statements' = "written" PROVE all' = <<>>
    OBVIOUS
  <2>1. statements = "written"
    BY DEF Next, DBStep, StreamStep, ConsumerStep, Pop, ReadVersion, QueryTable,
           StatementFails, FetchReturns, FetchFails, PollCancelled, Changes, CallNext,
           Process, Persist, Crash, vars
  <2>2. all = <<>>
    BY <2>1 DEF RealInv
  <2>3. CASE QueryTable
    <3>1. FetchForTable(Head(todo)) = <<>>
      BY <2>1, <2>3, CDCQuery DEF QueryTable, FetchForTable
    <3> QED  BY <2>2, <2>3, <3>1 DEF QueryTable
  <2>4. CASE ~QueryTable
    BY <2>2, <2>4
    DEF Next, DBStep, StreamStep, ConsumerStep, Pop, ReadVersion, StatementFails,
        FetchReturns, FetchFails, PollCancelled, Changes, CallNext, Process, Persist,
        Crash, vars
  <2> QED  BY <2>3, <2>4
<1> QED  BY <1>2, <1>3, <1>4 DEF RealInv


-----------------------------------------------------------------------------
(* Nothing is skipped.                                                     *)

\* A query tells of every change of its table in the window that is kept.
LEMMA QueryTells ==
  ASSUME TypeInv, statements = "meant", NEW t, NEW i \in Records(t), cursor < i, i <= upto
  PROVE  Tells(FetchForTable(t), i)
<1> DEFINE q == FetchForTable(t)
<1>1. \A j \in DOMAIN q : q[j].row = log[q[j].version].row /\ q[j].version \in Nat
  BY QueryFacts
<1>2. i \in DOMAIN log /\ i \in Nat /\ i > purged /\ log[i].row[1] = t
  BY RecordsFacts, LogFacts
<1>3. CASE mechanism = "cdc"
  <2>1. PICK j \in DOMAIN q : q[j].version = i
    BY <1>3, CDCQuery DEF FetchForTable
  <2> QED  BY <1>1, <1>2, <2>1 DEF Tells
<1>4. CASE mechanism # "cdc"
  <2> DEFINE m == Max(Writes(log[i].row, Len(log)))
  <2>1. i \in Writes(log[i].row, Len(log)) /\ Len(log) \in Nat
    BY <1>2, LogFacts DEF Writes
  <2>2. /\ m \in Writes(log[i].row, Len(log)) /\ m \in 1 .. Len(log) /\ i <= m
    BY <2>1, WritesMax
  <2>3. log[m].row = log[i].row
    BY <2>2 DEF Writes
  <2>4. m \in Records(t) /\ cursor < m
    BY <1>2, <2>2, <2>3, LogFacts DEF Records
  <2>5. m = Max(Writes(log[m].row, Len(log)))
    BY <2>3
  <2>6. PICK j \in DOMAIN q : q[j].version = m
    BY <1>4, <2>4, <2>5, CTQuery DEF FetchForTable
  <2> QED  BY <1>1, <2>2, <2>3, <2>6 DEF Tells
<1> QED  BY <1>3, <1>4

\* The consumer only moves forwards.
LEMMA AtGrows ==
  ASSUME TypeInv, PosInv, [Next]_vars, start # NoCursor
  PROVE  /\ start' = start
         /\ \A r \in SubscribedRows : at[r] \in Nat /\ at'[r] \in Nat /\ at[r] <= at'[r]
         /\ Process => LET ch == Queue[1] IN
              /\ ch.version \in Nat
              /\ \A r \in SubscribedRows :
                   at'[r] = IF r = ch.row /\ ch.version > at[r] THEN ch.version ELSE at[r]
<1> USE DEF fetchVars, streamVars, queryVars, startVars, copyVars, budgetVars, dbVars
<1>1. at \in [SubscribedRows -> Nat]
  <2>1. at \in [SubscribedRows -> Versions]
    BY PartsOfType
  <2> QED  BY <2>1 DEF Versions
<1>2. start' = start
  BY DEF Next, DBStep, StreamStep, ConsumerStep, Pop, ReadVersion, QueryTable,
         StatementFails, FetchReturns, FetchFails, PollCancelled, Changes, CallNext, Process,
         Persist, Crash, vars
<1>3. ~Process => at' = at
  BY DEF Next, DBStep, StreamStep, ConsumerStep, Pop, ReadVersion, QueryTable,
         StatementFails, FetchReturns, FetchFails, PollCancelled, Changes, CallNext,
         Persist, Crash, vars
<1>4. ASSUME Process
      PROVE  LET ch == Queue[1] IN
              /\ ch.version \in Nat
              /\ \A r \in SubscribedRows :
                   at'[r] = IF r = ch.row /\ ch.version > at[r] THEN ch.version ELSE at[r]
  <2> DEFINE ch == Queue[1]
  <2>1. /\ ch = Head(out) /\ at' = [at EXCEPT ![ch.row] = Max({@, ch.version})]
        /\ ch \in Change
    <3>1. Head(out) = Queue[1] /\ Len(Queue) > 0
      BY <1>4, QueueMoves
    <3>2. Queue[1] \in Change
      <4>1. Queue \in Seq(Change) /\ Len(Queue) \in Nat
        BY QueueFacts
      <4> QED  BY <3>1, <4>1
    <3>3. at' = [at EXCEPT ![Head(out).row] = Max({@, Head(out).version})]
      BY <1>4 DEF Process
    <3> HIDE DEF Queue
    <3> QED  BY <3>1, <3>2, <3>3, Zenon
  <2>2. ch.version \in Nat
    BY <2>1 DEF Change, Versions
  <2> HIDE DEF ch
  <2>3. ASSUME NEW r \in SubscribedRows
        PROVE  at'[r] = IF r = ch.row /\ ch.version > at[r] THEN ch.version ELSE at[r]
    <3>1. CASE r # ch.row
      BY <3>1, <2>1, <1>1
    <3>2. CASE r = ch.row
      <4>1. at'[r] = Max({at[r], ch.version})
        BY <3>2, <2>1, <1>1
      <4> QED  BY <4>1, <3>2, <2>2, <1>1, MaxOfTwo
    <3> QED  BY <3>1, <3>2
  <2> QED  BY <2>2, <2>3 DEF ch
<1>5. Process => \A r \in SubscribedRows : at'[r] \in Nat /\ at[r] <= at'[r]
  BY <1>1, <1>4
<1>6. ~Process => \A r \in SubscribedRows : at'[r] \in Nat /\ at[r] <= at'[r]
  BY <1>1, <1>3
<1> QED  BY <1>1, <1>2, <1>4, <1>5, <1>6

\* What has been reached stays so, and so does what a sequence tells.
LEMMA ReachedStays ==
  ASSUME TypeInv, PosInv, [Next]_vars, start # NoCursor, NEW i \in DOMAIN log
  PROVE  /\ i \in Nat /\ i \in DOMAIN log'
         /\ Exempt(i) => Exempt(i)'
         /\ Reached(i) => Reached(i)'
         /\ log'[i] = log[i]
<1>1. i \in Nat /\ purged \in Nat
  BY LogFacts
<1>2. log'[i] = log[i] /\ i \in DOMAIN log' /\ purged <= purged' /\ purged' \in Nat
  BY LogGrows
<1>3. Exempt(i) => Exempt(i)'
  BY <1>1, <1>2 DEF Exempt
<1>4. Reached(i) => Reached(i)'
  <2> SUFFICES ASSUME Reached(i), ~Exempt(i) PROVE Reached(i)'
    BY <1>3 DEF Reached
  <2>1. log[i].row \in SubscribedRows /\ at[log[i].row] >= i
    BY DEF Reached, Exempt
  <2>2. at'[log[i].row] >= i
    BY <1>1, <2>1, AtGrows
  <2> QED  BY <1>2, <2>2 DEF Reached
<1> QED  BY <1>1, <1>2, <1>3, <1>4

LEMMA TellsMore ==
  ASSUME NEW s \in Seq(Change), NEW t \in Seq(Change), NEW i,
         Tells(s, i) \/ Tells(t, i)
  PROVE  Tells(s \o t, i)
<1>1. CASE Tells(s, i)
  <2>1. PICK j \in DOMAIN s : s[j].row = log[i].row /\ s[j].version >= i
    BY <1>1 DEF Tells
  <2>2. j \in DOMAIN (s \o t) /\ (s \o t)[j] = s[j]
    BY ConcatFacts
  <2> QED  BY <2>1, <2>2 DEF Tells
<1>2. CASE Tells(t, i)
  <2>1. PICK j \in DOMAIN t : t[j].row = log[i].row /\ t[j].version >= i
    BY <1>2 DEF Tells
  <2>2. Len(s) + j \in DOMAIN (s \o t) /\ (s \o t)[Len(s) + j] = t[j]
    BY ConcatFacts
  <2> QED  BY <2>1, <2>2 DEF Tells
<1> QED  BY <1>1, <1>2

LEMMA InitCover == Init => CoverInv
BY DEF Init, CoverInv

\* A stream that is open and stays so moves on when a batch arrives only.
LEMMA MovesOn ==
  ASSUME Lagged, TypeInv, PosInv, [Next]_vars, pc' # "closed", ~Changes
  PROVE  /\ pc # "closed" /\ start # NoCursor /\ start' = start
         /\ start \in Nat /\ NextSaved' \in Nat
         /\ \A i \in start + 1 .. cursor : i \in DOMAIN log
         /\ ~FetchReturns => cursor' = cursor /\ NextSaved' = NextSaved
         /\ FetchReturns => /\ known = cursor /\ NextSaved' \in {cursor, saved}
                            /\ saved \in Nat /\ saved <= cursor
<1> USE DEF fetchVars, streamVars, queryVars, startVars, copyVars, budgetVars, dbVars
<1>1. pc # "closed"
  BY DEF Next, DBStep, StreamStep, ConsumerStep, Pop, ReadVersion, QueryTable,
         StatementFails, FetchReturns, FetchFails, PollCancelled, CallNext, Process,
         Persist, Crash, vars
<1>2. /\ start # NoCursor /\ start' = start /\ start \in Nat
      /\ NextSaved \in Nat /\ cursor \in Nat /\ cursor <= Len(log)
      /\ saved \in Nat /\ saved <= cursor /\ DOMAIN log = 1 .. Len(log) /\ Len(log) \in Nat
  <2>1. start # NoCursor
    BY <1>1 DEF PosInv
  <2>2. start \in Nat
    BY <2>1, LogFacts, PartsOfType
  <2>3. saved \in Nat /\ NextSaved \in Nat /\ saved <= known /\ known <= cursor
        /\ known \in Nat
    BY <1>1, NextSavedFacts
  <2> QED  BY <2>1, <2>2, <2>3, AtGrows, LogFacts
<1>3. ~FetchReturns => cursor' = cursor /\ NextSaved' = NextSaved
  <2>1. CASE Persist
    BY <2>1 DEF Persist, NextSaved
  <2>2. CASE ~Persist /\ ~FetchReturns
    <3>1. cursor' = cursor /\ known' = known /\ saved' = saved
      BY <2>2 DEF Next, DBStep, StreamStep, ConsumerStep, Pop, ReadVersion,
           QueryTable, StatementFails, FetchFails, PollCancelled, CallNext, Process, Crash, vars
    <3> QED  BY <3>1 DEF NextSaved
  <2> QED  BY <2>1, <2>2
<1>4. FetchReturns => known = cursor /\ NextSaved' \in {cursor, saved}
  <2> SUFFICES ASSUME FetchReturns
               PROVE  known = cursor /\ NextSaved' \in {cursor, saved}
    OBVIOUS
  <2>1. pc = "fetch" /\ Queue = <<>> /\ known' = known /\ saved' = saved
    BY QueueMoves DEF FetchReturns
  <2>2. known = cursor
    BY <2>1 DEF PosInv
  <2> QED  BY <2>1, <2>2 DEF NextSaved
<1> QED  BY <1>1, <1>2, <1>3, <1>4

LEMMA NextCover ==
  ASSUME Lagged, Captured, TypeInv, PosInv, RealInv, CoverInv, [Next]_vars
  PROVE  CoverInv'
<1> USE DEF fetchVars, streamVars, queryVars, startVars, copyVars, budgetVars, dbVars
<1>a. /\ Len(log) \in Nat /\ cursor \in Nat /\ known \in Nat /\ upto \in Nat
      /\ DOMAIN log = 1 .. Len(log)
      /\ cursor <= Len(log) /\ upto <= Len(log) /\ NoCursor \notin Nat
      /\ saved # NoCursor => saved \in Nat /\ saved <= Len(log)
      /\ start # NoCursor => start \in Nat
      /\ out \in Seq(Change) /\ pending \in Seq(Change) /\ all \in Seq(Change)
  <2>1. saved # NoCursor => saved \in Nat /\ saved <= Len(log)
    BY LogFacts, PartsOfType
  <2>2. start # NoCursor => start \in Nat
    BY LogFacts, PartsOfType
  <2> QED  BY <2>1, <2>2, LogFacts, PartsOfType, StreamAssumption
<1>b. /\ start = NoCursor <=> saved = NoCursor
      /\ pc # "closed" => saved # NoCursor /\ start # NoCursor
      /\ pc # "closed" => NextSaved \in Nat /\ saved <= NextSaved /\ NextSaved <= cursor
  BY NextSavedFacts DEF PosInv
<1>c. /\ pc = "closed" /\ saved # NoCursor => \A i \in start + 1 .. saved : Reached(i)
      /\ pc # "closed" => \A i \in start + 1 .. NextSaved : Reached(i)
      /\ pc # "closed" =>
           \A i \in start + 1 .. cursor : Reached(i) \/ Tells(Queue, i)
      /\ pc = "fetch" /\ statements = "meant" =>
           \A i \in cursor + 1 .. upto :
             Exempt(i) \/ log[i].row[1] \in Waiting \/ Tells(all, i)
  BY DEF CoverInv
<1>d. start # NoCursor =>
        /\ start' = start
        /\ \A i \in DOMAIN log : /\ i \in Nat /\ i \in DOMAIN log' /\ log'[i] = log[i]
                                 /\ Exempt(i) => Exempt(i)'
                                 /\ Reached(i) => Reached(i)'
  BY ReachedStays, AtGrows
<1>1. pc' = "closed" /\ saved' # NoCursor => \A i \in start' + 1 .. saved' : Reached(i)'
  <2> SUFFICES ASSUME pc' = "closed", saved' # NoCursor
               PROVE  \A i \in start' + 1 .. saved' : Reached(i)'
    OBVIOUS
  <2>1. saved' = saved /\ (pc = "closed" \/ Crash)
    BY DEF Next, DBStep, StreamStep, ConsumerStep, Pop, ReadVersion, QueryTable,
           StatementFails, FetchReturns, FetchFails, PollCancelled, Changes, CallNext, Process,
           Persist, Crash, vars
  <2>2. start # NoCursor /\ start' = start /\ start \in Nat /\ saved \in Nat
    BY <2>1, <1>a, <1>b, <1>d
  <2>3. \A i \in start + 1 .. saved : Reached(i) /\ i \in DOMAIN log
    <3>1. \A i \in start + 1 .. saved : i \in DOMAIN log
      BY <2>1, <2>2, <1>a
    <3>2. CASE pc = "closed"
      BY <3>1, <3>2, <2>1, <1>c
    <3>3. CASE pc # "closed"
      BY <3>1, <3>3, <2>2, <1>a, <1>b, <1>c
    <3> QED  BY <3>2, <3>3
  <2> QED  BY <2>1, <2>2, <2>3, <1>d
<1>2. ASSUME pc' # "closed", Changes
      PROVE  /\ \A i \in start' + 1 .. NextSaved' : Reached(i)'
             /\ \A i \in start' + 1 .. cursor' : Reached(i)' \/ Tells(Queue, i)'
  <2>1. /\ pc = "closed" /\ cursor' \in Nat /\ NextSaved' = cursor'
        /\ saved # NoCursor => cursor' = saved
        /\ start = NoCursor => start' = cursor'
    BY <1>2, <1>a
    DEF Changes, NoPosition, NextSaved, CurrentVersion, CurrentMaxLSN, CurrentCTVersion
  <2>2. CASE saved = NoCursor
    <3>1. start' = cursor'
      BY <2>1, <2>2, <1>b
    <3>2. \A n \in Nat : n + 1 .. n = {}
      OBVIOUS
    <3>3. start' + 1 .. cursor' = {}
      BY <2>1, <3>1, <3>2, Zenon
    <3> QED  BY <2>1, <3>3, Zenon
  <2>3. CASE saved # NoCursor
    <3>1. /\ start # NoCursor /\ start' = start /\ start \in Nat /\ saved \in Nat
          /\ saved <= Len(log)
      BY <2>3, <1>a, <1>b, <1>d
    <3>2. \A i \in start + 1 .. saved : Reached(i) /\ i \in DOMAIN log
      BY <2>1, <2>3, <3>1, <1>a, <1>c
    <3> QED  BY <2>1, <2>3, <3>1, <3>2, <1>d
  <2> QED  BY <2>2, <2>3
<1>3. ASSUME pc' # "closed", ~Changes
      PROVE  /\ pc # "closed" /\ start # NoCursor /\ start' = start
             /\ start \in Nat /\ NextSaved' \in Nat
             /\ \A i \in start + 1 .. cursor : i \in DOMAIN log
             /\ ~FetchReturns => cursor' = cursor /\ NextSaved' = NextSaved
  BY <1>3, MovesOn
<1>4. ASSUME pc' # "closed", ~Changes
      PROVE  \A i \in start' + 1 .. NextSaved' : Reached(i)'
  <2>1. CASE FetchReturns
    <3>1. Queue = <<>>
      BY <2>1, QueueMoves
    <3>3. NextSaved' \in {cursor, saved} /\ saved \in Nat /\ saved <= cursor
      BY <2>1, <1>4, MovesOn
    <3>4. \A i \in start + 1 .. cursor : Reached(i)
      BY <3>1, <1>3, <1>4, <1>c DEF Tells
    <3> QED  BY <3>3, <3>4, <1>3, <1>4, <1>a, <1>d
  <2>2. CASE ~FetchReturns
    <3>1. \A i \in start + 1 .. NextSaved : Reached(i) /\ i \in DOMAIN log
      BY <2>2, <1>3, <1>4, <1>a, <1>b, <1>c
    <3> QED  BY <2>2, <3>1, <1>3, <1>4, <1>d
  <2> QED  BY <2>1, <2>2
<1>5. ASSUME pc' # "closed", ~Changes
      PROVE  \A i \in start' + 1 .. cursor' : Reached(i)' \/ Tells(Queue, i)'
  <2> SUFFICES ASSUME NEW i \in start' + 1 .. cursor'
               PROVE  Reached(i)' \/ Tells(Queue, i)'
    OBVIOUS
  <2>1. CASE FetchReturns
    <3>1. /\ pc = "fetch" /\ Queue = <<>> /\ Queue' = all /\ todo = <<>>
          /\ cursor' \in {cursor, upto} /\ cursor' \in Nat
          /\ cursor' # cursor => statements = "meant"
      BY <2>1, <1>a, PartsOfType, StreamAssumption, QueueMoves DEF FetchReturns, RealInv
    <3>2. /\ i \in DOMAIN log
          /\ \/ i \in start + 1 .. cursor
             \/ i \in cursor + 1 .. upto /\ statements = "meant"
      BY <3>1, <1>3, <1>5, <1>a
    <3>3. CASE i \in start + 1 .. cursor
      BY <3>1, <3>2, <3>3, <1>3, <1>5, <1>c, <1>d DEF Tells
    <3>4. CASE i \in cursor + 1 .. upto /\ statements = "meant"
      <4>1. Exempt(i) \/ Tells(all, i)
        BY <3>1, <3>4, <1>c DEF Waiting
      <4>2. Tells(all, i) => Tells(Queue, i)'
        BY <3>1, <3>2, <1>3, <1>5, <1>d DEF Tells
      <4>3. Exempt(i) => Reached(i)'
        BY <3>2, <1>3, <1>5, <1>d DEF Reached
      <4> QED  BY <4>1, <4>2, <4>3
    <3> QED  BY <3>2, <3>3, <3>4
  <2>2. CASE ~FetchReturns
    <3>1. /\ i \in start + 1 .. cursor /\ i \in DOMAIN log /\ i \in Nat
          /\ log'[i] = log[i] /\ (Reached(i) => Reached(i)')
      BY <2>2, <1>3, <1>5, <1>d
    <3>2. Reached(i) \/ Tells(Queue, i)
      BY <3>1, <1>3, <1>5, <1>c
    <3> SUFFICES ASSUME Tells(Queue, i) PROVE Reached(i)' \/ Tells(Queue, i)'
      BY <3>1, <3>2
    <3>3. PICK j \in DOMAIN Queue : Queue[j].row = log[i].row /\ Queue[j].version >= i
      BY DEF Tells
    <3>4. CASE Process
      <4>1. DOMAIN Queue' = 1 .. Len(Queue) - 1 /\ Len(Queue) \in Nat
            /\ DOMAIN Queue = 1 .. Len(Queue)
            /\ \A k \in 1 .. Len(Queue) - 1 : Queue'[k] = Queue[k + 1]
        BY <3>4, QueueMoves, QueueFacts
      <4>2. CASE j = 1
        <5>1. Real(Queue[1])
          BY <3>3, <4>2 DEF RealInv
        <5>2. log[i].row \in SubscribedRows /\ Queue[1].row = log[i].row
              /\ Queue[1].version >= i
          BY <3>3, <4>2, <5>1 DEF Real
        <5>3. /\ Queue[1].version \in Nat /\ at[log[i].row] \in Nat
              /\ at'[log[i].row] = IF Queue[1].version > at[log[i].row]
                                   THEN Queue[1].version ELSE at[log[i].row]
          BY <3>4, <5>2, <1>3, <1>5, AtGrows
        <5>4. at'[log[i].row] >= i
          BY <3>1, <5>2, <5>3
        <5> QED  BY <3>1, <5>4 DEF Reached
      <4>3. CASE j # 1
        <5>1. j - 1 \in DOMAIN Queue' /\ Queue'[j - 1] = Queue[j]
          BY <3>3, <4>1, <4>3
        <5> QED  BY <3>1, <3>3, <5>1 DEF Tells
      <4> QED  BY <4>2, <4>3
    <3>5. CASE ~Process
      <4>1. Queue' = Queue
        BY <2>2, <3>5, <1>5, QueueMoves DEF Crash
      <4> QED  BY <3>1, <3>3, <4>1 DEF Tells
    <3> QED  BY <3>4, <3>5
  <2> QED  BY <2>1, <2>2
<1>6. ASSUME pc' = "fetch", statements' = "meant"
      PROVE  \A i \in cursor' + 1 .. upto' :
               Exempt(i)' \/ log'[i].row[1] \in Waiting' \/ Tells(all, i)'
  <2> SUFFICES ASSUME NEW i \in cursor' + 1 .. upto'
               PROVE  Exempt(i)' \/ log'[i].row[1] \in Waiting' \/ Tells(all, i)'
    OBVIOUS
  <2>1. cursor' = cursor /\ start # NoCursor /\ (upto' = upto \/ upto' = Len(log))
        /\ statements = "meant"
    <3>1. pc # "closed" /\ cursor' = cursor /\ statements = "meant"
      BY <1>6 DEF Next, DBStep, StreamStep, ConsumerStep, Pop, ReadVersion, QueryTable,
           StatementFails, FetchReturns, FetchFails, PollCancelled, Changes, CallNext, Process,
           Persist, Crash, vars
    <3>2. upto' = upto \/ upto' = Len(log)
      BY <1>6 DEF Next, DBStep, StreamStep, ConsumerStep, Pop, ReadVersion, QueryTable,
           StatementFails, FetchReturns, FetchFails, PollCancelled, Changes, CallNext, Process,
           Persist, Crash, vars, CurrentVersion, CurrentMaxLSN, CurrentCTVersion
    <3> QED  BY <3>1, <3>2, <1>b
  <2>2. /\ i \in DOMAIN log /\ i \in Nat /\ log'[i] = log[i] /\ (Exempt(i) => Exempt(i)')
        /\ cursor < i /\ log[i].row \in Rows
    <3>1. i \in DOMAIN log /\ i \in Nat /\ cursor < i
      BY <2>1, <1>a
    <3> QED  BY <2>1, <3>1, <1>d, LogFacts
  <2>3. CASE ReadVersion
    <3>1. Waiting' = Subscribed
      BY <2>3, <1>6 DEF ReadVersion, Waiting, Subscribed
    <3>2. CASE log[i].row[1] \in Subscribed
      BY <2>2, <3>1, <3>2
    <3>3. CASE log[i].row[1] \notin Subscribed
      <4>1. log[i].row \notin SubscribedRows
        BY <3>3, SubscribedFacts
      <4> QED  BY <2>2, <4>1 DEF Exempt
    <3> QED  BY <3>2, <3>3
  <2>4. CASE QueryTable
    <3> DEFINE t == Head(todo)
               q == FetchForTable(t)
    <3>1. /\ pc = "fetch" /\ todo # <<>> /\ todo \in Seq(Tables)
          /\ all' = all \o q /\ todo' = Tail(todo) /\ upto' = upto /\ log' = log
      BY <2>4, PartsOfType DEF QueryTable
    <3>2. Waiting \subseteq Waiting' \cup {t}
      <4>1. /\ todo[1] = t /\ Len(todo) \in Nat /\ DOMAIN todo = 1 .. Len(todo)
            /\ DOMAIN todo' = 1 .. Len(todo) - 1
            /\ \A k \in 1 .. Len(todo) - 1 : todo'[k] = todo[k + 1]
        BY <3>1, HeadTail
      <4>2. ASSUME NEW k \in DOMAIN todo, k # 1
            PROVE  k - 1 \in DOMAIN todo' /\ todo[k] = todo'[k - 1]
        BY <4>1, <4>2
      <4> HIDE DEF t
      <4> QED  BY <4>1, <4>2 DEF Waiting
    <3>3. q \in Seq(Change)
      BY QueryFacts
    <3>4. Exempt(i) \/ log[i].row[1] \in Waiting \/ Tells(all, i)
      BY <2>1, <3>1, <1>c
    <3>5. ~Exempt(i) /\ log[i].row[1] = t => Tells(q, i)
      <4> SUFFICES ASSUME ~Exempt(i), log[i].row[1] = t PROVE Tells(q, i)
        OBVIOUS
      <4>1. i \in Records(t)
        BY <2>2, LogFacts DEF Exempt, Records
      <4>2. i <= upto
        BY <2>1, <3>1, <1>a
      <4> QED  BY <2>1, <2>2, <4>1, <4>2, QueryTells
    <3> HIDE DEF t, q
    <3>6. Tells(all, i) \/ Tells(q, i) => Tells(all \o q, i)
      BY <3>3, <1>a, TellsMore
    <3>7. Tells(all \o q, i) => Tells(all, i)'
      BY <3>1 DEF Tells
    <3> QED  BY <2>2, <3>2, <3>4, <3>5, <3>6, <3>7
  <2>5. CASE ~ReadVersion /\ ~QueryTable
    <3>1. pc = "fetch" /\ upto' = upto /\ todo' = todo /\ all' = all
      BY <2>5, <1>6 DEF Next, DBStep, StreamStep, ConsumerStep, Pop,
           StatementFails, FetchReturns, FetchFails, PollCancelled, Changes, CallNext, Process,
           Persist, Crash, vars
    <3>2. Exempt(i) \/ log[i].row[1] \in Waiting \/ Tells(all, i)
      BY <2>1, <3>1, <1>c
    <3> QED  BY <2>2, <3>1, <3>2 DEF Waiting, Tells
  <2> QED  BY <2>3, <2>4, <2>5
<1> QED
  BY <1>1, <1>2, <1>3, <1>4, <1>5, <1>6 DEF CoverInv

\* The consumer that persists the position that Cursor() has moved on from has
\* processed every change up to it, over failed fetches, failed queries in the
\* middle of a fetch, and crashes (changes.go, Changes, Next, fetchCDC and
\* fetchCT), with the statements as they are meant and as they are written.  One
\* that persists Cursor() at once has not.
THEOREM NothingSkipped ==
  ASSUME Lagged, Captured
  PROVE  Spec => []SavedIsProcessed
<1> DEFINE I == TypeInv /\ PosInv /\ RealInv /\ CoverInv
<1>1. Init => I
  BY InitType, InitPos, InitReal, InitCover
<1>2. I /\ [Next]_vars => I'
  BY NextType, NextPos, NextReal, NextCover
<1>3. I => SavedIsProcessed
  <2> SUFFICES ASSUME I, start # NoCursor, NEW i \in (start + 1) .. saved,
                      i > purged, log[i].row \in SubscribedRows
               PROVE  at[log[i].row] >= i
    BY DEF SavedIsProcessed
  <2>1. saved # NoCursor /\ saved \in Nat /\ start \in Nat
    BY LogFacts, PartsOfType DEF PosInv
  <2>2. Reached(i)
    <3>1. CASE pc = "closed"
      BY <3>1, <2>1 DEF CoverInv
    <3>2. CASE pc # "closed"
      <4>1. NextSaved \in Nat /\ saved <= NextSaved
        BY <3>2, NextSavedFacts
      <4>2. i \in start + 1 .. NextSaved
        BY <2>1, <4>1
      <4> QED  BY <3>2, <4>2 DEF CoverInv
    <3> QED  BY <3>1, <3>2
  <2>3. i \in Nat /\ purged \in Nat
    BY <2>1, LogFacts
  <2> QED  BY <2>2, <2>3 DEF Reached, Exempt
<1> QED
  BY <1>1, <1>2, <1>3, PTL DEF Spec

-----------------------------------------------------------------------------
(* Order.                                                                  *)

LEMMA EarlierShrinks ==
  ASSUME TypeInv, [Next]_vars, NEW ch, ch.version \in DOMAIN log, NEW from \in Nat,
         NEW i \in from + 1 .. ch.version - 1, i > purged', log'[i].row = ch.row
  PROVE  i \in Earlier(ch, from) /\ i \in DOMAIN log /\ i \in Nat
<1>1. i \in DOMAIN log /\ i \in Nat /\ purged \in Nat
  BY LogFacts
<1>2. log'[i] = log[i] /\ purged <= purged' /\ purged' \in Nat
  BY <1>1, LogGrows
<1> QED  BY <1>1, <1>2 DEF Earlier

LEMMA InitOrder == Init => OrderInv
BY DEF Init, OrderInv, Queue

LEMMA NextOrder ==
  ASSUME TypeInv, PosInv, RealInv, CoverInv, OrderInv, [Next]_vars
  PROVE  OrderInv'
<1> USE DEF fetchVars, streamVars, queryVars, startVars, copyVars, budgetVars, dbVars
<1>a. mechanism' = mechanism
  BY DEF Next, DBStep, StreamStep, ConsumerStep, Pop, ReadVersion, QueryTable,
         StatementFails, FetchReturns, FetchFails, PollCancelled, Changes, CallNext, Process,
         Persist, Crash, vars
<1> SUFFICES ASSUME mechanism = "cdc"
             PROVE  /\ (\A p \in DOMAIN Queue : \A i \in Earlier(Queue[p], 0) :
                          at[Queue[p].row] >= i \/ ToldBefore(Queue, p, i))'
                    /\ pc' = "fetch" =>
                         (\A p \in DOMAIN all : \A i \in Earlier(all[p], cursor) :
                            ToldBefore(all, p, i))'
  BY <1>a DEF OrderInv
<1>b. /\ \A p \in DOMAIN Queue : \A i \in Earlier(Queue[p], 0) :
           at[Queue[p].row] >= i \/ ToldBefore(Queue, p, i)
      /\ pc = "fetch" =>
           \A p \in DOMAIN all : \A i \in Earlier(all[p], cursor) : ToldBefore(all, p, i)
  BY DEF OrderInv
<1>c. /\ \A p \in DOMAIN Queue : Real(Queue[p])
      /\ \A p \in DOMAIN all : Real(all[p])
  BY DEF RealInv
<1>d. /\ Queue \in Seq(Change) /\ Len(Queue) \in Nat /\ DOMAIN Queue = 1 .. Len(Queue)
      /\ all \in Seq(Change) /\ Len(all) \in Nat /\ DOMAIN all = 1 .. Len(all)
      /\ cursor \in Nat /\ upto \in Nat
  <2>1. all \in Seq(Change)
    BY PartsOfType
  <2>2. Len(all) \in Nat /\ DOMAIN all = 1 .. Len(all)
    BY <2>1
  <2> QED  BY <2>1, <2>2, QueueFacts, LogFacts
<1>e. Queue # <<>> => pc # "closed"
  BY DEF Queue, PosInv
<1>1. (\A p \in DOMAIN Queue : \A i \in Earlier(Queue[p], 0) :
         at[Queue[p].row] >= i \/ ToldBefore(Queue, p, i))'
  <2> SUFFICES ASSUME NEW p \in DOMAIN Queue',
                      NEW i \in 0 + 1 .. Queue'[p].version - 1,
                      i > purged', log'[i].row = Queue'[p].row
               PROVE  at'[Queue'[p].row] >= i \/ ToldBefore(Queue', p, i)
    BY DEF Earlier, ToldBefore
  <2>1. CASE Process
    <3>1. /\ DOMAIN Queue' = 1 .. Len(Queue) - 1
          /\ \A k \in 1 .. Len(Queue) - 1 : Queue'[k] = Queue[k + 1]
          /\ start # NoCursor
      <4>1. pc = "got"
        BY <2>1 DEF Process
      <4> QED  BY <2>1, <4>1, QueueMoves DEF PosInv
    <3>2. p \in Nat /\ p + 1 \in DOMAIN Queue /\ Queue'[p] = Queue[p + 1]
      BY <3>1, <1>d
    <3> DEFINE ch == Queue[p + 1]
    <3>3. Real(ch)
      BY <3>2, <1>c
    <3>4. i \in Earlier(ch, 0) /\ i \in Nat
      BY <3>2, <3>3, EarlierShrinks DEF Real
    <3>5. ch.row \in SubscribedRows
      BY <3>3 DEF Real
    <3>6. at[ch.row] >= i => at'[ch.row] >= i
      BY <3>1, <3>4, <3>5, AtGrows
    <3>7. ASSUME ToldBefore(Queue, p + 1, i)
          PROVE  at'[ch.row] >= i \/ ToldBefore(Queue', p, i)
      <4>1. PICK q \in 1 .. (p + 1) - 1 : Queue[q].row = ch.row /\ Queue[q].version >= i
        BY <3>7 DEF ToldBefore
      <4>2. CASE q = 1
        <5>1. /\ Queue[1].version \in Nat
              /\ \A r \in SubscribedRows :
                   at'[r] = IF r = Queue[1].row /\ Queue[1].version > at[r]
                            THEN Queue[1].version ELSE at[r]
              /\ at[ch.row] \in Nat
          BY <2>1, <3>1, <3>5, AtGrows
        <5> HIDE DEF ch
        <5> QED  BY <3>4, <3>5, <4>1, <4>2, <5>1
      <4>3. CASE q # 1
        <5>1. q - 1 \in 1 .. p - 1 /\ q - 1 \in 1 .. Len(Queue) - 1
              /\ (q - 1) + 1 = q
          BY <3>1, <3>2, <4>1, <4>3, <1>d
        <5>2. Queue'[q - 1] = Queue[q]
          BY <3>1, <5>1
        <5> QED  BY <3>2, <4>1, <5>1, <5>2 DEF ToldBefore
      <4> QED  BY <4>2, <4>3
    <3>8. at[ch.row] >= i \/ ToldBefore(Queue, p + 1, i)
      BY <3>2, <3>4, <1>b
    <3> QED  BY <3>2, <3>6, <3>7, <3>8
  <2>2. CASE FetchReturns
    <3>1. /\ pc = "fetch" /\ Queue = <<>> /\ Queue' = all /\ at' = at
          /\ start # NoCursor
      BY <2>2, QueueMoves DEF FetchReturns, PosInv
    <3>2. Real(all[p])
      BY <3>1, <1>c
    <3>3. i \in Earlier(all[p], 0) /\ i \in DOMAIN log /\ i \in Nat
      BY <3>1, <3>2, EarlierShrinks DEF Real
    <3>4. CASE i > cursor
      <4>1. i \in Earlier(all[p], cursor)
        BY <3>2, <3>3, <3>4, <1>d, LogFacts DEF Earlier, Real
      <4> QED  BY <3>1, <4>1, <1>b
    <3>5. CASE i <= cursor
      <4> DEFINE r == all[p].row
      <4>1. r \in SubscribedRows /\ log[i].row = r /\ i > purged
        BY <3>2, <3>3 DEF Real, Earlier
      <4>2. start \in Nat /\ at[r] \in Nat /\ start <= at[r]
        BY <3>1, <4>1, AtGrows, PartsOfType DEF PosInv
      <4>3. CASE i <= start
        BY <3>1, <3>3, <4>2, <4>3
      <4>4. CASE i > start
        <5>1. Reached(i) \/ Tells(Queue, i)
          BY <3>1, <3>3, <3>5, <4>2, <4>4, <1>d DEF CoverInv
        <5>2. Reached(i)
          BY <3>1, <5>1 DEF Tells
        <5>3. ~Exempt(i)
          BY <3>3, <4>1, LogFacts DEF Exempt
        <5> QED  BY <3>1, <4>1, <5>2, <5>3 DEF Reached
      <4> QED  BY <4>2, <4>3, <4>4, <3>3
    <3> QED  BY <3>3, <3>4, <3>5, <1>d
  <2>3. CASE Crash
    BY <2>3, QueueMoves
  <2>4. CASE ~Process /\ ~FetchReturns /\ ~Crash
    <3>1. Queue' = Queue /\ Real(Queue[p]) /\ start # NoCursor
      <4>1. Queue' = Queue
        BY <2>4, QueueMoves
      <4>2. Queue # <<>>
        BY <4>1
      <4> QED  BY <4>1, <4>2, <1>c, <1>e DEF PosInv
    <3>2. i \in Earlier(Queue[p], 0) /\ i \in Nat
      BY <3>1, EarlierShrinks DEF Real
    <3>3. at[Queue[p].row] >= i => at'[Queue[p].row] >= i
      BY <3>1, <3>2, AtGrows DEF Real
    <3> QED  BY <3>1, <3>2, <3>3, <1>b
  <2> QED  BY <2>1, <2>2, <2>3, <2>4
<1>2. ASSUME pc' = "fetch"
      PROVE  (\A p \in DOMAIN all : \A i \in Earlier(all[p], cursor) :
                ToldBefore(all, p, i))'
  <2>1. CASE ReadVersion
    BY <2>1 DEF ReadVersion
  <2>2. CASE QueryTable /\ statements = "meant"
    <3> DEFINE t == Head(todo)
               q == FetchForTable(t)
    <3>1. /\ pc = "fetch" /\ all' = all \o q /\ cursor' = cursor
          /\ log' = log /\ purged' = purged
      BY <2>2 DEF QueryTable
    <3>2. /\ q \in Seq(Change) /\ Len(q) \in Nat /\ DOMAIN q = 1 .. Len(q)
          /\ \A j \in DOMAIN q : /\ q[j].version \in Nat
                                 /\ q[j].row = log[q[j].version].row /\ q[j].row[1] = t
      BY QueryFacts
    <3>3. /\ \A j \in DOMAIN q : q[j].version <= upto
          /\ \A j, k \in DOMAIN q : j < k => q[j].version < q[k].version
          /\ \A i \in Records(t) :
               cursor < i /\ i <= upto => \E j \in DOMAIN q : q[j].version = i
      BY <2>2, CDCQuery DEF FetchForTable
    <3> HIDE DEF t, q
    <3>4. /\ DOMAIN all' = 1 .. Len(all) + Len(q)
          /\ \A k \in 1 .. Len(all) : all'[k] = all[k]
          /\ \A k \in 1 .. Len(q) : all'[Len(all) + k] = q[k]
          /\ \A k \in Len(all) + 1 .. Len(all) + Len(q) :
               k - Len(all) \in 1 .. Len(q) /\ all'[k] = q[k - Len(all)]
      BY <3>1, <3>2, <1>d, ConcatFacts
    <3> SUFFICES ASSUME NEW p \in DOMAIN all', NEW i \in Earlier(all'[p], cursor)
                 PROVE  ToldBefore(all', p, i)
      BY <3>1 DEF Earlier, ToldBefore
    <3>5. CASE p \in 1 .. Len(all)
      <4>1. PICK k \in 1 .. p - 1 : all[k].row = all[p].row /\ all[k].version >= i
        BY <3>1, <3>4, <3>5, <1>b, <1>d DEF ToldBefore
      <4>2. all'[k] = all[k] /\ all'[p] = all[p]
        BY <3>4, <3>5, <4>1, <1>d
      <4> QED  BY <4>1, <4>2 DEF ToldBefore
    <3>6. CASE p \in Len(all) + 1 .. Len(all) + Len(q)
      <4> DEFINE j == p - Len(all)
      <4>1. j \in DOMAIN q /\ all'[p] = q[j] /\ j \in Nat
        BY <3>2, <3>4, <3>6, <1>d
      <4>2. i \in Nat /\ cursor < i /\ i < q[j].version /\ i > purged /\ log[i].row = q[j].row
        BY <3>2, <4>1, <1>d DEF Earlier
      <4>3. i <= upto /\ i \in DOMAIN log
        BY <3>2, <3>3, <4>1, <4>2, <1>d, LogFacts
      <4>4. i \in Records(t)
        BY <3>2, <4>1, <4>2, <4>3 DEF Records
      <4>5. PICK k \in DOMAIN q : q[k].version = i
        BY <3>3, <4>2, <4>3, <4>4
      <4>6. k < j /\ k \in Nat
        BY <3>2, <3>3, <4>1, <4>2, <4>5
      <4>7. q[k].row = q[j].row
        BY <3>2, <4>2, <4>5
      <4>8. Len(all) + k \in 1 .. p - 1 /\ all'[Len(all) + k] = q[k]
        BY <3>2, <3>4, <3>6, <4>5, <4>6, <1>d
      <4>9. q[k].version >= i
        BY <4>2, <4>5
      <4> HIDE DEF j
      <4> QED  BY <4>1, <4>7, <4>8, <4>9 DEF ToldBefore
    <3> QED  BY <3>4, <3>5, <3>6, <1>d
  <2>3. CASE ~ReadVersion /\ ~QueryTable
    <3>1. pc = "fetch" /\ cursor' = cursor /\ all' = all
      BY <2>3, <1>2 DEF Next, DBStep, StreamStep, ConsumerStep, Pop,
           StatementFails, FetchReturns, FetchFails, PollCancelled, Changes, CallNext, Process,
           Persist, Crash, vars
    <3> SUFFICES ASSUME NEW p \in DOMAIN all,
                        NEW i \in cursor + 1 .. all[p].version - 1,
                        i > purged', log'[i].row = all[p].row
                 PROVE  ToldBefore(all, p, i)
      BY <3>1 DEF Earlier, ToldBefore
    <3>2. Real(all[p])
      BY <1>c
    <3>3. i \in Earlier(all[p], cursor)
      BY <3>2, <1>d, EarlierShrinks DEF Real
    <3> QED  BY <3>1, <3>3, <1>b
  <2>4. CASE statements = "written"
    <3>1. all = <<>> /\ statements' = statements
      BY <2>4 DEF RealInv, Next, DBStep, StreamStep, ConsumerStep, Pop, ReadVersion,
           QueryTable, StatementFails, FetchReturns, FetchFails, PollCancelled, Changes,
           CallNext, Process, Persist, Crash, vars
    <3>2. all' = <<>>
      BY <2>4, <3>1, NextReal DEF RealInv
    <3> QED  BY <3>2
  <2> QED  BY <2>1, <2>2, <2>3, <2>4, PartsOfType, StreamAssumption
<1> QED  BY <1>1, <1>2

-----------------------------------------------------------------------------
(* The stream is a feed.                                                   *)

LEMMA FeedInit == Init => SubscribedFeed!Init
BY DEF Init, DBInit, SubscribedFeed!Init

LEMMA FeedStep ==
  ASSUME TypeInv, PosInv, RealInv, OrderInv, [Next]_vars
  PROVE  [SubscribedFeed!Next]_SubscribedFeed!vars
<1> USE DEF fetchVars, streamVars, queryVars, startVars, copyVars, budgetVars, dbVars
<1>1. ASSUME NEW r \in Rows, NEW op \in Ops, CommitChange(r, op),
             UNCHANGED <<pc, streamVars, saved, known, startVars, copyVars, budgetVars>>
      PROVE  SubscribedFeed!Commit
  <2> DEFINE x == [row |-> r, op |-> op]
  <2>1. log' = Append(log, x) /\ purged' = purged
    BY <1>1 DEF CommitChange
  <2>2. x \in CommitRecord
    BY SourceDBAssumption DEF CommitRecord
  <2>3. log \in Seq(CommitRecord) /\ Len(log) \in Nat
    BY LogFacts
  <2> HIDE DEF x
  <2>4. Len(log') = Len(log) + 1 /\ log' # log
    BY <2>1, <2>2, <2>3
  <2>5. log = SubSeq(log', 1, Len(log))
    <3>1. /\ log' \in Seq(CommitRecord) /\ Len(log) <= Len(log')
          /\ \A i \in 1 .. Len(log) : log'[i] = log[i]
      BY <2>1, <2>2, <2>3
    <3>2. SubSeq(log', 1, Len(log)) = [i \in 1 .. Len(log) |-> log'[i]]
      BY <2>3, <3>1
    <3>3. log = [i \in 1 .. Len(log) |-> log[i]]
      BY <2>3
    <3> QED  BY <3>1, <3>2, <3>3
  <2> QED  BY <1>1, <2>1, <2>4, <2>5 DEF SubscribedFeed!Commit
<1>2. CASE Cleanup /\ UNCHANGED <<pc, streamVars, saved, known, startVars, copyVars,
                                  budgetVars>>
  <2>1. purged' \in (purged + 1) .. Len(log)
    BY <1>2, LogFacts, SourceDBAssumption DEF Cleanup
  <2>2. log' = log /\ mechanism' = mechanism /\ start' = start /\ at' = at
    BY <1>2 DEF Cleanup
  <2> QED  BY <2>1, <2>2 DEF SubscribedFeed!Discard, SubscribedFeed!Next
<1>3. CASE Changes
  <2>1. CASE start = NoCursor
    <3>1. saved = NoCursor
      BY <2>1 DEF PosInv
    <3>2. /\ start' = Len(log) /\ at' = [r \in SubscribedRows |-> Len(log)]
          /\ log' = log /\ purged' = purged /\ mechanism' = mechanism
      BY <1>3, <2>1, <3>1
      DEF Changes, NoPosition, CurrentVersion, CurrentMaxLSN, CurrentCTVersion
    <3> QED  BY <2>1, <3>2 DEF SubscribedFeed!Start, SubscribedFeed!Next
  <2>2. CASE start # NoCursor
    BY <1>3, <2>2 DEF Changes, SubscribedFeed!vars
  <2> QED  BY <2>1, <2>2 DEF SubscribedFeed!Next
<1>4. CASE Process
  <2> DEFINE ch == Queue[1]
             r  == ch.row
             i  == ch.version
  <2>1. /\ Len(Queue) > 0 /\ Len(Queue) \in Nat /\ DOMAIN Queue = 1 .. Len(Queue)
        /\ start # NoCursor /\ UNCHANGED <<dbVars, startVars>>
    <3>1. pc = "got" /\ UNCHANGED <<dbVars, startVars>>
      BY <1>4 DEF Process
    <3> QED  BY <1>4, <3>1, QueueMoves, QueueFacts DEF PosInv
  <2>2. 1 \in DOMAIN Queue
    BY <2>1
  <2>3. /\ r \in SubscribedRows /\ i \in DOMAIN log /\ log[i].row = r
    BY <2>2 DEF RealInv, Real
  <2>4. /\ i \in Nat
        /\ \A s \in SubscribedRows :
             at[s] \in Nat /\ at'[s] = IF s = r /\ i > at[s] THEN i ELSE at[s]
    BY <1>4, <2>1, AtGrows
  <2>5. DOMAIN at = SubscribedRows /\ DOMAIN at' = SubscribedRows
        /\ at = [s \in SubscribedRows |-> at[s]] /\ at' = [s \in SubscribedRows |-> at'[s]]
    <3>1. at \in [SubscribedRows -> Versions]
      BY PartsOfType
    <3>2. at' \in [SubscribedRows -> Versions]
      BY NextType DEF TypeInv, TypeOK
    <3> QED  BY <3>1, <3>2
  <2>6. ASSUME mechanism = "cdc",
               NEW j \in DOMAIN log, log[j].row = r, j > at[r], j > purged, j < i
        PROVE  FALSE
    <3>1. j \in Nat /\ j \in 0 + 1 .. i - 1
      BY <2>4, <2>6, LogFacts
    <3>2. j \in Earlier(ch, 0)
      BY <2>6, <3>1 DEF Earlier
    <3>3. at[r] >= j \/ ToldBefore(Queue, 1, j)
      BY <2>2, <2>6, <3>2 DEF OrderInv
    <3>4. ~ToldBefore(Queue, 1, j)
      BY DEF ToldBefore
    <3> QED  BY <2>3, <2>4, <2>6, <3>1, <3>3, <3>4
  <2> HIDE DEF ch, r, i
  <2>7. CASE i > at[r]
    <3>1. at' = [at EXCEPT ![r] = i]
      BY <2>3, <2>4, <2>5, <2>7
    <3>2. i \in SubscribedFeed!Later(r)
      BY <2>3, <2>7 DEF SubscribedFeed!Later
    <3>3. (mechanism = "cdc") => \A j \in SubscribedFeed!Kept(r) : i <= j
      <4> SUFFICES ASSUME mechanism = "cdc", NEW j \in SubscribedFeed!Kept(r)
                   PROVE  i <= j
        OBVIOUS
      <4>1. j \in DOMAIN log /\ log[j].row = r /\ j > at[r] /\ j > purged
        BY DEF SubscribedFeed!Kept, SubscribedFeed!Later
      <4>2. j \in Nat
        BY <4>1, LogFacts
      <4> QED  BY <2>4, <2>6, <4>1, <4>2
    <3>4. SubscribedFeed!Deliver(r)
      BY <2>1, <3>1, <3>2, <3>3 DEF SubscribedFeed!Deliver
    <3> QED  BY <2>3, <3>4 DEF SubscribedFeed!Next
  <2>8. CASE ~(i > at[r])
    <3>1. at' = at
      BY <2>4, <2>5, <2>8
    <3> QED  BY <2>1, <3>1 DEF SubscribedFeed!vars
  <2> QED  BY <2>7, <2>8
<1>5. CASE ~DBStep /\ ~Changes /\ ~Process
  <2>1. UNCHANGED <<mechanism, log, purged, start, at>>
    BY <1>5 DEF Next, StreamStep, ConsumerStep, Pop, ReadVersion, QueryTable,
         StatementFails, FetchReturns, FetchFails, PollCancelled, CallNext, Persist, Crash, vars
  <2> QED  BY <2>1 DEF SubscribedFeed!vars
<1>6. CASE DBStep
  BY <1>6, <1>1, <1>2 DEF DBStep, SubscribedFeed!Next
<1> QED  BY <1>3, <1>4, <1>5, <1>6

\* The stream implements the feed that connector.go promises, but for its
\* liveness: the changes of a row come forwards only, and CDC leaves out none
\* that is kept, whatever fails or goes down in between.
THEOREM ImplementsFeed ==
  ASSUME Lagged, Captured
  PROVE  Spec => FeedSpec
<1> DEFINE I == TypeInv /\ PosInv /\ RealInv /\ CoverInv /\ OrderInv
<1>1. Init => I
  BY InitType, InitPos, InitReal, InitCover, InitOrder
<1>2. I /\ [Next]_vars => I'
  BY NextType, NextPos, NextReal, NextCover, NextOrder
<1>3. I /\ [Next]_vars => [SubscribedFeed!Next]_SubscribedFeed!vars
  BY FeedStep
<1> QED
  BY <1>1, <1>2, <1>3, FeedInit, PTL DEF Spec, FeedSpec, SubscribedFeed!Spec

-----------------------------------------------------------------------------
(* The rows.                                                               *)

LEMMA FreshEarlier ==
  ASSUME NEW r, NEW c, NEW p \in Nat, NEW u \in Nat, p <= u, Len(log) \in Nat
  PROVE  Fresh(r, c, u) => Fresh(r, c, p)
BY DEF Fresh

LEMMA LeavesEarlier ==
  ASSUME NEW ch, NEW p \in Nat, NEW u \in Nat, p <= u, Len(log) \in Nat
  PROVE  Leaves(ch, u) => Leaves(ch, p)
<1>1. \A v \in u .. Len(log) : v \in p .. Len(log)
  OBVIOUS
<1> QED  BY <1>1 DEF Leaves, Fresh

\* What a query says of a row is true of it: with CDC of its version, and of
\* the end of the window if it is the last; with Change Tracking of now.
LEMMA QueryLeaves ==
  ASSUME TypeInv, statements = "meant", cursor <= upto,
         NEW t, NEW q, q = FetchForTable(t), NEW j \in DOMAIN q
  PROVE  Leaves(q[j], cursor) /\ (LastOf(q, j) => Leaves(q[j], upto))
<1> DEFINE i == q[j].version
           r == q[j].row
<1>1. /\ q \in Seq(Change) /\ DOMAIN q = 1 .. Len(q) /\ Len(q) \in Nat
      /\ \A k \in DOMAIN q : q[k].version \in Nat /\ q[k].row = log[q[k].version].row
      /\ i \in DOMAIN log /\ i \in Nat /\ i > cursor /\ i > purged
      /\ r = log[i].row /\ r[1] = t
  BY QueryFacts
<1>2. /\ cursor \in Nat /\ upto \in Nat /\ upto <= Len(log) /\ cursor <= Len(log)
      /\ Len(log) \in Nat /\ DOMAIN log = 1 .. Len(log) /\ purged \in Nat
  BY LogFacts
<1>3. CASE mechanism = "cdc"
  <2>1. /\ i <= upto /\ q[j] = ScanCDCRow(i)
        /\ \A k, m \in DOMAIN q : k < m => q[k].version < q[m].version
        /\ \A w \in Records(t) :
             cursor < w /\ w <= upto => \E k \in DOMAIN q : q[k].version = w
    BY <1>3, CDCQuery DEF FetchForTable
  <2>2. q[j].pk # "nulls" /\ q[j].content = IF log[i].op = "delete" THEN 0 ELSE i
    <3> DEFINE ch == q[j]
    <3>1. ch = ScanCDCRow(i)
      BY <2>1
    <3> HIDE DEF ch, i
    <3> SUFFICES ch.pk # "nulls" /\ ch.content = IF log[i].op = "delete" THEN 0 ELSE i
      BY DEF ch
    <3> QED  BY <3>1 DEF ScanCDCRow
  <2>3. ASSUME NEW u \in i .. Len(log), \A w \in Writes(r, u) : w <= i
        PROVE  q[j].content = Content(r, u)
    <3>1. u \in Nat /\ i \in Writes(r, u)
      BY <1>1, <1>2 DEF Writes
    <3> HIDE DEF i, r
    <3> QED  BY <2>2, <2>3, <3>1, ContentIs
  <2>4. Leaves(q[j], cursor)
    <3>1. \A w \in Writes(r, i) : w <= i
      BY DEF Writes
    <3>2. i \in i .. Len(log) /\ i \in cursor .. Len(log)
      BY <1>1, <1>2
    <3>3. q[j].content = Content(r, i)
      BY <2>3, <3>1, <3>2
    <3> HIDE DEF i
    <3> QED  BY <2>2, <3>2, <3>3 DEF Leaves, Fresh
  <2>5. ASSUME LastOf(q, j) PROVE Leaves(q[j], upto)
    <3>1. ASSUME NEW w \in Writes(r, upto), w > i PROVE FALSE
      <4>1. w \in DOMAIN log /\ log[w].row = r /\ w <= upto /\ w \in Nat
        BY <1>2 DEF Writes
      <4>2. w \in Records(t) /\ cursor < w
        BY <1>1, <1>2, <3>1, <4>1 DEF Records
      <4>3. PICK k \in DOMAIN q : q[k].version = w
        BY <2>1, <4>1, <4>2
      <4>4. q[k].row = r
        BY <1>1, <4>1, <4>3
      <4>5. ~(k < j) /\ k # j /\ k \in Nat /\ j \in Nat
        BY <1>1, <2>1, <3>1, <4>3
      <4> QED  BY <2>5, <4>4, <4>5 DEF LastOf
    <3>2. upto \in i .. Len(log) /\ upto \in upto .. Len(log)
      BY <1>1, <1>2, <2>1
    <3>3. \A w \in Writes(r, upto) : w \in Nat
      BY DEF Writes
    <3>4. \A w \in Writes(r, upto) : w <= i
      BY <1>1, <3>1, <3>3
    <3>5. q[j].content = Content(r, upto)
      BY <2>3, <3>2, <3>4
    <3> QED  BY <2>2, <3>2, <3>5 DEF Leaves, Fresh
  <2> QED  BY <2>4, <2>5
<1>4. CASE mechanism # "cdc"
  <2>1. mechanism = "ct"
    BY <1>4, PartsOfType, StreamAssumption
  <2>2. q[j] = ScanCTRow(i)
    BY <1>4, CTQuery DEF FetchForTable
  <2>3. /\ q[j].content = Content(r, Len(log))
        /\ q[j].pk = "nulls" => Content(r, Len(log)) = 0
    <3> DEFINE ch == q[j]
    <3>1. ch = ScanCTRow(i) /\ r = log[i].row
      BY <1>1, <2>2
    <3> HIDE DEF ch, i, r
    <3> SUFFICES /\ ch.content = Content(r, Len(log))
                 /\ ch.pk = "nulls" => Content(r, Len(log)) = 0
      BY DEF ch
    <3> QED  BY <3>1 DEF ScanCTRow
  <2>4. ASSUME NEW p \in {cursor, upto} PROVE Leaves(q[j], p)
    <3>1. Len(log) \in p .. Len(log)
      BY <1>2
    <3> QED  BY <2>1, <2>3, <3>1 DEF Leaves, Fresh, Untold
  <2> QED  BY <2>4
<1> QED  BY <1>3, <1>4

\* A row that a query does not find has stayed as it was, or its last change
\* has been cleaned up.
LEMMA QueryAbsent ==
  ASSUME TypeInv, statements = "meant", cursor <= upto,
         NEW t, NEW q, q = FetchForTable(t),
         NEW r, r[1] = t, Absent(q, r), NEW c, Fresh(r, c, cursor)
  PROVE  Fresh(r, c, upto)
<1> DEFINE E == IF mechanism = "cdc" THEN upto ELSE Len(log)
<1>1. /\ cursor \in Nat /\ upto \in Nat /\ upto <= Len(log) /\ cursor <= Len(log)
      /\ Len(log) \in Nat /\ DOMAIN log = 1 .. Len(log) /\ purged \in Nat
  BY LogFacts
<1>2. E \in Nat /\ upto <= E /\ E <= Len(log)
  BY <1>1
<1>3. /\ \A k \in DOMAIN q : q[k].row = log[q[k].version].row
  BY QueryFacts
<1>4. PICK v \in cursor .. Len(log) : c = Content(r, v) \/ Untold(r, v)
  BY DEF Fresh
<1>5. ASSUME Writes(r, E) # {}, Max(Writes(r, E)) > cursor
      PROVE  Max(Writes(r, E)) <= purged
  <2> DEFINE m == Max(Writes(r, E))
  <2>1. m \in Writes(r, E) /\ m \in 1 .. E
    BY <1>2, <1>5, WritesMax
  <2> SUFFICES ASSUME m > purged PROVE FALSE
    BY <1>1, <2>1
  <2>2. m \in DOMAIN log /\ log[m].row = r /\ m \in Nat
    BY <1>1, <1>2, <2>1 DEF Writes
  <2>3. m \in Records(t)
    BY <2>2 DEF Records
  <2>4. \E k \in DOMAIN q : q[k].version = m
    <3>1. CASE mechanism = "cdc"
      <4>1. m <= upto /\ cursor < m
        BY <1>1, <1>5, <2>1, <3>1
      <4> HIDE DEF m
      <4> QED  BY <2>3, <3>1, <4>1, CDCQuery DEF FetchForTable
    <3>2. CASE mechanism # "cdc"
      <4>1. m = Max(Writes(log[m].row, Len(log))) /\ cursor < m
        BY <1>1, <1>5, <2>1, <2>2, <3>2
      <4> HIDE DEF m
      <4> QED  BY <2>3, <3>2, <4>1, CTQuery DEF FetchForTable
    <3> QED  BY <3>1, <3>2
  <2> HIDE DEF m
  <2> QED  BY <1>3, <2>2, <2>4 DEF Absent
<1> HIDE DEF E
<1>6. CASE Writes(r, E) # {} /\ Max(Writes(r, E)) > cursor
  <2>1. Untold(r, E)
    BY <1>2, <1>5, <1>6, WritesMax DEF Untold
  <2> QED  BY <1>1, <1>2, <2>1 DEF Fresh
<1>7. CASE ~(Writes(r, E) # {} /\ Max(Writes(r, E)) > cursor)
  <2>1. \A i \in cursor + 1 .. E : log[i].row # r
    <3> SUFFICES ASSUME NEW i \in cursor + 1 .. E, log[i].row = r PROVE FALSE
      OBVIOUS
    <3>1. i \in Writes(r, E)
      BY <1>1, <1>2 DEF Writes
    <3>2. i <= Max(Writes(r, E)) /\ Max(Writes(r, E)) \in 1 .. E
      BY <1>2, <3>1, WritesMax
    <3> QED  BY <1>1, <1>2, <1>7, <3>1, <3>2
  <2>2. CASE v >= upto
    BY <1>1, <1>4, <2>2 DEF Fresh
  <2>3. CASE v < upto
    <3>1. v \in Nat /\ v <= E /\ \A i \in v + 1 .. E : log[i].row # r
      BY <1>1, <1>2, <2>1, <2>3
    <3>2. Writes(r, E) = Writes(r, v) /\ Content(r, E) = Content(r, v)
      BY <1>2, <3>1, ContentStays
    <3>3. c = Content(r, E) \/ Untold(r, E)
      BY <1>4, <3>2 DEF Untold
    <3> QED  BY <1>1, <1>2, <3>3 DEF Fresh
  <2> QED  BY <1>1, <2>2, <2>3
<1> QED  BY <1>6, <1>7

\* The past of the source stays what it was.
LEMMA FreshStays ==
  ASSUME TypeInv, [Next]_vars, NEW r, NEW p \in Nat
  PROVE  /\ \A v \in p .. Len(log) :
              /\ v \in p .. Len(log')
              /\ Content(r, v)' = Content(r, v)
              /\ Untold(r, v) => Untold(r, v)'
         /\ \A c : Fresh(r, c, p) => Fresh(r, c, p)'
<1> USE DEF fetchVars, streamVars, queryVars, startVars, copyVars, budgetVars, dbVars
<1>1. mechanism' = mechanism
  BY DEF Next, DBStep, StreamStep, ConsumerStep, Pop, ReadVersion, QueryTable,
         StatementFails, FetchReturns, FetchFails, PollCancelled, Changes, CallNext, Process,
         Persist, Crash, vars
<1>2. Len(log) \in Nat /\ Len(log') \in Nat /\ Len(log) <= Len(log') /\ purged <= purged'
      /\ log \in Seq(CommitRecord) /\ purged \in Nat /\ purged' \in Nat
  BY LogGrows, LogFacts
<1>3. log' = log \/ \E x : log' = Append(log, x)
  BY LogGrows DEF DBStep, CommitChange, Cleanup
<1>4. ASSUME NEW v \in p .. Len(log)
      PROVE  /\ v \in p .. Len(log')
             /\ Writes(r, v)' = Writes(r, v) /\ Content(r, v)' = Content(r, v)
  <2>1. v \in 0 .. Len(log) /\ v \in p .. Len(log')
    BY <1>2
  <2>2. CASE log' = log
    BY <2>1, <2>2 DEF Writes, Content
  <2>3. CASE \E x : log' = Append(log, x)
    BY <1>2, <2>1, <2>3, PastStays
  <2> QED  BY <1>3, <2>1, <2>2, <2>3
<1>5. ASSUME NEW v \in p .. Len(log), Untold(r, v)
      PROVE  Untold(r, v)'
  <2>1. \A i \in Writes(r, v) : i \in Nat
    BY DEF Writes
  <2> QED  BY <1>1, <1>2, <1>4, <1>5, <2>1 DEF Untold
<1>6. \A c : Fresh(r, c, p) => Fresh(r, c, p)'
  BY <1>4, <1>5 DEF Fresh
<1> QED  BY <1>4, <1>5, <1>6

LEMMA LeavesStays ==
  ASSUME TypeInv, [Next]_vars, NEW ch, NEW p \in Nat, Leaves(ch, p)
  PROVE  Leaves(ch, p)'
BY FreshStays DEF Leaves, Fresh

LEMMA InitFresh == Init => FreshInv
BY DEF Init, FreshInv, SavedFresh, QueueFresh, FetchFresh

LEMMA NextFresh ==
  ASSUME Lagged, Captured, TypeInv, PosInv, RealInv, FreshInv, [Next]_vars
  PROVE  FreshInv'
<1> USE DEF fetchVars, streamVars, queryVars, startVars, copyVars, budgetVars, dbVars
<1>a. /\ Len(log) \in Nat /\ cursor \in Nat /\ known \in Nat /\ upto \in Nat
      /\ cursor <= Len(log) /\ upto <= Len(log) /\ NoCursor \notin Nat
      /\ saved # NoCursor => saved \in Nat /\ saved <= Len(log)
      /\ Queue \in Seq(Change) /\ Len(Queue) \in Nat /\ DOMAIN Queue = 1 .. Len(Queue)
      /\ all \in Seq(Change) /\ Len(all) \in Nat /\ DOMAIN all = 1 .. Len(all)
      /\ replica \in [SubscribedRows -> Versions]
  <2>1. saved # NoCursor => saved \in Nat /\ saved <= Len(log)
    BY LogFacts, PartsOfType
  <2>2. all \in Seq(Change)
    BY PartsOfType
  <2>3. Len(all) \in Nat /\ DOMAIN all = 1 .. Len(all)
    BY <2>2
  <2> QED  BY <2>1, <2>2, <2>3, LogFacts, PartsOfType, QueueFacts, StreamAssumption
<1>b. /\ pc # "closed" =>
           /\ saved # NoCursor /\ NextSaved \in Nat /\ saved <= NextSaved
           /\ NextSaved <= cursor
      /\ pc = "fetch" => cursor <= upto /\ Queue = <<>> /\ known = cursor
  BY NextSavedFacts DEF PosInv, Queue
<1>c. /\ saved # NoCursor => \A r \in SubscribedRows :
           Fresh(r, replica[r], IF pc = "closed" THEN saved ELSE NextSaved)
      /\ pc # "closed" => \A r \in SubscribedRows :
           Absent(Queue, r) => Fresh(r, replica[r], cursor)
      /\ pc # "closed" => \A i \in DOMAIN Queue :
           Leaves(Queue[i], NextSaved) /\ (LastOf(Queue, i) => Leaves(Queue[i], cursor))
      /\ pc = "fetch" /\ statements = "meant" => \A r \in SubscribedRows :
           r[1] \notin Waiting /\ Absent(all, r) => Fresh(r, replica[r], upto)
      /\ pc = "fetch" /\ statements = "meant" => \A i \in DOMAIN all :
           Leaves(all[i], cursor) /\ (LastOf(all, i) => Leaves(all[i], upto))
  BY DEF FreshInv, SavedFresh, QueueFresh, FetchFresh
<1>d. /\ \A r, c : \A p \in Nat : Fresh(r, c, p) => Fresh(r, c, p)'
      /\ \A ch : \A p \in Nat : Leaves(ch, p) => Leaves(ch, p)'
  BY FreshStays, LeavesStays
<1>e. ASSUME Process
      PROVE  /\ pc # "closed" /\ pc' # "closed" /\ pc' # "fetch"
             /\ NextSaved' = NextSaved /\ cursor' = cursor /\ Len(Queue) > 0
             /\ replica' = IF Queue[1].pk = "nulls" THEN replica
                           ELSE [replica EXCEPT ![Queue[1].row] = Queue[1].content]
  <2>1. /\ pc = "got" /\ pc' = "handled" /\ cursor' = cursor /\ known' = known
        /\ saved' = saved /\ Head(out) = Queue[1] /\ Len(Queue) > 0
    BY <1>e, QueueMoves DEF Process
  <2>2. replica' = IF Head(out).pk = "nulls" THEN replica
                   ELSE [replica EXCEPT ![Head(out).row] = Head(out).content]
    BY <1>e DEF Process
  <2>3. NextSaved' = NextSaved
    BY <2>1 DEF NextSaved
  <2>4. pc # "closed" /\ pc' # "closed" /\ pc' # "fetch"
    BY <2>1
  <2> HIDE DEF Queue
  <2> QED  BY <2>1, <2>2, <2>3, <2>4, Zenon
<1>1. (saved # NoCursor => \A r \in SubscribedRows :
         Fresh(r, replica[r], IF pc = "closed" THEN saved ELSE NextSaved))'
  <2> SUFFICES ASSUME saved' # NoCursor, NEW r \in SubscribedRows
               PROVE  Fresh(r, replica[r], IF pc = "closed" THEN saved ELSE NextSaved)'
    OBVIOUS
  <2>1. CASE pc' = "closed"
    <3>1. saved' = saved /\ replica' = replica /\ (pc = "closed" \/ Crash)
      BY <2>1 DEF Next, DBStep, StreamStep, ConsumerStep, Pop, ReadVersion, QueryTable,
           StatementFails, FetchReturns, FetchFails, PollCancelled, Changes, CallNext, Process,
           Persist, Crash, vars
    <3>2. Fresh(r, replica[r], saved)
      <4>1. CASE pc = "closed"
        BY <3>1, <4>1, <1>c
      <4>2. CASE pc # "closed"
        BY <3>1, <4>2, <1>a, <1>b, <1>c, FreshEarlier
      <4> QED  BY <4>1, <4>2
    <3>3. Fresh(r, replica[r], saved)'
      BY <3>1, <3>2, <1>a, <1>d DEF Fresh
    <3> QED  BY <2>1, <3>3
  <2>2. CASE Changes
    <3>1. /\ pc = "closed" /\ pc' = "idle" /\ cursor' \in Nat /\ NextSaved' = cursor'
          /\ log' = log /\ cursor' <= Len(log)
          /\ saved # NoCursor => cursor' = saved /\ replica' = replica
          /\ saved = NoCursor => replica' = [s \in SubscribedRows |-> Content(s, cursor')]
      BY <2>2, <1>a
      DEF Changes, NoPosition, NextSaved, CurrentVersion, CurrentMaxLSN, CurrentCTVersion, PosInv
    <3>3. CASE saved # NoCursor
      <4>1. Fresh(r, replica[r], saved)
        BY <3>1, <3>3, <1>c
      <4>2. Fresh(r, replica[r], NextSaved)'
        BY <3>1, <3>3, <4>1, <1>a, <1>d DEF Fresh
      <4> QED  BY <3>1, <4>2
    <3>4. CASE saved = NoCursor
      <4>1. replica'[r] = Content(r, cursor') /\ cursor' \in cursor' .. Len(log')
        BY <3>1, <3>4, <1>a
      <4>2. Content(r, cursor)' = Content(r, cursor')
        BY <3>1 DEF Content, Writes
      <4>3. Fresh(r, replica[r], NextSaved)'
        BY <3>1, <4>1, <4>2 DEF Fresh
      <4> QED  BY <3>1, <4>3
    <3> QED  BY <3>3, <3>4
  <2>3. CASE pc' # "closed" /\ ~Changes
    <3>1. Fresh(r, replica'[r], NextSaved')
      <4>1. CASE FetchReturns
        <5>1. /\ Queue = <<>> /\ pc # "closed" /\ replica' = replica
              /\ NextSaved' \in {cursor, saved} /\ saved \in Nat /\ saved <= cursor
          BY <2>3, <4>1, QueueMoves, MovesOn DEF FetchReturns
        <5>2. Fresh(r, replica[r], cursor)
          BY <5>1, <1>c DEF Absent
        <5> QED  BY <5>1, <5>2, <1>a, FreshEarlier
      <4>2. CASE Process
        <5>1. /\ pc # "closed" /\ NextSaved' = NextSaved /\ Len(Queue) > 0
              /\ replica' = IF Queue[1].pk = "nulls" THEN replica
                            ELSE [replica EXCEPT ![Queue[1].row] = Queue[1].content]
          BY <4>2, <1>e
        <5>2. Fresh(r, replica[r], NextSaved)
          BY <5>1, <1>b, <1>c
        <5>3. Leaves(Queue[1], NextSaved)
          BY <5>1, <1>a, <1>c
        <5>4. CASE r = Queue[1].row /\ Queue[1].pk # "nulls"
          <6>1. replica'[r] = Queue[1].content
            BY <5>1, <5>4, <1>a
          <6> QED  BY <5>1, <5>3, <5>4, <6>1 DEF Leaves
        <5>5. CASE ~(r = Queue[1].row /\ Queue[1].pk # "nulls")
          <6>1. replica'[r] = replica[r]
            BY <5>1, <5>5, <1>a
          <6> QED  BY <5>1, <5>2, <6>1
        <5> QED  BY <5>4, <5>5
      <4>3. CASE ~FetchReturns /\ ~Process
        <5>1. NextSaved' = NextSaved /\ pc # "closed"
          BY <2>3, <4>3, MovesOn
        <5>2. replica' = replica
          BY <2>3, <4>3 DEF Next, DBStep, StreamStep, ConsumerStep, Pop, ReadVersion,
             QueryTable, StatementFails, FetchFails, PollCancelled, CallNext, Persist, Crash, vars
        <5> QED  BY <5>1, <5>2, <1>b, <1>c
      <4> QED  BY <4>1, <4>2, <4>3
    <3>2. NextSaved' \in Nat
      BY <2>3, MovesOn
    <3>3. Fresh(r, replica[r], NextSaved)'
      BY <3>1, <3>2, <1>d DEF Fresh
    <3> QED  BY <2>3, <3>3
  <2> QED  BY <2>1, <2>2, <2>3
<1>2. ASSUME pc' # "closed"
      PROVE  (\A r \in SubscribedRows : Absent(Queue, r) => Fresh(r, replica[r], cursor))'
  <2> SUFFICES ASSUME NEW r \in SubscribedRows, Absent(Queue', r)
               PROVE  Fresh(r, replica[r], cursor)'
    BY DEF Absent
  <2>1. CASE Changes
    <3>1. NextSaved' = cursor' /\ saved' # NoCursor
      BY <2>1, <1>a DEF Changes, NoPosition, NextSaved, CurrentVersion, CurrentMaxLSN,
                        CurrentCTVersion
    <3> QED  BY <1>1, <1>2, <3>1 DEF Fresh
  <2>2. CASE FetchReturns
    <3>1. /\ pc = "fetch" /\ todo = <<>> /\ replica' = replica
          /\ cursor' \in {cursor, upto} /\ (cursor' = cursor \/ all # <<>>)
          /\ Queue = <<>> /\ Queue' = all
          /\ statements = "meant" \/ all = <<>>
      BY <2>2, QueueMoves, PartsOfType, StreamAssumption DEF FetchReturns, RealInv
    <3>2. Fresh(r, replica[r], cursor')
      <4>1. CASE cursor' = cursor
        BY <3>1, <4>1, <1>c DEF Absent
      <4>2. CASE cursor' = upto
        BY <3>1, <4>2, <1>c DEF Absent, Waiting
      <4> QED  BY <3>1, <4>1, <4>2
    <3> QED  BY <3>1, <3>2, <1>a, <1>d DEF Fresh
  <2>3. CASE Process
    <3>1. /\ pc # "closed" /\ cursor' = cursor /\ Len(Queue) > 0
          /\ replica' = IF Queue[1].pk = "nulls" THEN replica
                        ELSE [replica EXCEPT ![Queue[1].row] = Queue[1].content]
          /\ DOMAIN Queue' = 1 .. Len(Queue) - 1
          /\ \A i \in 1 .. Len(Queue) - 1 : Queue'[i] = Queue[i + 1]
      BY <2>3, <1>e, QueueMoves
    <3>2. \A i \in DOMAIN Queue : i > 1 => Queue[i].row # r
      <4> SUFFICES ASSUME NEW i \in DOMAIN Queue, i > 1 PROVE Queue[i].row # r
        OBVIOUS
      <4>1. i - 1 \in DOMAIN Queue' /\ Queue'[i - 1] = Queue[i]
        BY <3>1, <1>a
      <4> QED  BY <4>1 DEF Absent
    <3>3. Fresh(r, replica'[r], cursor)
      <4>1. CASE r # Queue[1].row
        <5>1. Absent(Queue, r)
          BY <3>2, <4>1, <1>a DEF Absent
        <5>2. replica'[r] = replica[r]
          BY <3>1, <4>1, <1>a
        <5> QED  BY <3>1, <5>1, <5>2, <1>c
      <4>2. CASE r = Queue[1].row
        <5>1. LastOf(Queue, 1) /\ 1 \in DOMAIN Queue
          BY <3>1, <3>2, <4>2, <1>a DEF LastOf
        <5>2. Leaves(Queue[1], cursor)
          BY <3>1, <5>1, <1>c
        <5>3. CASE Queue[1].pk = "nulls"
          BY <3>1, <4>2, <5>2, <5>3 DEF Leaves, Fresh
        <5>4. CASE Queue[1].pk # "nulls"
          <6>1. replica'[r] = Queue[1].content
            BY <3>1, <4>2, <5>4, <1>a
          <6> QED  BY <4>2, <5>2, <5>4, <6>1 DEF Leaves
        <5> QED  BY <5>3, <5>4
      <4> QED  BY <4>1, <4>2
    <3> QED  BY <3>1, <3>3, <1>a, <1>d DEF Fresh
  <2>4. CASE ~Changes /\ ~FetchReturns /\ ~Process
    <3>1. pc # "closed" /\ cursor' = cursor
      BY <1>2, <2>4, MovesOn
    <3>2. replica' = replica /\ Queue' = Queue
      <4>1. ~Crash
        BY <1>2 DEF Crash
      <4>2. Queue' = Queue
        BY <2>4, <4>1, QueueMoves
      <4>3. replica' = replica
        BY <2>4 DEF Next, DBStep, StreamStep, ConsumerStep, Pop, ReadVersion,
             QueryTable, StatementFails, FetchFails, PollCancelled, CallNext, Persist, Crash, vars
      <4> QED  BY <4>2, <4>3
    <3>3. Fresh(r, replica[r], cursor)
      BY <3>1, <3>2, <1>c
    <3> QED  BY <3>1, <3>2, <3>3, <1>a, <1>d DEF Fresh
  <2> QED  BY <2>1, <2>2, <2>3, <2>4
<1>3. ASSUME pc' # "closed"
      PROVE  (\A i \in DOMAIN Queue : /\ Leaves(Queue[i], NextSaved)
                                      /\ LastOf(Queue, i) => Leaves(Queue[i], cursor))'
  <2> SUFFICES ASSUME NEW i \in DOMAIN Queue'
               PROVE  /\ Leaves(Queue[i], NextSaved)'
                      /\ LastOf(Queue', i) => Leaves(Queue[i], cursor)'
    BY DEF LastOf
  <2>1. CASE Changes
    <3>1. Queue = <<>> /\ Queue' = Queue
      BY <2>1, QueueMoves DEF Changes, Process, FetchReturns, Crash, Queue, PosInv
    <3> QED  BY <3>1
  <2>2. ASSUME ~Changes,
               NEW ch, Queue'[i] = ch, Leaves(ch, NextSaved'), NextSaved' \in Nat,
               LastOf(Queue', i) => Leaves(ch, cursor'), cursor' \in Nat
        PROVE  /\ Leaves(Queue[i], NextSaved)'
               /\ LastOf(Queue', i) => Leaves(Queue[i], cursor)'
    BY <2>2, <1>d DEF Leaves, Fresh
  <2>3. CASE FetchReturns
    <3>1. /\ pc = "fetch" /\ Queue' = all /\ cursor' \in {cursor, upto}
          /\ (all = <<>> \/ cursor' = upto) /\ ~Changes
          /\ statements = "meant" \/ all = <<>>
      BY <2>3, QueueMoves, PartsOfType, StreamAssumption
      DEF FetchReturns, Changes, RealInv
    <3>2. NextSaved' \in Nat /\ NextSaved' <= cursor
      BY <1>3, <2>3, <3>1, <1>a, MovesOn
    <3>3. Leaves(all[i], cursor) /\ (LastOf(all, i) => Leaves(all[i], upto))
      BY <3>1, <1>c
    <3>4. Leaves(all[i], NextSaved')
      BY <3>2, <3>3, <1>a, LeavesEarlier
    <3> QED  BY <2>2, <3>1, <3>2, <3>3, <3>4, <1>a
  <2>4. CASE Process
    <3>1. /\ pc # "closed" /\ cursor' = cursor /\ NextSaved' = NextSaved /\ Len(Queue) > 0
          /\ DOMAIN Queue' = 1 .. Len(Queue) - 1 /\ ~Changes
          /\ \A k \in 1 .. Len(Queue) - 1 : Queue'[k] = Queue[k + 1]
      BY <2>4, <1>e, QueueMoves DEF Changes
    <3>2. i + 1 \in DOMAIN Queue /\ Queue'[i] = Queue[i + 1] /\ i \in Nat
      BY <3>1, <1>a
    <3>3. LastOf(Queue', i) => LastOf(Queue, i + 1)
      <4> SUFFICES ASSUME LastOf(Queue', i), NEW j \in DOMAIN Queue, j > i + 1
                   PROVE  Queue[j].row # Queue[i + 1].row
        BY DEF LastOf
      <4>1. j - 1 \in DOMAIN Queue' /\ Queue'[j - 1] = Queue[j] /\ j - 1 > i
        BY <3>1, <3>2, <1>a
      <4> QED  BY <3>2, <4>1 DEF LastOf
    <3>4. /\ Leaves(Queue[i + 1], NextSaved)
          /\ LastOf(Queue, i + 1) => Leaves(Queue[i + 1], cursor)
      BY <3>1, <3>2, <1>c
    <3> QED  BY <2>2, <3>1, <3>2, <3>3, <3>4, <1>a, <1>b
  <2>5. CASE ~Changes /\ ~FetchReturns /\ ~Process
    <3>1. pc # "closed" /\ cursor' = cursor /\ NextSaved' = NextSaved
      BY <1>3, <2>5, MovesOn
    <3>2. Queue' = Queue
      BY <1>3, <2>5, QueueMoves DEF Crash
    <3>3. /\ Leaves(Queue[i], NextSaved)
          /\ LastOf(Queue, i) => Leaves(Queue[i], cursor)
      BY <3>1, <3>2, <1>c
    <3> QED  BY <2>2, <2>5, <3>1, <3>2, <3>3, <1>a, <1>b
  <2> QED  BY <2>1, <2>3, <2>4, <2>5
<1>4. ASSUME pc' = "fetch", statements' = "meant"
      PROVE  /\ (\A r \in SubscribedRows :
                   r[1] \notin Waiting /\ Absent(all, r) => Fresh(r, replica[r], upto))'
             /\ (\A i \in DOMAIN all :
                   /\ Leaves(all[i], cursor)
                   /\ LastOf(all, i) => Leaves(all[i], upto))'
  <2>1. CASE ReadVersion
    <3>1. all' = <<>> /\ todo' = TableOrder
      BY <2>1, <1>4 DEF ReadVersion
    <3>2. \A r \in SubscribedRows : r[1] \in Waiting'
      BY <3>1, SubscribedFacts DEF Waiting, Subscribed
    <3> QED  BY <3>1, <3>2
  <2>2. ASSUME ~ReadVersion
        PROVE  /\ pc = "fetch" /\ cursor' = cursor /\ upto' = upto /\ replica' = replica
               /\ Queue = <<>> /\ cursor <= upto /\ statements = "meant"
    <3>1. pc = "fetch" /\ cursor' = cursor /\ upto' = upto /\ replica' = replica
          /\ statements = "meant"
      BY <2>2, <1>4 DEF Next, DBStep, StreamStep, ConsumerStep, Pop, QueryTable,
           StatementFails, FetchReturns, FetchFails, PollCancelled, Changes, CallNext, Process,
           Persist, Crash, vars
    <3> QED  BY <3>1, <1>b
  <2>3. CASE QueryTable
    <3> DEFINE t == Head(todo)
               q == FetchForTable(t)
    <3>1. /\ pc = "fetch" /\ todo # <<>> /\ all' = all \o q /\ todo' = Tail(todo)
          /\ ~ReadVersion /\ todo \in Seq(Tables) /\ log' = log
      BY <2>3, PartsOfType DEF QueryTable, ReadVersion
    <3>2. /\ pc = "fetch" /\ cursor' = cursor /\ upto' = upto /\ replica' = replica
          /\ Queue = <<>> /\ cursor <= upto /\ statements = "meant"
      BY <2>2, <3>1
    <3>3. Waiting \subseteq Waiting' \cup {t}
      <4>1. /\ todo[1] = t /\ Len(todo) \in Nat /\ DOMAIN todo = 1 .. Len(todo)
            /\ DOMAIN todo' = 1 .. Len(todo) - 1
            /\ \A k \in 1 .. Len(todo) - 1 : todo'[k] = todo[k + 1]
        BY <3>1, HeadTail
      <4>2. ASSUME NEW k \in DOMAIN todo, k # 1
            PROVE  k - 1 \in DOMAIN todo' /\ todo[k] = todo'[k - 1]
        BY <4>1, <4>2
      <4> HIDE DEF t
      <4> QED  BY <4>1, <4>2 DEF Waiting
    <3>4. q \in Seq(Change) /\ Len(q) \in Nat /\ DOMAIN q = 1 .. Len(q)
      BY QueryFacts
    <3>5. \A j \in DOMAIN q : Leaves(q[j], cursor) /\ (LastOf(q, j) => Leaves(q[j], upto))
      BY <3>2, QueryLeaves
    <3>6. \A r, c : r[1] = t /\ Absent(q, r) /\ Fresh(r, c, cursor) => Fresh(r, c, upto)
      BY <3>2, QueryAbsent
    <3> HIDE DEF t, q
    <3>7. /\ DOMAIN all' = 1 .. Len(all) + Len(q)
          /\ \A k \in 1 .. Len(all) : all'[k] = all[k]
          /\ \A k \in 1 .. Len(q) : all'[Len(all) + k] = q[k]
          /\ \A k \in Len(all) + 1 .. Len(all) + Len(q) :
               k - Len(all) \in 1 .. Len(q) /\ all'[k] = q[k - Len(all)]
      BY <3>1, <3>4, <1>a, ConcatFacts
    <3>8. ASSUME NEW r \in SubscribedRows, r[1] \notin Waiting', Absent(all', r)
          PROVE  Fresh(r, replica[r], upto)
      <4>1. Absent(all, r)
        BY <3>7, <3>8, <3>4, <1>a DEF Absent
      <4>2. \A j \in DOMAIN q : Len(all) + j \in DOMAIN all' /\ all'[Len(all) + j] = q[j]
        BY <3>4, <3>7, <1>a
      <4>3. Absent(q, r)
        BY <4>2, <3>8 DEF Absent
      <4>4. CASE r[1] \notin Waiting
        BY <3>2, <4>1, <4>4, <1>c
      <4>5. CASE r[1] \in Waiting
        <5>1. r[1] = t
          BY <3>3, <3>8, <4>5
        <5>2. Fresh(r, replica[r], cursor)
          BY <3>2, <1>c DEF Absent
        <5> QED  BY <3>6, <4>3, <5>1, <5>2
      <4> QED  BY <4>4, <4>5
    <3>9. ASSUME NEW i \in DOMAIN all'
          PROVE  Leaves(all'[i], cursor) /\ (LastOf(all', i) => Leaves(all'[i], upto))
      <4>1. CASE i \in 1 .. Len(all)
        <5>1. all'[i] = all[i] /\ i \in DOMAIN all
          BY <3>7, <4>1, <1>a
        <5>2. LastOf(all', i) => LastOf(all, i)
          BY <3>4, <3>7, <5>1, <1>a DEF LastOf
        <5> QED  BY <3>2, <5>1, <5>2, <1>c
      <4>2. CASE i \in Len(all) + 1 .. Len(all) + Len(q)
        <5> DEFINE j == i - Len(all)
        <5>1. j \in DOMAIN q /\ all'[i] = q[j] /\ j \in Nat /\ i = Len(all) + j
          BY <3>4, <3>7, <4>2, <1>a
        <5> HIDE DEF j
        <5>2. LastOf(all', i) => LastOf(q, j)
          <6> SUFFICES ASSUME LastOf(all', i), NEW k \in DOMAIN q, k > j
                       PROVE  q[k].row # q[j].row
            BY DEF LastOf
          <6>1. Len(all) + k \in DOMAIN all' /\ all'[Len(all) + k] = q[k]
                /\ Len(all) + k > i
            BY <3>4, <3>7, <5>1, <1>a
          <6> QED  BY <5>1, <6>1 DEF LastOf
        <5> QED  BY <3>5, <5>1, <5>2
      <4> QED  BY <3>4, <3>7, <4>1, <4>2, <1>a
    <3>10. (\A r \in SubscribedRows :
              r[1] \notin Waiting /\ Absent(all, r) => Fresh(r, replica[r], upto))'
      BY <3>1, <3>2, <3>8, <1>a, <1>d DEF Fresh, Absent
    <3>11. (\A i \in DOMAIN all : /\ Leaves(all[i], cursor)
                                  /\ LastOf(all, i) => Leaves(all[i], upto))'
      BY <3>1, <3>2, <3>9, <1>a, <1>d DEF Leaves, Fresh, LastOf
    <3> QED  BY <3>10, <3>11
  <2>4. CASE ~ReadVersion /\ ~QueryTable
    <3>1. /\ pc = "fetch" /\ cursor' = cursor /\ upto' = upto /\ replica' = replica
          /\ statements = "meant"
      BY <2>2, <2>4
    <3>2. all' = all /\ todo' = todo
      BY <2>4, <1>4 DEF Next, DBStep, StreamStep, ConsumerStep, Pop,
           StatementFails, FetchReturns, FetchFails, PollCancelled, Changes, CallNext, Process,
           Persist, Crash, vars
    <3>3. ASSUME NEW r \in SubscribedRows, r[1] \notin Waiting', Absent(all', r)
          PROVE  Fresh(r, replica[r], upto)
      <4>1. r[1] \notin Waiting /\ Absent(all, r)
        BY <3>2, <3>3 DEF Waiting, Absent
      <4> QED  BY <3>1, <4>1, <1>c
    <3>4. ASSUME NEW i \in DOMAIN all
          PROVE  Leaves(all[i], cursor) /\ (LastOf(all, i) => Leaves(all[i], upto))
      BY <3>1, <1>c
    <3>5. (\A r \in SubscribedRows :
              r[1] \notin Waiting /\ Absent(all, r) => Fresh(r, replica[r], upto))'
      BY <3>1, <3>2, <3>3, <1>a, <1>d DEF Fresh, Absent
    <3>6. (\A i \in DOMAIN all : /\ Leaves(all[i], cursor)
                                 /\ LastOf(all, i) => Leaves(all[i], upto))'
      BY <3>1, <3>2, <3>4, <1>a, <1>d DEF Leaves, Fresh, LastOf
    <3> QED  BY <3>5, <3>6
  <2> QED  BY <2>1, <2>3, <2>4
<1>5. SavedFresh'
  BY <1>1 DEF SavedFresh
<1>6. QueueFresh'
  BY <1>2, <1>3 DEF QueueFresh
<1>7. FetchFresh'
  BY <1>4 DEF FetchFresh
<1> QED  BY <1>5, <1>6, <1>7 DEF FreshInv

\* Once a careful consumer has taken everything that was pending, each of its
\* rows is the row of the source at the stream's position or later, or its last
\* change is one that it could not be told (changes.go, fetchCDC and fetchCT).
THEOREM DrainedIsCurrent ==
  ASSUME Lagged, Captured
  PROVE  Spec => []DrainedMirrors
<1> DEFINE I == TypeInv /\ PosInv /\ RealInv /\ FreshInv
<1>1. Init => I
  BY InitType, InitPos, InitReal, InitFresh
<1>2. I /\ [Next]_vars => I'
  BY NextType, NextPos, NextReal, NextFresh
<1>3. I => DrainedMirrors
  <2> SUFFICES ASSUME I, pc \in {"idle", "poll"}, pending = <<>>,
                      NEW r \in SubscribedRows
               PROVE  Fresh(r, replica[r], cursor)
    BY DEF DrainedMirrors, Fresh
  <2>1. Absent(Queue, r)
    BY DEF Queue, Absent
  <2> QED  BY <2>1 DEF FreshInv, QueueFresh
<1> QED
  BY <1>1, <1>2, <1>3, PTL DEF Spec

\* Once the stream has also reached the end of the log, the rows at the consumer
\* are those of the source, but for what it could not be told: the promise by
\* which an initial sync takes the stream over (changes.go, Next).
THEOREM CaughtUpIsCurrent ==
  ASSUME Lagged, Captured
  PROVE  Spec => [](pc \in {"idle", "poll"} /\ pending = <<>> /\ cursor = Len(log) =>
                      \A r \in SubscribedRows :
                        replica[r] = Content(r, Len(log)) \/ Untold(r, Len(log)))
<1>1. TypeInv /\ DrainedMirrors =>
        (pc \in {"idle", "poll"} /\ pending = <<>> /\ cursor = Len(log) =>
           \A r \in SubscribedRows :
             replica[r] = Content(r, Len(log)) \/ Untold(r, Len(log)))
  <2>1. TypeInv => Len(log) \in Nat
    BY DEF TypeInv, TypeOK, DBTypeOK
  <2>2. \A n \in Nat : n .. n = {n}
    OBVIOUS
  <2> QED  BY <2>1, <2>2 DEF DrainedMirrors
<1>2. Spec => []TypeInv
  BY InitType, NextType, PTL DEF Spec
<1> QED
  BY <1>1, <1>2, DrainedIsCurrent, PTL

=============================================================================

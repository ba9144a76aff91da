------------------------ MODULE PostgresWriterProofs ------------------------
(***************************************************************************)
(* Proofs about PostgresWriter: what applying a batch again amounts to,    *)
(* the types, that the table is always what a prefix of the batches makes  *)
(* it, and that Apply keeps the contract of Writer.                        *)
(***************************************************************************)
EXTENDS PostgresWriter, NatSets

-----------------------------------------------------------------------------
(* The contract's operators.                                               *)

\* The ops that applyBatch knows.
Known(ch) == ch.op \in {"upsert", "touch", "delete"}

\* Postgres can apply the whole batch.
Applicable(b) == \A i \in DOMAIN b : Known(b[i])

\* Table t after change ch.
Step(ch, t) == [t EXCEPT ![ch.key] = Contract!After(ch, t)]

\* Change i of batch b settles row k, whatever the row was before it.
Settles(b, i, k) == b[i].key = k /\ b[i].op \in {"upsert", "delete"}

\* Whatever a batch does to a table can be told change by change.
LEMMA UptoIs ==
  ASSUME NEW b \in Seq(Change), NEW t
  PROVE  Contract!Upto(b, t) =
           [n \in 0 .. Len(b) |->
              IF n = 0 THEN t ELSE Step(b[n], Contract!Upto(b, t)[n - 1])]
<1> DEFINE Def(f, m) ==
      f = [n \in 0 .. m |-> IF n = 0 THEN t ELSE Step(b[n], f[n - 1])]
           T == {m \in Nat : \E f : Def(f, m)}
<1>1. 0 \in T
  <2>1. Def([n \in 0 .. 0 |-> t], 0)
    OBVIOUS
  <2> QED  BY <2>1
<1>2. ASSUME NEW m \in Nat, m \in T PROVE m + 1 \in T
  <2>1. PICK f : Def(f, m)
    BY <1>2
  <2> DEFINE g == [n \in 0 .. m + 1 |->
                     IF n = m + 1 THEN Step(b[n], f[m]) ELSE f[n]]
  <2>2. \A n \in 0 .. m : f[n] = IF n = 0 THEN t ELSE Step(b[n], f[n - 1])
    BY <2>1
  <2>3. \A n \in 0 .. m + 1 : g[n] = IF n = 0 THEN t ELSE Step(b[n], g[n - 1])
    <3> SUFFICES ASSUME NEW n \in 0 .. m + 1
                 PROVE  g[n] = IF n = 0 THEN t ELSE Step(b[n], g[n - 1])
      OBVIOUS
    <3> HIDE DEF Step
    <3>1. CASE n = m + 1
      BY <3>1
    <3>2. CASE n \in 0 .. m
      BY <3>2, <2>2
    <3> QED  BY <3>1, <3>2
  <2>4. Def(g, m + 1)
    BY <2>3
  <2> HIDE DEF g
  <2>5. \E h : Def(h, m + 1)
    BY <2>4
  <2> HIDE DEF Def
  <2> QED  BY <2>5
<1>3. Len(b) \in T
  <2> HIDE DEF T
  <2> QED  BY <1>1, <1>2, SetInduction
<1>4. \E f : Def(f, Len(b))
  BY <1>3
<1> QED
  BY <1>4 DEF Contract!Upto, Step

\* The same, one change at a time.
LEMMA UptoRec ==
  ASSUME NEW b \in Seq(Change), NEW t
  PROVE  /\ Contract!Upto(b, t)[0] = t
         /\ \A n \in 1 .. Len(b) :
              Contract!Upto(b, t)[n] = Step(b[n], Contract!Upto(b, t)[n - 1])
<1> DEFINE P == Contract!Upto(b, t)
<1>1. P = [n \in 0 .. Len(b) |-> IF n = 0 THEN t ELSE Step(b[n], P[n - 1])]
  BY UptoIs
<1>2. Len(b) \in Nat
  OBVIOUS
<1> HIDE DEF P, Step
<1>3. P[0] = t /\ \A n \in 1 .. Len(b) : P[n] = Step(b[n], P[n - 1])
  BY <1>1, <1>2
<1> QED  BY <1>3 DEF P

\* A known change of a table gives a table.
LEMMA StepType ==
  ASSUME NEW ch \in Change, Known(ch), NEW t \in [Keys -> Stored]
  PROVE  /\ Step(ch, t) \in [Keys -> Stored]
         /\ Step(ch, t)[ch.key] = Contract!After(ch, t)
         /\ \A k \in Keys \ {ch.key} : Step(ch, t)[k] = t[k]
BY DEF Step, Known, Change, Stored, Contract!After

\* After a prefix of known changes there is a table.
LEMMA UptoType ==
  ASSUME NEW b \in Seq(Change), NEW t \in [Keys -> Stored]
  PROVE  \A n \in 0 .. Len(b) :
           (\A i \in 1 .. n : Known(b[i]))
             => Contract!Upto(b, t)[n] \in [Keys -> Stored]
<1> DEFINE P == Contract!Upto(b, t)
           Good(n) == (\A i \in 1 .. n : Known(b[i])) => P[n] \in [Keys -> Stored]
           T == {n \in Nat : n <= Len(b) => Good(n)}
<1>1. P[0] = t /\ \A n \in 1 .. Len(b) : P[n] = Step(b[n], P[n - 1])
  BY UptoRec
<1> HIDE DEF P
<1>2. 0 \in T
  BY <1>1
<1>3. ASSUME NEW n \in Nat, n \in T PROVE n + 1 \in T
  <2> SUFFICES ASSUME n + 1 <= Len(b), \A i \in 1 .. n + 1 : Known(b[i])
               PROVE  P[n + 1] \in [Keys -> Stored]
    OBVIOUS
  <2>1. P[n] \in [Keys -> Stored]
    BY <1>3
  <2>2. b[n + 1] \in Change /\ Known(b[n + 1])
    OBVIOUS
  <2>3. P[n + 1] = Step(b[n + 1], P[n])
    BY <1>1
  <2> QED  BY <2>1, <2>2, <2>3, StepType
<1>4. \A n \in Nat : n \in T
  <2> HIDE DEF T
  <2> QED  BY <1>2, <1>3, SetInduction
<1> QED  BY <1>4 DEF P

\* A row that is there, and that nothing settles any more, stays as it is.
LEMMA UnsettledStays ==
  ASSUME NEW b \in Seq(Change), NEW t \in [Keys -> Stored], Applicable(b),
         NEW k \in Keys, NEW s \in 0 .. Len(b),
         Contract!Upto(b, t)[s][k] # NoRow,
         \A i \in s + 1 .. Len(b) : ~Settles(b, i, k)
  PROVE  Contract!Upto(b, t)[Len(b)][k] = Contract!Upto(b, t)[s][k]
<1> DEFINE P == Contract!Upto(b, t)
           T == {n \in Nat : s + n <= Len(b) => P[s + n][k] = P[s][k]}
<1>1. \A n \in 1 .. Len(b) : P[n] = Step(b[n], P[n - 1])
  BY UptoRec
<1>2. \A n \in 0 .. Len(b) : P[n] \in [Keys -> Stored]
  BY UptoType DEF Applicable
<1>3. P[s][k] # NoRow
  OBVIOUS
<1> HIDE DEF P
<1>4. 0 \in T
  OBVIOUS
<1>5. ASSUME NEW n \in Nat, n \in T PROVE n + 1 \in T
  <2> SUFFICES ASSUME s + (n + 1) <= Len(b) PROVE P[s + (n + 1)][k] = P[s][k]
    OBVIOUS
  <2> DEFINE m == s + n
  <2>1. m \in 0 .. Len(b) /\ m + 1 \in 1 .. Len(b) /\ m + 1 \in s + 1 .. Len(b)
        /\ s + (n + 1) = m + 1 /\ (m + 1) - 1 = m
    OBVIOUS
  <2>2. P[m][k] = P[s][k] /\ P[m] \in [Keys -> Stored]
    BY <1>5, <1>2, <2>1
  <2> HIDE DEF m
  <2>3. P[m + 1] = Step(b[m + 1], P[m])
    BY <1>1, <2>1
  <2>4. b[m + 1] \in Change /\ Known(b[m + 1]) /\ ~Settles(b, m + 1, k)
    BY <2>1 DEF Applicable
  <2>5. CASE b[m + 1].key # k
    BY <2>1, <2>2, <2>3, <2>4, <2>5, StepType
  <2>6. CASE b[m + 1].key = k
    <3>1. b[m + 1].op = "touch"
      BY <2>4, <2>6 DEF Known, Settles
    <3>2. P[m + 1][k] = Contract!After(b[m + 1], P[m])
      BY <2>2, <2>3, <2>4, <2>6, StepType
    <3> QED  BY <1>3, <2>1, <2>2, <2>6, <3>1, <3>2 DEF Contract!After
  <2> QED  BY <2>1, <2>2, <2>5, <2>6
<1>6. \A n \in Nat : n \in T
  <2> HIDE DEF T
  <2> QED  BY <1>4, <1>5, SetInduction
<1>7. Len(b) - s \in T
  BY <1>6
<1> QED  BY <1>7 DEF P

-----------------------------------------------------------------------------
(* Applying a batch to a table that has it in part or as a whole.          *)

\* Row by row, table u is what table t is after n changes of the batch, or a
\* change still to come settles the row, or it is what the whole batch makes it.
Catching(b, t, n, u) ==
  \A k \in Keys :
    \/ u[k] = Contract!Upto(b, t)[n][k]
    \/ \E i \in n + 1 .. Len(b) : Settles(b, i, k)
    \/ Applicable(b) /\ u[k] = Contract!ApplyAll(b, t)[k]

\* The next change keeps that up.
LEMMA CatchingStep ==
  ASSUME NEW b \in Seq(Change), NEW t \in [Keys -> Stored], NEW n \in 1 .. Len(b),
         \A i \in 1 .. n : Known(b[i]),
         NEW u \in [Keys -> Stored], Catching(b, t, n - 1, u)
  PROVE  Catching(b, t, n, Step(b[n], u))
<1> DEFINE P == Contract!Upto(b, t)
           ch == b[n]
           v == Step(ch, u)
<1>1. ch \in Change /\ Known(ch) /\ ch.key \in Keys
  <2>1. ch \in Change /\ Known(ch)
    OBVIOUS
  <2> QED  BY <2>1 DEF Change
<1>2. v \in [Keys -> Stored] /\ v[ch.key] = Contract!After(ch, u)
      /\ \A k \in Keys \ {ch.key} : v[k] = u[k]
  BY <1>1, StepType
<1>3. P[n] = Step(ch, P[n - 1]) /\ n - 1 \in 0 .. Len(b) /\ n \in 0 .. Len(b)
  BY UptoRec
<1>4. P[n - 1] \in [Keys -> Stored] /\ P[n] \in [Keys -> Stored]
  BY <1>3, UptoType
<1>5. P[n][ch.key] = Contract!After(ch, P[n - 1])
      /\ \A k \in Keys \ {ch.key} : P[n][k] = P[n - 1][k]
  BY <1>1, <1>3, <1>4, StepType
<1>6. Contract!ApplyAll(b, t) = P[Len(b)]
  BY DEF Contract!ApplyAll
<1> SUFFICES ASSUME NEW k \in Keys
             PROVE  \/ v[k] = P[n][k]
                    \/ \E i \in n + 1 .. Len(b) : Settles(b, i, k)
                    \/ Applicable(b) /\ v[k] = P[Len(b)][k]
  BY <1>6 DEF Catching
<1>7. \/ u[k] = P[n - 1][k]
      \/ \E i \in n .. Len(b) : Settles(b, i, k)
      \/ Applicable(b) /\ u[k] = P[Len(b)][k]
  BY <1>6 DEF Catching
<1>8. CASE k # ch.key
  <2>1. ~Settles(b, n, k)
    BY <1>8 DEF Settles
  <2>2. v[k] = u[k] /\ P[n][k] = P[n - 1][k]
    BY <1>2, <1>5, <1>8
  <2> HIDE DEF P, v
  <2> QED  BY <1>7, <2>1, <2>2
<1>9. CASE k = ch.key /\ ch.op # "touch"
  <2>1. Contract!After(ch, u) = Contract!After(ch, P[n - 1])
    BY <1>1, <1>9 DEF Known, Contract!After
  <2> QED  BY <1>2, <1>5, <1>9, <2>1
<1>10. CASE k = ch.key /\ ch.op = "touch"
  <2>1. ~Settles(b, n, k)
    BY <1>10 DEF Settles
  <2>2. /\ v[k] = IF u[k] = NoRow THEN ch.content ELSE u[k]
        /\ P[n][k] = IF P[n - 1][k] = NoRow THEN ch.content ELSE P[n - 1][k]
    BY <1>2, <1>5, <1>10 DEF Contract!After
  <2>3. CASE u[k] = P[n - 1][k]
    BY <2>2, <2>3
  <2>4. CASE \E i \in n .. Len(b) : Settles(b, i, k)
    BY <2>1, <2>4
  <2>5. CASE Applicable(b) /\ u[k] = P[Len(b)][k]
    <3>1. CASE u[k] # NoRow
      BY <2>2, <2>5, <3>1
    <3>2. CASE u[k] = NoRow
      <4>1. ch.content # NoRow
        BY <1>1, WriterAssumption DEF Change
      <4>2. P[n][k] # NoRow
        BY <2>2, <4>1
      <4>3. \E i \in n + 1 .. Len(b) : Settles(b, i, k)
        BY <1>3, <2>5, <3>2, <4>2, UnsettledStays
      <4> QED  BY <4>3
    <3> QED  BY <3>1, <3>2
  <2> QED  BY <1>7, <2>3, <2>4, <2>5
<1> QED  BY <1>8, <1>9, <1>10

\* At the end of the batch nothing is left to catch up.
LEMMA CaughtUp ==
  ASSUME NEW b \in Seq(Change), NEW t \in [Keys -> Stored], Applicable(b),
         NEW u \in [Keys -> Stored], Catching(b, t, Len(b), u)
  PROVE  u = Contract!ApplyAll(b, t)
<1>1. Contract!ApplyAll(b, t) = Contract!Upto(b, t)[Len(b)]
  BY DEF Contract!ApplyAll
<1>2. Len(b) \in Nat
  OBVIOUS
<1>3. Contract!ApplyAll(b, t) \in [Keys -> Stored]
  BY <1>1, <1>2, UptoType DEF Applicable
<1>4. \A k \in Keys : u[k] = Contract!ApplyAll(b, t)[k]
  BY <1>1, <1>2 DEF Catching
<1> QED  BY <1>3, <1>4

\* A batch gives a table.
LEMMA ApplyAllType ==
  ASSUME NEW b \in Seq(Change), Applicable(b), NEW t \in [Keys -> Stored]
  PROVE  Contract!ApplyAll(b, t) \in [Keys -> Stored]
BY UptoType DEF Contract!ApplyAll, Applicable

\* A batch that has been applied, and is applied again, changes nothing: what
\* apply.go says of a single upsert and delete holds for the whole batch.
THEOREM ReapplyChangesNothing ==
  ASSUME NEW b \in Seq(Change), Applicable(b), NEW t \in [Keys -> Stored]
  PROVE  Contract!ApplyAll(b, Contract!ApplyAll(b, t)) = Contract!ApplyAll(b, t)
<1> DEFINE u == Contract!ApplyAll(b, t)
           Q == Contract!Upto(b, u)
           T == {n \in Nat : n <= Len(b) => Catching(b, t, n, Q[n])}
<1>1. u \in [Keys -> Stored]
  BY ApplyAllType
<1>2. Q[0] = u /\ \A n \in 1 .. Len(b) : Q[n] = Step(b[n], Q[n - 1])
  BY UptoRec
<1>3. \A n \in 0 .. Len(b) : Q[n] \in [Keys -> Stored]
  BY <1>1, UptoType DEF Applicable
<1>4. Contract!ApplyAll(b, u) = Q[Len(b)]
  BY DEF Contract!ApplyAll
<1>5. Catching(b, t, 0, u)
  BY DEF Catching
<1> HIDE DEF Q, u
<1>6. 0 \in T
  BY <1>2, <1>5
<1>7. ASSUME NEW n \in Nat, n \in T PROVE n + 1 \in T
  <2> SUFFICES ASSUME n + 1 <= Len(b) PROVE Catching(b, t, n + 1, Q[n + 1])
    OBVIOUS
  <2>1. Catching(b, t, (n + 1) - 1, Q[n]) /\ Q[n] \in [Keys -> Stored]
    BY <1>3, <1>7
  <2>2. Q[n + 1] = Step(b[n + 1], Q[n])
    BY <1>2
  <2>3. \A i \in 1 .. n + 1 : Known(b[i])
    BY DEF Applicable
  <2> QED  BY <2>1, <2>2, <2>3, CatchingStep
<1>8. \A n \in Nat : n \in T
  <2> HIDE DEF T
  <2> QED  BY <1>6, <1>7, SetInduction
<1>9. Catching(b, t, Len(b), Q[Len(b)])
  BY <1>8
<1> QED  BY <1>3, <1>4, <1>9, CaughtUp DEF u

-----------------------------------------------------------------------------
(* The table after each batch.                                             *)

\* The table after batch n is what batch n makes of the table before it.
LEMMA TableAfterRec ==
  /\ Contract!TableAfter[0] = Contract!Empty
  /\ \A n \in 1 .. Len(Stream) :
       Contract!TableAfter[n] =
         Contract!ApplyAll(Stream[n], Contract!TableAfter[n - 1])
<1> DEFINE Def(f, m) ==
      f = [n \in 0 .. m |-> IF n = 0 THEN Contract!Empty
                            ELSE Contract!ApplyAll(Stream[n], f[n - 1])]
           T == {m \in Nat : \E f : Def(f, m)}
           L == Len(Stream)
<1>0. L \in Nat
  BY WriterAssumption
<1> HIDE DEF L
<1>1. 0 \in T
  <2>1. Def([n \in 0 .. 0 |-> Contract!Empty], 0)
    OBVIOUS
  <2> QED  BY <2>1
<1>2. ASSUME NEW m \in Nat, m \in T PROVE m + 1 \in T
  <2>1. PICK f : Def(f, m)
    BY <1>2
  <2> DEFINE g == [n \in 0 .. m + 1 |->
                     IF n = m + 1 THEN Contract!ApplyAll(Stream[n], f[m]) ELSE f[n]]
  <2>2. \A n \in 0 .. m : f[n] = IF n = 0 THEN Contract!Empty
                                  ELSE Contract!ApplyAll(Stream[n], f[n - 1])
    BY <2>1
  <2>3. \A n \in 0 .. m + 1 : g[n] = IF n = 0 THEN Contract!Empty
                                      ELSE Contract!ApplyAll(Stream[n], g[n - 1])
    <3> SUFFICES ASSUME NEW n \in 0 .. m + 1
                 PROVE  g[n] = IF n = 0 THEN Contract!Empty
                               ELSE Contract!ApplyAll(Stream[n], g[n - 1])
      OBVIOUS
    <3>1. CASE n = m + 1
      BY <3>1
    <3>2. CASE n \in 0 .. m
      BY <3>2, <2>2
    <3> QED  BY <3>1, <3>2
  <2>4. Def(g, m + 1)
    BY <2>3
  <2> HIDE DEF g
  <2>5. \E h : Def(h, m + 1)
    BY <2>4
  <2> HIDE DEF Def
  <2> QED  BY <2>5
<1>3. L \in T
  <2> HIDE DEF T
  <2> QED  BY <1>0, <1>1, <1>2, SetInduction
<1>4. \E f : Def(f, L)
  BY <1>3
<1> DEFINE F == Contract!TableAfter
<1>5. Def(F, L)
  BY <1>4 DEF Contract!TableAfter, L
<1> HIDE DEF F
<1>6. F[0] = Contract!Empty
      /\ \A n \in 1 .. L : F[n] = Contract!ApplyAll(Stream[n], F[n - 1])
  BY <1>0, <1>5
<1> QED  BY <1>6 DEF F, L

\* It is a table, as long as Postgres can apply every batch so far.
LEMMA TableAfterType ==
  ASSUME NEW n \in 0 .. Len(Stream), \A m \in 1 .. n : Applicable(Stream[m])
  PROVE  Contract!TableAfter[n] \in [Keys -> Stored]
<1> DEFINE T == {m \in Nat : m <= n => Contract!TableAfter[m] \in [Keys -> Stored]}
<1>0. Len(Stream) \in Nat /\ \A m \in 1 .. n : Stream[m] \in Seq(Change)
  BY WriterAssumption
<1>1. 0 \in T
  BY TableAfterRec DEF Contract!Empty, Stored
<1>2. ASSUME NEW m \in Nat, m \in T PROVE m + 1 \in T
  <2> SUFFICES ASSUME m + 1 <= n PROVE Contract!TableAfter[m + 1] \in [Keys -> Stored]
    OBVIOUS
  <2>1. Contract!TableAfter[m] \in [Keys -> Stored]
    BY <1>2
  <2>2. Stream[m + 1] \in Seq(Change) /\ Applicable(Stream[m + 1])
    BY <1>0
  <2>3. Contract!TableAfter[m + 1] =
          Contract!ApplyAll(Stream[m + 1], Contract!TableAfter[m])
    BY <1>0, TableAfterRec
  <2> QED  BY <2>1, <2>2, <2>3, ApplyAllType
<1>3. n \in T
  <2> HIDE DEF T
  <2> QED  BY <1>1, <1>2, SetInduction
<1> QED  BY <1>3

-----------------------------------------------------------------------------
(* The inductive invariant.                                                *)

\* The calls that are running are all given the same batch: the one that is
\* due, or a copy of the last one that has been answered.
JobInv ==
  /\ \A w \in Workers : job[w] \in {0, done, done + 1}
  /\ \A v, w \in Workers : job[v] # 0 /\ job[w] # 0 => job[v] = job[w]

\* The rows as w's transaction sees them.
Rows(w) == [k \in Keys |-> Sees(w, k)]

\* What w's transaction has done so far is part of its batch, applied to a
\* table that may hold the batch already.
TxOn(w) ==
  /\ pc[w] \notin {"exec", "rollback"} => writes[w] = Clean
  /\ pc[w] = "exec" =>
       /\ \A i \in 1 .. step[w] - 1 : ~Refused(Batch(w)[i])
       /\ Catching(Batch(w), Contract!TableAfter[job[w] - 1], step[w] - 1, Rows(w))
  /\ pc[w] = "committed" =>
       /\ Applicable(Batch(w))
       /\ table = Contract!TableAfter[job[w]]

TxInv == \A w \in Workers : TxOn(w)

TypeInv == TypeOK /\ step \in [Workers -> Nat]

\* The table holds the batches that have been answered, and perhaps the next,
\* which is one that Postgres can apply; not the next, while a copy of the last
\* one is still running.
TableInv ==
  /\ \A n \in 1 .. done : Applicable(Stream[n])
  /\ \/ table = Contract!TableAfter[done]
     \/ /\ done < Len(Stream)
        /\ Applicable(Stream[done + 1])
        /\ table = Contract!TableAfter[done + 1]
  /\ \A w \in Workers : job[w] # 0 /\ job[w] = done
                           => table = Contract!TableAfter[done]

IInv == TypeInv /\ JobInv /\ TxInv /\ TableInv

-----------------------------------------------------------------------------
(* Types.                                                                  *)

\* The batch of a call that is running.
LEMMA BatchFacts ==
  ASSUME TypeInv, NEW w \in Workers, pc[w] # "idle"
  PROVE  /\ job[w] \in 1 .. Len(Stream) /\ Len(Stream) \in Nat
         /\ Batch(w) \in Seq(Change) /\ Len(Batch(w)) \in Nat
         /\ \A i \in 1 .. Len(Batch(w)) : Batch(w)[i] \in Change
<1>1. Len(Stream) \in Nat /\ \A n \in 1 .. Len(Stream) : Stream[n] \in Seq(Change)
  BY WriterAssumption
<1>2. job[w] \in 1 .. Len(Stream)
  BY <1>1 DEF TypeInv, TypeOK
<1>3. Batch(w) \in Seq(Change)
  BY <1>1, <1>2 DEF Batch
<1> QED  BY <1>1, <1>2, <1>3

LEMMA InitType == Init => TypeInv
<1>1. Len(Stream) \in Nat /\ MaxFaults \in Nat
  BY WriterAssumption
<1> QED
  BY <1>1 DEF Init, TypeInv, TypeOK, Clean, Stored

LEMMA NextType == TypeInv /\ [Next]_vars => TypeInv'
<1> SUFFICES ASSUME TypeInv, [Next]_vars PROVE TypeInv'
  OBVIOUS
<1>a. Len(Stream) \in Nat /\ MaxFaults \in Nat
  BY WriterAssumption
<1>1. ASSUME NEW w \in Workers, CallApply(w) PROVE TypeInv'
  BY <1>1, <1>a DEF TypeInv, TypeOK, CallApply, txVars, Batch
<1>2. ASSUME NEW w \in Workers, Begin(w) PROVE TypeInv'
  <2>1. Len(Batch(w)) \in Nat
    BY <1>2, BatchFacts DEF Begin
  <2> QED
    BY <1>2, <2>1 DEF TypeInv, TypeOK, Begin, txVars, Batch
<1>3. ASSUME NEW w \in Workers, BeginFails(w) PROVE TypeInv'
  BY <1>3, <1>a DEF TypeInv, TypeOK, BeginFails, ReturnsError, Fault, txVars, Batch
<1>4. ASSUME NEW w \in Workers, ExecChange(w) PROVE TypeInv'
  <2> DEFINE ch == Batch(w)[step[w]]
             c == IF ch.op = "delete" THEN NoRow ELSE ch.content
  <2>1. Len(Batch(w)) \in Nat /\ step[w] \in 1 .. Len(Batch(w)) /\ pc[w] = "exec"
    BY <1>4, BatchFacts DEF ExecChange, Due, TypeInv, TypeOK
  <2>2. ch \in Change
    BY <2>1, BatchFacts
  <2>3. ch.key \in Keys /\ c \in Stored
    BY <2>2 DEF Change, Stored
  <2>4. /\ \/ /\ writes' = [writes EXCEPT ![w][ch.key] = c]
              /\ locks' = [locks EXCEPT ![w] = @ \cup {ch.key}]
           \/ UNCHANGED <<writes, locks>>
        /\ step' = [step EXCEPT ![w] = @ + 1]
        /\ UNCHANGED <<pc, job, orphans, table, done, faults>>
    BY <1>4 DEF ExecChange
  <2> HIDE DEF ch, c
  <2>5. writes' \in [Workers -> [Keys -> Stored \cup {NoWrite}]]
        /\ locks' \in [Workers -> SUBSET Keys]
    <3>1. writes[w] \in [Keys -> Stored \cup {NoWrite}]
      BY DEF TypeInv, TypeOK
    <3>2. [writes[w] EXCEPT ![ch.key] = c] \in [Keys -> Stored \cup {NoWrite}]
      BY <2>3, <3>1
    <3>3. [writes EXCEPT ![w][ch.key] = c]
            \in [Workers -> [Keys -> Stored \cup {NoWrite}]]
      BY <3>2 DEF TypeInv, TypeOK
    <3>4. [locks EXCEPT ![w] = @ \cup {ch.key}] \in [Workers -> SUBSET Keys]
      BY <2>3 DEF TypeInv, TypeOK
    <3>5. writes \in [Workers -> [Keys -> Stored \cup {NoWrite}]]
          /\ locks \in [Workers -> SUBSET Keys]
      BY DEF TypeInv, TypeOK
    <3> QED  BY <2>4, <3>3, <3>4, <3>5
  <2>6. \A v \in Workers : IF pc'[v] \in {"exec", "rollback"}
                             THEN step'[v] \in 1 .. (Len(Stream[job'[v]]) + 1)
                             ELSE step'[v] = 1 /\ locks'[v] = {}
    BY <2>1, <2>4 DEF TypeInv, TypeOK, Batch
  <2>7. step' \in [Workers -> Nat]
    BY <2>4 DEF TypeInv
  <2> QED
    BY <2>4, <2>5, <2>6, <2>7 DEF TypeInv, TypeOK, Batch
<1>5. ASSUME NEW w \in Workers, ExecFails(w) PROVE TypeInv'
  BY <1>5, <1>a DEF TypeInv, TypeOK, ExecFails, Due, Fault, txVars, Batch
<1>6. ASSUME NEW w \in Workers, Rollback(w) \/ RollbackFails(w) \/ CommitFails(w)
      PROVE  TypeInv'
  <2>1. /\ TxGone(w) /\ ReturnsError(w)
        /\ orphans' \in {orphans, orphans \cup locks[w]}
        /\ UNCHANGED faults \/ Fault
        /\ UNCHANGED <<table, done>>
    BY <1>6 DEF Rollback, RollbackFails, CommitFails
  <2>2. faults' \in 0 .. MaxFaults
    BY <1>a, <2>1 DEF Fault, TypeInv, TypeOK
  <2>3. writes' \in [Workers -> [Keys -> Stored \cup {NoWrite}]]
        /\ locks' \in [Workers -> SUBSET Keys] /\ step' \in [Workers -> Nat]
    BY <2>1 DEF TxGone, Clean, TypeInv, TypeOK
  <2> QED
    BY <2>1, <2>2, <2>3, <1>a DEF TypeInv, TypeOK, TxGone, ReturnsError, Batch
<1>7. ASSUME NEW w \in Workers, Commit(w) PROVE TypeInv'
  <2>1. writes' \in [Workers -> [Keys -> Stored \cup {NoWrite}]]
        /\ locks' \in [Workers -> SUBSET Keys] /\ step' \in [Workers -> Nat]
    BY <1>7 DEF Commit, TxGone, Clean, TypeInv, TypeOK
  <2>2. table' \in [Keys -> Stored]
    BY <1>7 DEF Commit, Sees, TypeInv, TypeOK
  <2> QED
    BY <1>7, <2>1, <2>2 DEF Commit, TxGone, TypeInv, TypeOK, Batch
<1>8. ASSUME NEW w \in Workers, CommitUnknown(w) \/ ReturnNil(w) PROVE TypeInv'
  <2>1. CASE CommitUnknown(w)
    BY <2>1, <1>a DEF TypeInv, TypeOK, CommitUnknown, ReturnsError, Fault, txVars, Batch
  <2>2. CASE ReturnNil(w)
    BY <2>2, <1>a DEF TypeInv, TypeOK, ReturnNil, txVars, Batch
  <2> QED  BY <1>8, <2>1, <2>2
<1>9. CASE Crash
  BY <1>9, <1>a DEF TypeInv, TypeOK, Crash, Fault, Clean, Batch
<1>10. CASE ServerAborts
  BY <1>10 DEF TypeInv, TypeOK, ServerAborts, txVars, Batch
<1>11. CASE UNCHANGED vars
  BY <1>11 DEF TypeInv, TypeOK, vars, txVars, Batch
<1> QED
  BY <1>1, <1>2, <1>3, <1>4, <1>5, <1>6, <1>7, <1>8, <1>9, <1>10, <1>11
  DEF Next, WorkerStep, Quiet

\* Every call of Apply is where its transaction says it is; a transaction that
\* is over has no locks left (postgres.go, Apply and applyBatch).
THEOREM TypeCorrect == Spec => []TypeOK
<1>1. TypeInv => TypeOK
  BY DEF TypeInv
<1> QED
  BY <1>1, InitType, NextType, PTL DEF Spec

-----------------------------------------------------------------------------
(* The table.                                                              *)

\* The table that a running call's batch is applied to is the one before the
\* batch or the one after it.
LEMMA RunningFacts ==
  ASSUME IInv, NEW w \in Workers, pc[w] # "idle"
  PROVE  /\ Contract!TableAfter[job[w] - 1] \in [Keys -> Stored]
         /\ Contract!TableAfter[job[w]] =
              Contract!ApplyAll(Batch(w), Contract!TableAfter[job[w] - 1])
         /\ \/ table = Contract!TableAfter[job[w] - 1]
            \/ Applicable(Batch(w)) /\ table = Contract!TableAfter[job[w]]
<1>1. job[w] \in 1 .. Len(Stream) /\ Len(Stream) \in Nat /\ done \in Nat
  BY BatchFacts DEF IInv, TypeInv, TypeOK
<1>2. job[w] \in {done, done + 1}
  BY <1>1 DEF IInv, JobInv
<1>3. \A m \in 1 .. job[w] - 1 : Applicable(Stream[m])
  BY <1>1, <1>2 DEF IInv, TableInv
<1>4. Contract!TableAfter[job[w] - 1] \in [Keys -> Stored]
  BY <1>1, <1>3, TableAfterType
<1>5. Contract!TableAfter[job[w]] =
        Contract!ApplyAll(Batch(w), Contract!TableAfter[job[w] - 1])
  BY <1>1, TableAfterRec DEF Batch
<1>6. CASE job[w] = done
  BY <1>1, <1>4, <1>5, <1>6 DEF IInv, TableInv, Batch
<1>7. CASE job[w] = done + 1
  BY <1>1, <1>4, <1>5, <1>7 DEF IInv, TableInv, Batch
<1> QED  BY <1>2, <1>6, <1>7

\* A transaction that has made all its changes makes the table the one after
\* its batch, whether or not a copy of the call has been there before.
LEMMA CommitMakes ==
  ASSUME IInv, NEW w \in Workers, Commit(w)
  PROVE  /\ Applicable(Batch(w))
         /\ table' = Contract!TableAfter[job[w]]
<1> DEFINE b == Batch(w)
           t == Contract!TableAfter[job[w] - 1]
<1>1. pc[w] = "exec" /\ step[w] > Len(b) /\ table' = Rows(w)
  BY DEF Commit, Rows
<1>2. /\ b \in Seq(Change) /\ Len(b) \in Nat /\ \A i \in 1 .. Len(b) : b[i] \in Change
      /\ t \in [Keys -> Stored]
      /\ Contract!TableAfter[job[w]] = Contract!ApplyAll(b, t)
  BY <1>1, BatchFacts, RunningFacts DEF IInv
<1>3. step[w] = Len(b) + 1
  BY <1>1, <1>2 DEF IInv, TypeInv, TypeOK
<1>4. /\ \A i \in 1 .. step[w] - 1 : ~Refused(b[i])
      /\ Catching(b, t, step[w] - 1, Rows(w))
  BY <1>1 DEF IInv, TxInv, TxOn
<1>5. step[w] - 1 = Len(b)
  BY <1>2, <1>3
<1>6. Applicable(b)
  <2> SUFFICES ASSUME NEW i \in DOMAIN b PROVE Known(b[i])
    BY DEF Applicable
  <2>1. i \in 1 .. Len(b) /\ b[i] \in Change
    BY <1>2
  <2>2. ~Refused(b[i])
    BY <1>4, <1>5, <2>1
  <2> QED  BY <2>1, <2>2 DEF Refused, Known, Change, Ops
<1>7. Rows(w) \in [Keys -> Stored]
  BY DEF Rows, Sees, IInv, TypeInv, TypeOK
<1>8. Rows(w) = Contract!ApplyAll(b, t)
  BY <1>2, <1>4, <1>5, <1>6, <1>7, CaughtUp
<1> QED  BY <1>1, <1>2, <1>6, <1>8

\* The next change in w's transaction is that change of the rows as w sees them.
LEMMA ExecIsStep ==
  ASSUME TypeInv, NEW w \in Workers, ExecChange(w)
  PROVE  /\ step[w] \in 1 .. Len(Batch(w)) /\ step'[w] = step[w] + 1
         /\ ~Refused(Batch(w)[step[w]]) /\ Known(Batch(w)[step[w]])
         /\ Rows(w) \in [Keys -> Stored]
         /\ Rows(w)' = Step(Batch(w)[step[w]], Rows(w))
<1> DEFINE ch == Batch(w)[step[w]]
           c == IF ch.op = "delete" THEN NoRow ELSE ch.content
<1>1. Len(Batch(w)) \in Nat /\ step[w] \in 1 .. Len(Batch(w)) /\ pc[w] = "exec"
  BY BatchFacts DEF ExecChange, Due, TypeInv, TypeOK
<1>2. ch \in Change /\ ~Refused(ch)
  BY <1>1, BatchFacts DEF ExecChange
<1>3. ch.key \in Keys /\ c \in Stored /\ c # NoWrite /\ Known(ch)
  BY <1>2, WriterAssumption DEF Change, Stored, Refused, Known, Ops
<1>4. step'[w] = step[w] + 1 /\ table' = table
      /\ writes' = IF Writes(w, ch) THEN [writes EXCEPT ![w][ch.key] = c] ELSE writes
  BY DEF ExecChange, TypeInv, TypeOK
<1>5. Rows(w) \in [Keys -> Stored] /\ writes[w] \in [Keys -> Stored \cup {NoWrite}]
  BY DEF Rows, Sees, TypeInv, TypeOK
<1>6. writes'[w] = IF Writes(w, ch) THEN [writes[w] EXCEPT ![ch.key] = c]
                   ELSE writes[w]
  BY <1>4 DEF TypeInv, TypeOK
<1>7. Rows(w)' = [k \in Keys |-> IF writes'[w][k] = NoWrite THEN table[k]
                                  ELSE writes'[w][k]]
  BY <1>4 DEF Rows, Sees
<1>8. \A k \in Keys : Rows(w)[k] = Sees(w, k)
  BY DEF Rows
<1>9. Step(ch, Rows(w)) = [Rows(w) EXCEPT ![ch.key] = Contract!After(ch, Rows(w))]
  BY DEF Step
<1> HIDE DEF ch, c
<1>10. CASE Writes(w, ch)
  <2>1. Contract!After(ch, Rows(w)) = c
    BY <1>3, <1>8, <1>10
    DEF Contract!After, Writes, UpsertWrites, DeleteWrites, Known, c
  <2>2. Rows(w)' = [Rows(w) EXCEPT ![ch.key] = c]
    <3>1. \A k \in Keys : Rows(w)'[k] = IF k = ch.key THEN c ELSE Rows(w)[k]
      BY <1>3, <1>5, <1>6, <1>7, <1>8, <1>10 DEF Sees
    <3>2. Rows(w)' = [k \in Keys |-> Rows(w)'[k]]
      BY <1>7
    <3> QED  BY <1>3, <1>5, <3>1, <3>2
  <2> QED  BY <1>1, <1>2, <1>3, <1>4, <1>5, <1>9, <2>1, <2>2 DEF ch
<1>11. CASE ~Writes(w, ch)
  <2>1. Contract!After(ch, Rows(w)) = Rows(w)[ch.key]
    BY <1>3, <1>8, <1>11
    DEF Contract!After, Writes, UpsertWrites, DeleteWrites, Known
  <2>2. Rows(w)' = Rows(w)
    BY <1>6, <1>7, <1>11 DEF Rows, Sees
  <2>3. [Rows(w) EXCEPT ![ch.key] = Rows(w)[ch.key]] = Rows(w)
    BY <1>3, <1>5
  <2> QED  BY <1>1, <1>2, <1>3, <1>4, <1>5, <1>9, <2>1, <2>2, <2>3 DEF ch
<1> QED  BY <1>10, <1>11

-----------------------------------------------------------------------------
(* The invariant is kept.                                                  *)

\* A call that has not moved, over a table that has not changed.
LEMMA TxFrame ==
  ASSUME TxInv, NEW w \in Workers, UNCHANGED table,
         pc'[w] = pc[w], job'[w] = job[w], step'[w] = step[w], writes'[w] = writes[w]
  PROVE  TxOn(w)'
<1>1. TxOn(w)
  BY DEF TxInv
<1>2. Batch(w)' = Batch(w)
  BY DEF Batch
<1>3. Rows(w)' = Rows(w)
  BY DEF Rows, Sees
<1> QED  BY <1>1, <1>2, <1>3 DEF TxOn

\* A call that has ended.
LEMMA TxOver ==
  ASSUME NEW w \in Workers, pc'[w] = "idle", writes'[w] = Clean
  PROVE  TxOn(w)'
BY DEF TxOn

\* An answer that is not nil, to calls that have left nothing behind.
LEMMA ErrorKeeps ==
  ASSUME IInv, NEW W \in SUBSET Workers, UNCHANGED <<table, done>>,
         \A w \in W : pc'[w] = "idle" /\ job'[w] = 0 /\ writes'[w] = Clean,
         \A w \in Workers \ W : /\ pc'[w] = pc[w] /\ job'[w] = job[w]
                                /\ step'[w] = step[w] /\ writes'[w] = writes[w]
  PROVE  (JobInv /\ TxInv /\ TableInv)'
<1>1. \A w \in Workers : job'[w] \in {0, job[w]}
  OBVIOUS
<1>2. JobInv'
  BY <1>1 DEF IInv, JobInv
<1>3. TxInv'
  <2> SUFFICES ASSUME NEW w \in Workers PROVE TxOn(w)'
    BY DEF TxInv
  <2>1. CASE w \in W
    BY <2>1, TxOver
  <2>2. CASE w \notin W
    BY <2>2, TxFrame DEF IInv
  <2> QED  BY <2>1, <2>2
<1>4. TableInv'
  BY <1>1 DEF IInv, TableInv
<1> QED  BY <1>2, <1>3, <1>4

LEMMA InitInv == Init => IInv
<1> SUFFICES ASSUME Init PROVE JobInv /\ TxInv /\ TableInv
  BY InitType DEF IInv
<1>1. table = Contract!TableAfter[done]
  BY TableAfterRec DEF Init, Contract!Empty
<1> QED
  BY <1>1 DEF Init, JobInv, TxInv, TxOn, TableInv

LEMMA CallKeeps ==
  ASSUME IInv, NEW w \in Workers, CallApply(w)
  PROVE  (JobInv /\ TxInv /\ TableInv)'
<1>1. /\ pc[w] = "idle" /\ \A v \in Workers : job[v] \in {0, done + 1}
      /\ job' = [job EXCEPT ![w] = done + 1] /\ pc' = [pc EXCEPT ![w] = "begin"]
      /\ UNCHANGED <<txVars, orphans, table, done, faults>>
  BY DEF CallApply
<1>2. done \in Nat /\ DOMAIN job = Workers /\ DOMAIN pc = Workers
  BY WriterAssumption DEF IInv, TypeInv, TypeOK
<1>3. \A v \in Workers : job'[v] \in {0, done + 1}
  BY <1>1, <1>2
<1>4. JobInv' /\ TableInv'
  BY <1>1, <1>2, <1>3 DEF IInv, JobInv, TableInv
<1>5. TxInv'
  <2> SUFFICES ASSUME NEW v \in Workers PROVE TxOn(v)'
    BY DEF TxInv
  <2>1. CASE v = w
    <3>1. pc'[v] = "begin" /\ writes'[v] = writes[v] /\ writes[v] = Clean
      BY <1>1, <1>2, <2>1 DEF txVars, IInv, TxInv, TxOn
    <3> QED  BY <3>1 DEF TxOn
  <2>2. CASE v # w
    <3>1. pc'[v] = pc[v] /\ job'[v] = job[v] /\ step'[v] = step[v]
          /\ writes'[v] = writes[v] /\ table' = table
      BY <1>1, <1>2, <2>2 DEF txVars
    <3> QED  BY <3>1, TxFrame DEF IInv
  <2> QED  BY <2>1, <2>2
<1> QED  BY <1>4, <1>5

\* What a worker's step inside Apply leaves alone.
LEMMA InsideKeeps ==
  ASSUME IInv, NEW w \in Workers, UNCHANGED <<job, table, done>>,
         \A v \in Workers \ {w} : /\ pc'[v] = pc[v] /\ step'[v] = step[v]
                                  /\ writes'[v] = writes[v],
         TxOn(w)'
  PROVE  (JobInv /\ TxInv /\ TableInv)'
<1>1. JobInv' /\ TableInv'
  BY DEF IInv, JobInv, TableInv
<1>2. ASSUME NEW v \in Workers PROVE TxOn(v)'
  <2>1. CASE v = w
    BY <2>1
  <2>2. CASE v # w
    BY <2>2, TxFrame DEF IInv
  <2> QED  BY <2>1, <2>2
<1> QED  BY <1>1, <1>2 DEF TxInv

LEMMA BeginKeeps ==
  ASSUME IInv, NEW w \in Workers, Begin(w)
  PROVE  (JobInv /\ TxInv /\ TableInv)'
<1> DEFINE b == Batch(w)
           t == Contract!TableAfter[job[w] - 1]
<1>1. /\ pc[w] = "begin"
      /\ pc' = [pc EXCEPT ![w] = IF b = <<>> THEN "committed" ELSE "exec"]
      /\ UNCHANGED <<job, txVars, orphans, table, done, faults>>
  BY DEF Begin
<1>2. /\ pc'[w] = IF b = <<>> THEN "committed" ELSE "exec"
      /\ \A v \in Workers \ {w} : pc'[v] = pc[v]
  BY <1>1 DEF IInv, TypeInv, TypeOK
<1>3. step[w] = 1 /\ writes[w] = Clean /\ Batch(w)' = b /\ step'[w] = 1
      /\ writes'[w] = Clean /\ job'[w] = job[w]
  BY <1>1 DEF IInv, TypeInv, TypeOK, TxInv, TxOn, txVars, Batch
<1>4. b \in Seq(Change) /\ Len(b) \in Nat
      /\ Contract!TableAfter[job[w]] = Contract!ApplyAll(b, t)
      /\ \/ table = t
         \/ Applicable(b) /\ table = Contract!TableAfter[job[w]]
  BY <1>1, BatchFacts, RunningFacts DEF IInv
<1>5. TxOn(w)'
  <2>1. CASE b = <<>>
    <3>1. Len(b) = 0 /\ Applicable(b)
      BY <2>1 DEF Applicable
    <3>2. Contract!ApplyAll(b, t) = t
      BY <1>4, <3>1, UptoRec DEF Contract!ApplyAll
    <3>3. table = Contract!TableAfter[job[w]]
      BY <1>4, <3>2
    <3> QED  BY <1>1, <1>2, <1>3, <2>1, <3>1, <3>3 DEF TxOn
  <2>2. CASE b # <<>>
    <3>1. Rows(w)' = [k \in Keys |-> table[k]]
      BY <1>1, <1>3 DEF Rows, Sees, Clean
    <3>2. Contract!Upto(b, t)[0] = t
      BY <1>4, UptoRec
    <3>3. Catching(b, t, 0, Rows(w)')
      BY <1>4, <3>1, <3>2 DEF Catching
    <3>4. pc'[w] = "exec" /\ Contract!TableAfter[job'[w] - 1] = t /\ 1 - 1 = 0
      BY <1>2, <1>3, <2>2
    <3> HIDE DEF t, b
    <3> QED  BY <1>3, <3>3, <3>4 DEF TxOn
  <2> QED  BY <2>1, <2>2
<1> QED
  BY <1>1, <1>2, <1>5, InsideKeeps DEF txVars

LEMMA ExecKeeps ==
  ASSUME IInv, NEW w \in Workers, ExecChange(w)
  PROVE  (JobInv /\ TxInv /\ TableInv)'
<1> DEFINE b == Batch(w)
           t == Contract!TableAfter[job[w] - 1]
           n == step[w]
<1>1. /\ pc[w] = "exec" /\ UNCHANGED <<pc, job, table, done>>
      /\ step' = [step EXCEPT ![w] = @ + 1]
      /\ \A v \in Workers \ {w} : writes'[v] = writes[v]
  <2>1. /\ pc[w] = "exec" /\ UNCHANGED <<pc, job, table, done>>
        /\ step' = [step EXCEPT ![w] = @ + 1]
    BY DEF ExecChange, Due
  <2>2. \A v \in Workers \ {w} : writes'[v] = writes[v]
    BY DEF ExecChange, IInv, TypeInv, TypeOK
  <2> QED  BY <2>1, <2>2
<1>2. /\ n \in 1 .. Len(b) /\ step'[w] = n + 1
      /\ ~Refused(b[n]) /\ Known(b[n])
      /\ Rows(w) \in [Keys -> Stored]
      /\ Rows(w)' = Step(b[n], Rows(w))
  BY ExecIsStep DEF IInv
<1>3. /\ b \in Seq(Change) /\ t \in [Keys -> Stored]
      /\ \A i \in 1 .. Len(b) : b[i] \in Change
  BY <1>1, BatchFacts, RunningFacts DEF IInv
<1>4. /\ \A i \in 1 .. n - 1 : ~Refused(b[i])
      /\ Catching(b, t, n - 1, Rows(w))
  BY <1>1 DEF IInv, TxInv, TxOn
<1>5. \A i \in 1 .. n : ~Refused(b[i]) /\ Known(b[i])
  <2> SUFFICES ASSUME NEW i \in 1 .. n PROVE ~Refused(b[i]) /\ Known(b[i])
    OBVIOUS
  <2>1. CASE i = n
    BY <1>2, <2>1
  <2>2. CASE i \in 1 .. n - 1
    <3>1. b[i] \in Change /\ ~Refused(b[i])
      BY <1>2, <1>3, <1>4, <2>2
    <3> QED  BY <3>1 DEF Refused, Known, Change, Ops
  <2> QED  BY <1>2, <2>1, <2>2
<1>6. Catching(b, t, n, Step(b[n], Rows(w)))
  BY <1>2, <1>3, <1>4, <1>5, CatchingStep
<1>7. Batch(w)' = b /\ Contract!TableAfter[job'[w] - 1] = t /\ step'[w] - 1 = n
      /\ pc'[w] = "exec"
  BY <1>1, <1>2 DEF Batch
<1> HIDE DEF b, t, n
<1>8. TxOn(w)'
  BY <1>2, <1>5, <1>6, <1>7 DEF TxOn
<1> QED
  BY <1>1, <1>8, InsideKeeps DEF IInv, TypeInv

LEMMA ExecFailsKeeps ==
  ASSUME IInv, NEW w \in Workers, ExecFails(w)
  PROVE  (JobInv /\ TxInv /\ TableInv)'
<1>1. pc' = [pc EXCEPT ![w] = "rollback"] /\ UNCHANGED <<job, txVars, table, done>>
  BY DEF ExecFails
<1>2. pc'[w] = "rollback" /\ \A v \in Workers \ {w} : pc'[v] = pc[v]
  BY <1>1 DEF IInv, TypeInv, TypeOK
<1>3. TxOn(w)'
  BY <1>2 DEF TxOn
<1> QED
  BY <1>1, <1>2, <1>3, InsideKeeps DEF txVars

LEMMA ErrorsKeep ==
  ASSUME IInv, NEW w \in Workers,
         \/ BeginFails(w) \/ Rollback(w) \/ RollbackFails(w)
         \/ CommitFails(w) \/ CommitUnknown(w)
  PROVE  (JobInv /\ TxInv /\ TableInv)'
<1>1. /\ ReturnsError(w) /\ UNCHANGED <<table, done>>
      /\ \/ TxGone(w)
         \/ UNCHANGED txVars /\ pc[w] \in {"begin", "committed"}
  BY DEF BeginFails, Rollback, RollbackFails, CommitFails, CommitUnknown
<1>2. /\ pc'[w] = "idle" /\ job'[w] = 0
      /\ \A v \in Workers \ {w} : pc'[v] = pc[v] /\ job'[v] = job[v]
  BY <1>1 DEF ReturnsError, IInv, TypeInv, TypeOK
<1>3. /\ writes'[w] = Clean
      /\ \A v \in Workers \ {w} : writes'[v] = writes[v] /\ step'[v] = step[v]
  BY <1>1 DEF TxGone, txVars, IInv, TypeInv, TypeOK, TxInv, TxOn
<1>4. {w} \in SUBSET Workers
  OBVIOUS
<1> QED
  BY <1>1, <1>2, <1>3, <1>4, ErrorKeeps

LEMMA CrashKeeps ==
  ASSUME IInv, Crash
  PROVE  (JobInv /\ TxInv /\ TableInv)'
<1>1. UNCHANGED <<table, done>>
      /\ \A w \in Workers : pc'[w] = "idle" /\ job'[w] = 0 /\ writes'[w] = Clean
  BY DEF Crash
<1> QED
  BY <1>1, ErrorKeeps

LEMMA CommitKeeps ==
  ASSUME IInv, NEW w \in Workers, Commit(w)
  PROVE  (JobInv /\ TxInv /\ TableInv)'
<1>1. Applicable(Batch(w)) /\ table' = Contract!TableAfter[job[w]]
  BY CommitMakes
<1>2. /\ pc[w] = "exec" /\ pc'[w] = "committed" /\ writes'[w] = Clean
      /\ UNCHANGED <<job, done>>
      /\ \A v \in Workers \ {w} : /\ pc'[v] = pc[v] /\ step'[v] = step[v]
                                  /\ writes'[v] = writes[v]
  BY DEF Commit, TxGone, IInv, TypeInv, TypeOK
<1>3. job[w] \in 1 .. Len(Stream) /\ Len(Stream) \in Nat /\ done \in Nat
  BY <1>2, BatchFacts DEF IInv, TypeInv, TypeOK
<1>4. JobInv'
  BY <1>2 DEF IInv, JobInv
<1>5. TableInv'
  <2>1. \A v \in Workers : job[v] # 0 => job[v] = job[w]
    BY <1>3 DEF IInv, JobInv
  <2>2. job[w] \in {done, done + 1}
    BY <1>3 DEF IInv, JobInv
  <2> QED
    BY <1>1, <1>2, <1>3, <2>1, <2>2 DEF IInv, TableInv, Batch
<1>6. ASSUME NEW v \in Workers PROVE TxOn(v)'
  <2>1. CASE v = w
    BY <1>1, <1>2, <2>1 DEF TxOn, Batch
  <2>2. CASE v # w /\ pc[v] \in {"exec", "committed"}
    <3>1. job[v] = job[w]
      BY <1>3, <2>2, BatchFacts DEF IInv, JobInv
    <3>2. /\ pc'[v] = pc[v] /\ job'[v] = job[v] /\ step'[v] = step[v]
          /\ writes'[v] = writes[v] /\ Batch(v)' = Batch(v) /\ Batch(v) = Batch(w)
      BY <1>2, <2>2, <3>1 DEF Batch
    <3>3. CASE pc[v] = "committed"
      BY <1>1, <3>1, <3>2, <3>3 DEF IInv, TxInv, TxOn
    <3>4. CASE pc[v] = "exec"
      <4> DEFINE b == Batch(v)
                 t == Contract!TableAfter[job[v] - 1]
                 n == step[v] - 1
      <4>1. TxOn(v)
        BY DEF IInv, TxInv
      <4>2. Catching(b, t, n, Rows(v))
        BY <3>4, <4>1 DEF TxOn
      <4>3. Contract!TableAfter[job[v]] = Contract!ApplyAll(b, t)
        BY <3>4, RunningFacts
      <4>4. \A k \in Keys : \/ Rows(v)'[k] = Rows(v)[k]
                             \/ Rows(v)'[k] = Contract!ApplyAll(b, t)[k]
        BY <1>1, <3>1, <3>2, <4>3 DEF Rows, Sees
      <4>5. Applicable(b)
        BY <1>1, <3>2
      <4>6. Catching(b, t, n, Rows(v)')
        BY <4>2, <4>4, <4>5 DEF Catching
      <4>7. Contract!TableAfter[job'[v] - 1] = t /\ step'[v] - 1 = n
        BY <3>2
      <4> HIDE DEF b, t, n
      <4>8. Catching(Batch(v)', Contract!TableAfter[job'[v] - 1], step'[v] - 1, Rows(v)')
        BY <3>2, <4>6, <4>7 DEF b
      <4> QED  BY <3>2, <3>4, <4>1, <4>8 DEF TxOn
    <3> QED  BY <2>2, <3>3, <3>4
  <2>3. CASE v # w /\ pc[v] \notin {"exec", "committed"}
    BY <1>2, <2>3 DEF IInv, TxInv, TxOn
  <2> QED  BY <2>1, <2>2, <2>3
<1> QED  BY <1>4, <1>5, <1>6 DEF TxInv

LEMMA ReturnKeeps ==
  ASSUME IInv, NEW w \in Workers, ReturnNil(w)
  PROVE  (JobInv /\ TxInv /\ TableInv)'
<1>1. /\ pc[w] = "committed" /\ done' = job[w] /\ pc'[w] = "idle" /\ job'[w] = 0
      /\ UNCHANGED <<txVars, table>>
      /\ \A v \in Workers \ {w} : pc'[v] = pc[v] /\ job'[v] = job[v]
  BY DEF ReturnNil, IInv, TypeInv, TypeOK
<1>2. job[w] \in 1 .. Len(Stream) /\ done \in Nat /\ job[w] \in {done, done + 1}
      /\ \A v \in Workers : job[v] \in {0, job[w]}
  BY <1>1, BatchFacts DEF IInv, TypeInv, TypeOK, JobInv
<1>3. Applicable(Batch(w)) /\ table = Contract!TableAfter[job[w]]
      /\ writes[w] = Clean
  BY <1>1 DEF IInv, TxInv, TxOn
<1>4. JobInv'
  BY <1>1, <1>2 DEF JobInv
<1>5. TableInv'
  <2>1. \A n \in 1 .. job[w] : Applicable(Stream[n])
    BY <1>2, <1>3 DEF IInv, TableInv, Batch
  <2> QED  BY <1>1, <1>2, <1>3, <2>1 DEF TableInv
<1>6. ASSUME NEW v \in Workers PROVE TxOn(v)'
  <2>1. CASE v = w
    BY <1>1, <1>3, <2>1, TxOver DEF txVars
  <2>2. CASE v # w
    BY <1>1, <2>2, TxFrame DEF IInv, txVars
  <2> QED  BY <2>1, <2>2
<1> QED  BY <1>4, <1>5, <1>6 DEF TxInv

LEMMA NextInv == IInv /\ [Next]_vars => IInv'
<1> SUFFICES ASSUME IInv, [Next]_vars PROVE (JobInv /\ TxInv /\ TableInv)'
  BY NextType DEF IInv
<1>1. ASSUME NEW w \in Workers, WorkerStep(w)
      PROVE  (JobInv /\ TxInv /\ TableInv)'
  BY <1>1, BeginKeeps, ExecKeeps, ExecFailsKeeps, ErrorsKeep, CommitKeeps, ReturnKeeps
  DEF WorkerStep
<1>2. CASE ServerAborts \/ UNCHANGED vars
  <2>1. UNCHANGED <<pc, job, txVars, table, done>>
    BY <1>2 DEF ServerAborts, vars
  <2>2. {} \in SUBSET Workers
    OBVIOUS
  <2> QED  BY <2>1, <2>2, ErrorKeeps DEF txVars
<1> QED
  BY <1>1, <1>2, CallKeeps, CrashKeeps DEF Next, Quiet

\* Whatever copies of a batch run beside each other, fail, or are cut off by a
\* crash, the table holds the batches that have been answered with nil, and
\* perhaps the one that is due, whole (postgres.go, Apply and applyBatch).
THEOREM TableIsAPrefix == Spec => []TableIsPrefix
<1>1. IInv => TableIsPrefix
  BY DEF IInv, TableInv, TableIsPrefix
<1> QED
  BY <1>1, InitInv, NextInv, PTL DEF Spec

-----------------------------------------------------------------------------
(* The contract.                                                           *)

\* The contract's view of the calls.
InTable == [w \in Workers |-> pc[w] = "committed"]

\* Commit, seen from outside, makes the changes of the batch.
LEMMA CommitIsApply ==
  ASSUME IInv, NEW w \in Workers, Commit(w)
  PROVE  table' = Contract!ApplyAll(Stream[job[w]], table)
<1> DEFINE b == Batch(w)
           t == Contract!TableAfter[job[w] - 1]
<1>1. pc[w] = "exec"
  BY DEF Commit
<1>2. b \in Seq(Change) /\ t \in [Keys -> Stored] /\ b = Stream[job[w]]
      /\ Contract!TableAfter[job[w]] = Contract!ApplyAll(b, t)
      /\ table \in {t, Contract!ApplyAll(b, t)}
  BY <1>1, BatchFacts, RunningFacts DEF IInv, Batch
<1>3. Applicable(b) /\ table' = Contract!ApplyAll(b, t)
  BY <1>2, CommitMakes
<1>4. Contract!ApplyAll(b, Contract!ApplyAll(b, t)) = Contract!ApplyAll(b, t)
  BY <1>2, <1>3, ReapplyChangesNothing
<1> HIDE DEF b, t
<1> QED  BY <1>2, <1>3, <1>4

LEMMA NextContract == IInv /\ [Next]_vars => [Contract!Next]_(Contract!vars)
<1> SUFFICES ASSUME IInv, [Next]_vars
             PROVE  Contract!Next \/ UNCHANGED <<table, job, InTable, done>>
  BY DEF Contract!vars, InTable
<1>t. DOMAIN pc = Workers /\ DOMAIN job = Workers /\ job = [v \in Workers |-> job[v]]
      /\ \A v \in Workers : job[v] = 0 <=> pc[v] = "idle"
  BY DEF IInv, TypeInv, TypeOK
<1>1. ASSUME NEW w \in Workers, CallApply(w) PROVE Contract!Call(w)
  <2>1. job[w] = 0 /\ done < Len(Stream) /\ job' = [job EXCEPT ![w] = done + 1]
        /\ UNCHANGED <<table, done>>
    BY <1>1, <1>t DEF CallApply
  <2>2. \A v \in Workers : pc'[v] = "committed" <=> pc[v] = "committed"
    BY <1>1, <1>t DEF CallApply
  <2> QED  BY <2>1, <2>2 DEF Contract!Call
<1>2. ASSUME NEW w \in Workers, Begin(w)
      PROVE  Contract!Next \/ UNCHANGED <<table, job, InTable, done>>
  <2>1. /\ pc[w] = "begin" /\ UNCHANGED <<job, table, done>>
        /\ pc' = [pc EXCEPT ![w] = IF Batch(w) = <<>> THEN "committed" ELSE "exec"]
    BY <1>2 DEF Begin
  <2>2. CASE Batch(w) = <<>>
    <3>1. table = Contract!ApplyAll(Stream[job[w]], table)
      <4>1. Batch(w) \in Seq(Change) /\ Len(Batch(w)) = 0
        BY <2>1, <2>2, BatchFacts DEF IInv
      <4> QED  BY <4>1, UptoRec DEF Contract!ApplyAll, Batch
    <3>2. [v \in Workers |-> pc'[v] = "committed"] =
            [[v \in Workers |-> pc[v] = "committed"] EXCEPT ![w] = TRUE]
      <4>1. \A v \in Workers : pc'[v] = IF v = w THEN "committed" ELSE pc[v]
        BY <1>t, <2>1, <2>2
      <4>2. \A v \in Workers : (pc'[v] = "committed")
              = (IF v = w THEN TRUE ELSE pc[v] = "committed")
        BY <4>1
      <4> QED  BY <4>2
    <3>3. Contract!Commit(w)
      BY <1>t, <2>1, <3>1, <3>2 DEF Contract!Commit
    <3> QED  BY <3>3 DEF Contract!Next
  <2>3. CASE Batch(w) # <<>>
    <3>1. \A v \in Workers : (pc'[v] = "committed") = (pc[v] = "committed")
      BY <1>t, <2>1, <2>3
    <3> QED  BY <2>1, <3>1 DEF InTable
  <2> QED  BY <2>2, <2>3
<1>3. ASSUME NEW w \in Workers, ExecChange(w) \/ ExecFails(w)
      PROVE  UNCHANGED <<table, job, InTable, done>>
  <2>1. UNCHANGED <<table, job, done>>
    BY <1>3 DEF ExecChange, ExecFails
  <2>2. \A v \in Workers : (pc'[v] = "committed") = (pc[v] = "committed")
    BY <1>3, <1>t DEF ExecChange, ExecFails, Due
  <2> QED  BY <2>1, <2>2 DEF InTable
<1>4. ASSUME NEW w \in Workers,
             \/ BeginFails(w) \/ Rollback(w) \/ RollbackFails(w)
             \/ CommitFails(w) \/ CommitUnknown(w)
      PROVE  Contract!ReturnError({w})
  <2>1. ReturnsError(w) /\ UNCHANGED <<table, done>>
    BY <1>4 DEF BeginFails, Rollback, RollbackFails, CommitFails, CommitUnknown
  <2>2. job' = [v \in Workers |-> IF v \in {w} THEN 0 ELSE job[v]]
    BY <1>t, <2>1 DEF ReturnsError
  <2>3. \A v \in Workers : (pc'[v] = "committed")
          = (v \notin {w} /\ pc[v] = "committed")
    BY <1>t, <2>1 DEF ReturnsError
  <2> QED  BY <2>1, <2>2, <2>3 DEF Contract!ReturnError
<1>5. ASSUME NEW w \in Workers, Commit(w) PROVE Contract!Commit(w)
  <2>1. pc[w] = "exec" /\ UNCHANGED <<job, done>>
        /\ pc' = [pc EXCEPT ![w] = "committed"]
    BY <1>5 DEF Commit
  <2>2. \A v \in Workers : (pc'[v] = "committed")
          = (IF v = w THEN TRUE ELSE pc[v] = "committed")
    BY <1>t, <2>1
  <2>3. [v \in Workers |-> pc'[v] = "committed"] =
          [[v \in Workers |-> pc[v] = "committed"] EXCEPT ![w] = TRUE]
    BY <2>2
  <2> QED  BY <1>5, <1>t, <2>1, <2>3, CommitIsApply DEF Contract!Commit
<1>6. ASSUME NEW w \in Workers, ReturnNil(w) PROVE Contract!ReturnNil(w)
  <2>1. /\ pc[w] = "committed" /\ done' = job[w] /\ UNCHANGED table
        /\ pc' = [pc EXCEPT ![w] = "idle"] /\ job' = [job EXCEPT ![w] = 0]
    BY <1>6 DEF ReturnNil
  <2>2. \A v \in Workers : (pc'[v] = "committed")
          = (IF v = w THEN FALSE ELSE pc[v] = "committed")
    BY <1>t, <2>1
  <2>3. [v \in Workers |-> pc'[v] = "committed"] =
          [[v \in Workers |-> pc[v] = "committed"] EXCEPT ![w] = FALSE]
    BY <2>2
  <2> QED  BY <1>t, <2>1, <2>3 DEF Contract!ReturnNil
<1>7. CASE Crash
  <2>1. /\ UNCHANGED <<table, done>>
        /\ pc' = [w \in Workers |-> "idle"] /\ job' = [w \in Workers |-> 0]
    BY <1>7 DEF Crash
  <2>2. job' = [v \in Workers |-> IF v \in Workers THEN 0 ELSE job[v]]
    BY <2>1
  <2>3. \A v \in Workers : (pc'[v] = "committed")
          = (v \notin Workers /\ pc[v] = "committed")
    BY <2>1
  <2>4. Contract!ReturnError(Workers)
    BY <2>1, <2>2, <2>3 DEF Contract!ReturnError
  <2> QED  BY <2>4 DEF Contract!Next
<1>8. CASE ServerAborts \/ UNCHANGED vars
  BY <1>8 DEF ServerAborts, vars, InTable
<1> QED
  BY <1>1, <1>2, <1>3, <1>4, <1>5, <1>6, <1>7, <1>8
  DEF Next, WorkerStep, Quiet, Contract!Next

\* Apply makes all the changes of a batch at one moment or none of them, and
\* answers nil only after it has: one transaction per batch, and statements
\* that can be repeated, keep the contract of connector.Writer for any number
\* of callers, batches and faults (postgres.go, Apply).
THEOREM KeepsContract == Spec => ContractSpec
<1>1. Init => Contract!Init
  BY DEF Init, Contract!Init, Contract!Empty
<1> QED
  BY <1>1, InitInv, NextInv, NextContract, PTL DEF Spec, ContractSpec, Contract!Spec
=============================================================================

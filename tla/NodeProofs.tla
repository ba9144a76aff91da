----------------------------- MODULE NodeProofs ------------------------------
(***************************************************************************)
(* Proofs about Node, for any set of configuration files and whatever the  *)
(* source database goes through.                                           *)
(***************************************************************************)
EXTENDS Node, TLAPS

-----------------------------------------------------------------------------
(* The invariants that make the properties inductive.                      *)

\* The places of Start between Load and the goroutine.
Busy == {"source", "ping", "tables", "cdc", "ct", "sink", "sinkPing",
         "sinkProbe", "launch"}

\* The places of the source's New and Probe, after New has looked at its Config.
AtSource == {"ping", "tables", "cdc", "ct"}

\* Nothing has failed before Start returns, and what runs has been launched.
PlaceInv ==
  /\ pc \notin {"return", "failed"} => err = "none"
  /\ run # "none" => pc \in {"return", "started", "stopped"} /\ err = "none"

\* A pool is deferred once, after New has returned it.
PoolInv ==
  /\ EveryPoolHasACloser
  /\ pools \subseteq {"source", "sink"}
  /\ NothingLeaks
  /\ pc \in {"load", "source", "ping"} => "source" \notin deferred
  /\ pc \in {"sink", "sinkPing"} \cup {"load", "source"} \cup AtSource
       => "sink" \notin deferred

\* What Load has returned to a Start that goes on.
LoadInv ==
  /\ file \in Configs
  /\ pc \in Busy \/ run # "none" =>
       /\ \E env \in Environments(file) : cfg = Interpolate(file, env)
       /\ Validate(cfg)
  /\ pc \in AtSource => HasConnector(cfg) /\ SourceConfigOK(cfg.connector)

\* The tables that Probe has still to check.
Todo == {todo[i] : i \in DOMAIN todo}

\* What Probe knows of a table it has passed.
TableOK(t) == t \in Qualified /\ (changes = 0 => t \in existing)

MechanismOK ==
  changes = 0 =>
    mechanism \in enabled /\ (mechanism = "ct" => "cdc" \notin enabled)

\* Every table of the connector has been checked or is to be.
ProbeInv ==
  /\ pc \in {"tables", "cdc", "ct"} =>
       /\ Todo \subseteq PublishedTableSet(cfg)
       /\ \A t \in PublishedTableSet(cfg) : t \in Todo \/ TableOK(t)
  /\ pc \in {"cdc", "ct"} => todo = <<>>
  /\ pc = "ct" => (changes = 0 => "cdc" \notin enabled)

\* What Start knows once it has passed the connector, and then the sink.
ClearedInv ==
  /\ pc \in {"sink", "sinkPing", "sinkProbe", "launch"} \/ run # "none" =>
       (HasConnector(cfg) =>
         /\ SourceConfigOK(cfg.connector)
         /\ \A t \in PublishedTableSet(cfg) : TableOK(t)
         /\ MechanismOK)
  /\ pc \in {"sinkPing", "sinkProbe", "launch"} \/ run # "none" =>
       (HasSink(cfg) => SinkConfigOK(cfg.sink))
  /\ err = "invalidConfig" => Overlooked(cfg)

Inv == PlaceInv /\ PoolInv /\ LoadInv /\ TypeOK /\ ProbeInv /\ ClearedInv

-----------------------------------------------------------------------------
(* Places.                                                                 *)

\* Start fails before it launches, or not at all.
LEMMA NextPlace == PlaceInv /\ [Next]_vars => PlaceInv'
<1> SUFFICES ASSUME PlaceInv, [Next]_vars PROVE PlaceInv'
  OBVIOUS
<1> USE DEF PlaceInv, poolVars, probeVars, serviceVars, worldVars
<1>1. CASE Load /\ UNCHANGED <<file, worldVars, restarts>>
  BY <1>1 DEF Load, Goto, Fail
<1>2. CASE LoadFails /\ UNCHANGED <<file, worldVars, restarts>>
  BY <1>2 DEF LoadFails, Fail
<1>3. CASE OpenSource /\ UNCHANGED <<file, worldVars, restarts>>
  BY <1>3 DEF OpenSource, Goto, Fail
<1>4. CASE PingSource /\ UNCHANGED <<file, worldVars, restarts>>
  BY <1>4 DEF PingSource, Goto
<1>5. CASE PingSourceFails /\ UNCHANGED <<file, worldVars, restarts>>
  BY <1>5 DEF PingSourceFails, Fail
<1>6. CASE CheckTable /\ UNCHANGED <<file, worldVars, restarts>>
  BY <1>6 DEF CheckTable, Goto, Fail
<1>7. CASE TablesChecked /\ UNCHANGED <<file, worldVars, restarts>>
  BY <1>7 DEF TablesChecked, Goto
<1>8. CASE DetectCDC /\ UNCHANGED <<file, worldVars, restarts>>
  BY <1>8 DEF DetectCDC, Goto
<1>9. CASE DetectCT /\ UNCHANGED <<file, worldVars, restarts>>
  BY <1>9 DEF DetectCT, Goto, Fail
<1>10. CASE QueryFails /\ UNCHANGED <<file, worldVars, restarts>>
  BY <1>10 DEF QueryFails, Fail
<1>11. CASE OpenSink /\ UNCHANGED <<file, worldVars, restarts>>
  BY <1>11 DEF OpenSink, Goto, Fail
<1>12. CASE PingSink /\ UNCHANGED <<file, worldVars, restarts>>
  BY <1>12 DEF PingSink, Goto
<1>13. CASE PingSinkFails /\ UNCHANGED <<file, worldVars, restarts>>
  BY <1>13 DEF PingSinkFails, Fail
<1>14. CASE ProbeSink /\ UNCHANGED <<file, worldVars, restarts>>
  BY <1>14 DEF ProbeSink, Goto, Fail
<1>15. CASE Launch /\ UNCHANGED <<file, worldVars, restarts>>
  BY <1>15 DEF Launch, Goto
<1>16. CASE Return /\ UNCHANGED <<file, worldVars, restarts>>
  BY <1>16 DEF Return
<1>17. CASE Stop /\ UNCHANGED <<file, worldVars, restarts>>
  BY <1>17 DEF Stop
<1>18. CASE RunReturns /\ UNCHANGED <<file, worldVars, restarts>>
  BY <1>18 DEF RunReturns
<1>19. CASE Restart
  BY <1>19 DEF Restart
<1>20. CASE ChangeDatabase
  BY <1>20 DEF ChangeDatabase
<1>21. CASE UNCHANGED vars
  BY <1>21 DEF vars
<1> QED
  BY <1>1, <1>2, <1>3, <1>4, <1>5, <1>6, <1>7, <1>8, <1>9, <1>10, <1>11, <1>12, <1>13, <1>14, <1>15, <1>16, <1>17, <1>18, <1>19, <1>20, <1>21
  DEF Next, ProcessStep, StartStep, Proceed, Ended

-----------------------------------------------------------------------------
(* Pools.                                                                  *)

\* New closes what it cannot return, Start what New has returned.
LEMMA NextPool == PlaceInv /\ PoolInv /\ [Next]_vars => PoolInv'
<1> SUFFICES ASSUME PlaceInv, PoolInv, [Next]_vars PROVE PoolInv'
  OBVIOUS
<1> USE DEF PoolInv, EveryPoolHasACloser, NothingLeaks, AtSource, PlaceInv, poolVars, probeVars,
        serviceVars, worldVars
<1>1. CASE Load /\ UNCHANGED <<file, worldVars, restarts>>
  BY <1>1 DEF Load, Goto, Fail
<1>2. CASE LoadFails /\ UNCHANGED <<file, worldVars, restarts>>
  BY <1>2 DEF LoadFails, Fail
<1>3. CASE OpenSource /\ UNCHANGED <<file, worldVars, restarts>>
  BY <1>3 DEF OpenSource, Goto, Fail
<1>4. CASE PingSource /\ UNCHANGED <<file, worldVars, restarts>>
  BY <1>4 DEF PingSource, Goto
<1>5. CASE PingSourceFails /\ UNCHANGED <<file, worldVars, restarts>>
  BY <1>5 DEF PingSourceFails, Fail
<1>6. CASE CheckTable /\ UNCHANGED <<file, worldVars, restarts>>
  BY <1>6 DEF CheckTable, Goto, Fail
<1>7. CASE TablesChecked /\ UNCHANGED <<file, worldVars, restarts>>
  BY <1>7 DEF TablesChecked, Goto
<1>8. CASE DetectCDC /\ UNCHANGED <<file, worldVars, restarts>>
  BY <1>8 DEF DetectCDC, Goto
<1>9. CASE DetectCT /\ UNCHANGED <<file, worldVars, restarts>>
  BY <1>9 DEF DetectCT, Goto, Fail
<1>10. CASE QueryFails /\ UNCHANGED <<file, worldVars, restarts>>
  BY <1>10 DEF QueryFails, Fail
<1>11. CASE OpenSink /\ UNCHANGED <<file, worldVars, restarts>>
  <2>1. /\ pc = "sink" /\ deferred' = deferred
        /\ \/ pc' = "sinkPing" /\ pools' = pools \cup {"sink"}
           \/ pc' \in {"launch", "return"} /\ pools' = pools
    BY <1>11 DEF OpenSink, Goto, Fail
  <2>2. CASE pc' = "sinkPing" /\ pools' = pools \cup {"sink"}
    BY <2>1, <2>2
  <2>3. CASE pc' \in {"launch", "return"} /\ pools' = pools
    BY <2>1, <2>3
  <2> QED
    BY <2>1, <2>2, <2>3
<1>12. CASE PingSink /\ UNCHANGED <<file, worldVars, restarts>>
  BY <1>12 DEF PingSink, Goto
<1>13. CASE PingSinkFails /\ UNCHANGED <<file, worldVars, restarts>>
  BY <1>13 DEF PingSinkFails, Fail
<1>14. CASE ProbeSink /\ UNCHANGED <<file, worldVars, restarts>>
  BY <1>14 DEF ProbeSink, Goto, Fail
<1>15. CASE Launch /\ UNCHANGED <<file, worldVars, restarts>>
  BY <1>15 DEF Launch, Goto
<1>16. CASE Return /\ UNCHANGED <<file, worldVars, restarts>>
  BY <1>16 DEF Return
<1>17. CASE Stop /\ UNCHANGED <<file, worldVars, restarts>>
  BY <1>17 DEF Stop
<1>18. CASE RunReturns /\ UNCHANGED <<file, worldVars, restarts>>
  BY <1>18 DEF RunReturns
<1>19. CASE Restart
  BY <1>19 DEF Restart
<1>20. CASE ChangeDatabase
  BY <1>20 DEF ChangeDatabase
<1>21. CASE UNCHANGED vars
  BY <1>21 DEF vars
<1> QED
  BY <1>1, <1>2, <1>3, <1>4, <1>5, <1>6, <1>7, <1>8, <1>9, <1>10, <1>11, <1>12, <1>13, <1>14, <1>15, <1>16, <1>17, <1>18, <1>19, <1>20, <1>21
  DEF Next, ProcessStep, StartStep, Proceed, Ended

-----------------------------------------------------------------------------
(* The configuration.                                                      *)

\* Interpolation leaves the list of tables as the file has it.
LEMMA TablesOfFile ==
  ASSUME file \in Configs, NEW env, cfg = Interpolate(file, env),
         HasConnector(cfg)
  PROVE  cfg.connector.tables \in Seq(TableName)
<1>1. file \in Config
  BY NodeAssumption DEF NodeAssumption
<1>2. cfg.connector = Interpolated(file, "connector", env)
  BY <1>1 DEF Interpolate, Config
<1>3. file.connector # None
  BY <1>2 DEF HasConnector, Interpolated
<1>4. file.connector \in ConnectorSection
  BY <1>1, <1>3 DEF Config
<1>5. cfg.connector.tables = file.connector.tables
  BY <1>2, <1>3, <1>4 DEF Interpolated, References, Referable, ConnectorSection
<1> QED
  BY <1>4, <1>5 DEF ConnectorSection

\* Start goes on only with what Load has validated.
LEMMA NextLoad ==
  PlaceInv /\ LoadInv /\ [Next]_vars => LoadInv'
<1> SUFFICES ASSUME PlaceInv, LoadInv, [Next]_vars
             PROVE  LoadInv'
  OBVIOUS
<1> USE DEF LoadInv, PlaceInv, Busy, AtSource, poolVars, probeVars, serviceVars,
        worldVars
<1>1. CASE Load /\ UNCHANGED <<file, worldVars, restarts>>
  BY <1>1 DEF Load, Goto, Fail, Values
<1>2. CASE LoadFails /\ UNCHANGED <<file, worldVars, restarts>>
  BY <1>2 DEF LoadFails, Fail
<1>3. CASE OpenSource /\ UNCHANGED <<file, worldVars, restarts>>
  BY <1>3 DEF OpenSource, Goto, Fail
<1>4. CASE PingSource /\ UNCHANGED <<file, worldVars, restarts>>
  BY <1>4 DEF PingSource, Goto
<1>5. CASE PingSourceFails /\ UNCHANGED <<file, worldVars, restarts>>
  BY <1>5 DEF PingSourceFails, Fail
<1>6. CASE CheckTable /\ UNCHANGED <<file, worldVars, restarts>>
  BY <1>6 DEF CheckTable, Goto, Fail
<1>7. CASE TablesChecked /\ UNCHANGED <<file, worldVars, restarts>>
  BY <1>7 DEF TablesChecked, Goto
<1>8. CASE DetectCDC /\ UNCHANGED <<file, worldVars, restarts>>
  BY <1>8 DEF DetectCDC, Goto
<1>9. CASE DetectCT /\ UNCHANGED <<file, worldVars, restarts>>
  BY <1>9 DEF DetectCT, Goto, Fail
<1>10. CASE QueryFails /\ UNCHANGED <<file, worldVars, restarts>>
  BY <1>10 DEF QueryFails, Fail
<1>11. CASE OpenSink /\ UNCHANGED <<file, worldVars, restarts>>
  BY <1>11 DEF OpenSink, Goto, Fail
<1>12. CASE PingSink /\ UNCHANGED <<file, worldVars, restarts>>
  BY <1>12 DEF PingSink, Goto
<1>13. CASE PingSinkFails /\ UNCHANGED <<file, worldVars, restarts>>
  BY <1>13 DEF PingSinkFails, Fail
<1>14. CASE ProbeSink /\ UNCHANGED <<file, worldVars, restarts>>
  BY <1>14 DEF ProbeSink, Goto, Fail
<1>15. CASE Launch /\ UNCHANGED <<file, worldVars, restarts>>
  BY <1>15 DEF Launch, Goto
<1>16. CASE Return /\ UNCHANGED <<file, worldVars, restarts>>
  BY <1>16 DEF Return
<1>17. CASE Stop /\ UNCHANGED <<file, worldVars, restarts>>
  BY <1>17 DEF Stop
<1>18. CASE RunReturns /\ UNCHANGED <<file, worldVars, restarts>>
  BY <1>18 DEF RunReturns
<1>19. CASE Restart
  BY <1>19 DEF Restart
<1>20. CASE ChangeDatabase
  BY <1>20 DEF ChangeDatabase
<1>21. CASE UNCHANGED vars
  BY <1>21 DEF vars
<1> QED
  BY <1>1, <1>2, <1>3, <1>4, <1>5, <1>6, <1>7, <1>8, <1>9, <1>10, <1>11, <1>12,
     <1>13, <1>14, <1>15, <1>16, <1>17, <1>18, <1>19, <1>20, <1>21
  DEF Next, ProcessStep, StartStep, Proceed, Ended

-----------------------------------------------------------------------------
(* Types.                                                                  *)

\* Every variable keeps its type.
LEMMA NextType ==
  LoadInv /\ TypeOK /\ [Next]_vars => TypeOK'
<1> SUFFICES ASSUME LoadInv, TypeOK, [Next]_vars
             PROVE  TypeOK'
  OBVIOUS
<1> USE NodeAssumption
    DEF NodeAssumption, TypeOK, Places, ErrorKinds, poolVars, probeVars,
        serviceVars, worldVars
<1>1. CASE Load /\ UNCHANGED <<file, worldVars, restarts>>
  BY <1>1 DEF Load, Goto, Fail, Values
<1>2. CASE LoadFails /\ UNCHANGED <<file, worldVars, restarts>>
  BY <1>2 DEF LoadFails, Fail
<1>3. CASE OpenSource /\ UNCHANGED <<file, worldVars, restarts>>
  BY <1>3 DEF OpenSource, Goto, Fail
<1>4. CASE PingSource /\ UNCHANGED <<file, worldVars, restarts>>
  <2>1. cfg.connector.tables \in Seq(TableName)
    BY <1>4, TablesOfFile DEF PingSource, LoadInv, AtSource, Busy
  <2> QED
    BY <1>4, <2>1 DEF PingSource, Goto
<1>5. CASE PingSourceFails /\ UNCHANGED <<file, worldVars, restarts>>
  BY <1>5 DEF PingSourceFails, Fail
<1>6. CASE CheckTable /\ UNCHANGED <<file, worldVars, restarts>>
  <2>1. todo' = todo \/ (todo # <<>> /\ todo' = Tail(todo))
    <3> HIDE DEF TypeOK
    <3> QED
      BY <1>6 DEF CheckTable, Goto, Fail
  <2>2. todo \in Seq(TableName)
    OBVIOUS
  <2>3. todo' \in Seq(TableName)
    <3> HIDE DEF TypeOK
    <3> QED
      BY <2>1, <2>2
  <2> QED
    BY <1>6, <2>3 DEF CheckTable, Goto, Fail
<1>7. CASE TablesChecked /\ UNCHANGED <<file, worldVars, restarts>>
  BY <1>7 DEF TablesChecked, Goto
<1>8. CASE DetectCDC /\ UNCHANGED <<file, worldVars, restarts>>
  BY <1>8 DEF DetectCDC, Goto
<1>9. CASE DetectCT /\ UNCHANGED <<file, worldVars, restarts>>
  BY <1>9 DEF DetectCT, Goto, Fail
<1>10. CASE QueryFails /\ UNCHANGED <<file, worldVars, restarts>>
  BY <1>10 DEF QueryFails, Fail
<1>11. CASE OpenSink /\ UNCHANGED <<file, worldVars, restarts>>
  BY <1>11 DEF OpenSink, Goto, Fail
<1>12. CASE PingSink /\ UNCHANGED <<file, worldVars, restarts>>
  BY <1>12 DEF PingSink, Goto
<1>13. CASE PingSinkFails /\ UNCHANGED <<file, worldVars, restarts>>
  BY <1>13 DEF PingSinkFails, Fail
<1>14. CASE ProbeSink /\ UNCHANGED <<file, worldVars, restarts>>
  BY <1>14 DEF ProbeSink, Goto, Fail
<1>15. CASE Launch /\ UNCHANGED <<file, worldVars, restarts>>
  BY <1>15 DEF Launch, Goto
<1>16. CASE Return /\ UNCHANGED <<file, worldVars, restarts>>
  BY <1>16 DEF Return
<1>17. CASE Stop /\ UNCHANGED <<file, worldVars, restarts>>
  BY <1>17 DEF Stop
<1>18. CASE RunReturns /\ UNCHANGED <<file, worldVars, restarts>>
  BY <1>18 DEF RunReturns
<1>19. CASE Restart
  <2>1. restarts' \in 0 .. MaxRestarts
    BY <1>19 DEF Restart
  <2>2. cfg' = None /\ pc' = "load" /\ err' = "none" /\ todo' = <<>>
        /\ mechanism' = "unknown" /\ pools' = {} /\ deferred' = {}
        /\ run' = "none" /\ cancelled' = FALSE
        /\ UNCHANGED <<existing, enabled, changes>>
    BY <1>19 DEF Restart
  <2>3. todo' \in Seq(TableName)
    BY <2>2
  <2> QED
    BY <2>1, <2>2, <2>3
<1>20. CASE ChangeDatabase
  <2>1. changes' \in 0 .. MaxChanges
    BY <1>20 DEF ChangeDatabase
  <2>2. existing' \subseteq Qualified /\ enabled' \subseteq {"cdc", "ct"}
    BY <1>20 DEF ChangeDatabase
  <2> QED
    BY <1>20, <2>1, <2>2 DEF ChangeDatabase
<1>21. CASE UNCHANGED vars
  BY <1>21 DEF vars
<1> QED
  BY <1>1, <1>2, <1>3, <1>4, <1>5, <1>6, <1>7, <1>8, <1>9, <1>10, <1>11, <1>12,
     <1>13, <1>14, <1>15, <1>16, <1>17, <1>18, <1>19, <1>20, <1>21
  DEF Next, ProcessStep, StartStep, Proceed, Ended

-----------------------------------------------------------------------------
(* Probe.                                                                  *)

\* The elements of a sequence are its first and those of the rest.
LEMMA HeadAndRest ==
  ASSUME NEW S, NEW s \in Seq(S), s # <<>>
  PROVE  {s[i] : i \in DOMAIN s}
           = {Head(s)} \cup {Tail(s)[i] : i \in DOMAIN Tail(s)}
<1>1. DOMAIN s = 1 .. Len(s) /\ Len(s) \in Nat \ {0} /\ Head(s) = s[1]
  OBVIOUS
<1>2. DOMAIN Tail(s) = 1 .. (Len(s) - 1)
  BY <1>1
<1>3. \A i \in 1 .. (Len(s) - 1) : Tail(s)[i] = s[i + 1]
  BY <1>1
<1>4. \A i \in 1 .. Len(s) : i = 1 \/ i - 1 \in 1 .. (Len(s) - 1)
  BY <1>1
<1>5. ASSUME NEW i \in DOMAIN s
      PROVE  s[i] \in {Head(s)} \cup {Tail(s)[j] : j \in DOMAIN Tail(s)}
  <2>1. CASE i = 1
    BY <1>1, <2>1
  <2>2. CASE i - 1 \in 1 .. (Len(s) - 1)
    <3>1. Tail(s)[i - 1] = s[(i - 1) + 1] /\ (i - 1) + 1 = i
      BY <1>1, <1>3, <2>2
    <3> QED
      BY <1>2, <2>2, <3>1
  <2> QED
    BY <1>1, <1>4, <2>1, <2>2
<1>6. ASSUME NEW j \in DOMAIN Tail(s)
      PROVE  Tail(s)[j] \in {s[i] : i \in DOMAIN s}
  <2>1. j + 1 \in DOMAIN s /\ Tail(s)[j] = s[j + 1]
    BY <1>1, <1>2, <1>3
  <2> QED
    BY <2>1
<1>7. Head(s) \in {s[i] : i \in DOMAIN s}
  BY <1>1
<1> DEFINE All == {s[i] : i \in DOMAIN s}
           Others == {Tail(s)[i] : i \in DOMAIN Tail(s)}
<1>8. All \subseteq {Head(s)} \cup Others
  BY <1>5
<1>9. Others \subseteq All
  BY <1>6
<1> HIDE DEF All, Others
<1>10. Head(s) \in All
  BY <1>7 DEF All
<1>11. All = {Head(s)} \cup Others
  BY <1>8, <1>9, <1>10
<1> QED  BY <1>11 DEF All, Others

\* Probe leaves the loop only when it has passed every table.
LEMMA NextProbe ==
  LoadInv /\ TypeOK /\ ProbeInv /\ [Next]_vars => ProbeInv'
<1> SUFFICES ASSUME LoadInv, TypeOK, ProbeInv, [Next]_vars
             PROVE  ProbeInv'
  OBVIOUS
<1>t. /\ todo \in Seq(TableName) /\ changes \in Nat
      /\ pc \in AtSource => HasConnector(cfg)
  BY DEF LoadInv, TypeOK
<1> USE DEF ProbeInv, Todo, TableOK, poolVars, probeVars, serviceVars, worldVars
<1>1. CASE Load /\ UNCHANGED <<file, worldVars, restarts>>
  BY <1>1 DEF Load, Goto, Fail
<1>2. CASE LoadFails /\ UNCHANGED <<file, worldVars, restarts>>
  BY <1>2 DEF LoadFails, Fail
<1>3. CASE OpenSource /\ UNCHANGED <<file, worldVars, restarts>>
  BY <1>3 DEF OpenSource, Goto, Fail
<1>4. CASE PingSource /\ UNCHANGED <<file, worldVars, restarts>>
  <2>1. /\ pc' = "tables" /\ todo' = cfg.connector.tables /\ cfg' = cfg
        /\ HasConnector(cfg)
    BY <1>4, <1>t DEF PingSource, Goto, AtSource
  <2>2. Todo' = PublishedTableSet(cfg')
    BY <2>1 DEF PublishedTableSet, HasConnector
  <2> QED
    BY <2>1, <2>2
<1>5. CASE PingSourceFails /\ UNCHANGED <<file, worldVars, restarts>>
  BY <1>5 DEF PingSourceFails, Fail
<1>6. CASE CheckTable /\ UNCHANGED <<file, worldVars, restarts>>
  <2>1. CASE todo' = todo
    BY <1>6, <2>1 DEF CheckTable, Goto, Fail
  <2>2. CASE ~(todo' = todo)
    <3>1. /\ pc = "tables" /\ todo # <<>> /\ pc' = "tables"
          /\ todo' = Tail(todo) /\ SplitTable(Head(todo))
          /\ Head(todo) \in existing /\ UNCHANGED <<cfg, existing, changes>>
      BY <1>6, <2>2 DEF CheckTable, Goto, Fail
    <3>2. Todo = {Head(todo)} \cup Todo'
      BY <1>t, <3>1, HeadAndRest
    <3>3. PICK h \in Qualified : h = Head(todo) /\ TableOK(h)'
      BY <3>1 DEF SplitTable
    <3>4. ASSUME NEW t \in PublishedTableSet(cfg')
          PROVE  t \in Todo' \/ TableOK(t)'
      <4>1. t \in Todo \/ TableOK(t)
        BY <3>1
      <4>2. TableOK(t) => TableOK(t)'
        BY <3>1
      <4> HIDE DEF Todo, TableOK
      <4> QED
        BY <3>2, <3>3, <4>1, <4>2
    <3>5. Todo' \subseteq PublishedTableSet(cfg')
      <4>1. Todo \subseteq PublishedTableSet(cfg')
        BY <3>1
      <4> HIDE DEF Todo
      <4> QED
        BY <3>2, <4>1
    <3> QED
      BY <3>1, <3>4, <3>5
  <2> QED
    BY <2>1, <2>2
<1>7. CASE TablesChecked /\ UNCHANGED <<file, worldVars, restarts>>
  BY <1>7 DEF TablesChecked, Goto
<1>8. CASE DetectCDC /\ UNCHANGED <<file, worldVars, restarts>>
  BY <1>8 DEF DetectCDC, Goto
<1>9. CASE DetectCT /\ UNCHANGED <<file, worldVars, restarts>>
  BY <1>9 DEF DetectCT, Goto, Fail
<1>10. CASE QueryFails /\ UNCHANGED <<file, worldVars, restarts>>
  BY <1>10 DEF QueryFails, Fail
<1>11. CASE OpenSink /\ UNCHANGED <<file, worldVars, restarts>>
  BY <1>11 DEF OpenSink, Goto, Fail
<1>12. CASE PingSink /\ UNCHANGED <<file, worldVars, restarts>>
  BY <1>12 DEF PingSink, Goto
<1>13. CASE PingSinkFails /\ UNCHANGED <<file, worldVars, restarts>>
  BY <1>13 DEF PingSinkFails, Fail
<1>14. CASE ProbeSink /\ UNCHANGED <<file, worldVars, restarts>>
  BY <1>14 DEF ProbeSink, Goto, Fail
<1>15. CASE Launch /\ UNCHANGED <<file, worldVars, restarts>>
  BY <1>15 DEF Launch, Goto
<1>16. CASE Return /\ UNCHANGED <<file, worldVars, restarts>>
  BY <1>16 DEF Return
<1>17. CASE Stop /\ UNCHANGED <<file, worldVars, restarts>>
  BY <1>17 DEF Stop
<1>18. CASE RunReturns /\ UNCHANGED <<file, worldVars, restarts>>
  BY <1>18 DEF RunReturns
<1>19. CASE Restart
  BY <1>19 DEF Restart
<1>20. CASE ChangeDatabase
  BY <1>20, <1>t DEF ChangeDatabase
<1>21. CASE UNCHANGED vars
  BY <1>21 DEF vars
<1> QED
  BY <1>1, <1>2, <1>3, <1>4, <1>5, <1>6, <1>7, <1>8, <1>9, <1>10, <1>11, <1>12,
     <1>13, <1>14, <1>15, <1>16, <1>17, <1>18, <1>19, <1>20, <1>21
  DEF Next, ProcessStep, StartStep, Proceed, Ended

-----------------------------------------------------------------------------
(* What validation leaves to the connectors.                               *)

\* sqlserver.New refuses a validated section for what validation overlooks.
LEMMA SourceRefused ==
  ASSUME Validate(cfg), HasConnector(cfg), ~SourceConfigOK(cfg.connector)
  PROVE  Overlooked(cfg)
  BY DEF Validate, ValidateConnector, SourceConfigOK, Overlooked

\* So does postgres.New.
LEMMA SinkRefused ==
  ASSUME Validate(cfg), HasSink(cfg), ~SinkConfigOK(cfg.sink)
  PROVE  Overlooked(cfg)
  BY DEF Validate, ValidateSink, SinkConfigOK, Addressed, Overlooked

\* Start passes a connector or the sink only with what it has checked.
LEMMA NextCleared ==
  PlaceInv /\ LoadInv /\ TypeOK /\ ProbeInv /\ ClearedInv /\ [Next]_vars => ClearedInv'
<1> SUFFICES ASSUME PlaceInv, LoadInv, TypeOK, ProbeInv, ClearedInv, [Next]_vars
             PROVE  ClearedInv'
  OBVIOUS
<1>t. /\ changes \in Nat
      /\ run # "none" => pc \in {"return", "started", "stopped"}
      /\ pc \notin {"return", "failed"} => err = "none"
      /\ pc \in Busy => Validate(cfg)
      /\ pc \in AtSource => HasConnector(cfg) /\ SourceConfigOK(cfg.connector)
  BY DEF LoadInv, TypeOK, PlaceInv
<1> USE DEF ClearedInv, TableOK, MechanismOK, Busy, AtSource, poolVars, probeVars,
        serviceVars, worldVars
<1>1. CASE Load /\ UNCHANGED <<file, worldVars, restarts>>
  BY <1>1, <1>t DEF Load, Goto, Fail
<1>2. CASE LoadFails /\ UNCHANGED <<file, worldVars, restarts>>
  BY <1>2, <1>t DEF LoadFails, Fail
<1>3. CASE OpenSource /\ UNCHANGED <<file, worldVars, restarts>>
  BY <1>3, <1>t, SourceRefused DEF OpenSource, Goto, Fail
<1>4. CASE PingSource /\ UNCHANGED <<file, worldVars, restarts>>
  BY <1>4, <1>t DEF PingSource, Goto
<1>5. CASE PingSourceFails /\ UNCHANGED <<file, worldVars, restarts>>
  BY <1>5, <1>t DEF PingSourceFails, Fail
<1>6. CASE CheckTable /\ UNCHANGED <<file, worldVars, restarts>>
  <2>1. CASE err' = "invalidConfig"
    <3>1. /\ pc = "tables" /\ todo # <<>> /\ ~SplitTable(Head(todo))
          /\ pc' = "return" /\ UNCHANGED <<cfg, run>>
      BY <1>6, <1>t, <2>1 DEF CheckTable, Goto, Fail
    <3>2. Head(todo) \in PublishedTableSet(cfg)
      <4>1. Head(todo) \in Todo
        BY <3>1, HeadAndRest DEF TypeOK, Todo
      <4> QED
        BY <3>1, <4>1 DEF ProbeInv
    <3>3. Overlooked(cfg)
      BY <1>t, <3>1, <3>2 DEF Overlooked, SplitTable
    <3> QED
      BY <1>t, <3>1, <3>3
  <2>2. CASE err' # "invalidConfig"
    BY <1>6, <1>t, <2>2 DEF CheckTable, Goto, Fail
  <2> QED
    BY <2>1, <2>2
<1>7. CASE TablesChecked /\ UNCHANGED <<file, worldVars, restarts>>
  BY <1>7, <1>t DEF TablesChecked, Goto
<1>8. CASE DetectCDC /\ UNCHANGED <<file, worldVars, restarts>>
  <2>1. CASE pc' = "ct"
    BY <1>8, <1>t, <2>1 DEF DetectCDC, Goto
  <2>2. CASE pc' # "ct"
    <3>1. \A t \in PublishedTableSet(cfg) : TableOK(t)
      BY <1>8 DEF DetectCDC, ProbeInv, Todo
    <3> QED
      BY <1>8, <1>t, <2>2, <3>1 DEF DetectCDC, Goto
  <2> QED
    BY <2>1, <2>2
<1>9. CASE DetectCT /\ UNCHANGED <<file, worldVars, restarts>>
  <2>1. CASE pc' = "return"
    BY <1>9, <1>t, <2>1 DEF DetectCT, Goto, Fail
  <2>2. CASE pc' # "return"
    <3>1. /\ \A t \in PublishedTableSet(cfg) : TableOK(t)
          /\ changes = 0 => "cdc" \notin enabled
      BY <1>9 DEF DetectCT, ProbeInv, Todo
    <3> QED
      BY <1>9, <1>t, <2>2, <3>1 DEF DetectCT, Goto, Fail
  <2> QED
    BY <2>1, <2>2
<1>10. CASE QueryFails /\ UNCHANGED <<file, worldVars, restarts>>
  BY <1>10, <1>t DEF QueryFails, Fail
<1>11. CASE OpenSink /\ UNCHANGED <<file, worldVars, restarts>>
  BY <1>11, <1>t, SinkRefused DEF OpenSink, Goto, Fail
<1>12. CASE PingSink /\ UNCHANGED <<file, worldVars, restarts>>
  BY <1>12, <1>t DEF PingSink, Goto
<1>13. CASE PingSinkFails /\ UNCHANGED <<file, worldVars, restarts>>
  BY <1>13, <1>t DEF PingSinkFails, Fail
<1>14. CASE ProbeSink /\ UNCHANGED <<file, worldVars, restarts>>
  BY <1>14, <1>t DEF ProbeSink, Goto, Fail
<1>15. CASE Launch /\ UNCHANGED <<file, worldVars, restarts>>
  BY <1>15, <1>t DEF Launch, Goto
<1>16. CASE Return /\ UNCHANGED <<file, worldVars, restarts>>
  BY <1>16, <1>t DEF Return
<1>17. CASE Stop /\ UNCHANGED <<file, worldVars, restarts>>
  BY <1>17, <1>t DEF Stop
<1>18. CASE RunReturns /\ UNCHANGED <<file, worldVars, restarts>>
  BY <1>18, <1>t DEF RunReturns
<1>19. CASE Restart
  BY <1>19, <1>t DEF Restart
<1>20. CASE ChangeDatabase
  BY <1>20, <1>t DEF ChangeDatabase
<1>21. CASE UNCHANGED vars
  BY <1>21 DEF vars
<1> QED
  BY <1>1, <1>2, <1>3, <1>4, <1>5, <1>6, <1>7, <1>8, <1>9, <1>10, <1>11, <1>12,
     <1>13, <1>14, <1>15, <1>16, <1>17, <1>18, <1>19, <1>20, <1>21
  DEF Next, ProcessStep, StartStep, Proceed, Ended

-----------------------------------------------------------------------------
(* The theorems.                                                           *)

\* A process that has not read its file knows nothing and holds nothing.
LEMMA InitInv == Init => Inv
<1> SUFFICES ASSUME Init PROVE Inv
  OBVIOUS
<1> USE NodeAssumption DEF NodeAssumption, Init
<1>1. PlaceInv /\ PoolInv
  BY DEF PlaceInv, PoolInv, EveryPoolHasACloser, NothingLeaks, AtSource
<1>2. LoadInv /\ ProbeInv /\ ClearedInv
  BY DEF LoadInv, ProbeInv, ClearedInv, Busy, AtSource
<1>3. TypeOK
  <2>1. todo \in Seq(TableName)
    OBVIOUS
  <2>2. changes \in 0 .. MaxChanges /\ restarts \in 0 .. MaxRestarts
    OBVIOUS
  <2>3. existing \subseteq Qualified /\ enabled \subseteq {"cdc", "ct"}
    OBVIOUS
  <2>4. pools \subseteq {"source", "sink"} /\ deferred \subseteq {"source", "sink"}
    OBVIOUS
  <2> QED
    BY <2>1, <2>2, <2>3, <2>4 DEF TypeOK, Places, ErrorKinds
<1> QED
  BY <1>1, <1>2, <1>3 DEF Inv

\* Inv is inductive.
THEOREM Invariance == Spec => []Inv
<1>1. Init => Inv
  BY InitInv
<1>2. Inv /\ [Next]_vars => Inv'
  BY NextPlace, NextPool, NextLoad, NextType, NextProbe, NextCleared DEF Inv
<1> QED
  BY <1>1, <1>2, PTL DEF Spec

\* Every variable keeps its type: Start is in one of its places, with what
\* Load has made of the file.
THEOREM TypeCorrect == Spec => []TypeOK
<1>1. Inv => TypeOK
  BY DEF Inv
<1> QED
  BY <1>1, Invariance, PTL

\* While Start runs, every pool that is open is in the hands of New or has its
\* Close deferred (sqlserver.go and postgres.go, New; main.go, Start).
THEOREM ClosersAreKnown == Spec => []EveryPoolHasACloser
<1>1. Inv => EveryPoolHasACloser
  BY DEF Inv, PoolInv
<1> QED
  BY <1>1, Invariance, PTL

\* So no pool is open when Start has returned, whichever step failed.
THEOREM PoolsAreClosed == Spec => []NothingLeaks
<1>1. Inv => NothingLeaks
  BY DEF Inv, PoolInv
<1> QED
  BY <1>1, Invariance, PTL

\* What the node runs on was there when Probe looked (probe.go), unless the
\* database has changed since.
THEOREM ProbeIsSound == Spec => []RunsOnWhatIsThere
<1>1. Inv => RunsOnWhatIsThere
  BY DEF Inv, ClearedInv, RunsOnWhatIsThere, TableOK, MechanismOK
<1> QED
  BY <1>1, Invariance, PTL

\* Load's validation and the connectors' differ in what Overlooked names and in
\* nothing else (config.go; sqlserver.go and postgres.go, validateConfig).
THEOREM ValidationAgrees == Spec => []RefusedOnlyIfOverlooked
<1>1. Inv => RefusedOnlyIfOverlooked
  BY DEF Inv, ClearedInv, RefusedOnlyIfOverlooked, Overlooked, TableOK,
    SourceConfigOK, SinkConfigOK, LoadInv, Validate, ValidateConnector
<1> QED
  BY <1>1, Invariance, PTL
=============================================================================

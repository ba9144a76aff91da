-------------------------------- MODULE Node --------------------------------
(***************************************************************************)
(* cmd/tetherdb/main.go: a node from the start of its process to its end,  *)
(* with what Start does in the connectors: New, Probe and Close of         *)
(* sqlserver.go, probe.go and postgres.go.                                 *)
(*                                                                         *)
(*   load -> source -> ping -> tables -> cdc -> ct -> sink -> sinkPing     *)
(*                                         +----------^          |         *)
(*      started <- return <- launch <------------------------ sinkProbe    *)
(*      failed  <---+  from every step that fails                          *)
(*                                                                         *)
(* The service manager starts one process at a time, stops a node that has *)
(* started, and starts it again.  Both database servers are external:      *)
(* each query is answered from what the database is at that moment, or     *)
(* fails.                                                                  *)
(***************************************************************************)
EXTENDS Config

CONSTANTS
  Configs,       \* the configuration files that are considered
  MaxChanges,    \* bound: number of changes to the source database
  MaxRestarts    \* bound: number of times the process is started again

ASSUME NodeAssumption ==
  /\ Configs \subseteq Config
  /\ MaxChanges \in Nat
  /\ MaxRestarts \in Nat

VARIABLES
  file,        \* the configuration file, read by every process
  cfg,         \* what Load returned
  pc,          \* where Start, or the process after it, is
  todo,        \* the tables Probe has still to check
  mechanism,   \* c.mechanism
  pools,       \* the connection pools that are open
  deferred,    \* those whose Close Start has deferred
  err,         \* the kind of the error Start returns
  run,         \* the goroutine of run(): "none", "waiting" or "done"
  cancelled,   \* p.cancel has been called
  existing,    \* the tables of the source database
  enabled,     \* its change mechanisms: a subset of {"cdc", "ct"}
  changes,     \* changes to the source database
  restarts     \* starts after the first

worldVars == <<existing, enabled, changes>>
probeVars == <<todo, mechanism>>
poolVars == <<pools, deferred>>
serviceVars == <<run, cancelled>>
vars == <<file, cfg, pc, probeVars, poolVars, err, serviceVars, worldVars,
          restarts>>

Places == {"load", "source", "ping", "tables", "cdc", "ct", "sink", "sinkPing",
           "sinkProbe", "launch", "return", "started", "failed", "stopped"}

ErrorKinds == {"none", "load", "invalidConfig", "connection", "auth",
               "missingTable", "noMechanism"}

TypeOK ==
  /\ cfg = None \/ \E env \in Environments(file) : cfg = Interpolate(file, env)
  /\ pc \in Places
  /\ todo \in Seq(TableName)
  /\ mechanism \in {"unknown", "cdc", "ct"}
  /\ pools \subseteq {"source", "sink"} /\ deferred \subseteq {"source", "sink"}
  /\ err \in ErrorKinds
  /\ run \in {"none", "waiting", "done"} /\ cancelled \in BOOLEAN
  /\ existing \subseteq Qualified /\ enabled \subseteq {"cdc", "ct"}
  /\ changes \in 0 .. MaxChanges /\ restarts \in 0 .. MaxRestarts

Init ==
  /\ file \in Configs
  /\ existing \in SUBSET Qualified
  /\ enabled \in SUBSET {"cdc", "ct"}
  /\ changes = 0 /\ restarts = 0
  /\ pc = "load" /\ cfg = None /\ err = "none"
  /\ todo = <<>> /\ mechanism = "unknown"
  /\ pools = {} /\ deferred = {}
  /\ run = "none" /\ cancelled = FALSE

-----------------------------------------------------------------------------
(* Start.                                                                  *)

Goto(place) == pc' = place /\ UNCHANGED err

\* Start returns an error; what it has deferred runs first.
Fail(kind) == pc' = "return" /\ err' = kind

\* Faulty variant of Load: the text is decoded before the interpolation.
LoadRaw ==
  /\ pc = "load"
  /\ IF Validate(file)
       THEN Goto("source") /\ cfg' = file
       ELSE Fail("load") /\ cfg' = None
  /\ UNCHANGED <<probeVars, poolVars, serviceVars>>

Load ==
  /\ pc = "load"
  /\ \E env \in Environments(file) :
       LET loaded == Interpolate(file, env)
       IN  IF Validate(loaded)
             THEN Goto("source") /\ cfg' = loaded
             ELSE Fail("load") /\ cfg' = None
  /\ UNCHANGED <<probeVars, poolVars, serviceVars>>

\* The file cannot be read or is not TOML.
LoadFails ==
  /\ pc = "load"
  /\ Fail("load")
  /\ UNCHANGED <<cfg, probeVars, poolVars, serviceVars>>

\* sqlserver.New up to sql.Open, which does not connect yet.
OpenSource ==
  /\ pc = "source"
  /\ IF ~HasConnector(cfg) THEN Goto("sink") /\ UNCHANGED pools
     ELSE IF ~SourceConfigOK(cfg.connector)
       THEN Fail("invalidConfig") /\ UNCHANGED pools
     ELSE \/ Goto("ping") /\ pools' = pools \cup {"source"}
          \/ Fail("connection") /\ UNCHANGED pools
  /\ UNCHANGED <<cfg, probeVars, deferred, serviceVars>>

\* Faulty variant of PingSource: Close is not deferred before Probe.
PingSourceDefersLate ==
  /\ pc = "ping"
  /\ Goto("tables")
  /\ todo' = cfg.connector.tables
  /\ UNCHANGED <<cfg, mechanism, poolVars, serviceVars>>

\* Start defers the Close of a connector when New has returned it.
PingSource ==
  /\ pc = "ping"
  /\ Goto("tables")
  /\ deferred' = deferred \cup {"source"}
  /\ todo' = cfg.connector.tables
  /\ UNCHANGED <<cfg, mechanism, pools, serviceVars>>

\* Faulty variant of PingSourceFails: the pool is left to nobody.
PingSourceLeaks ==
  /\ pc = "ping"
  /\ Fail("connection")
  /\ UNCHANGED <<cfg, probeVars, poolVars, serviceVars>>

\* New closes what it has opened.
PingSourceFails ==
  /\ pc = "ping"
  /\ Fail("connection")
  /\ pools' = pools \ {"source"}
  /\ UNCHANGED <<cfg, probeVars, deferred, serviceVars>>

\* Faulty variant of CheckTable: the loop does not move on.
CheckTableAgain ==
  /\ pc = "tables"
  /\ todo # <<>>
  /\ IF ~SplitTable(Head(todo)) THEN Fail("invalidConfig")
     ELSE IF Head(todo) \notin existing THEN Fail("missingTable")
     ELSE Goto("tables")
  /\ UNCHANGED <<cfg, probeVars, poolVars, serviceVars>>

\* One turn of the loop of Probe: the name, then the table.
CheckTable ==
  /\ pc = "tables"
  /\ todo # <<>>
  /\ IF ~SplitTable(Head(todo)) THEN Fail("invalidConfig") /\ UNCHANGED todo
     ELSE IF Head(todo) \notin existing
       THEN Fail("missingTable") /\ UNCHANGED todo
     ELSE Goto("tables") /\ todo' = Tail(todo)
  /\ UNCHANGED <<cfg, mechanism, poolVars, serviceVars>>

TablesChecked ==
  /\ pc = "tables"
  /\ todo = <<>>
  /\ Goto("cdc")
  /\ UNCHANGED <<cfg, probeVars, poolVars, serviceVars>>

\* Faulty variant of DetectCDC: Change Tracking is preferred.
DetectCDCLast ==
  /\ pc = "cdc"
  /\ IF "cdc" \in enabled /\ "ct" \notin enabled
       THEN Goto("sink") /\ mechanism' = "cdc"
       ELSE Goto("ct") /\ UNCHANGED mechanism
  /\ UNCHANGED <<cfg, todo, poolVars, serviceVars>>

\* detectMechanism asks for CDC first.
DetectCDC ==
  /\ pc = "cdc"
  /\ IF "cdc" \in enabled THEN Goto("sink") /\ mechanism' = "cdc"
     ELSE Goto("ct") /\ UNCHANGED mechanism
  /\ UNCHANGED <<cfg, todo, poolVars, serviceVars>>

DetectCT ==
  /\ pc = "ct"
  /\ IF "ct" \in enabled THEN Goto("sink") /\ mechanism' = "ct"
     ELSE Fail("noMechanism") /\ UNCHANGED mechanism
  /\ UNCHANGED <<cfg, todo, poolVars, serviceVars>>

\* A query of Probe fails.  A table without a schema is never asked for.
QueryFails ==
  /\ \/ pc = "tables" /\ todo # <<>> /\ SplitTable(Head(todo))
     \/ pc \in {"cdc", "ct"}
  /\ Fail("connection")
  /\ UNCHANGED <<cfg, probeVars, poolVars, serviceVars>>

\* postgres.New up to pgxpool.New, which parses the DSN and connects to nothing.
OpenSink ==
  /\ pc = "sink"
  /\ IF ~HasSink(cfg) THEN Goto("launch") /\ UNCHANGED pools
     ELSE IF ~SinkConfigOK(cfg.sink)
       THEN Fail("invalidConfig") /\ UNCHANGED pools
     ELSE \/ /\ cfg.sink.dsn # "malformed"
             /\ Goto("sinkPing") /\ pools' = pools \cup {"sink"}
          \/ Fail("connection") /\ UNCHANGED pools
  /\ UNCHANGED <<cfg, probeVars, deferred, serviceVars>>

PingSink ==
  /\ pc = "sinkPing"
  /\ Goto("sinkProbe")
  /\ deferred' = deferred \cup {"sink"}
  /\ UNCHANGED <<cfg, probeVars, pools, serviceVars>>

PingSinkFails ==
  /\ pc = "sinkPing"
  /\ \E kind \in {"connection", "auth"} : Fail(kind)
  /\ pools' = pools \ {"sink"}
  /\ UNCHANGED <<cfg, probeVars, deferred, serviceVars>>

\* Probe of the sink is a second ping.
ProbeSink ==
  /\ pc = "sinkProbe"
  /\ \/ Goto("launch")
     \/ \E kind \in {"connection", "auth"} : Fail(kind)
  /\ UNCHANGED <<cfg, probeVars, poolVars, serviceVars>>

\* The context, and go p.run(ctx).
Launch ==
  /\ pc = "launch"
  /\ run' = "waiting"
  /\ Goto("return")
  /\ UNCHANGED <<cfg, probeVars, poolVars, cancelled>>

\* Start returns, and the deferred calls of Close with it.
Return ==
  /\ pc = "return"
  /\ pools' = pools \ deferred
  /\ deferred' = {}
  /\ pc' = IF err = "none" THEN "started" ELSE "failed"
  /\ UNCHANGED <<cfg, probeVars, err, serviceVars>>

\* Start goes on by itself, or with what a server has answered.
Proceed ==
  \/ Load
  \/ OpenSource \/ PingSource
  \/ CheckTable \/ TablesChecked \/ DetectCDC \/ DetectCT
  \/ OpenSink \/ PingSink \/ ProbeSink
  \/ Launch \/ Return

StartStep ==
  Proceed \/ LoadFails \/ PingSourceFails \/ QueryFails \/ PingSinkFails

-----------------------------------------------------------------------------
(* After Start.                                                            *)

\* Faulty variant of Stop: the context is not cancelled.
StopForgets ==
  /\ pc = "started"
  /\ pc' = "stopped"
  /\ UNCHANGED <<cfg, err, probeVars, poolVars, serviceVars>>

\* The service manager stops what has started; Stop waits for nobody.
Stop ==
  /\ pc = "started"
  /\ pc' = "stopped"
  /\ cancelled' = TRUE
  /\ UNCHANGED <<cfg, err, probeVars, poolVars, run>>

RunReturns ==
  /\ run = "waiting"
  /\ cancelled
  /\ run' = "done"
  /\ UNCHANGED <<cfg, pc, err, probeVars, poolVars, cancelled>>

\* The process ends, or is killed wherever it is, and the next one begins.
Restart ==
  /\ pc # "load"
  /\ restarts < MaxRestarts
  /\ restarts' = restarts + 1
  /\ pc' = "load" /\ cfg' = None /\ err' = "none"
  /\ todo' = <<>> /\ mechanism' = "unknown"
  /\ pools' = {} /\ deferred' = {}
  /\ run' = "none" /\ cancelled' = FALSE
  /\ UNCHANGED <<file, worldVars>>

\* Somebody creates or drops a table, or turns a mechanism on or off.
ChangeDatabase ==
  /\ changes < MaxChanges
  /\ changes' = changes + 1
  /\ \/ /\ \E t \in Qualified :
             existing' \in {existing \cup {t}, existing \ {t}} \ {existing}
        /\ UNCHANGED enabled
     \/ /\ \E m \in {"cdc", "ct"} :
             enabled' \in {enabled \cup {m}, enabled \ {m}} \ {enabled}
        /\ UNCHANGED existing
  /\ UNCHANGED <<file, cfg, pc, probeVars, poolVars, err, serviceVars,
                 restarts>>

ProcessStep == StartStep \/ RunReturns

\* Start has failed or the service has been stopped; nobody need start it again.
Ended == pc \in {"failed", "stopped"} /\ UNCHANGED vars

Next ==
  \/ (ProcessStep \/ Stop) /\ UNCHANGED <<file, worldVars, restarts>>
  \/ Restart
  \/ ChangeDatabase
  \/ Ended

Spec == Init /\ [][Next]_vars

\* The process runs, and the servers answer: every call of Start has a context
\* without a deadline, so a server that is silent keeps it for ever.  No query
\* need fail.
FairSpec ==
  /\ Spec
  /\ WF_vars((Proceed \/ RunReturns) /\ UNCHANGED <<file, worldVars, restarts>>)

-----------------------------------------------------------------------------
(* Properties.                                                             *)

\* Whichever step of Start fails, and when none does, no pool is left open:
\* New closes what it cannot return, Start closes what New has returned.
NothingLeaks == pc \in {"started", "failed", "stopped"} => pools = {}

\* What is open and has no Close waiting for it is in the hands of New.
EveryPoolHasACloser ==
  /\ deferred \subseteq pools
  /\ "source" \in pools \ deferred <=> pc = "ping"
  /\ "sink" \in pools \ deferred <=> pc = "sinkPing"

\* If the source database has not changed meanwhile, a node that runs found
\* every table it publishes, and reads their changes by CDC where it can
\* (probe.go: preferred over Change Tracking).
RunsOnWhatIsThere ==
  run # "none" /\ HasConnector(cfg) /\ changes = 0 =>
    /\ PublishedTableSet(cfg) \subseteq existing
    /\ mechanism \in enabled
    /\ mechanism = "ct" => "cdc" \notin enabled

\* What validation lets through and the connectors then refuse.
Overlooked(c) ==
  \/ /\ HasConnector(c)
     /\ \/ c.connector.host = "long"
        \/ c.connector.database = "empty"
        \/ ~(PublishedTableSet(c) \subseteq Qualified)
  \/ HasSink(c) /\ c.sink.dsn = "empty" /\ ~PortInRange(c.sink.port)

\* Validation and the connectors agree on every configuration but the ones
\* that are overlooked, and these never run.
RefusedOnlyIfOverlooked ==
  /\ err = "invalidConfig" => Overlooked(cfg)
  /\ run # "none" => ~Overlooked(cfg)

\* Start returns (main.go: "and returns immediately"), whatever the database
\* goes through, if the servers answer.
StartReturns == pc = "load" ~> pc \in {"started", "failed"}

\* After Stop the goroutine of the node ends (main.go, the comment of Stop).
StopEndsRun == pc = "stopped" ~> run # "waiting"
=============================================================================

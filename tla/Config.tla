------------------------------- MODULE Config -------------------------------
(***************************************************************************)
(* internal/config/config.go: what a node's configuration file may say,    *)
(* what Validate accepts of it, and what the connectors, which look at the *)
(* same values again when they are opened, refuse.                         *)
(*                                                                         *)
(* A configuration has the sections of the file; an optional section that  *)
(* is not there is None.  The value of a field is the kind of value that   *)
(* the checks tell apart, "var" being a reference to an environment        *)
(* variable.                                                               *)
(***************************************************************************)
EXTENDS Naturals, Sequences

CONSTANTS
  None,        \* a section that the file does not have
  Qualified    \* the table names that have the form schema.table

Text == {"empty", "var", "valid", "malformed"}
Port == {"default", "valid", "outOfRange"}

\* "any" is the host 0.0.0.0, "all" another way to name every interface.
Address == {"empty", "malformed", "any", "all", "local"}

\* A table name is qualified, or it has no schema.
TableName == Qualified \cup {"bare"}

NodeSection == [name : Text, dataDir : Text]
ManagementSection == [address : Address]
ListenSection == [address : Address, cert : {"empty", "missing", "file"},
                  key : {"empty", "missing", "file"}]
ConnectorSection ==
  [driver : Text, host : Text \cup {"long"}, instance : Text, port : Port,
   database : Text, auth : {"sqlserver", "windows", "malformed"},
   username : Text, tables : Seq(TableName)]
SinkSection == [driver : Text, dsn : Text, host : Text, port : Port,
                database : Text, username : Text]
Connection == [name : STRING, address : Address, subscribe : SUBSET TableName]

Config == [node : NodeSection, management : ManagementSection,
           listen : ListenSection \cup {None},
           connector : ConnectorSection \cup {None},
           sink : SinkSection \cup {None},
           connections : Seq(Connection)]

-----------------------------------------------------------------------------
(* Loading.                                                                *)

\* The fields whose reference to the environment is of interest; in the code it
\* may be anywhere in the text of the file.
Referable ==
  {"name", "dataDir", "driver", "host", "instance", "database", "username",
   "dsn"}

\* The references of a file: the section and the field of each.
References(c) ==
  {ref \in {"node", "connector", "sink"} \X Referable :
     LET section == c[ref[1]]
     IN  /\ section # None
         /\ ref[2] \in DOMAIN section
         /\ section[ref[2]] = "var"}

\* What the variables that a file refers to may hold: anything, each by itself.
\* One that is not set is empty.
Values == (Text \ {"var"}) \cup {"long"}
Environments(c) == [References(c) -> Values]

\* interpolate: a reference becomes the value of its variable.
Interpolated(c, name, env) ==
  IF c[name] = None THEN None
  ELSE [f \in DOMAIN c[name] |->
          IF <<name, f>> \in References(c) THEN env[<<name, f>>] ELSE c[name][f]]

\* Load, before Validate: what the file says in this environment.
Interpolate(c, env) ==
  [c EXCEPT !.node = Interpolated(c, "node", env),
            !.connector = Interpolated(c, "connector", env),
            !.sink = Interpolated(c, "sink", env)]

-----------------------------------------------------------------------------
(* Validate, one operator per section.                                     *)

ValidateNode(n) == n.name = "valid" /\ n.dataDir # "empty"

SplitHostPort(address) == address \notin {"empty", "malformed"}

ValidateManagement(m) == SplitHostPort(m.address) /\ m.address # "any"

\* TLS needs both files or neither; the ones that are named exist.
ValidateListen(l) ==
  /\ SplitHostPort(l.address)
  /\ \/ l.cert = "empty" /\ l.key = "empty"
     \/ l.cert = "file" /\ l.key = "file"

\* A port that is not given takes the default.
PortInRange(port) == port # "outOfRange"

\* Auth is one of the two methods, and a login has a name.
AuthOK(c) ==
  /\ c.auth \in {"sqlserver", "windows"}
  /\ c.auth = "sqlserver" => c.username # "empty"

\* Faulty variant of ValidateConnector: the login is not checked.
ValidateConnectorLoosely(c) ==
  /\ c.driver = "valid"
  /\ c.host # "empty"
  /\ PortInRange(c.port)
  /\ c.tables # <<>>

ValidateConnector(c) ==
  /\ c.driver = "valid"
  /\ c.host # "empty"
  /\ PortInRange(c.port)
  /\ AuthOK(c)
  /\ c.tables # <<>>

\* A sink is named by a DSN or by its fields.
Addressed(s) ==
  \/ s.dsn # "empty"
  \/ s.host # "empty" /\ s.database # "empty" /\ s.username # "empty"

ValidateSink(s) == s.driver = "valid" /\ Addressed(s)

\* PublishedTableSet; without a connector the set is nil.
PublishedTableSet(c) ==
  IF c.connector = None THEN {}
  ELSE {c.connector.tables[i] : i \in DOMAIN c.connector.tables}

ValidateConnections(c) ==
  /\ c.connections # <<>> => c.connector # None
  /\ \A i \in DOMAIN c.connections :
       LET conn == c.connections[i]
       IN  /\ conn.name # ""
           /\ \A j \in 1 .. (i - 1) : c.connections[j].name # conn.name
           /\ SplitHostPort(conn.address)
           /\ conn.subscribe # {}
           /\ conn.subscribe \subseteq PublishedTableSet(c)

HasConnector(c) == c.connector # None
HasListen(c) == c.listen # None
HasSink(c) == c.sink # None

Validate(c) ==
  /\ ValidateNode(c.node)
  /\ ValidateManagement(c.management)
  /\ HasListen(c) => ValidateListen(c.listen)
  /\ HasConnector(c) => ValidateConnector(c.connector)
  /\ HasSink(c) => ValidateSink(c.sink)
  /\ ValidateConnections(c)
  /\ HasConnector(c) \/ HasListen(c)

-----------------------------------------------------------------------------
(* What the connectors ask of the same values.                             *)

\* sqlserver.validateConfig, of what Start passes on.
SourceConfigOK(s) ==
  /\ s.host \notin {"empty", "long"}
  /\ s.database # "empty"
  /\ s.instance = "empty" => PortInRange(s.port)
  /\ AuthOK(s)

\* postgres.validateConfig.
SinkConfigOK(s) ==
  \/ s.dsn # "empty"
  \/ Addressed(s) /\ PortInRange(s.port)

\* splitTable, of which the probe asks a schema.
SplitTable(table) == table \in Qualified
=============================================================================

------------------------------- MODULE MCNode --------------------------------
(***************************************************************************)
(* Node for TLC: configuration files with any of the optional sections, in *)
(* which at most one section is not the plain one.                         *)
(***************************************************************************)
EXTENDS Node

MCQualified == {"dbo.orders", "dbo.items"}

\* Every way to change one field of a section.
Vary(section, choices) ==
  UNION {{[section EXCEPT ![f] = v] : v \in choices[f]} : f \in DOMAIN choices}

PlainNode == [name |-> "valid", dataDir |-> "valid"]
PlainManagement == [address |-> "local"]
PlainListen == [address |-> "all", cert |-> "file", key |-> "file"]
PlainConnector ==
  [driver |-> "valid", host |-> "valid", instance |-> "empty",
   port |-> "default", database |-> "valid", auth |-> "sqlserver",
   username |-> "valid", tables |-> <<"dbo.orders", "dbo.items">>]
PlainSink == [driver |-> "valid", dsn |-> "empty", host |-> "valid",
              port |-> "valid", database |-> "valid", username |-> "valid"]
PlainConnection ==
  [name |-> "primary", address |-> "local", subscribe |-> {"dbo.orders"}]
Second == [PlainConnection EXCEPT !.name = "second"]

Plain ==
  [node : {PlainNode}, management : {PlainManagement},
   listen : {None, PlainListen}, connector : {None, PlainConnector},
   sink : {None, PlainSink}, connections : {<<>>, <<PlainConnection, Second>>}]

Variants == [
  node |->
    Vary(PlainNode,
         [name |-> {"empty", "malformed", "var"}, dataDir |-> {"empty"}]),
  management |-> Vary(PlainManagement, [address |-> Address]),
  listen |->
    Vary(PlainListen, [address |-> Address, cert |-> {"empty", "missing"},
                       key |-> {"empty", "missing"}])
      \cup {[PlainListen EXCEPT !.cert = "empty", !.key = "empty"]},
  connector |->
    Vary(PlainConnector,
         [driver |-> {"malformed"}, host |-> {"empty", "long"},
          port |-> Port, database |-> {"empty"},
          auth |-> {"windows", "malformed"}, username |-> {"empty"},
          tables |-> {<<>>, <<"dbo.items">>, <<"dbo.orders", "bare">>}])
      \cup Vary([PlainConnector EXCEPT !.instance = "valid"], [port |-> Port])
      \cup Vary([PlainConnector EXCEPT !.username = "var"],
                [host |-> {"valid", "var"}, database |-> {"var"}]),
  sink |->
    Vary(PlainSink, [driver |-> {"malformed"}, host |-> {"empty"}, port |-> Port,
                     dsn |-> {"var", "valid", "malformed"},
                     database |-> {"empty"}, username |-> {"var"}]),
  connections |->
    {<<c>> : c \in Vary(PlainConnection,
                        [name |-> {""}, address |-> Address,
                         subscribe |-> {{}, {"bare"}, MCQualified}])}
      \cup {<<PlainConnection, PlainConnection>>}]

MCConfigs == Plain \cup UNION {Vary(plain, Variants) : plain \in Plain}
=============================================================================

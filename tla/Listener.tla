------------------------------ MODULE Listener ------------------------------
(***************************************************************************)
(* internal/transport/listener.go: the sink side of a node-to-node link.   *)
(*                                                                         *)
(* net/http runs handleWS once per inbound connection, in a goroutine of   *)
(* its own.  srv[c] is where the goroutine of connection c is:             *)
(*                                                                         *)
(*   none -> hello -> accept -> recv, in the hands of the ConnHandler      *)
(*             |          |                                                *)
(*             |          +-> closed                                       *)
(*             +-> reject --> closed                                       *)
(*                                                                         *)
(* apply, reply and returned are the further places of the handler, which  *)
(* is Sink's.                                                              *)
(*                                                                         *)
(* Start binds the address and serves until its context is cancelled.      *)
(* Closing the HTTP server is all it does then: a connection that has been *)
(* upgraded is no longer the server's, and its goroutine goes on.          *)
(***************************************************************************)
EXTENDS Conn

CONSTANTS
  Subscribe,    \* the tables the dialer's Hello asks for
  Publishable   \* the sets of tables that the listener's node may publish

VARIABLES
  published,   \* l.cfg.Published, the same for the life of the listener
  server,      \* where Start is
  srv          \* srv[c]: where the goroutine of connection c is

ServerStates == {"none", "hello", "accept", "reject", "closed",
                 "recv", "apply", "reply", "returned"}

\* The connections that handleWS has handed to its Handler.
Serving == {c \in Conns : srv[c] \in {"recv", "apply", "reply", "returned"}}

ListenerTypeOK ==
  /\ published \in Publishable
  /\ server \in {"starting", "serving", "returned"}
  /\ srv \in [Conns -> ServerStates]

ListenerInit ==
  /\ published \in Publishable
  /\ server = "starting"
  /\ srv = [c \in Conns |-> "none"]

-----------------------------------------------------------------------------
\* net.Listen, onReady, and Serve or ServeTLS.
Serve == server = "starting" /\ server' = "serving"

\* Start returns: the address cannot be bound, the certificate does not load,
\* or the context is cancelled and srv.Close has ended Serve.
ServerReturns == server # "returned" /\ server' = "returned"

ServerStep == (Serve \/ ServerReturns) /\ UNCHANGED <<published, srv>>

\* upgrader.Upgrade, the listener's half of connecting.
Upgrade(c) ==
  /\ server = "serving"
  /\ srv[c] = "none"
  /\ snkEnd' = [snkEnd EXCEPT ![c] = "open"]
  /\ srv' = [srv EXCEPT ![c] = "hello"]

\* conn.Close and return.
CloseConn(c) ==
  /\ snkEnd' = [snkEnd EXCEPT ![c] = "closed"]
  /\ srv' = [srv EXCEPT ![c] = "closed"]

\* Faulty variant of Acceptable: one published table is enough.
AcceptableInPart(tables) == tables \cap published # {}

\* The first subscribed table that is not published decides.
Acceptable(tables) == tables \subseteq published

\* The first message, and the validation of its table list.
RecvHello(c) ==
  /\ srv[c] = "hello"
  /\ CanRecv(up, c)
  /\ up' = Take(up, c)
  /\ srv' = [srv EXCEPT ![c] =
       IF Head(up[c]).type = "hello" /\ Acceptable(Subscribe)
         THEN "accept" ELSE "reject"]
  /\ UNCHANGED <<down, srcEnd, snkEnd, broken>>

RecvHelloFails(c) ==
  /\ srv[c] = "hello"
  /\ SnkRecvFails(c)
  /\ CloseConn(c)
  /\ UNCHANGED <<up, down, srcEnd, broken>>

\* The rejection is best effort; the connection is closed either way.
Reject(c) ==
  /\ srv[c] = "reject"
  /\ down' = Put(down, c, Msg("reject", 0))
  /\ CloseConn(c)
  /\ UNCHANGED <<up, srcEnd, broken>>

\* HelloAck goes out, then the handler is called: a listener has one, and nothing
\* of the connection changes between the two.
Accept(c) ==
  /\ srv[c] = "accept"
  /\ down' = Put(down, c, Msg("accept", 0))
  /\ srv' = [srv EXCEPT ![c] = "recv"]
  /\ UNCHANGED <<up, srcEnd, snkEnd, broken>>

AcceptFails(c) ==
  /\ srv[c] = "accept"
  /\ SendFails(c)
  /\ CloseConn(c)
  /\ UNCHANGED <<up, down, srcEnd, broken>>

ListenerStep(c) ==
  \/ RecvHello(c) \/ RecvHelloFails(c)
  \/ Reject(c) \/ Accept(c) \/ AcceptFails(c)
=============================================================================

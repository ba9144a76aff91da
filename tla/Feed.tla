-------------------------------- MODULE Feed --------------------------------
(***************************************************************************)
(* What a change stream promises its consumer (connector.go, ChangeStream  *)
(* and Reader): from the position where it starts, every row moves through *)
(* its own versions, forwards only.  With every, no version is left out    *)
(* (CDC); without, a row may go straight to a later one (Change Tracking). *)
(* What the source has discarded may be left out either way.               *)
(***************************************************************************)
EXTENDS Naturals, Sequences, FiniteSetsExt

CONSTANTS Rows, NoCursor

VARIABLES
  every,   \* is no version left out?
  log,     \* the commits of the source
  purged,  \* the source has discarded the changes up to this one
  start,   \* the position the stream started from
  at       \* at[r]: the newest version of row r that the consumer has had

vars == <<every, log, purged, start, at>>

Init ==
  /\ every \in BOOLEAN
  /\ log = <<>> /\ purged = 0 /\ start = NoCursor
  /\ at = [r \in Rows |-> 0]

Later(r) == {i \in DOMAIN log : log[i].row = r /\ i > at[r]}

\* Those among them that the source has kept.
Kept(r) == {i \in Later(r) : i > purged}

Commit ==
  /\ log' # log
  /\ log = SubSeq(log', 1, Len(log))
  /\ UNCHANGED <<every, purged, start, at>>

Discard ==
  /\ purged' \in (purged + 1) .. Len(log)
  /\ UNCHANGED <<every, log, start, at>>

Start ==
  /\ start = NoCursor
  /\ start' = Len(log)
  /\ at' = [r \in Rows |-> Len(log)]
  /\ UNCHANGED <<every, log, purged>>

Deliver(r) ==
  /\ start # NoCursor
  /\ \E i \in Later(r) :
       /\ every => \A j \in Kept(r) : i <= j
       /\ at' = [at EXCEPT ![r] = i]
  /\ UNCHANGED <<every, log, purged, start>>

Next == Commit \/ Discard \/ Start \/ \E r \in Rows : Deliver(r)

Spec == Init /\ [][Next]_vars

\* Every version that is kept arrives, or one that replaces it.
Liveness == \A r \in Rows : WF_vars(Kept(r) # {} /\ Deliver(r))
=============================================================================

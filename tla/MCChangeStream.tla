--------------------------- MODULE MCChangeStream ---------------------------
(***************************************************************************)
(* ChangeStream for TLC, and the statements of comments and documents      *)
(* about it that the code does not keep.                                   *)
(***************************************************************************)
EXTENDS ChangeStream

CONSTANTS orders, items, audit, k1, k2

MCThreeTables == {orders, items, audit}
MCOrderAndAudit == {orders, audit}
MCBoth == <<orders, items>>
MCOnlyOrders == <<orders>>
MCOneKey == {k1}
MCTwoKeys == {k1, k2}
MCEither == {"cdc", "ct"}
MCJustCDC == {"cdc"}
MCBothTexts == {"meant", "written"}
MCAsMeant == {"meant"}
MCAsWritten == {"written"}

-----------------------------------------------------------------------------
\* connector.go, the comment of ChangeStream.Next: it blocks until a change is
\* available.  After a fetch that found nothing it waits for its context only.
NextFindsChanges ==
  \A i \in 1 .. MaxCommits :
    (pc = "poll" /\ i \in (cursor + 1) .. Len(log) /\ log[i].row \in SubscribedRows)
      ~> pc # "poll"

\* changes.go, the comments of fetchCDCForTable and Changes: it reads the changes
\* between fromLSN and toLSN, and none is skipped.  With the statements as they
\* are written none comes at all.
ChangesArrive == SubscribedFeed!Liveness
=============================================================================

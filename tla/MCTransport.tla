---------------------------- MODULE MCTransport -----------------------------
(***************************************************************************)
(* Transport for TLC, and a claim of the documentation that it refutes.    *)
(***************************************************************************)
EXTENDS Transport

CONSTANTS orders, items   \* two tables

MCBothTables == {orders, items}

\* A sink that publishes what is subscribed, and one that does so in part.
MCWhole == {MCBothTables}
MCWholeOrPart == {MCBothTables, {orders}}

-----------------------------------------------------------------------------
\* docs/specs/tetherdb.md: a batch that is delivered twice is applied safely.
\* The handler of a lost connection may apply its copy after later batches.
RowNeverRegresses == [][row' >= row]_vars
=============================================================================

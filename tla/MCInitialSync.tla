--------------------------- MODULE MCInitialSync ----------------------------
(***************************************************************************)
(* InitialSync for TLC: a table with the columns (region, id), whose key   *)
(* is id alone, or both columns in the order of their names.               *)
(***************************************************************************)
EXTENDS InitialSync

MCTables == {table}
MCKeys == {<<1, 2>>, <<2, 1>>, <<1, 3>>}
MCOneOrTwoColumns == {<<2>>, <<2, 1>>}
MCOneColumn == {<<2>>}
MCEither == {"cdc", "ct"}
MCJustCDC == {"cdc"}
=============================================================================

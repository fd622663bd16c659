---------------------------- MODULE MCCallGraph ----------------------------
(***************************************************************************)
(* Every call graph over N names.                                          *)
(***************************************************************************)
EXTENDS CallGraph
AllGraphs == [1..N -> SUBSET (1..N)]
=============================================================================

---------------------------- MODULE MCSubreaper -----------------------------
(***************************************************************************)
(* A command, its child and a grandchild: enough for an orphan that leaves *)
(* an orphan when it is killed.                                            *)
(***************************************************************************)
EXTENDS Subreaper

MCMaxProcesses == 3
=============================================================================

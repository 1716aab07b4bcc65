---------------------------- MODULE MCCommandRun ----------------------------
(***************************************************************************)
(* A command under its supervisor, with a child process of its own.        *)
(***************************************************************************)
EXTENDS CommandRun

MCMaxProcesses == 2
=============================================================================

-------------------------- MODULE MCSharedMembers --------------------------
(***************************************************************************)
(* Small instance of SharedMembers: enough errors and runs for a print to  *)
(* be overtaken by two starts, enough writes for the order to be lost.     *)
(***************************************************************************)
EXTENDS SharedMembers
CONSTANTS main, worker

MCThreads == {main, worker}
=============================================================================

------------------------------ MODULE Callers ------------------------------
(***************************************************************************)
(* The threads that share the stores of names and types, and what a mutex  *)
(* that none of them holds is said to be held by.                          *)
(***************************************************************************)
CONSTANTS Threads, NoThread

ASSUME NoThreadAssumption == NoThread \notin Threads
=============================================================================

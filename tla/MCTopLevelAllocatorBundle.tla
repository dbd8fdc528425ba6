--------------------- MODULE MCTopLevelAllocatorBundle ---------------------
(***************************************************************************)
(* More threads than regions with memory to spare, and as many threads as  *)
(* regions when memory may run short.                                      *)
(***************************************************************************)
EXTENDS TopLevelAllocatorBundle

CONSTANT Late   \* a thread that finds no region of its own

MCWorkload == {[threads |-> Thread, sizes |-> {1}, short |-> FALSE],
               [threads |-> Thread \ {Late}, sizes |-> {1, 2}, short |-> TRUE]}
=============================================================================

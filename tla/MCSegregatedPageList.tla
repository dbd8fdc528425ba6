----------------------- MODULE MCSegregatedPageList -----------------------
(***************************************************************************)
(* Two workloads: all threads with a free buffer that never fills (three   *)
(* entries, two objects in a page), and the owner alone with one that does.*)
(***************************************************************************)
EXTENDS SegregatedPageList, TLC

PageSymmetry == Permutations(Page)

MCWorkload ==
    {[threads |-> Thread, MAX_FREE_BUFF_SIZE |-> Slots + 1],
     [threads |-> {Owner}, MAX_FREE_BUFF_SIZE |-> 2]}
=============================================================================

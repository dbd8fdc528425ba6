----------------------------- MODULE MCFreeLoop -----------------------------
(***************************************************************************)
(* All threads and four pages without prefetching; the thread First and    *)
(* three pages with it.                                                    *)
(***************************************************************************)
EXTENDS FreeLoop

CONSTANT First

MCWorkload == {[threads |-> App, pods |-> 4, PREFETCH |-> FALSE],
               [threads |-> {First}, pods |-> 3, PREFETCH |-> TRUE]}
=============================================================================

----------------------------- MODULE PageQueue ------------------------------
(***************************************************************************)
(* What an allocation buffer promises: pages prepared by its keeper thread *)
(* are handed to the allocating threads one by one, in the order they were *)
(* prepared, each to one thread, and never more than Bound are waiting.    *)
(***************************************************************************)
EXTENDS Naturals, Sequences

CONSTANTS Pod, Bound

VARIABLES free,    \* pages of the page allocator
          queue,   \* pages prepared and waiting
          given    \* pages the allocating threads have

vars == <<free, queue, given>>

Init == /\ free = Pod
        /\ queue = <<>>
        /\ given = {}

Put(p) == /\ p \in free /\ Len(queue) < Bound
          /\ free' = free \ {p}
          /\ queue' = Append(queue, p)
          /\ UNCHANGED given

Get == /\ queue # <<>>
       /\ given' = given \cup {Head(queue)}
       /\ queue' = Tail(queue)
       /\ UNCHANGED free

\* A page may also be lost: taken from the page allocator and never used.
Drop(p) == /\ p \in free
           /\ free' = free \ {p}
           /\ UNCHANGED <<queue, given>>

Next == Get \/ \E p \in Pod : Put(p) \/ Drop(p)

Spec == Init /\ [][Next]_vars
=============================================================================

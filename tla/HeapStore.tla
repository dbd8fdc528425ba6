----------------------------- MODULE HeapStore -----------------------------
(***************************************************************************)
(* What the allocator of a page promises: the blocks in use are disjoint   *)
(* and lie in the page, a block in use stays as it is until it is freed,   *)
(* and the free space is a heap as PageHeap describes it.                  *)
(***************************************************************************)
EXTENDS PageHeap

CONSTANTS Whole,   \* the block that is the whole page
          Length   \* the lengths asked for

VARIABLES avail,   \* the heap of free blocks
          used     \* the blocks in use

Init == avail = {Whole} /\ used = {}

Allocate(b, n) ==
    /\ b \in Fits(avail, n)
    /\ avail' = Allocated(avail, b, n)
    /\ used' = used \cup {Given(b, n)}

Release(b) ==
    /\ avail' = Released(avail, b)
    /\ used' = used \ {b}

Next == \/ \E n \in Length : \E b \in avail : Allocate(b, n)
        \/ \E b \in used : Release(b)

Spec == Init /\ [][Next]_<<avail, used>>
=============================================================================

------------------------------ MODULE PageHeap ------------------------------
(***************************************************************************)
(* The free space of a page that is cut into blocks, as a set of blocks    *)
(* <<start, length>>, and what an allocation and a release make of it.     *)
(*                                                                         *)
(* FreeListAllocator keeps such a heap in boundary tags and a linked list; *)
(* SegregatedPageList uses the heaps of its pages through these operators. *)
(***************************************************************************)
EXTENDS Naturals

CONSTANT MinBlock   \* no shorter rest is split off

ASSUME MinBlockAssumption == MinBlock \in Nat \ {0}

End(b) == b[1] + b[2]

\* The blocks of heap h an allocation of n units can use.
Fits(h, n) == {b \in h : b[2] >= n}

\* What it gets out of block b: all of it when the rest is too short.
Given(b, n) == <<b[1], IF b[2] - n < MinBlock THEN b[2] ELSE n>>

Allocated(h, b, n) ==
    (h \ {b}) \cup (IF b[2] - n < MinBlock THEN {}
                    ELSE {<<b[1] + n, b[2] - n>>})

\* The free blocks that follow block b without a gap.
FollowedBy(h, b) ==
    {x \in h : /\ x[1] >= End(b)
               /\ \A i \in End(b) .. (x[1] - 1) :
                      \E y \in h : y[1] <= i /\ i < End(y)}

\* b becomes free and absorbs the free blocks to its right, none to its left.
Released(h, b) ==
    LET absorbed == FollowedBy(h, b)
        ends == {End(x) : x \in absorbed \cup {b}}
        end == CHOOSE e \in ends : \A d \in ends : d <= e
    IN  (h \ absorbed) \cup {<<b[1], end - b[1]>>}

\* The length of the longest free block.
Longest(h) ==
    IF h = {} THEN 0
    ELSE LET lengths == {b[2] : b \in h}
         IN  CHOOSE n \in lengths : \A m \in lengths : m <= n
=============================================================================

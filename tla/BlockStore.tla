----------------------------- MODULE BlockStore -----------------------------
(***************************************************************************)
(* What a page allocator promises: it hands out runs of pages of the size  *)
(* asked for that overlap no run still in use, and takes them back.        *)
(***************************************************************************)
EXTENDS Naturals

CONSTANT PodCount   \* pages are 0 .. PodCount - 1

VARIABLE live       \* the runs in use, as <<first page, size>>

Pages(b) == b[1] .. (b[1] + b[2] - 1)

Init == live = {}

Allocate(i, n) ==
    /\ i + n <= PodCount
    /\ \A b \in live : Pages(b) \cap Pages(<<i, n>>) = {}
    /\ live' = live \cup {<<i, n>>}

Free(b) == live' = live \ {b}

Next == \/ \E i \in 0 .. (PodCount - 1), n \in 1 .. PodCount : Allocate(i, n)
        \/ \E b \in live : Free(b)

Spec == Init /\ [][Next]_live
=============================================================================

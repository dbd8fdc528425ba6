------------------------- MODULE FreeListAllocator -------------------------
(***************************************************************************)
(* The allocator of small objects inside one page.  The page is an array   *)
(* of words that holds everything: the user's data, the size of a block    *)
(* before it (header) and in its last words (footer), with the lowest bit  *)
(* set when it is in use, and the links of the free blocks in their first  *)
(* two words.  Only freeHead lies outside; the first free block's link     *)
(* back points at it.                                                      *)
(*                                                                         *)
(* The unit is a word, so WSIZE is 1.  The model follows what happens to   *)
(* the words, including the swap that saves only what lies before the last *)
(* free block, the links of that block and the last two words of the page. *)
(* malloc and free run under the allocator's mutex, the others under the   *)
(* mutex of the pod.                                                       *)
(***************************************************************************)
EXTENDS Integers, Sequences

CONSTANTS PageWords,   \* words of the page (payloadSize)
          Request,     \* sizes asked of remonMalloc, in words
          Data         \* what the user writes into each word of an object

DSIZE == 2
QSIZE == 4
OVERHEAD == DSIZE

ASSUME PageAssumption ==
    /\ PageWords \in Nat /\ PageWords % 2 = 0 /\ PageWords >= 2 * QSIZE
    /\ Request \subseteq 1 .. (PageWords - QSIZE)   \* larger ones are huge

nullptr == 0
freeHead == 1                 \* the address of the variable
payloadStart == 2
payloadEnd == payloadStart + PageWords
MAX_INTRA_POD_SIZE == PageWords - QSIZE
Payload == payloadStart .. (payloadEnd - 1)
FirstBlock == payloadStart + DSIZE

ASSUME DataAssumption == Data \in Nat /\ Data > payloadEnd

VARIABLES mem,      \* the words of the page and freeHead
          inited,
          live,     \* the objects in use: address -> size asked for
          stuck     \* an operation returned without releasing the mutex

vars == <<mem, inited, live, stuck>>

Init ==
    /\ mem = [a \in Payload \cup {freeHead} |-> 0]
    /\ inited = FALSE
    /\ live = <<>>
    /\ stuck = FALSE
-----------------------------------------------------------------------------
(***************************************************************************)
(* The macros, on the words m.                                             *)
(***************************************************************************)
HDRP(b) == b - 1
GET_SIZE(m, a) == m[a] - (m[a] % 2)
GET_ALLOC(m, a) == m[a] % 2
GET_BLOCK_SIZE(m, b) == GET_SIZE(m, HDRP(b))
FTRP(m, b) == b + GET_BLOCK_SIZE(m, b) - DSIZE
NEXT_BLKP(m, b) == b + GET_BLOCK_SIZE(m, b)
NEXT_FREE(b) == b
PREV_FREE(b) == b + 1

PUT(m, a, v) == [m EXCEPT ![a] = v]
\* PUT unless the pointer is null.
PutAt(m, ptr, a, v) == IF ptr = nullptr THEN m ELSE PUT(m, a, v)

SET_BLOCK_SIZE(m, b, n) ==
    LET h == PUT(m, HDRP(b), n) IN PUT(h, FTRP(h, b), n)
SET_ALLOC(m, b) ==
    LET h == PUT(m, HDRP(b), GET_BLOCK_SIZE(m, b) + 1)
    IN  PUT(h, FTRP(h, b), h[HDRP(b)])
SET_FREE(m, b) ==
    LET h == PUT(m, HDRP(b), GET_BLOCK_SIZE(m, b))
    IN  PUT(h, FTRP(h, b), h[HDRP(b)])
-----------------------------------------------------------------------------
(***************************************************************************)
(* The parts of the operations.                                            *)
(***************************************************************************)

\* One free block; the words around it look like blocks in use.
heapInit(m) ==
    LET size == MAX_INTRA_POD_SIZE + OVERHEAD
        s == SET_FREE(SET_BLOCK_SIZE(PUT(m, payloadStart, 1), FirstBlock, size),
                      FirstBlock)
        t == PUT(PUT(s, freeHead, FirstBlock), payloadEnd - 1, 1)
    IN  PUT(PUT(t, PREV_FREE(FirstBlock), freeHead), NEXT_FREE(FirstBlock), nullptr)

Inited == IF inited THEN mem ELSE heapInit(mem)

\* The blocks met from freeHead, for at most as many steps as there are words.
FreeList(m) ==
    LET L[k \in 0 .. PageWords] ==
            LET b == IF k = 0 THEN m[freeHead]
                     ELSE IF L[k - 1] = <<>> THEN nullptr
                     ELSE m[NEXT_FREE(L[k - 1][Len(L[k - 1])])]
            IN  IF k = 0 THEN (IF b = nullptr THEN <<>> ELSE <<b>>)
                ELSE IF b = nullptr THEN L[k - 1] ELSE Append(L[k - 1], b)
    IN  L[PageWords \div QSIZE]

insertAtFreeHead(m, b) ==
    LET head == m[freeHead]
        s == PutAt(PUT(m, NEXT_FREE(b), head), head, PREV_FREE(head), b)
    IN  PUT(PUT(s, freeHead, b), PREV_FREE(b), freeHead)

\* malloc unlinks the block it takes in the same way.
popFreeBlockOut(m, b) ==
    LET prev == m[PREV_FREE(b)]
        next == m[NEXT_FREE(b)]
    IN  PutAt(PutAt(m, prev, NEXT_FREE(prev), next), next, PREV_FREE(next), prev)

\* The first block of the list that is large enough, null if there is none.
FirstFit(m, asize) ==
    LET list == FreeList(m)
        fits == {i \in DOMAIN list : GET_BLOCK_SIZE(m, list[i]) >= asize}
    IN  IF fits = {} THEN nullptr
        ELSE list[CHOOSE i \in fits : \A j \in fits : i <= j]

\* b, off the list, is cut to asize and marked; the rest becomes the head of
\* the list unless it is too short to be a block.
Split(m, b, asize) ==
    LET rest == GET_BLOCK_SIZE(m, b) - asize
        s == SET_ALLOC(SET_BLOCK_SIZE(m, b, asize), b)
        r == NEXT_BLKP(s, b)
    IN  IF rest < QSIZE THEN SET_ALLOC(m, b)
        ELSE insertAtFreeHead(SET_FREE(SET_BLOCK_SIZE(s, r, rest), r), r)

\* Mutant: one neighbour only.
bpsToRemoveOne(m, b) ==
    LET nextBp == NEXT_BLKP(m, b)
    IN  IF nextBp >= payloadEnd THEN <<>>
        ELSE IF GET_ALLOC(m, HDRP(nextBp)) = 1 THEN <<>> ELSE <<nextBp>>

\* The free blocks that follow b in the page, in order.
bpsToRemove(m, b) ==
    LET R[k \in 0 .. PageWords] ==
            IF k = 0 THEN <<>>
            ELSE LET curr == IF R[k - 1] = <<>> THEN b ELSE R[k - 1][Len(R[k - 1])]
                     nextBp == NEXT_BLKP(m, curr)
                 IN  IF nextBp >= payloadEnd THEN R[k - 1]
                     ELSE IF GET_ALLOC(m, HDRP(nextBp)) = 1 THEN R[k - 1]
                     ELSE Append(R[k - 1], nextBp)
    IN  R[PageWords \div QSIZE]

\* b grows over them, then they leave the list.
rightCoalescing(m, b) ==
    LET absorbed == bpsToRemove(m, b)
        last == absorbed[Len(absorbed)]
        grown == SET_FREE(SET_BLOCK_SIZE(m, b, NEXT_BLKP(m, last) - b), b)
        P[k \in 0 .. Len(absorbed)] ==
            IF k = 0 THEN grown ELSE popFreeBlockOut(P[k - 1], absorbed[k])
    IN  IF absorbed = <<>> THEN m ELSE P[Len(absorbed)]

isEmpty == /\ mem[freeHead] # nullptr
           /\ GET_BLOCK_SIZE(mem, mem[freeHead]) = PageWords - DSIZE

\* Mutant: a last block in use is cut off as well.
getTailFreeBlockInUse ==
    payloadEnd - DSIZE - (GET_SIZE(mem, payloadEnd - DSIZE) - DSIZE)

\* The last block if it is free, else the end of the page.
getTailFreeBlock ==
    LET footer == payloadEnd - DSIZE IN
    IF GET_ALLOC(mem, footer) = 0
    THEN footer - (GET_SIZE(mem, footer) - DSIZE)
    ELSE payloadEnd
-----------------------------------------------------------------------------
(***************************************************************************)
(* Operations.                                                             *)
(***************************************************************************)

\* Mutant: no room for header and footer.
computeAsizeNoOverhead(size) ==
    IF size <= DSIZE THEN DSIZE + OVERHEAD ELSE DSIZE * ((size + DSIZE - 1) \div DSIZE)

computeAsize(size) ==
    IF size <= DSIZE THEN DSIZE + OVERHEAD
    ELSE DSIZE * ((size + OVERHEAD + DSIZE - 1) \div DSIZE)

\* The user fills its object.
Written(m, b, size) ==
    [a \in DOMAIN m |-> IF a \in b .. (b + size - 1) THEN Data ELSE m[a]]

malloc(size) ==
    LET asize == computeAsize(size)
        b == FirstFit(Inited, asize)
    IN  /\ ~stuck
        /\ asize <= MAX_INTRA_POD_SIZE
        /\ inited' = TRUE
        /\ IF b = nullptr
           THEN mem' = Inited /\ UNCHANGED live
           ELSE /\ mem' = Written(Split(popFreeBlockOut(Inited, b), b, asize), b, size)
                /\ live' = [c \in DOMAIN live \cup {b} |->
                               IF c = b THEN size ELSE live[c]]
        /\ UNCHANGED stuck

\* The early return for a size over the limit keeps the mutex.
mallocOversize(size) ==
    /\ ~stuck
    /\ computeAsize(size) > MAX_INTRA_POD_SIZE
    /\ inited' = TRUE
    /\ mem' = Inited
    /\ stuck' = TRUE
    /\ UNCHANGED live

free(b) ==
    /\ ~stuck
    /\ b \in DOMAIN live
    /\ mem' = rightCoalescing(insertAtFreeHead(SET_FREE(mem, b), b), b)
    /\ live' = [c \in DOMAIN live \ {b} |-> live[c]]
    /\ UNCHANGED <<inited, stuck>>

\* The words S survive, the rest of the page reads as zero.
Keep(S) == [a \in DOMAIN mem |-> IF a \in S \cup {freeHead} THEN mem[a] ELSE 0]

\* Mutant: the links of the last free block are not saved.
SwapAndBackShort ==
    /\ inited
    /\ mem' = Keep(payloadStart .. (getTailFreeBlock - 1)
                       \cup {payloadEnd - 2, payloadEnd - 1})
    /\ UNCHANGED <<inited, live, stuck>>

\* The page is evicted to the disk or to a memory node and comes back.
SwapAndBack ==
    /\ inited
    /\ mem' = LET tail == getTailFreeBlock
              IN  Keep(Payload \cap (payloadStart .. (tail + 1)
                                        \cup {payloadEnd - 2, payloadEnd - 1}))
    /\ UNCHANGED <<inited, live, stuck>>

\* An empty page is dropped: by the evictor, which leaves the heap to be built
\* by the next allocation, or by trim, which builds it.
localToInit ==
    /\ isEmpty
    /\ mem' = Keep({})
    /\ inited' = FALSE
    /\ UNCHANGED <<live, stuck>>

dropMemoryStayLocal ==
    /\ isEmpty
    /\ mem' = heapInit(Keep({}))
    /\ UNCHANGED <<inited, live, stuck>>

Next ==
    \/ \E size \in Request : malloc(size) \/ mallocOversize(size)
    \/ \E b \in DOMAIN live : free(b)
    \/ SwapAndBack
    \/ localToInit
    \/ dropMemoryStayLocal

Spec == Init /\ [][Next]_vars
-----------------------------------------------------------------------------
(***************************************************************************)
(* Properties.                                                             *)
(***************************************************************************)

\* The blocks the sizes lead to from the first one.
Block ==
    LET B[k \in 0 .. PageWords] ==
            IF k = 0 THEN {FirstBlock}
            ELSE LET T == B[k - 1]
                 IN  T \cup ({NEXT_BLKP(mem, b) : b \in T} \cap Payload)
    IN  IF inited THEN B[PageWords \div QSIZE] ELSE {}

FreeBlock == {b \in Block : GET_ALLOC(mem, HDRP(b)) = 0}

\* Every word is an address or a size within the page, or data of the user: no
\* tag or link computed from stale words leaves the page.
TypeOK ==
    /\ mem \in [Payload \cup {freeHead} -> 0 .. payloadEnd \cup {Data}]
    /\ inited \in BOOLEAN /\ stuck \in BOOLEAN
    /\ DOMAIN live \subseteq Payload
    /\ \A b \in DOMAIN live : live[b] \in Request

\* What debugPrint checks: the blocks tile the page, and header and footer of
\* each agree on its size and on whether it is in use.
BlocksTile ==
    \A b \in Block :
        /\ GET_BLOCK_SIZE(mem, b) >= QSIZE
        /\ NEXT_BLKP(mem, b) \in Block \cup {payloadEnd}
        /\ mem[FTRP(mem, b)] = mem[HDRP(b)]

\* The list from freeHead, followed by the links in the page, meets every free
\* block once and nothing else, and its links back agree, whatever was split,
\* coalesced, swapped out truncated or dropped before.
FreeListExact ==
    inited =>
        LET list == FreeList(mem) IN
        /\ {list[i] : i \in DOMAIN list} = FreeBlock
        /\ \A i, j \in DOMAIN list : i # j => list[i] # list[j]
        /\ \A i \in DOMAIN list :
              mem[PREV_FREE(list[i])] = IF i = 1 THEN freeHead ELSE list[i - 1]

\* No word of an object in use changes: not by a neighbour's tags, links or
\* coalescing, not by a swap that saves a part of the page only, not by a page
\* dropped as empty.
UserDataIntact ==
    \A b \in DOMAIN live : \A a \in b .. (b + live[b] - 1) : mem[a] = Data

\* The tags are a heap in the sense of PageHeap.
Whole == <<FirstBlock, PageWords - DSIZE>>
Sized(S) == {<<b, GET_BLOCK_SIZE(mem, b)>> : b \in S}

Store == INSTANCE HeapStore WITH
    MinBlock <- QSIZE,
    Length <- {computeAsize(size) : size \in Request},
    avail <- IF inited THEN Sized(FreeBlock) ELSE {Whole},
    used <- Sized(DOMAIN live)

\* Seen from outside, malloc and free hand out and take back blocks as HeapStore
\* says, and a swap or a drop of the page changes nothing: what SegregatedPageList
\* assumes of a page.
ImplementsHeap == Store!Spec
=============================================================================

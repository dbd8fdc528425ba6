------------------------- MODULE TopLevelAllocator -------------------------
(***************************************************************************)
(* The page allocator of one region of the compute node.  Blocks of pages  *)
(* tile the region; the first and the last page of a block (its header and *)
(* its footer) carry the block's size and whether it is free, and the free *)
(* blocks of one size form a doubly linked list whose head hugePodMap      *)
(* holds.                                                                  *)
(*                                                                         *)
(* Every operation runs under allocateNPagesLock.  allocateNPages is one   *)
(* step; hugeFree is a step for each iteration of its coalescing loop and  *)
(* one for what follows the loop, with the lock held in between.           *)
(***************************************************************************)
EXTENDS Integers, FiniteSets

CONSTANTS PodCount,   \* pages of the region
          NoPod       \* nullptr

ASSUME PodCountAssumption == PodCount \in Nat \ {0}

Page == 0 .. (PodCount - 1)
Size == 1 .. PodCount

ASSUME NoPodAssumption == NoPod \notin Page

VARIABLES
    globalSize, isFree,   \* of each page; meaningful in headers and footers
    prev, next,           \* links of each page; meaningful in free headers
    hugePodMap,           \* size -> head of the list, NoPod: no entry
    freeing,              \* the block hugeFree is working on, with the lock held
    currI, freedSize,     \* locals of coalescingOnePodRight
    crashed

links == <<prev, next, hugePodMap>>
loopVars == <<freeing, currI, freedSize>>
vars == <<globalSize, isFree, links, loopVars, crashed>>

TypeOK ==
    /\ globalSize \in [Page -> 0 .. PodCount]
    /\ isFree \in [Page -> BOOLEAN]
    /\ prev \in [Page -> Page \cup {NoPod}]
    /\ next \in [Page -> Page \cup {NoPod}]
    /\ hugePodMap \in [Size -> Page \cup {NoPod}]
    /\ freeing \in Page \cup {NoPod}
    /\ currI \in Page
    /\ freedSize \in 0 .. PodCount
    /\ crashed \in BOOLEAN

Footer(i, n) == i + n - 1

\* f with value v at the pages of S.
Set(f, S, v) == [i \in DOMAIN f |-> IF i \in S THEN v ELSE f[i]]

\* The constructor and initGlobalFreePodList: one free block.
Init ==
    /\ globalSize = Set([i \in Page |-> 0], {0, PodCount - 1}, PodCount)
    /\ isFree = [i \in Page |-> TRUE]
    /\ prev = [i \in Page |-> NoPod]
    /\ next = [i \in Page |-> NoPod]
    /\ hugePodMap = [n \in Size |-> IF n = PodCount THEN 0 ELSE NoPod]
    /\ freeing = NoPod
    /\ currI = 0 /\ freedSize = 0
    /\ crashed = FALSE
-----------------------------------------------------------------------------
(***************************************************************************)
(* The lists.  An operator yields the new links, given links s.            *)
(***************************************************************************)
Links == [prev |-> prev, next |-> next, map |-> hugePodMap]

\* i becomes the head of the list of size n.
hugePodMapAddEntry(s, i, n) ==
    LET head == s.map[n] IN
    [prev |-> Set(Set(s.prev, {head}, i), {i}, NoPod),
     next |-> Set(s.next, {i}, head),
     map  |-> [s.map EXCEPT ![n] = i]]

\* Mutant: the successor keeps its link back to i.
hugePodMapRemoveEntryHalf(s, i, n) ==
    LET p == s.prev[i]
        q == s.next[i]
    IN  CASE s.map[n] = NoPod -> s
          [] s.map[n] \notin {NoPod, i} -> [s EXCEPT !.next = Set(@, {p}, q)]
          [] OTHER -> [s EXCEPT !.map[n] = q, !.prev = Set(@, {q}, NoPod)]

\* i leaves the list of its size n.  When there is no such list the code
\* reports an error and does nothing; a lone head keeps its links.
hugePodMapRemoveEntry(s, i, n) ==
    LET p == s.prev[i]
        q == s.next[i]
    IN  CASE s.map[n] = NoPod -> s
          [] s.map[n] \notin {NoPod, i} ->
               [s EXCEPT !.next = Set(@, {p}, q), !.prev = Set(@, {q}, p)]
          [] s.map[n] = i /\ q = NoPod ->
               [s EXCEPT !.map[n] = NoPod]
          [] OTHER ->
               [s EXCEPT !.map[n] = q, !.prev[q] = NoPod, !.next[i] = NoPod]

SetLinks(s) == prev' = s.prev /\ next' = s.next /\ hugePodMap' = s.map
-----------------------------------------------------------------------------
\* hugePodMap.lower_bound(n): the smallest size with an entry.
Fitting(n) == {c \in Size : c >= n /\ hugePodMap[c] # NoPod}
lower_bound(n) == CHOOSE c \in Fitting(n) : \A d \in Fitting(n) : c <= d

\* The head of the list is taken out; allocateNPages leaves its own links.
TakeHead(s, i, n) ==
    [s EXCEPT !.map[n] = s.next[i], !.prev = Set(@, {s.next[i]}, NoPod)]

\* The first n pages of the block are handed out, the rest is a free block.
allocateNPages(n) ==
    /\ freeing = NoPod /\ ~crashed
    /\ Fitting(n) # {}
    /\ LET c == lower_bound(n)
           i == hugePodMap[c]
           residual == {i + n, Footer(i, c)}
           taken == TakeHead(Links, i, c)
       IN  IF c > n
           THEN /\ globalSize' = Set(Set(globalSize, {i, Footer(i, n)}, n),
                                     residual, c - n)
                /\ isFree' = Set(Set(isFree, {i, Footer(i, n)}, FALSE),
                                 residual, TRUE)
                /\ SetLinks(hugePodMapAddEntry(taken, i + n, c - n))
           ELSE /\ globalSize' = Set(globalSize, {i, Footer(i, n)}, n)
                /\ isFree' = Set(isFree, {i, Footer(i, n)}, FALSE)
                /\ SetLinks(taken)
    /\ UNCHANGED <<loopVars, crashed>>

\* No list fits: the code dereferences hugePodMap.end() and follows what it
\* finds there, the words of the lock that lies behind the map.
allocateNPagesFails(n) ==
    /\ freeing = NoPod /\ ~crashed
    /\ Fitting(n) = {}
    /\ crashed' = TRUE
    /\ UNCHANGED <<globalSize, isFree, links, loopVars>>
-----------------------------------------------------------------------------
\* The pages reached from those of S in up to PodCount steps of f.
Reached(S, f) ==
    LET R[k \in 0 .. PodCount] ==
            IF k = 0 THEN S
            ELSE LET T == R[k - 1] IN T \cup ({f[i] : i \in T} \cap Page)
    IN  R[PodCount]

\* The blocks: a header is a page the sizes lead to from the first page.
Header == Reached({0}, [i \in Page |-> i + globalSize[i]])

\* Mutant: the loop starts at the block to the right.
hugeFreeSkips(i) ==
    /\ freeing = NoPod /\ ~crashed
    /\ i \in Header /\ ~isFree[i]
    /\ freeing' = i /\ currI' = i + globalSize[i] /\ freedSize' = 0
    /\ UNCHANGED <<globalSize, isFree, links, crashed>>

\* The application frees a block it holds.
hugeFree(i) ==
    /\ freeing = NoPod /\ ~crashed
    /\ i \in Header /\ ~isFree[i]
    /\ freeing' = i /\ currI' = i /\ freedSize' = 0
    /\ UNCHANGED <<globalSize, isFree, links, crashed>>

nextHeaderI == currI + globalSize[currI]

\* Mutant: a block in use is absorbed too.
coalescingOnePodRightInUse ==
    /\ freeing # NoPod
    /\ nextHeaderI < PodCount
    /\ freedSize' = freedSize + globalSize[nextHeaderI]
    /\ SetLinks(hugePodMapRemoveEntry(Links, nextHeaderI, globalSize[nextHeaderI]))
    /\ currI' = nextHeaderI
    /\ UNCHANGED <<globalSize, isFree, freeing, crashed>>

\* The block to the right is free: it leaves its list.
coalescingOnePodRight ==
    /\ freeing # NoPod
    /\ nextHeaderI < PodCount /\ isFree[nextHeaderI]
    /\ freedSize' = freedSize + globalSize[nextHeaderI]
    /\ SetLinks(hugePodMapRemoveEntry(Links, nextHeaderI, globalSize[nextHeaderI]))
    /\ currI' = nextHeaderI
    /\ UNCHANGED <<globalSize, isFree, freeing, crashed>>

\* Mutant: the footer of the grown block is not written.
FinishFreeNoFooter ==
    /\ freeing # NoPod
    /\ nextHeaderI < PodCount => ~isFree[nextHeaderI]
    /\ LET oldSize == globalSize[freeing]
           n == oldSize + freedSize
       IN  /\ globalSize' = [globalSize EXCEPT ![freeing] = n]
           /\ isFree' = Set(isFree, freeing .. Footer(freeing, oldSize), TRUE)
           /\ SetLinks(hugePodMapAddEntry(Links, freeing, n))
    /\ freeing' = NoPod /\ currI' = 0 /\ freedSize' = 0
    /\ UNCHANGED crashed

\* Otherwise the loop ends: the grown block gets its size, the pages that were
\* in use are free, and the block enters its list.
FinishFree ==
    /\ freeing # NoPod
    /\ nextHeaderI < PodCount => ~isFree[nextHeaderI]
    /\ LET oldSize == globalSize[freeing]
           n == oldSize + freedSize
       IN  /\ globalSize' = Set(globalSize, {freeing, Footer(freeing, n)}, n)
           /\ isFree' = Set(isFree, freeing .. Footer(freeing, oldSize)
                                      \cup {Footer(freeing, n)}, TRUE)
           /\ SetLinks(hugePodMapAddEntry(Links, freeing, n))
    /\ freeing' = NoPod /\ currI' = 0 /\ freedSize' = 0
    /\ UNCHANGED crashed

Next ==
    \/ \E n \in Size : allocateNPages(n) \/ allocateNPagesFails(n)
    \/ \E i \in Page : hugeFree(i)
    \/ coalescingOnePodRight
    \/ FinishFree

Spec == Init /\ [][Next]_vars
-----------------------------------------------------------------------------
(***************************************************************************)
(* Properties.                                                             *)
(***************************************************************************)

\* What dumpGlobalFreePodList checks of the region: the blocks tile it, and
\* header and footer of a block agree on its size and on whether it is free.
BlocksTile ==
    \A i \in Header :
        LET f == Footer(i, globalSize[i]) IN
        /\ globalSize[i] > 0 /\ f \in Page
        /\ freeing = NoPod => /\ globalSize[f] = globalSize[i]
                              /\ isFree[f] = isFree[i]

FreeHeader == {i \in Header : isFree[i]}

\* The blocks the running hugeFree has already taken off their lists.
Absorbed == IF freeing = NoPod THEN {}
            ELSE {i \in Header : freeing < i /\ i <= currI}

\* The blocks on the lists.
Listed == Reached({hugePodMap[n] : n \in Size} \cap Page, next)

\* Every free block is on the list of its size, linked in both directions, and
\* nothing else is: no free block is lost and none can be handed out twice.
FreeListsExact ==
    /\ Listed = FreeHeader \ Absorbed
    /\ \A n \in Size : hugePodMap[n] # NoPod =>
          globalSize[hugePodMap[n]] = n /\ prev[hugePodMap[n]] = NoPod
    /\ \A i \in Listed : next[i] # NoPod =>
          prev[next[i]] = i /\ globalSize[next[i]] = globalSize[i]

\* The blocks of the headers, seen from outside, are a store of disjoint runs:
\* an allocation overlaps no block in use, and a block in use keeps its size
\* until it is freed.
Store == INSTANCE BlockStore WITH
             live <- {<<i, globalSize[i]>> : i \in {h \in Header : ~isFree[h]}}

ImplementsStore == Store!Spec
=============================================================================

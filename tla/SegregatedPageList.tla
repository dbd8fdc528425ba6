------------------------ MODULE SegregatedPageList ------------------------
(***************************************************************************)
(* The pages one thread uses for objects of one size.                      *)
(*                                                                         *)
(* SplMux and SPLBundle give every thread a list of its own for every      *)
(* size, so one thread allocates from the list; others free objects, touch *)
(* them, and evict pages.  rankMap lists the resident pages under their    *)
(* rank, the longest free block; an evicted page is taken off ("benched")  *)
(* and put back when it is resident again.  A free does not touch the      *)
(* page: the object is noted in the pod's freeBuffer and freed when the    *)
(* buffer is flushed.                                                      *)
(*                                                                         *)
(* A page's mutex is taken before the list's spin lock by everyone but the *)
(* allocating thread, which takes the spin lock first and only tries the   *)
(* mutexes.  A step is what happens between two points where a thread may  *)
(* have to wait or releases a lock.                                        *)
(*                                                                         *)
(* The length unit is one object.  Where an evicted page goes, disk or     *)
(* memory node, does not matter here: its state is "swapped".              *)
(***************************************************************************)
EXTENDS PageHeap, FiniteSets, Sequences

CONSTANTS Page,
          Slots,          \* objects in a page
          Owner,          \* the thread the list belongs to
          Other,          \* threads that use and free its objects
          Evictor,        \* free loops
          Workload,       \* who runs, and MAX_FREE_BUFF_SIZE: see below
          Patience,       \* failed attempts on the last page; 100 in the code
          NoPage, NoThread

ASSUME SplAssumption ==
    /\ MinBlock = 1              \* the unit is an object: no rest is too short
    /\ Slots \in Nat \ {0}
    /\ Patience \in Nat
    /\ NoPage \notin Page
    /\ NoThread \notin {Owner} \cup Other \cup Evictor
    /\ Workload \subseteq [threads : SUBSET ({Owner} \cup Other \cup Evictor),
                            MAX_FREE_BUFF_SIZE : Nat \ {0}]

Thread == {Owner} \cup Other \cup Evictor
Slot == 0 .. (Slots - 1)
Object == Page \X Slot
Whole == <<0, Slots>>      \* the heap of an empty page is {Whole}
needed == 1                \* the rank a page needs for one object

VARIABLES
    load,              \* the workload of this execution
    rankMap,           \* the pairs <<rank, page>> of the list
    lastAllocatedPod,
    localFreeBuffer,   \* resident pages with frees to flush
    splLock,           \* the holder of the list's lock
    rank,              \* of each pod, as last computed
    state,             \* of each pod; "buffered" in the allocation buffer
    heap,              \* the free blocks of each page
    freeBuffer,        \* of each pod
    mutex,             \* its holder
    LRU,               \* the pages on the LRU list
    pc,                \* what each thread is doing
    cur,               \* and with which object or page
    todo,              \* pages the owner still has to look at
    count,             \* its failed attempts on the last page
    objects,           \* what the application has allocated
    lost,              \* objects allocated and dropped by the owner
    fatal              \* the process called exit

splVars == <<rankMap, lastAllocatedPod, localFreeBuffer, rank>>
podVars == <<state, heap, freeBuffer>>
lockVars == <<splLock, mutex>>
ownerVars == <<todo, count>>
appVars == <<objects, lost>>
vars == <<load, splVars, podVars, lockVars, ownerVars, appVars, LRU, pc, cur, fatal>>

Init ==
    /\ load \in Workload
    /\ rankMap = {} /\ lastAllocatedPod = NoPage /\ localFreeBuffer = {}
    /\ rank = [p \in Page |-> 0]
    /\ state = [p \in Page |-> "buffered"]
    /\ heap = [p \in Page |-> {Whole}]
    /\ freeBuffer = [p \in Page |-> <<>>]
    /\ splLock = NoThread /\ mutex = [p \in Page |-> NoThread]
    /\ LRU = {}
    /\ pc = [t \in Thread |-> "idle"]
    /\ cur = [t \in Thread |-> <<NoPage, 0>>]
    /\ todo = {} /\ count = 0
    /\ objects = {} /\ lost = {}
    /\ fatal = FALSE
-----------------------------------------------------------------------------
(***************************************************************************)
(* Helpers.                                                                *)
(***************************************************************************)
page(t) == cur[t][1]
Free(p) == mutex[p] = NoThread
isEmpty(h) == h = {Whole}

\* Nothing runs after exit.
At(t, l) == pc[t] = l /\ ~fatal
Goto(t, l) == pc' = [pc EXCEPT ![t] = l]
Done(t) == /\ Goto(t, "idle")
           /\ cur' = [cur EXCEPT ![t] = <<NoPage, 0>>]
With(t, p, s) == cur' = [cur EXCEPT ![t] = <<p, s>>]
Lock(p, t) == mutex' = [mutex EXCEPT ![p] = t]
\* Releases the mutex, whoever holds it.
Unlock(p) == Lock(p, NoThread)

\* The heap h after the objects of a buffer were freed in order.
Flushed(h, buffer) ==
    LET F[i \in 0 .. Len(buffer)] ==
            IF i = 0 THEN h ELSE Released(F[i - 1], <<buffer[i], 1>>)
    IN  F[Len(buffer)]

flushFreeBuffer(p) ==
    /\ heap' = [heap EXCEPT ![p] = Flushed(heap[p], freeBuffer[p])]
    /\ freeBuffer' = [freeBuffer EXCEPT ![p] = <<>>]

SetRank(p, r) == rank' = [rank EXCEPT ![p] = r]

HasRank(r) == \E e \in rankMap : e[1] = r

\* begin() of the map; of an empty one the code reads a zero.
TopRank(rm) == LET ranks == {e[1] : e \in rm} \cup {0}
               IN  CHOOSE r \in ranks : \A q \in ranks : q <= r

\* The list once page p has rank r: a resident page moves, another one leaves.
Moved(p, r) ==
    IF r = rank[p] THEN rankMap
    ELSE (rankMap \ {<<rank[p], p>>})
             \cup (IF state[p] = "local" THEN {<<r, p>>} ELSE {})

\* The page moves to its new rank; a missing entry for the old one is fatal.
flushOnePage(p) ==
    /\ flushFreeBuffer(p)
    /\ LET r == Longest(heap'[p]) IN
       /\ SetRank(p, r)
       /\ fatal' = (r # rank[p] /\ ~HasRank(rank[p]))
       /\ rankMap' = Moved(p, r)

\* The same for the page last allocated from, which was not moved meanwhile.
adjustPodList(p) ==
    /\ SetRank(p, Longest(heap[p]))
    /\ rankMap' = Moved(p, Longest(heap[p]))
-----------------------------------------------------------------------------
(***************************************************************************)
(* remonMalloc and SegregatedPageList::allocate, by the owner.             *)
(***************************************************************************)
allocate(t) ==
    /\ At(t, "idle") /\ splLock = NoThread
    /\ splLock' = t
    /\ count' = 0
    /\ Goto(t, "previous")
    /\ UNCHANGED <<splVars, podVars, mutex, todo, appVars, LRU, cur, fatal>>

\* The page last allocated from, if its mutex is free; a page the evictor has
\* dropped as empty becomes local again.  Having waited too long, the code
\* drops what it got.
tryAllocateWithPreviousPod(t) ==
    LET p == lastAllocatedPod IN
    /\ At(t, "previous")
    /\ p # NoPage /\ Free(p)
    /\ IF state[p] \notin {"local", "init"} \/ Fits(heap[p], needed) = {}
       THEN /\ Goto(t, "search")
            /\ state' = [state EXCEPT ![p] = IF @ = "init" THEN "local" ELSE @]
            /\ UNCHANGED <<heap, cur, lost, splLock>>
       ELSE \E b \in Fits(heap[p], needed) :
            /\ state' = [state EXCEPT ![p] = "local"]
            /\ heap' = [heap EXCEPT ![p] = Allocated(@, b, needed)]
            /\ IF count > Patience
               THEN /\ lost' = lost \cup {<<p, b[1]>>}
                    /\ Goto(t, "search")
                    /\ UNCHANGED <<cur, splLock>>
               ELSE /\ With(t, p, b[1])
                    /\ splLock' = NoThread
                    /\ Goto(t, "relist")
                    /\ UNCHANGED lost
    /\ UNCHANGED <<splVars, freeBuffer, mutex, ownerVars, objects, LRU, fatal>>

\* Mutant: the list's lock is kept.
PreviousPodBusyKeepsLock(t) ==
    /\ At(t, "previous")
    /\ lastAllocatedPod # NoPage /\ ~Free(lastAllocatedPod)
    /\ count' = IF count > Patience THEN count ELSE count + 1
    /\ UNCHANGED <<splVars, podVars, lockVars, todo, appVars, LRU, pc, cur, fatal>>

\* Its mutex is busy: the list's lock is released and taken again.
PreviousPodBusy(t) ==
    /\ At(t, "previous")
    /\ lastAllocatedPod # NoPage /\ ~Free(lastAllocatedPod)
    /\ splLock' = NoThread
    /\ count' = IF count > Patience THEN count ELSE count + 1
    /\ Goto(t, "regain")
    /\ UNCHANGED <<splVars, podVars, mutex, todo, appVars, LRU, cur, fatal>>

Regain(t) ==
    /\ At(t, "regain") /\ splLock = NoThread
    /\ splLock' = t
    /\ Goto(t, "previous")
    /\ UNCHANGED <<splVars, podVars, mutex, ownerVars, appVars, LRU, cur, fatal>>

\* Where allocate goes on with the list rm and the buffer lfb.
SearchList(t, rm) ==
    /\ todo' = {p \in Page : <<TopRank(rm), p>> \in rm}
    /\ Goto(t, "list")
    /\ UNCHANGED splLock

GiveUpList(t) ==
    /\ splLock' = NoThread
    /\ Goto(t, "newPage")
    /\ UNCHANGED todo

\* The last page is put in its place, its memory read under the list's lock
\* only; then the pages of the highest rank, if it suffices, or the buffer.
Search(t) ==
    /\ \/ At(t, "search")
       \/ At(t, "previous") /\ lastAllocatedPod = NoPage
    /\ IF lastAllocatedPod = NoPage THEN UNCHANGED <<rank, rankMap>>
                                    ELSE adjustPodList(lastAllocatedPod)
    /\ lastAllocatedPod' = NoPage
    /\ IF TopRank(rankMap') >= needed THEN SearchList(t, rankMap')
       ELSE IF localFreeBuffer = {} THEN GiveUpList(t)
       ELSE /\ todo' = localFreeBuffer
            /\ Goto(t, "clear")
            /\ UNCHANGED splLock
    /\ UNCHANGED <<localFreeBuffer, podVars, mutex, count, appVars, LRU, cur, fatal>>

\* One page of the loop; a busy one stays in the buffer.
clearLocalFreeBuffer(t) ==
    /\ At(t, "clear")
    /\ \E p \in todo :
        /\ IF Free(p) /\ state[p] = "local" /\ freeBuffer[p] # <<>>
           THEN flushOnePage(p)
           ELSE UNCHANGED <<heap, freeBuffer, rank, rankMap, fatal>>
        /\ localFreeBuffer' = IF Free(p) THEN localFreeBuffer \ {p}
                                         ELSE localFreeBuffer
        /\ todo' = todo \ {p}
    /\ UNCHANGED <<lastAllocatedPod, state, lockVars, count, appVars, LRU, pc, cur>>

BufferCleared(t) ==
    /\ At(t, "clear") /\ todo = {}
    /\ IF TopRank(rankMap) >= needed THEN SearchList(t, rankMap) ELSE GiveUpList(t)
    /\ UNCHANGED <<splVars, podVars, mutex, count, appVars, LRU, cur, fatal>>

\* One page of the loop over the pages of the highest rank.
allocateOfAList(t) ==
    /\ At(t, "list")
    /\ \E p \in todo :
        IF Free(p) /\ state[p] = "local" /\ Fits(heap[p], needed) # {}
        THEN \E b \in Fits(heap[p], needed) :
             /\ heap' = [heap EXCEPT ![p] = Allocated(@, b, needed)]
             /\ lastAllocatedPod' = p
             /\ SetRank(p, Longest(heap'[p]))
             /\ rankMap' = IF rank'[p] = rank[p] THEN rankMap
                           ELSE (rankMap \ {<<TopRank(rankMap), p>>})
                                    \cup {<<rank'[p], p>>}
             /\ With(t, p, b[1])
             /\ splLock' = NoThread
             /\ todo' = {}
             /\ Goto(t, "relist")
        ELSE /\ todo' = todo \ {p}
             /\ UNCHANGED <<heap, lastAllocatedPod, rank, rankMap, cur, splLock, pc>>
    /\ UNCHANGED <<localFreeBuffer, state, freeBuffer, mutex, count, appVars, LRU, fatal>>

ListExhausted(t) ==
    /\ At(t, "list") /\ todo = {}
    /\ GiveUpList(t)
    /\ UNCHANGED <<splVars, podVars, mutex, count, appVars, LRU, cur, fatal>>

\* remonMalloc takes the page's mutex to move it to the head of the LRU list.
Relist(t) ==
    /\ At(t, "relist") /\ Free(page(t))
    /\ LRU' = LRU \cup {page(t)}
    /\ objects' = objects \cup {cur[t]}
    /\ Done(t)
    /\ UNCHANGED <<splVars, podVars, lockVars, ownerVars, lost, fatal>>

\* A page of the allocation buffer, which comes locked and local.  With no page
\* left (a bound of the model) remonMalloc fails.
getBufferedPod(t) ==
    /\ At(t, "newPage")
    /\ \/ \E p \in Page :
          /\ state[p] = "buffered"
          /\ state' = [state EXCEPT ![p] = "local"]
          /\ Lock(p, t)
          /\ With(t, p, 0)
          /\ Goto(t, "addPod")
       \/ /\ \A p \in Page : state[p] # "buffered"
          /\ Done(t)
          /\ UNCHANGED <<state, mutex>>
    /\ UNCHANGED <<splVars, heap, freeBuffer, splLock, ownerVars, appVars, LRU, fatal>>

addPodAndAllocate(t) ==
    LET p == page(t) IN
    /\ At(t, "addPod") /\ splLock = NoThread
    /\ heap' = [heap EXCEPT ![p] = Allocated({Whole}, Whole, needed)]
    /\ SetRank(p, Longest(heap'[p]))
    /\ rankMap' = rankMap \cup {<<rank'[p], p>>}
    /\ lastAllocatedPod' = p
    /\ LRU' = LRU \cup {p}
    /\ objects' = objects \cup {cur[t]}
    /\ Unlock(p)
    /\ Done(t)
    /\ UNCHANGED <<localFreeBuffer, state, freeBuffer, splLock, ownerVars, lost, fatal>>
-----------------------------------------------------------------------------
(***************************************************************************)
(* remonFree, a fault on an object, and the end of both.                   *)
(***************************************************************************)
remonFree(t) ==
    /\ At(t, "idle")
    /\ \E o \in objects :
        /\ Free(o[1])
        /\ Lock(o[1], t)
        /\ With(t, o[1], o[2])
        /\ objects' = objects \ {o}
    /\ Goto(t, "free")
    /\ UNCHANGED <<splVars, podVars, splLock, ownerVars, lost, LRU, fatal>>

\* SegregatedPageList::free.  A full buffer releases the page's mutex: a
\* resident page is flushed without it, an evicted one is activated without it.
free(t) ==
    LET p == page(t)
        full == Len(freeBuffer[p]) + 1 >= load.MAX_FREE_BUFF_SIZE
    IN
    /\ At(t, "free") /\ splLock = NoThread
    /\ freeBuffer' = [freeBuffer EXCEPT ![p] = Append(@, cur[t][2])]
    /\ Unlock(p)
    /\ localFreeBuffer' = IF state[p] = "swapped" \/ full THEN localFreeBuffer
                          ELSE localFreeBuffer \cup {p}
    /\ splLock' = IF full /\ state[p] # "swapped" THEN t ELSE NoThread
    /\ IF full
       THEN /\ Goto(t, IF state[p] = "swapped" THEN "activate" ELSE "flush")
            /\ UNCHANGED cur
       ELSE Done(t)
    /\ UNCHANGED <<rankMap, lastAllocatedPod, rank, state, heap, ownerVars,
                   appVars, LRU, fatal>>

FlushFull(t) ==
    /\ At(t, "flush")
    /\ flushOnePage(page(t))
    /\ splLock' = NoThread
    /\ Goto(t, "unlock")
    /\ UNCHANGED <<lastAllocatedPod, localFreeBuffer, state, mutex, ownerVars,
                   appVars, LRU, cur>>

\* A thread touches an object of a page that is not resident.
activateAddress(t) ==
    /\ At(t, "idle")
    /\ \E p \in {o[1] : o \in objects} :
        /\ state[p] # "local" /\ Free(p)
        /\ Lock(p, t)
        /\ With(t, p, 0)
    /\ Goto(t, "activate")
    /\ UNCHANGED <<splVars, podVars, splLock, ownerVars, appVars, LRU, fatal>>

\* Mutant: the frees noted while the page was away stay in the buffer.
activatePodNoFlush(t) ==
    LET p == page(t) IN
    /\ At(t, "activate")
    /\ state' = [state EXCEPT ![p] = IF @ = "swapped" THEN "localPinned" ELSE @]
    /\ Goto(t, IF state[p] = "swapped" THEN "unbench" ELSE "unlock")
    /\ UNCHANGED <<LRU, heap, freeBuffer, splVars, lockVars, ownerVars, appVars, cur,
                   fatal>>

activatePod(t) ==
    LET p == page(t) IN
    /\ At(t, "activate")
    /\ IF state[p] = "swapped"
       THEN /\ flushFreeBuffer(p)
            /\ state' = [state EXCEPT ![p] = "localPinned"]
            /\ Goto(t, "unbench")
            /\ UNCHANGED LRU
       ELSE /\ state' = [state EXCEPT ![p] = IF @ = "init" THEN "local" ELSE @]
            /\ LRU' = LRU \cup {p}
            /\ Goto(t, "unlock")
            /\ UNCHANGED <<heap, freeBuffer>>
    /\ UNCHANGED <<splVars, lockVars, ownerVars, appVars, cur, fatal>>

\* Mutant: the page is listed under the rank it had when it was evicted.
unbenchSwappedPageStale(t) ==
    LET p == page(t) IN
    /\ At(t, "unbench") /\ splLock = NoThread
    /\ rankMap' = rankMap \cup {<<rank[p], p>>}
    /\ state' = [state EXCEPT ![p] = "local"]
    /\ LRU' = LRU \cup {p}
    /\ Goto(t, "unlock")
    /\ UNCHANGED <<rank, lastAllocatedPod, localFreeBuffer, heap, freeBuffer, lockVars,
                   ownerVars, appVars, cur, fatal>>

\* The page is listed again and becomes local.
unbenchSwappedPage(t) ==
    LET p == page(t) IN
    /\ At(t, "unbench") /\ splLock = NoThread
    /\ SetRank(p, Longest(heap[p]))
    /\ rankMap' = rankMap \cup {<<rank'[p], p>>}
    /\ state' = [state EXCEPT ![p] = "local"]
    /\ LRU' = LRU \cup {p}
    /\ Goto(t, "unlock")
    /\ UNCHANGED <<lastAllocatedPod, localFreeBuffer, heap, freeBuffer, lockVars,
                   ownerVars, appVars, cur, fatal>>

UnlockPod(t) ==
    /\ At(t, "unlock")
    /\ Unlock(page(t))
    /\ Done(t)
    /\ UNCHANGED <<splVars, podVars, splLock, ownerVars, appVars, LRU, fatal>>
-----------------------------------------------------------------------------
(***************************************************************************)
(* pickPodToEvict, by a free loop, and trim, by the monitor.               *)
(***************************************************************************)
getFromLRUList(t) ==
    /\ At(t, "idle")
    /\ \E p \in LRU :
        /\ Free(p)
        /\ LRU' = LRU \ {p}
        /\ Lock(p, t)
        /\ With(t, p, 0)
        /\ Goto(t, IF state[p] = "local" THEN "bench" ELSE "unlock")
    /\ UNCHANGED <<splVars, podVars, splLock, ownerVars, appVars, fatal>>

\* Mutant: the page is flushed first, and looked up under the rank that gives.
benchSwappedPageFlushed(t) ==
    LET p == page(t)
        r == Longest(heap'[p])
    IN
    /\ At(t, "bench") /\ splLock = NoThread
    /\ flushFreeBuffer(p)
    /\ IF p = lastAllocatedPod
       THEN /\ Goto(t, "kept")
            /\ UNCHANGED <<rank, rankMap, fatal>>
       ELSE /\ SetRank(p, r)
            /\ rankMap' = rankMap \ {<<r, p>>}
            /\ fatal' = ~HasRank(r)
            /\ Goto(t, "benched")
    /\ UNCHANGED <<lastAllocatedPod, localFreeBuffer, state, lockVars, ownerVars, appVars,
                   LRU, cur>>

\* removePod: not the page last allocated from; a rank that is not in the map
\* is fatal.
benchSwappedPage(t) ==
    LET p == page(t)
        r == Longest(heap[p])
    IN
    /\ At(t, "bench") /\ splLock = NoThread
    /\ IF p = lastAllocatedPod
       THEN /\ Goto(t, "kept")
            /\ UNCHANGED <<rank, rankMap, fatal>>
       ELSE /\ SetRank(p, r)
            /\ rankMap' = rankMap \ {<<r, p>>}
            /\ fatal' = ~HasRank(r)
            /\ Goto(t, "benched")
    /\ UNCHANGED <<lastAllocatedPod, localFreeBuffer, podVars, lockVars,
                   ownerVars, appVars, LRU, cur>>

\* Mutant: the page is evicted whether it was benched or not.
pickPodToEvictAll(t) ==
    LET p == page(t) IN
    /\ At(t, "benched") \/ At(t, "kept")
    /\ flushFreeBuffer(p)
    /\ state' = [state EXCEPT ![p] = IF isEmpty(heap'[p]) THEN "init" ELSE "swapped"]
    /\ Unlock(p)
    /\ Done(t)
    /\ UNCHANGED <<LRU, splVars, splLock, ownerVars, appVars, fatal>>

\* The page is flushed; then an empty one is dropped, a benched one evicted and
\* the other one put back on the LRU list.
pickPodToEvict(t) ==
    LET p == page(t) IN
    /\ At(t, "benched") \/ At(t, "kept")
    /\ flushFreeBuffer(p)
    /\ state' = [state EXCEPT ![p] = IF isEmpty(heap'[p]) THEN "init"
                                     ELSE IF pc[t] = "benched" THEN "swapped" ELSE @]
    /\ LRU' = IF pc[t] = "kept" /\ ~isEmpty(heap'[p]) THEN LRU \cup {p} ELSE LRU
    /\ Unlock(p)
    /\ Done(t)
    /\ UNCHANGED <<splVars, splLock, ownerVars, appVars, fatal>>

\* Mutant: whatever is free, the page is dropped.
trimAnyPage(p) ==
    /\ ~fatal /\ splLock = NoThread /\ Free(p)
    /\ \E r \in 1 .. Slots : <<r, p>> \in rankMap
    /\ state[p] = "local"
    /\ heap' = [heap EXCEPT ![p] = {Whole}]
    /\ UNCHANGED <<splVars, state, freeBuffer, lockVars, ownerVars, appVars, LRU, pc,
                   cur, fatal>>

\* The memory of an empty page is dropped and its heap built anew.
trim(p) ==
    /\ ~fatal /\ splLock = NoThread /\ Free(p)
    /\ \E r \in 0 .. Slots : <<r, p>> \in rankMap
    /\ state[p] = "local" /\ isEmpty(heap[p])
    /\ heap' = [heap EXCEPT ![p] = {Whole}]
    /\ UNCHANGED <<splVars, state, freeBuffer, lockVars, ownerVars, appVars, LRU, pc,
                   cur, fatal>>

OwnerStep(t) ==
    \/ tryAllocateWithPreviousPod(t)
    \/ PreviousPodBusy(t)
    \/ Regain(t)
    \/ Search(t)
    \/ clearLocalFreeBuffer(t)
    \/ BufferCleared(t)
    \/ allocateOfAList(t)
    \/ ListExhausted(t)
    \/ Relist(t)
    \/ getBufferedPod(t)
    \/ addPodAndAllocate(t)

PageStep(t) ==
    \/ free(t)
    \/ FlushFull(t)
    \/ activatePod(t)
    \/ unbenchSwappedPage(t)
    \/ UnlockPod(t)
    \/ benchSwappedPage(t)
    \/ pickPodToEvict(t)

Step ==
    \/ allocate(Owner)
    \/ OwnerStep(Owner)
    \/ \E t \in ({Owner} \cup Other) \cap load.threads :
           remonFree(t) \/ activateAddress(t)
    \/ \E t \in Evictor \cap load.threads : getFromLRUList(t)
    \/ \E t \in load.threads : PageStep(t)
    \/ \E p \in Page : trim(p)

Next == Step /\ UNCHANGED load

Spec == Init /\ [][Next]_vars
-----------------------------------------------------------------------------
(***************************************************************************)
(* Properties.                                                             *)
(***************************************************************************)
\* Every variable has its type; a free buffer never holds more than the objects
\* of its page, so that no object is freed twice into it.
TypeOK ==
    /\ load \in Workload
    /\ rankMap \subseteq (0 .. Slots) \X Page
    /\ lastAllocatedPod \in Page \cup {NoPage}
    /\ localFreeBuffer \subseteq Page
    /\ rank \in [Page -> 0 .. Slots]
    /\ state \in [Page -> {"buffered", "init", "local", "localPinned", "swapped"}]
    /\ \A p \in Page : /\ heap[p] \subseteq Slot \X (1 .. Slots)
                       /\ freeBuffer[p] \in Seq(Slot)
                       /\ Len(freeBuffer[p]) <= Slots
    /\ splLock \in Thread \cup {NoThread}
    /\ mutex \in [Page -> Thread \cup {NoThread}]
    /\ LRU \subseteq Page /\ todo \subseteq Page
    /\ count \in 0 .. (Patience + 1)
    /\ objects \subseteq Object /\ lost \subseteq Object

\* An object on its way: returned by allocate, or handed to free.
InFlight == {cur[t] : t \in {u \in Thread : pc[u] \in {"relist", "free"}}}

Buffered(p) == {<<p, freeBuffer[p][i]>> : i \in DOMAIN freeBuffer[p]}

\* Every object of every page is in exactly one place: the page's heap, the
\* application, a free buffer, on its way, or dropped by an owner that waited
\* too long.  Nothing is handed out twice or freed twice, and no page with an
\* object in it is dropped as empty.
ObjectsAccounted ==
    \A p \in Page : \A s \in Slot :
        LET places == << \E b \in heap[p] : b[1] <= s /\ s < End(b),
                         <<p, s>> \in objects,
                         <<p, s>> \in Buffered(p),
                         <<p, s>> \in InFlight,
                         <<p, s>> \in lost >>
        IN  Cardinality({i \in DOMAIN places : places[i]}) = 1

\* The list and the pods agree whenever the list's lock is free: a page is
\* listed once, under its rank, and a resident page nobody has locked is listed
\* under the length of its longest free block.  allocate looks at the highest
\* rank only, and removePod and flushOnePage search by rank.
RanksExact ==
    splLock = NoThread =>
        \A p \in Page :
            /\ \A r \in 0 .. Slots : <<r, p>> \in rankMap => r = rank[p]
            /\ (Free(p) /\ p # lastAllocatedPod) =>
                  IF state[p] = "local"
                  THEN <<rank[p], p>> \in rankMap /\ rank[p] = Longest(heap[p])
                  ELSE <<rank[p], p>> \notin rankMap

\* The frees of a resident page are found by the next allocation that runs out
\* of space: no clearing, eviction or reactivation leaves a page behind.
FreesAreFound ==
    \A p \in Page :
        (Free(p) /\ state[p] = "local" /\ freeBuffer[p] # <<>>) => p \in localFreeBuffer

\* allocate reads the page last allocated from under the list's lock alone: a
\* fault there would wait for that same lock.
LastPageResident ==
    lastAllocatedPod # NoPage => state[lastAllocatedPod] \in {"local", "init"}

\* Whoever has the list's lock can go on without waiting for anyone.  All others
\* take it with a page's mutex held, so an owner that waited for a mutex with the
\* list locked would wait for ever.
HolderGoesOn ==
    (splLock # NoThread /\ ~fatal) =>
        ENABLED <<(OwnerStep(splLock) \/ PageStep(splLock)) /\ UNCHANGED load>>_vars

\* The rank searches that end the process when they fail never do.
NeverFatal == ~fatal
=============================================================================

---------------------- MODULE TopLevelAllocatorBundle ----------------------
(***************************************************************************)
(* The regions of pages.  The pods are cut into MaxArena regions of        *)
(* LocalPodCount pages, each with a TopLevelAllocator and a lock of its    *)
(* own.  A thread gets a region to itself as long as there are regions;    *)
(* from then on, and always once memory is short, it takes any region      *)
(* whose lock is free.  An allocation holds its region's lock; so do a     *)
(* free, by any thread, in the region the page belongs to, and trim.       *)
(*                                                                         *)
(* Inside a region an allocation takes any run of free pages; how the      *)
(* region chooses is the subject of TopLevelAllocator.                     *)
(***************************************************************************)
EXTENDS Integers, FiniteSets

CONSTANTS Thread,
          LocalPodCount,   \* pages of a region
          MaxArena,        \* regions the pods suffice for
          Workload,        \* which threads run, the numbers of pages they ask for,
                           \* and whether memory may run short
          Monitor, NoThread

ASSUME BundleAssumption ==
    /\ LocalPodCount \in Nat \ {0} /\ MaxArena \in Nat \ {0}
    /\ Workload \subseteq [threads : SUBSET Thread, sizes : SUBSET (1 .. LocalPodCount),
                            short : BOOLEAN]
    /\ Monitor \notin Thread /\ NoThread \notin Thread \cup {Monitor}

None == -1
Actor == Thread \cup {Monitor}
\* One region more than there is room for: the model follows no further ones.
Region == 0 .. MaxArena
RegionPages(r) == (r * LocalPodCount) .. ((r + 1) * LocalPodCount - 1)
podsSize == MaxArena * LocalPodCount
Pages(b) == b[1] .. (b[1] + b[2] - 1)

VARIABLES
    load,           \* the workload of this execution
    size,           \* of allocatedAllocators; lastAllocated is size regions
    allocatorMap,   \* the region of each thread
    muxLock, lockLoopOn,
    lock,           \* of each region
    avail,          \* the free pages of each region
    blocks,         \* <<first page, pages>> in use
    pc, cur,        \* of each actor, the region it deals with
    seen,           \* the number of regions a thread goes over
    want,           \* the size, or block, of its request
    crashed

vars == <<load, size, allocatorMap, muxLock, lockLoopOn, lock, avail, blocks, pc, cur, seen,
          want, crashed>>
memVars == <<avail, blocks, crashed>>

Init ==
    /\ load \in Workload
    /\ size = 0 /\ allocatorMap = [t \in Thread |-> None]
    /\ muxLock = NoThread /\ lockLoopOn = FALSE
    /\ lock = [r \in Region |-> NoThread]
    /\ avail = [r \in Region |-> {}] /\ blocks = {}
    /\ pc = [t \in Actor |-> "idle"] /\ cur = [t \in Actor |-> None]
    /\ seen = [t \in Thread |-> 0]
    /\ want = [t \in Thread |-> <<None, 0>>]
    /\ crashed = FALSE
-----------------------------------------------------------------------------
\* A process that has crashed, or has made a region outside the pods, is not
\* followed any further.
At(t, l) == pc[t] = l /\ ~crashed /\ size <= MaxArena
Goto(t, l) == pc' = [pc EXCEPT ![t] = l]
On(t, r) == cur' = [cur EXCEPT ![t] = r]
Take(t, r) == lock' = [lock EXCEPT ![r] = t]

\* allocateNPages asks for a region, one of its own unless memory is short.
getTopLevelAllocator(t) ==
    /\ At(t, "idle")
    /\ \E n \in load.sizes : want' = [want EXCEPT ![t] = <<None, n>>]
    /\ Goto(t, IF lockLoopOn THEN "loop" ELSE "mux")
    /\ UNCHANGED <<seen, size, allocatorMap, muxLock, lockLoopOn, lock, cur, memVars>>

\* Mutant: the last index is one too high.
addNewRegionCoreLong(t) ==
    /\ size \in Region
    /\ size' = size + 1
    /\ avail' = [avail EXCEPT ![size] =
                     (size * LocalPodCount) .. ((size + 1) * LocalPodCount)]
    /\ muxLock' = t
    /\ On(t, size)
    /\ Goto(t, "own")

\* The region is in the vector before its maker locks it, under muxLock.
addNewRegionCore(t) ==
    /\ size \in Region
    /\ size' = size + 1
    /\ avail' = [avail EXCEPT ![size] = RegionPages(size)]
    /\ muxLock' = t
    /\ On(t, size)
    /\ Goto(t, "own")

PerThreadKnown(t) ==
    /\ At(t, "mux") /\ muxLock = NoThread
    /\ allocatorMap[t] # None
    /\ muxLock' = t
    /\ On(t, allocatorMap[t])
    /\ Goto(t, "own")
    /\ UNCHANGED <<seen, size, allocatorMap, lockLoopOn, lock, want, memVars>>

PerThreadNew(t) ==
    /\ At(t, "mux") /\ muxLock = NoThread
    /\ allocatorMap[t] = None
    /\ size * LocalPodCount + LocalPodCount - 1 <= podsSize /\ size # MaxArena
    /\ addNewRegionCore(t)
    /\ allocatorMap' = [allocatorMap EXCEPT ![t] = size]
    /\ UNCHANGED <<seen, lockLoopOn, lock, want, blocks, crashed>>

PerThreadFull(t) ==
    /\ At(t, "mux") /\ muxLock = NoThread
    /\ allocatorMap[t] = None
    /\ size * LocalPodCount + LocalPodCount - 1 > podsSize \/ size = MaxArena
    /\ Goto(t, "loop")
    /\ UNCHANGED <<seen, size, allocatorMap, muxLock, lockLoopOn, lock, cur, want,
                   memVars>>

\* The region's lock is awaited with muxLock held.
LockOwnRegion(t) ==
    /\ At(t, "own") /\ lock[cur[t]] = NoThread
    /\ Take(t, cur[t])
    /\ muxLock' = NoThread
    /\ Goto(t, "allocate")
    /\ UNCHANGED <<seen, size, allocatorMap, lockLoopOn, cur, want, memVars>>

\* Mutant: the number of regions is not looked at.
loopGetUnbounded(t) ==
    /\ At(t, "loop")
    /\ Goto(t, "few")
    /\ UNCHANGED <<seen, size, allocatorMap, muxLock, lockLoopOn, lock, cur, want, memVars>>

\* The number of regions is read without muxLock.
loopGet(t) ==
    /\ At(t, "loop")
    /\ Goto(t, IF size = MaxArena THEN "spin" ELSE "few")
    /\ UNCHANGED <<seen, size, allocatorMap, muxLock, lockLoopOn, lock, cur, want, memVars>>

\* It is read again, for the loop over the regions.
loopGetFew(t) ==
    /\ At(t, "few")
    /\ Goto(t, IF size = 0 THEN "add" ELSE "scan")
    /\ On(t, 0)
    /\ seen' = [seen EXCEPT ![t] = size]
    /\ UNCHANGED <<size, allocatorMap, muxLock, lockLoopOn, lock, want, memVars>>

\* Mutant: the lock is not tried.
SpinNoLock(t) ==
    /\ At(t, "spin")
    /\ \E r \in 0 .. (size - 1) : On(t, r)
    /\ Goto(t, "allocate")
    /\ UNCHANGED <<seen, size, allocatorMap, muxLock, lockLoopOn, lock, want, memVars>>

\* With all regions made, round and round until a lock is free.
Spin(t) ==
    /\ At(t, "spin")
    /\ \E r \in 0 .. (size - 1) :
        /\ lock[r] = NoThread
        /\ Take(t, r)
        /\ On(t, r)
    /\ Goto(t, "allocate")
    /\ UNCHANGED <<seen, size, allocatorMap, muxLock, lockLoopOn, want, memVars>>

\* Otherwise each region once, and a new one when all are busy: the number of
\* regions is not looked at again.
Scan(t) ==
    /\ At(t, "scan")
    /\ IF lock[cur[t]] = NoThread
       THEN Take(t, cur[t]) /\ Goto(t, "allocate") /\ UNCHANGED cur
       ELSE /\ UNCHANGED lock
            /\ IF cur[t] + 1 < seen[t] THEN On(t, cur[t] + 1) /\ UNCHANGED pc
                                    ELSE Goto(t, "add") /\ UNCHANGED cur
    /\ UNCHANGED <<seen, size, allocatorMap, muxLock, lockLoopOn, want, memVars>>

addNewRegion(t) ==
    /\ At(t, "add") /\ muxLock = NoThread
    /\ addNewRegionCore(t)
    /\ UNCHANGED <<seen, allocatorMap, lockLoopOn, lock, want, blocks, crashed>>

\* Mutant: the end of the block stays free.
allocateNPagesHead(t) ==
    LET r == cur[t] IN
    /\ At(t, "allocate")
    /\ avail[r] # {}
    /\ \E i \in avail[r] :
        /\ avail' = [avail EXCEPT ![r] = @ \ {i}]
        /\ blocks' = blocks \cup {<<i, want[t][2]>>}
    /\ Take(NoThread, r)
    /\ want' = [want EXCEPT ![t] = <<None, 0>>]
    /\ On(t, None)
    /\ seen' = [seen EXCEPT ![t] = 0]
    /\ Goto(t, "idle")
    /\ UNCHANGED <<size, allocatorMap, muxLock, lockLoopOn, crashed>>

\* With the region's lock; a region without room crashes the process.
allocateNPages(t) ==
    LET r == cur[t]
        n == want[t][2]
        runs == {i \in avail[r] : i .. (i + n - 1) \subseteq avail[r]}
    IN
    /\ At(t, "allocate")
    /\ IF runs = {}
       THEN crashed' = TRUE /\ UNCHANGED <<avail, blocks>>
       ELSE \E i \in runs :
            /\ avail' = [avail EXCEPT ![r] = @ \ Pages(<<i, n>>)]
            /\ blocks' = blocks \cup {<<i, n>>}
            /\ UNCHANGED crashed
    /\ Take(NoThread, r)
    /\ want' = [want EXCEPT ![t] = <<None, 0>>]
    /\ On(t, None)
    /\ seen' = [seen EXCEPT ![t] = 0]
    /\ Goto(t, "idle")
    /\ UNCHANGED <<size, allocatorMap, muxLock, lockLoopOn>>

\* The region follows from the page; its lock is taken without muxLock.
crossOwnershipHugeFree(t) ==
    /\ At(t, "idle")
    /\ \E b \in blocks :
        LET r == b[1] \div LocalPodCount IN
        /\ lock[r] = NoThread
        /\ Take(t, r)
        /\ On(t, r)
        /\ want' = [want EXCEPT ![t] = b]
        /\ blocks' = blocks \ {b}
    /\ Goto(t, "hugeFree")
    /\ UNCHANGED <<seen, size, allocatorMap, muxLock, lockLoopOn, avail, crashed>>

\* Mutant: the region stays locked.
hugeFreeKeepsLock(t) ==
    /\ At(t, "hugeFree")
    /\ avail' = [avail EXCEPT ![cur[t]] = @ \cup Pages(want[t])]
    /\ want' = [want EXCEPT ![t] = <<None, 0>>]
    /\ On(t, None)
    /\ Goto(t, "idle")
    /\ UNCHANGED <<seen, size, allocatorMap, muxLock, lockLoopOn, lock, blocks, crashed>>

\* The pages have been locked and marked, one by one.
hugeFree(t) ==
    /\ At(t, "hugeFree")
    /\ avail' = [avail EXCEPT ![cur[t]] = @ \cup Pages(want[t])]
    /\ Take(NoThread, cur[t])
    /\ want' = [want EXCEPT ![t] = <<None, 0>>]
    /\ On(t, None)
    /\ Goto(t, "idle")
    /\ UNCHANGED <<seen, size, allocatorMap, muxLock, lockLoopOn, blocks, crashed>>
-----------------------------------------------------------------------------
(***************************************************************************)
(* The monitor, once: the loop over the regions counts down from zero and  *)
(* trims the first region only.                                            *)
(***************************************************************************)
LockLoopOn ==
    /\ At(Monitor, "idle") /\ load.short
    /\ lockLoopOn' = TRUE
    /\ Goto(Monitor, IF size = 0 THEN "done" ELSE "trim")
    /\ UNCHANGED <<seen, size, allocatorMap, muxLock, lock, cur, want, memVars>>

trim ==
    /\ At(Monitor, "trim") /\ lock[0] = NoThread
    /\ Take(Monitor, 0)
    /\ On(Monitor, 0)
    /\ Goto(Monitor, "trimming")
    /\ UNCHANGED <<seen, size, allocatorMap, muxLock, lockLoopOn, want, memVars>>

TrimDone ==
    /\ At(Monitor, "trimming")
    /\ Take(NoThread, 0)
    /\ On(Monitor, None)
    /\ Goto(Monitor, "done")
    /\ UNCHANGED <<seen, size, allocatorMap, muxLock, lockLoopOn, want, memVars>>

Step(t) ==
    \/ PerThreadKnown(t)
    \/ PerThreadNew(t)
    \/ PerThreadFull(t)
    \/ LockOwnRegion(t)
    \/ loopGet(t)
    \/ loopGetFew(t)
    \/ Spin(t)
    \/ Scan(t)
    \/ addNewRegion(t)
    \/ allocateNPages(t)
    \/ hugeFree(t)

Next ==
    /\ \/ \E t \in load.threads :
              getTopLevelAllocator(t) \/ crossOwnershipHugeFree(t) \/ Step(t)
       \/ LockLoopOn
       \/ trim
       \/ TrimDone
    /\ UNCHANGED load

Spec == Init /\ [][Next]_vars

\* Threads go on, and a thread that waits for a lock, or goes round looking for
\* a free one, is not passed over for ever.  Nothing is assumed of hugeFree.
FairSpec ==
    /\ Spec
    /\ \A t \in Thread : SF_vars(Step(t) /\ pc[t] # "hugeFree" /\ UNCHANGED load)
    /\ SF_vars((trim \/ TrimDone) /\ UNCHANGED load)
-----------------------------------------------------------------------------
(***************************************************************************)
(* Properties.                                                             *)
(***************************************************************************)
\* Every variable has its type; the free pages of a region are pages of it.
TypeOK ==
    /\ load \in Workload
    /\ size \in 0 .. (MaxArena + 1)
    /\ allocatorMap \in [Thread -> Region \cup {None}]
    /\ muxLock \in Thread \cup {NoThread}
    /\ lockLoopOn \in BOOLEAN /\ crashed \in BOOLEAN
    /\ lock \in [Region -> Actor \cup {NoThread}]
    /\ \A r \in Region : avail[r] \subseteq RegionPages(r)
    /\ blocks \subseteq (0 .. podsSize + LocalPodCount) \X load.sizes
    /\ cur \in [Actor -> Region \cup {None}]
    /\ seen \in [Thread -> 0 .. (MaxArena + 1)]

\* The regions made lie within the pods, however the threads came by them, as long
\* as memory is not short; then loopGet acts on a number of regions it read without
\* muxLock, and two threads can both add the last one.
RegionsWithinPods == size > MaxArena => lockLoopOn

\* Every page of every region is free in that region, part of exactly one block
\* in use, or being freed: no page is handed out twice or lost to another region,
\* whichever thread frees it.
PagesAccounted ==
    \A r \in 0 .. (size - 1) : \A i \in RegionPages(r) :
        LET using == {b \in blocks : i \in Pages(b)}
            freeing == {t \in Thread : pc[t] = "hugeFree" /\ i \in Pages(want[t])}
            free == IF i \in avail[r] THEN 1 ELSE 0
        IN  Cardinality(using) + Cardinality(freeing) + free = 1

\* Whoever works in a region has its lock, though regions are shared, handed
\* over with muxLock held, or found by trying.
RegionExclusive ==
    \A t \in Actor :
        pc[t] \in {"allocate", "hugeFree", "trimming"} => lock[cur[t]] = t

\* hugeFree locks each page it frees, with the region's lock in hand.  The pages'
\* mutexes are not part of this model: a free gets them, or it does not end.
PagesUnlocked == \A t \in Thread : []<>(pc[t] # "hugeFree" \/ crashed \/ size > MaxArena)

\* If every free gets the mutexes of its pages, every allocation gets a region and
\* ends, unless the process crashes or has made a region too many: a thread that
\* waits for a region's lock with muxLock in hand holds nobody up for good.
RequestsEnd ==
    PagesUnlocked =>
        \A t \in Thread : pc[t] # "idle" ~> (pc[t] = "idle" \/ crashed \/ size > MaxArena)
=============================================================================

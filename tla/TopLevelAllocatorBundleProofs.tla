------------------- MODULE TopLevelAllocatorBundleProofs -------------------
(***************************************************************************)
(* Proofs about the regions, for every number of threads, regions and      *)
(* pages of a region and every workload: the types, that regions are       *)
(* worked in under their lock, that they lie within the pods while memory  *)
(* is not short, and that no page is lost or handed out twice.             *)
(***************************************************************************)
EXTENDS TopLevelAllocatorBundle, FiniteSetTheorems, TLAPS

(***************************************************************************)
(* The pages of the regions.                                               *)
(***************************************************************************)

\* A product does not shrink when a factor grows.
LEMMA ProductMonotone ==
    ASSUME NEW a \in Int, NEW b \in Int, NEW n \in Nat, a <= b
    PROVE  a * n <= b * n
<1>1. (b - a) * n >= 0
  BY SMT
<1>2. b * n = a * n + (b - a) * n
  BY SMT
<1>. QED
  BY <1>1, <1>2

\* No page belongs to two regions.
LEMMA RegionsDisjoint ==
    ASSUME NEW r \in Nat, NEW s \in Nat, r # s
    PROVE  RegionPages(r) \cap RegionPages(s) = {}
<1>1. CASE r < s
  <2>1. (r + 1) * LocalPodCount <= s * LocalPodCount
    BY <1>1, ProductMonotone, BundleAssumption
  <2>. QED
    BY <2>1, BundleAssumption DEF RegionPages
<1>2. CASE s < r
  <2>1. (s + 1) * LocalPodCount <= r * LocalPodCount
    BY <1>2, ProductMonotone, BundleAssumption
  <2>. QED
    BY <2>1, BundleAssumption DEF RegionPages
<1>. QED
  BY <1>1, <1>2

\* crossOwnershipHugeFree finds the region a page belongs to by dividing.
LEMMA RegionOfPage ==
    ASSUME NEW r \in Nat, NEW i \in RegionPages(r)
    PROVE  i \div LocalPodCount = r
<1> DEFINE q == i \div LocalPodCount
<1>1. i \in Nat /\ r * LocalPodCount <= i /\ i < (r + 1) * LocalPodCount
  BY BundleAssumption DEF RegionPages
<1>2. q \in Nat /\ q * LocalPodCount <= i /\ i < (q + 1) * LocalPodCount
  BY <1>1, BundleAssumption, SMT
<1> HIDE DEF q
<1>3. i \in RegionPages(q)
  BY <1>1, <1>2, BundleAssumption DEF RegionPages
<1>. QED
  BY <1>2, <1>3, RegionsDisjoint DEF q

\* When the next region would not fit the pods, the last one has been made.
LEMMA FullMeansLast ==
    ASSUME NEW n \in Nat, n * LocalPodCount + LocalPodCount - 1 > podsSize
    PROVE  n >= MaxArena
<1>1. SUFFICES ASSUME n + 1 <= MaxArena
               PROVE  FALSE
  BY BundleAssumption
<1>2. (n + 1) * LocalPodCount <= MaxArena * LocalPodCount
  BY <1>1, ProductMonotone, BundleAssumption
<1>3. (n + 1) * LocalPodCount = n * LocalPodCount + LocalPodCount
  BY BundleAssumption, SMT
<1>. QED
  BY <1>2, <1>3, BundleAssumption DEF podsSize

(***************************************************************************)
(* The inductive invariant.                                                *)
(***************************************************************************)
ThreadLabel == {"idle", "mux", "own", "loop", "few", "spin", "scan", "add", "allocate", "hugeFree"}
MonitorLabel == {"idle", "trim", "trimming", "done"}

VarsOK ==
    /\ load \in Workload
    /\ size \in 0 .. (MaxArena + 1)
    /\ allocatorMap \in [Thread -> Region \cup {None}]
    /\ muxLock \in Thread \cup {NoThread}
    /\ lockLoopOn \in BOOLEAN /\ crashed \in BOOLEAN
    /\ lock \in [Region -> Actor \cup {NoThread}]
    /\ avail \in [Region -> SUBSET Int]
    /\ blocks \subseteq Int \X Int
    /\ pc \in [Actor -> ThreadLabel \cup MonitorLabel]
    /\ cur \in [Actor -> Region \cup {None}]
    /\ seen \in [Thread -> 0 .. (MaxArena + 1)]
    /\ want \in [Thread -> Int \X Int]

\* Where a thread is tells which regions it has and what it asks for: one that
\* has been made, and locked by it if it works in it.
ControlOK ==
    /\ \A t \in Thread :
        /\ pc[t] \in ThreadLabel
        /\ pc[t] \in {"own", "scan", "allocate", "hugeFree"} => cur[t] \in 0 .. (size - 1)
        /\ pc[t] = "scan" => cur[t] < seen[t] /\ seen[t] <= size
        /\ pc[t] \notin {"idle", "hugeFree"} => want[t][2] \in load.sizes
        /\ allocatorMap[t] # None => allocatorMap[t] < size
    /\ pc[Monitor] \in MonitorLabel
    /\ pc[Monitor] = "trimming" => cur[Monitor] = 0
    /\ RegionExclusive

\* Until memory is short, a thread comes to loopGet only when all regions are
\* made, and never goes over them to add another.
LoopOK ==
    /\ RegionsWithinPods
    /\ ~lockLoopOn => \A t \in Thread : /\ pc[t] \notin {"few", "scan", "add"}
                                        /\ pc[t] = "loop" => size >= MaxArena

InRegion(b, r) == b[1] \in RegionPages(r) /\ Pages(b) \subseteq RegionPages(r)

freeing == {t \in Thread : pc[t] = "hugeFree"}

\* Free pages, blocks in use and blocks being freed lie in one region each.
PlacesOK ==
    /\ \A r \in Region : avail[r] \subseteq RegionPages(r)
    /\ \A b \in blocks : b[2] \in load.sizes /\ \E r \in 0 .. (size - 1) : InRegion(b, r)
    /\ \A t \in freeing : InRegion(want[t], cur[t])

\* They do not overlap.
Disjoint ==
    /\ \A b, c \in blocks : b # c => Pages(b) \cap Pages(c) = {}
    /\ \A b \in blocks : \A r \in Region : Pages(b) \cap avail[r] = {}
    /\ \A t \in freeing : \A b \in blocks : Pages(want[t]) \cap Pages(b) = {}
    /\ \A t \in freeing : \A r \in Region : Pages(want[t]) \cap avail[r] = {}
    /\ \A t, u \in freeing : t # u => Pages(want[t]) \cap Pages(want[u]) = {}

\* And they cover the regions that have been made.
Covered ==
    \A r \in 0 .. (size - 1) : \A i \in RegionPages(r) :
        \/ i \in avail[r]
        \/ \E b \in blocks : i \in Pages(b)
        \/ \E t \in freeing : i \in Pages(want[t])

BundleInv == VarsOK /\ ControlOK /\ LoopOK /\ PlacesOK /\ Disjoint /\ Covered

\* What the assumptions say of the workloads.
LEMMA WorkloadFacts ==
    ASSUME load \in Workload
    PROVE  load.threads \subseteq Thread /\ load.sizes \subseteq 1 .. LocalPodCount
  BY BundleAssumption

\* What the assumptions say of the constants.
LEMMA ActorFacts ==
    /\ MaxArena \in Nat \ {0} /\ LocalPodCount \in Nat \ {0}
    /\ Region = 0 .. MaxArena /\ None = -1
    /\ Actor = Thread \cup {Monitor} /\ Monitor \notin Thread
    /\ NoThread \notin Actor
  BY BundleAssumption DEF Region, None, Actor

\* BundleInv holds at the start.
LEMMA InitInv == Init => BundleInv
<1> SUFFICES ASSUME Init
             PROVE  BundleInv
  OBVIOUS
<1> USE ActorFacts
<1>1. VarsOK
  <2>1. want \in [Thread -> Int \X Int] /\ avail \in [Region -> SUBSET Int]
    BY DEF Init
  <2>2. /\ allocatorMap \in [Thread -> Region \cup {None}]
        /\ lock \in [Region -> Actor \cup {NoThread}]
        /\ cur \in [Actor -> Region \cup {None}]
        /\ seen \in [Thread -> 0 .. (MaxArena + 1)]
    BY DEF Init
  <2>3. pc \in [Actor -> ThreadLabel \cup MonitorLabel]
    <3>1. \A t \in Actor : pc[t] \in ThreadLabel
      BY DEF Init, ThreadLabel
    <3>. QED
      BY <3>1 DEF Init
  <2>4. lockLoopOn \in BOOLEAN /\ crashed \in BOOLEAN
    BY Zenon DEF Init
  <2>5. load \in Workload /\ size \in 0 .. (MaxArena + 1) /\ muxLock = NoThread /\ blocks = {}
    BY DEF Init
  <2>. QED
    BY <2>1, <2>2, <2>3, <2>4, <2>5 DEF VarsOK
<1>2. ControlOK
  BY DEF Init, ControlOK, ThreadLabel, MonitorLabel, RegionExclusive
<1>3. LoopOK
  BY DEF Init, LoopOK, RegionsWithinPods
<1>4. freeing = {}
  BY DEF Init, freeing
<1>5. PlacesOK /\ Disjoint /\ Covered
  BY <1>4 DEF Init, PlacesOK, Disjoint, Covered
<1>. QED
  BY <1>1, <1>2, <1>3, <1>5 DEF BundleInv

\* What an allocation does to its region: nothing, or it takes a run of pages.
LEMMA AllocateEffect ==
    ASSUME NEW t \in Thread, allocateNPages(t)
    PROVE  \/ crashed' = TRUE /\ UNCHANGED <<avail, blocks>>
           \/ \E i \in avail[cur[t]] :
                /\ Pages(<<i, want[t][2]>>) \subseteq avail[cur[t]]
                /\ avail' = [avail EXCEPT ![cur[t]] = @ \ Pages(<<i, want[t][2]>>)]
                /\ blocks' = blocks \cup {<<i, want[t][2]>>}
                /\ UNCHANGED crashed
<1>1. \A i, n : Pages(<<i, n>>) = i .. (i + n - 1)
  BY DEF Pages
<1>. QED
  BY <1>1 DEF allocateNPages

\* Every step keeps the types.
LEMMA VarsStep ==
    ASSUME VarsOK, ControlOK, PlacesOK, Next
    PROVE  VarsOK'
<1> USE ActorFacts DEF VarsOK
<1> USE DEF At, Goto, On, Take, memVars, ThreadLabel, MonitorLabel
<1>0. UNCHANGED load
  BY DEF Next
<1>1. ASSUME NEW t \in Thread, getTopLevelAllocator(t), load.sizes \subseteq Nat
      PROVE  VarsOK'
  BY <1>0, <1>1, SMTT(30) DEF getTopLevelAllocator
<1>2. ASSUME NEW t \in Thread, crossOwnershipHugeFree(t)
      PROVE  VarsOK'
  <2>1. PICK b \in blocks :
          LET r == b[1] \div LocalPodCount IN
          /\ lock' = [lock EXCEPT ![r] = t]
          /\ cur' = [cur EXCEPT ![t] = r]
          /\ want' = [want EXCEPT ![t] = b]
          /\ blocks' = blocks \ {b}
    BY <1>2 DEF crossOwnershipHugeFree
  <2>2. PICK r \in 0 .. (size - 1) : InRegion(b, r)
    BY DEF PlacesOK
  <2>3. b[1] \div LocalPodCount = r /\ r \in Region
    BY <1>2, <2>2, RegionOfPage DEF InRegion, crossOwnershipHugeFree
  <2>. QED
    BY <1>0, <1>2, <2>1, <2>3 DEF crossOwnershipHugeFree
<1>3. ASSUME NEW t \in Thread, PerThreadKnown(t)
      PROVE  VarsOK'
  BY <1>0, <1>3 DEF PerThreadKnown
<1>4. ASSUME NEW t \in Thread, PerThreadNew(t)
      PROVE  VarsOK'
  <2>1. RegionPages(size) \in SUBSET Int
    BY DEF RegionPages
  <2>2. /\ size \in Region /\ size # MaxArena /\ size' = size + 1
        /\ avail' = [avail EXCEPT ![size] = RegionPages(size)]
        /\ muxLock' = t /\ cur' = [cur EXCEPT ![t] = size] /\ pc' = [pc EXCEPT ![t] = "own"]
        /\ allocatorMap' = [allocatorMap EXCEPT ![t] = size]
        /\ UNCHANGED <<seen, lockLoopOn, lock, want, blocks, crashed>>
    BY <1>4 DEF PerThreadNew, addNewRegionCore
  <2>. QED
    BY <1>0, <2>1, <2>2
<1>5. ASSUME NEW t \in Thread, PerThreadFull(t)
      PROVE  VarsOK'
  BY <1>0, <1>5 DEF PerThreadFull
<1>6. ASSUME NEW t \in Thread, LockOwnRegion(t)
      PROVE  VarsOK'
  <2>1. cur[t] \in Region
    BY <1>6 DEF LockOwnRegion, ControlOK
  <2>. QED
    BY <1>0, <1>6, <2>1 DEF LockOwnRegion
<1>7. ASSUME NEW t \in Thread, loopGet(t) \/ loopGetFew(t)
      PROVE  VarsOK'
  <2>1. CASE loopGet(t)
    BY <1>0, <2>1 DEF loopGet
  <2>2. CASE loopGetFew(t)
    BY <1>0, <2>2 DEF loopGetFew
  <2>. QED
    BY <1>7, <2>1, <2>2
<1>8. ASSUME NEW t \in Thread, Spin(t)
      PROVE  VarsOK'
  BY <1>0, <1>8 DEF Spin
<1>9. ASSUME NEW t \in Thread, Scan(t)
      PROVE  VarsOK'
  <2>0. UNCHANGED <<seen, size, allocatorMap, muxLock, lockLoopOn, want, memVars>>
    BY <1>9 DEF Scan
  <2>1. cur[t] \in 0 .. (size - 1) /\ seen[t] <= size /\ size <= MaxArena
    BY <1>9 DEF Scan, ControlOK
  <2>2. CASE lock[cur[t]] = NoThread
    <3>1. UNCHANGED cur /\ lock' = [lock EXCEPT ![cur[t]] = t] /\ pc' = [pc EXCEPT ![t] = "allocate"]
      BY <1>9, <2>2 DEF Scan
    <3>. QED
      BY <1>0, <2>0, <2>1, <3>1
  <2>3. CASE lock[cur[t]] # NoThread /\ cur[t] + 1 < seen[t]
    <3>1. UNCHANGED <<lock, pc>> /\ cur' = [cur EXCEPT ![t] = cur[t] + 1]
      BY <1>9, <2>3 DEF Scan
    <3>2. cur' \in [Actor -> Region \cup {None}]
      BY <2>1, <2>3, <3>1
    <3>. QED
      BY <1>0, <2>0, <3>1, <3>2
  <2>4. CASE lock[cur[t]] # NoThread /\ ~(cur[t] + 1 < seen[t])
    <3>1. UNCHANGED <<lock, cur>> /\ pc' = [pc EXCEPT ![t] = "add"]
      BY <1>9, <2>4 DEF Scan
    <3>2. pc' \in [Actor -> ThreadLabel \cup MonitorLabel]
      BY <3>1
    <3>. QED
      BY <1>0, <2>0, <3>1, <3>2
  <2>. QED
    BY <2>2, <2>3, <2>4
<1>10. ASSUME NEW t \in Thread, addNewRegion(t)
       PROVE  VarsOK'
  <2>1. RegionPages(size) \in SUBSET Int
    BY DEF RegionPages
  <2>. QED
    BY <1>0, <1>10, <2>1 DEF addNewRegion, addNewRegionCore
<1>11. ASSUME NEW t \in Thread, allocateNPages(t)
       PROVE  VarsOK'
  <2>1. cur[t] \in Region /\ want[t][2] \in Int
    BY <1>11 DEF allocateNPages, ControlOK
  <2>2. avail' \in [Region -> SUBSET Int] /\ blocks' \subseteq Int \X Int /\ crashed' \in BOOLEAN
    <3>1. CASE crashed' = TRUE /\ UNCHANGED <<avail, blocks>>
      BY <3>1
    <3>2. CASE ~(crashed' = TRUE /\ UNCHANGED <<avail, blocks>>)
      <4>1. PICK i \in avail[cur[t]] :
              /\ avail' = [avail EXCEPT ![cur[t]] = @ \ Pages(<<i, want[t][2]>>)]
              /\ blocks' = blocks \cup {<<i, want[t][2]>>}
              /\ UNCHANGED crashed
        BY <1>11, <3>2, AllocateEffect
      <4>2. i \in Int
        BY <2>1
      <4>. QED
        BY <2>1, <4>1, <4>2
    <3>. QED
      BY <3>1, <3>2
  <2>. QED
    BY <1>0, <1>11, <2>1, <2>2, SMTT(30) DEF allocateNPages
<1>12. ASSUME NEW t \in Thread, hugeFree(t)
       PROVE  VarsOK'
  <2>1. cur[t] \in Region /\ Pages(want[t]) \subseteq Int
    BY <1>12, SMTT(30) DEF hugeFree, ControlOK, Pages
  <2>. QED
    BY <1>0, <1>12, <2>1, SMTT(30) DEF hugeFree
<1>13. CASE LockLoopOn
  BY <1>0, <1>13 DEF LockLoopOn
<1>14. CASE trim
  BY <1>0, <1>14 DEF trim
<1>15. CASE TrimDone
  BY <1>0, <1>15 DEF TrimDone
<1>16. load.threads \subseteq Thread /\ load.sizes \subseteq Nat
  BY WorkloadFacts
<1>. QED
  BY <1>1, <1>2, <1>3, <1>4, <1>5, <1>6, <1>7, <1>8, <1>9, <1>10, <1>11, <1>12, <1>13,
     <1>14, <1>15, <1>16 DEF Next, Step

\* Every step leaves the threads with regions that exist, under their locks.
LEMMA ControlStep ==
    ASSUME VarsOK, ControlOK, PlacesOK, Next
    PROVE  ControlOK'
<1> USE ActorFacts
<1> USE DEF At, Goto, On, Take, memVars, ThreadLabel, MonitorLabel, ControlOK, RegionExclusive
<1>0. UNCHANGED load
  BY DEF Next
<1>1. ASSUME NEW t \in Thread, getTopLevelAllocator(t)
      PROVE  ControlOK'
  <2>1. PICK n \in load.sizes : want' = [want EXCEPT ![t] = <<None, n>>]
    BY <1>1 DEF getTopLevelAllocator
  <2>2. /\ \A u \in Thread : u # t => pc'[u] = pc[u] /\ want'[u] = want[u]
        /\ pc[t] = "idle" /\ pc'[t] \in {"loop", "mux"} /\ want'[t][2] = n
        /\ \A u \in Actor \ {t} : pc'[u] = pc[u]
        /\ UNCHANGED <<load, seen, size, allocatorMap, lock, cur>>
    BY <1>0, <1>1, <2>1 DEF getTopLevelAllocator, VarsOK
  <2>. QED
    BY <2>2 DEF VarsOK
<1>2. ASSUME NEW t \in Thread, crossOwnershipHugeFree(t)
      PROVE  ControlOK'
  <2>1. PICK b \in blocks :
          LET r == b[1] \div LocalPodCount IN
          /\ lock[r] = NoThread
          /\ lock' = [lock EXCEPT ![r] = t]
          /\ cur' = [cur EXCEPT ![t] = r]
          /\ want' = [want EXCEPT ![t] = b]
    BY <1>2 DEF crossOwnershipHugeFree
  <2>2. PICK r \in 0 .. (size - 1) : InRegion(b, r)
    BY DEF PlacesOK
  <2>3. b[1] \div LocalPodCount = r /\ r \in Region
    BY <1>2, <2>2, RegionOfPage DEF InRegion, crossOwnershipHugeFree, VarsOK
  <2>4. /\ \A u \in Actor \ {t} : pc'[u] = pc[u] /\ cur'[u] = cur[u]
        /\ \A u \in Thread \ {t} : want'[u] = want[u]
        /\ pc'[t] = "hugeFree" /\ cur'[t] = r /\ lock[r] = NoThread /\ lock'[r] = t
        /\ \A q \in Region \ {r} : lock'[q] = lock[q]
        /\ UNCHANGED <<load, seen, size, allocatorMap>>
    BY <1>0, <1>2, <2>1, <2>3 DEF crossOwnershipHugeFree, VarsOK
  <2>5. RegionExclusive'
    <3> SUFFICES ASSUME NEW u \in Actor, pc'[u] \in {"allocate", "hugeFree", "trimming"}
                 PROVE  lock'[cur'[u]] = u
      OBVIOUS
    <3>1. CASE u = t
      BY <2>4, <3>1
    <3>2. CASE u # t
      <4>0. pc[u] \in {"allocate", "hugeFree", "trimming"} /\ cur'[u] = cur[u]
        BY <2>4, <3>2
      <4>1. lock[cur[u]] = u
        BY <4>0
      <4>2. cur[u] \in Region
        <5>1. CASE u \in Thread
          <6>1. cur[u] \in 0 .. (size - 1)
            BY <4>0, <5>1
          <6>. QED
            BY <6>1 DEF VarsOK
        <5>2. CASE u = Monitor
          BY <4>0, <5>2 DEF VarsOK
        <5>. QED
          BY <5>1, <5>2
      <4>. QED
        BY <2>4, <4>0, <4>1, <4>2
    <3>. QED
      BY <3>1, <3>2
  <2>6. /\ \A u \in Thread :
             /\ pc'[u] \in ThreadLabel
             /\ pc'[u] \in {"own", "scan", "allocate", "hugeFree"} => cur'[u] \in 0 .. (size' - 1)
             /\ pc'[u] = "scan" => cur'[u] < seen'[u] /\ seen'[u] <= size'
             /\ pc'[u] \notin {"idle", "hugeFree"} => want'[u][2] \in load'.sizes
             /\ allocatorMap'[u] # None => allocatorMap'[u] < size'
        /\ pc'[Monitor] \in MonitorLabel
        /\ pc'[Monitor] = "trimming" => cur'[Monitor] = 0
    BY <2>4
  <2>. QED
    BY <2>5, <2>6
<1>3. ASSUME NEW t \in Thread, PerThreadKnown(t)
      PROVE  ControlOK'
  <2>1. allocatorMap[t] \in 0 .. (size - 1)
    BY <1>3 DEF PerThreadKnown, VarsOK
  <2>. QED
    BY <1>0, <1>3, <2>1 DEF PerThreadKnown, VarsOK
<1>4. ASSUME NEW t \in Thread, PerThreadNew(t)
      PROVE  ControlOK'
  BY <1>0, <1>4, SMTT(30) DEF PerThreadNew, addNewRegionCore, VarsOK
<1>5. ASSUME NEW t \in Thread, PerThreadFull(t)
      PROVE  ControlOK'
  BY <1>0, <1>5 DEF PerThreadFull, VarsOK
<1>6. ASSUME NEW t \in Thread, LockOwnRegion(t)
      PROVE  ControlOK'
  BY <1>0, <1>6 DEF LockOwnRegion, VarsOK
<1>7. ASSUME NEW t \in Thread, loopGet(t) \/ loopGetFew(t)
      PROVE  ControlOK'
  <2>1. CASE loopGet(t)
    BY <1>0, <2>1 DEF loopGet, VarsOK
  <2>2. CASE loopGetFew(t)
    BY <1>0, <2>2 DEF loopGetFew, VarsOK
  <2>. QED
    BY <1>7, <2>1, <2>2
<1>8. ASSUME NEW t \in Thread, Spin(t)
      PROVE  ControlOK'
  BY <1>0, <1>8 DEF Spin, VarsOK
<1>9. ASSUME NEW t \in Thread, Scan(t)
      PROVE  ControlOK'
  <2>0. UNCHANGED <<seen, size, allocatorMap, want>>
    BY <1>9 DEF Scan
  <2>1. cur[t] \in 0 .. (size - 1) /\ pc[t] = "scan" /\ size <= MaxArena
    BY <1>9 DEF Scan
  <2>2. CASE lock[cur[t]] = NoThread
    <3>1. UNCHANGED cur /\ lock' = [lock EXCEPT ![cur[t]] = t] /\ pc' = [pc EXCEPT ![t] = "allocate"]
      BY <1>9, <2>2 DEF Scan
    <3>. QED
      BY <1>0, <2>0, <2>1, <2>2, <3>1 DEF VarsOK
  <2>3. CASE lock[cur[t]] # NoThread /\ cur[t] + 1 < seen[t]
    <3>1. UNCHANGED <<lock, pc>> /\ cur' = [cur EXCEPT ![t] = cur[t] + 1]
      BY <1>9, <2>3 DEF Scan
    <3>2. cur[t] + 1 \in 0 .. (size - 1) /\ cur[t] + 1 < seen[t] /\ seen[t] <= size
      BY <2>1, <2>3 DEF VarsOK
    <3>3. \A u \in Actor : u # t => cur'[u] = cur[u]
      BY <3>1 DEF VarsOK
    <3>4. cur'[t] = cur[t] + 1
      BY <3>1 DEF VarsOK
    <3>. QED
      BY <1>0, <2>0, <2>1, <3>1, <3>2, <3>3, <3>4
  <2>4. CASE lock[cur[t]] # NoThread /\ ~(cur[t] + 1 < seen[t])
    <3>1. UNCHANGED <<lock, cur>> /\ pc' = [pc EXCEPT ![t] = "add"]
      BY <1>9, <2>4 DEF Scan
    <3>. QED
      BY <1>0, <2>0, <2>1, <3>1 DEF VarsOK
  <2>. QED
    BY <2>2, <2>3, <2>4
<1>10. ASSUME NEW t \in Thread, addNewRegion(t)
       PROVE  ControlOK'
  BY <1>0, <1>10 DEF addNewRegion, addNewRegionCore, VarsOK
<1>11. ASSUME NEW t \in Thread, allocateNPages(t)
       PROVE  ControlOK'
  <2>1. /\ pc[t] = "allocate" /\ UNCHANGED <<size, allocatorMap>>
        /\ lock' = [lock EXCEPT ![cur[t]] = NoThread]
        /\ want' = [want EXCEPT ![t] = <<None, 0>>]
        /\ cur' = [cur EXCEPT ![t] = None]
        /\ seen' = [seen EXCEPT ![t] = 0]
        /\ pc' = [pc EXCEPT ![t] = "idle"]
    BY <1>11 DEF allocateNPages
  <2>. QED
    BY <1>0, <2>1, SMTT(30) DEF VarsOK
<1>12. ASSUME NEW t \in Thread, hugeFree(t)
       PROVE  ControlOK'
  BY <1>0, <1>12 DEF hugeFree, VarsOK
<1>13. CASE LockLoopOn
  BY <1>0, <1>13 DEF LockLoopOn, VarsOK
<1>14. CASE trim
  BY <1>0, <1>14 DEF trim, VarsOK
<1>15. CASE TrimDone
  BY <1>0, <1>15 DEF TrimDone, VarsOK
<1>16. load.threads \subseteq Thread
  BY WorkloadFacts DEF VarsOK
<1>. QED
  BY <1>1, <1>2, <1>3, <1>4, <1>5, <1>6, <1>7, <1>8, <1>9, <1>10, <1>11, <1>12, <1>13,
     <1>14, <1>15, <1>16 DEF Next, Step

\* Until memory is short no step makes a region outside the pods.
LEMMA LoopStep ==
    ASSUME VarsOK, ControlOK, LoopOK, Next
    PROVE  LoopOK'
<1> USE ActorFacts DEF LoopOK, RegionsWithinPods, At, Goto, On, Take, memVars
<1> USE DEF VarsOK
<1>1. ASSUME NEW t \in Thread, getTopLevelAllocator(t)
      PROVE  LoopOK'
  BY <1>1 DEF getTopLevelAllocator
<1>2. ASSUME NEW t \in Thread, crossOwnershipHugeFree(t)
      PROVE  LoopOK'
  BY <1>2 DEF crossOwnershipHugeFree
<1>3. ASSUME NEW t \in Thread, PerThreadKnown(t)
      PROVE  LoopOK'
  BY <1>3 DEF PerThreadKnown
<1>4. ASSUME NEW t \in Thread, PerThreadNew(t)
      PROVE  LoopOK'
  BY <1>4 DEF PerThreadNew, addNewRegionCore
<1>5. ASSUME NEW t \in Thread, PerThreadFull(t)
      PROVE  LoopOK'
  <2>1. size >= MaxArena
    BY <1>5, FullMeansLast DEF PerThreadFull
  <2>. QED
    BY <1>5, <2>1 DEF PerThreadFull
<1>6. ASSUME NEW t \in Thread, LockOwnRegion(t)
      PROVE  LoopOK'
  BY <1>6 DEF LockOwnRegion
<1>7. ASSUME NEW t \in Thread, loopGet(t) \/ loopGetFew(t)
      PROVE  LoopOK'
  BY <1>7 DEF loopGet, loopGetFew
<1>8. ASSUME NEW t \in Thread, Spin(t)
      PROVE  LoopOK'
  BY <1>8 DEF Spin
<1>9. ASSUME NEW t \in Thread, Scan(t)
      PROVE  LoopOK'
  BY <1>9 DEF Scan
<1>10. ASSUME NEW t \in Thread, addNewRegion(t)
       PROVE  LoopOK'
  BY <1>10 DEF addNewRegion, addNewRegionCore
<1>11. ASSUME NEW t \in Thread, allocateNPages(t)
       PROVE  LoopOK'
  BY <1>11 DEF allocateNPages
<1>12. ASSUME NEW t \in Thread, hugeFree(t)
       PROVE  LoopOK'
  BY <1>12 DEF hugeFree
<1>13. CASE LockLoopOn
  BY <1>13 DEF LockLoopOn
<1>14. CASE trim
  BY <1>14 DEF trim
<1>15. CASE TrimDone
  BY <1>15 DEF TrimDone
<1>16. load.threads \subseteq Thread
  BY WorkloadFacts
<1>. QED
  BY <1>1, <1>2, <1>3, <1>4, <1>5, <1>6, <1>7, <1>8, <1>9, <1>10, <1>11, <1>12, <1>13,
     <1>14, <1>15, <1>16 DEF Next, Step

\* A step that neither makes a region nor moves pages nor starts or ends a free.
Quiet ==
    /\ UNCHANGED <<load, size, avail, blocks>>
    /\ \A t \in Thread : /\ pc'[t] = "hugeFree" <=> pc[t] = "hugeFree"
                         /\ pc[t] = "hugeFree" => want'[t] = want[t] /\ cur'[t] = cur[t]

\* A step that moves no page keeps where the pages are.
LEMMA QuietStep ==
    ASSUME PlacesOK, Disjoint, Covered, Quiet
    PROVE  PlacesOK' /\ Disjoint' /\ Covered'
<1>1. freeing' = freeing /\ \A t \in freeing : want'[t] = want[t] /\ cur'[t] = cur[t]
  BY DEF Quiet, freeing
<1>3. PlacesOK'
  BY <1>1 DEF Quiet, PlacesOK, InRegion
<1>4. Disjoint'
  BY <1>1 DEF Quiet, Disjoint
<1>5. Covered'
  BY <1>1 DEF Quiet, Covered
<1>. QED
  BY <1>3, <1>4, <1>5

\* A region is made with all its pages free; the others do not have them.
LEMMA AddStep ==
    ASSUME VarsOK, ControlOK, PlacesOK, Disjoint, Covered, NEW t \in Thread,
           UNCHANGED <<load, blocks, want>>, pc[t] # "hugeFree", addNewRegionCore(t)
    PROVE  PlacesOK' /\ Disjoint' /\ Covered'
<1> USE ActorFacts
<1>1. /\ size \in Region /\ size' = size + 1
      /\ avail' = [avail EXCEPT ![size] = RegionPages(size)]
      /\ pc' = [pc EXCEPT ![t] = "own"] /\ cur' = [cur EXCEPT ![t] = size]
  BY DEF addNewRegionCore, On, Goto
<1>2. freeing' = freeing /\ t \notin freeing /\ freeing \subseteq Thread
  BY <1>1 DEF freeing, VarsOK
<1>3. \A u \in freeing : cur'[u] = cur[u] /\ cur[u] \in 0 .. (size - 1)
  BY <1>1, <1>2 DEF VarsOK, ControlOK, freeing
<1>4. \A r \in Region : avail'[r] = IF r = size THEN RegionPages(size) ELSE avail[r]
  BY <1>1 DEF VarsOK
<1>5. ASSUME NEW b, NEW r \in 0 .. (size - 1), InRegion(b, r)
      PROVE  Pages(b) \cap RegionPages(size) = {}
  <2>1. RegionPages(r) \cap RegionPages(size) = {}
    BY <1>1, RegionsDisjoint
  <2>. QED
    BY <1>5, <2>1 DEF InRegion
<1>6. PlacesOK'
  <2>1. \A r \in Region : avail'[r] \subseteq RegionPages(r)
    BY <1>4 DEF PlacesOK
  <2>2. \A b \in blocks : b[2] \in load.sizes /\ \E r \in 0 .. (size' - 1) : InRegion(b, r)
    BY <1>1 DEF PlacesOK
  <2>3. \A u \in freeing : InRegion(want[u], cur'[u])
    BY <1>3 DEF PlacesOK
  <2>. QED
    BY <1>2, <2>1, <2>2, <2>3 DEF PlacesOK, InRegion
<1>7. Disjoint'
  <2>1. \A b \in blocks : \A r \in Region : Pages(b) \cap avail'[r] = {}
    BY <1>4, <1>5 DEF PlacesOK, Disjoint
  <2>2. \A u \in freeing : \A r \in Region : Pages(want[u]) \cap avail'[r] = {}
    BY <1>3, <1>4, <1>5 DEF PlacesOK, Disjoint
  <2>. QED
    BY <1>2, <2>1, <2>2 DEF Disjoint
<1>8. Covered'
  <2> SUFFICES ASSUME NEW r \in 0 .. (size' - 1), NEW i \in RegionPages(r)
               PROVE  \/ i \in avail'[r]
                      \/ \E b \in blocks : i \in Pages(b)
                      \/ \E u \in freeing : i \in Pages(want[u])
    BY <1>2 DEF Covered
  <2>1. CASE r = size
    BY <1>1, <1>4, <2>1
  <2>2. CASE r # size
    <3>1. r \in 0 .. (size - 1) /\ r \in Region
      BY <1>1, <2>2 DEF VarsOK
    <3>. QED
      BY <1>4, <2>2, <3>1 DEF Covered
  <2>. QED
    BY <2>1, <2>2
<1>. QED
  BY <1>6, <1>7, <1>8

\* An allocation turns free pages of its region into a block.
LEMMA AllocateStep ==
    ASSUME VarsOK, ControlOK, PlacesOK, Disjoint, Covered, NEW t \in Thread,
           UNCHANGED load, allocateNPages(t)
    PROVE  PlacesOK' /\ Disjoint' /\ Covered'
<1> USE ActorFacts
<1>1. /\ pc[t] = "allocate" /\ UNCHANGED size
      /\ want' = [want EXCEPT ![t] = <<None, 0>>]
      /\ cur' = [cur EXCEPT ![t] = None]
      /\ pc' = [pc EXCEPT ![t] = "idle"]
  BY DEF allocateNPages, At, Take, On, Goto
<1>2. CASE UNCHANGED <<avail, blocks>>
  BY <1>1, <1>2, QuietStep DEF Quiet, VarsOK
<1>3. CASE ~UNCHANGED <<avail, blocks>>
  <2> DEFINE r == cur[t]
             n == want[t][2]
  <2>1. PICK i \in avail[r] :
          /\ Pages(<<i, n>>) \subseteq avail[r]
          /\ avail' = [avail EXCEPT ![r] = @ \ Pages(<<i, n>>)]
          /\ blocks' = blocks \cup {<<i, n>>}
    BY <1>3, AllocateEffect
  <2> DEFINE a == <<i, n>>
  <2>2. r \in 0 .. (size - 1) /\ r \in Region /\ n \in load.sizes
    BY <1>1, SMTT(30) DEF ControlOK, VarsOK
  <2>3. a[1] = i /\ a[2] = n
    OBVIOUS
  <2> HIDE DEF r, n, a
  <2>4. Pages(a) \subseteq avail[r] /\ a[1] \in avail[r] /\ blocks' = blocks \cup {a}
    BY <2>1, <2>3 DEF a
  <2>5. \A s \in Region : avail'[s] = IF s = r THEN avail[r] \ Pages(a) ELSE avail[s]
    BY <2>1, <2>2 DEF VarsOK, a
  <2>6. /\ freeing' = freeing
        /\ \A u \in freeing : want'[u] = want[u] /\ cur'[u] = cur[u]
    BY <1>1 DEF freeing, VarsOK
  <2>7. InRegion(a, r)
    BY <2>2, <2>4 DEF PlacesOK, InRegion
  <2>8. PlacesOK'
    <3>1. \A s \in Region : avail'[s] \subseteq RegionPages(s)
      BY <2>2, <2>5 DEF PlacesOK
    <3>2. \A b \in blocks' : b[2] \in load.sizes /\ \E s \in 0 .. (size - 1) : InRegion(b, s)
      BY <2>2, <2>3, <2>4, <2>7 DEF PlacesOK
    <3>3. \A u \in freeing : InRegion(want'[u], cur'[u])
      BY <2>6 DEF PlacesOK
    <3>. QED
      BY <1>1, <2>6, <3>1, <3>2, <3>3 DEF PlacesOK, InRegion
  <2>9. Disjoint'
    <3>1. \A b \in blocks : Pages(a) \cap Pages(b) = {}
      BY <2>2, <2>4 DEF Disjoint
    <3>2. \A u \in freeing : Pages(want[u]) \cap Pages(a) = {}
      BY <2>2, <2>4 DEF Disjoint
    <3>3. \A s \in Region : Pages(a) \cap avail'[s] = {}
      <4>1. ASSUME NEW s \in Region, s # r
            PROVE  Pages(a) \cap avail'[s] = {}
        <5>1. RegionPages(s) \cap RegionPages(r) = {}
          BY <2>2, <4>1, RegionsDisjoint
        <5>. QED
          BY <2>5, <2>7, <4>1, <5>1 DEF PlacesOK, InRegion
      <4>. QED
        BY <2>2, <2>5, <4>1
    <3>4. \A b, c \in blocks' : b # c => Pages(b) \cap Pages(c) = {}
      BY <2>4, <3>1 DEF Disjoint
    <3>5. \A b \in blocks' : \A s \in Region : Pages(b) \cap avail'[s] = {}
      BY <2>2, <2>4, <2>5, <3>3 DEF Disjoint
    <3>6. \A u \in freeing : \A b \in blocks' : Pages(want[u]) \cap Pages(b) = {}
      BY <2>4, <3>2 DEF Disjoint
    <3>7. \A u \in freeing : \A s \in Region : Pages(want[u]) \cap avail'[s] = {}
      BY <2>2, <2>5 DEF Disjoint
    <3>. QED
      BY <2>6, <3>4, <3>5, <3>6, <3>7 DEF Disjoint
  <2>10. Covered'
    <3> SUFFICES ASSUME NEW s \in 0 .. (size - 1), NEW j \in RegionPages(s)
                 PROVE  \/ j \in avail'[s]
                        \/ \E b \in blocks' : j \in Pages(b)
                        \/ \E u \in freeing : j \in Pages(want[u])
      BY <1>1, <2>6 DEF Covered
    <3>1. s \in Region
      BY <1>1 DEF allocateNPages, At, VarsOK
    <3>2. CASE j \in avail[s]
      BY <2>4, <2>5, <3>1, <3>2
    <3>3. CASE j \notin avail[s]
      BY <2>4, <3>3 DEF Covered
    <3>. QED
      BY <3>2, <3>3
  <2>. QED
    BY <2>8, <2>9, <2>10
<1>. QED
  BY <1>2, <1>3

\* A block being freed leaves the blocks in use before it is free.
LEMMA TakeBlockStep ==
    ASSUME VarsOK, ControlOK, PlacesOK, Disjoint, Covered, NEW t \in Thread,
           UNCHANGED load, crossOwnershipHugeFree(t)
    PROVE  PlacesOK' /\ Disjoint' /\ Covered'
<1> USE ActorFacts
<1>1. PICK a \in blocks :
        LET r == a[1] \div LocalPodCount IN
        /\ cur' = [cur EXCEPT ![t] = r]
        /\ want' = [want EXCEPT ![t] = a]
        /\ blocks' = blocks \ {a}
  BY DEF crossOwnershipHugeFree, On
<1>2. PICK r \in 0 .. (size - 1) : InRegion(a, r)
  BY DEF PlacesOK
<1>3. a[1] \div LocalPodCount = r
  BY <1>2, RegionOfPage DEF InRegion, VarsOK
<1>4. UNCHANGED <<size, avail>> /\ pc[t] = "idle" /\ pc' = [pc EXCEPT ![t] = "hugeFree"]
  BY DEF crossOwnershipHugeFree, At, Goto
<1>5. /\ freeing' = freeing \cup {t} /\ t \notin freeing
      /\ \A u \in freeing : want'[u] = want[u] /\ cur'[u] = cur[u]
      /\ want'[t] = a /\ cur'[t] = r
  BY <1>1, <1>3, <1>4 DEF freeing, VarsOK
<1>6. PlacesOK'
  <2>1. \A b \in blocks' : b[2] \in load.sizes /\ \E s \in 0 .. (size - 1) : InRegion(b, s)
    BY <1>1 DEF PlacesOK
  <2>2. \A u \in freeing' : InRegion(want'[u], cur'[u])
    BY <1>2, <1>5 DEF PlacesOK
  <2>. QED
    BY <1>4, <2>1, <2>2 DEF PlacesOK, InRegion
<1>7. Disjoint'
  <2>1. \A b \in blocks' : b \in blocks /\ b # a
    BY <1>1
  <2>2. \A u \in freeing' : \A b \in blocks' : Pages(want'[u]) \cap Pages(b) = {}
    BY <1>5, <2>1 DEF Disjoint
  <2>3. \A u \in freeing' : \A s \in Region : Pages(want'[u]) \cap avail[s] = {}
    BY <1>5 DEF Disjoint
  <2>4. \A u, v \in freeing' : u # v => Pages(want'[u]) \cap Pages(want'[v]) = {}
    BY <1>5 DEF Disjoint
  <2>. QED
    BY <1>4, <2>1, <2>2, <2>3, <2>4 DEF Disjoint
<1>8. Covered'
  BY <1>1, <1>4, <1>5 DEF Covered
<1>. QED
  BY <1>6, <1>7, <1>8

\* Then its pages are free, in the region they belong to.
LEMMA FreeStep ==
    ASSUME VarsOK, ControlOK, PlacesOK, Disjoint, Covered, NEW t \in Thread,
           UNCHANGED load, hugeFree(t)
    PROVE  PlacesOK' /\ Disjoint' /\ Covered'
<1> USE ActorFacts
<1> DEFINE r == cur[t]
           a == want[t]
<1>1. /\ pc[t] = "hugeFree" /\ UNCHANGED <<size, blocks>> /\ size <= MaxArena
      /\ avail' = [avail EXCEPT ![r] = @ \cup Pages(a)]
      /\ want' = [want EXCEPT ![t] = <<None, 0>>]
      /\ cur' = [cur EXCEPT ![t] = None]
      /\ pc' = [pc EXCEPT ![t] = "idle"]
  BY DEF hugeFree, At, Take, On, Goto
<1>2. t \in freeing /\ r \in 0 .. (size - 1) /\ r \in Region
  BY <1>1 DEF freeing, ControlOK, VarsOK
<1>3. freeing' = freeing \ {t} /\ \A u \in freeing' : want'[u] = want[u] /\ cur'[u] = cur[u]
  BY <1>1 DEF freeing, VarsOK
<1>4. InRegion(a, r)
  BY <1>2 DEF PlacesOK
<1>5. \A s \in Region : avail'[s] = IF s = r THEN avail[r] \cup Pages(a) ELSE avail[s]
  BY <1>1, <1>2 DEF VarsOK
<1>6. PlacesOK'
  <2>1. \A s \in Region : avail'[s] \subseteq RegionPages(s)
    BY <1>2, <1>4, <1>5 DEF PlacesOK, InRegion
  <2>2. \A u \in freeing' : InRegion(want'[u], cur'[u])
    BY <1>3 DEF PlacesOK
  <2>. QED
    BY <1>1, <2>1, <2>2 DEF PlacesOK, InRegion
<1>7. Disjoint'
  <2>1. \A b \in blocks : \A s \in Region : Pages(b) \cap avail'[s] = {}
    BY <1>2, <1>5 DEF Disjoint
  <2>2. \A u \in freeing' : \A s \in Region : Pages(want[u]) \cap avail'[s] = {}
    BY <1>2, <1>3, <1>5 DEF Disjoint
  <2>. QED
    BY <1>1, <1>3, <2>1, <2>2 DEF Disjoint
<1>8. Covered'
  <2> SUFFICES ASSUME NEW s \in 0 .. (size - 1), NEW i \in RegionPages(s)
               PROVE  \/ i \in avail'[s]
                      \/ \E b \in blocks : i \in Pages(b)
                      \/ \E u \in freeing' : i \in Pages(want[u])
    BY <1>1, <1>3 DEF Covered
  <2>1. s \in Region
    BY <1>1 DEF VarsOK
  <2>2. CASE i \in Pages(a)
    <3>1. s = r
      BY <1>2, <1>4, <2>1, <2>2, RegionsDisjoint DEF InRegion
    <3>. QED
      BY <1>5, <2>1, <2>2, <3>1
  <2>3. CASE i \notin Pages(a)
    BY <1>2, <1>3, <1>5, <2>1, <2>3 DEF Covered
  <2>. QED
    BY <2>2, <2>3
<1>. QED
  BY <1>6, <1>7, <1>8

\* So every step keeps the pages accounted for.
LEMMA PagesStep ==
    ASSUME VarsOK, ControlOK, PlacesOK, Disjoint, Covered, Next
    PROVE  PlacesOK' /\ Disjoint' /\ Covered'
<1> USE ActorFacts
<1>0. UNCHANGED load
  BY DEF Next
<1>1. SUFFICES Next => \/ Quiet
                       \/ \E t \in Thread : \/ PerThreadNew(t) \/ addNewRegion(t)
                                           \/ allocateNPages(t)
                                           \/ crossOwnershipHugeFree(t) \/ hugeFree(t)
  <2>1. ASSUME NEW t \in Thread, PerThreadNew(t) \/ addNewRegion(t)
        PROVE  PlacesOK' /\ Disjoint' /\ Covered'
    <3>1. /\ UNCHANGED <<load, blocks, want>> /\ pc[t] # "hugeFree"
          /\ addNewRegionCore(t)
      BY <1>0, <2>1 DEF PerThreadNew, addNewRegion, At
    <3>. QED
      BY <3>1, AddStep
  <2>. QED
    BY <1>0, <1>1, <2>1, QuietStep, AllocateStep, TakeBlockStep, FreeStep
<1> USE DEF At, Goto, On, Take, memVars, Quiet, VarsOK
<1>2. ASSUME NEW t \in Thread, getTopLevelAllocator(t)
      PROVE  Quiet
  BY <1>0, <1>2 DEF getTopLevelAllocator
<1>3. ASSUME NEW t \in Thread, PerThreadKnown(t)
      PROVE  Quiet
  BY <1>0, <1>3 DEF PerThreadKnown
<1>4. ASSUME NEW t \in Thread, PerThreadFull(t)
      PROVE  Quiet
  BY <1>0, <1>4 DEF PerThreadFull
<1>5. ASSUME NEW t \in Thread, LockOwnRegion(t)
      PROVE  Quiet
  BY <1>0, <1>5 DEF LockOwnRegion
<1>6. ASSUME NEW t \in Thread, loopGet(t) \/ loopGetFew(t)
      PROVE  Quiet
  BY <1>0, <1>6 DEF loopGet, loopGetFew
<1>7. ASSUME NEW t \in Thread, Spin(t)
      PROVE  Quiet
  BY <1>0, <1>7 DEF Spin
<1>8. ASSUME NEW t \in Thread, Scan(t)
      PROVE  Quiet
  BY <1>0, <1>8 DEF Scan
<1>9. CASE LockLoopOn \/ trim \/ TrimDone
  BY <1>0, <1>9 DEF LockLoopOn, trim, TrimDone
<1>10. load.threads \subseteq Thread
  BY WorkloadFacts
<1>. QED
  BY <1>2, <1>3, <1>4, <1>5, <1>6, <1>7, <1>8, <1>9, <1>10 DEF Next, Step

\* The invariant holds in every state of every execution.
THEOREM Invariance == Spec => []BundleInv
<1>1. Init => BundleInv
  BY InitInv
<1>2. BundleInv /\ [Next]_vars => BundleInv'
  <2> SUFFICES ASSUME BundleInv, [Next]_vars
               PROVE  BundleInv'
    OBVIOUS
  <2>1. CASE Next
    BY <2>1, VarsStep, ControlStep, LoopStep, PagesStep DEF BundleInv
  <2>2. CASE UNCHANGED vars
    <3>1. VarsOK' /\ ControlOK' /\ LoopOK'
      BY <2>2 DEF BundleInv, vars, VarsOK, ControlOK, RegionExclusive, LoopOK, RegionsWithinPods
    <3>2. Quiet
      BY <2>2 DEF vars, Quiet
    <3>. QED
      BY <3>1, <3>2, QuietStep DEF BundleInv
  <2>. QED
    BY <2>1, <2>2
<1>. QED
  BY <1>1, <1>2, PTL DEF Spec

\* Every variable of the regions keeps its type, whatever the threads ask for.
THEOREM TypeCorrect == Spec => []TypeOK
<1>1. BundleInv => TypeOK
  <2> SUFFICES ASSUME BundleInv
               PROVE  TypeOK
    OBVIOUS
  <2> USE ActorFacts
  <2>1. ASSUME NEW b \in blocks
        PROVE  b \in (0 .. podsSize + LocalPodCount) \X load.sizes
    <3>1. b \in Int \X Int /\ b[2] \in load.sizes
      BY DEF BundleInv, VarsOK, PlacesOK
    <3>2. PICK r \in 0 .. (size - 1) : b[1] \in RegionPages(r)
      BY DEF BundleInv, PlacesOK, InRegion
    <3>3. size \in Nat /\ size - 1 <= MaxArena
      BY DEF BundleInv, VarsOK
    <3>4. /\ 0 * LocalPodCount <= r * LocalPodCount
          /\ (r + 1) * LocalPodCount <= (MaxArena + 1) * LocalPodCount
      BY <3>3, ProductMonotone
    <3>5. 0 * LocalPodCount = 0
          /\ (MaxArena + 1) * LocalPodCount = MaxArena * LocalPodCount + LocalPodCount
      BY SMT
    <3>6. b[1] \in 0 .. (podsSize + LocalPodCount)
      BY <3>2, <3>3, <3>4, <3>5 DEF RegionPages, podsSize
    <3>. QED
      BY <3>1, <3>6
  <2>. QED
    BY <2>1 DEF BundleInv, VarsOK, PlacesOK, TypeOK
<1>. QED
  BY <1>1, Invariance, PTL

\* Whoever allocates, frees or trims in a region has its lock: no two actors work
\* in one region, by whichever of the four ways they came to it.
THEOREM Exclusion == Spec => []RegionExclusive
<1>1. BundleInv => RegionExclusive
  BY DEF BundleInv, ControlOK
<1>. QED
  BY <1>1, Invariance, PTL

\* However many threads ask for regions, the regions made lie within the pods until
\* memory is short.
THEOREM WithinPods == Spec => []RegionsWithinPods
<1>1. BundleInv => RegionsWithinPods
  BY DEF BundleInv, LoopOK
<1>. QED
  BY <1>1, Invariance, PTL

\* Every page of a region is free, in one block, or being freed by one thread.
THEOREM NoPageLost == Spec => []PagesAccounted
<1>1. BundleInv => PagesAccounted
  <2> SUFFICES ASSUME BundleInv, NEW r \in 0 .. (size - 1), NEW i \in RegionPages(r)
               PROVE  LET using == {b \in blocks : i \in Pages(b)}
                          giving == {t \in Thread : pc[t] = "hugeFree" /\ i \in Pages(want[t])}
                          free == IF i \in avail[r] THEN 1 ELSE 0
                      IN  Cardinality(using) + Cardinality(giving) + free = 1
    BY DEF PagesAccounted
  <2> DEFINE using == {b \in blocks : i \in Pages(b)}
             giving == {t \in Thread : pc[t] = "hugeFree" /\ i \in Pages(want[t])}
             free == IF i \in avail[r] THEN 1 ELSE 0
  <2>1. r \in Region
    BY ActorFacts DEF BundleInv, VarsOK
  <2>2. giving = {t \in freeing : i \in Pages(want[t])}
    BY DEF freeing
  <2>3. \A S : S = {} => Cardinality(S) = 0
    BY FS_EmptySet
  <2>4. \A S : \A x \in S : (\A y \in S : y = x) => Cardinality(S) = 1
    <3> SUFFICES ASSUME NEW S, NEW x \in S, \A y \in S : y = x
                 PROVE  Cardinality(S) = 1
      OBVIOUS
    <3>1. S = {x}
      OBVIOUS
    <3>. QED
      BY <3>1, FS_Singleton
  <2>5. CASE i \in avail[r]
    <3>1. using = {} /\ giving = {}
      BY <2>1, <2>2, <2>5 DEF BundleInv, Disjoint
    <3>. QED
      BY <2>3, <2>5, <3>1
  <2>6. CASE using # {}
    <3>1. PICK b \in blocks : i \in Pages(b)
      BY <2>6
    <3>2. i \notin avail[r] /\ giving = {}
      BY <2>1, <2>2, <3>1 DEF BundleInv, Disjoint
    <3>3. b \in using /\ \A c \in using : c = b
      BY <3>1 DEF BundleInv, Disjoint
    <3>4. Cardinality(using) = 1
      BY <2>4, <3>3
    <3>. QED
      BY <2>3, <3>2, <3>4
  <2>7. CASE giving # {}
    <3>1. PICK t \in freeing : i \in Pages(want[t])
      BY <2>2, <2>7
    <3>2. i \notin avail[r] /\ using = {}
      BY <2>1, <3>1 DEF BundleInv, Disjoint
    <3>3. t \in giving /\ \A u \in giving : u = t
      BY <2>2, <3>1 DEF BundleInv, Disjoint
    <3>4. Cardinality(giving) = 1
      BY <2>4, <3>3
    <3>. QED
      BY <2>3, <3>2, <3>4
  <2>8. i \in avail[r] \/ using # {} \/ giving # {}
    BY <2>2 DEF BundleInv, Covered
  <2>. QED
    BY <2>5, <2>6, <2>7, <2>8
<1>. QED
  BY <1>1, Invariance, PTL
=============================================================================

--------------------------- MODULE FreeLoopProofs ---------------------------
(***************************************************************************)
(* The safety of FreeLoop, for any number of threads, pages and pages that *)
(* fit: what is on the LRU list is resident and on it once, and a pod has  *)
(* one holder, a fault or a free loop, so that a fault that waits for room *)
(* has its page off the list unless a prefetch cached it.                  *)
(***************************************************************************)
EXTENDS FreeLoop, SequenceTheorems, TLAPS

InFault == {"signal", "spin", "activate"}

ListOK ==
    /\ \A p \in ToSet(LRUList) : state[p] \in {"local", "diskCache"}
    /\ \A i, j \in DOMAIN LRUList : LRUList[i] = LRUList[j] => i = j

\* A faulting thread holds its pod from Lock on.
FaultsOK ==
    \A t \in App :
        /\ pc[t] # "run" => cur[t] \in Pod
        /\ pc[t] \in InFault => owner[cur[t]] = t
        /\ pc[t] \in {"signal", "spin"} => state[cur[t]] # "local"

\* A free loop holds its victim, which is off the list and is not the pod its
\* own thread faults on (both hold mutexes under the thread's name).
VictimsOK ==
    \A t \in App : loop[t] = "evict" =>
        /\ victim[t] \in Pod /\ owner[victim[t]] = t
        /\ victim[t] \notin ToSet(LRUList)
        /\ pc[t] \in InFault => victim[t] # cur[t]

LoopInv == TypeOK /\ ListOK /\ FaultsOK /\ VictimsOK
-----------------------------------------------------------------------------
\* Removing the element at i shifts those behind it.
LEMMA RemoveAtElements ==
    ASSUME NEW S, NEW s \in Seq(S), NEW i \in 1 .. Len(s)
    PROVE  /\ RemoveAt(s, i) \in Seq(S) /\ Len(RemoveAt(s, i)) = Len(s) - 1
           /\ \A j \in 1 .. Len(s) - 1 :
                  RemoveAt(s, i)[j] = IF j < i THEN s[j] ELSE s[j + 1]
<1> DEFINE a == SubSeq(s, 1, i - 1)
           b == SubSeq(s, i + 1, Len(s))
<1>1. Len(s) \in Nat /\ \A j \in 1 .. Len(s) : s[j] \in S
  OBVIOUS
<1>2. a \in Seq(S) /\ Len(a) = i - 1 /\ \A j \in 1 .. i - 1 : a[j] = s[j]
  BY <1>1, SubSeqProperties
<1>3. b \in Seq(S) /\ Len(b) = Len(s) - i /\ \A j \in 1 .. Len(s) - i : b[j] = s[i + j]
  BY <1>1, SubSeqProperties
<1>4. RemoveAt(s, i) = a \o b
  BY DEF RemoveAt
<1> HIDE DEF a, b
<1>5. /\ a \o b \in Seq(S) /\ Len(a \o b) = Len(a) + Len(b)
      /\ \A j \in 1 .. Len(a) + Len(b) :
            (a \o b)[j] = IF j <= Len(a) THEN a[j] ELSE b[j - Len(a)]
  BY <1>2, <1>3, ConcatProperties
<1>6. ASSUME NEW j \in 1 .. Len(s) - 1
      PROVE  (a \o b)[j] = IF j < i THEN s[j] ELSE s[j + 1]
  <2>1. CASE j < i
    BY <1>1, <1>2, <1>3, <1>5, <2>1
  <2>2. CASE ~(j < i)
    <3>1. /\ (a \o b)[j] = b[j - (i - 1)]
          /\ j - (i - 1) \in 1 .. Len(s) - i /\ i + (j - (i - 1)) = j + 1
      BY <1>1, <1>2, <1>3, <1>5, <2>2
    <3> QED
      BY <3>1, <1>3, <2>2
  <2> QED
    BY <2>1, <2>2
<1> QED
  BY <1>1, <1>2, <1>3, <1>4, <1>5, <1>6

\* Erasing p leaves the other pods on the list, each once.
LEMMA ErasedElements ==
    ASSUME LRUList \in Seq(Pod), NEW p \in Pod,
           \A i, j \in DOMAIN LRUList : LRUList[i] = LRUList[j] => i = j
    PROVE  /\ Erased(p) \in Seq(Pod)
           /\ \A q \in ToSet(Erased(p)) : q \in ToSet(LRUList) /\ q # p
           /\ \A i, j \in DOMAIN Erased(p) : Erased(p)[i] = Erased(p)[j] => i = j
<1>1. CASE p \notin ToSet(LRUList)
  BY <1>1 DEF Erased
<1>2. CASE p \in ToSet(LRUList)
  <2> DEFINE n == Len(LRUList)
             k == LRUIter(p)
             e == RemoveAt(LRUList, k)
  <2>1. n \in Nat /\ DOMAIN LRUList = 1 .. n
    OBVIOUS
  <2>2. k \in 1 .. n /\ LRUList[k] = p
    BY <1>2, <2>1 DEF LRUIter, ToSet
  <2>3. /\ e \in Seq(Pod) /\ Len(e) = n - 1
        /\ \A j \in 1 .. n - 1 : e[j] = IF j < k THEN LRUList[j] ELSE LRUList[j + 1]
    BY <2>2, RemoveAtElements
  <2>4. Erased(p) = e
    BY <1>2 DEF Erased
  <2> HIDE DEF n, k, e
  <2>5. DOMAIN e = 1 .. n - 1
    BY <2>1, <2>3
  <2>6. \A i, j \in DOMAIN e : e[i] = e[j] => i = j
    <3>1. \A i, j \in 1 .. n : LRUList[i] = LRUList[j] => i = j
      BY <2>1
    <3> SUFFICES ASSUME NEW i \in 1 .. n - 1, NEW j \in 1 .. n - 1, e[i] = e[j]
                 PROVE  i = j
      BY <2>5
    <3> DEFINE from(l) == IF l < k THEN l ELSE l + 1
    <3>2. /\ from(i) \in 1 .. n /\ e[i] = LRUList[from(i)]
          /\ from(j) \in 1 .. n /\ e[j] = LRUList[from(j)]
      BY <2>1, <2>2, <2>3
    <3> HIDE DEF from
    <3>3. from(i) = from(j)
      BY <3>1, <3>2
    <3> QED
      BY <2>1, <2>2, <3>3 DEF from
  <2>7. ASSUME NEW q \in ToSet(e) PROVE q \in ToSet(LRUList) /\ q # p
    <3>1. PICK j \in 1 .. n - 1 : e[j] = q
      BY <2>5 DEF ToSet
    <3>2. PICK m \in 1 .. n : LRUList[m] = q /\ m # k
      BY <3>1, <2>1, <2>2, <2>3
    <3> QED
      BY <3>2, <2>1, <2>2 DEF ToSet
  <2> QED
    BY <2>3, <2>4, <2>6, <2>7
<1> QED
  BY <1>1, <1>2

\* updateLRUList puts p in front and keeps the others, each pod once.
LEMMA UpdateElements ==
    ASSUME LRUList \in Seq(Pod), NEW p \in Pod, updateLRUList(p),
           \A i, j \in DOMAIN LRUList : LRUList[i] = LRUList[j] => i = j
    PROVE  /\ LRUList' \in Seq(Pod)
           /\ ToSet(LRUList)' \subseteq ToSet(LRUList) \cup {p}
           /\ \A i, j \in DOMAIN LRUList' : LRUList'[i] = LRUList'[j] => i = j
<1> DEFINE e == Erased(p)
           n == Len(e)
           l == <<p>> \o e
<1>1. /\ e \in Seq(Pod)
      /\ \A q \in ToSet(e) : q \in ToSet(LRUList) /\ q # p
      /\ \A i, j \in DOMAIN e : e[i] = e[j] => i = j
  BY ErasedElements
<1>2. LRUList' = l
  BY DEF updateLRUList
<1> HIDE DEF e
<1>3. n \in Nat /\ DOMAIN e = 1 .. n
  BY <1>1
<1>4. /\ l \in Seq(Pod) /\ Len(l) = n + 1 /\ DOMAIN l = 1 .. n + 1
      /\ l[1] = p /\ \A i \in 2 .. n + 1 : l[i] = e[i - 1]
  BY <1>1, <1>3
<1> HIDE DEF l, n
<1>5. \A i \in 1 .. n : e[i] \in ToSet(LRUList) /\ e[i] # p
  BY <1>1, <1>3 DEF ToSet
<1>6. ASSUME NEW i \in 2 .. n + 1 PROVE i - 1 \in 1 .. n /\ l[i] = e[i - 1]
  BY <1>3, <1>4
<1>7. \A i \in 1 .. n + 1 : i = 1 \/ i \in 2 .. n + 1
  BY <1>3
<1>8. \A i \in DOMAIN l : l[i] \in ToSet(LRUList) \cup {p}
  BY <1>4, <1>5, <1>6, <1>7
<1>9. ASSUME NEW i \in DOMAIN l, NEW j \in DOMAIN l, l[i] = l[j] PROVE i = j
  <2>1. CASE i = 1 \/ j = 1
    BY <1>4, <1>5, <1>6, <1>7, <1>9, <2>1
  <2>2. CASE i # 1 /\ j # 1
    <3>1. i - 1 \in 1 .. n /\ j - 1 \in 1 .. n /\ e[i - 1] = e[j - 1]
      BY <1>4, <1>6, <1>7, <1>9, <2>2
    <3>2. i - 1 = j - 1
      BY <1>1, <1>3, <3>1
    <3> QED
      BY <1>3, <1>4, <3>2
  <2> QED
    BY <2>1, <2>2
<1> QED
  BY <1>2, <1>4, <1>8, <1>9 DEF ToSet

\* Without its tail the list holds the pods before it, none of which is the tail.
LEMMA FrontElements ==
    ASSUME LRUList \in Seq(Pod), LRUList # <<>>, LRUList' = Front(LRUList),
           \A i, j \in DOMAIN LRUList : LRUList[i] = LRUList[j] => i = j
    PROVE  /\ Last(LRUList) \in ToSet(LRUList) /\ Last(LRUList) \in Pod
           /\ LRUList' \in Seq(Pod)
           /\ ToSet(LRUList)' \subseteq ToSet(LRUList) \ {Last(LRUList)}
           /\ \A i, j \in DOMAIN LRUList' : LRUList'[i] = LRUList'[j] => i = j
<1> DEFINE n == Len(LRUList)
<1>1. n \in Nat \ {0} /\ DOMAIN LRUList = 1 .. n /\ \A i \in 1 .. n : LRUList[i] \in Pod
  OBVIOUS
<1>2. /\ LRUList' \in Seq(Pod) /\ DOMAIN LRUList' = 1 .. n - 1
      /\ \A i \in 1 .. n - 1 : LRUList'[i] = LRUList[i]
  BY <1>1, SubSeqProperties DEF Front
<1>3. Last(LRUList) = LRUList[n]
  BY DEF Last
<1> HIDE DEF n
<1>4. \A i \in 1 .. n - 1 : i \in 1 .. n /\ i # n
  BY <1>1
<1> QED
  BY <1>1, <1>2, <1>3, <1>4 DEF ToSet
-----------------------------------------------------------------------------
\* LoopInv holds at the start.
LEMMA InitInv == Init => LoopInv
<1> SUFFICES ASSUME Init PROVE LoopInv
  OBVIOUS
<1>1. swapModeOn \in BOOLEAN
  BY Zenon DEF Init
<1>2. TypeOK
  BY <1>1 DEF Init, TypeOK
<1>3. ListOK
  BY DEF Init, ListOK, ToSet
<1> QED
  BY <1>2, <1>3 DEF Init, LoopInv, FaultsOK, VictimsOK, InFault

\* A pod whose mutex is free is nobody's: no fault works on it and no free loop
\* evicts it.
LEMMA FreePod ==
    ASSUME LoopInv, NEW p \in Pod, owner[p] = None, NEW t \in App
    PROVE  /\ pc[t] \in InFault => cur[t] # p
           /\ loop[t] = "evict" => victim[t] # p
BY FreeLoopAssumption DEF LoopInv, FaultsOK, VictimsOK

\* The monitor, the notifications and the loops' going to sleep and waking up
\* touch no pod.
LEMMA LoopsMove ==
    ASSUME LoopInv, TypeOK',
           UNCHANGED <<load, state, owner, LRUList, cur, victim>>,
           \A t \in App : loop'[t] = "evict" => loop[t] = "evict",
           \A t \in App : /\ pc'[t] # pc[t] => pc[t] \in InFault /\ pc'[t] \in InFault
                          /\ pc'[t] \in {"signal", "spin"} => pc[t] \in {"signal", "spin"}
    PROVE  LoopInv'
<1>1. Pod' = Pod
  BY DEF Pod
<1>2. ListOK'
  BY DEF LoopInv, ListOK
<1>3. FaultsOK'
  BY <1>1 DEF LoopInv, FaultsOK, InFault
<1>4. VictimsOK'
  BY <1>1 DEF LoopInv, VictimsOK
<1> QED
  BY <1>2, <1>3, <1>4 DEF LoopInv

\* freeLoopCv.notify_one starts no eviction.
LEMMA NotifyEffect ==
    ASSUME TypeOK, notify_one
    PROVE  /\ loop' \in [App -> {"none", "awake", "evict", "drowsy", "asleep"}]
           /\ \A t \in App : loop'[t] = "evict" => loop[t] = "evict"
BY DEF TypeOK, notify_one, Asleep

\* The steps that move no page keep LoopInv.
LEMMA LoopQuiet ==
    ASSUME LoopInv, NEW t, UNCHANGED load,
           \/ checkTidMappedFreeThread(t) \/ freeLoopSignal(t) \/ Spin(t)
           \/ memoryFreeLoopSpl(t) \/ freeLoopThreadSpl(t) \/ peakRamMain
    PROVE  LoopInv'
<1>1. TypeOK
  BY DEF LoopInv
<1>2. /\ UNCHANGED <<state, owner, LRUList, cur, victim, prefetchVars>>
      /\ swapModeOn' \in BOOLEAN
  <2>1. UNCHANGED <<state, owner, LRUList, cur, victim, prefetchVars>>
    BY DEF checkTidMappedFreeThread, freeLoopSignal, Spin, memoryFreeLoopSpl,
           freeLoopThreadSpl, peakRamMain, threadVars
  <2>2. swapModeOn' \in BOOLEAN
    BY <1>1, Zenon DEF checkTidMappedFreeThread, freeLoopSignal, Spin, memoryFreeLoopSpl,
           freeLoopThreadSpl, peakRamMain, TypeOK
  <2> QED
    BY <2>1, <2>2
<1>3. /\ loop' \in [App -> {"none", "awake", "evict", "drowsy", "asleep"}]
      /\ \A u \in App : loop'[u] = "evict" => loop[u] = "evict"
  <2>1. CASE notify_one \/ UNCHANGED loop
    BY <1>1, <2>1, NotifyEffect DEF TypeOK
  <2>2. CASE \E l \in {"awake", "drowsy", "asleep"} : loop' = [loop EXCEPT ![t] = l]
    BY <1>1, <2>2 DEF TypeOK
  <2>3. CASE loop' = [u \in App |-> IF u \in Asleep THEN "awake" ELSE loop[u]]
    BY <1>1, <2>3 DEF TypeOK
  <2> QED
    BY <2>1, <2>2, <2>3 DEF checkTidMappedFreeThread, freeLoopSignal, Spin,
           memoryFreeLoopSpl, freeLoopThreadSpl, peakRamMain
<1>4. \/ UNCHANGED pc
      \/ pc[t] = "signal" /\ pc' = [pc EXCEPT ![t] = "spin"]
      \/ pc[t] \in {"signal", "spin"} /\ pc' = [pc EXCEPT ![t] = "activate"]
  BY DEF checkTidMappedFreeThread, freeLoopSignal, Spin, memoryFreeLoopSpl,
         freeLoopThreadSpl, peakRamMain, threadVars, GoTo
<1>5. /\ pc' \in [App -> {"run", "lock", "signal", "spin", "activate"}]
      /\ \A u \in App : /\ pc'[u] # pc[u] => pc[u] \in InFault /\ pc'[u] \in InFault
                        /\ pc'[u] \in {"signal", "spin"} => pc[u] \in {"signal", "spin"}
  BY <1>1, <1>4 DEF TypeOK, InFault
<1>6. TypeOK'
  BY <1>1, <1>2, <1>3, <1>5 DEF TypeOK, Pod, prefetchVars
<1>7. UNCHANGED <<load, state, owner, LRUList, cur, victim>>
  BY <1>2
<1>8. \A u \in App : loop'[u] = "evict" => loop[u] = "evict"
  BY <1>3
<1>9. \A u \in App : /\ pc'[u] # pc[u] => pc[u] \in InFault /\ pc'[u] \in InFault
                     /\ pc'[u] \in {"signal", "spin"} => pc[u] \in {"signal", "spin"}
  BY <1>5
<1> QED
  BY <1>6, <1>7, <1>8, <1>9, LoopsMove, Zenon

\* A fault that starts, or takes its pod's mutex, keeps LoopInv.
LEMMA FaultStart ==
    ASSUME LoopInv, NEW t \in App, UNCHANGED load,
           \/ \E p \in Pod : activateAddress(t, p)
           \/ Lock(t)
    PROVE  LoopInv'
<1>1. TypeOK /\ Pod' = Pod
  BY DEF LoopInv, Pod
<1>2. CASE \E p \in Pod : activateAddress(t, p)
  <2>1. PICK p \in Pod : activateAddress(t, p)
    BY <1>2
  <2>2. /\ pc[t] = "run" /\ cur' = [cur EXCEPT ![t] = p] /\ pc' = [pc EXCEPT ![t] = "lock"]
        /\ UNCHANGED <<state, owner, LRUList, loopVars, swapModeOn, taskCombo>>
    BY <2>1 DEF activateAddress, GoTo
  <2>3. tasks' \in SUBSET Pod
    BY <1>1, <2>1 DEF activateAddress, activatePodWrap, TypeOK
  <2>4. TypeOK'
    BY <1>1, <2>2, <2>3 DEF TypeOK, Pod, loopVars
  <2>5. /\ pc'[t] = "lock" /\ cur'[t] = p
        /\ \A u \in App \ {t} : pc'[u] = pc[u] /\ cur'[u] = cur[u]
    BY <1>1, <2>2 DEF TypeOK
  <2>6. FaultsOK'
    BY <1>1, <2>2, <2>5 DEF LoopInv, FaultsOK, InFault
  <2>7. ListOK' /\ VictimsOK'
    BY <1>1, <2>2, <2>5 DEF LoopInv, ListOK, VictimsOK, InFault, loopVars
  <2> QED
    BY <2>4, <2>6, <2>7 DEF LoopInv
<1>3. CASE Lock(t)
  <2> DEFINE p == cur[t]
  <2>1. /\ pc[t] = "lock" /\ owner[p] = None /\ owner' = [owner EXCEPT ![p] = t]
        /\ UNCHANGED <<state, LRUList, cur, loopVars, swapModeOn, prefetchVars>>
    BY <1>3 DEF Lock
  <2>2. p \in Pod
    BY <2>1 DEF LoopInv, FaultsOK
  <2>3. PICK l \in {"activate", "signal"} :
           pc' = [pc EXCEPT ![t] = l] /\ (l = "signal" => state[p] # "local")
    BY <1>3 DEF Lock, GoTo
  <2> HIDE DEF p
  <2>4. TypeOK'
    BY <1>1, <2>1, <2>2, <2>3 DEF TypeOK, Pod, loopVars, prefetchVars
  <2>5. /\ pc'[t] = l /\ owner'[p] = t /\ l \in InFault
        /\ \A u \in App \ {t} : pc'[u] = pc[u]
        /\ \A q \in Pod \ {p} : owner'[q] = owner[q]
    BY <1>1, <2>1, <2>2, <2>3 DEF TypeOK, InFault
  <2>6. \A u \in App : /\ pc[u] \in InFault => cur[u] # p
                       /\ loop[u] = "evict" => victim[u] # p
    BY <2>1, <2>2, FreePod
  <2>7. FaultsOK'
    BY <1>1, <2>1, <2>2, <2>3, <2>5, <2>6 DEF LoopInv, FaultsOK, InFault, p
  <2>8. ListOK'
    BY <2>1 DEF LoopInv, ListOK
  <2>9. VictimsOK'
    BY <1>1, <2>1, <2>5, <2>6 DEF LoopInv, VictimsOK, loopVars, p
  <2> QED
    BY <2>4, <2>7, <2>8, <2>9 DEF LoopInv
<1> QED
  BY <1>2, <1>3

\* What a holder, or a prefetch of a pod nobody holds, does to p: p becomes resident
\* and the most recently used pod.
LEMMA MakeResident ==
    ASSUME LoopInv, NEW p \in Pod, NEW s \in {"local", "diskCache"},
           state' = [state EXCEPT ![p] = s], updateLRUList(p), UNCHANGED load,
           UNCHANGED victim, UNCHANGED loop,
           \A t \in App : loop[t] = "evict" => victim[t] # p
    PROVE  /\ ListOK' /\ LRUList' \in Seq(Pod)
           /\ state' \in [Pod -> {"init", "local", "disk", "diskCache"}]
           /\ \A q \in Pod \ {p} : state'[q] = state[q]
           /\ \A t \in App : loop[t] = "evict" => victim[t] \notin ToSet(LRUList)'
<1>1. /\ LRUList \in Seq(Pod) /\ state \in [Pod -> {"init", "local", "disk", "diskCache"}]
      /\ \A i, j \in DOMAIN LRUList : LRUList[i] = LRUList[j] => i = j
  BY DEF LoopInv, TypeOK, ListOK
<1>2. /\ LRUList' \in Seq(Pod)
      /\ ToSet(LRUList)' \subseteq ToSet(LRUList) \cup {p}
      /\ \A i, j \in DOMAIN LRUList' : LRUList'[i] = LRUList'[j] => i = j
  BY <1>1, UpdateElements
<1>3. /\ state' \in [Pod -> {"init", "local", "disk", "diskCache"}] /\ state'[p] = s
      /\ \A q \in Pod \ {p} : state'[q] = state[q]
  BY <1>1
<1>4. \A q \in ToSet(LRUList) : q \in Pod /\ state[q] \in {"local", "diskCache"}
  BY <1>1 DEF LoopInv, ListOK, ToSet
<1>5. \A q \in ToSet(LRUList)' : state'[q] \in {"local", "diskCache"}
  BY <1>2, <1>3, <1>4
<1>6. ListOK'
  BY <1>2, <1>5 DEF ListOK
<1> QED
  BY <1>2, <1>3, <1>6 DEF LoopInv, VictimsOK

\* The end of a fault, which lists its pod, keeps LoopInv.
LEMMA ActivateStep ==
    ASSUME LoopInv, NEW t \in App, UNCHANGED load, activatePod(t)
    PROVE  LoopInv'
<1> DEFINE p == cur[t]
<1>1. /\ TypeOK /\ Pod' = Pod /\ pc[t] = "activate"
      /\ state' = [state EXCEPT ![p] = "local"] /\ updateLRUList(p)
      /\ owner' = [owner EXCEPT ![p] = None] /\ cur' = [cur EXCEPT ![t] = None]
      /\ pc' = [pc EXCEPT ![t] = "run"]
      /\ UNCHANGED <<loopVars, swapModeOn, taskCombo>>
  BY DEF LoopInv, activatePod, GoTo, Pod
<1>2. p \in Pod /\ owner[p] = t
  BY <1>1 DEF LoopInv, FaultsOK, InFault
<1>3. tasks' \in SUBSET Pod
  BY <1>1, <1>2 DEF activatePod, activatePodWrap, TypeOK
<1> HIDE DEF p
<1>4. /\ \A u \in App \ {t} : pc[u] \in InFault => cur[u] # p
      /\ \A u \in App : loop[u] = "evict" => victim[u] # p
  BY <1>1, <1>2 DEF LoopInv, FaultsOK, VictimsOK, InFault, p
<1>5. /\ ListOK' /\ LRUList' \in Seq(Pod)
      /\ state' \in [Pod -> {"init", "local", "disk", "diskCache"}]
      /\ \A q \in Pod \ {p} : state'[q] = state[q]
      /\ \A u \in App : loop[u] = "evict" => victim[u] \notin ToSet(LRUList)'
  BY <1>1, <1>2, <1>4, MakeResident DEF loopVars
<1>6. /\ pc'[t] = "run" /\ \A u \in App \ {t} : pc'[u] = pc[u] /\ cur'[u] = cur[u]
      /\ \A q \in Pod \ {p} : owner'[q] = owner[q]
  BY <1>1, <1>2 DEF TypeOK
<1>7. TypeOK'
  BY <1>1, <1>3, <1>5 DEF TypeOK, loopVars
<1>8. FaultsOK'
  BY <1>1, <1>4, <1>5, <1>6 DEF LoopInv, FaultsOK, InFault
<1>9. VictimsOK'
  BY <1>1, <1>4, <1>5, <1>6 DEF LoopInv, VictimsOK, InFault, loopVars
<1> QED
  BY <1>5, <1>7, <1>8, <1>9 DEF LoopInv

\* Taking the tail of the list, and evicting it, keep LoopInv.
LEMMA EvictStep ==
    ASSUME LoopInv, NEW t \in App, UNCHANGED load,
           getFromLRUList(t) \/ pickPodToEvict(t)
    PROVE  LoopInv'
<1>1. TypeOK /\ Pod' = Pod
  BY DEF LoopInv, Pod
<1>2. CASE getFromLRUList(t)
  <2> DEFINE p == Last(LRUList)
  <2>1. /\ LRUList # <<>> /\ owner[p] = None /\ owner' = [owner EXCEPT ![p] = t]
        /\ LRUList' = Front(LRUList) /\ victim' = [victim EXCEPT ![t] = p]
        /\ loop' = [loop EXCEPT ![t] = "evict"] /\ loop[t] = "awake"
        /\ UNCHANGED <<state, threadVars, swapModeOn, prefetchVars>>
    BY <1>2 DEF getFromLRUList
  <2>2. /\ p \in ToSet(LRUList) /\ p \in Pod
        /\ LRUList' \in Seq(Pod)
        /\ ToSet(LRUList)' \subseteq ToSet(LRUList) \ {p}
        /\ \A i, j \in DOMAIN LRUList' : LRUList'[i] = LRUList'[j] => i = j
    BY <1>1, <2>1, FrontElements DEF LoopInv, TypeOK, ListOK
  <2> HIDE DEF p
  <2>3. \A u \in App : /\ pc[u] \in InFault => cur[u] # p
                       /\ loop[u] = "evict" => victim[u] # p
    BY <2>1, <2>2, FreePod
  <2>4. TypeOK'
    BY <1>1, <2>1, <2>2 DEF TypeOK, threadVars, prefetchVars
  <2>5. /\ owner'[p] = t /\ loop'[t] = "evict" /\ victim'[t] = p
        /\ \A u \in App \ {t} : loop'[u] = loop[u] /\ victim'[u] = victim[u]
        /\ \A q \in Pod \ {p} : owner'[q] = owner[q]
    BY <1>1, <2>1, <2>2 DEF TypeOK
  <2>6. ListOK'
    BY <2>1, <2>2 DEF LoopInv, ListOK
  <2>7. FaultsOK'
    BY <1>1, <2>1, <2>3, <2>5 DEF LoopInv, FaultsOK, InFault, threadVars
  <2>8. VictimsOK'
    BY <1>1, <2>1, <2>2, <2>3, <2>5 DEF LoopInv, VictimsOK, threadVars
  <2> QED
    BY <2>4, <2>6, <2>7, <2>8 DEF LoopInv
<1>3. CASE pickPodToEvict(t)
  <2> DEFINE p == victim[t]
  <2>1. /\ loop[t] = "evict" /\ state' = [state EXCEPT ![p] = "disk"]
        /\ owner' = [owner EXCEPT ![p] = None] /\ victim' = [victim EXCEPT ![t] = None]
        /\ loop' = [loop EXCEPT ![t] = "awake"]
        /\ UNCHANGED <<LRUList, threadVars, swapModeOn, prefetchVars>>
    BY <1>3 DEF pickPodToEvict
  <2>2. p \in Pod /\ owner[p] = t /\ p \notin ToSet(LRUList)
    BY <2>1 DEF LoopInv, VictimsOK
  <2> HIDE DEF p
  <2>3. /\ \A u \in App : pc[u] \in InFault => cur[u] # p
        /\ \A u \in App \ {t} : loop[u] = "evict" => victim[u] # p
    BY <2>1, <2>2 DEF LoopInv, FaultsOK, VictimsOK, p
  <2>4. TypeOK'
    BY <1>1, <2>1, <2>2 DEF TypeOK, threadVars, prefetchVars
  <2>5. /\ loop'[t] = "awake"
        /\ \A u \in App \ {t} : loop'[u] = loop[u] /\ victim'[u] = victim[u]
        /\ \A q \in Pod \ {p} : owner'[q] = owner[q] /\ state'[q] = state[q]
    BY <1>1, <2>1, <2>2 DEF TypeOK
  <2>6. \A q \in ToSet(LRUList) : q \in Pod \ {p}
    BY <1>1, <2>2 DEF TypeOK, ToSet
  <2>7. ListOK'
    BY <2>1, <2>5, <2>6 DEF LoopInv, ListOK
  <2>8. FaultsOK'
    BY <1>1, <2>1, <2>3, <2>5 DEF LoopInv, FaultsOK, InFault, threadVars
  <2>9. VictimsOK'
    BY <1>1, <2>1, <2>3, <2>5 DEF LoopInv, VictimsOK, threadVars
  <2> QED
    BY <2>4, <2>7, <2>8, <2>9 DEF LoopInv
<1> QED
  BY <1>2, <1>3

\* A prefetch keeps LoopInv.
LEMMA WorkerStep ==
    ASSUME LoopInv, UNCHANGED load, PrefetchStep
    PROVE  LoopInv'
<1>1. TypeOK /\ Pod' = Pod
  BY DEF LoopInv, Pod
<1>2. PICK p \in Pod : prefetch(p) \/ prefetchPod(p)
  BY DEF PrefetchStep
<1>3. /\ UNCHANGED <<owner, threadVars, loopVars, swapModeOn>>
      /\ tasks' \in SUBSET Pod /\ taskCombo' \in SUBSET Pod
  BY <1>1, <1>2 DEF prefetch, prefetchPod, TypeOK
<1>4. CASE UNCHANGED <<state, LRUList>>
  BY <1>1, <1>3, <1>4 DEF LoopInv, TypeOK, ListOK, FaultsOK, VictimsOK, threadVars, loopVars
<1>5. CASE ~UNCHANGED <<state, LRUList>>
  <2>1. PICK s \in {"local", "diskCache"} :
           /\ state' = [state EXCEPT ![p] = s] /\ owner[p] = None /\ updateLRUList(p)
    BY <1>2, <1>5 DEF prefetch, prefetchPod
  <2>2. \A u \in App : /\ pc[u] \in InFault => cur[u] # p
                       /\ loop[u] = "evict" => victim[u] # p
    BY <2>1, FreePod
  <2>3. /\ ListOK' /\ LRUList' \in Seq(Pod)
        /\ state' \in [Pod -> {"init", "local", "disk", "diskCache"}]
        /\ \A q \in Pod \ {p} : state'[q] = state[q]
        /\ \A u \in App : loop[u] = "evict" => victim[u] \notin ToSet(LRUList)'
    BY <1>3, <2>1, <2>2, MakeResident DEF loopVars
  <2>4. TypeOK'
    BY <1>1, <1>3, <2>3 DEF TypeOK, threadVars, loopVars
  <2>5. FaultsOK'
    BY <1>1, <1>3, <2>2, <2>3 DEF LoopInv, FaultsOK, InFault, threadVars
  <2>6. VictimsOK'
    BY <1>1, <1>3, <2>3 DEF LoopInv, VictimsOK, threadVars, loopVars
  <2> QED
    BY <2>3, <2>4, <2>5, <2>6 DEF LoopInv
<1> QED
  BY <1>4, <1>5

\* Every step keeps LoopInv.
LEMMA NextInv == LoopInv /\ [Next]_vars => LoopInv'
<1> SUFFICES ASSUME LoopInv, [Next]_vars PROVE LoopInv'
  OBVIOUS
<1>1. CASE UNCHANGED vars
  BY <1>1 DEF vars, threadVars, loopVars, prefetchVars, LoopInv, TypeOK, ListOK, FaultsOK,
              VictimsOK, Pod
<1>2. CASE Next
  <2>1. UNCHANGED load /\ load.threads \subseteq App
    BY <1>2, FreeLoopAssumption DEF Next, LoopInv, TypeOK
  <2>2. CASE \E t \in load.threads : \/ \E p \in Pod : activateAddress(t, p)
                                     \/ FaultStep(t) \/ LoopStep(t)
    <3>1. PICK t \in load.threads : \/ \E p \in Pod : activateAddress(t, p)
                                    \/ FaultStep(t) \/ LoopStep(t)
      BY <2>2
    <3>2. t \in App
      BY <2>1
    <3> QED
      BY <2>1, <3>1, <3>2, LoopQuiet, FaultStart, ActivateStep, EvictStep
      DEF FaultStep, LoopStep
  <2>3. CASE peakRamMain
    BY <2>1, <2>3, LoopQuiet
  <2>4. CASE PrefetchStep
    BY <2>1, <2>4, WorkerStep
  <2> QED
    BY <1>2, <2>2, <2>3, <2>4 DEF Next, Step
<1> QED
  BY <1>1, <1>2

\* LoopInv holds throughout every execution, whatever pages, threads and room there
\* are.
THEOREM LoopInvariance == Spec => []LoopInv
<1> QED
  BY InitInv, NextInv, PTL DEF Spec

\* A fault that waits for room holds the mutex of its page, which stops every free
\* loop while the page is the tail of the LRU list: unless a prefetch has cached it,
\* it is not on the list.
THEOREM WaitersAreOffTheList == Spec => []WaitersOffTheList
<1>1. LoopInv => WaitersOffTheList
  <2> SUFFICES ASSUME LoopInv, NEW t \in App, pc[t] = "spin", state[cur[t]] # "diskCache"
               PROVE  cur[t] \notin ToSet(LRUList)
    BY DEF WaitersOffTheList
  <2> QED
    BY DEF LoopInv, ListOK, FaultsOK
<1> QED
  BY <1>1, LoopInvariance, PTL
=============================================================================

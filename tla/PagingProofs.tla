---------------------------- MODULE PagingProofs ----------------------------
(***************************************************************************)
(* Proofs about Paging, for every number of pods, threads and memory       *)
(* nodes: the inductive invariant PagingInv, the invariants that follow    *)
(* from it, and that paging implements AtomicMemory.                       *)
(***************************************************************************)
EXTENDS Paging, SequenceTheorems, TLAPS

(***************************************************************************)
(* The LRU list.                                                           *)
(***************************************************************************)

\* What std::list::erase leaves: the elements before and after the iterator.
LEMMA RemoveAtElements ==
    ASSUME NEW S, NEW s \in Seq(S), NEW i \in 1..Len(s)
    PROVE  /\ RemoveAt(s, i) \in Seq(S)
           /\ Len(RemoveAt(s, i)) = Len(s) - 1
           /\ \A j \in 1..(Len(s) - 1) :
                  RemoveAt(s, i)[j] = IF j < i THEN s[j] ELSE s[j + 1]
<1> DEFINE a == SubSeq(s, 1, i - 1)
           b == SubSeq(s, i + 1, Len(s))
<1>0. Len(s) \in Nat /\ \A j \in 1..Len(s) : s[j] \in S
  OBVIOUS
<1>1. a \in Seq(S) /\ Len(a) = i - 1 /\ \A j \in 1..(i - 1) : a[j] = s[j]
  <2>1. \A j \in 1..(i - 1) : s[j] \in S
    BY <1>0
  <2>. QED
    BY <1>0, <2>1, SubSeqProperties
<1>2. b \in Seq(S) /\ Len(b) = Len(s) - i /\ \A j \in 1..(Len(s) - i) : b[j] = s[i + j]
  <2>1. \A j \in (i + 1)..Len(s) : s[j] \in S
    BY <1>0
  <2>. QED
    BY <1>0, <2>1, SubSeqProperties
<1>3. RemoveAt(s, i) = a \o b
  BY DEF RemoveAt
<1> HIDE DEF a, b
<1>4. /\ a \o b \in Seq(S) /\ Len(a \o b) = Len(a) + Len(b)
      /\ \A j \in 1..(Len(a) + Len(b)) :
            (a \o b)[j] = IF j <= Len(a) THEN a[j] ELSE b[j - Len(a)]
  BY <1>1, <1>2, ConcatProperties
<1>5. Len(a) + Len(b) = Len(s) - 1
  BY <1>0, <1>1, <1>2
<1>6. ASSUME NEW j \in 1..(Len(s) - 1)
      PROVE  (a \o b)[j] = IF j < i THEN s[j] ELSE s[j + 1]
  <2>1. CASE j < i
    BY <1>0, <1>1, <1>4, <1>5, <2>1
  <2>2. CASE ~(j < i)
    <3>1. (a \o b)[j] = b[j - (i - 1)]
      BY <1>0, <1>1, <1>4, <1>5, <2>2
    <3>2. j - (i - 1) \in 1..(Len(s) - i) /\ i + (j - (i - 1)) = j + 1
      BY <1>0, <2>2
    <3>. QED
      BY <3>1, <3>2, <1>2, <2>2
  <2>. QED
    BY <2>1, <2>2
<1>. QED
  BY <1>3, <1>4, <1>5, <1>6

LRUTypeOK == LRUList \in Seq(Pod) /\ LRUIterIsValid \in [Pod -> BOOLEAN]

\* Taking p off the list removes p and nothing else, and keeps it free of
\* duplicates.
LEMMA ErasedElements ==
    ASSUME NEW p \in Pod, LRUTypeOK, LRUConsistent
    PROVE  /\ Erased(p) \in Seq(Pod)
           /\ \A q \in Pod : q \in ToSet(Erased(p)) <=> q \in ToSet(LRUList) /\ q # p
           /\ \A i, j \in DOMAIN Erased(p) : Erased(p)[i] = Erased(p)[j] => i = j
<1>1. CASE ~LRUIterIsValid[p]
  BY <1>1 DEF Erased, LRUTypeOK, LRUConsistent
<1>2. CASE LRUIterIsValid[p]
  <2> DEFINE n == Len(LRUList)
             k == LRUIter(p)
             e == RemoveAt(LRUList, k)
  <2>1. n \in Nat /\ DOMAIN LRUList = 1..n
    BY DEF LRUTypeOK
  <2>2. k \in 1..n /\ LRUList[k] = p
    BY <1>2, <2>1 DEF LRUIter, LRUConsistent, ToSet
  <2>3. /\ e \in Seq(Pod) /\ Len(e) = n - 1
        /\ \A j \in 1..(n - 1) : e[j] = IF j < k THEN LRUList[j] ELSE LRUList[j + 1]
    BY <2>2, RemoveAtElements DEF LRUTypeOK
  <2>4. Erased(p) = e
    BY <1>2 DEF Erased
  <2>5. DOMAIN e = 1..(n - 1)
    BY <2>3, <2>1
  <2>6. \A i, j \in 1..n : LRUList[i] = LRUList[j] => i = j
    BY <2>1 DEF LRUConsistent
  <2> HIDE DEF n, k, e
  <2>7. \A i, j \in DOMAIN e : e[i] = e[j] => i = j
    BY <2>1, <2>2, <2>3, <2>5, <2>6
  <2>8. ASSUME NEW q \in Pod
        PROVE  q \in ToSet(e) <=> q \in ToSet(LRUList) /\ q # p
    <3>1. ASSUME q \in ToSet(e)
          PROVE  q \in ToSet(LRUList) /\ q # p
      <4>1. PICK j \in 1..(n - 1) : e[j] = q
        BY <3>1, <2>5 DEF ToSet
      <4>2. PICK m \in 1..n : LRUList[m] = q /\ m # k
        BY <4>1, <2>1, <2>2, <2>3
      <4>. QED
        BY <4>2, <2>1, <2>2, <2>6 DEF ToSet
    <3>2. ASSUME q \in ToSet(LRUList), q # p
          PROVE  q \in ToSet(e)
      <4>1. PICK m \in 1..n : LRUList[m] = q
        BY <3>2, <2>1 DEF ToSet
      <4>2. CASE m < k
        <5>1. m \in 1..(n - 1) /\ e[m] = q
          BY <4>1, <4>2, <2>1, <2>2, <2>3
        <5>. QED
          BY <5>1, <2>5 DEF ToSet
      <4>3. CASE m > k
        <5>1. m - 1 \in 1..(n - 1) /\ e[m - 1] = q
          BY <4>1, <4>3, <2>1, <2>2, <2>3
        <5>. QED
          BY <5>1, <2>5 DEF ToSet
      <4>4. m # k
        BY <4>1, <3>2, <2>2
      <4>. QED
        BY <4>2, <4>3, <4>4, <2>1, <2>2
    <3>. QED
      BY <3>1, <3>2
  <2>. QED
    BY <2>3, <2>4, <2>7, <2>8
<1>. QED
  BY <1>1, <1>2

\* updateLRUList, which moves a pod to the front, keeps flags and list in step.
LEMMA updateLRUListConsistent ==
    ASSUME NEW p \in Pod, LRUTypeOK, LRUConsistent, updateLRUList(p)
    PROVE  LRUTypeOK' /\ LRUConsistent'
<1>1. CASE UNCHANGED lruVars
  BY <1>1 DEF lruVars, LRUTypeOK, LRUConsistent
<1>2. CASE LRUList' = <<p>> \o Erased(p)
           /\ LRUIterIsValid' = [LRUIterIsValid EXCEPT ![p] = TRUE]
  <2> DEFINE e == Erased(p)
             n == Len(e)
             l == <<p>> \o e
  <2>1. /\ e \in Seq(Pod)
        /\ \A q \in Pod : q \in ToSet(e) <=> q \in ToSet(LRUList) /\ q # p
        /\ \A i, j \in DOMAIN e : e[i] = e[j] => i = j
    BY ErasedElements
  <2>2. n \in Nat /\ DOMAIN e = 1..n
    BY <2>1
  <2> HIDE DEF e
  <2>3. /\ l \in Seq(Pod) /\ DOMAIN l = 1..(n + 1)
        /\ l[1] = p /\ \A j \in 1..n : l[j + 1] = e[j]
    BY <2>1, <2>2
  <2>4. ASSUME NEW q \in Pod
        PROVE  q \in ToSet(l) <=> q = p \/ q \in ToSet(e)
    <3>1. ASSUME q \in ToSet(l) PROVE q = p \/ q \in ToSet(e)
      <4>1. PICK j \in 1..(n + 1) : l[j] = q
        BY <3>1, <2>3 DEF ToSet
      <4>2. CASE j = 1
        BY <4>1, <4>2, <2>3
      <4>3. CASE j # 1
        <5>1. j - 1 \in 1..n /\ (j - 1) + 1 = j
          BY <4>3, <2>2
        <5>2. l[j] = e[j - 1]
          BY <5>1, <2>3
        <5>. QED
          BY <5>1, <5>2, <4>1, <2>2 DEF ToSet
      <4>. QED
        BY <4>2, <4>3
    <3>2. p \in ToSet(l)
      BY <2>2, <2>3 DEF ToSet
    <3>3. ASSUME q \in ToSet(e) PROVE q \in ToSet(l)
      <4>1. PICK j \in 1..n : e[j] = q
        BY <3>3, <2>2 DEF ToSet
      <4>2. j + 1 \in 1..(n + 1) /\ l[j + 1] = q
        BY <4>1, <2>2, <2>3
      <4>. QED
        BY <4>2, <2>3 DEF ToSet
    <3>. QED
      BY <3>1, <3>2, <3>3
  <2>5. \A j \in 1..n : e[j] # p
    BY <2>1, <2>2 DEF ToSet
  <2>6. ASSUME NEW i \in DOMAIN l, NEW j \in DOMAIN l, l[i] = l[j] PROVE i = j
    <3>1. ASSUME NEW m \in 1..(n + 1), m # 1
          PROVE  m - 1 \in 1..n /\ l[m] = e[m - 1]
      <4>1. m - 1 \in 1..n /\ (m - 1) + 1 = m
        BY <3>1, <2>2
      <4>. QED
        BY <4>1, <2>3
    <3>. QED
      BY <3>1, <2>1, <2>2, <2>3, <2>5, <2>6
  <2>7. LRUList' = l
    BY <1>2 DEF e
  <2> HIDE DEF l, n
  <2>. QED
    BY <1>2, <2>1, <2>3, <2>4, <2>6, <2>7 DEF LRUTypeOK, LRUConsistent
<1>. QED
  BY <1>1, <1>2 DEF updateLRUList

\* So does tailPodInLRUList, which moves a pod to the back for remonDemote.
LEMMA tailPodInLRUListConsistent ==
    ASSUME NEW p \in Pod, LRUTypeOK, LRUConsistent, tailPodInLRUList(p)
    PROVE  LRUTypeOK' /\ LRUConsistent'
<1>1. CASE UNCHANGED lruVars
  BY <1>1 DEF lruVars, LRUTypeOK, LRUConsistent
<1>2. CASE LRUList' = Append(Erased(p), p)
           /\ LRUIterIsValid' = [LRUIterIsValid EXCEPT ![p] = TRUE]
  <2> DEFINE e == Erased(p)
             n == Len(e)
             l == Append(e, p)
  <2>1. /\ e \in Seq(Pod)
        /\ \A q \in Pod : q \in ToSet(e) <=> q \in ToSet(LRUList) /\ q # p
        /\ \A i, j \in DOMAIN e : e[i] = e[j] => i = j
    BY ErasedElements
  <2>2. n \in Nat /\ DOMAIN e = 1..n
    BY <2>1
  <2> HIDE DEF e
  <2>3. /\ l \in Seq(Pod) /\ DOMAIN l = 1..(n + 1)
        /\ l[n + 1] = p /\ \A j \in 1..n : l[j] = e[j]
    BY <2>1, <2>2
  <2>4. \A q \in Pod : q \in ToSet(l) <=> q = p \/ q \in ToSet(e)
    BY <2>2, <2>3 DEF ToSet
  <2>5. \A j \in 1..n : e[j] # p
    BY <2>1, <2>2 DEF ToSet
  <2>6. \A i, j \in DOMAIN l : l[i] = l[j] => i = j
    BY <2>1, <2>2, <2>3, <2>5
  <2>7. LRUList' = l
    BY <1>2 DEF e
  <2> HIDE DEF l, n
  <2>. QED
    BY <1>2, <2>1, <2>3, <2>4, <2>6, <2>7 DEF LRUTypeOK, LRUConsistent
<1>. QED
  BY <1>1, <1>2 DEF tailPodInLRUList

\* So does getFromLRUList, which pops the back and clears the pod's flag.
LEMMA getFromLRUListConsistent ==
    ASSUME NEW e \in Evictor, LRUTypeOK, LRUConsistent, getFromLRUList(e)
    PROVE  /\ Last(LRUList) \in Pod
           /\ LRUTypeOK' /\ LRUConsistent'
<1> DEFINE n == Len(LRUList)
           p == Last(LRUList)
<1>1. n \in Nat /\ n > 0 /\ DOMAIN LRUList = 1..n /\ p = LRUList[n] /\ p \in Pod
  BY DEF getFromLRUList, LRUTypeOK, Last
<1>2. LRUList' = SubSeq(LRUList, 1, n - 1)
      /\ LRUIterIsValid' = [LRUIterIsValid EXCEPT ![p] = FALSE]
  BY DEF getFromLRUList, Front
<1>3. /\ LRUList' \in Seq(Pod) /\ DOMAIN LRUList' = 1..(n - 1)
      /\ \A j \in 1..(n - 1) : LRUList'[j] = LRUList[j]
  <2>1. \A j \in 1..(n - 1) : LRUList[j] \in Pod
    BY <1>1 DEF LRUTypeOK
  <2>2. /\ SubSeq(LRUList, 1, n - 1) \in Seq(Pod)
        /\ Len(SubSeq(LRUList, 1, n - 1)) = n - 1
        /\ \A j \in 1..(n - 1) : SubSeq(LRUList, 1, n - 1)[j] = LRUList[j]
    BY <1>1, <2>1, SubSeqProperties
  <2>. QED
    BY <1>1, <1>2, <2>2
<1> HIDE DEF n, p
<1>4. \A i, j \in 1..n : LRUList[i] = LRUList[j] => i = j
  BY <1>1 DEF LRUConsistent
<1>5. ASSUME NEW q \in Pod
      PROVE  q \in ToSet(LRUList') <=> q \in ToSet(LRUList) /\ q # p
  <2>1. ASSUME q \in ToSet(LRUList') PROVE q \in ToSet(LRUList) /\ q # p
    <3>1. PICK j \in 1..(n - 1) : LRUList[j] = q
      BY <2>1, <1>3 DEF ToSet
    <3>. QED
      BY <3>1, <1>1, <1>4 DEF ToSet
  <2>2. ASSUME q \in ToSet(LRUList), q # p PROVE q \in ToSet(LRUList')
    <3>1. PICK j \in 1..n : LRUList[j] = q
      BY <2>2, <1>1 DEF ToSet
    <3>2. j \in 1..(n - 1)
      BY <3>1, <2>2, <1>1
    <3>. QED
      BY <3>1, <3>2, <1>3 DEF ToSet
  <2>. QED
    BY <2>1, <2>2
<1>. QED
  BY <1>1, <1>2, <1>3, <1>4, <1>5 DEF LRUTypeOK, LRUConsistent, p

-----------------------------------------------------------------------------
(***************************************************************************)
(* The inductive invariant.                                                *)
(***************************************************************************)
\* The constructor leaves no page allocated, evicted, locked or listed.
LEMMA InitPagingInv == Init => PagingInv
<1> SUFFICES ASSUME Init PROVE PagingInv
  OBVIOUS
<1> USE PagingAssumption DEF Init
<1>1. TypeOK
  BY DEF TypeOK, PodState, Data, Destination, Op
<1>2. MutexInv /\ UseInv
  BY DEF MutexInv, UseInv, Locked, InTransit, Unlocked, TypeOK
<1>3. LRUConsistent
  BY DEF LRUConsistent, ToSet
<1>4. ASSUME NEW p \in Pod
      PROVE  CopyInv(p) /\ ProtInv(p) /\ HolderState(p)
  BY DEF CopyInv, ProtInv, HolderState, SettledCopy, NoCopy, HasRemoteCopy, Label,
         Unlocked, InTransit
<1>. QED
  BY <1>1, <1>2, <1>3, <1>4 DEF PagingInv

\* Every step is a step of one thread, or of one call, on one pod.
LEMMA NextTypeOK == PagingInv /\ [Next]_vars => TypeOK'
<1> SUFFICES ASSUME PagingInv, [Next]_vars PROVE TypeOK'
  OBVIOUS
<1> USE PagingAssumption DEF At, GoTo, Return, Start, Unlock, DropMemory,
        podVars, lruVars, threadVars, TypeOK, Thread
<1>0. TypeOK /\ LRUTypeOK /\ LRUConsistent /\ MutexInv
  BY DEF PagingInv, LRUTypeOK
<1>1. ASSUME NEW t \in App, NEW p \in Pod, NEW o \in Value \cup {"read"},
             BeginAccess(t, p, o) PROVE TypeOK'
  BY <1>0, <1>1 DEF BeginAccess, MutexInv, Locked, InTransit, PodState, Data,
     Destination, Op
<1>2. ASSUME NEW t \in App, NEW p \in Pod, hugeMalloc(t, p) PROVE TypeOK'
  <2>1. isFree' \in [Pod -> BOOLEAN]
    <3>1. PICK b \in {FALSE, isFree[p]} : isFree' = [isFree EXCEPT ![p] = b]
      BY <1>2 DEF hugeMalloc
    <3>2. b \in BOOLEAN
      BY <1>0
    <3>. QED
      BY <1>0, <3>1, <3>2
  <2>. QED
    BY <1>0, <1>2, <2>1 DEF hugeMalloc, Op
<1>3. ASSUME NEW t \in App, NEW p \in Pod, remonPromotePod(t, p) PROVE TypeOK'
  BY <1>0, <1>3 DEF remonPromotePod, MutexInv, Locked, InTransit, PodState, Data,
     Destination, Op
<1>4. ASSUME NEW t \in App, Read(t) PROVE TypeOK'
  BY <1>0, <1>4 DEF Read, MutexInv, Locked, InTransit, PodState, Data, Destination, Op
<1>5. ASSUME NEW t \in App, Write(t) PROVE TypeOK'
  BY <1>0, <1>5 DEF Write, MutexInv, Locked, InTransit, PodState, Data, Destination, Op
<1>6. ASSUME NEW t \in App, Fault(t) PROVE TypeOK'
  BY <1>0, <1>6 DEF Fault, MutexInv, Locked, InTransit, PodState, Data, Destination, Op
<1>7. ASSUME NEW t \in App, activateAddress(t) PROVE TypeOK'
  BY <1>0, <1>7 DEF activateAddress, MutexInv, Locked, InTransit, PodState, Data,
     Destination, Op
<1>8. ASSUME NEW t \in App, Lock(t) PROVE TypeOK'
  BY <1>0, <1>8 DEF Lock, MutexInv, Locked, InTransit, PodState, Data, Destination, Op
<1>9. ASSUME NEW t \in App, ActivateResident(t) PROVE TypeOK'
  BY <1>0, <1>9 DEF ActivateResident, MutexInv, Locked, InTransit, PodState, Data,
     Destination, Op
<1>10. ASSUME NEW t \in App, diskToLocalPinned(t) PROVE TypeOK'
  BY <1>0, <1>10 DEF diskToLocalPinned, MutexInv, Locked, InTransit, PodState, Data,
     Destination, Op
<1>11. ASSUME NEW t \in App, remoteToLocalPinned(t) PROVE TypeOK'
  BY <1>0, <1>11 DEF remoteToLocalPinned, MutexInv, Locked, InTransit, PodState, Data,
     Destination, Op
<1>12. ASSUME NEW t \in App, diskCacheToLocalPinned(t) PROVE TypeOK'
  BY <1>0, <1>12 DEF diskCacheToLocalPinned, MutexInv, Locked, InTransit, PodState,
     Data, Destination, Op
<1>13. ASSUME NEW t \in App, remoteCacheToLocalPinned(t) PROVE TypeOK'
  BY <1>0, <1>13 DEF remoteCacheToLocalPinned, MutexInv, Locked, InTransit, PodState,
     Data, Destination, Op
<1>14. ASSUME NEW t \in App, toReadAndWrite(t) PROVE TypeOK'
  BY <1>0, <1>14 DEF toReadAndWrite, MutexInv, Locked, InTransit, PodState, Data,
     Destination, Op
<1>15. ASSUME NEW t \in App, setLocalPinned(t) PROVE TypeOK'
  BY <1>0, <1>15 DEF setLocalPinned, MutexInv, Locked, InTransit, PodState, Data,
     Destination, Op
<1>16. ASSUME NEW t \in App, localPinnedToLocal(t) PROVE TypeOK'
  BY <1>0, <1>16 DEF localPinnedToLocal, MutexInv, Locked, InTransit, PodState, Data,
     Destination, Op
<1>17. ASSUME NEW p \in Pod, hugeFree(p) PROVE TypeOK'
  BY <1>0, <1>17 DEF hugeFree, MutexInv, Locked, InTransit, PodState, Data,
     Destination, Op
<1>18. ASSUME NEW p \in Pod, trimFreeBlock(p) PROVE TypeOK'
  BY <1>0, <1>18 DEF trimFreeBlock, MutexInv, Locked, InTransit, PodState, Data,
     Destination, Op
<1>19. ASSUME NEW p \in Pod, remonDemote(p) PROVE TypeOK'
  <2>1. LRUTypeOK'
    BY <1>0, <1>19, tailPodInLRUListConsistent DEF remonDemote
  <2>. QED
    BY <1>0, <1>19, <2>1 DEF remonDemote, LRUTypeOK
<1>20. ASSUME NEW t \in App, NEW p \in Pod, remon_cleanup_evicted(t, p) PROVE TypeOK'
  BY <1>0, <1>20 DEF remon_cleanup_evicted, Op
<1>20a. ASSUME NEW t \in App, toInit(t) PROVE TypeOK'
  <2>0. PICK p \in Pod : p = cur[t] /\ Label(p) = "cleanup"
    BY <1>0, <1>20a DEF toInit, MutexInv, Locked, InTransit, Label, Unlocked
  <2>1. /\ UNCHANGED <<prot, owner, LRUList, LRUIterIsValid, isFree, use, cur, op, dst>>
        /\ pc' = [pc EXCEPT ![t] = "done"]
    BY <1>20a DEF toInit
  <2>2. state' \in [Pod -> PodState] /\ mem' \in [Pod -> Data]
    BY <1>0, <1>20a, <2>0 DEF toInit, PodState, Data
  <2>3. /\ swapFile' \in [Pod -> Data \cup {NoData}] /\ swapPath' \in [Pod -> BOOLEAN]
        /\ landlord' \in [Pod -> Destination]
    BY <1>0, <1>20a, <2>0 DEF toInit, Destination
  <2>4. remoteCopy' \in [Peer -> [Pod -> Data \cup {NoData}]]
    <3>1. state[p] = "remote" => landlord[p] \in Peer
      BY <2>0 DEF PagingInv, CopyInv, SettledCopy, InTransit
    <3>2. \/ remoteCopy' = remoteCopy
          \/ /\ remoteCopy' = [remoteCopy EXCEPT ![landlord[p]][p] = NoData]
             /\ landlord[p] \in Peer
      BY <1>20a, <2>0, <3>1 DEF toInit
    <3>3. CASE remoteCopy' = [remoteCopy EXCEPT ![landlord[p]][p] = NoData]
               /\ landlord[p] \in Peer
      <4>1. [remoteCopy[landlord[p]] EXCEPT ![p] = NoData] \in [Pod -> Data \cup {NoData}]
        BY <1>0, <3>3
      <4>. QED
        BY <1>0, <3>3, <4>1
    <3>. QED
      BY <1>0, <3>2, <3>3
  <2>5. pc' \in [Thread -> {"run", "access", "check", "lock", "activate",
                            "mapped", "fetched", "writable", "pinned", "lru",
                            "cleanup", "done", "pick", "protect", "send", "hide",
                            "release", "prefetch", "exit"}]
    BY <1>0, <2>1
  <2>. QED
    BY <1>0, <2>1, <2>2, <2>3, <2>4, <2>5
<1>21. ASSUME NEW t \in Evictor, getFromLRUList(t) PROVE TypeOK'
  <2>1. LRUTypeOK' /\ Last(LRUList) \in Pod
    BY <1>0, <1>21, getFromLRUListConsistent
  <2>. QED
    BY <1>0, <1>21, <2>1 DEF getFromLRUList, LRUTypeOK, Op
<1>22. ASSUME NEW t \in Evictor, EvictFree(t) PROVE TypeOK'
  BY <1>0, <1>22 DEF EvictFree, MutexInv, Locked, InTransit, PodState, Data,
     Destination, Op
<1>23. ASSUME NEW t \in Evictor, EvictCache(t) PROVE TypeOK'
  BY <1>0, <1>23 DEF EvictCache, MutexInv, Locked, InTransit, PodState, Data,
     Destination, Op
<1>24. ASSUME NEW t \in Evictor, EvictNothing(t) PROVE TypeOK'
  BY <1>0, <1>24 DEF EvictNothing, MutexInv, Locked, InTransit, PodState, Data,
     Destination, Op
<1>25. ASSUME NEW t \in Evictor, swapToDisk(t) PROVE TypeOK'
  <2>1. state' \in [Pod -> PodState]
    BY <1>0, <1>25 DEF swapToDisk, PodState
  <2>2. pc' = [pc EXCEPT ![t] = "protect"] \/ pc' = [pc EXCEPT ![t] = "exit"]
    BY <1>25 DEF swapToDisk
  <2>. QED
    BY <1>0, <1>25, <2>1, <2>2 DEF swapToDisk, Destination
<1>26. ASSUME NEW t \in Evictor, toReadOnly(t) PROVE TypeOK'
  BY <1>0, <1>26 DEF toReadOnly, MutexInv, Locked, InTransit, PodState, Data,
     Destination, Op
<1>27. ASSUME NEW t \in Evictor, SendPage(t) PROVE TypeOK'
  <2>1. cur[t] \in Pod
    BY <1>0, <1>27 DEF SendPage, MutexInv, Locked, InTransit
  <2>2. mem[cur[t]] \in Data
    BY <1>0, <2>1
  <2>3. swapFile' \in [Pod -> Data \cup {NoData}]
    BY <1>0, <1>27, <2>1, <2>2 DEF SendPage
  <2>4. remoteCopy' \in [Peer -> [Pod -> Data \cup {NoData}]]
    BY <1>0, <1>27, <2>1, <2>2 DEF SendPage
  <2>. QED
    BY <1>0, <1>27, <2>3, <2>4 DEF SendPage
<1>28. ASSUME NEW t \in Evictor, toNone(t) PROVE TypeOK'
  BY <1>0, <1>28 DEF toNone, MutexInv, Locked, InTransit, PodState, Data, Destination,
     Op
<1>29. ASSUME NEW t \in Evictor, ReleaseEvicted(t) PROVE TypeOK'
  <2>1. cur[t] \in Pod
    BY <1>0, <1>29 DEF ReleaseEvicted, MutexInv, Locked, InTransit
  <2>2. swapPath' \in [Pod -> BOOLEAN]
    BY <1>0, <1>29, <2>1 DEF ReleaseEvicted
  <2>3. landlord' \in [Pod -> Destination] /\ state' \in [Pod -> PodState]
    BY <1>0, <1>29, <2>1 DEF ReleaseEvicted, Destination, PodState
  <2>. QED
    BY <1>0, <1>29, <2>1, <2>2, <2>3 DEF ReleaseEvicted, Data
<1>30. ASSUME NEW t \in Evictor, NEW n \in Peer, remoteSwap(t, n) PROVE TypeOK'
  BY <1>0, <1>30 DEF remoteSwap, MutexInv, Locked, InTransit, PodState, Data,
     Destination, Op
<1>31. ASSUME NEW t \in Worker, diskToDiskCache(t) PROVE TypeOK'
  BY <1>0, <1>31 DEF diskToDiskCache, MutexInv, Locked, InTransit, PodState, Data,
     Destination, Op
<1>32. ASSUME NEW t \in Worker, remoteToRemoteCache(t) PROVE TypeOK'
  BY <1>0, <1>32 DEF remoteToRemoteCache, MutexInv, Locked, InTransit, PodState, Data,
     Destination, Op
<1>33. ASSUME NEW t \in Worker, PrefetchNothing(t) PROVE TypeOK'
  BY <1>0, <1>33 DEF PrefetchNothing, MutexInv, Locked, InTransit, PodState, Data,
     Destination, Op
<1>34. ASSUME NEW t \in Worker, NEW p \in Pod, prefetch(t, p) PROVE TypeOK'
  BY <1>0, <1>34 DEF prefetch, MutexInv, Locked, InTransit, PodState, Data,
     Destination, Op
<1>35. ASSUME NEW t \in App \cup Worker, initToLocal(t) PROVE TypeOK'
  BY <1>0, <1>35 DEF initToLocal, MutexInv, Locked, InTransit, PodState, Data,
     Destination, Op
<1>36. ASSUME NEW t \in App \cup Worker, initToLocalOpen(t) PROVE TypeOK'
  BY <1>0, <1>36 DEF initToLocalOpen, MutexInv, Locked, InTransit, PodState, Data,
     Destination, Op
<1>37. ASSUME NEW t \in App \cup Worker, RefreshLRU(t) PROVE TypeOK'
  <2>1. cur[t] \in Pod
    BY <1>0, <1>37 DEF RefreshLRU, MutexInv, Locked, InTransit
  <2>2. LRUTypeOK'
    BY <1>0, <1>37, <2>1, updateLRUListConsistent DEF RefreshLRU
  <2>. QED
    BY <1>0, <1>37, <2>2 DEF RefreshLRU, LRUTypeOK
<1>38. ASSUME NEW t \in Thread, Finish(t) PROVE TypeOK'
  <2>1. cur[t] \in Pod
    BY <1>0, <1>38 DEF Finish, MutexInv, Locked, InTransit
  <2>2. isFree' \in [Pod -> BOOLEAN] /\ use' \in [Pod -> {"free", "claimed", "live"}]
    BY <1>0, <1>38, <2>1 DEF Finish
  <2>3. pc' = [pc EXCEPT ![t] = "run"] \/ pc' = [pc EXCEPT ![t] = "access"]
    BY <1>38 DEF Finish
  <2>4. cur' \in [Thread -> Pod \cup {NoPod}] /\ op' \in [Thread -> Op]
    BY <1>0, <1>38 DEF Finish, Op
  <2>5. pc' \in [Thread -> {"run", "access", "check", "lock", "activate",
                            "mapped", "fetched", "writable", "pinned", "lru",
                            "cleanup", "done", "pick", "protect", "send", "hide",
                            "release", "prefetch", "exit"}]
    BY <1>0, <2>3
  <2>6. owner' \in [Pod -> Thread \cup {NoThread}]
    BY <1>0, <1>38, <2>1 DEF Finish
  <2>. QED
    BY <1>0, <1>38, <2>2, <2>4, <2>5, <2>6 DEF Finish
<1>39. CASE UNCHANGED vars
  BY <1>0, <1>39 DEF vars
<1>. QED
  BY <1>1, <1>2, <1>3, <1>4, <1>5, <1>6, <1>7, <1>8, <1>9, <1>10, <1>11, <1>12, <1>13,
     <1>14, <1>15, <1>16, <1>17, <1>18, <1>19, <1>20, <1>20a, <1>21, <1>22, <1>23, <1>24,
     <1>25, <1>26, <1>27, <1>28, <1>29, <1>30, <1>31, <1>32, <1>33, <1>34, <1>35,
     <1>36, <1>37, <1>38, <1>39
     DEF Next, AppStep, CallStep, EvictorStep, WorkerStep

\* A thread takes a pod's mutex when it is free and gives it up in Finish.
LEMMA NextMutexInv == PagingInv /\ [Next]_vars => MutexInv'
<1> SUFFICES ASSUME PagingInv, [Next]_vars PROVE MutexInv'
  OBVIOUS
<1> USE PagingAssumption DEF At, GoTo, Return, Start, Unlock, DropMemory, podVars, lruVars,
        threadVars, Thread, TypeOK, MutexInv, Locked, InTransit, Unlocked
<1>0. TypeOK /\ LRUTypeOK /\ LRUConsistent /\ MutexInv /\ UseInv
  BY DEF PagingInv, LRUTypeOK, TypeOK
<1>1. ASSUME NEW t \in App, NEW p \in Pod, NEW o \in Value \cup {"read"},
             BeginAccess(t, p, o) PROVE MutexInv'
  BY <1>0, <1>1 DEF BeginAccess
<1>2. ASSUME NEW t \in App, NEW p \in Pod, hugeMalloc(t, p) PROVE MutexInv'
  BY <1>0, <1>2 DEF hugeMalloc
<1>3. ASSUME NEW t \in App, NEW p \in Pod, remonPromotePod(t, p) PROVE MutexInv'
  BY <1>0, <1>3 DEF remonPromotePod
<1>4. ASSUME NEW t \in App, Read(t) PROVE MutexInv'
  BY <1>0, <1>4 DEF Read
<1>5. ASSUME NEW t \in App, Write(t) PROVE MutexInv'
  BY <1>0, <1>5 DEF Write
<1>6. ASSUME NEW t \in App, Fault(t) PROVE MutexInv'
  BY <1>0, <1>6 DEF Fault
<1>7. ASSUME NEW t \in App, activateAddress(t) PROVE MutexInv'
  BY <1>0, <1>7 DEF activateAddress
<1>8. ASSUME NEW t \in App, Lock(t) PROVE MutexInv'
  BY <1>0, <1>8 DEF Lock
<1>9. ASSUME NEW t \in App, ActivateResident(t) PROVE MutexInv'
  BY <1>0, <1>9 DEF ActivateResident
<1>10. ASSUME NEW t \in App, diskToLocalPinned(t) PROVE MutexInv'
  BY <1>0, <1>10 DEF diskToLocalPinned
<1>11. ASSUME NEW t \in App, remoteToLocalPinned(t) PROVE MutexInv'
  BY <1>0, <1>11 DEF remoteToLocalPinned
<1>12. ASSUME NEW t \in App, diskCacheToLocalPinned(t) PROVE MutexInv'
  BY <1>0, <1>12 DEF diskCacheToLocalPinned
<1>13. ASSUME NEW t \in App, remoteCacheToLocalPinned(t) PROVE MutexInv'
  BY <1>0, <1>13 DEF remoteCacheToLocalPinned
<1>14. ASSUME NEW t \in App, toReadAndWrite(t) PROVE MutexInv'
  BY <1>0, <1>14 DEF toReadAndWrite
<1>15. ASSUME NEW t \in App, setLocalPinned(t) PROVE MutexInv'
  BY <1>0, <1>15 DEF setLocalPinned
<1>16. ASSUME NEW t \in App, localPinnedToLocal(t) PROVE MutexInv'
  BY <1>0, <1>16 DEF localPinnedToLocal
<1>17. ASSUME NEW p \in Pod, hugeFree(p) PROVE MutexInv'
  BY <1>0, <1>17 DEF hugeFree
<1>18. ASSUME NEW p \in Pod, trimFreeBlock(p) PROVE MutexInv'
  BY <1>0, <1>18 DEF trimFreeBlock
<1>19. ASSUME NEW p \in Pod, remonDemote(p) PROVE MutexInv'
  BY <1>0, <1>19 DEF remonDemote
<1>20. ASSUME NEW t \in App, NEW p \in Pod, remon_cleanup_evicted(t, p) PROVE MutexInv'
  BY <1>0, <1>20 DEF remon_cleanup_evicted
<1>20a. ASSUME NEW t \in App, toInit(t) PROVE MutexInv'
  BY <1>0, <1>20a DEF toInit
<1>21. ASSUME NEW t \in Evictor, getFromLRUList(t) PROVE MutexInv'
  <2>1. Last(LRUList) \in Pod
    BY <1>0, <1>21, getFromLRUListConsistent
  <2>. QED
    BY <1>0, <1>21, <2>1 DEF getFromLRUList
<1>22. ASSUME NEW t \in Evictor, EvictFree(t) PROVE MutexInv'
  BY <1>0, <1>22 DEF EvictFree
<1>23. ASSUME NEW t \in Evictor, EvictCache(t) PROVE MutexInv'
  BY <1>0, <1>23 DEF EvictCache
<1>24. ASSUME NEW t \in Evictor, EvictNothing(t) PROVE MutexInv'
  BY <1>0, <1>24 DEF EvictNothing
<1>25. ASSUME NEW t \in Evictor, swapToDisk(t) PROVE MutexInv'
  <2>1. /\ pc[t] = "pick" /\ UNCHANGED <<cur, owner>>
        /\ \E m \in {"protect", "exit"} : pc' = [pc EXCEPT ![t] = m]
    BY <1>25 DEF swapToDisk
  <2>. QED
    BY <1>0, <2>1
<1>26. ASSUME NEW t \in Evictor, toReadOnly(t) PROVE MutexInv'
  BY <1>0, <1>26 DEF toReadOnly
<1>27. ASSUME NEW t \in Evictor, SendPage(t) PROVE MutexInv'
  BY <1>0, <1>27 DEF SendPage
<1>28. ASSUME NEW t \in Evictor, toNone(t) PROVE MutexInv'
  BY <1>0, <1>28 DEF toNone
<1>29. ASSUME NEW t \in Evictor, ReleaseEvicted(t) PROVE MutexInv'
  BY <1>0, <1>29 DEF ReleaseEvicted
<1>30. ASSUME NEW t \in Evictor, NEW n \in Peer, remoteSwap(t, n) PROVE MutexInv'
  BY <1>0, <1>30 DEF remoteSwap
<1>31. ASSUME NEW t \in Worker, diskToDiskCache(t) PROVE MutexInv'
  BY <1>0, <1>31 DEF diskToDiskCache
<1>32. ASSUME NEW t \in Worker, remoteToRemoteCache(t) PROVE MutexInv'
  BY <1>0, <1>32 DEF remoteToRemoteCache
<1>33. ASSUME NEW t \in Worker, PrefetchNothing(t) PROVE MutexInv'
  BY <1>0, <1>33 DEF PrefetchNothing
<1>34. ASSUME NEW t \in Worker, NEW p \in Pod, prefetch(t, p) PROVE MutexInv'
  BY <1>0, <1>34 DEF prefetch
<1>35. ASSUME NEW t \in App \cup Worker, initToLocal(t) PROVE MutexInv'
  BY <1>0, <1>35 DEF initToLocal
<1>36. ASSUME NEW t \in App \cup Worker, initToLocalOpen(t) PROVE MutexInv'
  BY <1>0, <1>36 DEF initToLocalOpen
<1>37. ASSUME NEW t \in App \cup Worker, RefreshLRU(t) PROVE MutexInv'
  BY <1>0, <1>37 DEF RefreshLRU
<1>38. ASSUME NEW t \in Thread, Finish(t) PROVE MutexInv'
  <2>1. /\ pc[t] = "done" /\ owner' = [owner EXCEPT ![cur[t]] = NoThread]
        /\ \/ pc' = [pc EXCEPT ![t] = "run"] /\ cur' = [cur EXCEPT ![t] = NoPod]
           \/ pc' = [pc EXCEPT ![t] = "access"] /\ cur' = cur /\ op[t] \in Value \cup {"read"}
    BY <1>38 DEF Finish
  <2>2. CASE cur' = [cur EXCEPT ![t] = NoPod] /\ pc' = [pc EXCEPT ![t] = "run"]
    BY <1>0, <2>1, <2>2
  <2>3. CASE cur' = cur /\ pc' = [pc EXCEPT ![t] = "access"] /\ op[t] \in Value \cup {"read"}
    <3>1. t \in App /\ cur[t] \in Pod
      BY <1>0, <2>3 DEF UseInv
    <3>. QED
      BY <1>0, <2>1, <2>3, <3>1
  <2>. QED
    BY <2>1, <2>2, <2>3
<1>39. CASE UNCHANGED vars
  BY <1>0, <1>39 DEF vars
<1>. QED
  BY <1>1, <1>2, <1>3, <1>4, <1>5, <1>6, <1>7, <1>8, <1>9, <1>10, <1>11, <1>12, <1>13,
     <1>14, <1>15, <1>16, <1>17, <1>18, <1>19, <1>20, <1>20a, <1>21, <1>22, <1>23, <1>24,
     <1>25, <1>26, <1>27, <1>28, <1>29, <1>30, <1>31, <1>32, <1>33, <1>34, <1>35,
     <1>36, <1>37, <1>38, <1>39
     DEF Next, AppStep, CallStep, EvictorStep, WorkerStep

\* Accesses stay on live pages, and a live page is never flagged isFree.
LEMMA NextUseInv == PagingInv /\ [Next]_vars => UseInv'
<1> SUFFICES ASSUME PagingInv, [Next]_vars PROVE UseInv'
  OBVIOUS
<1> USE PagingAssumption DEF At, GoTo, Return, Start, Unlock, DropMemory, podVars, lruVars,
        threadVars, Thread, TypeOK, UseInv, MutexInv, Locked, InTransit,
        Unlocked
<1>0. TypeOK /\ LRUTypeOK /\ LRUConsistent /\ MutexInv /\ UseInv
  BY DEF PagingInv, LRUTypeOK, TypeOK
<1>1. ASSUME NEW t \in App, NEW p \in Pod, NEW o \in Value \cup {"read"},
             BeginAccess(t, p, o) PROVE UseInv'
  BY <1>0, <1>1 DEF BeginAccess
<1>2. ASSUME NEW t \in App, NEW p \in Pod, hugeMalloc(t, p) PROVE UseInv'
  BY <1>0, <1>2 DEF hugeMalloc
<1>3. ASSUME NEW t \in App, NEW p \in Pod, remonPromotePod(t, p) PROVE UseInv'
  BY <1>0, <1>3 DEF remonPromotePod
<1>4. ASSUME NEW t \in App, Read(t) PROVE UseInv'
  BY <1>0, <1>4 DEF Read
<1>5. ASSUME NEW t \in App, Write(t) PROVE UseInv'
  BY <1>0, <1>5 DEF Write
<1>6. ASSUME NEW t \in App, Fault(t) PROVE UseInv'
  BY <1>0, <1>6 DEF Fault
<1>7. ASSUME NEW t \in App, activateAddress(t) PROVE UseInv'
  BY <1>0, <1>7 DEF activateAddress
<1>8. ASSUME NEW t \in App, Lock(t) PROVE UseInv'
  BY <1>0, <1>8 DEF Lock
<1>9. ASSUME NEW t \in App, ActivateResident(t) PROVE UseInv'
  BY <1>0, <1>9 DEF ActivateResident
<1>10. ASSUME NEW t \in App, diskToLocalPinned(t) PROVE UseInv'
  BY <1>0, <1>10 DEF diskToLocalPinned
<1>11. ASSUME NEW t \in App, remoteToLocalPinned(t) PROVE UseInv'
  BY <1>0, <1>11 DEF remoteToLocalPinned
<1>12. ASSUME NEW t \in App, diskCacheToLocalPinned(t) PROVE UseInv'
  BY <1>0, <1>12 DEF diskCacheToLocalPinned
<1>13. ASSUME NEW t \in App, remoteCacheToLocalPinned(t) PROVE UseInv'
  BY <1>0, <1>13 DEF remoteCacheToLocalPinned
<1>14. ASSUME NEW t \in App, toReadAndWrite(t) PROVE UseInv'
  BY <1>0, <1>14 DEF toReadAndWrite
<1>15. ASSUME NEW t \in App, setLocalPinned(t) PROVE UseInv'
  BY <1>0, <1>15 DEF setLocalPinned
<1>16. ASSUME NEW t \in App, localPinnedToLocal(t) PROVE UseInv'
  BY <1>0, <1>16 DEF localPinnedToLocal
<1>17. ASSUME NEW p \in Pod, hugeFree(p) PROVE UseInv'
  BY <1>0, <1>17 DEF hugeFree
<1>18. ASSUME NEW p \in Pod, trimFreeBlock(p) PROVE UseInv'
  BY <1>0, <1>18 DEF trimFreeBlock
<1>19. ASSUME NEW p \in Pod, remonDemote(p) PROVE UseInv'
  BY <1>0, <1>19 DEF remonDemote
<1>20. ASSUME NEW t \in App, NEW p \in Pod, remon_cleanup_evicted(t, p) PROVE UseInv'
  BY <1>0, <1>20 DEF remon_cleanup_evicted
<1>20a. ASSUME NEW t \in App, toInit(t) PROVE UseInv'
  BY <1>0, <1>20a DEF toInit
<1>21. ASSUME NEW t \in Evictor, getFromLRUList(t) PROVE UseInv'
  BY <1>0, <1>21 DEF getFromLRUList
<1>22. ASSUME NEW t \in Evictor, EvictFree(t) PROVE UseInv'
  BY <1>0, <1>22 DEF EvictFree
<1>23. ASSUME NEW t \in Evictor, EvictCache(t) PROVE UseInv'
  BY <1>0, <1>23 DEF EvictCache
<1>24. ASSUME NEW t \in Evictor, EvictNothing(t) PROVE UseInv'
  BY <1>0, <1>24 DEF EvictNothing
<1>25. ASSUME NEW t \in Evictor, swapToDisk(t) PROVE UseInv'
  BY <1>0, <1>25 DEF swapToDisk
<1>26. ASSUME NEW t \in Evictor, toReadOnly(t) PROVE UseInv'
  BY <1>0, <1>26 DEF toReadOnly
<1>27. ASSUME NEW t \in Evictor, SendPage(t) PROVE UseInv'
  BY <1>0, <1>27 DEF SendPage
<1>28. ASSUME NEW t \in Evictor, toNone(t) PROVE UseInv'
  BY <1>0, <1>28 DEF toNone
<1>29. ASSUME NEW t \in Evictor, ReleaseEvicted(t) PROVE UseInv'
  BY <1>0, <1>29 DEF ReleaseEvicted
<1>30. ASSUME NEW t \in Evictor, NEW n \in Peer, remoteSwap(t, n) PROVE UseInv'
  BY <1>0, <1>30 DEF remoteSwap
<1>31. ASSUME NEW t \in Worker, diskToDiskCache(t) PROVE UseInv'
  BY <1>0, <1>31 DEF diskToDiskCache
<1>32. ASSUME NEW t \in Worker, remoteToRemoteCache(t) PROVE UseInv'
  BY <1>0, <1>32 DEF remoteToRemoteCache
<1>33. ASSUME NEW t \in Worker, PrefetchNothing(t) PROVE UseInv'
  BY <1>0, <1>33 DEF PrefetchNothing
<1>34. ASSUME NEW t \in Worker, NEW p \in Pod, prefetch(t, p) PROVE UseInv'
  BY <1>0, <1>34 DEF prefetch
<1>35. ASSUME NEW t \in App \cup Worker, initToLocal(t) PROVE UseInv'
  BY <1>0, <1>35 DEF initToLocal
<1>36. ASSUME NEW t \in App \cup Worker, initToLocalOpen(t) PROVE UseInv'
  BY <1>0, <1>36 DEF initToLocalOpen
<1>37. ASSUME NEW t \in App \cup Worker, RefreshLRU(t) PROVE UseInv'
  BY <1>0, <1>37 DEF RefreshLRU
<1>38. ASSUME NEW t \in Thread, Finish(t) PROVE UseInv'
  <2>0. cur[t] \in Pod /\ pc[t] = "done"
    BY <1>0, <1>38 DEF Finish, MutexInv, Locked, InTransit
  <2>1. CASE /\ op[t] = "malloc" /\ Return(t, "run")
             /\ isFree' = [isFree EXCEPT ![cur[t]] = FALSE]
             /\ use' = [use EXCEPT ![cur[t]] = "live"]
    BY <1>0, <2>0, <2>1 DEF TypeOK, UseInv
  <2>2. CASE op[t] \in Value \cup {"read"} /\ GoTo(t, "access")
             /\ UNCHANGED <<isFree, use, cur, op>>
    BY <1>0, <2>0, <2>2 DEF TypeOK, UseInv
  <2>3. CASE op[t] \in {"none", "promote", "cleanup"} /\ Return(t, "run") /\ UNCHANGED <<isFree, use>>
    BY <1>0, <2>0, <2>3 DEF TypeOK, UseInv
  <2>. QED
    BY <1>38, <2>1, <2>2, <2>3 DEF Finish
<1>39. CASE UNCHANGED vars
  BY <1>0, <1>39 DEF vars
<1>. QED
  BY <1>1, <1>2, <1>3, <1>4, <1>5, <1>6, <1>7, <1>8, <1>9, <1>10, <1>11, <1>12, <1>13,
     <1>14, <1>15, <1>16, <1>17, <1>18, <1>19, <1>20, <1>20a, <1>21, <1>22, <1>23, <1>24,
     <1>25, <1>26, <1>27, <1>28, <1>29, <1>30, <1>31, <1>32, <1>33, <1>34, <1>35,
     <1>36, <1>37, <1>38, <1>39
     DEF Next, AppStep, CallStep, EvictorStep, WorkerStep

\* Every step leaves LRUIterIsValid true of exactly the listed pods.
LEMMA NextLRUConsistent == PagingInv /\ [Next]_vars => LRUConsistent'
<1> SUFFICES ASSUME PagingInv, [Next]_vars PROVE LRUConsistent'
  OBVIOUS
<1>0. LRUTypeOK /\ LRUConsistent /\ MutexInv
  BY DEF PagingInv, LRUTypeOK, TypeOK
<1>1. CASE UNCHANGED lruVars
  BY <1>0, <1>1 DEF lruVars, LRUConsistent
<1>2. ASSUME NEW p \in Pod, remonDemote(p) PROVE LRUConsistent'
  BY <1>0, <1>2, tailPodInLRUListConsistent DEF remonDemote
<1>3. ASSUME NEW e \in Evictor, getFromLRUList(e) PROVE LRUConsistent'
  BY <1>0, <1>3, getFromLRUListConsistent
<1>4. ASSUME NEW t \in App \cup Worker, RefreshLRU(t) PROVE LRUConsistent'
  <2>1. cur[t] \in Pod
    BY <1>0, <1>4 DEF RefreshLRU, At, MutexInv, Locked, InTransit, Thread
  <2>. QED
    BY <1>0, <1>4, <2>1, updateLRUListConsistent DEF RefreshLRU
<1>5. \/ UNCHANGED lruVars
      \/ \E p \in Pod : remonDemote(p)
      \/ \E e \in Evictor : getFromLRUList(e)
      \/ \E t \in App \cup Worker : RefreshLRU(t)
  BY ZenonT(60) DEF Next, AppStep, CallStep, EvictorStep, WorkerStep, vars, BeginAccess,
     hugeMalloc,
         remonPromotePod, Read, Write, Fault, activateAddress, Lock, ActivateResident,
         diskToLocalPinned, remoteToLocalPinned, diskCacheToLocalPinned,
         remoteCacheToLocalPinned, toReadAndWrite, setLocalPinned, localPinnedToLocal,
         hugeFree, trimFreeBlock, remon_cleanup_evicted, toInit, EvictFree, EvictCache,
         EvictNothing, remoteSwap, swapToDisk, toReadOnly, SendPage, toNone, ReleaseEvicted, prefetch,
         diskToDiskCache, remoteToRemoteCache, PrefetchNothing, initToLocal,
         initToLocalOpen, Finish
<1>. QED
  BY <1>1, <1>2, <1>3, <1>4, <1>5

PodInv(p) == CopyInv(p) /\ ProtInv(p) /\ HolderState(p)

\* Storing a page at one memory node, or removing it, touches no other copy.
LEMMA RemoteCopyExcept ==
    ASSUME remoteCopy \in [Peer -> [Pod -> Data \cup {NoData}]],
           NEW n \in Peer, NEW p \in Pod, NEW d
    PROVE  \A m \in Peer, q \in Pod :
               [remoteCopy EXCEPT ![n][p] = d][m][q] =
                   IF m = n /\ q = p THEN d ELSE remoteCopy[m][q]
  OBVIOUS

\* Every step leaves state, protection and copies of each pod in agreement with
\* the progress of its holder through fault, eviction or prefetch.
LEMMA NextPodInv == ASSUME PagingInv, [Next]_vars, NEW q \in Pod PROVE PodInv(q)'
<1> USE PagingAssumption DEF At, GoTo, Return, Start, Unlock, DropMemory, podVars, lruVars,
        threadVars, Thread, TypeOK, MutexInv, Locked, InTransit, Unlocked,
        PodInv, CopyInv, ProtInv, HolderState, SettledCopy, NoCopy,
        HasRemoteCopy, Label
<1>0. TypeOK /\ MutexInv /\ UseInv /\ PodInv(q)
  BY DEF PagingInv, PodInv
<1>1. ASSUME NEW t \in App, NEW p \in Pod, NEW o \in Value \cup {"read"},
             BeginAccess(t, p, o) PROVE PodInv(q)'
  BY <1>0, <1>1 DEF BeginAccess
<1>2. ASSUME NEW t \in App, NEW p \in Pod, hugeMalloc(t, p) PROVE PodInv(q)'
  BY <1>0, <1>2 DEF hugeMalloc
<1>3. ASSUME NEW t \in App, NEW p \in Pod, remonPromotePod(t, p) PROVE PodInv(q)'
  BY <1>0, <1>3 DEF remonPromotePod
<1>4. ASSUME NEW t \in App, Read(t) PROVE PodInv(q)'
  BY <1>0, <1>4 DEF Read
<1>5. ASSUME NEW t \in App, Write(t) PROVE PodInv(q)'
  BY <1>0, <1>5 DEF Write
<1>6. ASSUME NEW t \in App, Fault(t) PROVE PodInv(q)'
  BY <1>0, <1>6 DEF Fault
<1>7. ASSUME NEW t \in App, activateAddress(t) PROVE PodInv(q)'
  BY <1>0, <1>7 DEF activateAddress
<1>8. ASSUME NEW t \in App, Lock(t) PROVE PodInv(q)'
  BY <1>0, <1>8 DEF Lock
<1>9. ASSUME NEW t \in App, ActivateResident(t) PROVE PodInv(q)'
  BY <1>0, <1>9 DEF ActivateResident
<1>10. ASSUME NEW t \in App, diskToLocalPinned(t) PROVE PodInv(q)'
  BY <1>0, <1>10 DEF diskToLocalPinned
<1>11. ASSUME NEW t \in App, remoteToLocalPinned(t) PROVE PodInv(q)'
  BY <1>0, <1>11 DEF remoteToLocalPinned
<1>12. ASSUME NEW t \in App, diskCacheToLocalPinned(t) PROVE PodInv(q)'
  BY <1>0, <1>12 DEF diskCacheToLocalPinned
<1>13. ASSUME NEW t \in App, remoteCacheToLocalPinned(t) PROVE PodInv(q)'
  BY <1>0, <1>13 DEF remoteCacheToLocalPinned
<1>14. ASSUME NEW t \in App, toReadAndWrite(t) PROVE PodInv(q)'
  BY <1>0, <1>14 DEF toReadAndWrite
<1>15. ASSUME NEW t \in App, setLocalPinned(t) PROVE PodInv(q)'
  BY <1>0, <1>15 DEF setLocalPinned
<1>16. ASSUME NEW t \in App, localPinnedToLocal(t) PROVE PodInv(q)'
  BY <1>0, <1>16 DEF localPinnedToLocal
<1>17. ASSUME NEW p \in Pod, hugeFree(p) PROVE PodInv(q)'
  BY <1>0, <1>17 DEF hugeFree
<1>18. ASSUME NEW p \in Pod, trimFreeBlock(p) PROVE PodInv(q)'
  BY <1>0, <1>18 DEF trimFreeBlock
<1>19. ASSUME NEW p \in Pod, remonDemote(p) PROVE PodInv(q)'
  BY <1>0, <1>19 DEF remonDemote
<1>20. ASSUME NEW t \in App, NEW p \in Pod, remon_cleanup_evicted(t, p) PROVE PodInv(q)'
  BY <1>0, <1>20 DEF remon_cleanup_evicted
<1>20a. ASSUME NEW t \in App, toInit(t) PROVE PodInv(q)'
  <2> DEFINE p == cur[t]
  <2>0. /\ p \in Pod /\ owner[p] = t /\ Label(p) = "cleanup"
        /\ pc' = [pc EXCEPT ![t] = "done"] /\ UNCHANGED <<prot, owner, dst>>
    BY <1>0, <1>20a DEF toInit, MutexInv, Locked, InTransit, Label, Unlocked
  <2>1. landlord[p] \in Peer \/ state[p] # "remote"
    BY <2>0 DEF PagingInv, CopyInv, SettledCopy, InTransit
  <2>2. CASE p # q
    <3>1. /\ UNCHANGED <<state[q], prot[q], mem[q], swapFile[q], swapPath[q], landlord[q]>>
          /\ \A n \in Peer : remoteCopy'[n][q] = remoteCopy[n][q]
          /\ owner[q] # NoThread => pc'[owner[q]] = pc[owner[q]]
      <4>1. UNCHANGED <<state[q], prot[q], mem[q], swapFile[q], swapPath[q], landlord[q]>>
        BY <1>0, <1>20a, <2>0, <2>2 DEF toInit, TypeOK
      <4>2. \/ remoteCopy' = remoteCopy
            \/ /\ remoteCopy' = [remoteCopy EXCEPT ![landlord[p]][p] = NoData]
               /\ landlord[p] \in Peer
        BY <1>20a, <2>1 DEF toInit
      <4>3. remoteCopy \in [Peer -> [Pod -> Data \cup {NoData}]]
        BY <1>0 DEF TypeOK
      <4>4. owner[q] # NoThread => pc'[owner[q]] = pc[owner[q]]
        BY <1>0, <2>0, <2>2 DEF TypeOK, MutexInv, Unlocked
      <4>. QED
        BY <2>0, <2>2, <4>1, <4>2, <4>3, <4>4, RemoteCopyExcept
    <3>. QED
      BY <1>0, <2>0, <3>1 DEF PodInv, CopyInv, ProtInv, HolderState, SettledCopy, NoCopy,
         HasRemoteCopy, Label, Unlocked
  <2>3. CASE p = q /\ state[p] = "disk"
    BY <1>0, <1>20a, <2>0, <2>3 DEF toInit
  <2>4. CASE p = q /\ state[p] = "remote"
    <3>1. /\ UNCHANGED <<swapFile, swapPath>>
          /\ state'[q] = "init"
          /\ \A n \in Peer : remoteCopy'[n][q] = IF n = landlord[q] THEN NoData ELSE remoteCopy[n][q]
      BY <1>0, <1>20a, <2>0, <2>1, <2>4 DEF toInit, TypeOK
    <3>2. Label(q)' = "done"
      BY <1>0, <2>0, <2>4 DEF Label, Unlocked, TypeOK
    <3>. QED
      BY <1>0, <2>0, <2>4, <3>1, <3>2 DEF PodInv, CopyInv, ProtInv, HolderState,
         SettledCopy, NoCopy, HasRemoteCopy, InTransit
  <2>5. CASE p = q /\ state[p] \notin {"disk", "remote"}
    BY <1>0, <1>20a, <2>0, <2>5 DEF toInit
  <2>. QED
    BY <2>2, <2>3, <2>4, <2>5
<1>21. ASSUME NEW t \in Evictor, getFromLRUList(t) PROVE PodInv(q)'
  BY <1>0, <1>21 DEF getFromLRUList
<1>22. ASSUME NEW t \in Evictor, EvictFree(t) PROVE PodInv(q)'
  BY <1>0, <1>22 DEF EvictFree
<1>23. ASSUME NEW t \in Evictor, EvictCache(t) PROVE PodInv(q)'
  BY <1>0, <1>23 DEF EvictCache
<1>24. ASSUME NEW t \in Evictor, EvictNothing(t) PROVE PodInv(q)'
  BY <1>0, <1>24 DEF EvictNothing
<1>25. ASSUME NEW t \in Evictor, swapToDisk(t) PROVE PodInv(q)'
  BY <1>0, <1>25 DEF swapToDisk
<1>26. ASSUME NEW t \in Evictor, toReadOnly(t) PROVE PodInv(q)'
  BY <1>0, <1>26 DEF toReadOnly
<1>27. ASSUME NEW t \in Evictor, SendPage(t) PROVE PodInv(q)'
  <2>1. cur[t] \in Pod /\ owner[cur[t]] = t
    BY <1>0, <1>27 DEF SendPage, MutexInv, Locked, InTransit
  <2>2. CASE cur[t] # q
    <3>1. /\ UNCHANGED <<state, prot, mem, swapFile[q], swapPath, landlord, owner, dst>>
          /\ \A n \in Peer : remoteCopy'[n][q] = remoteCopy[n][q]
          /\ owner[q] # NoThread => pc'[owner[q]] = pc[owner[q]]
      <4>1. UNCHANGED <<state, prot, mem, swapFile[q], swapPath, landlord, owner, dst>>
        BY <1>0, <1>27, <2>1, <2>2 DEF SendPage, TypeOK
      <4>2. \/ remoteCopy' = remoteCopy
            \/ remoteCopy' = [remoteCopy EXCEPT ![dst[t]][cur[t]] = mem[cur[t]]] /\ dst[t] \in Peer
        BY <1>27 DEF SendPage
      <4>3. remoteCopy \in [Peer -> [Pod -> Data \cup {NoData}]]
        BY <1>0 DEF TypeOK
      <4>4. owner[q] # NoThread => pc'[owner[q]] = pc[owner[q]]
        BY <1>0, <1>27, <2>1, <2>2 DEF SendPage, TypeOK, MutexInv, Unlocked
      <4>. QED
        BY <2>1, <2>2, <4>1, <4>2, <4>3, <4>4, RemoteCopyExcept
    <3>. QED
      BY <1>0, <3>1 DEF PodInv, CopyInv, ProtInv, HolderState, SettledCopy, NoCopy,
         HasRemoteCopy, Label, Unlocked
  <2>3. CASE cur[t] = q
    <3>1. Label(q) = "send" /\ NoCopy(q) /\ Label(q)' = "hide" /\ owner[q] = t
      BY <1>0, <1>27, <2>1, <2>3 DEF SendPage, PodInv, CopyInv, Label, Unlocked, TypeOK
    <3>2. CASE dst[t] = Disk
      <4>1. swapFile'[q] = mem[q] /\ remoteCopy' = remoteCopy
        BY <1>0, <1>27, <2>3, <3>2 DEF SendPage, TypeOK
      <4>. QED
        BY <1>0, <1>27, <3>1, <3>2, <4>1 DEF SendPage, PodInv, CopyInv, ProtInv,
           HolderState, NoCopy, HasRemoteCopy, InTransit
    <3>3. CASE dst[t] \in Peer
      <4>1. /\ swapFile' = swapFile
            /\ \A n \in Peer : remoteCopy'[n][q] = IF n = dst[t] THEN mem[q] ELSE NoData
        BY <1>0, <1>27, <2>3, <3>1, <3>3 DEF SendPage, TypeOK, NoCopy, HasRemoteCopy
      <4>. QED
        BY <1>0, <1>27, <3>1, <3>3, <4>1 DEF SendPage, PodInv, CopyInv, ProtInv,
           HolderState, NoCopy, HasRemoteCopy, InTransit
    <3>. QED
      BY <1>27, <3>2, <3>3 DEF SendPage
  <2>. QED
    BY <2>2, <2>3
<1>28. ASSUME NEW t \in Evictor, toNone(t) PROVE PodInv(q)'
  BY <1>0, <1>28 DEF toNone
<1>29. ASSUME NEW t \in Evictor, ReleaseEvicted(t) PROVE PodInv(q)'
  BY <1>0, <1>29 DEF ReleaseEvicted
<1>30. ASSUME NEW t \in Evictor, NEW n \in Peer, remoteSwap(t, n) PROVE PodInv(q)'
  BY <1>0, <1>30 DEF remoteSwap
<1>31. ASSUME NEW t \in Worker, diskToDiskCache(t) PROVE PodInv(q)'
  BY <1>0, <1>31 DEF diskToDiskCache
<1>32. ASSUME NEW t \in Worker, remoteToRemoteCache(t) PROVE PodInv(q)'
  BY <1>0, <1>32 DEF remoteToRemoteCache
<1>33. ASSUME NEW t \in Worker, PrefetchNothing(t) PROVE PodInv(q)'
  BY <1>0, <1>33 DEF PrefetchNothing
<1>34. ASSUME NEW t \in Worker, NEW p \in Pod, prefetch(t, p) PROVE PodInv(q)'
  BY <1>0, <1>34 DEF prefetch
<1>35. ASSUME NEW t \in App \cup Worker, initToLocal(t) PROVE PodInv(q)'
  BY <1>0, <1>35 DEF initToLocal
<1>36. ASSUME NEW t \in App \cup Worker, initToLocalOpen(t) PROVE PodInv(q)'
  BY <1>0, <1>36 DEF initToLocalOpen
<1>37. ASSUME NEW t \in App \cup Worker, RefreshLRU(t) PROVE PodInv(q)'
  BY <1>0, <1>37 DEF RefreshLRU
<1>38. ASSUME NEW t \in Thread, Finish(t) PROVE PodInv(q)'
  BY <1>0, <1>38 DEF Finish
<1>39. CASE UNCHANGED vars
  BY <1>0, <1>39 DEF vars
<1>. QED
  BY <1>1, <1>2, <1>3, <1>4, <1>5, <1>6, <1>7, <1>8, <1>9, <1>10, <1>11, <1>12, <1>13,
     <1>14, <1>15, <1>16, <1>17, <1>18, <1>19, <1>20, <1>20a, <1>21, <1>22, <1>23, <1>24,
     <1>25, <1>26, <1>27, <1>28, <1>29, <1>30, <1>31, <1>32, <1>33, <1>34, <1>35,
     <1>36, <1>37, <1>38, <1>39
     DEF Next, AppStep, CallStep, EvictorStep, WorkerStep

\* Every behaviour of the paging core satisfies the inductive invariant: the
\* mutex discipline, the LRU list and, for each pod, the agreement of its state,
\* its protection, its copies and the progress of the thread that holds it.
THEOREM PagingInvariant == Spec => []PagingInv
<1>1. PagingInv /\ [Next]_vars => PagingInv'
  BY NextTypeOK, NextMutexInv, NextUseInv, NextLRUConsistent, NextPodInv
     DEF PagingInv, PodInv
<1>. QED
  BY InitPagingInv, <1>1, PTL DEF Spec

\* The types of the paging state, for any number of pods, threads and peers.
THEOREM TypeCorrect == Spec => []TypeOK
<1>1. PagingInv => TypeOK
  BY DEF PagingInv
<1>. QED
  BY PagingInvariant, <1>1, PTL

\* list::erase is only ever given the iterator of a pod that is on the LRU list
\* (updateLRUList, tailPodInLRUList), and no pod is on it twice.
THEOREM LRUListConsistent == Spec => []LRUConsistent
<1>1. PagingInv => LRUConsistent
  BY DEF PagingInv
<1>. QED
  BY PagingInvariant, <1>1, PTL

\* No interleaving of faults, evictions and prefetches leaves a live page
\* readable while its content is elsewhere (localToDisk, savePodToRemote,
\* initToLocal, diskToLocalPinned, remoteToLocalPinned).
THEOREM ReadablePagesCurrent == Spec => []ReadableIsCurrent
<1>1. PagingInv => ReadableIsCurrent
  <2> SUFFICES ASSUME PagingInv, NEW p \in Pod, prot[p] # "none" PROVE InMemory(p)
    BY DEF ReadableIsCurrent
  <2>. QED
    BY PagingAssumption DEF PagingInv, ProtInv, InMemory, Label, Unlocked, InTransit
<1>. QED
  BY PagingInvariant, <1>1, PTL

\* While its copy is taken, and until its memory is released, an evicted page
\* is closed to writes (toReadOnly before the read in localToDisk and
\* highSpeedSendPod).
THEOREM EvictedPagesClosed == Spec => []NoWriteBehindCopy
<1>1. PagingInv => NoWriteBehindCopy
  <2> SUFFICES ASSUME PagingInv, NEW e \in Evictor, pc[e] \in {"send", "hide", "release"}
               PROVE  prot[cur[e]] # "rw"
    BY DEF NoWriteBehindCopy
  <2>1. cur[e] \in Pod /\ owner[cur[e]] = e /\ e # NoThread
    BY PagingAssumption DEF PagingInv, MutexInv, Locked, InTransit, Thread
  <2>2. Label(cur[e]) = pc[e]
    BY <2>1 DEF Label, Unlocked
  <2>3. ProtInv(cur[e]) /\ HolderState(cur[e])
    BY <2>1 DEF PagingInv
  <2>. QED
    BY <2>2, <2>3 DEF ProtInv, HolderState
<1>. QED
  BY PagingInvariant, <1>1, PTL

\* A pod nobody holds has exactly the backing copy its state names, and it is
\* where activatePod looks for it: pages are neither lost nor leaked on a
\* memory node or in the swap directory.
THEOREM BackingCopies == Spec => []BackingMatchesState
<1>1. PagingInv => BackingMatchesState
  <2> SUFFICES ASSUME PagingInv, NEW p \in Pod, Unlocked(p)
               PROVE  /\ state[p] \in {"disk", "diskCache"} <=> swapFile[p] # NoData
                      /\ swapPath[p] <=> swapFile[p] # NoData
                      /\ state[p] \in {"remote", "remoteCache"} <=> HasRemoteCopy(p)
                      /\ HasRemoteCopy(p) => landlord[p] \in Peer
                      /\ \A n \in Peer : remoteCopy[n][p] # NoData => n = landlord[p]
    BY DEF BackingMatchesState
  <2>1. SettledCopy(p) /\ state[p] \in PodState
    BY DEF PagingInv, CopyInv, Label, InTransit, TypeOK
  <2>. QED
    BY <2>1 DEF SettledCopy, NoCopy, HasRemoteCopy, PodState
<1>. QED
  BY PagingInvariant, <1>1, PTL

\* A resident page can only be off the LRU list while its holder evicts it, or
\* has yet to put it on the list.
Listed(p) ==
    /\ Label(p) \in {"run", "done", "cleanup", "prefetch"}
    /\ state[p] \in {"local", "diskCache", "remoteCache"}
    => LRUIterIsValid[p]

\* Every step keeps a pod listed.
LEMMA NextListed ==
    ASSUME PagingInv, NEW q \in Pod, Listed(q), [Next]_vars
    PROVE  Listed(q)'
<1> USE PagingAssumption DEF At, GoTo, Return, Start, Unlock, podVars, lruVars, threadVars,
        Thread, MutexInv, Locked, InTransit, Unlocked, Listed, Label
<1>0. /\ TypeOK /\ MutexInv /\ HolderState(q)
      /\ owner \in [Pod -> Thread \cup {NoThread}] /\ state \in [Pod -> PodState]
      /\ LRUIterIsValid \in [Pod -> BOOLEAN] /\ LRUTypeOK
  BY DEF PagingInv, TypeOK, LRUTypeOK
<1> USE DEF TypeOK
<1>1. ASSUME NEW t \in App, NEW p \in Pod,
             \/ \E o \in Value \cup {"read"} : BeginAccess(t, p, o)
             \/ hugeMalloc(t, p) \/ remonPromotePod(t, p) \/ remon_cleanup_evicted(t, p)
      PROVE  Listed(q)'
  BY <1>0, <1>1 DEF BeginAccess, hugeMalloc, remonPromotePod, remon_cleanup_evicted
<1>2. ASSUME NEW t \in App, Read(t) \/ Write(t) \/ Fault(t) \/ activateAddress(t)
      PROVE  Listed(q)'
  BY <1>0, <1>2 DEF Read, Write, Fault, activateAddress
<1>3. ASSUME NEW t \in App, Lock(t) PROVE Listed(q)'
  BY <1>0, <1>3 DEF Lock
<1>4. ASSUME NEW t \in App,
             \/ ActivateResident(t) \/ diskToLocalPinned(t) \/ remoteToLocalPinned(t)
             \/ diskCacheToLocalPinned(t) \/ remoteCacheToLocalPinned(t)
      PROVE  Listed(q)'
  BY <1>0, <1>4 DEF ActivateResident, diskToLocalPinned, remoteToLocalPinned,
     diskCacheToLocalPinned, remoteCacheToLocalPinned
<1>5. ASSUME NEW t \in App, toReadAndWrite(t) \/ setLocalPinned(t) \/ localPinnedToLocal(t)
      PROVE  Listed(q)'
  BY <1>0, <1>5 DEF toReadAndWrite, setLocalPinned, localPinnedToLocal
<1>6. ASSUME NEW t \in App, toInit(t) PROVE Listed(q)'
  BY <1>0, <1>6 DEF toInit
<1>7. ASSUME NEW p \in Pod, hugeFree(p) \/ trimFreeBlock(p) PROVE Listed(q)'
  BY <1>0, <1>7 DEF hugeFree, trimFreeBlock
<1>8. ASSUME NEW p \in Pod, remonDemote(p) PROVE Listed(q)'
  BY <1>0, <1>8 DEF remonDemote, tailPodInLRUList
<1>9. ASSUME NEW e \in Evictor, getFromLRUList(e) PROVE Listed(q)'
  <2>1. Last(LRUList) \in Pod
    BY <1>0, <1>9, getFromLRUListConsistent DEF PagingInv
  <2>. QED
    BY <1>0, <1>9, <2>1 DEF getFromLRUList
<1>10. ASSUME NEW e \in Evictor, EvictFree(e) \/ EvictCache(e) \/ EvictNothing(e)
       PROVE  Listed(q)'
  BY <1>0, <1>10 DEF EvictFree, EvictCache, EvictNothing
<1>11. ASSUME NEW e \in Evictor, (\E n \in Peer : remoteSwap(e, n)) \/ swapToDisk(e)
       PROVE  Listed(q)'
  BY <1>0, <1>11 DEF remoteSwap, swapToDisk
<1>12. ASSUME NEW e \in Evictor, toReadOnly(e) \/ SendPage(e) \/ toNone(e)
       PROVE  Listed(q)'
  BY <1>0, <1>12 DEF toReadOnly, SendPage, toNone
<1>13. ASSUME NEW e \in Evictor, ReleaseEvicted(e) PROVE Listed(q)'
  BY <1>0, <1>13 DEF ReleaseEvicted, HolderState
<1>14. ASSUME NEW w \in Worker, NEW p \in Pod, prefetch(w, p) PROVE Listed(q)'
  BY <1>0, <1>14 DEF prefetch
<1>15. ASSUME NEW w \in Worker,
              diskToDiskCache(w) \/ remoteToRemoteCache(w) \/ PrefetchNothing(w)
       PROVE  Listed(q)'
  BY <1>0, <1>15 DEF diskToDiskCache, remoteToRemoteCache, PrefetchNothing
<1>16. ASSUME NEW t \in App \cup Worker, initToLocal(t) \/ initToLocalOpen(t)
       PROVE  Listed(q)'
  BY <1>0, <1>16 DEF initToLocal, initToLocalOpen
<1>17. ASSUME NEW t \in App \cup Worker, RefreshLRU(t) PROVE Listed(q)'
  <2>1. cur[t] \in Pod /\ owner[cur[t]] = t
    BY <1>0, <1>17 DEF RefreshLRU
  <2>2. LRUIterIsValid'[cur[t]]
    <3>1. CASE LRUList # <<>> /\ Head(LRUList) = cur[t]
      <4>1. cur[t] \in ToSet(LRUList)
        BY <1>0, <3>1 DEF LRUTypeOK, ToSet
      <4>2. LRUIterIsValid' = LRUIterIsValid
        BY <1>17, <3>1 DEF RefreshLRU, updateLRUList
      <4>. QED
        BY <2>1, <4>1, <4>2 DEF PagingInv, LRUConsistent
    <3>2. CASE ~(LRUList # <<>> /\ Head(LRUList) = cur[t])
      <4>1. LRUIterIsValid' = [LRUIterIsValid EXCEPT ![cur[t]] = TRUE]
        BY <1>17, <3>2, Zenon DEF RefreshLRU, updateLRUList
      <4>. QED
        BY <1>0, <2>1, <4>1
    <3>. QED
      BY <3>1, <3>2
  <2>3. cur[t] # q => LRUIterIsValid'[q] = LRUIterIsValid[q]
    BY <1>0, <1>17, <2>1 DEF RefreshLRU, updateLRUList
  <2>4. UNCHANGED <<state, owner>> /\ pc' = [pc EXCEPT ![t] = "done"]
    BY <1>17 DEF RefreshLRU
  <2>. QED
    BY <1>0, <2>1, <2>2, <2>3, <2>4
<1>18. ASSUME NEW t \in Thread, Finish(t) PROVE Listed(q)'
  BY <1>0, <1>18 DEF Finish
<1>19. CASE UNCHANGED vars
  BY <1>0, <1>19 DEF vars
<1>. QED
  BY <1>1, <1>2, <1>3, <1>4, <1>5, <1>6, <1>7, <1>8, <1>9, <1>10, <1>11, <1>12, <1>13,
     <1>14, <1>15, <1>16, <1>17, <1>18, <1>19
     DEF Next, AppStep, CallStep, EvictorStep, WorkerStep

\* Whatever faults, evictions, prefetches, demotions and reallocations did before,
\* a resident page that nobody holds is on LRUList: pickPodToEvict can reclaim all
\* the memory that nobody is working on.
THEOREM ResidentPagesEvictable == Spec => []ResidentIsEvictable
<1> DEFINE I == PagingInv /\ \A q \in Pod : Listed(q)
<1>1. Init => I
  <2>1. Init => \A q \in Pod : Listed(q)
    BY DEF Init, Listed
  <2>. QED
    BY <2>1, InitPagingInv
<1>2. I /\ [Next]_vars => I'
  <2>1. PagingInv /\ [Next]_vars => PagingInv'
    BY NextTypeOK, NextMutexInv, NextUseInv, NextLRUConsistent, NextPodInv
       DEF PagingInv, PodInv
  <2>. QED
    BY <2>1, NextListed
<1>3. I => ResidentIsEvictable
  BY DEF ResidentIsEvictable, PagingInv, Listed, Label, LRUConsistent
<1>. QED
  BY <1>1, <1>2, <1>3, PTL DEF Spec

-----------------------------------------------------------------------------
(***************************************************************************)
(* Paging implements AtomicMemory.                                         *)
(***************************************************************************)

\* The step leaves the application's view of q alone.
Kept(q) == /\ use'[q] = "live" <=> use[q] = "live"
           /\ use[q] = "live" => Content(q)' = Content(q)

\* A step that keeps every page keeps the application's view of memory.
LEMMA KeptMemory ==
    ASSUME \A q \in Pod : Kept(q) PROVE UNCHANGED <<live, content>>
<1>1. live' = live
  BY DEF live, Kept
<1>2. content' = content
  BY <1>1 DEF content, live, Kept
<1>. QED
  BY <1>1, <1>2

\* A step that changes the application's view of p alone.
LEMMA OnePodChanges ==
    ASSUME NEW p \in Pod, \A q \in Pod : q # p => Kept(q)
    PROVE  /\ live' = IF use'[p] = "live" THEN live \cup {p} ELSE live \ {p}
           /\ content' = [content EXCEPT ![p] = IF use'[p] = "live" THEN Content(p)'
                                                ELSE Undefined]
<1>1. live' = IF use'[p] = "live" THEN live \cup {p} ELSE live \ {p}
  BY DEF live, Kept
<1> DEFINE c == IF use'[p] = "live" THEN Content(p)' ELSE Undefined
<1>2. ASSUME NEW q \in Pod
      PROVE  content'[q] = [content EXCEPT ![p] = c][q]
  <2>1. CASE q = p
    BY <2>1 DEF content, live, Undefined
  <2>2. CASE q # p
    <3>1. Kept(q)
      BY <2>2
    <3>. QED
      BY <2>2, <3>1 DEF content, live, Kept, Undefined
  <2>. QED
    BY <2>1, <2>2
<1>3. /\ content' = [q \in Pod |-> content'[q]]
      /\ [content EXCEPT ![p] = c] = [q \in Pod |-> [content EXCEPT ![p] = c][q]]
  BY DEF content
<1>4. content' = [content EXCEPT ![p] = c]
  BY <1>2, <1>3
<1>. QED
  BY <1>1, <1>4

\* Wherever the content of a page is, it is data.
ContentTypeOK == \A p \in Pod : Content(p) \in Data

\* A page's content, wherever activatePod would look for it, is a page.
LEMMA ContentIsData == PagingInv => ContentTypeOK
<1> SUFFICES ASSUME PagingInv, NEW p \in Pod PROVE Content(p) \in Data
  BY DEF ContentTypeOK
<1>1. TypeOK /\ CopyInv(p)
  BY DEF PagingInv
<1>2. CASE InMemory(p)
  BY <1>1, <1>2 DEF Content, TypeOK
<1>3. CASE ~InMemory(p)
  <2>1. Label(p) \notin InTransit /\ state[p] \in {"disk", "remote"}
    BY <1>1, <1>3 DEF InMemory, Label, InTransit
  <2>2. SettledCopy(p) \/ Label(p) \in {"mapped", "pinned"}
    BY <1>1, <2>1 DEF CopyInv
  <2>3. Label(p) \notin {"mapped", "pinned"}
    BY <2>1 DEF PagingInv, HolderState
  <2>. QED
    BY <1>1, <1>3, <2>1, <2>2, <2>3 DEF Content, SettledCopy, TypeOK
<1>. QED
  BY <1>2, <1>3

\* The steps of paging that change no content: all but the application's own
\* writes, and its calls to malloc, free and remon_cleanup_evicted.
LEMMA InvisibleSteps ==
    ASSUME PagingInv, [Next]_vars, NEW q \in Pod,
           \A t \in App : ~Write(t),
           \A p \in Pod : ~hugeFree(p),
           \A t \in App : ~toInit(t),
           \A t \in Thread : Finish(t) => op[t] # "malloc"
    PROVE  Kept(q)
<1> USE PagingAssumption DEF At, GoTo, Return, Start, Unlock, DropMemory, podVars, lruVars,
        threadVars, Thread, Kept, Content, InMemory, InTransit, Unlocked,
        TypeOK, MutexInv, Locked, UseInv, PodInv, CopyInv, ProtInv,
        HolderState, SettledCopy, NoCopy, HasRemoteCopy, Label
<1>0. TypeOK /\ MutexInv /\ UseInv /\ PodInv(q)
  BY DEF PagingInv, PodInv
<1>1. ASSUME NEW t \in App, NEW p \in Pod, NEW o \in Value \cup {"read"},
             BeginAccess(t, p, o) PROVE Kept(q)
  BY <1>0, <1>1 DEF BeginAccess
<1>2. ASSUME NEW t \in App, NEW p \in Pod, hugeMalloc(t, p) PROVE Kept(q)
  BY <1>0, <1>2 DEF hugeMalloc
<1>3. ASSUME NEW t \in App, NEW p \in Pod, remonPromotePod(t, p) PROVE Kept(q)
  BY <1>0, <1>3 DEF remonPromotePod
<1>3a. ASSUME NEW t \in App, NEW p \in Pod, remon_cleanup_evicted(t, p) PROVE Kept(q)
  BY <1>0, <1>3a DEF remon_cleanup_evicted
<1>4. ASSUME NEW t \in App, Read(t) PROVE Kept(q)
  BY <1>0, <1>4 DEF Read
<1>5. ASSUME NEW t \in App, Fault(t) PROVE Kept(q)
  BY <1>0, <1>5 DEF Fault
<1>6. ASSUME NEW t \in App, activateAddress(t) PROVE Kept(q)
  BY <1>0, <1>6 DEF activateAddress
<1>7. ASSUME NEW t \in App, Lock(t) PROVE Kept(q)
  BY <1>0, <1>7 DEF Lock
<1>8. ASSUME NEW t \in App, ActivateResident(t) PROVE Kept(q)
  BY <1>0, <1>8 DEF ActivateResident
<1>9. ASSUME NEW t \in App, diskToLocalPinned(t) PROVE Kept(q)
  BY <1>0, <1>9 DEF diskToLocalPinned
<1>10. ASSUME NEW t \in App, remoteToLocalPinned(t) PROVE Kept(q)
  BY <1>0, <1>10 DEF remoteToLocalPinned
<1>11. ASSUME NEW t \in App, diskCacheToLocalPinned(t) PROVE Kept(q)
  BY <1>0, <1>11 DEF diskCacheToLocalPinned
<1>12. ASSUME NEW t \in App, remoteCacheToLocalPinned(t) PROVE Kept(q)
  BY <1>0, <1>12 DEF remoteCacheToLocalPinned
<1>13. ASSUME NEW t \in App, toReadAndWrite(t) PROVE Kept(q)
  BY <1>0, <1>13 DEF toReadAndWrite
<1>14. ASSUME NEW t \in App, setLocalPinned(t) PROVE Kept(q)
  BY <1>0, <1>14 DEF setLocalPinned
<1>15. ASSUME NEW t \in App, localPinnedToLocal(t) PROVE Kept(q)
  BY <1>0, <1>15 DEF localPinnedToLocal
<1>16. ASSUME NEW p \in Pod, trimFreeBlock(p) PROVE Kept(q)
  BY <1>0, <1>16 DEF trimFreeBlock
<1>17. ASSUME NEW p \in Pod, remonDemote(p) PROVE Kept(q)
  BY <1>0, <1>17 DEF remonDemote
<1>18. ASSUME NEW t \in Evictor, getFromLRUList(t) PROVE Kept(q)
  BY <1>0, <1>18 DEF getFromLRUList
<1>19. ASSUME NEW t \in Evictor, EvictFree(t) PROVE Kept(q)
  BY <1>0, <1>19 DEF EvictFree
<1>20. ASSUME NEW t \in Evictor, EvictCache(t) PROVE Kept(q)
  BY <1>0, <1>20 DEF EvictCache
<1>21. ASSUME NEW t \in Evictor, EvictNothing(t) PROVE Kept(q)
  BY <1>0, <1>21 DEF EvictNothing
<1>22. ASSUME NEW t \in Evictor, swapToDisk(t) PROVE Kept(q)
  BY <1>0, <1>22 DEF swapToDisk
<1>23. ASSUME NEW t \in Evictor, toReadOnly(t) PROVE Kept(q)
  BY <1>0, <1>23 DEF toReadOnly
<1>24. ASSUME NEW t \in Evictor, SendPage(t) PROVE Kept(q)
  <2>1. /\ cur[t] \in Pod /\ owner[cur[t]] = t /\ pc[t] = "send"
        /\ pc' = [pc EXCEPT ![t] = "hide"] /\ UNCHANGED <<state, mem, landlord, owner, use>>
    BY <1>0, <1>24 DEF SendPage
  <2>2. CASE cur[t] = q
    BY <1>0, <2>1, <2>2
  <2>3. CASE cur[t] # q
    <3>1. swapFile'[q] = swapFile[q] /\ (InMemory(q)' <=> InMemory(q))
      BY <1>0, <1>24, <2>1, <2>3 DEF SendPage
    <3>2. \A n \in Peer : remoteCopy'[n][q] = remoteCopy[n][q]
      <4>1. \/ remoteCopy' = remoteCopy
            \/ remoteCopy' = [remoteCopy EXCEPT ![dst[t]][cur[t]] = mem[cur[t]]] /\ dst[t] \in Peer
        BY <1>24 DEF SendPage
      <4>. QED
        BY <1>0, <2>1, <2>3, <4>1, RemoteCopyExcept
    <3>3. ~InMemory(q) /\ state[q] # "disk" => landlord[q] \in Peer
      BY <1>0 DEF PodState
    <3>. QED
      BY <2>1, <3>1, <3>2, <3>3
  <2>. QED
    BY <2>2, <2>3
<1>25. ASSUME NEW t \in Evictor, toNone(t) PROVE Kept(q)
  BY <1>0, <1>25 DEF toNone
<1>26. ASSUME NEW t \in Evictor, ReleaseEvicted(t) PROVE Kept(q)
  BY <1>0, <1>26 DEF ReleaseEvicted
<1>27. ASSUME NEW t \in Evictor, NEW n \in Peer, remoteSwap(t, n) PROVE Kept(q)
  BY <1>0, <1>27 DEF remoteSwap
<1>28. ASSUME NEW t \in Worker, diskToDiskCache(t) PROVE Kept(q)
  BY <1>0, <1>28 DEF diskToDiskCache
<1>29. ASSUME NEW t \in Worker, remoteToRemoteCache(t) PROVE Kept(q)
  BY <1>0, <1>29 DEF remoteToRemoteCache
<1>30. ASSUME NEW t \in Worker, PrefetchNothing(t) PROVE Kept(q)
  BY <1>0, <1>30 DEF PrefetchNothing
<1>31. ASSUME NEW t \in Worker, NEW p \in Pod, prefetch(t, p) PROVE Kept(q)
  BY <1>0, <1>31 DEF prefetch
<1>32. ASSUME NEW t \in App \cup Worker, initToLocal(t) PROVE Kept(q)
  BY <1>0, <1>32 DEF initToLocal
<1>33. ASSUME NEW t \in App \cup Worker, initToLocalOpen(t) PROVE Kept(q)
  BY <1>0, <1>33 DEF initToLocalOpen
<1>34. ASSUME NEW t \in App \cup Worker, RefreshLRU(t) PROVE Kept(q)
  BY <1>0, <1>34 DEF RefreshLRU
<1>35. ASSUME NEW t \in Thread, Finish(t), op[t] # "malloc" PROVE Kept(q)
  BY <1>0, <1>35 DEF Finish
<1>36. CASE UNCHANGED vars
  BY <1>0, <1>36 DEF vars
<1>. QED
  BY <1>1, <1>2, <1>3, <1>3a, <1>4, <1>5, <1>6, <1>7, <1>8, <1>9, <1>10, <1>11, <1>12,
     <1>13, <1>14, <1>15, <1>16, <1>17, <1>18, <1>19, <1>20, <1>21, <1>22, <1>23, <1>24,
     <1>25, <1>26, <1>27, <1>28, <1>29, <1>30, <1>31, <1>32, <1>33, <1>34, <1>35,
     <1>36
     DEF Next, AppStep, CallStep, EvictorStep, WorkerStep

\* Every request of a thread starts an operation of AtomicMemory.
LEMMA RequestVisible ==
    ASSUME PagingInv, \A q \in Pod : Kept(q), NEW t \in App, NEW p \in Pod,
           NEW o \in AM!Operation, (o = "malloc") <=> (use[p] # "live"),
           At(t, "run"), op' = [op EXCEPT ![t] = o], cur' = [cur EXCEPT ![t] = p]
    PROVE  AM!Next
<1>1. op[t] = "none" /\ TypeOK
  BY DEF PagingInv, UseInv, At, Thread
<1>2. request[t][1] = "none" /\ request' = [request EXCEPT ![t] = <<o, p>>]
  BY <1>1 DEF request, TypeOK, Thread
<1>3. AM!Request(t, o, p)
  BY <1>2, KeptMemory DEF AM!Request, live
<1>. QED
  BY <1>3 DEF AM!Next

\* The end of an operation, for the application.
LEMMA FinishedVisible ==
    ASSUME TypeOK, NEW t \in App, NEW m, Return(t, m)
    PROVE  AM!Finished(t)
  BY DEF Return, AM!Finished, request, TypeOK, Thread

\* A read, a promotion or a cleanup ends and leaves all pages as they are.
LEMMA ReturnVisible ==
    ASSUME PagingInv, \A q \in Pod : Kept(q), NEW t \in App, NEW m, Return(t, m),
           op[t] \notin Value \cup {"malloc"}
    PROVE  AM!Next
<1>1. AM!Finished(t)
  BY FinishedVisible DEF PagingInv
<1>2. AM!Return(t)
  BY <1>1, KeptMemory DEF AM!Return, request
<1>. QED
  BY <1>2 DEF AM!Next

\* A write reaches the page it is for, and no other.
LEMMA WriteVisible ==
    ASSUME PagingInv, NEW t \in App, Write(t)
    PROVE  AM!Next
<1>0. TypeOK /\ MutexInv /\ UseInv
  BY DEF PagingInv
<1>1. PICK p \in Pod : p = cur[t] /\ use[p] = "live" /\ op[t] \in Value
  BY <1>0 DEF Write, UseInv, Thread
<1>2. ProtInv(p)
  BY <1>1 DEF PagingInv
<1>3. prot[p] = "rw" /\ mem' = [mem EXCEPT ![p] = op[t]] /\ UNCHANGED <<state, owner, use>>
      /\ UNCHANGED <<swapFile, remoteCopy, landlord>> /\ pc[t] = "access"
      /\ pc' = [pc EXCEPT ![t] = "run"]
  BY <1>1 DEF Write, At, Return, GoTo
<1>4. InMemory(p)
  BY <1>2, <1>3 DEF ProtInv, InMemory, Label, Unlocked, InTransit
<1>5. \A q \in Pod : owner[q] # NoThread => pc'[owner[q]] = pc[owner[q]]
  BY <1>0, <1>3, PagingAssumption DEF MutexInv, TypeOK, Locked, InTransit, Unlocked,
     Thread
<1>6. \A q \in Pod : InMemory(q)' <=> InMemory(q)
  BY <1>3, <1>5 DEF InMemory, Unlocked, InTransit
<1>7. Content(p)' = op[t]
  BY <1>0, <1>1, <1>3, <1>4, <1>6 DEF Content, TypeOK
<1>8. ASSUME NEW q \in Pod, q # p PROVE Kept(q)
  BY <1>0, <1>3, <1>6, <1>8 DEF Kept, Content, TypeOK
<1>9. /\ live' = live \cup {p}
      /\ content' = [content EXCEPT ![p] = op[t]]
  <2>1. use'[p] = "live"
    BY <1>1, <1>3
  <2>. QED
    BY <1>7, <1>8, <2>1, OnePodChanges
<1>10. p \in live /\ request[t] = <<op[t], p>>
  BY <1>1 DEF live, request
<1>11. AM!Finished(t)
  BY <1>0, FinishedVisible DEF Write
<1>12. AM!Write(t, p, op[t])
  BY <1>9, <1>10, <1>11 DEF AM!Write
<1>. QED
  BY <1>1, <1>12 DEF AM!Next

\* Finish of a malloc hands out the page asked for and changes no other.
LEMMA MallocVisible ==
    ASSUME PagingInv, ContentTypeOK', NEW t \in Thread, Finish(t), op[t] = "malloc"
    PROVE  AM!Next
<1>0. TypeOK /\ MutexInv /\ UseInv
  BY DEF PagingInv
<1>1. PICK p \in Pod : p = cur[t] /\ use[p] = "claimed" /\ owner[p] = t
  BY <1>0 DEF Finish, At, UseInv, MutexInv, Locked, InTransit
<1>2. /\ UNCHANGED podVars /\ owner' = [owner EXCEPT ![p] = NoThread]
      /\ use' = [use EXCEPT ![p] = "live"] /\ pc' = [pc EXCEPT ![t] = "run"]
      /\ pc[t] = "done" /\ Return(t, "run")
  <2>1. op[t] \notin Value \cup {"read"} /\ op[t] \notin {"none", "promote", "cleanup"}
    BY PagingAssumption
  <2>. QED
    BY <1>1, <2>1 DEF Finish, Unlock, Return, GoTo, At
<1>3. ASSUME NEW q \in Pod, q # p PROVE Kept(q)
  <2>1. owner'[q] = owner[q] /\ use'[q] = use[q]
    BY <1>0, <1>2, <1>3 DEF TypeOK
  <2>2. owner[q] # NoThread => pc'[owner[q]] = pc[owner[q]]
    BY <1>0, <1>1, <1>2, <1>3 DEF TypeOK, MutexInv, Unlocked
  <2>. QED
    BY <1>2, <2>1, <2>2 DEF Kept, Content, InMemory, Unlocked, podVars
<1>4. use'[p] = "live"
  BY <1>0, <1>1, <1>2 DEF TypeOK
<1>5. live' = live \cup {p} /\ content' = [content EXCEPT ![p] = Content(p)']
  BY <1>1, <1>3, <1>4, OnePodChanges
<1>6. Content(p)' \in Data
  BY DEF ContentTypeOK
<1>7. p \notin live /\ t \in App
  BY <1>0, <1>1 DEF live, UseInv
<1>8. request[t] = <<"malloc", p>> /\ AM!Finished(t)
  BY <1>0, <1>1, <1>2, <1>7, FinishedVisible DEF request
<1>9. AM!Malloc(t, p)
  BY <1>5, <1>6, <1>7, <1>8 DEF AM!Malloc
<1>. QED
  BY <1>1, <1>7, <1>9 DEF AM!Next

\* hugeFree takes one page back and changes no other.
LEMMA FreeVisible ==
    ASSUME PagingInv, NEW p \in Pod, hugeFree(p)
    PROVE  AM!Free(p)
<1>0. TypeOK
  BY DEF PagingInv
<1>1. p \in live /\ use'[p] = "free" /\ use' = [use EXCEPT ![p] = "free"]
  BY <1>0 DEF hugeFree, TypeOK, live
<1>2. ASSUME NEW q \in Pod, q # p PROVE Kept(q)
  <2>1. use'[q] = use[q] /\ UNCHANGED <<podVars, owner, pc>>
    BY <1>0, <1>1, <1>2 DEF TypeOK, hugeFree, threadVars
  <2>. QED
    BY <2>1 DEF Kept, Content, InMemory, Unlocked, podVars
<1>3. live' = live \ {p} /\ content' = [content EXCEPT ![p] = Undefined]
  BY <1>1, <1>2, OnePodChanges
<1>4. UNCHANGED request
  BY DEF hugeFree, threadVars, request
<1>. QED
  BY <1>1, <1>3, <1>4 DEF AM!Free

\* toInit, called by remon_cleanup_evicted, gives up the content of the page the
\* call is about and changes no other.
LEMMA DiscardVisible ==
    ASSUME PagingInv, ContentTypeOK', NEW t \in App, toInit(t)
    PROVE  AM!Next
<1>0. TypeOK /\ MutexInv /\ UseInv
  BY DEF PagingInv
<1>1. PICK p \in Pod : p = cur[t] /\ owner[p] = t /\ use[p] = "live" /\ op[t] = "cleanup"
  BY <1>0 DEF toInit, At, MutexInv, UseInv, Locked, InTransit, Thread
<1>2. UNCHANGED <<use, owner, op, cur>> /\ pc' = [pc EXCEPT ![t] = "done"] /\ pc[t] = "cleanup"
  BY DEF toInit, GoTo, At
<1>3. state[p] = "remote" => landlord[p] \in Peer
  <2>1. Label(p) = "cleanup" /\ CopyInv(p)
    BY <1>1, <1>2, PagingAssumption DEF Label, Unlocked, PagingInv, Thread
  <2>. QED
    BY <2>1 DEF CopyInv, SettledCopy, InTransit
<1>4. ASSUME NEW q \in Pod, q # p PROVE Kept(q)
  <2>1. \/ remoteCopy' = remoteCopy
        \/ landlord[p] \in Peer /\ remoteCopy' = [remoteCopy EXCEPT ![landlord[p]][p] = NoData]
    BY <1>1, <1>3 DEF toInit
  <2>2. \A n \in Peer : remoteCopy'[n][q] = remoteCopy[n][q]
    <3>1. remoteCopy \in [Peer -> [Pod -> Data \cup {NoData}]]
      BY <1>0 DEF TypeOK
    <3>. QED
      BY <1>4, <2>1, <3>1, RemoteCopyExcept
  <2>3. UNCHANGED <<state[q], mem[q], swapFile[q], landlord[q]>>
    BY <1>0, <1>1, <1>4 DEF toInit, TypeOK, DropMemory
  <2>4. owner[q] # NoThread => pc'[owner[q]] = pc[owner[q]]
    BY <1>0, <1>1, <1>2, <1>4 DEF TypeOK, MutexInv, Unlocked
  <2>5. Content(q) = Content(q)'
    <3>1. InMemory(q)' <=> InMemory(q)
      BY <1>2, <2>3, <2>4 DEF InMemory, Unlocked
    <3>2. ~InMemory(q) /\ state[q] # "disk" => landlord[q] \in Peer
      BY DEF PagingInv, InMemory, Label, CopyInv, SettledCopy, HolderState, Unlocked,
             InTransit, TypeOK, PodState
    <3>. QED
      BY <2>2, <2>3, <3>1, <3>2 DEF Content
  <2>. QED
    BY <1>2, <2>5 DEF Kept
<1>5. use'[p] = "live" /\ Content(p)' \in Data
  BY <1>1, <1>2 DEF ContentTypeOK
<1>6. live' = live \cup {p} /\ content' = [content EXCEPT ![p] = Content(p)']
  BY <1>4, <1>5, OnePodChanges
<1>7. p \in live /\ request[t] = <<"cleanup", p>> /\ UNCHANGED request
  BY <1>1, <1>2 DEF live, request
<1>8. AM!Discard(t, p)
  BY <1>5, <1>6, <1>7 DEF AM!Discard
<1>. QED
  BY <1>1, <1>8 DEF AM!Next

\* What the step of a thread or a call means for the requests, when it changes no
\* content: it starts one, ends one, or is none of the application's business.
LEMMA QuietSteps ==
    ASSUME PagingInv, [Next]_vars, \A q \in Pod : Kept(q),
           \A t \in App : ~Write(t),
           \A t \in Thread : Finish(t) => op[t] # "malloc"
    PROVE  AM!Next \/ UNCHANGED <<live, content, request>>
<1>0. TypeOK /\ MutexInv /\ UseInv
  BY DEF PagingInv
<1>1. ASSUME NEW t \in App, NEW p \in Pod, NEW o \in Value \cup {"read"},
             BeginAccess(t, p, o) PROVE AM!Next
  <2>1. o \in AM!Operation /\ o # "malloc"
    BY PagingAssumption DEF AM!Operation
  <2>. QED
    BY <1>1, <2>1, RequestVisible DEF BeginAccess, Start
<1>2. ASSUME NEW t \in App, NEW p \in Pod, hugeMalloc(t, p) PROVE AM!Next
  <2>1. "malloc" \in AM!Operation
    BY DEF AM!Operation
  <2>. QED
    BY <1>2, <2>1, RequestVisible DEF hugeMalloc, Start
<1>3. ASSUME NEW t \in App, NEW p \in Pod, remonPromotePod(t, p) PROVE AM!Next
  <2>1. "promote" \in AM!Operation
    BY DEF AM!Operation
  <2>. QED
    BY <1>3, <2>1, RequestVisible DEF remonPromotePod, Start
<1>4. ASSUME NEW t \in App, NEW p \in Pod, remon_cleanup_evicted(t, p) PROVE AM!Next
  <2>1. "cleanup" \in AM!Operation
    BY DEF AM!Operation
  <2>. QED
    BY <1>4, <2>1, RequestVisible DEF remon_cleanup_evicted, Start
<1>5. ASSUME NEW t \in App, Read(t) PROVE AM!Next
  BY <1>5, PagingAssumption, ReturnVisible DEF Read
<1>6. ASSUME NEW t \in Thread, Finish(t) PROVE AM!Next \/ UNCHANGED request
  <2>1. CASE UNCHANGED <<op, cur>>
    BY <2>1 DEF request
  <2>2. CASE op[t] \in {"none", "promote", "cleanup"} /\ Return(t, "run")
    <3>1. CASE t \in App
      BY <2>2, <3>1, PagingAssumption, ReturnVisible
    <3>2. CASE t \notin App
      <4>1. \A u \in App : op'[u] = op[u] /\ cur'[u] = cur[u]
        BY <1>0, <2>2, <3>2 DEF Return, TypeOK, Thread
      <4>. QED
        BY <4>1 DEF request
    <3>. QED
      BY <3>1, <3>2
  <2>. QED
    BY <1>6, <2>1, <2>2 DEF Finish
<1>7. ASSUME NEW e \in Evictor, getFromLRUList(e) PROVE UNCHANGED request
  <2>1. \A u \in App : op'[u] = op[u] /\ cur'[u] = cur[u]
    BY <1>0, <1>7, PagingAssumption DEF getFromLRUList, Start, TypeOK, Thread
  <2>. QED
    BY <2>1 DEF request
<1>8. ASSUME NEW w \in Worker, NEW p \in Pod, prefetch(w, p) PROVE UNCHANGED request
  <2>1. \A u \in App : op'[u] = op[u] /\ cur'[u] = cur[u]
    BY <1>0, <1>8, PagingAssumption DEF prefetch, Start, TypeOK, Thread
  <2>. QED
    BY <2>1 DEF request
<1>9. \/ UNCHANGED <<op, cur>>
      \/ \E t \in App, p \in Pod : \E o \in Value \cup {"read"} : BeginAccess(t, p, o)
      \/ \E t \in App, p \in Pod : \/ hugeMalloc(t, p) \/ remonPromotePod(t, p)
                                   \/ remon_cleanup_evicted(t, p)
      \/ \E t \in App : Read(t)
      \/ \E t \in Thread : Finish(t)
      \/ \E e \in Evictor : getFromLRUList(e)
      \/ \E w \in Worker, p \in Pod : prefetch(w, p)
  BY ZenonT(60) DEF Next, AppStep, CallStep, EvictorStep, WorkerStep, vars, threadVars, Fault,
         activateAddress, Lock, ActivateResident, diskToLocalPinned,
         remoteToLocalPinned, diskCacheToLocalPinned, remoteCacheToLocalPinned,
         toReadAndWrite, setLocalPinned, localPinnedToLocal, toInit, hugeFree,
         trimFreeBlock, remonDemote, EvictFree, EvictCache, EvictNothing, remoteSwap,
         swapToDisk, toReadOnly, SendPage, toNone, ReleaseEvicted, diskToDiskCache,
         remoteToRemoteCache, PrefetchNothing, initToLocal, initToLocalOpen, RefreshLRU
<1>10. UNCHANGED <<op, cur>> => UNCHANGED request
  BY DEF request
<1>. QED
  BY <1>1, <1>2, <1>3, <1>4, <1>5, <1>6, <1>7, <1>8, <1>9, <1>10, KeptMemory

\* Paging is transparent, for any number of pods, threads and memory nodes: the
\* pages the application owns hold what it last wrote, wherever faults,
\* evictions, prefetches and calls move them (src/README.md:3).
THEOREM PagingImplementsMemory == Spec => Transparent
<1>1. Init => AM!Init
  <2> SUFFICES ASSUME Init PROVE AM!Init
    OBVIOUS
  <2>1. live = {} /\ request = [t \in App |-> <<"none", NoPod>>]
    BY DEF Init, live, request, Thread
  <2>. QED
    BY <2>1 DEF AM!Init, content, Undefined
<1>2. PagingInv /\ ContentTypeOK' /\ [Next]_vars => [AM!Next]_(AM!vars)
  <2> SUFFICES ASSUME PagingInv, ContentTypeOK', [Next]_vars
               PROVE  AM!Next \/ UNCHANGED <<live, content, request>>
    BY DEF AM!vars
  <2>1. CASE \E t \in App : Write(t)
    BY <2>1, WriteVisible
  <2>2. CASE \E p \in Pod : hugeFree(p)
    BY <2>2, FreeVisible DEF AM!Next
  <2>3. CASE \E t \in App : toInit(t)
    BY <2>3, DiscardVisible
  <2>4. CASE \E t \in Thread : Finish(t) /\ op[t] = "malloc"
    BY <2>4, MallocVisible
  <2>5. CASE /\ \A t \in App : ~Write(t) /\ ~toInit(t)
             /\ \A p \in Pod : ~hugeFree(p)
             /\ \A t \in Thread : Finish(t) => op[t] # "malloc"
    <3>1. \A q \in Pod : Kept(q)
      BY <2>5, InvisibleSteps
    <3>. QED
      BY <2>5, <3>1, QuietSteps
  <2>. QED
    BY <2>1, <2>2, <2>3, <2>4, <2>5
<1>. QED
  BY PagingInvariant, ContentIsData, <1>1, <1>2, PTL DEF Spec, Transparent, AM!Spec
=============================================================================

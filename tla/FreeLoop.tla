------------------------------ MODULE FreeLoop ------------------------------
(***************************************************************************)
(* Memory pressure on the compute node: how faulting threads, the free     *)
(* loops that evict for them, the monitor thread and the prefetcher keep   *)
(* the resident pages within MAX_RAM_IN_GB.                                *)
(*                                                                         *)
(* Every faulting thread has a free-loop thread of its own, created at its *)
(* first fault, which evicts while memory is short and then sleeps on a    *)
(* condition variable all of them share.  Once swapping is on, a fault     *)
(* that finds memory short spins, holding its pod's mutex, until a free    *)
(* loop has made room.  The free loops look at the least recently used     *)
(* page only, and skip it while its mutex is held.                         *)
(*                                                                         *)
(* What a fault, an eviction and a prefetch do to a page is the subject of *)
(* module Paging; here they are a step each.  Pages are evicted to the     *)
(* swap directory, so a cached page counts as resident (the kernel counts  *)
(* the second mapping it was filled through).                              *)
(***************************************************************************)
EXTENDS Naturals, Sequences, SequencesExt, FiniteSets

CONSTANTS App,          \* threads that fault
          MaxRam,       \* pages that fit (maxRamInGB)
          Margin,       \* pages short of MaxRam at which swapping starts
          MaxPrefetch,  \* pages a prefetch task covers (MAX_PREFETCH - 1)
          Workload,     \* which threads fault, on how many pages of one block, and
                        \* whether it was built with PREFETCH
          None

ASSUME FreeLoopAssumption ==
    /\ MaxRam \in Nat /\ Margin \in Nat /\ MaxPrefetch \in Nat
    /\ None \notin App
    /\ Workload \subseteq [threads : SUBSET App, pods : Nat, PREFETCH : BOOLEAN]

VARIABLES
    load,        \* the workload of this execution
    state,       \* init, local, disk or diskCache
    owner,       \* holder of the pod's mutex: a thread, or the free loop of one
    LRUList,     \* most recently used first
    pc, cur,     \* where each thread is, and the pod it faulted on
    loop,        \* where its free loop is
    victim,      \* the pod its free loop evicts
    swapModeOn,
    tasks,       \* prefetchTaskQueue
    taskCombo    \* pods the prefetch worker has still to look at

Pod == 1 .. load.pods

threadVars == <<pc, cur>>
loopVars == <<loop, victim>>
prefetchVars == <<tasks, taskCombo>>
vars == <<load, state, owner, LRUList, threadVars, loopVars, swapModeOn, prefetchVars>>

TypeOK ==
    /\ load \in Workload
    /\ state \in [Pod -> {"init", "local", "disk", "diskCache"}]
    /\ owner \in [Pod -> App \cup {None}]
    /\ LRUList \in Seq(Pod)
    /\ pc \in [App -> {"run", "lock", "signal", "spin", "activate"}]
    /\ cur \in [App -> Pod \cup {None}]
    /\ loop \in [App -> {"none", "awake", "evict", "drowsy", "asleep"}]
    /\ victim \in [App -> Pod \cup {None}]
    /\ swapModeOn \in BOOLEAN
    /\ tasks \in SUBSET Pod
    /\ taskCombo \in SUBSET Pod

Init ==
    /\ load \in Workload
    /\ state = [p \in Pod |-> "init"]
    /\ owner = [p \in Pod |-> None]
    /\ LRUList = <<>>
    /\ pc = [t \in App |-> "run"]
    /\ cur = [t \in App |-> None]
    /\ loop = [t \in App |-> "none"]
    /\ victim = [t \in App |-> None]
    /\ swapModeOn = FALSE
    /\ tasks = {} /\ taskCombo = {}

Resident == Cardinality({p \in Pod : state[p] \in {"local", "diskCache"}})
ifNeedToSwap == Resident > MaxRam
-----------------------------------------------------------------------------
(***************************************************************************)
(* Faults.                                                                 *)
(***************************************************************************)
GoTo(t, l) == pc' = [pc EXCEPT ![t] = l]

\* updateLRUList: a pod on the list is erased where its iterator points; p becomes
\* the most recently used pod.
LRUIter(p) == CHOOSE i \in DOMAIN LRUList : LRUList[i] = p
Erased(p) == IF p \in ToSet(LRUList) THEN RemoveAt(LRUList, LRUIter(p)) ELSE LRUList
updateLRUList(p) == LRUList' = <<p>> \o Erased(p)

activatePodWrap(p) == tasks' = IF load.PREFETCH THEN tasks \cup {p} ELSE tasks

activateAddress(t, p) ==
    /\ pc[t] = "run" /\ state[p] # "local"
    /\ cur' = [cur EXCEPT ![t] = p]
    /\ activatePodWrap(p)
    /\ GoTo(t, "lock")
    /\ UNCHANGED <<state, owner, LRUList, loopVars, swapModeOn, taskCombo>>

\* The pod's mutex, and the test at the start of activatePod.
Lock(t) ==
    /\ pc[t] = "lock" /\ owner[cur[t]] = None
    /\ owner' = [owner EXCEPT ![cur[t]] = t]
    /\ GoTo(t, IF state[cur[t]] = "local" THEN "activate" ELSE "signal")
    /\ UNCHANGED <<state, LRUList, cur, loopVars, swapModeOn, prefetchVars>>

\* freeLoopCv
Asleep == {u \in App : loop[u] = "asleep"}
notify_one == \/ Asleep = {} /\ UNCHANGED loop
              \/ \E u \in Asleep : loop' = [loop EXCEPT ![u] = "awake"]

\* A thread without a free loop gets one.
checkTidMappedFreeThread(t) ==
    /\ pc[t] = "signal" /\ loop[t] = "none"
    /\ loop' = [loop EXCEPT ![t] = "awake"]
    /\ UNCHANGED <<state, owner, LRUList, threadVars, victim, swapModeOn, prefetchVars>>

freeLoopSignal(t) ==
    /\ pc[t] = "signal" /\ loop[t] # "none"
    /\ \/ swapModeOn /\ notify_one /\ GoTo(t, "spin")
       \/ ~swapModeOn /\ GoTo(t, "activate") /\ UNCHANGED loop
    /\ UNCHANGED <<state, owner, LRUList, cur, victim, swapModeOn, prefetchVars>>

\* One round of the loop in freeLoopSignal.
Spin(t) ==
    /\ pc[t] = "spin"
    /\ \/ /\ ~ifNeedToSwap
          /\ GoTo(t, "activate")
          /\ UNCHANGED loop
       \/ /\ ifNeedToSwap
          /\ \E u \in App : loop[u] \in {"drowsy", "asleep"}
          /\ notify_one
          /\ UNCHANGED pc
    /\ UNCHANGED <<state, owner, LRUList, cur, victim, swapModeOn, prefetchVars>>

\* The rest of activatePod; a hit on a cached page asks for more.
activatePod(t) ==
    LET p == cur[t] IN
    /\ pc[t] = "activate"
    /\ state' = [state EXCEPT ![p] = "local"]
    /\ updateLRUList(p)
    /\ \/ state[p] = "diskCache" /\ activatePodWrap(p)
       \/ state[p] # "diskCache" /\ UNCHANGED tasks
    /\ owner' = [owner EXCEPT ![p] = None]
    /\ cur' = [cur EXCEPT ![t] = None]
    /\ GoTo(t, "run")
    /\ UNCHANGED <<loopVars, swapModeOn, taskCombo>>
-----------------------------------------------------------------------------
(***************************************************************************)
(* The free loop of thread t.                                              *)
(***************************************************************************)

\* Mutant: the tail stays on the list.
getFromLRUListKeeps(t) ==
    /\ loop[t] = "awake" /\ ifNeedToSwap /\ LRUList # <<>>
    /\ owner[Last(LRUList)] = None
    /\ owner' = [owner EXCEPT ![Last(LRUList)] = t]
    /\ victim' = [victim EXCEPT ![t] = Last(LRUList)]
    /\ loop' = [loop EXCEPT ![t] = "evict"]
    /\ UNCHANGED <<state, LRUList, threadVars, swapModeOn, prefetchVars>>

\* The tail of the list is taken, if its mutex is free.
getFromLRUList(t) ==
    /\ loop[t] = "awake" /\ ifNeedToSwap /\ LRUList # <<>>
    /\ owner[Last(LRUList)] = None
    /\ owner' = [owner EXCEPT ![Last(LRUList)] = t]
    /\ LRUList' = Front(LRUList)
    /\ victim' = [victim EXCEPT ![t] = Last(LRUList)]
    /\ loop' = [loop EXCEPT ![t] = "evict"]
    /\ UNCHANGED <<state, threadVars, swapModeOn, prefetchVars>>

pickPodToEvict(t) ==
    /\ loop[t] = "evict"
    /\ state' = [state EXCEPT ![victim[t]] = "disk"]
    /\ owner' = [owner EXCEPT ![victim[t]] = None]
    /\ victim' = [victim EXCEPT ![t] = None]
    /\ loop' = [loop EXCEPT ![t] = "awake"]
    /\ UNCHANGED <<LRUList, threadVars, swapModeOn, prefetchVars>>

\* Memory suffices: the loop gives up its turn, and a step later waits.  A
\* notification in between is lost.
memoryFreeLoopSpl(t) ==
    /\ loop[t] = "awake" /\ ~ifNeedToSwap
    /\ loop' = [loop EXCEPT ![t] = "drowsy"]
    /\ UNCHANGED <<state, owner, LRUList, threadVars, victim, swapModeOn, prefetchVars>>

freeLoopThreadSpl(t) ==
    /\ loop[t] = "drowsy"
    /\ loop' = [loop EXCEPT ![t] = "asleep"]
    /\ UNCHANGED <<state, owner, LRUList, threadVars, victim, swapModeOn, prefetchVars>>
-----------------------------------------------------------------------------
\* Mutant: the monitor only switches swapping on.
peakRamMainOnce ==
    /\ ~swapModeOn /\ Resident + Margin > MaxRam
    /\ swapModeOn' = TRUE
    /\ loop' = [u \in App |-> IF u \in Asleep THEN "awake" ELSE loop[u]]
    /\ UNCHANGED <<state, owner, LRUList, threadVars, victim, prefetchVars>>

\* The monitor, every 10 ms: it switches swapping on, later it wakes a loop.
peakRamMain ==
    /\ \/ /\ ~swapModeOn /\ Resident + Margin > MaxRam
          /\ swapModeOn' = TRUE
          /\ loop' = [u \in App |-> IF u \in Asleep THEN "awake" ELSE loop[u]]
       \/ /\ swapModeOn /\ Resident >= MaxRam
          /\ notify_one
          /\ UNCHANGED swapModeOn
    /\ UNCHANGED <<state, owner, LRUList, threadVars, victim, prefetchVars>>

\* The prefetch worker takes a task: the pods that follow p in its block.
prefetch(p) ==
    /\ taskCombo = {} /\ p \in tasks
    /\ tasks' = tasks \ {p}
    /\ taskCombo' = {q \in Pod : p < q /\ q <= p + MaxPrefetch}
    /\ UNCHANGED <<state, owner, LRUList, threadVars, loopVars, swapModeOn>>

\* It tries each of them once, in order, without looking at memory pressure.
prefetchPod(p) ==
    /\ p \in taskCombo /\ \A q \in taskCombo : p <= q
    /\ taskCombo' = taskCombo \ {p}
    /\ \/ /\ owner[p] = None /\ state[p] \in {"init", "disk"}
          /\ state' = [state EXCEPT ![p] =
                           IF state[p] = "init" THEN "local" ELSE "diskCache"]
          /\ updateLRUList(p)
       \/ /\ owner[p] # None \/ state[p] \in {"local", "diskCache"}
          /\ UNCHANGED <<state, LRUList>>
    /\ UNCHANGED <<owner, threadVars, loopVars, swapModeOn, tasks>>
-----------------------------------------------------------------------------
FaultStep(t) == \/ Lock(t) \/ checkTidMappedFreeThread(t) \/ freeLoopSignal(t)
                \/ Spin(t) \/ activatePod(t)

LoopStep(t) == \/ getFromLRUList(t) \/ pickPodToEvict(t)
               \/ memoryFreeLoopSpl(t) \/ freeLoopThreadSpl(t)

PrefetchStep == \E p \in Pod : prefetch(p) \/ prefetchPod(p)

Step == \/ \E t \in load.threads : \/ \E p \in Pod : activateAddress(t, p)
                                   \/ FaultStep(t) \/ LoopStep(t)
        \/ peakRamMain
        \/ PrefetchStep

Next == Step /\ UNCHANGED load

\* Every thread keeps running; when the application faults, and when the worker
\* serves a task, is open.
Fairness == /\ \A t \in App : /\ WF_vars(FaultStep(t) /\ UNCHANGED load)
                             /\ WF_vars(LoopStep(t) /\ UNCHANGED load)
            /\ WF_vars(peakRamMain /\ UNCHANGED load)

Spec == Init /\ [][Next]_vars /\ Fairness
-----------------------------------------------------------------------------
(***************************************************************************)
(* Properties.                                                             *)
(***************************************************************************)

\* A fault that waits for room has its own page off the LRU list, where it would
\* stop every free loop at the tail: eviction took it off.  The exception is a
\* page that a prefetch has cached and so put back.
WaitersOffTheList ==
    \A t \in App :
        (pc[t] = "spin" /\ state[cur[t]] # "diskCache") => cur[t] \notin ToSet(LRUList)

\* MAX_RAM_IN_GB is the "local RAM limit before swapping" (src/README.md:41):
\* whenever more is resident, eviction brings it back within the limit.
PressureRelieved == (Resident > MaxRam) ~> (Resident <= MaxRam)

\* The tail of the LRU list is a cached page whose fault waits for room.
CachedTailHeld ==
    /\ LRUList # <<>> /\ state[Last(LRUList)] = "diskCache"
    /\ \E t \in App : pc[t] = "spin" /\ cur[t] = Last(LRUList)

\* Nothing else stands in the way, not even the notifications that are lost
\* between a free loop's last test and its wait: memory comes back within the
\* limit, or a fault waits for room on the cached page all free loops wait for.
\* Without prefetching that does not happen, and PressureRelieved holds.
PressureRelievedOrTailHeld == (Resident > MaxRam) ~> (Resident <= MaxRam \/ CachedTailHeld)
=============================================================================

----------------------------- MODULE RangeCalls -----------------------------
(***************************************************************************)
(* The calls by which an application moves pages itself: promote a page or *)
(* a range, demote a range, force a page out.  They are carried out by     *)
(* detached threads while the application goes on, and its faults and the  *)
(* evictions go on with it.                                                *)
(*                                                                         *)
(* Paging has the calls that take the pod's mutex, with every destination  *)
(* and every protection.  Here the mutex is not always taken: promoting a  *)
(* range activates pods without it, and forcing a page out goes on when it *)
(* did not get it.  Pages are those of large blocks, in use, and without a *)
(* peer their copies are in swap files.  The order of the LRU list is left *)
(* out: an eviction takes any page of it.  How long a thread waits for     *)
(* memory is left open (FreeLoop has the wait).                            *)
(***************************************************************************)
EXTENDS Integers, FiniteSets, FiniteSetsExt

CONSTANTS App,        \* threads of the application
          Async,      \* detached threads that can be under way at once
          Evictor,    \* free loops
          Workload,   \* which calls are made, by which threads, on how many pods;
                      \* bound: none begins once more than clashes pods have clashed
          NoThread

Call == {"fault", "evict", "promote", "promoteRange", "demoteRange", "forceSwap"}
Thread == App \cup Async \cup Evictor

ASSUME RangeAssumption ==
    /\ Workload \subseteq [calls : SUBSET Call, threads : SUBSET Thread,
                           pods : Nat \ {0}, clashes : Nat]
    /\ NoThread \notin Thread

VARIABLES
    load,               \* the workload of this execution
    state, mutex,       \* of each pod
    mem,                \* what its memory holds: its data, or zeros
    file,               \* what its swap file holds
    open, swapPath,     \* pods the application can access, pods with a swapPath
    LRU, LRULock,       \* pods on LRUList, the thread that holds its lock
    pc, call, cur,      \* of each thread: its step, its call, its pod (0: none)
    todo,               \* the pods left in its range
    fatal,              \* the pod whose swap file was missing: exit (0: running)
    clashed             \* history: pods that two threads were moving at once

Page == 1 .. load.pods

podVars == <<state, mem, open, file, swapPath>>
threadVars == <<pc, call, cur, todo>>
vars == <<load, podVars, mutex, LRU, LRULock, threadVars, fatal, clashed>>

Init ==
    /\ load \in Workload
    /\ state = [p \in Page |-> "local"] /\ mutex = [p \in Page |-> NoThread]
    /\ mem = [p \in Page |-> "data"] /\ file = [p \in Page |-> "none"]
    /\ open = Page /\ swapPath = {}
    /\ LRU = Page /\ LRULock = NoThread
    /\ pc = [t \in Thread |-> "idle"] /\ call = [t \in Thread |-> "none"]
    /\ cur = [t \in Thread |-> 0] /\ todo = [t \in Thread |-> {}]
    /\ fatal = 0 /\ clashed = {}
-----------------------------------------------------------------------------
At(t, l) == pc[t] = l /\ fatal = 0
Goto(t, l) == pc' = [pc EXCEPT ![t] = l]

\* t starts on a call: the pods of range in order, the first step of each at l.
Take(t, c, range, l) ==
    /\ call' = [call EXCEPT ![t] = c]
    /\ cur' = [cur EXCEPT ![t] = Min(range)]
    /\ todo' = [todo EXCEPT ![t] = range \ {Min(range)}]
    /\ Goto(t, l)
    /\ UNCHANGED fatal

Begin(t, c, range, l) ==
    /\ At(t, "idle") /\ c \in load.calls /\ Cardinality(clashed) <= load.clashes
    /\ Take(t, c, range, l)

\* t is done with its pod: on to the next one of its range, if there is one.
PodDone(t) ==
    IF todo[t] # {}
    THEN Take(t, call[t], todo[t],
              IF call[t] = "promoteRange" THEN "activate" ELSE "lock")
    ELSE /\ call' = [call EXCEPT ![t] = "none"]
         /\ cur' = [cur EXCEPT ![t] = 0]
         /\ Goto(t, "idle")
         /\ UNCHANGED <<todo, fatal>>

\* The handler of a fault, raised when the page was closed, returns when the
\* page is local again.
activateAddress(t) ==
    /\ \E p \in Page : state[p] # "local" /\ Begin(t, "fault", {p}, "lock")
    /\ UNCHANGED <<podVars, mutex, LRU, LRULock>>

remonPromote(t) ==
    /\ \E p \in Page : Begin(t, "promote", {p}, "lock")
    /\ UNCHANGED <<podVars, mutex, LRU, LRULock>>

remonPromoteRange(t) ==
    /\ \E from, to \in Page : from <= to /\ Begin(t, "promoteRange", from..to, "activate")
    /\ UNCHANGED <<podVars, mutex, LRU, LRULock>>

remonDemoteRange(t) ==
    /\ \E from, to \in Page : \E exclude \in 0 .. load.pods :
        /\ from <= to /\ from..to # {exclude}
        /\ Begin(t, "demoteRange", (from..to) \ {exclude}, "lock")
    /\ UNCHANGED <<podVars, mutex, LRU, LRULock>>

\* pod->lock, and what the call does next: a fault activates the pod, a
\* promotion only when it is swapped out, a demotion leaves it if it is.
LockPod(t) ==
    /\ At(t, "lock") /\ mutex[cur[t]] = NoThread
    /\ mutex' = [mutex EXCEPT ![cur[t]] = t]
    /\ Goto(t, IF call[t] = "fault" THEN "activate"
               ELSE IF state[cur[t]] # "disk" THEN "relist"
               ELSE IF call[t] = "promote" THEN "activate" ELSE "unlock")
    /\ UNCHANGED <<podVars, LRU, LRULock, call, cur, todo, fatal>>

\* activatePod waits for memory unless the pod is local, ...
activatePod(t) ==
    /\ At(t, "activate")
    /\ Goto(t, IF state[cur[t]] = "local" THEN "switch" ELSE "room")
    /\ UNCHANGED <<podVars, mutex, LRU, LRULock, call, cur, todo, fatal>>

\* Mutant: the state is not looked at again after the wait.
freeLoopSignalStale(t) ==
    /\ At(t, "room") /\ Goto(t, "read")
    /\ UNCHANGED <<podVars, mutex, LRU, LRULock, call, cur, todo, fatal>>

\* ... with the mutex held by the calls that take it: the wait ends when there is
\* room, if there ever is.
freeLoopSignal(t) ==
    /\ At(t, "room") /\ Goto(t, "switch")
    /\ UNCHANGED <<podVars, mutex, LRU, LRULock, call, cur, todo, fatal>>

\* Mutant: a pod another thread has loaded meanwhile is tried again, mutex held.
SwitchStateRetries(t) ==
    /\ At(t, "switch")
    /\ Goto(t, IF state[cur[t]] = "disk" THEN "read" ELSE "activate")
    /\ UNCHANGED <<podVars, mutex, LRU, LRULock, call, cur, todo, fatal>>

\* Then it looks at the state again.
SwitchState(t) ==
    /\ At(t, "switch")
    /\ Goto(t, IF state[cur[t]] = "disk" THEN "read" ELSE "relist")
    /\ UNCHANGED <<podVars, mutex, LRU, LRULock, call, cur, todo, fatal>>

\* diskToLocalPinned reads the file at swapPath and exits when there is none,
ReadSwapFile(t) ==
    /\ At(t, "read")
    /\ IF cur[t] \in swapPath /\ file[cur[t]] # "none"
       THEN /\ mem' = [mem EXCEPT ![cur[t]] = file[cur[t]]]
            /\ Goto(t, "remove") /\ fatal' = 0
       ELSE fatal' = cur[t] /\ UNCHANGED <<mem, pc>>
    /\ UNCHANGED <<state, open, file, swapPath, mutex, LRU, LRULock, call, cur, todo>>

\* removes it,
RemoveSwapFile(t) ==
    /\ At(t, "remove")
    /\ file' = [file EXCEPT ![cur[t]] = "none"]
    /\ swapPath' = swapPath \ {cur[t]}
    /\ Goto(t, "reopen")
    /\ UNCHANGED <<state, mem, open, mutex, LRU, LRULock, call, cur, todo, fatal>>

\* opens the page
toReadAndWrite(t) ==
    /\ At(t, "reopen")
    /\ open' = open \cup {cur[t]}
    /\ Goto(t, "pin")
    /\ UNCHANGED <<state, mem, file, swapPath, mutex, LRU, LRULock, call, cur, todo, fatal>>

\* and sets the state.
diskToLocalPinned(t) ==
    /\ At(t, "pin")
    /\ state' = [state EXCEPT ![cur[t]] = "localPinned"]
    /\ Goto(t, "pinned")
    /\ UNCHANGED <<mem, open, file, swapPath, mutex, LRU, LRULock, call, cur, todo, fatal>>

localPinnedToLocal(t) ==
    /\ At(t, "pinned")
    /\ state' = [state EXCEPT ![cur[t]] = IF @ = "localPinned" THEN "local" ELSE @]
    /\ Goto(t, "relist")
    /\ UNCHANGED <<mem, open, file, swapPath, mutex, LRU, LRULock, call, cur, todo, fatal>>

\* updateLRUList or tailPodInLRUList: a pod not on the list is put on it.
updateLRUList(t) ==
    /\ At(t, "relist") /\ LRULock = NoThread
    /\ LRU' = LRU \cup {cur[t]}
    /\ IF call[t] = "promoteRange"
       THEN PodDone(t)
       ELSE Goto(t, "unlock") /\ UNCHANGED <<call, cur, todo, fatal>>
    /\ UNCHANGED <<podVars, mutex, LRULock>>

\* The mutex is open afterwards, whoever had it.
UnlockPod(t) ==
    /\ At(t, "unlock")
    /\ mutex' = [mutex EXCEPT ![cur[t]] = NoThread]
    /\ PodDone(t)
    /\ UNCHANGED <<podVars, LRU, LRULock>>
-----------------------------------------------------------------------------
\* Mutant: the pod is taken off the list before its mutex is tried.
pickPodToEvictPopsFirst(t) ==
    /\ LRULock = NoThread /\ At(t, "idle") /\ "evict" \in load.calls
    /\ \E p \in LRU :
        /\ LRU' = LRU \ {p}
        /\ IF mutex[p] = NoThread
           THEN mutex' = [mutex EXCEPT ![p] = t] /\ Take(t, "evict", {p}, "swapOut")
           ELSE UNCHANGED <<mutex, threadVars, fatal>>
    /\ UNCHANGED <<podVars, LRULock>>

\* getFromLRUList
pickPodToEvict(t) ==
    /\ LRULock = NoThread
    /\ \E p \in LRU :
        /\ mutex[p] = NoThread
        /\ mutex' = [mutex EXCEPT ![p] = t]
        /\ LRU' = LRU \ {p}
        /\ Begin(t, "evict", {p}, "swapOut")
    /\ UNCHANGED <<podVars, LRULock>>

\* remonForceSwap of a pod the call locks, of a pod some thread has locked,
\* and of a pod that is not on the list: then LRULock is never released.
remonForceSwap(w) ==
    /\ LRULock = NoThread
    /\ \E p \in LRU : /\ mutex[p] = NoThread
                      /\ mutex' = [mutex EXCEPT ![p] = w]
                      /\ LRU' = LRU \ {p}
                      /\ Begin(w, "forceSwap", {p}, "swapOut")
    /\ UNCHANGED <<podVars, LRULock>>

ForceSwapBusy(w) ==
    /\ LRULock = NoThread /\ LRU # {}
    /\ \E p \in Page : mutex[p] # NoThread /\ Begin(w, "forceSwap", {p}, "swapOut")
    /\ UNCHANGED <<podVars, mutex, LRU, LRULock>>

ForceSwapUnlisted(t) ==
    /\ At(t, "idle") /\ "forceSwap" \in load.calls
    /\ LRULock = NoThread /\ LRU # {}
    /\ \E p \in Page \ LRU : mutex[p] = NoThread
    /\ LRULock' = t
    /\ UNCHANGED <<podVars, mutex, LRU, threadVars, fatal>>

\* pickPodToEvict and asyncSwapOutPod evict a pod that is local.
asyncSwapOutPod(t) ==
    /\ At(t, "swapOut")
    /\ Goto(t, IF state[cur[t]] = "local" THEN "evict" ELSE "unlock")
    /\ UNCHANGED <<podVars, mutex, LRU, LRULock, call, cur, todo, fatal>>

\* Mutant: the pod is evicted without asking again.
evictPodUnasked(t) ==
    /\ At(t, "evict") /\ Goto(t, "toDisk")
    /\ UNCHANGED <<podVars, mutex, LRU, LRULock, call, cur, todo, fatal>>

\* evictPod asks once more, and opens the mutex of a pod that is not local any
\* more; its caller does so again.
evictPod(t) ==
    /\ At(t, "evict")
    /\ IF state[cur[t]] = "local"
       THEN Goto(t, "toDisk") /\ UNCHANGED mutex
       ELSE Goto(t, "unlock") /\ mutex' = [mutex EXCEPT ![cur[t]] = NoThread]
    /\ UNCHANGED <<podVars, LRU, LRULock, call, cur, todo, fatal>>

\* localToDisk sets the state, writes the file, and then closes the page,
\* drops its memory and remembers swapPath.
localToDisk(t) ==
    /\ At(t, "toDisk")
    /\ state' = [state EXCEPT ![cur[t]] = "disk"]
    /\ Goto(t, "write")
    /\ UNCHANGED <<mem, open, file, swapPath, mutex, LRU, LRULock, call, cur, todo, fatal>>

WriteSwapFile(t) ==
    /\ At(t, "write")
    /\ file' = [file EXCEPT ![cur[t]] = mem[cur[t]]]
    /\ Goto(t, "release")
    /\ UNCHANGED <<state, mem, open, swapPath, mutex, LRU, LRULock, call, cur, todo, fatal>>

releaseMemory(t) ==
    /\ At(t, "release")
    /\ open' = open \ {cur[t]}
    /\ mem' = [mem EXCEPT ![cur[t]] = "zero"]
    /\ swapPath' = swapPath \cup {cur[t]}
    /\ Goto(t, "unlock")
    /\ UNCHANGED <<state, file, mutex, LRU, LRULock, call, cur, todo, fatal>>
-----------------------------------------------------------------------------
\* A thread moves its pod from the state test that decides on it until the pod's
\* state is local or its file is complete.
Moving == {"read", "remove", "reopen", "pin", "pinned", "toDisk", "write", "release"}

Moves(t, p) == cur[t] = p /\ pc[t] \in Moving
Together == {p \in Page : \E t, u \in Thread : t # u /\ Moves(t, p) /\ Moves(u, p)}

Observed == UNCHANGED load /\ clashed' = clashed \cup Together'

Work(t) == \/ LockPod(t) \/ updateLRUList(t) \/ UnlockPod(t)
           \/ activatePod(t) \/ SwitchState(t)
           \/ ReadSwapFile(t) \/ RemoveSwapFile(t) \/ toReadAndWrite(t)
           \/ diskToLocalPinned(t) \/ localPinnedToLocal(t)
           \/ asyncSwapOutPod(t) \/ evictPod(t)
           \/ localToDisk(t) \/ WriteSwapFile(t) \/ releaseMemory(t)

Step ==
    \/ \E t \in App \cap load.threads : activateAddress(t) \/ ForceSwapUnlisted(t)
    \/ \E t \in Async \cap load.threads :
          \/ remonPromote(t) \/ remonPromoteRange(t) \/ remonDemoteRange(t)
          \/ remonForceSwap(t) \/ ForceSwapBusy(t)
    \/ \E t \in Evictor \cap load.threads : pickPodToEvict(t)
    \/ \E t \in load.threads : freeLoopSignal(t) \/ Work(t)

Next == Step /\ Observed

Spec == Init /\ [][Next]_vars

\* A thread goes on, and one that asks for a lock again and again gets it.  That
\* there is room for a page at last is not assumed.
FairSpec == Spec /\ \A t \in Thread : SF_vars(Work(t) /\ Observed)
-----------------------------------------------------------------------------
Label == Moving \cup {"idle", "lock", "activate", "room", "switch", "relist", "unlock",
                      "swapOut", "evict"}

\* Every variable has its type.
TypeOK ==
    /\ load \in Workload
    /\ state \in [Page -> {"local", "localPinned", "disk"}]
    /\ mutex \in [Page -> Thread \cup {NoThread}]
    /\ mem \in [Page -> {"data", "zero"}]
    /\ file \in [Page -> {"data", "zero", "none"}]
    /\ open \subseteq Page /\ swapPath \subseteq Page
    /\ LRU \subseteq Page /\ LRULock \in App \cup {NoThread}
    /\ pc \in [Thread -> Label] /\ call \in [Thread -> Call \cup {"none"}]
    /\ cur \in [Thread -> 0 .. load.pods] /\ todo \in [Thread -> SUBSET Page]
    /\ fatal \in 0 .. load.pods /\ clashed \subseteq Page

Untouched(p) == \A t \in Thread : cur[t] # p

\* diskToLocalPinned finds the file of the page it loads, whichever calls are made
\* next to faults and evictions, unless two threads have been moving that page at
\* once: no load comes before the file is written or after it is removed.
SwapFileExists == fatal \in clashed \cup {0}

\* The content of a page is never lost, neither from its memory while the application
\* can access it nor from its file while it cannot, whichever calls promote, demote
\* and force it out, unless two threads have been moving it at once.
ContentKept ==
    \A p \in Page \ clashed :
        mem[p] = "data" \/ (p \notin open /\ p \in swapPath /\ file[p] = "data")

\* A pod that no thread deals with, and that no two threads have been moving at once,
\* is where its state says, however the calls that moved it were interleaved: a local
\* one is open and on LRUList, so that an eviction finds every pod that occupies
\* memory, and one on disk is closed and has its content in its swap file.
PodsSettled ==
    \A p \in Page \ clashed : Untouched(p) =>
        \/ state[p] = "local" /\ p \in open /\ p \in LRU
        \/ state[p] = "disk" /\ p \notin open /\ p \in swapPath /\ file[p] = "data"

RoomComes == \A u \in Thread : []<>(pc[u] # "room")

\* A fault is served and its thread runs again, next to every call that moves pages,
\* with or without the mutex, provided no thread waits in freeLoopSignal for ever,
\* the process does not exit, and no forced swap of a pod off the list has kept LRULock.
FaultsEnd ==
    RoomComes => \A t \in App :
        call[t] = "fault" ~> call[t] = "none" \/ fatal # 0 \/ LRULock # NoThread
=============================================================================

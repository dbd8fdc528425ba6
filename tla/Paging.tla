------------------------------- MODULE Paging -------------------------------
(***************************************************************************)
(* The paging core of the compute node: the pods (pages) of huge           *)
(* allocations, the application threads whose accesses fault on them, the  *)
(* free-loop threads that evict them to a memory node or to the swap       *)
(* directory, and the prefetch workers that bring copies back.             *)
(*                                                                         *)
(* Threads meet in four places: a pod's mutex, its state and protection,   *)
(* which are read without the mutex (by the unlocked test of the fault     *)
(* handler, and by the hardware on every access), and the LRU list, whose  *)
(* every operation runs under LRULock and is one step here.                *)
(*                                                                         *)
(* Memory pressure is left open: a free-loop thread may evict at any time, *)
(* and freeLoopSignal, which only delays an activation, is the freedom not *)
(* to take its step.  A memory node is modelled by the contract the client *)
(* code relies on: save stores a page under its index unless that key is   *)
(* present, get returns and removes it, free removes it.                   *)
(***************************************************************************)
EXTENDS Naturals, Sequences, SequencesExt

CONSTANTS Pod,        \* the pods of one region
          App,        \* application threads
          Evictor,    \* free-loop threads (freeLoopThreadSpl)
          Worker,     \* prefetch workers (prefetchWorkerThreadMain)
          Peer,       \* memory nodes (remonConfig.peers)
          Value,      \* what the application writes to a page
          Zero,       \* the content of a page never written: a hole in its memfd
          NoData,     \* no swap file, no copy on a memory node
          NoThread,   \* a mutex nobody holds
          NoPod,
          Disk,       \* the destination of an eviction no peer accepts
          SwapDir     \* TRUE when a swap directory is configured

Thread == App \cup Evictor \cup Worker
Data == Value \cup {Zero}
Destination == Peer \cup {Disk}

ASSUME PagingAssumption ==
    /\ App \cap (Evictor \cup Worker) = {} /\ Evictor \cap Worker = {}
    /\ NoThread \notin Thread
    /\ NoPod \notin Pod
    /\ NoData \notin Data
    /\ Disk \notin Peer
    /\ Value \cap {"none", "read", "promote", "malloc", "cleanup"} = {}
    /\ SwapDir \in BOOLEAN

VARIABLES
    state,       \* podStateT of each pod
    prot,        \* protection of its mapping
    mem,         \* content of its memfd
    swapFile,    \* content of its file in the swap directory
    swapPath,    \* whether swapPath names that file
    remoteCopy,  \* what each memory node stores under the pod's index
    landlord,    \* landlordClient: the memory node holding the pod
    owner,       \* holder of the pod's mutex
    LRUList,     \* most recently used first
    LRUIterIsValid,
    isFree,      \* the flag the evictor tests
    use,         \* "free" (in the page allocator), "claimed", or "live"
    pc, cur, op, \* where each thread is, its pod, what it is doing there
    dst          \* where each evictor is sending its pod

podVars == <<state, prot, mem, swapFile, swapPath, remoteCopy, landlord>>
lruVars == <<LRUList, LRUIterIsValid>>
threadVars == <<pc, cur, op, dst>>
vars == <<podVars, owner, lruVars, isFree, use, threadVars>>

PodState == {"init", "local", "localPinned", "disk", "remote",
             "diskCache", "remoteCache"}
Op == {"none", "read", "promote", "malloc", "cleanup"} \cup Value

TypeOK ==
    /\ state \in [Pod -> PodState]
    /\ prot \in [Pod -> {"none", "read", "rw"}]
    /\ mem \in [Pod -> Data]
    /\ swapFile \in [Pod -> Data \cup {NoData}]
    /\ swapPath \in [Pod -> BOOLEAN]
    /\ remoteCopy \in [Peer -> [Pod -> Data \cup {NoData}]]
    /\ landlord \in [Pod -> Destination]
    /\ owner \in [Pod -> Thread \cup {NoThread}]
    /\ LRUList \in Seq(Pod)
    /\ LRUIterIsValid \in [Pod -> BOOLEAN]
    /\ isFree \in [Pod -> BOOLEAN]
    /\ use \in [Pod -> {"free", "claimed", "live"}]
    /\ pc \in [Thread -> {"run", "access", "check", "lock", "activate",
                          "mapped", "fetched", "writable", "pinned", "lru",
                          "cleanup", "done", "pick", "protect", "send", "hide",
                          "release", "prefetch", "exit"}]
    /\ cur \in [Thread -> Pod \cup {NoPod}]
    /\ op \in [Thread -> Op]
    /\ dst \in [Evictor -> Destination]

Init ==
    /\ state = [p \in Pod |-> "init"]
    /\ prot = [p \in Pod |-> "none"]
    /\ mem = [p \in Pod |-> Zero]
    /\ swapFile = [p \in Pod |-> NoData]
    /\ swapPath = [p \in Pod |-> FALSE]
    /\ remoteCopy = [n \in Peer |-> [p \in Pod |-> NoData]]
    /\ landlord = [p \in Pod |-> Disk]
    /\ owner = [p \in Pod |-> NoThread]
    /\ LRUList = <<>>
    /\ LRUIterIsValid = [p \in Pod |-> FALSE]
    /\ isFree = [p \in Pod |-> TRUE]
    /\ use = [p \in Pod |-> "free"]
    /\ pc = [t \in Thread |-> "run"]
    /\ cur = [t \in Thread |-> NoPod]
    /\ op = [t \in Thread |-> "none"]
    /\ dst = [e \in Evictor |-> Disk]
-----------------------------------------------------------------------------
\* Threads: t is at label l; it goes to label m.
At(t, l) == pc[t] = l
GoTo(t, m) == pc' = [pc EXCEPT ![t] = m]

\* t leaves its pod and its operation behind.
Return(t, m) == /\ GoTo(t, m)
                /\ cur' = [cur EXCEPT ![t] = NoPod]
                /\ op' = [op EXCEPT ![t] = "none"]

Start(t, p, o, m) == /\ GoTo(t, m)
                     /\ cur' = [cur EXCEPT ![t] = p]
                     /\ op' = [op EXCEPT ![t] = o]

Unlock(p) == owner' = [owner EXCEPT ![p] = NoThread]

\* The LRU list.  LRUIter of a pod is its position in the list.  The code tests
\* front() and back() also of an empty list, where they yield the list's own node,
\* never a pod.
LRUIter(p) == CHOOSE i \in DOMAIN LRUList : LRUList[i] = p

Erased(p) == IF LRUIterIsValid[p] THEN RemoveAt(LRUList, LRUIter(p))
                                  ELSE LRUList

updateLRUList(p) ==
    \/ /\ LRUList # <<>> /\ Head(LRUList) = p
       /\ UNCHANGED lruVars
    \/ /\ ~(LRUList # <<>> /\ Head(LRUList) = p)
       /\ LRUList' = <<p>> \o Erased(p)
       /\ LRUIterIsValid' = [LRUIterIsValid EXCEPT ![p] = TRUE]

tailPodInLRUList(p) ==
    \/ /\ LRUList # <<>> /\ Last(LRUList) = p
       /\ UNCHANGED lruVars
    \/ /\ ~(LRUList # <<>> /\ Last(LRUList) = p)
       /\ LRUList' = Append(Erased(p), p)
       /\ LRUIterIsValid' = [LRUIterIsValid EXCEPT ![p] = TRUE]

\* releaseMemory and recoverMemory: the memfd shrinks to nothing and grows back.
DropMemory(p) == mem' = [mem EXCEPT ![p] = Zero]
-----------------------------------------------------------------------------
(***************************************************************************)
(* The application.                                                        *)
(***************************************************************************)

\* Accesses are to pages the application owns.
BeginAccess(t, p, o) ==
    /\ At(t, "run") /\ use[p] = "live"
    /\ o \in Value \cup {"read"}
    /\ Start(t, p, o, "access")
    /\ UNCHANGED <<podVars, owner, lruVars, isFree, use, dst>>

\* The hardware performs the access when the protection allows it.
Read(t) ==
    /\ At(t, "access") /\ op[t] = "read"
    /\ prot[cur[t]] # "none"
    /\ Return(t, "run")
    /\ UNCHANGED <<podVars, owner, lruVars, isFree, use, dst>>

Write(t) ==
    /\ At(t, "access") /\ op[t] \in Value
    /\ prot[cur[t]] = "rw"
    /\ mem' = [mem EXCEPT ![cur[t]] = op[t]]
    /\ Return(t, "run")
    /\ UNCHANGED <<state, prot, swapFile, swapPath, remoteCopy, landlord,
                   owner, lruVars, isFree, use, dst>>

\* Otherwise SIGSEGV enters activateAddress.
Fault(t) ==
    /\ At(t, "access")
    /\ prot[cur[t]] = "none" \/ (prot[cur[t]] = "read" /\ op[t] # "read")
    /\ GoTo(t, "check")
    /\ UNCHANGED <<podVars, owner, lruVars, isFree, use, cur, op, dst>>

\* The unlocked test: someone else has made the pod local, retry the access.
activateAddress(t) ==
    /\ At(t, "check")
    /\ GoTo(t, IF state[cur[t]] = "local" THEN "access" ELSE "lock")
    /\ UNCHANGED <<podVars, owner, lruVars, isFree, use, cur, op, dst>>

\* pod::lock, and the test that follows it in hugeMalloc and remonPromotePod; the
\* one in remon_cleanup_evicted is that of toInit.
Lock(t) ==
    LET p == cur[t] IN
    /\ At(t, "lock") /\ owner[p] = NoThread
    /\ owner' = [owner EXCEPT ![p] = t]
    /\ GoTo(t, CASE op[t] = "malloc" /\ state[p] = "local" -> "done"
                 [] op[t] = "promote" /\ state[p] \notin {"remote", "disk"} -> "lru"
                 [] op[t] = "cleanup" -> "cleanup"
                 [] OTHER -> "activate")
    /\ UNCHANGED <<podVars, lruVars, isFree, use, cur, op, dst>>

\* The page allocator hands out p.  It clears isFree of the first and the last
\* page of a block; a page between them keeps the flag until Finish.
hugeMalloc(t, p) ==
    /\ At(t, "run") /\ use[p] = "free"
    /\ use' = [use EXCEPT ![p] = "claimed"]
    /\ \E b \in {FALSE, isFree[p]} : isFree' = [isFree EXCEPT ![p] = b]
    /\ Start(t, p, "malloc", "lock")
    /\ UNCHANGED <<podVars, owner, lruVars, dst>>

\* The block of p goes back to the page allocator; nobody is using it.
hugeFree(p) ==
    /\ use[p] = "live" /\ owner[p] = NoThread
    /\ \A t \in App : cur[t] # p
    /\ isFree' = [isFree EXCEPT ![p] = TRUE]
    /\ use' = [use EXCEPT ![p] = "free"]
    /\ UNCHANGED <<podVars, owner, lruVars, threadVars>>

\* The page allocator drops the memory of its free pages when swapping starts.
trimFreeBlock(p) ==
    /\ use[p] = "free" /\ owner[p] = NoThread /\ state[p] = "local"
    /\ DropMemory(p)
    /\ UNCHANGED <<state, prot, swapFile, swapPath, remoteCopy, landlord,
                   owner, lruVars, isFree, use, threadVars>>

\* remonPromote; remonActivateSync and asyncPromote take the path of a fault.
remonPromotePod(t, p) ==
    /\ At(t, "run") /\ use[p] = "live"
    /\ Start(t, p, "promote", "lock")
    /\ UNCHANGED <<podVars, owner, lruVars, isFree, use, dst>>

remonDemote(p) ==
    /\ use[p] = "live" /\ owner[p] = NoThread
    /\ state[p] \notin {"remote", "disk"}
    /\ tailPodInLRUList(p)
    /\ UNCHANGED <<podVars, owner, isFree, use, threadVars>>

\* The application gives up the content of p, if p is evicted.
remon_cleanup_evicted(t, p) ==
    /\ At(t, "run") /\ use[p] = "live"
    /\ Start(t, p, "cleanup", "lock")
    /\ UNCHANGED <<podVars, owner, lruVars, isFree, use, dst>>

\* Mutant: the swap file stays behind.
toInitLeaks(t) ==
    LET p == cur[t] IN
    /\ At(t, "cleanup") /\ state[p] = "disk"
    /\ state' = [state EXCEPT ![p] = "init"]
    /\ DropMemory(p)
    /\ swapPath' = [swapPath EXCEPT ![p] = FALSE]
    /\ GoTo(t, "done")
    /\ UNCHANGED <<prot, swapFile, remoteCopy, landlord, owner, lruVars, isFree,
                   use, cur, op, dst>>

\* diskToInit and remoteToInit drop the copy; other states are left alone.
toInit(t) ==
    LET p == cur[t] IN
    /\ At(t, "cleanup")
    /\ \/ /\ state[p] = "disk"
          /\ state' = [state EXCEPT ![p] = "init"]
          /\ DropMemory(p)
          /\ swapFile' = [swapFile EXCEPT ![p] = NoData]
          /\ swapPath' = [swapPath EXCEPT ![p] = FALSE]
          /\ UNCHANGED <<remoteCopy, landlord>>
       \/ /\ state[p] = "remote"
          /\ state' = [state EXCEPT ![p] = "init"]
          /\ DropMemory(p)
          /\ remoteCopy' = [remoteCopy EXCEPT ![landlord[p]][p] = NoData]
          /\ landlord' = [landlord EXCEPT ![p] = Disk]
          /\ UNCHANGED <<swapFile, swapPath>>
       \/ /\ state[p] \notin {"disk", "remote"}
          /\ UNCHANGED <<state, mem, swapFile, swapPath, remoteCopy, landlord>>
    /\ GoTo(t, "done")
    /\ UNCHANGED <<prot, owner, lruVars, isFree, use, cur, op, dst>>
-----------------------------------------------------------------------------
(***************************************************************************)
(* activatePod, under the pod's mutex: one action per step that another    *)
(* thread can see without it.                                              *)
(***************************************************************************)

ActivateResident(t) ==
    /\ At(t, "activate") /\ state[cur[t]] \in {"local", "localPinned"}
    /\ GoTo(t, "lru")
    /\ UNCHANGED <<podVars, owner, lruVars, isFree, use, cur, op, dst>>

\* initToLocal maps the memfd with no access, sets the state, then opens it.
initToLocal(t) ==
    LET p == cur[t] IN
    /\ At(t, "activate") \/ At(t, "prefetch")
    /\ state[p] = "init"
    /\ prot' = [prot EXCEPT ![p] = "none"]
    /\ state' = [state EXCEPT ![p] = "local"]
    /\ GoTo(t, "mapped")
    /\ UNCHANGED <<mem, swapFile, swapPath, remoteCopy, landlord, owner,
                   lruVars, isFree, use, cur, op, dst>>

initToLocalOpen(t) ==
    /\ At(t, "mapped")
    /\ prot' = [prot EXCEPT ![cur[t]] = "rw"]
    /\ GoTo(t, "lru")
    /\ UNCHANGED <<state, mem, swapFile, swapPath, remoteCopy, landlord, owner,
                   lruVars, isFree, use, cur, op, dst>>

\* The swap file is read through a second mapping and removed.
diskToLocalPinned(t) ==
    LET p == cur[t] IN
    /\ At(t, "activate") /\ state[p] = "disk"
    /\ swapPath[p] /\ swapFile[p] # NoData
    /\ mem' = [mem EXCEPT ![p] = swapFile[p]]
    /\ swapFile' = [swapFile EXCEPT ![p] = NoData]
    /\ swapPath' = [swapPath EXCEPT ![p] = FALSE]
    /\ GoTo(t, "fetched")
    /\ UNCHANGED <<state, prot, remoteCopy, landlord, owner, lruVars, isFree,
                   use, cur, op, dst>>

remoteToLocalPinned(t) ==
    LET p == cur[t] IN
    /\ At(t, "activate") /\ state[p] = "remote"
    /\ landlord[p] \in Peer /\ remoteCopy[landlord[p]][p] # NoData
    /\ mem' = [mem EXCEPT ![p] = remoteCopy[landlord[p]][p]]
    /\ remoteCopy' = [remoteCopy EXCEPT ![landlord[p]][p] = NoData]
    /\ landlord' = [landlord EXCEPT ![p] = Disk]
    /\ GoTo(t, "fetched")
    /\ UNCHANGED <<state, prot, swapFile, swapPath, owner, lruVars, isFree,
                   use, cur, op, dst>>

\* A prefetched copy becomes the page; its backing copy is dropped.
diskCacheToLocalPinned(t) ==
    LET p == cur[t] IN
    /\ At(t, "activate") /\ state[p] = "diskCache"
    /\ swapFile' = [swapFile EXCEPT ![p] = NoData]
    /\ swapPath' = [swapPath EXCEPT ![p] = FALSE]
    /\ GoTo(t, "fetched")
    /\ UNCHANGED <<state, prot, mem, remoteCopy, landlord, owner, lruVars,
                   isFree, use, cur, op, dst>>

remoteCacheToLocalPinned(t) ==
    LET p == cur[t] IN
    /\ At(t, "activate") /\ state[p] = "remoteCache"
    /\ landlord[p] \in Peer
    /\ remoteCopy' = [remoteCopy EXCEPT ![landlord[p]][p] = NoData]
    /\ landlord' = [landlord EXCEPT ![p] = Disk]
    /\ GoTo(t, "fetched")
    /\ UNCHANGED <<state, prot, mem, swapFile, swapPath, owner, lruVars,
                   isFree, use, cur, op, dst>>

\* toReadAndWrite: from here the application reads and writes the page again.
toReadAndWrite(t) ==
    /\ At(t, "fetched")
    /\ prot' = [prot EXCEPT ![cur[t]] = "rw"]
    /\ GoTo(t, "writable")
    /\ UNCHANGED <<state, mem, swapFile, swapPath, remoteCopy, landlord, owner,
                   lruVars, isFree, use, cur, op, dst>>

setLocalPinned(t) ==
    /\ At(t, "writable")
    /\ state' = [state EXCEPT ![cur[t]] = "localPinned"]
    /\ GoTo(t, "pinned")
    /\ UNCHANGED <<prot, mem, swapFile, swapPath, remoteCopy, landlord, owner,
                   lruVars, isFree, use, cur, op, dst>>

localPinnedToLocal(t) ==
    /\ At(t, "pinned")
    /\ state' = [state EXCEPT ![cur[t]] = "local"]
    /\ GoTo(t, "lru")
    /\ UNCHANGED <<prot, mem, swapFile, swapPath, remoteCopy, landlord, owner,
                   lruVars, isFree, use, cur, op, dst>>

RefreshLRU(t) ==
    /\ At(t, "lru")
    /\ updateLRUList(cur[t])
    /\ GoTo(t, "done")
    /\ UNCHANGED <<podVars, owner, isFree, use, cur, op, dst>>

\* Mutant: an allocated page keeps the flag it had when it was free.
FinishStillFree(t) ==
    LET p == cur[t] IN
    /\ At(t, "done") /\ Unlock(p)
    /\ \/ /\ op[t] = "malloc"
          /\ use' = [use EXCEPT ![p] = "live"]
          /\ Return(t, "run")
       \/ /\ op[t] # "malloc"
          /\ Return(t, "run")
          /\ UNCHANGED use
    /\ UNCHANGED <<podVars, lruVars, isFree, dst>>

\* The end of every locked section: hugeMalloc clears isFree and hands the page
\* out; a faulting access is retried.
Finish(t) ==
    LET p == cur[t] IN
    /\ At(t, "done") /\ Unlock(p)
    /\ \/ /\ op[t] = "malloc"
          /\ isFree' = [isFree EXCEPT ![p] = FALSE]
          /\ use' = [use EXCEPT ![p] = "live"]
          /\ Return(t, "run")
       \/ /\ op[t] \in Value \cup {"read"}
          /\ GoTo(t, "access")
          /\ UNCHANGED <<isFree, use, cur, op>>
       \/ /\ op[t] \in {"none", "promote", "cleanup"}
          /\ Return(t, "run")
          /\ UNCHANGED <<isFree, use>>
    /\ UNCHANGED <<podVars, lruVars, dst>>
-----------------------------------------------------------------------------
(***************************************************************************)
(* Eviction: pickPodToEvict and what it calls.                             *)
(***************************************************************************)

\* Mutant: the iterator of the popped pod stays valid.
getFromLRUListStale(e) ==
    /\ At(e, "run") /\ LRUList # <<>>
    /\ LET p == Last(LRUList) IN
       /\ owner[p] = NoThread
       /\ owner' = [owner EXCEPT ![p] = e]
       /\ LRUList' = Front(LRUList)
       /\ Start(e, p, "none", "pick")
    /\ UNCHANGED <<podVars, LRUIterIsValid, isFree, use, dst>>

\* Only the least recently used pod is tried, and only with a try-lock.
getFromLRUList(e) ==
    /\ At(e, "run") /\ LRUList # <<>>
    /\ LET p == Last(LRUList) IN
       /\ owner[p] = NoThread
       /\ owner' = [owner EXCEPT ![p] = e]
       /\ LRUList' = Front(LRUList)
       /\ LRUIterIsValid' = [LRUIterIsValid EXCEPT ![p] = FALSE]
       /\ Start(e, p, "none", "pick")
    /\ UNCHANGED <<podVars, isFree, use, dst>>

\* Mutant: a page in use is dropped like a free one.
EvictFreeInUse(e) ==
    LET p == cur[e] IN
    /\ At(e, "pick") /\ state[p] = "local"
    /\ state' = [state EXCEPT ![p] = "init"]
    /\ DropMemory(p)
    /\ swapPath' = [swapPath EXCEPT ![p] = FALSE]
    /\ GoTo(e, "done")
    /\ UNCHANGED <<prot, swapFile, remoteCopy, landlord, owner, lruVars,
                   isFree, use, cur, op, dst>>

\* A free page needs no copy: localToInit.
EvictFree(e) ==
    LET p == cur[e] IN
    /\ At(e, "pick") /\ state[p] = "local" /\ isFree[p]
    /\ state' = [state EXCEPT ![p] = "init"]
    /\ DropMemory(p)
    /\ swapPath' = [swapPath EXCEPT ![p] = FALSE]
    /\ GoTo(e, "done")
    /\ UNCHANGED <<prot, swapFile, remoteCopy, landlord, owner, lruVars,
                   isFree, use, cur, op, dst>>

\* remoteSwap: some peer accepts, and the state changes before the page is
\* closed to writes ...
remoteSwap(e, n) ==
    LET p == cur[e] IN
    /\ At(e, "pick") /\ state[p] = "local" /\ ~isFree[p]
    /\ state' = [state EXCEPT ![p] = "remote"]
    /\ dst' = [dst EXCEPT ![e] = n]
    /\ GoTo(e, "protect")
    /\ UNCHANGED <<prot, mem, swapFile, swapPath, remoteCopy, landlord, owner,
                   lruVars, isFree, use, cur, op>>

\* ... or every peer rejects, and the page goes to the swap directory if there
\* is one; if there is none the process exits.
swapToDisk(e) ==
    LET p == cur[e] IN
    /\ At(e, "pick") /\ state[p] = "local" /\ ~isFree[p]
    /\ \/ /\ SwapDir
          /\ state' = [state EXCEPT ![p] = "disk"]
          /\ GoTo(e, "protect")
       \/ /\ ~SwapDir
          /\ GoTo(e, "exit")
          /\ UNCHANGED state
    /\ dst' = [dst EXCEPT ![e] = Disk]
    /\ UNCHANGED <<prot, mem, swapFile, swapPath, remoteCopy, landlord, owner,
                   lruVars, isFree, use, cur, op>>

\* Mutant: the page stays writable while it is copied.
toReadOnlySkipped(e) ==
    /\ At(e, "protect")
    /\ GoTo(e, "send")
    /\ UNCHANGED <<podVars, owner, lruVars, isFree, use, cur, op, dst>>

toReadOnly(e) ==
    /\ At(e, "protect")
    /\ prot' = [prot EXCEPT ![cur[e]] = "read"]
    /\ GoTo(e, "send")
    /\ UNCHANGED <<state, mem, swapFile, swapPath, remoteCopy, landlord, owner,
                   lruVars, isFree, use, cur, op, dst>>

\* The page is read and stored.  A memory node keeps what it already has under
\* the pod's key (map::insert); a swap file is overwritten.
SendPage(e) ==
    LET p == cur[e] IN
    /\ At(e, "send")
    /\ \/ /\ dst[e] = Disk
          /\ swapFile' = [swapFile EXCEPT ![p] = mem[p]]
          /\ UNCHANGED remoteCopy
       \/ /\ dst[e] \in Peer
          /\ remoteCopy' = IF remoteCopy[dst[e]][p] = NoData
                           THEN [remoteCopy EXCEPT ![dst[e]][p] = mem[p]]
                           ELSE remoteCopy
          /\ UNCHANGED swapFile
    /\ GoTo(e, "hide")
    /\ UNCHANGED <<state, prot, mem, swapPath, landlord, owner, lruVars,
                   isFree, use, cur, op, dst>>

toNone(e) ==
    /\ At(e, "hide")
    /\ prot' = [prot EXCEPT ![cur[e]] = "none"]
    /\ GoTo(e, "release")
    /\ UNCHANGED <<state, mem, swapFile, swapPath, remoteCopy, landlord, owner,
                   lruVars, isFree, use, cur, op, dst>>

\* Mutant: recoverMemory maps the emptied page open.
ReleaseEvictedOpen(e) ==
    LET p == cur[e] IN
    /\ At(e, "release")
    /\ DropMemory(p)
    /\ prot' = [prot EXCEPT ![p] = "rw"]
    /\ swapPath' = [swapPath EXCEPT ![p] = dst[e] = Disk]
    /\ landlord' = [landlord EXCEPT ![p] = dst[e]]
    /\ GoTo(e, "done")
    /\ UNCHANGED <<state, swapFile, remoteCopy, owner, lruVars, isFree, use,
                   cur, op, dst>>

\* The tails of localToDisk and localToRemote.
ReleaseEvicted(e) ==
    LET p == cur[e] IN
    /\ At(e, "release")
    /\ DropMemory(p)
    /\ \/ /\ dst[e] = Disk
          /\ swapPath' = [swapPath EXCEPT ![p] = TRUE]
          /\ UNCHANGED <<landlord, state>>
       \/ /\ dst[e] \in Peer
          /\ landlord' = [landlord EXCEPT ![p] = dst[e]]
          /\ state' = [state EXCEPT ![p] = "remote"]
          /\ UNCHANGED swapPath
    /\ GoTo(e, "done")
    /\ UNCHANGED <<prot, swapFile, remoteCopy, owner, lruVars, isFree, use,
                   cur, op, dst>>

\* diskCacheToDisk, remoteCacheToRemote: a prefetched copy is dropped.
EvictCache(e) ==
    LET p == cur[e] IN
    /\ At(e, "pick") /\ state[p] \in {"diskCache", "remoteCache"}
    /\ DropMemory(p)
    /\ state' = [state EXCEPT ![p] =
                     IF state[p] = "diskCache" THEN "disk" ELSE "remote"]
    /\ GoTo(e, "done")
    /\ UNCHANGED <<prot, swapFile, swapPath, remoteCopy, landlord, owner,
                   lruVars, isFree, use, cur, op, dst>>

\* Any other state: the pod just leaves the LRU list.
EvictNothing(e) ==
    /\ At(e, "pick") /\ state[cur[e]] \in {"localPinned", "init", "disk", "remote"}
    /\ GoTo(e, "done")
    /\ UNCHANGED <<podVars, owner, lruVars, isFree, use, cur, op, dst>>
-----------------------------------------------------------------------------
(***************************************************************************)
(* Prefetching: a worker try-locks a pod near one that faulted.  Which one *)
(* is left open: the task may be stale by the time it is served.           *)
(***************************************************************************)
prefetch(w, p) ==
    /\ At(w, "run") /\ owner[p] = NoThread
    /\ state[p] \notin {"diskCache", "remoteCache"}
    /\ owner' = [owner EXCEPT ![p] = w]
    /\ Start(w, p, "none", "prefetch")
    /\ UNCHANGED <<podVars, lruVars, isFree, use, dst>>

\* Mutant: the cached page does not enter the LRU list.
diskToDiskCacheUnlisted(w) ==
    LET p == cur[w] IN
    /\ At(w, "prefetch") /\ state[p] = "disk"
    /\ mem' = [mem EXCEPT ![p] = swapFile[p]]
    /\ state' = [state EXCEPT ![p] = "diskCache"]
    /\ GoTo(w, "done")
    /\ UNCHANGED <<prot, swapFile, swapPath, remoteCopy, landlord, owner,
                   lruVars, isFree, use, cur, op, dst>>

\* The copy is filled through a second mapping; the page itself stays closed.
diskToDiskCache(w) ==
    LET p == cur[w] IN
    /\ At(w, "prefetch") /\ state[p] = "disk"
    /\ swapPath[p] /\ swapFile[p] # NoData
    /\ mem' = [mem EXCEPT ![p] = swapFile[p]]
    /\ state' = [state EXCEPT ![p] = "diskCache"]
    /\ GoTo(w, "lru")
    /\ UNCHANGED <<prot, swapFile, swapPath, remoteCopy, landlord, owner,
                   lruVars, isFree, use, cur, op, dst>>

\* Mutant: the cache is declared before it is filled.
remoteToRemoteCacheEmpty(w) ==
    LET p == cur[w] IN
    /\ At(w, "prefetch") /\ state[p] = "remote"
    /\ state' = [state EXCEPT ![p] = "remoteCache"]
    /\ GoTo(w, "lru")
    /\ UNCHANGED <<prot, mem, swapFile, swapPath, remoteCopy, landlord, owner,
                   lruVars, isFree, use, cur, op, dst>>

remoteToRemoteCache(w) ==
    LET p == cur[w] IN
    /\ At(w, "prefetch") /\ state[p] = "remote"
    /\ landlord[p] \in Peer /\ remoteCopy[landlord[p]][p] # NoData
    /\ mem' = [mem EXCEPT ![p] = remoteCopy[landlord[p]][p]]
    /\ state' = [state EXCEPT ![p] = "remoteCache"]
    /\ GoTo(w, "lru")
    /\ UNCHANGED <<prot, swapFile, swapPath, remoteCopy, landlord, owner,
                   lruVars, isFree, use, cur, op, dst>>

PrefetchNothing(w) ==
    /\ At(w, "prefetch")
    /\ state[cur[w]] \in {"local", "localPinned", "diskCache", "remoteCache"}
    /\ GoTo(w, "done")
    /\ UNCHANGED <<podVars, owner, lruVars, isFree, use, cur, op, dst>>
-----------------------------------------------------------------------------
AppStep(t) ==
    \/ \E p \in Pod : \/ \E o \in Value \cup {"read"} : BeginAccess(t, p, o)
                      \/ hugeMalloc(t, p)
                      \/ remonPromotePod(t, p)
                      \/ remon_cleanup_evicted(t, p)
    \/ Read(t) \/ Write(t) \/ Fault(t) \/ activateAddress(t) \/ Lock(t)
    \/ ActivateResident(t) \/ diskToLocalPinned(t) \/ remoteToLocalPinned(t)
    \/ diskCacheToLocalPinned(t) \/ remoteCacheToLocalPinned(t)
    \/ toReadAndWrite(t) \/ setLocalPinned(t) \/ localPinnedToLocal(t) \/ toInit(t)

\* Steps an application call takes in one locked section.
CallStep(p) == hugeFree(p) \/ trimFreeBlock(p) \/ remonDemote(p)

EvictorStep(e) ==
    \/ getFromLRUList(e) \/ EvictFree(e) \/ EvictCache(e) \/ EvictNothing(e)
    \/ \E n \in Peer : remoteSwap(e, n)
    \/ swapToDisk(e)
    \/ toReadOnly(e) \/ SendPage(e) \/ toNone(e) \/ ReleaseEvicted(e)

WorkerStep(w) ==
    \/ \E p \in Pod : prefetch(w, p)
    \/ diskToDiskCache(w) \/ remoteToRemoteCache(w) \/ PrefetchNothing(w)

Next ==
    \/ \E t \in App : AppStep(t)
    \/ \E p \in Pod : CallStep(p)
    \/ \E e \in Evictor : EvictorStep(e)
    \/ \E w \in Worker : WorkerStep(w)
    \/ \E t \in App \cup Worker : initToLocal(t) \/ initToLocalOpen(t) \/ RefreshLRU(t)
    \/ \E t \in Thread : Finish(t)

Spec == Init /\ [][Next]_vars
-----------------------------------------------------------------------------
(***************************************************************************)
(* Properties.                                                             *)
(***************************************************************************)
Unlocked(p) == owner[p] = NoThread

\* Labels at which the holder of p works on a page whose state already, or
\* still, says disk or remote, while the content is in memory.
InTransit == {"protect", "send", "hide", "release", "fetched", "writable"}

InMemory(p) == \/ state[p] \notin {"disk", "remote"}
               \/ ~Unlocked(p) /\ pc[owner[p]] \in InTransit

\* The content of p: in memory, in the swap file or on the memory node.
Content(p) == IF InMemory(p) THEN mem[p]
              ELSE IF state[p] = "disk" THEN swapFile[p]
              ELSE remoteCopy[landlord[p]][p]

HasRemoteCopy(p) == \E n \in Peer : remoteCopy[n][p] # NoData

\* A page the application can read holds its content: no interleaving of a
\* fault, an eviction and a prefetch opens a page before it is filled or leaves
\* it open after its memory is released (pod.cpp localToDisk, initToLocal,
\* diskToLocalPinned; RemoteConnectionClient::savePodToRemote).
ReadableIsCurrent ==
    \A p \in Pod : use[p] = "live" /\ prot[p] # "none" => InMemory(p)

\* No page can be written once its copy is being taken, until it is fetched
\* back: a write that slipped in would be lost (localToDisk, savePodToRemote).
NoWriteBehindCopy ==
    \A e \in Evictor : pc[e] \in {"send", "hide", "release"} => prot[cur[e]] # "rw"

\* A pod nobody holds has exactly the backing copy its state names: an evicted
\* or cached one has it where activatePod will look, and a local, pinned or
\* initial one has none, so the next save finds its key absent on every memory
\* node (savePodHandler does not overwrite) and nothing is leaked there.
BackingMatchesState ==
    \A p \in Pod : Unlocked(p) =>
        /\ state[p] \in {"disk", "diskCache"} <=> swapFile[p] # NoData
        /\ swapPath[p] <=> swapFile[p] # NoData
        /\ state[p] \in {"remote", "remoteCache"} <=> HasRemoteCopy(p)
        /\ HasRemoteCopy(p) => landlord[p] \in Peer
        /\ \A n \in Peer : remoteCopy[n][p] # NoData => n = landlord[p]

\* LRUIterIsValid is true of exactly the pods on the list, and none is on it
\* twice: list::erase is never given a stale iterator (updateLRUList,
\* getFromLRUList, tailPodInLRUList; verifyLRUList looks for duplicates).
LRUConsistent ==
    /\ \A p \in Pod : LRUIterIsValid[p] <=> p \in ToSet(LRUList)
    /\ \A i, j \in DOMAIN LRUList : LRUList[i] = LRUList[j] => i = j

\* A resident page nobody is working on can be found by getFromLRUList: no
\* interleaving of a fault, an eviction, a prefetch and a reallocation leaves
\* memory that can never be reclaimed.
ResidentIsEvictable ==
    \A p \in Pod : Unlocked(p) /\ state[p] \in {"local", "diskCache", "remoteCache"}
                       => p \in ToSet(LRUList)

\* The application's view: the pages it owns, their content, and what it is doing.
Undefined == NoData
live == {p \in Pod : use[p] = "live"}
content == [p \in Pod |-> IF p \in live THEN Content(p) ELSE Undefined]
request == [t \in App |-> <<op[t], cur[t]>>]
AM == INSTANCE AtomicMemory WITH Idle <- <<"none", NoPod>>

\* Paging is transparent: whatever faults, evictions and prefetches do, the
\* content of a page the application owns changes only when a thread's own write
\* to it, or its own remon_cleanup_evicted of it, takes effect.
Transparent == AM!Spec
-----------------------------------------------------------------------------
(***************************************************************************)
(* The inductive invariant behind these properties.                        *)
(***************************************************************************)

\* Labels at which a thread holds the mutex of its pod.
Locked == InTransit \cup {"activate", "mapped", "pinned", "lru", "done", "pick",
                          "prefetch", "cleanup", "exit"}

\* The mutex of a pod is held by the one thread working on it.
MutexInv ==
    /\ \A t \in Thread : pc[t] \in Locked => cur[t] \in Pod /\ owner[cur[t]] = t
    /\ \A p \in Pod : ~Unlocked(p) => pc[owner[p]] \in Locked /\ cur[owner[p]] = p
    /\ \A t \in Thread : pc[t] \in {"access", "check", "lock"} =>
           t \in App /\ cur[t] \in Pod
    /\ \A t \in Thread : pc[t] \in {"pick", "protect", "send", "hide", "release",
                                    "exit"} => t \in Evictor

\* A thread that allocates a page is the only one; one that accesses a page
\* accesses a live one; a live page is never flagged free.
UseInv ==
    /\ \A t \in Thread : pc[t] = "run" => op[t] = "none"
    /\ \A t \in Thread : op[t] = "malloc" =>
           t \in App /\ cur[t] \in Pod /\ use[cur[t]] = "claimed"
    /\ \A t \in Thread : op[t] \in Value \cup {"read", "cleanup"} =>
           t \in App /\ cur[t] \in Pod /\ use[cur[t]] = "live"
    /\ \A t \in Thread : pc[t] \in {"access", "check"} => op[t] \in Value \cup {"read"}
    /\ \A t \in Thread : pc[t] = "cleanup" => op[t] = "cleanup"
    /\ \A t, u \in Thread : op[t] = "malloc" /\ op[u] = "malloc" /\ cur[t] = cur[u]
           => t = u
    /\ \A p \in Pod : use[p] = "live" => ~isFree[p]

\* Where the holder of p is; "run" when nobody holds it.
Label(p) == IF Unlocked(p) THEN "run" ELSE pc[owner[p]]

NoCopy(p) == swapFile[p] = NoData /\ ~swapPath[p] /\ ~HasRemoteCopy(p)

\* The copies of a settled pod: what its state says, and equal to the memory of
\* a cached one.
SettledCopy(p) ==
    /\ state[p] \in {"init", "local", "localPinned"} => NoCopy(p)
    /\ state[p] \in {"disk", "diskCache"} =>
           swapFile[p] # NoData /\ swapPath[p] /\ ~HasRemoteCopy(p)
    /\ state[p] \in {"remote", "remoteCache"} =>
           /\ swapFile[p] = NoData /\ ~swapPath[p]
           /\ landlord[p] \in Peer
           /\ \A n \in Peer : remoteCopy[n][p] # NoData <=> n = landlord[p]
    /\ state[p] = "diskCache" => mem[p] = swapFile[p]
    /\ state[p] = "remoteCache" => mem[p] = remoteCopy[landlord[p]][p]

\* A pod being fetched has lost its copy; one being evicted gets it at "hide".
CopyInv(p) ==
    /\ Label(p) \in {"mapped", "fetched", "writable", "pinned", "protect", "send"} =>
           NoCopy(p)
    /\ Label(p) \in {"hide", "release"} =>
           /\ ~swapPath[p]
           /\ swapFile[p] = IF dst[owner[p]] = Disk THEN mem[p] ELSE NoData
           /\ \A n \in Peer : remoteCopy[n][p] =
                  IF n = dst[owner[p]] THEN mem[p] ELSE NoData
    /\ Label(p) \notin InTransit \cup {"mapped", "pinned"} => SettledCopy(p)

\* The protection of a pod follows its state and its holder's progress.
ProtInv(p) ==
    /\ state[p] \in {"disk", "remote", "diskCache", "remoteCache"}
       /\ Label(p) \notin {"protect", "send", "hide", "writable"} => prot[p] = "none"
    /\ Label(p) \in {"send", "hide"} => prot[p] = "read"

HolderState(p) ==
    /\ Label(p) \in {"protect", "send", "hide", "release"} =>
           state[p] = IF dst[owner[p]] = Disk THEN "disk" ELSE "remote"
    /\ Label(p) = "mapped" => state[p] = "local"
    /\ Label(p) = "pinned" => state[p] = "localPinned"
    /\ Label(p) \in {"fetched", "writable"} =>
           state[p] \in {"disk", "remote", "diskCache", "remoteCache"}

\* The conjunction is inductive: what a fault, an eviction, a prefetch or a call
\* does next to a pod is determined by its state, its copies and its holder.
PagingInv ==
    /\ TypeOK /\ MutexInv /\ UseInv /\ LRUConsistent
    /\ \A p \in Pod : CopyInv(p) /\ ProtInv(p) /\ HolderState(p)
=============================================================================

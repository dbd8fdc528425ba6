-------------------------- MODULE PodBoundedBuffer --------------------------
(***************************************************************************)
(* The allocation buffer of small-object pages: a keeper thread takes      *)
(* pages from the page allocator, pins them and puts them into a ring of N *)
(* slots; allocating threads take them out.                                *)
(*                                                                         *)
(* Each slot has a mutex.  The keeper works under the mutex of the slot it *)
(* writes, a consumer under the mutex of the slot it reads (and consumers  *)
(* exclude each other with a mutex of their own), so the tests for full    *)
(* and empty read the other side's index without a common lock.  Between   *)
(* such a test and condition_variable::wait the thread is at "wait".       *)
(***************************************************************************)
EXTENDS Integers, Sequences

CONSTANTS Pod,       \* pages of the page allocator
          Consumer,  \* threads that allocate
          N,         \* slots (bufferSize)
          Keeper,    \* bufferKeeperThread
          None

Thread == Consumer \cup {Keeper}
Slot == 0 .. (N - 1)

ASSUME BufferAssumption ==
    /\ N \in Nat /\ N > 1
    /\ Keeper \notin Consumer /\ None \notin Thread \cup Pod

VARIABLES
    buffer, readIndex, writeIndex,
    bufferLocks,         \* holder of each slot's mutex
    lock,                \* the consumers' mutex
    waiting,             \* threads blocked in producerCv.wait or consumerCv.wait
    bufferThreadRunning,
    pc,
    free,                \* pages in the page allocator
    given                \* pages handed out; they never come back

ringVars == <<buffer, readIndex, writeIndex>>
pageVars == <<free, given>>
vars == <<ringVars, bufferLocks, lock, waiting, bufferThreadRunning, pc, pageVars>>

TypeOK ==
    /\ buffer \in [Slot -> Pod \cup {None}]
    /\ readIndex \in Slot /\ writeIndex \in Slot
    /\ bufferLocks \in [Slot -> Thread \cup {None}]
    /\ lock \in Consumer \cup {None}
    /\ waiting \in SUBSET Thread
    /\ bufferThreadRunning \in {-1, 0, 1}
    /\ pc \in [Thread -> {"idle", "lock", "test", "wait", "waked", "work", "exit"}]
    /\ free \in SUBSET Pod /\ given \in SUBSET Pod

\* The constructor returns when the keeper runs.
Init ==
    /\ buffer = [i \in Slot |-> None]
    /\ readIndex = 0 /\ writeIndex = 0
    /\ bufferLocks = [i \in Slot |-> None]
    /\ lock = None
    /\ waiting = {}
    /\ bufferThreadRunning = 1
    /\ pc = [t \in Thread |-> IF t = Keeper THEN "lock" ELSE "idle"]
    /\ free = Pod /\ given = {}
-----------------------------------------------------------------------------
GoTo(t, l) == pc' = [pc EXCEPT ![t] = l]

\* Mutant: the wrap-around is forgotten.
boundedBufferIsFullNoWrap == writeIndex + 1 = readIndex
boundedBufferIsFull == (writeIndex + 1) % N = readIndex
boundedBufferIsEmpty == readIndex = writeIndex

\* The slot whose mutex t works under: its own side's index.
partition(t) == IF t = Keeper THEN writeIndex ELSE readIndex
Blocked(t) == IF t = Keeper THEN boundedBufferIsFull ELSE boundedBufferIsEmpty

LockSlot(t) ==
    /\ pc[t] = "lock" /\ bufferLocks[partition(t)] = None
    /\ bufferLocks' = [bufferLocks EXCEPT ![partition(t)] = t]
    /\ GoTo(t, "test")
    /\ UNCHANGED <<ringVars, lock, waiting, bufferThreadRunning, pageVars>>

Test(t) ==
    /\ pc[t] = "test"
    /\ GoTo(t, IF Blocked(t) THEN "wait" ELSE "work")
    /\ UNCHANGED <<ringVars, bufferLocks, lock, waiting, bufferThreadRunning, pageVars>>

\* condition_variable::wait releases the mutex and blocks in one step.
Wait(t) ==
    /\ pc[t] = "wait"
    /\ waiting' = waiting \cup {t}
    /\ bufferLocks' = [bufferLocks EXCEPT ![partition(t)] = None]
    /\ GoTo(t, "waked")
    /\ UNCHANGED <<ringVars, lock, bufferThreadRunning, pageVars>>

\* Notified: the mutex is taken again.  A stopped keeper leaves, and a consumer
\* tests again.
Wake(t) ==
    /\ pc[t] = "waked" /\ t \notin waiting
    /\ bufferLocks[partition(t)] = None
    /\ \/ /\ t = Keeper /\ bufferThreadRunning = 0
          /\ bufferThreadRunning' = -1
          /\ GoTo(t, "exit")
          /\ UNCHANGED bufferLocks
       \/ /\ ~(t = Keeper /\ bufferThreadRunning = 0)
          /\ bufferLocks' = [bufferLocks EXCEPT ![partition(t)] = t]
          /\ GoTo(t, "test")
          /\ UNCHANGED bufferThreadRunning
    /\ UNCHANGED <<ringVars, lock, waiting, pageVars>>

\* Mutant: consumers are not notified.
addPodToBufferSilent(p) ==
    /\ pc[Keeper] = "work" /\ p \in free
    /\ free' = free \ {p}
    /\ buffer' = [buffer EXCEPT ![writeIndex] = p]
    /\ writeIndex' = (writeIndex + 1) % N
    /\ bufferLocks' = [bufferLocks EXCEPT ![writeIndex] = None]
    /\ GoTo(Keeper, IF bufferThreadRunning = 0 THEN "exit" ELSE "lock")
    /\ UNCHANGED <<readIndex, lock, waiting, bufferThreadRunning, given>>

\* addPodToBuffer: the page allocator's page is pinned and put into the ring;
\* bufferThreadMain goes round unless it is stopped.
addPodToBuffer(p) ==
    /\ pc[Keeper] = "work" /\ p \in free
    /\ free' = free \ {p}
    /\ buffer' = [buffer EXCEPT ![writeIndex] = p]
    /\ writeIndex' = (writeIndex + 1) % N
    /\ waiting' = waiting \ Consumer
    /\ bufferLocks' = [bufferLocks EXCEPT ![writeIndex] = None]
    /\ GoTo(Keeper, IF bufferThreadRunning = 0 THEN "exit" ELSE "lock")
    /\ UNCHANGED <<readIndex, lock, bufferThreadRunning, given>>

\* A page whose mutex an evictor or a prefetch worker holds is dropped, and the
\* page allocator asked for another.
addPodToBufferBusy(p) ==
    /\ pc[Keeper] = "work" /\ p \in free
    /\ free' = free \ {p}
    /\ UNCHANGED <<ringVars, bufferLocks, lock, waiting, bufferThreadRunning, pc, given>>

getBufferedPod(c) ==
    /\ pc[c] = "idle" /\ lock = None /\ bufferThreadRunning = 1
    /\ lock' = c
    /\ GoTo(c, "lock")
    /\ UNCHANGED <<ringVars, bufferLocks, waiting, bufferThreadRunning, pageVars>>

\* Mutant: readIndex runs off the ring.
getBufferedPodCoreNoWrap(c) ==
    /\ pc[c] = "work"
    /\ given' = given \cup {buffer[readIndex]}
    /\ readIndex' = readIndex + 1
    /\ waiting' = waiting \ {Keeper}
    /\ bufferLocks' = [bufferLocks EXCEPT ![readIndex] = None]
    /\ lock' = None
    /\ GoTo(c, "idle")
    /\ UNCHANGED <<buffer, writeIndex, bufferThreadRunning, free>>

getBufferedPodCore(c) ==
    /\ pc[c] = "work"
    /\ given' = given \cup {buffer[readIndex]}
    /\ readIndex' = (readIndex + 1) % N
    /\ waiting' = waiting \ {Keeper}
    /\ bufferLocks' = [bufferLocks EXCEPT ![readIndex] = None]
    /\ lock' = None
    /\ GoTo(c, "idle")
    /\ UNCHANGED <<buffer, writeIndex, bufferThreadRunning, free>>

\* The destructor, when no thread allocates any more; it then joins the keeper.
Stop ==
    /\ bufferThreadRunning = 1 /\ \A c \in Consumer : pc[c] = "idle"
    /\ bufferThreadRunning' = 0
    /\ waiting' = {}
    /\ UNCHANGED <<ringVars, bufferLocks, lock, pc, pageVars>>
-----------------------------------------------------------------------------
ConsumerStep(c) == LockSlot(c) \/ Test(c) \/ Wait(c) \/ Wake(c) \/ getBufferedPodCore(c)

KeeperStep == \/ LockSlot(Keeper) \/ Test(Keeper) \/ Wait(Keeper) \/ Wake(Keeper)
              \/ \E p \in Pod : addPodToBuffer(p) \/ addPodToBufferBusy(p)

Next == \/ KeeperStep
        \/ \E c \in Consumer : getBufferedPod(c) \/ ConsumerStep(c)
        \/ Stop

\* The scheduler runs every thread that can take a step.
Fairness == \A c \in Consumer : WF_vars(ConsumerStep(c))

Spec == Init /\ [][Next]_vars /\ Fairness
-----------------------------------------------------------------------------
(***************************************************************************)
(* Properties.                                                             *)
(***************************************************************************)

\* The slots from readIndex up to writeIndex, in order.
queue == [i \in 1 .. ((writeIndex + N - readIndex) % N) |-> buffer[(readIndex + i - 1) % N]]
Queue == INSTANCE PageQueue WITH Bound <- N - 1

\* Whatever the interleaving of keeper and consumers, whose index tests share no
\* lock, pages come out once each, in order, and none is overwritten while it
\* waits (addPodToBuffer, getBufferedPodCore).
ImplementsQueue == Queue!Spec

\* A page never waits behind a sleeping consumer: a thread in getBufferedPod gets
\* one once the ring is not empty.  The test for empty and the put that ends it
\* are under the same slot's mutex, so consumerCv's notification is not lost.
NonEmptyIsServed ==
    \A c \in Consumer : (pc[c] \notin {"idle"} /\ ~boundedBufferIsEmpty) ~> (pc[c] = "idle")
=============================================================================

# A TLA+ model of REMON

REMON extends the memory of one process, the *compute node*, with the memory of
other machines, the *memory nodes*, in user space. Virtual memory is cut into
pages (`pod`s), each backed by a memfd of its own. An access to a page that is
not in memory raises SIGSEGV; the handler brings the page in. Background threads
evict pages to a memory node, or to files in a swap directory, when memory is
short; other threads prefetch.

This directory holds modules that model the parts of the program where threads,
machines and long sequences of calls meet, the TLC runs that check them on small
instances, and proofs, checked by TLAPS, of most of what is safety in them for every
instance.
`PROJECT.json` says for each definition which lines of the source it models.

## 1. Inventory

| Part | State | Operations | Met by | Modelled in |
|---|---|---|---|---|
| `pod` (`shared/pod.cpp`) | state, protection, memfd, swap file, landlord, mutex, LRU iterator, `isFree` | state transitions | fault handler, evictors, prefetchers, API calls | `Paging`, `FreeLoop`, `RangeCalls` |
| `remon_vmm` (`remon.cpp`) | pods, LRU list, prefetch queue, swap mode | malloc/free, fault, eviction, prefetch, promote, demote, cleanup, force-swap and range calls | every thread | `Paging`, `FreeLoop`, `SegregatedPageList` (small objects), `RangeCalls` |
| Memory pressure (`RamWatch`, free loops, monitor) | resident size, `swapModeOn`, `freeLoopCv` | wait for room, evict, monitor every 10 ms | faulting threads | `FreeLoop` |
| Remote connections (`RemoteConnectionBundle`, `...Client`) | main connection, one connection per thread, session key | init context, save, get, get-cache, free | evictors, faults, prefetchers | `Paging` (contract), `MemoryNode` |
| Memory node (`MemoryNodeServer`, `SocketServer`) | tids, contexts, one pod table per tenant | accept, register, save, get, get-cache, free, end of connection | compute nodes | `MemoryNode` |
| `TopLevelAllocator` | headers, footers, free lists of one region of pages | `allocateNPages`, `hugeFree`, `trim` | malloc and free | `TopLevelAllocator` |
| `PodBoundedBuffer` | ring of prepared pages | keeper puts, allocators take, destructor | small-object malloc | `PodBoundedBuffer` |
| `TopLevelAllocatorBundle` | regions, their locks, each thread's region | choose or add a region, allocate, free, trim | malloc, free, monitor | `TopLevelAllocatorBundle` |
| `SegregatedPageList`, `SPLBundle`, `SplMux` | rank lists of pages, free buffers, bench of evicted pages | small malloc and free, benching, trim | malloc, free, faults, evictors, monitor | `SegregatedPageList` |
| `FreeListAllocator` | boundary tags and links inside a page | malloc, free, and the page being swapped or dropped | small-object malloc and free | `FreeListAllocator` |
| Spin lock, config, logging, timing, socket helpers | - | - | all | taken as given |
| IPC shared memory | - | no caller here | - | no |
| DuckDB, experiments, tests | - | clients of the above | - | no |

How the parts interact. An application thread calls malloc, free and the paging
hints, and faults. A fault locks the pod, waits for room, runs the transition its
state needs (which may ask a memory node over the thread's own connection),
refreshes the LRU list and unlocks. Each faulting thread owns a free-loop thread
that takes the tail of the LRU list with a try-lock and evicts it. Prefetch
workers try-lock pages that follow a faulting one. Three things are shared
without the pod's mutex: the state, read by `activateAddress` before it locks;
the page's protection, read by the hardware on every access; and the LRU list,
under a lock of its own. On the memory node each connection has a worker; workers
share the context tables and, per tenant, a table of pods, whose mutex
`getPodHandler` gives up between finding a pod and deleting it.

What makes each part correct:

* paging: the application sees ordinary memory; each page has exactly the copies
  its state says; what is resident can be found by the evictors;
* memory pressure: memory over the limit comes back under it, and nobody waits
  for ever;
* memory node: what was saved is served; tenants never see each other's pages;
  recycled tids start clean;
* page allocator: blocks tile the region, the free lists are exact, blocks handed
  out are disjoint;
* buffer: a bounded FIFO queue, and waiting threads are served;
* in-page allocator: the words of a page are a heap, before and after the page is
  swapped in part, and no word of an object changes;
* small-object pages: an object is in one place at a time, the ranked list finds
  what it looks for, and the two kinds of lock, taken in both orders, block nobody;
* regions: within the pods, one thread at a time in each, and every page in its
  region or in one block;
* calls that move pages: the same content and the same list as without them.

`PROJECT.json` lists the hazards, each at its line, with the properties that cover
it; those without one say why.

## 2. Modules

### Paging, AtomicMemory

`Paging` models the pods of huge allocations. A pod has its `podStateT`, the
protection of its mapping, the content of its memfd, its swap file, what each
memory node stores for it, its landlord, its mutex, `LRUIterIsValid`, `isFree`,
and whether the page allocator, a malloc in progress, or the application has it
(`use`). A thread has a label `pc`, a pod `cur` and an operation `op`.

Steps that only touch what the pod's mutex or `LRULock` guards are one action;
where a page's state or protection changes, which other threads see without the
mutex, there is an action per change, in the order of the code. An eviction is
`getFromLRUList`, `remoteSwap` or `swapToDisk` (which set the state first),
`toReadOnly`, `SendPage`, `toNone`, `ReleaseEvicted`, `Finish`; a fault is
`Fault`, `activateAddress` (the unlocked test), `Lock`, the transition,
`toReadAndWrite`, `setLocalPinned`, `localPinnedToLocal`, `RefreshLRU`, `Finish`.

Abstractions: a page's content is one value; memory pressure is left open (an
evictor may act at any time, so the results hold for every policy); a memory node
is the contract the client relies on (save stores unless the key is taken, get
returns and removes, free removes), and it may reject any save; the prefetched
page is any page. Pages of small allocations, whose eviction also benches them,
are the subject of `SegregatedPageList`, and the force-swap and range calls that of
`RangeCalls`. The application is well behaved: it accesses and frees only pages
it owns, and frees a page nobody is using; a detached promote of the page
(`remon.cpp:904-908`) that is still to come counts as a use.

`AtomicMemory` is the promise: the content of a page in use changes only when a
thread that asked to write it does so, or a thread's `remon_cleanup_evicted` gives
it up; a page just allocated holds anything. The operation each thread has asked
for (`request`) is part of the abstract state, so that paging cannot pass off the
loss of a page as a write. `Transparent` states that `Paging` implements it, with
the content of a page taken from memory, the swap file or the landlord according
to its state and its holder's progress (`Content`). `ReadableIsCurrent` completes
it for reads: what the hardware lets a thread read is that content.

### MemoryNode

Several compute nodes (tenants) and one memory node. The client side is each pod's
place, content and mutex, so that requests about one pod follow each other, on any
connection. The server side is the tid counter and the recycled tids, the two
context tables, a table of pods per tenant, and for every worker where it is in
its handler. Handlers are split where they release a mutex: `savePodHandler`
inserts, `savePodPayload` receives the page outside the mutex; `getPodHandler`
finds, `sendPodPayload` answers, `ErasePod` takes the mutex again and deletes.
Of a missing pod the server sends two bytes and returns; the client reads them into
the page (`Lost`) and then waits, with the pod's mutex, for the rest of it
("short"). Two fetches whose deletes cross would erase one entry twice, which is
undefined in the code; here the key is absent afterwards. Connections stay up until
the tenant is done (`src/README.md:46-48`).

### TopLevelAllocator, BlockStore

The headers, footers and linked lists of one region exactly as the code keeps
them, stale links of pages that are not free headers included. `allocateNPages` is
a step; `hugeFree` has one step per iteration of its coalescing loop. When no list
fits, the code dereferences `hugePodMap.end()`; the model stops there (`crashed`).
`BlockStore` is the promise: the runs in use are disjoint and within the region.

### PodBoundedBuffer, PageQueue

The ring, its per-slot mutexes, the two condition variables, the keeper thread and
the destructor. Between a test of the indices and `wait` a thread is at "wait", so
lost notifications are in the model; spurious wakeups, which can only help, are
not. Pages never return: those of small objects are not given back to the page
allocator. `PageQueue` is the promise: a FIFO queue of at most N - 1 pages, from
which a page may also be dropped before it enters (the keeper drops a page whose
mutex is busy). A consumer takes a page in one step: its wait for the page's mutex
is left out, whose holder at that point (an evictor or a prefetcher that chose the
page before it was pinned) takes no lock of the ring, and so is the return of a null
pointer for a page that is not pinned any more (`PodBoundedBuffer.cpp:27-32`), as
nobody but the ring knows the page.

### FreeLoop

How faults wait for room: the fault's spin in `freeLoopSignal`, one free loop per
thread with its `awake`, `evict`, `drowsy` (decided to sleep) and `asleep` steps,
the shared condition variable, the monitor and the prefetcher. A fault's transition
and an eviction are a step each; what happens inside is `Paging`'s subject. Pages
go to the swap directory. A cached page counts as resident. `remonDemote` is left
out. The prefetcher looks `MaxPrefetch` pages ahead.

### FreeListAllocator, HeapStore, PageHeap

A page as an array of words, with the macros of `allocatorMacros.h` as operators on
it and the operations composed of them as the code composes them. A word of the
model is a machine word, so `DSIZE` is 2. The user fills its object with `Data`.
`SwapAndBack` is an eviction and the return of the page: only the words up to the
last free block, its two links and the last two words of the page survive, as
`localToDisk` writes and `diskToLocalPinned` reads them. `localToInit` and
`dropMemoryStayLocal` are what the evictor and trim do to an empty page.

`PageHeap` defines a heap as a set of free blocks, what allocating, freeing with
right coalescing and the longest block are. `HeapStore` is the abstract page:
blocks are handed out and returned by these definitions. `ImplementsHeap` shows
that the words implement it; `SegregatedPageList` builds on the same definitions.

### SegregatedPageList

One list of pages for objects of one size: the thread that owns it, other threads
that free and touch its objects, and evictors. `rankMap` is a set of pairs of rank
and page, so an entry without pages, which the code deletes, does not exist. A page
has a state ("swapped" stands for disk and remote, whose difference `Paging`
covers), a heap of `Slots` slots, a free buffer and a mutex; the list has its lock.
`allocate` is split at every point where it releases or tries a lock, and per page
in its two loops. A mutex is released whoever holds it, because `remonFree` can
release one that it no longer has. `trim` drops and restores the memory of an empty
page under the page's mutex and the list's lock, and is one step. `SPLBundle` and
`SplMux` map a size and a thread to a list: they are the constant `Owner`.

### TopLevelAllocatorBundle

Regions with their locks, `muxLock`, each thread's region, and the monitor that
switches `lockLoopOn` and trims. `loopGet` reads the number of regions without
`muxLock`, twice, and is split there (`loopGetFew`); the test for empty and the end of
the loop are one read, since regions only become more. Inside a region an allocation
takes any run of free pages; without one the process crashes (the region's own
choice, which can fail earlier because it does not merge to the left, is in
`TopLevelAllocator`). `Region` has one region more than the pods suffice for, to see
one too many being made. A free locks each of its pages with the region's lock in
hand (`TopLevelAllocator.cpp:310-315`). Those mutexes belong to `Paging`; here a free
may stay at that point for ever, and `RequestsEnd` is about the executions in which
none does.

### RangeCalls

The calls by which the application moves pages: promote, promote a range, demote a
range, force a page out, next to faults and evictions. Those that take the mutex are
also in `Paging`, in more detail; this module is about what the others do to them.
Promoting a range activates pods without the mutex; a forced swap goes on when its
try-lock failed, and releases the mutex at its end whoever has it. So every place
where an unguarded thread can come between is a step of its own: the two state tests
of `activatePod` with the wait for room between them, the reading and the removal of
the swap file, the opening of the page, the two changes of state, the two state tests
of an eviction (the second of which, failing, unlocks a mutex that its caller unlocks
again), the writing of the file, the release of the memory. Pages go to swap files,
their content is either their data or zeros, and the LRU list is a set. What the
application writes and every protection of a page are `Paging`'s subject. How long a
thread waits for room is left open, for ever included.

The history variable `clashed` holds the pods that two threads have been moving at
once: both past the state test that decides on the move and not yet done with it.
That is the one thing that goes wrong without the mutex. The properties say that
nothing else does: whatever the calls and their order, a page that is not in
`clashed` keeps its content, its file is there when it is loaded, and it is found
where its state says.

## 3. Runs

| Run | Instance | Shows |
|---|---|---|
| `paging` | 2 pods, 2 application threads, 1 evictor, 1 worker, 1 memory node, swap directory, 2 values | no interleaving breaks transparency, the copies, the LRU list, or leaves resident memory nobody can evict |
| `paging_peers` | 2 pods, 1 application thread, 2 evictors, 1 worker, 2 memory nodes, no swap directory | one copy, at the landlord, with evictions that go to different nodes; the inductive invariant of the proofs |
| `memory_node` | 2 tenants with 2 and 1 threads, 1 pod each | tids and contexts are recycled cleanly, tenants are isolated, and only a pending erase can keep a save out of the table |
| `memory_node_serve` | 1 tenant, 2 threads, 2 values | **violated**: see the first finding |
| `bounded_buffer` | 5 pages, 2 consumers, 3 slots | the ring is a FIFO queue; a consumer is served once it is not empty |
| `top_level_allocator` | 5 pages | every sequence of allocations and frees keeps blocks and lists exact |
| `free_loop` | 2 threads on 4 pages without prefetching, 1 thread on 3 pages with it; room for 1 page | memory over the limit comes back under it, unless a fault waits on a cached page at the LRU tail; other waiting faults have their page off the list |
| `free_loop_stuck` | 1 thread, 3 pages, room for 1, prefetching | **violated**: see the second finding |
| `free_list_allocator` | a page of 18 words, requests of 1, 4, 12 and 14 words | tags, links and data stay intact through allocation, coalescing, swapping and dropping; the page implements `HeapStore` |
| `page_list` | 2 pages of 2 slots: owner, another thread and 2 evictors with buffers that never fill; the owner alone with buffers of 2 | objects in one place, ranks exact, no rank search fails, buffered frees found, last page resident; whoever has the list's lock can go on |
| `regions` | 2 regions of 2 pages: 3 threads while memory suffices; 2 threads and the monitor while it runs short | allocations end if frees get their pages' mutexes, pages are accounted for, one thread at a time works in a region, regions stay within the pods until memory is short |
| `range_calls` | seven workloads: every call on 1 page with a fault, a detached thread and an evictor, and on 2 pages without evictions; a range of 2 pages promoted next to faults and evictions; 2 detached threads (promote a range, force out) next to faults; the two calls without the mutex next to faults after a clash; the calls with the mutex next to 2 threads that fault | content, swap files and list are right for every page that no two threads were moving at once, and faults end if waits for room do, unless the process exits or `LRULock` was kept |

Workloads. `FreeLoop`, `SegregatedPageList`, `TopLevelAllocatorBundle` and
`RangeCalls` have a constant `Workload`: which threads run, which calls they make,
how many pages there are. In `RangeCalls` it also says how many pods may have clashed
before no new call begins (`clashes`): 0 follows an execution to the end of the calls
under way when two threads first move one page at once, 1 goes on after it, at that
page and at the other. An execution has one of them from its first state on
(`load`), so that one run covers several instances; an MC module lists them.

Bounds. Two pods are enough for what concerns one page's mutex, state and copies
while another moves through the LRU list; two values and `Zero` tell a stale copy
from a current one and from a lost one; two
application threads meet in one run and two evictors in the other. Five pages
allow a list of three blocks whose middle one is taken out by coalescing, next to
blocks of other sizes; with six, the run no longer ends within minutes. Three slots let the ring wrap with
neither full nor empty coinciding. Three threads in two tenants let a tid move
from one tenant to the other in every order. 18 words hold four smallest blocks, so
that a freed block can have two free neighbours to its right and a list in any
order; `Request` has a size rounded up, one that leaves a rest too short for a
block, the largest that fits and one that does not. `Slots` = 2 lets a page be full,
half full and empty; `MAX_FREE_BUFF_SIZE` (1024 in the code) is 2 where the buffer is
to fill and 3, more than a page has objects, where it is not; `Patience` (100 in the code) is 0, so that both
outcomes of waiting for the last page are reached. Each region of two pages serves
either one block of two or two of one. Symmetry is used in the paging runs,
over pods, threads, values and peers, and in the page-list run, over pages: no
definition distinguishes them, and only safety is checked there. In `free_loop`, four
pages and room for one let both threads wait for room at once. A region too many is
the last thing the regions' model shows of a process.

`CHECK_DEADLOCK FALSE` is set where the program may stop: the process exits when
nobody accepts a page and there is no swap directory (`paging_peers`); tenants
leave; the allocator crashes; the keeper exits, or sleeps for good on a
notification it missed when the ring has been emptied; a fault waits for good (the
second finding); a page is dropped while its allocator's mutex is held (observation
1); a region without room crashes the process; a swap file is missing (observation 4)
or LRULock is held for good (observation 6).

Fairness. `FreeLoop`: weak fairness of each thread's fault, of each free loop and
of the monitor, which are running threads (the monitor loops every 10 ms, the fault
spins); none for when the application faults or the prefetcher runs.
`PodBoundedBuffer`: weak fairness of a consumer inside `getBufferedPod`; none of
the keeper, so that the property holds even if the keeper stops.
`TopLevelAllocatorBundle` and `RangeCalls`: strong fairness of the steps by which a
thread goes on with what it has begun, since the spin locks and mutexes do not queue
but a thread that keeps trying is not passed over for ever; none for when the
application allocates, frees, faults or calls, nor for when an evictor starts on a
page. Two waits are excepted because the code does not promise their end: a fault's
wait for room (the second finding) and a free's wait for the mutexes of its pages.
`FaultsEnd` and `RequestsEnd` have their end as a hypothesis (`RoomComes`,
`PagesUnlocked`).

The type invariants of `Paging` (part of `PagingInv`), `MemoryNode`,
`PodBoundedBuffer`, `TopLevelAllocator` and `TopLevelAllocatorBundle` are checked by
their runs; those of `FreeLoop`, `FreeListAllocator`, `SegregatedPageList` and
`RangeCalls` document the variables and can be added to their cfgs.

Every property of a passing run has a mutant in `PROJECT.json`: a definition
changed as a plausible bug would change it, under which TLC finds the property
violated. Mutants stand before the definitions they change.

### Findings

1. `getPodHandler` answers before it deletes. The compute node may evict the page
   again, on another connection, before the delete: `savePodHandler`'s insert finds
   the old entry and drops the new page, then the entry is deleted. The next fetch
   does not return what was saved: it gets the old page, or finds none and its thread
   waits on with the pod's mutex (`memory_node_serve`).
   `OnlyPendingEraseBlocksSave` shows this is the only way a save can be dropped.
   `Paging` assumes the contract without this window; its results hold where a
   memory node's erase is not overtaken.
2. A fault on a prefetched page waits for room with that page's mutex held and the
   page on the LRU list. When it is the tail, every free loop tries that page only
   and fails; the fault waits for room for ever (`free_loop_stuck`).
   `free_loop` shows that nothing else stands in the way; it takes a cached page, so
   it cannot happen without prefetching.

### Observations

Met while modelling. The properties of the runs say where the limits are: 1 and 4 to
6 happen in the runs, and the properties of `range_calls` except just what 4 to 6 do;
2 and 3 can be seen with the workload or the property they name.

1. A request just below the page size is small for `remonMalloc`
   (`remon.cpp:183`) and, with the overhead added, too large for a page: a new page
   does not serve it, though `remon.cpp:229` says "new page always allocates", and its
   allocator's mutex stays locked. It is `mallocOversize`, an action of
   `free_list_allocator`.
2. A full free buffer releases the page's mutex before the page is flushed
   (`pod.h:152`), and `remonFree` releases it again, possibly from under an evictor:
   two threads work on one page, and the process exits when its rank is not found.
   Workload: all threads with `MAX_FREE_BUFF_SIZE` 2; `RanksExact` and `NeverFatal`
   fail.
3. Two threads can both add the last region once memory is short
   (`TopLevelAllocatorBundle.cpp:117-119`): `RegionsWithinPods` without its
   condition fails. `regions` shows that it takes memory running short.
4. Promoting a range takes no mutex (`remon.cpp:1026`): next to faults and evictions,
   a page whose file is not yet there, or no longer, is loaded and the process exits.
   `SwapFileExists` without `clashed` fails in `range_calls`.
5. A forced swap goes on without the mutex it did not get (`remon.cpp:961`) and
   releases it at its end: two of them can both swap one page out, the second writing
   the dropped memory over the file. `ContentKept` without `clashed` fails in
   `range_calls`.
6. A forced swap of a page that is not on the LRU list keeps `LRULock`
   (`remon.cpp:982`), and nobody who needs it goes on. `FaultsEnd` without its last
   alternative fails in `range_calls`.

## 4. Proofs

Eight modules, checked by TLAPS. Each theorem holds for every value of the module's
constants: any number of threads, pods, pages, memory nodes, tenants or slots. The
assumptions are those of the modules, evaluated by TLC in the runs; they keep kinds
of thread apart and the null values out of the sets they complement, and say which
counts are positive. Each module proves an inductive invariant (`Init` implies it and
every step keeps it, action by action) and derives from it what the runs check. The
inductive invariants were checked by TLC on the runs' instances before they were
proved; `PagingInv` still is, in `paging_peers`.

| Module | Inductive invariant | Proved of the specification |
|---|---|---|
| `PagingProofs` | `PagingInv` | `TypeCorrect`, `LRUListConsistent`, `ReadablePagesCurrent`, `EvictedPagesClosed`, `BackingCopies`, `ResidentPagesEvictable`, `PagingImplementsMemory` |
| `TopLevelAllocatorProofs` | `AllocInv` | `TypeCorrect`, `RegionIsTiled`, `ListsAreExact`, `AllocatorImplementsStore` |
| `TopLevelAllocatorBundleProofs` | `BundleInv` | `TypeCorrect`, `Exclusion`, `WithinPods`, `NoPageLost` |
| `MemoryNodeProofs` | `NodeInv` | `TypeCorrect`, `TidsRecycled`, `TenantsIsolated`, `SavesBlockedByErase` |
| `PodBoundedBufferProofs` | `BufferInv` | `TypeCorrect`, `RingImplementsQueue` |
| `RangeCallsProofs` | `MoveInv` | `ContentIsKept`, `SwapFileIsFound`, `PodsAreSettled`, for all calls; `ClashNeedsRange` where no page is forced out; `LockingCallsNeverClash` where every call takes the mutex |
| `FreeLoopProofs` | `LoopInv` | `WaitersAreOffTheList` |
| `SegregatedPageListProofs` | `SplInv` | `TypeCorrect`, `NeverFatalHolds`, `ObjectsAccountedHolds`, `RanksExactHolds`, `FreesAreFoundHolds`, `LastPageResidentHolds`, where no free buffer fills; `BuffersNeverFill`, `SmallPagesCorrect` |

**Paging.** None of the invariants is inductive alone: whether a page's copies are
right after a step depends on where its holder is. `PagingInv` therefore says, besides
types and the LRU list,

* `MutexInv`: a thread at a locked label owns its pod's mutex, and an owner is at
  such a label, on that pod;
* `UseInv`: accesses are to live pages, a page is allocated by one thread, and a
  live page is never flagged `isFree` (or the evictor would drop it);
* per pod, as a function of its holder's label: `CopyInv` (which copies exist and
  what they contain: none while it is being fetched or not yet sent, the one of the
  destination once sent, what the state says when settled), `ProtInv` (an evicted or
  cached page is closed, except in the steps that open it or have not closed it
  yet), `HolderState` (the state belonging to each step).

The LRU operations rest on lemmas on what erasing an element leaves
(`RemoveAtElements`, `ErasedElements`). The refinement splits the steps: a write, the
end of a malloc, a free and a cleanup change the content of one page as `AtomicMemory`
allows; every other step keeps the content of every page (`InvisibleSteps`) and starts
an operation, ends one, or changes nothing the application sees (`QuietSteps`). That
resident pages can be evicted (`ResidentPagesEvictable`) takes one fact more, kept
beside `PagingInv`: a pod whose state says that it takes up memory is on the list,
unless its holder is evicting it or has yet to put it there (`Listed`).

**Page allocator.** `Header` and `Listed` are what a recursive function reaches, and a
write to one page could divert the way to all others. `AllocInv` says why it does not:
`Tiled`, the headers are a set in which each block ends where the next begins;
`Linked`, the free blocks that are not being absorbed are chained in both directions,
every one without a predecessor is the head of its list, and a rank rises along each
list, so that none is a cycle. `HeadersAre` and `ListsReach` show that such headers
and such blocks are exactly the ones reached; `SplitBlock`, `MergeBlocks`,
`AddKeepsLinked` and `UnlinkKeepsLinked` show what the operations do to them. `LoopOK`
ties the locals of the coalescing loop to the blocks absorbed so far. The recursive
function itself is treated by minimal counterexamples (`LeastOf`, `ReachedLeast`).

**Regions.** `BundleInv`: where a thread is tells which region it has, that the region
has been made, and that its lock is its own if it works there (`ControlOK`, with
`RegionExclusive`); until memory is short nobody is on the way to adding a region when
all are made (`LoopOK`); free pages, blocks in use and blocks being freed lie in one
region each (`PlacesOK`), are disjoint, and cover the regions.

**Memory node.** `NodeInv`: recycled tids are distinct, were handed out before and
have nothing filed under them (`TidsOK`); a context is filed under the tid of its
tenant's main connection (`ContextsOK`), and until the tenant exits its session key
leads there (`SessionsOK`), also for its workers (`WorkersOK`); a request about a pod
is sent with the pod's mutex, and a worker is where its request takes it
(`RequestsOK`); a local pod in the table is about to be erased or being saved
(`SavesOK`). `SavesBlockedByErase` then says that the window of the first finding is
the only one.

**Buffer.** `BufferInv`: a consumer past the lock has it, and what a thread has seen
when it tested the indices is still so when it acts: only the keeper fills and only
the lock's holder empties. The refinement needs the arithmetic of indices modulo the
number of slots.

**Calls that move pages.** The mutex is no help: a thread may move a page without it,
and may lose one it took. `MoveInv` says instead what holds of a page that no two
threads have moved at once, as a function of how far the one that is moving it has
got (what is in memory, what is in the file, whether the page is open, its state),
and where the page is when nobody is moving it; and which threads still owe it a
place on the LRU list. A step of another thread either does not touch such a page or
would make it a clash. So the three theorems hold of all calls, with no hypothesis.
Two more say how a clash comes about. `ClashNeedsRange`: where no page is forced out,
a step after which two threads move one page that no two moved before leaves one of
them promoting a range; everyone else is under the mutex. `LockingCallsNeverClash`:
where all calls take the mutex, `clashed` stays empty, and the properties hold of all
pages.

**Memory pressure.** `LoopInv`: a faulting thread holds its pod and a free loop its
victim, which are different and, for the victim, off the list; a pod is on the list
once and only while it takes up memory.

**Small-object pages.** The theorems have the hypothesis `NoBufferFills`: no free finds
the page's buffer one object short of `MAX_FREE_BUFF_SIZE`. On that path the code
releases the page's mutex and goes on with the page, and with other threads at work
the properties fail (observation 2). `BuffersNeverFill` says where the hypothesis is
met: whenever the buffer has room for more than the objects of a page, because the
object being freed is not in it yet and it holds none twice (`BufferBound`, by
counting). The limit is 1024 and the default page has 851968 bytes, so this is so of
the lists of objects of more than 832 bytes; `SmallPagesCorrect` states all the
properties for them with no hypothesis on the execution. The properties need one
another. A flush frees what is in the buffer, so that the heap is right after it only if
nothing in the buffer is free already (`AccountOK`: an object is in one place); a page
is found under its rank only if the rank is the one last computed from its heap
(`PageOK`, as a function of what the holder of its mutex is doing: listed from
`unbench` to `bench`, and all the time if it was last allocated from); the page last
allocated from is exempt only if the owner leaves it before it looks elsewhere
(`ControlOK`). `SplInv` is their conjunction with `MutexOK`. Below it are lemmas on
heaps as sets of blocks: `AllocatedHeap`, `ReleasedHeap` (a release absorbs the free
blocks to its right and frees just its own object) and `FlushedHeap`, the same for a
whole buffer, by a minimal counterexample over the stages of the flush. `SplInv` was
checked by TLC on the instance of the run with all threads.

Only model-checked: the liveness properties (`PressureRelievedOrTailHeld`,
`NonEmptyIsServed`, `RequestsEnd`, `FaultsEnd`), since liveness under fairness is
beyond TLAPS's backends here; `HolderGoesOn`, which is about `ENABLED`; the other
properties of `SegregatedPageList` where a buffer fills and the owner is alone, the
second workload of its run; and `FreeListAllocator`, whose tiling and list argument would be that of the
page allocator once more, through two layers of macros on the words of a page.

## 5. Not modelled

* `remonForceUnmap` (gives pages up without their mutexes; nothing calls it) and
  `remonForceSwapRange` (hands the pod object's address to `remonForceSwap`, which
  takes it for a page's: which pod it then acts on is undefined);
* failures of a connection, which the program requires to stay up, and partial
  transfers;
* the disabled preswap, the code under macros that are not set, `leftCoalescing` and
  `coalescingOnePodLeft`, which nothing calls;
* memory counted by the kernel rather than by pages;
* logging, profiling, configuration, statistics, the socket helpers and IPC shared
  memory: input and output without state of their own;
* the vendored DuckDB, by far the most of the repository's lines: third-party code
  that calls REMON through malloc and free only.

## 6. Plan

Done: the paging core, the memory node, the page allocator and its regions, the
buffer, memory pressure, the calls that move pages, with and without the mutex, and
small-object pages, with the proofs of their safety; the allocator inside a page, model-checked.

Next, in this order:

1. Proofs about `FreeListAllocator`: the tiling, the list and the user's data, then the
   refinement of `HeapStore`.
2. `Paging` over the split get of `MemoryNode`, to state exactly which fetches the
   first finding can reach.

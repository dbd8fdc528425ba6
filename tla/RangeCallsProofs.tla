-------------------------- MODULE RangeCallsProofs --------------------------
(***************************************************************************)
(* What the calls that move pages keep, for any number of threads and pods *)
(* and whichever calls are made, with and without the mutex: a page that   *)
(* no two threads have been moving at once has its content, and its pod is *)
(* where its state says.  And what makes two threads move one page:        *)
(* without forced swaps, always a promoted range.                          *)
(***************************************************************************)
EXTENDS RangeCalls, WellFoundedInduction, TLAPS

InMemory(p) == state[p] = "local" /\ p \in open /\ mem[p] = "data"
OnDisk(p) == state[p] = "disk" /\ p \notin open /\ p \in swapPath /\ file[p] = "data"

\* A thread that is not idle has a pod and a call.
CallsOK ==
    \A t \in Thread :
        /\ pc[t] = "idle" => cur[t] = 0
        /\ pc[t] # "idle" => cur[t] \in Page /\ call[t] \in Call

\* How far the thread that moves p has got.
MovedOK(t, p) ==
    /\ pc[t] = "toDisk" => InMemory(p)
    /\ pc[t] = "write" => state[p] = "disk" /\ p \in open /\ mem[p] = "data"
    /\ pc[t] = "release" => state[p] = "disk" /\ p \in open /\ mem[p] = "data" /\ file[p] = "data"
    /\ pc[t] = "read" => OnDisk(p)
    /\ pc[t] = "remove" => OnDisk(p) /\ mem[p] = "data"
    /\ pc[t] = "reopen" => state[p] = "disk" /\ p \notin open /\ mem[p] = "data"
    /\ pc[t] = "pin" => state[p] = "disk" /\ p \in open /\ mem[p] = "data"
    /\ pc[t] = "pinned" => state[p] = "localPinned" /\ p \in open /\ mem[p] = "data"

\* Steps of a thread that will put its pod on the list, or has taken it off to evict it.
Listing == {"relist", "swapOut", "evict", "toDisk"}

\* A pod that no thread moves is in memory or on disk, one that a thread moves is as
\* far as this thread, and a local pod off the list has a thread that deals with it.
RestOK(p) == (\A t \in Thread : ~Moves(t, p)) => InMemory(p) \/ OnDisk(p)
WorkOK(p) == \A t \in Thread : cur[t] = p => MovedOK(t, p)
ListOK(p) == state[p] = "local" /\ p \notin LRU =>
                \E t \in Thread : cur[t] = p /\ pc[t] \in Listing
PodOK(p) == RestOK(p) /\ WorkOK(p) /\ ListOK(p)

MoveInv ==
    /\ TypeOK /\ CallsOK /\ Together \subseteq clashed
    /\ fatal \in clashed \cup {0}
    /\ \A p \in Page \ clashed : PodOK(p)

\* The steps of a call that takes the mutex between taking it and giving it up.
Holding == Moving \cup {"activate", "room", "switch", "relist", "unlock", "swapOut", "evict"}

\* The steps that are not of activatePod.
NotRange == {"lock", "unlock", "swapOut", "evict", "toDisk", "write", "release"}

NoForcedSwap == "forceSwap" \notin load.calls

\* Promoting a range has only the steps of activatePod; without forced swaps, every
\* other call holds the mutex of a pod that has not clashed, and finds it local in
\* evictPod if it was so before.
LockOK ==
    /\ \A t \in Thread :
        /\ call[t] \in load.calls \cup {"none"}
        /\ call[t] = "promoteRange" => pc[t] \notin NotRange
    /\ \A t \in Thread :
        cur[t] \in Page \ clashed /\ pc[t] \in Holding /\ call[t] # "promoteRange" =>
          /\ mutex[cur[t]] = t
          /\ pc[t] = "evict" => state[cur[t]] = "local"

\* t is at step l with pod p; the other threads stay where they are.
Acts(t, l, p) ==
    /\ pc'[t] = l /\ cur'[t] = p
    /\ \A u \in Thread \ {t} : pc'[u] = pc[u] /\ cur'[u] = cur[u] /\ call'[u] = call[u]

ThreadTypes ==
    /\ pc \in [Thread -> Label] /\ call \in [Thread -> Call \cup {"none"}]
    /\ cur \in [Thread -> 0 .. load.pods] /\ todo \in [Thread -> SUBSET Page]
-----------------------------------------------------------------------------
\* The first pod of a range is a pod of it (Min is a CHOOSE).
LEMMA MinIn ==
    ASSUME NEW S, S \subseteq Nat, S # {}
    PROVE  Min(S) \in S
<1> DEFINE R == OpToRel(<, Nat)
<1>1. PICK x \in S : \A y \in S : ~(<<y, x>> \in R)
  BY NatLessThanWellFounded, WFMin
<1>2. \A y \in S : x <= y
  <2> TAKE y \in S
  <2>1. x \in Nat /\ y \in Nat
    OBVIOUS
  <2>2. ~(y < x)
    BY <1>1, <2>1 DEF OpToRel
  <2> QED
    BY <2>1, <2>2
<1>3. \E z \in S : \A y \in S : z =< y
  BY <1>2
<1> QED
  BY <1>3 DEF Min

\* What the types say of the pages.
LEMMA PageFacts ==
    ASSUME TypeOK
    PROVE  /\ load.pods \in Nat
           /\ Page \subseteq Nat /\ 0 \notin Page /\ Page \subseteq 0 .. load.pods
<1>1. load.pods \in Nat
  BY RangeAssumption DEF TypeOK
<1> QED
  BY <1>1 DEF Page

\* t starts on range, and goes on to the first pod of it.
LEMMA TakeFrame ==
    ASSUME TypeOK, CallsOK, UNCHANGED load, NEW t \in Thread, NEW c \in Call, NEW range,
           NEW l \in Label \ {"idle"}, range \subseteq Page, range # {}, Take(t, c, range, l)
    PROVE  \E q \in range : /\ Acts(t, l, q) /\ call'[t] = c /\ fatal' = fatal
                            /\ ThreadTypes' /\ CallsOK'
<1>1. Min(range) \in range
  BY PageFacts, MinIn
<1> DEFINE q == Min(range)
<1>2. q \in range /\ q \in Page /\ q \in 0 .. load.pods /\ Page' = Page
  BY <1>1, PageFacts DEF Page
<1>3. /\ call' = [call EXCEPT ![t] = c] /\ cur' = [cur EXCEPT ![t] = q]
      /\ todo' = [todo EXCEPT ![t] = range \ {q}] /\ pc' = [pc EXCEPT ![t] = l]
      /\ fatal' = fatal
  BY DEF Take, Goto
<1> HIDE DEF q
<1>4. ThreadTypes'
  BY <1>2, <1>3 DEF TypeOK, ThreadTypes
<1>5. Acts(t, l, q) /\ call'[t] = c
  BY <1>3 DEF TypeOK, Acts
<1>6. CallsOK'
  BY <1>2, <1>5 DEF CallsOK, Acts
<1> QED
  BY <1>2, <1>3, <1>4, <1>5, <1>6

\* t begins a call.
LEMMA BeginFrame ==
    ASSUME TypeOK, CallsOK, UNCHANGED load, NEW t \in Thread, NEW c \in Call, NEW range,
           NEW l \in Label \ {"idle"}, range \subseteq Page, range # {}, Begin(t, c, range, l)
    PROVE  /\ pc[t] = "idle" /\ cur[t] = 0 /\ c \in load.calls
           /\ \E q \in range : /\ Acts(t, l, q) /\ call'[t] = c /\ fatal' = fatal
                               /\ ThreadTypes' /\ CallsOK'
<1>1. pc[t] = "idle" /\ c \in load.calls /\ Take(t, c, range, l)
  BY DEF Begin, At
<1>2. cur[t] = 0
  BY <1>1 DEF CallsOK
<1> QED
  BY <1>1, <1>2, TakeFrame

\* t is done with its pod: it is idle, or before the first step for another pod.
LEMMA DoneFrame ==
    ASSUME TypeOK, CallsOK, UNCHANGED load, NEW t \in Thread, pc[t] # "idle", PodDone(t)
    PROVE  \E l \in {"idle", "lock", "activate"} : \E q \in 0 .. load.pods :
              /\ Acts(t, l, q) /\ fatal' = fatal /\ ThreadTypes' /\ CallsOK'
              /\ call'[t] \in {call[t], "none"}
              /\ l # "idle" => (l = "activate" <=> call[t] = "promoteRange")
              /\ l = "idle" => call'[t] = "none"
<1>1. call[t] \in Call /\ todo[t] \subseteq Page /\ 0 \in 0 .. load.pods /\ Page' = Page
  BY PageFacts DEF CallsOK, TypeOK, Page
<1>2. CASE todo[t] # {}
  <2> DEFINE l == IF call[t] = "promoteRange" THEN "activate" ELSE "lock"
  <2>1. Take(t, call[t], todo[t], l)
    BY <1>2 DEF PodDone
  <2>2. l \in Label \ {"idle"} /\ l \in {"idle", "lock", "activate"}
    BY DEF Label
  <2>3. l = "activate" <=> call[t] = "promoteRange"
    OBVIOUS
  <2> HIDE DEF l
  <2>4. PICK q \in todo[t] : /\ Acts(t, l, q) /\ call'[t] = call[t] /\ fatal' = fatal
                             /\ ThreadTypes' /\ CallsOK'
    BY <1>1, <1>2, <2>1, <2>2, TakeFrame
  <2>5. q \in 0 .. load.pods
    BY <1>1, <2>4, PageFacts
  <2>6. l # "idle"
    BY <2>2
  <2> QED
    BY <2>2, <2>3, <2>4, <2>5, <2>6
<1>3. CASE todo[t] = {}
  <2>1. /\ call' = [call EXCEPT ![t] = "none"] /\ cur' = [cur EXCEPT ![t] = 0]
        /\ pc' = [pc EXCEPT ![t] = "idle"] /\ UNCHANGED <<todo, fatal>>
    BY <1>3 DEF PodDone, Goto
  <2>2. ThreadTypes'
    BY <1>1, <2>1 DEF TypeOK, ThreadTypes, Label
  <2>3. Acts(t, "idle", 0) /\ call'[t] = "none"
    BY <2>1 DEF TypeOK, Acts
  <2>4. CallsOK'
    BY <1>1, <2>3 DEF CallsOK, Acts
  <2> QED
    BY <1>1, <2>1, <2>2, <2>3, <2>4
<1> QED
  BY <1>2, <1>3

\* t goes on with its pod.
LEMMA GotoFrame ==
    ASSUME TypeOK, CallsOK, UNCHANGED load, NEW t \in Thread, pc[t] # "idle",
           NEW l \in Label \ {"idle"}, Goto(t, l), UNCHANGED <<call, cur, todo>>
    PROVE  /\ cur[t] \in Page /\ call[t] \in Call
           /\ Acts(t, l, cur[t]) /\ ThreadTypes' /\ CallsOK'
<1>1. cur[t] \in Page /\ call[t] \in Call /\ Page' = Page
  BY DEF CallsOK, Page
<1>2. pc' = [pc EXCEPT ![t] = l]
  BY DEF Goto
<1>3. ThreadTypes'
  BY <1>1, <1>2 DEF TypeOK, ThreadTypes
<1>4. Acts(t, l, cur[t])
  BY <1>2 DEF TypeOK, Acts
<1>5. CallsOK'
  BY <1>1, <1>4 DEF CallsOK, Acts
<1> QED
  BY <1>1, <1>3, <1>4, <1>5

\* Two threads that move one pod are noticed.
LEMMA Noticed ==
    ASSUME TypeOK, Observed
    PROVE  Page' = Page /\ clashed' \subseteq Page /\ clashed \subseteq clashed' /\ Together' \subseteq clashed'
BY DEF Observed, Together, Page, TypeOK

\* A step of t that concerns only pod p.
LEMMA PodStep ==
    ASSUME MoveInv, Observed, NEW t \in Thread, NEW p \in Page, NEW l, NEW q,
           TypeOK', CallsOK', Acts(t, l, q), fatal' \in clashed' \cup {0},
           cur[t] # p => pc[t] \notin Moving \cup Listing,
           q # p => l \notin Moving \cup Listing,
           \A r \in Page \ {p} :
              /\ state'[r] = state[r] /\ mem'[r] = mem[r] /\ file'[r] = file[r]
              /\ (r \in open' <=> r \in open) /\ (r \in swapPath' <=> r \in swapPath)
              /\ (r \in LRU' <=> r \in LRU),
           p \notin clashed' => PodOK(p)'
    PROVE  MoveInv'
<1>1. Page' = Page /\ clashed \subseteq clashed' /\ Together' \subseteq clashed'
  BY Noticed DEF MoveInv
<1>2. ASSUME NEW r \in Page \ {p}, r \notin clashed' PROVE PodOK(r)'
  <2>1. PodOK(r)
    BY <1>1, <1>2 DEF MoveInv
  <2>2. /\ pc'[t] = l /\ cur'[t] = q
        /\ \A u \in Thread \ {t} : pc'[u] = pc[u] /\ cur'[u] = cur[u]
    BY DEF Acts
  <2>3. \A u \in Thread : Moves(u, r) <=> Moves(u, r)'
    BY <2>2, <1>2 DEF Moves
  <2>4. (InMemory(r) <=> InMemory(r)') /\ (OnDisk(r) <=> OnDisk(r)')
    BY DEF InMemory, OnDisk
  <2>5. RestOK(r)'
    BY <2>1, <2>3, <2>4 DEF PodOK, RestOK
  <2>6. WorkOK(r)'
    <3> SUFFICES ASSUME NEW u \in Thread, cur'[u] = r PROVE MovedOK(u, r)'
      BY DEF WorkOK
    <3>1. CASE u = t
      BY <3>1, <2>2, <1>2 DEF MovedOK, Moving
    <3>2. CASE u # t
      <4>1. MovedOK(u, r) /\ pc'[u] = pc[u]
        BY <3>2, <2>1, <2>2 DEF PodOK, WorkOK
      <4> QED
        BY <4>1, <2>4, <1>2 DEF MovedOK
    <3> QED
      BY <3>1, <3>2
  <2>7. ListOK(r)'
    <3> SUFFICES ASSUME state'[r] = "local", r \notin LRU'
                 PROVE  \E u \in Thread : cur'[u] = r /\ pc'[u] \in Listing
      BY DEF ListOK
    <3>1. PICK u \in Thread : cur[u] = r /\ pc[u] \in Listing
      BY <2>1, <1>2 DEF PodOK, ListOK
    <3>2. u # t
      BY <3>1, <1>2
    <3> QED
      BY <3>1, <3>2, <2>2
  <2> QED
    BY <2>5, <2>6, <2>7 DEF PodOK
<1>3. \A r \in Page \ clashed' : PodOK(r)'
  BY <1>2
<1> QED
  BY <1>1, <1>3 DEF MoveInv

\* A step of t that moves nothing.
LEMMA QuietStep ==
    ASSUME MoveInv, Observed, NEW t \in Thread, NEW p \in Page, NEW l, NEW q,
           TypeOK', CallsOK', Acts(t, l, q), fatal' = fatal,
           UNCHANGED podVars, \A r \in Page \ {p} : r \in LRU' <=> r \in LRU,
           pc[t] \notin Moving, l \notin Moving,
           cur[t] # p => pc[t] \notin Listing,
           q # p => l \notin Listing,
           \/ p \in LRU' \/ state[p] # "local" \/ (q = p /\ l \in Listing)
           \/ (p \in LRU => p \in LRU') /\ pc[t] \notin Listing
    PROVE  MoveInv'
<1> USE DEF podVars
<1>1. Page' = Page /\ clashed \subseteq clashed' /\ Together' \subseteq clashed'
  BY Noticed DEF MoveInv
<1>2. ASSUME p \notin clashed' PROVE PodOK(p)'
  <2>1. PodOK(p)
    BY <1>1, <1>2 DEF MoveInv
  <2>2. /\ pc'[t] = l /\ cur'[t] = q
        /\ \A u \in Thread \ {t} : pc'[u] = pc[u] /\ cur'[u] = cur[u]
    BY DEF Acts
  <2>3. \A u \in Thread : Moves(u, p) <=> Moves(u, p)'
    BY <2>2 DEF Moves
  <2>4. (InMemory(p) <=> InMemory(p)') /\ (OnDisk(p) <=> OnDisk(p)')
    BY DEF InMemory, OnDisk
  <2>5. RestOK(p)'
    BY <2>1, <2>3, <2>4 DEF PodOK, RestOK
  <2>6. WorkOK(p)'
    <3> SUFFICES ASSUME NEW u \in Thread, cur'[u] = p PROVE MovedOK(u, p)'
      BY DEF WorkOK
    <3>1. CASE u = t
      BY <3>1, <2>2 DEF MovedOK, Moving
    <3>2. CASE u # t
      <4>1. MovedOK(u, p) /\ pc'[u] = pc[u]
        BY <3>2, <2>1, <2>2 DEF PodOK, WorkOK
      <4> QED
        BY <4>1, <2>4 DEF MovedOK
    <3> QED
      BY <3>1, <3>2
  <2>7. ListOK(p)'
    <3> SUFFICES ASSUME state[p] = "local", p \notin LRU'
                 PROVE  \E u \in Thread : cur'[u] = p /\ pc'[u] \in Listing
      BY DEF ListOK
    <3>1. CASE q = p /\ l \in Listing
      BY <3>1, <2>2
    <3>2. CASE (p \in LRU => p \in LRU') /\ pc[t] \notin Listing
      <4>1. PICK u \in Thread : cur[u] = p /\ pc[u] \in Listing
        BY <3>2, <2>1 DEF PodOK, ListOK
      <4> QED
        BY <4>1, <3>2, <2>2
    <3> QED
      BY <3>1, <3>2
  <2> QED
    BY <2>5, <2>6, <2>7 DEF PodOK
<1>3. fatal' \in clashed' \cup {0}
  BY <1>1 DEF MoveInv
<1> QED
  BY <1>2, <1>3, PodStep

\* A step of t that moves its pod, or begins or ends moving it.
LEMMA MoverStep ==
    ASSUME MoveInv, Observed, NEW t \in Thread, NEW p \in Page, NEW l,
           cur[t] = p, TypeOK', CallsOK', Acts(t, l, p), fatal' \in clashed' \cup {0},
           pc[t] \in Moving \/ l \in Moving, UNCHANGED LRU,
           \A r \in Page \ {p} :
              /\ state'[r] = state[r] /\ mem'[r] = mem[r] /\ file'[r] = file[r]
              /\ (r \in open' <=> r \in open) /\ (r \in swapPath' <=> r \in swapPath),
           p \notin clashed' =>
              /\ MovedOK(t, p)'
              /\ l \notin Moving => (InMemory(p) \/ OnDisk(p))'
              /\ state'[p] # "local" \/ l \in Listing
    PROVE  MoveInv'
<1>1. Page' = Page /\ clashed \subseteq clashed' /\ Together' \subseteq clashed'
  BY Noticed DEF MoveInv
<1>2. ASSUME p \notin clashed' PROVE PodOK(p)'
  <2>1. /\ pc'[t] = l /\ cur'[t] = p
        /\ \A u \in Thread \ {t} : pc'[u] = pc[u] /\ cur'[u] = cur[u]
    BY DEF Acts
  <2>2. ASSUME NEW u \in Thread \ {t} PROVE ~Moves(u, p)'
    <3>1. CASE l \in Moving
      BY <1>1, <1>2, <2>1, <3>1 DEF Together, Moves
    <3>2. CASE pc[t] \in Moving
      <4>1. p \notin Together
        BY <1>1, <1>2 DEF MoveInv
      <4>2. ~Moves(u, p)
        BY <4>1, <3>2 DEF Together, Moves
      <4> QED
        BY <4>2, <2>1 DEF Moves
    <3> QED
      BY <3>1, <3>2
  <2>3. RestOK(p)'
    <3>1. CASE l \in Moving
      BY <3>1, <2>1 DEF RestOK, Moves
    <3>2. CASE l \notin Moving
      BY <3>2, <1>2 DEF RestOK
    <3> QED
      BY <3>1, <3>2
  <2>4. WorkOK(p)'
    <3> SUFFICES ASSUME NEW u \in Thread, cur'[u] = p PROVE MovedOK(u, p)'
      BY DEF WorkOK
    <3>1. CASE u = t
      BY <3>1, <1>2
    <3>2. CASE u # t
      BY <3>2, <2>2 DEF Moves, MovedOK, Moving
    <3> QED
      BY <3>1, <3>2
  <2>5. ListOK(p)'
    BY <1>2, <2>1 DEF ListOK
  <2> QED
    BY <2>3, <2>4, <2>5 DEF PodOK
<1> QED
  BY <1>2, PodStep

\* A thread that begins to move a pod finds it in memory or on disk, unless another
\* one is moving it.
LEMMA Rested ==
    ASSUME MoveInv, Observed, NEW t \in Thread, NEW p \in Page, NEW l \in Moving,
           pc[t] \notin Moving, Acts(t, l, p), p \notin clashed'
    PROVE  PodOK(p) /\ (InMemory(p) \/ OnDisk(p))
<1>1. Page' = Page /\ clashed \subseteq clashed' /\ Together' \subseteq clashed'
  BY Noticed DEF MoveInv
<1>2. PodOK(p)
  BY <1>1 DEF MoveInv
<1>3. ASSUME NEW u \in Thread PROVE ~Moves(u, p)
  <2>1. CASE u = t
    BY <2>1 DEF Moves
  <2>2. CASE u # t
    BY <2>2, <1>1 DEF Acts, Together, Moves
  <2> QED
    BY <2>1, <2>2
<1> QED
  BY <1>2, <1>3 DEF PodOK, RestOK
-----------------------------------------------------------------------------
\* The calls that begin.
LEMMA CallStep ==
    ASSUME MoveInv, Observed, NEW t \in Thread,
           \/ activateAddress(t) \/ remonPromote(t) \/ remonPromoteRange(t)
           \/ remonDemoteRange(t) \/ ForceSwapBusy(t)
    PROVE  MoveInv'
<1>1. TypeOK /\ CallsOK /\ UNCHANGED load
  BY DEF MoveInv, Observed
<1>2. PICK c \in Call, range \in SUBSET Page, l \in {"lock", "activate", "swapOut"} :
         range # {} /\ Begin(t, c, range, l)
  <2>1. CASE activateAddress(t)
    BY <2>1 DEF activateAddress, Call
  <2>2. CASE remonPromote(t)
    BY <2>2 DEF remonPromote, Call
  <2>3. CASE remonPromoteRange(t)
    <3>1. PICK from \in Page, to \in Page :
             from <= to /\ Begin(t, "promoteRange", from..to, "activate")
      BY <2>3 DEF remonPromoteRange
    <3>2. (from..to) \subseteq Page /\ from \in from..to
      BY <1>1, <3>1, PageFacts DEF Page
    <3> QED
      BY <3>1, <3>2 DEF Call
  <2>4. CASE remonDemoteRange(t)
    <3>1. PICK from \in Page, to \in Page, exclude \in 0 .. load.pods :
             /\ from <= to /\ from..to # {exclude}
             /\ Begin(t, "demoteRange", (from..to) \ {exclude}, "lock")
      BY <2>4 DEF remonDemoteRange
    <3>2. (from..to) \subseteq Page /\ from \in from..to
      BY <1>1, <3>1, PageFacts DEF Page
    <3>3. (from..to) \ {exclude} # {}
      BY <3>1, <3>2
    <3> QED
      BY <3>1, <3>2, <3>3 DEF Call
  <2>5. CASE ForceSwapBusy(t)
    BY <2>5 DEF ForceSwapBusy, Call
  <2> QED
    BY <2>1, <2>2, <2>3, <2>4, <2>5
<1>3. UNCHANGED <<podVars, mutex, LRU, LRULock>>
  BY DEF activateAddress, remonPromote, remonPromoteRange, remonDemoteRange, ForceSwapBusy
<1>4. l \in Label \ {"idle"}
  BY DEF Label
<1>5. pc[t] = "idle" /\ cur[t] = 0
  BY <1>1, <1>2, <1>4, BeginFrame
<1>6. PICK q \in range : Acts(t, l, q) /\ fatal' = fatal /\ ThreadTypes' /\ CallsOK'
  BY <1>1, <1>2, <1>4, BeginFrame
<1>7. TypeOK'
  BY <1>1, <1>3, <1>6, Noticed DEF TypeOK, ThreadTypes, podVars
<1>8. pc[t] \notin Moving \cup Listing /\ l \notin Moving
  BY <1>5 DEF Moving, Listing
<1>9. q \in Page /\ LRU' = LRU
  BY <1>2, <1>3, <1>6
<1> QED
  BY <1>3, <1>6, <1>7, <1>8, <1>9, QuietStep

\* The calls that take a pod off the list.
LEMMA PickStep ==
    ASSUME MoveInv, Observed, NEW t \in Thread, pickPodToEvict(t) \/ remonForceSwap(t)
    PROVE  MoveInv'
<1>1. TypeOK /\ CallsOK /\ UNCHANGED load
  BY DEF MoveInv, Observed
<1>2. PICK c \in Call, p \in LRU :
         /\ mutex' = [mutex EXCEPT ![p] = t] /\ LRU' = LRU \ {p}
         /\ Begin(t, c, {p}, "swapOut")
  BY DEF pickPodToEvict, remonForceSwap, Call
<1>3. UNCHANGED <<podVars, LRULock>>
  BY DEF pickPodToEvict, remonForceSwap
<1>4. p \in Page /\ "swapOut" \in Label \ {"idle"}
  BY <1>1, <1>2 DEF TypeOK, Label
<1>5. pc[t] = "idle" /\ cur[t] = 0
  BY <1>1, <1>2, <1>4, BeginFrame
<1>6. Acts(t, "swapOut", p) /\ fatal' = fatal /\ ThreadTypes' /\ CallsOK'
  BY <1>1, <1>2, <1>4, BeginFrame
<1>7. TypeOK'
  BY <1>1, <1>2, <1>3, <1>6, Noticed DEF TypeOK, ThreadTypes, podVars
<1>8. /\ pc[t] \notin Moving \cup Listing
      /\ "swapOut" \notin Moving /\ "swapOut" \in Listing
  BY <1>5 DEF Moving, Listing
<1> QED
  BY <1>2, <1>3, <1>4, <1>6, <1>7, <1>8, QuietStep

\* LRULock kept for good.
LEMMA UnlistedStep ==
    ASSUME MoveInv, Observed, NEW t \in App, ForceSwapUnlisted(t)
    PROVE  MoveInv'
<1>1. TypeOK /\ CallsOK /\ UNCHANGED load
  BY DEF MoveInv, Observed
<1>2. /\ LRULock' = t /\ pc[t] = "idle"
      /\ UNCHANGED <<podVars, mutex, LRU, threadVars, fatal>>
  BY DEF ForceSwapUnlisted, At
<1>3. PICK p \in Page : TRUE
  BY DEF ForceSwapUnlisted
<1>4. TypeOK' /\ CallsOK' /\ Acts(t, "idle", cur[t]) /\ t \in Thread
  BY <1>1, <1>2, Noticed DEF TypeOK, podVars, threadVars, CallsOK, Acts, Thread
<1>5. pc[t] \notin Moving \cup Listing /\ "idle" \notin Moving \cup Listing
  BY <1>2 DEF Moving, Listing
<1> QED
  BY <1>2, <1>3, <1>4, <1>5, QuietStep

\* The steps that decide what to do with the pod.
LEMMA DecideStep ==
    ASSUME MoveInv, Observed, NEW t \in Thread,
           \/ LockPod(t) \/ activatePod(t) \/ freeLoopSignal(t)
           \/ SwitchState(t) \/ asyncSwapOutPod(t) \/ evictPod(t)
    PROVE  MoveInv'
<1> DEFINE D == {"lock", "activate", "room", "switch", "swapOut", "evict"}
           L == {"activate", "room", "switch", "read", "relist", "unlock", "evict", "toDisk"}
<1>1. TypeOK /\ CallsOK /\ UNCHANGED load
  BY DEF MoveInv, Observed
<1>2. /\ pc[t] \in D
      /\ UNCHANGED <<podVars, LRU, LRULock, call, cur, todo, fatal>>
      /\ \/ mutex' = mutex \/ mutex' = [mutex EXCEPT ![cur[t]] = t]
         \/ mutex' = [mutex EXCEPT ![cur[t]] = NoThread]
  BY DEF LockPod, activatePod, freeLoopSignal, SwitchState, asyncSwapOutPod, evictPod, At
<1>3. PICK l \in L :
         /\ Goto(t, l)
         /\ pc[t] \in {"swapOut", "evict"} =>
              (l \in {"evict", "toDisk"} \/ state[cur[t]] # "local")
         /\ l = "read" => state[cur[t]] = "disk"
         /\ l = "toDisk" => state[cur[t]] = "local"
  <2>1. CASE LockPod(t)
    BY <2>1 DEF LockPod, At
  <2>2. CASE activatePod(t)
    BY <2>2 DEF activatePod, At
  <2>3. CASE freeLoopSignal(t)
    BY <2>3 DEF freeLoopSignal, At
  <2>4. CASE SwitchState(t)
    BY <2>4 DEF SwitchState, At
  <2>5. CASE asyncSwapOutPod(t)
    BY <2>5 DEF asyncSwapOutPod, At
  <2>6. CASE evictPod(t)
    BY <2>6 DEF evictPod, At
  <2> QED
    BY <2>1, <2>2, <2>3, <2>4, <2>5, <2>6
<1>4. pc[t] # "idle" /\ l \in Label \ {"idle"} /\ pc[t] \notin Moving
  BY <1>2 DEF Label, Moving
<1>5. PICK p \in Page : p = cur[t] /\ Acts(t, l, p) /\ ThreadTypes' /\ CallsOK'
  BY <1>1, <1>2, <1>3, <1>4, GotoFrame
<1>6. TypeOK'
  BY <1>1, <1>2, <1>5, Noticed DEF TypeOK, ThreadTypes, podVars
<1>7. CASE l \in Moving
  <2>1. l \in {"read", "toDisk"}
    BY <1>7 DEF Moving
  <2>2. ASSUME p \notin clashed'
        PROVE  MovedOK(t, p)' /\ (state'[p] # "local" \/ l \in Listing)
    <3>1. InMemory(p) \/ OnDisk(p)
      BY <1>4, <1>5, <1>7, <2>2, Rested
    <3>2. pc'[t] = l /\ UNCHANGED podVars
      BY <1>2, <1>5 DEF Acts
    <3> QED
      BY <1>3, <1>5, <2>1, <3>1, <3>2 DEF MovedOK, InMemory, OnDisk, podVars, Listing
  <2>3. fatal' \in clashed' \cup {0}
    BY <1>2, Noticed DEF MoveInv
  <2> QED
    BY <1>2, <1>5, <1>6, <1>7, <2>2, <2>3, MoverStep DEF podVars
<1>8. CASE l \notin Moving
  <2>1. \/ pc[t] \notin Listing \/ l \in Listing \/ state[p] # "local"
    BY <1>2, <1>3, <1>5 DEF Listing
  <2> QED
    BY <1>2, <1>4, <1>5, <1>6, <1>8, <2>1, QuietStep
<1> QED
  BY <1>7, <1>8

\* The steps of a thread that moves its pod.
LEMMA MoveStep ==
    ASSUME MoveInv, Observed, NEW t \in Thread,
           \/ ReadSwapFile(t) \/ RemoveSwapFile(t) \/ toReadAndWrite(t)
           \/ diskToLocalPinned(t) \/ localPinnedToLocal(t)
           \/ localToDisk(t) \/ WriteSwapFile(t) \/ releaseMemory(t)
    PROVE  MoveInv'
<1>1. TypeOK /\ CallsOK /\ UNCHANGED load /\ fatal \in clashed \cup {0}
  BY DEF MoveInv, Observed
<1>2. pc[t] \in Moving /\ pc[t] # "idle" /\ fatal = 0
  BY DEF ReadSwapFile, RemoveSwapFile, toReadAndWrite, diskToLocalPinned,
         localPinnedToLocal, localToDisk, WriteSwapFile, releaseMemory, At, Moving
<1>3. PICK p \in Page : p = cur[t]
  BY <1>1, <1>2 DEF CallsOK
<1>4. Page' = Page /\ clashed \subseteq clashed'
  BY <1>1, Noticed
<1>5. p \notin clashed' => MovedOK(t, p)
  BY <1>3, <1>4 DEF MoveInv, PodOK, WorkOK
<1>6. CASE ReadSwapFile(t)
  <2>1. pc[t] = "read" /\ UNCHANGED <<state, open, file, swapPath, mutex, LRU, LRULock, call, cur, todo>>
    BY <1>6 DEF ReadSwapFile, At
  <2>2. CASE p \in swapPath /\ file[p] # "none"
    <3>1. /\ mem' = [mem EXCEPT ![p] = file[p]] /\ Goto(t, "remove") /\ fatal' = 0
      BY <1>3, <1>6, <2>2 DEF ReadSwapFile
    <3>2. Acts(t, "remove", p) /\ ThreadTypes' /\ CallsOK'
      BY <1>1, <1>2, <1>3, <2>1, <3>1, GotoFrame DEF Label, Moving
    <3>3. TypeOK'
      BY <1>1, <2>1, <2>2, <3>1, <3>2, Noticed, PageFacts DEF TypeOK, ThreadTypes
    <3>4. mem'[p] = file[p] /\ (\A r \in Page \ {p} : mem'[r] = mem[r]) /\ pc'[t] = "remove"
      BY <1>1, <3>1, <3>2 DEF TypeOK, Acts
    <3>5. p \notin clashed' => MovedOK(t, p)' /\ state'[p] # "local"
      BY <1>5, <2>1, <3>4 DEF MovedOK, OnDisk
    <3>6. "remove" \in Moving
      BY DEF Moving
    <3> QED
      BY <1>2, <1>3, <2>1, <3>1, <3>2, <3>3, <3>4, <3>5, <3>6, MoverStep
  <2>3. CASE ~(p \in swapPath /\ file[p] # "none")
    <3>1. fatal' = p /\ UNCHANGED <<mem, pc>>
      BY <1>3, <1>6, <2>3 DEF ReadSwapFile
    <3>2. Acts(t, "read", p) /\ CallsOK'
      BY <1>1, <1>3, <1>4, <2>1, <3>1 DEF Acts, CallsOK
    <3>3. TypeOK'
      BY <1>1, <2>1, <3>1, Noticed, PageFacts DEF TypeOK
    <3>4. p \in clashed'
      BY <1>5, <2>1, <2>3 DEF MovedOK, OnDisk
    <3> QED
      BY <1>2, <1>3, <2>1, <3>1, <3>2, <3>3, <3>4, MoverStep
  <2> QED
    BY <2>2, <2>3
<1>7. CASE RemoveSwapFile(t)
  <2>1. /\ pc[t] = "remove" /\ Goto(t, "reopen")
        /\ file' = [file EXCEPT ![p] = "none"] /\ swapPath' = swapPath \ {p}
        /\ UNCHANGED <<state, mem, open, mutex, LRU, LRULock, call, cur, todo, fatal>>
    BY <1>3, <1>7 DEF RemoveSwapFile, At
  <2>2. Acts(t, "reopen", p) /\ ThreadTypes' /\ CallsOK'
    BY <1>1, <1>2, <1>3, <2>1, GotoFrame DEF Label, Moving
  <2>3. TypeOK'
    BY <1>1, <2>1, <2>2, Noticed DEF TypeOK, ThreadTypes
  <2>4. /\ \A r \in Page \ {p} : file'[r] = file[r] /\ (r \in swapPath' <=> r \in swapPath)
        /\ pc'[t] = "reopen"
    BY <1>1, <2>1, <2>2 DEF TypeOK, Acts
  <2>5. p \notin clashed' => MovedOK(t, p)' /\ state'[p] # "local"
    BY <1>5, <2>1, <2>4 DEF MovedOK, OnDisk
  <2>6. "reopen" \in Moving /\ fatal' \in clashed' \cup {0}
    BY <1>2, <2>1 DEF Moving
  <2> QED
    BY <1>2, <1>3, <2>1, <2>2, <2>3, <2>4, <2>5, <2>6, MoverStep
<1>8. CASE toReadAndWrite(t)
  <2>1. /\ pc[t] = "reopen" /\ Goto(t, "pin") /\ open' = open \cup {p}
        /\ UNCHANGED <<state, mem, file, swapPath, mutex, LRU, LRULock, call, cur, todo, fatal>>
    BY <1>3, <1>8 DEF toReadAndWrite, At
  <2>2. Acts(t, "pin", p) /\ ThreadTypes' /\ CallsOK'
    BY <1>1, <1>2, <1>3, <2>1, GotoFrame DEF Label, Moving
  <2>3. TypeOK'
    BY <1>1, <1>3, <2>1, <2>2, Noticed DEF TypeOK, ThreadTypes
  <2>4. pc'[t] = "pin"
    BY <2>2 DEF Acts
  <2>5. p \notin clashed' => MovedOK(t, p)' /\ state'[p] # "local"
    BY <1>5, <2>1, <2>4 DEF MovedOK, OnDisk
  <2>6. "pin" \in Moving /\ fatal' \in clashed' \cup {0}
    BY <1>2, <2>1 DEF Moving
  <2> QED
    BY <1>2, <1>3, <2>1, <2>2, <2>3, <2>5, <2>6, MoverStep
<1>9. CASE diskToLocalPinned(t)
  <2>1. /\ pc[t] = "pin" /\ Goto(t, "pinned") /\ state' = [state EXCEPT ![p] = "localPinned"]
        /\ UNCHANGED <<mem, open, file, swapPath, mutex, LRU, LRULock, call, cur, todo, fatal>>
    BY <1>3, <1>9 DEF diskToLocalPinned, At
  <2>2. Acts(t, "pinned", p) /\ ThreadTypes' /\ CallsOK'
    BY <1>1, <1>2, <1>3, <2>1, GotoFrame DEF Label, Moving
  <2>3. TypeOK'
    BY <1>1, <2>1, <2>2, Noticed DEF TypeOK, ThreadTypes
  <2>4. pc'[t] = "pinned" /\ state'[p] = "localPinned" /\ \A r \in Page \ {p} : state'[r] = state[r]
    BY <1>1, <2>1, <2>2 DEF TypeOK, Acts
  <2>5. p \notin clashed' => MovedOK(t, p)'
    BY <1>5, <2>1, <2>4 DEF MovedOK
  <2>6. "pinned" \in Moving /\ fatal' \in clashed' \cup {0}
    BY <1>2, <2>1 DEF Moving
  <2> QED
    BY <1>2, <1>3, <2>1, <2>2, <2>3, <2>4, <2>5, <2>6, MoverStep
<1>10. CASE localPinnedToLocal(t)
  <2> DEFINE s == IF state[p] = "localPinned" THEN "local" ELSE state[p]
  <2>1. /\ pc[t] = "pinned" /\ Goto(t, "relist") /\ state' = [state EXCEPT ![p] = s]
        /\ UNCHANGED <<mem, open, file, swapPath, mutex, LRU, LRULock, call, cur, todo, fatal>>
    BY <1>1, <1>3, <1>10 DEF localPinnedToLocal, At, TypeOK
  <2>2. s \in {"local", "localPinned", "disk"} /\ (state[p] = "localPinned" => s = "local")
    BY <1>1, <1>3 DEF TypeOK
  <2> HIDE DEF s
  <2>3. Acts(t, "relist", p) /\ ThreadTypes' /\ CallsOK'
    BY <1>1, <1>2, <1>3, <2>1, GotoFrame DEF Label, Moving
  <2>4. TypeOK'
    BY <1>1, <2>1, <2>2, <2>3, Noticed DEF TypeOK, ThreadTypes
  <2>5. pc'[t] = "relist" /\ state'[p] = s /\ \A r \in Page \ {p} : state'[r] = state[r]
    BY <1>1, <2>1, <2>3 DEF TypeOK, Acts
  <2>6. p \notin clashed' => MovedOK(t, p)' /\ InMemory(p)'
    BY <1>5, <2>1, <2>2, <2>5 DEF MovedOK, InMemory
  <2>7. "relist" \in Listing /\ fatal' \in clashed' \cup {0}
    BY <1>2, <2>1 DEF Listing
  <2> QED
    BY <1>2, <1>3, <2>1, <2>3, <2>4, <2>5, <2>6, <2>7, MoverStep
<1>11. CASE localToDisk(t)
  <2>1. /\ pc[t] = "toDisk" /\ Goto(t, "write") /\ state' = [state EXCEPT ![p] = "disk"]
        /\ UNCHANGED <<mem, open, file, swapPath, mutex, LRU, LRULock, call, cur, todo, fatal>>
    BY <1>3, <1>11 DEF localToDisk, At
  <2>2. Acts(t, "write", p) /\ ThreadTypes' /\ CallsOK'
    BY <1>1, <1>2, <1>3, <2>1, GotoFrame DEF Label, Moving
  <2>3. TypeOK'
    BY <1>1, <2>1, <2>2, Noticed DEF TypeOK, ThreadTypes
  <2>4. pc'[t] = "write" /\ state'[p] = "disk" /\ \A r \in Page \ {p} : state'[r] = state[r]
    BY <1>1, <2>1, <2>2 DEF TypeOK, Acts
  <2>5. p \notin clashed' => MovedOK(t, p)'
    BY <1>5, <2>1, <2>4 DEF MovedOK, InMemory
  <2>6. "write" \in Moving /\ fatal' \in clashed' \cup {0}
    BY <1>2, <2>1 DEF Moving
  <2> QED
    BY <1>2, <1>3, <2>1, <2>2, <2>3, <2>4, <2>5, <2>6, MoverStep
<1>12. CASE WriteSwapFile(t)
  <2>1. /\ pc[t] = "write" /\ Goto(t, "release") /\ file' = [file EXCEPT ![p] = mem[p]]
        /\ UNCHANGED <<state, mem, open, swapPath, mutex, LRU, LRULock, call, cur, todo, fatal>>
    BY <1>3, <1>12 DEF WriteSwapFile, At
  <2>2. Acts(t, "release", p) /\ ThreadTypes' /\ CallsOK'
    BY <1>1, <1>2, <1>3, <2>1, GotoFrame DEF Label, Moving
  <2>3. TypeOK'
    BY <1>1, <1>3, <2>1, <2>2, Noticed DEF TypeOK, ThreadTypes
  <2>4. pc'[t] = "release" /\ file'[p] = mem[p] /\ \A r \in Page \ {p} : file'[r] = file[r]
    BY <1>1, <2>1, <2>2 DEF TypeOK, Acts
  <2>5. p \notin clashed' => MovedOK(t, p)' /\ state'[p] # "local"
    BY <1>5, <2>1, <2>4 DEF MovedOK
  <2>6. "release" \in Moving /\ fatal' \in clashed' \cup {0}
    BY <1>2, <2>1 DEF Moving
  <2> QED
    BY <1>2, <1>3, <2>1, <2>2, <2>3, <2>4, <2>5, <2>6, MoverStep
<1>13. CASE releaseMemory(t)
  <2>1. /\ pc[t] = "release" /\ Goto(t, "unlock") /\ mem' = [mem EXCEPT ![p] = "zero"]
        /\ open' = open \ {p} /\ swapPath' = swapPath \cup {p}
        /\ UNCHANGED <<state, file, mutex, LRU, LRULock, call, cur, todo, fatal>>
    BY <1>3, <1>13 DEF releaseMemory, At
  <2>2. Acts(t, "unlock", p) /\ ThreadTypes' /\ CallsOK'
    BY <1>1, <1>2, <1>3, <2>1, GotoFrame DEF Label
  <2>3. TypeOK'
    BY <1>1, <1>3, <2>1, <2>2, Noticed DEF TypeOK, ThreadTypes
  <2>4. pc'[t] = "unlock" /\ \A r \in Page \ {p} : mem'[r] = mem[r]
    BY <1>1, <2>1, <2>2 DEF TypeOK, Acts
  <2>5. p \notin clashed' => MovedOK(t, p)' /\ OnDisk(p)' /\ state'[p] # "local"
    BY <1>5, <2>1, <2>4 DEF MovedOK, OnDisk
  <2>6. fatal' \in clashed' \cup {0}
    BY <1>2, <2>1
  <2> QED
    BY <1>2, <1>3, <2>1, <2>2, <2>3, <2>4, <2>5, <2>6, MoverStep
<1> QED
  BY <1>6, <1>7, <1>8, <1>9, <1>10, <1>11, <1>12, <1>13

\* The steps that end the work on a pod.
LEMMA EndStep ==
    ASSUME MoveInv, Observed, NEW t \in Thread, updateLRUList(t) \/ UnlockPod(t)
    PROVE  MoveInv'
<1>1. TypeOK /\ CallsOK /\ UNCHANGED load
  BY DEF MoveInv, Observed
<1>2. /\ pc[t] \in {"relist", "unlock"} /\ UNCHANGED <<podVars, LRULock>>
      /\ mutex' = mutex \/ mutex' = [mutex EXCEPT ![cur[t]] = NoThread]
  BY DEF updateLRUList, UnlockPod, At
<1>3. PICK p \in Page : p = cur[t]
  BY <1>1, <1>2 DEF CallsOK
<1>4. \/ pc[t] = "relist" /\ LRU' = LRU \cup {p}
      \/ pc[t] = "unlock" /\ LRU' = LRU
  BY <1>3 DEF updateLRUList, UnlockPod, At
<1>5. PICK l \in {"idle", "lock", "activate", "unlock"}, q \in 0 .. load.pods :
         Acts(t, l, q) /\ fatal' = fatal /\ ThreadTypes' /\ CallsOK'
  <2>1. CASE PodDone(t)
    <3>1. pc[t] # "idle"
      BY <1>2
    <3> QED
      BY <1>1, <2>1, <3>1, DoneFrame
  <2>2. CASE Goto(t, "unlock") /\ UNCHANGED <<call, cur, todo, fatal>>
    <3>1. "unlock" \in Label \ {"idle"} /\ pc[t] # "idle"
      BY <1>2 DEF Label
    <3>2. Acts(t, "unlock", cur[t]) /\ ThreadTypes' /\ CallsOK'
      BY <1>1, <2>2, <3>1, GotoFrame
    <3> QED
      BY <1>1, <1>3, <2>2, <3>2, PageFacts
  <2> QED
    BY <2>1, <2>2 DEF updateLRUList, UnlockPod
<1>6. TypeOK'
  BY <1>1, <1>2, <1>3, <1>4, <1>5, Noticed DEF TypeOK, ThreadTypes, podVars
<1>7. /\ l \notin Moving \cup Listing /\ pc[t] \notin Moving
      /\ pc[t] \in Listing => p \in LRU'
  BY <1>2, <1>4 DEF Moving, Listing
<1>8. UNCHANGED podVars /\ \A r \in Page \ {p} : r \in LRU' <=> r \in LRU
  BY <1>2, <1>4
<1>9. p \in LRU' \/ ((p \in LRU => p \in LRU') /\ pc[t] \notin Listing)
  BY <1>4, <1>7
<1> QED
  BY <1>3, <1>5, <1>6, <1>7, <1>8, <1>9, QuietStep
-----------------------------------------------------------------------------
\* MoveInv holds at the start, whatever the workload.
LEMMA InitMove == Init => MoveInv
<1> SUFFICES ASSUME Init PROVE MoveInv
  OBVIOUS
<1>1. load.pods \in Nat
  BY RangeAssumption DEF Init
<1>2. TypeOK
  BY <1>1 DEF Init, TypeOK, Label
<1>3. CallsOK /\ Together = {}
  BY DEF Init, CallsOK, Together, Moves, Moving
<1>4. \A p \in Page : PodOK(p)
  BY DEF Init, PodOK, RestOK, WorkOK, ListOK, MovedOK, InMemory
<1> QED
  BY <1>2, <1>3, <1>4 DEF MoveInv, Init

\* Every step keeps MoveInv.
LEMMA NextMove == MoveInv /\ [Next]_vars => MoveInv'
<1> SUFFICES ASSUME MoveInv, [Next]_vars PROVE MoveInv'
  OBVIOUS
<1>1. CASE UNCHANGED vars
  BY <1>1 DEF vars, podVars, threadVars, MoveInv, TypeOK, CallsOK, Together, Moves,
              PodOK, RestOK, WorkOK, ListOK, MovedOK, InMemory, OnDisk, Page
<1>2. CASE Next
  <2>1. load.threads \subseteq Thread /\ Observed
    BY <1>2, RangeAssumption DEF Next, MoveInv, TypeOK
  <2>2. CASE \E t \in App \cap load.threads : activateAddress(t) \/ ForceSwapUnlisted(t)
    BY <2>1, <2>2, CallStep, UnlistedStep
  <2>3. CASE \E t \in Async \cap load.threads :
                \/ remonPromote(t) \/ remonPromoteRange(t) \/ remonDemoteRange(t)
                \/ remonForceSwap(t) \/ ForceSwapBusy(t)
    BY <2>1, <2>3, CallStep, PickStep
  <2>4. CASE \E t \in Evictor \cap load.threads : pickPodToEvict(t)
    BY <2>1, <2>4, PickStep
  <2>5. CASE \E t \in load.threads : freeLoopSignal(t) \/ Work(t)
    BY <2>1, <2>5, DecideStep, MoveStep, EndStep DEF Work
  <2> QED
    BY <1>2, <2>2, <2>3, <2>4, <2>5 DEF Next, Step
<1> QED
  BY <1>1, <1>2

\* In every execution, whichever calls are made by however many threads, a pod that
\* no two threads have been moving at once is as far as the one thread that moves it,
\* or in memory or on disk, and somebody sees to it that it is listed.
THEOREM MoveInvariance == Spec => []MoveInv
<1> QED
  BY InitMove, NextMove, PTL DEF Spec

\* What MoveInv says of the properties.
LEMMA Consequences == MoveInv => ContentKept /\ SwapFileExists /\ PodsSettled
<1> SUFFICES ASSUME MoveInv PROVE ContentKept /\ SwapFileExists /\ PodsSettled
  OBVIOUS
<1>1. ASSUME NEW p \in Page \ clashed
      PROVE  mem[p] = "data" \/ (p \notin open /\ p \in swapPath /\ file[p] = "data")
  <2>1. PodOK(p)
    BY <1>1 DEF MoveInv
  <2>2. CASE \A t \in Thread : ~Moves(t, p)
    BY <2>1, <2>2 DEF PodOK, RestOK, InMemory, OnDisk
  <2>3. CASE \E t \in Thread : Moves(t, p)
    <3>1. PICK t \in Thread : cur[t] = p /\ pc[t] \in Moving
      BY <2>3 DEF Moves
    <3>2. MovedOK(t, p)
      BY <2>1, <3>1 DEF PodOK, WorkOK
    <3> QED
      BY <3>1, <3>2 DEF MovedOK, Moving, InMemory, OnDisk
  <2> QED
    BY <2>2, <2>3
<1>2. ASSUME NEW p \in Page \ clashed, Untouched(p)
      PROVE  \/ state[p] = "local" /\ p \in open /\ p \in LRU
             \/ state[p] = "disk" /\ p \notin open /\ p \in swapPath /\ file[p] = "data"
  <2>1. PodOK(p) /\ \A t \in Thread : cur[t] # p
    BY <1>2 DEF MoveInv, Untouched
  <2>2. InMemory(p) \/ OnDisk(p)
    BY <2>1 DEF PodOK, RestOK, Moves
  <2> QED
    BY <2>1, <2>2 DEF PodOK, ListOK, InMemory, OnDisk
<1>3. SwapFileExists
  BY DEF MoveInv, SwapFileExists
<1> QED
  BY <1>1, <1>2, <1>3 DEF ContentKept, PodsSettled

\* Whichever calls are made, next to faults and evictions and by however many threads:
\* the content of a page is in its memory, or in its swap file with the page closed,
\* unless two threads have been moving the page at once.
THEOREM ContentIsKept == Spec => []ContentKept
<1> QED
  BY MoveInvariance, Consequences, PTL

\* Whichever calls are made: diskToLocalPinned finds the swap file it opens, and does
\* not exit, unless two threads have been moving the page at once.
THEOREM SwapFileIsFound == Spec => []SwapFileExists
<1> QED
  BY MoveInvariance, Consequences, PTL

\* Whichever calls are made: a pod that no thread deals with, and that no two threads
\* have been moving at once, is open and listed, or closed with its content on disk.
THEOREM PodsAreSettled == Spec => []PodsSettled
<1> QED
  BY MoveInvariance, Consequences, PTL
-----------------------------------------------------------------------------
\* The invariant of executions without forced swaps.
LockInv == MoveInv /\ NoForcedSwap /\ LockOK

\* A step of t: it takes or gives up only the mutex of its pod, and sets only the
\* state of its pod.
LEMMA LockStep ==
    ASSUME LockInv, MoveInv', Observed, NEW t \in Thread, NEW l, NEW q, NEW p \in Page,
           Acts(t, l, q), call'[t] \in load.calls \cup {"none"},
           call'[t] = "promoteRange" => l \notin NotRange,
           \/ mutex' = mutex
           \/ mutex[p] = NoThread /\ mutex' = [mutex EXCEPT ![p] = t]
           \/ /\ p \notin clashed => mutex[p] = t
              /\ mutex' = [mutex EXCEPT ![p] = NoThread],
           q \in Page \ clashed' /\ l \in Holding /\ call'[t] # "promoteRange" =>
              mutex'[q] = t /\ (l = "evict" => state'[q] = "local"),
           \A r \in Page : state'[r] # state[r] =>
              cur[t] = r /\ pc[t] \in {"pin", "pinned", "toDisk"}
    PROVE  LockInv'
<1>1. /\ Page' = Page /\ clashed \subseteq clashed' /\ load' = load
      /\ mutex \in [Page -> Thread \cup {NoThread}]
  BY Noticed DEF LockInv, MoveInv, TypeOK, Observed
<1>2. /\ pc'[t] = l /\ cur'[t] = q
      /\ \A u \in Thread \ {t} : pc'[u] = pc[u] /\ cur'[u] = cur[u] /\ call'[u] = call[u]
  BY DEF Acts
<1>3. NoForcedSwap'
  BY <1>1 DEF LockInv, NoForcedSwap
<1>4. ASSUME NEW u \in Thread
      PROVE  /\ call'[u] \in load'.calls \cup {"none"}
             /\ call'[u] = "promoteRange" => pc'[u] \notin NotRange
  <2>1. CASE u = t
    BY <1>1, <1>2, <2>1
  <2>2. CASE u # t
    BY <1>1, <1>2, <2>2 DEF LockInv, LockOK
  <2> QED
    BY <2>1, <2>2
<1>5. ASSUME NEW u \in Thread, cur'[u] \in Page \ clashed', pc'[u] \in Holding,
             call'[u] # "promoteRange"
      PROVE  mutex'[cur'[u]] = u /\ (pc'[u] = "evict" => state'[cur'[u]] = "local")
  <2>1. CASE u = t
    BY <1>2, <1>5, <2>1
  <2>2. CASE u # t
    <3>1. PICK r \in Page \ clashed' : r = cur[u] /\ r = cur'[u]
      BY <1>2, <1>5, <2>2
    <3>2. mutex[r] = u /\ (pc[u] = "evict" => state[r] = "local") /\ r \notin clashed
      BY <1>1, <1>2, <1>5, <2>2, <3>1 DEF LockInv, LockOK
    <3>3. mutex'[r] = u
      BY <1>1, <2>2, <3>2, RangeAssumption
    <3>4. ASSUME pc[u] = "evict" PROVE state'[r] = "local"
      <4>1. CASE state'[r] = state[r]
        BY <3>2, <3>4, <4>1
      <4>2. CASE state'[r] # state[r]
        <5>1. cur[t] = r /\ pc[t] \in {"pin", "pinned", "toDisk"}
          BY <4>2
        <5>2. MovedOK(t, r) /\ pc[t] \in Holding
          BY <5>1, <3>2 DEF LockInv, MoveInv, PodOK, WorkOK, Holding, Moving
        <5>3. call[t] # "promoteRange" => mutex[r] = t
          BY <5>1, <5>2, <3>2 DEF LockInv, LockOK
        <5>4. call[t] = "promoteRange"
          BY <5>3, <3>2, <2>2
        <5>5. pc[t] # "toDisk"
          BY <5>4 DEF LockInv, LockOK, NotRange
        <5> QED
          BY <5>1, <5>2, <5>5, <3>2, <3>4 DEF MovedOK
      <4> QED
        BY <4>1, <4>2
    <3> QED
      BY <1>2, <2>2, <3>1, <3>3, <3>4
  <2> QED
    BY <2>1, <2>2
<1>6. LockOK'
  BY <1>1, <1>4, <1>5 DEF LockOK
<1> QED
  BY <1>3, <1>6 DEF LockInv

\* The calls that begin; there are no forced swaps.
LEMMA CallLock ==
    ASSUME LockInv, MoveInv', Observed, NEW t \in Thread,
           \/ activateAddress(t) \/ remonPromote(t) \/ remonPromoteRange(t)
           \/ remonDemoteRange(t) \/ pickPodToEvict(t) \/ remonForceSwap(t)
           \/ ForceSwapBusy(t) \/ ForceSwapUnlisted(t)
    PROVE  LockInv'
<1>1. TypeOK /\ CallsOK /\ UNCHANGED load
  BY DEF LockInv, MoveInv, Observed
<1>2. PICK c \in Call, range \in SUBSET Page, l \in {"lock", "activate", "swapOut"} :
         /\ range # {} /\ Begin(t, c, range, l) /\ UNCHANGED podVars
         /\ c = "promoteRange" => l = "activate"
         /\ \/ mutex' = mutex /\ (l = "lock" \/ c = "promoteRange")
            \/ \E p \in Page : /\ range = {p} /\ mutex[p] = NoThread
                               /\ mutex' = [mutex EXCEPT ![p] = t] /\ l = "swapOut"
  <2>1. CASE activateAddress(t)
    BY <2>1 DEF activateAddress, Call
  <2>2. CASE remonPromote(t)
    BY <2>2 DEF remonPromote, Call
  <2>3. CASE remonPromoteRange(t)
    <3>1. PICK from \in Page, to \in Page :
             from <= to /\ Begin(t, "promoteRange", from..to, "activate")
      BY <2>3 DEF remonPromoteRange
    <3>2. (from..to) \subseteq Page /\ from \in from..to
      BY <1>1, <3>1, PageFacts DEF Page
    <3> QED
      BY <2>3, <3>1, <3>2 DEF Call, remonPromoteRange
  <2>4. CASE remonDemoteRange(t)
    <3>1. PICK from \in Page, to \in Page, exclude \in 0 .. load.pods :
             /\ from <= to /\ from..to # {exclude}
             /\ Begin(t, "demoteRange", (from..to) \ {exclude}, "lock")
      BY <2>4 DEF remonDemoteRange
    <3>2. (from..to) \subseteq Page /\ from \in from..to
      BY <1>1, <3>1, PageFacts DEF Page
    <3>3. (from..to) \ {exclude} # {}
      BY <3>1, <3>2
    <3> QED
      BY <2>4, <3>1, <3>2, <3>3 DEF Call, remonDemoteRange
  <2>5. CASE pickPodToEvict(t)
    <3>1. LRU \subseteq Page
      BY <1>1 DEF TypeOK
    <3> QED
      BY <2>5, <3>1 DEF pickPodToEvict, Call
  <2>6. CASE remonForceSwap(t) \/ ForceSwapBusy(t) \/ ForceSwapUnlisted(t)
    BY <2>6 DEF remonForceSwap, ForceSwapBusy, ForceSwapUnlisted, Begin, LockInv, NoForcedSwap
  <2> QED
    BY <2>1, <2>2, <2>3, <2>4, <2>5, <2>6
<1>3. l \in Label \ {"idle"}
  BY DEF Label
<1>4. c \in load.calls
  BY <1>1, <1>2, <1>3, BeginFrame
<1>5. PICK q \in range : Acts(t, l, q) /\ call'[t] = c
  BY <1>1, <1>2, <1>3, BeginFrame
<1>6. mutex \in [Page -> Thread \cup {NoThread}] /\ q \in Page
  BY <1>1, <1>2, <1>5 DEF TypeOK
<1>7. /\ c = "promoteRange" => l \notin NotRange
      /\ l # "evict" /\ "lock" \notin Holding
  BY <1>2 DEF NotRange, Holding, Moving
<1>8. /\ mutex' = mutex \/ (mutex[q] = NoThread /\ mutex' = [mutex EXCEPT ![q] = t])
      /\ l \in Holding /\ c # "promoteRange" => mutex'[q] = t
  BY <1>2, <1>5, <1>6, <1>7
<1> QED
  BY <1>2, <1>4, <1>5, <1>6, <1>7, <1>8, LockStep DEF podVars

\* Taking the mutex.
LEMMA LockPodLock ==
    ASSUME LockInv, MoveInv', Observed, NEW t \in Thread, LockPod(t)
    PROVE  LockInv'
<1>1. TypeOK /\ CallsOK /\ UNCHANGED load
  BY DEF LockInv, MoveInv, Observed
<1>2. /\ pc[t] = "lock" /\ mutex[cur[t]] = NoThread
      /\ mutex' = [mutex EXCEPT ![cur[t]] = t]
      /\ UNCHANGED <<podVars, LRU, LRULock, call, cur, todo, fatal>>
  BY DEF LockPod, At
<1>3. PICK l \in {"activate", "relist", "unlock"} : Goto(t, l)
  BY DEF LockPod
<1>4. pc[t] # "idle" /\ l \in Label \ {"idle"} /\ l # "evict"
  BY <1>2 DEF Label
<1>5. PICK p \in Page : p = cur[t] /\ Acts(t, l, p)
  BY <1>1, <1>2, <1>3, <1>4, GotoFrame
<1>6. call[t] # "promoteRange" /\ call[t] \in load.calls \cup {"none"}
  BY <1>2 DEF LockInv, LockOK, NotRange
<1>7. mutex'[p] = t
  BY <1>1, <1>2, <1>5 DEF TypeOK
<1> QED
  BY <1>2, <1>4, <1>5, <1>6, <1>7, LockStep DEF podVars

\* The steps on the pod, with the mutex or for a range.
LEMMA WorkLock ==
    ASSUME LockInv, MoveInv', Observed, NEW t \in Thread,
           \/ activatePod(t) \/ freeLoopSignal(t) \/ SwitchState(t)
           \/ ReadSwapFile(t) \/ RemoveSwapFile(t) \/ toReadAndWrite(t)
           \/ diskToLocalPinned(t) \/ localPinnedToLocal(t)
           \/ asyncSwapOutPod(t) \/ evictPod(t)
           \/ localToDisk(t) \/ WriteSwapFile(t) \/ releaseMemory(t)
    PROVE  LockInv'
<1>1. TypeOK /\ CallsOK /\ UNCHANGED load
  BY DEF LockInv, MoveInv, Observed
<1> DEFINE A == {"activate", "room", "switch", "read", "remove", "reopen", "pin", "pinned"}
           E == {"swapOut", "evict", "toDisk", "write", "release"}
<1>2. /\ pc[t] \in A \cup E /\ UNCHANGED <<call, cur, todo>>
      /\ \/ mutex' = mutex
         \/ /\ mutex' = [mutex EXCEPT ![cur[t]] = NoThread]
            /\ pc[t] = "evict" /\ state[cur[t]] # "local" /\ pc' = [pc EXCEPT ![t] = "unlock"]
  BY DEF activatePod, freeLoopSignal, SwitchState, ReadSwapFile, RemoveSwapFile,
         toReadAndWrite, diskToLocalPinned, localPinnedToLocal, asyncSwapOutPod,
         evictPod, localToDisk, WriteSwapFile, releaseMemory, At, Goto
<1>3. PICK p \in Page : p = cur[t]
  BY <1>1, <1>2 DEF CallsOK
<1>4. PICK l \in A \cup E \cup {"relist", "unlock"} :
         /\ Goto(t, l)
         /\ pc[t] \in A => l \in A \cup {"relist"}
         /\ l = "evict" => state[p] = "local" /\ state' = state
  <2>1. CASE activatePod(t) \/ freeLoopSignal(t) \/ SwitchState(t)
    BY <2>1 DEF activatePod, freeLoopSignal, SwitchState, At
  <2>2. CASE ReadSwapFile(t)
    <3>1. CASE cur[t] \in swapPath /\ file[cur[t]] # "none"
      BY <2>2, <3>1 DEF ReadSwapFile, At
    <3>2. CASE ~(cur[t] \in swapPath /\ file[cur[t]] # "none")
      <4>1. pc' = pc /\ pc[t] = "read"
        BY <2>2, <3>2 DEF ReadSwapFile, At
      <4>2. Goto(t, "read")
        BY <1>1, <4>1 DEF Goto, TypeOK
      <4> QED
        BY <4>1, <4>2
    <3> QED
      BY <3>1, <3>2
  <2>3. CASE RemoveSwapFile(t) \/ toReadAndWrite(t) \/ diskToLocalPinned(t) \/ localPinnedToLocal(t)
    BY <2>3 DEF RemoveSwapFile, toReadAndWrite, diskToLocalPinned, localPinnedToLocal, At
  <2>4. CASE asyncSwapOutPod(t)
    BY <1>3, <2>4 DEF asyncSwapOutPod, At, podVars
  <2>5. CASE evictPod(t)
    BY <2>5 DEF evictPod, At
  <2>6. CASE localToDisk(t) \/ WriteSwapFile(t) \/ releaseMemory(t)
    BY <2>6 DEF localToDisk, WriteSwapFile, releaseMemory, At
  <2> QED
    BY <2>1, <2>2, <2>3, <2>4, <2>5, <2>6
<1>5. \A r \in Page : state'[r] # state[r] => p = r /\ pc[t] \in {"pin", "pinned", "toDisk"}
  BY <1>1, <1>3 DEF TypeOK, podVars, activatePod, freeLoopSignal, SwitchState, ReadSwapFile,
         RemoveSwapFile, toReadAndWrite, diskToLocalPinned, localPinnedToLocal, asyncSwapOutPod,
         evictPod, localToDisk, WriteSwapFile, releaseMemory, At
<1>6. /\ pc[t] # "idle" /\ l \in Label \ {"idle"} /\ pc[t] \in Holding
      /\ pc[t] \in E => pc[t] \in NotRange
      /\ l \in A \cup {"relist"} => l \notin NotRange
  BY <1>2, <1>4 DEF Label, Holding, Moving, NotRange
<1>7. Acts(t, l, p)
  BY <1>1, <1>2, <1>3, <1>4, <1>6, GotoFrame
<1>8. /\ call[t] \in load.calls \cup {"none"}
      /\ call[t] = "promoteRange" => l \notin NotRange
  BY <1>2, <1>4, <1>6 DEF LockInv, LockOK
<1>9. p \notin clashed /\ call[t] # "promoteRange" =>
         mutex[p] = t /\ (pc[t] = "evict" => state[p] = "local")
  BY <1>3, <1>6 DEF LockInv, LockOK
<1>10. pc[t] = "evict" => call[t] # "promoteRange"
  BY <1>6 DEF LockInv, LockOK, NotRange
<1>11. \/ mutex' = mutex
       \/ (p \notin clashed => mutex[p] = t) /\ mutex' = [mutex EXCEPT ![p] = NoThread]
  BY <1>2, <1>3, <1>9, <1>10
<1>12. clashed \subseteq clashed'
  BY <1>1, Noticed
<1>13. p \in Page \ clashed' /\ call[t] # "promoteRange" => mutex'[p] = t
  BY <1>2, <1>3, <1>9, <1>12
<1>14. l = "evict" => state'[p] = "local"
  BY <1>4
<1> QED
  BY <1>2, <1>3, <1>5, <1>7, <1>8, <1>11, <1>13, <1>14, LockStep

\* Giving the mutex up, and the next pod of a range.
LEMMA EndLock ==
    ASSUME LockInv, MoveInv', Observed, NEW t \in Thread, updateLRUList(t) \/ UnlockPod(t)
    PROVE  LockInv'
<1>1. TypeOK /\ CallsOK /\ UNCHANGED load
  BY DEF LockInv, MoveInv, Observed
<1>2. pc[t] \in {"relist", "unlock"} /\ pc[t] # "idle" /\ UNCHANGED <<podVars, LRULock>>
  BY DEF updateLRUList, UnlockPod, At
<1>3. PICK p \in Page : p = cur[t]
  BY <1>1, <1>2 DEF CallsOK
<1>4. /\ pc[t] \in Holding /\ "unlock" \in NotRange /\ "idle" \notin NotRange \cup Holding
      /\ "activate" \notin NotRange /\ "lock" \notin Holding /\ "unlock" \in Label \ {"idle"}
  BY <1>2 DEF Holding, Moving, NotRange, Label
<1>5. call[t] \in load.calls \cup {"none"} /\ (pc[t] = "unlock" => call[t] # "promoteRange")
  BY <1>4 DEF LockInv, LockOK
<1>6. p \notin clashed /\ call[t] # "promoteRange" => mutex[p] = t
  BY <1>3, <1>4 DEF LockInv, LockOK
<1>7. clashed \subseteq clashed'
  BY <1>1, Noticed
<1>8. CASE PodDone(t)
  <2>1. PICK l \in {"idle", "lock", "activate"}, q \in 0 .. load.pods :
              /\ Acts(t, l, q) /\ call'[t] \in {call[t], "none"}
              /\ l # "idle" => (l = "activate" <=> call[t] = "promoteRange")
              /\ l = "idle" => call'[t] = "none"
    BY <1>1, <1>2, <1>8, DoneFrame
  <2>2. /\ call'[t] = "promoteRange" => l \notin NotRange
        /\ l \in Holding /\ call'[t] # "promoteRange" => call'[t] = "none" /\ l = "activate"
    BY <2>1, <1>4
  <2>3. CallsOK'
    BY DEF MoveInv
  <2>4. l \in Holding => call'[t] # "none"
    <3>1. l \in Holding => pc'[t] # "idle"
      BY <1>4, <2>1 DEF Acts
    <3> QED
      BY <2>3, <3>1 DEF CallsOK, Call
  <2>5. \/ mutex' = mutex
        \/ (p \notin clashed => mutex[p] = t) /\ mutex' = [mutex EXCEPT ![p] = NoThread]
    BY <1>3, <1>5, <1>6 DEF updateLRUList, UnlockPod, At
  <2> QED
    BY <1>2, <1>5, <2>1, <2>2, <2>4, <2>5, LockStep DEF podVars
<1>9. CASE ~PodDone(t)
  <2>1. /\ call[t] # "promoteRange" /\ Goto(t, "unlock") /\ UNCHANGED <<call, cur, todo, fatal>>
        /\ mutex' = mutex
    BY <1>9 DEF updateLRUList, UnlockPod
  <2>2. Acts(t, "unlock", p)
    BY <1>1, <1>2, <1>3, <1>4, <2>1, GotoFrame
  <2> QED
    BY <1>2, <1>5, <1>6, <1>7, <2>1, <2>2, LockStep DEF podVars
<1> QED
  BY <1>8, <1>9

\* Without forced swaps, every step keeps LockInv.
LEMMA NextLock == LockInv /\ [Next]_vars => LockInv'
<1> SUFFICES ASSUME LockInv, [Next]_vars PROVE LockInv'
  OBVIOUS
<1>1. MoveInv'
  BY NextMove DEF LockInv
<1>2. CASE UNCHANGED vars
  BY <1>1, <1>2 DEF vars, podVars, threadVars, LockInv, LockOK, NoForcedSwap, Page
<1>3. CASE Next
  <2>1. load.threads \subseteq Thread /\ Observed
    BY <1>3, RangeAssumption DEF Next, LockInv, MoveInv, TypeOK
  <2>2. CASE \E t \in App \cap load.threads : activateAddress(t) \/ ForceSwapUnlisted(t)
    BY <1>1, <2>1, <2>2, CallLock
  <2>3. CASE \E t \in Async \cap load.threads :
                \/ remonPromote(t) \/ remonPromoteRange(t) \/ remonDemoteRange(t)
                \/ remonForceSwap(t) \/ ForceSwapBusy(t)
    BY <1>1, <2>1, <2>3, CallLock
  <2>4. CASE \E t \in Evictor \cap load.threads : pickPodToEvict(t)
    BY <1>1, <2>1, <2>4, CallLock
  <2>5. CASE \E t \in load.threads : freeLoopSignal(t) \/ Work(t)
    BY <1>1, <2>1, <2>5, LockPodLock, WorkLock, EndLock DEF Work
  <2> QED
    BY <1>3, <2>2, <2>3, <2>4, <2>5 DEF Next, Step
<1> QED
  BY <1>2, <1>3

\* At the start no thread holds a mutex.
LEMMA InitLock == Init /\ NoForcedSwap => LockInv
<1> SUFFICES ASSUME Init, NoForcedSwap PROVE LockInv
  OBVIOUS
<1>1. LockOK
  BY DEF Init, LockOK, Holding, Moving, NotRange
<1> QED
  BY <1>1, InitMove DEF LockInv

\* A thread that moves a pod after a step was at work on it before, for the same call.
LEMMA WasAtWork ==
    ASSUME TypeOK, CallsOK, UNCHANGED load, Step, NEW p \in Page
    PROVE  \E t \in Thread :
              /\ \A u \in Thread \ {t} : pc'[u] = pc[u] /\ cur'[u] = cur[u] /\ call'[u] = call[u]
              /\ Moves(t, p)' => cur[t] = p /\ pc[t] \in Holding /\ call'[t] = call[t]
<1>1. load.threads \subseteq Thread /\ App \subseteq Thread
  BY RangeAssumption DEF TypeOK, Thread
<1>2. ASSUME NEW t \in Thread, NEW c \in Call, NEW range \in SUBSET Page,
             NEW l \in {"lock", "activate", "swapOut"}, range # {}, Begin(t, c, range, l)
      PROVE  \E q \in range : Acts(t, l, q) /\ l \notin Moving
  <2>1. l \in Label \ {"idle"} /\ l \notin Moving
    BY DEF Label, Moving
  <2> QED
    BY <1>2, <2>1, BeginFrame
<1>3. CASE \E t \in App \cap load.threads : ForceSwapUnlisted(t)
  <2>1. PICK t \in Thread : pc[t] = "idle" /\ UNCHANGED threadVars
    BY <1>1, <1>3 DEF ForceSwapUnlisted, At
  <2>2. "idle" \notin Moving
    BY DEF Moving
  <2> QED
    BY <2>1, <2>2 DEF Moves, threadVars
<1>4. CASE \/ \E t \in App \cap load.threads : activateAddress(t)
           \/ \E t \in Async \cap load.threads :
                 \/ remonPromote(t) \/ remonPromoteRange(t) \/ remonDemoteRange(t)
                 \/ remonForceSwap(t) \/ ForceSwapBusy(t)
           \/ \E t \in Evictor \cap load.threads : pickPodToEvict(t)
  <2>1. PICK t \in Thread : \/ activateAddress(t) \/ remonPromote(t) \/ remonPromoteRange(t)
                            \/ remonDemoteRange(t) \/ remonForceSwap(t) \/ ForceSwapBusy(t)
                            \/ pickPodToEvict(t)
    BY <1>1, <1>4
  <2>2. \E c \in Call : \E range \in SUBSET Page : \E l \in {"lock", "activate", "swapOut"} :
           range # {} /\ Begin(t, c, range, l)
    <3>1. CASE activateAddress(t)
      BY <3>1 DEF activateAddress, Call
    <3>2. CASE remonPromote(t)
      BY <3>2 DEF remonPromote, Call
    <3>3. CASE remonPromoteRange(t)
      <4>1. PICK from \in Page, to \in Page :
               from <= to /\ Begin(t, "promoteRange", from..to, "activate")
        BY <3>3 DEF remonPromoteRange
      <4>2. (from..to) \subseteq Page /\ from \in from..to
        BY <4>1, PageFacts DEF Page
      <4> QED
        BY <4>1, <4>2 DEF Call
    <3>4. CASE remonDemoteRange(t)
      <4>1. PICK from \in Page, to \in Page, exclude \in 0 .. load.pods :
               /\ from <= to /\ from..to # {exclude}
               /\ Begin(t, "demoteRange", (from..to) \ {exclude}, "lock")
        BY <3>4 DEF remonDemoteRange
      <4>2. (from..to) \subseteq Page /\ from \in from..to
        BY <4>1, PageFacts DEF Page
      <4>3. (from..to) \ {exclude} # {}
        BY <4>1, <4>2
      <4> QED
        BY <4>1, <4>2, <4>3 DEF Call
    <3>5. CASE ForceSwapBusy(t)
      BY <3>5 DEF ForceSwapBusy, Call
    <3>6. CASE remonForceSwap(t) \/ pickPodToEvict(t)
      <4>1. LRU \subseteq Page
        BY DEF TypeOK
      <4> QED
        BY <3>6, <4>1 DEF remonForceSwap, pickPodToEvict, Call
    <3> QED
      BY <2>1, <3>1, <3>2, <3>3, <3>4, <3>5, <3>6
  <2>3. PICK l \in {"lock", "activate", "swapOut"}, q \in Page : Acts(t, l, q) /\ l \notin Moving
    BY <1>2, <2>2
  <2> QED
    BY <2>3 DEF Acts, Moves
<1>5. CASE \E t \in load.threads : freeLoopSignal(t) \/ Work(t)
  <2>1. PICK t \in Thread : freeLoopSignal(t) \/ Work(t)
    BY <1>1, <1>5
  <2>2. CASE updateLRUList(t) \/ UnlockPod(t)
    <3>1. pc[t] # "idle"
      BY <2>2 DEF updateLRUList, UnlockPod, At
    <3>2. CASE PodDone(t)
      <4>1. PICK l \in {"idle", "lock", "activate"}, q \in 0 .. load.pods : Acts(t, l, q)
        BY <3>1, <3>2, DoneFrame
      <4> QED
        BY <4>1 DEF Acts, Moves, Moving
    <3>3. CASE ~PodDone(t)
      <4>1. Goto(t, "unlock") /\ UNCHANGED <<call, cur, todo>>
        BY <2>2, <3>3 DEF updateLRUList, UnlockPod
      <4>2. Acts(t, "unlock", cur[t])
        BY <3>1, <4>1, GotoFrame DEF Label
      <4> QED
        BY <4>2 DEF Acts, Moves, Moving
    <3> QED
      BY <3>2, <3>3
  <2>3. CASE LockPod(t)
    <3>1. PICK l \in {"activate", "relist", "unlock"} : Goto(t, l)
      BY <2>3 DEF LockPod
    <3>2. pc[t] # "idle" /\ UNCHANGED <<call, cur, todo>>
      BY <2>3 DEF LockPod, At
    <3>3. Acts(t, l, cur[t])
      BY <3>1, <3>2, GotoFrame DEF Label
    <3> QED
      BY <3>3 DEF Acts, Moves, Moving
  <2>4. CASE ~(LockPod(t) \/ updateLRUList(t) \/ UnlockPod(t))
    <3>1. /\ pc[t] \in Holding /\ UNCHANGED <<call, cur>>
          /\ \A u \in Thread \ {t} : pc'[u] = pc[u]
      BY <2>1, <2>4 DEF Work, activatePod, freeLoopSignal, SwitchState, ReadSwapFile,
         RemoveSwapFile, toReadAndWrite, diskToLocalPinned, localPinnedToLocal,
         asyncSwapOutPod, evictPod, localToDisk, WriteSwapFile, releaseMemory,
         At, Goto, TypeOK, Holding, Moving
    <3> QED
      BY <3>1 DEF Moves
  <2> QED
    BY <2>2, <2>3, <2>4
<1> QED
  BY <1>3, <1>4, <1>5 DEF Step

\* A pod clashes only with a thread that promotes a range and does not have its mutex.
RangeClash ==
    \A p \in clashed' \ clashed : \E t \in Thread : Moves(t, p)' /\ call'[t] = "promoteRange"

\* Every step keeps to it, without forced swaps.
LEMMA StepClash == LockInv /\ [Next]_vars => [RangeClash]_vars
<1> SUFFICES ASSUME LockInv, Next, NEW p \in clashed' \ clashed
             PROVE  \E t \in Thread : Moves(t, p)' /\ call'[t] = "promoteRange"
  BY DEF RangeClash
<1>1. TypeOK /\ CallsOK /\ Step /\ Observed /\ UNCHANGED load
  BY DEF LockInv, MoveInv, Next, Observed
<1>2. Page' = Page /\ clashed' = clashed \cup Together'
  BY <1>1, Noticed DEF Observed
<1>3. PICK a \in Thread, b \in Thread : a # b /\ Moves(a, p)' /\ Moves(b, p)'
  BY <1>2 DEF Together
<1>4. p \in Page
  BY <1>2 DEF Together
<1>5. PICK t \in Thread :
         /\ \A u \in Thread \ {t} : pc'[u] = pc[u] /\ cur'[u] = cur[u] /\ call'[u] = call[u]
         /\ Moves(t, p)' => cur[t] = p /\ pc[t] \in Holding /\ call'[t] = call[t]
  BY <1>1, <1>4, WasAtWork
<1>6. ASSUME NEW u \in Thread, Moves(u, p)', call'[u] # "promoteRange" PROVE mutex[p] = u
  <2>1. cur[u] = p /\ pc[u] \in Holding /\ call'[u] = call[u]
    <3>1. CASE u = t
      BY <1>5, <1>6, <3>1
    <3>2. CASE u # t
      BY <1>5, <1>6, <3>2 DEF Moves, Holding
    <3> QED
      BY <3>1, <3>2
  <2> QED
    BY <1>4, <1>6, <2>1 DEF LockInv, LockOK
<1> QED
  BY <1>3, <1>6

\* Without forced swaps, whenever two threads come to move one page at once, one of
\* them promotes a range (remonPromoteRangeAsync, which does not take the mutex): the
\* mutex keeps all the other calls, faults and evictions apart.
THEOREM ClashNeedsRange == Spec /\ NoForcedSwap => [][RangeClash]_vars
<1>1. Spec /\ NoForcedSwap => []LockInv
  BY InitLock, NextLock, PTL DEF Spec
<1> QED
  BY <1>1, StepClash, PTL DEF Spec

\* The calls that take the mutex of every pod they deal with.
LockingCalls == {"fault", "evict", "promote", "demoteRange"}

OnlyLockingCalls == load.calls \subseteq LockingCalls

\* No step of the calls that take the mutex makes a pod clash.
LEMMA LockingStep ==
    (LockInv /\ OnlyLockingCalls /\ clashed = {}) /\ [Next]_vars
        => (LockInv /\ OnlyLockingCalls /\ clashed = {})'
<1> SUFFICES ASSUME LockInv, OnlyLockingCalls, clashed = {}, [Next]_vars
             PROVE  LockInv' /\ OnlyLockingCalls' /\ clashed' = {}
  OBVIOUS
<1>1. LockInv' /\ [RangeClash]_vars
  BY NextLock, StepClash
<1>2. load' = load
  BY DEF Next, Observed, vars
<1>3. \A t \in Thread : call'[t] # "promoteRange"
  BY <1>1, <1>2 DEF LockInv, LockOK, OnlyLockingCalls, LockingCalls
<1>4. clashed' = {}
  BY <1>1, <1>3 DEF RangeClash, vars
<1> QED
  BY <1>1, <1>2, <1>4 DEF OnlyLockingCalls

\* With the calls that take the mutex (faults, evictions, promotions of a page and
\* demotions of a range) no two threads ever move one page at once, so that the three
\* theorems above hold of every page.
THEOREM LockingCallsNeverClash == Spec /\ OnlyLockingCalls => [](clashed = {})
<1>1. Init /\ OnlyLockingCalls => LockInv /\ OnlyLockingCalls /\ clashed = {}
  <2>1. OnlyLockingCalls => NoForcedSwap
    BY DEF OnlyLockingCalls, LockingCalls, NoForcedSwap
  <2> QED
    BY <2>1, InitLock DEF Init
<1> QED
  BY <1>1, LockingStep, PTL DEF Spec
=============================================================================

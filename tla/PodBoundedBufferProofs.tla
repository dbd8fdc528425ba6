----------------------- MODULE PodBoundedBufferProofs -----------------------
(***************************************************************************)
(* Proofs about the allocation buffer, for every number of slots, pages    *)
(* and consumers: the types, and that the ring implements PageQueue.       *)
(***************************************************************************)
EXTENDS PodBoundedBuffer, SequenceTheorems, TLAPS

(***************************************************************************)
(* Arithmetic of the ring.                                                 *)
(***************************************************************************)

\* Up to one turn further than the last slot, % wraps around once.
LEMMA WrapOnce ==
    ASSUME NEW x \in 0 .. (2 * N - 1)
    PROVE  x % N = IF x < N THEN x ELSE x - N
<1>1. N \in Nat \ {0}
  BY BufferAssumption
<1>. QED
  BY <1>1, SMT

\* The number of pages in the ring.
count == IF readIndex <= writeIndex THEN writeIndex - readIndex ELSE writeIndex + N - readIndex

\* The slot of the i-th page in the ring.
slotOf(i) == IF readIndex + i - 1 < N THEN readIndex + i - 1 ELSE readIndex + i - 1 - N

\* The next slot.
nextOf(i) == IF i + 1 < N THEN i + 1 ELSE 0

\* The index after i, as the code computes it.
LEMMA NextSlot ==
    ASSUME NEW i \in Slot
    PROVE  (i + 1) % N = nextOf(i) /\ nextOf(i) \in Slot
<1>1. N \in Nat /\ N > 1
  BY BufferAssumption
<1>2. i + 1 \in 0 .. (2 * N - 1)
  BY <1>1 DEF Slot
<1>3. (i + 1) % N = IF i + 1 < N THEN i + 1 ELSE i + 1 - N
  BY <1>1, <1>2, WrapOnce DEF Slot
<1>. QED
  BY <1>1, <1>3 DEF nextOf, Slot

\* The queue in terms without %.
LEMMA QueueIs ==
    ASSUME readIndex \in Slot, writeIndex \in Slot
    PROVE  /\ count \in 0 .. (N - 1)
           /\ \A i \in 1 .. N : slotOf(i) \in Slot
           /\ queue = [i \in 1 .. count |-> buffer[slotOf(i)]]
<1>1. N \in Nat /\ N > 1 /\ readIndex \in 0 .. (N - 1) /\ writeIndex \in 0 .. (N - 1)
  BY BufferAssumption DEF Slot
<1>2. count \in 0 .. (N - 1)
  BY <1>1 DEF count
<1>3. (writeIndex + N - readIndex) % N = count
  <2>1. writeIndex + N - readIndex \in 0 .. (2 * N - 1)
    BY <1>1
  <2>2. (writeIndex + N - readIndex) % N =
            IF writeIndex + N - readIndex < N THEN writeIndex + N - readIndex
            ELSE writeIndex + N - readIndex - N
    BY <1>1, <2>1, WrapOnce
  <2>. QED
    BY <1>1, <2>2 DEF count
<1>4. \A i \in 1 .. N : slotOf(i) \in Slot
  BY <1>1 DEF slotOf, Slot
<1>5. ASSUME NEW i \in 1 .. count
      PROVE  (readIndex + i - 1) % N = slotOf(i)
  <2>1. readIndex + i - 1 \in 0 .. (2 * N - 1)
    BY <1>1, <1>2
  <2>. QED
    BY <1>1, <1>2, <2>1, WrapOnce DEF slotOf
<1>. QED
  BY <1>2, <1>3, <1>4, <1>5 DEF queue

\* Putting fills the slot after the last page, and the ring holds one page more.
LEMMA PutSlots ==
    ASSUME readIndex \in Slot, writeIndex \in Slot, ~boundedBufferIsFull,
           writeIndex' = (writeIndex + 1) % N, UNCHANGED readIndex
    PROVE  /\ count < N - 1 /\ count' = count + 1
           /\ slotOf(count + 1) = writeIndex
           /\ \A i \in 1 .. count : slotOf(i) # writeIndex
           /\ \A i \in 1 .. N : slotOf(i)' = slotOf(i)
           /\ writeIndex' \in Slot /\ ~boundedBufferIsEmpty'
<1>1. N \in Nat /\ N > 1 /\ readIndex \in 0 .. (N - 1) /\ writeIndex \in 0 .. (N - 1)
  BY BufferAssumption DEF Slot
<1>2. (writeIndex + 1) % N = nextOf(writeIndex) /\ nextOf(writeIndex) \in Slot
  BY NextSlot
<1>3. readIndex # nextOf(writeIndex) /\ writeIndex' = nextOf(writeIndex)
  BY <1>2 DEF boundedBufferIsFull
<1>. QED
  BY <1>1, <1>2, <1>3 DEF count, slotOf, nextOf, boundedBufferIsEmpty

\* Getting empties the first slot, and the others move up.
LEMMA GetSlots ==
    ASSUME readIndex \in Slot, writeIndex \in Slot, ~boundedBufferIsEmpty,
           readIndex' = (readIndex + 1) % N, UNCHANGED writeIndex
    PROVE  /\ count > 0 /\ count' = count - 1
           /\ slotOf(1) = readIndex
           /\ \A i \in 1 .. count' : slotOf(i)' = slotOf(i + 1)
           /\ readIndex' \in Slot /\ ~boundedBufferIsFull'
<1>1. N \in Nat /\ N > 1 /\ readIndex \in 0 .. (N - 1) /\ writeIndex \in 0 .. (N - 1)
  BY BufferAssumption DEF Slot
<1>2. (readIndex + 1) % N = nextOf(readIndex) /\ nextOf(readIndex) \in Slot
  BY NextSlot
<1>3. (writeIndex + 1) % N = nextOf(writeIndex)
  BY NextSlot
<1>4. readIndex # writeIndex /\ readIndex' = nextOf(readIndex)
  BY <1>2 DEF boundedBufferIsEmpty
<1>5. count > 0 /\ count' = count - 1 /\ slotOf(1) = readIndex
  BY <1>1, <1>4 DEF count, slotOf, nextOf
<1>6. \A i \in 1 .. count' : slotOf(i)' = slotOf(i + 1)
  BY <1>1, <1>4 DEF count, slotOf, nextOf
<1>7. ~boundedBufferIsFull'
  BY <1>1, <1>3, <1>4 DEF nextOf, boundedBufferIsFull
<1>. QED
  BY <1>2, <1>4, <1>5, <1>6, <1>7

(***************************************************************************)
(* The inductive invariant.                                                *)
(***************************************************************************)

\* One consumer at a time is past the consumers' mutex; a side that has passed
\* its test finds it still true, for only that side can make it false; the slots
\* between the indices hold pages.
BufferInv ==
    /\ TypeOK
    /\ pc[Keeper] # "idle"
    /\ \A c \in Consumer : pc[c] # "idle" => lock = c
    /\ pc[Keeper] = "work" => ~boundedBufferIsFull
    /\ \A c \in Consumer : pc[c] = "work" => ~boundedBufferIsEmpty
    /\ \A i \in 1 .. count : buffer[slotOf(i)] \in Pod

\* What the assumptions say of the constants.
LEMMA ConstantFacts ==
    /\ N \in Nat /\ N > 1 /\ 0 \in Slot
    /\ Thread = Consumer \cup {Keeper} /\ Keeper \notin Consumer
    /\ None \notin Thread /\ None \notin Pod
  BY BufferAssumption DEF Thread, Slot

\* BufferInv holds at the start.
LEMMA InitInv == Init => BufferInv
<1> SUFFICES ASSUME Init
             PROVE  BufferInv
  OBVIOUS
<1> USE ConstantFacts
<1>1. TypeOK
  BY DEF Init, TypeOK
<1>2. 1 .. count = {}
  BY DEF Init, count
<1>. QED
  BY <1>1, <1>2 DEF Init, BufferInv

\* A step that leaves the ring alone.
LEMMA RingKept ==
    ASSUME BufferInv, UNCHANGED ringVars
    PROVE  /\ count' = count /\ \A i : slotOf(i)' = slotOf(i)
           /\ boundedBufferIsFull' <=> boundedBufferIsFull
           /\ boundedBufferIsEmpty' <=> boundedBufferIsEmpty
           /\ \A i \in 1 .. count' : buffer'[slotOf(i)'] \in Pod
  BY DEF BufferInv, ringVars, count, slotOf, boundedBufferIsFull, boundedBufferIsEmpty

\* What the keeper puts into the ring, and a consumer takes out of it.
LEMMA PutEffect ==
    ASSUME BufferInv, NEW p \in Pod, addPodToBuffer(p)
    PROVE  /\ writeIndex' \in Slot /\ ~boundedBufferIsEmpty'
           /\ count < N - 1 /\ count' = count + 1
           /\ buffer' \in [Slot -> Pod \cup {None}]
           /\ \A i \in 1 .. count' :
                 buffer'[slotOf(i)'] = IF i <= count THEN buffer[slotOf(i)] ELSE p
<1> USE ConstantFacts
<1>0. readIndex \in Slot /\ writeIndex \in Slot /\ buffer \in [Slot -> Pod \cup {None}]
  BY DEF BufferInv, TypeOK
<1>1. /\ ~boundedBufferIsFull /\ UNCHANGED readIndex
      /\ writeIndex' = (writeIndex + 1) % N /\ buffer' = [buffer EXCEPT ![writeIndex] = p]
  BY DEF BufferInv, addPodToBuffer
<1>2. /\ count < N - 1 /\ count' = count + 1
      /\ slotOf(count + 1) = writeIndex
      /\ \A i \in 1 .. count : slotOf(i) # writeIndex
      /\ \A i \in 1 .. N : slotOf(i)' = slotOf(i)
      /\ writeIndex' \in Slot /\ ~boundedBufferIsEmpty'
  BY <1>0, <1>1, PutSlots
<1>3. count \in 0 .. (N - 1) /\ \A i \in 1 .. N : slotOf(i) \in Slot
  BY <1>0, QueueIs
<1>4. 1 .. count \subseteq 1 .. N /\ count + 1 \in 1 .. N
  BY <1>3
<1>5. \A i \in 1 .. count : buffer'[slotOf(i)'] = buffer[slotOf(i)]
  BY <1>0, <1>1, <1>2, <1>3, <1>4
<1>6. \A i \in 1 .. N : i = count + 1 => buffer'[slotOf(i)'] = p
  BY <1>0, <1>1, <1>2
<1>7. \A i \in 1 .. count' : buffer'[slotOf(i)'] = IF i <= count THEN buffer[slotOf(i)] ELSE p
  <2> SUFFICES ASSUME NEW i \in 1 .. count'
               PROVE  buffer'[slotOf(i)'] = IF i <= count THEN buffer[slotOf(i)] ELSE p
    OBVIOUS
  <2>1. CASE i <= count
    <3>1. i \in 1 .. count
      BY <1>2, <1>3, <2>1
    <3>. QED
      BY <1>5, <2>1, <3>1
  <2>2. CASE ~(i <= count)
    <3>1. i = count + 1 /\ i \in 1 .. N
      BY <1>2, <1>3, <1>4, <2>2
    <3>. QED
      BY <1>6, <2>2, <3>1
  <2>. QED
    BY <2>1, <2>2
<1>. QED
  BY <1>0, <1>1, <1>2, <1>7

\* getBufferedPodCore takes the first of the pages between the indices.
LEMMA GetEffect ==
    ASSUME BufferInv, NEW c \in Consumer, getBufferedPodCore(c)
    PROVE  /\ readIndex' \in Slot /\ ~boundedBufferIsFull'
           /\ count > 0 /\ count' = count - 1 /\ count \in 1 .. (N - 1)
           /\ \A i \in 1 .. count' : /\ i + 1 \in 1 .. count
                                     /\ buffer'[slotOf(i)'] = buffer[slotOf(i + 1)]
           /\ buffer[slotOf(1)] \in Pod
           /\ given' = given \cup {buffer[slotOf(1)]}
<1> USE ConstantFacts
<1>0. readIndex \in Slot /\ writeIndex \in Slot
  BY DEF BufferInv, TypeOK
<1>1. /\ ~boundedBufferIsEmpty /\ UNCHANGED <<writeIndex, buffer>>
      /\ readIndex' = (readIndex + 1) % N /\ given' = given \cup {buffer[readIndex]}
  BY DEF BufferInv, getBufferedPodCore
<1>2. /\ count > 0 /\ count' = count - 1
      /\ slotOf(1) = readIndex
      /\ \A i \in 1 .. count' : slotOf(i)' = slotOf(i + 1)
      /\ readIndex' \in Slot /\ ~boundedBufferIsFull'
  BY <1>0, <1>1, GetSlots
<1>3. count \in 0 .. (N - 1)
  BY <1>0, QueueIs
<1>4. 1 \in 1 .. count /\ count \in 1 .. (N - 1) /\ \A i \in 1 .. count' : i + 1 \in 1 .. count
  BY <1>2, <1>3
<1>5. buffer[slotOf(1)] \in Pod
  BY <1>4 DEF BufferInv
<1>. QED
  BY <1>1, <1>2, <1>4, <1>5

\* Every step keeps the invariant.
LEMMA InvStep ==
    ASSUME BufferInv, Next
    PROVE  BufferInv'
<1> USE ConstantFacts
<1>0. TypeOK /\ \A t \in Thread : partition(t) \in Slot
  BY DEF BufferInv, TypeOK, partition
<1>1. ASSUME NEW t \in Thread, LockSlot(t)
      PROVE  BufferInv'
  <2>1. TypeOK'
    BY <1>0, <1>1 DEF LockSlot, GoTo, ringVars, pageVars, TypeOK
  <2>. QED
    BY <1>1, <2>1, RingKept DEF LockSlot, GoTo, BufferInv, TypeOK
<1>2. ASSUME NEW t \in Thread, Test(t)
      PROVE  BufferInv'
  <2>1. TypeOK'
    BY <1>0, <1>2 DEF Test, GoTo, ringVars, pageVars, TypeOK
  <2>2. \A u \in Thread : pc'[u] = "work" => \/ pc[u] = "work"
                                             \/ u = t /\ ~Blocked(t)
    BY <1>2 DEF Test, GoTo, BufferInv, TypeOK
  <2>3. \A u \in Thread : pc'[u] = "idle" <=> pc[u] = "idle"
    BY <1>2 DEF Test, GoTo, BufferInv, TypeOK
  <2>4. UNCHANGED <<ringVars, lock>>
    BY <1>2 DEF Test
  <2>5. pc'[Keeper] = "work" => ~boundedBufferIsFull'
    BY <2>2, <2>4, RingKept DEF BufferInv, Blocked
  <2>6. \A c \in Consumer : pc'[c] = "work" => ~boundedBufferIsEmpty'
    BY <2>2, <2>4, RingKept DEF BufferInv, Blocked
  <2>. QED
    BY <2>1, <2>3, <2>4, <2>5, <2>6, RingKept DEF BufferInv
<1>3. ASSUME NEW t \in Thread, Wait(t)
      PROVE  BufferInv'
  <2>1. TypeOK'
    BY <1>0, <1>3 DEF Wait, GoTo, ringVars, pageVars, TypeOK
  <2>. QED
    BY <1>3, <2>1, RingKept DEF Wait, GoTo, BufferInv, TypeOK
<1>4. ASSUME NEW t \in Thread, Wake(t)
      PROVE  BufferInv'
  <2>1. TypeOK'
    BY <1>0, <1>4 DEF Wake, GoTo, ringVars, pageVars, TypeOK
  <2>2. \A u \in Thread : /\ pc'[u] = "work" => pc[u] = "work"
                          /\ pc'[u] = "idle" <=> pc[u] = "idle"
    BY <1>4 DEF Wake, GoTo, BufferInv, TypeOK
  <2>3. UNCHANGED <<ringVars, lock>>
    BY <1>4 DEF Wake
  <2>. QED
    BY <2>1, <2>2, <2>3, RingKept DEF BufferInv
<1>5. ASSUME NEW p \in Pod, addPodToBuffer(p)
      PROVE  BufferInv'
  <2>1. /\ writeIndex' \in Slot /\ ~boundedBufferIsEmpty'
        /\ count < N - 1 /\ count' = count + 1
        /\ buffer' \in [Slot -> Pod \cup {None}]
        /\ \A i \in 1 .. count' :
              buffer'[slotOf(i)'] = IF i <= count THEN buffer[slotOf(i)] ELSE p
    BY <1>5, PutEffect
  <2>2. TypeOK'
    BY <1>0, <1>5, <2>1 DEF addPodToBuffer, GoTo, TypeOK
  <2>3. count \in 0 .. (N - 1)
    BY <1>0, QueueIs DEF TypeOK
  <2>4. \A i \in 1 .. count' : buffer'[slotOf(i)'] \in Pod
    <3> SUFFICES ASSUME NEW i \in 1 .. count'
                 PROVE  buffer'[slotOf(i)'] \in Pod
      OBVIOUS
    <3>1. i <= count => i \in 1 .. count
      BY <2>1, <2>3
    <3>. QED
      BY <2>1, <3>1 DEF BufferInv
  <2>5. pc'[Keeper] \notin {"idle", "work"} /\ \A c \in Consumer : pc'[c] = pc[c]
    BY <1>0, <1>5 DEF addPodToBuffer, GoTo, TypeOK
  <2>6. UNCHANGED lock
    BY <1>5 DEF addPodToBuffer
  <2>. QED
    BY <2>1, <2>2, <2>4, <2>5, <2>6 DEF BufferInv
<1>6. ASSUME NEW p \in Pod, addPodToBufferBusy(p)
      PROVE  BufferInv'
  <2>1. TypeOK'
    BY <1>0, <1>6 DEF addPodToBufferBusy, ringVars, TypeOK
  <2>. QED
    BY <1>6, <2>1, RingKept DEF addPodToBufferBusy, BufferInv
<1>7. ASSUME NEW c \in Consumer, getBufferedPod(c)
      PROVE  BufferInv'
  <2>1. TypeOK'
    BY <1>0, <1>7 DEF getBufferedPod, GoTo, ringVars, pageVars, TypeOK
  <2>2. /\ lock = None /\ lock' = c /\ pc'[c] = "lock"
        /\ \A t \in Thread : t # c => pc'[t] = pc[t]
        /\ UNCHANGED ringVars
    BY <1>0, <1>7 DEF getBufferedPod, GoTo, TypeOK
  <2>. QED
    BY <2>1, <2>2, RingKept DEF BufferInv
<1>8. ASSUME NEW c \in Consumer, getBufferedPodCore(c)
      PROVE  BufferInv'
  <2>1. /\ readIndex' \in Slot /\ ~boundedBufferIsFull'
        /\ \A i \in 1 .. count' : /\ i + 1 \in 1 .. count
                                  /\ buffer'[slotOf(i)'] = buffer[slotOf(i + 1)]
        /\ buffer[slotOf(1)] \in Pod /\ given' = given \cup {buffer[slotOf(1)]}
    BY <1>8, GetEffect
  <2>2. TypeOK'
    BY <1>0, <1>8, <2>1 DEF getBufferedPodCore, GoTo, TypeOK
  <2>3. \A i \in 1 .. count' : buffer'[slotOf(i)'] \in Pod
    BY <2>1 DEF BufferInv
  <2>4. /\ pc'[c] = "idle" /\ \A t \in Thread : t # c => pc'[t] = pc[t]
        /\ pc[c] = "work"
    BY <1>0, <1>8 DEF getBufferedPodCore, GoTo, TypeOK
  <2>5. \A d \in Consumer : d # c => pc[d] = "idle"
    BY <2>4 DEF BufferInv
  <2>. QED
    BY <2>1, <2>2, <2>3, <2>4, <2>5 DEF BufferInv
<1>9. CASE Stop
  <2>1. TypeOK'
    BY <1>0, <1>9 DEF Stop, ringVars, pageVars, TypeOK
  <2>. QED
    BY <1>9, <2>1, RingKept DEF Stop, BufferInv
<1>. QED
  BY <1>1, <1>2, <1>3, <1>4, <1>5, <1>6, <1>7, <1>8, <1>9 DEF Next, KeeperStep, ConsumerStep

(***************************************************************************)
(* The theorems.                                                           *)
(***************************************************************************)

\* The invariant holds in every state of every execution.
THEOREM BufferInvariance == Spec => []BufferInv
<1>1. BufferInv /\ UNCHANGED vars => BufferInv'
  <2> SUFFICES ASSUME BufferInv, UNCHANGED vars
               PROVE  BufferInv'
    OBVIOUS
  <2>1. TypeOK' /\ UNCHANGED <<ringVars, pc, lock>>
    BY DEF BufferInv, TypeOK, vars, ringVars, pageVars
  <2>. QED
    BY <2>1, RingKept DEF BufferInv
<1>. QED
  BY <1>1, InitInv, InvStep, PTL DEF Spec

\* Both indices stay within the ring, and only pages are handed out.
THEOREM TypeCorrect == Spec => []TypeOK
<1>1. BufferInv => TypeOK
  BY DEF BufferInv
<1>. QED
  BY <1>1, BufferInvariance, PTL

\* The pages between the indices, as a sequence.
QueueOK == /\ count \in Nat /\ queue \in Seq(Pod) /\ Len(queue) = count
           /\ \A i \in 1 .. count : queue[i] = buffer[slotOf(i)]

\* They are a sequence of pages.
LEMMA QueueSeq == BufferInv => QueueOK
<1> SUFFICES ASSUME BufferInv
             PROVE  QueueOK
  OBVIOUS
<1>1. count \in Nat /\ queue = [i \in 1 .. count |-> buffer[slotOf(i)]]
  BY QueueIs, ConstantFacts DEF BufferInv, TypeOK
<1>2. \A i \in 1 .. count : buffer[slotOf(i)] \in Pod
  BY DEF BufferInv
<1> DEFINE q == [i \in 1 .. count |-> buffer[slotOf(i)]]
<1>3. q \in [1 .. count -> Pod]
  BY <1>2
<1>4. q \in Seq(Pod)
  BY <1>1, <1>3, SeqDef
<1>5. Len(q) = count
  BY <1>1, <1>3, <1>4, LenProperties
<1>. QED
  BY <1>1, <1>4, <1>5 DEF QueueOK

\* addPodToBuffer puts its page at the end of the queue.
LEMMA PutIsPut ==
    ASSUME BufferInv, BufferInv', NEW p \in Pod, addPodToBuffer(p)
    PROVE  Queue!Put(p)
<1> USE ConstantFacts
<1>1. /\ count < N - 1 /\ count' = count + 1
      /\ \A i \in 1 .. count' :
            buffer'[slotOf(i)'] = IF i <= count THEN buffer[slotOf(i)] ELSE p
  BY PutEffect
<1>2. /\ count \in Nat /\ queue \in Seq(Pod) /\ Len(queue) = count
      /\ \A i \in 1 .. count : queue[i] = buffer[slotOf(i)]
  BY QueueSeq DEF QueueOK
<1>3. /\ queue' \in Seq(Pod) /\ Len(queue') = count'
      /\ \A i \in 1 .. count' : queue'[i] = buffer'[slotOf(i)']
  <2>1. QueueOK'
    BY QueueSeq, PTL
  <2>. QED
    BY <2>1 DEF QueueOK
<1>4. /\ Append(queue, p) \in Seq(Pod) /\ Len(Append(queue, p)) = count + 1
      /\ \A i \in 1 .. count : Append(queue, p)[i] = queue[i]
      /\ Append(queue, p)[count + 1] = p
  BY <1>2, AppendProperties
<1>5. ASSUME NEW i \in 1 .. count'
      PROVE  queue'[i] = Append(queue, p)[i]
  <2>1. CASE i \in 1 .. count
    BY <1>1, <1>2, <1>3, <1>4, <2>1
  <2>2. CASE i = count + 1
    <3>1. ~(i <= count)
      BY <1>2, <2>2
    <3>2. buffer'[slotOf(i)'] = p
      BY <1>1, <3>1
    <3>. QED
      BY <1>3, <1>4, <2>2, <3>2
  <2>. QED
    BY <1>1, <1>2, <2>1, <2>2
<1>6. queue' = Append(queue, p)
  BY <1>1, <1>3, <1>4, <1>5, SeqEqual
<1>. QED
  BY <1>1, <1>2, <1>6 DEF Queue!Put, addPodToBuffer

\* getBufferedPodCore hands out the first page of the queue.
LEMMA GetIsGet ==
    ASSUME BufferInv, BufferInv', NEW c \in Consumer, getBufferedPodCore(c)
    PROVE  Queue!Get
<1> USE ConstantFacts
<1>1. /\ count \in 1 .. (N - 1) /\ count' = count - 1
      /\ \A i \in 1 .. count' : /\ i + 1 \in 1 .. count
                                /\ buffer'[slotOf(i)'] = buffer[slotOf(i + 1)]
      /\ given' = given \cup {buffer[slotOf(1)]}
  BY GetEffect
<1>2. /\ count \in Nat /\ queue \in Seq(Pod) /\ Len(queue) = count
      /\ \A i \in 1 .. count : queue[i] = buffer[slotOf(i)]
  BY QueueSeq DEF QueueOK
<1>3. /\ queue' \in Seq(Pod) /\ Len(queue') = count'
      /\ \A i \in 1 .. count' : queue'[i] = buffer'[slotOf(i)']
  <2>1. QueueOK'
    BY QueueSeq, PTL
  <2>. QED
    BY <2>1 DEF QueueOK
<1>4. queue # <<>>
  BY <1>1, <1>2
<1>5. /\ Tail(queue) \in Seq(Pod) /\ Len(Tail(queue)) = count - 1
      /\ \A i \in 1 .. Len(Tail(queue)) : Tail(queue)[i] = queue[i + 1]
  BY <1>2, <1>4, HeadTailProperties
<1>6. Head(queue) = buffer[slotOf(1)]
  BY <1>1, <1>2, <1>4
<1>7. \A i \in 1 .. count' : queue'[i] = Tail(queue)[i]
  BY <1>1, <1>2, <1>3, <1>5
<1>8. queue' = Tail(queue)
  BY <1>1, <1>3, <1>5, <1>7, SeqEqual
<1>. QED
  BY <1>1, <1>4, <1>6, <1>8 DEF Queue!Get, getBufferedPodCore

\* The ring implements the queue: pages come out once each, in order, and none is
\* overwritten, for any number of slots and consumers.
THEOREM RingImplementsQueue == Spec => ImplementsQueue
<1>1. Init => Queue!Init
  <2> SUFFICES ASSUME Init
               PROVE  Queue!Init
    OBVIOUS
  <2>1. BufferInv
    BY InitInv
  <2>2. queue \in Seq(Pod) /\ Len(queue) = 0
    BY <2>1, QueueSeq, ConstantFacts DEF Init, count, QueueOK
  <2>3. queue = <<>>
    BY <2>2, EmptySeq
  <2>. QED
    BY <2>3 DEF Init, Queue!Init
<1>2. BufferInv /\ BufferInv' /\ [Next]_vars => [Queue!Next]_(Queue!vars)
  <2> SUFFICES ASSUME BufferInv, BufferInv', [Next]_vars
               PROVE  Queue!Next \/ UNCHANGED <<free, queue, given>>
    BY DEF Queue!vars
  <2>1. ASSUME UNCHANGED <<ringVars, pageVars>>
        PROVE  UNCHANGED <<free, queue, given>>
    BY <2>1 DEF ringVars, pageVars, queue
  <2>2. ASSUME NEW t \in Thread, LockSlot(t) \/ Test(t) \/ Wait(t) \/ Wake(t)
        PROVE  UNCHANGED <<free, queue, given>>
    BY <2>1, <2>2 DEF LockSlot, Test, Wait, Wake
  <2>3. ASSUME NEW p \in Pod, addPodToBuffer(p)
        PROVE  Queue!Next
    BY <2>3, PutIsPut DEF Queue!Next
  <2>4. ASSUME NEW p \in Pod, addPodToBufferBusy(p)
        PROVE  Queue!Next
    <3>1. UNCHANGED queue
      BY <2>4 DEF addPodToBufferBusy, ringVars, queue
    <3>2. Queue!Drop(p)
      BY <2>4, <3>1 DEF addPodToBufferBusy, Queue!Drop
    <3>. QED
      BY <3>2 DEF Queue!Next
  <2>5. ASSUME NEW c \in Consumer, getBufferedPodCore(c)
        PROVE  Queue!Next
    BY <2>5, GetIsGet DEF Queue!Next
  <2>6. ASSUME NEW c \in Consumer, getBufferedPod(c)
        PROVE  UNCHANGED <<free, queue, given>>
    BY <2>1, <2>6 DEF getBufferedPod
  <2>7. CASE Stop
    BY <2>1, <2>7 DEF Stop
  <2>8. CASE UNCHANGED vars
    BY <2>1, <2>8 DEF vars
  <2>. QED
    BY <2>2, <2>3, <2>4, <2>5, <2>6, <2>7, <2>8, ConstantFacts
       DEF Next, KeeperStep, ConsumerStep
<1>. QED
  BY <1>1, <1>2, BufferInvariance, PTL DEF Spec, ImplementsQueue, Queue!Spec
=============================================================================

---------------------- MODULE SegregatedPageListProofs ----------------------
(***************************************************************************)
(* Proofs of the properties of SegregatedPageList, for every number of     *)
(* pages, objects and threads.                                             *)
(*                                                                         *)
(* They hold of the executions in which no free finds its buffer about to  *)
(* be full (NoBufferFills).  A full buffer makes free release the page's   *)
(* mutex and go on with the page; with other threads at work nothing is    *)
(* promised there.  BuffersNeverFill shows that a buffer with room for     *)
(* more than the objects of a page never gets there.                       *)
(*                                                                         *)
(* The inductive invariant SplInv says who has which lock (MutexOK,        *)
(* ControlOK), what each page is like given what the holder of its mutex   *)
(* is doing with it (PageOK), and that every object is in one place        *)
(* (AccountOK).  First come the heaps: what an allocation, a release and a *)
(* whole flush do to the set of free objects; then one lemma per action.   *)
(***************************************************************************)
EXTENDS SegregatedPageList, FiniteSetTheorems, WellFoundedInduction, TLAPS

\* The blocks of a heap lie in the page and apart from one another.
Apart(b, c) == End(b) <= c[1] \/ End(c) <= b[1]
HeapOK(h) ==
    /\ \A b \in h : b \in Slot \X (1 .. Slots) /\ End(b) <= Slots
    /\ \A b, c \in h : b # c => Apart(b, c)

\* The objects of the page that are free in heap h.
Cover(h) == {s \in Slot : \E b \in h : b[1] <= s /\ s < End(b)}

\* What a buffer holds, and that it holds nothing twice.
Noted(buffer) == {buffer[i] : i \in DOMAIN buffer}
Distinct(buffer) == \A i, j \in DOMAIN buffer : buffer[i] = buffer[j] => i = j
-----------------------------------------------------------------------------
(***************************************************************************)
(* The heap of a page.                                                     *)
(***************************************************************************)

\* A nonempty set of numbers has a least element.
LEMMA LeastOf ==
    ASSUME NEW S, S \subseteq Nat, S # {}
    PROVE  \E x \in S : \A y \in S : x <= y
<1> DEFINE R == OpToRel(<, Nat)
<1>1. PICK x \in S : \A y \in S : ~(<<y, x>> \in R)
  BY NatLessThanWellFounded, WFMin
<1>2. ASSUME NEW y \in S PROVE x <= y
  <2>1. x \in Nat /\ y \in Nat
    OBVIOUS
  <2>2. ~(y < x)
    BY <1>1, <2>1 DEF OpToRel
  <2> QED
    BY <2>1, <2>2
<1> QED
  BY <1>2

\* A nonempty set of numbers with an upper bound has a greatest element.
LEMMA GreatestOf ==
    ASSUME NEW S, NEW n \in Nat, S \subseteq 0 .. n, S # {}
    PROVE  \E x \in S : \A y \in S : y <= x
<1> DEFINE D == {n - x : x \in S}
<1>1. D \subseteq Nat /\ D # {}
  OBVIOUS
<1>2. PICK d \in D : \A e \in D : d <= e
  <2> HIDE DEF D
  <2> QED
    BY <1>1, LeastOf
<1>3. PICK x \in S : d = n - x
  OBVIOUS
<1>4. ASSUME NEW y \in S PROVE y <= x
  <2>1. n - y \in D
    OBVIOUS
  <2>2. d <= n - y
    BY <1>2, <2>1
  <2> QED
    BY <1>3, <2>2
<1> QED
  BY <1>4

\* The slots of a page, and the whole page as a block.
LEMMA SlotFacts ==
    /\ Slots \in Nat /\ 0 < Slots /\ Slot = 0 .. (Slots - 1)
    /\ HeapOK({Whole}) /\ Cover({Whole}) = Slot /\ Whole = <<0, Slots>>
    /\ MinBlock = 1 /\ needed = 1
<1>1. Slots \in Nat /\ 0 < Slots /\ Slot = 0 .. (Slots - 1) /\ MinBlock = 1
  BY SplAssumption DEF Slot
<1>2. HeapOK({Whole})
  BY <1>1 DEF HeapOK, Whole, End, Apart
<1>3. Cover({Whole}) = Slot
  BY <1>1 DEF Cover, Whole, End
<1> QED
  BY <1>1, <1>2, <1>3 DEF Whole, needed

\* A rank is a number of objects of the page.
LEMMA LongestType ==
    ASSUME NEW h, HeapOK(h)
    PROVE  Longest(h) \in 0 .. Slots
<1> DEFINE L == {b[2] : b \in h}
<1>1. L \subseteq 0 .. Slots
  BY SlotFacts DEF HeapOK
<1>2. CASE h = {}
  BY <1>2, SlotFacts DEF Longest
<1>3. CASE h # {}
  <2>1. \E n \in L : \A m \in L : m <= n
    <3>1. L # {}
      BY <1>3
    <3> HIDE DEF L
    <3> QED
      BY <1>1, <3>1, GreatestOf, SlotFacts
  <2>2. (CHOOSE n \in L : \A m \in L : m <= n) \in L
    BY <2>1
  <2> QED
    BY <1>1, <1>3, <2>2 DEF Longest
<1> QED
  BY <1>2, <1>3

\* An allocation takes the first object of its block off the heap.
LEMMA AllocatedHeap ==
    ASSUME NEW h, HeapOK(h), NEW b \in Fits(h, needed)
    PROVE  /\ HeapOK(Allocated(h, b, needed))
           /\ b[1] \in Cover(h)
           /\ Cover(Allocated(h, b, needed)) = Cover(h) \ {b[1]}
<1> USE SlotFacts
<1>1. b \in h /\ b[1] \in Slot /\ b[2] \in 1 .. Slots /\ End(b) = b[1] + b[2] /\ End(b) <= Slots
  BY DEF Fits, HeapOK, End
<1>2. \A c \in h : /\ c \in Slot \X (1 .. Slots) /\ c[1] \in Slot /\ c[2] \in 1 .. Slots
                   /\ End(c) = c[1] + c[2] /\ End(c) <= Slots
                   /\ c # b => End(b) <= c[1] \/ End(c) <= b[1]
  BY <1>1 DEF HeapOK, End, Apart
<1>3. b[1] \in Cover(h)
  BY <1>1 DEF Cover
<1> DEFINE r == <<b[1] + 1, b[2] - 1>>
<1>4. CASE b[2] = 1
  <2>1. Allocated(h, b, needed) = h \ {b}
    BY <1>4 DEF Allocated
  <2>2. HeapOK(h \ {b})
    BY DEF HeapOK
  <2>3. ASSUME NEW s \in Slot
        PROVE  s \in Cover(h \ {b}) <=> s \in Cover(h) /\ s # b[1]
    BY <1>1, <1>2, <1>4 DEF Cover
  <2> QED
    BY <1>3, <2>1, <2>2, <2>3 DEF Cover
<1>5. CASE b[2] # 1
  <2>1. Allocated(h, b, needed) = (h \ {b}) \cup {r}
    BY <1>1, <1>5 DEF Allocated
  <2>2. /\ r \in Slot \X (1 .. Slots) /\ End(r) = End(b) /\ r[1] = b[1] + 1
        /\ \A c \in h \ {b} : Apart(r, c) /\ Apart(c, r)
    BY <1>1, <1>2, <1>5 DEF End, Apart
  <2>3. HeapOK((h \ {b}) \cup {r})
    <3> HIDE DEF r
    <3> QED
      BY <1>1, <2>2 DEF HeapOK
  <2>4. ASSUME NEW s \in Slot
        PROVE  s \in Cover((h \ {b}) \cup {r}) <=> s \in Cover(h) /\ s # b[1]
    <3> HIDE DEF r
    <3>1. CASE s = b[1]
      BY <1>1, <1>2, <2>2, <3>1 DEF Cover
    <3>2. CASE s # b[1]
      <4>1. b[1] <= s /\ s < End(b) <=> r[1] <= s /\ s < End(r)
        BY <1>1, <2>2, <3>2
      <4> QED
        BY <1>1, <3>2, <4>1 DEF Cover
    <3> QED
      BY <3>1, <3>2
  <2> QED
    BY <1>3, <2>1, <2>3, <2>4 DEF Cover
<1> QED
  BY <1>1, <1>4, <1>5

\* The end of the block that object s and the free blocks after it make.
LEMMA ReleasedEnd ==
    ASSUME NEW h, HeapOK(h), NEW s \in Slot
    PROVE  \E e \in Nat :
              /\ Released(h, <<s, 1>>) = (h \ FollowedBy(h, <<s, 1>>)) \cup {<<s, e - s>>}
              /\ s < e /\ e <= Slots
              /\ \A x \in FollowedBy(h, <<s, 1>>) : End(x) <= e
              /\ \A i \in (s + 1) .. (e - 1) : i \in Cover(h)
<1> USE SlotFacts
<1> DEFINE A == FollowedBy(h, <<s, 1>>)
           E == {End(x) : x \in A \cup {<<s, 1>>}}
           e == CHOOSE d \in E : \A c \in E : c <= d
<1>1. A \subseteq h /\ \A x \in h : x[1] \in Nat /\ x[2] \in Nat /\ End(x) = x[1] + x[2] /\ End(x) <= Slots
  BY DEF FollowedBy, HeapOK, End
<1>2. End(<<s, 1>>) = s + 1
  BY DEF End
<1>3. E \subseteq 0 .. Slots /\ s + 1 \in E
  BY <1>1, <1>2
<1>4. e \in E /\ \A c \in E : c <= e
  <2>1. \E d \in E : \A c \in E : c <= d
    <3> HIDE DEF E
    <3> QED
      BY <1>3, GreatestOf
  <2> HIDE DEF E
  <2> QED
    BY <2>1
<1>5. Released(h, <<s, 1>>) = (h \ A) \cup {<<s, e - s>>}
  BY DEF Released
<1>6. ASSUME NEW i \in (s + 1) .. (e - 1) PROVE i \in Cover(h)
  <2>1. PICK x \in A \cup {<<s, 1>>} : e = End(x)
    <3> HIDE DEF e
    <3> QED
      BY <1>4
  <2>2. x \in A
    <3> HIDE DEF e, A
    <3> QED
      BY <1>2, <2>1
  <2>3. x \in h /\ \A j \in (s + 1) .. (x[1] - 1) : \E y \in h : y[1] <= j /\ j < End(y)
    BY <1>2, <2>2 DEF FollowedBy
  <2>4. i \in Nat /\ i < End(x) /\ s + 1 <= i
    <3> HIDE DEF e
    <3> QED
      BY <1>1, <2>1, <2>3
  <2>5. i \in Slot
    BY <1>1, <2>3, <2>4
  <2>6. \E y \in h : y[1] <= i /\ i < End(y)
    <3>1. CASE x[1] <= i
      BY <2>3, <2>4, <3>1
    <3>2. CASE ~(x[1] <= i)
      <4>1. i \in (s + 1) .. (x[1] - 1)
        BY <1>1, <2>3, <2>4, <3>2
      <4> QED
        BY <2>3, <4>1
    <3> QED
      BY <3>1, <3>2
  <2> QED
    BY <2>5, <2>6 DEF Cover
<1>7. e \in Nat /\ s < e /\ e <= Slots /\ \A x \in A : End(x) <= e
  <2>1. \A x \in A : End(x) \in E
    OBVIOUS
  <2>2. e \in 0 .. Slots /\ s + 1 <= e
    <3> HIDE DEF e, E
    <3> QED
      BY <1>3, <1>4
  <2>3. \A x \in A : End(x) <= e
    <3> HIDE DEF e, E, A
    <3> QED
      BY <1>4, <2>1
  <2> HIDE DEF e, E, A
  <2> QED
    BY <2>2, <2>3
<1> QED
  <2> HIDE DEF e, E
  <2> QED
    BY <1>5, <1>6, <1>7

\* A release adds its object to the free ones and keeps the blocks apart.
LEMMA ReleasedHeap ==
    ASSUME NEW h, HeapOK(h), NEW s \in Slot, s \notin Cover(h)
    PROVE  /\ HeapOK(Released(h, <<s, 1>>))
           /\ Cover(Released(h, <<s, 1>>)) = Cover(h) \cup {s}
<1> USE SlotFacts
<1> DEFINE A == FollowedBy(h, <<s, 1>>)
<1>1. PICK e \in Nat :
         /\ Released(h, <<s, 1>>) = (h \ A) \cup {<<s, e - s>>}
         /\ s < e /\ e <= Slots
         /\ \A x \in A : End(x) <= e
         /\ \A i \in (s + 1) .. (e - 1) : i \in Cover(h)
  BY ReleasedEnd
<1> DEFINE n == <<s, e - s>>
<1>2. n \in Slot \X (1 .. Slots) /\ n[1] = s /\ End(n) = e
  BY <1>1 DEF End
<1>3. \A x \in h : /\ x \in Slot \X (1 .. Slots) /\ x[1] \in Nat /\ x[2] \in Nat /\ 0 < x[2]
                   /\ End(x) = x[1] + x[2] /\ End(x) <= Slots
                   /\ ~(x[1] <= s /\ s < End(x))
  BY DEF HeapOK, End, Cover
<1>4. \A x \in A : x \in h /\ s < x[1]
  BY <1>3 DEF FollowedBy, End
\* A block that begins inside the new one is one of those it absorbs.
<1>5. ASSUME NEW x \in h \ A PROVE Apart(n, x) /\ Apart(x, n)
  <2> SUFFICES ASSUME ~(e <= x[1]), ~(End(x) <= s) PROVE FALSE
    BY <1>2, <1>3 DEF Apart
  <2>1. s + 1 <= x[1] /\ x[1] < e
    BY <1>1, <1>3
  <2>2. ASSUME NEW i \in (s + 1) .. (x[1] - 1)
        PROVE  \E y \in h : y[1] <= i /\ i < End(y)
    <3>1. i \in Cover(h)
      BY <1>1, <1>3, <2>1
    <3> QED
      BY <3>1 DEF Cover
  <2>3. End(<<s, 1>>) = s + 1
    BY DEF End
  <2>4. x \in A
    BY <1>3, <2>1, <2>2, <2>3 DEF FollowedBy
  <2> QED
    BY <2>4
<1>6. HeapOK((h \ A) \cup {n})
  <2> HIDE DEF n, A
  <2> QED
    BY <1>1, <1>2, <1>5 DEF HeapOK
<1>7. ASSUME NEW i \in Slot
      PROVE  i \in Cover((h \ A) \cup {n}) <=> i \in Cover(h) \/ i = s
  <2> HIDE DEF n, A
  <2>1. CASE s <= i /\ i < e
    <3>1. i = s \/ i \in (s + 1) .. (e - 1)
      BY <2>1
    <3> QED
      BY <1>1, <1>2, <2>1, <3>1 DEF Cover
  <2>2. CASE ~(s <= i /\ i < e)
    <3>1. \A x \in A : ~(x[1] <= i /\ i < End(x))
      BY <1>1, <1>3, <1>4, <2>2
    <3>2. ~(n[1] <= i /\ i < End(n)) /\ i # s
      BY <1>1, <1>2, <2>2
    <3> QED
      BY <3>1, <3>2 DEF Cover
  <2> QED
    BY <2>1, <2>2
<1>8. Cover((h \ A) \cup {n}) = Cover(h) \cup {s}
  <2> HIDE DEF n, A
  <2> QED
    BY <1>7 DEF Cover
<1> QED
  BY <1>1, <1>6, <1>8

\* The recursive function of Flushed, up to n.
Stages(h, buffer, n, F) ==
    F = [i \in 0 .. n |-> IF i = 0 THEN h ELSE Released(F[i - 1], <<buffer[i], 1>>)]

\* It exists, however many objects are freed.
LEMMA StagesExist ==
    ASSUME NEW h, NEW buffer, NEW n \in Nat
    PROVE  \E F : Stages(h, buffer, n, F)
<1> DEFINE P(m) == \E F : Stages(h, buffer, m, F)
           B == {m \in Nat : ~P(m)}
<1> SUFFICES ASSUME ~P(n) PROVE FALSE
  OBVIOUS
<1>1. PICK m \in B : \A y \in B : m <= y
  <2>1. B # {} /\ B \subseteq Nat
    OBVIOUS
  <2> HIDE DEF B
  <2> QED
    BY <2>1, LeastOf
<1>2. P(0)
  <2> DEFINE F == [i \in 0 .. 0 |-> h]
  <2>1. F = [i \in 0 .. 0 |-> IF i = 0 THEN h ELSE Released(F[i - 1], <<buffer[i], 1>>)]
    OBVIOUS
  <2> QED
    BY <2>1 DEF Stages
<1>3. m # 0 /\ m - 1 \in Nat
  BY <1>2
<1>4. P(m - 1)
  <2>1. m - 1 \notin B
    BY <1>1, <1>3
  <2> QED
    BY <1>3, <2>1
<1>5. PICK F : F = [i \in 0 .. m - 1 |-> IF i = 0 THEN h ELSE Released(F[i - 1], <<buffer[i], 1>>)]
  BY <1>4 DEF Stages
<1> DEFINE G == [i \in 0 .. m |-> IF i = m THEN Released(F[m - 1], <<buffer[m], 1>>) ELSE F[i]]
<1>6. G = [i \in 0 .. m |-> IF i = 0 THEN h ELSE Released(G[i - 1], <<buffer[i], 1>>)]
  <2>1. ASSUME NEW i \in 0 .. m
        PROVE  G[i] = IF i = 0 THEN h ELSE Released(G[i - 1], <<buffer[i], 1>>)
    <3>1. CASE i = m
      <4>1. G[i - 1] = F[m - 1]
        BY <1>3, <3>1
      <4> QED
        BY <1>3, <3>1, <4>1
    <3>2. CASE i # m /\ i # 0
      <4>1. i \in 0 .. m - 1 /\ i - 1 \in 0 .. m - 1 /\ i - 1 # m
        BY <1>3, <3>2
      <4>2. G[i] = F[i] /\ G[i - 1] = F[i - 1]
        BY <1>3, <3>2, <4>1
      <4>3. F[i] = Released(F[i - 1], <<buffer[i], 1>>)
        BY <1>5, <4>1, <3>2
      <4> QED
        BY <3>2, <4>2, <4>3
    <3>3. CASE i # m /\ i = 0
      BY <1>3, <1>5, <3>3
    <3> QED
      BY <3>1, <3>2, <3>3
  <2> QED
    BY <2>1
<1>7. P(m)
  BY <1>6 DEF Stages
<1> QED
  BY <1>7

\* A flush adds the objects of the buffer to the free ones, given that none is free
\* and none is there twice.
LEMMA FlushedHeap ==
    ASSUME NEW h, HeapOK(h), NEW buffer \in Seq(Slot), Distinct(buffer),
           Noted(buffer) \cap Cover(h) = {}
    PROVE  /\ HeapOK(Flushed(h, buffer))
           /\ Cover(Flushed(h, buffer)) = Cover(h) \cup Noted(buffer)
<1> DEFINE n == Len(buffer)
           F == CHOOSE F : F = [i \in 0 .. Len(buffer) |->
                                  IF i = 0 THEN h ELSE Released(F[i - 1], <<buffer[i], 1>>)]
           First(k) == {buffer[i] : i \in 1 .. k}
           Good(k) == HeapOK(F[k]) /\ Cover(F[k]) = Cover(h) \cup First(k)
           B == {k \in 0 .. n : ~Good(k)}
<1>1. n \in Nat /\ DOMAIN buffer = 1 .. n /\ \A i \in 1 .. n : buffer[i] \in Slot
  OBVIOUS
<1>2. Flushed(h, buffer) = F[n]
  BY DEF Flushed
<1>3. F = [i \in 0 .. n |-> IF i = 0 THEN h ELSE Released(F[i - 1], <<buffer[i], 1>>)]
  <2>1. \E G : Stages(h, buffer, n, G)
    BY <1>1, StagesExist
  <2> QED
    BY <2>1 DEF Stages
<1> HIDE DEF F
<1>4. F[0] = h /\ \A i \in 1 .. n : F[i] = Released(F[i - 1], <<buffer[i], 1>>)
  <2> HIDE DEF n
  <2> QED
    BY <1>1, <1>3
<1>5. First(0) = {} /\ First(n) = Noted(buffer)
  BY <1>1 DEF Noted
<1>6. \A k \in 0 .. n : Good(k)
  <2> SUFFICES ASSUME B # {} PROVE FALSE
    OBVIOUS
  <2>1. PICK m \in B : \A y \in B : m <= y
    <3>1. B \subseteq Nat
      BY <1>1
    <3> HIDE DEF B
    <3> QED
      BY <3>1, LeastOf
  <2>2. m \in 0 .. n /\ ~Good(m)
    OBVIOUS
  <2>3. m # 0
    BY <1>4, <1>5, <2>2
  <2>4. m \in 1 .. n /\ m - 1 \in 0 .. n /\ m - 1 \in Nat
    BY <1>1, <2>2, <2>3
  <2>5. Good(m - 1)
    <3>1. m - 1 \notin B
      BY <2>1, <2>4
    <3> QED
      BY <2>4, <3>1
  <2>6. buffer[m] \in Slot /\ buffer[m] \notin Cover(F[m - 1])
    <3>1. buffer[m] \notin Cover(h)
      BY <1>1, <2>4 DEF Noted
    <3>2. buffer[m] \notin First(m - 1)
      BY <1>1, <2>4 DEF Distinct
    <3> QED
      BY <1>1, <2>4, <2>5, <3>1, <3>2
  <2>7. HeapOK(F[m]) /\ Cover(F[m]) = Cover(F[m - 1]) \cup {buffer[m]}
    <3>1. F[m] = Released(F[m - 1], <<buffer[m], 1>>)
      BY <1>4, <2>4
    <3>2. HeapOK(F[m - 1])
      BY <2>5
    <3> QED
      BY <2>6, <3>1, <3>2, ReleasedHeap
  <2>8. First(m) = First(m - 1) \cup {buffer[m]}
    <3>1. \A i : i \in 1 .. m <=> i \in 1 .. (m - 1) \/ i = m
      BY <2>4
    <3> QED
      BY <3>1
  <2>9. Good(m)
    BY <2>5, <2>7, <2>8
  <2> QED
    BY <2>2, <2>9
<1>7. Good(n)
  <2>1. n \in 0 .. n
    BY <1>1
  <2> QED
    BY <1>6, <2>1
<1> QED
  BY <1>2, <1>5, <1>7

\* A buffer without repetitions is no longer than a page has objects, and shorter
\* when an object is missing.
LEMMA BufferBound ==
    ASSUME NEW buffer \in Seq(Slot), Distinct(buffer)
    PROVE  /\ Len(buffer) <= Slots
           /\ \A s \in Slot \ Noted(buffer) : Len(buffer) < Slots
<1> USE SlotFacts
<1>1. Len(buffer) \in Nat /\ DOMAIN buffer = 1 .. Len(buffer) /\ buffer \in [1 .. Len(buffer) -> Slot]
  OBVIOUS
<1>2. IsFiniteSet(1 .. Len(buffer)) /\ Cardinality(1 .. Len(buffer)) = Len(buffer)
  <2>1. \A n \in Nat : IsFiniteSet(1 .. n) /\ Cardinality(1 .. n) = n
    <3> TAKE n \in Nat
    <3>0. 1 \in Int /\ n \in Int
      OBVIOUS
    <3>1. IsFiniteSet(1 .. n) /\ Cardinality(1 .. n) = IF 1 > n THEN 0 ELSE n - 1 + 1
      BY <3>0, FS_Interval, Zenon
    <3> QED
      BY <3>1
  <2> QED
    BY <1>1, <2>1
<1>3. IsFiniteSet(Slot) /\ Cardinality(Slot) = Slots
  BY FS_Interval
<1>4. ASSUME NEW T, T \subseteq Slot, IsFiniteSet(T), Noted(buffer) \subseteq T
      PROVE  ~(Cardinality(T) < Len(buffer))
  <2> SUFFICES ASSUME Cardinality(T) < Len(buffer) PROVE FALSE
    OBVIOUS
  <2>1. buffer \in [1 .. Len(buffer) -> T]
    BY <1>1, <1>4 DEF Noted
  <2>2. \E x, y \in 1 .. Len(buffer) : x # y /\ buffer[x] = buffer[y]
    BY <1>2, <1>4, <2>1, FS_PigeonHole
  <2> QED
    BY <1>1, <2>2 DEF Distinct
<1>5. ~(Cardinality(Slot) < Len(buffer))
  <2>1. Noted(buffer) \subseteq Slot
    BY <1>1 DEF Noted
  <2> QED
    BY <1>3, <1>4, <2>1
<1>6. ASSUME NEW s \in Slot \ Noted(buffer) PROVE Len(buffer) < Slots
  <2>1. IsFiniteSet(Slot \ {s}) /\ Cardinality(Slot \ {s}) = Slots - 1
    BY <1>3, FS_RemoveElement
  <2>2. Noted(buffer) \subseteq Slot \ {s}
    BY <1>1 DEF Noted
  <2>3. ~(Cardinality(Slot \ {s}) < Len(buffer))
    BY <1>4, <2>1, <2>2
  <2> QED
    BY <1>1, <2>1, <2>3
<1> QED
  BY <1>1, <1>3, <1>5, <1>6
-----------------------------------------------------------------------------
(***************************************************************************)
(* The inductive invariant.                                                *)
(***************************************************************************)

\* Where a thread has the mutex of its page, where it has the list's lock, where
\* only the owner is, and where it has an object in its hands.
Holding == {"free", "addPod", "activate", "unbench", "unlock", "bench", "benched", "kept"}
ListLocked == {"previous", "search", "clear", "list", "flush"}
OwnerLabel == {"previous", "regain", "search", "clear", "list", "relist", "newPage", "addPod"}
Moving == {"relist", "free"}
Label == {"idle"} \cup Holding \cup ListLocked \cup OwnerLabel

\* TypeOK but for the length of the buffers, with the threads' own variables.
VarsOK ==
    /\ load \in Workload
    /\ rankMap \subseteq (0 .. Slots) \X Page
    /\ lastAllocatedPod \in Page \cup {NoPage}
    /\ localFreeBuffer \subseteq Page
    /\ rank \in [Page -> 0 .. Slots]
    /\ state \in [Page -> {"buffered", "init", "local", "localPinned", "swapped"}]
    /\ heap \in [Page -> SUBSET (Slot \X (1 .. Slots))]
    /\ freeBuffer \in [Page -> Seq(Slot)]
    /\ splLock \in Thread \cup {NoThread}
    /\ mutex \in [Page -> Thread \cup {NoThread}]
    /\ LRU \subseteq Page /\ todo \subseteq Page
    /\ count \in 0 .. (Patience + 1)
    /\ objects \subseteq Object /\ lost \subseteq Object
    /\ pc \in [Thread -> Label]
    /\ cur \in [Thread -> (Page \cup {NoPage}) \X Slot]

\* A mutex is held by the thread that is at work on the page.
MutexOK ==
    /\ \A t \in Thread : pc[t] \in Holding => page(t) \in Page /\ mutex[page(t)] = t
    /\ \A p \in Page : mutex[p] # NoThread => pc[mutex[p]] \in Holding /\ page(mutex[p]) = p

\* Where a thread is tells whether it has the list's lock; only the owner
\* allocates; no buffer is flushed for being full.  What the owner knows while it
\* has the list, and until it adds a page: no page was last allocated from, and the
\* pages it looks at have the highest rank.
ControlOK ==
    /\ \A t \in Thread : /\ pc[t] \in ListLocked <=> splLock = t
                         /\ pc[t] \in OwnerLabel => t = Owner
                         /\ pc[t] \in Moving => page(t) \in Page
                         /\ pc[t] # "flush"
    /\ pc[Owner] \in {"clear", "list", "newPage", "addPod"} => lastAllocatedPod = NoPage
    /\ pc[Owner] = "list" => \A p \in todo : <<TopRank(rankMap), p>> \in rankMap
    /\ pc[Owner] = "addPod" => cur[Owner][2] = 0
    /\ ~fatal

\* What the holder of p's mutex is doing.
Holder(p) == IF mutex[p] = NoThread THEN "none" ELSE pc[mutex[p]]
Listed(p) == <<rank[p], p>> \in rankMap

\* What a page is like, given what its holder is doing.  It is listed, once and
\* under its rank, when it was last allocated from or is resident and is not on
\* its way out or in.
PageOK(p) ==
    /\ HeapOK(heap[p])
    /\ state[p] \in {"buffered", "init"} => heap[p] = {Whole} /\ freeBuffer[p] = <<>>
    /\ state[p] = "buffered" => Holder(p) = "none" /\ p \notin LRU
    /\ state[p] = "localPinned" => Holder(p) = "unbench" /\ freeBuffer[p] = <<>>
    /\ Holder(p) = "unbench" => state[p] = "localPinned"
    /\ Holder(p) = "activate" => state[p] = "swapped"
    /\ Holder(p) \in {"bench", "kept", "benched", "addPod"} => state[p] = "local"
    /\ Holder(p) = "kept" => p = lastAllocatedPod /\ pc[Owner] # "search"
    /\ Holder(p) = "addPod" => heap[p] = {Whole} /\ freeBuffer[p] = <<>>
    /\ state[p] = "local" /\ freeBuffer[p] # <<>> => p \in localFreeBuffer
    /\ \A r \in 0 .. Slots : <<r, p>> \in rankMap => r = rank[p]
    /\ Listed(p) <=> \/ p = lastAllocatedPod
                     \/ state[p] = "local" /\ Holder(p) \notin {"benched", "addPod"}
    /\ p = lastAllocatedPod => /\ state[p] \in {"local", "init"}
                               /\ Holder(p) \notin {"benched", "addPod"}
                               /\ pc[Owner] = "search" => state[p] = "local"
    /\ (state[p] = "local" /\ p # lastAllocatedPod /\ Holder(p) \notin {"benched", "addPod"})
           => rank[p] = Longest(heap[p])

\* Some thread has object s of page p in its hands.
Carried(p, s) == \E t \in Thread : pc[t] \in Moving /\ cur[t] = <<p, s>>

\* Exactly one of five.
OneOf(a, b, c, d, e) ==
    /\ a \/ b \/ c \/ d \/ e
    /\ a => ~b /\ ~c /\ ~d /\ ~e
    /\ b => ~c /\ ~d /\ ~e
    /\ c => ~d /\ ~e
    /\ d => ~e

SlotOK(p, s) == OneOf(s \in Cover(heap[p]), <<p, s>> \in objects,
                      s \in Noted(freeBuffer[p]), Carried(p, s), <<p, s>> \in lost)

\* ObjectsAccounted, and nothing is in a buffer or in two hands twice.
AccountOK ==
    /\ \A p \in Page : Distinct(freeBuffer[p])
    /\ \A p \in Page : \A s \in Slot : SlotOK(p, s)
    /\ \A t, u \in Thread :
          pc[t] \in Moving /\ pc[u] \in Moving /\ cur[t] = cur[u] => t = u

PagesOK == \A p \in Page : PageOK(p)

SplInv == VarsOK /\ MutexOK /\ ControlOK /\ PagesOK /\ AccountOK

\* No free finds its buffer about to be full.
NoBufferFills ==
    \A t \in Thread : pc[t] = "free" =>
        Len(freeBuffer[page(t)]) + 1 < load.MAX_FREE_BUFF_SIZE
-----------------------------------------------------------------------------
(***************************************************************************)
(* What a step of thread t on page p leaves alone.                         *)
(***************************************************************************)

\* The kinds of thread, and what is not one.
LEMMA ThreadFacts ==
    /\ NoThread \notin Thread /\ NoPage \notin Page /\ Owner \in Thread
    /\ Other \subseteq Thread /\ Evictor \subseteq Thread
    /\ \A w \in Workload : w.threads \subseteq Thread /\ w.MAX_FREE_BUFF_SIZE \in Nat
    /\ Patience \in Nat /\ Slots \in Nat /\ 0 < Slots /\ Slot = 0 .. (Slots - 1)
  BY SplAssumption DEF Thread, Slot

\* A thread that goes to a label with a page and an object, or with neither.
LEMMA WithTyped ==
    ASSUME VarsOK, NEW t \in Thread, NEW l, l \in Label, NEW p, NEW s,
           (p \in Page /\ s \in Slot) \/ (p = NoPage /\ s = 0),
           pc' = [pc EXCEPT ![t] = l], cur' = [cur EXCEPT ![t] = <<p, s>>]
    PROVE  pc' \in [Thread -> Label] /\ cur' \in [Thread -> (Page \cup {NoPage}) \X Slot]
<1>1. pc \in [Thread -> Label] /\ cur \in [Thread -> (Page \cup {NoPage}) \X Slot]
  BY DEF VarsOK
<1>2. <<p, s>> \in (Page \cup {NoPage}) \X Slot
  BY ThreadFacts
<1> QED
  BY <1>1, <1>2

\* t goes to label l with c.
Goes(t, l, c) ==
    /\ pc'[t] = l /\ cur'[t] = c
    /\ \A u \in Thread \ {t} : pc'[u] = pc[u] /\ cur'[u] = cur[u]

\* Only the holder of page p changes.
OthersHeld(p) == \A q \in Page \ {p} : Holder(q)' = Holder(q)

\* t takes the mutex of page p.
LEMMA Acquires ==
    ASSUME VarsOK, MutexOK, NEW t \in Thread, NEW p \in Page, NEW l \in Holding, NEW c,
           Goes(t, l, c), c[1] = p, pc[t] \notin Holding, Free(p), Lock(p, t)
    PROVE  MutexOK' /\ Holder(p)' = l /\ Holder(p) = "none" /\ OthersHeld(p)
<1> USE ThreadFacts
<1>1. mutex'[p] = t /\ \A q \in Page \ {p} : mutex'[q] = mutex[q]
  BY DEF Lock, VarsOK
<1>2. \A q \in Page : mutex[q] # t
  BY DEF MutexOK
<1>3. \A q \in Page : mutex[q] \in Thread \cup {NoThread}
  BY DEF VarsOK
<1>4. OthersHeld(p)
  BY <1>1, <1>2, <1>3 DEF OthersHeld, Holder, Goes
<1>5. Holder(p)' = l /\ Holder(p) = "none"
  BY <1>1 DEF Holder, Goes, Free
<1>6. MutexOK'
  <2>1. ASSUME NEW u \in Thread, pc'[u] \in Holding
        PROVE  cur'[u][1] \in Page /\ mutex'[cur'[u][1]] = u
    BY <1>1, <2>1 DEF MutexOK, Goes, page, Free
  <2>2. ASSUME NEW q \in Page, mutex'[q] # NoThread
        PROVE  pc'[mutex'[q]] \in Holding /\ cur'[mutex'[q]][1] = q
    BY <1>1, <1>2, <1>3, <2>2 DEF MutexOK, Goes, page
  <2> QED
    BY <2>1, <2>2 DEF MutexOK, page
<1> QED
  BY <1>4, <1>5, <1>6

\* t goes on with its page.
LEMMA GoesOn ==
    ASSUME VarsOK, MutexOK, NEW t \in Thread, NEW l \in Holding, NEW p, p = page(t),
           Goes(t, l, cur[t]), pc[t] \in Holding, UNCHANGED mutex
    PROVE  /\ MutexOK' /\ p \in Page
           /\ Holder(p)' = l /\ Holder(p) = pc[t] /\ OthersHeld(p)
<1> USE ThreadFacts
<1>1. p \in Page /\ mutex[p] = t /\ cur'[t][1] = p
  BY DEF MutexOK, Goes, page
<1>2. \A q \in Page \ {p} : mutex[q] # t
  BY DEF MutexOK
<1>3. \A q \in Page : mutex[q] \in Thread \cup {NoThread}
  BY DEF VarsOK
<1>4. OthersHeld(p)
  BY <1>2, <1>3 DEF OthersHeld, Holder, Goes
<1>5. MutexOK'
  <2>1. ASSUME NEW u \in Thread, pc'[u] \in Holding
        PROVE  cur'[u][1] \in Page /\ mutex'[cur'[u][1]] = u
    BY <1>1, <2>1 DEF MutexOK, Goes, page
  <2>2. ASSUME NEW q \in Page, mutex'[q] # NoThread
        PROVE  pc'[mutex'[q]] \in Holding /\ cur'[mutex'[q]][1] = q
    BY <1>1, <1>2, <1>3, <2>2 DEF MutexOK, Goes, page
  <2> QED
    BY <2>1, <2>2 DEF MutexOK, page
<1> QED
  BY <1>1, <1>4, <1>5 DEF Holder, Goes

\* t releases the mutex of its page.
LEMMA Releases ==
    ASSUME VarsOK, MutexOK, NEW t \in Thread, NEW l, l \notin Holding, NEW c,
           NEW p, p = page(t), Goes(t, l, c), pc[t] \in Holding, Unlock(p)
    PROVE  /\ MutexOK' /\ p \in Page
           /\ Holder(p)' = "none" /\ Holder(p) = pc[t] /\ OthersHeld(p)
<1> USE ThreadFacts
<1>1. p \in Page /\ mutex[p] = t
  BY DEF MutexOK
<1>2. mutex'[p] = NoThread /\ \A q \in Page \ {p} : mutex'[q] = mutex[q] /\ mutex[q] # t
  BY <1>1 DEF MutexOK, Unlock, Lock, VarsOK
<1>3. \A q \in Page : mutex[q] \in Thread \cup {NoThread}
  BY DEF VarsOK
<1>4. OthersHeld(p)
  BY <1>2, <1>3 DEF OthersHeld, Holder, Goes
<1>5. MutexOK'
  <2>1. ASSUME NEW u \in Thread, pc'[u] \in Holding
        PROVE  cur'[u][1] \in Page /\ mutex'[cur'[u][1]] = u
    <3>1. u # t /\ pc[u] \in Holding /\ cur'[u] = cur[u]
      BY <2>1 DEF Goes
    <3>2. page(u) \in Page /\ mutex[page(u)] = u /\ page(u)' = page(u)
      BY <3>1 DEF MutexOK, page
    <3> QED
      BY <1>1, <1>2, <3>1, <3>2 DEF page
  <2>2. ASSUME NEW q \in Page, mutex'[q] # NoThread
        PROVE  pc'[mutex'[q]] \in Holding /\ cur'[mutex'[q]][1] = q
    BY <1>1, <1>2, <1>3, <2>2 DEF MutexOK, Goes, page
  <2> QED
    BY <2>1, <2>2 DEF MutexOK, page
<1> QED
  BY <1>1, <1>2, <1>4, <1>5 DEF Holder

\* t has no mutex and takes none.
LEMMA GoesFree ==
    ASSUME VarsOK, MutexOK, NEW t \in Thread, NEW l, l \notin Holding, NEW c,
           Goes(t, l, c), pc[t] \notin Holding, UNCHANGED mutex
    PROVE  MutexOK' /\ \A q \in Page : Holder(q)' = Holder(q)
<1> USE ThreadFacts
<1>1. \A q \in Page : mutex[q] # t
  BY DEF MutexOK
<1>2. \A q \in Page : mutex[q] \in Thread \cup {NoThread}
  BY DEF VarsOK
<1>3. \A q \in Page : Holder(q)' = Holder(q)
  BY <1>1, <1>2 DEF Holder, Goes
<1>4. MutexOK'
  <2>1. ASSUME NEW u \in Thread, pc'[u] \in Holding
        PROVE  cur'[u][1] \in Page /\ mutex'[cur'[u][1]] = u
    BY <2>1 DEF MutexOK, Goes, page
  <2>2. ASSUME NEW q \in Page, mutex'[q] # NoThread
        PROVE  pc'[mutex'[q]] \in Holding /\ cur'[mutex'[q]][1] = q
    BY <1>1, <1>2, <2>2 DEF MutexOK, Goes, page
  <2> QED
    BY <2>1, <2>2 DEF MutexOK, page
<1> QED
  BY <1>3, <1>4

\* Nothing that matters about page q changes.
Same(q) ==
    /\ state'[q] = state[q] /\ heap'[q] = heap[q] /\ freeBuffer'[q] = freeBuffer[q]
    /\ rank'[q] = rank[q] /\ Holder(q)' = Holder(q)
    /\ q \in LRU' => q \in LRU
    /\ q \in localFreeBuffer => q \in localFreeBuffer'
    /\ \A r \in 0 .. Slots : <<r, q>> \in rankMap' <=> <<r, q>> \in rankMap
    /\ q = lastAllocatedPod' <=> q = lastAllocatedPod
    /\ pc'[Owner] = "search" => pc[Owner] = "search" \/ q # lastAllocatedPod

\* Such a page stays as it should be.
LEMMA SamePage ==
    ASSUME VarsOK, NEW q \in Page, PageOK(q), Same(q)
    PROVE  PageOK(q)'
<1>1. rank[q] \in 0 .. Slots
  BY DEF VarsOK
<1>2. Listed(q)' <=> Listed(q)
  BY <1>1 DEF Same, Listed
<1>3. \A r \in 0 .. Slots : <<r, q>> \in rankMap' => r = rank'[q]
  BY DEF Same, PageOK
<1> QED
  BY <1>2, <1>3 DEF PageOK, Same

\* The objects in hands change with t only.
LEMMA CarriedSame ==
    ASSUME NEW t \in Thread, NEW l, NEW c, Goes(t, l, c),
           (pc[t] \notin Moving /\ l \notin Moving)
    PROVE  \A q, s : Carried(q, s)' <=> Carried(q, s)
<1> TAKE q, s
<1>1. ASSUME Carried(q, s) PROVE Carried(q, s)'
  BY <1>1 DEF Carried, Goes
<1>2. ASSUME Carried(q, s)' PROVE Carried(q, s)
  BY <1>2 DEF Carried, Goes
<1> QED
  BY <1>1, <1>2

\* t lays down what it had in its hands.
LEMMA CarriedDown ==
    ASSUME AccountOK, NEW t \in Thread, NEW l, NEW c, Goes(t, l, c),
           pc[t] \in Moving, l \notin Moving
    PROVE  \A q, s : Carried(q, s)' <=> Carried(q, s) /\ <<q, s>> # cur[t]
<1> TAKE q, s
<1>1. ASSUME Carried(q, s), <<q, s>> # cur[t] PROVE Carried(q, s)'
  BY <1>1 DEF Carried, Goes
<1>2. ASSUME Carried(q, s)' PROVE Carried(q, s) /\ <<q, s>> # cur[t]
  <2>1. PICK u \in Thread : pc'[u] \in Moving /\ cur'[u] = <<q, s>>
    BY <1>2 DEF Carried
  <2>2. u # t /\ pc[u] \in Moving /\ cur[u] = <<q, s>>
    BY <2>1 DEF Goes
  <2>3. <<q, s>> # cur[t]
    BY <2>2 DEF AccountOK
  <2> QED
    BY <2>2, <2>3 DEF Carried
<1> QED
  BY <1>1, <1>2

\* t takes something into its hands.
LEMMA CarriedUp ==
    ASSUME NEW t \in Thread, NEW l \in Moving, NEW c, Goes(t, l, c), pc[t] \notin Moving
    PROVE  \A q, s : Carried(q, s)' <=> Carried(q, s) \/ <<q, s>> = c
<1> TAKE q, s
<1>1. ASSUME Carried(q, s) \/ <<q, s>> = c PROVE Carried(q, s)'
  BY <1>1 DEF Carried, Goes
<1>2. ASSUME Carried(q, s)' PROVE Carried(q, s) \/ <<q, s>> = c
  BY <1>2 DEF Carried, Goes
<1> QED
  BY <1>1, <1>2

\* No two threads get the same thing into their hands.
LEMMA HandsApart ==
    ASSUME AccountOK, NEW t \in Thread, NEW l, NEW c, Goes(t, l, c),
           l \in Moving => \A u \in Thread \ {t} : ~(pc[u] \in Moving /\ cur[u] = c)
    PROVE  \A u, v \in Thread :
              pc'[u] \in Moving /\ pc'[v] \in Moving /\ cur'[u] = cur'[v] => u = v
  BY DEF AccountOK, Goes

\* No object moves when no heap, buffer or hand changes.
LEMMA AccountSame ==
    ASSUME AccountOK, NEW t \in Thread, NEW l, NEW c, Goes(t, l, c),
           pc[t] \notin Moving, l \notin Moving,
           UNCHANGED <<heap, freeBuffer, objects, lost>>
    PROVE  AccountOK'
<1>1. \A q, s : Carried(q, s)' <=> Carried(q, s)
  BY CarriedSame
<1>2. \A u, v \in Thread : pc'[u] \in Moving /\ pc'[v] \in Moving /\ cur'[u] = cur'[v] => u = v
  BY HandsApart
<1>3. ASSUME NEW q \in Page, NEW s \in Slot PROVE SlotOK(q, s)'
  <2>1. SlotOK(q, s)
    BY DEF AccountOK
  <2> QED
    BY <1>1, <2>1 DEF SlotOK, OneOf
<1> QED
  BY <1>2, <1>3 DEF AccountOK

\* A step of the owner that is only about what it does next.
LEMMA OwnerOnly ==
    ASSUME SplInv, NEW l \in Label, Goto(Owner, l),
           pc[Owner] \notin Holding \cup Moving, l \notin Holding \cup Moving \cup {"search"},
           UNCHANGED <<splVars, podVars, mutex, appVars, LRU, cur, fatal>>
    PROVE  /\ MutexOK' /\ PagesOK' /\ AccountOK'
           /\ Goes(Owner, l, cur[Owner]) /\ pc' \in [Thread -> Label]
<1> USE ThreadFacts DEF SplInv
<1>1. Goes(Owner, l, cur[Owner]) /\ pc' \in [Thread -> Label]
  BY DEF Goto, Goes, VarsOK
<1>2. MutexOK' /\ \A q \in Page : Holder(q)' = Holder(q)
  BY <1>1, GoesFree
<1>3. AccountOK'
  BY <1>1, AccountSame DEF podVars, appVars
<1>4. ASSUME NEW q \in Page PROVE PageOK(q)'
  <2>1. Same(q)
    BY <1>1, <1>2 DEF Same, splVars, podVars, Goes
  <2> QED
    BY <2>1, SamePage DEF PagesOK
<1> QED
  BY <1>1, <1>2, <1>3, <1>4 DEF PagesOK

\* allocate: the owner takes the list's lock.
LEMMA allocateStep ==
    ASSUME SplInv, allocate(Owner), UNCHANGED load
    PROVE  SplInv'
<1> USE ThreadFacts
<1>1. MutexOK' /\ PagesOK' /\ AccountOK' /\ Goes(Owner, "previous", cur[Owner]) /\ pc' \in [Thread -> Label]
  BY OwnerOnly DEF allocate, At, Label, ListLocked, Holding, Moving
<1>2. VarsOK'
  BY <1>1 DEF SplInv, VarsOK, allocate, splVars, podVars, appVars
<1>3. ControlOK'
  BY <1>1 DEF SplInv, ControlOK, allocate, At, splVars, Goes, ListLocked, OwnerLabel, Moving, page
<1> QED
  BY <1>1, <1>2, <1>3 DEF SplInv

\* PreviousPodBusy: the owner gives up the list's lock and counts the attempt.
LEMMA PreviousPodBusyStep ==
    ASSUME SplInv, PreviousPodBusy(Owner), UNCHANGED load
    PROVE  SplInv'
<1> USE ThreadFacts
<1>1. MutexOK' /\ PagesOK' /\ AccountOK' /\ Goes(Owner, "regain", cur[Owner]) /\ pc' \in [Thread -> Label]
  BY OwnerOnly DEF PreviousPodBusy, At, Label, ListLocked, OwnerLabel, Holding, Moving
<1>2. VarsOK'
  <2>1. count' \in 0 .. (Patience + 1) /\ splLock' = NoThread
    BY DEF SplInv, VarsOK, PreviousPodBusy
  <2>2. UNCHANGED <<splVars, podVars, mutex, todo, appVars, LRU, cur, fatal>>
    BY DEF PreviousPodBusy
  <2> QED
    BY <1>1, <2>1, <2>2 DEF SplInv, VarsOK, splVars, podVars, appVars
<1>3. ControlOK'
  BY <1>1 DEF SplInv, ControlOK, PreviousPodBusy, At, splVars, Goes, ListLocked, OwnerLabel, Moving, page
<1> QED
  BY <1>1, <1>2, <1>3 DEF SplInv

\* Regain: it takes the lock again.
LEMMA RegainStep ==
    ASSUME SplInv, Regain(Owner), UNCHANGED load
    PROVE  SplInv'
<1> USE ThreadFacts
<1>1. MutexOK' /\ PagesOK' /\ AccountOK' /\ Goes(Owner, "previous", cur[Owner]) /\ pc' \in [Thread -> Label]
  BY OwnerOnly DEF Regain, At, Label, ListLocked, OwnerLabel, Holding, Moving
<1>2. VarsOK'
  BY <1>1 DEF SplInv, VarsOK, Regain, splVars, podVars, appVars, ownerVars
<1>3. ControlOK'
  BY <1>1 DEF SplInv, ControlOK, Regain, At, splVars, Goes, ListLocked, OwnerLabel, Moving, page
<1> QED
  BY <1>1, <1>2, <1>3 DEF SplInv

\* ListExhausted: no page of the highest rank could be used, the lock is given up.
LEMMA ListExhaustedStep ==
    ASSUME SplInv, ListExhausted(Owner), UNCHANGED load
    PROVE  SplInv'
<1> USE ThreadFacts
<1>1. MutexOK' /\ PagesOK' /\ AccountOK' /\ Goes(Owner, "newPage", cur[Owner]) /\ pc' \in [Thread -> Label]
  BY OwnerOnly DEF ListExhausted, GiveUpList, At, Label, ListLocked, OwnerLabel, Holding, Moving
<1>2. VarsOK'
  BY <1>1 DEF SplInv, VarsOK, ListExhausted, GiveUpList, splVars, podVars, appVars
<1>3. ControlOK'
  BY <1>1 DEF SplInv, ControlOK, ListExhausted, GiveUpList, At, splVars, Goes, ListLocked, OwnerLabel, Moving, page
<1> QED
  BY <1>1, <1>2, <1>3 DEF SplInv

\* BufferCleared: after the clearing the pages of the highest rank are looked at.
LEMMA BufferClearedStep ==
    ASSUME SplInv, BufferCleared(Owner), UNCHANGED load
    PROVE  SplInv'
<1> USE ThreadFacts
<1>1. CASE TopRank(rankMap) >= needed
  <2>1. /\ pc[Owner] = "clear" /\ Goto(Owner, "list") /\ todo' = {p \in Page : <<TopRank(rankMap), p>> \in rankMap}
        /\ UNCHANGED <<splVars, podVars, lockVars, count, appVars, LRU, cur, fatal>>
    BY <1>1 DEF BufferCleared, SearchList, At, lockVars
  <2>2. MutexOK' /\ PagesOK' /\ AccountOK' /\ Goes(Owner, "list", cur[Owner]) /\ pc' \in [Thread -> Label]
    BY <2>1, OwnerOnly DEF Label, ListLocked, OwnerLabel, Holding, Moving, lockVars
  <2>3. VarsOK'
    BY <2>1, <2>2 DEF SplInv, VarsOK, splVars, podVars, appVars, lockVars
  <2>4. ControlOK'
    BY <2>1, <2>2 DEF SplInv, ControlOK, splVars, lockVars, Goes, ListLocked, OwnerLabel, Moving, page
  <2> QED
    BY <2>2, <2>3, <2>4 DEF SplInv
<1>2. CASE ~(TopRank(rankMap) >= needed)
  <2>1. /\ pc[Owner] = "clear" /\ Goto(Owner, "newPage") /\ splLock' = NoThread
        /\ UNCHANGED <<splVars, podVars, mutex, todo, count, appVars, LRU, cur, fatal>>
    BY <1>2 DEF BufferCleared, GiveUpList, At
  <2>2. MutexOK' /\ PagesOK' /\ AccountOK' /\ Goes(Owner, "newPage", cur[Owner]) /\ pc' \in [Thread -> Label]
    BY <2>1, OwnerOnly DEF Label, ListLocked, OwnerLabel, Holding, Moving
  <2>3. VarsOK'
    BY <2>1, <2>2 DEF SplInv, VarsOK, splVars, podVars, appVars
  <2>4. ControlOK'
    BY <2>1, <2>2 DEF SplInv, ControlOK, splVars, Goes, ListLocked, OwnerLabel, Moving, page
  <2> QED
    BY <2>2, <2>3, <2>4 DEF SplInv
<1> QED
  BY <1>1, <1>2
-----------------------------------------------------------------------------
(***************************************************************************)
(* Frees, faults and evictions.                                            *)
(***************************************************************************)

\* A step of a thread on a page leaves the owner's knowledge true: the list only
\* changes when its lock is free.
LEMMA PageControl ==
    ASSUME VarsOK, ControlOK, NEW t \in Thread, NEW l, NEW c, Goes(t, l, c),
           pc[t] \notin ListLocked \cup OwnerLabel, l \notin ListLocked \cup OwnerLabel,
           l \in Moving => c[1] \in Page,
           UNCHANGED <<splLock, lastAllocatedPod, todo>>, UNCHANGED fatal \/ ~fatal',
           UNCHANGED rankMap \/ splLock = NoThread
    PROVE  ControlOK'
<1> USE ThreadFacts
<1>1. \A u \in Thread : /\ pc'[u] \in ListLocked <=> splLock' = u
                        /\ pc'[u] \in OwnerLabel => u = Owner
                        /\ pc'[u] \in Moving => cur'[u][1] \in Page
                        /\ pc'[u] # "flush"
  BY DEF ControlOK, Goes, page, ListLocked
<1>2. /\ pc'[Owner] \in {"clear", "list", "newPage", "addPod"} => lastAllocatedPod' = NoPage
      /\ pc'[Owner] = "addPod" => cur'[Owner][2] = 0
      /\ ~fatal'
  BY DEF ControlOK, Goes, ListLocked, OwnerLabel
<1>3. pc'[Owner] = "list" => pc[Owner] = "list" /\ UNCHANGED <<todo, rankMap>>
  BY DEF ControlOK, Goes, ListLocked
<1>4. pc'[Owner] = "list" => \A p \in todo' : <<TopRank(rankMap'), p>> \in rankMap'
  BY <1>3 DEF ControlOK
<1> QED
  BY <1>1, <1>2, <1>4 DEF ControlOK, page

\* A page with an object in use is in use.
LEMMA OccupiedPage ==
    ASSUME SplInv, NEW p \in Page, NEW s \in Slot, <<p, s>> \in objects \/ Carried(p, s)
    PROVE  heap[p] # {Whole} /\ state[p] \in {"local", "localPinned", "swapped"}
<1>1. s \notin Cover(heap[p])
  BY DEF SplInv, AccountOK, SlotOK, OneOf
<1>2. heap[p] # {Whole}
  BY <1>1, SlotFacts
<1> QED
  BY <1>2 DEF SplInv, PagesOK, PageOK, VarsOK

\* UnlockPod: the page's mutex is released.
LEMMA UnlockPodStep ==
    ASSUME SplInv, NEW t \in Thread, UnlockPod(t), UNCHANGED load
    PROVE  SplInv'
<1> USE ThreadFacts
<1>0. PICK p : p = page(t)
  OBVIOUS
<1>1. /\ pc[t] = "unlock" /\ pc' = [pc EXCEPT ![t] = "idle"] /\ cur' = [cur EXCEPT ![t] = <<NoPage, 0>>]
      /\ Unlock(p)
      /\ UNCHANGED <<splVars, podVars, splLock, ownerVars, appVars, LRU, fatal>>
  BY <1>0 DEF UnlockPod, At, Done, Goto
<1>2. Goes(t, "idle", <<NoPage, 0>>)
  BY <1>1 DEF Goes, SplInv, VarsOK
<1>3. MutexOK' /\ p \in Page /\ Holder(p)' = "none" /\ Holder(p) = "unlock" /\ OthersHeld(p)
  BY <1>0, <1>1, <1>2, Releases DEF SplInv, Holding
<1>4. ControlOK'
  BY <1>1, <1>2, PageControl DEF SplInv, ListLocked, OwnerLabel, Moving, splVars, ownerVars
<1>5. AccountOK'
  BY <1>1, <1>2, AccountSame DEF SplInv, Moving, podVars, appVars
<1>6. VarsOK'
  <2>1. mutex' \in [Page -> Thread \cup {NoThread}]
    BY <1>1, <1>3 DEF SplInv, VarsOK, Unlock, Lock
  <2>2. pc' \in [Thread -> Label] /\ cur' \in [Thread -> (Page \cup {NoPage}) \X Slot]
    BY <1>1, WithTyped DEF SplInv, Label
  <2> QED
    BY <1>1, <2>1, <2>2 DEF SplInv, VarsOK, splVars, podVars, appVars, ownerVars
<1>7. ASSUME NEW q \in Page PROVE PageOK(q)'
  <2>1. CASE q = p
    BY <1>1, <1>2, <1>3, <2>1 DEF SplInv, PagesOK, PageOK, Listed, Goes, splVars, podVars
  <2>2. CASE q # p
    <3>1. Same(q)
      BY <1>1, <1>2, <1>3, <2>2 DEF Same, Goes, splVars, podVars, OthersHeld
    <3> QED
      BY <3>1, SamePage DEF SplInv, PagesOK
  <2> QED
    BY <2>1, <2>2
<1> QED
  BY <1>3, <1>4, <1>5, <1>6, <1>7 DEF SplInv, PagesOK

\* trim: an empty page is built anew as it was.
LEMMA trimStep ==
    ASSUME SplInv, NEW p \in Page, trim(p), UNCHANGED load
    PROVE  UNCHANGED vars
<1>1. heap' = heap
  BY DEF trim, isEmpty, SplInv, VarsOK
<1> QED
  BY <1>1 DEF trim, vars, splVars, podVars, lockVars, ownerVars, appVars

\* getFromLRUList: a free loop takes a page that nobody has off the LRU list.
LEMMA getFromLRUListStep ==
    ASSUME SplInv, NEW t \in Thread, getFromLRUList(t), UNCHANGED load
    PROVE  SplInv'
<1> USE ThreadFacts
<1>1. PICK p \in LRU :
        /\ Free(p) /\ LRU' = LRU \ {p} /\ Lock(p, t)
        /\ With(t, p, 0) /\ Goto(t, IF state[p] = "local" THEN "bench" ELSE "unlock")
  BY DEF getFromLRUList
<1> DEFINE l == IF state[p] = "local" THEN "bench" ELSE "unlock"
<1>2. /\ p \in Page /\ l \in Holding /\ l \in Label /\ pc[t] = "idle" /\ 0 \in Slot
      /\ UNCHANGED <<splVars, podVars, splLock, ownerVars, appVars, fatal>>
  BY DEF getFromLRUList, At, SplInv, VarsOK, Holding, Label
<1>3. Goes(t, l, <<p, 0>>)
  BY <1>1, <1>2 DEF Goes, SplInv, VarsOK, With, Goto
<1>4. MutexOK' /\ Holder(p)' = l /\ Holder(p) = "none" /\ OthersHeld(p)
  <2>1. <<p, 0>>[1] = p /\ pc[t] \notin Holding
    BY <1>2 DEF Holding
  <2> HIDE DEF l
  <2> QED
    BY <1>1, <1>2, <1>3, <2>1, Acquires DEF SplInv
<1>5. l \notin ListLocked \cup OwnerLabel \cup Moving
  BY DEF ListLocked, OwnerLabel, Moving
<1>6. VarsOK'
  BY <1>1, <1>2 DEF SplInv, VarsOK, With, Goto, Lock, splVars, podVars, appVars, ownerVars
<1>7. PageOK(p)'
  BY <1>1, <1>2, <1>3, <1>4 DEF SplInv, PagesOK, PageOK, Listed, Goes, splVars, podVars
<1> HIDE DEF l
<1>8. ControlOK'
  BY <1>2, <1>3, <1>5, PageControl DEF SplInv, ListLocked, OwnerLabel, splVars, ownerVars
<1>9. AccountOK'
  BY <1>2, <1>3, <1>5, AccountSame DEF SplInv, Moving, podVars, appVars
<1>10. ASSUME NEW q \in Page, q # p PROVE PageOK(q)'
  <2>1. Same(q)
    BY <1>1, <1>2, <1>3, <1>4, <1>5, <1>10 DEF Same, Goes, splVars, podVars, OthersHeld, OwnerLabel
  <2> QED
    BY <2>1, SamePage DEF SplInv, PagesOK
<1> QED
  BY <1>4, <1>6, <1>7, <1>8, <1>9, <1>10 DEF SplInv, PagesOK

\* activateAddress: only an evicted page is faulted on, a page in the allocation
\* buffer or dropped as empty has no object to touch.
LEMMA activateAddressStep ==
    ASSUME SplInv, NEW t \in Thread, activateAddress(t), UNCHANGED load
    PROVE  SplInv'
<1> USE ThreadFacts
<1>1. PICK o \in objects : /\ state[o[1]] # "local" /\ Free(o[1])
                           /\ Lock(o[1], t) /\ With(t, o[1], 0)
  BY DEF activateAddress
<1> DEFINE p == o[1]
<1>2. p \in Page /\ o[2] \in Slot /\ o = <<p, o[2]>>
  BY DEF SplInv, VarsOK, Object
<1> HIDE DEF p
<1>3. /\ pc[t] = "idle" /\ Goto(t, "activate")
      /\ UNCHANGED <<splVars, podVars, splLock, ownerVars, appVars, LRU, fatal>>
  BY DEF activateAddress, At
<1>4. Goes(t, "activate", <<p, 0>>)
  BY <1>1, <1>3 DEF Goes, SplInv, VarsOK, With, Goto, p
<1>5. MutexOK' /\ Holder(p)' = "activate" /\ Holder(p) = "none" /\ OthersHeld(p)
  <2>1. <<p, 0>>[1] = p /\ pc[t] \notin Holding /\ "activate" \in Holding
    BY <1>3 DEF Holding
  <2> QED
    BY <1>1, <1>2, <1>4, <2>1, Acquires DEF SplInv, p
<1>6. state[p] = "swapped"
  <2>1. state[p] \in {"local", "localPinned", "swapped"}
    BY <1>2, OccupiedPage
  <2> QED
    BY <1>1, <1>2, <1>5, <2>1 DEF SplInv, PagesOK, PageOK, p
<1>7. VarsOK'
  <2>1. mutex' \in [Page -> Thread \cup {NoThread}]
    BY <1>1, <1>2 DEF SplInv, VarsOK, Lock, p
  <2>2. pc' = [pc EXCEPT ![t] = "activate"] /\ cur' = [cur EXCEPT ![t] = <<p, 0>>]
    BY <1>1, <1>3 DEF With, Goto, p
  <2>3. pc' \in [Thread -> Label] /\ cur' \in [Thread -> (Page \cup {NoPage}) \X Slot]
    <3>1. 0 \in Slot /\ "activate" \in Label
      BY DEF Label, Holding
    <3> QED
      BY <1>2, <2>2, <3>1, WithTyped DEF SplInv
  <2> QED
    BY <1>3, <2>1, <2>3 DEF SplInv, VarsOK, splVars, podVars, appVars, ownerVars
<1>8. PageOK(p)'
  BY <1>2, <1>3, <1>4, <1>5, <1>6 DEF SplInv, PagesOK, PageOK, Listed, Goes, splVars, podVars
<1>9. ControlOK'
  BY <1>3, <1>4, PageControl DEF SplInv, ListLocked, OwnerLabel, Moving, splVars, ownerVars
<1>10. AccountOK'
  BY <1>3, <1>4, AccountSame DEF SplInv, Moving, podVars, appVars
<1>11. ASSUME NEW q \in Page, q # p PROVE PageOK(q)'
  <2>1. Same(q)
    BY <1>3, <1>4, <1>5, <1>11 DEF Same, Goes, splVars, podVars, OthersHeld
  <2> QED
    BY <2>1, SamePage DEF SplInv, PagesOK
<1> QED
  BY <1>5, <1>7, <1>8, <1>9, <1>10, <1>11 DEF SplInv, PagesOK

\* remonFree: an object of the application is in the hands of the thread freeing it.
LEMMA remonFreeStep ==
    ASSUME SplInv, NEW t \in Thread, remonFree(t), UNCHANGED load
    PROVE  SplInv'
<1> USE ThreadFacts
<1>1. PICK o \in objects : /\ Free(o[1]) /\ Lock(o[1], t) /\ With(t, o[1], o[2])
                           /\ objects' = objects \ {o}
  BY DEF remonFree
<1>2. PICK p : p = o[1]
  OBVIOUS
<1>3. p \in Page /\ o[2] \in Slot /\ o = <<p, o[2]>>
  BY <1>2 DEF SplInv, VarsOK, Object
<1>4. /\ pc[t] = "idle" /\ Goto(t, "free")
      /\ UNCHANGED <<splVars, podVars, splLock, ownerVars, lost, LRU, fatal>>
  BY DEF remonFree, At
<1>5. Goes(t, "free", o)
  BY <1>1, <1>2, <1>3, <1>4 DEF Goes, SplInv, VarsOK, With, Goto
<1>6. MutexOK' /\ Holder(p)' = "free" /\ Holder(p) = "none" /\ OthersHeld(p)
  <2>1. pc[t] \notin Holding /\ "free" \in Holding
    BY <1>4 DEF Holding
  <2> QED
    BY <1>1, <1>2, <1>3, <1>5, <2>1, Acquires DEF SplInv
<1>7. state[p] \in {"local", "localPinned", "swapped"}
  BY <1>3, OccupiedPage
<1>8. VarsOK'
  BY <1>1, <1>2, <1>3, <1>4 DEF SplInv, VarsOK, With, Goto, Lock, splVars, podVars, ownerVars, Label, Holding
<1>9. PageOK(p)'
  BY <1>3, <1>4, <1>5, <1>6, <1>7 DEF SplInv, PagesOK, PageOK, Listed, Goes, splVars, podVars
<1>10. ControlOK'
  BY <1>2, <1>3, <1>4, <1>5, PageControl DEF SplInv, ListLocked, OwnerLabel, Moving, splVars, ownerVars
<1>11. AccountOK'
  <2>1. pc[t] \notin Moving /\ "free" \in Moving
    BY <1>4 DEF Moving
  <2>2. \A q, s : Carried(q, s)' <=> Carried(q, s) \/ <<q, s>> = o
    BY <1>5, <2>1, CarriedUp
  <2>3. ~Carried(p, o[2])
    BY <1>3 DEF SplInv, AccountOK, SlotOK, OneOf
  <2>4. \A u, v \in Thread : pc'[u] \in Moving /\ pc'[v] \in Moving /\ cur'[u] = cur'[v] => u = v
    <3>1. \A u \in Thread : ~(pc[u] \in Moving /\ cur[u] = o)
      BY <1>3, <2>3 DEF Carried
    <3> QED
      BY <1>5, <3>1, HandsApart DEF SplInv
  <2>5. ASSUME NEW q \in Page, NEW s \in Slot PROVE SlotOK(q, s)'
    <3>1. SlotOK(q, s)
      BY DEF SplInv, AccountOK
    <3>2. heap' = heap /\ freeBuffer' = freeBuffer /\ lost' = lost
      BY <1>4 DEF podVars
    <3> QED
      BY <1>1, <2>2, <3>1, <3>2 DEF SlotOK, OneOf
  <2>6. \A q \in Page : Distinct(freeBuffer'[q])
    BY <1>4 DEF SplInv, AccountOK, podVars
  <2> QED
    BY <2>4, <2>5, <2>6 DEF AccountOK
<1>12. ASSUME NEW q \in Page, q # p PROVE PageOK(q)'
  <2>1. Same(q)
    BY <1>4, <1>5, <1>6, <1>12 DEF Same, Goes, splVars, podVars, OthersHeld
  <2> QED
    BY <2>1, SamePage DEF SplInv, PagesOK
<1> QED
  BY <1>6, <1>8, <1>9, <1>10, <1>11, <1>12 DEF SplInv, PagesOK

\* A buffer with one more object.
LEMMA AppendNoted ==
    ASSUME NEW buffer \in Seq(Slot), NEW s \in Slot, s \notin Noted(buffer), Distinct(buffer)
    PROVE  /\ Append(buffer, s) \in Seq(Slot) /\ Append(buffer, s) # <<>>
           /\ Distinct(Append(buffer, s))
           /\ Noted(Append(buffer, s)) = Noted(buffer) \cup {s}
<1> DEFINE n == Len(buffer)
           a == Append(buffer, s)
<1>1. n \in Nat /\ DOMAIN buffer = 1 .. n
  OBVIOUS
<1>2. /\ a \in Seq(Slot) /\ DOMAIN a = 1 .. (n + 1) /\ a[n + 1] = s
      /\ \A i \in 1 .. n : a[i] = buffer[i]
  OBVIOUS
<1>3. a # <<>>
  <2>1. n + 1 \in DOMAIN a
    BY <1>1, <1>2
  <2> QED
    BY <2>1
<1> HIDE DEF a, n
<1>4. \A i : i \in 1 .. (n + 1) <=> i \in 1 .. n \/ i = n + 1
  BY <1>1
<1>5. Noted(a) = Noted(buffer) \cup {s}
  BY <1>1, <1>2, <1>4 DEF Noted
<1>6. Distinct(a)
  BY <1>1, <1>2, <1>4 DEF Noted, Distinct
<1> QED
  BY <1>2, <1>3, <1>5, <1>6 DEF a

\* free: the object is noted in the buffer, and a resident page in localFreeBuffer.
LEMMA freeStep ==
    ASSUME SplInv, NoBufferFills, NEW t \in Thread, free(t), UNCHANGED load
    PROVE  SplInv'
<1> USE ThreadFacts
<1>1. PICK p : p = page(t)
  OBVIOUS
<1>2. PICK x : x = cur[t][2]
  OBVIOUS
<1>3. /\ pc[t] = "free" /\ splLock = NoThread
      /\ ~(Len(freeBuffer[p]) + 1 >= load.MAX_FREE_BUFF_SIZE)
  <2>1. pc[t] = "free" /\ splLock = NoThread
    BY DEF free, At
  <2>2. p \in Page
    BY <1>1, <2>1 DEF SplInv, MutexOK, Holding
  <2>3. Len(freeBuffer[p]) \in Nat /\ load.MAX_FREE_BUFF_SIZE \in Nat
    BY <2>2 DEF SplInv, VarsOK
  <2>4. Len(freeBuffer[p]) + 1 < load.MAX_FREE_BUFF_SIZE
    BY <1>1, <2>1 DEF NoBufferFills
  <2> QED
    BY <2>1, <2>3, <2>4
<1>4. /\ freeBuffer' = [freeBuffer EXCEPT ![p] = Append(@, x)]
      /\ Unlock(p)
      /\ localFreeBuffer' = IF state[p] = "swapped" THEN localFreeBuffer ELSE localFreeBuffer \cup {p}
      /\ splLock' = NoThread
      /\ pc' = [pc EXCEPT ![t] = "idle"] /\ cur' = [cur EXCEPT ![t] = <<NoPage, 0>>]
      /\ UNCHANGED <<rankMap, lastAllocatedPod, rank, state, heap, ownerVars, appVars, LRU, fatal>>
  BY <1>1, <1>2, <1>3 DEF free, Done, Goto
<1>5. Goes(t, "idle", <<NoPage, 0>>)
  BY <1>4 DEF Goes, SplInv, VarsOK
<1>6. MutexOK' /\ p \in Page /\ Holder(p)' = "none" /\ Holder(p) = "free" /\ OthersHeld(p)
  BY <1>1, <1>3, <1>4, <1>5, Releases DEF SplInv, Holding
<1>7. x \in Slot /\ cur[t] = <<p, x>> /\ Carried(p, x)
  <2>1. cur[t] \in (Page \cup {NoPage}) \X Slot
    BY DEF SplInv, VarsOK
  <2>2. x \in Slot /\ cur[t] = <<p, x>>
    BY <1>1, <1>2, <2>1 DEF page
  <2> QED
    BY <1>3, <2>2 DEF Carried, Moving
<1>8. freeBuffer[p] \in Seq(Slot) /\ x \notin Noted(freeBuffer[p]) /\ Distinct(freeBuffer[p])
  BY <1>6, <1>7 DEF SplInv, VarsOK, AccountOK, SlotOK, OneOf
<1>9. /\ freeBuffer'[p] \in Seq(Slot) /\ Distinct(freeBuffer'[p])
      /\ Noted(freeBuffer'[p]) = Noted(freeBuffer[p]) \cup {x}
      /\ \A q \in Page \ {p} : freeBuffer'[q] = freeBuffer[q]
      /\ freeBuffer' \in [Page -> Seq(Slot)]
  <2>1. freeBuffer'[p] = Append(freeBuffer[p], x) /\ \A q \in Page \ {p} : freeBuffer'[q] = freeBuffer[q]
    BY <1>4, <1>6 DEF SplInv, VarsOK
  <2>2. /\ freeBuffer'[p] \in Seq(Slot) /\ Distinct(freeBuffer'[p])
        /\ Noted(freeBuffer'[p]) = Noted(freeBuffer[p]) \cup {x}
    BY <1>7, <1>8, <2>1, AppendNoted
  <2>3. freeBuffer' \in [Page -> Seq(Slot)]
    BY <1>4, <1>6, <2>1, <2>2 DEF SplInv, VarsOK
  <2> QED
    BY <2>1, <2>2, <2>3
<1>10. VarsOK'
  <2>1. mutex' \in [Page -> Thread \cup {NoThread}]
    BY <1>4, <1>6 DEF SplInv, VarsOK, Unlock, Lock
  <2>2. pc' \in [Thread -> Label] /\ cur' \in [Thread -> (Page \cup {NoPage}) \X Slot]
    BY <1>4, WithTyped DEF SplInv, Label
  <2> QED
    BY <1>4, <1>6, <1>9, <2>1, <2>2 DEF SplInv, VarsOK, appVars, ownerVars
<1>11. PageOK(p)'
  <2>1. state[p] \in {"local", "localPinned", "swapped"} /\ heap[p] # {Whole}
    BY <1>6, <1>7, OccupiedPage
  <2> QED
    BY <1>4, <1>5, <1>6, <2>1 DEF SplInv, PagesOK, PageOK, Listed, Goes
<1>12. ControlOK'
  BY <1>3, <1>4, <1>5, PageControl DEF SplInv, ListLocked, OwnerLabel, Moving, ownerVars
<1>13. AccountOK'
  <2>1. pc[t] \in Moving /\ "idle" \notin Moving
    BY <1>3 DEF Moving
  <2>2. \A q, s : Carried(q, s)' <=> Carried(q, s) /\ <<q, s>> # <<p, x>>
    BY <1>5, <1>7, <2>1, CarriedDown DEF SplInv
  <2>3. \A u, v \in Thread : pc'[u] \in Moving /\ pc'[v] \in Moving /\ cur'[u] = cur'[v] => u = v
    BY <1>5, <2>1, HandsApart DEF SplInv
  <2>4. ASSUME NEW q \in Page, NEW s \in Slot PROVE SlotOK(q, s)'
    <3>1. SlotOK(q, s)
      BY DEF SplInv, AccountOK
    <3>2. heap' = heap /\ objects' = objects /\ lost' = lost
      BY <1>4 DEF appVars
    <3>3. s \in Noted(freeBuffer'[q]) <=> s \in Noted(freeBuffer[q]) \/ <<q, s>> = <<p, x>>
      BY <1>9
    <3>4. <<q, s>> = <<p, x>> => Carried(q, s)
      BY <1>7
    <3> QED
      BY <2>2, <3>1, <3>2, <3>3, <3>4 DEF SlotOK, OneOf
  <2>5. \A q \in Page : Distinct(freeBuffer'[q])
    BY <1>9 DEF SplInv, AccountOK
  <2> QED
    BY <2>3, <2>4, <2>5 DEF AccountOK
<1>14. ASSUME NEW q \in Page, q # p PROVE PageOK(q)'
  <2>1. Same(q)
    BY <1>4, <1>5, <1>6, <1>9, <1>14 DEF Same, Goes, OthersHeld
  <2> QED
    BY <2>1, SamePage DEF SplInv, PagesOK
<1> QED
  BY <1>6, <1>10, <1>11, <1>12, <1>13, <1>14 DEF SplInv, PagesOK

\* What a flush makes of a page.
LEMMA FlushFacts ==
    ASSUME SplInv, NEW p \in Page
    PROVE  LET h == Flushed(heap[p], freeBuffer[p]) IN
           /\ HeapOK(h) /\ Longest(h) \in 0 .. Slots /\ h \in SUBSET (Slot \X (1 .. Slots))
           /\ Cover(h) = Cover(heap[p]) \cup Noted(freeBuffer[p])
<1>1. HeapOK(heap[p]) /\ freeBuffer[p] \in Seq(Slot) /\ Distinct(freeBuffer[p])
  BY DEF SplInv, PagesOK, PageOK, VarsOK, AccountOK
<1>2. Noted(freeBuffer[p]) \subseteq Slot
  BY <1>1 DEF Noted
<1>3. Noted(freeBuffer[p]) \cap Cover(heap[p]) = {}
  BY <1>2 DEF SplInv, AccountOK, SlotOK, OneOf
<1> DEFINE h == Flushed(heap[p], freeBuffer[p])
<1>4. HeapOK(h) /\ Cover(h) = Cover(heap[p]) \cup Noted(freeBuffer[p])
  BY <1>1, <1>3, FlushedHeap
<1> HIDE DEF h
<1>5. Longest(h) \in 0 .. Slots /\ h \in SUBSET (Slot \X (1 .. Slots))
  BY <1>4, LongestType DEF HeapOK
<1> QED
  BY <1>4, <1>5 DEF h

\* A flush of page p moves its buffer's objects to its heap.
LEMMA FlushAccount ==
    ASSUME SplInv, NEW p \in Page, flushFreeBuffer(p), UNCHANGED <<objects, lost>>,
           NEW t \in Thread, NEW l, NEW c, Goes(t, l, c), pc[t] \notin Moving, l \notin Moving
    PROVE  /\ AccountOK'
           /\ heap' \in [Page -> SUBSET (Slot \X (1 .. Slots))]
           /\ freeBuffer' \in [Page -> Seq(Slot)]
           /\ HeapOK(heap'[p]) /\ heap'[p] = Flushed(heap[p], freeBuffer[p]) /\ freeBuffer'[p] = <<>>
           /\ \A q \in Page \ {p} : heap'[q] = heap[q] /\ freeBuffer'[q] = freeBuffer[q]
<1> DEFINE h == Flushed(heap[p], freeBuffer[p])
<1>1. /\ HeapOK(h) /\ h \in SUBSET (Slot \X (1 .. Slots))
      /\ Cover(h) = Cover(heap[p]) \cup Noted(freeBuffer[p])
  BY FlushFacts
<1>2. heap' = [heap EXCEPT ![p] = h] /\ freeBuffer' = [freeBuffer EXCEPT ![p] = <<>>]
  BY DEF flushFreeBuffer
<1>3. <<>> \in Seq(Slot) /\ Noted(<<>>) = {} /\ Distinct(<<>>)
  BY DEF Noted, Distinct
<1> HIDE DEF h
<1>4. /\ heap' \in [Page -> SUBSET (Slot \X (1 .. Slots))] /\ freeBuffer' \in [Page -> Seq(Slot)]
      /\ heap'[p] = h /\ freeBuffer'[p] = <<>>
      /\ \A q \in Page \ {p} : heap'[q] = heap[q] /\ freeBuffer'[q] = freeBuffer[q]
  BY <1>1, <1>2, <1>3 DEF SplInv, VarsOK
<1>5. \A q, s : Carried(q, s)' <=> Carried(q, s)
  BY CarriedSame
<1>6. \A u, v \in Thread : pc'[u] \in Moving /\ pc'[v] \in Moving /\ cur'[u] = cur'[v] => u = v
  BY HandsApart DEF SplInv
<1>7. ASSUME NEW q \in Page, NEW s \in Slot PROVE SlotOK(q, s)'
  <2>1. SlotOK(q, s)
    BY DEF SplInv, AccountOK
  <2>2. CASE q = p
    <3>1. /\ s \in Cover(heap'[q]) <=> s \in Cover(heap[q]) \/ s \in Noted(freeBuffer[q])
          /\ s \notin Noted(freeBuffer'[q])
      BY <1>1, <1>3, <1>4, <2>2
    <3> QED
      BY <1>5, <2>1, <3>1 DEF SlotOK, OneOf
  <2>3. CASE q # p
    <3>1. heap'[q] = heap[q] /\ freeBuffer'[q] = freeBuffer[q]
      BY <1>4, <2>3
    <3> QED
      BY <1>5, <2>1, <3>1 DEF SlotOK, OneOf
  <2> QED
    BY <2>2, <2>3
<1>8. \A q \in Page : Distinct(freeBuffer'[q])
  BY <1>3, <1>4 DEF SplInv, AccountOK
<1>9. AccountOK'
  BY <1>6, <1>7, <1>8 DEF AccountOK
<1> QED
  BY <1>1, <1>4, <1>9 DEF h

\* activatePod: the frees noted while the page was away reach its heap before it
\* is listed again.
LEMMA activatePodStep ==
    ASSUME SplInv, NEW t \in Thread, activatePod(t), UNCHANGED load
    PROVE  SplInv'
<1> USE ThreadFacts
<1>1. PICK p : p = page(t)
  OBVIOUS
<1>2. pc[t] = "activate" /\ p \in Page /\ state[p] = "swapped" /\ Holder(p) = "activate"
  BY <1>1 DEF activatePod, At, SplInv, MutexOK, Holding, Holder, PagesOK, PageOK
<1>3. /\ flushFreeBuffer(p) /\ state' = [state EXCEPT ![p] = "localPinned"]
      /\ pc' = [pc EXCEPT ![t] = "unbench"]
      /\ UNCHANGED <<LRU, splVars, lockVars, ownerVars, appVars, cur, fatal>>
  BY <1>1, <1>2 DEF activatePod, Goto
<1>4. Goes(t, "unbench", cur[t])
  BY <1>3 DEF Goes, SplInv, VarsOK
<1>5. MutexOK' /\ Holder(p)' = "unbench" /\ OthersHeld(p)
  BY <1>1, <1>2, <1>3, <1>4, GoesOn DEF SplInv, Holding, lockVars
<1>6. /\ AccountOK'
      /\ heap' \in [Page -> SUBSET (Slot \X (1 .. Slots))]
      /\ freeBuffer' \in [Page -> Seq(Slot)]
      /\ HeapOK(heap'[p]) /\ freeBuffer'[p] = <<>>
      /\ \A q \in Page \ {p} : heap'[q] = heap[q] /\ freeBuffer'[q] = freeBuffer[q]
  BY <1>2, <1>3, <1>4, FlushAccount DEF Moving, appVars
<1>7. VarsOK'
  BY <1>2, <1>3, <1>6 DEF SplInv, VarsOK, splVars, lockVars, appVars, ownerVars, Label, Holding
<1>8. ControlOK'
  BY <1>2, <1>3, <1>4, PageControl DEF SplInv, ListLocked, OwnerLabel, Moving, splVars, ownerVars, lockVars
<1>9. state'[p] = "localPinned" /\ \A q \in Page \ {p} : state'[q] = state[q]
  BY <1>2, <1>3 DEF SplInv, VarsOK
<1>10. PageOK(p)'
  BY <1>2, <1>3, <1>5, <1>6, <1>9 DEF SplInv, PagesOK, PageOK, Listed, splVars
<1>11. ASSUME NEW q \in Page, q # p PROVE PageOK(q)'
  <2>1. Same(q)
    BY <1>3, <1>4, <1>5, <1>6, <1>9, <1>11 DEF Same, Goes, splVars, OthersHeld
  <2> QED
    BY <2>1, SamePage DEF SplInv, PagesOK
<1> QED
  BY <1>5, <1>6, <1>7, <1>8, <1>10, <1>11 DEF SplInv, PagesOK

\* unbenchSwappedPage: the page is listed once, under the rank it has now.
LEMMA unbenchSwappedPageStep ==
    ASSUME SplInv, NEW t \in Thread, unbenchSwappedPage(t), UNCHANGED load
    PROVE  SplInv'
<1> USE ThreadFacts
<1>1. PICK p : p = page(t)
  OBVIOUS
<1>2. PICK r : r = Longest(heap[p])
  OBVIOUS
<1>3. /\ pc[t] = "unbench" /\ splLock = NoThread /\ p \in Page
      /\ state[p] = "localPinned" /\ Holder(p) = "unbench"
  BY <1>1 DEF unbenchSwappedPage, At, SplInv, MutexOK, Holding, Holder, PagesOK, PageOK
<1>4. r \in 0 .. Slots
  BY <1>2, <1>3, LongestType DEF SplInv, PagesOK, PageOK
<1>5. /\ rank' = [rank EXCEPT ![p] = r] /\ rankMap' = rankMap \cup {<<rank'[p], p>>}
      /\ state' = [state EXCEPT ![p] = "local"] /\ LRU' = LRU \cup {p}
      /\ pc' = [pc EXCEPT ![t] = "unlock"]
      /\ UNCHANGED <<lastAllocatedPod, localFreeBuffer, heap, freeBuffer, lockVars,
                     ownerVars, appVars, cur, fatal>>
  BY <1>1, <1>2 DEF unbenchSwappedPage, Goto, SetRank
<1>6. /\ rank'[p] = r /\ \A q \in Page \ {p} : rank'[q] = rank[q] /\ state'[q] = state[q]
      /\ state'[p] = "local" /\ rankMap' = rankMap \cup {<<r, p>>}
  BY <1>3, <1>5 DEF SplInv, VarsOK
<1>7. Goes(t, "unlock", cur[t])
  BY <1>5 DEF Goes, SplInv, VarsOK
<1>8. MutexOK' /\ Holder(p)' = "unlock" /\ OthersHeld(p)
  BY <1>1, <1>3, <1>5, <1>7, GoesOn DEF SplInv, Holding, lockVars
<1>9. VarsOK'
  BY <1>3, <1>4, <1>5, <1>6 DEF SplInv, VarsOK, lockVars, appVars, ownerVars, Label, Holding
<1>10. ControlOK'
  BY <1>3, <1>5, <1>7, PageControl DEF SplInv, ListLocked, OwnerLabel, Moving, ownerVars, lockVars
<1>11. AccountOK'
  BY <1>3, <1>5, <1>7, AccountSame DEF SplInv, Moving, appVars
<1>12. PageOK(p)'
  <2>1. \A n \in 0 .. Slots : <<n, p>> \notin rankMap
    BY <1>3 DEF SplInv, PagesOK, PageOK, Listed
  <2>2. \A n \in 0 .. Slots : <<n, p>> \in rankMap' => n = rank'[p]
    BY <1>6, <2>1
  <2>3. Listed(p)'
    BY <1>6 DEF Listed
  <2> QED
    BY <1>2, <1>3, <1>5, <1>6, <1>7, <1>8, <2>2, <2>3 DEF SplInv, PagesOK, PageOK
<1>13. ASSUME NEW q \in Page, q # p PROVE PageOK(q)'
  <2>1. Same(q)
    BY <1>5, <1>6, <1>7, <1>8, <1>13 DEF Same, Goes, OthersHeld
  <2> QED
    BY <2>1, SamePage DEF SplInv, PagesOK
<1> QED
  BY <1>8, <1>9, <1>10, <1>11, <1>12, <1>13 DEF SplInv, PagesOK

\* benchSwappedPage: the rank computed from the page is the one it is listed under,
\* unless it is the page last allocated from, which stays.
LEMMA benchSwappedPageStep ==
    ASSUME SplInv, NEW t \in Thread, benchSwappedPage(t), UNCHANGED load
    PROVE  SplInv'
<1> USE ThreadFacts
<1>1. PICK p : p = page(t)
  OBVIOUS
<1>2. /\ pc[t] = "bench" /\ splLock = NoThread /\ p \in Page
      /\ state[p] = "local" /\ Holder(p) = "bench"
  BY <1>1 DEF benchSwappedPage, At, SplInv, MutexOK, Holding, Holder, PagesOK, PageOK
<1>3. /\ UNCHANGED <<lastAllocatedPod, localFreeBuffer, podVars, lockVars,
                     ownerVars, appVars, LRU, cur>>
      /\ pc[Owner] # "search"
  BY <1>2 DEF benchSwappedPage, SplInv, ControlOK, ListLocked
<1>4. CASE p = lastAllocatedPod
  <2>1. pc' = [pc EXCEPT ![t] = "kept"] /\ UNCHANGED <<rank, rankMap, fatal>>
    BY <1>1, <1>4 DEF benchSwappedPage, Goto
  <2>2. Goes(t, "kept", cur[t])
    BY <1>3, <2>1 DEF Goes, SplInv, VarsOK
  <2>3. MutexOK' /\ Holder(p)' = "kept" /\ OthersHeld(p)
    BY <1>1, <1>2, <1>3, <2>2, GoesOn DEF SplInv, Holding, lockVars
  <2>4. VarsOK'
    BY <1>3, <2>1 DEF SplInv, VarsOK, podVars, lockVars, appVars, ownerVars, Label, Holding
  <2>5. ControlOK'
    BY <1>2, <1>3, <2>1, <2>2, PageControl DEF SplInv, ListLocked, OwnerLabel, Moving, ownerVars, lockVars
  <2>6. AccountOK'
    BY <1>2, <1>3, <2>2, AccountSame DEF SplInv, Moving, podVars, appVars
  <2>7. pc'[Owner] # "search"
    BY <1>3, <2>2 DEF Goes
  <2>8. PageOK(p)'
    BY <1>2, <1>3, <1>4, <2>1, <2>3, <2>7 DEF SplInv, PagesOK, PageOK, Listed, podVars
  <2>9. ASSUME NEW q \in Page, q # p PROVE PageOK(q)'
    <3>1. Same(q)
      BY <1>3, <2>1, <2>3, <2>7, <2>9 DEF Same, podVars, OthersHeld
    <3> QED
      BY <3>1, SamePage DEF SplInv, PagesOK
  <2> QED
    BY <2>3, <2>4, <2>5, <2>6, <2>8, <2>9 DEF SplInv, PagesOK
<1>5. CASE p # lastAllocatedPod
  <2>0. PICK r : r = Longest(heap[p])
    OBVIOUS
  <2>1. /\ rank' = [rank EXCEPT ![p] = r] /\ rankMap' = rankMap \ {<<r, p>>}
        /\ fatal' = ~HasRank(r) /\ pc' = [pc EXCEPT ![t] = "benched"]
    BY <1>1, <1>5, <2>0 DEF benchSwappedPage, Goto, SetRank
  <2>2. rank[p] = r /\ <<r, p>> \in rankMap /\ r \in 0 .. Slots
    <3>1. PageOK(p)
      BY <1>2 DEF SplInv, PagesOK
    <3>2. rank[p] = Longest(heap[p]) /\ Listed(p)
      BY <1>2, <1>5, <3>1 DEF PageOK
    <3>3. rank[p] \in 0 .. Slots
      BY <1>2 DEF SplInv, VarsOK
    <3> QED
      BY <2>0, <3>2, <3>3 DEF Listed
  <2>3. rank' = rank /\ ~fatal'
    <3>1. HasRank(r)
      BY <2>2 DEF HasRank
    <3>2. rank' = rank
      BY <1>2, <2>1, <2>2 DEF SplInv, VarsOK
    <3> QED
      BY <2>1, <3>1, <3>2
  <2>4. Goes(t, "benched", cur[t])
    BY <1>3, <2>1 DEF Goes, SplInv, VarsOK
  <2>5. MutexOK' /\ Holder(p)' = "benched" /\ OthersHeld(p)
    BY <1>1, <1>2, <1>3, <2>4, GoesOn DEF SplInv, Holding, lockVars
  <2>6. VarsOK'
    BY <1>3, <2>1, <2>3 DEF SplInv, VarsOK, podVars, lockVars, appVars, ownerVars, Label, Holding
  <2>7. ControlOK'
    BY <1>2, <1>3, <2>3, <2>4, PageControl DEF SplInv, ListLocked, OwnerLabel, Moving, ownerVars, lockVars
  <2>8. AccountOK'
    BY <1>2, <1>3, <2>4, AccountSame DEF SplInv, Moving, podVars, appVars
  <2>9. \A n \in 0 .. Slots : <<n, p>> \notin rankMap'
    BY <1>2, <2>1, <2>2 DEF SplInv, PagesOK, PageOK
  <2>10. PageOK(p)'
    <3>1. ~Listed(p)'
      BY <1>2, <2>1, <2>2, <2>3 DEF Listed
    <3> QED
      BY <1>2, <1>3, <1>5, <2>3, <2>5, <2>9, <3>1 DEF SplInv, PagesOK, PageOK, podVars
  <2>11. ASSUME NEW q \in Page, q # p PROVE PageOK(q)'
    <3>1. Same(q)
      BY <1>3, <2>1, <2>3, <2>4, <2>5, <2>11 DEF Same, Goes, podVars, OthersHeld
    <3> QED
      BY <3>1, SamePage DEF SplInv, PagesOK
  <2> QED
    BY <2>5, <2>6, <2>7, <2>8, <2>10, <2>11 DEF SplInv, PagesOK
<1> QED
  BY <1>4, <1>5

\* pickPodToEvict: the page is flushed, and then dropped, evicted or kept.
LEMMA pickPodToEvictStep ==
    ASSUME SplInv, NEW t \in Thread, pickPodToEvict(t), UNCHANGED load
    PROVE  SplInv'
<1> USE ThreadFacts
<1>1. PICK p : p = page(t)
  OBVIOUS
<1>2. pc[t] \in {"benched", "kept"} /\ p \in Page /\ state[p] = "local" /\ Holder(p) = pc[t]
  BY <1>1 DEF pickPodToEvict, At, SplInv, MutexOK, Holding, Holder, PagesOK, PageOK
<1>3. /\ flushFreeBuffer(p) /\ Unlock(p)
      /\ pc' = [pc EXCEPT ![t] = "idle"] /\ cur' = [cur EXCEPT ![t] = <<NoPage, 0>>]
      /\ state' = [state EXCEPT ![p] = IF isEmpty(heap'[p]) THEN "init"
                                       ELSE IF pc[t] = "benched" THEN "swapped" ELSE @]
      /\ LRU' = IF pc[t] = "kept" /\ ~isEmpty(heap'[p]) THEN LRU \cup {p} ELSE LRU
      /\ UNCHANGED <<splVars, splLock, ownerVars, appVars, fatal>>
  BY <1>1 DEF pickPodToEvict, Done, Goto
<1>4. Goes(t, "idle", <<NoPage, 0>>)
  BY <1>3 DEF Goes, SplInv, VarsOK
<1>5. MutexOK' /\ Holder(p)' = "none" /\ OthersHeld(p)
  BY <1>1, <1>2, <1>3, <1>4, Releases DEF SplInv, Holding
<1>6. /\ AccountOK'
      /\ heap' \in [Page -> SUBSET (Slot \X (1 .. Slots))]
      /\ freeBuffer' \in [Page -> Seq(Slot)]
      /\ HeapOK(heap'[p]) /\ freeBuffer'[p] = <<>>
      /\ \A q \in Page \ {p} : heap'[q] = heap[q] /\ freeBuffer'[q] = freeBuffer[q]
  BY <1>2, <1>3, <1>4, FlushAccount DEF Moving, appVars
<1>7. /\ state'[p] = IF heap'[p] = {Whole} THEN "init"
                     ELSE IF pc[t] = "benched" THEN "swapped" ELSE "local"
      /\ \A q \in Page \ {p} : state'[q] = state[q]
  BY <1>2, <1>3 DEF SplInv, VarsOK, isEmpty
<1>8. VarsOK'
  <2>1. /\ state' \in [Page -> {"buffered", "init", "local", "localPinned", "swapped"}]
        /\ mutex' \in [Page -> Thread \cup {NoThread}] /\ LRU' \subseteq Page
    BY <1>2, <1>3 DEF SplInv, VarsOK, Unlock, Lock
  <2>2. pc' \in [Thread -> Label] /\ cur' \in [Thread -> (Page \cup {NoPage}) \X Slot]
    BY <1>3, WithTyped DEF SplInv, Label
  <2> QED
    BY <1>3, <1>6, <2>1, <2>2 DEF SplInv, VarsOK, splVars, appVars, ownerVars
<1>9. ControlOK'
  BY <1>2, <1>3, <1>4, PageControl DEF SplInv, ListLocked, OwnerLabel, Moving, splVars, ownerVars
<1>10. PageOK(p)'
  <2>1. CASE pc[t] = "benched"
    <3>1. state'[p] \in {"init", "swapped"} /\ (state'[p] = "init" => heap'[p] = {Whole})
      BY <1>7, <2>1
    <3>2. p # lastAllocatedPod /\ ~Listed(p)
      BY <1>2, <2>1 DEF SplInv, PagesOK, PageOK
    <3> QED
      BY <1>2, <1>3, <1>5, <1>6, <3>1, <3>2, <2>1 DEF SplInv, PagesOK, PageOK, Listed, splVars
  <2>2. CASE pc[t] = "kept"
    <3>1. /\ state'[p] \in {"init", "local"} /\ (state'[p] = "init" => heap'[p] = {Whole})
          /\ p = lastAllocatedPod /\ Listed(p) /\ pc'[Owner] # "search"
      BY <1>2, <1>4, <1>7, <2>2 DEF SplInv, PagesOK, PageOK, Goes
    <3> QED
      BY <1>2, <1>3, <1>5, <1>6, <3>1, <2>2 DEF SplInv, PagesOK, PageOK, Listed, splVars
  <2> QED
    BY <1>2, <2>1, <2>2
<1>11. ASSUME NEW q \in Page, q # p PROVE PageOK(q)'
  <2>1. Same(q)
    BY <1>3, <1>4, <1>5, <1>6, <1>7, <1>11 DEF Same, Goes, splVars, OthersHeld
  <2> QED
    BY <2>1, SamePage DEF SplInv, PagesOK
<1> QED
  BY <1>5, <1>6, <1>8, <1>9, <1>10, <1>11 DEF SplInv, PagesOK
-----------------------------------------------------------------------------
(***************************************************************************)
(* The owner's steps.                                                      *)
(***************************************************************************)

\* Taking an object out of a page: it goes to t's hands or is lost.
LEMMA TakenAccount ==
    ASSUME SplInv, NEW p \in Page, NEW b \in Fits(heap[p], needed),
           heap' = [heap EXCEPT ![p] = Allocated(@, b, needed)],
           UNCHANGED <<freeBuffer, objects>>,
           NEW t \in Thread, NEW l, NEW c, Goes(t, l, c), pc[t] \notin Moving,
           \/ l \in Moving /\ c = <<p, b[1]>> /\ lost' = lost
           \/ l \notin Moving /\ lost' = lost \cup {<<p, b[1]>>}
    PROVE  /\ AccountOK' /\ b[1] \in Slot
           /\ heap' \in [Page -> SUBSET (Slot \X (1 .. Slots))]
           /\ HeapOK(heap'[p]) /\ \A q \in Page \ {p} : heap'[q] = heap[q]
<1> DEFINE h == Allocated(heap[p], b, needed)
<1>0. HeapOK(heap[p])
  BY DEF SplInv, PagesOK, PageOK
<1>1. HeapOK(h) /\ b[1] \in Cover(heap[p]) /\ Cover(h) = Cover(heap[p]) \ {b[1]}
  BY <1>0, AllocatedHeap
<1>2. b[1] \in Slot
  BY <1>1 DEF Cover
<1> HIDE DEF h
<1>3. /\ heap'[p] = h /\ \A q \in Page \ {p} : heap'[q] = heap[q]
      /\ heap' \in [Page -> SUBSET (Slot \X (1 .. Slots))]
  <2>1. h \in SUBSET (Slot \X (1 .. Slots))
    BY <1>1 DEF HeapOK
  <2>2. heap' = [heap EXCEPT ![p] = h]
    BY DEF h
  <2> QED
    BY <2>1, <2>2 DEF SplInv, VarsOK
<1>4. ~Carried(p, b[1])
  BY <1>1, <1>2 DEF SplInv, AccountOK, SlotOK, OneOf
<1>5. \A u, v \in Thread : pc'[u] \in Moving /\ pc'[v] \in Moving /\ cur'[u] = cur'[v] => u = v
  BY <1>4, HandsApart DEF SplInv, Carried
<1>6. \/ /\ \A q, s : Carried(q, s)' <=> Carried(q, s) \/ <<q, s>> = <<p, b[1]>>
         /\ lost' = lost
      \/ /\ \A q, s : Carried(q, s)' <=> Carried(q, s)
         /\ lost' = lost \cup {<<p, b[1]>>}
  <2>1. CASE l \in Moving /\ c = <<p, b[1]>> /\ lost' = lost
    <3>1. \A q, s : Carried(q, s)' <=> Carried(q, s) \/ <<q, s>> = <<p, b[1]>>
      BY <2>1, CarriedUp
    <3> QED
      BY <2>1, <3>1
  <2>2. CASE l \notin Moving /\ lost' = lost \cup {<<p, b[1]>>}
    <3>1. \A q, s : Carried(q, s)' <=> Carried(q, s)
      BY <2>2, CarriedSame
    <3> QED
      BY <2>2, <3>1
  <2> QED
    BY <2>1, <2>2
<1>7. ASSUME NEW q \in Page, NEW s \in Slot PROVE SlotOK(q, s)'
  <2>1. SlotOK(q, s)
    BY DEF SplInv, AccountOK
  <2>2. CASE <<q, s>> = <<p, b[1]>>
    <3>1. s \in Cover(heap[q]) /\ s \notin Cover(heap'[q]) /\ freeBuffer' = freeBuffer /\ objects' = objects
      BY <1>1, <1>3, <2>2
    <3> QED
      BY <1>6, <2>1, <2>2, <3>1 DEF SlotOK, OneOf
  <2>3. CASE <<q, s>> # <<p, b[1]>>
    <3>1. s \in Cover(heap'[q]) <=> s \in Cover(heap[q])
      BY <1>1, <1>3, <2>3
    <3>2. (Carried(q, s)' <=> Carried(q, s)) /\ (<<q, s>> \in lost' <=> <<q, s>> \in lost)
      BY <1>6, <2>3
    <3> QED
      BY <2>1, <3>1, <3>2 DEF SlotOK, OneOf
  <2> QED
    BY <2>2, <2>3
<1> QED
  BY <1>1, <1>2, <1>3, <1>5, <1>7 DEF SplInv, AccountOK

\* A listed page moves to its new rank.
LEMMA Relisted ==
    ASSUME VarsOK, NEW p \in Page, PageOK(p), Listed(p), NEW r \in 0 .. Slots,
           rank' = [rank EXCEPT ![p] = r],
           rankMap' = IF r = rank[p] THEN rankMap
                      ELSE (rankMap \ {<<rank[p], p>>}) \cup {<<r, p>>}
    PROVE  /\ rank' \in [Page -> 0 .. Slots] /\ rankMap' \subseteq (0 .. Slots) \X Page
           /\ rank'[p] = r /\ Listed(p)'
           /\ \A n \in 0 .. Slots : <<n, p>> \in rankMap' => n = rank'[p]
           /\ \A q \in Page \ {p} :
                 /\ rank'[q] = rank[q]
                 /\ \A n \in 0 .. Slots : <<n, q>> \in rankMap' <=> <<n, q>> \in rankMap
<1>1. /\ rank' \in [Page -> 0 .. Slots] /\ rank'[p] = r
      /\ \A q \in Page \ {p} : rank'[q] = rank[q]
  BY DEF VarsOK
<1>2. rankMap' \subseteq (0 .. Slots) \X Page
  BY DEF VarsOK
<1>3. Listed(p)'
  BY <1>1 DEF Listed
<1>4. \A n \in 0 .. Slots : <<n, p>> \in rankMap => n = rank[p]
  BY DEF PageOK
<1>5. \A n \in 0 .. Slots : <<n, p>> \in rankMap' => n = r
  BY <1>4
<1> QED
  BY <1>1, <1>2, <1>3, <1>5

\* Relist: the owner takes the object it allocated to the application.
LEMMA RelistStep ==
    ASSUME SplInv, Relist(Owner), UNCHANGED load
    PROVE  SplInv'
<1> USE ThreadFacts
<1>1. PICK p : p = page(Owner)
  OBVIOUS
<1>2. PICK x : x = cur[Owner][2]
  OBVIOUS
<1>3. /\ pc[Owner] = "relist" /\ LRU' = LRU \cup {p} /\ objects' = objects \cup {cur[Owner]}
      /\ pc' = [pc EXCEPT ![Owner] = "idle"] /\ cur' = [cur EXCEPT ![Owner] = <<NoPage, 0>>]
      /\ UNCHANGED <<splVars, podVars, lockVars, ownerVars, lost, fatal>>
  BY <1>1 DEF Relist, At, Done, Goto
<1>4. Goes(Owner, "idle", <<NoPage, 0>>)
  BY <1>3 DEF Goes, SplInv, VarsOK
<1>5. MutexOK' /\ \A q \in Page : Holder(q)' = Holder(q)
  BY <1>3, <1>4, GoesFree DEF SplInv, Holding, lockVars
<1>6. p \in Page /\ x \in Slot /\ cur[Owner] = <<p, x>> /\ Carried(p, x)
  <2>1. cur[Owner] \in (Page \cup {NoPage}) \X Slot
    BY DEF SplInv, VarsOK
  <2>2. x \in Slot /\ cur[Owner] = <<p, x>>
    BY <1>1, <1>2, <2>1 DEF page
  <2>3. p \in Page
    BY <1>1, <1>3 DEF SplInv, ControlOK, Moving
  <2> QED
    BY <1>3, <2>2, <2>3 DEF Carried, Moving
<1>7. VarsOK'
  <2>1. objects' \subseteq Object /\ LRU' \subseteq Page
    BY <1>3, <1>6 DEF SplInv, VarsOK, Object
  <2>2. pc' \in [Thread -> Label] /\ cur' \in [Thread -> (Page \cup {NoPage}) \X Slot]
    BY <1>3, WithTyped DEF SplInv, Label
  <2> QED
    BY <1>3, <2>1, <2>2 DEF SplInv, VarsOK, splVars, podVars, lockVars, ownerVars
<1>8. ControlOK'
  BY <1>3, <1>4 DEF SplInv, ControlOK, splVars, lockVars, Goes, ListLocked, OwnerLabel, Moving, page
<1>9. AccountOK'
  <2>1. pc[Owner] \in Moving /\ "idle" \notin Moving
    BY <1>3 DEF Moving
  <2>2. \A q, s : Carried(q, s)' <=> Carried(q, s) /\ <<q, s>> # <<p, x>>
    BY <1>4, <1>6, <2>1, CarriedDown DEF SplInv
  <2>3. \A u, v \in Thread : pc'[u] \in Moving /\ pc'[v] \in Moving /\ cur'[u] = cur'[v] => u = v
    BY <1>4, <2>1, HandsApart DEF SplInv
  <2>4. ASSUME NEW q \in Page, NEW s \in Slot PROVE SlotOK(q, s)'
    <3>1. SlotOK(q, s)
      BY DEF SplInv, AccountOK
    <3>2. heap' = heap /\ freeBuffer' = freeBuffer /\ lost' = lost
      BY <1>3 DEF podVars
    <3>3. <<q, s>> = <<p, x>> => Carried(q, s)
      BY <1>6
    <3>4. <<q, s>> \in objects' <=> <<q, s>> \in objects \/ <<q, s>> = <<p, x>>
      BY <1>3, <1>6
    <3> QED
      BY <2>2, <3>1, <3>2, <3>3, <3>4 DEF SlotOK, OneOf
  <2>5. \A q \in Page : Distinct(freeBuffer'[q])
    BY <1>3 DEF SplInv, AccountOK, podVars
  <2> QED
    BY <2>3, <2>4, <2>5 DEF AccountOK
<1>10. ASSUME NEW q \in Page PROVE PageOK(q)'
  <2>1. CASE q = p
    <3>1. state[p] # "buffered"
      BY <1>6, OccupiedPage
    <3> QED
      BY <1>3, <1>4, <1>5, <2>1, <3>1 DEF SplInv, PagesOK, PageOK, Listed, Goes, splVars, podVars
  <2>2. CASE q # p
    <3>1. Same(q)
      BY <1>3, <1>4, <1>5, <2>2 DEF Same, Goes, splVars, podVars
    <3> QED
      BY <3>1, SamePage DEF SplInv, PagesOK
  <2> QED
    BY <2>1, <2>2
<1> QED
  BY <1>5, <1>7, <1>8, <1>9, <1>10 DEF SplInv, PagesOK

\* getBufferedPod: a page comes locked out of the allocation buffer, or none is left.
LEMMA getBufferedPodStep ==
    ASSUME SplInv, getBufferedPod(Owner), UNCHANGED load
    PROVE  SplInv'
<1> USE ThreadFacts
<1>1. /\ pc[Owner] = "newPage" /\ lastAllocatedPod = NoPage
      /\ UNCHANGED <<splVars, heap, freeBuffer, splLock, ownerVars, appVars, LRU, fatal>>
  BY DEF getBufferedPod, At, SplInv, ControlOK
<1>2. CASE \E p \in Page : /\ state[p] = "buffered" /\ state' = [state EXCEPT ![p] = "local"]
                           /\ Lock(p, Owner) /\ With(Owner, p, 0) /\ Goto(Owner, "addPod")
  <2>1. PICK p \in Page : /\ state[p] = "buffered" /\ state' = [state EXCEPT ![p] = "local"]
                          /\ Lock(p, Owner) /\ With(Owner, p, 0) /\ Goto(Owner, "addPod")
    BY <1>2
  <2>2. Goes(Owner, "addPod", <<p, 0>>) /\ 0 \in Slot
    BY <2>1 DEF Goes, SplInv, VarsOK, With, Goto
  <2>3. Free(p)
    <3>1. Holder(p) = "none" /\ mutex[p] \in Thread \cup {NoThread}
      BY <2>1 DEF SplInv, PagesOK, PageOK, VarsOK
    <3>2. \A u \in Thread : pc[u] # "none"
      BY DEF SplInv, VarsOK, Label, Holding, ListLocked, OwnerLabel
    <3> QED
      BY <3>1, <3>2 DEF Free, Holder
  <2>4. MutexOK' /\ Holder(p)' = "addPod" /\ OthersHeld(p)
    <3>1. <<p, 0>>[1] = p /\ pc[Owner] \notin Holding /\ "addPod" \in Holding
      BY <1>1 DEF Holding
    <3> QED
      BY <2>1, <2>2, <2>3, <3>1, Acquires DEF SplInv
  <2>5. state'[p] = "local" /\ \A q \in Page \ {p} : state'[q] = state[q]
    BY <2>1 DEF SplInv, VarsOK
  <2>6. VarsOK'
    BY <1>1, <2>1, <2>2 DEF SplInv, VarsOK, With, Goto, Lock, splVars, appVars, ownerVars, Label, Holding
  <2>7. ControlOK'
    BY <1>1, <2>2 DEF SplInv, ControlOK, splVars, ownerVars, Goes, ListLocked, OwnerLabel, Moving, page
  <2>8. AccountOK'
    BY <1>1, <2>2, AccountSame DEF SplInv, Moving, appVars
  <2>9. PageOK(p)'
    <3>1. PageOK(p) /\ p # NoPage
      BY DEF SplInv, PagesOK
    <3>2. ~Listed(p) /\ heap[p] = {Whole} /\ freeBuffer[p] = <<>>
      BY <1>1, <2>1, <3>1 DEF PageOK
    <3> QED
      BY <1>1, <2>1, <2>4, <2>5, <3>1, <3>2 DEF PageOK, Listed, splVars
  <2>10. ASSUME NEW q \in Page, q # p PROVE PageOK(q)'
    <3>1. Same(q)
      BY <1>1, <2>2, <2>4, <2>5, <2>10 DEF Same, Goes, splVars, OthersHeld
    <3> QED
      BY <3>1, SamePage DEF SplInv, PagesOK
  <2> QED
    BY <2>4, <2>6, <2>7, <2>8, <2>9, <2>10 DEF SplInv, PagesOK
<1>3. CASE Done(Owner) /\ UNCHANGED <<state, mutex>>
  <2>1. Goes(Owner, "idle", <<NoPage, 0>>)
    BY <1>3 DEF Goes, SplInv, VarsOK, Done, Goto
  <2>2. MutexOK' /\ \A q \in Page : Holder(q)' = Holder(q)
    BY <1>1, <1>3, <2>1, GoesFree DEF SplInv, Holding
  <2>3. VarsOK'
    BY <1>1, <1>3 DEF SplInv, VarsOK, Done, Goto, splVars, appVars, ownerVars, Label
  <2>4. ControlOK'
    BY <1>1, <2>1 DEF SplInv, ControlOK, splVars, ownerVars, Goes, ListLocked, OwnerLabel, Moving, page
  <2>5. AccountOK'
    BY <1>1, <2>1, AccountSame DEF SplInv, Moving, appVars
  <2>6. ASSUME NEW q \in Page PROVE PageOK(q)'
    <3>1. Same(q)
      BY <1>1, <1>3, <2>1, <2>2 DEF Same, Goes, splVars
    <3> QED
      BY <3>1, SamePage DEF SplInv, PagesOK
  <2> QED
    BY <2>2, <2>3, <2>4, <2>5, <2>6 DEF SplInv, PagesOK
<1> QED
  BY <1>2, <1>3 DEF getBufferedPod

\* addPodAndAllocate: the new page is listed and its first object handed out.
LEMMA addPodAndAllocateStep ==
    ASSUME SplInv, addPodAndAllocate(Owner), UNCHANGED load
    PROVE  SplInv'
<1> USE ThreadFacts
<1>1. PICK p : p = page(Owner)
  OBVIOUS
<1> DEFINE h == Allocated({Whole}, Whole, needed)
           r == Longest(h)
<1>2. /\ pc[Owner] = "addPod" /\ splLock = NoThread /\ lastAllocatedPod = NoPage
      /\ p \in Page /\ Holder(p) = "addPod" /\ cur[Owner] = <<p, 0>>
  <2>1. pc[Owner] = "addPod" /\ splLock = NoThread
    BY DEF addPodAndAllocate, At
  <2>2. cur[Owner] \in (Page \cup {NoPage}) \X Slot /\ cur[Owner][2] = 0
    BY <2>1 DEF SplInv, VarsOK, ControlOK
  <2> QED
    BY <1>1, <2>1, <2>2 DEF SplInv, MutexOK, ControlOK, Holding, Holder, page
<1>3. state[p] = "local" /\ heap[p] = {Whole} /\ freeBuffer[p] = <<>> /\ ~Listed(p)
  BY <1>2 DEF SplInv, PagesOK, PageOK
<1>4. HeapOK(h) /\ 0 \in Slot /\ Cover(h) = Slot \ {0}
  <2>1. Whole \in Fits({Whole}, needed) /\ Whole[1] = 0
    BY SlotFacts DEF Fits, Whole
  <2>2. HeapOK(h) /\ Cover(h) = Cover({Whole}) \ {Whole[1]}
    BY <2>1, SlotFacts, AllocatedHeap
  <2>3. 0 \in Slot
    BY SlotFacts
  <2> HIDE DEF h
  <2> QED
    BY <2>1, <2>2, <2>3, SlotFacts
<1>5. r \in 0 .. Slots /\ h \in SUBSET (Slot \X (1 .. Slots))
  <2> HIDE DEF h
  <2> QED
    BY <1>4, LongestType DEF HeapOK
<1>6. /\ heap' = [heap EXCEPT ![p] = h]
      /\ rank' = [rank EXCEPT ![p] = Longest(heap'[p])]
      /\ rankMap' = rankMap \cup {<<rank'[p], p>>} /\ lastAllocatedPod' = p
      /\ LRU' = LRU \cup {p} /\ objects' = objects \cup {cur[Owner]}
      /\ Unlock(p)
      /\ pc' = [pc EXCEPT ![Owner] = "idle"] /\ cur' = [cur EXCEPT ![Owner] = <<NoPage, 0>>]
      /\ UNCHANGED <<localFreeBuffer, state, freeBuffer, splLock, ownerVars, lost, fatal>>
  BY <1>1 DEF addPodAndAllocate, SetRank, Done, Goto
<1> HIDE DEF h, r
<1>7. /\ heap'[p] = h /\ \A q \in Page \ {p} : heap'[q] = heap[q]
      /\ heap' \in [Page -> SUBSET (Slot \X (1 .. Slots))]
  BY <1>2, <1>5, <1>6 DEF SplInv, VarsOK
<1>8. /\ rank'[p] = r /\ \A q \in Page \ {p} : rank'[q] = rank[q]
      /\ rankMap' = rankMap \cup {<<r, p>>} /\ rank' \in [Page -> 0 .. Slots]
  <2>1. rank' = [rank EXCEPT ![p] = r]
    BY <1>6, <1>7 DEF r
  <2> QED
    BY <1>2, <1>5, <1>6, <2>1 DEF SplInv, VarsOK
<1>9. Goes(Owner, "idle", <<NoPage, 0>>)
  BY <1>6 DEF Goes, SplInv, VarsOK
<1>10. MutexOK' /\ Holder(p)' = "none" /\ OthersHeld(p)
  BY <1>1, <1>2, <1>6, <1>9, Releases DEF SplInv, Holding
<1>11. VarsOK'
  <2>1. mutex' \in [Page -> Thread \cup {NoThread}]
    BY <1>2, <1>6 DEF SplInv, VarsOK, Unlock, Lock
  <2>2. pc' \in [Thread -> Label] /\ cur' \in [Thread -> (Page \cup {NoPage}) \X Slot]
    BY <1>6, WithTyped DEF SplInv, Label
  <2>3. rankMap' \subseteq (0 .. Slots) \X Page /\ objects' \subseteq Object /\ LRU' \subseteq Page
    BY <1>2, <1>4, <1>5, <1>6, <1>8 DEF SplInv, VarsOK, Object
  <2> QED
    BY <1>2, <1>6, <1>7, <1>8, <2>1, <2>2, <2>3 DEF SplInv, VarsOK, ownerVars
<1>12. ControlOK'
  BY <1>2, <1>6, <1>9 DEF SplInv, ControlOK, Goes, ListLocked, OwnerLabel, Moving, page
<1>13. AccountOK'
  <2>1. \A q, s : Carried(q, s)' <=> Carried(q, s)
    BY <1>2, <1>9, CarriedSame DEF Moving
  <2>2. \A u, v \in Thread : pc'[u] \in Moving /\ pc'[v] \in Moving /\ cur'[u] = cur'[v] => u = v
    BY <1>9, HandsApart DEF SplInv, Moving
  <2>3. ASSUME NEW q \in Page, NEW s \in Slot PROVE SlotOK(q, s)'
    <3>1. SlotOK(q, s) /\ lost' = lost /\ freeBuffer' = freeBuffer
      BY <1>6 DEF SplInv, AccountOK
    <3>2. <<q, s>> \in objects' <=> <<q, s>> \in objects \/ <<q, s>> = <<p, 0>>
      BY <1>2, <1>6
    <3>3. s \in Cover(heap'[q]) <=> s \in Cover(heap[q]) /\ <<q, s>> # <<p, 0>>
      BY <1>3, <1>4, <1>7, SlotFacts
    <3>4. <<q, s>> = <<p, 0>> => s \in Cover(heap[q])
      BY <1>3, SlotFacts
    <3> QED
      BY <2>1, <3>1, <3>2, <3>3, <3>4 DEF SlotOK, OneOf
  <2> QED
    BY <1>6, <2>2, <2>3 DEF SplInv, AccountOK
<1>14. PageOK(p)'
  <2>1. \A n \in 0 .. Slots : <<n, p>> \in rankMap' => n = rank'[p]
    BY <1>2, <1>3, <1>8 DEF SplInv, PagesOK, PageOK, Listed
  <2>2. Listed(p)'
    BY <1>8 DEF Listed
  <2>3. pc'[Owner] # "search"
    BY <1>9 DEF Goes
  <2> QED
    BY <1>2, <1>3, <1>4, <1>6, <1>7, <1>10, <2>1, <2>2, <2>3 DEF PageOK
<1>15. ASSUME NEW q \in Page, q # p PROVE PageOK(q)'
  <2>1. Same(q)
    BY <1>2, <1>6, <1>7, <1>8, <1>9, <1>10, <1>15 DEF Same, Goes, OthersHeld
  <2> QED
    BY <2>1, SamePage DEF SplInv, PagesOK
<1> QED
  BY <1>10, <1>11, <1>12, <1>13, <1>14, <1>15 DEF SplInv, PagesOK

\* tryAllocateWithPreviousPod: an object of the page last allocated from is taken or
\* lost, or there is none; the page is resident from then on.
LEMMA tryAllocateWithPreviousPodStep ==
    ASSUME SplInv, tryAllocateWithPreviousPod(Owner), UNCHANGED load
    PROVE  SplInv'
<1> USE ThreadFacts
<1>1. PICK p : p = lastAllocatedPod
  OBVIOUS
<1>2. /\ pc[Owner] = "previous" /\ splLock = Owner /\ p \in Page /\ Free(p) /\ Holder(p) = "none"
      /\ UNCHANGED <<splVars, freeBuffer, mutex, ownerVars, objects, LRU, fatal>>
  BY <1>1 DEF tryAllocateWithPreviousPod, At, SplInv, VarsOK, ControlOK, ListLocked, Free, Holder
<1>3. PageOK(p) /\ state[p] \in {"local", "init"} /\ Listed(p)
  BY <1>1, <1>2 DEF SplInv, PagesOK, PageOK
<1>4. \/ /\ Goto(Owner, "search") /\ UNCHANGED <<heap, cur, lost, splLock>>
         /\ state' = [state EXCEPT ![p] = IF @ = "init" THEN "local" ELSE @]
      \/ \E b \in Fits(heap[p], needed) :
            /\ state' = [state EXCEPT ![p] = "local"]
            /\ heap' = [heap EXCEPT ![p] = Allocated(@, b, needed)]
            /\ \/ /\ lost' = lost \cup {<<p, b[1]>>} /\ Goto(Owner, "search")
                  /\ UNCHANGED <<cur, splLock>>
               \/ /\ With(Owner, p, b[1]) /\ splLock' = NoThread /\ Goto(Owner, "relist")
                  /\ UNCHANGED lost
  BY <1>1 DEF tryAllocateWithPreviousPod
<1>5. state' = [state EXCEPT ![p] = "local"]
  BY <1>2, <1>3, <1>4 DEF SplInv, VarsOK
<1>6. /\ state'[p] = "local" /\ \A q \in Page \ {p} : state'[q] = state[q]
      /\ state' \in [Page -> {"buffered", "init", "local", "localPinned", "swapped"}]
  BY <1>2, <1>5 DEF SplInv, VarsOK
\* What the cases have in common.
<1>7. ASSUME NEW l \in {"search", "relist"}, NEW c, Goes(Owner, l, c), HeapOK(heap'[p]),
             \A q \in Page \ {p} : heap'[q] = heap[q]
      PROVE  MutexOK' /\ PagesOK'
  <2>1. MutexOK' /\ \A q \in Page : Holder(q)' = Holder(q)
    <3>1. l \notin Holding /\ pc[Owner] \notin Holding
      BY <1>2, <1>7 DEF Holding
    <3> QED
      BY <1>2, <1>7, <3>1, GoesFree DEF SplInv
  <2>2. PageOK(p)'
    BY <1>1, <1>2, <1>3, <1>6, <1>7, <2>1 DEF PageOK, Listed, splVars
  <2>3. ASSUME NEW q \in Page, q # p PROVE PageOK(q)'
    <3>1. Same(q)
      BY <1>1, <1>2, <1>6, <1>7, <2>1, <2>3 DEF Same, splVars
    <3> QED
      BY <3>1, SamePage DEF SplInv, PagesOK
  <2> QED
    BY <2>1, <2>2, <2>3 DEF PagesOK
<1>8. CASE Goto(Owner, "search") /\ UNCHANGED <<heap, cur, lost, splLock>>
  <2>1. Goes(Owner, "search", cur[Owner])
    BY <1>8 DEF Goes, SplInv, VarsOK, Goto
  <2>2. MutexOK' /\ PagesOK'
    <3>1. HeapOK(heap'[p])
      BY <1>3, <1>8 DEF PageOK
    <3> QED
      BY <1>7, <1>8, <2>1, <3>1
  <2>3. VarsOK'
    BY <1>2, <1>6, <1>8 DEF SplInv, VarsOK, Goto, splVars, ownerVars, Label, ListLocked
  <2>4. ControlOK'
    BY <1>2, <1>8, <2>1 DEF SplInv, ControlOK, splVars, ownerVars, Goes, ListLocked, OwnerLabel, Moving, page
  <2>5. AccountOK'
    BY <1>2, <1>8, <2>1, AccountSame DEF SplInv, Moving
  <2> QED
    BY <2>2, <2>3, <2>4, <2>5 DEF SplInv
<1>9. ASSUME NEW b \in Fits(heap[p], needed), heap' = [heap EXCEPT ![p] = Allocated(@, b, needed)],
             lost' = lost \cup {<<p, b[1]>>}, Goto(Owner, "search"), UNCHANGED <<cur, splLock>>
      PROVE  SplInv'
  <2>1. Goes(Owner, "search", cur[Owner])
    BY <1>9 DEF Goes, SplInv, VarsOK, Goto
  <2>2. /\ AccountOK' /\ b[1] \in Slot /\ heap' \in [Page -> SUBSET (Slot \X (1 .. Slots))]
        /\ HeapOK(heap'[p]) /\ \A q \in Page \ {p} : heap'[q] = heap[q]
    BY <1>2, <1>9, <2>1, TakenAccount DEF Moving
  <2>3. MutexOK' /\ PagesOK'
    BY <1>7, <2>1, <2>2
  <2>4. VarsOK'
    <3>1. lost' \subseteq Object
      BY <1>2, <1>9, <2>2 DEF SplInv, VarsOK, Object
    <3>2. pc' \in [Thread -> Label]
      BY <1>9 DEF SplInv, VarsOK, Goto, Label, ListLocked
    <3> QED
      BY <1>2, <1>6, <1>9, <2>2, <3>1, <3>2 DEF SplInv, VarsOK, splVars, ownerVars
  <2>5. ControlOK'
    BY <1>2, <1>9, <2>1 DEF SplInv, ControlOK, splVars, ownerVars, Goes, ListLocked, OwnerLabel, Moving, page
  <2> QED
    BY <2>2, <2>3, <2>4, <2>5 DEF SplInv
<1>10. ASSUME NEW b \in Fits(heap[p], needed), heap' = [heap EXCEPT ![p] = Allocated(@, b, needed)],
              With(Owner, p, b[1]), splLock' = NoThread, Goto(Owner, "relist"), UNCHANGED lost
       PROVE  SplInv'
  <2>1. Goes(Owner, "relist", <<p, b[1]>>)
    BY <1>10 DEF Goes, SplInv, VarsOK, Goto, With
  <2>2. /\ AccountOK' /\ b[1] \in Slot /\ heap' \in [Page -> SUBSET (Slot \X (1 .. Slots))]
        /\ HeapOK(heap'[p]) /\ \A q \in Page \ {p} : heap'[q] = heap[q]
    BY <1>2, <1>10, <2>1, TakenAccount DEF Moving
  <2>3. MutexOK' /\ PagesOK'
    BY <1>7, <2>1, <2>2
  <2>4. VarsOK'
    BY <1>2, <1>6, <1>10, <2>2 DEF SplInv, VarsOK, Goto, With, splVars, ownerVars, Label, OwnerLabel
  <2>5. ControlOK'
    BY <1>2, <1>10, <2>1 DEF SplInv, ControlOK, splVars, ownerVars, Goes, ListLocked, OwnerLabel, Moving, page
  <2> QED
    BY <2>2, <2>3, <2>4, <2>5 DEF SplInv
<1> QED
  BY <1>4, <1>8, <1>9, <1>10

\* Search: the page last allocated from moves to its rank and is like any other page
\* from then on.
LEMMA SearchStep ==
    ASSUME SplInv, Search(Owner), UNCHANGED load
    PROVE  SplInv'
<1> USE ThreadFacts
<1>1. PICK p : p = lastAllocatedPod
  OBVIOUS
<1>2. /\ pc[Owner] = "search" \/ (pc[Owner] = "previous" /\ p = NoPage)
      /\ splLock = Owner /\ lastAllocatedPod' = NoPage /\ p \in Page \cup {NoPage}
      /\ UNCHANGED <<localFreeBuffer, podVars, mutex, count, appVars, LRU, cur, fatal>>
  <2>1. /\ pc[Owner] = "search" \/ (pc[Owner] = "previous" /\ p = NoPage)
        /\ lastAllocatedPod' = NoPage
        /\ UNCHANGED <<localFreeBuffer, podVars, mutex, count, appVars, LRU, cur, fatal>>
    BY <1>1 DEF Search, At, adjustPodList, SearchList, GiveUpList, Goto
  <2>2. splLock = Owner
    BY <2>1 DEF SplInv, ControlOK, ListLocked
  <2>3. p \in Page \cup {NoPage}
    BY <1>1 DEF SplInv, VarsOK
  <2> QED
    BY <2>1, <2>2, <2>3
<1>3. \E l \in {"list", "newPage", "clear"} :
         /\ Goto(Owner, l)
         /\ splLock' = IF l = "newPage" THEN NoThread ELSE splLock
         /\ todo' = CASE l = "list" -> {q \in Page : <<TopRank(rankMap'), q>> \in rankMap'}
                      [] l = "newPage" -> todo
                      [] l = "clear" -> localFreeBuffer
  <2>1. CASE TopRank(rankMap') >= needed
    <3>1. /\ todo' = {q \in Page : <<TopRank(rankMap'), q>> \in rankMap'}
          /\ pc' = [pc EXCEPT ![Owner] = "list"] /\ splLock' = splLock
      BY <2>1 DEF Search, SearchList, Goto
    <3> QED
      BY <3>1 DEF Goto
  <2>2. CASE ~(TopRank(rankMap') >= needed) /\ localFreeBuffer = {}
    BY <2>2 DEF Search, GiveUpList
  <2>3. CASE ~(TopRank(rankMap') >= needed) /\ localFreeBuffer # {}
    BY <2>3 DEF Search
  <2> QED
    BY <2>1, <2>2, <2>3
<1>4. PICK l \in {"list", "newPage", "clear"} :
         /\ Goto(Owner, l)
         /\ splLock' = IF l = "newPage" THEN NoThread ELSE splLock
         /\ todo' = CASE l = "list" -> {q \in Page : <<TopRank(rankMap'), q>> \in rankMap'}
                      [] l = "newPage" -> todo
                      [] l = "clear" -> localFreeBuffer
  BY <1>3
<1>5. Goes(Owner, l, cur[Owner])
  BY <1>2, <1>4 DEF Goes, SplInv, VarsOK, Goto
<1>6. MutexOK' /\ \A q \in Page : Holder(q)' = Holder(q)
  <2>1. l \notin Holding /\ pc[Owner] \notin Holding
    BY <1>2 DEF Holding
  <2> QED
    BY <1>2, <1>5, <2>1, GoesFree DEF SplInv
<1>7. AccountOK'
  BY <1>2, <1>5, AccountSame DEF SplInv, Moving, podVars, appVars
<1>8. /\ PagesOK'
      /\ rank' \in [Page -> 0 .. Slots] /\ rankMap' \subseteq (0 .. Slots) \X Page
  <2>1. CASE p = NoPage
    <3>1. UNCHANGED <<rank, rankMap>> /\ lastAllocatedPod' = lastAllocatedPod
      BY <1>1, <1>2, <2>1 DEF Search
    <3>2. ASSUME NEW q \in Page PROVE PageOK(q)'
      <4>1. Same(q)
        BY <1>2, <1>5, <1>6, <3>1 DEF Same, Goes, podVars
      <4> QED
        BY <4>1, SamePage DEF SplInv, PagesOK
    <3> QED
      BY <3>1, <3>2 DEF PagesOK, SplInv, VarsOK
  <2>2. CASE p \in Page
    <3>1. PICK r : r = Longest(heap[p])
      OBVIOUS
    <3>2. PageOK(p) /\ pc[Owner] = "search"
      BY <1>2, <2>2 DEF SplInv, PagesOK
    <3>3. /\ Listed(p) /\ state[p] = "local" /\ HeapOK(heap[p])
          /\ Holder(p) \notin {"kept", "benched", "addPod"}
      BY <1>1, <2>2, <3>2 DEF PageOK
    <3>4. r \in 0 .. Slots
      BY <3>1, <3>3, LongestType
    <3>5. /\ rank' = [rank EXCEPT ![p] = r]
          /\ rankMap' = IF r = rank[p] THEN rankMap
                        ELSE (rankMap \ {<<rank[p], p>>}) \cup {<<r, p>>}
      BY <1>1, <2>2, <3>1, <3>3 DEF Search, adjustPodList, SetRank, Moved
    <3>6. /\ rank' \in [Page -> 0 .. Slots] /\ rankMap' \subseteq (0 .. Slots) \X Page
          /\ rank'[p] = r /\ Listed(p)'
          /\ \A n \in 0 .. Slots : <<n, p>> \in rankMap' => n = rank'[p]
          /\ \A q \in Page \ {p} :
                 /\ rank'[q] = rank[q]
                 /\ \A n \in 0 .. Slots : <<n, q>> \in rankMap' <=> <<n, q>> \in rankMap
      BY <2>2, <3>2, <3>3, <3>4, <3>5, Relisted DEF SplInv
    <3>7. PageOK(p)'
      BY <1>2, <1>6, <2>2, <3>1, <3>2, <3>3, <3>6 DEF PageOK, podVars
    <3>8. ASSUME NEW q \in Page, q # p PROVE PageOK(q)'
      <4>1. Same(q)
        BY <1>1, <1>2, <1>5, <1>6, <3>6, <3>8 DEF Same, Goes, podVars
      <4> QED
        BY <4>1, SamePage DEF SplInv, PagesOK
    <3> QED
      BY <3>6, <3>7, <3>8 DEF PagesOK
  <2> QED
    BY <1>2, <2>1, <2>2
<1>9. VarsOK'
  <2>1. todo' \subseteq Page /\ splLock' \in Thread \cup {NoThread}
    BY <1>2, <1>4 DEF SplInv, VarsOK
  <2>2. pc' \in [Thread -> Label]
    BY <1>4 DEF SplInv, VarsOK, Goto, Label, ListLocked, OwnerLabel
  <2> QED
    BY <1>2, <1>8, <2>1, <2>2 DEF SplInv, VarsOK, podVars, appVars
<1>10. ControlOK'
  <2>1. l = "list" => \A q \in todo' : <<TopRank(rankMap'), q>> \in rankMap'
    BY <1>4
  <2> QED
    BY <1>2, <1>4, <1>5, <2>1 DEF SplInv, ControlOK, Goes, ListLocked, OwnerLabel, Moving, page
<1> QED
  BY <1>6, <1>7, <1>8, <1>9, <1>10 DEF SplInv

\* clearLocalFreeBuffer: a resident page nobody has is flushed and moved to its rank,
\* which it is always found under; a busy one stays in the buffer.
LEMMA clearLocalFreeBufferStep ==
    ASSUME SplInv, clearLocalFreeBuffer(Owner), UNCHANGED load
    PROVE  SplInv'
<1> USE ThreadFacts
<1>1. PICK p \in todo :
        /\ IF Free(p) /\ state[p] = "local" /\ freeBuffer[p] # <<>>
           THEN flushOnePage(p)
           ELSE UNCHANGED <<heap, freeBuffer, rank, rankMap, fatal>>
        /\ localFreeBuffer' = IF Free(p) THEN localFreeBuffer \ {p} ELSE localFreeBuffer
        /\ todo' = todo \ {p}
  BY DEF clearLocalFreeBuffer
<1>2. /\ pc[Owner] = "clear" /\ p \in Page /\ lastAllocatedPod = NoPage
      /\ UNCHANGED <<lastAllocatedPod, state, lockVars, count, appVars, LRU, pc, cur>>
  BY DEF clearLocalFreeBuffer, At, SplInv, VarsOK, ControlOK
<1>3. Goes(Owner, "clear", cur[Owner])
  BY <1>2 DEF Goes
<1>4. MutexOK' /\ \A q \in Page : Holder(q)' = Holder(q)
  BY <1>2, <1>3, GoesFree DEF SplInv, Holding, lockVars
<1>5. localFreeBuffer' \subseteq Page /\ todo' \subseteq Page
  BY <1>1 DEF SplInv, VarsOK
<1>6. CASE Free(p) /\ state[p] = "local" /\ freeBuffer[p] # <<>>
  <2>1. PICK r : r = Longest(Flushed(heap[p], freeBuffer[p]))
    OBVIOUS
  <2>2. PageOK(p) /\ Holder(p) = "none" /\ p # lastAllocatedPod
    BY <1>2, <1>6 DEF SplInv, PagesOK, Free, Holder
  <2>3. Listed(p)
    BY <1>6, <2>2 DEF PageOK
  <2>4. r \in 0 .. Slots
    BY <1>2, <2>1, FlushFacts
  <2>5. flushFreeBuffer(p)
    BY <1>1, <1>6 DEF flushOnePage
  <2>6. /\ AccountOK'
        /\ heap' \in [Page -> SUBSET (Slot \X (1 .. Slots))]
        /\ freeBuffer' \in [Page -> Seq(Slot)]
        /\ HeapOK(heap'[p]) /\ heap'[p] = Flushed(heap[p], freeBuffer[p]) /\ freeBuffer'[p] = <<>>
        /\ \A q \in Page \ {p} : heap'[q] = heap[q] /\ freeBuffer'[q] = freeBuffer[q]
    BY <1>2, <1>3, <2>5, FlushAccount DEF Moving, appVars
  <2>7. /\ rank' = [rank EXCEPT ![p] = r]
        /\ rankMap' = IF r = rank[p] THEN rankMap
                      ELSE (rankMap \ {<<rank[p], p>>}) \cup {<<r, p>>}
        /\ fatal' = (r # rank[p] /\ ~HasRank(rank[p]))
    BY <1>1, <1>6, <2>1, <2>6 DEF flushOnePage, SetRank, Moved
  <2>8. ~fatal'
    <3>1. HasRank(rank[p])
      BY <2>3 DEF Listed, HasRank
    <3> QED
      BY <2>7, <3>1
  <2>9. /\ rank' \in [Page -> 0 .. Slots] /\ rankMap' \subseteq (0 .. Slots) \X Page
        /\ rank'[p] = r /\ Listed(p)'
        /\ \A n \in 0 .. Slots : <<n, p>> \in rankMap' => n = rank'[p]
        /\ \A q \in Page \ {p} :
               /\ rank'[q] = rank[q]
               /\ \A n \in 0 .. Slots : <<n, q>> \in rankMap' <=> <<n, q>> \in rankMap
    BY <1>2, <2>2, <2>3, <2>4, <2>7, Relisted DEF SplInv
  <2>10. VarsOK'
    BY <1>2, <1>5, <2>6, <2>9 DEF SplInv, VarsOK, lockVars, appVars
  <2>11. ControlOK'
    BY <1>2, <1>3, <2>8 DEF SplInv, ControlOK, lockVars, page
  <2>12. PageOK(p)'
    BY <1>2, <1>4, <1>6, <2>1, <2>2, <2>6, <2>9 DEF PageOK
  <2>13. ASSUME NEW q \in Page, q # p PROVE PageOK(q)'
    <3>1. Same(q)
      BY <1>1, <1>2, <1>4, <2>6, <2>9, <2>13 DEF Same
    <3> QED
      BY <3>1, SamePage DEF SplInv, PagesOK
  <2> QED
    BY <1>4, <2>6, <2>10, <2>11, <2>12, <2>13 DEF SplInv, PagesOK
<1>7. CASE ~(Free(p) /\ state[p] = "local" /\ freeBuffer[p] # <<>>)
  <2>1. UNCHANGED <<heap, freeBuffer, rank, rankMap, fatal>>
    BY <1>1, <1>7
  <2>2. VarsOK'
    BY <1>2, <1>5, <2>1 DEF SplInv, VarsOK, lockVars, appVars
  <2>3. ControlOK'
    BY <1>2, <1>3, <2>1 DEF SplInv, ControlOK, lockVars, page
  <2>4. AccountOK'
    BY <1>2, <1>3, <2>1, AccountSame DEF SplInv, Moving, appVars
  <2>5. ASSUME NEW q \in Page PROVE PageOK(q)'
    <3>1. CASE q = p
      <4>1. PageOK(p)
        BY <1>2 DEF SplInv, PagesOK
      <4>2. state[p] = "local" /\ freeBuffer[p] # <<>> => p \in localFreeBuffer'
        BY <1>1, <1>7, <4>1 DEF PageOK
      <4> QED
        BY <1>2, <1>4, <2>1, <3>1, <4>1, <4>2 DEF PageOK, Listed
    <3>2. CASE q # p
      <4>1. Same(q)
        BY <1>1, <1>2, <1>4, <2>1, <3>2 DEF Same
      <4> QED
        BY <4>1, SamePage DEF SplInv, PagesOK
    <3> QED
      BY <3>1, <3>2
  <2> QED
    BY <1>4, <2>2, <2>3, <2>4, <2>5 DEF SplInv, PagesOK
<1> QED
  BY <1>6, <1>7

\* allocateOfAList: the entry the code erases, under the highest rank, is the page's.
LEMMA allocateOfAListStep ==
    ASSUME SplInv, allocateOfAList(Owner), UNCHANGED load
    PROVE  SplInv'
<1> USE ThreadFacts
<1>1. PICK p \in todo :
        IF Free(p) /\ state[p] = "local" /\ Fits(heap[p], needed) # {}
        THEN \E b \in Fits(heap[p], needed) :
             /\ heap' = [heap EXCEPT ![p] = Allocated(@, b, needed)]
             /\ lastAllocatedPod' = p
             /\ SetRank(p, Longest(heap'[p]))
             /\ rankMap' = IF rank'[p] = rank[p] THEN rankMap
                           ELSE (rankMap \ {<<TopRank(rankMap), p>>})
                                    \cup {<<rank'[p], p>>}
             /\ With(Owner, p, b[1])
             /\ splLock' = NoThread
             /\ todo' = {}
             /\ Goto(Owner, "relist")
        ELSE /\ todo' = todo \ {p}
             /\ UNCHANGED <<heap, lastAllocatedPod, rank, rankMap, cur, splLock, pc>>
  BY DEF allocateOfAList
<1>2. /\ pc[Owner] = "list" /\ p \in Page /\ lastAllocatedPod = NoPage /\ splLock = Owner
      /\ <<TopRank(rankMap), p>> \in rankMap
      /\ UNCHANGED <<localFreeBuffer, state, freeBuffer, mutex, count, appVars, LRU, fatal>>
  BY DEF allocateOfAList, At, SplInv, VarsOK, ControlOK, ListLocked
<1>3. TopRank(rankMap) = rank[p] /\ PageOK(p) /\ Listed(p)
  <2>1. PageOK(p) /\ TopRank(rankMap) \in 0 .. Slots
    BY <1>2 DEF SplInv, PagesOK, VarsOK
  <2> QED
    BY <1>2, <2>1 DEF PageOK, Listed
<1>4. CASE Free(p) /\ state[p] = "local" /\ Fits(heap[p], needed) # {}
  <2>1. PICK b \in Fits(heap[p], needed) :
             /\ heap' = [heap EXCEPT ![p] = Allocated(@, b, needed)]
             /\ lastAllocatedPod' = p
             /\ SetRank(p, Longest(heap'[p]))
             /\ rankMap' = IF rank'[p] = rank[p] THEN rankMap
                           ELSE (rankMap \ {<<rank[p], p>>}) \cup {<<rank'[p], p>>}
             /\ With(Owner, p, b[1])
             /\ splLock' = NoThread
             /\ todo' = {}
             /\ Goto(Owner, "relist")
    BY <1>1, <1>3, <1>4
  <2>2. Goes(Owner, "relist", <<p, b[1]>>)
    BY <2>1 DEF Goes, SplInv, VarsOK, Goto, With
  <2>3. /\ AccountOK' /\ b[1] \in Slot /\ heap' \in [Page -> SUBSET (Slot \X (1 .. Slots))]
        /\ HeapOK(heap'[p]) /\ \A q \in Page \ {p} : heap'[q] = heap[q]
    BY <1>2, <2>1, <2>2, TakenAccount DEF Moving, appVars
  <2>4. MutexOK' /\ \A q \in Page : Holder(q)' = Holder(q)
    BY <1>2, <2>2, GoesFree DEF SplInv, Holding
  <2>5. PICK r : r = Longest(heap'[p])
    OBVIOUS
  <2>6. r \in 0 .. Slots
    BY <2>3, <2>5, LongestType
  <2>7. /\ rank' = [rank EXCEPT ![p] = r]
        /\ rankMap' = IF r = rank[p] THEN rankMap
                      ELSE (rankMap \ {<<rank[p], p>>}) \cup {<<r, p>>}
    <3>1. rank' = [rank EXCEPT ![p] = r] /\ rank'[p] = r
      BY <1>2, <2>1, <2>5 DEF SetRank, SplInv, VarsOK
    <3> QED
      BY <2>1, <3>1
  <2>8. /\ rank' \in [Page -> 0 .. Slots] /\ rankMap' \subseteq (0 .. Slots) \X Page
        /\ rank'[p] = r /\ Listed(p)'
        /\ \A n \in 0 .. Slots : <<n, p>> \in rankMap' => n = rank'[p]
        /\ \A q \in Page \ {p} :
               /\ rank'[q] = rank[q]
               /\ \A n \in 0 .. Slots : <<n, q>> \in rankMap' <=> <<n, q>> \in rankMap
    BY <1>2, <1>3, <2>6, <2>7, Relisted DEF SplInv
  <2>9. VarsOK'
    <3>1. pc' \in [Thread -> Label] /\ cur' \in [Thread -> (Page \cup {NoPage}) \X Slot]
      BY <1>2, <2>1, <2>3 DEF SplInv, VarsOK, Goto, With, Label, OwnerLabel
    <3> QED
      BY <1>2, <2>1, <2>3, <2>8, <3>1 DEF SplInv, VarsOK, appVars
  <2>10. ControlOK'
    BY <1>2, <2>1, <2>2 DEF SplInv, ControlOK, Goes, ListLocked, OwnerLabel, Moving, page
  <2>11. pc'[Owner] = "relist" /\ Holder(p)' = "none"
    BY <1>2, <1>4, <2>2, <2>4 DEF Goes, Free, Holder
  <2>12. PageOK(p)'
    BY <1>2, <1>3, <1>4, <2>1, <2>3, <2>8, <2>11 DEF PageOK
  <2>13. ASSUME NEW q \in Page, q # p PROVE PageOK(q)'
    <3>1. Same(q)
      BY <1>2, <2>1, <2>3, <2>4, <2>8, <2>11, <2>13 DEF Same
    <3> QED
      BY <3>1, SamePage DEF SplInv, PagesOK
  <2> QED
    BY <2>3, <2>4, <2>9, <2>10, <2>12, <2>13 DEF SplInv, PagesOK
<1>5. CASE ~(Free(p) /\ state[p] = "local" /\ Fits(heap[p], needed) # {})
  <2>1. todo' = todo \ {p} /\ UNCHANGED <<heap, lastAllocatedPod, rank, rankMap, cur, splLock, pc>>
    BY <1>1, <1>5
  <2>2. Goes(Owner, "list", cur[Owner])
    BY <1>2, <2>1 DEF Goes
  <2>3. MutexOK' /\ \A q \in Page : Holder(q)' = Holder(q)
    BY <1>2, <2>2, GoesFree DEF SplInv, Holding
  <2>4. VarsOK'
    BY <1>2, <2>1 DEF SplInv, VarsOK, appVars
  <2>5. ControlOK'
    BY <1>2, <2>1 DEF SplInv, ControlOK, page
  <2>6. AccountOK'
    BY <1>2, <2>1, <2>2, AccountSame DEF SplInv, Moving, appVars
  <2>7. ASSUME NEW q \in Page PROVE PageOK(q)'
    <3>1. Same(q)
      BY <1>2, <2>1, <2>3 DEF Same
    <3> QED
      BY <3>1, SamePage DEF SplInv, PagesOK
  <2> QED
    BY <2>3, <2>4, <2>5, <2>6, <2>7 DEF SplInv, PagesOK
<1> QED
  BY <1>4, <1>5

-----------------------------------------------------------------------------
(***************************************************************************)
(* The theorems.                                                           *)
(***************************************************************************)

\* Every page starts in the allocation buffer, empty, and nobody has anything.
LEMMA InitInv == Init => SplInv
<1> SUFFICES ASSUME Init PROVE SplInv
  OBVIOUS
<1> USE ThreadFacts DEF Init
<1>1. VarsOK
  <2>1. {Whole} \in SUBSET (Slot \X (1 .. Slots)) /\ <<>> \in Seq(Slot) /\ 0 \in Slot
    BY SlotFacts DEF HeapOK
  <2> QED
    BY <2>1 DEF VarsOK, Label
<1>2. MutexOK /\ ControlOK
  BY DEF MutexOK, ControlOK, Holding, ListLocked, OwnerLabel, Moving
<1>3. PagesOK
  BY SlotFacts DEF PagesOK, PageOK, Holder, Listed
<1>4. AccountOK
  <2>1. \A p, s : ~Carried(p, s)
    BY DEF Carried, Moving
  <2>2. Noted(<<>>) = {} /\ Distinct(<<>>)
    BY DEF Noted, Distinct
  <2>3. ASSUME NEW p \in Page, NEW s \in Slot PROVE SlotOK(p, s)
    BY <2>1, <2>2, SlotFacts DEF SlotOK, OneOf
  <2> QED
    BY <2>2, <2>3 DEF AccountOK, Moving
<1> QED
  BY <1>1, <1>2, <1>3, <1>4 DEF SplInv

\* Nothing changes: SplInv stays.
LEMMA StutterInv ==
    ASSUME SplInv, UNCHANGED vars
    PROVE  SplInv'
<1> USE DEF vars, splVars, podVars, lockVars, ownerVars, appVars
<1>1. VarsOK'
  BY DEF SplInv, VarsOK
<1>2. MutexOK' /\ ControlOK'
  BY DEF SplInv, MutexOK, ControlOK, page
<1>3. PagesOK'
  BY DEF SplInv, PagesOK, PageOK, Holder, Listed
<1>4. AccountOK'
  BY DEF SplInv, AccountOK, SlotOK, OneOf, Carried
<1> QED
  BY <1>1, <1>2, <1>3, <1>4 DEF SplInv

\* Every step keeps SplInv while no buffer fills.
LEMMA NextInv == SplInv /\ NoBufferFills /\ [Next]_vars => SplInv'
<1> SUFFICES ASSUME SplInv, NoBufferFills, [Next]_vars PROVE SplInv'
  OBVIOUS
<1> USE ThreadFacts
<1>1. CASE UNCHANGED vars
  BY <1>1, StutterInv
<1>2. ASSUME UNCHANGED load, OwnerStep(Owner) PROVE SplInv'
  BY <1>2, tryAllocateWithPreviousPodStep, PreviousPodBusyStep, RegainStep, SearchStep,
     clearLocalFreeBufferStep, BufferClearedStep, allocateOfAListStep, ListExhaustedStep,
     RelistStep, getBufferedPodStep, addPodAndAllocateStep DEF OwnerStep
<1>3. ASSUME UNCHANGED load, NEW t \in Thread, PageStep(t) PROVE SplInv'
  <2>1. ~FlushFull(t)
    BY DEF FlushFull, At, SplInv, ControlOK
  <2> QED
    BY <1>3, <2>1, freeStep, activatePodStep, unbenchSwappedPageStep, UnlockPodStep,
       benchSwappedPageStep, pickPodToEvictStep DEF PageStep
<1>4. ASSUME UNCHANGED load, NEW p \in Page, trim(p) PROVE SplInv'
  BY <1>4, trimStep, StutterInv
<1>5. ASSUME UNCHANGED load, NEW t \in Thread, remonFree(t) \/ activateAddress(t) \/ getFromLRUList(t)
      PROVE  SplInv'
  BY <1>5, remonFreeStep, activateAddressStep, getFromLRUListStep
<1>6. load.threads \subseteq Thread
  BY DEF SplInv, VarsOK
<1>7. CASE Next
  <2>1. Step /\ UNCHANGED load
    BY <1>7 DEF Next
  <2> QED
    BY <1>2, <1>3, <1>4, <1>5, <1>6, <2>1, allocateStep DEF Step
<1> QED
  BY <1>1, <1>7

\* The list, the pages and the objects are as SplInv says as long as no free finds
\* its buffer about to be full.
THEOREM SplInvariance == Spec /\ []NoBufferFills => []SplInv
  BY InitInv, NextInv, PTL DEF Spec

\* A buffer with room for more than the objects of a page never fills, whatever the
\* threads do: the object being freed is not in it yet, and it holds none twice.
LEMMA RoomLeft ==
    ASSUME SplInv, load.MAX_FREE_BUFF_SIZE > Slots
    PROVE  NoBufferFills
<1> SUFFICES ASSUME NEW t \in Thread, pc[t] = "free"
             PROVE  Len(freeBuffer[page(t)]) + 1 < load.MAX_FREE_BUFF_SIZE
  BY DEF NoBufferFills
<1> USE ThreadFacts
<1> DEFINE p == page(t)
           x == cur[t][2]
<1>1. p \in Page /\ x \in Slot /\ cur[t] = <<p, x>> /\ Carried(p, x)
  <2>1. cur[t] \in (Page \cup {NoPage}) \X Slot
    BY DEF SplInv, VarsOK
  <2>2. p \in Page
    BY DEF SplInv, MutexOK, Holding
  <2>3. x \in Slot /\ cur[t] = <<p, x>>
    BY <2>1 DEF page
  <2> HIDE DEF p, x
  <2> QED
    BY <2>2, <2>3 DEF Carried, Moving
<1> HIDE DEF p, x
<1>2. freeBuffer[p] \in Seq(Slot) /\ Distinct(freeBuffer[p]) /\ x \notin Noted(freeBuffer[p])
  BY <1>1 DEF SplInv, VarsOK, AccountOK, SlotOK, OneOf
<1>3. Len(freeBuffer[p]) < Slots
  BY <1>1, <1>2, BufferBound
<1>4. Len(freeBuffer[p]) \in Nat /\ load.MAX_FREE_BUFF_SIZE \in Nat
  BY <1>2 DEF SplInv, VarsOK
<1> QED
  BY <1>3, <1>4 DEF p

\* MAX_FREE_BUFF_SIZE is 1024: the pages of a size class with fewer objects to a page
\* never have a full buffer, so the path on which free gives up the page's mutex
\* before it flushes is never taken.
THEOREM BuffersNeverFill ==
    Spec /\ load.MAX_FREE_BUFF_SIZE > Slots => []NoBufferFills
<1> DEFINE Large == load.MAX_FREE_BUFF_SIZE > Slots
<1>1. SplInv /\ Large => NoBufferFills
  BY RoomLeft
<1>2. Large /\ [Next]_vars => Large'
  BY DEF Next, vars
<1> QED
  BY <1>1, <1>2, InitInv, NextInv, PTL DEF Spec

\* Every variable has its type, and no buffer holds more than the objects of its
\* page: no object is freed twice into it.
THEOREM TypeCorrect == Spec /\ []NoBufferFills => []TypeOK
<1>1. SplInv => TypeOK
  <2> SUFFICES ASSUME SplInv PROVE TypeOK
    OBVIOUS
  <2>1. ASSUME NEW p \in Page
        PROVE  /\ heap[p] \subseteq Slot \X (1 .. Slots) /\ freeBuffer[p] \in Seq(Slot)
               /\ Len(freeBuffer[p]) <= Slots
    <3>1. freeBuffer[p] \in Seq(Slot) /\ Distinct(freeBuffer[p]) /\ heap[p] \subseteq Slot \X (1 .. Slots)
      BY DEF SplInv, VarsOK, AccountOK
    <3> QED
      BY <3>1, BufferBound
  <2> QED
    BY <2>1 DEF SplInv, VarsOK, TypeOK
<1> QED
  BY <1>1, SplInvariance, PTL

\* removePod, flushOnePage and the other searches of the list by rank, which end the
\* process when they find nothing, always find the page.
THEOREM NeverFatalHolds == Spec /\ []NoBufferFills => []NeverFatal
<1>1. SplInv => NeverFatal
  BY DEF SplInv, ControlOK, NeverFatal
<1> QED
  BY <1>1, SplInvariance, PTL

\* Exactly one of five places, counted.
LEMMA OneOfFive ==
    ASSUME NEW f, DOMAIN f = 1 .. 5, OneOf(f[1], f[2], f[3], f[4], f[5])
    PROVE  Cardinality({i \in DOMAIN f : f[i]}) = 1
<1>1. \A i : i \in DOMAIN f <=> i = 1 \/ i = 2 \/ i = 3 \/ i = 4 \/ i = 5
  OBVIOUS
<1>2. \E k : {i \in DOMAIN f : f[i]} = {k}
  <2>1. CASE f[1]
    <3>1. {i \in DOMAIN f : f[i]} = {1}
      BY <1>1, <2>1 DEF OneOf
    <3> QED
      BY <3>1
  <2>2. CASE f[2]
    <3>1. {i \in DOMAIN f : f[i]} = {2}
      BY <1>1, <2>2 DEF OneOf
    <3> QED
      BY <3>1
  <2>3. CASE f[3]
    <3>1. {i \in DOMAIN f : f[i]} = {3}
      BY <1>1, <2>3 DEF OneOf
    <3> QED
      BY <3>1
  <2>4. CASE f[4]
    <3>1. {i \in DOMAIN f : f[i]} = {4}
      BY <1>1, <2>4 DEF OneOf
    <3> QED
      BY <3>1
  <2>5. CASE f[5]
    <3>1. {i \in DOMAIN f : f[i]} = {5}
      BY <1>1, <2>5 DEF OneOf
    <3> QED
      BY <3>1
  <2> QED
    BY <2>1, <2>2, <2>3, <2>4, <2>5 DEF OneOf
<1> QED
  BY <1>2, FS_Singleton

\* allocate, the free buffers, the flushes on eviction, reactivation and clearing, and
\* the dropping of empty pages keep every object of every page in exactly one place.
THEOREM ObjectsAccountedHolds == Spec /\ []NoBufferFills => []ObjectsAccounted
<1>1. SplInv => ObjectsAccounted
  <2> SUFFICES ASSUME SplInv, NEW p \in Page, NEW s \in Slot
               PROVE  LET places == << \E b \in heap[p] : b[1] <= s /\ s < End(b),
                                       <<p, s>> \in objects,
                                       <<p, s>> \in Buffered(p),
                                       <<p, s>> \in InFlight,
                                       <<p, s>> \in lost >>
                      IN  Cardinality({i \in DOMAIN places : places[i]}) = 1
    BY DEF ObjectsAccounted
  <2> DEFINE a == \E b \in heap[p] : b[1] <= s /\ s < End(b)
             b == <<p, s>> \in objects
             c == <<p, s>> \in Buffered(p)
             d == <<p, s>> \in InFlight
             e == <<p, s>> \in lost
             f == <<a, b, c, d, e>>
  <2>1. SlotOK(p, s)
    BY DEF SplInv, AccountOK
  <2>2. a <=> s \in Cover(heap[p])
    BY DEF Cover
  <2>3. <<p, s>> \in Buffered(p) <=> s \in Noted(freeBuffer[p])
    BY DEF Buffered, Noted
  <2>4. <<p, s>> \in InFlight <=> Carried(p, s)
    BY DEF InFlight, Carried, Moving
  <2>5. OneOf(a, b, c, d, e)
    BY <2>1, <2>2, <2>3, <2>4 DEF SlotOK, OneOf
  <2> HIDE DEF a, b, c, d, e
  <2>6. DOMAIN f = 1 .. 5 /\ OneOf(f[1], f[2], f[3], f[4], f[5])
    <3>1. f[1] = a /\ f[2] = b /\ f[3] = c /\ f[4] = d /\ f[5] = e /\ DOMAIN f = 1 .. 5
      OBVIOUS
    <3> HIDE DEF f
    <3> QED
      BY <2>5, <3>1, Zenon
  <2> HIDE DEF f
  <2>7. Cardinality({i \in DOMAIN f : f[i]}) = 1
    BY <2>6, OneOfFive
  <2> QED
    BY <2>7 DEF f, a, b, c, d, e
<1> QED
  BY <1>1, SplInvariance, PTL

\* Whenever the list's lock is free every page is listed once, under its rank, and a
\* resident page nobody has locked under the length of its longest free block.
THEOREM RanksExactHolds == Spec /\ []NoBufferFills => []RanksExact
<1>1. SplInv => RanksExact
  <2> SUFFICES ASSUME SplInv, NEW p \in Page
               PROVE  /\ \A r \in 0 .. Slots : <<r, p>> \in rankMap => r = rank[p]
                      /\ (Free(p) /\ p # lastAllocatedPod) =>
                            IF state[p] = "local"
                            THEN <<rank[p], p>> \in rankMap /\ rank[p] = Longest(heap[p])
                            ELSE <<rank[p], p>> \notin rankMap
    BY DEF RanksExact
  <2>1. PageOK(p)
    BY DEF SplInv, PagesOK
  <2>2. Free(p) => Holder(p) = "none"
    BY DEF Free, Holder
  <2> QED
    BY <2>1, <2>2 DEF PageOK, Listed
<1> QED
  BY <1>1, SplInvariance, PTL

\* No clearing, eviction or reactivation leaves behind a resident page with frees in
\* its buffer: the next allocation that runs out of space finds it.
THEOREM FreesAreFoundHolds == Spec /\ []NoBufferFills => []FreesAreFound
<1>1. SplInv => FreesAreFound
  BY DEF SplInv, PagesOK, PageOK, FreesAreFound
<1> QED
  BY <1>1, SplInvariance, PTL

\* The page last allocated from is never evicted while it is that, so that allocate,
\* which reads it under the list's lock alone, does not fault there.
THEOREM LastPageResidentHolds == Spec /\ []NoBufferFills => []LastPageResident
<1>1. SplInv => LastPageResident
  BY DEF SplInv, VarsOK, PagesOK, PageOK, LastPageResident
<1> QED
  BY <1>1, SplInvariance, PTL

\* With buffers larger than a page all of it holds of every execution.
THEOREM SmallPagesCorrect ==
    Spec /\ load.MAX_FREE_BUFF_SIZE > Slots
        => [](TypeOK /\ NeverFatal /\ ObjectsAccounted /\ RanksExact /\ FreesAreFound
                 /\ LastPageResident)
  BY BuffersNeverFill, TypeCorrect, NeverFatalHolds, ObjectsAccountedHolds,
     RanksExactHolds, FreesAreFoundHolds, LastPageResidentHolds, PTL
=============================================================================

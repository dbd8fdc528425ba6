---------------------- MODULE TopLevelAllocatorProofs ----------------------
(***************************************************************************)
(* For every size of the region: the blocks tile it, the lists hold every  *)
(* free block exactly once, and the allocator implements BlockStore.       *)
(*                                                                         *)
(* Header and Listed are what a recursive function reaches.  Induction     *)
(* over such a function is a minimal counterexample: a nonempty set of     *)
(* numbers has a least element (LeastOf), and the stage before the least   *)
(* one that fails does not fail.                                           *)
(***************************************************************************)
EXTENDS TopLevelAllocator, FiniteSetTheorems, WellFoundedInduction, TLAPS

\* A nonempty set of numbers has a least element.
LEMMA LeastOf ==
    ASSUME NEW S, S \subseteq Nat, S # {}
    PROVE  \E x \in S : \A y \in S : x <= y
<1> DEFINE R == OpToRel(<, Nat)
<1>1. PICK x \in S : \A y \in S : ~(<<y, x>> \in R)
  BY NatLessThanWellFounded, WFMin
<1>2. ASSUME NEW y \in S PROVE x <= y
  <2>1. x \in Nat /\ y \in Nat
    OBVIOUS
  <2>2. ~(y < x)
    BY <1>1, <2>1 DEF OpToRel
  <2> QED
    BY <2>1, <2>2
<1> QED
  BY <1>2

\* One step of f from the pages of T.
Grown(T, f) == T \cup ({f[i] : i \in T} \cap Page)

\* g is the recursive function of Reached up to n.
Stages(S, f, n, g) == g = [k \in 0 .. n |-> IF k = 0 THEN S ELSE Grown(g[k - 1], f)]

\* The recursive function of Reached exists, whatever the number of stages.
LEMMA StagesExist ==
    ASSUME NEW S, NEW f, NEW n \in Nat
    PROVE  \E g : Stages(S, f, n, g)
<1> USE DEF Stages
<1> DEFINE P(m) == \E g : g = [k \in 0 .. m |-> IF k = 0 THEN S ELSE Grown(g[k - 1], f)]
           B == {m \in Nat : ~P(m)}
<1> SUFFICES ASSUME ~P(n) PROVE FALSE
  OBVIOUS
<1>1. PICK m \in B : \A y \in B : m <= y
  <2>1. B # {} /\ B \subseteq Nat
    OBVIOUS
  <2> HIDE DEF B
  <2> QED
    BY <2>1, LeastOf
<1>2. P(0)
  <2> DEFINE g == [k \in 0 .. 0 |-> S]
  <2>1. g = [k \in 0 .. 0 |-> IF k = 0 THEN S ELSE Grown(g[k - 1], f)]
    OBVIOUS
  <2> QED
    BY <2>1
<1>3. m # 0 /\ m - 1 \in Nat
  BY <1>2
<1>4. P(m - 1)
  <2>1. m - 1 \notin B
    BY <1>1, <1>3
  <2> QED
    BY <1>3, <2>1
<1>5. PICK g : g = [k \in 0 .. m - 1 |-> IF k = 0 THEN S ELSE Grown(g[k - 1], f)]
  BY <1>4
<1> DEFINE h == [k \in 0 .. m |-> IF k = m THEN Grown(g[m - 1], f) ELSE g[k]]
<1>6. h = [k \in 0 .. m |-> IF k = 0 THEN S ELSE Grown(h[k - 1], f)]
  <2>1. ASSUME NEW k \in 0 .. m
        PROVE  h[k] = IF k = 0 THEN S ELSE Grown(h[k - 1], f)
    <3>1. CASE k = m
      <4>1. h[k - 1] = g[m - 1]
        BY <1>3, <3>1
      <4> QED
        BY <1>3, <3>1, <4>1
    <3>2. CASE k # m /\ k # 0
      <4>1. k \in 0 .. m - 1 /\ k - 1 \in 0 .. m - 1 /\ k - 1 # m
        BY <1>3, <3>2
      <4>2. h[k] = g[k] /\ h[k - 1] = g[k - 1]
        BY <1>3, <3>2, <4>1
      <4>3. g[k] = Grown(g[k - 1], f)
        BY <1>5, <4>1, <3>2
      <4> QED
        BY <3>2, <4>2, <4>3
    <3>3. CASE k # m /\ k = 0
      BY <1>3, <1>5, <3>3
    <3> QED
      BY <3>1, <3>2, <3>3
  <2> QED
    BY <2>1
<1>7. P(m)
  BY <1>6
<1> QED
  BY <1>7

\* So Reached is the last of PodCount stages.
LEMMA ReachedStages ==
    ASSUME NEW S, NEW f
    PROVE  \E R : /\ R = [k \in 0 .. PodCount |-> IF k = 0 THEN S ELSE Grown(R[k - 1], f)]
                  /\ Reached(S, f) = R[PodCount]
<1> DEFINE R == CHOOSE R : R = [k \in 0 .. PodCount |-> IF k = 0 THEN S ELSE R[k - 1] \cup ({f[i] : i \in R[k - 1]} \cap Page)]
<1>1. Reached(S, f) = R[PodCount]
  BY DEF Reached
<1>2. \E g : Stages(S, f, PodCount, g)
  <2>1. PodCount \in Nat
    BY PodCountAssumption
  <2> HIDE DEF R
  <2> QED
    BY <2>1, StagesExist
<1>3. R = [k \in 0 .. PodCount |-> IF k = 0 THEN S ELSE R[k - 1] \cup ({f[i] : i \in R[k - 1]} \cap Page)]
  BY <1>2 DEF Stages, Grown
<1> HIDE DEF R
<1>4. R = [k \in 0 .. PodCount |-> IF k = 0 THEN S ELSE Grown(R[k - 1], f)]
  BY <1>3 DEF Grown
<1> QED
  BY <1>1, <1>4

\* Reached(S, f) contains S, is closed under f, and is the least such set.
LEMMA ReachedLeast ==
    ASSUME NEW S, NEW f, S \subseteq Page
    PROVE  /\ S \subseteq Reached(S, f) /\ Reached(S, f) \subseteq Page
           /\ \A i \in Reached(S, f) : f[i] \in Page => f[i] \in Reached(S, f)
           /\ \A T : (S \subseteq T /\ \A i \in T : f[i] \in Page => f[i] \in T)
                        => Reached(S, f) \subseteq T
<1> DEFINE n == PodCount
<1>1. PICK R : /\ R = [k \in 0 .. n |-> IF k = 0 THEN S ELSE Grown(R[k - 1], f)]
               /\ Reached(S, f) = R[n]
  BY ReachedStages
<1>2. n \in Nat
  BY PodCountAssumption
<1>3. R[0] = S /\ \A k \in 0 .. n : k # 0 => R[k] = Grown(R[k - 1], f)
  BY <1>1, <1>2
<1> HIDE DEF n
\* By induction on the stages: they grow, inside every closed set that holds S.
<1>4. ASSUME NEW T, S \subseteq T, \A i \in T : f[i] \in Page => f[i] \in T
      PROVE  \A k \in 0 .. n : R[k] \subseteq T
  <2> DEFINE B == {k \in 0 .. n : ~(R[k] \subseteq T)}
  <2> SUFFICES ASSUME B # {} PROVE FALSE
    OBVIOUS
  <2>1. PICK m \in B : \A y \in B : m <= y
    <3>1. B \subseteq Nat
      BY <1>2
    <3> HIDE DEF B
    <3> QED
      BY <3>1, LeastOf
  <2>2. m # 0
    BY <1>3, <1>4
  <2>3. m - 1 \in 0 .. n /\ R[m - 1] \subseteq T
    BY <1>2, <2>1, <2>2
  <2>4. R[m] = Grown(R[m - 1], f)
    BY <1>3, <2>2
  <2>5. R[m] \subseteq T
    BY <1>4, <2>3, <2>4 DEF Grown
  <2> QED
    BY <2>5
<1>5. \A k \in 0 .. n : R[k] \subseteq Page
  BY <1>4
<1>6. \A k \in 0 .. n : S \subseteq R[k]
  <2> DEFINE B == {k \in 0 .. n : ~(S \subseteq R[k])}
  <2> SUFFICES ASSUME B # {} PROVE FALSE
    OBVIOUS
  <2>1. PICK m \in B : \A y \in B : m <= y
    <3>1. B \subseteq Nat
      BY <1>2
    <3> HIDE DEF B
    <3> QED
      BY <3>1, LeastOf
  <2>2. m # 0
    BY <1>3
  <2>3. m - 1 \in 0 .. n /\ S \subseteq R[m - 1]
    BY <1>2, <2>1, <2>2
  <2>4. R[m] = Grown(R[m - 1], f)
    BY <1>3, <2>2
  <2> QED
    BY <2>3, <2>4 DEF Grown
\* A stage is closed or has at least as many pages as its number, so the last one
\* is closed or holds every page.
<1> DEFINE Closed(T) == \A i \in T : f[i] \in Page => f[i] \in T
<1>7. IsFiniteSet(Page) /\ Cardinality(Page) = n
  BY <1>2, FS_Interval DEF Page, n
<1>8. \A k \in 0 .. n : IsFiniteSet(R[k]) /\ Cardinality(R[k]) \in Nat
  BY <1>5, <1>7, FS_Subset, FS_CardinalityType
<1>9. \A k \in 0 .. n : Closed(R[k]) \/ Cardinality(R[k]) >= k
  <2> DEFINE B == {k \in 0 .. n : ~(Closed(R[k]) \/ Cardinality(R[k]) >= k)}
  <2> SUFFICES ASSUME B # {} PROVE FALSE
    OBVIOUS
  <2>1. PICK m \in B : \A y \in B : m <= y
    <3>1. B \subseteq Nat
      BY <1>2
    <3> HIDE DEF B
    <3> QED
      BY <3>1, LeastOf
  <2>2. m \in 0 .. n /\ ~Closed(R[m]) /\ ~(Cardinality(R[m]) >= m)
    OBVIOUS
  <2>3. m # 0
    BY <1>8, <2>2
  <2>4. m - 1 \in 0 .. n /\ (Closed(R[m - 1]) \/ Cardinality(R[m - 1]) >= m - 1)
    BY <1>2, <2>1, <2>2, <2>3
  <2>5. R[m] = Grown(R[m - 1], f)
    BY <1>3, <2>2, <2>3
  <2>6. CASE Closed(R[m - 1])
    <3>1. R[m] = R[m - 1]
      BY <2>5, <2>6 DEF Grown
    <3> QED
      BY <2>2, <2>6, <3>1
  <2>7. CASE ~Closed(R[m - 1])
    <3>1. PICK i \in R[m - 1] : f[i] \in Page /\ f[i] \notin R[m - 1]
      BY <2>7
    <3>2. R[m - 1] \cup {f[i]} \subseteq R[m]
      BY <2>5, <3>1 DEF Grown
    <3>3. Cardinality(R[m - 1] \cup {f[i]}) = Cardinality(R[m - 1]) + 1
      <4> HIDE DEF B, Closed
      <4>1. IsFiniteSet(R[m - 1])
        BY <1>8, <2>4
      <4> QED
        BY <3>1, <4>1, FS_AddElement
    <3>4. Cardinality(R[m - 1] \cup {f[i]}) <= Cardinality(R[m])
      BY <1>8, <2>2, <3>2, FS_Subset
    <3>5. Cardinality(R[m]) >= m
      BY <1>8, <2>2, <2>4, <2>7, <3>3, <3>4
    <3> QED
      BY <2>2, <3>5
  <2> QED
    BY <2>6, <2>7
<1>10. Closed(R[n])
  <2>1. n \in 0 .. n
    BY <1>2
  <2>2. CASE Cardinality(R[n]) >= n
    <3>1. Cardinality(R[n]) <= Cardinality(Page)
      BY <1>5, <1>7, <2>1, FS_Subset
    <3>2. Cardinality(R[n]) = Cardinality(Page)
      BY <1>2, <1>7, <1>8, <2>1, <2>2, <3>1
    <3>3. R[n] = Page
      BY <1>5, <1>7, <2>1, <3>2, FS_Subset
    <3> QED
      BY <3>3
  <2> QED
    BY <1>9, <2>1, <2>2
<1>11. n \in 0 .. n
  BY <1>2
<1> QED
  BY <1>1, <1>4, <1>5, <1>6, <1>10, <1>11

\* Of the members of a set below m there is a greatest.
LEMMA GreatestBelow ==
    ASSUME NEW S, S \subseteq Nat, NEW m \in Nat, NEW x \in S, x < m
    PROVE  \E p \in S : p < m /\ \A q \in S : q < m => q <= p
<1> DEFINE D == {d \in Nat : \E q \in S : q < m /\ d = m - q}
<1>1. D \subseteq Nat /\ D # {}
  <2>1. m - x \in D
    OBVIOUS
  <2> QED
    BY <2>1
<1>2. PICK d \in D : \A e \in D : d <= e
  <2> HIDE DEF D
  <2> QED
    BY <1>1, LeastOf
<1>3. PICK p \in S : p < m /\ d = m - p
  OBVIOUS
<1>4. ASSUME NEW q \in S, q < m PROVE q <= p
  <2>1. m - q \in D
    BY <1>4
  <2>2. p \in Nat /\ q \in Nat
    OBVIOUS
  <2> HIDE DEF D
  <2>3. d <= m - q
    BY <1>2, <2>1
  <2> QED
    BY <1>3, <2>2, <2>3
<1> QED
  BY <1>3, <1>4
-----------------------------------------------------------------------------
\* Blocks with headers H and sizes g tile the region: each ends where the next
\* one, or what lies behind the region, begins.
Tiled(H, g) ==
    /\ H \subseteq Page /\ 0 \in H
    /\ \A i \in H : g[i] \in Size /\ i + g[i] \in H \cup {PodCount}
    /\ \A i, j \in H : i < j => i + g[i] <= j

\* The headers sizes g lead to from the first page: what Header is of globalSize.
Headers(g) == Reached({0}, [i \in Page |-> i + g[i]])

\* Headers that tile the region are the ones the sizes lead to.
LEMMA HeadersAre ==
    ASSUME NEW H, NEW g, Tiled(H, g)
    PROVE  Headers(g) = H
<1> DEFINE f == [i \in Page |-> i + g[i]]
           R == Reached({0}, f)
<1>1. PodCount \in Nat /\ PodCount # 0 /\ 0 \in Page
  BY PodCountAssumption DEF Page
<1>2. \A i \in H : i \in Page /\ f[i] = i + g[i]
  BY DEF Tiled
<1>3. /\ 0 \in R /\ R \subseteq Page
      /\ \A i \in R : f[i] \in Page => f[i] \in R
      /\ \A T : ({0} \subseteq T /\ \A i \in T : f[i] \in Page => f[i] \in T) => R \subseteq T
  <2> HIDE DEF f
  <2>1. {0} \subseteq Page
    BY <1>1
  <2> QED
    BY <2>1, ReachedLeast
<1> HIDE DEF f, R
<1>4. R \subseteq H
  <2>1. ASSUME NEW i \in H, f[i] \in Page PROVE f[i] \in H
    BY <1>1, <1>2, <2>1 DEF Tiled, Page
  <2>2. {0} \subseteq H
    BY DEF Tiled
  <2> QED
    BY <1>3, <2>1, <2>2
<1>5. H \subseteq R
  <2> SUFFICES ASSUME H \ R # {} PROVE FALSE
    OBVIOUS
  <2>1. H \subseteq Nat
    BY <1>1 DEF Tiled, Page
  <2>2. PICK m \in H \ R : \A y \in H \ R : m <= y
    BY <2>1, LeastOf
  <2>3. m \in Nat /\ 0 < m /\ m < PodCount /\ 0 \in H
    BY <1>1, <1>3, <2>1 DEF Tiled, Page
  <2>4. PICK p \in H : p < m /\ \A q \in H : q < m => q <= p
    BY <2>1, <2>3, GreatestBelow
  <2>5. p \in R
    BY <2>1, <2>2, <2>4
  <2>6. g[p] \in Nat /\ g[p] > 0 /\ p + g[p] <= m /\ p + g[p] \in H \cup {PodCount}
    BY <1>1, <2>4 DEF Tiled, Size
  <2>7. p + g[p] \in H
    BY <1>1, <2>1, <2>3, <2>6
  <2>8. p + g[p] = m
    BY <2>1, <2>3, <2>4, <2>6, <2>7
  <2>9. f[p] = m /\ m \in Page
    BY <1>2, <2>8
  <2> QED
    BY <1>3, <2>5, <2>9
<1> QED
  BY <1>4, <1>5 DEF Headers, R, f
-----------------------------------------------------------------------------
LinkRecord == [prev : [Page -> Page \cup {NoPod}],
               next : [Page -> Page \cup {NoPod}],
               map  : [Size -> Page \cup {NoPod}]]

\* With sizes g, links s chain the blocks of L and no others: a head has no
\* predecessor, next and prev are each other's inverse, a block without a
\* predecessor is the head of its list, and no list is a cycle (a block's rank is
\* above its predecessor's).
Linked(L, g, s) ==
    /\ s \in LinkRecord
    /\ L \subseteq Page
    /\ \A n \in Size : s.map[n] # NoPod =>
          s.map[n] \in L /\ g[s.map[n]] = n /\ s.prev[s.map[n]] = NoPod
    /\ \A i \in L : s.next[i] # NoPod =>
          s.next[i] \in L /\ g[s.next[i]] = g[i] /\ s.prev[s.next[i]] = i
    /\ \A i \in L : s.prev[i] # NoPod => s.prev[i] \in L /\ s.next[s.prev[i]] = i
    /\ \A i \in L : g[i] \in Size /\ (s.prev[i] = NoPod => s.map[g[i]] = i)
    /\ \E rk \in [Page -> Nat] : \A i \in L : s.prev[i] # NoPod => rk[s.prev[i]] < rk[i]

\* Induction along a list: of any blocks of the lists, one is a head or comes
\* right after a block that is not among them.
LEMMA LinkedInduction ==
    ASSUME NEW L, NEW g, NEW s, Linked(L, g, s), NEW B, B \subseteq L, B # {}
    PROVE  \E i \in B : s.prev[i] = NoPod \/ (s.prev[i] \in L \ B)
<1>1. PICK rk \in [Page -> Nat] : \A i \in L : s.prev[i] # NoPod => rk[s.prev[i]] < rk[i]
  BY DEF Linked
<1> DEFINE K == {rk[i] : i \in B}
<1>2. L \subseteq Page
  BY DEF Linked
<1>3. K \subseteq Nat /\ K # {}
  BY <1>1, <1>2
<1>4. PICK k \in K : \A y \in K : k <= y
  <2> HIDE DEF K
  <2> QED
    BY <1>3, LeastOf
<1>5. PICK i \in B : rk[i] = k
  OBVIOUS
<1>6. CASE s.prev[i] # NoPod
  <2>1. s.prev[i] \in L /\ rk[s.prev[i]] < rk[i]
    BY <1>1, <1>6 DEF Linked
  <2>2. rk[s.prev[i]] \in Nat /\ rk[i] \in Nat
    BY <1>2, <2>1
  <2>3. s.prev[i] \notin B
    BY <1>4, <1>5, <2>1, <2>2
  <2> QED
    BY <2>1, <2>3
<1> QED
  BY <1>6

\* What the lists reach from their heads is exactly L, and every size of a block
\* of L has an entry.
LEMMA ListsReach ==
    ASSUME NEW L, NEW g, NEW s, Linked(L, g, s)
    PROVE  /\ Reached({s.map[n] : n \in Size} \cap Page, s.next) = L
           /\ \A i \in L : s.map[g[i]] # NoPod
<1> DEFINE S == {s.map[n] : n \in Size} \cap Page
           R == Reached(S, s.next)
<1>1. /\ S \subseteq R /\ R \subseteq Page
      /\ \A i \in R : s.next[i] \in Page => s.next[i] \in R
      /\ \A T : (S \subseteq T /\ \A i \in T : s.next[i] \in Page => s.next[i] \in T) => R \subseteq T
  <2>1. S \subseteq Page
    OBVIOUS
  <2> HIDE DEF S
  <2> QED
    BY <2>1, ReachedLeast
<1>2. \A i \in L : /\ i \in Page /\ s.next[i] \in Page \cup {NoPod} /\ s.prev[i] \in Page \cup {NoPod}
                   /\ g[i] \in Size
  BY DEF Linked, LinkRecord
<1>3. S \subseteq L
  BY NoPodAssumption DEF Linked
<1>4. \A i \in L : s.prev[i] = NoPod => i \in S
  BY <1>2 DEF Linked
<1> HIDE DEF S, R
<1>5. R \subseteq L
  BY <1>1, <1>3, NoPodAssumption DEF Linked
<1>6. L \subseteq R
  <2> SUFFICES ASSUME L \ R # {} PROVE FALSE
    OBVIOUS
  <2>1. PICK i \in L \ R : s.prev[i] = NoPod \/ s.prev[i] \in L \ (L \ R)
    <3> DEFINE B == L \ R
    <3>1. B \subseteq L /\ B # {}
      OBVIOUS
    <3> HIDE DEF B
    <3>2. \E i \in B : s.prev[i] = NoPod \/ s.prev[i] \in L \ B
      BY <3>1, LinkedInduction
    <3> QED
      BY <3>2 DEF B
  <2>2. s.prev[i] # NoPod
    BY <1>1, <1>4, <2>1
  <2>3. s.prev[i] \in R /\ s.next[s.prev[i]] = i
    BY <2>1, <2>2 DEF Linked
  <2> QED
    BY <1>1, <1>2, <2>1, <2>3
<1>7. \A i \in L : s.map[g[i]] # NoPod
  <2> DEFINE B == {i \in L : s.map[g[i]] = NoPod}
  <2> SUFFICES ASSUME B # {} PROVE FALSE
    OBVIOUS
  <2>1. PICK i \in B : s.prev[i] = NoPod \/ s.prev[i] \in L \ B
    <3>1. B \subseteq L
      OBVIOUS
    <3> HIDE DEF B
    <3> QED
      BY <3>1, LinkedInduction
  <2>2. s.prev[i] # NoPod
    BY <1>2, NoPodAssumption DEF Linked
  <2>3. s.prev[i] \in L \ B /\ s.next[s.prev[i]] = i
    BY <2>1, <2>2 DEF Linked
  <2>4. g[i] = g[s.prev[i]]
    BY <1>2, <2>3, NoPodAssumption DEF Linked
  <2> QED
    BY <2>3, <2>4
<1> QED
  BY <1>5, <1>6, <1>7 DEF S, R

-----------------------------------------------------------------------------
\* A block that is on no list becomes the head of the list of its size.
LEMMA AddKeepsLinked ==
    ASSUME NEW L, NEW g, NEW s, Linked(L, g, s),
           NEW h, NEW i \in Page \ L, NEW n \in Size,
           \A j \in L : h[j] = g[j], h[i] = n
    PROVE  Linked(L \cup {i}, h, hugePodMapAddEntry(s, i, n))
<1> DEFINE t == hugePodMapAddEntry(s, i, n)
           head == s.map[n]
<1>1. /\ s.prev \in [Page -> Page \cup {NoPod}] /\ s.next \in [Page -> Page \cup {NoPod}]
      /\ s.map \in [Size -> Page \cup {NoPod}]
      /\ L \subseteq Page
  BY DEF Linked, LinkRecord
<1>2. /\ t.prev = [j \in Page |-> IF j = i THEN NoPod ELSE IF j = head THEN i ELSE s.prev[j]]
      /\ t.next = [j \in Page |-> IF j = i THEN head ELSE s.next[j]]
      /\ t.map = [m \in Size |-> IF m = n THEN i ELSE s.map[m]]
      /\ t = [prev |-> t.prev, next |-> t.next, map |-> t.map]
  BY <1>1 DEF hugePodMapAddEntry, Set
<1>3. head \in Page \cup {NoPod}
  BY <1>1
<1>4. head # NoPod => head \in L /\ g[head] = n /\ s.prev[head] = NoPod
  BY DEF Linked
<1> HIDE DEF t, head
<1>5. t \in LinkRecord
  BY <1>1, <1>2, <1>3 DEF LinkRecord
<1>6. \A m \in Size : t.map[m] # NoPod =>
          t.map[m] \in L \cup {i} /\ h[t.map[m]] = m /\ t.prev[t.map[m]] = NoPod
  <2> TAKE m \in Size
  <2>1. CASE m = n
    BY <1>2, <2>1
  <2>2. CASE m # n
    <3> SUFFICES ASSUME t.map[m] # NoPod
                 PROVE  t.map[m] \in L \cup {i} /\ h[t.map[m]] = m /\ t.prev[t.map[m]] = NoPod
      OBVIOUS
    <3>1. t.map[m] = s.map[m]
      BY <1>2, <2>2
    <3>2. s.map[m] \in L /\ g[s.map[m]] = m /\ s.prev[s.map[m]] = NoPod
      BY <3>1 DEF Linked
    <3>3. s.map[m] # head
      BY <1>4, <2>2, <3>2, <3>1
    <3> QED
      BY <1>1, <1>2, <3>1, <3>2, <3>3
  <2> QED
    BY <2>1, <2>2
<1>7. ASSUME NEW j \in L \cup {i}
      PROVE  /\ t.next[j] # NoPod =>
                   t.next[j] \in L \cup {i} /\ h[t.next[j]] = h[j] /\ t.prev[t.next[j]] = j
             /\ t.prev[j] # NoPod => t.prev[j] \in L \cup {i} /\ t.next[t.prev[j]] = j
             /\ h[j] \in Size /\ (t.prev[j] = NoPod => t.map[h[j]] = j)
  <2>1. CASE j = i
    <3>1. t.next[j] = head /\ t.prev[j] = NoPod /\ h[j] = n
      BY <1>2, <2>1
    <3>2. head # NoPod => head \in L /\ h[head] = n /\ t.prev[head] = i
      BY <1>1, <1>2, <1>4
    <3>3. t.map[n] = i
      BY <1>2
    <3> QED
      BY <2>1, <3>1, <3>2, <3>3
  <2>2. CASE j # i
    <3>1. j \in L /\ j \in Page /\ h[j] = g[j] /\ t.next[j] = s.next[j]
      BY <1>1, <1>2, <2>2
    <3>2. t.next[j] # NoPod =>
               t.next[j] \in L \cup {i} /\ h[t.next[j]] = h[j] /\ t.prev[t.next[j]] = j
      <4> SUFFICES ASSUME s.next[j] # NoPod
                   PROVE  s.next[j] \in L /\ h[s.next[j]] = h[j] /\ t.prev[s.next[j]] = j
        BY <3>1
      <4>1. s.next[j] \in L /\ g[s.next[j]] = g[j] /\ s.prev[s.next[j]] = j
        BY <3>1 DEF Linked
      <4>2. s.next[j] # head
        BY <1>1, <1>4, <3>1, <4>1, NoPodAssumption
      <4> QED
        BY <1>1, <1>2, <3>1, <4>1, <4>2
    <3>3. CASE j = head
      <4>1. t.prev[j] = i /\ t.next[i] = head
        BY <1>2, <2>2, <3>1, <3>3
      <4>2. g[j] = n
        BY <1>4, <3>1, <3>3, <1>1, NoPodAssumption
      <4> QED
        BY <3>1, <3>2, <3>3, <4>1, <4>2, NoPodAssumption
    <3>4. CASE j # head
      <4>1. t.prev[j] = s.prev[j]
        BY <1>2, <2>2, <3>1, <3>4
      <4>2. /\ s.prev[j] # NoPod => s.prev[j] \in L /\ s.next[s.prev[j]] = j
            /\ g[j] \in Size /\ (s.prev[j] = NoPod => s.map[g[j]] = j)
        BY <3>1 DEF Linked
      <4>3. s.prev[j] # NoPod => t.next[s.prev[j]] = j
        BY <1>1, <1>2, <4>2
      <4>4. s.prev[j] = NoPod => g[j] # n
        BY <3>4, <4>2 DEF head
      <4>5. s.prev[j] = NoPod => t.map[g[j]] = j
        BY <1>2, <4>2, <4>4
      <4> QED
        BY <3>1, <3>2, <4>1, <4>2, <4>3, <4>5
    <3> QED
      BY <3>3, <3>4
  <2> QED
    BY <2>1, <2>2
<1>8. \E rk \in [Page -> Nat] :
          \A j \in L \cup {i} : t.prev[j] # NoPod => rk[t.prev[j]] < rk[j]
  <2>1. PICK rk \in [Page -> Nat] : \A j \in L : s.prev[j] # NoPod => rk[s.prev[j]] < rk[j]
    BY DEF Linked
  <2> DEFINE k == [j \in Page |-> IF j = i THEN 0 ELSE rk[j] + 1]
  <2>2. k \in [Page -> Nat]
    OBVIOUS
  <2>3. ASSUME NEW j \in L \cup {i}, t.prev[j] # NoPod PROVE k[t.prev[j]] < k[j]
    <3>1. j # i /\ j \in L /\ j \in Page
      BY <1>1, <1>2, <2>3
    <3>2. CASE j = head
      <4>1. t.prev[j] = i
        BY <1>2, <3>1, <3>2
      <4> QED
        BY <3>1, <4>1
    <3>3. CASE j # head
      <4>1. t.prev[j] = s.prev[j]
        BY <1>2, <3>1, <3>3
      <4>2. s.prev[j] \in L /\ s.prev[j] \in Page /\ s.prev[j] # i
        BY <1>1, <2>3, <3>1, <4>1 DEF Linked
      <4>3. rk[s.prev[j]] < rk[j]
        BY <2>1, <2>3, <3>1, <4>1
      <4> QED
        BY <3>1, <4>1, <4>2, <4>3
    <3> QED
      BY <3>2, <3>3
  <2> HIDE DEF k
  <2> QED
    BY <2>2, <2>3
<1>9. L \cup {i} \subseteq Page
  BY <1>1
<1> QED
  BY <1>5, <1>6, <1>7, <1>8, <1>9 DEF Linked, t

\* A block leaves its list: its neighbours are linked to each other, and its
\* successor becomes the head when it was the head.
LEMMA UnlinkKeepsLinked ==
    ASSUME NEW L, NEW g, NEW s, Linked(L, g, s), NEW i \in L,
           NEW t \in LinkRecord,
           \A j \in L \ {i} : t.next[j] = IF j = s.prev[i] THEN s.next[i] ELSE s.next[j],
           \A j \in L \ {i} : t.prev[j] = IF j = s.next[i] THEN s.prev[i] ELSE s.prev[j],
           \A n \in Size : t.map[n] = IF s.map[n] = i THEN s.next[i] ELSE s.map[n]
    PROVE  Linked(L \ {i}, g, t)
<1>1. /\ s.prev \in [Page -> Page \cup {NoPod}] /\ s.next \in [Page -> Page \cup {NoPod}]
      /\ s.map \in [Size -> Page \cup {NoPod}]
      /\ L \subseteq Page
  BY DEF Linked, LinkRecord
<1> DEFINE p == s.prev[i]
           q == s.next[i]
<1>2. /\ p \in Page \cup {NoPod} /\ q \in Page \cup {NoPod}
      /\ q # NoPod => q \in L /\ g[q] = g[i] /\ s.prev[q] = i
      /\ p # NoPod => p \in L /\ s.next[p] = i
      /\ p = NoPod => s.map[g[i]] = i
      /\ g[i] \in Size
  BY <1>1 DEF Linked
<1>3. PICK rk \in [Page -> Nat] : \A j \in L : s.prev[j] # NoPod => rk[s.prev[j]] < rk[j]
  BY DEF Linked
<1>4. p # i /\ q # i
  <2>1. rk[i] \in Nat
    BY <1>1
  <2>2. p # NoPod => rk[p] < rk[i]
    BY <1>3
  <2>3. q # NoPod => rk[s.prev[q]] < rk[q]
    BY <1>1, <1>2, <1>3, NoPodAssumption
  <2> QED
    BY <1>1, <1>2, <2>1, <2>2, <2>3, NoPodAssumption
<1>5. p # NoPod => g[p] = g[i]
  BY <1>1, <1>2, NoPodAssumption DEF Linked
<1>6. ASSUME NEW n \in Size, t.map[n] # NoPod
      PROVE  t.map[n] \in L \ {i} /\ g[t.map[n]] = n /\ t.prev[t.map[n]] = NoPod
  <2>1. CASE s.map[n] = i
    <3>1. t.map[n] = q
      BY <2>1
    <3>2. g[i] = n /\ p = NoPod
      BY <1>1, <2>1, NoPodAssumption DEF Linked
    <3>3. q \in L \ {i} /\ g[q] = n
      BY <1>2, <1>4, <1>6, <3>1, <3>2
    <3> QED
      BY <3>1, <3>2, <3>3
  <2>2. CASE s.map[n] # i
    <3>1. t.map[n] = s.map[n]
      BY <2>2
    <3>2. s.map[n] \in L \ {i} /\ g[s.map[n]] = n /\ s.prev[s.map[n]] = NoPod
      BY <1>6, <2>2, <3>1 DEF Linked
    <3>3. s.map[n] # q
      BY <1>1, <1>2, <3>2, NoPodAssumption
    <3> QED
      BY <3>1, <3>2, <3>3
  <2> QED
    BY <2>1, <2>2
<1>7. ASSUME NEW j \in L \ {i}, t.next[j] # NoPod
      PROVE  t.next[j] \in L \ {i} /\ g[t.next[j]] = g[j] /\ t.prev[t.next[j]] = j
  <2>1. CASE j = p
    <3>1. t.next[j] = q
      BY <2>1
    <3>2. q \in L \ {i} /\ g[q] = g[i] /\ g[p] = g[i]
      BY <1>1, <1>2, <1>4, <1>5, <1>7, <2>1, <3>1, NoPodAssumption
    <3>3. t.prev[q] = p
      BY <3>2
    <3> QED
      BY <2>1, <3>1, <3>2, <3>3
  <2>2. CASE j # p
    <3>1. t.next[j] = s.next[j]
      BY <2>2
    <3>2. s.next[j] \in L /\ g[s.next[j]] = g[j] /\ s.prev[s.next[j]] = j
      BY <1>7, <3>1 DEF Linked
    <3>3. s.next[j] # i
      BY <2>2, <3>2
    <3>4. s.next[j] # q
      BY <1>2, <1>7, <3>1, <3>2
    <3> QED
      BY <3>1, <3>2, <3>3, <3>4
  <2> QED
    BY <2>1, <2>2
<1>8. ASSUME NEW j \in L \ {i}, t.prev[j] # NoPod
      PROVE  t.prev[j] \in L \ {i} /\ t.next[t.prev[j]] = j
  <2>1. CASE j = q
    <3>1. t.prev[j] = p /\ p \in L \ {i}
      BY <1>2, <1>4, <1>8, <2>1
    <3>2. t.next[p] = q
      BY <3>1
    <3> QED
      BY <2>1, <3>1, <3>2
  <2>2. CASE j # q
    <3>1. t.prev[j] = s.prev[j]
      BY <2>2
    <3>2. s.prev[j] \in L /\ s.next[s.prev[j]] = j
      BY <1>8, <3>1 DEF Linked
    <3>3. s.prev[j] # i /\ s.prev[j] # p
      BY <1>2, <1>8, <2>2, <3>1, <3>2
    <3> QED
      BY <3>1, <3>2, <3>3
  <2> QED
    BY <2>1, <2>2
<1>9. ASSUME NEW j \in L \ {i}
      PROVE  g[j] \in Size /\ (t.prev[j] = NoPod => t.map[g[j]] = j)
  <2>1. g[j] \in Size
    BY DEF Linked
  <2>2. ASSUME t.prev[j] = NoPod PROVE t.map[g[j]] = j
    <3>1. CASE j = q
      <4>1. p = NoPod
        BY <2>2, <3>1
      <4>2. s.map[g[i]] = i /\ g[j] = g[i]
        BY <1>1, <1>2, <3>1, <4>1, NoPodAssumption
      <4> QED
        BY <2>1, <3>1, <4>2
    <3>2. CASE j # q
      <4>1. s.prev[j] = NoPod
        BY <2>2, <3>2
      <4>2. s.map[g[j]] = j
        BY <4>1 DEF Linked
      <4> QED
        BY <2>1, <4>2
    <3> QED
      BY <3>1, <3>2
  <2> QED
    BY <2>1, <2>2
<1>10. \A j \in L \ {i} : t.prev[j] # NoPod => rk[t.prev[j]] < rk[j]
  <2> TAKE j \in L \ {i}
  <2> HAVE t.prev[j] # NoPod
  <2>1. CASE j = q
    <3>1. t.prev[j] = p /\ p \in L /\ q \in L
      BY <1>2, <2>1
    <3>2. rk[p] < rk[i] /\ rk[i] < rk[q]
      BY <1>1, <1>2, <1>3, <3>1, NoPodAssumption
    <3>3. rk[p] \in Nat /\ rk[i] \in Nat /\ rk[q] \in Nat
      BY <1>1, <3>1
    <3> QED
      BY <2>1, <3>1, <3>2, <3>3
  <2>2. CASE j # q
    BY <1>3, <2>2
  <2> QED
    BY <2>1, <2>2
<1>11. L \ {i} \subseteq Page
  BY <1>1
<1> QED
  BY <1>3, <1>6, <1>7, <1>8, <1>9, <1>10, <1>11 DEF Linked

\* allocateNPages takes the head of a list out.
LEMMA TakeKeepsLinked ==
    ASSUME NEW L, NEW g, NEW s, Linked(L, g, s), NEW n \in Size, s.map[n] # NoPod
    PROVE  /\ s.map[n] \in L /\ g[s.map[n]] = n
           /\ Linked(L \ {s.map[n]}, g, TakeHead(s, s.map[n], n))
<1> DEFINE i == s.map[n]
           t == TakeHead(s, i, n)
<1>1. /\ s.prev \in [Page -> Page \cup {NoPod}] /\ s.next \in [Page -> Page \cup {NoPod}]
      /\ s.map \in [Size -> Page \cup {NoPod}] /\ s \in LinkRecord
      /\ L \subseteq Page
  BY DEF Linked, LinkRecord
<1>2. i \in L /\ g[i] = n /\ s.prev[i] = NoPod
  BY DEF Linked
<1>3. /\ t.prev = [j \in Page |-> IF j = s.next[i] THEN NoPod ELSE s.prev[j]]
      /\ t.next = s.next
      /\ t.map = [s.map EXCEPT ![n] = s.next[i]]
      /\ t = [prev |-> t.prev, next |-> t.next, map |-> t.map]
  <2> DEFINE q == s.next[i]
  <2>1. t = [s EXCEPT !.map[n] = q, !.prev = Set(@, {q}, NoPod)]
    BY DEF TakeHead
  <2> HIDE DEF i, q, t
  <2>2. /\ t.prev = [j \in Page |-> IF j = q THEN NoPod ELSE s.prev[j]]
        /\ t.next = s.next
        /\ t.map = [s.map EXCEPT ![n] = q]
        /\ t = [prev |-> t.prev, next |-> t.next, map |-> t.map]
    BY <1>1, <2>1 DEF Set, LinkRecord
  <2> QED
    BY <2>2 DEF q
<1>4. \A m \in Size : m # n => s.map[m] # i
  BY <1>2 DEF Linked
<1> HIDE DEF i, t
<1>5. t \in LinkRecord
  BY <1>1, <1>2, <1>3 DEF LinkRecord
<1>6. \A j \in L \ {i} : t.next[j] = IF j = s.prev[i] THEN s.next[i] ELSE s.next[j]
  BY <1>1, <1>2, <1>3, NoPodAssumption
<1>7. \A j \in L \ {i} : t.prev[j] = IF j = s.next[i] THEN s.prev[i] ELSE s.prev[j]
  BY <1>1, <1>2, <1>3
<1>8. \A m \in Size : t.map[m] = IF s.map[m] = i THEN s.next[i] ELSE s.map[m]
  BY <1>1, <1>3, <1>4 DEF i
<1>9. Linked(L \ {i}, g, t)
  BY <1>2, <1>5, <1>6, <1>7, <1>8, UnlinkKeepsLinked
<1> QED
  BY <1>2, <1>9 DEF i, t

\* coalescingOnePodRight takes a block out of the list of its size.
LEMMA RemoveKeepsLinked ==
    ASSUME NEW L, NEW g, NEW s, Linked(L, g, s), NEW i \in L
    PROVE  Linked(L \ {i}, g, hugePodMapRemoveEntry(s, i, g[i]))
<1> DEFINE n == g[i]
           p == s.prev[i]
           q == s.next[i]
           t == hugePodMapRemoveEntry(s, i, n)
<1>1. /\ s.prev \in [Page -> Page \cup {NoPod}] /\ s.next \in [Page -> Page \cup {NoPod}]
      /\ s.map \in [Size -> Page \cup {NoPod}] /\ s \in LinkRecord
      /\ L \subseteq Page
  BY DEF Linked, LinkRecord
<1>2. n \in Size /\ s.map[n] # NoPod
  <2>1. n \in Size
    BY DEF Linked
  <2>2. s.map[n] # NoPod
    BY ListsReach
  <2> QED
    BY <2>1, <2>2
<1>3. \A m \in Size : m # n => s.map[m] # i
  BY <1>1, NoPodAssumption DEF Linked
<1>4. /\ p = NoPod => s.map[n] = i
      /\ s.map[n] = i => p = NoPod
      /\ p \in Page \cup {NoPod} /\ q \in Page \cup {NoPod}
  BY <1>1, <1>2 DEF Linked
<1>5. q # i
  <2>1. PICK rk \in [Page -> Nat] : \A j \in L : s.prev[j] # NoPod => rk[s.prev[j]] < rk[j]
    BY DEF Linked
  <2>2. q # NoPod => q \in L /\ s.prev[q] = i
    BY DEF Linked
  <2>3. rk[i] \in Nat
    BY <1>1
  <2> QED
    BY <1>1, <2>1, <2>2, <2>3, NoPodAssumption
<1>6. CASE s.map[n] # i
  <2>1. t = [s EXCEPT !.next = Set(@, {p}, q), !.prev = Set(@, {q}, p)]
    BY <1>2, <1>6 DEF hugePodMapRemoveEntry
  <2>2. /\ t.prev = [j \in Page |-> IF j = q THEN p ELSE s.prev[j]]
        /\ t.next = [j \in Page |-> IF j = p THEN q ELSE s.next[j]]
        /\ t.map = s.map
        /\ t = [prev |-> t.prev, next |-> t.next, map |-> t.map]
    <3> HIDE DEF t, p, q
    <3> QED
      BY <1>1, <2>1 DEF Set, LinkRecord
  <2> HIDE DEF t
  <2>3. t \in LinkRecord
    BY <1>1, <1>4, <2>2 DEF LinkRecord
  <2>4. \A m \in Size : t.map[m] = IF s.map[m] = i THEN s.next[i] ELSE s.map[m]
    BY <1>3, <1>6, <2>2
  <2> QED
    BY <1>1, <2>2, <2>3, <2>4, UnlinkKeepsLinked DEF t
<1>7. CASE s.map[n] = i /\ q = NoPod
  <2>1. t = [s EXCEPT !.map[n] = NoPod]
    BY <1>2, <1>7 DEF hugePodMapRemoveEntry
  <2>2. /\ t.prev = s.prev /\ t.next = s.next
        /\ t.map = [s.map EXCEPT ![n] = NoPod]
        /\ t = [prev |-> t.prev, next |-> t.next, map |-> t.map]
    <3> HIDE DEF t, n
    <3> QED
      BY <1>1, <2>1 DEF LinkRecord
  <2> HIDE DEF t
  <2>3. t \in LinkRecord
    BY <1>1, <1>2, <2>2 DEF LinkRecord
  <2>4. \A m \in Size : t.map[m] = IF s.map[m] = i THEN s.next[i] ELSE s.map[m]
    BY <1>1, <1>3, <1>7, <2>2
  <2>5. p = NoPod
    BY <1>4, <1>7
  <2>6. \A j \in L \ {i} : /\ t.next[j] = IF j = s.prev[i] THEN s.next[i] ELSE s.next[j]
                           /\ t.prev[j] = IF j = s.next[i] THEN s.prev[i] ELSE s.prev[j]
    BY <1>1, <1>7, <2>2, <2>5, NoPodAssumption
  <2> QED
    BY <2>3, <2>4, <2>6, UnlinkKeepsLinked DEF t
<1>8. CASE s.map[n] = i /\ q # NoPod
  <2>1. t = [s EXCEPT !.map[n] = q, !.prev[q] = NoPod, !.next[i] = NoPod]
    BY <1>1, <1>2, <1>8, NoPodAssumption DEF hugePodMapRemoveEntry
  <2>2. /\ t.prev = [s.prev EXCEPT ![q] = NoPod]
        /\ t.next = [s.next EXCEPT ![i] = NoPod]
        /\ t.map = [s.map EXCEPT ![n] = q]
        /\ t = [prev |-> t.prev, next |-> t.next, map |-> t.map]
    <3> HIDE DEF t, n, q
    <3> QED
      BY <1>1, <2>1 DEF LinkRecord
  <2> HIDE DEF t
  <2>3. t \in LinkRecord
    BY <1>1, <1>2, <1>4, <2>2 DEF LinkRecord
  <2>4. \A m \in Size : t.map[m] = IF s.map[m] = i THEN s.next[i] ELSE s.map[m]
    BY <1>1, <1>3, <1>8, <2>2
  <2>5. p = NoPod
    BY <1>4, <1>8
  <2>6. \A j \in L \ {i} : /\ t.next[j] = IF j = s.prev[i] THEN s.next[i] ELSE s.next[j]
                           /\ t.prev[j] = IF j = s.next[i] THEN s.prev[i] ELSE s.prev[j]
    BY <1>1, <1>4, <1>8, <2>2, <2>5, NoPodAssumption
  <2> QED
    BY <2>3, <2>4, <2>6, UnlinkKeepsLinked DEF t
<1> QED
  BY <1>6, <1>7, <1>8
-----------------------------------------------------------------------------
\* With F the free pages, header and footer of a block agree.
Footers(H, g, F) ==
    \A i \in H : /\ g[Footer(i, g[i])] = g[i]
                 /\ i \in F <=> Footer(i, g[i]) \in F

\* Two blocks share no page.
LEMMA Apart ==
    ASSUME NEW H, NEW g, Tiled(H, g), NEW i \in H
    PROVE  /\ i \in Nat /\ g[i] \in Nat /\ 0 < g[i] /\ i + g[i] <= PodCount
           /\ Footer(i, g[i]) \in Page /\ Footer(i, g[i]) >= i
           /\ \A j \in H \ {i} : j + g[j] <= i \/ i + g[i] <= j
<1>1. PodCount \in Nat /\ H \subseteq Page /\ \A j \in H : j \in Nat /\ j < PodCount /\ g[j] \in Nat /\ 0 < g[j]
  BY PodCountAssumption DEF Tiled, Page, Size
<1>2. i + g[i] <= PodCount
  BY <1>1 DEF Tiled
<1>3. \A j \in H \ {i} : j + g[j] <= i \/ i + g[i] <= j
  BY <1>1 DEF Tiled
<1> QED
  BY <1>1, <1>2, <1>3 DEF Footer, Page

\* h and E are the sizes and the free pages when the first n pages of block i are
\* in use and the rest of it is a free block.
SplitInto(H, g, F, i, n, h, E) ==
    /\ h \in [Page -> 0 .. PodCount] /\ E \subseteq Page
    /\ Tiled(H \cup {i + n}, h) /\ Footers(H \cup {i + n}, h, E)
    /\ i + n \in Page \ H /\ h[i] = n /\ h[i + n] = g[i] - n
    /\ i \notin E /\ i + n \in E
    /\ \A j \in H \ {i} : h[j] = g[j] /\ (j \in E <=> j \in F)

\* allocateNPages cuts n pages off a larger block.
LEMMA SplitBlock ==
    ASSUME NEW H, NEW g \in [Page -> 0 .. PodCount], NEW F, F \subseteq Page,
           Tiled(H, g), Footers(H, g, F),
           NEW i \in H, NEW n \in Size, n < g[i],
           NEW h, NEW E,
           h = Set(Set(g, {i, Footer(i, n)}, n), {i + n, Footer(i, g[i])}, g[i] - n),
           E = (F \ {i, Footer(i, n)}) \cup {i + n, Footer(i, g[i])}
    PROVE  SplitInto(H, g, F, i, n, h, E)
<1> DEFINE c == g[i]
<1>1. PodCount \in Nat /\ H \subseteq Page /\ n \in Nat /\ 0 < n /\ n < c
  BY PodCountAssumption DEF Tiled, Size
<1>2. \A j \in H : /\ j \in Nat /\ j < PodCount /\ g[j] \in Nat /\ 0 < g[j] /\ j + g[j] <= PodCount
                   /\ Footer(j, g[j]) \in Page
  <2> TAKE j \in H
  <2>1. /\ j \in Nat /\ g[j] \in Nat /\ 0 < g[j] /\ j + g[j] <= PodCount
        /\ Footer(j, g[j]) \in Page
    BY Apart
  <2> QED
    BY <1>1, <2>1, SMTT(30) DEF Page
<1>3. \A j \in H \ {i} : j + g[j] <= i \/ i + c <= j
  BY Apart
<1>4. /\ i + n \in Page /\ Footer(i, n) \in Page /\ Footer(i, c) \in Page /\ i \in Page
      /\ Footer(i, n) = i + n - 1 /\ Footer(i, c) = i + c - 1
  <2>1. i \in Nat /\ c \in Nat /\ i + c <= PodCount
    BY <1>2
  <2>2. Footer(i, n) = i + n - 1 /\ Footer(i, c) = i + c - 1
    BY DEF Footer
  <2> HIDE DEF c
  <2> QED
    BY <1>1, <2>1, <2>2, SMTT(30) DEF Page
<1>5. /\ h \in [Page -> 0 .. PodCount]
      /\ \A j \in Page : h[j] = IF j \in {i + n, i + c - 1} THEN c - n
                                ELSE IF j \in {i, i + n - 1} THEN n ELSE g[j]
  BY <1>1, <1>2, <1>4 DEF Set
<1>6. /\ E \subseteq Page /\ i \notin E /\ i + n \in E /\ i + c - 1 \in E
      /\ i + n - 1 \notin E
      /\ \A j \in Page : j \notin {i, i + n - 1, i + n, i + c - 1} => (j \in E <=> j \in F)
  BY <1>1, <1>2, <1>4
<1>7. i + n \notin H
  BY <1>1, <1>2, <1>3
<1>8. /\ h[i] = n /\ h[i + n] = c - n /\ h[i + n - 1] = n /\ h[i + c - 1] = c - n
  <2>1. i \notin {i + n, i + c - 1} /\ i + n - 1 \notin {i + n, i + c - 1}
    BY <1>1, <1>2
  <2> HIDE DEF c
  <2> QED
    BY <1>4, <1>5, <2>1
<1>9. ASSUME NEW j \in H \ {i}
      PROVE  /\ h[j] = g[j] /\ (j \in E <=> j \in F)
             /\ h[Footer(j, g[j])] = g[Footer(j, g[j])]
             /\ (Footer(j, g[j]) \in E <=> Footer(j, g[j]) \in F)
  <2>1. j \in Page /\ Footer(j, g[j]) \in Page /\ Footer(j, g[j]) = j + g[j] - 1
    BY <1>1, <1>2 DEF Footer
  <2>2. \A x \in {j, j + g[j] - 1} : x < i \/ i + c <= x
    BY <1>1, <1>2, <1>3
  <2>3. /\ j \notin {i, i + n - 1, i + n, i + c - 1}
        /\ j + g[j] - 1 \notin {i, i + n - 1, i + n, i + c - 1}
    BY <1>1, <1>2, <2>2
  <2> QED
    BY <1>5, <1>6, <2>1, <2>3
<1> HIDE DEF c
<1>10. Tiled(H \cup {i + n}, h)
  <2> DEFINE K == H \cup {i + n}
  <2>1. K \subseteq Page /\ 0 \in K
    BY <1>1, <1>4 DEF Tiled
  <2>2. ASSUME NEW j \in K PROVE h[j] \in Size /\ j + h[j] \in K \cup {PodCount}
    <3>1. CASE j = i
      BY <1>1, <1>8, <3>1
    <3>2. CASE j = i + n
      <4>1. i + c \in H \cup {PodCount}
        BY DEF Tiled, c
      <4>2. h[j] = c - n /\ j + h[j] = i + c
        BY <1>1, <1>2, <1>8, <3>2 DEF c
      <4> QED
        BY <1>1, <1>2, <4>1, <4>2 DEF Size, c
    <3>3. CASE j # i /\ j # i + n
      BY <1>9, <3>3 DEF Tiled
    <3> QED
      BY <3>1, <3>2, <3>3
  <2>3. ASSUME NEW j \in K, NEW k \in K, j < k PROVE j + h[j] <= k
    <3>1. CASE j = i /\ k = i + n
      BY <1>1, <1>2, <1>8, <3>1
    <3>2. CASE j = i /\ k # i + n
      <4>1. k \in H \ {i} /\ i + c <= k
        BY <1>1, <1>2, <1>3, <2>3, <3>2 DEF c
      <4> QED
        BY <1>1, <1>2, <1>8, <3>2, <4>1 DEF c
    <3>3. CASE j = i + n
      <4>1. k \in H /\ k # i
        BY <1>1, <1>2, <2>3, <3>3
      <4>2. i + c <= k
        BY <1>1, <1>2, <1>3, <2>3, <3>3, <4>1 DEF c
      <4> QED
        BY <1>1, <1>2, <1>8, <3>3, <4>1, <4>2 DEF c
    <3>4. CASE j # i /\ j # i + n /\ k = i + n
      <4>1. j \in H \ {i} /\ h[j] = g[j]
        BY <1>9, <3>4
      <4>2. j + g[j] <= i
        BY <1>1, <1>2, <1>3, <2>3, <3>4, <4>1 DEF c
      <4> QED
        BY <1>1, <1>2, <3>4, <4>1, <4>2
    <3>5. CASE j # i /\ j # i + n /\ k # i + n
      <4>1. j \in H \ {i} /\ h[j] = g[j] /\ k \in H
        BY <1>9, <3>5
      <4> QED
        BY <2>3, <4>1 DEF Tiled
    <3> QED
      BY <3>1, <3>2, <3>3, <3>4, <3>5
  <2> HIDE DEF K
  <2>4. Tiled(K, h)
    BY <2>1, <2>2, <2>3 DEF Tiled
  <2> QED
    BY <2>4 DEF K
<1>11. Footers(H \cup {i + n}, h, E)
  <2>1. ASSUME NEW j \in H \cup {i + n}
        PROVE  h[Footer(j, h[j])] = h[j] /\ (j \in E <=> Footer(j, h[j]) \in E)
    <3>1. CASE j = i
      <4>1. Footer(j, h[j]) = i + n - 1
        BY <1>4, <1>8, <3>1
      <4> QED
        BY <1>6, <1>8, <3>1, <4>1
    <3>2. CASE j = i + n
      <4>1. Footer(j, h[j]) = i + c - 1
        BY <1>1, <1>2, <1>8, <3>2 DEF Footer, c
      <4> QED
        BY <1>6, <1>8, <3>2, <4>1
    <3>3. CASE j # i /\ j # i + n
      BY <1>9, <3>3 DEF Footers
    <3> QED
      BY <3>1, <3>2, <3>3
  <2> QED
    BY <2>1 DEF Footers
<1> QED
  BY <1>4, <1>5, <1>6, <1>7, <1>8, <1>9, <1>10, <1>11 DEF c, SplitInto

\* h and E are the sizes and the free pages when the blocks from header f to
\* header k are one free block of n pages.
MergedInto(H, g, F, f, k, n, h, E) ==
    LET K == {j \in H : ~(f < j /\ j <= k)} IN
    /\ n \in Size
    /\ h \in [Page -> 0 .. PodCount] /\ E \subseteq Page
    /\ Tiled(K, h) /\ Footers(K, h, E)
    /\ h[f] = n /\ f \in E
    /\ \A j \in K \ {f} : h[j] = g[j] /\ (j \in E <=> j \in F)

\* FinishFree makes one block of those from header f to header k.
LEMMA MergeBlocks ==
    ASSUME NEW H, NEW g \in [Page -> 0 .. PodCount], NEW F, F \subseteq Page,
           Tiled(H, g), Footers(H, g, F),
           NEW f \in H, NEW k \in H, f <= k,
           NEW n, n = (k + g[k]) - f,
           NEW h, NEW E,
           h = Set(g, {f, Footer(f, n)}, n),
           E = F \cup (f .. Footer(f, g[f])) \cup {Footer(f, n)}
    PROVE  MergedInto(H, g, F, f, k, n, h, E)
<1> DEFINE K == {j \in H : ~(f < j /\ j <= k)}
           e == k + g[k]
<1>1. PodCount \in Nat /\ H \subseteq Page
  BY PodCountAssumption DEF Tiled
<1>2. \A j \in H : /\ j \in Nat /\ j < PodCount /\ g[j] \in Nat /\ 0 < g[j] /\ j + g[j] <= PodCount
                   /\ Footer(j, g[j]) \in Page /\ Footer(j, g[j]) = j + g[j] - 1
  <2> TAKE j \in H
  <2>1. /\ j \in Nat /\ g[j] \in Nat /\ 0 < g[j] /\ j + g[j] <= PodCount
        /\ Footer(j, g[j]) \in Page
    BY Apart
  <2> QED
    BY <1>1, <2>1 DEF Footer
<1>3. \A i, j \in H : i < j => i + g[i] <= j
  BY DEF Tiled
<1>4. n \in Nat /\ 0 < n /\ e \in Nat /\ n = e - f /\ e <= PodCount /\ Footer(f, n) = e - 1
  BY <1>1, <1>2 DEF Footer
<1>5. n \in Size /\ f + g[f] <= e /\ e - 1 \in Page /\ f \in Page
  <2>1. f # k => f + g[f] <= k
    BY <1>2, <1>3
  <2>2. f + g[f] <= e
    BY <1>2, <2>1
  <2>3. n <= PodCount
    BY <1>1, <1>2, <1>4
  <2>4. e - 1 \in Page
    <3> HIDE DEF e
    <3>1. e > 0
      BY <1>2, <1>4
    <3> QED
      BY <1>1, <1>4, <3>1 DEF Page
  <2> QED
    BY <1>1, <1>4, <2>2, <2>3, <2>4 DEF Size
<1> HIDE DEF e
<1>6. /\ h \in [Page -> 0 .. PodCount]
      /\ \A j \in Page : h[j] = IF j \in {f, e - 1} THEN n ELSE g[j]
  BY <1>1, <1>4, <1>5 DEF Set, Size
<1>7. /\ E = F \cup (f .. f + g[f] - 1) \cup {e - 1}
      /\ E \subseteq Page
  <2>1. E = F \cup (f .. f + g[f] - 1) \cup {e - 1}
    BY <1>2, <1>4
  <2>2. (f .. f + g[f] - 1) \subseteq Page
    <3>1. f \in Nat /\ g[f] \in Nat /\ f + g[f] <= PodCount
      BY <1>2
    <3> QED
      BY <1>1, <3>1 DEF Page
  <2> QED
    BY <1>5, <2>1, <2>2
<1>8. ASSUME NEW j \in K \ {f}
      PROVE  /\ j + g[j] <= f \/ e <= j
             /\ h[j] = g[j] /\ (j \in E <=> j \in F)
             /\ h[Footer(j, g[j])] = g[Footer(j, g[j])]
             /\ (Footer(j, g[j]) \in E <=> Footer(j, g[j]) \in F)
  <2>1. j \in H /\ j \in Page /\ (j < f \/ k < j)
    BY <1>1, <1>2
  <2>2. j + g[j] <= f \/ e <= j
    BY <1>2, <1>3, <2>1 DEF e
  <2>3. \A x \in {j, j + g[j] - 1} : x < f \/ e <= x
    BY <1>2, <1>4, <2>1, <2>2
  <2>4. \A x \in {j, j + g[j] - 1} : x \notin {f, e - 1} /\ x \notin (f .. f + g[f] - 1)
    BY <1>2, <1>4, <1>5, <2>1, <2>3
  <2> QED
    BY <1>2, <1>6, <1>7, <2>1, <2>2, <2>4
<1>9. h[f] = n /\ h[e - 1] = n /\ f \in E /\ e - 1 \in E
  <2>1. f \in f .. f + g[f] - 1
    BY <1>2
  <2> QED
    BY <1>5, <1>6, <1>7, <2>1
<1>10. f \in K
  BY <1>2
<1>11. e \in K \cup {PodCount}
  BY <1>1, <1>2, <1>4 DEF Tiled, e
<1>12. Tiled(K, h)
  <2>1. K \subseteq Page /\ 0 \in K
    BY <1>1, <1>2 DEF Tiled
  <2>2. ASSUME NEW j \in K PROVE h[j] \in Size /\ j + h[j] \in K \cup {PodCount}
    <3>1. CASE j = f
      <4>1. j + h[j] = e
        BY <1>2, <1>4, <1>9, <3>1
      <4> QED
        BY <1>5, <1>9, <1>11, <3>1, <4>1
    <3>2. CASE j # f
      <4>1. h[j] = g[j] /\ g[j] \in Size /\ j + g[j] \in H \cup {PodCount}
        BY <1>8, <3>2 DEF Tiled
      <4>2. j + g[j] <= f \/ e <= j
        BY <1>8, <3>2
      <4>3. ~(f < j + g[j] /\ j + g[j] <= k)
        BY <1>2, <1>4, <4>2 DEF e
      <4> QED
        BY <4>1, <4>3
    <3> QED
      BY <3>1, <3>2
  <2>3. ASSUME NEW i \in K, NEW j \in K, i < j PROVE i + h[i] <= j
    <3>1. CASE i = f
      <4>1. e <= j
        BY <1>2, <1>8, <2>3, <3>1
      <4> QED
        BY <1>2, <1>4, <1>9, <3>1, <4>1
    <3>2. CASE i # f
      BY <1>3, <1>8, <2>3, <3>2
    <3> QED
      BY <3>1, <3>2
  <2> HIDE DEF K
  <2> QED
    BY <2>1, <2>2, <2>3 DEF Tiled
<1>13. Footers(K, h, E)
  <2>1. ASSUME NEW j \in K
        PROVE  h[Footer(j, h[j])] = h[j] /\ (j \in E <=> Footer(j, h[j]) \in E)
    <3>1. CASE j = f
      BY <1>4, <1>9, <3>1
    <3>2. CASE j # f
      <4>1. /\ h[j] = g[j] /\ (j \in E <=> j \in F)
            /\ h[Footer(j, g[j])] = g[Footer(j, g[j])]
            /\ (Footer(j, g[j]) \in E <=> Footer(j, g[j]) \in F)
        BY <1>8, <3>2
      <4>2. g[Footer(j, g[j])] = g[j] /\ (j \in F <=> Footer(j, g[j]) \in F)
        BY DEF Footers
      <4> QED
        BY <4>1, <4>2
    <3> QED
      BY <3>1, <3>2
  <2> HIDE DEF K
  <2> QED
    BY <2>1 DEF Footers
<1> HIDE DEF K
<1>14. \A j \in K \ {f} : h[j] = g[j] /\ (j \in E <=> j \in F)
  BY <1>8
<1> QED
  BY <1>5, <1>6, <1>7, <1>9, <1>12, <1>13, <1>14 DEF K, MergedInto
-----------------------------------------------------------------------------
\* The free pages, when f says which are.
FreeOf(f) == {i \in Page : f[i]}

FreePages == FreeOf(isFree)

\* The loop of hugeFree: it has absorbed the blocks from the freed one up to
\* currI, and freedSize is their size.
LoopOK ==
    freeing # NoPod =>
        /\ freeing \in Header \ FreePages /\ currI \in Header
        /\ freeing <= currI
        /\ freedSize = (currI + globalSize[currI]) - (freeing + globalSize[freeing])

\* The inductive invariant.  BlocksTile and FreeListsExact speak of what the sizes
\* and the links lead to; Tiled and Linked say why a write to one block leaves the
\* way to all others as it was.
AllocInv ==
    /\ TypeOK
    /\ Tiled(Header, globalSize)
    /\ Footers(Header, globalSize, FreePages)
    /\ LoopOK
    /\ Absorbed \subseteq FreePages
    /\ Linked(FreeHeader \ Absorbed, globalSize, Links)

\* Writing isFree at some pages makes them free, or not free.
LEMMA FreePagesSet ==
    ASSUME NEW f \in [Page -> BOOLEAN], NEW S
    PROVE  /\ Set(f, S, TRUE) \in [Page -> BOOLEAN] /\ Set(f, S, FALSE) \in [Page -> BOOLEAN]
           /\ FreeOf(Set(f, S, TRUE)) = FreeOf(f) \cup (S \cap Page)
           /\ FreeOf(Set(f, S, FALSE)) = FreeOf(f) \ S
<1>1. DOMAIN f = Page
  OBVIOUS
<1>2. Set(f, S, TRUE) \in [Page -> BOOLEAN] /\ Set(f, S, FALSE) \in [Page -> BOOLEAN]
  BY <1>1, Zenon DEF Set
<1>3. \A i \in Page : Set(f, S, TRUE)[i] <=> (i \in S \/ f[i])
  BY <1>1, Zenon DEF Set
<1>4. \A i \in Page : Set(f, S, FALSE)[i] <=> (i \notin S /\ f[i])
  BY <1>1, Zenon DEF Set
<1>5. FreeOf(Set(f, S, TRUE)) = FreeOf(f) \cup (S \cap Page)
  BY <1>3, Zenon DEF FreeOf
<1>6. FreeOf(Set(f, S, FALSE)) = FreeOf(f) \ S
  BY <1>4, Zenon DEF FreeOf
<1> QED
  BY <1>2, <1>5, <1>6

\* After a step, headers that tile the region are the headers.
LEMMA NewHeaders ==
    ASSUME NEW H, Tiled(H, globalSize')
    PROVE  Header' = H
<1>1. Header' = Headers(globalSize')
  BY DEF Header, Headers
<1> QED
  BY <1>1, HeadersAre

\* The free headers are the headers among the free pages.
LEMMA FreeHeaders ==
    ASSUME Tiled(Header, globalSize)
    PROVE  FreeHeader = Header \cap FreePages
BY DEF Tiled, FreeHeader, FreePages, FreeOf

\* hugePodMap.lower_bound finds an entry when there is one.
LEMMA LowerBound ==
    ASSUME NEW n \in Size, Fitting(n) # {}
    PROVE  lower_bound(n) \in Fitting(n)
<1>1. Fitting(n) \subseteq Nat
  BY DEF Fitting, Size
<1>2. \E c \in Fitting(n) : \A d \in Fitting(n) : c <= d
  BY <1>1, LeastOf
<1> QED
  BY <1>2 DEF lower_bound

\* The invariant holds of the region the constructor makes.
LEMMA InitInv == Init => AllocInv
<1> SUFFICES ASSUME Init PROVE AllocInv
  OBVIOUS
<1>1. PodCount \in Nat /\ PodCount > 0 /\ 0 \in Page /\ PodCount - 1 \in Page /\ PodCount \in Size
  BY PodCountAssumption DEF Page, Size
<1>2. /\ globalSize \in [Page -> 0 .. PodCount]
      /\ globalSize[0] = PodCount /\ globalSize[PodCount - 1] = PodCount
  BY <1>1 DEF Init, Set
<1>3. isFree \in [Page -> BOOLEAN] /\ crashed \in BOOLEAN
  BY Zenon DEF Init
<1>4. FreePages = Page
  BY Zenon DEF Init, FreePages, FreeOf
<1>5. /\ prev \in [Page -> Page \cup {NoPod}] /\ next \in [Page -> Page \cup {NoPod}]
      /\ hugePodMap \in [Size -> Page \cup {NoPod}]
      /\ freeing = NoPod /\ currI \in Page /\ freedSize \in 0 .. PodCount
  BY <1>1 DEF Init
<1>6. TypeOK
  BY <1>2, <1>3, <1>5, Zenon DEF TypeOK
<1>7. Tiled({0}, globalSize)
  BY <1>1, <1>2 DEF Tiled
<1>8. Header = {0}
  <2>1. Header = Headers(globalSize)
    BY DEF Header, Headers
  <2> QED
    BY <1>7, <2>1, HeadersAre
<1>9. Footers({0}, globalSize, FreePages)
  BY <1>1, <1>2, <1>4 DEF Footers, Footer
<1>10. FreeHeader \ Absorbed = {0}
  BY <1>1, <1>4, <1>5, <1>7, <1>8, FreeHeaders DEF Absorbed
<1>11. Linked({0}, globalSize, Links)
  <2>1. /\ Links \in LinkRecord
        /\ Links.prev = prev /\ Links.next = next /\ Links.map = hugePodMap
    BY <1>5 DEF Links, LinkRecord
  <2>2. /\ \A i \in Page : prev[i] = NoPod /\ next[i] = NoPod
        /\ \A n \in Size : hugePodMap[n] # NoPod => n = PodCount /\ hugePodMap[n] = 0
        /\ hugePodMap[PodCount] = 0
    BY <1>1 DEF Init
  <2>3. [i \in Page |-> 0] \in [Page -> Nat]
    OBVIOUS
  <2> QED
    BY <1>1, <1>2, <2>1, <2>2, <2>3 DEF Linked
<1> QED
  <2>1. Absorbed = {}
    BY <1>5 DEF Absorbed
  <2> QED
    BY <1>5, <1>6, <1>7, <1>8, <1>9, <1>10, <1>11, <2>1 DEF AllocInv, LoopOK

\* What SetLinks makes of the links.
LEMMA SetLinksIs ==
    ASSUME NEW s, s \in LinkRecord, SetLinks(s)
    PROVE  /\ Links' = s
           /\ prev' \in [Page -> Page \cup {NoPod}] /\ next' \in [Page -> Page \cup {NoPod}]
           /\ hugePodMap' \in [Size -> Page \cup {NoPod}]
BY DEF SetLinks, Links, LinkRecord

\* hugeFree starts: nothing of the blocks has changed.
LEMMA FreeStep ==
    ASSUME AllocInv, NEW i \in Page, hugeFree(i)
    PROVE  AllocInv'
<1>1. /\ freeing = NoPod /\ i \in Header /\ ~isFree[i]
      /\ freeing' = i /\ currI' = i /\ freedSize' = 0
      /\ globalSize' = globalSize /\ isFree' = isFree /\ prev' = prev /\ next' = next
      /\ hugePodMap' = hugePodMap /\ crashed' = crashed
  BY DEF hugeFree, links
<1>2. Header' = Header /\ FreePages' = FreePages /\ FreeHeader' = FreeHeader /\ Links' = Links
  BY <1>1 DEF Header, FreePages, FreeHeader, Links
<1>3. PodCount \in Nat /\ Header \subseteq Page /\ i \in Nat /\ globalSize[i] \in Nat
  BY PodCountAssumption DEF AllocInv, Tiled, Page, TypeOK
<1>4. TypeOK'
  BY <1>1, <1>3 DEF AllocInv, TypeOK
<1>5. LoopOK'
  BY <1>1, <1>2, <1>3 DEF LoopOK, FreePages, FreeOf
<1>6. Absorbed = {} /\ Absorbed' = {}
  <2>1. i # NoPod
    BY NoPodAssumption
  <2>2. Absorbed' = {j \in Header : i < j /\ j <= i}
    BY <1>1, <1>2, <2>1 DEF Absorbed
  <2>3. \A j \in Header : j \in Nat
    BY Apart DEF AllocInv
  <2>4. Absorbed' = {}
    <3>1. \A j \in Header : ~(i < j /\ j <= i)
      BY <1>3, <2>3
    <3> QED
      BY <2>2, <3>1
  <2> QED
    BY <1>1, <2>4 DEF Absorbed
<1> QED
  BY <1>1, <1>2, <1>4, <1>5, <1>6 DEF AllocInv

\* An iteration of the coalescing loop: the block to the right leaves its list.
LEMMA CoalesceStep ==
    ASSUME AllocInv, coalescingOnePodRight
    PROVE  AllocInv'
<1> DEFINE x == nextHeaderI
<1>1. /\ freeing # NoPod /\ x < PodCount /\ isFree[x]
      /\ freedSize' = freedSize + globalSize[x]
      /\ SetLinks(hugePodMapRemoveEntry(Links, x, globalSize[x]))
      /\ currI' = x
      /\ globalSize' = globalSize /\ isFree' = isFree /\ freeing' = freeing /\ crashed' = crashed
  BY DEF coalescingOnePodRight
<1>2. /\ freeing \in Header \ FreePages /\ currI \in Header /\ freeing <= currI
      /\ freedSize = (currI + globalSize[currI]) - (freeing + globalSize[freeing])
      /\ x = currI + globalSize[currI]
  BY <1>1 DEF AllocInv, LoopOK, nextHeaderI
<1> HIDE DEF x
<1>3. /\ PodCount \in Nat /\ Header \subseteq Page
      /\ \A j \in Header : j \in Nat /\ globalSize[j] \in Nat /\ 0 < globalSize[j] /\ j + globalSize[j] <= PodCount
  BY PodCountAssumption, Apart DEF AllocInv, Tiled
<1>4. /\ \A i \in Header : globalSize[i] \in Size /\ i + globalSize[i] \in Header \cup {PodCount}
      /\ \A i, j \in Header : i < j => i + globalSize[i] <= j
  BY DEF AllocInv, Tiled
<1>5. x \in Header /\ x \in Page /\ x \in FreePages
  BY <1>1, <1>2, <1>3, <1>4 DEF FreePages, FreeOf
<1>6. Header' = Header /\ FreePages' = FreePages /\ FreeHeader' = FreeHeader
  BY <1>1 DEF Header, FreePages, FreeHeader
<1> DEFINE L == FreeHeader \ Absorbed
<1>7. Absorbed' = Absorbed \cup {x} /\ x \notin Absorbed
  <2>1. Absorbed = {i \in Header : freeing < i /\ i <= currI}
    BY <1>1 DEF Absorbed
  <2>2. Absorbed' = {i \in Header : freeing < i /\ i <= x}
    BY <1>1, <1>6 DEF Absorbed
  <2>3. freeing < x /\ currI < x
    BY <1>2, <1>3
  <2>4. \A j \in Header : j <= x <=> (j <= currI \/ j = x)
    BY <1>2, <1>3, <1>4, <1>5, <2>3
  <2>5. x \notin Absorbed
    BY <1>2, <1>3, <1>5, <2>1, <2>3
  <2>6. Absorbed' = Absorbed \cup {x}
    BY <1>5, <2>1, <2>2, <2>3, <2>4
  <2> QED
    BY <2>5, <2>6
<1>8. x \in L /\ (FreeHeader \ Absorbed)' = L \ {x}
  BY <1>5, <1>6, <1>7, FreeHeaders DEF AllocInv
<1> HIDE DEF L
<1>9. Linked(L \ {x}, globalSize, hugePodMapRemoveEntry(Links, x, globalSize[x]))
  <2>1. Linked(L, globalSize, Links)
    BY DEF AllocInv, L
  <2> QED
    BY <1>8, <2>1, RemoveKeepsLinked
<1>10. hugePodMapRemoveEntry(Links, x, globalSize[x]) \in LinkRecord
  BY <1>9 DEF Linked
<1>11. /\ Links' = hugePodMapRemoveEntry(Links, x, globalSize[x])
       /\ prev' \in [Page -> Page \cup {NoPod}] /\ next' \in [Page -> Page \cup {NoPod}]
       /\ hugePodMap' \in [Size -> Page \cup {NoPod}]
  BY <1>1, <1>10, SetLinksIs
<1>12. LoopOK'
  <2>1. /\ freeing' \in Header' \ FreePages' /\ currI' \in Header' /\ freeing' <= currI'
    BY <1>1, <1>2, <1>3, <1>5, <1>6
  <2>2. freedSize' = (currI' + globalSize'[currI']) - (freeing' + globalSize'[freeing'])
    BY <1>1, <1>2, <1>3, <1>5
  <2> QED
    BY <2>1, <2>2 DEF LoopOK
<1>13. freedSize' \in 0 .. PodCount
  <2>1. freeing + globalSize[freeing] <= x
    BY <1>2, <1>3, <1>4, <1>5
  <2> QED
    BY <1>1, <1>2, <1>3, <1>5, <2>1
<1>14. TypeOK'
  BY <1>1, <1>5, <1>11, <1>13 DEF AllocInv, TypeOK
<1>15. Absorbed' \subseteq FreePages'
  BY <1>5, <1>6, <1>7 DEF AllocInv
<1> QED
  BY <1>1, <1>6, <1>8, <1>9, <1>11, <1>12, <1>14, <1>15 DEF AllocInv

\* The loop has ended: the freed block grows over the absorbed ones and is free.
LEMMA FinishStep ==
    ASSUME AllocInv, FinishFree
    PROVE  /\ AllocInv'
           /\ freeing \in Header \ FreePages
           /\ Header' \ FreePages' = (Header \ FreePages) \ {freeing}
           /\ \A j \in (Header \ FreePages) \ {freeing} : globalSize'[j] = globalSize[j]
<1> DEFINE f == freeing
           k == currI
           n == globalSize[f] + freedSize
           S == f .. Footer(f, globalSize[f]) \cup {Footer(f, n)}
           E == FreePages \cup (f .. Footer(f, globalSize[f])) \cup {Footer(f, n)}
           K == {j \in Header : ~(f < j /\ j <= k)}
           L == FreeHeader \ Absorbed
<1>1. /\ f # NoPod
      /\ globalSize' = Set(globalSize, {f, Footer(f, n)}, n)
      /\ isFree' = Set(isFree, S, TRUE)
      /\ SetLinks(hugePodMapAddEntry(Links, f, n))
      /\ freeing' = NoPod /\ currI' = 0 /\ freedSize' = 0 /\ crashed' = crashed
  BY DEF FinishFree
<1>2. /\ f \in Header /\ f \notin FreePages /\ k \in Header /\ f <= k
      /\ freedSize = (k + globalSize[k]) - (f + globalSize[f])
  BY <1>1 DEF AllocInv, LoopOK
<1>3. /\ PodCount \in Nat /\ Header \subseteq Page /\ FreePages \subseteq Page /\ 0 \in Page
      /\ \A j \in Header : j \in Nat /\ globalSize[j] \in Nat
  BY PodCountAssumption, Apart DEF AllocInv, Tiled, FreePages, FreeOf
<1>4. n = (k + globalSize[k]) - f
  BY <1>2, <1>3
<1> HIDE DEF n
<1>5. /\ globalSize \in [Page -> 0 .. PodCount] /\ isFree \in [Page -> BOOLEAN]
      /\ Tiled(Header, globalSize) /\ Footers(Header, globalSize, FreePages)
  BY DEF AllocInv, TypeOK
<1>6. /\ n \in Size
      /\ globalSize' \in [Page -> 0 .. PodCount] /\ E \subseteq Page
      /\ Tiled(K, globalSize') /\ Footers(K, globalSize', E)
      /\ globalSize'[f] = n /\ f \in E
      /\ \A j \in K \ {f} : globalSize'[j] = globalSize[j] /\ (j \in E <=> j \in FreePages)
  <2> DEFINE h == globalSize'
  <2>1. h = Set(globalSize, {f, Footer(f, n)}, n)
    BY <1>1
  <2>2. E = FreePages \cup (f .. Footer(f, globalSize[f])) \cup {Footer(f, n)}
    OBVIOUS
  <2>3. f \in Header /\ k \in Header /\ f <= k /\ FreePages \subseteq Page
    BY <1>2, <1>3
  <2> HIDE DEF f, k, h, E, S, L
  <2>4. MergedInto(Header, globalSize, FreePages, f, k, n, h, E)
    BY <1>4, <1>5, <2>1, <2>2, <2>3, MergeBlocks
  <2> QED
    BY <2>4 DEF h, MergedInto
<1>7. /\ isFree' \in [Page -> BOOLEAN] /\ FreePages' = FreePages \cup (S \cap Page)
  <2> HIDE DEF S
  <2>1. isFree' = Set(isFree, S, TRUE) /\ isFree \in [Page -> BOOLEAN]
    BY <1>1, <1>5
  <2>2. isFree' \in [Page -> BOOLEAN] /\ FreeOf(isFree') = FreeOf(isFree) \cup (S \cap Page)
    BY <2>1, FreePagesSet
  <2> QED
    BY <2>2 DEF FreePages
<1>8. FreePages' = E
  BY <1>6, <1>7
<1>9. Header' = K
  BY <1>6, NewHeaders
<1>10. Absorbed = {j \in Header : f < j /\ j <= k} /\ Absorbed' = {}
  BY <1>1 DEF Absorbed
<1>11. L = K \cap FreePages
  BY <1>5, <1>10, FreeHeaders
<1>12. FreeHeader' = K \cap E
  <2>1. (Tiled(Header, globalSize) => FreeHeader = Header \cap FreePages)'
    BY FreeHeaders, PTL
  <2> QED
    BY <1>6, <1>8, <1>9, <2>1
<1>13. f \in K
  BY <1>2, <1>3
<1> HIDE DEF E, K, L, S
<1>14. (FreeHeader \ Absorbed)' = L \cup {f} /\ f \notin L
  BY <1>2, <1>6, <1>10, <1>11, <1>12, <1>13
<1> DEFINE t == hugePodMapAddEntry(Links, f, n)
<1>15. Linked(L \cup {f}, globalSize', t)
  <2>1. Linked(L, globalSize, Links)
    BY DEF AllocInv, L
  <2>2. f \in Page \ L /\ \A j \in L : globalSize'[j] = globalSize[j]
    BY <1>2, <1>3, <1>6, <1>11, <1>14
  <2> HIDE DEF f
  <2> QED
    BY <1>6, <2>1, <2>2, AddKeepsLinked
<1> HIDE DEF t
<1>16. t \in LinkRecord
  BY <1>15 DEF Linked
<1>17. /\ Links' = t
       /\ prev' \in [Page -> Page \cup {NoPod}] /\ next' \in [Page -> Page \cup {NoPod}]
       /\ hugePodMap' \in [Size -> Page \cup {NoPod}]
  BY <1>1, <1>16, SetLinksIs DEF t
<1>18. 0 \in 0 .. PodCount
  BY <1>3
<1>19. TypeOK'
  BY <1>1, <1>3, <1>6, <1>7, <1>17, <1>18, Zenon DEF AllocInv, TypeOK
<1>20. AllocInv'
  BY <1>1, <1>6, <1>8, <1>9, <1>10, <1>14, <1>15, <1>17, <1>19 DEF AllocInv, LoopOK
<1>21. \A j \in Header \ FreePages : j \in K
  BY <1>10 DEF AllocInv, K
<1>22. \A j \in K : j \in Header
  BY DEF K
<1> QED
  BY <1>2, <1>6, <1>8, <1>9, <1>13, <1>20, <1>21, <1>22

\* allocateNPages hands out the first n pages of a free block.
LEMMA AllocateStep ==
    ASSUME AllocInv, NEW n \in Size, allocateNPages(n)
    PROVE  /\ AllocInv'
           /\ \E i \in Header \cap FreePages :
                 /\ n <= globalSize[i] /\ globalSize'[i] = n
                 /\ Header' \ FreePages' = (Header \ FreePages) \cup {i}
                 /\ \A j \in Header \ FreePages : globalSize'[j] = globalSize[j]
<1> DEFINE c == lower_bound(n)
           i == hugePodMap[c]
           L == FreeHeader \ Absorbed
           taken == TakeHead(Links, i, c)
<1>1. /\ freeing = NoPod /\ Fitting(n) # {}
      /\ freeing' = freeing /\ currI' = currI /\ freedSize' = freedSize /\ crashed' = crashed
  BY DEF allocateNPages, loopVars
<1>2. /\ c > n => /\ globalSize' = Set(Set(globalSize, {i, Footer(i, n)}, n), {i + n, Footer(i, c)}, c - n)
                  /\ isFree' = Set(Set(isFree, {i, Footer(i, n)}, FALSE), {i + n, Footer(i, c)}, TRUE)
                  /\ SetLinks(hugePodMapAddEntry(taken, i + n, c - n))
      /\ ~(c > n) => /\ globalSize' = Set(globalSize, {i, Footer(i, n)}, n)
                     /\ isFree' = Set(isFree, {i, Footer(i, n)}, FALSE)
                     /\ SetLinks(taken)
  BY Zenon DEF allocateNPages
<1>3. c \in Size /\ c >= n /\ i # NoPod
  <2>1. c \in Fitting(n)
    BY <1>1, LowerBound
  <2> HIDE DEF c
  <2> QED
    BY <2>1 DEF Fitting
<1> HIDE DEF c
<1>4. /\ PodCount \in Nat /\ Header \subseteq Page /\ FreePages \subseteq Page /\ n \in Nat /\ c \in Nat
      /\ \A j \in Header : j \in Nat /\ globalSize[j] \in Nat
  BY <1>3, PodCountAssumption, Apart DEF AllocInv, Tiled, FreePages, FreeOf, Size
<1>5. /\ globalSize \in [Page -> 0 .. PodCount] /\ isFree \in [Page -> BOOLEAN]
      /\ Tiled(Header, globalSize) /\ Footers(Header, globalSize, FreePages)
  BY DEF AllocInv, TypeOK
<1>6. Absorbed = {} /\ Absorbed' = {}
  BY <1>1 DEF Absorbed
<1>7. L = Header \cap FreePages
  BY <1>5, <1>6, FreeHeaders
<1>8. /\ i \in L /\ globalSize[i] = c
      /\ Linked(L \ {i}, globalSize, taken)
  <2>1. Linked(L, globalSize, Links)
    BY DEF AllocInv
  <2>2. Links.map[c] = i
    BY DEF Links
  <2> HIDE DEF L, i
  <2> QED
    BY <1>3, <2>1, <2>2, TakeKeepsLinked
<1>9. LoopOK'
  BY <1>1 DEF LoopOK
<1> HIDE DEF i, L, taken
<1>10. CASE c > n
  <2> DEFINE E == (FreePages \ {i, Footer(i, n)}) \cup {i + n, Footer(i, c)}
             R == {i + n, Footer(i, c)}
             t == hugePodMapAddEntry(taken, i + n, c - n)
  <2>1. /\ globalSize' \in [Page -> 0 .. PodCount] /\ E \subseteq Page
        /\ Tiled(Header \cup {i + n}, globalSize') /\ Footers(Header \cup {i + n}, globalSize', E)
        /\ i + n \in Page \ Header /\ globalSize'[i] = n /\ globalSize'[i + n] = c - n
        /\ i \notin E /\ i + n \in E
        /\ \A j \in Header \ {i} : globalSize'[j] = globalSize[j] /\ (j \in E <=> j \in FreePages)
    <3>1. i \in Header /\ n < globalSize[i]
      BY <1>4, <1>7, <1>8, <1>10
    <3>2. globalSize' = Set(Set(globalSize, {i, Footer(i, n)}, n), {i + n, Footer(i, globalSize[i])}, globalSize[i] - n)
      BY <1>2, <1>8, <1>10
    <3>3. E = (FreePages \ {i, Footer(i, n)}) \cup {i + n, Footer(i, globalSize[i])}
      BY <1>8
    <3> DEFINE h == globalSize'
    <3>4. h = Set(Set(globalSize, {i, Footer(i, n)}, n), {i + n, Footer(i, globalSize[i])}, globalSize[i] - n)
      BY <3>2
    <3> HIDE DEF E, h
    <3>5. SplitInto(Header, globalSize, FreePages, i, n, h, E)
      <4>1. FreePages \subseteq Page
        BY <1>4
      <4> QED
        BY <1>5, <3>1, <3>3, <3>4, <4>1, SplitBlock
    <3> QED
      BY <1>8, <3>5 DEF h, SplitInto
  <2>2. isFree' \in [Page -> BOOLEAN] /\ FreePages' = E
    <3> DEFINE A == {i, Footer(i, n)}
               u == Set(isFree, A, FALSE)
    <3> HIDE DEF R, A
    <3>1. u \in [Page -> BOOLEAN] /\ FreeOf(u) = FreeOf(isFree) \ A
      BY <1>5, FreePagesSet
    <3>2. isFree' = Set(u, R, TRUE)
      BY <1>2, <1>10 DEF R, A
    <3> HIDE DEF u
    <3>3. isFree' \in [Page -> BOOLEAN] /\ FreeOf(isFree') = FreeOf(u) \cup (R \cap Page)
      BY <3>1, <3>2, FreePagesSet
    <3>4. FreePages' = (FreePages \ A) \cup (R \cap Page)
      BY <3>1, <3>3 DEF FreePages
    <3> QED
      BY <2>1, <3>3, <3>4 DEF R, A
  <2>3. Header' = Header \cup {i + n}
    BY <2>1, NewHeaders
  <2>4. FreeHeader' = (Header \cup {i + n}) \cap E
    <3>1. (Tiled(Header, globalSize) => FreeHeader = Header \cap FreePages)'
      BY FreeHeaders, PTL
    <3> QED
      BY <2>1, <2>2, <2>3, <3>1
  <2> HIDE DEF E, R
  <2>5. (FreeHeader \ Absorbed)' = (L \ {i}) \cup {i + n}
    BY <1>6, <1>7, <1>8, <2>1, <2>4
  <2>6. Linked((L \ {i}) \cup {i + n}, globalSize', t)
    <3>1. i + n \in Page \ (L \ {i}) /\ \A j \in L \ {i} : globalSize'[j] = globalSize[j]
      BY <1>7, <2>1
    <3>2. c - n \in Size
      BY <1>3, <1>4, <1>10 DEF Size
    <3> DEFINE M == L \ {i}
               x == i + n
               d == c - n
    <3> HIDE DEF M, x, d
    <3>3. Linked(M \cup {x}, globalSize', hugePodMapAddEntry(taken, x, d))
      <4>1. Linked(M, globalSize, taken) /\ x \in Page \ M /\ d \in Size /\ globalSize'[x] = d
        BY <1>8, <2>1, <3>1, <3>2 DEF M, x, d
      <4>2. \A j \in M : globalSize'[j] = globalSize[j]
        BY <3>1 DEF M
      <4> QED
        BY <4>1, <4>2, AddKeepsLinked
    <3> QED
      BY <3>3 DEF M, x, d
  <2>7. t \in LinkRecord
    BY <2>6 DEF Linked
  <2> HIDE DEF t
  <2>8. /\ Links' = t
        /\ prev' \in [Page -> Page \cup {NoPod}] /\ next' \in [Page -> Page \cup {NoPod}]
        /\ hugePodMap' \in [Size -> Page \cup {NoPod}]
    BY <1>2, <1>10, <2>7, SetLinksIs DEF t
  <2>9. TypeOK'
    BY <1>1, <2>1, <2>2, <2>8, Zenon DEF AllocInv, TypeOK
  <2>10. AllocInv'
    BY <1>6, <1>9, <2>1, <2>2, <2>3, <2>5, <2>6, <2>8, <2>9 DEF AllocInv
  <2>11. Header' \ FreePages' = (Header \ FreePages) \cup {i}
    BY <1>7, <1>8, <2>1, <2>2, <2>3
  <2>12. \A j \in Header \ FreePages : globalSize'[j] = globalSize[j]
    BY <1>7, <1>8, <2>1
  <2> QED
    BY <1>3, <1>4, <1>7, <1>8, <2>1, <2>10, <2>11, <2>12
<1>11. CASE ~(c > n)
  <2>1. c = n
    BY <1>3, <1>4, <1>11
  <2> DEFINE A == {i, Footer(i, n)}
  <2>2. Footer(i, n) \in Page /\ globalSize[Footer(i, n)] = n /\ i \in Header /\ Footer(i, n) \in FreePages
    BY <1>5, <1>7, <1>8, <2>1, Apart DEF Footers
  <2>3. globalSize' = globalSize
    <3>1. globalSize' = Set(globalSize, A, n)
      BY <1>2, <1>11
    <3>2. \A j \in A : globalSize[j] = n
      BY <1>8, <2>1, <2>2
    <3> HIDE DEF A
    <3> QED
      BY <1>5, <3>1, <3>2 DEF Set
  <2>4. isFree' \in [Page -> BOOLEAN] /\ FreePages' = FreePages \ A
    <3>1. isFree' = Set(isFree, A, FALSE)
      BY <1>2, <1>11
    <3> HIDE DEF A
    <3>2. isFree' \in [Page -> BOOLEAN] /\ FreeOf(isFree') = FreeOf(isFree) \ A
      BY <1>5, <3>1, FreePagesSet
    <3> QED
      BY <3>2 DEF FreePages
  <2>5. Header' = Header
    BY <2>3 DEF Header
  <2>6. \A j \in Header \ {i} : j \notin A /\ Footer(j, globalSize[j]) \notin A
    <3> TAKE j \in Header \ {i}
    <3>1. /\ i \in Nat /\ n \in Nat /\ 0 < n /\ Footer(i, n) = i + n - 1
          /\ j + globalSize[j] <= i \/ i + n <= j
      BY <1>4, <1>5, <1>8, <2>1, <2>2, Apart DEF Footer
    <3>2. j \in Nat /\ globalSize[j] \in Nat /\ 0 < globalSize[j] /\ Footer(j, globalSize[j]) = j + globalSize[j] - 1
      BY <1>5, Apart DEF Footer
    <3> QED
      BY <3>1, <3>2
  <2>7. Footers(Header, globalSize, FreePages \ A)
    <3>1. i \in A /\ Footer(i, globalSize[i]) \in A
      BY <1>8, <2>1
    <3> HIDE DEF A
    <3> QED
      BY <1>5, <2>6, <3>1 DEF Footers
  <2>8. FreeHeader' = Header \cap (FreePages \ A)
    <3>1. (Tiled(Header, globalSize) => FreeHeader = Header \cap FreePages)'
      BY FreeHeaders, PTL
    <3> QED
      BY <1>5, <2>3, <2>4, <2>5, <3>1
  <2>9. (FreeHeader \ Absorbed)' = L \ {i}
    BY <1>6, <1>7, <2>6, <2>8
  <2>10. taken \in LinkRecord
    BY <1>8 DEF Linked
  <2>11. /\ Links' = taken
         /\ prev' \in [Page -> Page \cup {NoPod}] /\ next' \in [Page -> Page \cup {NoPod}]
         /\ hugePodMap' \in [Size -> Page \cup {NoPod}]
    BY <1>2, <1>11, <2>10, SetLinksIs
  <2>12. TypeOK'
    BY <1>1, <2>3, <2>4, <2>11, Zenon DEF AllocInv, TypeOK
  <2>13. AllocInv'
    BY <1>5, <1>6, <1>8, <1>9, <2>3, <2>4, <2>5, <2>7, <2>9, <2>11, <2>12 DEF AllocInv
  <2>14. Header' \ FreePages' = (Header \ FreePages) \cup {i}
    BY <1>7, <1>8, <2>2, <2>4, <2>5, <2>6
  <2> QED
    BY <1>4, <1>7, <1>8, <2>1, <2>3, <2>13, <2>14
<1> QED
  BY <1>10, <1>11

\* A step that touches none of the blocks.
LEMMA IdleStep ==
    ASSUME AllocInv, crashed' \in BOOLEAN,
           UNCHANGED <<globalSize, isFree, links, loopVars>>
    PROVE  AllocInv'
<1>1. /\ globalSize' = globalSize /\ isFree' = isFree /\ prev' = prev /\ next' = next
      /\ hugePodMap' = hugePodMap /\ freeing' = freeing /\ currI' = currI /\ freedSize' = freedSize
  BY DEF links, loopVars
<1>2. TypeOK'
  BY <1>1, Zenon DEF AllocInv, TypeOK
<1>3. /\ Header' = Header /\ FreePages' = FreePages /\ FreeHeader' = FreeHeader
      /\ Absorbed' = Absorbed /\ Links' = Links
  BY <1>1 DEF Header, FreePages, FreeOf, FreeHeader, Absorbed, Links
<1>4. LoopOK'
  BY <1>1, <1>3 DEF AllocInv, LoopOK
<1> QED
  BY <1>1, <1>2, <1>3, <1>4 DEF AllocInv

\* Every step keeps the invariant.
LEMMA NextInv == AllocInv /\ [Next]_vars => AllocInv'
<1> SUFFICES ASSUME AllocInv, [Next]_vars
             PROVE  AllocInv'
  OBVIOUS
<1>1. ASSUME NEW n \in Size, allocateNPages(n)
      PROVE  AllocInv'
  BY <1>1, AllocateStep
<1>2. ASSUME NEW n \in Size, allocateNPagesFails(n)
      PROVE  AllocInv'
  <2>1. crashed' \in BOOLEAN
    BY <1>2, Zenon DEF allocateNPagesFails
  <2> QED
    BY <1>2, <2>1, IdleStep DEF allocateNPagesFails
<1>3. ASSUME NEW i \in Page, hugeFree(i)
      PROVE  AllocInv'
  BY <1>3, FreeStep
<1>4. CASE coalescingOnePodRight
  BY <1>4, CoalesceStep
<1>5. CASE FinishFree
  BY <1>5, FinishStep
<1>6. CASE UNCHANGED vars
  <2>1. crashed' \in BOOLEAN
    BY <1>6, Zenon DEF vars, AllocInv, TypeOK
  <2> QED
    BY <1>6, <2>1, IdleStep DEF vars
<1> QED
  BY <1>1, <1>2, <1>3, <1>4, <1>5, <1>6 DEF Next

\* AllocInv holds in every reachable state of the page allocator.
THEOREM AllocInvariance == Spec => []AllocInv
BY InitInv, NextInv, PTL DEF Spec

\* Sizes, links and the locals of the coalescing loop keep their types; freedSize
\* never exceeds the region.
THEOREM TypeCorrect == Spec => []TypeOK
<1>1. AllocInv => TypeOK
  BY DEF AllocInv
<1> QED
  BY <1>1, AllocInvariance, PTL

\* The blocks allocateNPages cuts and hugeFree merges tile the region, and their
\* headers and footers agree.
THEOREM RegionIsTiled == Spec => []BlocksTile
<1>1. AllocInv => BlocksTile
  <2> SUFFICES ASSUME AllocInv, NEW i \in Header
               PROVE  LET f == Footer(i, globalSize[i]) IN
                      /\ globalSize[i] > 0 /\ f \in Page
                      /\ globalSize[f] = globalSize[i] /\ isFree[f] = isFree[i]
    BY DEF BlocksTile
  <2> DEFINE f == Footer(i, globalSize[i])
  <2>1. globalSize[i] > 0 /\ f \in Page /\ i \in Page
    BY Apart DEF AllocInv, Tiled
  <2>2. globalSize[f] = globalSize[i] /\ (i \in FreePages <=> f \in FreePages)
    BY DEF AllocInv, Footers
  <2> HIDE DEF f
  <2>3. isFree \in [Page -> BOOLEAN]
    BY DEF AllocInv, TypeOK
  <2>4. isFree[i] <=> isFree[f]
    BY <2>1, <2>2, Zenon DEF FreePages, FreeOf
  <2>5. isFree[f] = isFree[i]
    <3>1. isFree[f] \in BOOLEAN /\ isFree[i] \in BOOLEAN
      BY <2>1, <2>3, Zenon
    <3> QED
      BY <2>4, <3>1
  <2> QED
    BY <2>1, <2>2, <2>5 DEF f
<1> QED
  BY <1>1, AllocInvariance, PTL

\* hugePodMapAddEntry, hugePodMapRemoveEntry and allocateNPages keep every free
\* block on the list of its size, and nothing else: no block is lost from the lists
\* and none can be handed out twice.
THEOREM ListsAreExact == Spec => []FreeListsExact
<1>1. AllocInv => FreeListsExact
  <2> SUFFICES ASSUME AllocInv PROVE FreeListsExact
    OBVIOUS
  <2> DEFINE L == FreeHeader \ Absorbed
  <2>1. Linked(L, globalSize, Links)
    BY DEF AllocInv
  <2>2. Links.map = hugePodMap /\ Links.next = next /\ Links.prev = prev
    BY DEF Links
  <2> HIDE DEF L
  <2>3. Listed = L
    <3>1. Reached({Links.map[n] : n \in Size} \cap Page, Links.next) = L
      BY <2>1, ListsReach
    <3> QED
      BY <2>2, <3>1 DEF Listed
  <2>4. \A n \in Size : hugePodMap[n] # NoPod =>
            globalSize[hugePodMap[n]] = n /\ prev[hugePodMap[n]] = NoPod
    BY <2>1, <2>2 DEF Linked
  <2>5. \A i \in L : next[i] # NoPod =>
            prev[next[i]] = i /\ globalSize[next[i]] = globalSize[i]
    BY <2>1, <2>2 DEF Linked
  <2> QED
    BY <2>3, <2>4, <2>5 DEF FreeListsExact, L
<1> QED
  BY <1>1, AllocInvariance, PTL

\* The headers of the blocks in use.
InUse == {h \in Header : ~isFree[h]}

\* They are the headers that are not free pages.
LEMMA InUseIs ==
    ASSUME AllocInv
    PROVE  InUse = Header \ FreePages
BY DEF AllocInv, Tiled, InUse, FreePages, FreeOf

\* What the refinement mapping makes of them.
Live == {<<i, globalSize[i]>> : i \in InUse}

\* The allocator implements BlockStore: allocateNPages hands out a run of the size
\* asked for that overlaps no run in use, hugeFree gives back exactly the run it was
\* called for, and no other step changes a run in use.
THEOREM AllocatorImplementsStore == Spec => ImplementsStore
<1>1. Init => Store!Init
  <2> SUFFICES ASSUME Init PROVE Live = {}
    BY DEF Store!Init, Live, InUse
  <2>1. AllocInv
    BY InitInv
  <2>2. FreePages = Page /\ Header \subseteq Page
    BY <2>1, Zenon DEF Init, FreePages, FreeOf, AllocInv, Tiled
  <2> QED
    BY <2>1, <2>2, InUseIs DEF Live
<1>2. AllocInv /\ AllocInv' /\ [Next]_vars => [Store!Next]_Live
  <2> SUFFICES ASSUME AllocInv, AllocInv', [Next]_vars
               PROVE  Store!Next \/ Live' = Live
    OBVIOUS
  <2>1. InUse = Header \ FreePages /\ InUse' = Header' \ FreePages'
    <3>1. (AllocInv => InUse = Header \ FreePages)'
      BY InUseIs, PTL
    <3> QED
      BY <3>1, InUseIs
  <2>2. ASSUME globalSize' = globalSize, isFree' = isFree
        PROVE  Live' = Live
    BY <2>2 DEF Live, InUse, Header
  <2>3. ASSUME NEW n \in Size, allocateNPages(n)
        PROVE  Store!Next
    <3>1. PICK i \in Header \cap FreePages :
                 /\ n <= globalSize[i] /\ globalSize'[i] = n
                 /\ Header' \ FreePages' = (Header \ FreePages) \cup {i}
                 /\ \A j \in Header \ FreePages : globalSize'[j] = globalSize[j]
      BY <2>3, AllocateStep
    <3>2. Live' = Live \cup {<<i, n>>}
      BY <2>1, <3>1 DEF Live
    <3>3. i \in 0 .. (PodCount - 1) /\ n \in 1 .. PodCount /\ i \in Nat /\ n \in Nat
      BY DEF AllocInv, Tiled, Page, Size
    <3>4. /\ globalSize[i] \in Nat /\ i + globalSize[i] <= PodCount
          /\ \A j \in Header \ {i} : j + globalSize[j] <= i \/ i + globalSize[i] <= j
          /\ PodCount \in Nat
      BY Apart, PodCountAssumption DEF AllocInv
    <3>5. i + n <= PodCount
      BY <3>1, <3>3, <3>4
    <3>6. ASSUME NEW b \in Live
          PROVE  Store!Pages(b) \cap Store!Pages(<<i, n>>) = {}
      <4>1. PICK j \in InUse : b = <<j, globalSize[j]>>
        BY DEF Live
      <4>2. j \in Header \ {i} /\ j \in Nat /\ globalSize[j] \in Nat
        BY <2>1, <3>1, <4>1, Apart DEF AllocInv
      <4>3. j + globalSize[j] <= i \/ i + n <= j
        BY <3>1, <3>3, <3>4, <4>2
      <4>4. (j .. (j + globalSize[j] - 1)) \cap (i .. (i + n - 1)) = {}
        BY <3>3, <4>2, <4>3
      <4> QED
        BY <4>1, <4>4 DEF Store!Pages
    <3>7. Store!Allocate(i, n)
      BY <3>2, <3>5, <3>6 DEF Store!Allocate, Live, InUse
    <3> QED
      BY <3>3, <3>7 DEF Store!Next
  <2>4. CASE FinishFree
    <3>1. /\ freeing \in InUse
          /\ InUse' = InUse \ {freeing}
          /\ \A j \in InUse \ {freeing} : globalSize'[j] = globalSize[j]
      BY <2>1, <2>4, FinishStep
    <3> DEFINE b == <<freeing, globalSize[freeing]>>
    <3>2. Live' = Live \ {b} /\ b \in Live
      BY <3>1 DEF Live
    <3>3. \E d \in Live : Live' = Live \ {d}
      BY <3>2
    <3>4. \E d \in Live : Store!Free(d)
      BY <3>3 DEF Store!Free, Live, InUse
    <3> QED
      BY <3>4 DEF Store!Next, Live, InUse
  <2>5. ASSUME NEW n \in Size, allocateNPagesFails(n)
        PROVE  Live' = Live
    BY <2>2, <2>5 DEF allocateNPagesFails
  <2>6. ASSUME NEW i \in Page, hugeFree(i)
        PROVE  Live' = Live
    BY <2>2, <2>6 DEF hugeFree
  <2>7. CASE coalescingOnePodRight
    BY <2>2, <2>7 DEF coalescingOnePodRight
  <2>8. CASE UNCHANGED vars
    BY <2>2, <2>8 DEF vars
  <2> QED
    BY <2>3, <2>4, <2>5, <2>6, <2>7, <2>8 DEF Next
<1> QED
  BY <1>1, <1>2, AllocInvariance, PTL DEF Spec, ImplementsStore, Store!Spec, Live, InUse
=============================================================================

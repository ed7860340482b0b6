-------------------------- MODULE BlockCacheProofs --------------------------
(***************************************************************************)
(* Proofs about BlockCache: one struct per block, and what an interleaving *)
(* of acquires, releases, syncs and commits may do to the pointers and to  *)
(* the logged blocks.                                                      *)
(***************************************************************************)
EXTENDS BlockCache, SequenceTheorems, NaturalsInduction, WellFoundedInduction,
        FiniteSetTheorems, TLAPS

-----------------------------------------------------------------------------
(* The lists of src/src/common/list.h are sequences here: what inserting   *)
(* and detaching a node does to the nodes of a list that has each of them  *)
(* once.                                                                   *)

(* A node inserted at the front.                                           *)
LEMMA ConsMembers ==
  ASSUME NEW S, NEW q \in Seq(S), NEW x \in S, IsInjective(q), x \notin Range(q)
  PROVE  /\ <<x>> \o q \in Seq(S)
         /\ IsInjective(<<x>> \o q)
         /\ Range(<<x>> \o q) = Range(q) \cup {x}
<1> DEFINE r == <<x>> \o q
<1>0. <<x>> \in Seq(S) /\ Len(<<x>>) = 1 /\ <<x>>[1] = x
  OBVIOUS
<1>1. /\ r \in Seq(S)
      /\ Len(r) = Len(q) + 1
      /\ \A i \in 1..(Len(q) + 1) : r[i] = IF i <= 1 THEN x ELSE q[i - 1]
  BY <1>0, ConcatProperties
<1>2. DOMAIN q = 1..Len(q) /\ Len(q) \in Nat /\ DOMAIN r = 1..(Len(q) + 1)
  BY <1>1
<1> HIDE DEF r
<1>3. IsInjective(r)
  <2>1. \A i \in DOMAIN q : q[i] # x
    BY DEF Range
  <2> SUFFICES ASSUME NEW i \in 1..(Len(q) + 1), NEW j \in 1..(Len(q) + 1),
                      r[i] = r[j]
               PROVE  i = j
    BY <1>2 DEF IsInjective
  <2>2. CASE i = 1 \/ j = 1
    BY <1>1, <1>2, <2>1, <2>2
  <2>3. CASE i # 1 /\ j # 1
    <3>1. q[i - 1] = q[j - 1] /\ i - 1 \in DOMAIN q /\ j - 1 \in DOMAIN q
      BY <1>1, <1>2, <2>3
    <3>2. i - 1 = j - 1
      BY <3>1 DEF IsInjective
    <3> QED  BY <3>2
  <2> QED  BY <2>2, <2>3
<1>4. Range(r) = Range(q) \cup {x}
  <2>1. \A y \in Range(r) : y \in Range(q) \cup {x}
    BY <1>1, <1>2 DEF Range
  <2>2. x \in Range(r)
    BY <1>1, <1>2 DEF Range
  <2>3. ASSUME NEW i \in 1..Len(q)  PROVE q[i] \in Range(r)
    <3>1. r[i + 1] = q[i] /\ i + 1 \in DOMAIN r
      BY <1>1, <1>2
    <3> QED  BY <3>1 DEF Range
  <2> QED  BY <1>2, <2>1, <2>2, <2>3 DEF Range
<1> QED  BY <1>1, <1>3, <1>4 DEF r

(* One node is detached, wherever it is.                                   *)
LEMMA RemoveMembers ==
  ASSUME NEW S, NEW q \in Seq(S), IsInjective(q), NEW x \in Range(q)
  PROVE  /\ RemoveFirst(q, x) \in Seq(S)
         /\ Len(RemoveFirst(q, x)) = Len(q) - 1
         /\ IsInjective(RemoveFirst(q, x))
         /\ Range(RemoveFirst(q, x)) = Range(q) \ {x}
<1>0. DOMAIN q = 1..Len(q) /\ Len(q) \in Nat /\ \A i \in 1..Len(q) : q[i] \in S
  OBVIOUS
<1>1. PICK k \in 1..Len(q) : q[k] = x
  BY <1>0 DEF Range
<1>2. {i \in 1..Len(q) : q[i] = x} = {k}
  BY <1>0, <1>1 DEF IsInjective
<1>3. Min({k}) = k
  BY DEF Min
<1> DEFINE a == SubSeq(q, 1, k - 1)
           b == SubSeq(q, k + 1, Len(q))
           r == a \o b
<1>4. RemoveFirst(q, x) = r
  BY <1>1, <1>2, <1>3 DEF RemoveFirst, SelectInSeq, RemoveAt
<1>5. /\ a \in Seq(S)
      /\ Len(a) = k - 1
      /\ \A i \in 1..(k - 1) : a[i] = q[i]
  BY <1>0, SubSeqProperties
<1>6. /\ b \in Seq(S)
      /\ Len(b) = Len(q) - k
      /\ \A i \in 1..(Len(q) - k) : b[i] = q[k + i]
  <2>1. \A i \in (k + 1)..Len(q) : q[i] \in S
    BY <1>0
  <2>2. k + 1 \in Int /\ Len(q) \in Int
    BY <1>0
  <2>3. /\ b \in Seq(S)
        /\ Len(b) = IF k + 1 <= Len(q) THEN Len(q) - (k + 1) + 1 ELSE 0
        /\ \A i \in 1..(Len(q) - (k + 1) + 1) : b[i] = q[k + 1 + i - 1]
    BY <2>1, <2>2, SubSeqProperties
  <2> HIDE DEF b
  <2>4. Len(b) = Len(q) - k
    <3>1. Len(b) = IF k + 1 <= Len(q) THEN Len(q) - (k + 1) + 1 ELSE 0
      BY <2>3
    <3>2. Len(q) \in Nat /\ k \in Nat /\ k <= Len(q)
      BY <1>0
    <3>3. CASE k + 1 <= Len(q)
      BY <3>1, <3>2, <3>3
    <3>4. CASE ~(k + 1 <= Len(q))
      <4>1. k = Len(q)
        BY <3>2, <3>4
      <4> QED  BY <3>1, <3>2, <3>4, <4>1
    <3> QED  BY <3>3, <3>4
  <2>5. ASSUME NEW i \in 1..(Len(q) - k)  PROVE b[i] = q[k + i]
    <3>1. i \in 1..(Len(q) - (k + 1) + 1) /\ k + 1 + i - 1 = k + i
      BY <1>0
    <3> QED  BY <2>3, <3>1
  <2> QED  BY <2>3, <2>4, <2>5
<1> HIDE DEF a, b
<1>7. /\ r \in Seq(S)
      /\ Len(r) = Len(q) - 1
      /\ \A i \in 1..(Len(q) - 1) : r[i] = IF i <= k - 1 THEN a[i] ELSE b[i - (k - 1)]
  <2>1. /\ r \in Seq(S)
        /\ Len(r) = Len(a) + Len(b)
        /\ \A i \in 1..(Len(a) + Len(b)) :
             r[i] = IF i <= Len(a) THEN a[i] ELSE b[i - Len(a)]
    BY <1>5, <1>6, ConcatProperties
  <2> HIDE DEF r
  <2> QED  BY <1>0, <1>5, <1>6, <2>1
<1> HIDE DEF r
<1>8. \A i \in 1..(Len(q) - 1) : r[i] = IF i < k THEN q[i] ELSE q[i + 1]
  <2> SUFFICES ASSUME NEW i \in 1..(Len(q) - 1)
               PROVE  r[i] = IF i < k THEN q[i] ELSE q[i + 1]
    OBVIOUS
  <2>1. CASE i < k
    BY <1>0, <1>5, <1>7, <2>1
  <2>2. CASE i >= k
    <3>1. i - (k - 1) \in 1..(Len(q) - k) /\ k + (i - (k - 1)) = i + 1
      BY <1>0, <2>2
    <3>2. r[i] = b[i - (k - 1)]
      <4>1. r[i] = IF i <= k - 1 THEN a[i] ELSE b[i - (k - 1)]
        BY <1>7
      <4>2. ~(i <= k - 1)
        BY <1>0, <2>2
      <4> QED  BY <4>1, <4>2
    <3> QED  BY <1>6, <3>1, <3>2, <2>2
  <2> QED  BY <1>0, <2>1, <2>2
<1>9. DOMAIN r = 1..(Len(q) - 1)
  BY <1>7
<1>10. IsInjective(r)
  <2> SUFFICES ASSUME NEW i \in 1..(Len(q) - 1), NEW j \in 1..(Len(q) - 1),
                      r[i] = r[j]
               PROVE  i = j
    BY <1>9 DEF IsInjective
  <2> DEFINE f(n) == IF n < k THEN n ELSE n + 1
  <2>1. f(i) \in DOMAIN q /\ f(j) \in DOMAIN q /\ q[f(i)] = q[f(j)]
    BY <1>0, <1>8
  <2>2. f(i) = f(j)
    BY <2>1 DEF IsInjective
  <2> QED  BY <1>0, <2>2
<1>11. Range(r) = Range(q) \ {x}
  <2>1. \A i \in 1..(Len(q) - 1) : r[i] \in Range(q) /\ r[i] # x
    BY <1>0, <1>1, <1>8 DEF Range, IsInjective
  <2>2. ASSUME NEW i \in 1..Len(q), q[i] # x  PROVE q[i] \in Range(r)
    <3> DEFINE j == IF i < k THEN i ELSE i - 1
    <3>1. j \in DOMAIN r /\ r[j] = q[i]
      BY <1>0, <1>1, <1>8, <1>9, <2>2
    <3> QED  BY <3>1 DEF Range
  <2> QED  BY <1>0, <1>9, <2>1, <2>2 DEF Range
<1> QED  BY <1>4, <1>7, <1>10, <1>11

(* Every set of natural numbers that is not empty has a least element.     *)
LEMMA LeastNat ==
  ASSUME NEW T, T \subseteq Nat, T # {}
  PROVE  \E m \in T : \A y \in T : m <= y
<1> DEFINE R == OpToRel(<, Nat)
<1>1. IsWellFoundedOn(R, Nat)
  BY NatLessThanWellFounded, Zenon
<1>2. \A x, y \in Nat : x < y => <<x, y>> \in R
  BY Zenon DEF OpToRel
<1> HIDE DEF R
<1>3. PICK m \in T : \A y \in T : ~(<<y, m>> \in R)
  BY <1>1, WFMin, Zenon
<1>4. \A y \in T : ~(y < m)
  BY <1>2, <1>3, Zenon
<1> QED  BY <1>4

(* The node at place i of a list is the one that RemoveFirst detaches.     *)
LEMMA RemoveAtIs ==
  ASSUME NEW S, NEW q \in Seq(S), IsInjective(q), NEW i \in 1..Len(q)
  PROVE  RemoveAt(q, i) = RemoveFirst(q, q[i])
<1>1. DOMAIN q = 1..Len(q) /\ Len(q) \in Nat
  OBVIOUS
<1>2. {j \in 1..Len(q) : q[j] = q[i]} = {i}
  BY <1>1 DEF IsInjective
<1>3. Min({i}) = i
  BY DEF Min
<1> QED  BY <1>1, <1>2, <1>3 DEF RemoveFirst, SelectInSeq

-----------------------------------------------------------------------------
(* The eviction loop.                                                      *)

(* The loop, turn by turn: the function that Loop defines exists, so its   *)
(* value after turn i is what Turn makes of the one before.                *)
LEMMA LoopTurns ==
  ASSUME Len(list) \in Nat
  PROVE  /\ Loop[0] = [kept |-> <<>>, freed |-> 0]
         /\ \A i \in 1..Len(list) : Loop[i] = Turn(Loop[i - 1], list[Len(list) + 1 - i])
<1> DEFINE N == Len(list)
           b == [kept |-> <<>>, freed |-> 0]
           Then(f, i) == IF i = 0 THEN b ELSE Turn(f[i - 1], list[N + 1 - i])
           Runs(f, n) == f = [i \in 0..n |-> Then(f, i)]
<1>1. \A n \in Nat : \E f : Runs(f, n)
  <2> SUFFICES ASSUME {n \in Nat : ~\E f : Runs(f, n)} # {} PROVE FALSE
    OBVIOUS
  <2> HIDE DEF Runs
  <2>1. PICK n \in {k \in Nat : ~\E f : Runs(f, k)} :
               \A k \in {j \in Nat : ~\E f : Runs(f, j)} : n <= k
    BY LeastNat
  <2>2. n # 0
    <3>1. Runs([i \in 0..0 |-> b], 0)
      BY DEF Runs
    <3> QED  BY <2>1, <3>1
  <2>3. n - 1 \in Nat /\ ~(n <= n - 1)
    BY <2>1, <2>2
  <2>4. PICK f : Runs(f, n - 1)
    BY <2>1, <2>3
  <2> DEFINE g == [i \in 0..n |-> Then(f, i)]
  <2> HIDE DEF b
  <2>5. \A i \in 0..(n - 1) : g[i] = f[i]
    <3>1. \A i \in 0..(n - 1) : f[i] = Then(f, i)
      BY <2>4 DEF Runs
    <3> HIDE DEF Then
    <3> QED  BY <2>1, <3>1
  <2>6. \A i \in 1..n : i - 1 \in 0..(n - 1)
    BY <2>1
  <2>7. Runs(g, n)
    <3>1. \A i \in 0..n : g[i] = IF i = 0 THEN b ELSE Turn(f[i - 1], list[N + 1 - i])
      OBVIOUS
    <3>2. \A i \in 1..n : f[i - 1] = g[i - 1]
      BY <2>5, <2>6
    <3>3. g = [i \in 0..n |-> g[i]]
      OBVIOUS
    <3> HIDE DEF g, N
    <3>4. \A i \in 0..n : g[i] = IF i = 0 THEN b ELSE Turn(g[i - 1], list[N + 1 - i])
      BY <2>1, <3>1, <3>2
    <3> QED  BY <3>3, <3>4 DEF Runs
  <2> QED  BY <2>1, <2>7
<1>2. \E f : Runs(f, N)
  BY <1>1
<1>3. Loop = CHOOSE f : Runs(f, N)
  BY DEF Loop
<1>4. Runs(Loop, N)
  <2> HIDE DEF Runs
  <2> QED  BY <1>2, <1>3, Zenon
<1>5. \A i \in 0..N : Loop[i] = IF i = 0 THEN b ELSE Turn(Loop[i - 1], list[N + 1 - i])
  BY <1>4
<1> HIDE DEF b
<1>6. Loop[0] = b /\ \A i \in 1..N : Loop[i] = Turn(Loop[i - 1], list[N + 1 - i])
  BY <1>5
<1> QED  BY <1>6 DEF b

(* What is left of the list is a list again, and only structs that are     *)
(* neither pinned nor marked as acquired are gone.                         *)
LEMMA EvictFine ==
  ASSUME list \in Seq(Buf), IsInjective(list)
  PROVE  /\ Evict \in Seq(Buf) /\ IsInjective(Evict)
         /\ Range(Evict) \subseteq Range(list)
         /\ \A b \in Range(list) \ Range(Evict) : MayEvict(b)
<1> DEFINE N == Len(list)
           Fine(i) == /\ Loop[i].kept \in Seq(Buf) /\ IsInjective(Loop[i].kept)
                      /\ \A b \in Range(Loop[i].kept) : \E j \in (N + 1 - i)..N : list[j] = b
                      /\ \A j \in (N + 1 - i)..N :
                           list[j] \in Range(Loop[i].kept) \/ MayEvict(list[j])
<1>0. N \in Nat /\ DOMAIN list = 1..N /\ \A j \in 1..N : list[j] \in Buf
  OBVIOUS
<1>1. /\ Loop[0] = [kept |-> <<>>, freed |-> 0]
      /\ \A i \in 1..N : Loop[i] = Turn(Loop[i - 1], list[N + 1 - i])
  BY <1>0, LoopTurns
<1>2. Fine(0)
  <2>1. Loop[0].kept = <<>> /\ Range(<<>>) = {} /\ IsInjective(<<>>) /\ <<>> \in Seq(Buf)
    BY <1>1 DEF Range, IsInjective
  <2>2. (N + 1 - 0)..N = {}
    BY <1>0
  <2> QED  BY <2>1, <2>2
<1>3. ASSUME NEW i \in 1..N, Fine(i - 1) PROVE Fine(i)
  <2> DEFINE k == N + 1 - i
             b == list[k]
  <2>0. k \in 1..N /\ N + 1 - (i - 1) = k + 1
    BY <1>0
  <2>1. PICK a : a = Loop[i - 1]
    OBVIOUS
  <2>2. /\ a.kept \in Seq(Buf) /\ IsInjective(a.kept)
        /\ \A c \in Range(a.kept) : \E j \in (k + 1)..N : list[j] = c
        /\ \A j \in (k + 1)..N : list[j] \in Range(a.kept) \/ MayEvict(list[j])
    BY <1>3, <2>0, <2>1
  <2>3. Loop[i] = Turn(a, b)
    BY <1>1, <2>1
  <2>4. b \in Buf /\ b \notin Range(a.kept)
    <3>1. \A j \in (k + 1)..N : list[j] # list[k]
      BY <1>0, <2>0 DEF IsInjective
    <3> QED  BY <1>0, <2>0, <2>2, <3>1
  <2>5. \A j \in k..N : j = k \/ j \in (k + 1)..N
    BY <1>0, <2>0
  <2>6. CASE MayEvict(b) /\ ThresholdReached(Len(list) - a.freed)
    <3>1. Loop[i] = [a EXCEPT !.freed = a.freed + 1]
      BY <2>3, <2>6 DEF Turn
    <3>2. Loop[i].kept = a.kept
      BY <3>1
    <3>3. \A j \in (k + 1)..N : j \in k..N
      BY <1>0, <2>0
    <3> HIDE DEF N, k
    <3> QED  BY <2>2, <2>5, <2>6, <3>2, <3>3 DEF k
  <2>7. CASE ~(MayEvict(b) /\ ThresholdReached(Len(list) - a.freed))
    <3>1. Loop[i] = [a EXCEPT !.kept = <<b>> \o a.kept]
      BY <2>3, <2>7 DEF Turn
    <3>2. Loop[i].kept = <<b>> \o a.kept
      BY <3>1
    <3>3. /\ Loop[i].kept \in Seq(Buf) /\ IsInjective(Loop[i].kept)
          /\ Range(Loop[i].kept) = Range(a.kept) \cup {b}
      BY <2>2, <2>4, <3>2, ConsMembers
    <3>4. k \in k..N /\ \A j \in (k + 1)..N : j \in k..N
      BY <1>0, <2>0
    <3> HIDE DEF N, k
    <3> QED  BY <2>2, <2>5, <3>3, <3>4 DEF k
  <2> QED  BY <2>6, <2>7
<1> HIDE DEF Fine
<1>4. \A i \in 0..N : Fine(i)
  <2> SUFFICES ASSUME {i \in 0..N : ~Fine(i)} # {} PROVE FALSE
    OBVIOUS
  <2>1. {i \in 0..N : ~Fine(i)} \subseteq Nat
    BY <1>0
  <2>2. PICK n \in {i \in 0..N : ~Fine(i)} : \A k \in {i \in 0..N : ~Fine(i)} : n <= k
    BY <2>1, LeastNat
  <2>3. n # 0
    BY <1>2, <2>2
  <2>4. n \in 1..N /\ n - 1 \in 0..N /\ ~(n <= n - 1)
    BY <1>0, <2>2, <2>3
  <2>5. Fine(n - 1)
    BY <2>2, <2>4
  <2> QED  BY <1>3, <2>2, <2>4, <2>5
<1>5. Fine(N)
  BY <1>0, <1>4
<1>6. Evict = Loop[N].kept /\ N + 1 - N = 1
  BY <1>0 DEF Evict
<1>7. Range(list) = {list[j] : j \in 1..N}
  BY <1>0 DEF Range
<1> HIDE DEF N
<1> QED  BY <1>5, <1>6, <1>7 DEF Fine

-----------------------------------------------------------------------------
(* The list, without the places.                                           *)

NumbersDiffer == \A b, c \in Range(list) : block_no[b] = block_no[c] => b = c

LEMMA OneStructIs ==
  OneStructPerBlock <=> TypeOK /\ IsInjective(list) /\ NumbersDiffer
<1>1. ASSUME TypeOK
      PROVE  (\A i, j \in 1..Len(list) :
                i # j => list[i] # list[j] /\ block_no[list[i]] # block_no[list[j]])
             <=> IsInjective(list) /\ NumbersDiffer
  <2>1. DOMAIN list = 1..Len(list)
    BY <1>1 DEF TypeOK
  <2> QED  BY <2>1 DEF IsInjective, Range, NumbersDiffer
<1> QED  BY <1>1 DEF OneStructPerBlock

LEMMA CachedIs ==
  ASSUME TypeOK, NEW n
  PROVE  /\ \A i \in Cached(n) : /\ i \in 1..Len(list) /\ list[i] \in Range(list)
                                 /\ list[i] \in Buf /\ block_no[list[i]] = n
         /\ Cached(n) = {} <=> \A b \in Range(list) : block_no[b] # n
         /\ (\E i \in Cached(n) : pinned[list[i]]) <=>
              \E b \in Range(list) : block_no[b] = n /\ pinned[b]
<1>1. DOMAIN list = 1..Len(list) /\ \A i \in 1..Len(list) : list[i] \in Buf
  BY DEF TypeOK
<1> QED  BY <1>1 DEF Cached, Range

LoggedPinned == \A n \in logged : \E b \in Range(list) : block_no[b] = n /\ pinned[b]

LEMMA LoggedIs == TypeOK => (LoggedInCache <=> LoggedPinned)
BY CachedIs DEF LoggedInCache, LoggedPinned

(* The holders of a struct when one thread takes its sleeplock, or gives   *)
(* it back, or when it goes to another struct without holding any.         *)
LEMMA HoldersFinite ==
  ASSUME NEW b
  PROVE  /\ IsFiniteSet(Holders(b)) /\ Cardinality(Holders(b)) \in Nat
         /\ Cardinality(Holders(b)) <= Cardinality(Thread)
         /\ Cardinality(Thread) \in Nat
<1>1. Holders(b) \subseteq Thread
  BY DEF Holders
<1>2. IsFiniteSet(Holders(b)) /\ Cardinality(Holders(b)) <= Cardinality(Thread)
  BY <1>1, SetsAssumption, FS_Subset
<1> QED  BY <1>2, SetsAssumption, FS_CardinalityType

LEMMA HoldersSame ==
  ASSUME TypeOK, NEW t \in Thread, ~Holds(t), pc'[t] \notin {"held", "release"},
         \A u \in Thread \ {t} : pc'[u] = pc[u] /\ ptr'[u] = ptr[u]
  PROVE  \A b : Holders(b)' = Holders(b)
BY DEF Holders, Holds

(* A hit or a miss: list' has the struct in front.                         *)
LEMMA HitList ==
  ASSUME OneStructPerBlock, NEW i \in 1..Len(list)
  PROVE  LET l == <<list[i]>> \o RemoveAt(list, i) IN
         l \in Seq(Buf) /\ IsInjective(l) /\ Range(l) = Range(list)
<1>1. list \in Seq(Buf) /\ IsInjective(list)
  BY OneStructIs DEF TypeOK
<1>2. list[i] \in Range(list) /\ list[i] \in Buf
  BY <1>1 DEF Range
<1> DEFINE r == RemoveAt(list, i)
<1>3. /\ r \in Seq(Buf) /\ IsInjective(r)
      /\ Range(r) = Range(list) \ {list[i]}
  BY <1>1, <1>2, RemoveAtIs, RemoveMembers
<1> HIDE DEF r
<1>4. /\ <<list[i]>> \o r \in Seq(Buf)
      /\ IsInjective(<<list[i]>> \o r)
      /\ Range(<<list[i]>> \o r) = Range(r) \cup {list[i]}
  BY <1>2, <1>3, ConsMembers
<1>5. Range(<<list[i]>> \o r) = Range(list)
  BY <1>2, <1>3, <1>4
<1> QED  BY <1>4, <1>5 DEF r

-----------------------------------------------------------------------------
(* The steps preserve CacheInv.                                            *)

LEMMA HitInv ==
  ASSUME CacheInv, NEW t \in Thread, NEW n \in BlockNo, acquire_hit(t, n)
  PROVE  CacheInv' /\ Range(list') = Range(list) /\ \A b : Holders(b)' = Holders(b)
<1> USE DEF CacheInv
<1>1. PICK i \in Cached(n) : /\ list' = <<list[i]>> \o RemoveAt(list, i)
                             /\ ptr' = [ptr EXCEPT ![t] = list[i]]
  BY DEF acquire_hit
<1>2. /\ pc[t] = "out" /\ want' = [want EXCEPT ![t] = n]
      /\ pc' = [pc EXCEPT ![t] = "lock"]
      /\ UNCHANGED <<block_no, acquired, pinned, val, logged>>
  BY DEF acquire_hit, Goto, fields
<1>3. TypeOK
  BY DEF OneStructPerBlock
<1>4. i \in 1..Len(list) /\ list[i] \in Buf
  BY <1>3, CachedIs
<1>5. list' \in Seq(Buf) /\ IsInjective(list') /\ Range(list') = Range(list)
  BY <1>1, <1>4, HitList
<1>6. TypeOK'
  BY <1>1, <1>2, <1>3, <1>4, <1>5 DEF TypeOK, PC
<1>7. OneStructPerBlock'
  <2>1. \A b, c \in Range(list') : block_no'[b] = block_no'[c] => b = c
    BY <1>2, <1>5, OneStructIs DEF NumbersDiffer
  <2>2. (OneStructPerBlock <=> TypeOK /\ IsInjective(list) /\ NumbersDiffer)'
    BY OneStructIs, PTL
  <2> QED  BY <1>5, <1>6, <2>1, <2>2 DEF NumbersDiffer
<1>8. \A b : Holders(b)' = Holders(b)
  <2>1. ~Holds(t) /\ pc'[t] = "lock"
        /\ \A u \in Thread \ {t} : pc'[u] = pc[u] /\ ptr'[u] = ptr[u]
    BY <1>1, <1>2, <1>3 DEF Holds, TypeOK
  <2> QED  BY <1>3, <2>1, HoldersSame
<1>9. PostsBounded'
  BY <1>2, <1>8 DEF PostsBounded
<1> QED  BY <1>5, <1>7, <1>8, <1>9

LEMMA MissInv ==
  ASSUME CacheInv, NEW t \in Thread, NEW n \in BlockNo, acquire_miss(t, n)
  PROVE  /\ CacheInv' /\ \A b : Holders(b)' = Holders(b)
         /\ \A c \in Range(list) : block_no[c] # n
         /\ \E b \in Buf \ Range(Evict) :
              /\ Range(list') = Range(Evict) \cup {b} /\ ptr'[t] = b
              /\ block_no'[b] = n /\ val'[b] = 1
              /\ \A c \in Buf \ {b} : /\ block_no'[c] = block_no[c]
                                      /\ pinned'[c] = pinned[c] /\ val'[c] = val[c]
<1> USE DEF CacheInv
<1>1. PICK b \in Buf \ Range(Evict) :
         /\ list' = <<b>> \o Evict
         /\ block_no' = [block_no EXCEPT ![b] = n]
         /\ acquired' = [acquired EXCEPT ![b] = TRUE]
         /\ pinned' = [pinned EXCEPT ![b] = FALSE]
         /\ val' = [val EXCEPT ![b] = 1]
         /\ ptr' = [ptr EXCEPT ![t] = b]
  BY DEF acquire_miss
<1>2. /\ pc[t] = "out" /\ Cached(n) = {} /\ want' = [want EXCEPT ![t] = n]
      /\ pc' = [pc EXCEPT ![t] = "lock"] /\ logged' = logged
  BY DEF acquire_miss, Goto
<1>3. TypeOK /\ IsInjective(list)
      /\ \A c, d \in Range(list) : block_no[c] = block_no[d] => c = d
  BY OneStructIs DEF NumbersDiffer
<1>4. \A c \in Range(list) : block_no[c] # n
  BY <1>2, <1>3, CachedIs
<1>5. /\ Evict \in Seq(Buf) /\ IsInjective(Evict) /\ Range(Evict) \subseteq Range(list)
  BY <1>3, EvictFine DEF TypeOK
<1>6. list' \in Seq(Buf) /\ IsInjective(list') /\ Range(list') = Range(Evict) \cup {b}
  BY <1>1, <1>5, ConsMembers
<1>7. /\ block_no'[b] = n /\ val'[b] = 1 /\ ptr'[t] = b
      /\ \A c \in Buf \ {b} : /\ block_no'[c] = block_no[c]
                              /\ pinned'[c] = pinned[c] /\ val'[c] = val[c]
  BY <1>1, <1>3 DEF TypeOK
<1>8. TypeOK'
  <2>1. Cardinality(Thread) \in Nat
    BY HoldersFinite
  <2>2. 1 \in 0..1 + Cardinality(Thread)
    BY <2>1
  <2>3. acquired' \in [Buf -> BOOLEAN] /\ pinned' \in [Buf -> BOOLEAN]
    BY <1>1, <1>3 DEF TypeOK
  <2> QED  BY <1>1, <1>2, <1>3, <1>6, <2>2, <2>3 DEF TypeOK, PC
<1>9. OneStructPerBlock'
  <2>1. Range(Evict) \subseteq Buf \ {b}
    BY <1>5 DEF Range
  <2>2. \A c \in Range(Evict) : block_no'[c] = block_no[c] /\ block_no[c] # n
    BY <1>4, <1>5, <1>7, <2>1
  <2>3. ASSUME NEW c \in Range(list'), NEW d \in Range(list'), block_no'[c] = block_no'[d]
        PROVE  c = d
    <3>1. c = b \/ c \in Range(Evict)
      BY <1>6
    <3>2. d = b \/ d \in Range(Evict)
      BY <1>6
    <3>3. CASE c \in Range(Evict) /\ d \in Range(Evict)
      BY <1>3, <1>5, <2>2, <2>3, <3>3
    <3> QED  BY <1>7, <2>2, <2>3, <3>1, <3>2, <3>3
  <2>4. (OneStructPerBlock <=> TypeOK /\ IsInjective(list) /\ NumbersDiffer)'
    BY OneStructIs, PTL
  <2> QED  BY <1>6, <1>8, <2>3, <2>4 DEF NumbersDiffer
<1>10. \A c : Holders(c)' = Holders(c)
  <2>1. ~Holds(t) /\ pc'[t] = "lock"
        /\ \A u \in Thread \ {t} : pc'[u] = pc[u] /\ ptr'[u] = ptr[u]
    BY <1>1, <1>2, <1>3 DEF Holds, TypeOK
  <2> QED  BY <1>3, <2>1, HoldersSame
<1>11. PostsBounded'
  <2> SUFFICES ASSUME NEW c \in Buf
               PROVE  val'[c] + Cardinality(Holders(c)') <= 1 + Cardinality(Thread)
    BY DEF PostsBounded
  <2>1. CASE c = b
    <3>1. /\ Cardinality(Holders(c)) \in Nat /\ Cardinality(Thread) \in Nat
          /\ Cardinality(Holders(c)) <= Cardinality(Thread)
      BY HoldersFinite
    <3> QED  BY <1>7, <1>10, <2>1, <3>1
  <2>2. CASE c # b
    BY <1>7, <1>10, <2>2 DEF PostsBounded
  <2> QED  BY <2>1, <2>2
<1> QED  BY <1>1, <1>4, <1>6, <1>7, <1>9, <1>10, <1>11


(* A step that leaves the list and the numbers alone.                      *)
LEMMA ListSame ==
  ASSUME OneStructPerBlock, TypeOK', UNCHANGED <<list, block_no>>
  PROVE  OneStructPerBlock'
BY DEF OneStructPerBlock

LEMMA LockInv ==
  ASSUME CacheInv, NEW t \in Thread, acquire_sleeplock(t), NEW a, a = ptr[t]
  PROVE  /\ CacheInv'
         /\ val'[a] = val[a] - 1 /\ val[a] \in Nat
         /\ Cardinality(Holders(a)') = Cardinality(Holders(a)) + 1
         /\ \A b \in Buf \ {a} : val'[b] = val[b] /\ Holders(b)' = Holders(b)
<1> USE DEF CacheInv
<1>1. /\ pc[t] = "lock" /\ val[a] > 0
      /\ val' = [val EXCEPT ![a] = @ - 1] /\ pc' = [pc EXCEPT ![t] = "held"]
      /\ UNCHANGED <<list, block_no, acquired, pinned, logged, ptr, want>>
  BY DEF acquire_sleeplock, Goto, fields
<1>2. TypeOK
  BY DEF OneStructPerBlock
<1>3. Cardinality(Thread) \in Nat
  BY HoldersFinite
<1>4. /\ a \in Buf /\ val[a] \in 0..1 + Cardinality(Thread) /\ val[a] \in Nat
      /\ \A b \in Buf : val[b] \in 0..1 + Cardinality(Thread)
  BY <1>2, <1>3 DEF TypeOK
<1>5. /\ val'[a] = val[a] - 1 /\ \A b \in Buf \ {a} : val'[b] = val[b]
      /\ pc'[t] = "held" /\ \A u \in Thread \ {t} : pc'[u] = pc[u]
  BY <1>1, <1>2 DEF TypeOK
<1>6. TypeOK'
  <2>1. val[a] - 1 \in 0..1 + Cardinality(Thread)
    BY <1>1, <1>3, <1>4
  <2> QED  BY <1>1, <1>2, <2>1 DEF TypeOK, PC
<1>7. OneStructPerBlock'
  BY <1>1, <1>6, ListSame
<1>8. Holders(a)' = Holders(a) \cup {t} /\ t \notin Holders(a)
  BY <1>1, <1>5 DEF Holders, Holds
<1>9. \A b \in Buf \ {a} : Holders(b)' = Holders(b)
  BY <1>1, <1>5 DEF Holders, Holds
<1>10. Cardinality(Holders(a)') = Cardinality(Holders(a)) + 1
  BY <1>8, HoldersFinite, FS_AddElement
<1>11. PostsBounded'
  <2> SUFFICES ASSUME NEW b \in Buf
               PROVE  val'[b] + Cardinality(Holders(b)') <= 1 + Cardinality(Thread)
    BY DEF PostsBounded
  <2>1. CASE b = a
    <3>1. Cardinality(Holders(a)) \in Nat
      BY HoldersFinite
    <3>2. val[a] + Cardinality(Holders(a)) <= 1 + Cardinality(Thread)
      BY <1>4 DEF PostsBounded
    <3> QED  BY <1>3, <1>4, <1>5, <1>10, <2>1, <3>1, <3>2
  <2>2. CASE b # a
    BY <1>5, <1>9, <2>2 DEF PostsBounded
  <2> QED  BY <2>1, <2>2
<1> QED  BY <1>4, <1>5, <1>7, <1>9, <1>10, <1>11

LEMMA UnlockInv ==
  ASSUME CacheInv, NEW t \in Thread, release_sleeplock(t), NEW a, a = ptr[t]
  PROVE  /\ CacheInv'
         /\ val'[a] = val[a] + 1 /\ val[a] \in Nat
         /\ Cardinality(Holders(a)') = Cardinality(Holders(a)) - 1
         /\ \A b \in Buf \ {a} : val'[b] = val[b] /\ Holders(b)' = Holders(b)
<1> USE DEF CacheInv
<1>1. /\ pc[t] = "release"
      /\ val' = [val EXCEPT ![a] = @ + 1] /\ pc' = [pc EXCEPT ![t] = "out"]
      /\ UNCHANGED <<list, block_no, acquired, pinned, logged, ptr, want>>
  BY DEF release_sleeplock, Goto, fields
<1>2. TypeOK
  BY DEF OneStructPerBlock
<1>3. Cardinality(Thread) \in Nat
  BY HoldersFinite
<1>4. /\ a \in Buf /\ val[a] \in 0..1 + Cardinality(Thread) /\ val[a] \in Nat
      /\ \A b \in Buf : val[b] \in 0..1 + Cardinality(Thread)
  BY <1>2, <1>3 DEF TypeOK
<1>5. /\ val'[a] = val[a] + 1 /\ \A b \in Buf \ {a} : val'[b] = val[b]
      /\ pc'[t] = "out" /\ \A u \in Thread \ {t} : pc'[u] = pc[u]
  BY <1>1, <1>2 DEF TypeOK
<1>6. Holders(a)' = Holders(a) \ {t} /\ t \in Holders(a)
  BY <1>1, <1>5 DEF Holders, Holds
<1>7. \A b \in Buf \ {a} : Holders(b)' = Holders(b)
  BY <1>1, <1>5 DEF Holders, Holds
<1>8. Cardinality(Holders(a)') = Cardinality(Holders(a)) - 1
  BY <1>6, HoldersFinite, FS_RemoveElement
<1>9. /\ Cardinality(Holders(a)) \in Nat
      /\ val[a] + Cardinality(Holders(a)) <= 1 + Cardinality(Thread)
      /\ Cardinality(Holders(a)) >= 1
  <2>1. Cardinality(Holders(a)) \in Nat /\ IsFiniteSet(Holders(a))
    BY HoldersFinite
  <2>2. Cardinality(Holders(a)) # 0
    BY <1>6, <2>1, FS_EmptySet
  <2> QED  BY <1>4, <2>1, <2>2 DEF PostsBounded
<1>10. TypeOK'
  <2>1. val[a] + 1 \in 0..1 + Cardinality(Thread)
    BY <1>3, <1>4, <1>9
  <2> QED  BY <1>1, <1>2, <2>1 DEF TypeOK, PC
<1>11. OneStructPerBlock'
  BY <1>1, <1>10, ListSame
<1>12. PostsBounded'
  <2> SUFFICES ASSUME NEW b \in Buf
               PROVE  val'[b] + Cardinality(Holders(b)') <= 1 + Cardinality(Thread)
    BY DEF PostsBounded
  <2>1. CASE b = a
    BY <1>3, <1>4, <1>5, <1>8, <1>9, <2>1
  <2>2. CASE b # a
    BY <1>5, <1>7, <2>2 DEF PostsBounded
  <2> QED  BY <2>1, <2>2
<1> QED  BY <1>4, <1>5, <1>7, <1>8, <1>11, <1>12

LEMMA SyncInv ==
  ASSUME CacheInv, NEW t \in Thread, cache_sync(t)
  PROVE  CacheInv' /\ \A b : Holders(b)' = Holders(b)
<1> USE DEF CacheInv
<1>1. /\ pinned' = [pinned EXCEPT ![ptr[t]] = @ \/ block_no[ptr[t]] \notin logged]
      /\ logged' = logged \cup {block_no[ptr[t]]}
      /\ UNCHANGED <<list, block_no, acquired, val, pc, ptr, want>>
  BY DEF cache_sync
<1>2. TypeOK
  BY DEF OneStructPerBlock
<1>3. TypeOK'
  <2>1. pinned' \in [Buf -> BOOLEAN]
    BY <1>1, <1>2, Zenon DEF TypeOK
  <2>2. logged' \subseteq BlockNo
    BY <1>1, <1>2 DEF TypeOK
  <2> QED  BY <1>1, <1>2, <2>1, <2>2 DEF TypeOK
<1>4. \A b : Holders(b)' = Holders(b)
  BY <1>1 DEF Holders, Holds
<1>5. PostsBounded'
  BY <1>1, <1>4 DEF PostsBounded
<1> QED  BY <1>1, <1>3, <1>4, <1>5, ListSame

LEMMA InstallInv ==
  ASSUME CacheInv, install_trans
  PROVE  CacheInv' /\ \A b : Holders(b)' = Holders(b)
<1> USE DEF CacheInv
<1>1. logged' = {} /\ UNCHANGED <<list, block_no, acquired, pinned, val, pc, ptr, want>>
  BY DEF install_trans, fields
<1>2. TypeOK'
  BY <1>1 DEF OneStructPerBlock, TypeOK
<1>3. \A b : Holders(b)' = Holders(b)
  BY <1>1 DEF Holders, Holds
<1>4. PostsBounded'
  BY <1>1, <1>3 DEF PostsBounded
<1> QED  BY <1>1, <1>2, <1>3, <1>4, ListSame

LEMMA ReleaseInv ==
  ASSUME CacheInv, NEW t \in Thread, cache_release(t)
  PROVE  CacheInv' /\ \A b : Holders(b)' = Holders(b)
<1> USE DEF CacheInv
<1>1. /\ pc[t] = "held" /\ acquired' = [acquired EXCEPT ![ptr[t]] = FALSE]
      /\ pc' = [pc EXCEPT ![t] = "release"]
      /\ UNCHANGED <<list, block_no, pinned, val, logged, ptr, want>>
  BY DEF cache_release, Goto
<1>2. TypeOK
  BY DEF OneStructPerBlock
<1>3. TypeOK'
  <2>1. acquired' \in [Buf -> BOOLEAN]
    BY <1>1, <1>2 DEF TypeOK
  <2> QED  BY <1>1, <1>2, <2>1 DEF TypeOK, PC
<1>4. \A b : Holders(b)' = Holders(b)
  <2>1. pc'[t] = "release" /\ \A u \in Thread \ {t} : pc'[u] = pc[u]
    BY <1>1, <1>2 DEF TypeOK
  <2> QED  BY <1>1, <2>1 DEF Holders, Holds
<1>5. PostsBounded'
  BY <1>1, <1>4 DEF PostsBounded
<1> QED  BY <1>1, <1>3, <1>4, <1>5, ListSame

LEMMA InitInv == Init => CacheInv
<1> SUFFICES ASSUME Init PROVE CacheInv
  OBVIOUS
<1>1. Cardinality(Thread) \in Nat
  BY HoldersFinite
<1>2. (CHOOSE n \in BlockNo : TRUE) \in BlockNo /\ (CHOOSE b \in Buf : TRUE) \in Buf
  BY SetsAssumption
<1>3. TypeOK
  BY <1>1, <1>2 DEF Init, TypeOK, PC
<1>4. OneStructPerBlock
  BY <1>3 DEF OneStructPerBlock, Init
<1>5. PostsBounded
  <2>1. \A b : Holders(b) = {}
    BY DEF Init, Holders, Holds
  <2>2. Cardinality({}) = 0
    BY FS_EmptySet
  <2>3. \A b \in Buf : val[b] = 1
    BY DEF Init
  <2> QED  BY <1>1, <2>1, <2>2, <2>3 DEF PostsBounded
<1> QED  BY <1>4, <1>5 DEF CacheInv

LEMMA StepInv == CacheInv /\ [Next]_vars => CacheInv'
<1> SUFFICES ASSUME CacheInv, [Next]_vars PROVE CacheInv'
  OBVIOUS
<1>1. CASE UNCHANGED vars
  <2>1. \A b : Holders(b)' = Holders(b)
    BY <1>1 DEF vars, Holders, Holds
  <2>2. TypeOK'
    BY <1>1 DEF vars, CacheInv, OneStructPerBlock, TypeOK
  <2>3. OneStructPerBlock'
    BY <1>1, <2>2, ListSame DEF vars, CacheInv
  <2>4. PostsBounded'
    BY <1>1, <2>1 DEF vars, CacheInv, PostsBounded
  <2> QED  BY <2>3, <2>4 DEF CacheInv
<1>2. CASE Next
  BY <1>2, InstallInv, HitInv, MissInv, LockInv, SyncInv, ReleaseInv, UnlockInv DEF Next
<1> QED  BY <1>1, <1>2

(* CacheInv is an invariant of the block cache, for any number of threads, *)
(* blocks and structs and any threshold.                                   *)
THEOREM CacheInvariant == Spec => []CacheInv
BY InitInv, StepInv, PTL DEF Spec

(* However many threads acquire the same block at once, and whatever the   *)
(* eviction loop frees in between, cache_acquire never makes a second      *)
(* struct for a block that is in the list.                                 *)
THEOREM OneStruct == Spec => []OneStructPerBlock
<1>1. CacheInv => OneStructPerBlock
  BY DEF CacheInv
<1> QED  BY <1>1, CacheInvariant, PTL


-----------------------------------------------------------------------------
(* Pointers and sleeplocks.                                                *)

LEMMA HitPointers ==
  ASSUME CacheInv, NEW t \in Thread, NEW n \in BlockNo, acquire_hit(t, n), PointersValid
  PROVE  PointersValid'
<1>1. PICK i \in Cached(n) : ptr' = [ptr EXCEPT ![t] = list[i]]
  BY DEF acquire_hit
<1>2. /\ want' = [want EXCEPT ![t] = n] /\ pc' = [pc EXCEPT ![t] = "lock"]
      /\ UNCHANGED <<block_no, val>>
  BY DEF acquire_hit, Goto, fields
<1>3. TypeOK
  BY DEF CacheInv, OneStructPerBlock
<1>4. Range(list') = Range(list) /\ \A b : Holders(b)' = Holders(b)
  BY HitInv
<1>5. list[i] \in Range(list) /\ block_no[list[i]] = n
  BY <1>3, CachedIs
<1>6. /\ ptr'[t] = list[i] /\ want'[t] = n
      /\ \A u \in Thread \ {t} : ptr'[u] = ptr[u] /\ want'[u] = want[u] /\ pc'[u] = pc[u]
  BY <1>1, <1>2, <1>3 DEF TypeOK
<1>7. \A u \in Thread : pc'[u] # "out" =>
        ptr'[u] \in Range(list') /\ block_no'[ptr'[u]] = want'[u]
  BY <1>2, <1>4, <1>5, <1>6 DEF PointersValid
<1>8. \A b \in Range(list') : val'[b] + Cardinality(Holders(b)') = 1
  BY <1>2, <1>4 DEF PointersValid
<1> QED  BY <1>7, <1>8 DEF PointersValid

LEMMA MissPointers ==
  ASSUME CacheInv, NEW t \in Thread, NEW n \in BlockNo, acquire_miss(t, n), PointersValid,
         ~TakesUnmarked
  PROVE  PointersValid'
<1>1. /\ \A c : Holders(c)' = Holders(c)
      /\ \A c \in Range(list) : block_no[c] # n
  BY MissInv
<1>2. PICK b \in Buf \ Range(Evict) :
              /\ Range(list') = Range(Evict) \cup {b} /\ ptr'[t] = b
              /\ block_no'[b] = n /\ val'[b] = 1
              /\ \A c \in Buf \ {b} : /\ block_no'[c] = block_no[c]
                                      /\ pinned'[c] = pinned[c] /\ val'[c] = val[c]
  BY MissInv
<1>3. TypeOK /\ IsInjective(list)
  BY OneStructIs DEF CacheInv
<1>4. /\ \E d : ptr' = [ptr EXCEPT ![t] = d]
      /\ want' = [want EXCEPT ![t] = n] /\ pc' = [pc EXCEPT ![t] = "lock"]
  BY DEF acquire_miss, Goto
<1>5. /\ want'[t] = n
      /\ \A u \in Thread \ {t} : ptr'[u] = ptr[u] /\ want'[u] = want[u] /\ pc'[u] = pc[u]
  BY <1>3, <1>4 DEF TypeOK
<1>6. Range(Evict) \subseteq Range(list) /\ Range(list) \subseteq Buf
  <2>1. list \in Seq(Buf)
    BY <1>3 DEF TypeOK
  <2>2. Range(list) \subseteq Buf
    BY <2>1 DEF Range
  <2> QED  BY <1>3, <2>1, <2>2, EvictFine
<1>7. \A c \in Range(list) \ Range(Evict) : ~acquired[c]
  BY <1>3, EvictFine DEF TypeOK, MayEvict
<1>8. ASSUME NEW u \in Thread, pc[u] # "out"
      PROVE  /\ ptr[u] \in Range(Evict) /\ ptr[u] # b
             /\ ptr[u] \in Range(list') /\ block_no'[ptr[u]] = block_no[ptr[u]]
  <2>1. ptr[u] \in Range(list)
    BY <1>8 DEF PointersValid
  <2>2. ASSUME ptr[u] \notin Range(Evict) PROVE FALSE
    <3>1. ~acquired[ptr[u]]
      BY <1>7, <2>1, <2>2
    <3>2. ptr[u] \in Range(list') /\ block_no'[ptr[u]] = block_no[ptr[u]]
      BY <1>8, <3>1 DEF TakesUnmarked
    <3>3. ptr[u] = b
      BY <1>2, <2>2, <3>2
    <3> QED  BY <1>1, <1>2, <2>1, <3>2, <3>3
  <2> QED  BY <1>2, <1>6, <2>2
<1>9. \A u \in Thread : pc'[u] # "out" =>
        ptr'[u] \in Range(list') /\ block_no'[ptr'[u]] = want'[u]
  <2> SUFFICES ASSUME NEW u \in Thread, pc'[u] # "out"
               PROVE  ptr'[u] \in Range(list') /\ block_no'[ptr'[u]] = want'[u]
    OBVIOUS
  <2>1. CASE u = t
    BY <1>2, <1>5, <2>1
  <2>2. CASE u # t
    <3>1. block_no[ptr[u]] = want[u]
      BY <1>5, <2>2 DEF PointersValid
    <3> QED  BY <1>5, <1>8, <2>2, <3>1
  <2> QED  BY <2>1, <2>2
<1>10. \A c \in Range(list') : val'[c] + Cardinality(Holders(c)') = 1
  <2> SUFFICES ASSUME NEW c \in Range(list') PROVE val'[c] + Cardinality(Holders(c)) = 1
    BY <1>1
  <2>1. CASE c = b
    <3>1. Holders(b) = {}
      BY <1>8 DEF Holders, Holds
    <3>2. Cardinality(Holders(c)) = 0
      BY <2>1, <3>1, FS_EmptySet
    <3> QED  BY <1>2, <2>1, <3>2
  <2>2. CASE c # b
    <3>1. c \in Range(list) /\ val'[c] = val[c]
      BY <1>2, <1>6, <2>2
    <3> QED  BY <3>1 DEF PointersValid
  <2> QED  BY <2>1, <2>2
<1> QED  BY <1>9, <1>10 DEF PointersValid

(* The other steps leave the list, the numbers and the pointers alone, and *)
(* change a semaphore together with its holders.                           *)
LEMMA PointersStay ==
  ASSUME CacheInv, PointersValid, UNCHANGED <<list, block_no, ptr, want>>,
         \A u \in Thread : pc'[u] # "out" => pc[u] # "out",
         \A b \in Range(list) :
           val'[b] + Cardinality(Holders(b)') = val[b] + Cardinality(Holders(b))
  PROVE  PointersValid'
<1>1. \A u \in Thread : pc'[u] # "out" =>
        ptr'[u] \in Range(list') /\ block_no'[ptr'[u]] = want'[u]
  BY DEF PointersValid
<1>2. \A b \in Range(list') : val'[b] + Cardinality(Holders(b)') = 1
  BY DEF PointersValid
<1> QED  BY <1>1, <1>2 DEF PointersValid

LEMMA PointersStep ==
  ASSUME CacheInv, [Next]_vars, PointersValid
  PROVE  PointersValid' \/ TakesUnmarked
<1>0. TypeOK /\ Range(list) \subseteq Buf
  BY DEF CacheInv, OneStructPerBlock, TypeOK, Range
<1>1. CASE UNCHANGED vars
  <2>1. \A b : Holders(b)' = Holders(b)
    BY <1>1 DEF vars, Holders, Holds
  <2> QED  BY <1>1, <2>1, PointersStay DEF vars
<1>2. CASE install_trans
  <2>1. UNCHANGED <<list, block_no, ptr, want, pc, val>>
    BY <1>2 DEF install_trans, fields
  <2>2. \A b : Holders(b)' = Holders(b)
    BY <1>2, InstallInv
  <2> QED  BY <2>1, <2>2, PointersStay
<1>3. ASSUME NEW t \in Thread, NEW n \in BlockNo, acquire_hit(t, n) \/ acquire_miss(t, n)
      PROVE  PointersValid' \/ TakesUnmarked
  BY <1>3, HitPointers, MissPointers
<1>4. ASSUME NEW t \in Thread, acquire_sleeplock(t) PROVE PointersValid'
  <2>1. /\ UNCHANGED <<list, block_no, ptr, want>>
        /\ pc[t] = "lock" /\ pc' = [pc EXCEPT ![t] = "held"]
    BY <1>4 DEF acquire_sleeplock, Goto, fields
  <2>2. \A u \in Thread : pc'[u] # "out" => pc[u] # "out"
    BY <1>0, <2>1 DEF TypeOK
  <2>3. PICK a : a = ptr[t]
    OBVIOUS
  <2>4. /\ val'[a] = val[a] - 1 /\ val[a] \in Nat
        /\ Cardinality(Holders(a)') = Cardinality(Holders(a)) + 1
        /\ \A b \in Buf \ {a} : val'[b] = val[b] /\ Holders(b)' = Holders(b)
    BY <1>4, <2>3, LockInv
  <2>5. Cardinality(Holders(a)) \in Nat
    BY HoldersFinite
  <2>6. \A b \in Range(list) :
           val'[b] + Cardinality(Holders(b)') = val[b] + Cardinality(Holders(b))
    <3>1. val'[a] + Cardinality(Holders(a)') = val[a] + Cardinality(Holders(a))
      BY <2>4, <2>5
    <3> QED  BY <1>0, <2>4, <3>1
  <2> QED  BY <2>1, <2>2, <2>6, PointersStay
<1>5. ASSUME NEW t \in Thread, cache_sync(t) PROVE PointersValid'
  <2>1. UNCHANGED <<list, block_no, ptr, want, pc, val>>
    BY <1>5 DEF cache_sync
  <2>2. \A b : Holders(b)' = Holders(b)
    BY <1>5, SyncInv
  <2> QED  BY <2>1, <2>2, PointersStay
<1>6. ASSUME NEW t \in Thread, cache_release(t) PROVE PointersValid'
  <2>1. /\ UNCHANGED <<list, block_no, ptr, want, val>>
        /\ pc[t] = "held" /\ pc' = [pc EXCEPT ![t] = "release"]
    BY <1>6 DEF cache_release, Goto
  <2>2. \A u \in Thread : pc'[u] # "out" => pc[u] # "out"
    BY <1>0, <2>1 DEF TypeOK
  <2>3. \A b : Holders(b)' = Holders(b)
    BY <1>6, ReleaseInv
  <2> QED  BY <2>1, <2>2, <2>3, PointersStay
<1>7. ASSUME NEW t \in Thread, release_sleeplock(t) PROVE PointersValid'
  <2>1. /\ UNCHANGED <<list, block_no, ptr, want>>
        /\ pc[t] = "release" /\ pc' = [pc EXCEPT ![t] = "out"]
    BY <1>7 DEF release_sleeplock, Goto, fields
  <2>2. \A u \in Thread : pc'[u] # "out" => pc[u] # "out"
    BY <1>0, <2>1 DEF TypeOK
  <2>3. PICK a : a = ptr[t]
    OBVIOUS
  <2>4. /\ val'[a] = val[a] + 1 /\ val[a] \in Nat
        /\ Cardinality(Holders(a)') = Cardinality(Holders(a)) - 1
        /\ \A b \in Buf \ {a} : val'[b] = val[b] /\ Holders(b)' = Holders(b)
    BY <1>7, <2>3, UnlockInv
  <2>5. Cardinality(Holders(a)) \in Nat
    BY HoldersFinite
  <2>6. \A b \in Range(list) :
           val'[b] + Cardinality(Holders(b)') = val[b] + Cardinality(Holders(b))
    <3>1. val'[a] + Cardinality(Holders(a)') = val[a] + Cardinality(Holders(a))
      BY <2>4, <2>5
    <3> QED  BY <1>0, <2>4, <3>1
  <2> QED  BY <2>1, <2>2, <2>6, PointersStay
<1> QED  BY <1>1, <1>2, <1>3, <1>4, <1>5, <1>6, <1>7 DEF Next

(* Nothing but the eviction, by another thread's miss, of a struct without *)
(* its mark comes between a thread and the struct of the block it has      *)
(* acquired or waits for (cache.c:100).                                    *)
THEOREM EvictionAloneHurts == Spec => OnlyEvictionHurts
<1>1. CacheInv /\ [Next]_vars => [PointersValid => PointersValid' \/ TakesUnmarked]_vars
  BY PointersStep
<1> QED  BY <1>1, CacheInvariant, PTL DEF Spec, OnlyEvictionHurts

-----------------------------------------------------------------------------
(* Logged blocks.                                                          *)

LEMMA LoggedStep ==
  ASSUME CacheInv, [Next]_vars, PointersValid, LoggedInCache
  PROVE  LoggedInCache'
<1>0. /\ TypeOK /\ IsInjective(list) /\ Range(list) \subseteq Buf
      /\ \A m \in logged : \E b \in Range(list) : block_no[b] = m /\ pinned[b]
  <2>1. TypeOK /\ IsInjective(list)
    BY OneStructIs DEF CacheInv
  <2>2. Range(list) \subseteq Buf
    BY <2>1 DEF TypeOK, Range
  <2>3. LoggedPinned
    BY <2>1, LoggedIs
  <2> QED  BY <2>1, <2>2, <2>3 DEF LoggedPinned
<1>1. (TypeOK => (LoggedInCache <=> LoggedPinned))'
  BY LoggedIs, PTL
<1>2. TypeOK'
  BY StepInv DEF CacheInv, OneStructPerBlock
<1> SUFFICES \A m \in logged' : \E b \in Range(list') : block_no'[b] = m /\ pinned'[b]
  BY <1>1, <1>2 DEF LoggedPinned
<1>3. CASE UNCHANGED <<list, block_no, pinned>> /\ logged' \subseteq logged
  BY <1>0, <1>3
<1>4. CASE UNCHANGED vars \/ install_trans
  BY <1>3, <1>4 DEF vars, install_trans, fields
<1>5. ASSUME NEW t \in Thread, acquire_sleeplock(t) \/ cache_release(t) \/ release_sleeplock(t)
      PROVE  UNCHANGED <<list, block_no, pinned>> /\ logged' \subseteq logged
  BY <1>5 DEF acquire_sleeplock, cache_release, release_sleeplock, fields
<1>6. ASSUME NEW t \in Thread, NEW n \in BlockNo, acquire_hit(t, n)
      PROVE  \A m \in logged' : \E b \in Range(list') : block_no'[b] = m /\ pinned'[b]
  <2>1. Range(list') = Range(list) /\ UNCHANGED <<block_no, pinned, logged>>
    BY <1>6, HitInv DEF acquire_hit, fields
  <2> QED  BY <1>0, <2>1
<1>7. ASSUME NEW t \in Thread, NEW n \in BlockNo, acquire_miss(t, n)
      PROVE  \A m \in logged' : \E b \in Range(list') : block_no'[b] = m /\ pinned'[b]
  <2>1. PICK b \in Buf \ Range(Evict) :
              /\ Range(list') = Range(Evict) \cup {b}
              /\ \A c \in Buf \ {b} : block_no'[c] = block_no[c] /\ pinned'[c] = pinned[c]
    BY <1>7, MissInv
  <2>2. \A c \in Range(list) \ Range(Evict) : ~pinned[c]
    BY <1>0, EvictFine DEF TypeOK, MayEvict
  <2>3. logged' = logged
    BY <1>7 DEF acquire_miss
  <2> SUFFICES ASSUME NEW m \in logged
               PROVE  \E c \in Range(list') : block_no'[c] = m /\ pinned'[c]
    BY <2>3
  <2>4. PICK c \in Range(list) : block_no[c] = m /\ pinned[c]
    BY <1>0
  <2>5. c \in Range(Evict) /\ c \in Buf \ {b}
    BY <1>0, <2>2, <2>4
  <2> QED  BY <2>1, <2>4, <2>5
<1>8. ASSUME NEW t \in Thread, cache_sync(t)
      PROVE  \A m \in logged' : \E b \in Range(list') : block_no'[b] = m /\ pinned'[b]
  <2>1. PICK a : a = ptr[t]
    OBVIOUS
  <2>2. /\ pc[t] = "held" /\ UNCHANGED <<list, block_no>>
        /\ pinned' = [pinned EXCEPT ![a] = @ \/ block_no[a] \notin logged]
        /\ logged' = logged \cup {block_no[a]}
    BY <1>8, <2>1 DEF cache_sync
  <2>3. a \in Range(list) /\ a \in Buf
    BY <1>0, <2>1, <2>2 DEF PointersValid
  <2>4. /\ pinned'[a] = (pinned[a] \/ block_no[a] \notin logged)
        /\ \A b \in Buf \ {a} : pinned'[b] = pinned[b]
    BY <1>0, <2>2, <2>3 DEF TypeOK
  <2> SUFFICES ASSUME NEW m \in logged'
               PROVE  \E b \in Range(list) : block_no[b] = m /\ pinned'[b]
    BY <2>2
  <2>5. CASE m \in logged
    <3>1. PICK b \in Range(list) : block_no[b] = m /\ pinned[b]
      BY <1>0, <2>5
    <3>2. pinned'[b]
      BY <1>0, <2>4, <3>1
    <3> QED  BY <3>1, <3>2
  <2>6. CASE m \notin logged
    <3>1. m = block_no[a]
      BY <2>2, <2>6
    <3>2. pinned'[a]
      BY <2>4, <2>6, <3>1
    <3> QED  BY <2>3, <3>1, <3>2
  <2> QED  BY <2>5, <2>6
<1> QED  BY <1>3, <1>4, <1>5, <1>6, <1>7, <1>8 DEF Next

(* A block in the log header stays in the cache, pinned, until its commit: *)
(* cache_sync pins the first time, and the eviction loop of cache_acquire  *)
(* frees no pinned struct.                                                 *)
THEOREM LoggedBlocksStay == Spec => LoggedStays
<1>1. CacheInv /\ [Next]_vars => [PointersValid /\ LoggedInCache => LoggedInCache']_vars
  BY LoggedStep
<1> QED  BY <1>1, CacheInvariant, PTL DEF Spec, LoggedStays


=============================================================================

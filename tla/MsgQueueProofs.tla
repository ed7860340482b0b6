--------------------------- MODULE MsgQueueProofs ---------------------------
(***************************************************************************)
(* Proofs about MsgQueue: MsgInv is an invariant, and each of its parts is *)
(* one of the properties or what the others need.                          *)
(***************************************************************************)
EXTENDS MsgQueue, SequenceTheorems, NaturalsInduction, WellFoundedInduction,
        FiniteSetTheorems, TLAPS

-----------------------------------------------------------------------------
(* The lists of src/src/common/list.h are sequences here: what inserting   *)
(* and detaching a node does to the nodes of a list that has each of them  *)
(* once.                                                                   *)

(* A node inserted at the end.                                             *)
LEMMA AppendMembers ==
  ASSUME NEW S, NEW q \in Seq(S), NEW x \in S, IsInjective(q), x \notin Range(q)
  PROVE  /\ Append(q, x) \in Seq(S)
         /\ Len(Append(q, x)) = Len(q) + 1
         /\ IsInjective(Append(q, x))
         /\ Range(Append(q, x)) = Range(q) \cup {x}
<1> DEFINE r == Append(q, x)
<1>1. /\ r \in Seq(S)
      /\ Len(r) = Len(q) + 1
      /\ \A i \in 1..Len(q) : r[i] = q[i]
      /\ r[Len(q) + 1] = x
  BY AppendProperties
<1>2. DOMAIN q = 1..Len(q) /\ Len(q) \in Nat /\ DOMAIN r = 1..(Len(q) + 1)
  BY <1>1
<1> HIDE DEF r
<1>3. IsInjective(r)
  BY <1>1, <1>2 DEF IsInjective, Range
<1>4. Range(r) = Range(q) \cup {x}
  BY <1>1, <1>2 DEF Range
<1> QED  BY <1>1, <1>3, <1>4 DEF r

(* One node is detached, wherever it is.                                   *)
LEMMA RemoveMembers ==
  ASSUME NEW S, NEW q \in Seq(S), IsInjective(q), NEW x \in Range(q)
  PROVE  /\ RemoveFirst(q, x) \in Seq(S)
         /\ Len(RemoveFirst(q, x)) = Len(q) - 1
         /\ IsInjective(RemoveFirst(q, x))
         /\ Range(RemoveFirst(q, x)) = Range(q) \ {x}
<1>0. DOMAIN q = 1..Len(q) /\ Len(q) \in Nat /\ \A i \in 1..Len(q) : q[i] \in S
  OBVIOUS
<1>1. PICK k \in 1..Len(q) : q[k] = x
  BY <1>0 DEF Range
<1>2. {i \in 1..Len(q) : q[i] = x} = {k}
  BY <1>0, <1>1 DEF IsInjective
<1>3. Min({k}) = k
  BY DEF Min
<1> DEFINE a == SubSeq(q, 1, k - 1)
           b == SubSeq(q, k + 1, Len(q))
           r == a \o b
<1>4. RemoveFirst(q, x) = r
  BY <1>1, <1>2, <1>3 DEF RemoveFirst, SelectInSeq, RemoveAt
<1>5. /\ a \in Seq(S)
      /\ Len(a) = k - 1
      /\ \A i \in 1..(k - 1) : a[i] = q[i]
  BY <1>0, SubSeqProperties
<1>6. /\ b \in Seq(S)
      /\ Len(b) = Len(q) - k
      /\ \A i \in 1..(Len(q) - k) : b[i] = q[k + i]
  <2>1. \A i \in (k + 1)..Len(q) : q[i] \in S
    BY <1>0
  <2>2. k + 1 \in Int /\ Len(q) \in Int
    BY <1>0
  <2>3. /\ b \in Seq(S)
        /\ Len(b) = IF k + 1 <= Len(q) THEN Len(q) - (k + 1) + 1 ELSE 0
        /\ \A i \in 1..(Len(q) - (k + 1) + 1) : b[i] = q[k + 1 + i - 1]
    BY <2>1, <2>2, SubSeqProperties
  <2> HIDE DEF b
  <2>4. Len(b) = Len(q) - k
    <3>1. Len(b) = IF k + 1 <= Len(q) THEN Len(q) - (k + 1) + 1 ELSE 0
      BY <2>3
    <3>2. Len(q) \in Nat /\ k \in Nat /\ k <= Len(q)
      BY <1>0
    <3>3. CASE k + 1 <= Len(q)
      BY <3>1, <3>2, <3>3
    <3>4. CASE ~(k + 1 <= Len(q))
      <4>1. k = Len(q)
        BY <3>2, <3>4
      <4> QED  BY <3>1, <3>2, <3>4, <4>1
    <3> QED  BY <3>3, <3>4
  <2>5. ASSUME NEW i \in 1..(Len(q) - k)  PROVE b[i] = q[k + i]
    <3>1. i \in 1..(Len(q) - (k + 1) + 1) /\ k + 1 + i - 1 = k + i
      BY <1>0
    <3> QED  BY <2>3, <3>1
  <2> QED  BY <2>3, <2>4, <2>5
<1> HIDE DEF a, b
<1>7. /\ r \in Seq(S)
      /\ Len(r) = Len(q) - 1
      /\ \A i \in 1..(Len(q) - 1) : r[i] = IF i <= k - 1 THEN a[i] ELSE b[i - (k - 1)]
  <2>1. /\ r \in Seq(S)
        /\ Len(r) = Len(a) + Len(b)
        /\ \A i \in 1..(Len(a) + Len(b)) :
             r[i] = IF i <= Len(a) THEN a[i] ELSE b[i - Len(a)]
    BY <1>5, <1>6, ConcatProperties
  <2> HIDE DEF r
  <2> QED  BY <1>0, <1>5, <1>6, <2>1
<1> HIDE DEF r
<1>8. \A i \in 1..(Len(q) - 1) : r[i] = IF i < k THEN q[i] ELSE q[i + 1]
  <2> SUFFICES ASSUME NEW i \in 1..(Len(q) - 1)
               PROVE  r[i] = IF i < k THEN q[i] ELSE q[i + 1]
    OBVIOUS
  <2>1. CASE i < k
    BY <1>0, <1>5, <1>7, <2>1
  <2>2. CASE i >= k
    <3>1. i - (k - 1) \in 1..(Len(q) - k) /\ k + (i - (k - 1)) = i + 1
      BY <1>0, <2>2
    <3>2. r[i] = b[i - (k - 1)]
      <4>1. r[i] = IF i <= k - 1 THEN a[i] ELSE b[i - (k - 1)]
        BY <1>7
      <4>2. ~(i <= k - 1)
        BY <1>0, <2>2
      <4> QED  BY <4>1, <4>2
    <3> QED  BY <1>6, <3>1, <3>2, <2>2
  <2> QED  BY <1>0, <2>1, <2>2
<1>9. DOMAIN r = 1..(Len(q) - 1)
  BY <1>7
<1>10. IsInjective(r)
  <2> SUFFICES ASSUME NEW i \in 1..(Len(q) - 1), NEW j \in 1..(Len(q) - 1),
                      r[i] = r[j]
               PROVE  i = j
    BY <1>9 DEF IsInjective
  <2> DEFINE f(n) == IF n < k THEN n ELSE n + 1
  <2>1. f(i) \in DOMAIN q /\ f(j) \in DOMAIN q /\ q[f(i)] = q[f(j)]
    BY <1>0, <1>8
  <2>2. f(i) = f(j)
    BY <2>1 DEF IsInjective
  <2> QED  BY <1>0, <2>2
<1>11. Range(r) = Range(q) \ {x}
  <2>1. \A i \in 1..(Len(q) - 1) : r[i] \in Range(q) /\ r[i] # x
    BY <1>0, <1>1, <1>8 DEF Range, IsInjective
  <2>2. ASSUME NEW i \in 1..Len(q), q[i] # x  PROVE q[i] \in Range(r)
    <3> DEFINE j == IF i < k THEN i ELSE i - 1
    <3>1. j \in DOMAIN r /\ r[j] = q[i]
      BY <1>0, <1>1, <1>8, <1>9, <2>2
    <3> QED  BY <3>1 DEF Range
  <2> QED  BY <1>0, <1>9, <2>1, <2>2 DEF Range
<1> QED  BY <1>4, <1>7, <1>10, <1>11

(* Every set of natural numbers that is not empty has a least element.     *)
LEMMA LeastNat ==
  ASSUME NEW T, T \subseteq Nat, T # {}
  PROVE  \E m \in T : \A y \in T : m <= y
<1> DEFINE R == OpToRel(<, Nat)
<1>1. IsWellFoundedOn(R, Nat)
  BY NatLessThanWellFounded, Zenon
<1>2. \A x, y \in Nat : x < y => <<x, y>> \in R
  BY Zenon DEF OpToRel
<1> HIDE DEF R
<1>3. PICK m \in T : \A y \in T : ~(<<y, m>> \in R)
  BY <1>1, WFMin, Zenon
<1>4. \A y \in T : ~(y < m)
  BY <1>2, <1>3, Zenon
<1> QED  BY <1>4

(* The elements after a node is inserted at the end of any list.           *)
LEMMA AppendRange ==
  ASSUME NEW S, NEW q \in Seq(S), NEW x \in S
  PROVE  Range(Append(q, x)) = Range(q) \cup {x}
<1> DEFINE r == Append(q, x)
<1>1. /\ Len(r) = Len(q) + 1 /\ r \in Seq(S)
      /\ \A i \in 1..Len(q) : r[i] = q[i]
      /\ r[Len(q) + 1] = x
  BY AppendProperties
<1>2. DOMAIN q = 1..Len(q) /\ Len(q) \in Nat /\ DOMAIN r = 1..(Len(q) + 1)
  BY <1>1
<1> HIDE DEF r
<1>3. Range(r) = Range(q) \cup {x}
  BY <1>1, <1>2 DEF Range
<1> QED  BY <1>3 DEF r

-----------------------------------------------------------------------------
(* The searches.                                                           *)

(* The loop of sys_msgrcv, turn by turn: the function that Search defines  *)
(* exists, so the value after turn i is what Look makes of the one before. *)
LEMMA SearchTurns ==
  ASSUME NEW msgs, NEW rqtype, Len(msgs) \in Nat
  PROVE  LET acc == Search(msgs, rqtype) IN
         /\ acc[0] = [found |-> NULL, rqtype |-> rqtype, done |-> FALSE]
         /\ \A i \in 1..Len(msgs) : acc[i] = Look(acc[i - 1], msgs[i])
<1> DEFINE b == [found |-> NULL, rqtype |-> rqtype, done |-> FALSE]
           Turn(f, i) == IF i = 0 THEN b ELSE Look(f[i - 1], msgs[i])
           Runs(f, n) == f = [i \in 0..n |-> Turn(f, i)]
           N == Len(msgs)
<1>1. \A n \in Nat : \E f : Runs(f, n)
  <2> SUFFICES ASSUME {n \in Nat : ~\E f : Runs(f, n)} # {} PROVE FALSE
    OBVIOUS
  <2> HIDE DEF Runs
  <2>1. PICK n \in {k \in Nat : ~\E f : Runs(f, k)} :
               \A k \in {j \in Nat : ~\E f : Runs(f, j)} : n <= k
    BY LeastNat
  <2>2. n # 0
    <3>1. Runs([i \in 0..0 |-> b], 0)
      BY DEF Runs
    <3> QED  BY <2>1, <3>1
  <2>3. n - 1 \in Nat /\ ~(n <= n - 1)
    BY <2>1, <2>2
  <2>4. PICK f : Runs(f, n - 1)
    BY <2>1, <2>3
  <2> DEFINE g == [i \in 0..n |-> IF i = 0 THEN b ELSE Look(f[i - 1], msgs[i])]
  <2>5. \A i \in 0..(n - 1) : g[i] = f[i]
    <3>1. \A i \in 0..(n - 1) : f[i] = IF i = 0 THEN b ELSE Look(f[i - 1], msgs[i])
      BY <2>4 DEF Runs
    <3> HIDE DEF b
    <3> QED  BY <2>1, <3>1
  <2>6. \A i \in 1..n : i - 1 \in 0..(n - 1)
    BY <2>1
  <2>7. Runs(g, n)
    <3>1. \A i \in 0..n : g[i] = IF i = 0 THEN b ELSE Look(f[i - 1], msgs[i])
      OBVIOUS
    <3>2. \A i \in 1..n : f[i - 1] = g[i - 1]
      BY <2>5, <2>6
    <3>3. g = [i \in 0..n |-> g[i]]
      OBVIOUS
    <3> HIDE DEF g, b
    <3>4. \A i \in 0..n : g[i] = IF i = 0 THEN b ELSE Look(g[i - 1], msgs[i])
      BY <2>1, <3>1, <3>2
    <3> QED  BY <3>3, <3>4 DEF Runs
  <2> QED  BY <2>1, <2>7
<1>2. \E f : Runs(f, N)
  BY <1>1
<1>3. Search(msgs, rqtype) = CHOOSE f : Runs(f, N)
  BY DEF Search
<1>4. Runs(Search(msgs, rqtype), N)
  <2> HIDE DEF Runs
  <2> QED  BY <1>2, <1>3, Zenon
<1> DEFINE s == Search(msgs, rqtype)
<1> HIDE DEF s
<1>5. \A i \in 0..N : s[i] = IF i = 0 THEN b ELSE Look(s[i - 1], msgs[i])
  BY <1>4 DEF s
<1>6. s[0] = b /\ \A i \in 1..N : s[i] = Look(s[i - 1], msgs[i])
  <2> HIDE DEF b
  <2> QED  BY <1>5
<1> QED  BY <1>6 DEF s

(* testmsg for a type further up is testmsg for the type one started with. *)
LEMMA TestWeaker ==
  ASSUME NEW t \in Int, NEW u \in Int, NEW x \in Int, testmsg(u, x),
         u = t \/ (t <= u /\ u <= -1)
  PROVE  testmsg(t, x)
BY DEF testmsg

(* What sys_msgrcv finds is in the queue and of a type that was asked for, *)
(* and it finds nothing only if there is no such message.                  *)
LEMMA Found ==
  ASSUME NEW msgs \in Seq(Message), NEW rqtype \in Int
  PROVE  /\ FindMsg(msgs, rqtype) # NULL =>
              /\ FindMsg(msgs, rqtype) \in Range(msgs)
              /\ testmsg(rqtype, FindMsg(msgs, rqtype).mtype)
         /\ FindMsg(msgs, rqtype) = NULL =>
              \A m \in Range(msgs) : ~testmsg(rqtype, m.mtype)
<1> DEFINE s == Search(msgs, rqtype)
           N == Len(msgs)
           Fine(i) ==
             /\ s[i].rqtype \in Int
             /\ s[i].rqtype = rqtype \/ (rqtype <= s[i].rqtype /\ s[i].rqtype <= -1)
             /\ s[i].found = NULL => /\ s[i].rqtype = rqtype /\ s[i].done = FALSE
                                     /\ \A j \in 1..i : ~testmsg(rqtype, msgs[j].mtype)
             /\ s[i].found # NULL => /\ s[i].found \in Range(msgs)
                                     /\ testmsg(rqtype, s[i].found.mtype)
<1>0. /\ N \in Nat /\ DOMAIN msgs = 1..N
      /\ \A j \in 1..N : msgs[j] \in Message /\ msgs[j].mtype \in Int /\ msgs[j] # NULL
      /\ \A j \in 1..N : msgs[j] \in Range(msgs)
  <2>1. N \in Nat /\ DOMAIN msgs = 1..N /\ \A j \in 1..N : msgs[j] \in Message
    OBVIOUS
  <2>2. \A m \in Message : m.mtype \in Int /\ m # NULL
    BY NullAssumption, SizesAssumption DEF Message
  <2>3. \A j \in 1..N : msgs[j] \in Range(msgs)
    BY <2>1 DEF Range
  <2> HIDE DEF N
  <2> QED  BY <2>1, <2>2, <2>3
<1>1. /\ s[0] = [found |-> NULL, rqtype |-> rqtype, done |-> FALSE]
      /\ \A i \in 1..N : s[i] = Look(s[i - 1], msgs[i])
  BY <1>0, SearchTurns
<1> HIDE DEF s
<1>2. Fine(0)
  BY <1>1
<1>3. ASSUME NEW i \in 1..N, Fine(i - 1) PROVE Fine(i)
  <2>1. s[i] = Look(s[i - 1], msgs[i])
    BY <1>1
  <2>2. PICK a : a = s[i - 1]
    OBVIOUS
  <2>3. CASE a.done \/ ~testmsg(a.rqtype, msgs[i].mtype)
    <3>1. s[i] = a
      BY <2>1, <2>2, <2>3 DEF Look
    <3>2. a.found = NULL => ~testmsg(rqtype, msgs[i].mtype)
      BY <1>3, <2>2, <2>3
    <3>3. \A j \in 1..i : j = i \/ j \in 1..(i - 1)
      BY <1>0
    <3> QED  BY <1>3, <2>2, <3>1, <3>2, <3>3
  <2>4. CASE ~a.done /\ testmsg(a.rqtype, msgs[i].mtype)
    <3>1. /\ s[i].found = msgs[i]
          /\ s[i].rqtype = IF a.rqtype < -1 THEN a.rqtype + 1 ELSE a.rqtype
      BY <2>1, <2>2, <2>4 DEF Look
    <3>2. testmsg(rqtype, msgs[i].mtype)
      BY <1>0, <1>3, <2>2, <2>4, TestWeaker
    <3>3. /\ s[i].rqtype \in Int
          /\ s[i].rqtype = rqtype \/ (rqtype <= s[i].rqtype /\ s[i].rqtype <= -1)
      BY <1>3, <2>2, <3>1
    <3> QED  BY <1>0, <3>1, <3>2, <3>3
  <2> QED  BY <2>3, <2>4
<1> HIDE DEF Fine
<1>4. \A i \in 0..N : Fine(i)
  <2> SUFFICES ASSUME {i \in 0..N : ~Fine(i)} # {} PROVE FALSE
    OBVIOUS
  <2>1. {i \in 0..N : ~Fine(i)} \subseteq Nat
    BY <1>0
  <2>2. PICK n \in {i \in 0..N : ~Fine(i)} : \A k \in {i \in 0..N : ~Fine(i)} : n <= k
    BY <2>1, LeastNat
  <2>3. n # 0
    BY <1>2, <2>2
  <2>4. n \in 1..N /\ n - 1 \in 0..N /\ ~(n <= n - 1)
    BY <1>0, <2>2, <2>3
  <2>5. Fine(n - 1)
    BY <2>2, <2>4
  <2> QED  BY <1>3, <2>2, <2>4, <2>5
<1>5. Fine(N)
  BY <1>0, <1>4
<1>6. FindMsg(msgs, rqtype) = s[N].found
  BY DEF FindMsg, s
<1> QED  BY <1>0, <1>5, <1>6 DEF Fine, Range

(* The receiver that pipeline_send finds asks for the message, and it      *)
(* finds none only if there is none.                                       *)
LEMMA Matches ==
  ASSUME NEW que, NEW m, que.q_receiver \in Seq(Proc)
  PROVE  /\ Matching(que, m) # 0 =>
              /\ Matching(que, m) \in 1..Len(que.q_receiver)
              /\ testmsg(request[que.q_receiver[Matching(que, m)]].mtype, m.mtype)
         /\ Matching(que, m) = 0 =>
              \A r \in Range(que.q_receiver) : ~testmsg(request[r].mtype, m.mtype)
<1> DEFINE q == que.q_receiver
           I == {i \in 1..Len(q) : testmsg(request[q[i]].mtype, m.mtype)}
<1>1. Matching(que, m) = IF I # {} THEN Min(I) ELSE 0
  BY DEF Matching, SelectInSeq
<1>2. Len(q) \in Nat /\ DOMAIN q = 1..Len(q)
  OBVIOUS
<1>3. CASE I # {}
  <2>1. I \subseteq Nat
    BY <1>2
  <2>2. \E x \in I : \A y \in I : x <= y
    BY <1>3, <2>1, LeastNat
  <2>3. Min(I) \in I
    <3> HIDE DEF I
    <3> QED  BY <2>2 DEF Min
  <2>4. Matching(que, m) \in I
    BY <1>1, <1>3, <2>3
  <2>5. 0 \notin I
    BY <1>2
  <2> QED  BY <2>4, <2>5
<1>4. CASE I = {}
  BY <1>1, <1>2, <1>4 DEF Range
<1> QED  BY <1>3, <1>4

(* ss_wakeup wakes everybody on the list and leaves nobody on it.          *)
LEMMA AllWoken ==
  ASSUME NEW list \in Seq(Proc)
  PROVE  Woken(list) = Range(list) /\ NotWoken(list) = <<>>
<1>1. Woken(list) = Range(list)
  BY DEF Woken, ss_wakeup, Range
<1>2. NotWoken(list) = <<>>
  BY DEF NotWoken, ss_wakeup
<1> QED  BY <1>1, <1>2


-----------------------------------------------------------------------------
(* Who holds which message.                                                *)

LEMMA QueueHolds ==
  ASSUME NEW id, NEW e, id \in InUse, InUse' = InUse, entries'[id] = e,
         \A jd \in InUse \ {id} : entries'[jd] = entries[jd]
  PROVE  HeldByQueues' = (HeldByQueues \ {<<"queue", id, m>> :
                                           m \in Range(entries[id].q_message)})
                         \cup {<<"queue", id, m>> : m \in Range(e.q_message)}
BY DEF HeldByQueues

LEMMA SendersHold ==
  ASSUME TypeOK, NEW p \in Proc, NEW v, msg' = [msg EXCEPT ![p] = v]
  PROVE  HeldBySenders' = (HeldBySenders \ {<<"sender", p, msg[p]>>})
                          \cup {<<"sender", q, v>> : q \in {r \in {p} : v # NULL}}
<1>1. msg'[p] = v /\ \A q \in Proc \ {p} : msg'[q] = msg[q]
  BY DEF TypeOK
<1> QED  BY <1>1 DEF HeldBySenders

LEMMA ReceiversHold ==
  ASSUME TypeOK, NEW p \in Proc, NEW v, r_msg' = [r_msg EXCEPT ![p] = v]
  PROVE  HeldByReceivers' = (HeldByReceivers \ {<<"receiver", p, r_msg[p]>>})
                            \cup {<<"receiver", q, v>> : q \in {r \in {p} : v \in Message}}
<1>1. r_msg'[p] = v /\ \A q \in Proc \ {p} : r_msg'[q] = r_msg[q]
  BY DEF TypeOK
<1> QED  BY <1>1 DEF HeldByReceivers

(* The three kinds of holders are different.                               *)
LEMMA KindsDiffer ==
  /\ \A h \in HeldByQueues : h[1] = "queue"
  /\ \A h \in HeldBySenders : h[1] = "sender"
  /\ \A h \in HeldByReceivers : h[1] = "receiver"
BY DEF HeldByQueues, HeldBySenders, HeldByReceivers

(* Holders H own the pages P, each its own.                                *)
Owned(H, P) == /\ \A h, k \in H : PageOf(h) = PageOf(k) => h = k
               /\ P = {PageOf(h) : h \in H}

LEMMA OwnedMove ==
  ASSUME NEW H, NEW P, Owned(H, P), NEW x \in H, NEW y, PageOf(y) = PageOf(x)
  PROVE  Owned((H \ {x}) \cup {y}, P)
<1> DEFINE K == (H \ {x}) \cup {y}
<1>1. \A h, k \in K : PageOf(h) = PageOf(k) => h = k
  BY DEF Owned
<1>2. P = {PageOf(h) : h \in K}
  BY DEF Owned
<1> QED  BY <1>1, <1>2 DEF Owned

LEMMA OwnedAdd ==
  ASSUME NEW H, NEW P, Owned(H, P), NEW y, PageOf(y) \notin P
  PROVE  Owned(H \cup {y}, P \cup {PageOf(y)})
<1> DEFINE K == H \cup {y}
<1>1. \A h, k \in K : PageOf(h) = PageOf(k) => h = k
  BY DEF Owned
<1>2. P \cup {PageOf(y)} = {PageOf(h) : h \in K}
  BY DEF Owned
<1> QED  BY <1>1, <1>2 DEF Owned

LEMMA OwnedDrop ==
  ASSUME NEW H, NEW P, Owned(H, P), NEW D, D \subseteq H
  PROVE  Owned(H \ D, P \ {PageOf(d) : d \in D})
<1> DEFINE K == H \ D
<1>1. \A h, k \in K : PageOf(h) = PageOf(k) => h = k
  BY DEF Owned
<1>2. P \ {PageOf(d) : d \in D} = {PageOf(h) : h \in K}
  <2>1. \A h \in K, d \in D : PageOf(h) # PageOf(d)
    BY DEF Owned
  <2> QED  BY <2>1 DEF Owned
<1> QED  BY <1>1, <1>2 DEF Owned

LEMMA QueueInUse ==
  ASSUME TypeOK, NEW id \in InUse
  PROVE  /\ entries[id] \in Queue /\ id \in 0..Size - 1
         /\ entries[id].q_message \in Seq(Message)
         /\ entries[id].q_sender \in Seq(Proc)
         /\ entries[id].q_receiver \in Seq(Proc)
         /\ entries[id].sum_msg \in 0..MAX_MSGNUM
         /\ Range(entries[id].q_message) \subseteq Message
         /\ Range(entries[id].q_sender) \subseteq Proc
         /\ Range(entries[id].q_receiver) \subseteq Proc
<1>1. entries[id] \in Queue /\ id \in 0..Size - 1
  BY DEF TypeOK, InUse
<1>2. /\ entries[id].q_message \in Seq(Message)
      /\ entries[id].q_sender \in Seq(Proc)
      /\ entries[id].q_receiver \in Seq(Proc)
      /\ entries[id].sum_msg \in 0..MAX_MSGNUM
  BY <1>1 DEF Queue
<1>3. \A S, q : q \in Seq(S) => Range(q) \subseteq S
  BY DEF Range
<1> QED  BY <1>1, <1>2, <1>3

LEMMA OneQueue ==
  ASSUME TypeOK, NEW id \in InUse, NEW e \in Queue,
         entries' = [entries EXCEPT ![id] = e]
  PROVE  /\ InUse' = InUse
         /\ entries'[id] = e
         /\ \A jd \in InUse \ {id} : entries'[jd] = entries[jd]
         /\ entries' \in [0..Size - 1 -> Queue \cup {NULL}]
<1>1. /\ entries'[id] = e /\ \A jd \in (0..Size - 1) \ {id} : entries'[jd] = entries[jd]
      /\ entries' \in [0..Size - 1 -> Queue \cup {NULL}]
  BY DEF TypeOK, InUse
<1>2. e # NULL /\ entries[id] # NULL
  BY NullAssumption DEF InUse
<1> QED  BY <1>1, <1>2 DEF InUse

LEMMA OwnedIs == MessagesOwned <=> /\ \A id \in InUse : IsInjective(entries[id].q_message)
                                   /\ Owned(Held, pages)
BY DEF MessagesOwned, Owned

-----------------------------------------------------------------------------
(* The steps.                                                              *)

LEMMA SlotsFinite ==
  ASSUME NEW T, T \subseteq 0..Size - 1
  PROVE  IsFiniteSet(T) /\ Cardinality(T) \in 0..Size
<1>1. Size \in Nat \ {0}
  BY SizesAssumption
<1>2. IsFiniteSet(0..Size - 1) /\ Cardinality(0..Size - 1) = Size
  BY <1>1, FS_Interval
<1>3. IsFiniteSet(T) /\ Cardinality(T) <= Size
  BY <1>2, FS_Subset
<1>4. Cardinality(T) \in Nat
  BY <1>3, FS_CardinalityType
<1> QED  BY <1>1, <1>3, <1>4

LEMMA EmptyList == /\ <<>> \in Seq({}) /\ Range(<<>>) = {} /\ IsInjective(<<>>) /\ Len(<<>>) = 0
BY DEF Range, IsInjective

LEMMA GetInv ==
  ASSUME MsgInv, NEW p \in Proc, NEW key \in Key, sys_msgget(p, key)
  PROVE  MsgInv'
<1> USE DEF MsgInv
<1> DEFINE e == [key |-> key, seq |-> seq, sum_msg |-> 0, q_message |-> <<>>,
                 q_sender |-> <<>>, q_receiver |-> <<>>]
           free == (0..Size - 1) \ InUse
<1>1. /\ free # {} /\ seq' = NextSeq(seq) /\ in_use' = in_use + 1
      /\ entries' = [entries EXCEPT ![CHOOSE i \in free : \A j \in free : i <= j] = e]
      /\ UNCHANGED <<pages, pc, msgid, msg, request, r_msg, wild>>
  BY DEF sys_msgget, newque
<1>2. TypeOK
  BY DEF CountsExact
<1>3. PICK id \in free : entries' = [entries EXCEPT ![id] = e]
  <2>1. \E i \in free : \A j \in free : i <= j
    <3>1. free \subseteq Nat
      BY SizesAssumption
    <3> HIDE DEF free
    <3> QED  BY <1>1, <3>1, LeastNat
  <2> HIDE DEF free, e
  <2> QED  BY <1>1, <2>1
<1>4. e \in Queue /\ e # NULL
  <2>1. e \in Queue
    BY <1>2, SizesAssumption DEF Queue, TypeOK
  <2> QED  BY <2>1, NullAssumption
<1>5. /\ entries'[id] = e /\ \A jd \in InUse : entries'[jd] = entries[jd]
      /\ InUse' = InUse \cup {id}
      /\ entries' \in [0..Size - 1 -> Queue \cup {NULL}]
  <2> HIDE DEF e
  <2>1. /\ entries'[id] = e /\ \A jd \in (0..Size - 1) \ {id} : entries'[jd] = entries[jd]
        /\ entries' \in [0..Size - 1 -> Queue \cup {NULL}]
    BY <1>2, <1>3, <1>4 DEF TypeOK
  <2> QED  BY <1>3, <1>4, <2>1 DEF InUse
<1>6. /\ e.q_message = <<>> /\ e.q_sender = <<>> /\ e.q_receiver = <<>> /\ e.sum_msg = 0
  OBVIOUS
<1> HIDE DEF e
<1>7. CountsExact'
  <2>1. in_use' = Cardinality(InUse') /\ in_use' \in 0..Size
    <3>1. IsFiniteSet(InUse) /\ id \notin InUse
      BY <1>3, SlotsFinite DEF InUse
    <3>2. InUse' \subseteq 0..Size - 1
      BY <1>3, <1>5 DEF InUse
    <3>3. Cardinality(InUse') = Cardinality(InUse) + 1
      BY <1>5, <3>1, FS_AddElement
    <3>4. Cardinality(InUse') \in 0..Size
      BY <3>2, SlotsFinite
    <3> QED  BY <1>1, <3>3, <3>4 DEF CountsExact
  <2>2. seq' \in 0..SEQS - 1
    BY <1>1, <1>2, SizesAssumption DEF NextSeq, TypeOK
  <2>3. TypeOK'
    BY <1>1, <1>2, <1>5, <2>1, <2>2 DEF TypeOK
  <2>4. \A jd \in InUse' : entries'[jd].sum_msg = Len(entries'[jd].q_message)
    BY <1>5, <1>6, EmptyList DEF CountsExact
  <2> QED  BY <2>1, <2>3, <2>4 DEF CountsExact
<1>8. Lists'
  <2>1. /\ Range(entries'[id].q_receiver) = {} /\ Range(entries'[id].q_sender) = {}
        /\ IsInjective(entries'[id].q_receiver)
    BY <1>5, <1>6, EmptyList
  <2>2. \A jd \in InUse' : jd = id \/ (jd \in InUse /\ entries'[jd] = entries[jd])
    BY <1>5
  <2>3. ASSUME NEW jd \in InUse'
        PROVE  /\ IsInjective(entries'[jd].q_receiver)
               /\ \A q \in Range(entries'[jd].q_receiver) : pc'[q] = "recv_sleep"
               /\ \A q \in Range(entries'[jd].q_sender) : pc'[q] = "send_sleep"
    <3>1. CASE jd = id
      BY <2>1, <3>1
    <3>2. CASE jd \in InUse /\ entries'[jd] = entries[jd]
      BY <1>1, <3>2 DEF Lists
    <3> QED  BY <2>2, <3>1, <3>2
  <2>4. ASSUME NEW jd \in InUse', NEW kd \in InUse', jd # kd
        PROVE  /\ Range(entries'[jd].q_receiver) \cap Range(entries'[kd].q_receiver) = {}
               /\ Range(entries'[jd].q_sender) \cap Range(entries'[kd].q_sender) = {}
    <3>1. CASE jd = id \/ kd = id
      BY <2>1, <3>1
    <3>2. CASE jd # id /\ kd # id
      <4>1. /\ jd \in InUse /\ entries'[jd] = entries[jd]
            /\ kd \in InUse /\ entries'[kd] = entries[kd]
        BY <2>2, <3>2
      <4> QED  BY <2>4, <4>1 DEF Lists
    <3> QED  BY <3>1, <3>2
  <2> QED  BY <2>3, <2>4 DEF Lists
<1>9. Locals'
  BY <1>1 DEF Locals
<1>10. Held' = Held
  <2>1. HeldByQueues' = HeldByQueues
    BY <1>5, <1>6, EmptyList DEF HeldByQueues
  <2>2. HeldBySenders' = HeldBySenders /\ HeldByReceivers' = HeldByReceivers
    BY <1>1 DEF HeldBySenders, HeldByReceivers
  <2> QED  BY <2>1, <2>2 DEF Held
<1>11. MessagesOwned'
  <2>1. \A jd \in InUse' : IsInjective(entries'[jd].q_message)
    BY <1>5, <1>6, EmptyList DEF MessagesOwned
  <2> QED  BY <1>1, <1>10, <2>1 DEF MessagesOwned
<1>12. NoMissedMessage' /\ SendersWaitForRoom' /\ DeliveryFits'
  BY <1>1, <1>5, <1>6, EmptyList DEF NoMissedMessage, SendersWaitForRoom, DeliveryFits
<1> QED  BY <1>7, <1>8, <1>9, <1>11, <1>12

(* Entries that stay as they are, with a process that is in no list: what  *)
(* the lists say stays true.                                               *)
LEMMA ListsStay ==
  ASSUME MsgInv, entries' = entries, NEW p \in Proc,
         pc[p] \in {"run", "send", "store"},
         pc' = [pc EXCEPT ![p] = pc'[p]],
         \A q \in Proc \ {p} : request'[q] = request[q]
  PROVE  /\ InUse' = InUse
         /\ Lists' /\ NoMissedMessage' /\ SendersWaitForRoom'
         /\ HeldByQueues' = HeldByQueues
         /\ \A q \in Proc \ {p} : pc'[q] = pc[q]
<1> USE DEF MsgInv
<1>1. TypeOK /\ \A q \in Proc \ {p} : pc'[q] = pc[q]
  BY DEF CountsExact, TypeOK
<1>2. InUse' = InUse
  BY DEF InUse
<1>3. \A id \in InUse : /\ p \notin Range(entries[id].q_receiver)
                        /\ p \notin Range(entries[id].q_sender)
                        /\ Range(entries[id].q_receiver) \subseteq Proc
                        /\ Range(entries[id].q_sender) \subseteq Proc
  BY <1>1, QueueInUse DEF Lists
<1>4. Lists'
  BY <1>1, <1>2, <1>3 DEF Lists
<1>5. NoMissedMessage'
  BY <1>1, <1>2, <1>3 DEF NoMissedMessage
<1>6. SendersWaitForRoom'
  BY <1>1, <1>2, <1>3 DEF SendersWaitForRoom
<1>7. HeldByQueues' = HeldByQueues
  BY <1>2 DEF HeldByQueues
<1> QED  BY <1>1, <1>2, <1>4, <1>5, <1>6, <1>7


LEMMA LoadInv ==
  ASSUME MsgInv, NEW p \in Proc, NEW m \in Message, NEW id \in MsgId, load_msg(p, m, id)
  PROVE  MsgInv'
<1> USE DEF MsgInv
<1>1. /\ pc[p] = "run" /\ m.page \notin pages /\ pages' = pages \cup {m.page}
      /\ msg' = [msg EXCEPT ![p] = m] /\ msgid' = [msgid EXCEPT ![p] = id]
      /\ pc' = [pc EXCEPT ![p] = "send"]
      /\ UNCHANGED <<entries, seq, in_use, request, r_msg, wild>>
  BY DEF load_msg, At, Goto, table
<1>2. TypeOK /\ m # NULL /\ m.page \in Page
  BY NullAssumption DEF CountsExact, Message
<1>3. pc'[p] = "send" /\ msg'[p] = m /\ \A q \in Proc \ {p} : msg'[q] = msg[q]
  BY <1>1, <1>2 DEF TypeOK
<1>4. /\ InUse' = InUse
      /\ Lists' /\ NoMissedMessage' /\ SendersWaitForRoom'
      /\ HeldByQueues' = HeldByQueues
      /\ \A q \in Proc \ {p} : pc'[q] = pc[q]
  BY <1>1, <1>3, ListsStay
<1>5. CountsExact'
  <2>1. TypeOK'
    BY <1>1, <1>2 DEF TypeOK, PC
  <2> QED  BY <1>1, <1>4, <2>1 DEF CountsExact
<1>6. Locals'
  BY <1>1, <1>2, <1>3, <1>4 DEF Locals
<1>7. msg[p] = NULL
  BY <1>1 DEF Locals
<1>8. Held' = Held \cup {<<"sender", p, m>>}
  <2>1. HeldBySenders' = HeldBySenders \cup {<<"sender", p, m>>}
    <3>1. HeldBySenders' = (HeldBySenders \ {<<"sender", p, msg[p]>>})
                           \cup {<<"sender", q, m>> : q \in {r \in {p} : m # NULL}}
      BY <1>1, <1>2, SendersHold
    <3>2. <<"sender", p, msg[p]>> \notin HeldBySenders
      BY <1>7 DEF HeldBySenders
    <3> QED  BY <1>2, <3>1, <3>2
  <2>2. HeldByReceivers' = HeldByReceivers
    BY <1>1 DEF HeldByReceivers
  <2> QED  BY <1>4, <2>1, <2>2 DEF Held
<1>9. MessagesOwned'
  <2>1. Owned(Held, pages)
    BY OwnedIs
  <2>2. PageOf(<<"sender", p, m>>) = m.page
    BY DEF PageOf
  <2>3. Owned(Held', pages')
    BY <1>1, <1>8, <2>1, <2>2, OwnedAdd
  <2>4. \A jd \in InUse' : IsInjective(entries'[jd].q_message)
    BY <1>1, <1>4 DEF MessagesOwned
  <2> QED  BY <2>3, <2>4 DEF Owned, MessagesOwned
<1>10. DeliveryFits'
  BY <1>1, <1>3, <1>4 DEF DeliveryFits
<1> QED  BY <1>4, <1>5, <1>6, <1>9, <1>10

LEMMA SendFailsInv ==
  ASSUME MsgInv, NEW p \in Proc, send_fails(p)
  PROVE  MsgInv'
<1> USE DEF MsgInv
<1>1. /\ pc[p] = "send" /\ pages' = pages \ {msg[p].page}
      /\ msg' = [msg EXCEPT ![p] = NULL] /\ msgid' = [msgid EXCEPT ![p] = 0]
      /\ pc' = [pc EXCEPT ![p] = "run"]
      /\ UNCHANGED <<entries, seq, in_use, request, r_msg, wild>>
  BY DEF send_fails, At, Goto, table, SendReturns
<1>2. TypeOK /\ msg[p] # NULL
  BY <1>1 DEF CountsExact, Locals
<1>3. pc'[p] = "run" /\ msg'[p] = NULL /\ \A q \in Proc \ {p} : msg'[q] = msg[q]
  BY <1>1, <1>2 DEF TypeOK
<1>4. /\ InUse' = InUse
      /\ Lists' /\ NoMissedMessage' /\ SendersWaitForRoom'
      /\ HeldByQueues' = HeldByQueues
      /\ \A q \in Proc \ {p} : pc'[q] = pc[q]
  BY <1>1, <1>3, ListsStay
<1>5. CountsExact'
  <2>1. 0 \in MsgId
    BY SizesAssumption DEF MsgId
  <2>2. TypeOK'
    BY <1>1, <1>2, <2>1 DEF TypeOK, PC
  <2> QED  BY <1>1, <1>4, <2>2 DEF CountsExact
<1>6. Locals'
  <2>1. r_msg[p] \notin Message
    BY <1>1 DEF Locals
  <2> QED  BY <1>1, <1>3, <1>4, <2>1 DEF Locals
<1>7. Held' = Held \ {<<"sender", p, msg[p]>>} /\ <<"sender", p, msg[p]>> \in Held
  <2>1. HeldBySenders' = HeldBySenders \ {<<"sender", p, msg[p]>>}
    <3>1. HeldBySenders' = (HeldBySenders \ {<<"sender", p, msg[p]>>})
                           \cup {<<"sender", q, NULL>> : q \in {r \in {p} : NULL # NULL}}
      BY <1>1, <1>2, SendersHold
    <3> QED  BY <3>1
  <2>2. HeldByReceivers' = HeldByReceivers
    BY <1>1 DEF HeldByReceivers
  <2>3. <<"sender", p, msg[p]>> \in HeldBySenders
    BY <1>2 DEF HeldBySenders
  <2> QED  BY <1>4, <2>1, <2>2, <2>3, KindsDiffer DEF Held
<1>8. MessagesOwned'
  <2>1. Owned(Held, pages)
    BY OwnedIs
  <2>2. {PageOf(d) : d \in {<<"sender", p, msg[p]>>}} = {msg[p].page}
    BY DEF PageOf
  <2>3. Owned(Held', pages')
    BY <1>1, <1>7, <2>1, <2>2, OwnedDrop
  <2>4. \A jd \in InUse' : IsInjective(entries'[jd].q_message)
    BY <1>1, <1>4 DEF MessagesOwned
  <2> QED  BY <2>3, <2>4 DEF Owned, MessagesOwned
<1>9. DeliveryFits'
  BY <1>1, <1>3, <1>4 DEF DeliveryFits
<1> QED  BY <1>4, <1>5, <1>6, <1>8, <1>9

LEMMA StoreInv ==
  ASSUME MsgInv, NEW p \in Proc, store_msg(p)
  PROVE  MsgInv'
<1> USE DEF MsgInv
<1>1. /\ pc[p] = "store" /\ wild' \in BOOLEAN
      /\ pages' = pages \ {g \in pages : r_msg[p] \in Message /\ r_msg[p].page = g}
      /\ r_msg' = [r_msg EXCEPT ![p] = NULL]
      /\ request' = [request EXCEPT ![p] = NoRequest]
      /\ pc' = [pc EXCEPT ![p] = "run"]
      /\ UNCHANGED <<entries, seq, in_use, msgid, msg>>
  BY DEF store_msg, At, Goto, table
<1>2. TypeOK /\ NULL \notin Message
  BY NullAssumption DEF CountsExact
<1>3. /\ pc'[p] = "run" /\ r_msg'[p] = NULL
      /\ \A q \in Proc \ {p} : r_msg'[q] = r_msg[q] /\ request'[q] = request[q]
  BY <1>1, <1>2 DEF TypeOK
<1>4. /\ InUse' = InUse
      /\ Lists' /\ NoMissedMessage' /\ SendersWaitForRoom'
      /\ HeldByQueues' = HeldByQueues
      /\ \A q \in Proc \ {p} : pc'[q] = pc[q]
  BY <1>1, <1>3, ListsStay
<1>5. CountsExact'
  <2>1. NoRequest \in Request
    BY SizesAssumption DEF NoRequest, Request
  <2>2. TypeOK'
    BY <1>1, <1>2, <2>1 DEF TypeOK, PC
  <2> QED  BY <1>1, <1>4, <2>2 DEF CountsExact
<1>6. Locals'
  BY <1>1, <1>2, <1>3, <1>4 DEF Locals
<1> DEFINE D == {h \in {<<"receiver", p, r_msg[p]>>} : r_msg[p] \in Message}
<1>7. Held' = Held \ D /\ D \subseteq Held
  <2>1. HeldByReceivers' = HeldByReceivers \ D
    <3>1. HeldByReceivers' = (HeldByReceivers \ {<<"receiver", p, r_msg[p]>>})
                  \cup {<<"receiver", q, NULL>> : q \in {r \in {p} : NULL \in Message}}
      BY <1>1, <1>2, ReceiversHold
    <3>2. r_msg[p] \notin Message => <<"receiver", p, r_msg[p]>> \notin HeldByReceivers
      BY DEF HeldByReceivers
    <3> QED  BY <1>2, <3>1, <3>2
  <2>2. HeldBySenders' = HeldBySenders
    BY <1>1 DEF HeldBySenders
  <2>3. D \subseteq HeldByReceivers
    BY DEF HeldByReceivers
  <2>4. \A d \in D : d[1] = "receiver"
    OBVIOUS
  <2> HIDE DEF D
  <2> QED  BY <1>4, <2>1, <2>2, <2>3, <2>4, KindsDiffer DEF Held
<1>8. MessagesOwned'
  <2>1. Owned(Held, pages)
    BY OwnedIs
  <2>2. {PageOf(d) : d \in D} = {g \in pages : r_msg[p] \in Message /\ r_msg[p].page = g}
    <3>1. \A d \in D : PageOf(d) \in pages
      BY <1>7, <2>1 DEF Owned
    <3>2. \A d \in D : PageOf(d) = r_msg[p].page
      BY DEF PageOf
    <3>3. r_msg[p] \in Message => \E d \in D : TRUE
      OBVIOUS
    <3>4. \A d \in D : r_msg[p] \in Message
      OBVIOUS
    <3> HIDE DEF D
    <3> QED  BY <3>1, <3>2, <3>3, <3>4
  <2> HIDE DEF D
  <2>3. Owned(Held', pages')
    BY <1>1, <1>7, <2>1, <2>2, OwnedDrop
  <2>4. \A jd \in InUse' : IsInjective(entries'[jd].q_message)
    BY <1>1, <1>4 DEF MessagesOwned
  <2> QED  BY <2>3, <2>4 DEF Owned, MessagesOwned
<1>9. DeliveryFits'
  BY <1>1, <1>2, <1>3, <1>4 DEF DeliveryFits
<1> QED  BY <1>4, <1>5, <1>6, <1>8, <1>9


(* One queue changes into e, and of the processes only those in X, which   *)
(* are in the lists of no other queue: what has to be shown of e.          *)
LEMMA QueueStep ==
  ASSUME MsgInv, NEW id \in InUse, NEW e \in Queue, NEW X,
         entries' = [entries EXCEPT ![id] = e],
         \A q \in Proc \ X : pc'[q] = pc[q] /\ request'[q] = request[q],
         \A jd \in InUse \ {id} :
           /\ Range(entries[jd].q_receiver) \cap X = {}
           /\ Range(entries[jd].q_sender) \cap X = {}
           /\ Range(entries[jd].q_receiver) \cap Range(e.q_receiver) = {}
           /\ Range(entries[jd].q_sender) \cap Range(e.q_sender) = {},
         IsInjective(e.q_receiver), IsInjective(e.q_message),
         e.sum_msg = Len(e.q_message),
         \A q \in Range(e.q_receiver) :
           /\ pc'[q] = "recv_sleep"
           /\ \A m \in Range(e.q_message) : ~testmsg(request'[q].mtype, m.mtype),
         \A q \in Range(e.q_sender) : pc'[q] = "send_sleep" /\ e.sum_msg = MAX_MSGNUM
  PROVE  /\ InUse' = InUse
         /\ entries' \in [0..Size - 1 -> Queue \cup {NULL}]
         /\ Lists' /\ NoMissedMessage' /\ SendersWaitForRoom'
         /\ \A jd \in InUse' : IsInjective(entries'[jd].q_message)
         /\ \A jd \in InUse' : entries'[jd].sum_msg = Len(entries'[jd].q_message)
<1> USE DEF MsgInv
<1>1. TypeOK
  BY DEF CountsExact
<1>2. /\ InUse' = InUse /\ entries'[id] = e
      /\ \A jd \in InUse \ {id} : entries'[jd] = entries[jd]
      /\ entries' \in [0..Size - 1 -> Queue \cup {NULL}]
  BY <1>1, OneQueue
<1>3. ASSUME NEW jd \in InUse \ {id}
      PROVE  /\ \A q \in Range(entries[jd].q_receiver) : pc'[q] = pc[q] /\ request'[q] = request[q]
             /\ \A q \in Range(entries[jd].q_sender) : pc'[q] = pc[q]
  <2>1. Range(entries[jd].q_receiver) \subseteq Proc /\ Range(entries[jd].q_sender) \subseteq Proc
    BY <1>1, QueueInUse
  <2> QED  BY <2>1
<1>4. Lists'
  <2>1. ASSUME NEW jd \in InUse'
        PROVE  /\ IsInjective(entries'[jd].q_receiver)
               /\ \A q \in Range(entries'[jd].q_receiver) : pc'[q] = "recv_sleep"
               /\ \A q \in Range(entries'[jd].q_sender) : pc'[q] = "send_sleep"
    <3>1. CASE jd = id
      BY <1>2, <3>1
    <3>2. CASE jd # id
      BY <1>2, <1>3, <3>2 DEF Lists
    <3> QED  BY <3>1, <3>2
  <2>2. ASSUME NEW jd \in InUse', NEW kd \in InUse', jd # kd
        PROVE  /\ Range(entries'[jd].q_receiver) \cap Range(entries'[kd].q_receiver) = {}
               /\ Range(entries'[jd].q_sender) \cap Range(entries'[kd].q_sender) = {}
    <3>1. CASE jd = id
      BY <1>2, <2>2, <3>1
    <3>2. CASE kd = id
      BY <1>2, <2>2, <3>2
    <3>3. CASE jd # id /\ kd # id
      BY <1>2, <2>2, <3>3 DEF Lists
    <3> QED  BY <3>1, <3>2, <3>3
  <2> QED  BY <2>1, <2>2 DEF Lists
<1>5. NoMissedMessage'
  <2> SUFFICES ASSUME NEW jd \in InUse', NEW q \in Range(entries'[jd].q_receiver),
                      NEW m \in Range(entries'[jd].q_message)
               PROVE  ~testmsg(request'[q].mtype, m.mtype)
    BY DEF NoMissedMessage, testmsg
  <2>1. CASE jd = id
    BY <1>2, <2>1
  <2>2. CASE jd # id
    BY <1>2, <1>3, <2>2 DEF NoMissedMessage
  <2> QED  BY <2>1, <2>2
<1>6. SendersWaitForRoom'
  <2> SUFFICES ASSUME NEW jd \in InUse', NEW q \in Range(entries'[jd].q_sender)
               PROVE  pc'[q] = "send_sleep" /\ entries'[jd].sum_msg = MAX_MSGNUM
    BY DEF SendersWaitForRoom
  <2>1. CASE jd = id
    BY <1>2, <2>1
  <2>2. CASE jd # id
    <3>1. jd \in InUse \ {id} /\ entries'[jd] = entries[jd]
      BY <1>2, <2>2
    <3>2. pc'[q] = pc[q]
      BY <1>3, <3>1
    <3> QED  BY <3>1, <3>2 DEF SendersWaitForRoom
  <2> QED  BY <2>1, <2>2
<1>7. /\ \A jd \in InUse' : IsInjective(entries'[jd].q_message)
      /\ \A jd \in InUse' : entries'[jd].sum_msg = Len(entries'[jd].q_message)
  BY <1>2 DEF MessagesOwned, CountsExact
<1> QED  BY <1>2, <1>4, <1>5, <1>6, <1>7

(* A process that runs is in no list.                                      *)
LEMMA InNoList ==
  ASSUME MsgInv, NEW p, pc[p] \in {"run", "send", "store", "spin"}, NEW jd \in InUse
  PROVE  p \notin Range(entries[jd].q_receiver) /\ p \notin Range(entries[jd].q_sender)
BY DEF MsgInv, Lists

LEMMA SendSleepsInv ==
  ASSUME MsgInv, NEW p \in Proc, send_sleeps(p)
  PROVE  MsgInv'
<1> USE DEF MsgInv
<1>1. PICK id \in InUse :
        /\ entries[id].sum_msg + 1 > MAX_MSGNUM
        /\ entries' = [entries EXCEPT ![id].q_sender = Append(@, p)]
  BY DEF send_sleeps, get_msgq
<1>2. /\ pc[p] = "send" /\ pc' = [pc EXCEPT ![p] = "send_sleep"]
      /\ UNCHANGED <<seq, in_use, pages, msgid, msg, request, r_msg, wild>>
  BY DEF send_sleeps, At, Goto
<1>3. TypeOK
  BY DEF CountsExact
<1>4. pc'[p] = "send_sleep" /\ \A q \in Proc \ {p} : pc'[q] = pc[q]
  BY <1>2, <1>3 DEF TypeOK
<1>5. /\ entries[id] \in Queue /\ entries[id].q_sender \in Seq(Proc)
      /\ entries[id].sum_msg \in 0..MAX_MSGNUM
      /\ Range(entries[id].q_sender) \subseteq Proc
      /\ Range(entries[id].q_receiver) \subseteq Proc
  BY <1>3, QueueInUse
<1>6. PICK e : e = [entries[id] EXCEPT !.q_sender = Append(entries[id].q_sender, p)]
  OBVIOUS
<1>7. /\ e \in Queue /\ e.q_sender = Append(entries[id].q_sender, p)
      /\ e.q_receiver = entries[id].q_receiver /\ e.q_message = entries[id].q_message
      /\ e.sum_msg = entries[id].sum_msg
  <2>1. Append(entries[id].q_sender, p) \in Seq(Proc)
    BY <1>5
  <2> QED  BY <1>5, <1>6, <2>1 DEF Queue
<1>8. Range(e.q_sender) = Range(entries[id].q_sender) \cup {p}
  BY <1>5, <1>7, AppendRange
<1>9. entries' = [entries EXCEPT ![id] = e]
  BY <1>1, <1>6
<1>10. \A jd \in InUse : p \notin Range(entries[jd].q_receiver) /\ p \notin Range(entries[jd].q_sender)
  BY <1>2, InNoList
<1>11. \A jd \in InUse \ {id} :
           /\ Range(entries[jd].q_receiver) \cap {p} = {}
           /\ Range(entries[jd].q_sender) \cap {p} = {}
           /\ Range(entries[jd].q_receiver) \cap Range(e.q_receiver) = {}
           /\ Range(entries[jd].q_sender) \cap Range(e.q_sender) = {}
  BY <1>7, <1>8, <1>10 DEF Lists
<1>12. /\ IsInjective(e.q_receiver) /\ IsInjective(e.q_message)
       /\ e.sum_msg = Len(e.q_message)
  BY <1>7 DEF Lists, MessagesOwned, CountsExact
<1>13. \A q \in Range(e.q_receiver) :
           /\ pc'[q] = "recv_sleep"
           /\ \A m \in Range(e.q_message) : ~testmsg(request'[q].mtype, m.mtype)
  BY <1>2, <1>4, <1>5, <1>7, <1>10 DEF Lists, NoMissedMessage
<1>14. \A q \in Range(e.q_sender) : pc'[q] = "send_sleep" /\ e.sum_msg = MAX_MSGNUM
  BY <1>1, <1>4, <1>5, <1>7, <1>8, SizesAssumption DEF Lists
<1>15. \A q \in Proc \ {p} : pc'[q] = pc[q] /\ request'[q] = request[q]
  BY <1>2, <1>4
<1>16. /\ InUse' = InUse
       /\ entries' \in [0..Size - 1 -> Queue \cup {NULL}]
       /\ Lists' /\ NoMissedMessage' /\ SendersWaitForRoom'
       /\ \A jd \in InUse' : IsInjective(entries'[jd].q_message)
       /\ \A jd \in InUse' : entries'[jd].sum_msg = Len(entries'[jd].q_message)
  BY <1>7, <1>9, <1>11, <1>12, <1>13, <1>14, <1>15, QueueStep
<1>17. CountsExact'
  <2>1. TypeOK'
    BY <1>2, <1>3, <1>16 DEF TypeOK, PC
  <2> QED  BY <1>2, <1>16, <2>1 DEF CountsExact
<1>18. Locals'
  BY <1>2, <1>4 DEF Locals
<1>19. MessagesOwned'
  <2>1. Held' = Held
    <3>1. /\ entries'[id] = e
          /\ \A jd \in InUse \ {id} : entries'[jd] = entries[jd]
      BY <1>3, <1>7, <1>9, OneQueue
    <3>2. HeldByQueues' = HeldByQueues
      BY <1>7, <1>16, <3>1 DEF HeldByQueues
    <3>3. HeldBySenders' = HeldBySenders /\ HeldByReceivers' = HeldByReceivers
      BY <1>2 DEF HeldBySenders, HeldByReceivers
    <3> QED  BY <3>2, <3>3 DEF Held
  <2> QED  BY <1>2, <1>16, <2>1 DEF MessagesOwned
<1>20. DeliveryFits'
  BY <1>2, <1>4 DEF DeliveryFits
<1> QED  BY <1>16, <1>17, <1>18, <1>19, <1>20


LEMMA SendEnqueuesInv ==
  ASSUME MsgInv, NEW p \in Proc, send_enqueues(p)
  PROVE  MsgInv'
<1> USE DEF MsgInv
<1>1. PICK id \in InUse :
        /\ entries[id].sum_msg + 1 <= MAX_MSGNUM
        /\ Matching(entries[id], msg[p]) = 0
        /\ entries' = [entries EXCEPT ![id].q_message = Append(@, msg[p]),
                                      ![id].sum_msg = @ + 1]
  BY DEF send_enqueues, get_msgq
<1>2. /\ pc[p] = "send" /\ pc' = [pc EXCEPT ![p] = "run"]
      /\ msg' = [msg EXCEPT ![p] = NULL] /\ msgid' = [msgid EXCEPT ![p] = 0]
      /\ UNCHANGED <<seq, in_use, pages, request, r_msg, wild>>
  BY DEF send_enqueues, At, Goto, SendReturns
<1>3. TypeOK /\ msg[p] \in Message /\ msg[p] # NULL
  BY <1>2 DEF CountsExact, Locals, TypeOK
<1>4. /\ pc'[p] = "run" /\ \A q \in Proc \ {p} : pc'[q] = pc[q]
      /\ msg'[p] = NULL /\ \A q \in Proc \ {p} : msg'[q] = msg[q]
  BY <1>2, <1>3 DEF TypeOK
<1>5. /\ entries[id] \in Queue /\ entries[id].q_message \in Seq(Message)
      /\ entries[id].q_receiver \in Seq(Proc)
      /\ entries[id].sum_msg \in 0..MAX_MSGNUM
      /\ Range(entries[id].q_receiver) \subseteq Proc
      /\ entries[id].sum_msg = Len(entries[id].q_message)
      /\ IsInjective(entries[id].q_message)
  BY <1>3, QueueInUse DEF CountsExact, MessagesOwned
<1>6. PICK e : e = [entries[id] EXCEPT !.q_message = Append(entries[id].q_message, msg[p]),
                                       !.sum_msg = entries[id].sum_msg + 1]
  OBVIOUS
<1>7. /\ e \in Queue /\ e.q_message = Append(entries[id].q_message, msg[p])
      /\ e.q_receiver = entries[id].q_receiver /\ e.q_sender = entries[id].q_sender
      /\ e.sum_msg = entries[id].sum_msg + 1
  <2>1. Append(entries[id].q_message, msg[p]) \in Seq(Message)
    BY <1>3, <1>5
  <2>2. entries[id].sum_msg + 1 \in 0..MAX_MSGNUM
    BY <1>1, <1>5, SizesAssumption
  <2> QED  BY <1>5, <1>6, <2>1, <2>2 DEF Queue
<1>8. entries' = [entries EXCEPT ![id] = e]
  BY <1>1, <1>6
<1> DEFINE x == <<"sender", p, msg[p]>>
           y == <<"queue", id, msg[p]>>
<1>9. Owned(Held, pages) /\ x \in HeldBySenders /\ x \in Held /\ PageOf(y) = PageOf(x)
  BY <1>3, OwnedIs DEF Held, HeldBySenders, PageOf
<1>10. msg[p] \notin Range(entries[id].q_message)
  <2> SUFFICES ASSUME msg[p] \in Range(entries[id].q_message) PROVE FALSE
    OBVIOUS
  <2>1. y \in HeldByQueues
    BY DEF HeldByQueues
  <2>2. x # y
    OBVIOUS
  <2>3. y \in Held
    BY <2>1 DEF Held
  <2> HIDE DEF x, y
  <2> QED  BY <1>9, <2>2, <2>3 DEF Owned
<1>11. /\ Len(e.q_message) = Len(entries[id].q_message) + 1
       /\ IsInjective(e.q_message)
       /\ Range(e.q_message) = Range(entries[id].q_message) \cup {msg[p]}
  BY <1>3, <1>5, <1>7, <1>10, AppendMembers
<1>12. \A jd \in InUse : p \notin Range(entries[jd].q_receiver) /\ p \notin Range(entries[jd].q_sender)
  BY <1>2, InNoList
<1>13. \A jd \in InUse \ {id} :
           /\ Range(entries[jd].q_receiver) \cap {p} = {}
           /\ Range(entries[jd].q_sender) \cap {p} = {}
           /\ Range(entries[jd].q_receiver) \cap Range(e.q_receiver) = {}
           /\ Range(entries[jd].q_sender) \cap Range(e.q_sender) = {}
  BY <1>7, <1>12 DEF Lists
<1>14. /\ IsInjective(e.q_receiver) /\ e.sum_msg = Len(e.q_message)
  BY <1>5, <1>7, <1>11 DEF Lists
<1>15. \A q \in Range(e.q_receiver) :
           /\ pc'[q] = "recv_sleep"
           /\ \A m \in Range(e.q_message) : ~testmsg(request'[q].mtype, m.mtype)
  <2> SUFFICES ASSUME NEW q \in Range(entries[id].q_receiver)
               PROVE  /\ pc'[q] = "recv_sleep"
                      /\ \A m \in Range(e.q_message) : ~testmsg(request'[q].mtype, m.mtype)
    BY <1>7
  <2>1. pc'[q] = "recv_sleep"
    BY <1>4, <1>5, <1>12 DEF Lists
  <2>2. ~testmsg(request[q].mtype, msg[p].mtype)
    BY <1>1, <1>5, Matches
  <2>3. \A m \in Range(entries[id].q_message) : ~testmsg(request[q].mtype, m.mtype)
    BY DEF NoMissedMessage
  <2> QED  BY <1>2, <1>11, <2>1, <2>2, <2>3
<1>16. Range(e.q_sender) = {}
  <2>1. entries[id].sum_msg # MAX_MSGNUM
    BY <1>1, <1>5, SizesAssumption
  <2> QED  BY <1>7, <2>1 DEF SendersWaitForRoom
<1>17. \A q \in Proc \ {p} : pc'[q] = pc[q] /\ request'[q] = request[q]
  BY <1>2, <1>4
<1>18. /\ InUse' = InUse
       /\ entries' \in [0..Size - 1 -> Queue \cup {NULL}]
       /\ Lists' /\ NoMissedMessage' /\ SendersWaitForRoom'
       /\ \A jd \in InUse' : IsInjective(entries'[jd].q_message)
       /\ \A jd \in InUse' : entries'[jd].sum_msg = Len(entries'[jd].q_message)
  BY <1>7, <1>8, <1>11, <1>13, <1>14, <1>15, <1>16, <1>17, QueueStep
<1>19. CountsExact'
  <2>1. 0 \in MsgId
    BY SizesAssumption DEF MsgId
  <2>2. TypeOK'
    BY <1>2, <1>3, <1>18, <2>1 DEF TypeOK, PC
  <2> QED  BY <1>2, <1>18, <2>2 DEF CountsExact
<1>20. Locals'
  <2>1. r_msg[p] \notin Message
    BY <1>2 DEF Locals
  <2> QED  BY <1>2, <1>4, <2>1 DEF Locals
<1>21. MessagesOwned'
  <2>1. HeldByQueues' = HeldByQueues \cup {y}
    <3>1. /\ entries'[id] = e
          /\ \A jd \in InUse \ {id} : entries'[jd] = entries[jd]
      BY <1>3, <1>7, <1>8, OneQueue
    <3>2. HeldByQueues' = (HeldByQueues \ {<<"queue", id, m>> : m \in Range(entries[id].q_message)})
                          \cup {<<"queue", id, m>> : m \in Range(e.q_message)}
      BY <1>18, <3>1, QueueHolds
    <3>3. {<<"queue", id, m>> : m \in Range(entries[id].q_message)} \subseteq HeldByQueues
      BY DEF HeldByQueues
    <3> QED  BY <1>11, <3>2, <3>3
  <2>2. HeldBySenders' = HeldBySenders \ {x}
    <3>1. HeldBySenders' = (HeldBySenders \ {<<"sender", p, msg[p]>>})
                           \cup {<<"sender", q, NULL>> : q \in {r \in {p} : NULL # NULL}}
      BY <1>2, <1>3, SendersHold
    <3> QED  BY <3>1
  <2>3. HeldByReceivers' = HeldByReceivers
    BY <1>2 DEF HeldByReceivers
  <2>4. x[1] = "sender" /\ y[1] = "queue"
    OBVIOUS
  <2> HIDE DEF x, y
  <2>5. Held' = (Held \ {x}) \cup {y}
    BY <1>9, <2>1, <2>2, <2>3, <2>4, KindsDiffer DEF Held
  <2>6. Owned(Held', pages')
    BY <1>2, <1>9, <2>5, OwnedMove
  <2> QED  BY <1>18, <2>6 DEF Owned, MessagesOwned
<1>22. DeliveryFits'
  BY <1>2, <1>4 DEF DeliveryFits
<1> QED  BY <1>18, <1>19, <1>20, <1>21, <1>22

LEMMA RecvSleepsInv ==
  ASSUME MsgInv, NEW p \in Proc, NEW i \in MsgId, NEW rq \in Request, recv_sleeps(p, i, rq)
  PROVE  MsgInv'
<1> USE DEF MsgInv
<1>1. PICK id \in InUse :
        /\ FindMsg(entries[id].q_message, rq.mtype) = NULL
        /\ entries' = [entries EXCEPT ![id].q_receiver = Append(@, p)]
  BY DEF recv_sleeps, get_msgq
<1>2. /\ pc[p] = "run" /\ pc' = [pc EXCEPT ![p] = "recv_sleep"]
      /\ request' = [request EXCEPT ![p] = rq]
      /\ r_msg' = [r_msg EXCEPT ![p] = Garbage]
      /\ UNCHANGED <<seq, in_use, pages, msgid, msg, wild>>
  BY DEF recv_sleeps, At, Goto
<1>3. TypeOK /\ rq.mtype \in Int /\ Garbage \notin Message
  BY NullAssumption, SizesAssumption DEF CountsExact, Request
<1>4. /\ pc'[p] = "recv_sleep" /\ \A q \in Proc \ {p} : pc'[q] = pc[q]
      /\ request'[p] = rq /\ \A q \in Proc \ {p} : request'[q] = request[q]
      /\ r_msg'[p] = Garbage /\ \A q \in Proc \ {p} : r_msg'[q] = r_msg[q]
  BY <1>2, <1>3 DEF TypeOK
<1>5. /\ entries[id] \in Queue /\ entries[id].q_message \in Seq(Message)
      /\ entries[id].q_receiver \in Seq(Proc)
      /\ Range(entries[id].q_receiver) \subseteq Proc
      /\ Range(entries[id].q_sender) \subseteq Proc
      /\ IsInjective(entries[id].q_receiver)
  BY <1>3, QueueInUse DEF Lists
<1>6. PICK e : e = [entries[id] EXCEPT !.q_receiver = Append(entries[id].q_receiver, p)]
  OBVIOUS
<1>7. /\ e \in Queue /\ e.q_receiver = Append(entries[id].q_receiver, p)
      /\ e.q_sender = entries[id].q_sender /\ e.q_message = entries[id].q_message
      /\ e.sum_msg = entries[id].sum_msg
  <2>1. Append(entries[id].q_receiver, p) \in Seq(Proc)
    BY <1>5
  <2> QED  BY <1>5, <1>6, <2>1 DEF Queue
<1>8. entries' = [entries EXCEPT ![id] = e]
  BY <1>1, <1>6
<1>9. \A jd \in InUse : p \notin Range(entries[jd].q_receiver) /\ p \notin Range(entries[jd].q_sender)
  BY <1>2, InNoList
<1>10. /\ IsInjective(e.q_receiver)
       /\ Range(e.q_receiver) = Range(entries[id].q_receiver) \cup {p}
  BY <1>5, <1>7, <1>9, AppendMembers
<1>11. \A jd \in InUse \ {id} :
           /\ Range(entries[jd].q_receiver) \cap {p} = {}
           /\ Range(entries[jd].q_sender) \cap {p} = {}
           /\ Range(entries[jd].q_receiver) \cap Range(e.q_receiver) = {}
           /\ Range(entries[jd].q_sender) \cap Range(e.q_sender) = {}
  BY <1>7, <1>9, <1>10 DEF Lists
<1>12. /\ IsInjective(e.q_message) /\ e.sum_msg = Len(e.q_message)
  BY <1>7 DEF MessagesOwned, CountsExact
<1>13. \A q \in Range(e.q_receiver) :
           /\ pc'[q] = "recv_sleep"
           /\ \A m \in Range(e.q_message) : ~testmsg(request'[q].mtype, m.mtype)
  <2>1. \A m \in Range(e.q_message) : ~testmsg(request'[p].mtype, m.mtype)
    BY <1>1, <1>3, <1>4, <1>5, <1>7, Found
  <2>2. ASSUME NEW q \in Range(entries[id].q_receiver)
        PROVE  /\ pc'[q] = "recv_sleep"
               /\ \A m \in Range(e.q_message) : ~testmsg(request'[q].mtype, m.mtype)
    <3>1. q # p /\ pc'[q] = pc[q] /\ request'[q] = request[q]
      BY <1>4, <1>5, <1>9
    <3> QED  BY <1>7, <3>1 DEF Lists, NoMissedMessage
  <2> QED  BY <1>4, <1>10, <2>1, <2>2
<1>14. \A q \in Range(e.q_sender) : pc'[q] = "send_sleep" /\ e.sum_msg = MAX_MSGNUM
  BY <1>4, <1>5, <1>7, <1>9 DEF SendersWaitForRoom
<1>15. \A q \in Proc \ {p} : pc'[q] = pc[q] /\ request'[q] = request[q]
  BY <1>4
<1>16. /\ InUse' = InUse
       /\ entries' \in [0..Size - 1 -> Queue \cup {NULL}]
       /\ Lists' /\ NoMissedMessage' /\ SendersWaitForRoom'
       /\ \A jd \in InUse' : IsInjective(entries'[jd].q_message)
       /\ \A jd \in InUse' : entries'[jd].sum_msg = Len(entries'[jd].q_message)
  BY <1>7, <1>8, <1>10, <1>11, <1>12, <1>13, <1>14, <1>15, QueueStep
<1>17. CountsExact'
  <2>1. TypeOK'
    BY <1>2, <1>3, <1>16 DEF TypeOK, PC
  <2> QED  BY <1>2, <1>16, <2>1 DEF CountsExact
<1>18. Locals'
  BY <1>2, <1>3, <1>4 DEF Locals
<1>19. MessagesOwned'
  <2>1. Held' = Held
    <3>1. /\ entries'[id] = e
          /\ \A jd \in InUse \ {id} : entries'[jd] = entries[jd]
      BY <1>3, <1>7, <1>8, OneQueue
    <3>2. HeldByQueues' = HeldByQueues
      BY <1>7, <1>16, <3>1 DEF HeldByQueues
    <3>3. HeldBySenders' = HeldBySenders
      BY <1>2 DEF HeldBySenders
    <3>4. r_msg[p] \notin Message
      BY <1>2 DEF Locals
    <3>5. HeldByReceivers' = HeldByReceivers
      BY <1>3, <1>4, <3>4 DEF HeldByReceivers
    <3> QED  BY <3>2, <3>3, <3>5 DEF Held
  <2> QED  BY <1>2, <1>16, <2>1 DEF MessagesOwned
<1>20. DeliveryFits'
  BY <1>3, <1>4 DEF DeliveryFits
<1> QED  BY <1>16, <1>17, <1>18, <1>19, <1>20


LEMMA PipelineSendInv ==
  ASSUME MsgInv, NEW p \in Proc, pipeline_send(p)
  PROVE  MsgInv'
<1> USE DEF MsgInv
<1>1. PICK id \in InUse :
        LET que == entries[id]
            i == Matching(que, msg[p])
            r == que.q_receiver[i]
            fits == Fits(msg[p], request[r])
        IN  /\ que.sum_msg + 1 <= MAX_MSGNUM
            /\ i # 0
            /\ entries' = [entries EXCEPT ![id].q_receiver = RemoveFirst(@, r)]
            /\ r_msg' = [r_msg EXCEPT ![r] = IF fits THEN msg[p] ELSE NULL]
            /\ pc' = [pc EXCEPT ![r] = "store", ![p] = IF fits THEN "run" ELSE "spin"]
            /\ IF fits THEN SendReturns(p) ELSE UNCHANGED <<msg, msgid>>
  BY DEF pipeline_send, get_msgq
<1>2. /\ pc[p] = "send"
      /\ UNCHANGED <<seq, in_use, pages, request, wild>>
  BY DEF pipeline_send, At
<1>3. TypeOK /\ msg[p] \in Message /\ msg[p] # NULL /\ NULL \notin Message
  BY <1>2, NullAssumption DEF CountsExact, Locals, TypeOK
<1>4. /\ entries[id] \in Queue /\ entries[id].q_message \in Seq(Message)
      /\ entries[id].q_receiver \in Seq(Proc)
      /\ Range(entries[id].q_receiver) \subseteq Proc
      /\ Range(entries[id].q_sender) \subseteq Proc
      /\ IsInjective(entries[id].q_receiver)
  BY <1>3, QueueInUse DEF Lists
<1>5. PICK r \in Range(entries[id].q_receiver) :
        /\ testmsg(request[r].mtype, msg[p].mtype)
        /\ entries' = [entries EXCEPT ![id].q_receiver = RemoveFirst(@, r)]
        /\ r_msg' = [r_msg EXCEPT ![r] = IF Fits(msg[p], request[r]) THEN msg[p] ELSE NULL]
        /\ pc' = [pc EXCEPT ![r] = "store",
                            ![p] = IF Fits(msg[p], request[r]) THEN "run" ELSE "spin"]
        /\ IF Fits(msg[p], request[r]) THEN SendReturns(p) ELSE UNCHANGED <<msg, msgid>>
  <2> DEFINE j == Matching(entries[id], msg[p])
  <2>1. j \in 1..Len(entries[id].q_receiver)
        /\ testmsg(request[entries[id].q_receiver[j]].mtype, msg[p].mtype)
    BY <1>1, <1>4, Matches
  <2>2. entries[id].q_receiver[j] \in Range(entries[id].q_receiver)
    BY <1>4, <2>1 DEF Range
  <2> HIDE DEF j
  <2> QED  BY <1>1, <2>1, <2>2 DEF j
<1> DEFINE fits == Fits(msg[p], request[r])
<1>6. /\ r \in Proc /\ pc[r] = "recv_sleep" /\ r # p
      /\ r_msg[r] \notin Message /\ r_msg[p] \notin Message /\ msg[r] = NULL
  BY <1>2, <1>4, <1>5 DEF Lists, Locals
<1>7. /\ pc'[r] = "store" /\ pc'[p] = (IF fits THEN "run" ELSE "spin")
      /\ \A q \in Proc \ {p, r} : pc'[q] = pc[q]
      /\ r_msg'[r] = (IF fits THEN msg[p] ELSE NULL)
      /\ \A q \in Proc \ {r} : r_msg'[q] = r_msg[q]
      /\ msg'[p] = (IF fits THEN NULL ELSE msg[p])
      /\ \A q \in Proc \ {p} : msg'[q] = msg[q]
  <2>1. /\ pc'[r] = "store" /\ pc'[p] = (IF fits THEN "run" ELSE "spin")
        /\ \A q \in Proc \ {p, r} : pc'[q] = pc[q]
    BY <1>3, <1>5, <1>6 DEF TypeOK
  <2>2. /\ r_msg'[r] = (IF fits THEN msg[p] ELSE NULL)
        /\ \A q \in Proc \ {r} : r_msg'[q] = r_msg[q]
    BY <1>3, <1>5, <1>6 DEF TypeOK
  <2>3. /\ msg'[p] = (IF fits THEN NULL ELSE msg[p])
        /\ \A q \in Proc \ {p} : msg'[q] = msg[q]
    BY <1>3, <1>5, <1>6 DEF TypeOK, SendReturns
  <2> QED  BY <2>1, <2>2, <2>3
<1>8. PICK e : e = [entries[id] EXCEPT !.q_receiver = RemoveFirst(entries[id].q_receiver, r)]
  OBVIOUS
<1>9. /\ RemoveFirst(entries[id].q_receiver, r) \in Seq(Proc)
      /\ IsInjective(RemoveFirst(entries[id].q_receiver, r))
      /\ Range(RemoveFirst(entries[id].q_receiver, r)) = Range(entries[id].q_receiver) \ {r}
  BY <1>4, <1>5, RemoveMembers
<1>10. /\ e \in Queue /\ e.q_receiver = RemoveFirst(entries[id].q_receiver, r)
       /\ e.q_sender = entries[id].q_sender /\ e.q_message = entries[id].q_message
       /\ e.sum_msg = entries[id].sum_msg
  BY <1>4, <1>8, <1>9 DEF Queue
<1>11. entries' = [entries EXCEPT ![id] = e]
  BY <1>5, <1>8
<1>12. \A jd \in InUse :
          /\ p \notin Range(entries[jd].q_receiver) /\ p \notin Range(entries[jd].q_sender)
          /\ r \notin Range(entries[jd].q_sender)
          /\ jd # id => r \notin Range(entries[jd].q_receiver)
  BY <1>2, <1>5, <1>6, InNoList DEF Lists
<1>13. \A jd \in InUse \ {id} :
           /\ Range(entries[jd].q_receiver) \cap {p, r} = {}
           /\ Range(entries[jd].q_sender) \cap {p, r} = {}
           /\ Range(entries[jd].q_receiver) \cap Range(e.q_receiver) = {}
           /\ Range(entries[jd].q_sender) \cap Range(e.q_sender) = {}
  BY <1>9, <1>10, <1>12 DEF Lists
<1>14. /\ IsInjective(e.q_receiver) /\ IsInjective(e.q_message)
       /\ e.sum_msg = Len(e.q_message)
  BY <1>9, <1>10 DEF MessagesOwned, CountsExact
<1>15. \A q \in Range(e.q_receiver) :
           /\ pc'[q] = "recv_sleep"
           /\ \A m \in Range(e.q_message) : ~testmsg(request'[q].mtype, m.mtype)
  <2> SUFFICES ASSUME NEW q \in Range(e.q_receiver)
               PROVE  /\ pc'[q] = "recv_sleep"
                      /\ \A m \in Range(e.q_message) : ~testmsg(request'[q].mtype, m.mtype)
    OBVIOUS
  <2>1. q \in Range(entries[id].q_receiver) /\ q # r /\ q # p
    BY <1>9, <1>10, <1>12
  <2>2. pc'[q] = pc[q]
    BY <1>4, <1>7, <2>1
  <2> QED  BY <1>2, <1>10, <2>1, <2>2 DEF Lists, NoMissedMessage
<1>16. \A q \in Range(e.q_sender) : pc'[q] = "send_sleep" /\ e.sum_msg = MAX_MSGNUM
  BY <1>4, <1>7, <1>10, <1>12 DEF SendersWaitForRoom
<1>17. \A q \in Proc \ {p, r} : pc'[q] = pc[q] /\ request'[q] = request[q]
  BY <1>2, <1>7
<1>18. /\ InUse' = InUse
       /\ entries' \in [0..Size - 1 -> Queue \cup {NULL}]
       /\ Lists' /\ NoMissedMessage' /\ SendersWaitForRoom'
       /\ \A jd \in InUse' : IsInjective(entries'[jd].q_message)
       /\ \A jd \in InUse' : entries'[jd].sum_msg = Len(entries'[jd].q_message)
  BY <1>10, <1>11, <1>13, <1>14, <1>15, <1>16, <1>17, QueueStep
<1>19. CountsExact'
  <2>1. 0 \in MsgId
    BY SizesAssumption DEF MsgId
  <2>2. pc' \in [Proc -> PC] /\ r_msg' \in [Proc -> Message \cup {NULL, Garbage}]
    BY <1>3, <1>5, <1>6 DEF TypeOK, PC
  <2>3. msg' \in [Proc -> Message \cup {NULL}] /\ msgid' \in [Proc -> MsgId]
    BY <1>3, <1>5, <2>1 DEF TypeOK, SendReturns
  <2>4. TypeOK'
    BY <1>2, <1>3, <1>18, <2>2, <2>3 DEF TypeOK
  <2> QED  BY <1>2, <1>18, <2>4 DEF CountsExact
<1>20. Locals'
  <2> SUFFICES ASSUME NEW q \in Proc
               PROVE  /\ msg'[q] # NULL <=> pc'[q] \in {"send", "send_sleep", "spin"}
                      /\ r_msg'[q] \in Message => pc'[q] = "store"
    BY DEF Locals
  <2>1. CASE q = p
    BY <1>3, <1>6, <1>7, <2>1
  <2>2. CASE q = r
    BY <1>6, <1>7, <2>2
  <2>3. CASE q # p /\ q # r
    BY <1>7, <2>3 DEF Locals
  <2> QED  BY <2>1, <2>2, <2>3
<1>21. HeldByQueues' = HeldByQueues
  <2>1. /\ entries'[id] = e
        /\ \A jd \in InUse \ {id} : entries'[jd] = entries[jd]
    BY <1>3, <1>10, <1>11, OneQueue
  <2> QED  BY <1>10, <1>18, <2>1 DEF HeldByQueues
<1>22. Owned(Held', pages')
  <2>1. Owned(Held, pages)
    BY OwnedIs
  <2>2. CASE fits
    <3> DEFINE x == <<"sender", p, msg[p]>>
               y == <<"receiver", r, msg[p]>>
    <3>1. x \in HeldBySenders /\ PageOf(x) = PageOf(y) /\ x[1] = "sender" /\ y[1] = "receiver"
      BY <1>3 DEF HeldBySenders, PageOf
    <3>2. HeldBySenders' = HeldBySenders \ {x}
      <4>1. HeldBySenders' = (HeldBySenders \ {<<"sender", p, msg[p]>>})
                             \cup {<<"sender", q, NULL>> : q \in {s \in {p} : NULL # NULL}}
        BY <1>3, <1>5, <2>2, SendersHold DEF SendReturns
      <4> QED  BY <4>1
    <3>3. HeldByReceivers' = HeldByReceivers \cup {y}
      <4>1. r_msg' = [r_msg EXCEPT ![r] = msg[p]]
        BY <1>5, <2>2
      <4>2. HeldByReceivers' = (HeldByReceivers \ {<<"receiver", r, r_msg[r]>>})
              \cup {<<"receiver", q, msg[p]>> : q \in {s \in {r} : msg[p] \in Message}}
        BY <1>3, <1>6, <4>1, ReceiversHold
      <4>3. <<"receiver", r, r_msg[r]>> \notin HeldByReceivers
        BY <1>6 DEF HeldByReceivers
      <4> QED  BY <1>3, <4>2, <4>3
    <3> HIDE DEF x, y
    <3>4. x \in Held /\ Held' = (Held \ {x}) \cup {y}
      BY <1>21, <3>1, <3>2, <3>3, KindsDiffer DEF Held
    <3> QED  BY <1>2, <2>1, <3>1, <3>4, OwnedMove
  <2>3. CASE ~fits
    <3>1. msg' = msg
      BY <1>5, <2>3
    <3>2. HeldBySenders' = HeldBySenders
      BY <3>1 DEF HeldBySenders
    <3>3. HeldByReceivers' = HeldByReceivers
      BY <1>3, <1>6, <1>7, <2>3 DEF HeldByReceivers
    <3> QED  BY <1>2, <1>21, <2>1, <3>2, <3>3 DEF Held
  <2> QED  BY <2>2, <2>3
<1>23. MessagesOwned'
  BY <1>18, <1>22 DEF Owned, MessagesOwned
<1>24. DeliveryFits'
  <2> SUFFICES ASSUME NEW q \in Proc, pc'[q] = "store", r_msg'[q] \in Message
               PROVE  /\ testmsg(request'[q].mtype, r_msg'[q].mtype)
                      /\ r_msg'[q].size <= request'[q].size
    BY DEF DeliveryFits, testmsg
  <2>1. CASE q = p
    BY <1>7, <2>1
  <2>2. CASE q = r
    BY <1>2, <1>3, <1>5, <1>7, <2>2 DEF Fits
  <2>3. CASE q # p /\ q # r
    BY <1>2, <1>7, <2>3 DEF DeliveryFits
  <2> QED  BY <2>1, <2>2, <2>3
<1> QED  BY <1>18, <1>19, <1>20, <1>23, <1>24


LEMMA RecvFindsInv ==
  ASSUME MsgInv, NEW p \in Proc, NEW i \in MsgId, NEW rq \in Request, recv_finds(p, i, rq)
  PROVE  MsgInv'
<1> USE DEF MsgInv
<1>1. PICK id \in InUse :
        LET que == entries[id]
            m == FindMsg(que.q_message, rq.mtype)
        IN  /\ m # NULL
            /\ Fits(m, rq)
            /\ entries' = [entries EXCEPT ![id] = Taken(que, m)]
            /\ pc' = [q \in Proc |-> IF q = p THEN "store"
                                     ELSE IF q \in Woken(que.q_sender) THEN "send"
                                     ELSE pc[q]]
            /\ r_msg' = [r_msg EXCEPT ![p] = m]
  BY DEF recv_finds, get_msgq
<1>2. /\ pc[p] = "run" /\ request' = [request EXCEPT ![p] = rq]
      /\ UNCHANGED <<seq, in_use, pages, msgid, msg, wild>>
  BY DEF recv_finds, At
<1>3. TypeOK /\ rq.mtype \in Int /\ NULL \notin Message
  BY NullAssumption, SizesAssumption DEF CountsExact, Request
<1>4. /\ entries[id] \in Queue /\ entries[id].q_message \in Seq(Message)
      /\ entries[id].q_sender \in Seq(Proc)
      /\ entries[id].sum_msg \in 0..MAX_MSGNUM
      /\ entries[id].sum_msg = Len(entries[id].q_message)
      /\ Range(entries[id].q_message) \subseteq Message
      /\ Range(entries[id].q_receiver) \subseteq Proc
      /\ Range(entries[id].q_sender) \subseteq Proc
      /\ IsInjective(entries[id].q_message)
  BY <1>3, QueueInUse DEF MessagesOwned, CountsExact
<1> DEFINE S == Range(entries[id].q_sender)
<1>5. Woken(entries[id].q_sender) = S /\ NotWoken(entries[id].q_sender) = <<>>
  BY <1>4, AllWoken
<1>6. PICK m \in Range(entries[id].q_message) :
        /\ testmsg(rq.mtype, m.mtype) /\ Fits(m, rq)
        /\ entries' = [entries EXCEPT ![id] = Taken(entries[id], m)]
        /\ pc' = [q \in Proc |-> IF q = p THEN "store"
                                 ELSE IF q \in S THEN "send" ELSE pc[q]]
        /\ r_msg' = [r_msg EXCEPT ![p] = m]
  <2> DEFINE n == FindMsg(entries[id].q_message, rq.mtype)
  <2>1. n \in Range(entries[id].q_message) /\ testmsg(rq.mtype, n.mtype)
    BY <1>1, <1>3, <1>4, Found
  <2> HIDE DEF n, S
  <2> QED  BY <1>1, <1>5, <2>1 DEF n
<1>7. m \in Message
  BY <1>4, <1>6
<1>8. /\ RemoveFirst(entries[id].q_message, m) \in Seq(Message)
      /\ Len(RemoveFirst(entries[id].q_message, m)) = Len(entries[id].q_message) - 1
      /\ IsInjective(RemoveFirst(entries[id].q_message, m))
      /\ Range(RemoveFirst(entries[id].q_message, m)) = Range(entries[id].q_message) \ {m}
  BY <1>4, <1>6, RemoveMembers
<1>9. PICK e : e = Taken(entries[id], m)
  OBVIOUS
<1>10. /\ e \in Queue /\ e.q_message = RemoveFirst(entries[id].q_message, m)
       /\ e.q_sender = <<>> /\ e.q_receiver = entries[id].q_receiver
       /\ e.sum_msg = entries[id].sum_msg - 1
  <2>1. entries[id].sum_msg - 1 \in 0..MAX_MSGNUM
    <3>1. Len(RemoveFirst(entries[id].q_message, m)) \in Nat
      BY <1>8
    <3> QED  BY <1>4, <1>8, <3>1, SizesAssumption
  <2>2. <<>> \in Seq(Proc)
    OBVIOUS
  <2>3. e = [entries[id] EXCEPT !.q_message = RemoveFirst(entries[id].q_message, m),
                                !.sum_msg = entries[id].sum_msg - 1,
                                !.q_sender = <<>>]
    BY <1>5, <1>9 DEF Taken
  <2> QED  BY <1>4, <1>8, <2>1, <2>2, <2>3 DEF Queue
<1>11. entries' = [entries EXCEPT ![id] = e]
  BY <1>6, <1>9
<1>12. /\ \A s \in S : pc[s] = "send_sleep"
       /\ S \subseteq Proc /\ p \notin S
  BY <1>2, <1>4 DEF Lists
<1> HIDE DEF S
<1>13. /\ pc'[p] = "store" /\ \A s \in S : pc'[s] = "send"
       /\ \A q \in Proc \ (S \cup {p}) : pc'[q] = pc[q]
       /\ r_msg'[p] = m /\ \A q \in Proc \ {p} : r_msg'[q] = r_msg[q]
       /\ request'[p] = rq /\ \A q \in Proc \ {p} : request'[q] = request[q]
  <2>1. /\ pc'[p] = "store" /\ \A s \in S : pc'[s] = "send"
        /\ \A q \in Proc \ (S \cup {p}) : pc'[q] = pc[q]
    BY <1>6, <1>12
  <2>2. /\ r_msg'[p] = m /\ \A q \in Proc \ {p} : r_msg'[q] = r_msg[q]
        /\ request'[p] = rq /\ \A q \in Proc \ {p} : request'[q] = request[q]
    BY <1>2, <1>3, <1>6 DEF TypeOK
  <2> QED  BY <2>1, <2>2
<1>14. \A jd \in InUse :
          /\ p \notin Range(entries[jd].q_receiver) /\ p \notin Range(entries[jd].q_sender)
          /\ Range(entries[jd].q_receiver) \cap S = {}
          /\ jd # id => Range(entries[jd].q_sender) \cap S = {}
  <2>1. \A jd \in InUse : p \notin Range(entries[jd].q_receiver) /\ p \notin Range(entries[jd].q_sender)
    BY <1>2, InNoList
  <2>2. \A jd \in InUse : Range(entries[jd].q_receiver) \cap S = {}
    BY <1>12 DEF Lists
  <2>3. \A jd \in InUse : jd # id => Range(entries[jd].q_sender) \cap S = {}
    BY DEF Lists, S
  <2> QED  BY <2>1, <2>2, <2>3
<1>15. Range(e.q_sender) = {}
  BY <1>10, EmptyList
<1>16. \A jd \in InUse \ {id} :
           /\ Range(entries[jd].q_receiver) \cap (S \cup {p}) = {}
           /\ Range(entries[jd].q_sender) \cap (S \cup {p}) = {}
           /\ Range(entries[jd].q_receiver) \cap Range(e.q_receiver) = {}
           /\ Range(entries[jd].q_sender) \cap Range(e.q_sender) = {}
  BY <1>10, <1>14, <1>15 DEF Lists
<1>17. /\ IsInjective(e.q_receiver) /\ IsInjective(e.q_message)
       /\ e.sum_msg = Len(e.q_message)
  BY <1>4, <1>8, <1>10 DEF Lists
<1>18. \A q \in Range(e.q_receiver) :
           /\ pc'[q] = "recv_sleep"
           /\ \A n \in Range(e.q_message) : ~testmsg(request'[q].mtype, n.mtype)
  <2> SUFFICES ASSUME NEW q \in Range(entries[id].q_receiver)
               PROVE  /\ pc'[q] = "recv_sleep"
                      /\ \A n \in Range(e.q_message) : ~testmsg(request'[q].mtype, n.mtype)
    BY <1>10
  <2>1. q \in Proc \ (S \cup {p})
    BY <1>4, <1>14
  <2>2. pc'[q] = pc[q] /\ request'[q] = request[q]
    BY <1>13, <2>1
  <2> QED  BY <1>8, <1>10, <2>2 DEF Lists, NoMissedMessage
<1>19. \A q \in Proc \ (S \cup {p}) : pc'[q] = pc[q] /\ request'[q] = request[q]
  BY <1>13
<1>20. /\ InUse' = InUse
       /\ entries' \in [0..Size - 1 -> Queue \cup {NULL}]
       /\ Lists' /\ NoMissedMessage' /\ SendersWaitForRoom'
       /\ \A jd \in InUse' : IsInjective(entries'[jd].q_message)
       /\ \A jd \in InUse' : entries'[jd].sum_msg = Len(entries'[jd].q_message)
  BY <1>10, <1>11, <1>15, <1>16, <1>17, <1>18, <1>19, QueueStep
<1>21. CountsExact'
  <2>1. pc' \in [Proc -> PC]
    BY <1>3, <1>6 DEF TypeOK, PC
  <2>2. r_msg' \in [Proc -> Message \cup {NULL, Garbage}] /\ request' \in [Proc -> Request]
    BY <1>2, <1>3, <1>6, <1>7 DEF TypeOK
  <2>3. TypeOK'
    BY <1>2, <1>3, <1>20, <2>1, <2>2 DEF TypeOK
  <2> QED  BY <1>2, <1>20, <2>3 DEF CountsExact
<1>22. Locals'
  <2> SUFFICES ASSUME NEW q \in Proc
               PROVE  /\ msg'[q] # NULL <=> pc'[q] \in {"send", "send_sleep", "spin"}
                      /\ r_msg'[q] \in Message => pc'[q] = "store"
    BY DEF Locals
  <2>1. CASE q = p
    BY <1>2, <1>13, <2>1 DEF Locals
  <2>2. CASE q \in S
    BY <1>2, <1>12, <1>13, <2>2 DEF Locals
  <2>3. CASE q \notin S \cup {p}
    BY <1>2, <1>13, <2>3 DEF Locals
  <2> QED  BY <2>1, <2>2, <2>3
<1>23. Owned(Held', pages')
  <2>1. Owned(Held, pages)
    BY OwnedIs
  <2> DEFINE x == <<"queue", id, m>>
             y == <<"receiver", p, m>>
  <2>2. x \in HeldByQueues /\ PageOf(x) = PageOf(y) /\ x[1] = "queue" /\ y[1] = "receiver"
    BY <1>6 DEF HeldByQueues, PageOf
  <2>3. HeldByQueues' = HeldByQueues \ {x}
    <3>1. /\ entries'[id] = e
          /\ \A jd \in InUse \ {id} : entries'[jd] = entries[jd]
      BY <1>3, <1>10, <1>11, OneQueue
    <3>2. HeldByQueues' = (HeldByQueues \ {<<"queue", id, n>> : n \in Range(entries[id].q_message)})
                          \cup {<<"queue", id, n>> : n \in Range(e.q_message)}
      BY <1>20, <3>1, QueueHolds
    <3>3. {<<"queue", id, n>> : n \in Range(entries[id].q_message)} \subseteq HeldByQueues
      BY DEF HeldByQueues
    <3>4. {<<"queue", id, n>> : n \in Range(e.q_message)}
            = {<<"queue", id, n>> : n \in Range(entries[id].q_message)} \ {x}
      BY <1>8, <1>10
    <3>5. x \in {<<"queue", id, n>> : n \in Range(entries[id].q_message)}
      BY <1>6
    <3> HIDE DEF x
    <3> QED  BY <3>2, <3>3, <3>4, <3>5
  <2>4. HeldBySenders' = HeldBySenders
    BY <1>2 DEF HeldBySenders
  <2>5. HeldByReceivers' = HeldByReceivers \cup {y}
    <3>1. r_msg[p] \notin Message
      BY <1>2 DEF Locals
    <3>2. HeldByReceivers' = (HeldByReceivers \ {<<"receiver", p, r_msg[p]>>})
            \cup {<<"receiver", q, m>> : q \in {s \in {p} : m \in Message}}
      BY <1>3, <1>6, ReceiversHold
    <3>3. <<"receiver", p, r_msg[p]>> \notin HeldByReceivers
      BY <3>1 DEF HeldByReceivers
    <3> QED  BY <1>7, <3>2, <3>3
  <2> HIDE DEF x, y
  <2>6. x \in Held /\ Held' = (Held \ {x}) \cup {y}
    BY <2>2, <2>3, <2>4, <2>5, KindsDiffer DEF Held
  <2> QED  BY <1>2, <2>1, <2>2, <2>6, OwnedMove
<1>24. MessagesOwned'
  BY <1>20, <1>23 DEF Owned, MessagesOwned
<1>25. DeliveryFits'
  <2> SUFFICES ASSUME NEW q \in Proc, pc'[q] = "store", r_msg'[q] \in Message
               PROVE  /\ testmsg(request'[q].mtype, r_msg'[q].mtype)
                      /\ r_msg'[q].size <= request'[q].size
    BY DEF DeliveryFits, testmsg
  <2>1. CASE q = p
    BY <1>6, <1>13, <2>1 DEF Fits
  <2>2. CASE q \in S
    BY <1>13, <2>2
  <2>3. CASE q \notin S \cup {p}
    BY <1>13, <2>3 DEF DeliveryFits
  <2> QED  BY <2>1, <2>2, <2>3
<1> QED  BY <1>20, <1>21, <1>22, <1>24, <1>25

LEMMA FreeInv ==
  ASSUME MsgInv, NEW p \in Proc, NEW i \in MsgId, freeque(p, i)
  PROVE  MsgInv'
<1> USE DEF MsgInv
<1>1. PICK id \in InUse :
        /\ entries' = [entries EXCEPT ![id] = NULL]
        /\ pc' = [q \in Proc |-> IF q \in Woken(entries[id].q_receiver)
                                 THEN "store" ELSE pc[q]]
        /\ pages' = pages \ FreedMessages(entries[id])
  BY DEF freeque, get_msgq
<1>2. in_use' = in_use - 1 /\ UNCHANGED <<seq, msgid, msg, request, r_msg, wild>>
  BY DEF freeque
<1>3. TypeOK
  BY DEF CountsExact
<1> DEFINE R == Range(entries[id].q_receiver)
<1>4. /\ Woken(entries[id].q_receiver) = R /\ R \subseteq Proc
      /\ \A r \in R : pc[r] = "recv_sleep"
  BY <1>3, QueueInUse, AllWoken DEF Lists
<1>5. /\ InUse' = InUse \ {id} /\ \A jd \in InUse' : entries'[jd] = entries[jd]
      /\ entries' \in [0..Size - 1 -> Queue \cup {NULL}]
  <2>1. /\ entries'[id] = NULL /\ \A jd \in (0..Size - 1) \ {id} : entries'[jd] = entries[jd]
        /\ entries' \in [0..Size - 1 -> Queue \cup {NULL}]
    BY <1>1, <1>3 DEF TypeOK, InUse
  <2> QED  BY <2>1 DEF InUse
<1>6. /\ \A r \in R : pc'[r] = "store"
      /\ \A q \in Proc \ R : pc'[q] = pc[q]
  BY <1>1, <1>4
<1>7. ASSUME NEW jd \in InUse'
      PROVE  /\ \A q \in Range(entries[jd].q_receiver) : pc'[q] = pc[q]
             /\ \A q \in Range(entries[jd].q_sender) : pc'[q] = pc[q]
  <2>1. Range(entries[jd].q_receiver) \subseteq Proc /\ Range(entries[jd].q_sender) \subseteq Proc
    BY <1>3, <1>5, QueueInUse
  <2>2. Range(entries[jd].q_receiver) \cap R = {}
    BY <1>5 DEF Lists
  <2>3. Range(entries[jd].q_sender) \cap R = {}
    BY <1>4, <1>5 DEF Lists
  <2> HIDE DEF R
  <2> QED  BY <1>6, <2>1, <2>2, <2>3
<1>8. CountsExact'
  <2>1. in_use' = Cardinality(InUse') /\ in_use' \in 0..Size
    <3>1. IsFiniteSet(InUse) /\ Cardinality(InUse) \in 0..Size
      BY SlotsFinite DEF InUse
    <3>2. Cardinality(InUse') = Cardinality(InUse) - 1
      BY <1>5, <3>1, FS_RemoveElement
    <3>3. InUse' \subseteq 0..Size - 1
      BY <1>5 DEF InUse
    <3>4. Cardinality(InUse') \in 0..Size
      BY <3>3, SlotsFinite
    <3> QED  BY <1>2, <3>1, <3>2, <3>4 DEF CountsExact
  <2>2. pc' \in [Proc -> PC]
    BY <1>1, <1>3 DEF TypeOK, PC
  <2>3. TypeOK'
    BY <1>1, <1>2, <1>3, <1>5, <2>1, <2>2 DEF TypeOK
  <2> QED  BY <1>5, <2>1, <2>3 DEF CountsExact
<1>9. Lists'
  <2>1. ASSUME NEW jd \in InUse'
        PROVE  /\ IsInjective(entries'[jd].q_receiver)
               /\ \A q \in Range(entries'[jd].q_receiver) : pc'[q] = "recv_sleep"
               /\ \A q \in Range(entries'[jd].q_sender) : pc'[q] = "send_sleep"
    <3>1. jd \in InUse /\ entries'[jd] = entries[jd]
      BY <1>5
    <3> QED  BY <1>7, <3>1 DEF Lists
  <2>2. ASSUME NEW jd \in InUse', NEW kd \in InUse', jd # kd
        PROVE  /\ Range(entries'[jd].q_receiver) \cap Range(entries'[kd].q_receiver) = {}
               /\ Range(entries'[jd].q_sender) \cap Range(entries'[kd].q_sender) = {}
    <3>1. /\ jd \in InUse /\ entries'[jd] = entries[jd]
          /\ kd \in InUse /\ entries'[kd] = entries[kd]
      BY <1>5
    <3> QED  BY <2>2, <3>1 DEF Lists
  <2> QED  BY <2>1, <2>2 DEF Lists
<1>10. Locals'
  <2> SUFFICES ASSUME NEW q \in Proc
               PROVE  /\ msg'[q] # NULL <=> pc'[q] \in {"send", "send_sleep", "spin"}
                      /\ r_msg'[q] \in Message => pc'[q] = "store"
    BY DEF Locals
  <2> HIDE DEF R
  <2>1. CASE q \in R
    BY <1>2, <1>4, <1>6, <2>1 DEF Locals
  <2>2. CASE q \notin R
    BY <1>2, <1>6, <2>2 DEF Locals
  <2> QED  BY <2>1, <2>2
<1>11. Owned(Held', pages')
  <2> DEFINE D == {<<"queue", id, m>> : m \in Range(entries[id].q_message)}
  <2>1. Owned(Held, pages)
    BY OwnedIs
  <2>2. HeldByQueues' = HeldByQueues \ D
    <3> DEFINE Q(jd) == {<<"queue", jd, m>> : m \in Range(entries[jd].q_message)}
    <3>1. HeldByQueues' = UNION {Q(jd) : jd \in InUse \ {id}} /\ D = Q(id)
      BY <1>5 DEF HeldByQueues
    <3>2. HeldByQueues = UNION {Q(jd) : jd \in InUse}
      BY DEF HeldByQueues
    <3>3. \A jd \in InUse : \A h \in Q(jd) : h[2] = jd
      OBVIOUS
    <3> HIDE DEF D, Q
    <3> QED  BY <3>1, <3>2, <3>3
  <2>3. HeldBySenders' = HeldBySenders /\ HeldByReceivers' = HeldByReceivers
    BY <1>2 DEF HeldBySenders, HeldByReceivers
  <2>4. D \subseteq HeldByQueues /\ \A d \in D : d[1] = "queue"
    BY DEF HeldByQueues
  <2>5. {PageOf(d) : d \in D} = FreedMessages(entries[id])
    <3>1. \A m : PageOf(<<"queue", id, m>>) = m.page
      BY DEF PageOf
    <3>2. \A d \in D : \E m \in Range(entries[id].q_message) : PageOf(d) = m.page
      BY <3>1
    <3>3. \A m \in Range(entries[id].q_message) : \E d \in D : PageOf(d) = m.page
      BY <3>1
    <3> HIDE DEF D
    <3> QED  BY <3>2, <3>3 DEF FreedMessages
  <2> HIDE DEF D
  <2>6. D \subseteq Held /\ Held' = Held \ D
    BY <2>2, <2>3, <2>4, KindsDiffer DEF Held
  <2> QED  BY <1>1, <2>1, <2>5, <2>6, OwnedDrop
<1>12. MessagesOwned'
  <2>1. \A jd \in InUse' : IsInjective(entries'[jd].q_message)
    BY <1>5 DEF MessagesOwned
  <2> QED  BY <1>11, <2>1 DEF Owned, MessagesOwned
<1>13. NoMissedMessage' /\ SendersWaitForRoom'
  <2>1. NoMissedMessage'
    BY <1>2, <1>5 DEF NoMissedMessage
  <2>2. SendersWaitForRoom'
    BY <1>5, <1>7 DEF SendersWaitForRoom
  <2> QED  BY <2>1, <2>2
<1>14. DeliveryFits'
  <2> SUFFICES ASSUME NEW q \in Proc, pc'[q] = "store", r_msg'[q] \in Message
               PROVE  /\ testmsg(request'[q].mtype, r_msg'[q].mtype)
                      /\ r_msg'[q].size <= request'[q].size
    BY DEF DeliveryFits, testmsg
  <2> HIDE DEF R
  <2>1. CASE q \in R
    BY <1>2, <1>4, <2>1 DEF Locals
  <2>2. CASE q \notin R
    BY <1>2, <1>6, <2>2 DEF DeliveryFits
  <2> QED  BY <2>1, <2>2
<1> QED  BY <1>8, <1>9, <1>10, <1>12, <1>13, <1>14


LEMMA InitInv == Init => MsgInv
<1> SUFFICES ASSUME Init PROVE MsgInv
  OBVIOUS
<1>1. InUse = {}
  BY DEF Init, InUse
<1>2. CountsExact
  <2>1. /\ Size \in Nat /\ 0 \in MsgId /\ NoRequest \in Request
        /\ 0 \in 0..SEQS - 1 /\ 0 \in 0..Size
    BY SizesAssumption DEF MsgId, NoRequest, Request
  <2>2. TypeOK
    BY <2>1 DEF Init, TypeOK, PC
  <2>3. Cardinality({}) = 0
    BY FS_EmptySet
  <2> QED  BY <1>1, <2>2, <2>3 DEF CountsExact, Init
<1>3. Held = {}
  <2>1. HeldByQueues = {}
    BY <1>1 DEF HeldByQueues
  <2>2. HeldBySenders = {} /\ HeldByReceivers = {}
    BY NullAssumption DEF Init, HeldBySenders, HeldByReceivers
  <2> QED  BY <2>1, <2>2 DEF Held
<1>4. MessagesOwned
  BY <1>1, <1>3 DEF MessagesOwned, Init
<1>5. Locals /\ DeliveryFits
  BY NullAssumption DEF Init, Locals, DeliveryFits
<1>6. Lists /\ NoMissedMessage /\ SendersWaitForRoom
  BY <1>1 DEF Lists, NoMissedMessage, SendersWaitForRoom
<1> QED  BY <1>2, <1>4, <1>5, <1>6 DEF MsgInv

LEMMA StutterInv ==
  ASSUME MsgInv, UNCHANGED vars
  PROVE  MsgInv'
<1>1. /\ entries' = entries /\ seq' = seq /\ in_use' = in_use /\ pages' = pages
      /\ pc' = pc /\ msgid' = msgid /\ msg' = msg /\ request' = request
      /\ r_msg' = r_msg /\ wild' = wild
  BY DEF vars
<1>2. InUse' = InUse
  BY <1>1 DEF InUse
<1>3. CountsExact'
  BY <1>1, <1>2 DEF MsgInv, CountsExact, TypeOK
<1>4. Held' = Held
  BY <1>1, <1>2 DEF Held, HeldByQueues, HeldBySenders, HeldByReceivers
<1>5. MessagesOwned'
  BY <1>1, <1>2, <1>4 DEF MsgInv, MessagesOwned
<1>6. Lists' /\ Locals' /\ NoMissedMessage' /\ SendersWaitForRoom' /\ DeliveryFits'
  BY <1>1, <1>2 DEF MsgInv, Lists, Locals, NoMissedMessage, SendersWaitForRoom, DeliveryFits
<1> QED  BY <1>3, <1>5, <1>6 DEF MsgInv

(* MsgInv is an invariant of the message queues, whatever the number of    *)
(* processes, queues, messages, types and sizes.                           *)
THEOREM MsgInvariant == Spec => []MsgInv
<1>1. Init => MsgInv
  BY InitInv
<1>2. MsgInv /\ [Next]_vars => MsgInv'
  <2> SUFFICES ASSUME MsgInv, [Next]_vars PROVE MsgInv'
    OBVIOUS
  <2>1. CASE UNCHANGED vars
    BY <2>1, StutterInv
  <2>2. CASE Next
    <3>1. PICK p \in Proc : \/ Get(p) \/ Send(p) \/ Receive(p)
                            \/ \E id \in MsgId : freeque(p, id)
      BY <2>2 DEF Next
    <3>2. CASE Get(p)
      BY <3>2, GetInv DEF Get
    <3>3. CASE Send(p)
      BY <3>3, LoadInv, SendFailsInv, SendSleepsInv, PipelineSendInv, SendEnqueuesInv DEF Send
    <3>4. CASE Receive(p)
      BY <3>4, RecvFindsInv, RecvSleepsInv, StoreInv DEF Receive
    <3>5. CASE \E id \in MsgId : freeque(p, id)
      BY <3>5, FreeInv
    <3> QED  BY <3>1, <3>2, <3>3, <3>4, <3>5
  <2> QED  BY <2>1, <2>2
<1> QED  BY <1>1, <1>2, PTL DEF Spec

(* Every page of a message has exactly one owner until it is freed: the    *)
(* sender that loaded it, the queue, or the receiver it was handed to, by  *)
(* pipeline_send or by the search of sys_msgrcv.                           *)
THEOREM MessagesStayOwned == Spec => []MessagesOwned
<1>1. MsgInv => MessagesOwned
  BY DEF MsgInv
<1> QED  BY <1>1, MsgInvariant, PTL

(* No receiver sleeps in sys_msgrcv beside a message that it asked for.    *)
THEOREM NoMessageIsMissed == Spec => []NoMissedMessage
<1>1. MsgInv => NoMissedMessage
  BY DEF MsgInv
<1> QED  BY <1>1, MsgInvariant, PTL

(* A sender in the list of a queue sleeps, and its queue is full: the      *)
(* ss_wakeup of sys_msgrcv leaves nobody behind.                           *)
THEOREM SendersWaitOnlyForRoom == Spec => []SendersWaitForRoom
<1>1. MsgInv => SendersWaitForRoom
  BY DEF MsgInv
<1> QED  BY <1>1, MsgInvariant, PTL

(* sum_msg is the length of the list of messages and in_use the number of  *)
(* queues; among the types, sum_msg never exceeds max_msg.                 *)
THEOREM CountsStayExact == Spec => []CountsExact
<1>1. MsgInv => CountsExact
  BY DEF MsgInv
<1> QED  BY <1>1, MsgInvariant, PTL

(* What sys_msgrcv stores is of a type that was asked for and fits.        *)
THEOREM DeliveriesFit == Spec => []DeliveryFits
<1>1. MsgInv => DeliveryFits
  BY DEF MsgInv
<1> QED  BY <1>1, MsgInvariant, PTL


=============================================================================

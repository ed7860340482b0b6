---------------------------- MODULE RBTreeProofs ----------------------------
(***************************************************************************)
(* Proofs about RBTree, for every set of nodes and every number of keys.   *)
(***************************************************************************)
EXTENDS RBTree, NaturalsInduction, WellFoundedInduction, TLAPS

(* The order of the keys, seen from a side.                                *)
Lt(s, x, y) == IF s = "rb_left" THEN Key(x) < Key(y) ELSE Key(y) < Key(x)

LEMMA KeyType == \A n \in Node : Key(n) \in Nat
  BY NodeAssumption DEF Key

(* Every set of natural numbers that is not empty has a least element.     *)
LEMMA LeastNat ==
  ASSUME NEW T, T \subseteq Nat, T # {}
  PROVE  \E m \in T : \A y \in T : m <= y
<1> DEFINE R == OpToRel(<, Nat)
<1>1. IsWellFoundedOn(R, Nat)
  BY NatLessThanWellFounded, Zenon
<1>2. \A x, y \in Nat : x < y => <<x, y>> \in R
  BY Zenon DEF OpToRel
<1> HIDE DEF R
<1>3. PICK m \in T : \A y \in T : ~(<<y, m>> \in R)
  BY <1>1, WFMin, Zenon
<1>4. \A y \in T : ~(y < m)
  BY <1>2, <1>3, Zenon
<1> QED  BY <1>4

(* A set of nodes has a node with the least key and one with the greatest, *)
(* as there are only so many keys.                                         *)
LEMMA ExtremeKeys ==
  ASSUME NEW S, S \subseteq Node, S # {}
  PROVE  /\ \E m \in S : \A y \in S : Key(m) <= Key(y)
         /\ \E m \in S : \A y \in S : Key(y) <= Key(m)
<1>1. \A n \in S : Key(n) \in Nat /\ Key(n) < Keys
  BY NodeAssumption DEF Key
<1>2. Keys \in Nat
  BY NodeAssumption
<1>3. \E m \in S : \A y \in S : Key(m) <= Key(y)
  <2> DEFINE T == {Key(n) : n \in S}
  <2>1. T \subseteq Nat /\ T # {}
    BY <1>1
  <2>2. PICK k \in T : \A y \in T : k <= y
    BY <2>1, LeastNat
  <2> QED  BY <2>2
<1>4. \E m \in S : \A y \in S : Key(y) <= Key(m)
  <2> DEFINE T == {Keys - Key(n) : n \in S}
  <2>1. T \subseteq Nat /\ T # {}
    BY <1>1, <1>2
  <2>2. PICK k \in T : \A y \in T : k <= y
    BY <2>1, LeastNat
  <2>3. PICK m \in S : k = Keys - Key(m)
    BY <2>2
  <2>4. \A y \in S : Keys - Key(m) <= Keys - Key(y)
    BY <2>2, <2>3
  <2> QED  BY <1>1, <1>2, <2>4
<1> QED  BY <1>3, <1>4

LEMMA LtFacts ==
  /\ \A s \in Side, x, y \in Node : Lt(s, x, y) <=> Lt(Other(s), y, x)
  /\ \A s \in Side, x \in Node : ~Lt(s, x, x)
  /\ \A s \in Side, x, y \in Node : ~(Lt(s, x, y) /\ Lt(Other(s), x, y))
  /\ \A s \in Side, x, y, z \in Node : Lt(s, x, y) /\ Lt(s, y, z) => Lt(s, x, z)
  BY KeyType DEF Lt, Other, Side

LEMMA SideFacts ==
  /\ \A s \in Side : Other(s) \in Side /\ Other(s) # s /\ Other(Other(s)) = s
  /\ \A s, r \in Side : r = s \/ r = Other(s)
  /\ "rb_left" \in Side /\ "rb_right" \in Side
  /\ Other("rb_left") = "rb_right" /\ Other("rb_right") = "rb_left"
  BY DEF Side, Other

-----------------------------------------------------------------------------
(* The stores, field by field.                                             *)

Tree == [root : Link, child : [Node -> [Side -> Link]], parent : [Node -> Link],
         color : [Node -> {RB_RED, RB_BLACK}]]

ChildStored(t, u, n, s, c) ==
  /\ u \in Tree
  /\ u.root = t.root /\ u.parent = t.parent /\ u.color = t.color
  /\ \A m \in Node, r \in Side :
       u.child[m][r] = IF m = n /\ r = s THEN c ELSE t.child[m][r]

ParentColorStored(t, u, n, p, k) ==
  /\ u \in Tree
  /\ u.root = t.root /\ u.child = t.child
  /\ \A m \in Node : /\ u.parent[m] = IF m = n THEN p ELSE t.parent[m]
                     /\ u.color[m] = IF m = n THEN k ELSE t.color[m]

ParentStored(t, u, n, p) ==
  /\ u \in Tree
  /\ u.root = t.root /\ u.child = t.child /\ u.color = t.color
  /\ \A m \in Node : u.parent[m] = IF m = n THEN p ELSE t.parent[m]

ChildChanged(t, u, old, new, p) ==
  /\ u \in Tree
  /\ u.parent = t.parent /\ u.color = t.color
  /\ u.root = IF p = NULL THEN new ELSE t.root
  /\ \A m \in Node, r \in Side :
       u.child[m][r] = IF m = p /\ r = (IF t.child[p]["rb_left"] = old THEN "rb_left"
                                                                       ELSE "rb_right")
                       THEN new ELSE t.child[m][r]

LEMMA SetChildIs ==
  ASSUME NEW t \in Tree, NEW n \in Node, NEW s \in Side, NEW c \in Link
  PROVE  ChildStored(t, SetChild(t, n, s, c), n, s, c)
  BY DEF ChildStored, SetChild, Tree

LEMMA SetParentColorIs ==
  ASSUME NEW t \in Tree, NEW n \in Link, NEW p \in Link, NEW k \in {RB_RED, RB_BLACK}
  PROVE  ParentColorStored(t, rb_set_parent_color(t, n, p, k), n, p, k)
  BY NodeAssumption DEF ParentColorStored, rb_set_parent_color, Tree, Link

LEMMA SetParentIs ==
  ASSUME NEW t \in Tree, NEW n \in Link, NEW p \in Link
  PROVE  ParentStored(t, rb_set_parent(t, n, p), n, p)
  BY NodeAssumption DEF ParentStored, rb_set_parent, rb_set_parent_color, Tree, Link

LEMMA SetRootIs ==
  ASSUME NEW t \in Tree, NEW n \in Link
  PROVE  LET u == [t EXCEPT !.root = n]
         IN  /\ u \in Tree /\ u.root = n
             /\ u.child = t.child /\ u.parent = t.parent /\ u.color = t.color
  BY DEF Tree

LEMMA ChangeChildIs ==
  ASSUME NEW t \in Tree, NEW old \in Link, NEW new \in Link, NEW p \in Link
  PROVE  ChildChanged(t, __rb_change_child(t, old, new, p), old, new, p)
<1> DEFINE s == IF t.child[p]["rb_left"] = old THEN "rb_left" ELSE "rb_right"
<1>1. CASE p = NULL
  BY <1>1, SetRootIs, NodeAssumption DEF __rb_change_child, ChildChanged
<1>2. CASE p # NULL
  <2>1. p \in Node /\ s \in Side
    BY <1>2, SideFacts DEF Link
  <2>2. __rb_change_child(t, old, new, p) = SetChild(t, p, s, new)
    BY <1>2 DEF __rb_change_child
  <2>3. ChildStored(t, SetChild(t, p, s, new), p, s, new)
    BY <2>1, SetChildIs
  <2> QED  BY <1>2, <2>2, <2>3 DEF ChildStored, ChildChanged
<1> QED  BY <1>1, <1>2

TurnedUp(t, u, p, n, s) ==
  /\ u \in Tree /\ u.root = t.root
  /\ \A m \in Node, r \in Side :
       u.child[m][r] = IF m = p /\ r = Other(s) THEN t.child[n][s]
                       ELSE IF m = n /\ r = s THEN p ELSE t.child[m][r]
  /\ \A m \in Node : /\ u.parent[m] = IF m = t.child[n][s] THEN p ELSE t.parent[m]
                     /\ u.color[m] = IF m = t.child[n][s] THEN RB_BLACK ELSE t.color[m]

LEMMA TurnUpIs ==
  ASSUME NEW t \in Tree, NEW p \in Node, NEW n \in Node, p # n, NEW s \in Side
  PROVE  TurnedUp(t, TurnUp(t, p, n, s), p, n, s)
<1> DEFINE tmp == t.child[n][s]
           t1 == SetChild(t, p, Other(s), tmp)
           t2 == rb_set_parent_color(t1, tmp, p, RB_BLACK)
           u == SetChild(t2, n, s, p)
<1>1. tmp \in Link /\ Other(s) \in Side /\ p \in Link /\ RB_BLACK \in {RB_RED, RB_BLACK}
  BY SideFacts DEF Tree, Link
<1>2. ChildStored(t, t1, p, Other(s), tmp)
  BY <1>1, SetChildIs
<1>3. t1 \in Tree
  BY <1>2 DEF ChildStored
<1>4. ParentColorStored(t1, t2, tmp, p, RB_BLACK)
  BY <1>1, <1>3, SetParentColorIs
<1>5. t2 \in Tree
  BY <1>4 DEF ParentColorStored
<1>6. ChildStored(t2, u, n, s, p)
  BY <1>1, <1>5, SetChildIs
<1>7. TurnUp(t, p, n, s) = u
  BY DEF TurnUp
<1> HIDE DEF u, t1, t2
<1> QED  BY <1>2, <1>4, <1>6, <1>7 DEF ChildStored, ParentColorStored, TurnedUp

ParentsRotated(t, u, old, new, k) ==
  LET p == t.parent[old]
  IN  /\ u \in Tree
      /\ u.root = IF p = NULL THEN new ELSE t.root
      /\ \A m \in Node, r \in Side :
           u.child[m][r] = IF m = p /\ r = (IF t.child[p]["rb_left"] = old THEN "rb_left"
                                                                           ELSE "rb_right")
                           THEN new ELSE t.child[m][r]
      /\ \A m \in Node :
           /\ u.parent[m] = IF m = old THEN new ELSE IF m = new THEN p ELSE t.parent[m]
           /\ u.color[m] = IF m = old THEN k
                           ELSE IF m = new THEN t.color[old] ELSE t.color[m]

LEMMA RotateSetParentsIs ==
  ASSUME NEW t \in Tree, NEW old \in Node, NEW new \in Node, old # new,
         NEW k \in {RB_RED, RB_BLACK}
  PROVE  ParentsRotated(t, __rb_rotate_set_parents(t, old, new, k), old, new, k)
<1> DEFINE p == t.parent[old]
           t1 == rb_set_parent_color(t, new, p, t.color[old])
           t2 == rb_set_parent_color(t1, old, new, k)
           u == __rb_change_child(t2, old, new, p)
<1>1. /\ p \in Link /\ t.color[old] \in {RB_RED, RB_BLACK} /\ old \in Link /\ new \in Link
  BY DEF Tree, Link
<1>2. ParentColorStored(t, t1, new, p, t.color[old])
  BY <1>1, SetParentColorIs
<1>3. t1 \in Tree
  BY <1>2 DEF ParentColorStored
<1>4. ParentColorStored(t1, t2, old, new, k)
  BY <1>1, <1>3, SetParentColorIs
<1>5. t2 \in Tree
  BY <1>4 DEF ParentColorStored
<1>6. ChildChanged(t2, u, old, new, p)
  BY <1>1, <1>5, ChangeChildIs
<1>7. __rb_rotate_set_parents(t, old, new, k) = u
  BY DEF __rb_rotate_set_parents
<1> HIDE DEF u, t1, t2
<1> QED  BY <1>2, <1>4, <1>6, <1>7 DEF ChildChanged, ParentColorStored, ParentsRotated

Blanked(t, u, n) ==
  /\ u \in Tree /\ u.root = t.root
  /\ \A m \in Node : /\ u.parent[m] = IF m = n THEN NULL ELSE t.parent[m]
                     /\ u.color[m] = IF m = n THEN RB_RED ELSE t.color[m]
  /\ \A m \in Node, r \in Side :
       u.child[m][r] = IF m = n THEN NULL ELSE t.child[m][r]

LEMMA BlankIs ==
  ASSUME NEW t \in Tree, NEW n \in Node
  PROVE  Blanked(t, Blank(t, n), n)
  BY DEF Blanked, Blank, Tree, Link

Replaced(t, u, old, new) ==
  LET p == t.parent[old]
  IN  /\ u \in Tree
      /\ u.root = IF p = NULL THEN new ELSE t.root
      /\ \A m \in Node, r \in Side :
           u.child[m][r] = IF m = p /\ r = (IF t.child[p]["rb_left"] = old THEN "rb_left"
                                                                           ELSE "rb_right")
                           THEN new ELSE t.child[m][r]
      /\ \A m \in Node : /\ u.parent[m] = IF m = new THEN p ELSE t.parent[m]
                         /\ u.color[m] = IF m = new THEN t.color[old] ELSE t.color[m]

LEMMA ReplaceIs ==
  ASSUME NEW t \in Tree, NEW old \in Node, NEW new \in Link
  PROVE  Replaced(t, Replace(t, old, new), old, new)
<1> DEFINE p == t.parent[old]
           t1 == __rb_change_child(t, old, new, p)
           u == rb_set_parent_color(t1, new, p, t.color[old])
<1>1. p \in Link /\ t.color[old] \in {RB_RED, RB_BLACK} /\ old \in Link
  BY DEF Tree, Link
<1>2. ChildChanged(t, t1, old, new, p)
  BY <1>1, ChangeChildIs
<1>3. t1 \in Tree
  BY <1>2 DEF ChildChanged
<1>4. ParentColorStored(t1, u, new, p, t.color[old])
  BY <1>1, <1>3, SetParentColorIs
<1>5. Replace(t, old, new) = u
  BY DEF Replace
<1> HIDE DEF u, t1
<1> QED  BY <1>2, <1>4, <1>5 DEF ChildChanged, ParentColorStored, Replaced

-----------------------------------------------------------------------------
(* The shape.  M is the set of the members and sub labels every node with  *)
(* the members of its subtree.                                             *)

Linked(t, M) ==
  /\ M \subseteq Node
  /\ t.root \in M \cup {NULL}
  /\ t.root = NULL => M = {}
  /\ t.root # NULL => t.parent[t.root] = NULL
  /\ \A n \in M, s \in Side : /\ t.child[n][s] \in M \cup {NULL}
                              /\ t.child[n][s] # NULL => t.parent[t.child[n][s]] = n
  /\ \A n \in M \ {t.root} : /\ t.parent[n] \in M
                             /\ \E s \in Side : t.child[t.parent[n]][s] = n
  /\ \A n \in Node \ M : /\ t.parent[n] = NULL
                         /\ \A s \in Side : t.child[n][s] = NULL

Labelled(t, M, sub) ==
  /\ sub \in [Link -> SUBSET M]
  /\ sub[NULL] = {}
  /\ t.root # NULL => sub[t.root] = M
  /\ \A n, x \in M : x \in sub[n] <=> x = n \/ \E s \in Side : x \in sub[t.child[n][s]]

(* What is on a side of a node comes before it, seen from that side.       *)
Ordered(t, M, sub) ==
  \A n \in M, s \in Side : \A x \in sub[t.child[n][s]] : Lt(s, x, n)

(* A subtree holds a node, but for its own root, together with its parent. *)
Closed(t, M, sub) ==
  \A a, c \in M : c # a /\ c # t.root => (c \in sub[a] <=> t.parent[c] \in sub[a])

Shape(t, M, sub) ==
  /\ t \in Tree /\ Linked(t, M)
  /\ Labelled(t, M, sub) /\ Ordered(t, M, sub) /\ Closed(t, M, sub)

MembersOf(t) == {n \in Node : n = t.root \/ t.parent[n] # NULL}

LEMMA ShapeMembers ==
  ASSUME NEW t \in Tree, NEW M, Linked(t, M)
  PROVE  M = MembersOf(t)
<1>1. M \subseteq Node /\ NULL \notin M
  BY NodeAssumption DEF Linked
<1>2. \A n \in M : n = t.root \/ t.parent[n] # NULL
  BY <1>1 DEF Linked
<1>3. \A n \in Node \ M : n # t.root /\ t.parent[n] = NULL
  BY NodeAssumption DEF Linked
<1> QED  BY <1>1, <1>2, <1>3 DEF MembersOf

(* A node is in its subtree, not below itself, and on one side of one      *)
(* node.                                                                   *)
LEMMA ShapeFacts ==
  ASSUME NEW t, NEW M, NEW sub, Shape(t, M, sub)
  PROVE  /\ NULL \notin M
         /\ \A n \in M : n \in sub[n]
         /\ \A n \in M, s \in Side : n \notin sub[t.child[n][s]]
         /\ \A n \in M, s \in Side : sub[t.child[n][s]] \subseteq M
         /\ \A n \in M, s \in Side :
              t.child[n][s] # NULL => /\ t.child[n][s] \in sub[t.child[n][s]]
                                      /\ Lt(s, t.child[n][s], n)
                                      /\ t.child[n][s] # n
                                      /\ t.child[n][s] # t.root
                                      /\ t.child[n][s] # t.child[n][Other(s)]
<1> USE DEF Shape
<1>1. NULL \notin M
  BY NodeAssumption DEF Linked
<1>2. \A n \in M : n \in sub[n]
  BY DEF Labelled
<1>3. \A n \in M, s \in Side : t.child[n][s] \in Link /\ sub[t.child[n][s]] \subseteq M
  BY DEF Labelled, Linked, Link
<1>4. \A n \in M, s \in Side : n \notin sub[t.child[n][s]]
  BY <1>3, LtFacts DEF Ordered, Linked
<1>5. ASSUME NEW n \in M, NEW s \in Side, t.child[n][s] # NULL
      PROVE  /\ t.child[n][s] \in sub[t.child[n][s]]
             /\ Lt(s, t.child[n][s], n)
             /\ t.child[n][s] # n
             /\ t.child[n][s] # t.root
  <2>1. t.child[n][s] \in M /\ t.parent[t.child[n][s]] = n
    BY <1>5 DEF Linked
  <2>2. t.child[n][s] \in sub[t.child[n][s]] /\ Lt(s, t.child[n][s], n)
    BY <1>2, <2>1 DEF Ordered
  <2>3. t.child[n][s] # n
    BY <2>1, <2>2, LtFacts DEF Linked
  <2> QED  BY <1>1, <2>1, <2>2, <2>3 DEF Linked
<1>6. ASSUME NEW n \in M, NEW s \in Side, t.child[n][s] # NULL
      PROVE  t.child[n][s] # t.child[n][Other(s)]
  BY <1>5, <1>6, LtFacts, SideFacts DEF Linked
<1> QED  BY <1>1, <1>2, <1>3, <1>4, <1>5, <1>6

-----------------------------------------------------------------------------
(* Rotation: n, the child of p on the side opposite to s, takes the place  *)
(* of p and p becomes its child on the side s.                             *)

Rotated(t, u, p, n, s) ==
  /\ u.root = IF t.parent[p] = NULL THEN n ELSE t.root
  /\ \A m \in Node, r \in Side :
       u.child[m][r] = IF m = p /\ r = Other(s) THEN t.child[n][s]
                       ELSE IF m = n /\ r = s THEN p
                       ELSE IF t.child[m][r] = p THEN n
                       ELSE t.child[m][r]
  /\ \A m \in Node :
       u.parent[m] = IF m = n THEN t.parent[p]
                     ELSE IF m = p THEN n
                     ELSE IF m = t.child[n][s] THEN p
                     ELSE t.parent[m]

RotatedSub(t, sub, p, n, s) ==
  [m \in Link |-> IF m = n THEN sub[p]
                  ELSE IF m = p THEN {p} \cup sub[t.child[n][s]] \cup sub[t.child[p][s]]
                  ELSE sub[m]]

(* The subtree of a child is within that of its parent.                    *)
LEMMA SubtreeWithin ==
  ASSUME NEW t, NEW M, NEW sub, Shape(t, M, sub), NEW m \in M, NEW r \in Side
  PROVE  sub[t.child[m][r]] \subseteq sub[m]
<1>1. sub[t.child[m][r]] \subseteq M
  BY ShapeFacts
<1>2. \A x \in M : x \in sub[t.child[m][r]] => x \in sub[m]
  BY DEF Shape, Labelled
<1> QED  BY <1>1, <1>2

LEMMA RotationFacts ==
  ASSUME NEW t, NEW M, NEW sub, Shape(t, M, sub),
         NEW s \in Side, NEW p \in M, NEW n \in M, t.child[p][Other(s)] = n
  PROVE  LET o == Other(s)
             tmp == t.child[n][s]
             g == t.parent[p]
         IN  /\ n # p /\ p # tmp /\ n # tmp /\ n # t.root /\ p \in Node /\ n \in Node
             /\ o \in Side /\ o # s /\ NULL \notin Node /\ t.parent[n] = p
             /\ M \subseteq Node /\ tmp \in M \cup {NULL} /\ g \in M \cup {NULL}
             /\ g = NULL <=> p = t.root
             /\ tmp # NULL => t.parent[tmp] = n /\ tmp # t.root
             /\ Lt(o, n, p) /\ Lt(s, p, n)
             /\ g # n /\ g # p /\ (g # NULL => g # tmp)
             /\ g # NULL => \E r \in Side : t.child[g][r] = p
             /\ \A m \in Node, r \in Side : t.child[m][r] = p => m = g
             /\ \A r \in Side : t.child[n][r] # p /\ t.child[n][r] # n
             /\ t.child[p][s] # n /\ t.child[p][s] # p /\ (tmp # NULL => t.child[p][s] # tmp)
<1> DEFINE o == Other(s)
           tmp == t.child[n][s]
           g == t.parent[p]
<1>1. /\ n # p /\ p # tmp /\ n # tmp /\ n # t.root /\ p \in Node /\ n \in Node
      /\ o \in Side /\ o # s /\ NULL \notin Node /\ t.parent[n] = p
      /\ M \subseteq Node /\ tmp \in M \cup {NULL} /\ g \in M \cup {NULL}
      /\ g = NULL <=> p = t.root
      /\ tmp # NULL => t.parent[tmp] = n /\ tmp # t.root
      /\ Lt(o, n, p) /\ Lt(s, p, n)
      /\ \A r \in Side : t.child[n][r] # p /\ t.child[n][r] # n
  <2>1. M \subseteq Node /\ NULL \notin Node /\ o \in Side /\ o # s
    BY NodeAssumption, SideFacts DEF Shape, Linked
  <2>2. n # p /\ n # t.root /\ t.parent[n] = p /\ Lt(o, n, p) /\ Lt(s, p, n)
    BY <2>1, ShapeFacts, LtFacts, SideFacts DEF Shape, Linked
  <2>3. tmp \in M \cup {NULL} /\ (tmp # NULL => t.parent[tmp] = n /\ tmp # t.root /\ tmp # n)
    BY <2>1, ShapeFacts DEF Shape, Linked
  <2>4. \A r \in Side : t.child[n][r] # p /\ t.child[n][r] # n
    <3>1. \A r \in Side : t.child[n][r] = p => p \in sub[n]
      BY ShapeFacts DEF Shape, Labelled
    <3> QED  BY <2>1, <3>1, ShapeFacts
  <2>5. g \in M \cup {NULL} /\ (g = NULL <=> p = t.root)
    BY <2>1 DEF Shape, Linked
  <2> QED  BY <2>1, <2>2, <2>3, <2>4, <2>5
<1> HIDE DEF o, tmp, g
<1>2. g # NULL => \E r \in Side : t.child[g][r] = p
  BY <1>1 DEF Shape, Linked, g
<1>3. \A m \in Node, r \in Side : t.child[m][r] = p => m = g
  BY <1>1 DEF Shape, Linked, g
<1>4. g # n /\ g # p
  BY <1>1, <1>2, ShapeFacts
<1>5. g # NULL => g # tmp
  <2>1. ASSUME g = tmp, g # NULL  PROVE FALSE
    <3>1. PICK r \in Side : t.child[tmp][r] = p
      BY <1>2, <2>1
    <3>2. p \in sub[tmp]
      BY <1>1, <2>1, <3>1, ShapeFacts DEF Shape, Labelled
    <3>3. p \in sub[n]
      BY <1>1, <3>2 DEF Shape, Labelled, tmp
    <3> QED  BY <1>1, <3>3, ShapeFacts DEF o
  <2> QED  BY <1>1, <2>1
<1>6. t.child[p][s] # n /\ t.child[p][s] # p /\ (tmp # NULL => t.child[p][s] # tmp)
  BY <1>1, ShapeFacts, SideFacts DEF Shape, Linked, o
<1> QED  BY <1>1, <1>2, <1>3, <1>4, <1>5, <1>6 DEF o, tmp, g

LEMMA RotateShape ==
  ASSUME NEW t, NEW M, NEW sub, Shape(t, M, sub),
         NEW s \in Side, NEW p \in M, NEW n \in M, t.child[p][Other(s)] = n,
         NEW u \in Tree, Rotated(t, u, p, n, s)
  PROVE  Shape(u, M, RotatedSub(t, sub, p, n, s))
<1> DEFINE o == Other(s)
           tmp == t.child[n][s]
           g == t.parent[p]
           sub2 == RotatedSub(t, sub, p, n, s)
<1>1. /\ n # p /\ p # tmp /\ n # tmp /\ n # t.root /\ p \in Node /\ n \in Node
      /\ o \in Side /\ o # s /\ NULL \notin Node /\ t.parent[n] = p
      /\ M \subseteq Node /\ tmp \in M \cup {NULL} /\ g \in M \cup {NULL}
      /\ g = NULL <=> p = t.root
      /\ tmp # NULL => t.parent[tmp] = n /\ tmp # t.root
      /\ Lt(o, n, p) /\ Lt(s, p, n)
  BY RotationFacts
<1> HIDE DEF o, tmp, g, sub2
<1>2. Linked(u, M)
  <2> USE DEF Linked
  <2>1. u.root \in M /\ u.parent[u.root] = NULL
    BY <1>1 DEF Rotated, Shape, o, tmp, g
  <2>2. ASSUME NEW m \in M, NEW r \in Side
        PROVE  /\ u.child[m][r] \in M \cup {NULL}
               /\ u.child[m][r] # NULL => u.parent[u.child[m][r]] = m
    <3>1. CASE m = p /\ r = o
      BY <1>1, <3>1 DEF Rotated, Shape, o, tmp, g
    <3>2. CASE m = n /\ r = s
      BY <1>1, <3>2 DEF Rotated, Shape, o, tmp, g
    <3>3. CASE t.child[m][r] = p
      BY <1>1, <3>1, <3>2, <3>3 DEF Rotated, Shape, o, tmp, g
    <3>4. CASE ~(m = p /\ r = o) /\ ~(m = n /\ r = s) /\ t.child[m][r] # p
      <4>1. u.child[m][r] = t.child[m][r]
        BY <1>1, <3>4 DEF Rotated, o, tmp, g
      <4>2. t.child[m][r] # n
        BY <1>1, <3>4, ShapeFacts, SideFacts DEF Shape, o
      <4>3. t.child[m][r] # NULL => t.child[m][r] # tmp
        BY <1>1, <3>4, ShapeFacts, SideFacts DEF Shape, tmp
      <4> QED  BY <1>1, <3>4, <4>1, <4>2, <4>3 DEF Rotated, Shape, tmp
    <3> QED  BY <3>1, <3>2, <3>3, <3>4
  <2>3. ASSUME NEW m \in M \ {u.root}
        PROVE  u.parent[m] \in M /\ \E r \in Side : u.child[u.parent[m]][r] = m
    <3>1. CASE m = n
      <4>1. g \in M /\ p # t.root
        BY <1>1, <3>1 DEF Rotated, g
      <4>2. PICK r \in Side : t.child[g][r] = p
        BY <4>1 DEF Shape, g
      <4>3. u.parent[m] = g /\ u.child[g][r] = n
        BY <1>1, <3>1, <4>1, <4>2, ShapeFacts DEF Rotated, Shape, o, tmp, g
      <4> QED  BY <3>1, <4>1, <4>3
    <3>2. CASE m = p
      BY <1>1, <3>2 DEF Rotated
    <3>3. CASE m = tmp
      BY <1>1, <3>3 DEF Rotated, o, tmp
    <3>4. CASE m \notin {n, p, tmp}
      <4>1. m # t.root /\ u.parent[m] = t.parent[m]
        BY <1>1, <3>4 DEF Rotated, g, tmp
      <4>2. PICK r \in Side : t.child[t.parent[m]][r] = m
        BY <4>1 DEF Shape
      <4>3. t.parent[m] \in M /\ u.child[t.parent[m]][r] = m
        BY <1>1, <3>4, <4>1, <4>2 DEF Rotated, Shape, o, tmp
      <4> QED  BY <4>1, <4>3
    <3> QED  BY <3>1, <3>2, <3>3, <3>4
  <2>4. ASSUME NEW m \in Node \ M
        PROVE  u.parent[m] = NULL /\ \A r \in Side : u.child[m][r] = NULL
    BY <1>1 DEF Rotated, Shape, o, tmp, g
  <2> QED  BY <1>1, <2>1, <2>2, <2>3, <2>4
<1>3. /\ sub2[n] = sub[p] /\ sub2[p] = {p} \cup sub[tmp] \cup sub[t.child[p][s]]
      /\ \A m \in Link \ {n, p} : sub2[m] = sub[m]
      /\ u.child[p][o] = tmp /\ sub2[tmp] = sub[tmp]
      /\ u.child[p][s] = t.child[p][s] /\ sub2[t.child[p][s]] = sub[t.child[p][s]]
      /\ u.child[n][s] = p
      /\ u.child[n][o] = t.child[n][o] /\ sub2[t.child[n][o]] = sub[t.child[n][o]]
  <2>1. p \in Link /\ n \in Link /\ tmp \in Link
    BY <1>1 DEF Link
  <2>2. t.child[p][s] \in Link \ {n, p} /\ t.child[n][o] \in Link \ {n, p}
    <3>1. t.child[p][s] \in Link /\ t.child[n][o] \in Link
      BY <1>1 DEF Shape, Linked, Link
    <3>2. t.child[p][s] \notin {n, p} /\ t.child[n][o] # n
      BY <1>1, ShapeFacts, SideFacts DEF o
    <3>3. t.child[n][o] = p => p \in sub[n]
      BY <1>1, ShapeFacts DEF Shape, Labelled
    <3> QED  BY <1>1, <3>1, <3>2, <3>3, ShapeFacts DEF o
  <2>3. tmp \in Link \ {n, p}
    BY <1>1, <2>1
  <2>4. /\ sub2[n] = sub[p] /\ sub2[p] = {p} \cup sub[tmp] \cup sub[t.child[p][s]]
        /\ \A m \in Link \ {n, p} : sub2[m] = sub[m]
    BY <1>1, <2>1 DEF sub2, RotatedSub, tmp
  <2>5. /\ u.child[p][o] = tmp /\ u.child[p][s] = t.child[p][s]
        /\ u.child[n][s] = p /\ u.child[n][o] = t.child[n][o]
    BY <1>1, <2>2 DEF Rotated, o, tmp
  <2> QED  BY <2>2, <2>3, <2>4, <2>5
<1>4. \A m \in M \ {n, p}, r \in Side : sub2[u.child[m][r]] = sub[t.child[m][r]]
  <2> SUFFICES ASSUME NEW m \in M \ {n, p}, NEW r \in Side
               PROVE  sub2[u.child[m][r]] = sub[t.child[m][r]]
    OBVIOUS
  <2>1. t.child[m][r] \in Link \ {n}
    BY <1>1 DEF Shape, Linked, Link
  <2>2. u.child[m][r] = IF t.child[m][r] = p THEN n ELSE t.child[m][r]
    BY <1>1 DEF Rotated
  <2> QED  BY <1>3, <2>1, <2>2
<1>5. Labelled(u, M, sub2)
  <2>1. sub2 \in [Link -> SUBSET M]
    BY <1>1 DEF sub2, RotatedSub, Shape, Labelled, Linked, Link
  <2>2. sub2[NULL] = {} /\ sub2[u.root] = M
    BY <1>1, <1>3 DEF Rotated, Shape, Labelled, Linked, Link, g
  <2>3. ASSUME NEW m \in M, NEW x \in M
        PROVE  x \in sub2[m] <=> x = m \/ \E r \in Side : x \in sub2[u.child[m][r]]
    <3>1. CASE m = p
      BY <1>1, <1>3, <3>1, SideFacts DEF o
    <3>2. CASE m = n
      <4>1. x \in sub[p] <=> x = p \/ x \in sub[n] \/ x \in sub[t.child[p][s]]
        BY <1>1, SideFacts DEF Shape, Labelled, o
      <4>2. x \in sub[n] <=> x = n \/ x \in sub[tmp] \/ x \in sub[t.child[n][o]]
        BY <1>1, SideFacts DEF Shape, Labelled, o, tmp
      <4>3. (\E r \in Side : x \in sub2[u.child[n][r]]) <=> x \in sub2[p] \/ x \in sub[t.child[n][o]]
        <5>1. (\E r \in Side : x \in sub2[u.child[n][r]])
                <=> x \in sub2[u.child[n][s]] \/ x \in sub2[u.child[n][o]]
          BY <1>1, SideFacts DEF o
        <5> QED  BY <1>3, <5>1
      <4> QED  BY <1>3, <3>2, <4>1, <4>2, <4>3
    <3>3. CASE m \notin {n, p}
      <4>1. sub2[m] = sub[m]
        BY <1>1, <1>3, <3>3 DEF Link
      <4> QED  BY <1>4, <3>3, <4>1 DEF Shape, Labelled
    <3> QED  BY <3>1, <3>2, <3>3
  <2> QED  BY <2>1, <2>2, <2>3 DEF Labelled
<1>6. Ordered(u, M, sub2)
  <2> SUFFICES ASSUME NEW m \in M, NEW r \in Side, NEW x \in sub2[u.child[m][r]]
               PROVE  Lt(r, x, m)
    BY DEF Ordered
  <2>1. CASE m \notin {n, p}
    BY <1>4, <2>1 DEF Shape, Ordered
  <2>2. CASE m = p
    <3>1. x \in sub[tmp] => x \in sub[n]
      BY <1>1, ShapeFacts DEF Shape, Labelled, tmp
    <3> QED  BY <1>1, <1>3, <2>2, <3>1, SideFacts DEF Shape, Ordered, o
  <2>3. CASE m = n /\ r = o
    BY <1>1, <1>3, <2>3 DEF Shape, Ordered
  <2>4. CASE m = n /\ r = s
    <3>1. x = p \/ x \in sub[tmp] \/ x \in sub[t.child[p][s]]
      BY <1>1, <1>3, <2>4
    <3>2. x \in sub[t.child[p][s]] => Lt(s, x, p) /\ x \in Node
      BY <1>1, ShapeFacts DEF Shape, Ordered
    <3>3. x \in sub[tmp] => Lt(s, x, n)
      BY DEF Shape, Ordered, tmp
    <3> QED  BY <1>1, <2>4, <3>1, <3>2, <3>3, LtFacts
  <2> QED  BY <2>1, <2>2, <2>3, <2>4, SideFacts DEF o
<1>7. Closed(u, M, sub2)
  <2> SUFFICES ASSUME NEW a \in M, NEW c \in M, c # a, c # u.root
               PROVE  c \in sub2[a] <=> u.parent[c] \in sub2[a]
    BY DEF Closed
  <2>1. \A b, d \in M : d # b /\ d # t.root => (d \in sub[b] <=> t.parent[d] \in sub[b])
    BY DEF Shape, Closed
  <2>2. /\ c = n => g \in M /\ p # t.root
        /\ u.parent[c] = IF c = n THEN g ELSE IF c = p THEN n
                         ELSE IF c = tmp THEN p ELSE t.parent[c]
        /\ c # p => c # t.root
    BY <1>1 DEF Rotated, g, tmp
  <2>3. n \in sub[p] /\ p \in sub[p]
    BY <1>1, ShapeFacts, SideFacts DEF Shape, Labelled, o
  <2>4. CASE a \notin {n, p}
    <3>1. sub2[a] = sub[a]
      BY <1>1, <1>3, <2>4 DEF Link
    <3> QED  BY <1>1, <2>1, <2>2, <2>4, <3>1 DEF g
  <2>5. CASE a = n
    BY <1>1, <1>3, <2>1, <2>2, <2>3, <2>5
  <2>6. CASE a = p
    <3> DEFINE y == t.child[p][s]
    <3>1. /\ y \in M \cup {NULL} /\ (y # NULL => y \in sub[y]) /\ sub[NULL] = {}
          /\ tmp # NULL => tmp \in sub[tmp]
      BY <1>1, ShapeFacts DEF Shape, Labelled, Linked
    <3> HIDE DEF y
    <3>2. CASE c = n
      <4>1. n \notin sub[tmp] /\ n \notin sub[y]
        BY <1>1, ShapeFacts, LtFacts DEF Shape, Ordered, tmp, o, y
      <4>2. PICK r \in Side : t.child[g][r] = p
        BY <2>2, <3>2 DEF Shape, Linked, g
      <4>3. g \notin sub[p]
        BY <2>2, <3>2, <4>2, ShapeFacts
      <4>4. sub[tmp] \subseteq sub[n] /\ sub[n] \subseteq sub[p] /\ sub[y] \subseteq sub[p]
        <5>1. \A q \in Side : /\ sub[t.child[n][q]] \subseteq sub[n]
                              /\ sub[t.child[p][q]] \subseteq sub[p]
          BY SubtreeWithin
        <5> QED  BY <1>1, <5>1 DEF tmp, o, y
      <4> QED  BY <1>1, <1>3, <2>2, <2>3, <2>6, <3>2, <4>1, <4>3, <4>4 DEF y
    <3>3. CASE c \in {tmp, y} \ {n}
      BY <1>1, <1>3, <2>2, <2>6, <3>1, <3>3 DEF y, Shape, Linked
    <3>4. CASE c \notin {n, tmp, y}
      <4>1. t.parent[c] # p
        BY <1>1, <2>2, <2>6, <3>4, SideFacts DEF Shape, Linked, o, y
      <4>2. /\ c \in sub[tmp] <=> t.parent[c] \in sub[tmp]
            /\ c \in sub[y] <=> t.parent[c] \in sub[y]
        BY <1>1, <2>1, <2>2, <2>6, <3>1, <3>4
      <4> QED  BY <1>1, <1>3, <2>2, <2>6, <3>4, <4>1, <4>2 DEF y
    <3> QED  BY <3>2, <3>3, <3>4
  <2> QED  BY <2>4, <2>5, <2>6
<1> QED  BY <1>2, <1>5, <1>6, <1>7 DEF Shape, sub2

-----------------------------------------------------------------------------
(* A new leaf z below p on the side s.                                     *)

Hung(t, u, p, s, z) ==
  /\ u.root = t.root
  /\ \A m \in Node, r \in Side :
       u.child[m][r] = IF m = p /\ r = s THEN z ELSE t.child[m][r]
  /\ \A m \in Node : u.parent[m] = IF m = z THEN p ELSE t.parent[m]

HungSub(sub, p, z) ==
  [m \in Link |-> IF m = z THEN {z} ELSE IF p \in sub[m] THEN sub[m] \cup {z} ELSE sub[m]]

LEMMA HangShape ==
  ASSUME NEW t, NEW M, NEW sub, Shape(t, M, sub),
         NEW s \in Side, NEW p \in M, t.child[p][s] = NULL,
         NEW z \in Node \ M, Lt(s, z, p),
         \A b \in M, r \in Side : p \in sub[t.child[b][r]] => Lt(r, z, b),
         NEW u \in Tree, Hung(t, u, p, s, z)
  PROVE  Shape(u, M \cup {z}, HungSub(sub, p, z))
<1> DEFINE N == M \cup {z}
           sub2 == HungSub(sub, p, z)
<1>1. /\ M \subseteq Node /\ NULL \notin Node /\ p \in Node /\ z \in Node /\ z # p /\ z # NULL
      /\ t.root \in M /\ z # t.root
      /\ \A r \in Side : t.child[z][r] = NULL /\ u.child[z][r] = NULL
      /\ \A m \in M, r \in Side : t.child[m][r] \in M \cup {NULL} /\ t.child[m][r] # z
      /\ \A m \in M : t.parent[m] # z
  BY NodeAssumption DEF Shape, Linked, Hung
<1>2. Linked(u, N)
  <2>1. ASSUME NEW m \in N \ {u.root}
        PROVE  u.parent[m] \in N /\ \E r \in Side : u.child[u.parent[m]][r] = m
    <3>1. CASE m = z
      BY <1>1, <3>1 DEF Hung
    <3>2. CASE m # z
      <4>1. PICK r \in Side : t.child[t.parent[m]][r] = m /\ t.parent[m] \in M
        BY <1>1, <3>2 DEF Shape, Linked, Hung
      <4>2. u.parent[m] = t.parent[m] /\ u.child[t.parent[m]][r] = m
        BY <1>1, <3>2, <4>1 DEF Hung
      <4> QED  BY <4>1, <4>2
    <3> QED  BY <3>1, <3>2
  <2>2. ASSUME NEW m \in N, NEW r \in Side
        PROVE  /\ u.child[m][r] \in N \cup {NULL}
               /\ u.child[m][r] # NULL => u.parent[u.child[m][r]] = m
    BY <1>1 DEF Hung, Shape, Linked
  <2>3. ASSUME NEW m \in Node \ N
        PROVE  u.parent[m] = NULL /\ \A r \in Side : u.child[m][r] = NULL
    BY <1>1 DEF Hung, Shape, Linked
  <2>4. u.root \in N /\ u.parent[u.root] = NULL
    BY <1>1 DEF Hung, Shape, Linked
  <2> QED  BY <1>1, <2>1, <2>2, <2>3, <2>4 DEF Linked
<1>3. /\ sub2[z] = {z} /\ sub[NULL] = {} /\ sub2[NULL] = {} /\ sub \in [Link -> SUBSET M]
      /\ \A m \in M \cup {NULL} :
           /\ sub[m] \subseteq M /\ sub2[m] \subseteq N
           /\ z \in sub2[m] <=> p \in sub[m]
           /\ \A x \in M : x \in sub2[m] <=> x \in sub[m]
  <2>1. sub \in [Link -> SUBSET M] /\ sub[NULL] = {} /\ M \cup {NULL} \subseteq Link /\ z \in Link
    BY <1>1 DEF Shape, Labelled, Link
  <2>2. sub2[z] = {z} /\ \A m \in M \cup {NULL} :
           sub2[m] = IF p \in sub[m] THEN sub[m] \cup {z} ELSE sub[m]
    BY <1>1, <2>1 DEF HungSub
  <2> HIDE DEF sub2
  <2>3. ASSUME NEW m \in M \cup {NULL}
        PROVE  /\ sub[m] \subseteq M /\ sub2[m] \subseteq N
               /\ z \in sub2[m] <=> p \in sub[m]
               /\ \A x \in M : x \in sub2[m] <=> x \in sub[m]
    <3>1. sub[m] \subseteq M
      BY <2>1
    <3>2. sub2[m] = IF p \in sub[m] THEN sub[m] \cup {z} ELSE sub[m]
      BY <2>2
    <3> QED  BY <3>1, <3>2
  <2>4. sub2[NULL] = {}
    BY <2>1, <2>2
  <2> QED  BY <2>1, <2>2, <2>3, <2>4
<1> HIDE DEF sub2
<1>4. \A m \in M, r \in Side :
        /\ m = p /\ r = s => u.child[m][r] = z
        /\ ~(m = p /\ r = s) => u.child[m][r] = t.child[m][r]
  BY <1>1 DEF Hung
<1>5. \A m \in M, x \in M : x \in sub[m] <=> x = m \/ \E r \in Side : x \in sub[t.child[m][r]]
  BY DEF Shape, Labelled
<1>6. Labelled(u, N, sub2)
  <2>1. sub2 \in [Link -> SUBSET N]
    BY <1>3 DEF HungSub, sub2, N
  <2>2. sub2[u.root] = N
    <3>1. sub[t.root] = M
      BY <1>1 DEF Shape, Labelled
    <3>2. sub2[t.root] \subseteq N /\ z \in sub2[t.root] /\ M \subseteq sub2[t.root]
      BY <1>1, <1>3, <3>1
    <3> QED  BY <3>2 DEF Hung
  <2>3. ASSUME NEW m \in N, NEW x \in N
        PROVE  x \in sub2[m] <=> x = m \/ \E r \in Side : x \in sub2[u.child[m][r]]
    <3>1. CASE m = z
      BY <1>1, <1>3, <3>1
    <3>2. CASE m # z /\ x # z
      <4>1. ASSUME NEW r \in Side
            PROVE  x \in sub2[u.child[m][r]] <=> x \in sub[t.child[m][r]]
        <5>1. CASE m = p /\ r = s
          BY <1>1, <1>3, <1>4, <3>2, <5>1
        <5>2. CASE ~(m = p /\ r = s)
          BY <1>1, <1>3, <1>4, <3>2, <5>2
        <5> QED  BY <5>1, <5>2
      <4> QED  BY <1>3, <1>5, <3>2, <4>1
    <3>3. CASE m = p /\ x = z
      <4>1. z \in sub2[u.child[p][s]]
        BY <1>3, <1>4
      <4>2. z \in sub2[p]
        BY <1>3, ShapeFacts
      <4> QED  BY <3>3, <4>1, <4>2
    <3>4. CASE m \notin {z, p} /\ x = z
      <4>1. \A r \in Side : x \in sub2[u.child[m][r]] <=> p \in sub[t.child[m][r]]
        BY <1>1, <1>3, <1>4, <3>4
      <4> QED  BY <1>3, <1>5, <3>4, <4>1
    <3> QED  BY <3>1, <3>2, <3>3, <3>4
  <2> QED  BY <1>3, <2>1, <2>2, <2>3 DEF Labelled
<1>7. Ordered(u, N, sub2)
  <2> SUFFICES ASSUME NEW m \in N, NEW r \in Side, NEW x \in sub2[u.child[m][r]]
               PROVE  Lt(r, x, m)
    BY DEF Ordered
  <2>1. m \in M
    BY <1>1, <1>3 DEF N
  <2>2. CASE m = p /\ r = s
    BY <1>3, <1>4, <2>1, <2>2
  <2>3. CASE ~(m = p /\ r = s)
    <3>1. x \in sub2[t.child[m][r]] /\ t.child[m][r] \in M \cup {NULL}
      BY <1>1, <1>4, <2>1, <2>3
    <3> QED  BY <1>3, <2>1, <3>1 DEF Shape, Ordered
  <2> QED  BY <2>2, <2>3
<1>8. Closed(u, N, sub2)
  <2> SUFFICES ASSUME NEW a \in N, NEW c \in N, c # a, c # u.root
               PROVE  c \in sub2[a] <=> u.parent[c] \in sub2[a]
    BY DEF Closed
  <2>1. u.parent[c] = (IF c = z THEN p ELSE t.parent[c]) /\ c # t.root
    BY <1>1 DEF Hung
  <2>2. c # z => t.parent[c] \in M
    BY <2>1 DEF Shape, Linked
  <2>3. CASE a = z
    BY <1>1, <1>3, <2>1, <2>2, <2>3
  <2>4. CASE a # z /\ c = z
    BY <1>1, <1>3, <2>1, <2>4
  <2>5. CASE a # z /\ c # z
    <3>1. c \in sub[a] <=> t.parent[c] \in sub[a]
      BY <2>1, <2>5 DEF Shape, Closed
    <3> QED  BY <1>3, <2>1, <2>2, <2>5, <3>1
  <2> QED  BY <2>3, <2>4, <2>5
<1> QED  BY <1>2, <1>6, <1>7, <1>8 DEF Shape, sub2, N

-----------------------------------------------------------------------------
(* The node x, with no child on the side opposite to q, leaves its place   *)
(* to its child on the side q.                                             *)

Cut(t, u, x, q) ==
  /\ u.root = IF t.parent[x] = NULL THEN t.child[x][q] ELSE t.root
  /\ \A m \in Node, r \in Side :
       u.child[m][r] = IF m = x THEN NULL
                       ELSE IF t.child[m][r] = x THEN t.child[x][q]
                       ELSE t.child[m][r]
  /\ \A m \in Node : u.parent[m] = IF m = x THEN NULL
                                   ELSE IF m = t.child[x][q] THEN t.parent[x]
                                   ELSE t.parent[m]

CutSub(sub, x) == [m \in Link |-> sub[m] \ {x}]

LEMMA CutShape ==
  ASSUME NEW t, NEW M, NEW sub, Shape(t, M, sub),
         NEW q \in Side, NEW x \in M, t.child[x][Other(q)] = NULL,
         NEW u \in Tree, Cut(t, u, x, q)
  PROVE  Shape(u, M \ {x}, CutSub(sub, x))
<1> DEFINE c == t.child[x][q]
           g == t.parent[x]
           N == M \ {x}
           sub2 == CutSub(sub, x)
<1>1. /\ M \subseteq Node /\ NULL \notin Node /\ x \in Node
      /\ c \in N \cup {NULL} /\ (c # NULL => t.parent[c] = x /\ c # t.root)
      /\ g \in M \cup {NULL} /\ (g = NULL <=> x = t.root) /\ g # x
      /\ t.root \in M
  <2>1. M \subseteq Node /\ NULL \notin Node /\ x \in Node /\ t.root \in M
    BY NodeAssumption DEF Shape, Linked
  <2>2. c \in N \cup {NULL} /\ (c # NULL => t.parent[c] = x /\ c # t.root)
    BY <2>1, ShapeFacts DEF Shape, Linked
  <2>3. g \in M \cup {NULL} /\ (g = NULL <=> x = t.root)
    BY <2>1 DEF Shape, Linked
  <2>4. g # x
    <3>1. ASSUME g = x  PROVE FALSE
      <4>1. PICK r \in Side : t.child[g][r] = x
        BY <2>1, <2>3, <3>1 DEF Shape, Linked
      <4> QED  BY <2>1, <3>1, <4>1, ShapeFacts
    <3> QED  BY <3>1
  <2> QED  BY <2>1, <2>2, <2>3, <2>4
<1>2. \A m \in M, r \in Side :
        /\ t.child[m][r] \in M \cup {NULL}
        /\ t.child[m][r] # NULL => t.parent[t.child[m][r]] = m /\ t.child[m][r] # t.root
  BY ShapeFacts DEF Shape, Linked
<1>3. \A m \in M : m # t.root => /\ t.parent[m] \in M
                                 /\ \E r \in Side : t.child[t.parent[m]][r] = m
  BY DEF Shape, Linked
<1>4. \A m \in N, r \in Side :
        u.child[m][r] = IF t.child[m][r] = x THEN c ELSE t.child[m][r]
  BY <1>1 DEF Cut
<1>5. \A m \in N : u.parent[m] = IF m = c THEN g ELSE t.parent[m]
  BY <1>1 DEF Cut
<1>6. u.root = IF g = NULL THEN c ELSE t.root
  BY DEF Cut
<1>7. \A m \in M : m # t.root /\ t.parent[m] = x => m = c
  BY <1>1, <1>3, SideFacts
<1> HIDE DEF c, g
<1>8. Linked(u, N)
  <2>1. ASSUME NEW m \in N \ {u.root}
        PROVE  u.parent[m] \in N /\ \E r \in Side : u.child[u.parent[m]][r] = m
    <3>1. CASE m = c
      <4>1. g \in M /\ x # t.root
        BY <1>1, <1>6, <3>1
      <4>2. PICK r \in Side : t.child[g][r] = x
        BY <1>3, <4>1 DEF g
      <4> QED  BY <1>1, <1>4, <1>5, <3>1, <4>1, <4>2
    <3>2. CASE m # c
      <4>1. m # t.root
        BY <1>1, <1>6
      <4>2. PICK r \in Side : t.child[t.parent[m]][r] = m
        BY <1>3, <4>1
      <4>3. t.parent[m] \in N /\ t.child[t.parent[m]][r] # x
        BY <1>3, <1>7, <3>2, <4>1, <4>2
      <4> QED  BY <1>4, <1>5, <3>2, <4>2, <4>3
    <3> QED  BY <3>1, <3>2
  <2>2. ASSUME NEW m \in N, NEW r \in Side
        PROVE  /\ u.child[m][r] \in N \cup {NULL}
               /\ u.child[m][r] # NULL => u.parent[u.child[m][r]] = m
    <3>1. CASE t.child[m][r] = x
      BY <1>1, <1>2, <1>4, <1>5, <3>1 DEF g
    <3>2. CASE t.child[m][r] # x
      BY <1>1, <1>2, <1>4, <1>5, <3>2
    <3> QED  BY <3>1, <3>2
  <2>3. ASSUME NEW m \in Node \ N
        PROVE  u.parent[m] = NULL /\ \A r \in Side : u.child[m][r] = NULL
    BY <1>1 DEF Cut, Shape, Linked, c
  <2>4. /\ u.root \in N \cup {NULL}
        /\ u.root # NULL => u.parent[u.root] = NULL
    BY <1>1, <1>5, <1>6 DEF Shape, Linked, g
  <2>5. u.root = NULL => N = {}
    <3>1. u.root = NULL => x = t.root /\ c = NULL
      BY <1>1, <1>6
    <3>2. c = NULL => sub[x] \subseteq {x}
      <4>1. sub[x] \subseteq M
        BY <1>1 DEF Shape, Labelled, Link
      <4>2. c = NULL => \A y \in M : y \in sub[x] => y = x
        BY SideFacts DEF Shape, Labelled, c
      <4> QED  BY <4>1, <4>2
    <3> QED  BY <3>1, <3>2, <1>1 DEF Shape, Labelled
  <2> QED  BY <1>1, <2>1, <2>2, <2>3, <2>4, <2>5 DEF Linked
<1>9. /\ sub \in [Link -> SUBSET M] /\ sub[NULL] = {} /\ sub[t.root] = M
      /\ N \cup {NULL} \subseteq Link
      /\ \A m \in Link : sub2[m] = sub[m] \ {x}
  BY <1>1 DEF Shape, Labelled, Link, CutSub
<1> HIDE DEF sub2
<1>10. \A y \in N : y \in sub[x] <=> y \in sub[c]
  BY <1>1, SideFacts DEF Shape, Labelled, c
<1>11. x \notin sub[c]
  BY ShapeFacts DEF c
<1>12. \A m \in N, r \in Side : u.child[m][r] \in Link
         /\ \A y \in N : y \in sub2[u.child[m][r]] <=> y \in sub[t.child[m][r]]
  BY <1>1, <1>2, <1>4, <1>9, <1>10 DEF Link
<1>13. Labelled(u, N, sub2)
  <2>1. sub2 \in [Link -> SUBSET N]
    BY <1>9 DEF sub2, CutSub
  <2>2. u.root # NULL => sub2[u.root] = N
    <3>1. CASE g = NULL
      <4>1. u.root = c /\ \A y \in N : y \in sub[c]
        BY <1>1, <1>6, <1>9, <1>10, <3>1
      <4> QED  BY <1>1, <1>9, <1>11, <4>1
    <3>2. CASE g # NULL
      BY <1>1, <1>6, <1>9, <3>2
    <3> QED  BY <3>1, <3>2
  <2>3. ASSUME NEW m \in N, NEW y \in N
        PROVE  y \in sub2[m] <=> y = m \/ \E r \in Side : y \in sub2[u.child[m][r]]
    <3>1. y \in sub[m] <=> y = m \/ \E r \in Side : y \in sub[t.child[m][r]]
      BY DEF Shape, Labelled
    <3> QED  BY <1>9, <1>12, <3>1
  <2> QED  BY <1>9, <2>1, <2>2, <2>3 DEF Labelled
<1>14. Ordered(u, N, sub2)
  <2> SUFFICES ASSUME NEW m \in N, NEW r \in Side, NEW y \in sub2[u.child[m][r]]
               PROVE  Lt(r, y, m)
    BY DEF Ordered
  <2>1. y \in N
    BY <1>9, <1>12
  <2> QED  BY <1>12, <2>1 DEF Shape, Ordered
<1>15. Closed(u, N, sub2)
  <2> SUFFICES ASSUME NEW a \in N, NEW d \in N, d # a, d # u.root
               PROVE  d \in sub2[a] <=> u.parent[d] \in sub2[a]
    BY DEF Closed
  <2>1. \A b, e \in M : e # b /\ e # t.root => (e \in sub[b] <=> t.parent[e] \in sub[b])
    BY DEF Shape, Closed
  <2>2. CASE d = c
    <3>1. g \in N /\ x # t.root /\ t.parent[x] = g /\ t.parent[d] = x /\ d # t.root
      BY <1>1, <1>6, <2>2 DEF g
    <3>2. d \in sub[a] <=> g \in sub[a]
      BY <2>1, <3>1
    <3> QED  BY <1>5, <1>9, <2>2, <3>1, <3>2
  <2>3. CASE d # c
    <3>1. d # t.root /\ t.parent[d] \in N
      BY <1>1, <1>3, <1>6, <1>7, <2>3
    <3> QED  BY <1>5, <1>9, <2>1, <2>3, <3>1
  <2> QED  BY <2>2, <2>3
<1> QED  BY <1>8, <1>13, <1>14, <1>15 DEF Shape, sub2

-----------------------------------------------------------------------------
(* The node z, from outside of the tree, takes the place of the node x.    *)

Swapped(t, u, x, z) ==
  /\ u.root = IF t.root = x THEN z ELSE t.root
  /\ \A m \in Node, r \in Side :
       u.child[m][r] = IF m = z THEN t.child[x][r]
                       ELSE IF m = x THEN NULL
                       ELSE IF t.child[m][r] = x THEN z
                       ELSE t.child[m][r]
  /\ \A m \in Node : u.parent[m] = IF m = z THEN t.parent[x]
                                   ELSE IF m = x THEN NULL
                                   ELSE IF t.parent[m] = x THEN z
                                   ELSE t.parent[m]

SwappedSub(sub, x, z) ==
  [m \in Link |-> {y \in Node : \/ y = z /\ x \in sub[IF m = z THEN x ELSE m]
                                \/ y \notin {x, z} /\ y \in sub[IF m = z THEN x ELSE m]}]

LEMMA SwapShape ==
  ASSUME NEW t, NEW M, NEW sub, Shape(t, M, sub),
         NEW x \in M, NEW z \in Node \ M,
         \A r \in Side : \A y \in sub[t.child[x][r]] : Lt(r, y, z),
         \A b \in M, r \in Side : x \in sub[t.child[b][r]] => Lt(r, z, b),
         NEW u \in Tree, Swapped(t, u, x, z)
  PROVE  Shape(u, (M \ {x}) \cup {z}, SwappedSub(sub, x, z))
<1> DEFINE N == (M \ {x}) \cup {z}
           sub2 == SwappedSub(sub, x, z)
           Old(m) == IF m = z THEN x ELSE m
           New(m) == IF m = x THEN z ELSE m
<1>1. /\ M \subseteq Node /\ NULL \notin Node /\ x \in Node /\ z \in Node
      /\ x # z /\ z # NULL /\ x # NULL /\ t.root \in M
  BY NodeAssumption DEF Shape, Linked
<1>2. \A m \in M, r \in Side :
        /\ t.child[m][r] \in M \cup {NULL}
        /\ t.child[m][r] # NULL => t.parent[t.child[m][r]] = m /\ t.child[m][r] # t.root
        /\ t.child[m][r] # m
  BY <1>1, ShapeFacts DEF Shape, Linked
<1>3. \A m \in M : m # t.root => /\ t.parent[m] \in M
                                 /\ \E r \in Side : t.child[t.parent[m]][r] = m
  BY DEF Shape, Linked
<1>4. \A m \in M : m # t.root => t.parent[m] # m
  BY <1>2, <1>3
<1>5. \A m \in N : Old(m) \in M
  BY <1>1
<1>6. \A m \in N, r \in Side : u.child[m][r] = New(t.child[Old(m)][r])
  BY <1>1, <1>2 DEF Swapped
<1>7. \A m \in N : Old(m) # t.root => u.parent[m] = New(t.parent[Old(m)])
  BY <1>1, <1>3, <1>4 DEF Swapped
<1>8. u.root = New(t.root) /\ u.parent[u.root] = NULL
  BY <1>1 DEF Swapped, Shape, Linked
<1>9. /\ \A m \in M \cup {NULL} : New(m) \in N \cup {NULL} /\ Old(New(m)) = m
      /\ \A m \in N : New(Old(m)) = m
      /\ \A m \in M : New(m) \in N
  BY <1>1
<1> HIDE DEF Old, New
<1>10. Linked(u, N)
  <2>1. ASSUME NEW m \in N \ {u.root}
        PROVE  u.parent[m] \in N /\ \E r \in Side : u.child[u.parent[m]][r] = m
    <3>1. Old(m) \in M /\ Old(m) # t.root
      BY <1>5, <1>8, <1>9
    <3>2. PICK r \in Side : t.child[t.parent[Old(m)]][r] = Old(m) /\ t.parent[Old(m)] \in M
      BY <1>3, <3>1
    <3> QED  BY <1>6, <1>7, <1>9, <3>1, <3>2
  <2>2. ASSUME NEW m \in N, NEW r \in Side
        PROVE  /\ u.child[m][r] \in N \cup {NULL}
               /\ u.child[m][r] # NULL => u.parent[u.child[m][r]] = m
    <3> DEFINE d == t.child[Old(m)][r]
    <3>1. /\ Old(m) \in M /\ d \in M \cup {NULL}
          /\ d # NULL => t.parent[d] = Old(m) /\ d # t.root
      BY <1>2, <1>5
    <3>2. New(NULL) = NULL
      BY <1>1 DEF New
    <3> HIDE DEF d
    <3>3. u.child[m][r] = New(d)
      BY <1>6 DEF d
    <3>4. d # NULL => New(d) \in N /\ Old(New(d)) = d
      BY <1>9, <3>1
    <3>5. d # NULL => u.parent[New(d)] = m
      BY <1>7, <1>9, <3>1, <3>4
    <3> QED  BY <1>9, <3>1, <3>2, <3>3, <3>5
  <2>3. ASSUME NEW m \in Node \ N
        PROVE  u.parent[m] = NULL /\ \A r \in Side : u.child[m][r] = NULL
    BY <1>1 DEF Swapped, Shape, Linked
  <2> QED  BY <1>1, <1>8, <1>9, <2>1, <2>2, <2>3 DEF Linked
<1>11. /\ sub \in [Link -> SUBSET M] /\ sub[NULL] = {} /\ sub[t.root] = M
       /\ N \cup {NULL} \subseteq Link /\ M \cup {NULL} \subseteq Link
  BY <1>1 DEF Shape, Labelled, Link
<1>12. ASSUME NEW m \in M \cup {NULL}
       PROVE  sub2[New(m)] \subseteq N /\ \A y \in N : y \in sub2[New(m)] <=> Old(y) \in sub[m]
  <2>1. New(m) \in Link /\ Old(New(m)) = m
    BY <1>9, <1>11
  <2>2. sub2[New(m)] = {y \in Node : \/ y = z /\ x \in sub[m]
                                     \/ y \notin {x, z} /\ y \in sub[m]}
    BY <2>1 DEF SwappedSub, Old
  <2>3. sub[m] \subseteq M
    BY <1>11
  <2> QED  BY <1>1, <2>2, <2>3 DEF Old
<1> HIDE DEF sub2
<1>13. ASSUME NEW m \in N, NEW r \in Side
       PROVE  /\ sub2[u.child[m][r]] \subseteq N
              /\ \A y \in N : y \in sub2[u.child[m][r]] <=> Old(y) \in sub[t.child[Old(m)][r]]
  <2>1. t.child[Old(m)][r] \in M \cup {NULL}
    BY <1>2, <1>5
  <2> QED  BY <1>6, <1>12, <2>1
<1>14. Labelled(u, N, sub2)
  <2>1. sub2 \in [Link -> SUBSET N]
    <3>1. \A m \in Link : sub[IF m = z THEN x ELSE m] \subseteq M
      BY <1>1, <1>11
    <3> QED  BY <1>1, <3>1 DEF sub2, SwappedSub
  <2>2. sub2[u.root] = N /\ sub2[NULL] = {}
    <3>1. \A y \in N : Old(y) \in sub[t.root]
      BY <1>5, <1>11
    <3>2. New(NULL) = NULL
      BY <1>1 DEF New
    <3> QED  BY <1>1, <1>8, <1>11, <1>12, <3>1, <3>2
  <2>3. ASSUME NEW m \in N, NEW y \in N
        PROVE  y \in sub2[m] <=> y = m \/ \E r \in Side : y \in sub2[u.child[m][r]]
    <3>1. Old(y) \in sub[Old(m)]
            <=> Old(y) = Old(m) \/ \E r \in Side : Old(y) \in sub[t.child[Old(m)][r]]
      BY <1>5 DEF Shape, Labelled
    <3>2. y \in sub2[m] <=> Old(y) \in sub[Old(m)]
      BY <1>5, <1>9, <1>12
    <3>3. y = m <=> Old(y) = Old(m)
      BY <1>9
    <3> QED  BY <1>13, <3>1, <3>2, <3>3
  <2> QED  BY <2>1, <2>2, <2>3 DEF Labelled
<1>15. Ordered(u, N, sub2)
  <2> SUFFICES ASSUME NEW m \in N, NEW r \in Side, NEW y \in sub2[u.child[m][r]]
               PROVE  Lt(r, y, m)
    BY DEF Ordered
  <2>1. y \in N /\ Old(y) \in sub[t.child[Old(m)][r]] /\ Old(m) \in M
    BY <1>5, <1>13
  <2>2. Lt(r, Old(y), Old(m))
    BY <2>1 DEF Shape, Ordered
  <2>3. Old(y) # Old(m)
    BY <2>1, ShapeFacts
  <2> QED  BY <1>1, <2>1, <2>2, <2>3 DEF Old
<1>16. Closed(u, N, sub2)
  <2> SUFFICES ASSUME NEW a \in N, NEW d \in N, d # a, d # u.root
               PROVE  d \in sub2[a] <=> u.parent[d] \in sub2[a]
    BY DEF Closed
  <2>1. Old(a) \in M /\ Old(d) \in M /\ Old(a) # Old(d) /\ Old(d) # t.root
    BY <1>5, <1>8, <1>9
  <2>2. Old(d) \in sub[Old(a)] <=> t.parent[Old(d)] \in sub[Old(a)]
    BY <2>1 DEF Shape, Closed
  <2>3. \A y \in N : y \in sub2[a] <=> Old(y) \in sub[Old(a)]
    BY <1>9, <1>12, <2>1
  <2>4. u.parent[d] \in N /\ Old(u.parent[d]) = t.parent[Old(d)]
    BY <1>3, <1>7, <1>9, <2>1
  <2> QED  BY <2>2, <2>3, <2>4
<1> QED  BY <1>10, <1>14, <1>15, <1>16 DEF Shape, sub2

-----------------------------------------------------------------------------
(* The code's rotations are rotations.                                     *)

TurnColors(t, u, p, n, s, k) ==
  \A m \in Node : u.color[m] = IF m = p THEN k ELSE IF m = n THEN t.color[p]
                               ELSE IF m = t.child[n][s] THEN RB_BLACK ELSE t.color[m]

LEMMA TurnRotates ==
  ASSUME NEW t, NEW M, NEW sub, Shape(t, M, sub),
         NEW s \in Side, NEW p \in M, NEW n \in M, t.child[p][Other(s)] = n,
         NEW k \in {RB_RED, RB_BLACK}
  PROVE  LET u == __rb_rotate_set_parents(TurnUp(t, p, n, s), p, n, k)
         IN  u \in Tree /\ Rotated(t, u, p, n, s) /\ TurnColors(t, u, p, n, s, k)
<1> DEFINE v == TurnUp(t, p, n, s)
           u == __rb_rotate_set_parents(v, p, n, k)
           g == t.parent[p]
           tmp == t.child[n][s]
<1>1. /\ t \in Tree /\ p \in Node /\ n \in Node /\ p # n /\ p # tmp /\ n # tmp
      /\ g # n /\ g # p /\ NULL \notin Node /\ g \in Link
      /\ g # NULL => \E r \in Side : t.child[g][r] = p
      /\ \A m \in Node, r \in Side : t.child[m][r] = p => m = g
  BY RotationFacts DEF Shape, Link
<1>2. TurnedUp(t, v, p, n, s)
  BY <1>1, TurnUpIs
<1>3. v \in Tree /\ v.parent[p] = g /\ v.color[p] = t.color[p]
  BY <1>1, <1>2 DEF TurnedUp
<1>4. ParentsRotated(v, u, p, n, k)
  BY <1>1, <1>3, RotateSetParentsIs
<1>5. g # NULL => \A r \in Side : v.child[g][r] = t.child[g][r]
  BY <1>1, <1>2 DEF TurnedUp, Link
<1>6. g # NULL => \A r \in Side :
        t.child[g][r] = p <=> r = IF v.child[g]["rb_left"] = p THEN "rb_left" ELSE "rb_right"
  <2>1. ASSUME g # NULL  PROVE t.child[g]["rb_left"] # p \/ t.child[g]["rb_right"] # p
    <3>1. g \in M
      BY <2>1, RotationFacts
    <3> QED  BY <1>1, <2>1, <3>1, ShapeFacts, SideFacts
  <2> QED  BY <1>1, <1>5, <2>1 DEF Side
<1> HIDE DEF v, u, g
<1>7. Rotated(t, u, p, n, s)
  <2>1. u.root = IF g = NULL THEN n ELSE t.root
    BY <1>2, <1>3, <1>4 DEF TurnedUp, ParentsRotated
  <2>2. ASSUME NEW m \in Node, NEW r \in Side
        PROVE  u.child[m][r] = IF m = p /\ r = Other(s) THEN tmp
                               ELSE IF m = n /\ r = s THEN p
                               ELSE IF t.child[m][r] = p THEN n
                               ELSE t.child[m][r]
    <3>1. CASE m = g
      BY <1>1, <1>2, <1>3, <1>4, <1>5, <1>6, <3>1 DEF ParentsRotated
    <3>2. CASE m # g
      BY <1>1, <1>2, <1>3, <1>4, <3>2 DEF TurnedUp, ParentsRotated
    <3> QED  BY <3>1, <3>2
  <2>3. ASSUME NEW m \in Node
        PROVE  u.parent[m] = IF m = n THEN g ELSE IF m = p THEN n
                             ELSE IF m = tmp THEN p ELSE t.parent[m]
    BY <1>1, <1>2, <1>3, <1>4 DEF TurnedUp, ParentsRotated
  <2> QED  BY <2>1, <2>2, <2>3 DEF Rotated, g
<1>8. TurnColors(t, u, p, n, s, k)
  <2>1. \A m \in Node : v.color[m] = IF m = tmp THEN RB_BLACK ELSE t.color[m]
    BY <1>2 DEF TurnedUp
  <2>2. \A m \in Node : u.color[m] = IF m = p THEN k ELSE IF m = n THEN t.color[p]
                                     ELSE v.color[m]
    BY <1>3, <1>4 DEF ParentsRotated
  <2> QED  BY <1>1, <2>1, <2>2 DEF TurnColors
<1> QED  BY <1>4, <1>7, <1>8 DEF ParentsRotated, u, v

(* Two rotations: k, the inner child of n, takes the place of n first and  *)
(* then that of p.                                                         *)

RotTree(t, p, n, s) ==
  [root |-> IF t.parent[p] = NULL THEN n ELSE t.root,
   child |-> [m \in Node |-> [r \in Side |-> IF m = p /\ r = Other(s) THEN t.child[n][s]
                                             ELSE IF m = n /\ r = s THEN p
                                             ELSE IF t.child[m][r] = p THEN n
                                             ELSE t.child[m][r]]],
   parent |-> [m \in Node |-> IF m = n THEN t.parent[p]
                              ELSE IF m = p THEN n
                              ELSE IF m = t.child[n][s] THEN p
                              ELSE t.parent[m]],
   color |-> t.color]

LEMMA RotTreeIs ==
  ASSUME NEW t \in Tree, NEW p \in Node, NEW n \in Node, NEW s \in Side
  PROVE  RotTree(t, p, n, s) \in Tree /\ Rotated(t, RotTree(t, p, n, s), p, n, s)
<1>1. \A m \in Node, r \in Side : t.child[m][r] \in Link
  BY DEF Tree
<1>2. p \in Link /\ n \in Link /\ t.root \in Link /\ \A m \in Node : t.parent[m] \in Link
  BY DEF Tree, Link
<1>3. t.color \in [Node -> {RB_RED, RB_BLACK}]
  BY DEF Tree
<1>4. RotTree(t, p, n, s) \in Tree
  BY <1>1, <1>2, <1>3 DEF Tree, RotTree
<1> QED  BY <1>4 DEF Rotated, RotTree

DoublyRotated(t, u, p, n, k, s) ==
  LET o == Other(s)
  IN  /\ u.root = IF t.parent[p] = NULL THEN k ELSE t.root
      /\ \A m \in Node, r \in Side :
           u.child[m][r] = IF m = p /\ r = o THEN t.child[k][s]
                           ELSE IF m = n /\ r = s THEN t.child[k][o]
                           ELSE IF m = k THEN (IF r = s THEN p ELSE n)
                           ELSE IF t.child[m][r] = p THEN k
                           ELSE t.child[m][r]
      /\ \A m \in Node :
           u.parent[m] = IF m = k THEN t.parent[p]
                         ELSE IF m \in {n, p} THEN k
                         ELSE IF m = t.child[k][s] THEN p
                         ELSE IF m = t.child[k][o] THEN n
                         ELSE t.parent[m]

(* How the nodes around a double rotation are linked.                      *)
Angle(t, M, p, n, k, s) ==
  LET o == Other(s)
      Out == (M \cup {NULL}) \ {p, n, k}
  IN  /\ n # p /\ p # k /\ n # k /\ NULL \notin Node /\ M \subseteq Node
      /\ o \in Side /\ o # s /\ Other(o) = s /\ t \in Tree
      /\ t.child[p][o] = n /\ t.child[n][s] = k
      /\ t.parent[n] = p /\ t.parent[k] = n /\ t.parent[p] \in Out
      /\ (t.parent[p] = NULL <=> t.root = p) /\ n # t.root /\ k # t.root
      /\ t.child[k][s] \in Out /\ t.child[k][o] \in Out
      /\ t.child[p][s] \in Out /\ t.child[n][o] \in Out
      /\ t.child[k][s] # NULL => t.child[k][s] # t.child[k][o]
      /\ \A m \in Node, r \in Side : t.child[m][r] = p => m \notin {p, n, k}
      /\ \A m \in Node, r \in Side : t.child[m][r] = n => m = p /\ r = o
      /\ \A m \in Node, r \in Side : t.child[m][r] = k => m = n /\ r = s

LEMMA DoubleFacts ==
  ASSUME NEW t, NEW M, NEW sub, Shape(t, M, sub),
         NEW s \in Side, NEW p \in M, NEW n \in M, t.child[p][Other(s)] = n,
         NEW k \in M, t.child[n][s] = k
  PROVE  Angle(t, M, p, n, k, s)
<1> DEFINE o == Other(s)
           Out == (M \cup {NULL}) \ {p, n, k}
<1>1. /\ o \in Side /\ o # s /\ Other(o) = s /\ t \in Tree
      /\ NULL \notin Node /\ M \subseteq Node
  BY SideFacts, NodeAssumption DEF Shape, Linked
<1>2. /\ n # p /\ p # k /\ n # k /\ n # t.root /\ t.parent[n] = p /\ k # NULL
      /\ t.parent[p] \in M \cup {NULL} /\ (t.parent[p] = NULL <=> p = t.root)
      /\ t.parent[k] = n /\ k # t.root
      /\ t.parent[p] # n /\ t.parent[p] # p /\ (t.parent[p] # NULL => t.parent[p] # k)
  BY <1>1, RotationFacts
<1>3. t.parent[p] \in Out
  BY <1>1, <1>2
<1>4. \A m \in Node, r \in Side : t.child[m][r] \in M => m \in M /\ m = t.parent[t.child[m][r]]
  BY <1>1 DEF Shape, Linked
<1>5. \A m \in M, r \in Side : t.child[m][r] \in M \cup {NULL} /\ t.child[m][r] # m
  BY <1>1, ShapeFacts DEF Shape, Linked
<1>6. \A m \in M, r \in Side : t.child[m][r] # NULL => t.child[m][r] # t.child[m][Other(r)]
  BY ShapeFacts
<1>7. \A m \in Node, r \in Side : t.child[m][r] = p => m \notin {p, n, k}
  BY <1>1, <1>2, <1>4
<1>8. \A r \in Side : r = s \/ r = o
  BY SideFacts
<1>9. \A m \in Node, r \in Side : t.child[m][r] = n => m = p /\ r = o
  <2> SUFFICES ASSUME NEW m \in Node, NEW r \in Side, t.child[m][r] = n
               PROVE  m = p /\ r = o
    OBVIOUS
  <2>1. m = p
    BY <1>2, <1>4
  <2>2. t.child[p][o] # t.child[p][Other(o)]
    BY <1>1, <1>2, <1>6
  <2> QED  BY <1>1, <1>8, <2>1, <2>2
<1>10. \A m \in Node, r \in Side : t.child[m][r] = k => m = n /\ r = s
  <2> SUFFICES ASSUME NEW m \in Node, NEW r \in Side, t.child[m][r] = k
               PROVE  m = n /\ r = s
    OBVIOUS
  <2>1. m = n
    BY <1>2, <1>4
  <2>2. t.child[n][s] # t.child[n][o]
    BY <1>2, <1>6
  <2> QED  BY <1>8, <2>1, <2>2
<1>11. /\ t.child[k][s] \in Out /\ t.child[k][o] \in Out
       /\ t.child[p][s] \in Out /\ t.child[n][o] \in Out
  <2>1. ASSUME NEW m \in {p, n, k}, NEW r \in Side,
               m = p => r = s, m = n => r = o
        PROVE  t.child[m][r] \in Out
    <3>1. m \in M /\ m \in Node
      BY <1>1
    <3>2. t.child[m][r] \in M \cup {NULL} /\ t.child[m][r] # p
      BY <1>5, <1>7, <3>1
    <3>3. t.child[m][r] # n
      BY <1>1, <1>9, <2>1, <3>1
    <3>4. t.child[m][r] # k
      BY <1>1, <1>10, <2>1, <3>1
    <3> QED  BY <3>2, <3>3, <3>4
  <2> QED  BY <1>1, <1>2, <2>1
<1> QED  BY <1>1, <1>2, <1>3, <1>6, <1>7, <1>9, <1>10, <1>11 DEF Angle

(* The tree between the two rotations, link by link.                       *)
Midway(t, w, p, n, k, s) ==
  LET o == Other(s)
  IN  /\ w.root = t.root
      /\ \A m \in Node, r \in Side :
           w.child[m][r] = IF m = n /\ r = s THEN t.child[k][o]
                           ELSE IF m = k /\ r = o THEN n
                           ELSE IF m = p /\ r = o THEN k
                           ELSE t.child[m][r]
      /\ \A m \in Node :
           w.parent[m] = IF m = k THEN p ELSE IF m = n THEN k
                         ELSE IF m = t.child[k][o] THEN n ELSE t.parent[m]

LEMMA TurnOnce ==
  ASSUME NEW t, NEW M, NEW s \in Side, NEW p \in M, NEW n \in M, NEW k \in M,
         Angle(t, M, p, n, k, s), NEW w, Rotated(t, w, n, k, Other(s))
  PROVE  Midway(t, w, p, n, k, s)
<1> DEFINE o == Other(s)
<1>1. /\ Other(o) = s /\ t.parent[n] = p /\ p # NULL /\ p \in Node
      /\ t.child[p][o] = n
      /\ \A m \in Node, r \in Side : t.child[m][r] = n => m = p /\ r = o
  BY DEF Angle
<1>2. w.root = t.root
  BY <1>1 DEF Rotated
<1>3. ASSUME NEW m \in Node, NEW r \in Side
      PROVE  w.child[m][r] = IF m = n /\ r = s THEN t.child[k][o]
                             ELSE IF m = k /\ r = o THEN n
                             ELSE IF m = p /\ r = o THEN k
                             ELSE t.child[m][r]
  <2>1. t.child[m][r] = n <=> m = p /\ r = o
    BY <1>1
  <2>2. w.child[m][r] = IF m = n /\ r = Other(o) THEN t.child[k][o]
                        ELSE IF m = k /\ r = o THEN n
                        ELSE IF t.child[m][r] = n THEN k
                        ELSE t.child[m][r]
    BY DEF Rotated
  <2> QED  BY <1>1, <2>1, <2>2
<1>4. ASSUME NEW m \in Node
      PROVE  w.parent[m] = IF m = k THEN p ELSE IF m = n THEN k
                           ELSE IF m = t.child[k][o] THEN n ELSE t.parent[m]
  BY <1>1 DEF Rotated
<1> QED  BY <1>2, <1>3, <1>4 DEF Midway

LEMMA TurnAgain ==
  ASSUME NEW t, NEW M, NEW s \in Side, NEW p \in M, NEW n \in M, NEW k \in M,
         Angle(t, M, p, n, k, s), NEW w, Midway(t, w, p, n, k, s),
         NEW u, DoublyRotated(t, u, p, n, k, s)
  PROVE  w.child[p][Other(s)] = k /\ Rotated(w, u, p, k, s)
<1> DEFINE o == Other(s)
<1>1. /\ n # p /\ p # k /\ n # k /\ p \in Node /\ n \in Node /\ k \in Node
      /\ o \in Side /\ o # s /\ t.child[k][s] \notin {p, n, k}
      /\ t.child[k][o] \notin {p, n, k}
      /\ t.child[k][s] # NULL => t.child[k][s] # t.child[k][o]
      /\ \A m \in Node, r \in Side : t.child[m][r] = p => m \notin {p, n, k}
  BY DEF Angle
<1>2. \A r \in Side : r = s \/ r = o
  BY SideFacts
<1>3. \A m \in Node, r \in Side :
        w.child[m][r] = IF m = n /\ r = s THEN t.child[k][o]
                        ELSE IF m = k /\ r = o THEN n
                        ELSE IF m = p /\ r = o THEN k
                        ELSE t.child[m][r]
  BY DEF Midway
<1>4. \A m \in Node :
        w.parent[m] = IF m = k THEN p ELSE IF m = n THEN k
                      ELSE IF m = t.child[k][o] THEN n ELSE t.parent[m]
  BY DEF Midway
<1>5. w.child[p][o] = k /\ w.child[k][s] = t.child[k][s] /\ w.parent[p] = t.parent[p]
  BY <1>1, <1>3, <1>4
<1>6. u.root = IF w.parent[p] = NULL THEN k ELSE w.root
  BY <1>5 DEF Midway, DoublyRotated
<1>7. ASSUME NEW m \in Node, NEW r \in Side
      PROVE  u.child[m][r] = IF m = p /\ r = o THEN w.child[k][s]
                             ELSE IF m = k /\ r = s THEN p
                             ELSE IF w.child[m][r] = p THEN k
                             ELSE w.child[m][r]
  <2>1. u.child[m][r] = IF m = p /\ r = o THEN t.child[k][s]
                        ELSE IF m = n /\ r = s THEN t.child[k][o]
                        ELSE IF m = k THEN (IF r = s THEN p ELSE n)
                        ELSE IF t.child[m][r] = p THEN k
                        ELSE t.child[m][r]
    BY DEF DoublyRotated
  <2> HIDE DEF o
  <2>2. CASE m = p
    BY <1>1, <1>2, <1>3, <1>5, <2>1, <2>2
  <2>3. CASE m = n
    BY <1>1, <1>3, <2>1, <2>3
  <2>4. CASE m = k
    BY <1>1, <1>2, <1>3, <2>1, <2>4
  <2>5. CASE m \notin {p, n, k}
    BY <1>3, <2>1, <2>5
  <2> QED  BY <2>2, <2>3, <2>4, <2>5
<1>8. ASSUME NEW m \in Node
      PROVE  u.parent[m] = IF m = k THEN w.parent[p]
                           ELSE IF m = p THEN k
                           ELSE IF m = w.child[k][s] THEN p
                           ELSE w.parent[m]
  <2>1. u.parent[m] = IF m = k THEN t.parent[p]
                      ELSE IF m \in {n, p} THEN k
                      ELSE IF m = t.child[k][s] THEN p
                      ELSE IF m = t.child[k][o] THEN n
                      ELSE t.parent[m]
    BY DEF DoublyRotated
  <2> QED  BY <1>1, <1>4, <1>5, <2>1
<1> QED  BY <1>5, <1>6, <1>7, <1>8 DEF Rotated

LEMMA DoubleShape ==
  ASSUME NEW t, NEW M, NEW sub, Shape(t, M, sub),
         NEW s \in Side, NEW p \in M, NEW n \in M, NEW k \in M,
         Angle(t, M, p, n, k, s),
         NEW u \in Tree, DoublyRotated(t, u, p, n, k, s)
  PROVE  \E sub2 : Shape(u, M, sub2)
<1> DEFINE o == Other(s)
<1>1. /\ o \in Side /\ Other(o) = s /\ t \in Tree /\ n \in Node /\ k \in Node
      /\ k = t.child[n][Other(o)]
  BY DEF Angle
<1>2. PICK w \in Tree : Rotated(t, w, n, k, o)
  BY <1>1, RotTreeIs
<1>3. Shape(w, M, RotatedSub(t, sub, n, k, o))
  BY <1>1, <1>2, RotateShape
<1>4. k = w.child[p][o] /\ Rotated(w, u, p, k, s)
  BY <1>2, TurnOnce, TurnAgain
<1> HIDE DEF o
<1> QED  BY <1>3, <1>4, RotateShape DEF o

-----------------------------------------------------------------------------
(* What the two ways of the code to turn n up over p do to the links, when *)
(* only the parent of p points to p.                                       *)

Held(v, p) ==
  /\ v.parent[p] # NULL => \E q \in Side : /\ v.child[v.parent[p]][q] = p
                                           /\ v.child[v.parent[p]][Other(q)] # p
  /\ \A m \in Node, r \in Side : v.child[m][r] = p => m = v.parent[p]

Lowered(v, w, p, n, s) ==
  /\ w \in Tree /\ w.root = v.root /\ w.parent[p] = v.parent[p]
  /\ \A m \in Node, r \in Side :
       w.child[m][r] = IF m = p /\ r = Other(s) THEN v.child[n][s]
                       ELSE IF m = n /\ r = s THEN p ELSE v.child[m][r]

Hoisted(v, u, p, n, s) ==
  /\ u.root = IF v.parent[p] = NULL THEN n ELSE v.root
  /\ \A m \in Node, r \in Side :
       u.child[m][r] = IF m = p /\ r = Other(s) THEN v.child[n][s]
                       ELSE IF m = n /\ r = s THEN p
                       ELSE IF v.child[m][r] = p THEN n
                       ELSE v.child[m][r]

LEMMA HoistIs ==
  ASSUME NEW v \in Tree, NEW p \in Node, NEW n \in Node, p # n, NEW s \in Side,
         v.parent[p] \notin {p, n}, Held(v, p),
         NEW w, Lowered(v, w, p, n, s), NEW k, NEW u, ParentsRotated(w, u, p, n, k)
  PROVE  Hoisted(v, u, p, n, s)
<1> DEFINE g == v.parent[p]
           tmp == v.child[n][s]
           side == IF w.child[g]["rb_left"] = p THEN "rb_left" ELSE "rb_right"
<1>1. w.parent[p] = g /\ w.root = v.root /\ g # p /\ g # n /\ g \in Link
  BY DEF Lowered, Tree
<1>2. /\ u.root = IF g = NULL THEN n ELSE w.root
      /\ \A m \in Node, r \in Side :
           u.child[m][r] = IF m = g /\ r = side THEN n ELSE w.child[m][r]
  BY <1>1 DEF ParentsRotated
<1>3. g # NULL => \A r \in Side : w.child[g][r] = v.child[g][r]
  BY <1>1 DEF Lowered, Link
<1>4. g # NULL => \A r \in Side : v.child[g][r] = p <=> r = side
  <2> SUFFICES ASSUME g # NULL, NEW r \in Side
               PROVE  v.child[g][r] = p <=> r = side
    OBVIOUS
  <2>1. PICK q \in Side : v.child[g][q] = p /\ v.child[g][Other(q)] # p
    BY DEF Held
  <2>2. w.child[g]["rb_left"] = v.child[g]["rb_left"]
    BY <1>3, SideFacts
  <2>3. q = side
    BY <2>1, <2>2 DEF Side, Other
  <2>4. r = q \/ r = Other(q)
    BY SideFacts
  <2> QED  BY <2>1, <2>3, <2>4, SideFacts
<1> HIDE DEF g, side
<1>5. ASSUME NEW m \in Node, NEW r \in Side
      PROVE  u.child[m][r] = IF m = p /\ r = Other(s) THEN tmp
                             ELSE IF m = n /\ r = s THEN p
                             ELSE IF v.child[m][r] = p THEN n
                             ELSE v.child[m][r]
  <2>1. CASE m = g
    <3>1. g # NULL
      BY <2>1, NodeAssumption
    <3>2. v.child[g][r] = p <=> r = side
      BY <1>4, <3>1
    <3>3. w.child[g][r] = v.child[g][r]
      BY <1>3, <3>1
    <3> QED  BY <1>1, <1>2, <2>1, <3>2, <3>3
  <2>2. CASE m # g
    <3>1. v.child[m][r] # p
      BY <2>2 DEF Held, g
    <3>2. u.child[m][r] = w.child[m][r]
      BY <1>2, <2>2
    <3> QED  BY <3>1, <3>2 DEF Lowered
  <2> QED  BY <2>1, <2>2
<1> QED  BY <1>1, <1>2, <1>5 DEF Hoisted, g

LEMMA ShapeHeld ==
  ASSUME NEW t, NEW M, NEW sub, Shape(t, M, sub), NEW p \in M
  PROVE  Held(t, p)
<1> DEFINE g == t.parent[p]
<1>1. ASSUME NEW m \in Node, NEW r \in Side, t.child[m][r] = p  PROVE m = g
  BY <1>1, NodeAssumption DEF Shape, Linked
<1>2. ASSUME g # NULL
      PROVE  \E q \in Side : t.child[g][q] = p /\ t.child[g][Other(q)] # p
  <2>1. p # t.root /\ g \in M /\ p # NULL
    BY <1>2, NodeAssumption DEF Shape, Linked
  <2>2. PICK q \in Side : t.child[g][q] = p
    BY <2>1 DEF Shape, Linked
  <2> QED  BY <2>1, <2>2, ShapeFacts
<1> QED  BY <1>1, <1>2 DEF Held

(* The double rotation of __rb_insert_fix, store by store.                 *)

TwiceTurned(t, u, p, n, k, s) ==
  /\ u \in Tree /\ DoublyRotated(t, u, p, n, k, s)
  /\ u.color[p] = RB_RED /\ u.color[n] = RB_RED /\ u.color[k] = t.color[p]
  /\ \A m \in Node \ {p, n, k} :
       u.color[m] = IF m \in {t.child[k][s], t.child[k][Other(s)]} THEN RB_BLACK
                    ELSE t.color[m]

LEMMA TurnDoublesIs ==
  ASSUME NEW t, NEW M, NEW s \in Side, NEW p \in M, NEW n \in M, NEW k \in M,
         Angle(t, M, p, n, k, s), Held(t, p),
         NEW t1, TurnedUp(t, t1, n, k, Other(s)),
         NEW t2, ParentColorStored(t1, t2, n, k, RB_RED),
         NEW w, TurnedUp(t2, w, p, k, s),
         NEW u, ParentsRotated(w, u, p, k, RB_RED)
  PROVE  TwiceTurned(t, u, p, n, k, s)
<1> DEFINE o == Other(s)
           Out == (M \cup {NULL}) \ {p, n, k}
<1>1. /\ n # p /\ p # k /\ n # k /\ NULL \notin Node /\ M \subseteq Node
      /\ o \in Side /\ o # s /\ Other(o) = s /\ t \in Tree
      /\ t.parent[n] = p /\ t.parent[k] = n /\ t.parent[p] \in Out
      /\ n # t.root /\ k # t.root
      /\ t.child[k][s] \in Out /\ t.child[k][o] \in Out
      /\ t.child[p][s] \in Out /\ t.child[n][o] \in Out
      /\ t.child[k][s] # NULL => t.child[k][s] # t.child[k][o]
      /\ \A m \in Node, r \in Side : t.child[m][r] = p => m \notin {p, n, k}
  BY DEF Angle
<1>2. TurnedUp(t, t1, n, k, o)
  OBVIOUS
<1> HIDE DEF o, Out
<1>5. /\ t2 \in Tree /\ t2.root = t.root
      /\ \A m \in Node, r \in Side :
           t2.child[m][r] = IF m = n /\ r = s THEN t.child[k][o]
                            ELSE IF m = k /\ r = o THEN n ELSE t.child[m][r]
  BY <1>1, <1>2 DEF TurnedUp, ParentColorStored
<1>6. /\ \A m \in Node : /\ t2.parent[m] = IF m = n THEN k ELSE IF m = t.child[k][o] THEN n
                                           ELSE t.parent[m]
                         /\ t2.color[m] = IF m = n THEN RB_RED ELSE IF m = t.child[k][o]
                                          THEN RB_BLACK ELSE t.color[m]
  BY <1>2 DEF TurnedUp, ParentColorStored
<1>7. t2.parent[p] = t.parent[p] /\ t2.child[k][s] = t.child[k][s] /\ t2.color[p] = t.color[p]
  BY <1>1, <1>5, <1>6 DEF Out
<1>10. ASSUME NEW m \in Node, NEW r \in Side
       PROVE  t2.child[m][r] = p <=> t.child[m][r] = p
  BY <1>1, <1>5 DEF Out
<1>11. Held(t2, p)
  <2>2. t.parent[p] # NULL => t.parent[p] \in Node
    BY <1>1 DEF Out
  <2>3. \A q \in Side : Other(q) \in Side
    BY SideFacts
  <2>4. ASSUME t.parent[p] # NULL
        PROVE  \E q \in Side : /\ t2.child[t.parent[p]][q] = p
                               /\ t2.child[t.parent[p]][Other(q)] # p
    <3>1. PICK q \in Side : t.child[t.parent[p]][q] = p /\ t.child[t.parent[p]][Other(q)] # p
      BY <2>4 DEF Held
    <3> QED  BY <1>10, <2>2, <2>3, <2>4, <3>1
  <2>5. \A m \in Node, r \in Side : t2.child[m][r] = p => m = t.parent[p]
    BY <1>10 DEF Held
  <2> QED  BY <1>7, <2>4, <2>5 DEF Held
<1>12. Hoisted(t2, u, p, k, s)
  <2>1. Lowered(t2, w, p, k, s)
    BY <1>1, <1>7 DEF TurnedUp, Lowered, Out
  <2>2. t2.parent[p] \notin {p, k} /\ p \in Node /\ k \in Node /\ t2 \in Tree
    BY <1>1, <1>5, <1>7 DEF Out
  <2> QED  BY <1>1, <1>11, <2>1, <2>2, HoistIs
<1>13. DoublyRotated(t, u, p, n, k, s)
  <2>1. u.root = IF t.parent[p] = NULL THEN k ELSE t.root
    BY <1>5, <1>7, <1>12 DEF Hoisted
  <2>2. ASSUME NEW m \in Node, NEW r \in Side
        PROVE  u.child[m][r] = IF m = p /\ r = o THEN t.child[k][s]
                               ELSE IF m = n /\ r = s THEN t.child[k][o]
                               ELSE IF m = k THEN (IF r = s THEN p ELSE n)
                               ELSE IF t.child[m][r] = p THEN k
                               ELSE t.child[m][r]
    <3>1. u.child[m][r] = IF m = p /\ r = o THEN t.child[k][s]
                          ELSE IF m = k /\ r = s THEN p
                          ELSE IF t.child[m][r] = p THEN k
                          ELSE t2.child[m][r]
      BY <1>7, <1>10, <1>12 DEF Hoisted, o
    <3>2. r = s \/ r = o
      BY SideFacts DEF o
    <3>3. t.child[m][r] = p => m \notin {p, n, k}
      BY <1>1
    <3> QED  BY <1>1, <1>5, <3>1, <3>2, <3>3
  <2>3. ASSUME NEW m \in Node
        PROVE  u.parent[m] = IF m = k THEN t.parent[p]
                             ELSE IF m \in {n, p} THEN k
                             ELSE IF m = t.child[k][s] THEN p
                             ELSE IF m = t.child[k][o] THEN n
                             ELSE t.parent[m]
    <3>1. w.parent[p] = t.parent[p]
      BY <1>1, <1>7 DEF TurnedUp, Out
    <3>2. u.parent[m] = IF m = p THEN k ELSE IF m = k THEN t.parent[p] ELSE w.parent[m]
      BY <3>1 DEF ParentsRotated
    <3>3. w.parent[m] = IF m = t.child[k][s] THEN p ELSE t2.parent[m]
      BY <1>7 DEF TurnedUp
    <3> QED  BY <1>1, <1>6, <3>2, <3>3 DEF Out
  <2> QED  BY <2>1, <2>2, <2>3 DEF DoublyRotated, o
<1>14. \A m \in Node : /\ w.color[m] = IF m = t.child[k][s] THEN RB_BLACK ELSE t2.color[m]
                       /\ u.color[m] = IF m = p THEN RB_RED
                                       ELSE IF m = k THEN w.color[p] ELSE w.color[m]
  <2>1. \A m \in Node : w.color[m] = IF m = t.child[k][s] THEN RB_BLACK ELSE t2.color[m]
    BY <1>7 DEF TurnedUp
  <2>2. \A m \in Node : u.color[m] = IF m = p THEN RB_RED
                                     ELSE IF m = k THEN w.color[p] ELSE w.color[m]
    BY <1>7 DEF ParentsRotated
  <2> QED  BY <2>1, <2>2
<1>15. u.color[p] = RB_RED /\ u.color[n] = RB_RED /\ u.color[k] = t.color[p]
  BY <1>1, <1>6, <1>7, <1>14 DEF Out
<1>16. ASSUME NEW m \in Node \ {p, n, k}
       PROVE  u.color[m] = IF m \in {t.child[k][s], t.child[k][o]} THEN RB_BLACK
                           ELSE t.color[m]
  BY <1>6, <1>14
<1> QED  BY <1>13, <1>15, <1>16 DEF ParentsRotated, TwiceTurned, o

LEMMA TurnDoubles ==
  ASSUME NEW t, NEW M, NEW sub, Shape(t, M, sub),
         NEW s \in Side, NEW p \in M, NEW n \in M, t.child[p][Other(s)] = n,
         NEW k \in M, t.child[n][s] = k
  PROVE  LET t2 == rb_set_parent_color(TurnUp(t, n, k, Other(s)), n, k, RB_RED)
         IN  TwiceTurned(t, __rb_rotate_set_parents(TurnUp(t2, p, k, s), p, k, RB_RED),
                         p, n, k, s)
<1> DEFINE o == Other(s)
           t1 == TurnUp(t, n, k, o)
           t2 == rb_set_parent_color(t1, n, k, RB_RED)
           w == TurnUp(t2, p, k, s)
           u == __rb_rotate_set_parents(w, p, k, RB_RED)
<1>1. Angle(t, M, p, n, k, s) /\ Held(t, p)
  BY DoubleFacts, ShapeHeld
<1>2. /\ n # p /\ p # k /\ n # k /\ o \in Side /\ t \in Tree
      /\ p \in Node /\ n \in Node /\ k \in Node /\ n \in Link /\ k \in Link
      /\ RB_RED \in {RB_RED, RB_BLACK}
  BY <1>1 DEF Angle, Link
<1>3. TurnedUp(t, t1, n, k, o)
  BY <1>2, TurnUpIs
<1>4. t1 \in Tree
  BY <1>3 DEF TurnedUp
<1>5. ParentColorStored(t1, t2, n, k, RB_RED)
  BY <1>2, <1>4, SetParentColorIs
<1>6. t2 \in Tree
  BY <1>5 DEF ParentColorStored
<1>7. TurnedUp(t2, w, p, k, s)
  BY <1>2, <1>6, TurnUpIs
<1>8. w \in Tree
  BY <1>7 DEF TurnedUp
<1>9. ParentsRotated(w, u, p, k, RB_RED)
  BY <1>2, <1>8, RotateSetParentsIs
<1> HIDE DEF t1, t2, w, u
<1>10. TwiceTurned(t, u, p, n, k, s)
  BY <1>1, <1>3, <1>5, <1>7, <1>9, TurnDoublesIs DEF o
<1> QED  BY <1>10 DEF u, w, t2, t1, o

(* The last turn of __rb_erase_fix: n is turned up over p, and low, below  *)
(* n, becomes black.                                                       *)

NephewStored(v, w, p, n, low, s) ==
  /\ w \in Tree /\ w.root = v.root
  /\ \A m \in Node, r \in Side :
       w.child[m][r] = IF m = p /\ r = Other(s) THEN v.child[n][s]
                       ELSE IF m = n /\ r = s THEN p ELSE v.child[m][r]
  /\ \A m \in Node : /\ w.parent[m] = IF m = low THEN n ELSE IF m = v.child[n][s] THEN p
                                      ELSE v.parent[m]
                     /\ w.color[m] = IF m = low THEN RB_BLACK ELSE v.color[m]

LEMMA NephewStoredIs ==
  ASSUME NEW v \in Tree, NEW p \in Node, NEW n \in Node, p # n, NEW low \in Node, NEW s \in Side
  PROVE  LET tmp == v.child[n][s]
             t4 == SetChild(rb_set_parent(SetChild(v, p, Other(s), tmp), tmp, p), n, s, p)
         IN  NephewStored(v, rb_set_parent_color(t4, low, n, RB_BLACK), p, n, low, s)
<1> DEFINE tmp == v.child[n][s]
           t1 == SetChild(v, p, Other(s), tmp)
           t2 == rb_set_parent(t1, tmp, p)
           t4 == SetChild(t2, n, s, p)
           w == rb_set_parent_color(t4, low, n, RB_BLACK)
<1>1. /\ tmp \in Link /\ Other(s) \in Side /\ p \in Link /\ n \in Link /\ low \in Link
      /\ RB_BLACK \in {RB_RED, RB_BLACK}
  BY SideFacts DEF Tree, Link
<1>2. ChildStored(v, t1, p, Other(s), tmp)
  BY <1>1, SetChildIs
<1>3. t1 \in Tree
  BY <1>2 DEF ChildStored
<1>4. ParentStored(t1, t2, tmp, p)
  BY <1>1, <1>3, SetParentIs
<1>5. t2 \in Tree
  BY <1>4 DEF ParentStored
<1>6. ChildStored(t2, t4, n, s, p)
  BY <1>1, <1>5, SetChildIs
<1>7. t4 \in Tree
  BY <1>6 DEF ChildStored
<1>8. ParentColorStored(t4, w, low, n, RB_BLACK)
  BY <1>1, <1>7, SetParentColorIs
<1> HIDE DEF t1, t2, t4, w
<1>9. NephewStored(v, w, p, n, low, s)
  <2>1. w \in Tree /\ w.root = v.root
    BY <1>2, <1>4, <1>6, <1>8 DEF ChildStored, ParentStored, ParentColorStored
  <2>2. ASSUME NEW m \in Node, NEW r \in Side
        PROVE  w.child[m][r] = IF m = p /\ r = Other(s) THEN v.child[n][s]
                               ELSE IF m = n /\ r = s THEN p ELSE v.child[m][r]
    BY <1>2, <1>4, <1>6, <1>8 DEF ChildStored, ParentStored, ParentColorStored
  <2>3. ASSUME NEW m \in Node
        PROVE  /\ w.parent[m] = IF m = low THEN n ELSE IF m = v.child[n][s] THEN p
                                ELSE v.parent[m]
               /\ w.color[m] = IF m = low THEN RB_BLACK ELSE v.color[m]
    BY <1>2, <1>4, <1>6, <1>8 DEF ChildStored, ParentStored, ParentColorStored
  <2> QED  BY <2>1, <2>2, <2>3 DEF NephewStored
<1> QED  BY <1>9 DEF w, t4, t2, t1

NephewTurned(t, u, p, n, f, s) ==
  /\ u \in Tree /\ Rotated(t, u, p, n, s)
  /\ u.color[p] = RB_BLACK /\ u.color[n] = t.color[p] /\ u.color[f] = RB_BLACK
  /\ \A m \in Node \ {p, n, f} : u.color[m] = t.color[m]

LEMMA NephewTurnedIs ==
  ASSUME NEW t \in Tree, NEW s \in Side, NEW p \in Node, NEW n \in Node, NEW f \in Node,
         p # n, p # f, n # f, t.child[n][s] \notin {p, n, f},
         t.parent[f] = n, t.parent[p] \notin {p, n}, Held(t, p),
         NEW w, NephewStored(t, w, p, n, f, s),
         NEW u, ParentsRotated(w, u, p, n, RB_BLACK)
  PROVE  NephewTurned(t, u, p, n, f, s)
<1> DEFINE tmp == t.child[n][s]
<1>1. w.parent[p] = t.parent[p] /\ w.color[p] = t.color[p] /\ u \in Tree
  BY DEF NephewStored, ParentsRotated
<1>2. Lowered(t, w, p, n, s)
  BY <1>1 DEF NephewStored, Lowered
<1>3. Hoisted(t, u, p, n, s)
  BY <1>2, HoistIs
<1>4. ASSUME NEW m \in Node
      PROVE  u.parent[m] = IF m = n THEN t.parent[p] ELSE IF m = p THEN n
                           ELSE IF m = tmp THEN p ELSE t.parent[m]
  <2>1. u.parent[m] = IF m = p THEN n ELSE IF m = n THEN t.parent[p] ELSE w.parent[m]
    BY <1>1 DEF ParentsRotated
  <2>2. w.parent[m] = IF m = f THEN n ELSE IF m = tmp THEN p ELSE t.parent[m]
    BY DEF NephewStored
  <2> QED  BY <2>1, <2>2
<1>5. Rotated(t, u, p, n, s)
  BY <1>3, <1>4 DEF Rotated, Hoisted
<1>6. \A m \in Node : /\ u.color[m] = IF m = p THEN RB_BLACK ELSE IF m = n THEN t.color[p]
                                      ELSE w.color[m]
                      /\ w.color[m] = IF m = f THEN RB_BLACK ELSE t.color[m]
  BY <1>1 DEF ParentsRotated, NephewStored
<1> QED  BY <1>1, <1>5, <1>6 DEF NephewTurned

NephewTwiceTurned(t, u, p, n, k, s) ==
  /\ u \in Tree /\ DoublyRotated(t, u, p, n, k, s)
  /\ u.color[p] = RB_BLACK /\ u.color[n] = RB_BLACK /\ u.color[k] = t.color[p]
  /\ \A m \in Node \ {p, n, k} :
       u.color[m] = IF m = t.child[k][Other(s)] THEN RB_BLACK ELSE t.color[m]

LEMMA NephewTwiceTurnedIs ==
  ASSUME NEW t, NEW M, NEW s \in Side, NEW p \in M, NEW n \in M, NEW k \in M,
         Angle(t, M, p, n, k, s), Held(t, p),
         NEW t1, TurnedUp(t, t1, n, k, Other(s)),
         NEW t2, ChildStored(t1, t2, p, Other(s), k),
         NEW w, NephewStored(t2, w, p, k, n, s),
         NEW u, ParentsRotated(w, u, p, k, RB_BLACK)
  PROVE  NephewTwiceTurned(t, u, p, n, k, s)
<1> DEFINE o == Other(s)
           Out == (M \cup {NULL}) \ {p, n, k}
<1>1. /\ n # p /\ p # k /\ n # k /\ NULL \notin Node /\ M \subseteq Node
      /\ o \in Side /\ o # s /\ Other(o) = s /\ t \in Tree
      /\ t.parent[n] = p /\ t.parent[k] = n /\ t.parent[p] \in Out
      /\ n # t.root /\ k # t.root
      /\ t.child[k][s] \in Out /\ t.child[k][o] \in Out
      /\ t.child[p][s] \in Out /\ t.child[n][o] \in Out
      /\ t.child[k][s] # NULL => t.child[k][s] # t.child[k][o]
      /\ \A m \in Node, r \in Side : t.child[m][r] = p => m \notin {p, n, k}
  BY DEF Angle
<1>2. TurnedUp(t, t1, n, k, o) /\ ChildStored(t1, t2, p, o, k)
  OBVIOUS
<1> HIDE DEF o, Out
<1>3. t2 \in Tree /\ t2.root = t.root
  BY <1>2 DEF TurnedUp, ChildStored
<1>4. ASSUME NEW m \in Node, NEW r \in Side
      PROVE  t2.child[m][r] = IF m = p /\ r = o THEN k
                              ELSE IF m = n /\ r = s THEN t.child[k][o]
                              ELSE IF m = k /\ r = o THEN n ELSE t.child[m][r]
  BY <1>1, <1>2 DEF TurnedUp, ChildStored
<1>5. \A m \in Node : /\ t2.parent[m] = IF m = t.child[k][o] THEN n ELSE t.parent[m]
                      /\ t2.color[m] = IF m = t.child[k][o] THEN RB_BLACK ELSE t.color[m]
  <2>1. t2.parent = t1.parent /\ t2.color = t1.color
    BY <1>2 DEF ChildStored
  <2>2. \A m \in Node : /\ t1.parent[m] = IF m = t.child[k][o] THEN n ELSE t.parent[m]
                        /\ t1.color[m] = IF m = t.child[k][o] THEN RB_BLACK ELSE t.color[m]
    BY <1>2 DEF TurnedUp
  <2> QED  BY <2>1, <2>2
<1>6. t2.parent[p] = t.parent[p] /\ t2.child[k][s] = t.child[k][s] /\ t2.color[p] = t.color[p]
  BY <1>1, <1>4, <1>5 DEF Out
<1>7. ASSUME NEW m \in Node, NEW r \in Side
      PROVE  t2.child[m][r] = p <=> t.child[m][r] = p
  BY <1>1, <1>4 DEF Out
<1>8. Held(t2, p)
  <2>1. t.parent[p] # NULL => t.parent[p] \in Node
    BY <1>1 DEF Out
  <2>2. \A q \in Side : Other(q) \in Side
    BY SideFacts
  <2>3. ASSUME t.parent[p] # NULL
        PROVE  \E q \in Side : /\ t2.child[t.parent[p]][q] = p
                               /\ t2.child[t.parent[p]][Other(q)] # p
    <3>1. PICK q \in Side : t.child[t.parent[p]][q] = p /\ t.child[t.parent[p]][Other(q)] # p
      BY <2>3 DEF Held
    <3> QED  BY <1>7, <2>1, <2>2, <2>3, <3>1
  <2>4. \A m \in Node, r \in Side : t2.child[m][r] = p => m = t.parent[p]
    BY <1>7 DEF Held
  <2> QED  BY <1>6, <2>3, <2>4 DEF Held
<1>9. w.parent[p] = t.parent[p] /\ w.color[p] = t.color[p] /\ u \in Tree
  BY <1>1, <1>6 DEF NephewStored, ParentsRotated, Out
<1>10. Hoisted(t2, u, p, k, s)
  <2>1. Lowered(t2, w, p, k, s)
    BY <1>6, <1>9 DEF NephewStored, Lowered
  <2>2. t2.parent[p] \notin {p, k} /\ p \in Node /\ k \in Node /\ t2 \in Tree
    BY <1>1, <1>3, <1>6 DEF Out
  <2> QED  BY <1>1, <1>8, <2>1, <2>2, HoistIs
<1>11. DoublyRotated(t, u, p, n, k, s)
  <2>1. u.root = IF t.parent[p] = NULL THEN k ELSE t.root
    BY <1>3, <1>6, <1>10 DEF Hoisted
  <2>2. ASSUME NEW m \in Node, NEW r \in Side
        PROVE  u.child[m][r] = IF m = p /\ r = o THEN t.child[k][s]
                               ELSE IF m = n /\ r = s THEN t.child[k][o]
                               ELSE IF m = k THEN (IF r = s THEN p ELSE n)
                               ELSE IF t.child[m][r] = p THEN k
                               ELSE t.child[m][r]
    <3>1. u.child[m][r] = IF m = p /\ r = o THEN t.child[k][s]
                          ELSE IF m = k /\ r = s THEN p
                          ELSE IF t.child[m][r] = p THEN k
                          ELSE t2.child[m][r]
      BY <1>6, <1>7, <1>10 DEF Hoisted, o
    <3>2. r = s \/ r = o
      BY SideFacts DEF o
    <3>3. t.child[m][r] = p => m \notin {p, n, k}
      BY <1>1
    <3> QED  BY <1>1, <1>4, <3>1, <3>2, <3>3
  <2>3. ASSUME NEW m \in Node
        PROVE  u.parent[m] = IF m = k THEN t.parent[p]
                             ELSE IF m \in {n, p} THEN k
                             ELSE IF m = t.child[k][s] THEN p
                             ELSE IF m = t.child[k][o] THEN n
                             ELSE t.parent[m]
    <3>1. u.parent[m] = IF m = p THEN k ELSE IF m = k THEN t.parent[p] ELSE w.parent[m]
      BY <1>9 DEF ParentsRotated
    <3>2. w.parent[m] = IF m = n THEN k ELSE IF m = t.child[k][s] THEN p ELSE t2.parent[m]
      BY <1>6 DEF NephewStored
    <3> QED  BY <1>1, <1>5, <3>1, <3>2 DEF Out
  <2> QED  BY <2>1, <2>2, <2>3 DEF DoublyRotated, o
<1>12. \A m \in Node : /\ w.color[m] = IF m = n THEN RB_BLACK ELSE t2.color[m]
                       /\ u.color[m] = IF m = p THEN RB_BLACK
                                       ELSE IF m = k THEN t.color[p] ELSE w.color[m]
  BY <1>9 DEF NephewStored, ParentsRotated
<1>13. u.color[p] = RB_BLACK /\ u.color[n] = RB_BLACK /\ u.color[k] = t.color[p]
  BY <1>1, <1>12
<1>14. ASSUME NEW m \in Node \ {p, n, k}
       PROVE  u.color[m] = IF m = t.child[k][o] THEN RB_BLACK ELSE t.color[m]
  BY <1>5, <1>12
<1> QED  BY <1>9, <1>11, <1>13, <1>14 DEF NephewTwiceTurned, o

-----------------------------------------------------------------------------
(* The colours.  The label h counts the black nodes on the way from a node *)
(* down to a leaf; one is missing on the side q of p, unless p is NULL.    *)

Heights(t, M, h, p, q) ==
  /\ h \in [Link -> Nat] /\ h[NULL] = 0
  /\ \A n \in M, r \in Side :
       h[n] = t.color[n] + h[t.child[n][r]] + (IF n = p /\ r = q THEN 1 ELSE 0)

(* The root is black and red nodes have black children, unless it is x.    *)
Colours(t, M, x) ==
  /\ t.root \notin {NULL, x} => t.color[t.root] = RB_BLACK
  /\ \A n \in M, r \in Side :
       t.color[n] = RB_RED /\ t.child[n][r] \notin {NULL, x}
         => t.color[t.child[n][r]] = RB_BLACK
  /\ \A n \in Node \ M : t.color[n] = RB_RED

Painted(t, M, h, p, q, x) == Heights(t, M, h, p, q) /\ Colours(t, M, x)

(* A change within the nodes X, of which only a, replaced by b, is linked  *)
(* from outside.                                                           *)
Framed(t, u, M, X, a, b) ==
  /\ X \subseteq M /\ a \in X /\ b \in X
  /\ t.root \notin X \ {a}
  /\ u.root = IF t.root = a THEN b ELSE t.root
  /\ \A m \in M \ X, r \in Side :
       /\ t.child[m][r] \notin X \ {a}
       /\ t.child[m][r] = a => u.child[m][r] = b
       /\ t.child[m][r] # a => u.child[m][r] = t.child[m][r]
  /\ \A m \in Node \ X : u.color[m] = t.color[m]

PaintedAt(u, m, h, p, q, x) ==
  \A r \in Side :
    /\ h[m] = u.color[m] + h[u.child[m][r]] + (IF m = p /\ r = q THEN 1 ELSE 0)
    /\ u.color[m] = RB_RED /\ u.child[m][r] \notin {NULL, x}
         => u.color[u.child[m][r]] = RB_BLACK

LEMMA PaintedSides ==
  ASSUME NEW u, NEW m, NEW h, NEW p, NEW q, NEW x, NEW s \in Side, m # p, h[m] \in Nat,
         h[m] = u.color[m] + h[u.child[m][s]],
         h[m] = u.color[m] + h[u.child[m][Other(s)]],
         \/ u.color[m] = RB_BLACK
         \/ /\ u.child[m][s] \notin {NULL, x} => u.color[u.child[m][s]] = RB_BLACK
            /\ u.child[m][Other(s)] \notin {NULL, x} => u.color[u.child[m][Other(s)]] = RB_BLACK
  PROVE  PaintedAt(u, m, h, p, q, x)
<1>1. \A r \in Side : r = s \/ r = Other(s)
  BY SideFacts
<1>2. \A r \in Side : h[m] = u.color[m] + h[u.child[m][r]]
  BY <1>1
<1>3. \A r \in Side : h[m] = u.color[m] + h[u.child[m][r]] + 0
  BY <1>2
<1>4. \A r \in Side : u.color[m] = RB_RED /\ u.child[m][r] \notin {NULL, x}
                         => u.color[u.child[m][r]] = RB_BLACK
  BY <1>1 DEF RB_RED, RB_BLACK
<1> QED  BY <1>3, <1>4 DEF PaintedAt

(* The labels and colours are right when they are right within X.          *)
LEMMA FramePaint ==
  ASSUME NEW t \in Tree, NEW M, Linked(t, M),
         NEW h, NEW p, NEW q, NEW x, Painted(t, M, h, p, q, x),
         NEW u, NEW X, NEW a, NEW b, Framed(t, u, M, X, a, b),
         NEW h2 \in [Link -> Nat], h2[NULL] = 0, \A m \in Link \ X : h2[m] = h[m],
         a = t.root \/ h2[b] = h[a],
         NEW p2, NEW q2, NEW x2, p \in X \cup {NULL}, p2 \in X \cup {NULL},
         x # NULL => /\ x # t.root \/ (x = a /\ u.color[b] = RB_BLACK)
                     /\ \A m \in M \ X, r \in Side : t.child[m][r] # x,
         u.color[b] \in {RB_BLACK, t.color[a]} \/ b = x2,
         \A m \in X : PaintedAt(u, m, h2, p2, q2, x2)
  PROVE  Painted(u, M, h2, p2, q2, x2)
<1>1. M \subseteq Node /\ NULL \notin Node /\ X \subseteq M /\ a \in X /\ b \in X
  BY NodeAssumption DEF Linked, Framed
<1>2. ASSUME NEW m \in M \ X, NEW r \in Side
      PROVE  h2[m] = u.color[m] + h2[u.child[m][r]] + (IF m = p2 /\ r = q2 THEN 1 ELSE 0)
  <2>1. h[m] = t.color[m] + h[t.child[m][r]] + (IF m = p /\ r = q THEN 1 ELSE 0)
    BY DEF Painted, Heights
  <2>2. m # p /\ m # p2
    BY <1>1
  <2>3. t.child[m][r] \in Link /\ t.child[m][r] \notin X \ {a}
    BY <1>1 DEF Linked, Framed, Link
  <2>4. h2[u.child[m][r]] = h[t.child[m][r]]
    <3>1. t.child[m][r] = a => a # t.root
      BY <1>1 DEF Linked
    <3> QED  BY <2>3, <3>1 DEF Framed
  <2>5. h2[m] = h[m] /\ u.color[m] = t.color[m]
    BY <1>1 DEF Framed, Link
  <2> QED  BY <2>1, <2>2, <2>4, <2>5
<1>3. Heights(u, M, h2, p2, q2)
  BY <1>1, <1>2 DEF Heights, PaintedAt
<1>4. ASSUME NEW m \in M \ X, NEW r \in Side, u.color[m] = RB_RED,
             u.child[m][r] \notin {NULL, x2}
      PROVE  u.color[u.child[m][r]] = RB_BLACK
  <2>1. t.color[m] = RB_RED
    BY <1>1, <1>4 DEF Framed
  <2>2. t.child[m][r] \in M \cup {NULL} /\ t.child[m][r] \notin X \ {a}
    BY DEF Linked, Framed
  <2>3. CASE t.child[m][r] = a
    <3>1. u.child[m][r] = b /\ a # NULL /\ a # x
      BY <1>1, <2>3 DEF Framed
    <3>2. t.color[a] = RB_BLACK
      BY <2>1, <2>3, <3>1 DEF Painted, Colours
    <3> QED  BY <1>4, <3>1, <3>2
  <2>4. CASE t.child[m][r] # a
    <3>1. u.child[m][r] = t.child[m][r]
      BY <2>4 DEF Framed
    <3>2. t.child[m][r] \in Node \ X /\ t.child[m][r] \notin {NULL, x}
      BY <1>1, <1>4, <2>2, <2>4, <3>1
    <3>3. t.color[t.child[m][r]] = RB_BLACK
      BY <2>1, <3>2 DEF Painted, Colours
    <3> QED  BY <3>1, <3>2, <3>3 DEF Framed
  <2> QED  BY <2>3, <2>4
<1>5. ASSUME u.root \notin {NULL, x2}  PROVE u.color[u.root] = RB_BLACK
  <2>1. t.root \in M \cup {NULL} /\ t.root \notin X \ {a}
    BY DEF Linked, Framed
  <2>2. CASE t.root = a
    <3>1. u.root = b /\ a # NULL
      BY <1>1, <2>2 DEF Framed
    <3>2. a # x => t.color[a] = RB_BLACK
      BY <2>2, <3>1 DEF Painted, Colours
    <3>3. a = x => u.color[b] = RB_BLACK
      BY <2>2, <3>1
    <3> QED  BY <1>5, <3>1, <3>2, <3>3
  <2>3. CASE t.root # a
    <3>1. u.root = t.root /\ t.root \in Node \ X /\ t.root # x
      <4>1. u.root = t.root /\ t.root \in Node \ X
        BY <1>1, <1>5, <2>1, <2>3 DEF Framed
      <4> QED  BY <1>5, <2>3, <4>1
    <3>2. t.color[t.root] = RB_BLACK
      BY <1>1, <3>1 DEF Painted, Colours
    <3> QED  BY <3>1, <3>2 DEF Framed
  <2> QED  BY <2>2, <2>3
<1>6. ASSUME NEW m \in Node \ M  PROVE u.color[m] = RB_RED
  BY <1>1 DEF Framed, Painted, Colours
<1> QED  BY <1>3, <1>4, <1>5, <1>6 DEF Painted, Colours, PaintedAt

(* A rotation is a change within p, n and more.                            *)
LEMMA RotateFrame ==
  ASSUME NEW t, NEW M, NEW sub, Shape(t, M, sub),
         NEW s \in Side, NEW p \in M, NEW n \in M, t.child[p][Other(s)] = n,
         NEW u, Rotated(t, u, p, n, s),
         NEW X, X \subseteq M, p \in X, n \in X,
         \A c \in X \ {n, p} : t.parent[c] \in {n, p},
         \A m \in Node \ X : u.color[m] = t.color[m]
  PROVE  Framed(t, u, M, X, p, n)
<1>1. /\ n # p /\ n # t.root /\ t.parent[n] = p /\ NULL \notin Node /\ M \subseteq Node
      /\ (t.parent[p] = NULL <=> p = t.root)
  BY RotationFacts
<1>2. \A c \in X \ {p} : t.parent[c] \in X
  BY <1>1
<1>3. t.root \notin X \ {p}
  BY <1>1, <1>2 DEF Shape, Linked
<1>4. u.root = IF t.root = p THEN n ELSE t.root
  BY <1>1 DEF Rotated
<1>5. ASSUME NEW m \in M \ X, NEW r \in Side
      PROVE  /\ t.child[m][r] \notin X \ {p}
             /\ t.child[m][r] = p => u.child[m][r] = n
             /\ t.child[m][r] # p => u.child[m][r] = t.child[m][r]
  <2>1. t.child[m][r] # NULL => t.parent[t.child[m][r]] = m
    BY DEF Shape, Linked
  <2> QED  BY <1>1, <1>2, <2>1 DEF Rotated
<1> QED  BY <1>2, <1>3, <1>4, <1>5 DEF Framed

LEMMA RedSiblingStep ==
  ASSUME NEW t, NEW M, NEW sub, Shape(t, M, sub),
         NEW s \in Side, NEW p \in M, NEW n \in M, t.child[p][Other(s)] = n,
         NEW h, Painted(t, M, h, p, s, NULL), IsRed(t, n), ~IsRed(t, t.child[p][s]),
         NEW u, u = __rb_rotate_set_parents(TurnUp(t, p, n, s), p, n, RB_RED)
  PROVE  \E sub2, h2 : /\ Shape(u, M, sub2) /\ Painted(u, M, h2, p, s, NULL)
                       /\ u.child[p][s] = t.child[p][s]
                       /\ ~IsRed(u, t.child[p][s])
<1> DEFINE o == Other(s)
           tmp == t.child[n][s]
           h2 == [h EXCEPT ![n] = h[p], ![p] = h[n]]
<1>1. u \in Tree /\ Rotated(t, u, p, n, s) /\ TurnColors(t, u, p, n, s, RB_RED)
  BY TurnRotates DEF RB_RED, RB_BLACK
<1>2. Shape(u, M, RotatedSub(t, sub, p, n, s))
  BY <1>1, RotateShape
<1>3. /\ n # p /\ p # tmp /\ n # tmp /\ p \in Node /\ n \in Node
      /\ o \in Side /\ o # s /\ NULL \notin Node /\ M \subseteq Node /\ tmp \in M \cup {NULL}
      /\ t.child[n][o] \in (M \cup {NULL}) \ {n, p} /\ t.child[p][s] \in (M \cup {NULL}) \ {n, p}
      /\ t \in Tree /\ Linked(t, M)
  BY RotationFacts DEF Shape, Linked
<1>4. /\ h \in [Link -> Nat] /\ h[NULL] = 0 /\ M \cup {NULL} \subseteq Link
      /\ h2 \in [Link -> Nat] /\ h2[NULL] = 0 /\ h2[n] = h[p] /\ h2[p] = h[n]
      /\ \A m \in Link \ {n, p} : h2[m] = h[m]
  BY <1>3 DEF Painted, Heights, Link
<1>5. /\ t.color[p] = RB_BLACK /\ t.color[n] = RB_RED
      /\ tmp # NULL => t.color[tmp] = RB_BLACK
      /\ t.child[p][s] # NULL => t.color[t.child[p][s]] = RB_BLACK
  BY <1>3 DEF Painted, Colours, IsRed, Shape, Tree, RB_RED, RB_BLACK
<1>6. /\ h[p] = 1 + h[n] /\ h[p] = 2 + h[t.child[p][s]]
      /\ h[n] = h[tmp] /\ h[n] = h[t.child[n][o]]
  <2>1. \A m \in M, r \in Side :
          h[m] = t.color[m] + h[t.child[m][r]] + (IF m = p /\ r = s THEN 1 ELSE 0)
    BY DEF Painted, Heights
  <2>2. /\ h[p] = t.color[p] + h[n] + 0 /\ h[p] = t.color[p] + h[t.child[p][s]] + 1
        /\ h[n] = t.color[n] + h[tmp] + 0 /\ h[n] = t.color[n] + h[t.child[n][o]] + 0
    BY <1>3, <2>1
  <2>3. h[p] \in Nat /\ h[n] \in Nat /\ h[tmp] \in Nat /\ h[t.child[n][o]] \in Nat
        /\ h[t.child[p][s]] \in Nat
    BY <1>3, <1>4
  <2> QED  BY <1>5, <2>2, <2>3 DEF RB_RED, RB_BLACK
<1> HIDE DEF h2, tmp, o
<1>7. /\ u.color[p] = RB_RED /\ u.color[n] = RB_BLACK
      /\ \A m \in Node \ {n, p} : u.color[m] = t.color[m]
  BY <1>1, <1>3, <1>5 DEF TurnColors, tmp
<1>8. /\ u.child[p][o] = tmp /\ u.child[p][s] = t.child[p][s]
      /\ u.child[n][s] = p /\ u.child[n][o] = t.child[n][o]
  BY <1>1, <1>3 DEF Rotated, o, tmp
<1>9. Framed(t, u, M, {p, n}, p, n)
  BY <1>1, <1>7, RotateFrame
<1>10. /\ h2[u.child[n][s]] = h[n] /\ h2[u.child[n][o]] = h[n]
       /\ h2[u.child[p][o]] = h[n] /\ h2[u.child[p][s]] = h[t.child[p][s]]
       /\ h2[n] = 1 + h[n] /\ h2[p] = h[n] /\ h[n] = 1 + h[t.child[p][s]]
       /\ h[n] \in Nat /\ h[t.child[p][s]] \in Nat
  <2>1. h[n] \in Nat /\ h[t.child[p][s]] \in Nat
    BY <1>3, <1>4
  <2>2. h2[n] = 1 + h[n] /\ h2[p] = h[n] /\ h[n] = 1 + h[t.child[p][s]]
    BY <1>4, <1>6, <2>1
  <2>3. /\ h2[tmp] = h[tmp] /\ h2[t.child[n][o]] = h[t.child[n][o]]
        /\ h2[t.child[p][s]] = h[t.child[p][s]]
    BY <1>3, <1>4
  <2> QED  BY <1>4, <1>6, <1>8, <2>1, <2>2, <2>3
<1>11. PaintedAt(u, n, h2, p, s, NULL)
  <2>1. u.color[n] = 1
    BY <1>7 DEF RB_BLACK
  <2>2. /\ h2[n] \in Nat /\ h2[n] = u.color[n] + h2[u.child[n][s]]
        /\ h2[n] = u.color[n] + h2[u.child[n][Other(s)]]
    BY <1>10, <2>1 DEF o
  <2>3. u.color[n] = RB_BLACK /\ n # p
    BY <1>3, <1>7
  <2> QED  BY <2>2, <2>3, PaintedSides
<1>12. PaintedAt(u, p, h2, p, s, NULL)
  <2>1. \A r \in Side : r = s \/ r = o
    BY SideFacts DEF o
  <2>2. \A r \in Side : u.child[p][r] # NULL => u.color[u.child[p][r]] = RB_BLACK
    BY <1>3, <1>5, <1>7, <1>8, <2>1
  <2>3. \A r \in Side : h2[p] = RB_RED + h2[u.child[p][r]] + (IF p = p /\ r = s THEN 1 ELSE 0)
    BY <1>3, <1>10, <2>1 DEF RB_RED
  <2> QED  BY <1>7, <2>2, <2>3 DEF PaintedAt
<1>13. Painted(u, M, h2, p, s, NULL)
  BY <1>3, <1>4, <1>7, <1>9, <1>11, <1>12, FramePaint
<1>14. ~IsRed(u, t.child[p][s])
  BY <1>3, <1>5, <1>7 DEF IsRed, RB_RED, RB_BLACK
<1> QED  BY <1>2, <1>8, <1>13, <1>14

(* The label of a node and of its child.                                   *)
LEMMA Down ==
  ASSUME NEW t, NEW M, Linked(t, M), NEW h, NEW p, NEW q, Heights(t, M, h, p, q),
         NEW m \in M, NEW r \in Side
  PROVE  /\ h[m] \in Nat /\ h[t.child[m][r]] \in Nat
         /\ m = p /\ r = q => h[m] = t.color[m] + h[t.child[m][r]] + 1
         /\ ~(m = p /\ r = q) =>
              /\ t.color[m] = RB_RED => h[m] = h[t.child[m][r]]
              /\ t.color[m] = RB_BLACK => h[m] = 1 + h[t.child[m][r]]
<1>1. m \in Link /\ t.child[m][r] \in Link
  BY DEF Linked, Link
<1>2. h[m] \in Nat /\ h[t.child[m][r]] \in Nat
  BY <1>1 DEF Heights
<1>3. h[m] = t.color[m] + h[t.child[m][r]] + (IF m = p /\ r = q THEN 1 ELSE 0)
  BY DEF Heights
<1> QED  BY <1>2, <1>3 DEF RB_RED, RB_BLACK

LEMMA DoubleFrame ==
  ASSUME NEW t, NEW M, NEW s \in Side, NEW p \in M, NEW n \in M, NEW k \in M,
         Linked(t, M), Angle(t, M, p, n, k, s), NEW u, DoublyRotated(t, u, p, n, k, s),
         \A m \in Node \ {p, n, k} : u.color[m] = t.color[m]
  PROVE  Framed(t, u, M, {p, n, k}, p, k)
<1>1. /\ n # p /\ p # k /\ n # k /\ NULL \notin Node /\ M \subseteq Node
      /\ (t.parent[p] = NULL <=> t.root = p) /\ n # t.root /\ k # t.root
      /\ \A m \in Node, r \in Side : t.child[m][r] = n => m = p
      /\ \A m \in Node, r \in Side : t.child[m][r] = k => m = n
  BY DEF Angle
<1>2. u.root = IF t.root = p THEN k ELSE t.root
  BY <1>1 DEF DoublyRotated
<1>3. ASSUME NEW m \in M \ {p, n, k}, NEW r \in Side
      PROVE  /\ t.child[m][r] \notin {n, k}
             /\ t.child[m][r] = p => u.child[m][r] = k
             /\ t.child[m][r] # p => u.child[m][r] = t.child[m][r]
  <2>1. m \in Node /\ m # p /\ m # n /\ m # k
    BY <1>1
  <2>2. u.child[m][r] = IF t.child[m][r] = p THEN k ELSE t.child[m][r]
    BY <2>1 DEF DoublyRotated
  <2> QED  BY <1>1, <2>1, <2>2
<1> QED  BY <1>1, <1>2, <1>3 DEF Framed

(* The case 3 of __rb_insert_fix alone.                                    *)
LEMMA OuterPaint ==
  ASSUME NEW t, NEW M, NEW sub, Shape(t, M, sub),
         NEW s \in Side, NEW p \in M, NEW n \in M, t.child[p][Other(s)] = n,
         NEW k \in M, t.child[n][Other(s)] = k,
         NEW h, NEW q, Painted(t, M, h, NULL, q, k),
         IsRed(t, n), ~IsRed(t, t.child[p][s]),
         NEW u \in Tree, Rotated(t, u, p, n, s), TurnColors(t, u, p, n, s, RB_RED)
  PROVE  \E h2 : Painted(u, M, h2, NULL, q, NULL)
<1> DEFINE o == Other(s)
           tmp == t.child[n][s]
           y == t.child[p][s]
           h2 == [h EXCEPT ![n] = h[p], ![p] = h[n]]
           Out == (M \cup {NULL}) \ {n, p}
<1>1. /\ n # p /\ p \in Node /\ n \in Node /\ o \in Side /\ o # s /\ NULL \notin Node
      /\ M \subseteq Node /\ tmp \in Out /\ y \in Out /\ k \in Out /\ k # NULL
      /\ t \in Tree /\ Linked(t, M) /\ t.parent[k] = n
  BY RotationFacts DEF Shape, Linked
<1>2. tmp # NULL => tmp # k
  BY ShapeFacts
<1>3. /\ h \in [Link -> Nat] /\ h[NULL] = 0 /\ M \cup {NULL} \subseteq Link
      /\ h2 \in [Link -> Nat] /\ h2[NULL] = 0 /\ h2[n] = h[p] /\ h2[p] = h[n]
      /\ \A m \in Link \ {n, p} : h2[m] = h[m]
  BY <1>1 DEF Painted, Heights, Link
<1>4. t.color[n] = RB_RED /\ n # NULL
  BY DEF IsRed
<1>5. t.color[p] = RB_BLACK
  <2>1. t.color[p] = RB_RED => t.color[n] = RB_BLACK
    BY <1>1, <1>4 DEF Painted, Colours
  <2> QED  BY <1>1, <1>4, <2>1 DEF Tree, RB_RED, RB_BLACK
<1>6. tmp # NULL => t.color[tmp] = RB_BLACK
  BY <1>2, <1>4 DEF Painted, Colours
<1>7. y # NULL => t.color[y] = RB_BLACK
  BY <1>1 DEF IsRed, Tree, RB_RED, RB_BLACK
<1>8. h[p] = 1 + h[n] /\ h[y] = h[n] /\ h[k] = h[n] /\ h[tmp] = h[n]
  <2>1. \A m \in M, r \in Side : h[m] = t.color[m] + h[t.child[m][r]] + 0
    BY <1>1 DEF Painted, Heights
  <2>2. \A m \in M : h[m] \in Nat
    BY <1>3
  <2>3. h[y] \in Nat /\ h[tmp] \in Nat /\ h[n] \in Nat /\ h[k] \in Nat
    BY <1>1, <1>3
  <2>4. h[p] = 1 + h[n] + 0 /\ h[p] = 1 + h[y] + 0 /\ h[n] = 0 + h[k] + 0 /\ h[n] = 0 + h[tmp] + 0
    BY <1>1, <1>4, <1>5, <2>1 DEF RB_RED, RB_BLACK
  <2> QED  BY <2>3, <2>4
<1> HIDE DEF h2, tmp, o, y, Out
<1>9. /\ u.color[p] = RB_RED /\ u.color[n] = RB_BLACK
      /\ \A m \in Node \ {n, p} : u.color[m] = t.color[m]
  BY <1>1, <1>5, <1>6 DEF TurnColors, tmp
<1>10. /\ u.child[p][o] = tmp /\ u.child[p][s] = y
       /\ u.child[n][s] = p /\ u.child[n][o] = k
  <2>1. y # p /\ k # p
    BY <1>1 DEF Out
  <2> QED  BY <1>1, <2>1 DEF Rotated, o, tmp, y
<1>11. Framed(t, u, M, {p, n}, p, n)
  BY <1>9, RotateFrame
<1>12. /\ h2[n] = 1 + h[n] /\ h2[p] = h[n] /\ h2[tmp] = h[n] /\ h2[y] = h[n] /\ h2[k] = h[n]
       /\ h[n] \in Nat
  <2>1. h[n] \in Nat
    BY <1>1, <1>3 DEF Out
  <2>2. h2[tmp] = h[tmp] /\ h2[y] = h[y] /\ h2[k] = h[k]
    BY <1>1, <1>3 DEF Out
  <2> QED  BY <1>3, <1>8, <2>1, <2>2
<1>13. PaintedAt(u, n, h2, NULL, q, NULL)
  <2>1. u.color[n] = 1
    BY <1>9 DEF RB_BLACK
  <2>2. /\ h2[n] \in Nat /\ h2[n] = u.color[n] + h2[u.child[n][s]]
        /\ h2[n] = u.color[n] + h2[u.child[n][Other(s)]]
    BY <1>10, <1>12, <2>1 DEF o
  <2> QED  BY <1>4, <1>9, <2>2, PaintedSides
<1>14. PaintedAt(u, p, h2, NULL, q, NULL)
  <2>1. u.color[p] = 0
    BY <1>9 DEF RB_RED
  <2>2. /\ h2[p] \in Nat /\ h2[p] = u.color[p] + h2[u.child[p][s]]
        /\ h2[p] = u.color[p] + h2[u.child[p][Other(s)]]
    BY <1>10, <1>12, <2>1 DEF o
  <2>3. /\ u.child[p][s] \notin {NULL, NULL} => u.color[u.child[p][s]] = RB_BLACK
        /\ u.child[p][Other(s)] \notin {NULL, NULL} => u.color[u.child[p][Other(s)]] = RB_BLACK
    BY <1>1, <1>6, <1>7, <1>9, <1>10 DEF o, Out
  <2> QED  BY <1>1, <2>2, <2>3, PaintedSides
<1>15. k # t.root /\ \A m \in M \ {p, n}, r \in Side : t.child[m][r] # k
  BY <1>1 DEF Linked
<1>16. Painted(u, M, h2, NULL, q, NULL)
  BY <1>1, <1>3, <1>9, <1>11, <1>13, <1>14, <1>15, FramePaint
<1> QED  BY <1>16

(* The cases 2 and 3 of __rb_insert_fix.                                   *)
LEMMA InnerPaint ==
  ASSUME NEW t, NEW M, Linked(t, M), NEW s \in Side, NEW p \in M, NEW n \in M, NEW k \in M,
         Angle(t, M, p, n, k, s),
         NEW h, NEW q, Painted(t, M, h, NULL, q, k),
         IsRed(t, n), IsRed(t, k), ~IsRed(t, t.child[p][s]),
         NEW u, TwiceTurned(t, u, p, n, k, s)
  PROVE  \E h2 : Painted(u, M, h2, NULL, q, NULL)
<1> DEFINE o == Other(s)
           kl == t.child[k][s]
           kr == t.child[k][o]
           y == t.child[p][s]
           z == t.child[n][o]
           h2 == [h EXCEPT ![k] = h[p], ![p] = h[n]]
           Out == (M \cup {NULL}) \ {p, n, k}
<1>1. /\ n # p /\ p # k /\ n # k /\ NULL \notin Node /\ M \subseteq Node
      /\ o \in Side /\ o # s /\ Other(o) = s /\ t \in Tree /\ k # t.root
      /\ kl \in Out /\ kr \in Out /\ y \in Out /\ z \in Out
  BY DEF Angle
<1>2. t.child[p][o] = n /\ t.child[n][s] = k
  BY DEF Angle
<1>3. /\ h \in [Link -> Nat] /\ h[NULL] = 0 /\ M \cup {NULL} \subseteq Link
      /\ h2 \in [Link -> Nat] /\ h2[NULL] = 0 /\ h2[k] = h[p] /\ h2[p] = h[n]
      /\ \A m \in Link \ {k, p} : h2[m] = h[m]
  BY <1>1 DEF Painted, Heights, Link
<1> HIDE DEF h2, Out
<1>4. t.color[n] = RB_RED /\ n # NULL /\ t.color[k] = RB_RED
  BY DEF IsRed
<1>5. t.color[p] = RB_BLACK
  <2>1. t.color[p] = RB_RED => t.color[n] = RB_BLACK
    BY <1>1, <1>2, <1>4 DEF Painted, Colours
  <2> QED  BY <1>1, <1>4, <2>1 DEF Tree, RB_RED, RB_BLACK
<1>6. /\ kl # NULL => t.color[kl] = RB_BLACK
      /\ kr # NULL => t.color[kr] = RB_BLACK
      /\ z # NULL => t.color[z] = RB_BLACK
  BY <1>1, <1>4 DEF Painted, Colours, Out
<1>7. y # NULL => t.color[y] = RB_BLACK
  BY <1>1 DEF IsRed, Tree, RB_RED, RB_BLACK, Out
<1>8. /\ h[p] = 1 + h[n] /\ h[y] = h[n] /\ h[k] = h[n] /\ h[z] = h[n]
      /\ h[kl] = h[n] /\ h[kr] = h[n] /\ h[n] \in Nat
  <2>1. Heights(t, M, h, NULL, q) /\ p # NULL /\ n # NULL /\ k # NULL
    BY <1>1 DEF Painted
  <2>2. h[p] = 1 + h[n] /\ h[n] \in Nat
    BY <1>1, <1>2, <1>5, <2>1, Down
  <2>3. h[p] = 1 + h[y] /\ h[y] \in Nat
    BY <1>5, <2>1, Down
  <2>4. h[n] = h[k] /\ h[n] = h[z]
    BY <1>1, <1>2, <1>4, <2>1, Down
  <2>5. h[k] = h[kl] /\ h[k] = h[kr]
    BY <1>1, <1>4, <2>1, Down
  <2> HIDE DEF y
  <2>6. h[y] = h[n]
    BY <2>2, <2>3
  <2> QED  BY <2>2, <2>4, <2>5, <2>6
<1> HIDE DEF kl, kr, o, y, z
<1>9. /\ u.color[p] = RB_RED /\ u.color[n] = RB_RED /\ u.color[k] = RB_BLACK
      /\ \A m \in Node \ {p, n, k} : u.color[m] = t.color[m]
  BY <1>5, <1>6, NodeAssumption DEF TwiceTurned, kl, kr, o
<1>10. /\ u.child[p][o] = kl /\ u.child[p][s] = y
       /\ u.child[n][s] = kr /\ u.child[n][o] = z
       /\ u.child[k][s] = p /\ u.child[k][o] = n
  <2>1. DoublyRotated(t, u, p, n, k, s) /\ p \in Node /\ n \in Node /\ k \in Node
    BY <1>1 DEF TwiceTurned
  <2>2. y # p /\ z # p
    BY <1>1 DEF Out
  <2> QED  BY <1>1, <2>1, <2>2 DEF DoublyRotated, o, y, z, kl, kr
<1>11. Framed(t, u, M, {p, n, k}, p, k)
  BY <1>9, DoubleFrame DEF TwiceTurned
<1>12. /\ h2[k] = 1 + h[n] /\ h2[p] = h[n] /\ h2[n] = h[n] /\ h2[kl] = h[n] /\ h2[kr] = h[n]
       /\ h2[y] = h[n] /\ h2[z] = h[n]
  <2>1. /\ h2[kl] = h[kl] /\ h2[kr] = h[kr] /\ h2[y] = h[y] /\ h2[z] = h[z]
        /\ h2[n] = h[n]
    BY <1>1, <1>3 DEF Out
  <2> QED  BY <1>3, <1>8, <2>1
<1>13. PaintedAt(u, k, h2, NULL, q, NULL)
  <2>1. u.color[k] = 1 /\ k # NULL
    BY <1>1, <1>9 DEF RB_BLACK
  <2>2. h2[u.child[k][s]] = h[n] /\ h2[u.child[k][o]] = h[n]
    BY <1>10, <1>12
  <2>3. /\ h2[k] \in Nat /\ h2[k] = u.color[k] + h2[u.child[k][s]]
        /\ h2[k] = u.color[k] + h2[u.child[k][o]]
    BY <1>8, <1>12, <2>1, <2>2
  <2> QED  BY <1>9, <2>1, <2>3, PaintedSides DEF o
<1>14. ASSUME NEW m \in {p, n}  PROVE PaintedAt(u, m, h2, NULL, q, NULL)
  <2>1. u.color[m] = 0 /\ m # NULL
    BY <1>1, <1>9 DEF RB_RED
  <2>2. h2[u.child[m][s]] = h[n] /\ h2[u.child[m][o]] = h[n] /\ h2[m] = h[n]
    BY <1>10, <1>12
  <2>3. /\ h2[m] \in Nat /\ h2[m] = u.color[m] + h2[u.child[m][s]]
        /\ h2[m] = u.color[m] + h2[u.child[m][o]]
    BY <1>8, <2>1, <2>2
  <2>4. \A c \in {kl, kr, y, z} : c # NULL => u.color[c] = RB_BLACK
    <3>1. \A c \in {kl, kr, y, z} : c # NULL => c \in Node \ {p, n, k}
      BY <1>1 DEF Out
    <3> QED  BY <1>6, <1>7, <1>9, <3>1
  <2>5. u.child[m][s] \in {kl, kr, y, z} /\ u.child[m][o] \in {kl, kr, y, z}
    BY <1>10
  <2> QED  BY <2>1, <2>3, <2>4, <2>5, PaintedSides DEF o
<1>15. k # t.root /\ \A m \in M \ {p, n, k}, r \in Side : t.child[m][r] # k
  BY DEF Angle
<1>16. Painted(u, M, h2, NULL, q, NULL)
  <2>1. \A m \in {p, n, k} : PaintedAt(u, m, h2, NULL, q, NULL)
    BY <1>13, <1>14
  <2>2. \A m \in Link \ {p, n, k} : h2[m] = h[m]
    BY <1>3
  <2>3. t \in Tree /\ h2 \in [Link -> Nat] /\ h2[NULL] = 0 /\ h2[k] = h[p]
    BY <1>1, <1>3
  <2> QED  BY <1>9, <1>11, <1>15, <2>1, <2>2, <2>3, FramePaint
<1> QED  BY <1>16

(* How the nodes are linked around a rotation, f being the outer child of  *)
(* n.                                                                      *)
Row(t, M, p, n, f, s) ==
  LET o == Other(s)
      Out == (M \cup {NULL}) \ {p, n, f}
  IN  /\ n # p /\ p # f /\ n # f /\ NULL \notin Node /\ M \subseteq Node
      /\ o \in Side /\ o # s /\ Other(o) = s /\ t \in Tree
      /\ t.child[p][o] = n /\ t.child[n][o] = f
      /\ t.parent[n] = p /\ t.parent[f] = n /\ t.parent[p] \in Out
      /\ t.child[f][s] \in Out /\ t.child[f][o] \in Out
      /\ t.child[p][s] \in Out /\ t.child[n][s] \in Out

LEMMA RowFacts ==
  ASSUME NEW t, NEW M, NEW sub, Shape(t, M, sub),
         NEW s \in Side, NEW p \in M, NEW n \in M, t.child[p][Other(s)] = n,
         NEW f \in M, t.child[n][Other(s)] = f
  PROVE  Row(t, M, p, n, f, s)
<1> DEFINE o == Other(s)
           Out == (M \cup {NULL}) \ {p, n, f}
<1>1. /\ o \in Side /\ o # s /\ Other(o) = s /\ t \in Tree
      /\ NULL \notin Node /\ M \subseteq Node
  BY SideFacts, NodeAssumption DEF Shape, Linked
<1>2. /\ n # p /\ p # f /\ n # f /\ t.parent[n] = p /\ f # NULL
      /\ t.parent[p] \in M \cup {NULL} /\ t.parent[p] # n /\ t.parent[p] # p
  BY <1>1, RotationFacts
<1>3. \A m \in Node, r \in Side : t.child[m][r] \in M => m \in M /\ m = t.parent[t.child[m][r]]
  BY <1>1 DEF Shape, Linked
<1>4. \A m \in M, r \in Side : t.child[m][r] \in M \cup {NULL} /\ t.child[m][r] # m
  BY <1>1, ShapeFacts DEF Shape, Linked
<1>5. \A m \in M, r \in Side : t.child[m][r] # NULL => t.child[m][r] # t.child[m][Other(r)]
  BY ShapeFacts
<1>6. t.parent[f] = n
  BY <1>1, <1>3
<1>7. t.parent[p] # f
  <2>1. t.parent[p] = f => \E r \in Side : t.child[f][r] = p
    BY <1>1, <1>2 DEF Shape, Linked
  <2>2. n \in sub[n] /\ f \in sub[f]
    BY ShapeFacts
  <2>3. f \in sub[n]
    BY <1>1, <2>2 DEF Shape, Labelled
  <2>4. f \in sub[p]
    BY <1>1, <2>3 DEF Shape, Labelled
  <2> QED  BY <2>1, <2>4, ShapeFacts
<1>8. \A r \in Side : r = s \/ r = o
  BY SideFacts
<1>9. ASSUME NEW m \in {p, n, f}, NEW r \in Side, m # f => r = s
      PROVE  t.child[m][r] \in Out
  <2>1. m \in M /\ m \in Node
    BY <1>1
  <2>2. t.child[m][r] \in M \cup {NULL} /\ t.child[m][r] # m
    BY <1>4, <2>1
  <2>3. t.child[m][r] # p
    BY <1>1, <1>2, <1>3, <1>7, <2>1, <2>2
  <2>4. t.child[m][r] # n
    <3>1. t.child[m][r] = n => m = p
      BY <1>2, <1>3, <2>1
    <3>2. t.child[p][s] # n
      BY <1>1, <1>5, NodeAssumption
    <3> QED  BY <1>2, <1>9, <3>1, <3>2
  <2>5. t.child[m][r] # f
    <3>1. t.child[m][r] = f => m = n
      BY <1>3, <1>6, <2>1
    <3>2. t.child[n][s] # f
      BY <1>1, <1>5, NodeAssumption
    <3> QED  BY <1>2, <1>9, <3>1, <3>2
  <2> QED  BY <2>2, <2>3, <2>4, <2>5
<1>10. /\ t.child[f][s] \in Out /\ t.child[f][o] \in Out
       /\ t.child[p][s] \in Out /\ t.child[n][s] \in Out
  BY <1>1, <1>2, <1>9
<1>11. t.parent[p] \in Out
  BY <1>2, <1>7
<1> HIDE DEF o, Out
<1> QED  BY <1>1, <1>2, <1>6, <1>10, <1>11 DEF Row, o, Out

(* The case 4 of __rb_erase_fix alone.                                     *)
LEMMA FarPaint ==
  ASSUME NEW t, NEW M, NEW sub, Shape(t, M, sub), NEW s \in Side,
         NEW p \in M, NEW n \in M, NEW f \in M, Row(t, M, p, n, f, s),
         NEW h, Painted(t, M, h, p, s, NULL), ~IsRed(t, n), IsRed(t, f),
         NEW u, NephewTurned(t, u, p, n, f, s)
  PROVE  \E h2 : Painted(u, M, h2, NULL, s, NULL)
<1> DEFINE o == Other(s)
           tmp == t.child[n][s]
           y == t.child[p][s]
           fs == t.child[f][s]
           fo == t.child[f][o]
           h2 == [h EXCEPT ![n] = h[p], ![p] = h[n], ![f] = h[n]]
           Out == (M \cup {NULL}) \ {p, n, f}
<1>1. /\ n # p /\ p # f /\ n # f /\ NULL \notin Node /\ M \subseteq Node
      /\ o \in Side /\ o # s /\ Other(o) = s /\ t \in Tree
      /\ tmp \in Out /\ y \in Out /\ fs \in Out /\ fo \in Out
      /\ t.parent[f] = n /\ t.parent[n] = p
  BY DEF Row
<1>2. t.child[p][o] = n /\ t.child[n][o] = f
  BY DEF Row
<1>3. /\ h \in [Link -> Nat] /\ h[NULL] = 0 /\ M \cup {NULL} \subseteq Link
      /\ h2 \in [Link -> Nat] /\ h2[NULL] = 0
      /\ h2[n] = h[p] /\ h2[p] = h[n] /\ h2[f] = h[n]
      /\ \A m \in Link \ {n, p, f} : h2[m] = h[m]
  BY <1>1 DEF Painted, Heights, Link
<1> HIDE DEF h2, Out
<1>4. t.color[n] = RB_BLACK /\ t.color[f] = RB_RED /\ t.color[p] \in {RB_RED, RB_BLACK}
  BY <1>1 DEF IsRed, Tree, RB_RED, RB_BLACK
<1>5. /\ h[n] = 1 + h[f] /\ h[fs] = h[f] /\ h[fo] = h[f] /\ h[y] = h[f] /\ h[tmp] = h[f]
      /\ h[n] \in Nat /\ h[f] \in Nat /\ h[p] = t.color[p] + h[n] /\ h[p] \in Nat
  <2>1. Heights(t, M, h, p, s) /\ Linked(t, M)
    BY DEF Painted, Shape
  <2>2. h[n] = 1 + h[f] /\ h[f] \in Nat /\ h[n] \in Nat
    BY <1>1, <1>2, <1>4, <2>1, Down
  <2>3. h[n] = 1 + h[tmp] /\ h[tmp] \in Nat
    BY <1>1, <1>4, <2>1, Down
  <2>4. h[f] = h[fs] /\ h[f] = h[fo]
    BY <1>1, <1>4, <2>1, Down
  <2>5. h[p] = t.color[p] + h[y] + 1 /\ h[y] \in Nat /\ h[p] \in Nat
    BY <2>1, Down
  <2>6. /\ t.color[p] = RB_RED => h[p] = h[n]
        /\ t.color[p] = RB_BLACK => h[p] = 1 + h[n]
    BY <1>1, <1>2, <2>1, Down
  <2> HIDE DEF tmp, y
  <2>7. h[p] = t.color[p] + h[n]
    BY <1>4, <2>2, <2>6 DEF RB_RED, RB_BLACK
  <2>8. h[y] = h[f]
    BY <1>4, <2>2, <2>5, <2>7 DEF RB_RED, RB_BLACK
  <2>9. h[tmp] = h[f]
    BY <2>2, <2>3
  <2> QED  BY <2>2, <2>4, <2>5, <2>7, <2>8, <2>9
<1> HIDE DEF tmp, o, y, fs, fo
<1>6. /\ u \in Tree /\ Rotated(t, u, p, n, s)
      /\ u.color[p] = RB_BLACK /\ u.color[n] = t.color[p] /\ u.color[f] = RB_BLACK
      /\ \A m \in Node \ {p, n, f} : u.color[m] = t.color[m]
  BY DEF NephewTurned
<1>7. /\ u.child[p][o] = tmp /\ u.child[p][s] = y
      /\ u.child[n][s] = p /\ u.child[n][o] = f
      /\ u.child[f][s] = fs /\ u.child[f][o] = fo
  <2>1. f \in Node /\ p \in Node /\ n \in Node
    BY <1>1
  <2>2. y # p /\ f # p /\ fs # p /\ fo # p
    BY <1>1 DEF Out
  <2> QED  BY <1>1, <1>2, <1>6, <2>1, <2>2 DEF Rotated, o, tmp, y, fs, fo
<1>8. Framed(t, u, M, {p, n, f}, p, n)
  BY <1>1, <1>2, <1>6, RotateFrame DEF o
<1>9. /\ h2[n] = t.color[p] + h[n] /\ h2[p] = h[n] /\ h2[f] = h[n]
      /\ h2[tmp] = h[f] /\ h2[y] = h[f] /\ h2[fs] = h[f] /\ h2[fo] = h[f]
  <2>1. h2[tmp] = h[tmp] /\ h2[y] = h[y] /\ h2[fs] = h[fs] /\ h2[fo] = h[fo]
    BY <1>1, <1>3 DEF Out
  <2> QED  BY <1>3, <1>5, <2>1
<1>10. PaintedAt(u, n, h2, NULL, s, NULL)
  <2>1. h2[u.child[n][s]] = h[n] /\ h2[u.child[n][o]] = h[n] /\ h2[n] = u.color[n] + h[n]
    BY <1>6, <1>7, <1>9
  <2>2. h2[n] \in Nat /\ n # NULL
    BY <1>1, <1>3
  <2>3. /\ h2[n] = u.color[n] + h2[u.child[n][s]]
        /\ h2[n] = u.color[n] + h2[u.child[n][o]]
    BY <2>1
  <2>4. u.color[u.child[n][s]] = RB_BLACK /\ u.color[u.child[n][o]] = RB_BLACK
    BY <1>6, <1>7
  <2> QED  BY <2>2, <2>3, <2>4, PaintedSides DEF o
<1>11. ASSUME NEW m \in {p, f}  PROVE PaintedAt(u, m, h2, NULL, s, NULL)
  <2>1. u.color[m] = 1 /\ m # NULL /\ u.color[m] = RB_BLACK
    BY <1>1, <1>6 DEF RB_BLACK
  <2>2. h2[u.child[m][s]] = h[f] /\ h2[u.child[m][o]] = h[f] /\ h2[m] = h[n]
    BY <1>7, <1>9
  <2>3. /\ h2[m] \in Nat /\ h2[m] = u.color[m] + h2[u.child[m][s]]
        /\ h2[m] = u.color[m] + h2[u.child[m][o]]
    BY <1>5, <2>1, <2>2
  <2> QED  BY <2>1, <2>3, PaintedSides DEF o
<1>12. Painted(u, M, h2, NULL, s, NULL)
  <2>1. \A m \in {p, n, f} : PaintedAt(u, m, h2, NULL, s, NULL)
    BY <1>10, <1>11
  <2>2. \A m \in Link \ {p, n, f} : h2[m] = h[m]
    BY <1>3
  <2>3. t \in Tree /\ Linked(t, M) /\ h2 \in [Link -> Nat] /\ h2[NULL] = 0 /\ h2[n] = h[p]
    BY <1>1, <1>3 DEF Shape
  <2> QED  BY <1>6, <1>8, <2>1, <2>2, <2>3, FramePaint
<1> QED  BY <1>12

(* The cases 3 and 4 of __rb_erase_fix.                                    *)
LEMMA NearPaint ==
  ASSUME NEW t, NEW M, Linked(t, M), NEW s \in Side, NEW p \in M, NEW n \in M, NEW k \in M,
         Angle(t, M, p, n, k, s),
         NEW h, Painted(t, M, h, p, s, NULL),
         ~IsRed(t, n), IsRed(t, k), ~IsRed(t, t.child[n][Other(s)]),
         NEW u, NephewTwiceTurned(t, u, p, n, k, s)
  PROVE  \E h2 : Painted(u, M, h2, NULL, s, NULL)
<1> DEFINE o == Other(s)
           kl == t.child[k][s]
           kr == t.child[k][o]
           y == t.child[p][s]
           z == t.child[n][o]
           h2 == [h EXCEPT ![k] = h[p], ![p] = h[n]]
           Out == (M \cup {NULL}) \ {p, n, k}
<1>1. /\ n # p /\ p # k /\ n # k /\ NULL \notin Node /\ M \subseteq Node
      /\ o \in Side /\ o # s /\ Other(o) = s /\ t \in Tree
      /\ kl \in Out /\ kr \in Out /\ y \in Out /\ z \in Out
  BY DEF Angle
<1>2. t.child[p][o] = n /\ t.child[n][s] = k
  BY DEF Angle
<1>3. /\ h \in [Link -> Nat] /\ h[NULL] = 0 /\ M \cup {NULL} \subseteq Link
      /\ h2 \in [Link -> Nat] /\ h2[NULL] = 0 /\ h2[k] = h[p] /\ h2[p] = h[n]
      /\ \A m \in Link \ {k, p} : h2[m] = h[m]
  BY <1>1 DEF Painted, Heights, Link
<1> HIDE DEF h2, Out
<1>4. t.color[n] = RB_BLACK /\ t.color[k] = RB_RED /\ t.color[p] \in {RB_RED, RB_BLACK}
  BY <1>1 DEF IsRed, Tree, RB_RED, RB_BLACK
<1>5. kr # NULL => t.color[kr] = RB_BLACK
  BY <1>1, <1>4 DEF Painted, Colours, Out
<1>6. /\ h[n] = 1 + h[k] /\ h[y] = h[k] /\ h[z] = h[k] /\ h[kl] = h[k] /\ h[kr] = h[k]
      /\ h[n] \in Nat /\ h[k] \in Nat /\ h[p] = t.color[p] + h[n] /\ h[p] \in Nat
  <2>1. Heights(t, M, h, p, s)
    BY DEF Painted
  <2>2. h[n] = 1 + h[k] /\ h[k] \in Nat /\ h[n] \in Nat
    BY <1>1, <1>2, <1>4, <2>1, Down
  <2>3. h[n] = 1 + h[z] /\ h[z] \in Nat
    BY <1>1, <1>4, <2>1, Down
  <2>4. h[k] = h[kl] /\ h[k] = h[kr]
    BY <1>1, <1>4, <2>1, Down
  <2>5. h[p] = t.color[p] + h[y] + 1 /\ h[y] \in Nat /\ h[p] \in Nat
    BY <2>1, Down
  <2>6. /\ t.color[p] = RB_RED => h[p] = h[n]
        /\ t.color[p] = RB_BLACK => h[p] = 1 + h[n]
    BY <1>1, <1>2, <2>1, Down
  <2> HIDE DEF z, y
  <2>7. h[p] = t.color[p] + h[n]
    BY <1>4, <2>2, <2>6 DEF RB_RED, RB_BLACK
  <2>8. h[y] = h[k]
    BY <1>4, <2>2, <2>5, <2>7 DEF RB_RED, RB_BLACK
  <2>9. h[z] = h[k]
    BY <2>2, <2>3
  <2> QED  BY <2>2, <2>4, <2>5, <2>7, <2>8, <2>9
<1> HIDE DEF kl, kr, o, y, z
<1>7. /\ u.color[p] = RB_BLACK /\ u.color[n] = RB_BLACK /\ u.color[k] = t.color[p]
      /\ \A m \in Node \ {p, n, k} : u.color[m] = t.color[m]
  BY <1>5, NodeAssumption DEF NephewTwiceTurned, kr, o
<1>8. /\ u.child[p][o] = kl /\ u.child[p][s] = y
      /\ u.child[n][s] = kr /\ u.child[n][o] = z
      /\ u.child[k][s] = p /\ u.child[k][o] = n
  <2>1. DoublyRotated(t, u, p, n, k, s) /\ p \in Node /\ n \in Node /\ k \in Node
    BY <1>1 DEF NephewTwiceTurned
  <2>2. y # p /\ z # p
    BY <1>1 DEF Out
  <2> QED  BY <1>1, <2>1, <2>2 DEF DoublyRotated, o, y, z, kl, kr
<1>9. Framed(t, u, M, {p, n, k}, p, k)
  BY <1>7, DoubleFrame DEF NephewTwiceTurned
<1>10. /\ h2[k] = t.color[p] + h[n] /\ h2[p] = h[n] /\ h2[n] = h[n]
       /\ h2[kl] = h[k] /\ h2[kr] = h[k] /\ h2[y] = h[k] /\ h2[z] = h[k]
  <2>1. /\ h2[kl] = h[kl] /\ h2[kr] = h[kr] /\ h2[y] = h[y] /\ h2[z] = h[z]
        /\ h2[n] = h[n]
    BY <1>1, <1>3 DEF Out
  <2> QED  BY <1>3, <1>6, <2>1
<1>11. PaintedAt(u, k, h2, NULL, s, NULL)
  <2>1. h2[u.child[k][s]] = h[n] /\ h2[u.child[k][o]] = h[n] /\ h2[k] = u.color[k] + h[n]
    BY <1>7, <1>8, <1>10
  <2>2. h2[k] \in Nat /\ k # NULL
    BY <1>1, <1>3
  <2>3. /\ h2[k] = u.color[k] + h2[u.child[k][s]]
        /\ h2[k] = u.color[k] + h2[u.child[k][o]]
    BY <2>1
  <2>4. u.color[u.child[k][s]] = RB_BLACK /\ u.color[u.child[k][o]] = RB_BLACK
    BY <1>7, <1>8
  <2> QED  BY <2>2, <2>3, <2>4, PaintedSides DEF o
<1>12. ASSUME NEW m \in {p, n}  PROVE PaintedAt(u, m, h2, NULL, s, NULL)
  <2>1. u.color[m] = 1 /\ m # NULL /\ u.color[m] = RB_BLACK
    BY <1>1, <1>7 DEF RB_BLACK
  <2>2. h2[u.child[m][s]] = h[k] /\ h2[u.child[m][o]] = h[k] /\ h2[m] = h[n]
    BY <1>8, <1>10
  <2>3. /\ h2[m] \in Nat /\ h2[m] = u.color[m] + h2[u.child[m][s]]
        /\ h2[m] = u.color[m] + h2[u.child[m][o]]
    BY <1>6, <2>1, <2>2
  <2> QED  BY <2>1, <2>3, PaintedSides DEF o
<1>13. Painted(u, M, h2, NULL, s, NULL)
  <2>1. \A m \in {p, n, k} : PaintedAt(u, m, h2, NULL, s, NULL)
    BY <1>11, <1>12
  <2>2. \A m \in Link \ {p, n, k} : h2[m] = h[m]
    BY <1>3
  <2>3. t \in Tree /\ h2 \in [Link -> Nat] /\ h2[NULL] = 0 /\ h2[k] = h[p]
    BY <1>1, <1>3
  <2> QED  BY <1>7, <1>9, <2>1, <2>2, <2>3, FramePaint
<1> QED  BY <1>13

-----------------------------------------------------------------------------
(* Changes of colours.                                                     *)

SameLinks(t, u) ==
  /\ u \in Tree /\ u.root = t.root
  /\ \A m \in Node : /\ u.parent[m] = t.parent[m]
                     /\ \A r \in Side : u.child[m][r] = t.child[m][r]

LEMMA SameShape ==
  ASSUME NEW t, NEW M, NEW sub, Shape(t, M, sub), NEW u, SameLinks(t, u)
  PROVE  Shape(u, M, sub)
<1>1. M \subseteq Node /\ t \in Tree /\ u \in Tree
  BY DEF Shape, Linked, SameLinks
<1>2. u.parent = t.parent
  BY <1>1 DEF SameLinks, Tree
<1>3. u.child = t.child
  <2>1. ASSUME NEW m \in Node  PROVE u.child[m] = t.child[m]
    <3>1. u.child[m] \in [Side -> Link] /\ t.child[m] \in [Side -> Link]
      BY <1>1 DEF Tree
    <3>2. \A r \in Side : u.child[m][r] = t.child[m][r]
      BY DEF SameLinks
    <3> QED  BY <3>1, <3>2
  <2> QED  BY <1>1, <2>1 DEF Tree
<1>4. u.root = t.root
  BY DEF SameLinks
<1> QED  BY <1>1, <1>2, <1>3, <1>4 DEF Shape, Linked, Labelled, Ordered, Closed

LEMMA SameFrame ==
  ASSUME NEW t, NEW M, Linked(t, M), NEW u, SameLinks(t, u),
         NEW X, X \subseteq M, NEW a \in X, \A c \in X \ {a} : t.parent[c] \in X,
         \A m \in Node \ X : u.color[m] = t.color[m]
  PROVE  Framed(t, u, M, X, a, a)
<1>1. M \subseteq Node /\ NULL \notin Node /\ u.root = t.root
  BY NodeAssumption DEF Linked, SameLinks
<1>2. t.root \notin X \ {a}
  BY <1>1 DEF Linked
<1>3. ASSUME NEW m \in M \ X, NEW r \in Side
      PROVE  t.child[m][r] \notin X \ {a} /\ u.child[m][r] = t.child[m][r]
  <2>1. t.child[m][r] # NULL => t.parent[t.child[m][r]] = m
    BY DEF Linked
  <2> QED  BY <1>1, <2>1 DEF SameLinks
<1> QED  BY <1>1, <1>2, <1>3 DEF Framed

(* How the nodes are linked around two siblings.                           *)
Fork(t, M, g, p, n, s) ==
  LET o == Other(s)
      Out == (M \cup {NULL}) \ {g, p, n}
  IN  /\ g # p /\ g # n /\ p # n /\ NULL \notin Node /\ M \subseteq Node
      /\ s \in Side /\ o \in Side /\ o # s /\ t \in Tree
      /\ t.child[g][s] = p /\ t.child[g][o] = n /\ t.parent[p] = g /\ t.parent[n] = g
      /\ \A r \in Side : t.child[p][r] \in Out /\ t.child[n][r] \in Out

LEMMA ForkFacts ==
  ASSUME NEW t, NEW M, NEW sub, Shape(t, M, sub), NEW s \in Side, NEW g \in M,
         NEW p \in M, t.child[g][s] = p, NEW n \in M, t.child[g][Other(s)] = n
  PROVE  Fork(t, M, g, p, n, s)
<1> DEFINE o == Other(s)
           Out == (M \cup {NULL}) \ {g, p, n}
<1>1. /\ o \in Side /\ o # s /\ Other(o) = s /\ t \in Tree /\ Linked(t, M)
      /\ NULL \notin Node /\ M \subseteq Node
  BY SideFacts, NodeAssumption DEF Shape, Linked
<1>2. \A m \in M, r \in Side :
        /\ t.child[m][r] \in M \cup {NULL} /\ t.child[m][r] # m
        /\ t.child[m][r] # NULL => t.parent[t.child[m][r]] = m
  BY <1>1, ShapeFacts DEF Linked
<1>3. p # n /\ g # p /\ g # n /\ t.parent[p] = g /\ t.parent[n] = g
  <2>1. p # NULL /\ n # NULL
    BY <1>1
  <2>2. p # n
    BY <2>1, ShapeFacts
  <2> QED  BY <1>1, <1>2, <2>1, <2>2
<1>4. ASSUME NEW m \in {p, n}, NEW r \in Side  PROVE t.child[m][r] \in Out
  <2>1. t.child[m][r] \in M \cup {NULL} /\ t.child[m][r] # m
    BY <1>2
  <2>2. t.child[m][r] # p /\ t.child[m][r] # n
    BY <1>1, <1>2, <1>3
  <2>3. t.child[m][r] # g
    <3>1. t.child[m][r] = g => g # t.root /\ t.parent[g] = m
      BY <1>1, <1>2, ShapeFacts
    <3>2. m \in sub[g]
      <4>1. m \in sub[m]
        BY ShapeFacts
      <4> QED  BY <1>1, <4>1 DEF Shape, Labelled
    <3> QED  BY <3>2, ShapeFacts
  <2> QED  BY <2>1, <2>2, <2>3
<1> QED  BY <1>1, <1>3, <1>4 DEF Fork

(* The case 1 of __rb_insert_fix.                                          *)
LEMMA UnclePaint ==
  ASSUME NEW t, NEW M, Linked(t, M), NEW s, NEW g \in M, NEW p \in M, NEW n \in M,
         Fork(t, M, g, p, n, s), NEW x \in M, t.parent[x] = p, x # t.root,
         NEW h, NEW q, Painted(t, M, h, NULL, q, x), IsRed(t, p), IsRed(t, n), p # x,
         NEW u, SameLinks(t, u),
         u.color[g] = RB_RED, u.color[p] = RB_BLACK, u.color[n] = RB_BLACK,
         \A m \in Node \ {g, p, n} : u.color[m] = t.color[m]
  PROVE  \E h2 : Painted(u, M, h2, NULL, q, g)
<1> DEFINE o == Other(s)
           h2 == [h EXCEPT ![p] = 1 + h[p], ![n] = 1 + h[n]]
           Out == (M \cup {NULL}) \ {g, p, n}
<1>1. /\ g # p /\ g # n /\ p # n /\ NULL \notin Node /\ M \subseteq Node
      /\ s \in Side /\ o \in Side /\ o # s /\ t \in Tree
      /\ t.parent[p] = g /\ t.parent[n] = g
      /\ \A r \in Side : t.child[p][r] \in Out /\ t.child[n][r] \in Out
  BY DEF Fork
<1>2. t.child[g][s] = p /\ t.child[g][o] = n
  BY DEF Fork
<1>3. /\ h \in [Link -> Nat] /\ h[NULL] = 0 /\ M \cup {NULL} \subseteq Link
      /\ h2 \in [Link -> Nat] /\ h2[NULL] = 0 /\ h2[p] = 1 + h[p] /\ h2[n] = 1 + h[n]
      /\ \A m \in Link \ {p, n} : h2[m] = h[m]
  BY <1>1 DEF Painted, Heights, Link
<1> HIDE DEF h2, Out
<1>4. t.color[p] = RB_RED /\ t.color[n] = RB_RED
  BY DEF IsRed
<1>5. t.color[g] = RB_BLACK
  <2>1. t.color[g] = RB_RED => t.color[p] = RB_BLACK
    BY <1>1, <1>2 DEF Painted, Colours
  <2> QED  BY <1>1, <1>4, <2>1 DEF Tree, RB_RED, RB_BLACK
<1>6. Heights(t, M, h, NULL, q) /\ g # NULL /\ p # NULL /\ n # NULL
  BY <1>1 DEF Painted
<1>7. h[g] = 1 + h[p] /\ h[g] = 1 + h[n] /\ h[p] \in Nat /\ h[n] \in Nat
  BY <1>1, <1>2, <1>5, <1>6, Down
<1>8. \A r \in Side : h[p] = h[t.child[p][r]] /\ h[n] = h[t.child[n][r]]
  BY <1>4, <1>6, Down
<1> HIDE DEF o
<1>9. \A m \in {g, p, n}, r \in Side : u.child[m][r] = t.child[m][r]
  BY <1>1 DEF SameLinks
<1>10. ASSUME NEW m \in {p, n}  PROVE PaintedAt(u, m, h2, NULL, q, g)
  <2>1. u.color[m] = 1 /\ m # NULL /\ h2[m] = 1 + h[m] /\ h[m] \in Nat /\ u.color[m] = RB_BLACK
    BY <1>3, <1>6, <1>7 DEF RB_BLACK
  <2>2. \A r \in Side : h2[u.child[m][r]] = h[m]
    <3>1. \A r \in Side : t.child[m][r] \in Link \ {p, n}
      BY <1>1, <1>3 DEF Out
    <3> QED  BY <1>3, <1>8, <1>9, <3>1
  <2>3. h2[u.child[m][s]] = h[m] /\ h2[u.child[m][o]] = h[m]
    BY <1>1, <2>2
  <2>4. /\ h2[m] \in Nat /\ h2[m] = u.color[m] + h2[u.child[m][s]]
        /\ h2[m] = u.color[m] + h2[u.child[m][o]]
    BY <2>1, <2>3
  <2> QED  BY <1>1, <2>1, <2>4, PaintedSides DEF o
<1>11. PaintedAt(u, g, h2, NULL, q, g)
  <2>1. u.child[g][s] = p /\ u.child[g][o] = n
    BY <1>1, <1>2, <1>9
  <2>2. u.color[g] = 0 /\ h2[g] = h[g] /\ h2[g] = h2[p] /\ h2[g] = h2[n] /\ h2[g] \in Nat
    BY <1>1, <1>3, <1>7 DEF RB_RED
  <2>3. /\ h2[g] = u.color[g] + h2[u.child[g][s]]
        /\ h2[g] = u.color[g] + h2[u.child[g][o]]
    BY <2>1, <2>2
  <2>4. u.color[u.child[g][s]] = RB_BLACK /\ u.color[u.child[g][o]] = RB_BLACK
    BY <2>1
  <2> QED  BY <1>1, <1>6, <2>2, <2>3, <2>4, PaintedSides DEF o
<1>12. Framed(t, u, M, {g, p, n}, g, g)
  BY <1>1, SameFrame
<1>13. x # t.root /\ \A m \in M \ {g, p, n}, r \in Side : t.child[m][r] # x
  <2>1. x # NULL
    BY <1>1
  <2> QED  BY <2>1 DEF Linked
<1>14. Painted(u, M, h2, NULL, q, g)
  <2>1. \A m \in {g, p, n} : PaintedAt(u, m, h2, NULL, q, g)
    BY <1>10, <1>11
  <2>2. \A m \in Link \ {g, p, n} : h2[m] = h[m]
    BY <1>3
  <2>3. t \in Tree /\ h2 \in [Link -> Nat] /\ h2[NULL] = 0 /\ h2[g] = h[g]
    BY <1>1, <1>3
  <2> QED  BY <1>12, <1>13, <2>1, <2>2, <2>3, FramePaint
<1> QED  BY <1>14

(* The root becomes black.                                                 *)
LEMMA RootPaint ==
  ASSUME NEW t \in Tree, NEW M, Linked(t, M), t.root # NULL, t.color[t.root] = RB_RED,
         NEW h, NEW q, Painted(t, M, h, NULL, q, t.root),
         NEW u, SameLinks(t, u), u.color[t.root] = RB_BLACK,
         \A m \in Node \ {t.root} : u.color[m] = t.color[m]
  PROVE  \E h2 : Painted(u, M, h2, NULL, q, NULL)
<1> DEFINE c == t.root
           h2 == [h EXCEPT ![c] = 1 + h[c]]
<1>1. /\ M \subseteq Node /\ NULL \notin Node /\ c \in M /\ c # NULL
      /\ \A r \in Side : t.child[c][r] \in M \cup {NULL}
      /\ \A m \in M, r \in Side : t.child[m][r] # c
  <2>1. M \subseteq Node /\ NULL \notin Node /\ c \in M /\ c # NULL /\ t.parent[c] = NULL
    BY NodeAssumption DEF Linked
  <2>2. \A r \in Side : t.child[c][r] \in M \cup {NULL}
    BY <2>1 DEF Linked
  <2>3. \A m \in M, r \in Side : t.child[m][r] # NULL => t.parent[t.child[m][r]] = m
    BY DEF Linked
  <2> HIDE DEF c
  <2> QED  BY <2>1, <2>2, <2>3
<1>2. /\ h \in [Link -> Nat] /\ h[NULL] = 0 /\ M \cup {NULL} \subseteq Link
      /\ h2 \in [Link -> Nat] /\ h2[NULL] = 0 /\ h2[c] = 1 + h[c]
      /\ \A m \in Link \ {c} : h2[m] = h[m]
  BY <1>1 DEF Painted, Heights, Link
<1> HIDE DEF h2
<1>3. \A r \in Side : h[c] = h[t.child[c][r]] /\ h[c] \in Nat
  BY <1>1, Down DEF Painted
<1>4. PaintedAt(u, c, h2, NULL, q, NULL)
  <2>1. u.color[c] = 1 /\ u.color[c] = RB_BLACK
    BY DEF RB_BLACK
  <2>2. \A r \in Side : h2[u.child[c][r]] = h[c] /\ h[c] \in Nat
    <3>1. \A r \in Side : u.child[c][r] = t.child[c][r] /\ t.child[c][r] \in Link \ {c}
      BY <1>1, <1>2 DEF SameLinks
    <3> QED  BY <1>2, <1>3, <3>1
  <2>3. \A r \in Side : h2[c] = u.color[c] + h2[u.child[c][r]] /\ h2[c] \in Nat
    BY <1>2, <2>1, <2>2
  <2>4. "rb_left" \in Side /\ Other("rb_left") \in Side
    BY SideFacts
  <2> QED  BY <1>1, <2>1, <2>3, <2>4, PaintedSides
<1>5. Framed(t, u, M, {c}, c, c)
  BY <1>1, SameFrame
<1> HIDE DEF c
<1>6. \A m \in M \ {c}, r \in Side : t.child[m][r] # c
  BY <1>1
<1>7. /\ c = t.root /\ Painted(t, M, h, NULL, q, c) /\ u.color[c] = RB_BLACK
  BY DEF c
<1>8. \A m \in {c} : PaintedAt(u, m, h2, NULL, q, NULL)
  BY <1>4
<1>9. Painted(u, M, h2, NULL, q, NULL)
  BY <1>2, <1>5, <1>6, <1>7, <1>8, FramePaint
<1> QED  BY <1>9

(* How the nodes are linked around a node and its child.                   *)
Bough(t, M, p, n, s) ==
  LET o == Other(s)
      Out == (M \cup {NULL}) \ {p, n}
  IN  /\ n # p /\ NULL \notin Node /\ M \subseteq Node /\ t \in Tree /\ Linked(t, M)
      /\ o \in Side /\ o # s /\ t.child[p][o] = n /\ t.parent[n] = p
      /\ t.parent[p] \notin {p, n} /\ (t.parent[p] = NULL => p = t.root)
      /\ t.child[p][s] \in Out /\ \A r \in Side : t.child[n][r] \in Out
      /\ \A g \in M, r \in Side :
           t.child[g][r] = p => t.parent[p] = g /\ t.child[g][Other(r)] \notin {g, p, n}

LEMMA BoughFacts ==
  ASSUME NEW t, NEW M, NEW sub, Shape(t, M, sub),
         NEW s \in Side, NEW p \in M, NEW n \in M, t.child[p][Other(s)] = n
  PROVE  Bough(t, M, p, n, s)
<1> DEFINE o == Other(s)
           Out == (M \cup {NULL}) \ {p, n}
<1>1. /\ n # p /\ NULL \notin Node /\ M \subseteq Node /\ t.parent[n] = p
      /\ o \in Side /\ o # s
      /\ t.parent[p] \notin {p, n} /\ (t.parent[p] = NULL => p = t.root)
      /\ \A r \in Side : t.child[n][r] # p /\ t.child[n][r] # n
      /\ t.child[p][s] # n /\ t.child[p][s] # p
  BY RotationFacts
<1>2. t \in Tree /\ Linked(t, M)
  BY DEF Shape
<1>3. \A m \in M, r \in Side :
        /\ t.child[m][r] \in M \cup {NULL}
        /\ t.child[m][r] # NULL => t.parent[t.child[m][r]] = m
  BY <1>2 DEF Linked
<1>4. ASSUME NEW g \in M, NEW r \in Side, t.child[g][r] = p
      PROVE  t.parent[p] = g /\ t.child[g][Other(r)] \notin {g, p, n}
  <2>1. p # NULL /\ n # NULL /\ Other(r) \in Side
    BY <1>1, SideFacts
  <2>2. t.parent[p] = g
    BY <1>3, <1>4, <2>1
  <2>3. t.child[g][Other(r)] # p
    BY <1>4, <2>1, ShapeFacts
  <2>4. t.child[g][Other(r)] # n
    BY <1>1, <1>3, <2>1, <2>2
  <2>5. g # NULL
    BY <1>1
  <2>6. t.child[g][Other(r)] # g
    BY <2>1, <2>5, ShapeFacts
  <2> QED  BY <2>2, <2>3, <2>4, <2>6
<1>5. t.child[p][s] \in Out /\ \A r \in Side : t.child[n][r] \in Out
  BY <1>1, <1>3
<1> QED  BY <1>1, <1>2, <1>4, <1>5 DEF Bough

(* The case 2 of __rb_erase_fix: the sibling n of the side s is red now,   *)
(* and p black; when it was so before, the missing node is missing one     *)
(* level up.                                                               *)
LEMMA NephewsPaint ==
  ASSUME NEW t, NEW M, NEW s \in Side, NEW p \in M, NEW n \in M, Bough(t, M, p, n, s),
         NEW h, Painted(t, M, h, p, s, NULL), ~IsRed(t, n),
         \A r \in Side : ~IsRed(t, t.child[n][r]),
         NEW u, SameLinks(t, u), u.color[n] = RB_RED, u.color[p] = RB_BLACK,
         \A m \in Node \ {p, n} : u.color[m] = t.color[m]
  PROVE  /\ IsRed(t, p) \/ t.parent[p] = NULL => \E h2 : Painted(u, M, h2, NULL, s, NULL)
         /\ ~IsRed(t, p) =>
              \A g \in M, r \in Side : t.child[g][r] = p => \E h2 : Painted(u, M, h2, g, r, NULL)
<1> DEFINE o == Other(s)
           y == t.child[p][s]
           Out == (M \cup {NULL}) \ {p, n}
           h2 == [h EXCEPT ![n] = h[y], ![p] = 1 + h[y]]
<1>1. /\ NULL \notin Node /\ M \subseteq Node /\ o \in Side /\ o # s /\ p # NULL /\ n # NULL
      /\ y \in Out /\ t.parent[n] = p /\ n # p /\ t \in Tree /\ Linked(t, M)
      /\ t.parent[p] \notin {p, n} /\ (t.parent[p] = NULL => p = t.root)
  BY DEF Bough
<1>2. \A r \in Side : t.child[n][r] \in Out
  BY DEF Bough
<1>3. t.child[p][o] = n
  BY DEF Bough
<1>4. h \in [Link -> Nat] /\ h[NULL] = 0 /\ M \cup {NULL} \subseteq Link
  BY <1>1 DEF Painted, Heights, Link
<1>5. t.color[n] = RB_BLACK /\ t.color[p] \in {RB_RED, RB_BLACK}
  BY <1>1 DEF IsRed, Tree, RB_RED, RB_BLACK
<1>6. \A r \in Side : t.child[n][r] # NULL => t.color[t.child[n][r]] = RB_BLACK
  BY <1>1, <1>2 DEF IsRed, Tree, RB_RED, RB_BLACK
<1>7. Heights(t, M, h, p, s)
  BY DEF Painted
<1>8. ASSUME NEW r \in Side  PROVE h[n] = 1 + h[t.child[n][r]] /\ h[n] \in Nat
  BY <1>1, <1>5, <1>7, Down
<1>9. h[p] = t.color[p] + h[y] + 1 /\ h[y] \in Nat /\ h[p] \in Nat
  BY <1>1, <1>7, Down
<1>10. /\ t.color[p] = RB_RED => h[p] = h[n]
       /\ t.color[p] = RB_BLACK => h[p] = 1 + h[n]
  BY <1>1, <1>3, <1>7, Down
<1>11. /\ h2 \in [Link -> Nat] /\ h2[NULL] = 0 /\ h2[n] = h[y] /\ h2[p] = 1 + h[y]
       /\ \A m \in Link \ {p, n} : h2[m] = h[m]
  BY <1>1, <1>4, <1>9
<1> HIDE DEF y, o, Out, h2
<1>12. h[n] = 1 + h[y] /\ h[n] \in Nat
  <2>1. h[n] \in Nat
    BY <1>4
  <2> QED  BY <1>5, <1>9, <1>10, <2>1 DEF RB_RED, RB_BLACK
<1>13. \A r \in Side : h[t.child[n][r]] = h[y]
  <2>1. \A r \in Side : t.child[n][r] \in Link
    BY <1>2, <1>4 DEF Out
  <2>2. \A r \in Side : h[t.child[n][r]] \in Nat
    BY <1>4, <2>1
  <2> QED  BY <1>8, <1>9, <1>12, <2>2
<1>14. /\ u.child[p][s] = y /\ u.child[p][o] = n
       /\ \A r \in Side : u.child[n][r] = t.child[n][r]
  BY <1>1, <1>3 DEF SameLinks, y
<1>15. ASSUME NEW g, NEW r, g # n, g # p  PROVE PaintedAt(u, n, h2, g, r, NULL)
  <2>1. u.color[n] = 0
    BY DEF RB_RED
  <2>2. \A c \in Side : h2[u.child[n][c]] = h[y]
    <3>1. \A c \in Side : t.child[n][c] \in Link \ {p, n}
      BY <1>2, <1>4 DEF Out
    <3> QED  BY <1>11, <1>13, <1>14, <3>1
  <2>3. /\ h2[n] \in Nat /\ h2[n] = u.color[n] + h2[u.child[n][s]]
        /\ h2[n] = u.color[n] + h2[u.child[n][o]]
    BY <1>1, <1>9, <1>11, <2>1, <2>2
  <2>4. \A c \in Side : u.child[n][c] # NULL => u.color[u.child[n][c]] = RB_BLACK
    <3>1. \A c \in Side : t.child[n][c] # NULL => t.child[n][c] \in Node \ {p, n}
      BY <1>1, <1>2 DEF Out
    <3> QED  BY <1>6, <1>14, <3>1
  <2>5. /\ u.child[n][s] # NULL => u.color[u.child[n][s]] = RB_BLACK
        /\ u.child[n][o] # NULL => u.color[u.child[n][o]] = RB_BLACK
    BY <1>1, <2>4
  <2> QED  BY <1>15, <2>3, <2>5, PaintedSides DEF o
<1>16. ASSUME NEW g, NEW r, g # n, g # p  PROVE PaintedAt(u, p, h2, g, r, NULL)
  <2>1. u.color[p] = 1
    BY DEF RB_BLACK
  <2>2. h2[u.child[p][s]] = h[y] /\ h2[u.child[p][o]] = h[y]
    <3>1. y \in Link \ {p, n}
      BY <1>1, <1>4 DEF Out
    <3> QED  BY <1>11, <1>14, <3>1
  <2>3. /\ h2[p] \in Nat /\ h2[p] = u.color[p] + h2[u.child[p][s]]
        /\ h2[p] = u.color[p] + h2[u.child[p][o]]
    BY <1>9, <1>11, <2>1, <2>2
  <2> QED  BY <1>16, <2>3, PaintedSides DEF o
<1>17. ASSUME IsRed(t, p) \/ t.parent[p] = NULL  PROVE Painted(u, M, h2, NULL, s, NULL)
  <2>1. Framed(t, u, M, {p, n}, p, p)
    BY <1>1, SameFrame
  <2>2. p = t.root \/ h2[p] = h[p]
    BY <1>1, <1>10, <1>11, <1>12, <1>17 DEF IsRed
  <2>3. \A m \in {p, n} : PaintedAt(u, m, h2, NULL, s, NULL)
    BY <1>1, <1>15, <1>16
  <2>4. /\ h2 \in [Link -> Nat] /\ h2[NULL] = 0 /\ \A m \in Link \ {p, n} : h2[m] = h[m]
        /\ t \in Tree /\ Linked(t, M)
    BY <1>1, <1>11
  <2> QED  BY <2>1, <2>2, <2>3, <2>4, FramePaint
<1>18. ASSUME ~IsRed(t, p), NEW g \in M, NEW r \in Side, t.child[g][r] = p
       PROVE  Painted(u, M, h2, g, r, NULL)
  <2> DEFINE X == {g, p, n}
             c == t.child[g][Other(r)]
  <2>1. /\ t.parent[p] = g /\ c \notin {g, p, n} /\ g # p /\ g # n
        /\ Other(r) \in Side /\ Other(r) # r /\ c \in M \cup {NULL}
    <3>1. t.parent[p] = g /\ c \notin {g, p, n}
      BY <1>18 DEF Bough
    <3>2. Other(r) \in Side /\ Other(r) # r
      BY SideFacts
    <3> QED  BY <1>1, <3>1, <3>2 DEF Linked
  <2>2. Framed(t, u, M, X, g, g)
    BY <1>1, <2>1, SameFrame
  <2>3. t.color[p] = RB_BLACK /\ h[p] = 1 + h2[p] /\ h2[p] \in Nat
    <3>1. t.color[p] = RB_BLACK
      BY <1>1, <1>5, <1>18 DEF IsRed
    <3> QED  BY <1>9, <1>10, <1>11, <1>12, <3>1
  <2>4. /\ u.child[g][r] = p /\ u.child[g][Other(r)] = c /\ u.color[g] = t.color[g]
    BY <1>1, <1>18, <2>1 DEF SameLinks
  <2>5. \A e \in Side : e = r \/ e = Other(r)
    BY SideFacts
  <2>6. PaintedAt(u, g, h2, g, r, NULL)
    <3>1. /\ h[g] = t.color[g] + h[p] + 0
          /\ h[g] = t.color[g] + h[c] + 0
      BY <1>7, <1>18, <2>1 DEF Heights
    <3>2. h2[g] = h[g] /\ h2[c] = h[c] /\ h2[c] \in Nat /\ t.color[g] \in Nat
      <4>1. c \in Link \ {p, n} /\ g \in Link \ {p, n}
        BY <1>4, <2>1
      <4>2. t.color[g] \in Nat
        BY <1>1 DEF Tree, RB_RED, RB_BLACK
      <4> QED  BY <1>4, <1>11, <4>1, <4>2
    <3> HIDE DEF c
    <3>3. /\ h2[g] = u.color[g] + h2[u.child[g][r]] + 1
          /\ h2[g] = u.color[g] + h2[u.child[g][Other(r)]] + 0
      BY <2>3, <2>4, <3>1, <3>2
    <3>4. \A e \in Side :
            h2[g] = u.color[g] + h2[u.child[g][e]] + (IF g = g /\ e = r THEN 1 ELSE 0)
      BY <2>1, <2>5, <3>3
    <3>5. c # NULL /\ t.color[g] = RB_RED => t.color[c] = RB_BLACK
      BY <2>1 DEF Painted, Colours, c
    <3>6. c # NULL => u.color[c] = t.color[c]
      BY <1>1, <2>1
    <3>7. \A e \in Side : u.color[g] = RB_RED /\ u.child[g][e] \notin {NULL, NULL}
                             => u.color[u.child[g][e]] = RB_BLACK
      BY <2>4, <2>5, <3>5, <3>6
    <3> QED  BY <3>4, <3>7 DEF PaintedAt
  <2>7. \A m \in X : PaintedAt(u, m, h2, g, r, NULL)
    BY <1>15, <1>16, <2>1, <2>6
  <2>8. /\ h2 \in [Link -> Nat] /\ h2[NULL] = 0 /\ \A m \in Link \ X : h2[m] = h[m]
        /\ h2[g] = h[g] /\ t \in Tree /\ Linked(t, M)
    BY <1>1, <1>4, <1>11, <2>1
  <2>9. p \in X /\ g \in X
    OBVIOUS
  <2>10. u.color[g] \in {RB_BLACK, t.color[g]}
    BY <2>4
  <2> HIDE DEF X
  <2> QED  BY <2>2, <2>7, <2>8, <2>9, <2>10, FramePaint
<1> QED  BY <1>17, <1>18

-----------------------------------------------------------------------------
(* The colours after a node came or left.                                  *)

LEMMA HangPaint ==
  ASSUME NEW t \in Tree, NEW M, Linked(t, M), NEW p \in M, NEW s \in Side,
         t.child[p][s] = NULL, NEW z \in Node \ M,
         NEW h, NEW q, Painted(t, M, h, NULL, q, NULL),
         NEW u, Hung(t, u, p, s, z), u.color[z] = RB_RED,
         \A m \in Node \ {z} : u.color[m] = t.color[m]
  PROVE  \E h2 : Painted(u, M \cup {z}, h2, NULL, q, z)
<1> DEFINE h2 == [h EXCEPT ![z] = 0]
<1>1. /\ M \subseteq Node /\ NULL \notin Node /\ z # NULL /\ z # t.root /\ z # p
      /\ \A r \in Side : t.child[z][r] = NULL
      /\ \A m \in M, r \in Side : t.child[m][r] \in M \cup {NULL}
  BY NodeAssumption DEF Linked
<1>2. h \in [Link -> Nat] /\ h[NULL] = 0 /\ M \cup {NULL} \subseteq Link /\ z \in Link
  BY <1>1 DEF Painted, Heights, Link
<1>3. /\ h2 \in [Link -> Nat] /\ h2[NULL] = 0 /\ h2[z] = 0
      /\ \A m \in Link \ {z} : h2[m] = h[m]
  BY <1>1, <1>2
<1> HIDE DEF h2
<1>4. ASSUME NEW m \in M, NEW r \in Side
      PROVE  /\ m = p /\ r = s => u.child[m][r] = z
             /\ ~(m = p /\ r = s) => u.child[m][r] = t.child[m][r]
  BY <1>1 DEF Hung
<1>5. \A r \in Side : u.child[z][r] = NULL
  BY <1>1 DEF Hung
<1>6. ASSUME NEW m \in M, NEW r \in Side  PROVE h2[m] = u.color[m] + h2[u.child[m][r]] + 0
  <2>1. h[m] = t.color[m] + h[t.child[m][r]] + 0
    BY <1>1 DEF Painted, Heights
  <2>2. h2[m] = h[m] /\ u.color[m] = t.color[m]
    BY <1>1, <1>2, <1>3
  <2>3. h2[u.child[m][r]] = h[t.child[m][r]]
    <3>1. CASE m = p /\ r = s
      BY <1>2, <1>3, <1>4, <3>1
    <3>2. CASE ~(m = p /\ r = s)
      <4>1. t.child[m][r] \in Link \ {z}
        BY <1>1, <1>2
      <4> QED  BY <1>3, <1>4, <3>2, <4>1
    <3> QED  BY <3>1, <3>2
  <2> QED  BY <2>1, <2>2, <2>3
<1>7. Heights(u, M \cup {z}, h2, NULL, q)
  <2>1. ASSUME NEW m \in M \cup {z}, NEW r \in Side
        PROVE  h2[m] = u.color[m] + h2[u.child[m][r]] + (IF m = NULL /\ r = q THEN 1 ELSE 0)
    <3>1. m # NULL
      BY <1>1
    <3>2. CASE m = z
      <4>1. u.color[z] = 0 /\ h2[z] = 0 /\ h2[u.child[z][r]] = 0
        BY <1>3, <1>5 DEF RB_RED
      <4> QED  BY <3>1, <3>2, <4>1
    <3>3. CASE m \in M
      <4>1. h2[m] = u.color[m] + h2[u.child[m][r]] + 0
        BY <1>6, <3>3
      <4> QED  BY <3>1, <4>1
    <3> QED  BY <3>2, <3>3
  <2> QED  BY <1>3, <2>1 DEF Heights
<1>8. Colours(u, M \cup {z}, z)
  <2>1. u.root \notin {NULL, z} => u.color[u.root] = RB_BLACK
    <3>1. u.root = t.root
      BY DEF Hung
    <3>2. t.root # NULL => t.color[t.root] = RB_BLACK /\ t.root \in Node
      BY <1>1 DEF Painted, Colours, Linked
    <3> QED  BY <3>1, <3>2
  <2>2. ASSUME NEW m \in M \cup {z}, NEW r \in Side, u.color[m] = RB_RED,
               u.child[m][r] \notin {NULL, z}
        PROVE  u.color[u.child[m][r]] = RB_BLACK
    <3>1. m \in M /\ m # z
      BY <1>5, <2>2
    <3>2. u.child[m][r] = t.child[m][r] /\ t.child[m][r] \in M
      BY <1>1, <1>4, <2>2, <3>1
    <3>3. t.color[m] = RB_RED
      BY <1>1, <2>2, <3>1
    <3>4. t.color[t.child[m][r]] = RB_BLACK
      BY <2>2, <3>1, <3>2, <3>3 DEF Painted, Colours
    <3> QED  BY <1>1, <2>2, <3>2, <3>4
  <2>3. \A m \in Node \ (M \cup {z}) : u.color[m] = RB_RED
    BY DEF Painted, Colours
  <2> QED  BY <2>1, <2>2, <2>3 DEF Colours
<1> QED  BY <1>7, <1>8 DEF Painted

CutColors(t, u, x, c) ==
  /\ u.color[x] = RB_RED /\ (c # NULL => u.color[c] = t.color[x])
  /\ \A m \in Node \ {x, c} : u.color[m] = t.color[m]

LEMMA CutLeafPaint ==
  ASSUME NEW t \in Tree, NEW M, Linked(t, M), NEW x \in M,
         \A r \in Side : t.child[x][r] = NULL,
         NEW h, NEW e, Painted(t, M, h, NULL, e, NULL),
         NEW q \in Side, NEW u, Cut(t, u, x, q), CutColors(t, u, x, NULL), Held(t, x)
  PROVE  /\ t.color[x] = RB_RED \/ t.parent[x] = NULL
              => Painted(u, M \ {x}, h, NULL, e, NULL)
         /\ t.color[x] = RB_BLACK =>
              \A g \in M, r \in Side : t.child[g][r] = x => Painted(u, M \ {x}, h, g, r, NULL)
<1> DEFINE N == M \ {x}
<1>1. /\ M \subseteq Node /\ NULL \notin Node /\ x # NULL
      /\ \A m \in M, r \in Side : t.child[m][r] \in M \cup {NULL}
  BY NodeAssumption DEF Linked
<1>2. h \in [Link -> Nat] /\ h[NULL] = 0 /\ M \cup {NULL} \subseteq Link
  BY <1>1 DEF Painted, Heights, Link
<1>3. ASSUME NEW m \in N, NEW r \in Side
      PROVE  /\ t.child[m][r] = x => u.child[m][r] = NULL
             /\ t.child[m][r] # x => u.child[m][r] = t.child[m][r]
             /\ u.color[m] = t.color[m]
  BY <1>1 DEF Cut, CutColors
<1>4. h[x] = t.color[x] /\ h[x] \in Nat /\ t.color[x] \in {0, 1}
  <2>1. t.color[x] \in {0, 1} /\ "rb_left" \in Side
    BY <1>1, SideFacts DEF Tree, RB_RED, RB_BLACK
  <2>2. h[x] = t.color[x] + h[t.child[x]["rb_left"]] + 0
    BY <1>1, <2>1 DEF Painted, Heights
  <2> QED  BY <1>2, <2>1, <2>2
<1>5. ASSUME NEW m \in N, NEW r \in Side
      PROVE  /\ t.child[m][r] # x => h[m] = u.color[m] + h[u.child[m][r]] + 0
             /\ t.child[m][r] = x => h[m] = u.color[m] + h[u.child[m][r]] + t.color[x]
  <2>1. h[m] = t.color[m] + h[t.child[m][r]] + 0
    BY <1>1 DEF Painted, Heights
  <2>2. t.color[m] \in Nat
    BY <1>1 DEF Tree, RB_RED, RB_BLACK
  <2>3. CASE t.child[m][r] # x
    BY <1>3, <2>1, <2>3
  <2>4. CASE t.child[m][r] = x
    <3>1. h[u.child[m][r]] = 0 /\ u.color[m] = t.color[m]
      BY <1>2, <1>3, <2>4
    <3> QED  BY <1>4, <2>1, <2>2, <2>4, <3>1
  <2> QED  BY <2>3, <2>4
<1>6. Colours(u, N, NULL)
  <2>1. u.root # NULL => u.color[u.root] = RB_BLACK
    <3>1. u.root # NULL => u.root = t.root /\ t.root # x /\ t.root \in M
      BY DEF Cut, Linked
    <3> QED  BY <1>1, <3>1 DEF Painted, Colours, CutColors
  <2>2. ASSUME NEW m \in N, NEW r \in Side, u.color[m] = RB_RED, u.child[m][r] # NULL
        PROVE  u.color[u.child[m][r]] = RB_BLACK
    <3>1. t.color[m] = RB_RED /\ u.child[m][r] = t.child[m][r] /\ t.child[m][r] # x
      BY <1>3, <2>2
    <3>2. t.child[m][r] \in M
      BY <1>1, <2>2, <3>1
    <3>3. t.color[t.child[m][r]] = RB_BLACK
      BY <2>2, <3>1 DEF Painted, Colours
    <3> QED  BY <1>1, <3>1, <3>2, <3>3 DEF CutColors
  <2>3. ASSUME NEW m \in Node \ N  PROVE u.color[m] = RB_RED
    <3>1. m # x => m \in Node \ M /\ m # NULL
      BY <1>1
    <3>2. m # x => t.color[m] = RB_RED
      BY <3>1 DEF Painted, Colours
    <3> QED  BY <3>1, <3>2 DEF CutColors
  <2> QED  BY <2>1, <2>2, <2>3 DEF Colours
<1>7. ASSUME t.color[x] = RB_RED \/ t.parent[x] = NULL  PROVE Heights(u, N, h, NULL, e)
  <2>1. ASSUME NEW m \in N, NEW r \in Side
        PROVE  h[m] = u.color[m] + h[u.child[m][r]] + (IF m = NULL /\ r = e THEN 1 ELSE 0)
    <3>1. m # NULL
      BY <1>1
    <3>2. t.child[m][r] = x => t.color[x] = 0
      BY <1>1, <1>7 DEF Held, RB_RED
    <3>3. h[m] = u.color[m] + h[u.child[m][r]] + 0
      BY <1>5, <3>2
    <3> QED  BY <3>1, <3>3
  <2> QED  BY <1>2, <2>1 DEF Heights
<1>8. ASSUME t.color[x] = RB_BLACK, NEW g \in M, NEW d \in Side, t.child[g][d] = x
      PROVE  Heights(u, N, h, g, d)
  <2>1. ASSUME NEW m \in N, NEW r \in Side
        PROVE  h[m] = u.color[m] + h[u.child[m][r]] + (IF m = g /\ r = d THEN 1 ELSE 0)
    <3>1. t.color[x] = 1
      BY <1>8 DEF RB_BLACK
    <3>2. t.child[m][r] = x <=> m = g /\ r = d
      <4>1. t.child[m][r] = x => m = g
        BY <1>1, <1>8 DEF Held
      <4>2. t.child[g][Other(d)] # x
        <5>1. g = t.parent[x] /\ g # NULL
          BY <1>1, <1>8 DEF Held
        <5>2. PICK a \in Side : t.child[g][a] = x /\ t.child[g][Other(a)] # x
          BY <5>1 DEF Held
        <5>3. a = d
          BY <1>8, <5>2, SideFacts
        <5> QED  BY <5>2, <5>3
      <4>3. r = d \/ r = Other(d)
        BY SideFacts
      <4> QED  BY <1>8, <4>1, <4>2, <4>3
    <3> QED  BY <1>5, <3>1, <3>2
  <2> QED  BY <1>2, <2>1 DEF Heights
<1> QED  BY <1>6, <1>7, <1>8 DEF Painted

LEMMA CutInnerPaint ==
  ASSUME NEW t, NEW M, NEW q \in Side, NEW x \in M, NEW c \in M, Bough(t, M, x, c, q),
         t.child[x][q] = NULL,
         NEW h, NEW e, Painted(t, M, h, NULL, e, NULL),
         NEW u, Cut(t, u, x, Other(q)), CutColors(t, u, x, c)
  PROVE  t.color[x] = RB_BLACK /\ \E h2 : Painted(u, M \ {x}, h2, NULL, e, NULL)
<1> DEFINE o == Other(q)
           Out == (M \cup {NULL}) \ {x, c}
           N == M \ {x}
           h2 == [h EXCEPT ![c] = h[x]]
<1>1. /\ c # x /\ NULL \notin Node /\ M \subseteq Node /\ t \in Tree /\ Linked(t, M)
      /\ o \in Side /\ o # q /\ t.parent[c] = x /\ c # NULL /\ x # NULL
      /\ \A r \in Side : t.child[c][r] \in Out
  BY DEF Bough
<1>2. t.child[x][o] = c
  BY DEF Bough
<1>3. h \in [Link -> Nat] /\ h[NULL] = 0 /\ M \cup {NULL} \subseteq Link
  BY <1>1 DEF Painted, Heights, Link
<1>4. /\ h2 \in [Link -> Nat] /\ h2[NULL] = 0 /\ h2[c] = h[x]
      /\ \A m \in Link \ {c} : h2[m] = h[m]
  BY <1>1, <1>3
<1> HIDE DEF h2, Out, o
<1>5. \A m \in M, r \in Side : h[m] = t.color[m] + h[t.child[m][r]] + 0
  BY <1>1 DEF Painted, Heights
<1>6. \A m \in M : t.color[m] \in {0, 1} /\ h[m] \in Nat
  BY <1>1, <1>3 DEF Tree, RB_RED, RB_BLACK
<1>7. h[x] = t.color[x] /\ h[c] = 0
  <2>1. h[x] = t.color[x] + h[NULL] + 0 /\ h[x] = t.color[x] + h[c] + 0
    BY <1>1, <1>2, <1>5
  <2> QED  BY <1>3, <1>6, <2>1
<1>8. t.color[c] = 0 /\ \A r \in Side : h[t.child[c][r]] = 0
  <2>1. \A r \in Side : h[t.child[c][r]] \in Nat
    BY <1>1, <1>3 DEF Out
  <2>2. ASSUME NEW r \in Side  PROVE t.color[c] = 0 /\ h[t.child[c][r]] = 0
    <3>1. h[c] = t.color[c] + h[t.child[c][r]] + 0
      BY <1>5
    <3>2. t.color[c] \in {0, 1} /\ h[t.child[c][r]] \in Nat
      BY <1>6, <2>1
    <3> QED  BY <1>7, <3>1, <3>2
  <2> QED  BY <2>2, SideFacts
<1>9. t.color[x] = RB_BLACK
  <2>1. t.color[x] = RB_RED => t.color[c] = RB_BLACK
    BY <1>1, <1>2 DEF Painted, Colours
  <2> QED  BY <1>6, <1>8, <2>1 DEF RB_RED, RB_BLACK
<1>10. /\ u.color[c] = RB_BLACK
       /\ \A m \in N \ {c} : u.color[m] = t.color[m]
  BY <1>1, <1>9 DEF CutColors
<1>11. ASSUME NEW m \in N, NEW r \in Side
       PROVE  /\ t.child[m][r] = x => u.child[m][r] = c
              /\ t.child[m][r] # x => u.child[m][r] = t.child[m][r]
  BY <1>1, <1>2 DEF Cut, o
<1>12. ASSUME NEW m \in N, NEW r \in Side  PROVE t.child[m][r] \in M \cup {NULL} /\ t.child[m][r] # c
  BY <1>1 DEF Linked
<1>13. ASSUME NEW m \in N, NEW r \in Side
       PROVE  h2[m] = u.color[m] + h2[u.child[m][r]] + (IF m = NULL /\ r = e THEN 1 ELSE 0)
  <2>1. m # NULL
    BY <1>1
  <2>2. CASE m = c
    <3>1. t.child[c][r] # x /\ t.child[c][r] \in Link \ {c}
      BY <1>1, <1>3 DEF Out
    <3>2. h2[u.child[c][r]] = 0
      BY <1>1, <1>4, <1>8, <1>11, <3>1
    <3>3. h2[c] = 1 /\ u.color[c] = 1
      BY <1>4, <1>7, <1>9, <1>10 DEF RB_BLACK
    <3> QED  BY <2>1, <2>2, <3>2, <3>3
  <2>3. CASE m # c
    <3>1. h2[m] = h[m] /\ u.color[m] = t.color[m]
      BY <1>3, <1>4, <1>10, <2>3
    <3>2. h2[u.child[m][r]] = h[t.child[m][r]]
      <4>1. CASE t.child[m][r] = x
        BY <1>4, <1>11, <4>1
      <4>2. CASE t.child[m][r] # x
        BY <1>3, <1>4, <1>11, <1>12, <4>2
      <4> QED  BY <4>1, <4>2
    <3> QED  BY <1>5, <2>1, <3>1, <3>2
  <2> QED  BY <2>2, <2>3
<1>14. Heights(u, N, h2, NULL, e)
  BY <1>4, <1>13 DEF Heights
<1>15. Colours(u, N, NULL)
  <2>1. u.root # NULL => u.color[u.root] = RB_BLACK
    <3>1. u.root \in {c, t.root} /\ (u.root = t.root /\ t.root # c => t.root # x \/ c = NULL)
      BY <1>1, <1>2 DEF Cut, Linked, o
    <3>2. t.root # NULL => t.root \in M /\ t.color[t.root] = RB_BLACK
      BY <1>1 DEF Painted, Colours, Linked
    <3> QED  BY <1>1, <1>10, <3>1, <3>2
  <2>2. ASSUME NEW m \in N, NEW r \in Side, u.color[m] = RB_RED, u.child[m][r] # NULL
        PROVE  u.color[u.child[m][r]] = RB_BLACK
    <3>1. m # c /\ t.color[m] = RB_RED
      BY <1>10, <2>2 DEF RB_RED, RB_BLACK
    <3>2. CASE t.child[m][r] = x
      BY <1>10, <1>11, <3>2
    <3>3. CASE t.child[m][r] # x
      <4>1. u.child[m][r] = t.child[m][r] /\ t.child[m][r] \in N \ {c}
        BY <1>11, <1>12, <2>2, <3>3
      <4>2. t.color[t.child[m][r]] = RB_BLACK
        BY <2>2, <3>1, <4>1 DEF Painted, Colours
      <4> QED  BY <1>10, <4>1, <4>2
    <3> QED  BY <3>2, <3>3
  <2>3. ASSUME NEW m \in Node \ N  PROVE u.color[m] = RB_RED
    <3>1. m # x => m \in Node \ M /\ m # c
      BY <1>1
    <3>2. m # x => t.color[m] = RB_RED
      BY <3>1 DEF Painted, Colours
    <3> QED  BY <3>1, <3>2 DEF CutColors
  <2> QED  BY <2>1, <2>2, <2>3 DEF Colours
<1> QED  BY <1>9, <1>14, <1>15 DEF Painted

LEMMA SwapPaint ==
  ASSUME NEW t, NEW M, NEW sub, Shape(t, M, sub), NEW x \in M, NEW z \in Node \ M,
         NEW h, NEW p, NEW q, Painted(t, M, h, p, q, NULL), p # z,
         NEW u, Swapped(t, u, x, z), u.color[z] = t.color[x], u.color[x] = RB_RED,
         \A m \in Node \ {x, z} : u.color[m] = t.color[m]
  PROVE  LET N == (M \ {x}) \cup {z}
         IN  /\ p = x => \E h2 : Painted(u, N, h2, z, q, NULL)
             /\ p # x => \E h2 : Painted(u, N, h2, p, q, NULL)
<1> DEFINE N == (M \ {x}) \cup {z}
           h2 == [h EXCEPT ![z] = h[x]]
           Old(m) == IF m = z THEN x ELSE m
           New(m) == IF m = x THEN z ELSE m
<1>1. /\ M \subseteq Node /\ NULL \notin Node /\ x \in Node /\ z # x /\ z # NULL /\ x # NULL
      /\ \A m \in M, r \in Side : t.child[m][r] \in M \cup {NULL}
      /\ t.root \in M
  BY NodeAssumption DEF Shape, Linked
<1>2. \A m \in M, r \in Side : t.child[m][r] # m
  BY <1>1, ShapeFacts
<1>3. /\ h \in [Link -> Nat] /\ h[NULL] = 0 /\ M \cup {NULL} \subseteq Link /\ z \in Link
      /\ h2 \in [Link -> Nat] /\ h2[NULL] = 0
      /\ \A m \in M \cup {NULL} : h2[New(m)] = h[m]
  BY <1>1 DEF Painted, Heights, Link
<1>4. /\ \A m \in N : Old(m) \in M /\ New(Old(m)) = m
      /\ \A m \in M \cup {NULL} : m # NULL => New(m) \in N /\ New(m) # NULL
      /\ New(NULL) = NULL
  BY <1>1
<1>5. \A m \in N, r \in Side : u.child[m][r] = New(t.child[Old(m)][r])
  BY <1>1, <1>2 DEF Swapped
<1>6. \A m \in M : u.color[New(m)] = t.color[m]
  BY <1>1
<1>7. u.root = New(t.root)
  BY DEF Swapped
<1>8. \A m \in N : Old(m) = p <=> m = New(p)
  BY <1>1
<1> HIDE DEF Old, New, h2
<1>9. ASSUME NEW m \in N, NEW r \in Side
      PROVE  h2[m] = u.color[m] + h2[u.child[m][r]] + (IF m = New(p) /\ r = q THEN 1 ELSE 0)
  <2>1. h[Old(m)] = t.color[Old(m)] + h[t.child[Old(m)][r]]
                      + (IF Old(m) = p /\ r = q THEN 1 ELSE 0)
    BY <1>4 DEF Painted, Heights
  <2>2. h2[m] = h[Old(m)] /\ u.color[m] = t.color[Old(m)]
    BY <1>3, <1>4, <1>6
  <2>3. h2[u.child[m][r]] = h[t.child[Old(m)][r]]
    BY <1>1, <1>3, <1>4, <1>5
  <2>4. Old(m) = p <=> m = New(p)
    BY <1>8
  <2> QED  BY <2>1, <2>2, <2>3, <2>4
<1>10. Heights(u, N, h2, New(p), q)
  BY <1>3, <1>9 DEF Heights
<1>11. Colours(u, N, NULL)
  <2>1. u.root # NULL => u.color[u.root] = RB_BLACK
    <3>1. t.color[t.root] = RB_BLACK
      BY <1>1 DEF Painted, Colours
    <3> QED  BY <1>1, <1>6, <1>7, <3>1
  <2>2. ASSUME NEW m \in N, NEW r \in Side, u.color[m] = RB_RED, u.child[m][r] # NULL
        PROVE  u.color[u.child[m][r]] = RB_BLACK
    <3>1. Old(m) \in M /\ t.color[Old(m)] = RB_RED
      BY <1>4, <1>6, <2>2
    <3>2. u.child[m][r] = New(t.child[Old(m)][r]) /\ t.child[Old(m)][r] # NULL
      BY <1>4, <1>5, <2>2
    <3>3. t.child[Old(m)][r] \in M
      BY <1>1, <3>1, <3>2
    <3>4. t.color[t.child[Old(m)][r]] = RB_BLACK
      BY <3>1, <3>2 DEF Painted, Colours
    <3> QED  BY <1>6, <3>2, <3>3, <3>4
  <2>3. ASSUME NEW m \in Node \ N  PROVE u.color[m] = RB_RED
    <3>1. m # x => m \in Node \ M /\ m # z
      BY <1>1
    <3>2. m # x => t.color[m] = RB_RED
      BY <3>1 DEF Painted, Colours
    <3> QED  BY <3>1, <3>2
  <2> QED  BY <2>1, <2>2, <2>3 DEF Colours
<1>12. Painted(u, N, h2, New(p), q, NULL)
  BY <1>10, <1>11 DEF Painted
<1>13. (p = x => New(p) = z) /\ (p # x => New(p) = p)
  BY DEF New
<1> QED  BY <1>12, <1>13

-----------------------------------------------------------------------------
(* The stores of __rb_erase.                                               *)

LEMMA EraseStored ==
  ASSUME NEW t \in Tree, NEW x \in Node, Held(t, x), t.parent[x] # x, NEW q \in Side,
         NEW v, Replaced(t, v, x, t.child[x][q]), NEW u, Blanked(v, u, x),
         t.child[x][q] # x
  PROVE  u \in Tree /\ Cut(t, u, x, q) /\ CutColors(t, u, x, t.child[x][q])
<1> DEFINE c == t.child[x][q]
           g == t.parent[x]
           side == IF t.child[g]["rb_left"] = x THEN "rb_left" ELSE "rb_right"
<1>1. c \in Link /\ c # x /\ g \in Link /\ g # x /\ NULL \notin Node
  BY NodeAssumption DEF Tree
<1>2. /\ v.root = IF g = NULL THEN c ELSE t.root
      /\ \A m \in Node, r \in Side :
           v.child[m][r] = IF m = g /\ r = side THEN c ELSE t.child[m][r]
      /\ \A m \in Node : /\ v.parent[m] = IF m = c THEN g ELSE t.parent[m]
                         /\ v.color[m] = IF m = c THEN t.color[x] ELSE t.color[m]
  BY DEF Replaced
<1>3. ASSUME NEW r \in Side, g # NULL  PROVE t.child[g][r] = x <=> r = side
  <2>1. PICK a \in Side : t.child[g][a] = x /\ t.child[g][Other(a)] # x
    BY <1>3 DEF Held
  <2>2. a = side
    BY <2>1 DEF Side, Other
  <2>3. r = a \/ r = Other(a)
    BY SideFacts
  <2> QED  BY <2>1, <2>2, <2>3, SideFacts
<1>4. \A m \in Node, r \in Side : t.child[m][r] = x => m = g
  BY DEF Held
<1> HIDE DEF c, g, side
<1>5. ASSUME NEW m \in Node, NEW r \in Side
      PROVE  u.child[m][r] = IF m = x THEN NULL
                             ELSE IF t.child[m][r] = x THEN c ELSE t.child[m][r]
  <2>1. u.child[m][r] = IF m = x THEN NULL ELSE v.child[m][r]
    BY DEF Blanked
  <2>2. t.child[m][r] = x <=> m = g /\ r = side
    BY <1>1, <1>3, <1>4
  <2> QED  BY <1>2, <2>1, <2>2
<1>6. \A m \in Node : u.parent[m] = IF m = x THEN NULL ELSE IF m = c THEN g ELSE t.parent[m]
  BY <1>2 DEF Blanked
<1>7. \A m \in Node : u.color[m] = IF m = x THEN RB_RED
                                   ELSE IF m = c THEN t.color[x] ELSE t.color[m]
  BY <1>2 DEF Blanked
<1>8. u.root = IF g = NULL THEN c ELSE t.root
  BY <1>2 DEF Blanked
<1>9. CutColors(t, u, x, c)
  BY <1>1, <1>7 DEF CutColors, Link
<1>10. Cut(t, u, x, q)
  BY <1>5, <1>6, <1>8 DEF Cut, c, g
<1> QED  BY <1>9, <1>10 DEF Blanked, c

(* Where the successor z of a node a with two children is; b is its parent *)
(* once it has left its place.                                             *)
Heir(t, M, a, z, b) ==
  LET left == t.child[a]["rb_left"]
      right == t.child[a]["rb_right"]
      c == t.child[z]["rb_right"]
      g == t.parent[a]
  IN  /\ t \in Tree /\ M \subseteq Node /\ NULL \notin Node
      /\ a \in M /\ z \in M /\ left \in M /\ right \in M /\ b \in M /\ b # a
      /\ a # z /\ left \notin {a, z, right} /\ right # a
      /\ c \in M \cup {NULL} /\ c \notin {a, z, left, right, b}
      /\ t.child[z]["rb_left"] = NULL
      /\ g \in M \cup {NULL} /\ g \notin {a, z, left, right, b} /\ (g # NULL => g # c)
      /\ t.parent[left] = a /\ t.parent[right] = a /\ (c # NULL => t.parent[c] = z)
      /\ g = NULL <=> t.root = a
      /\ z # t.root
      /\ z = right => b = z /\ t.parent[z] = a
      /\ z # right => /\ b # z /\ t.parent[z] = b /\ t.child[b]["rb_left"] = z
                      /\ t.child[b]["rb_right"] # z
      /\ \A m \in Node, r \in Side : t.child[m][r] = z => m = t.parent[z]
      /\ \A m \in Node : (t.parent[m] = a => m \in {left, right}) /\ (t.parent[m] = z => m = c)
      /\ \A m \in Node, r \in Side : t.child[m][r] = a => m = g

SuccessorStored(t, v, a, z, b) ==
  LET left == t.child[a]["rb_left"]
      right == t.child[a]["rb_right"]
      c == t.child[z]["rb_right"]
  IN  /\ v \in Tree /\ v.root = t.root /\ v.color = t.color
      /\ \A m \in Node, r \in Side :
           v.child[m][r] = IF m = z THEN (IF r = "rb_left" THEN left
                                          ELSE IF z = right THEN c ELSE right)
                           ELSE IF z # right /\ m = b /\ r = "rb_left" THEN c
                           ELSE t.child[m][r]
      /\ \A m \in Node : v.parent[m] = IF m = left THEN z
                                       ELSE IF m = right /\ z # right THEN z
                                       ELSE t.parent[m]

LEMMA SuccessorStoredIs ==
  ASSUME NEW t, NEW M, NEW a, NEW z, NEW b, Heir(t, M, a, z, b)
  PROVE  LET left == t.child[a]["rb_left"]
             right == t.child[a]["rb_right"]
             c == t.child[z]["rb_right"]
             t1 == IF z = right THEN t
                   ELSE rb_set_parent(SetChild(SetChild(t, b, "rb_left", c),
                                               z, "rb_right", right), right, z)
         IN  SuccessorStored(t, rb_set_parent(SetChild(t1, z, "rb_left", left), left, z), a, z, b)
<1> DEFINE left == t.child[a]["rb_left"]
           right == t.child[a]["rb_right"]
           c == t.child[z]["rb_right"]
           s1 == SetChild(t, b, "rb_left", c)
           s2 == SetChild(s1, z, "rb_right", right)
           t1 == IF z = right THEN t ELSE rb_set_parent(s2, right, z)
           s3 == SetChild(t1, z, "rb_left", left)
           v == rb_set_parent(s3, left, z)
<1>1. /\ t \in Tree /\ z \in Node /\ b \in Node /\ left \in Link /\ right \in Link /\ c \in Link
      /\ z \in Link /\ "rb_left" \in Side /\ "rb_right" \in Side /\ "rb_left" # "rb_right"
      /\ z # left /\ left # right /\ (z # right => b # z)
  BY SideFacts DEF Heir, Link
<1>2. ChildStored(t, s1, b, "rb_left", c)
  BY <1>1, SetChildIs
<1>3. s1 \in Tree
  BY <1>2 DEF ChildStored
<1>4. ChildStored(s1, s2, z, "rb_right", right)
  BY <1>1, <1>3, SetChildIs
<1>5. s2 \in Tree
  BY <1>4 DEF ChildStored
<1>6. ParentStored(s2, rb_set_parent(s2, right, z), right, z)
  BY <1>1, <1>5, SetParentIs
<1>7. t1 \in Tree
  BY <1>1, <1>6 DEF ParentStored
<1>8. z # right => ParentStored(s2, t1, right, z)
  BY <1>6
<1>9. z = right => t1 = t
  OBVIOUS
<1>10. ChildStored(t1, s3, z, "rb_left", left)
  BY <1>1, <1>7, SetChildIs, SMTT(20)
<1>11. s3 \in Tree
  BY <1>10 DEF ChildStored
<1>12. ParentStored(s3, v, left, z)
  BY <1>1, <1>11, SetParentIs
<1> HIDE DEF s1, s2, t1, s3, v
<1>13. \A r \in Side : r = "rb_left" \/ r = "rb_right"
  BY DEF Side
<1>14. v \in Tree /\ v.root = t.root /\ v.color = t.color
  <2>1. CASE z = right
    BY <1>9, <1>10, <1>12, <2>1 DEF ChildStored, ParentStored
  <2>2. CASE z # right
    BY <1>2, <1>4, <1>8, <1>10, <1>12, <2>2 DEF ChildStored, ParentStored
  <2> QED  BY <2>1, <2>2
<1>15. ASSUME NEW m \in Node, NEW r \in Side
       PROVE  v.child[m][r] = IF m = z THEN (IF r = "rb_left" THEN left
                                             ELSE IF z = right THEN c ELSE right)
                              ELSE IF z # right /\ m = b /\ r = "rb_left" THEN c
                              ELSE t.child[m][r]
  <2>1. v.child[m][r] = IF m = z /\ r = "rb_left" THEN left ELSE t1.child[m][r]
    BY <1>10, <1>12 DEF ChildStored, ParentStored
  <2>2. CASE z = right
    BY <1>9, <1>13, <2>1, <2>2
  <2>3. CASE z # right
    <3>1. t1.child[m][r] = IF m = z /\ r = "rb_right" THEN right
                           ELSE IF m = b /\ r = "rb_left" THEN c ELSE t.child[m][r]
      BY <1>2, <1>4, <1>8, <2>3 DEF ChildStored, ParentStored
    <3> QED  BY <1>1, <1>13, <2>1, <2>3, <3>1
  <2> QED  BY <2>2, <2>3
<1>16. ASSUME NEW m \in Node
       PROVE  v.parent[m] = IF m = left THEN z ELSE IF m = right /\ z # right THEN z
                            ELSE t.parent[m]
  <2>1. v.parent[m] = IF m = left THEN z ELSE t1.parent[m]
    BY <1>10, <1>12 DEF ChildStored, ParentStored
  <2>2. CASE z = right
    BY <1>9, <2>1, <2>2
  <2>3. CASE z # right
    BY <1>2, <1>4, <1>8, <2>1, <2>3 DEF ChildStored, ParentStored
  <2> QED  BY <2>2, <2>3
<1>17. SuccessorStored(t, v, a, z, b)
  BY <1>14, <1>15, <1>16 DEF SuccessorStored
<1> QED  BY <1>17 DEF v, s3, t1, s2, s1

(* Moving the successor is cutting it out and then putting it in the place *)
(* of a.                                                                   *)
LEMMA SuccessorSwaps ==
  ASSUME NEW t, NEW M, NEW a, NEW z, NEW b, Heir(t, M, a, z, b), Held(t, a),
         NEW v, Cut(t, v, z, "rb_right"), CutColors(t, v, z, t.child[z]["rb_right"]),
         t.child[z]["rb_right"] # NULL => t.color[z] = RB_BLACK,
         NEW t2, SuccessorStored(t, t2, a, z, b),
         NEW u0, Replaced(t2, u0, a, z),
         NEW u1, ParentColorStored(u0, u1, t.child[z]["rb_right"], b, RB_BLACK),
         NEW u, Blanked(u1, u, a)
  PROVE  /\ u \in Tree /\ Swapped(v, u, a, z)
         /\ u.color[z] = v.color[a] /\ u.color[a] = RB_RED
         /\ \A m \in Node \ {a, z} : u.color[m] = v.color[m]
<1> DEFINE left == t.child[a]["rb_left"]
           right == t.child[a]["rb_right"]
           c == t.child[z]["rb_right"]
           g == t.parent[a]
           side == IF t2.child[g]["rb_left"] = a THEN "rb_left" ELSE "rb_right"
<1>1. /\ t \in Tree /\ M \subseteq Node /\ NULL \notin Node
      /\ a \in Node /\ z \in Node /\ left \in Node /\ right \in Node /\ b \in Node /\ b # a
      /\ a # z /\ left \notin {a, z, right} /\ right # a
      /\ c \notin {a, z, left, right, b}
      /\ t.child[z]["rb_left"] = NULL
      /\ g \in Node \cup {NULL} /\ g \notin {a, z, left, right, b}
      /\ t.parent[left] = a /\ t.parent[right] = a /\ (c # NULL => t.parent[c] = z)
      /\ (g = NULL <=> t.root = a) /\ z # t.root
      /\ z = right => b = z /\ t.parent[z] = a
      /\ z # right => /\ b # z /\ t.parent[z] = b /\ t.child[b]["rb_left"] = z
                      /\ t.child[b]["rb_right"] # z
  BY DEF Heir
<1>2. /\ \A m \in Node, r \in Side : t.child[m][r] = z => m = t.parent[z]
      /\ \A m \in Node : (t.parent[m] = a => m \in {left, right}) /\ (t.parent[m] = z => m = c)
      /\ \A m \in Node, r \in Side : t.child[m][r] = a => m = g
  BY DEF Heir
<1>3. /\ "rb_left" \in Side /\ "rb_right" \in Side /\ "rb_left" # "rb_right"
      /\ \A r \in Side : r = "rb_left" \/ r = "rb_right"
  BY DEF Side
<1>4. /\ t2.root = t.root /\ t2.color = t.color
      /\ \A m \in Node, r \in Side :
           t2.child[m][r] = IF m = z THEN (IF r = "rb_left" THEN left
                                           ELSE IF z = right THEN c ELSE right)
                            ELSE IF z # right /\ m = b /\ r = "rb_left" THEN c
                            ELSE t.child[m][r]
      /\ \A m \in Node : t2.parent[m] = IF m = left THEN z
                                        ELSE IF m = right /\ z # right THEN z
                                        ELSE t.parent[m]
  BY DEF SuccessorStored
<1>5. t2.parent[a] = g
  BY <1>1, <1>4
<1>6. /\ u0.root = IF g = NULL THEN z ELSE t.root
      /\ \A m \in Node, r \in Side :
           u0.child[m][r] = IF m = g /\ r = side THEN z ELSE t2.child[m][r]
      /\ \A m \in Node : /\ u0.parent[m] = IF m = z THEN g ELSE t2.parent[m]
                         /\ u0.color[m] = IF m = z THEN t.color[a] ELSE t.color[m]
  BY <1>4, <1>5 DEF Replaced
<1>7. ASSUME NEW r \in Side, g # NULL
      PROVE  t2.child[g][r] = t.child[g][r] /\ (t.child[g][r] = a <=> r = side)
  <2>1. \A d \in Side : t2.child[g][d] = t.child[g][d]
    BY <1>1, <1>4, <1>7
  <2>2. PICK d \in Side : t.child[g][d] = a /\ t.child[g][Other(d)] # a
    BY <1>7 DEF Held
  <2>3. d = side
    BY <2>1, <2>2, <1>3 DEF Other
  <2>4. r = d \/ r = Other(d)
    BY SideFacts
  <2> QED  BY <2>1, <2>2, <2>3, <2>4, SideFacts
<1> HIDE DEF side, left, right, c, g
<1>8. /\ u \in Tree /\ u.root = u0.root
      /\ \A m \in Node, r \in Side : u.child[m][r] = IF m = a THEN NULL ELSE u0.child[m][r]
      /\ \A m \in Node :
           /\ u.parent[m] = IF m = a THEN NULL ELSE IF m = c THEN b ELSE u0.parent[m]
           /\ u.color[m] = IF m = a THEN RB_RED ELSE IF m = c THEN RB_BLACK ELSE u0.color[m]
  BY DEF Blanked, ParentColorStored, c
<1>9. /\ v.root = t.root
      /\ \A m \in Node, r \in Side :
           v.child[m][r] = IF m = z THEN NULL ELSE IF t.child[m][r] = z THEN c
                           ELSE t.child[m][r]
      /\ \A m \in Node : v.parent[m] = IF m = z THEN NULL ELSE IF m = c THEN t.parent[z]
                                       ELSE t.parent[m]
  <2>1. t.parent[z] # NULL
    BY <1>1
  <2> QED  BY <2>1 DEF Cut, c
<1>10. ASSUME NEW m \in Node, NEW r \in Side
       PROVE  u.child[m][r] = IF m = z THEN v.child[a][r]
                              ELSE IF m = a THEN NULL
                              ELSE IF v.child[m][r] = a THEN z
                              ELSE v.child[m][r]
  <2>1. u.child[m][r] = IF m = a THEN NULL ELSE IF m = g /\ r = side THEN z
                        ELSE t2.child[m][r]
    BY <1>6, <1>8
  <2>2. CASE m = z
    <3>1. u.child[z][r] = IF r = "rb_left" THEN left ELSE IF z = right THEN c ELSE right
      BY <1>1, <1>4, <2>1, <2>2
    <3>2. v.child[a][r] = IF t.child[a][r] = z THEN c ELSE t.child[a][r]
      BY <1>1, <1>9
    <3>3. t.child[a]["rb_left"] = left /\ t.child[a]["rb_right"] = right
      BY DEF left, right
    <3> QED  BY <1>1, <1>3, <2>2, <3>1, <3>2, <3>3
  <2>3. CASE m = a
    BY <1>1, <2>1, <2>3
  <2>4. CASE m = g
    <3>1. g # NULL /\ g # z /\ g # a
      BY <1>1, <2>4
    <3>2. t2.child[g][r] = t.child[g][r] /\ (t.child[g][r] = a <=> r = side)
      BY <1>7, <3>1
    <3>3. t.child[g][r] # z
      BY <1>1, <1>2, <2>4
    <3>4. v.child[g][r] = t.child[g][r]
      BY <1>9, <2>4, <3>1, <3>3
    <3> QED  BY <2>1, <2>4, <3>1, <3>2, <3>4
  <2>5. CASE m \notin {z, a, g}
    <3>1. u.child[m][r] = t2.child[m][r] /\ t.child[m][r] # a
      BY <1>2, <2>1, <2>5
    <3>2. t2.child[m][r] = IF z # right /\ m = b /\ r = "rb_left" THEN c ELSE t.child[m][r]
      BY <1>4, <2>5
    <3>3. v.child[m][r] = IF t.child[m][r] = z THEN c ELSE t.child[m][r]
      BY <1>9, <2>5
    <3>4. t.child[m][r] = z <=> z # right /\ m = b /\ r = "rb_left"
      BY <1>1, <1>2, <1>3, <2>5
    <3>5. c # a
      BY <1>1
    <3> QED  BY <2>5, <3>1, <3>2, <3>3, <3>4, <3>5
  <2> QED  BY <2>2, <2>3, <2>4, <2>5
<1>11. ASSUME NEW m \in Node
       PROVE  u.parent[m] = IF m = z THEN v.parent[a]
                            ELSE IF m = a THEN NULL
                            ELSE IF v.parent[m] = a THEN z
                            ELSE v.parent[m]
  <2>1. u.parent[m] = IF m = a THEN NULL ELSE IF m = c THEN b ELSE IF m = z THEN g
                      ELSE IF m = left THEN z ELSE IF m = right /\ z # right THEN z
                      ELSE t.parent[m]
    BY <1>4, <1>6, <1>8
  <2>2. v.parent[a] = g
    BY <1>1, <1>9 DEF g
  <2>3. CASE m = c
    BY <1>1, <1>9, <2>1, <2>3
  <2>4. CASE m # c /\ m \in {z, a}
    BY <1>1, <2>1, <2>2, <2>4
  <2>5. CASE m \notin {c, z, a}
    <3>1. v.parent[m] = t.parent[m]
      BY <1>9, <2>5
    <3>2. t.parent[m] = a <=> m \in {left, right}
      BY <1>1, <1>2
    <3> QED  BY <1>1, <2>1, <2>5, <3>1, <3>2
  <2> QED  BY <2>3, <2>4, <2>5
<1>12. u.root = IF v.root = a THEN z ELSE v.root
  BY <1>1, <1>6, <1>8, <1>9
<1>13. Swapped(v, u, a, z)
  BY <1>10, <1>11, <1>12 DEF Swapped
<1>14. \A m \in Node : u.color[m] = IF m = a THEN RB_RED ELSE IF m = c THEN RB_BLACK
                                    ELSE IF m = z THEN t.color[a] ELSE t.color[m]
  BY <1>6, <1>8
<1>15. /\ c # NULL => v.color[c] = RB_BLACK
       /\ \A m \in Node \ {z, c} : v.color[m] = t.color[m]
  BY DEF CutColors, c
<1>16. /\ u.color[z] = v.color[a] /\ u.color[a] = RB_RED
       /\ \A m \in Node \ {a, z} : u.color[m] = v.color[m]
  BY <1>1, <1>14, <1>15
<1> QED  BY <1>8, <1>13, <1>16


-----------------------------------------------------------------------------
(* The successor z of a: the leftmost node on the right of a.              *)

Follows(t, M, sub, a, z) ==
  LET right == t.child[a]["rb_right"]
  IN  /\ a \in M /\ right # NULL /\ z \in sub[right]
      /\ \A x \in sub[right] : x \in sub[z] \/ Key(z) < Key(x)
      /\ \A y \in M : a \in sub[y] => z \in sub[y]

LEMMA FollowsFacts ==
  ASSUME NEW t, NEW M, NEW sub, Shape(t, M, sub), NEW a, NEW z, Follows(t, M, sub, a, z),
         t.child[z]["rb_left"] = NULL
  PROVE  LET R == t.child[a]["rb_right"]
         IN  /\ a \in M /\ z \in M /\ R \in M /\ M \subseteq Node
             /\ Lt("rb_right", z, a) /\ Lt("rb_left", a, z) /\ z # a /\ a \notin sub[R]
             /\ \A x \in sub[z] : x = z \/ x \in sub[t.child[z]["rb_right"]]
             /\ \A x \in sub[R] : x = z \/ Lt("rb_right", x, z)
             /\ z # t.root
             /\ \A m \in M, r \in Side : t.child[m][r] = a => m \notin sub[R]
<1> DEFINE R == t.child[a]["rb_right"]
           c == t.child[z]["rb_right"]
<1>1. /\ a \in M /\ R # NULL /\ R \in M /\ M \subseteq Node /\ z \in sub[R] /\ sub[R] \subseteq M
      /\ "rb_left" \in Side /\ "rb_right" \in Side /\ a \notin sub[R] /\ NULL \notin M
      /\ R # a /\ t.root \in M
  BY SideFacts, ShapeFacts, NodeAssumption DEF Follows, Shape, Linked
<1>2. z \in M /\ Lt("rb_right", z, a)
  BY <1>1 DEF Shape, Ordered
<1>3. Lt("rb_left", a, z) /\ z # a
  BY <1>1, <1>2, LtFacts, SideFacts
<1>4. ASSUME NEW x \in sub[z]  PROVE x = z \/ x \in sub[c]
  <2>1. x \in M
    BY <1>1, <1>2 DEF Shape, Labelled, Link
  <2>2. x = z \/ \E s \in Side : x \in sub[t.child[z][s]]
    BY <1>2, <2>1 DEF Shape, Labelled
  <2>3. \A s \in Side : s = "rb_left" \/ s = "rb_right"
    BY DEF Side
  <2> QED  BY <2>2, <2>3 DEF Shape, Labelled
<1>5. \A x \in sub[c] : Lt("rb_right", x, z)
  BY <1>1, <1>2 DEF Shape, Ordered
<1>6. \A x \in sub[R] : x = z \/ Lt("rb_right", x, z)
  <2> SUFFICES ASSUME NEW x \in sub[R]  PROVE x = z \/ Lt("rb_right", x, z)
    OBVIOUS
  <2>1. x \in sub[z] \/ Key(z) < Key(x)
    BY DEF Follows
  <2>2. Key(z) < Key(x) => Lt("rb_right", x, z)
    BY DEF Lt
  <2> QED  BY <1>4, <1>5, <2>1, <2>2
<1>7. z # t.root
  <2> SUFFICES ASSUME z = t.root  PROVE FALSE
    OBVIOUS
  <2>1. a \in sub[z]
    BY <1>1 DEF Shape, Labelled
  <2>2. Lt("rb_right", a, z)
    BY <1>3, <1>4, <1>5, <2>1
  <2> QED  BY <1>1, <1>2, <2>2, LtFacts, SideFacts
<1>8. ASSUME NEW m \in M, NEW r \in Side, t.child[m][r] = a  PROVE m \notin sub[R]
  <2>1. t.parent[a] = m /\ a # t.root
    BY <1>1, <1>8, ShapeFacts DEF Shape, Linked
  <2> QED  BY <1>1, <2>1 DEF Shape, Closed
<1> QED  BY <1>1, <1>2, <1>3, <1>4, <1>6, <1>7, <1>8

LEMMA HeirFacts ==
  ASSUME NEW t, NEW M, NEW sub, Shape(t, M, sub), NEW a, NEW z, Follows(t, M, sub, a, z),
         t.child[z]["rb_left"] = NULL, t.child[a]["rb_left"] # NULL,
         NEW b, b = IF z = t.child[a]["rb_right"] THEN z ELSE t.parent[z]
  PROVE  Heir(t, M, a, z, b)
<1> DEFINE left == t.child[a]["rb_left"]
           right == t.child[a]["rb_right"]
           c == t.child[z]["rb_right"]
           g == t.parent[a]
<1>1. /\ a \in M /\ z \in M /\ right \in M /\ M \subseteq Node /\ a \notin sub[right]
      /\ Lt("rb_right", z, a) /\ Lt("rb_left", a, z) /\ z # a /\ z # t.root
      /\ \A x \in sub[z] : x = z \/ x \in sub[c]
      /\ \A x \in sub[right] : x = z \/ Lt("rb_right", x, z)
      /\ \A m \in M, r \in Side : t.child[m][r] = a => m \notin sub[right]
  BY FollowsFacts
<1>2. /\ "rb_left" \in Side /\ "rb_right" \in Side /\ t \in Tree
      /\ Other("rb_left") = "rb_right" /\ Other("rb_right") = "rb_left"
      /\ NULL \notin Node /\ NULL \notin M /\ t.root \in M
  BY <1>1, SideFacts, NodeAssumption DEF Shape, Linked
<1>3. /\ left \in M /\ t.parent[left] = a /\ t.parent[right] = a
      /\ c \in M \cup {NULL} /\ (c # NULL => t.parent[c] = z)
      /\ g \in M \cup {NULL} /\ (g = NULL <=> t.root = a)
  BY <1>1, <1>2 DEF Shape, Linked
<1>4. left # a /\ left # right /\ right # a /\ c # z /\ right # t.root /\ Lt("rb_left", left, a)
  BY <1>1, <1>2, <1>3, ShapeFacts
<1>5. left # z
  BY <1>1, <1>2, <1>3, <1>4, LtFacts
<1>6. z \in sub[right] /\ right \in sub[right]
  BY <1>1, ShapeFacts DEF Follows
<1>7. c # NULL => c \in sub[right]
  <2> SUFFICES ASSUME c # NULL, c # right  PROVE c \in sub[right]
    BY <1>6
  <2>1. c # t.root /\ c \in M
    BY <1>1, <1>2, <1>3, ShapeFacts
  <2> QED  BY <1>1, <1>3, <1>6, <2>1 DEF Shape, Closed
<1>8. c \notin {a, left, right}
  BY <1>1, <1>2, <1>3, <1>5, <1>7, SMTT(20)
<1>9. CASE z = right
  <2>1. b = z /\ t.parent[z] = a /\ b # a /\ c # b
    BY <1>1, <1>3, <1>4, <1>9
  <2>2. g \notin {a, z, left, right, b} /\ (g # NULL => g # c)
    <3> SUFFICES ASSUME g # NULL  PROVE g \notin {a, z, left} /\ g # c
      BY <1>1, <1>2, <1>3, <1>9, <2>1
    <3>1. g \in M /\ a # t.root
      BY <1>3
    <3>2. \E r \in Side : t.child[g][r] = a
      BY <1>1, <3>1 DEF Shape, Linked
    <3>3. g \notin sub[right]
      BY <1>1, <3>1, <3>2
    <3>4. g # left /\ g # a
      BY <1>1, <1>2, <1>3, RotationFacts
    <3> QED  BY <1>6, <1>7, <3>3, <3>4
  <2> QED
    <3>1. \A m \in Node, r \in Side : t.child[m][r] = z => m = t.parent[z]
      BY <1>1, <1>2 DEF Shape, Linked
    <3>2. \A m \in Node, r \in Side : t.child[m][r] = a => m = g
      BY <1>1, <1>2 DEF Shape, Linked
    <3>3. \A m \in Node : (t.parent[m] = a => m \in {left, right}) /\ (t.parent[m] = z => m = c)
      <4> SUFFICES ASSUME NEW m \in Node, t.parent[m] \in {a, z}
                   PROVE  (t.parent[m] = a => m \in {left, right}) /\ (t.parent[m] = z => m = c)
        OBVIOUS
      <4>1. m \in M /\ m # t.root
        BY <1>1, <1>2 DEF Shape, Linked
      <4>2. \E s \in Side : t.child[t.parent[m]][s] = m
        BY <4>1 DEF Shape, Linked
      <4>3. \A s \in Side : s = "rb_left" \/ s = "rb_right"
        BY DEF Side
      <4> QED  BY <1>1, <1>2, <4>1, <4>2, <4>3
    <3> QED  BY <1>1, <1>2, <1>3, <1>4, <1>5, <1>8, <1>9, <2>1, <2>2, <3>1, <3>2, <3>3 DEF Heir
<1>10. CASE z # right
  <2>1. b = t.parent[z] /\ b \in M
    BY <1>1, <1>10 DEF Shape, Linked
  <2>2. b \in sub[right]
    BY <1>1, <1>6, <1>10, <2>1 DEF Shape, Closed
  <2>3. PICK s \in Side : t.child[b][s] = z
    BY <1>1, <2>1 DEF Shape, Linked
  <2>4. b # z /\ Lt(s, z, b)
    BY <1>2, <1>1, <2>1, <2>3, ShapeFacts
  <2>5. Lt("rb_right", b, z)
    BY <1>1, <2>2, <2>4
  <2>6. s = "rb_left"
    BY <1>1, <1>2, <2>1, <2>4, <2>5, LtFacts, SideFacts
  <2>7. t.child[b]["rb_left"] = z /\ t.child[b]["rb_right"] # z
    BY <1>1, <1>2, <2>1, <2>3, <2>6, ShapeFacts
  <2>8. c # b
    <3> SUFFICES ASSUME c = b  PROVE FALSE
      OBVIOUS
    <3>1. z \notin sub[c]
      BY <1>1, <1>2, ShapeFacts
    <3>2. z \in sub[t.child[b]["rb_left"]]
      BY <1>1, <2>7, ShapeFacts
    <3> QED  BY <1>1, <1>2, <2>1, <3>1, <3>2 DEF Shape, Labelled
  <2>9. b # a
    BY <1>1, <2>2
  <2>10. g \notin {a, z, left, right, b} /\ (g # NULL => g # c)
    <3> SUFFICES ASSUME g # NULL  PROVE g \notin {a, z, left, right, b} /\ g # c
      BY <1>1, <1>2, <1>3, <2>1
    <3>1. g \in M /\ a # t.root
      BY <1>3
    <3>2. \E r \in Side : t.child[g][r] = a
      BY <1>1, <3>1 DEF Shape, Linked
    <3>3. g \notin sub[right]
      BY <1>1, <3>1, <3>2
    <3>4. g # left /\ g # a
      BY <1>1, <1>2, <1>3, RotationFacts
    <3> QED  BY <1>6, <1>7, <2>2, <3>3, <3>4
  <2> QED
    <3>1. \A m \in Node, r \in Side : t.child[m][r] = z => m = t.parent[z]
      BY <1>1, <1>2 DEF Shape, Linked
    <3>2. \A m \in Node, r \in Side : t.child[m][r] = a => m = g
      BY <1>1, <1>2 DEF Shape, Linked
    <3>3. \A m \in Node : (t.parent[m] = a => m \in {left, right}) /\ (t.parent[m] = z => m = c)
      <4> SUFFICES ASSUME NEW m \in Node, t.parent[m] \in {a, z}
                   PROVE  (t.parent[m] = a => m \in {left, right}) /\ (t.parent[m] = z => m = c)
        OBVIOUS
      <4>1. m \in M /\ m # t.root
        BY <1>1, <1>2 DEF Shape, Linked
      <4>2. \E r \in Side : t.child[t.parent[m]][r] = m
        BY <4>1 DEF Shape, Linked
      <4>3. \A r \in Side : r = "rb_left" \/ r = "rb_right"
        BY DEF Side
      <4> QED  BY <1>1, <1>2, <4>1, <4>2, <4>3
    <3> QED  BY <1>1, <1>2, <1>3, <1>4, <1>5, <1>8, <1>10, <2>1, <2>4, <2>7, <2>8, <2>9, <2>10,
                <3>1, <3>2, <3>3 DEF Heir
<1> QED  BY <1>9, <1>10

(* With the successor z taken out, z fits in the place of a.               *)
LEMMA HeirFits ==
  ASSUME NEW t, NEW M, NEW sub, Shape(t, M, sub), NEW a, NEW z, Follows(t, M, sub, a, z),
         t.child[z]["rb_left"] = NULL, NEW v, Cut(t, v, z, "rb_right")
  PROVE  /\ \A r \in Side : \A y \in CutSub(sub, z)[v.child[a][r]] : Lt(r, y, z)
         /\ \A b \in M \ {z}, r \in Side : a \in CutSub(sub, z)[v.child[b][r]] => Lt(r, z, b)
<1> DEFINE right == t.child[a]["rb_right"]
           c == t.child[z]["rb_right"]
<1>1. /\ a \in M /\ z \in M /\ right \in M /\ M \subseteq Node /\ a \notin sub[right]
      /\ Lt("rb_right", z, a) /\ Lt("rb_left", a, z) /\ z # a
      /\ \A x \in sub[right] : x = z \/ Lt("rb_right", x, z)
  BY FollowsFacts
<1>2. /\ "rb_left" \in Side /\ "rb_right" \in Side /\ t \in Tree /\ NULL \notin Node
      /\ \A r \in Side : r = "rb_left" \/ r = "rb_right"
  BY SideFacts, NodeAssumption DEF Shape, Side
<1>3. \A m \in M, r \in Side : /\ t.child[m][r] \in Link
                               /\ v.child[m][r] = IF m = z THEN NULL
                                                  ELSE IF t.child[m][r] = z THEN c
                                                  ELSE t.child[m][r]
  BY <1>1 DEF Cut, Shape, Linked, Link
<1>4. c \in Link /\ sub[c] \subseteq M
  BY <1>1, <1>2, <1>3, ShapeFacts
<1>5. \A m \in Link : CutSub(sub, z)[m] = sub[m] \ {z}
  BY DEF CutSub
<1>6. \A x \in sub[c] : x \in sub[z] /\ Lt("rb_right", x, z)
  BY <1>1, <1>2, <1>4 DEF Shape, Labelled, Ordered
<1>7. ASSUME NEW m \in M \ {z}, NEW r \in Side, NEW y \in CutSub(sub, z)[v.child[m][r]]
      PROVE  y \in sub[t.child[m][r]] /\ y # z
  <2>1. CASE t.child[m][r] = z
    BY <1>3, <1>4, <1>5, <1>6, <1>7, <2>1
  <2>2. CASE t.child[m][r] # z
    BY <1>3, <1>5, <1>7, <2>2
  <2> QED  BY <2>1, <2>2
<1>8. ASSUME NEW r \in Side, NEW y \in CutSub(sub, z)[v.child[a][r]]
      PROVE  Lt(r, y, z)
  <2>1. y \in sub[t.child[a][r]] /\ y # z
    BY <1>1, <1>7, <1>8
  <2>2. y \in M
    BY <1>1, <2>1, ShapeFacts
  <2>3. CASE r = "rb_right"
    BY <1>1, <2>1, <2>3
  <2>4. CASE r = "rb_left"
    <3>1. Lt("rb_left", y, a)
      BY <1>1, <1>2, <2>1, <2>4 DEF Shape, Ordered
    <3> QED  BY <1>1, <1>2, <2>2, <2>4, <3>1, LtFacts
  <2> QED  BY <1>2, <2>3, <2>4
<1>9. ASSUME NEW b \in M \ {z}, NEW r \in Side, a \in CutSub(sub, z)[v.child[b][r]]
      PROVE  Lt(r, z, b)
  <2>1. a \in sub[t.child[b][r]]
    BY <1>7, <1>9
  <2>2. t.child[b][r] \in M
    BY <1>1, <2>1 DEF Shape, Linked, Labelled
  <2>3. z \in sub[t.child[b][r]]
    BY <2>1, <2>2 DEF Follows
  <2> QED  BY <2>3 DEF Shape, Ordered
<1> QED  BY <1>8, <1>9

-----------------------------------------------------------------------------
(* What holds of the tree in each phase of a call.                         *)

Sound(t, M, x) == \E h, q : Painted(t, M, h, NULL, q, x)

(* The node a, which is in the tree or the tree is empty, has a key of its *)
(* own, and the current node c is the one that may be red under a red one. *)
InsertFixing(t, M, a, c) ==
  /\ a \in Node /\ \A x \in M \ {a} : Key(x) # Key(a)
  /\ \/ M = {} /\ c = a /\ Sound(t, M, NULL)
     \/ a \in M /\ c \in M /\ t.color[c] = RB_RED /\ Sound(t, M, c)

(* One black node is missing below p where c is.                           *)
EraseFixing(t, M, a, c, p) ==
  /\ a \in Node \ M /\ p \in M /\ ~IsRed(t, c)
  /\ \E q \in Side : t.child[p][q] = c /\ \E h : Painted(t, M, h, p, q, NULL)

(* EraseSingle.                                                            *)
LEMMA EraseSingleStep ==
  ASSUME NEW t, NEW M, NEW sub, Shape(t, M, sub), Sound(t, M, NULL),
         NEW x \in M, NEW q \in Side, t.child[x][Other(q)] = NULL,
         NEW u, u = Blank(Replace(t, x, t.child[x][q]), x)
  PROVE  /\ \E sub2 : Shape(u, M \ {x}, sub2)
         /\ t.child[x][q] # NULL \/ IsRed(t, x) \/ t.parent[x] = NULL
              => Sound(u, M \ {x}, NULL)
         /\ ~(t.child[x][q] # NULL \/ IsRed(t, x) \/ t.parent[x] = NULL)
              => EraseFixing(u, M \ {x}, x, NULL, t.parent[x])
<1> DEFINE v == Replace(t, x, t.child[x][q])
           c == t.child[x][q]
           g == t.parent[x]
           o == Other(q)
<1>1. /\ t \in Tree /\ Linked(t, M) /\ x \in Node /\ c \in Link /\ NULL \notin Node
      /\ M \subseteq Node /\ g \in M \cup {NULL} /\ c \in M \cup {NULL}
      /\ (g # NULL => x # t.root)
      /\ o \in Side /\ Other(o) = q
  BY SideFacts, NodeAssumption DEF Shape, Linked, Link, Tree
<1>2. Held(t, x)
  BY ShapeHeld
<1>3. c # x
  BY <1>1, ShapeFacts
<1>4. g # NULL => g # x
  <2> SUFFICES ASSUME g # NULL  PROVE g # x
    OBVIOUS
  <2>1. \E r \in Side : t.child[g][r] = x
    BY <1>1, <1>2 DEF Held
  <2> QED  BY <1>1, <2>1, ShapeFacts
<1>5. Replaced(t, v, x, c)
  BY <1>1, ReplaceIs
<1>6. v \in Tree
  BY <1>5 DEF Replaced
<1>7. Blanked(v, u, x)
  BY <1>1, <1>6, BlankIs
<1> HIDE DEF v
<1>8. u \in Tree /\ Cut(t, u, x, q) /\ CutColors(t, u, x, c)
  BY <1>1, <1>2, <1>3, <1>4, <1>5, <1>7, EraseStored
<1>9. \E sub2 : Shape(u, M \ {x}, sub2)
  BY <1>8, CutShape
<1>10. PICK h, e : Painted(t, M, h, NULL, e, NULL)
  BY DEF Sound
<1>11. CASE c # NULL
  <2>1. c \in M /\ c = t.child[x][Other(o)]
    BY <1>1, <1>11
  <2>2. Bough(t, M, x, c, o)
    BY <1>1, <2>1, BoughFacts
  <2>3. Cut(t, u, x, Other(o)) /\ t.child[x][o] = NULL
    BY <1>1, <1>8
  <2>4. \E h2 : Painted(u, M \ {x}, h2, NULL, e, NULL)
    BY <1>1, <1>8, <1>10, <2>1, <2>2, <2>3, CutInnerPaint
  <2> QED  BY <1>9, <1>11, <2>4 DEF Sound
<1>12. CASE c = NULL
  <2>1. \A r \in Side : t.child[x][r] = NULL
    BY <1>12, SideFacts
  <2>2. /\ t.color[x] = RB_RED \/ t.parent[x] = NULL
             => Painted(u, M \ {x}, h, NULL, e, NULL)
        /\ t.color[x] = RB_BLACK =>
             \A p \in M, r \in Side : t.child[p][r] = x => Painted(u, M \ {x}, h, p, r, NULL)
    BY <1>1, <1>2, <1>8, <1>10, <1>12, <2>1, CutLeafPaint
  <2>3. CASE IsRed(t, x) \/ g = NULL
    BY <1>9, <1>12, <2>2, <2>3 DEF Sound, IsRed
  <2>4. CASE ~IsRed(t, x) /\ g # NULL
    <3>1. t.color[x] = RB_BLACK /\ g \in M
      BY <1>1, <2>4 DEF IsRed, Tree
    <3>2. PICK r \in Side : t.child[g][r] = x
      BY <1>2, <2>4 DEF Held
    <3>3. Painted(u, M \ {x}, h, g, r, NULL)
      BY <2>2, <3>1, <3>2
    <3>4. u.child[g][r] = NULL
      BY <1>1, <1>8, <1>12, <1>4, <2>4, <3>1, <3>2 DEF Cut
    <3>5. EraseFixing(u, M \ {x}, x, NULL, g)
      BY <1>1, <1>4, <2>4, <3>1, <3>3, <3>4 DEF EraseFixing, IsRed
    <3> QED  BY <1>9, <1>12, <2>4, <3>5
  <2> QED  BY <2>3, <2>4
<1> QED  BY <1>11, <1>12

(* EraseSuccessor, with the successor taken out first.                     *)
Succeeded(t, u, a, z, b) ==
  LET left == t.child[a]["rb_left"]
      right == t.child[a]["rb_right"]
      c == t.child[z]["rb_right"]
      t1 == IF z = right THEN t
            ELSE rb_set_parent(SetChild(SetChild(t, b, "rb_left", c),
                                        z, "rb_right", right), right, z)
      t2 == rb_set_parent(SetChild(t1, z, "rb_left", left), left, z)
  IN  u = Blank(rb_set_parent_color(Replace(t2, a, z), c, b, RB_BLACK), a)

LEMMA SucceededSwaps ==
  ASSUME NEW t, NEW M, NEW a, NEW z, NEW b, Heir(t, M, a, z, b), Held(t, a),
         NEW v, Cut(t, v, z, "rb_right"), CutColors(t, v, z, t.child[z]["rb_right"]),
         t.child[z]["rb_right"] # NULL => t.color[z] = RB_BLACK,
         NEW u, Succeeded(t, u, a, z, b)
  PROVE  /\ u \in Tree /\ Swapped(v, u, a, z)
         /\ u.color[z] = v.color[a] /\ u.color[a] = RB_RED
         /\ \A m \in Node \ {a, z} : u.color[m] = v.color[m]
<1> DEFINE left == t.child[a]["rb_left"]
           right == t.child[a]["rb_right"]
           c == t.child[z]["rb_right"]
           t1 == IF z = right THEN t
                 ELSE rb_set_parent(SetChild(SetChild(t, b, "rb_left", c),
                                             z, "rb_right", right), right, z)
           t2 == rb_set_parent(SetChild(t1, z, "rb_left", left), left, z)
           u0 == Replace(t2, a, z)
           u1 == rb_set_parent_color(u0, c, b, RB_BLACK)
<1>1. SuccessorStored(t, t2, a, z, b)
  BY SuccessorStoredIs
<1>2. u = Blank(u1, a)
  BY DEF Succeeded
<1> HIDE DEF t2
<1>3. t2 \in Tree /\ a \in Node /\ z \in Link /\ c \in Link /\ b \in Link
  BY <1>1 DEF SuccessorStored, Heir, Link
<1>4. Replaced(t2, u0, a, z)
  BY <1>3, ReplaceIs
<1> HIDE DEF u0
<1>5. u0 \in Tree
  BY <1>4 DEF Replaced
<1>6. ParentColorStored(u0, u1, c, b, RB_BLACK)
  BY <1>3, <1>5, SetParentColorIs
<1> HIDE DEF u1
<1>7. u1 \in Tree
  BY <1>6 DEF ParentColorStored
<1>8. Blanked(u1, u, a)
  BY <1>2, <1>3, <1>7, BlankIs
<1> QED  BY <1>1, <1>4, <1>6, <1>8, SuccessorSwaps

LEMMA EraseSuccessorStep ==
  ASSUME NEW t, NEW M, NEW sub, Shape(t, M, sub), Sound(t, M, NULL),
         NEW a, NEW z, Follows(t, M, sub, a, z),
         NEW b, Heir(t, M, a, z, b),
         NEW u, Succeeded(t, u, a, z, b)
  PROVE  /\ \E sub2 : Shape(u, M \ {a}, sub2)
         /\ t.child[z]["rb_right"] # NULL \/ IsRed(t, z) \/ b = NULL
              => Sound(u, M \ {a}, NULL)
         /\ ~(t.child[z]["rb_right"] # NULL \/ IsRed(t, z) \/ b = NULL)
              => EraseFixing(u, M \ {a}, a, NULL, b)
<1> DEFINE c == t.child[z]["rb_right"]
           right == t.child[a]["rb_right"]
           v == Blank(Replace(t, z, c), z)
           N == M \ {z}
<1>1. Heir(t, M, a, z, b) /\ t.child[z]["rb_left"] = NULL
  BY DEF Heir
<1>2. /\ t \in Tree /\ M \subseteq Node /\ NULL \notin Node
      /\ a \in M /\ z \in M /\ a \in Node /\ z \in Node /\ b \in M /\ b # a /\ a # z
      /\ c \in M \cup {NULL} /\ c # z /\ c \in Link /\ (c # NULL => c # b)
      /\ z = right => b = z /\ t.parent[z] = a
      /\ z # right => b # z /\ t.parent[z] = b /\ t.child[b]["rb_left"] = z
      /\ t.parent[z] \in M /\ t.parent[z] # z
  BY <1>1 DEF Heir, Link
<1>3. Held(t, a) /\ Held(t, z)
  BY <1>2, ShapeHeld
<1>4. Replaced(t, Replace(t, z, c), z, c)
  BY <1>2, ReplaceIs
<1>5. Replace(t, z, c) \in Tree
  BY <1>4 DEF Replaced
<1>6. Blanked(Replace(t, z, c), v, z)
  BY <1>2, <1>5, BlankIs
<1> HIDE DEF v
<1>7. "rb_right" \in Side /\ "rb_left" \in Side /\ Other("rb_left") = "rb_right"
      /\ Other("rb_right") = "rb_left" /\ \A r \in Side : r = "rb_left" \/ r = "rb_right"
  BY DEF Side, Other
<1>8. v \in Tree /\ Cut(t, v, z, "rb_right") /\ CutColors(t, v, z, c)
  BY <1>2, <1>3, <1>4, <1>6, <1>7, EraseStored
<1>9. Shape(v, N, CutSub(sub, z))
  BY <1>1, <1>2, <1>7, <1>8, CutShape
<1>10. /\ \A r \in Side : \A y \in CutSub(sub, z)[v.child[a][r]] : Lt(r, y, z)
       /\ \A m \in N, r \in Side : a \in CutSub(sub, z)[v.child[m][r]] => Lt(r, z, m)
  BY <1>1, <1>8, HeirFits
<1>11. PICK h, e : Painted(t, M, h, NULL, e, NULL)
  BY DEF Sound
<1>12. c # NULL => t.color[z] = RB_BLACK /\ \E h2 : Painted(v, N, h2, NULL, e, NULL)
  <2> SUFFICES ASSUME c # NULL
               PROVE  t.color[z] = RB_BLACK /\ \E h2 : Painted(v, N, h2, NULL, e, NULL)
    OBVIOUS
  <2>1. c \in M /\ c = t.child[z][Other("rb_left")]
    BY <1>2, <1>7
  <2>2. Bough(t, M, z, c, "rb_left")
    BY <1>2, <1>7, <2>1, BoughFacts
  <2>3. Cut(t, v, z, Other("rb_left")) /\ t.child[z]["rb_left"] = NULL
    BY <1>1, <1>7, <1>8
  <2> QED  BY <1>2, <1>7, <1>8, <1>11, <2>1, <2>2, <2>3, CutInnerPaint
<1>13. /\ u \in Tree /\ Swapped(v, u, a, z)
       /\ u.color[z] = v.color[a] /\ u.color[a] = RB_RED
       /\ \A m \in Node \ {a, z} : u.color[m] = v.color[m]
  BY <1>1, <1>3, <1>8, <1>12, SucceededSwaps
<1>14. a \in N /\ z \in Node \ N /\ (N \ {a}) \cup {z} = M \ {a}
  BY <1>2
<1>15. \E sub2 : Shape(u, M \ {a}, sub2)
  <2>1. Shape(u, (N \ {a}) \cup {z}, SwappedSub(CutSub(sub, z), a, z))
    BY <1>9, <1>10, <1>13, <1>14, SwapShape
  <2> QED  BY <1>14, <2>1
<1>16. ASSUME NEW h2, NEW p, NEW q, Painted(v, N, h2, p, q, NULL), p # z
       PROVE  /\ p = a => \E h3 : Painted(u, M \ {a}, h3, z, q, NULL)
              /\ p # a => \E h3 : Painted(u, M \ {a}, h3, p, q, NULL)
  <2> HIDE DEF N
  <2>1. /\ p = a => \E h3 : Painted(u, (N \ {a}) \cup {z}, h3, z, q, NULL)
        /\ p # a => \E h3 : Painted(u, (N \ {a}) \cup {z}, h3, p, q, NULL)
    BY <1>9, <1>13, <1>14, <1>16, SwapPaint
  <2> QED  BY <1>14, <2>1
<1>17. NULL # z /\ NULL # a
  BY <1>2
<1>18. CASE c # NULL
  <2>1. PICK h2 : Painted(v, N, h2, NULL, e, NULL)
    BY <1>12, <1>18
  <2>2. \E h3 : Painted(u, M \ {a}, h3, NULL, e, NULL)
    BY <1>16, <1>17, <2>1
  <2> QED  BY <1>15, <1>18, <2>2 DEF Sound
<1>19. CASE c = NULL
  <2>1. \A r \in Side : t.child[z][r] = NULL
    BY <1>1, <1>7, <1>19
  <2>2. /\ t.color[z] = RB_RED => Painted(v, N, h, NULL, e, NULL)
        /\ t.color[z] = RB_BLACK =>
             \A p \in M, r \in Side : t.child[p][r] = z => Painted(v, N, h, p, r, NULL)
    BY <1>2, <1>3, <1>7, <1>8, <1>9, <1>11, <1>19, <2>1, CutLeafPaint DEF Shape
  <2>3. CASE IsRed(t, z)
    <3>1. \E h3 : Painted(u, M \ {a}, h3, NULL, e, NULL)
      BY <1>16, <1>17, <2>2, <2>3 DEF IsRed
    <3> QED  BY <1>15, <2>3, <3>1 DEF Sound
  <2>4. CASE ~IsRed(t, z) /\ z = right
    <3>1. t.color[z] = RB_BLACK /\ b = z
      BY <1>2, <2>4 DEF IsRed, Tree
    <3>2. Painted(v, N, h, a, "rb_right", NULL)
      BY <1>2, <1>7, <2>2, <2>4, <3>1
    <3>3. \E h3 : Painted(u, M \ {a}, h3, z, "rb_right", NULL)
      BY <1>2, <1>16, <3>2
    <3>4. u.child[z]["rb_right"] = v.child[a]["rb_right"]
      BY <1>2, <1>7, <1>13 DEF Swapped
    <3>5. v.child[a]["rb_right"] = NULL
      BY <1>2, <1>7, <1>8, <1>19, <2>4 DEF Cut
    <3>6. EraseFixing(u, M \ {a}, a, NULL, b)
      BY <1>2, <1>7, <3>1, <3>3, <3>4, <3>5 DEF EraseFixing, IsRed
    <3> QED  BY <1>2, <1>15, <1>19, <2>4, <3>6
  <2>5. CASE ~IsRed(t, z) /\ z # right
    <3>1. t.color[z] = RB_BLACK /\ b # z /\ t.child[b]["rb_left"] = z
      BY <1>2, <2>5 DEF IsRed, Tree
    <3>2. Painted(v, N, h, b, "rb_left", NULL)
      BY <1>2, <1>7, <2>2, <3>1
    <3>3. \E h3 : Painted(u, M \ {a}, h3, b, "rb_left", NULL)
      BY <1>2, <1>16, <3>1, <3>2
    <3>4. v.child[b]["rb_left"] = NULL
      BY <1>2, <1>7, <1>8, <1>19, <3>1 DEF Cut
    <3>5. u.child[b]["rb_left"] = NULL
      BY <1>2, <1>7, <1>13, <1>17, <3>1, <3>4 DEF Swapped
    <3>6. EraseFixing(u, M \ {a}, a, NULL, b)
      BY <1>2, <1>7, <3>3, <3>5 DEF EraseFixing, IsRed
    <3> QED  BY <1>2, <1>15, <1>19, <2>5, <3>6
  <2> QED  BY <2>3, <2>4, <2>5
<1> QED  BY <1>18, <1>19

(* The side on which the code finds the missing black node; the sibling    *)
(* there is not NULL.                                                      *)
LEMMA DeficitSide ==
  ASSUME NEW t, NEW M, NEW sub, Shape(t, M, sub), NEW p \in M, NEW q \in Side,
         NEW h, Painted(t, M, h, p, q, NULL)
  PROVE  SideOf(t, p, t.child[p][q]) = q /\ t.child[p][Other(q)] \in M
<1> DEFINE o == Other(q)
<1>1. /\ Linked(t, M) /\ Heights(t, M, h, p, q) /\ o \in Side /\ o # q
      /\ t \in Tree /\ p \in Node /\ t.color[p] \in {0, 1} /\ h[NULL] = 0
  BY SideFacts DEF Shape, Painted, Linked, Heights, Tree, RB_RED, RB_BLACK
<1>2. /\ h[p] \in Nat /\ h[t.child[p][q]] \in Nat
      /\ h[p] = t.color[p] + h[t.child[p][q]] + 1
  BY <1>1, Down
<1>3. /\ h[t.child[p][o]] \in Nat /\ h[p] = t.color[p] + h[t.child[p][o]]
  <2>1. /\ h[t.child[p][o]] \in Nat
        /\ t.color[p] = RB_RED => h[p] = h[t.child[p][o]]
        /\ t.color[p] = RB_BLACK => h[p] = 1 + h[t.child[p][o]]
    BY <1>1, Down
  <2> QED  BY <1>1, <2>1 DEF RB_RED, RB_BLACK
<1>4. h[t.child[p][o]] = h[t.child[p][q]] + 1
  BY <1>1, <1>2, <1>3
<1>5. t.child[p][o] # t.child[p][q] /\ t.child[p][o] # NULL
  BY <1>1, <1>2, <1>4
<1>6. t.child[p][o] \in M
  BY <1>1, <1>5 DEF Linked
<1> QED  BY <1>5, <1>6 DEF SideOf, Side, Other

LEMMA RedSiblingFix ==
  ASSUME NEW t, NEW M, NEW sub, Shape(t, M, sub), NEW a, NEW c, NEW p,
         EraseFixing(t, M, a, c, p),
         IsRed(t, t.child[p][Other(SideOf(t, p, c))]),
         NEW u, u = __rb_rotate_set_parents(
                      TurnUp(t, p, t.child[p][Other(SideOf(t, p, c))], SideOf(t, p, c)),
                      p, t.child[p][Other(SideOf(t, p, c))], RB_RED)
  PROVE  \E sub2 : Shape(u, M, sub2) /\ EraseFixing(u, M, a, c, p)
<1>1. PICK q \in Side : t.child[p][q] = c /\ \E h : Painted(t, M, h, p, q, NULL)
  BY DEF EraseFixing
<1>2. PICK h : Painted(t, M, h, p, q, NULL)
  BY <1>1
<1>3. p \in M /\ a \in Node \ M /\ ~IsRed(t, c)
  BY DEF EraseFixing
<1>4. SideOf(t, p, c) = q /\ t.child[p][Other(q)] \in M
  BY <1>1, <1>2, <1>3, DeficitSide
<1>5. PICK sub2, h2 : /\ Shape(u, M, sub2) /\ Painted(u, M, h2, p, q, NULL)
                      /\ u.child[p][q] = t.child[p][q]
                      /\ ~IsRed(u, t.child[p][q])
  BY <1>1, <1>2, <1>3, <1>4, RedSiblingStep
<1> QED  BY <1>1, <1>3, <1>5 DEF EraseFixing

(* What case 2 of __rb_erase_fix stores.                                   *)
LEMMA RecolouredIs ==
  ASSUME NEW t \in Tree, NEW n \in Node, NEW p \in Node, t.parent[n] = p, n # p,
         NEW t2, t2 = rb_set_parent_color(t, n, p, RB_RED),
         NEW k \in {RB_RED, RB_BLACK}, NEW u, u = [t2 EXCEPT !.color[p] = k]
  PROVE  /\ SameLinks(t, t2) /\ t2.color[n] = RB_RED
         /\ \A m \in Node \ {n} : t2.color[m] = t.color[m]
         /\ SameLinks(t, u) /\ u.color[n] = RB_RED /\ u.color[p] = k
         /\ \A m \in Node \ {p, n} : u.color[m] = t.color[m]
<1>1. ParentColorStored(t, t2, n, p, RB_RED)
  BY SetParentColorIs DEF Link
<1>2. /\ t2 \in Tree /\ t2.root = t.root
      /\ \A m \in Node : /\ t2.parent[m] = t.parent[m]
                         /\ t2.color[m] = IF m = n THEN RB_RED ELSE t.color[m]
                         /\ \A r \in Side : t2.child[m][r] = t.child[m][r]
  BY <1>1 DEF ParentColorStored
<1>3. /\ u \in Tree /\ u.root = t2.root /\ u.parent = t2.parent /\ u.child = t2.child
      /\ \A m \in Node : u.color[m] = IF m = p THEN k ELSE t2.color[m]
  BY <1>2 DEF Tree
<1> QED  BY <1>2, <1>3 DEF SameLinks

LEMMA BlackNephewsFix ==
  ASSUME NEW t, NEW M, NEW sub, Shape(t, M, sub), NEW a, NEW c, NEW p,
         EraseFixing(t, M, a, c, p),
         NEW n, t.child[p][Other(SideOf(t, p, c))] = n, ~IsRed(t, n),
         \A r \in Side : ~IsRed(t, t.child[n][r]),
         NEW t2, t2 = rb_set_parent_color(t, n, p, RB_RED)
  PROVE  /\ IsRed(t, p) => LET u == [t2 EXCEPT !.color[p] = RB_BLACK]
                           IN  Shape(u, M, sub) /\ Sound(u, M, NULL)
         /\ Shape(t2, M, sub)
         /\ ~IsRed(t, p) /\ t.parent[p] = NULL => Sound(t2, M, NULL)
         /\ ~IsRed(t, p) /\ t.parent[p] # NULL => EraseFixing(t2, M, a, p, t.parent[p])
<1> DEFINE u == [t2 EXCEPT !.color[p] = RB_BLACK]
           g == t.parent[p]
<1>1. PICK q \in Side : t.child[p][q] = c /\ \E h : Painted(t, M, h, p, q, NULL)
  BY DEF EraseFixing
<1>2. PICK h : Painted(t, M, h, p, q, NULL)
  BY <1>1
<1>3. /\ p \in M /\ a \in Node \ M /\ t \in Tree /\ M \subseteq Node /\ NULL \notin Node
      /\ t.color[p] \in {RB_RED, RB_BLACK}
  BY NodeAssumption DEF EraseFixing, Shape, Linked, Tree
<1>4. SideOf(t, p, c) = q /\ t.child[p][Other(q)] \in M
  BY <1>1, <1>2, <1>3, DeficitSide
<1>5. n \in M /\ n = t.child[p][Other(q)]
  BY <1>4
<1>6. Bough(t, M, p, n, q)
  BY <1>3, <1>5, BoughFacts
<1>7. t.parent[n] = p /\ n # p
  BY <1>6 DEF Bough
<1>8. /\ SameLinks(t, t2) /\ t2.color[n] = RB_RED
      /\ \A m \in Node \ {n} : t2.color[m] = t.color[m]
      /\ SameLinks(t, u) /\ u.color[n] = RB_RED /\ u.color[p] = RB_BLACK
      /\ \A m \in Node \ {p, n} : u.color[m] = t.color[m]
  BY <1>3, <1>5, <1>7, RecolouredIs
<1> HIDE DEF u
<1>9. Shape(u, M, sub) /\ Shape(t2, M, sub)
  BY <1>8, SameShape
<1>10. ASSUME NEW w, SameLinks(t, w), w.color[n] = RB_RED, w.color[p] = RB_BLACK,
              \A m \in Node \ {p, n} : w.color[m] = t.color[m]
       PROVE  /\ IsRed(t, p) \/ g = NULL => \E h2 : Painted(w, M, h2, NULL, q, NULL)
              /\ ~IsRed(t, p) =>
                   \A m \in M, r \in Side : t.child[m][r] = p => \E h2 : Painted(w, M, h2, m, r, NULL)
  BY <1>2, <1>3, <1>5, <1>6, <1>10, NephewsPaint
<1>11. IsRed(t, p) => Sound(u, M, NULL)
  BY <1>8, <1>10 DEF Sound
<1>12. ASSUME ~IsRed(t, p)
       PROVE  /\ t2.color[p] = RB_BLACK
              /\ g = NULL => Sound(t2, M, NULL)
              /\ \A m \in M, r \in Side : t.child[m][r] = p => \E h2 : Painted(t2, M, h2, m, r, NULL)
  <2>1. t2.color[p] = RB_BLACK
    BY <1>3, <1>7, <1>8, <1>12 DEF IsRed
  <2>2. /\ g = NULL => \E h2 : Painted(t2, M, h2, NULL, q, NULL)
        /\ \A m \in M, r \in Side : t.child[m][r] = p => \E h2 : Painted(t2, M, h2, m, r, NULL)
    BY <1>3, <1>8, <1>10, <1>12, <2>1
  <2> QED  BY <2>1, <2>2 DEF Sound
<1>13. ASSUME ~IsRed(t, p), g # NULL  PROVE EraseFixing(t2, M, a, p, g)
  <2>1. g \in M
    BY <1>3, <1>13 DEF Shape, Linked
  <2>2. Held(t, p)
    BY <1>3, ShapeHeld
  <2>3. PICK r \in Side : t.child[g][r] = p
    BY <1>13, <2>2 DEF Held
  <2>4. \E h2 : Painted(t2, M, h2, g, r, NULL)
    BY <1>12, <1>13, <2>1, <2>3
  <2>5. t2.child[g][r] = p
    BY <1>3, <1>8, <2>1, <2>3 DEF SameLinks
  <2>6. ~IsRed(t2, p)
    BY <1>12, <1>13 DEF IsRed, RB_RED, RB_BLACK
  <2> QED  BY <1>3, <2>1, <2>4, <2>5, <2>6 DEF EraseFixing
<1> QED  BY <1>9, <1>11, <1>12, <1>13 DEF u

(* Case 3 and 4 of __rb_erase_fix.                                         *)
NephewCode(t, u, p, s, top, low, t3) ==
  LET tmp == t3.child[top][s]
      t4 == SetChild(rb_set_parent(SetChild(t3, p, Other(s), tmp), tmp, p), top, s, p)
  IN  u = __rb_rotate_set_parents(rb_set_parent_color(t4, low, top, RB_BLACK), p, top, RB_BLACK)

LEMMA NephewCodeIs ==
  ASSUME NEW t, NEW u, NEW p \in Node, NEW s \in Side, NEW top \in Node, NEW low \in Node,
         p # top, NEW t3 \in Tree, NephewCode(t, u, p, s, top, low, t3)
  PROVE  \E w : NephewStored(t3, w, p, top, low, s) /\ ParentsRotated(w, u, p, top, RB_BLACK)
<1> DEFINE tmp == t3.child[top][s]
           t4 == SetChild(rb_set_parent(SetChild(t3, p, Other(s), tmp), tmp, p), top, s, p)
           w == rb_set_parent_color(t4, low, top, RB_BLACK)
<1>1. NephewStored(t3, w, p, top, low, s)
  BY NephewStoredIs
<1>2. u = __rb_rotate_set_parents(w, p, top, RB_BLACK)
  BY DEF NephewCode
<1> HIDE DEF w
<1>3. w \in Tree
  BY <1>1 DEF NephewStored
<1>4. ParentsRotated(w, u, p, top, RB_BLACK)
  BY <1>2, <1>3, RotateSetParentsIs
<1> QED  BY <1>1, <1>4

LEMMA FarNephewFix ==
  ASSUME NEW t, NEW M, NEW sub, Shape(t, M, sub), NEW p \in M, NEW q \in Side,
         NEW h, Painted(t, M, h, p, q, NULL),
         NEW n \in M, t.child[p][Other(q)] = n, ~IsRed(t, n),
         NEW f, t.child[n][Other(q)] = f, IsRed(t, f),
         NEW u, NephewCode(t, u, p, q, n, f, t)
  PROVE  \E sub2 : Shape(u, M, sub2) /\ Sound(u, M, NULL)
<1>1. /\ t \in Tree /\ M \subseteq Node /\ f # NULL /\ f \in M \cup {NULL}
  BY SideFacts DEF Shape, Linked, IsRed
<1>2. f \in M
  BY <1>1
<1>3. Row(t, M, p, n, f, q)
  BY <1>2, RowFacts
<1>4. /\ p # n /\ p # f /\ n # f /\ t.child[n][q] \notin {p, n, f}
      /\ t.parent[f] = n /\ t.parent[p] \notin {p, n} /\ p \in Node /\ n \in Node /\ f \in Node
  BY <1>1, <1>2, <1>3 DEF Row
<1>5. PICK w : NephewStored(t, w, p, n, f, q) /\ ParentsRotated(w, u, p, n, RB_BLACK)
  BY <1>1, <1>4, NephewCodeIs
<1>6. Held(t, p)
  BY ShapeHeld
<1>7. NephewTurned(t, u, p, n, f, q)
  BY <1>1, <1>4, <1>5, <1>6, NephewTurnedIs
<1>8. \E h2 : Painted(u, M, h2, NULL, q, NULL)
  BY <1>2, <1>3, <1>7, FarPaint
<1>9. Shape(u, M, RotatedSub(t, sub, p, n, q))
  BY <1>7, RotateShape DEF NephewTurned
<1> QED  BY <1>8, <1>9 DEF Sound

LEMMA NearNephewFix ==
  ASSUME NEW t, NEW M, NEW sub, Shape(t, M, sub), NEW p \in M, NEW q \in Side,
         NEW h, Painted(t, M, h, p, q, NULL),
         NEW n \in M, t.child[p][Other(q)] = n, ~IsRed(t, n),
         ~IsRed(t, t.child[n][Other(q)]),
         NEW k, t.child[n][q] = k, IsRed(t, k),
         NEW t2, t2 = SetChild(TurnUp(t, n, k, Other(q)), p, Other(q), k),
         NEW u, NephewCode(t, u, p, q, k, n, t2)
  PROVE  \E sub2 : Shape(u, M, sub2) /\ Sound(u, M, NULL)
<1> DEFINE o == Other(q)
           t1 == TurnUp(t, n, k, o)
<1>1. /\ t \in Tree /\ M \subseteq Node /\ k # NULL /\ k \in M \cup {NULL}
  BY SideFacts DEF Shape, Linked, IsRed
<1>2. k \in M
  BY <1>1
<1>3. Angle(t, M, p, n, k, q) /\ Held(t, p) /\ Linked(t, M)
  BY <1>2, DoubleFacts, ShapeHeld DEF Shape
<1>4. /\ p # n /\ p # k /\ n # k /\ o \in Side /\ p \in Node /\ n \in Node /\ k \in Node
      /\ k \in Link
  BY <1>1, <1>2, <1>3 DEF Angle, Link
<1>5. TurnedUp(t, t1, n, k, o)
  BY <1>1, <1>4, TurnUpIs
<1>6. t1 \in Tree
  BY <1>5 DEF TurnedUp
<1>7. ChildStored(t1, t2, p, o, k)
  BY <1>4, <1>6, SetChildIs
<1>8. t2 \in Tree
  BY <1>7 DEF ChildStored
<1> HIDE DEF t1
<1>9. PICK w : NephewStored(t2, w, p, k, n, q) /\ ParentsRotated(w, u, p, k, RB_BLACK)
  BY <1>4, <1>8, NephewCodeIs
<1>10. NephewTwiceTurned(t, u, p, n, k, q)
  BY <1>2, <1>3, <1>5, <1>7, <1>9, NephewTwiceTurnedIs
<1>11. \E h2 : Painted(u, M, h2, NULL, q, NULL)
  BY <1>2, <1>3, <1>10, NearPaint
<1>12. \E sub2 : Shape(u, M, sub2)
  BY <1>2, <1>3, <1>10, DoubleShape DEF NephewTwiceTurned
<1> QED  BY <1>11, <1>12 DEF Sound

-----------------------------------------------------------------------------
(* The steps of an insertion.                                              *)

LEMMA HangStep ==
  ASSUME NEW t, NEW M, NEW sub, Shape(t, M, sub), Sound(t, M, NULL),
         NEW p \in M, NEW s \in Side, t.child[p][s] = NULL,
         NEW z \in Node \ M, Lt(s, z, p),
         \A b \in M, r \in Side : p \in sub[t.child[b][r]] => Lt(r, z, b),
         NEW u, u = rb_set_parent_color(SetChild(t, p, s, z), z, p, RB_RED)
  PROVE  /\ \E sub2 : Shape(u, M \cup {z}, sub2)
         /\ u.color[z] = RB_RED /\ Sound(u, M \cup {z}, z)
<1> DEFINE t1 == SetChild(t, p, s, z)
<1>1. /\ t \in Tree /\ Linked(t, M) /\ p \in Node /\ z \in Node /\ z \in Link /\ p \in Link
      /\ RB_RED \in {RB_RED, RB_BLACK}
  BY DEF Shape, Linked, Link
<1>2. ChildStored(t, t1, p, s, z)
  BY <1>1, SetChildIs
<1>3. t1 \in Tree
  BY <1>2 DEF ChildStored
<1>4. ParentColorStored(t1, u, z, p, RB_RED)
  BY <1>1, <1>3, SetParentColorIs
<1> HIDE DEF t1
<1>5. /\ u \in Tree /\ Hung(t, u, p, s, z) /\ u.color[z] = RB_RED
      /\ \A m \in Node \ {z} : u.color[m] = t.color[m]
  BY <1>1, <1>2, <1>4 DEF ChildStored, ParentColorStored, Hung
<1>6. Shape(u, M \cup {z}, HungSub(sub, p, z))
  BY <1>5, HangShape
<1>7. PICK h, q : Painted(t, M, h, NULL, q, NULL)
  BY DEF Sound
<1>8. \E h2 : Painted(u, M \cup {z}, h2, NULL, q, z)
  BY <1>1, <1>5, <1>7, HangPaint
<1> QED  BY <1>5, <1>6, <1>8 DEF Sound

LEMMA FixRootStep ==
  ASSUME NEW t, NEW M, NEW sub, Shape(t, M, sub), NEW c \in M, t.color[c] = RB_RED,
         Sound(t, M, c), t.parent[c] = NULL,
         NEW u, u = [rb_set_parent_color(t, c, NULL, RB_BLACK) EXCEPT !.root = c]
  PROVE  Shape(u, M, sub) /\ Sound(u, M, NULL)
<1> DEFINE t1 == rb_set_parent_color(t, c, NULL, RB_BLACK)
<1>1. /\ t \in Tree /\ Linked(t, M) /\ c \in Node /\ NULL \notin Node /\ c \in Link
      /\ NULL \in Link
  BY NodeAssumption DEF Shape, Linked, Link
<1>2. c = t.root /\ t.root # NULL
  BY <1>1 DEF Linked
<1>3. ParentColorStored(t, t1, c, NULL, RB_BLACK)
  BY <1>1, SetParentColorIs
<1>4. t1 \in Tree
  BY <1>3 DEF ParentColorStored
<1> HIDE DEF t1
<1>5. /\ u \in Tree /\ u.root = c /\ u.child = t1.child /\ u.parent = t1.parent
      /\ u.color = t1.color
  BY <1>1, <1>4, SetRootIs DEF t1
<1>6. /\ SameLinks(t, u) /\ u.color[t.root] = RB_BLACK
      /\ \A m \in Node \ {t.root} : u.color[m] = t.color[m]
  BY <1>1, <1>2, <1>3, <1>5 DEF ParentColorStored, SameLinks
<1>7. PICK h, q : Painted(t, M, h, NULL, q, t.root)
  BY <1>2 DEF Sound
<1>8. \E h2 : Painted(u, M, h2, NULL, q, NULL)
  BY <1>1, <1>2, <1>6, <1>7, RootPaint
<1> QED  BY <1>6, <1>8, SameShape DEF Sound

LEMMA FirstNodeStep ==
  ASSUME NEW t, NEW M, NEW sub, Shape(t, M, sub), M = {}, Sound(t, M, NULL),
         NEW c \in Node,
         NEW u, u = [rb_set_parent_color(t, c, NULL, RB_BLACK) EXCEPT !.root = c]
  PROVE  (\E sub2 : Shape(u, {c}, sub2)) /\ Sound(u, {c}, NULL)
<1> DEFINE t1 == rb_set_parent_color(t, c, NULL, RB_BLACK)
           sub2 == [m \in Link |-> IF m = c THEN {c} ELSE {}]
           h == [m \in Link |-> IF m = c THEN 1 ELSE 0]
<1>1. /\ t \in Tree /\ Linked(t, M) /\ NULL \notin Node /\ c \in Link /\ NULL \in Link
      /\ c # NULL
  BY NodeAssumption DEF Shape, Link
<1>2. ParentColorStored(t, t1, c, NULL, RB_BLACK)
  BY <1>1, SetParentColorIs
<1>3. t1 \in Tree
  BY <1>2 DEF ParentColorStored
<1> HIDE DEF t1
<1>4. /\ u \in Tree /\ u.root = c /\ u.child = t1.child /\ u.parent = t1.parent
      /\ u.color = t1.color
  BY <1>1, <1>3, SetRootIs DEF t1
<1>5. \A m \in Node : /\ t.parent[m] = NULL /\ \A r \in Side : t.child[m][r] = NULL
                      /\ t.color[m] = RB_RED
  BY <1>1 DEF Linked, Sound, Painted, Colours
<1>6. \A m \in Node : /\ u.parent[m] = NULL /\ \A r \in Side : u.child[m][r] = NULL
                      /\ u.color[m] = IF m = c THEN RB_BLACK ELSE RB_RED
  <2> SUFFICES ASSUME NEW m \in Node
               PROVE  /\ u.parent[m] = NULL /\ \A r \in Side : u.child[m][r] = NULL
                      /\ u.color[m] = IF m = c THEN RB_BLACK ELSE RB_RED
    OBVIOUS
  <2>1. t1.child = t.child /\ t1.parent[m] = (IF m = c THEN NULL ELSE t.parent[m])
        /\ t1.color[m] = (IF m = c THEN RB_BLACK ELSE t.color[m])
    BY <1>2 DEF ParentColorStored
  <2> QED  BY <1>4, <1>5, <2>1
<1>7. Linked(u, {c})
  BY <1>1, <1>4, <1>6 DEF Linked
<1>8. Labelled(u, {c}, sub2)
  BY <1>1, <1>4, <1>6 DEF Labelled
<1>9. sub2[NULL] = {}
  BY <1>1
<1> HIDE DEF sub2
<1>10. Ordered(u, {c}, sub2) /\ Closed(u, {c}, sub2)
  BY <1>4, <1>6, <1>9 DEF Ordered, Closed
<1>11. h \in [Link -> Nat] /\ h[NULL] = 0 /\ h[c] = 1
  BY <1>1
<1> HIDE DEF h
<1>12. Heights(u, {c}, h, NULL, "rb_left")
  BY <1>1, <1>6, <1>11 DEF Heights, RB_BLACK
<1>13. Colours(u, {c}, NULL)
  BY <1>4, <1>6 DEF Colours, RB_RED, RB_BLACK
<1> QED  BY <1>4, <1>7, <1>8, <1>10, <1>12, <1>13 DEF Shape, Sound, Painted

LEMMA BlackParentStep ==
  ASSUME NEW t, NEW M, NEW sub, Shape(t, M, sub), NEW c \in M, Sound(t, M, c),
         t.parent[c] # NULL, ~IsRed(t, t.parent[c])
  PROVE  Sound(t, M, NULL)
<1>1. PICK h, q : Painted(t, M, h, NULL, q, c)
  BY DEF Sound
<1>2. Linked(t, M) /\ c # t.root /\ t.root \in M \cup {NULL} /\ NULL \notin M
  BY NodeAssumption DEF Shape, Linked
<1>3. \A n \in M, r \in Side : t.child[n][r] = c => t.color[n] # RB_RED
  BY <1>2 DEF Linked, IsRed
<1>4. Colours(t, M, NULL)
  BY <1>1, <1>2, <1>3 DEF Painted, Colours
<1> QED  BY <1>1, <1>4 DEF Sound, Painted

(* A red node under a red parent has a grandparent.                        *)
LEMMA Grandparent ==
  ASSUME NEW t, NEW M, NEW sub, Shape(t, M, sub), NEW c \in M, Sound(t, M, c),
         NEW p, t.parent[c] = p, p # NULL, IsRed(t, p), NEW g, t.parent[p] = g
  PROVE  /\ p \in M /\ g \in M /\ c # t.root /\ p # c
         /\ SideOf(t, g, p) \in Side /\ t.child[g][SideOf(t, g, p)] = p
         /\ \E r \in Side : t.child[p][r] = c
<1>1. PICK h, q : Painted(t, M, h, NULL, q, c)
  BY DEF Sound
<1>2. Linked(t, M) /\ NULL \notin M /\ c # NULL
  BY NodeAssumption DEF Shape, Linked
<1>a. c # t.root
  BY <1>2 DEF Linked
<1>b. p \in M /\ \E r \in Side : t.child[p][r] = c
  BY <1>2, <1>a DEF Linked
<1>3. PICK r \in Side : t.child[p][r] = c
  BY <1>b
<1>4. p # c
  BY <1>b, <1>3, ShapeFacts
<1>5. p # t.root
  BY <1>1, <1>4 DEF Painted, Colours, IsRed, RB_RED, RB_BLACK
<1>6. g \in M /\ \E s \in Side : t.child[g][s] = p
  BY <1>2, <1>b, <1>5 DEF Linked
<1> QED  BY <1>a, <1>b, <1>4, <1>6 DEF SideOf, Side

LEMMA RecolouredLinks ==
  ASSUME NEW t \in Tree, NEW p \in Node, NEW n \in Node, NEW g \in Node,
         t.parent[p] = g, t.parent[n] = g, p # n, p # g, n # g,
         NEW u, u = Recoloured(t, p, n, g)
  PROVE  /\ SameLinks(t, u)
         /\ u.color[g] = RB_RED /\ u.color[p] = RB_BLACK /\ u.color[n] = RB_BLACK
         /\ \A m \in Node \ {g, p, n} : u.color[m] = t.color[m]
<1> DEFINE t1 == rb_set_parent_color(t, n, g, RB_BLACK)
           t2 == rb_set_parent_color(t1, p, g, RB_BLACK)
<1>1. p \in Link /\ n \in Link /\ g \in Link /\ t.parent[g] \in Link
  BY DEF Link, Tree
<1>2. ParentColorStored(t, t1, n, g, RB_BLACK)
  BY <1>1, SetParentColorIs
<1>3. t1 \in Tree
  BY <1>2 DEF ParentColorStored
<1>4. ParentColorStored(t1, t2, p, g, RB_BLACK)
  BY <1>1, <1>3, SetParentColorIs
<1>5. t2 \in Tree
  BY <1>4 DEF ParentColorStored
<1>6. u = rb_set_parent_color(t2, g, t.parent[g], RB_RED)
  BY DEF Recoloured
<1> HIDE DEF t1, t2
<1>7. ParentColorStored(t2, u, g, t.parent[g], RB_RED)
  BY <1>1, <1>5, <1>6, SetParentColorIs
<1> QED  BY <1>2, <1>4, <1>7 DEF ParentColorStored, SameLinks

LEMMA RedUncleForks ==
  ASSUME NEW t, NEW M, NEW sub, Shape(t, M, sub), NEW c \in M, Sound(t, M, c),
         NEW s, NEW g \in M, NEW p \in M, NEW n \in M, Fork(t, M, g, p, n, s),
         t.parent[c] = p, c # t.root, p # c, IsRed(t, p), IsRed(t, n)
  PROVE  LET u == Recoloured(t, p, n, g)
         IN  Shape(u, M, sub) /\ u.color[g] = RB_RED /\ Sound(u, M, g)
<1> DEFINE u == Recoloured(t, p, n, g)
<1>1. /\ t.parent[p] = g /\ t.parent[n] = g /\ p # n /\ p # g /\ n # g
      /\ t \in Tree /\ g \in Node /\ p \in Node /\ n \in Node
  BY DEF Fork
<1>2. /\ SameLinks(t, u)
      /\ u.color[g] = RB_RED /\ u.color[p] = RB_BLACK /\ u.color[n] = RB_BLACK
      /\ \A m \in Node \ {g, p, n} : u.color[m] = t.color[m]
  BY <1>1, RecolouredLinks
<1> HIDE DEF u
<1>3. PICK h, q : Painted(t, M, h, NULL, q, c)
  BY DEF Sound
<1>4. Linked(t, M)
  BY DEF Shape
<1>5. \E h2 : Painted(u, M, h2, NULL, q, g)
  BY <1>2, <1>3, <1>4, UnclePaint
<1>6. Shape(u, M, sub)
  BY <1>2, SameShape
<1> QED  BY <1>2, <1>5, <1>6 DEF Sound, u

LEMMA RedUncleStep ==
  ASSUME NEW t, NEW M, NEW sub, Shape(t, M, sub), NEW c \in M, Sound(t, M, c),
         t.parent[c] # NULL, IsRed(t, t.parent[c])
  PROVE  LET p == t.parent[c]
             g == t.parent[p]
             n == t.child[g][Other(SideOf(t, g, p))]
             u == Recoloured(t, p, n, g)
         IN  IsRed(t, n) => /\ Shape(u, M, sub) /\ g \in M
                            /\ u.color[g] = RB_RED /\ Sound(u, M, g)
<1> DEFINE p == t.parent[c]
           g == t.parent[p]
           s == SideOf(t, g, p)
           n == t.child[g][Other(s)]
<1> SUFFICES ASSUME IsRed(t, n)
             PROVE  LET u == Recoloured(t, p, n, g)
                    IN  Shape(u, M, sub) /\ g \in M /\ u.color[g] = RB_RED /\ Sound(u, M, g)
  BY Zenon
<1>1. /\ p \in M /\ g \in M /\ c # t.root /\ p # c /\ s \in Side /\ t.child[g][s] = p
  BY Grandparent
<1>2. t.parent[c] = p /\ IsRed(t, p) /\ Other(s) \in Side
  BY <1>1, SideFacts
<1>3. n \in M
  BY <1>1, <1>2 DEF Shape, Linked, IsRed
<1>4. Fork(t, M, g, p, n, s)
  BY <1>1, <1>3, ForkFacts
<1> HIDE DEF p, g, s, n
<1>5. LET w == Recoloured(t, p, n, g)
      IN  Shape(w, M, sub) /\ w.color[g] = RB_RED /\ Sound(w, M, g)
  BY <1>1, <1>2, <1>3, <1>4, RedUncleForks
<1> QED  BY <1>1, <1>5

LEMMA OuterStep ==
  ASSUME NEW t, NEW M, NEW sub, Shape(t, M, sub), NEW c \in M, Sound(t, M, c),
         NEW s \in Side, NEW g \in M, NEW p \in M, Row(t, M, g, p, c, s),
         IsRed(t, p), ~IsRed(t, t.child[g][s])
  PROVE  LET u == __rb_rotate_set_parents(TurnUp(t, g, p, s), g, p, RB_RED)
         IN  \E sub2 : Shape(u, M, sub2) /\ Sound(u, M, NULL)
<1> DEFINE u == __rb_rotate_set_parents(TurnUp(t, g, p, s), g, p, RB_RED)
<1>1. PICK h, q : Painted(t, M, h, NULL, q, c)
  BY DEF Sound
<1>2. p = t.child[g][Other(s)] /\ c = t.child[p][Other(s)]
  BY DEF Row
<1>3. u \in Tree /\ Rotated(t, u, g, p, s) /\ TurnColors(t, u, g, p, s, RB_RED)
  BY <1>2, TurnRotates
<1> HIDE DEF u
<1>4. \E h2 : Painted(u, M, h2, NULL, q, NULL)
  BY <1>1, <1>2, <1>3, OuterPaint
<1>5. Shape(u, M, RotatedSub(t, sub, g, p, s))
  BY <1>2, <1>3, RotateShape
<1> QED  BY <1>4, <1>5 DEF Sound, u

LEMMA InnerStep ==
  ASSUME NEW t, NEW M, NEW sub, Shape(t, M, sub), NEW c \in M, Sound(t, M, c),
         t.color[c] = RB_RED,
         NEW s \in Side, NEW g \in M, NEW p \in M, t.child[g][Other(s)] = p,
         t.child[p][s] = c, IsRed(t, p), ~IsRed(t, t.child[g][s]),
         NEW t2, t2 = rb_set_parent_color(TurnUp(t, p, c, Other(s)), p, c, RB_RED),
         NEW u, u = __rb_rotate_set_parents(TurnUp(t2, g, c, s), g, c, RB_RED)
  PROVE  \E sub2 : Shape(u, M, sub2) /\ Sound(u, M, NULL)
<1>1. PICK h, q : Painted(t, M, h, NULL, q, c)
  BY DEF Sound
<1>2. TwiceTurned(t, u, g, p, c, s)
  BY TurnDoubles
<1>3. Angle(t, M, g, p, c, s) /\ Linked(t, M) /\ IsRed(t, c)
  BY DoubleFacts, NodeAssumption DEF Shape, Linked, IsRed
<1>4. \E h2 : Painted(u, M, h2, NULL, q, NULL)
  BY <1>1, <1>2, <1>3, InnerPaint
<1>5. \E sub2 : Shape(u, M, sub2)
  BY <1>2, <1>3, DoubleShape DEF TwiceTurned
<1> QED  BY <1>4, <1>5 DEF Sound

LEMMA BlackUncleStep ==
  ASSUME NEW t, NEW M, NEW sub, Shape(t, M, sub), NEW c \in M, Sound(t, M, c),
         t.color[c] = RB_RED, t.parent[c] # NULL, IsRed(t, t.parent[c])
  PROVE  LET p == t.parent[c]
             g == t.parent[p]
             s == SideOf(t, g, p)
             inner == t.child[p][Other(s)] = c
             t2 == IF inner
                   THEN rb_set_parent_color(TurnUp(t, p, c, s), p, c, RB_RED)
                   ELSE t
             top == IF inner THEN c ELSE p
             u == __rb_rotate_set_parents(TurnUp(t2, g, top, Other(s)), g, top, RB_RED)
         IN  ~IsRed(t, t.child[g][Other(s)]) => \E sub2 : Shape(u, M, sub2) /\ Sound(u, M, NULL)
<1> DEFINE p == t.parent[c]
           g == t.parent[p]
           s == SideOf(t, g, p)
           o == Other(s)
           t2 == rb_set_parent_color(TurnUp(t, p, c, s), p, c, RB_RED)
<1> SUFFICES ASSUME ~IsRed(t, t.child[g][o])
             PROVE  /\ t.child[p][o] = c =>
                         LET u == __rb_rotate_set_parents(TurnUp(t2, g, c, o), g, c, RB_RED)
                         IN  \E sub2 : Shape(u, M, sub2) /\ Sound(u, M, NULL)
                    /\ t.child[p][o] # c =>
                         LET u == __rb_rotate_set_parents(TurnUp(t, g, p, o), g, p, RB_RED)
                         IN  \E sub2 : Shape(u, M, sub2) /\ Sound(u, M, NULL)
  <2>1. CASE t.child[p][o] = c
    BY <2>1
  <2>2. CASE t.child[p][o] # c
    BY <2>2
  <2> QED  BY <2>1, <2>2, Zenon
<1>1. /\ p \in M /\ g \in M /\ s \in Side /\ t.child[g][s] = p
      /\ \E r \in Side : t.child[p][r] = c
  BY Grandparent
<1>2. /\ o \in Side /\ Other(o) = s /\ IsRed(t, p) /\ \A r \in Side : r = s \/ r = o
  BY <1>1, SideFacts
<1> HIDE DEF p, g, s, o
<1>3. ASSUME t.child[p][o] = c
      PROVE  LET u == __rb_rotate_set_parents(TurnUp(t2, g, c, o), g, c, RB_RED)
             IN  \E sub2 : Shape(u, M, sub2) /\ Sound(u, M, NULL)
  <2>1. t2 = rb_set_parent_color(TurnUp(t, p, c, Other(o)), p, c, RB_RED)
    BY <1>2
  <2> HIDE DEF t2
  <2> QED  BY <1>1, <1>2, <1>3, <2>1, InnerStep
<1>4. ASSUME t.child[p][o] # c
      PROVE  LET u == __rb_rotate_set_parents(TurnUp(t, g, p, o), g, p, RB_RED)
             IN  \E sub2 : Shape(u, M, sub2) /\ Sound(u, M, NULL)
  <2>1. c = t.child[p][Other(o)] /\ p = t.child[g][Other(o)]
    BY <1>1, <1>2, <1>4
  <2>2. Row(t, M, g, p, c, o)
    BY <1>1, <1>2, <2>1, RowFacts
  <2> QED  BY <1>1, <1>2, <2>2, OuterStep
<1> QED  BY <1>3, <1>4

LEMMA RedNephewFix ==
  ASSUME NEW t, NEW M, NEW sub, Shape(t, M, sub), NEW a, NEW c, NEW p,
         EraseFixing(t, M, a, c, p)
  PROVE  LET s == SideOf(t, p, c)
             o == Other(s)
             n == t.child[p][o]
             far == t.child[n][o]
             near == t.child[n][s]
             t3 == IF IsRed(t, far) THEN t ELSE SetChild(TurnUp(t, n, near, o), p, o, near)
             top == IF IsRed(t, far) THEN n ELSE near
             low == IF IsRed(t, far) THEN far ELSE n
             tmp == t3.child[top][s]
             t4 == SetChild(rb_set_parent(SetChild(t3, p, o, tmp), tmp, p), top, s, p)
             u == __rb_rotate_set_parents(rb_set_parent_color(t4, low, top, RB_BLACK),
                                          p, top, RB_BLACK)
         IN  ~IsRed(t, n) /\ (IsRed(t, far) \/ IsRed(t, near))
               => \E sub2 : Shape(u, M, sub2) /\ Sound(u, M, NULL)
<1> DEFINE s == SideOf(t, p, c)
           o == Other(s)
           n == t.child[p][o]
           far == t.child[n][o]
           near == t.child[n][s]
           t3 == SetChild(TurnUp(t, n, near, o), p, o, near)
           Code(v, top, low) ==
             LET tmp == v.child[top][s]
                 t4 == SetChild(rb_set_parent(SetChild(v, p, o, tmp), tmp, p), top, s, p)
             IN  __rb_rotate_set_parents(rb_set_parent_color(t4, low, top, RB_BLACK),
                                         p, top, RB_BLACK)
<1> SUFFICES ASSUME ~IsRed(t, n), IsRed(t, far) \/ IsRed(t, near)
             PROVE  /\ IsRed(t, far) => \E sub2 : /\ Shape(Code(t, n, far), M, sub2)
                                                  /\ Sound(Code(t, n, far), M, NULL)
                    /\ ~IsRed(t, far) => \E sub2 : /\ Shape(Code(t3, near, n), M, sub2)
                                                   /\ Sound(Code(t3, near, n), M, NULL)
  <2>1. CASE IsRed(t, far)
    BY <2>1, Zenon
  <2>2. CASE ~IsRed(t, far)
    BY <2>2, Zenon
  <2> QED  BY <2>1, <2>2, Zenon
<1>1. PICK q \in Side : t.child[p][q] = c /\ \E h : Painted(t, M, h, p, q, NULL)
  BY DEF EraseFixing
<1>2. PICK h : Painted(t, M, h, p, q, NULL)
  BY <1>1
<1>3. p \in M
  BY DEF EraseFixing
<1>4. s = q /\ t.child[p][Other(q)] \in M
  BY <1>1, <1>2, <1>3, DeficitSide
<1>5. s \in Side /\ n \in M /\ Painted(t, M, h, p, s, NULL)
  BY <1>2, <1>4
<1> HIDE DEF s
<1>6. ASSUME IsRed(t, far)
      PROVE  \E sub2 : Shape(Code(t, n, far), M, sub2) /\ Sound(Code(t, n, far), M, NULL)
  <2>1. NephewCode(t, Code(t, n, far), p, s, n, far, t)
    BY DEF NephewCode
  <2> HIDE DEF Code
  <2> QED  BY <1>3, <1>5, <1>6, <2>1, FarNephewFix
<1>7. ASSUME ~IsRed(t, far)
      PROVE  \E sub2 : Shape(Code(t3, near, n), M, sub2) /\ Sound(Code(t3, near, n), M, NULL)
  <2>1. NephewCode(t, Code(t3, near, n), p, s, near, n, t3)
    BY Zenon DEF NephewCode
  <2> HIDE DEF Code
  <2> QED  BY <1>3, <1>5, <1>7, <2>1, NearNephewFix, Zenon
<1> QED  BY <1>6, <1>7, Zenon

-----------------------------------------------------------------------------
(* The inductive invariant.                                                *)

(* A search for the place of a is at c: an equal key can only be below c,  *)
(* and a belongs where c is.                                               *)
Inserting(t, M, sub, a, c) ==
  /\ a \in Node \ M /\ c \in M \cup {NULL} /\ (c = NULL => M = {})
  /\ \A x \in M : Key(x) = Key(a) => x \in sub[c]
  /\ \A b \in M, s \in Side : c \in sub[t.child[b][s]] => Lt(s, a, b)

(* The search for the successor of a is at c.                              *)
Erasing(t, M, sub, a, c) ==
  /\ a \in M
  /\ IF t.child[a]["rb_right"] = NULL THEN c = NULL ELSE Follows(t, M, sub, a, c)
  /\ t.child[a]["rb_left"] = NULL => c = t.child[a]["rb_right"]

LookingUp(M, sub, a, c) ==
  /\ a \in Node /\ c \in M \cup {NULL}
  /\ \A x \in M : Key(x) = Key(a) => x \in sub[c]

Descending(M, sub, c) ==
  /\ c \in M \cup {NULL} /\ (c = NULL => M = {})
  /\ \A x \in M : x \in sub[c] \/ Key(c) < Key(x)

Phase(k, t, M, sub, a, c, p) ==
  \/ k = "idle" /\ Sound(t, M, NULL)
  \/ k = "insert" /\ Sound(t, M, NULL) /\ Inserting(t, M, sub, a, c)
  \/ k = "insert_fix" /\ InsertFixing(t, M, a, c)
  \/ k = "erase" /\ Sound(t, M, NULL) /\ Erasing(t, M, sub, a, c)
  \/ k = "erase_fix" /\ EraseFixing(t, M, a, c, p)
  \/ k = "lookup" /\ Sound(t, M, NULL) /\ LookingUp(M, sub, a, c)
  \/ k = "first" /\ Sound(t, M, NULL) /\ Descending(M, sub, c)

Inductive == \E sub : /\ Shape(tree, Members, sub)
                      /\ Phase(pc, tree, Members, sub, arg, cur, par)

LEMMA Establish ==
  ASSUME NEW N, NEW sub, Shape(tree', N, sub), Phase(pc', tree', N, sub, arg', cur', par')
  PROVE  Inductive' /\ Members' = N
<1>1. tree' \in Tree /\ Linked(tree', N)
  BY DEF Shape
<1>2. N = MembersOf(tree')
  BY <1>1, ShapeMembers
<1>3. Members' = N
  BY <1>2 DEF Members, MembersOf
<1> QED  BY <1>3 DEF Inductive

(* The state in every phase, the tree being one with the nodes M.          *)
LEMMA Phases ==
  ASSUME NEW k, NEW t, NEW M, NEW sub, NEW a, NEW c, NEW p, Phase(k, t, M, sub, a, c, p)
  PROVE  /\ k = "idle" => Sound(t, M, NULL)
         /\ k = "insert" => Sound(t, M, NULL) /\ Inserting(t, M, sub, a, c)
         /\ k = "insert_fix" => InsertFixing(t, M, a, c)
         /\ k = "erase" => Sound(t, M, NULL) /\ Erasing(t, M, sub, a, c)
         /\ k = "erase_fix" => EraseFixing(t, M, a, c, p)
         /\ k = "lookup" => Sound(t, M, NULL) /\ LookingUp(M, sub, a, c)
         /\ k = "first" => Sound(t, M, NULL) /\ Descending(M, sub, c)
  BY DEF Phase

LEMMA InitInductive == Init => Inductive
<1> SUFFICES ASSUME Init  PROVE Inductive
  OBVIOUS
<1> DEFINE sub == [n \in Link |-> {}]
           h == [n \in Link |-> 0]
<1>1. /\ NULL \in Link /\ tree \in Tree /\ tree.root = NULL /\ pc = "idle"
      /\ \A n \in Node : tree.parent[n] = NULL /\ tree.color[n] = RB_RED
      /\ \A n \in Node, s \in Side : tree.child[n][s] = NULL
  BY DEF Init, Tree, Link, RB_RED, RB_BLACK
<1>2. Members = {}
  BY <1>1, NodeAssumption DEF Members
<1>3. Linked(tree, {})
  BY <1>1 DEF Linked
<1>4. Labelled(tree, {}, sub)
  BY <1>1 DEF Labelled
<1>5. Ordered(tree, {}, sub) /\ Closed(tree, {}, sub)
  BY DEF Ordered, Closed
<1>6. Painted(tree, {}, h, NULL, "rb_left", NULL)
  BY <1>1 DEF Painted, Heights, Colours
<1>7. Shape(tree, Members, sub) /\ Phase(pc, tree, Members, sub, arg, cur, par)
  BY <1>1, <1>2, <1>3, <1>4, <1>5, <1>6 DEF Shape, Phase, Sound
<1> QED  BY <1>7 DEF Inductive

-----------------------------------------------------------------------------
(* The calls.                                                              *)

(* No subtree of a child has the root in it: of the nodes that have it     *)
(* below them, one would have to be nearest to the root in key.            *)
LEMMA RootOutside ==
  ASSUME NEW t, NEW M, NEW sub, Shape(t, M, sub), NEW b \in M, NEW s \in Side
  PROVE  t.root \notin sub[t.child[b][s]]
<1> DEFINE D == {d \in M : d # t.root /\ t.root \in sub[d]}
           Below(d) == {x \in D : Key(x) < Key(t.root) /\ x \in sub[d]}
<1> SUFFICES ASSUME t.root \in sub[t.child[b][s]]  PROVE FALSE
  OBVIOUS
<1>1. /\ t.root \in M /\ M \subseteq Node /\ NULL \notin M
      /\ \A m \in M, r \in Side : t.child[m][r] # NULL =>
           /\ t.child[m][r] \in M /\ t.child[m][r] # t.root /\ t.parent[t.child[m][r]] = m
  BY ShapeFacts DEF Shape, Linked, Labelled
<1>2. ASSUME NEW d \in D
      PROVE  \E r \in Side : /\ t.child[d][r] \in D /\ Lt(r, t.root, d)
                             /\ Lt(r, t.child[d][r], d)
  <2>1. PICK r \in Side : t.root \in sub[t.child[d][r]]
    BY <1>1 DEF Shape, Labelled
  <2>2. t.child[d][r] # NULL
    BY <2>1 DEF Shape, Labelled
  <2> QED  BY <1>1, <2>1, <2>2, ShapeFacts DEF Shape, Ordered
<1>3. t.child[b][s] \in D
  BY <1>1 DEF Shape, Labelled
<1>4. \A n \in M : Key(n) \in Nat
  BY <1>1, KeyType
<1>5. ASSUME NEW d \in D, Key(d) < Key(t.root)
      PROVE  /\ t.child[d]["rb_right"] \in D /\ Key(d) < Key(t.child[d]["rb_right"])
  <2>1. PICK r \in Side : /\ t.child[d][r] \in D /\ Lt(r, t.root, d)
                          /\ Lt(r, t.child[d][r], d)
    BY <1>2
  <2>2. r = "rb_right"
    BY <1>1, <1>4, <1>5, <2>1 DEF Lt, Side
  <2> QED  BY <2>1, <2>2 DEF Lt
<1>6. ASSUME NEW d \in D, Key(t.root) < Key(d)  PROVE FALSE
  <2> DEFINE S == {x \in D : Key(t.root) < Key(x)}
  <2>1. PICK e \in S : \A y \in S : Key(e) <= Key(y)
    <3>1. S \subseteq Node /\ S # {}
      BY <1>1, <1>6
    <3> HIDE DEF S
    <3> QED  BY <3>1, ExtremeKeys
  <2>2. PICK r \in Side : /\ t.child[e][r] \in D /\ Lt(r, t.root, e)
                          /\ Lt(r, t.child[e][r], e)
    BY <1>2
  <2> DEFINE f == t.child[e][r]
  <2>3. r = "rb_left" /\ Key(f) < Key(e)
    BY <1>1, <1>4, <2>1, <2>2 DEF Lt, Side
  <2>4. \A x \in D : x \in sub[f] => Key(x) < Key(e)
    BY <2>3 DEF Shape, Ordered, Lt, Side
  <2>5. \A x \in D : Key(x) < Key(e) => Key(x) < Key(t.root)
    <3> SUFFICES ASSUME NEW x \in D, Key(x) < Key(e)  PROVE Key(x) < Key(t.root)
      OBVIOUS
    <3>1. x \notin S
      BY <1>4, <2>1
    <3>2. Key(x) # Key(t.root)
      BY <1>1, <1>2, <1>4 DEF Lt
    <3> QED  BY <1>1, <1>4, <3>1, <3>2
  <2> HIDE DEF f, S
  <2>6. f \in D /\ f \in M /\ f \in sub[f]
    BY <2>2, ShapeFacts DEF f
  <2>7. PICK g \in Below(f) : \A y \in Below(f) : Key(y) <= Key(g)
    <3>1. Below(f) \subseteq Node /\ Below(f) # {}
      BY <1>1, <2>3, <2>5, <2>6
    <3> QED  BY <3>1, ExtremeKeys
  <2>8. t.child[g]["rb_right"] \in D /\ Key(g) < Key(t.child[g]["rb_right"])
    BY <1>5, <2>7
  <2> DEFINE k == t.child[g]["rb_right"]
  <2>9. k \in M /\ k # t.root /\ t.parent[k] = g
    BY <1>1, <2>7, <2>8, SideFacts
  <2>10. k \in sub[f]
    BY <1>1, <2>6, <2>7, <2>9 DEF Shape, Closed
  <2>11. k \in Below(f)
    BY <2>4, <2>5, <2>8, <2>10
  <2> QED  BY <1>4, <2>7, <2>8, <2>9, <2>11
<1>7. PICK g \in D : \A y \in D : Key(y) <= Key(g)
  <2>1. D \subseteq Node /\ D # {}
    BY <1>1, <1>3
  <2> HIDE DEF D
  <2> QED  BY <2>1, ExtremeKeys
<1>8. Key(g) # Key(t.root)
  BY <1>1, <1>2, <1>4 DEF Lt
<1>9. Key(g) < Key(t.root)
  BY <1>1, <1>4, <1>6, <1>8
<1> QED  BY <1>4, <1>5, <1>7, <1>9

LEMMA RootLabel ==
  ASSUME NEW t, NEW M, NEW sub, Shape(t, M, sub)
  PROVE  /\ t.root \in M \cup {NULL} /\ (t.root = NULL => M = {})
         /\ \A x \in M : x \in sub[t.root]
         /\ \A b \in M, s \in Side : t.root \notin sub[t.child[b][s]]
  BY RootOutside DEF Shape, Linked, Labelled

(* Every call finds the tree as the last one left it.                      *)
LEMMA CallStep ==
  ASSUME Inductive,
         \/ \E n \in Node : _rb_insert(n) \/ _rb_erase(n) \/ _rb_lookup(n)
         \/ _rb_first
  PROVE  Inductive' /\ Members' = Members
<1>1. PICK sub : Shape(tree, Members, sub) /\ Phase(pc, tree, Members, sub, arg, cur, par)
  BY DEF Inductive
<1>2. pc = "idle" /\ tree' = tree /\ Sound(tree, Members, NULL)
  BY <1>1 DEF _rb_insert, _rb_erase, _rb_lookup, _rb_first, Call, Phase
<1>3. /\ tree.root \in Members \cup {NULL} /\ (tree.root = NULL => Members = {})
      /\ \A x \in Members : x \in sub[tree.root]
      /\ \A b \in Members, s \in Side : tree.root \notin sub[tree.child[b][s]]
  BY <1>1, RootLabel
<1>4. ASSUME NEW n \in Node, _rb_insert(n)
      PROVE  Phase(pc', tree', Members, sub, arg', cur', par')
  <2>1. pc' = "insert" /\ arg' = n /\ cur' = tree.root /\ n \notin Members
    BY <1>4 DEF _rb_insert, Call
  <2>2. Inserting(tree, Members, sub, n, tree.root)
    BY <1>3, <2>1 DEF Inserting
  <2> QED  BY <1>2, <2>1, <2>2 DEF Phase
<1>5. ASSUME NEW n \in Node, _rb_erase(n)
      PROVE  Phase(pc', tree', Members, sub, arg', cur', par')
  <2>1. /\ pc' = "erase" /\ arg' = n /\ cur' = tree.child[n]["rb_right"] /\ n \in Members
    BY <1>5 DEF _rb_erase, Call
  <2> DEFINE R == tree.child[n]["rb_right"]
  <2>2. ASSUME R # NULL  PROVE Follows(tree, Members, sub, n, R)
    <3>1. /\ R \in Members /\ R \in sub[R] /\ R # tree.root /\ tree.parent[R] = n
      BY <1>1, <2>1, <2>2, SideFacts, ShapeFacts DEF Shape, Linked
    <3>2. ASSUME NEW y \in Members, n \in sub[y]  PROVE R \in sub[y]
      BY <1>1, <3>1, <3>2 DEF Shape, Closed
    <3> QED  BY <2>1, <2>2, <3>1, <3>2 DEF Follows
  <2>3. Erasing(tree, Members, sub, n, R)
    BY <2>1, <2>2 DEF Erasing
  <2> QED  BY <1>2, <2>1, <2>3 DEF Phase
<1>6. ASSUME NEW n \in Node, _rb_lookup(n)
      PROVE  Phase(pc', tree', Members, sub, arg', cur', par')
  <2>1. pc' = "lookup" /\ arg' = n /\ cur' = tree.root
    BY <1>6 DEF _rb_lookup, Call
  <2> QED  BY <1>2, <1>3, <2>1 DEF Phase, LookingUp
<1>7. ASSUME _rb_first
      PROVE  Phase(pc', tree', Members, sub, arg', cur', par')
  <2>1. pc' = "first" /\ cur' = tree.root
    BY <1>7 DEF _rb_first, Call
  <2> QED  BY <1>2, <1>3, <2>1 DEF Phase, Descending
<1>8. Shape(tree', Members, sub)
  BY <1>1, <1>2
<1>9. Phase(pc', tree', Members, sub, arg', cur', par')
  BY <1>4, <1>5, <1>6, <1>7
<1> QED  BY <1>8, <1>9, Establish

-----------------------------------------------------------------------------
(* The searches.                                                           *)

LEMMA TowardIs ==
  ASSUME NEW s \in Side  PROVE Toward(s) <=> Lt(s, arg, cur)
  BY DEF Toward, Lt, cmp, Side

LEMMA EqualIs ==
  ASSUME arg \in Node, cur \in Node, Equal  PROVE Key(arg) = Key(cur)
<1>1. ~(Key(arg) < Key(cur)) /\ ~(Key(cur) < Key(arg))
  BY DEF Equal, Toward, cmp, Side
<1> QED  BY <1>1, KeyType

(* An equal key stays below the current node.                              *)
LEMMA SearchTurn ==
  ASSUME NEW t, NEW M, NEW sub, Shape(t, M, sub), NEW a \in Node, NEW c \in M,
         NEW s \in Side, Lt(s, a, c), NEW x \in M, Key(x) = Key(a), x \in sub[c]
  PROVE  x \in sub[t.child[c][s]]
<1>1. M \subseteq Node /\ Key(a) \in Nat /\ Key(c) \in Nat /\ Key(x) \in Nat
  BY KeyType DEF Shape, Linked
<1>2. x # c /\ Lt(s, x, c)
  BY <1>1 DEF Lt
<1>3. PICK r \in Side : x \in sub[t.child[c][r]]
  BY <1>2 DEF Shape, Labelled
<1>4. Lt(r, x, c)
  BY <1>3 DEF Shape, Ordered
<1>5. r = s
  BY <1>1, <1>2, <1>4 DEF Lt, Side
<1> QED  BY <1>3, <1>5

LEMMA InsertingTurn ==
  ASSUME NEW t, NEW M, NEW sub, Shape(t, M, sub), NEW a, NEW c \in M,
         Inserting(t, M, sub, a, c), NEW s \in Side, Lt(s, a, c), t.child[c][s] # NULL
  PROVE  Inserting(t, M, sub, a, t.child[c][s])
<1> DEFINE d == t.child[c][s]
<1>1. /\ a \in Node \ M /\ d \in M /\ d # t.root /\ t.parent[d] = c
  BY ShapeFacts DEF Shape, Linked, Inserting
<1>2. \A x \in M : Key(x) = Key(a) => x \in sub[d]
  BY <1>1, SearchTurn DEF Inserting
<1>3. ASSUME NEW b \in M, NEW r \in Side, d \in sub[t.child[b][r]]  PROVE Lt(r, a, b)
  <2> DEFINE y == t.child[b][r]
  <2>1. y \in M
    BY <1>3 DEF Shape, Linked, Labelled
  <2>2. CASE y = d
    <3>1. b = c
      BY <1>1, <2>1, <2>2 DEF Shape, Linked
    <3>2. r = s
      BY <1>1, <2>2, <3>1, SideFacts, ShapeFacts DEF Shape, Linked
    <3> QED  BY <3>1, <3>2
  <2>3. CASE y # d
    <3>1. c \in sub[y]
      BY <1>1, <1>3, <2>1, <2>3 DEF Shape, Closed
    <3> QED  BY <3>1 DEF Inserting
  <2> QED  BY <2>2, <2>3
<1> QED  BY <1>1, <1>2, <1>3, NodeAssumption DEF Inserting, Shape, Linked

LEMMA InsertTurnStep ==
  ASSUME Inductive, InsertTurn
  PROVE  /\ Inductive' /\ arg \in Node \ Members
         /\ \/ pc' = "insert" /\ Members' = Members
            \/ pc' = "insert_fix" /\ Members' = Members \cup {arg}
         /\ pc = "insert" /\ arg' = arg /\ ret' = ret
<1>1. PICK sub : Shape(tree, Members, sub) /\ Phase(pc, tree, Members, sub, arg, cur, par)
  BY DEF Inductive
<1>2. PICK s \in Side :
        /\ Toward(s)
        /\ \/ tree.child[cur][s] # NULL /\ Turn(tree.child[cur][s])
           \/ /\ tree.child[cur][s] = NULL
              /\ tree' = rb_set_parent_color(SetChild(tree, cur, s, arg), arg, cur, RB_RED)
              /\ pc' = "insert_fix" /\ cur' = arg
              /\ UNCHANGED <<arg, par, ret>>
  BY DEF InsertTurn
<1>3. pc = "insert" /\ cur # NULL
  BY DEF InsertTurn
<1>4. Sound(tree, Members, NULL) /\ Inserting(tree, Members, sub, arg, cur)
  BY <1>1, <1>3, Phases
<1>5. cur \in Members /\ Lt(s, arg, cur) /\ arg \in Node \ Members
  BY <1>2, <1>3, <1>4, TowardIs DEF Inserting
<1>6. CASE tree.child[cur][s] # NULL /\ Turn(tree.child[cur][s])
  <2>1. tree' = tree /\ pc' = "insert" /\ arg' = arg /\ cur' = tree.child[cur][s] /\ ret' = ret
    BY <1>3, <1>6 DEF Turn
  <2>2. Inserting(tree, Members, sub, arg, tree.child[cur][s])
    BY <1>1, <1>4, <1>5, <1>6, InsertingTurn
  <2>3. Phase(pc', tree', Members, sub, arg', cur', par') /\ Shape(tree', Members, sub)
    BY <1>1, <1>4, <2>1, <2>2 DEF Phase
  <2> QED  BY <1>3, <1>5, <2>1, <2>3, Establish
<1>7. CASE /\ tree.child[cur][s] = NULL
           /\ tree' = rb_set_parent_color(SetChild(tree, cur, s, arg), arg, cur, RB_RED)
           /\ pc' = "insert_fix" /\ cur' = arg
           /\ UNCHANGED <<arg, par, ret>>
  <2> DEFINE N == Members \cup {arg}
  <2>1. \A b \in Members, r \in Side : cur \in sub[tree.child[b][r]] => Lt(r, arg, b)
    BY <1>4 DEF Inserting
  <2>2. PICK sub2 : Shape(tree', N, sub2)
    BY <1>1, <1>4, <1>5, <1>7, <2>1, HangStep
  <2>3. tree'.color[arg] = RB_RED /\ Sound(tree', N, arg)
    BY <1>1, <1>4, <1>5, <1>7, <2>1, HangStep
  <2>4. \A x \in Members : Key(x) # Key(arg)
    <3> SUFFICES ASSUME NEW x \in Members, Key(x) = Key(arg)  PROVE FALSE
      OBVIOUS
    <3>1. x \in sub[cur]
      BY <1>4 DEF Inserting
    <3>2. x \in sub[tree.child[cur][s]]
      BY <1>1, <1>5, <3>1, SearchTurn
    <3> QED  BY <1>1, <1>7, <3>2 DEF Shape, Labelled
  <2>5. InsertFixing(tree', N, arg, arg)
    BY <1>5, <2>3, <2>4 DEF InsertFixing
  <2>6. Phase(pc', tree', N, sub2, arg', cur', par')
    BY <1>7, <2>5 DEF Phase
  <2> QED  BY <1>3, <1>5, <1>7, <2>2, <2>6, Establish
<1> QED  BY <1>2, <1>6, <1>7

LEMMA InsertEqualStep ==
  ASSUME Inductive, InsertEqual
  PROVE  /\ Inductive' /\ arg \in Node \ Members /\ Members' = Members
         /\ cur \in Members /\ Key(cur) = Key(arg)
<1>1. PICK sub : Shape(tree, Members, sub) /\ Phase(pc, tree, Members, sub, arg, cur, par)
  BY DEF Inductive
<1>2. pc = "insert" /\ cur # NULL /\ Equal /\ tree' = tree /\ pc' = "idle"
  BY DEF InsertEqual, Return
<1>3. Sound(tree, Members, NULL) /\ Inserting(tree, Members, sub, arg, cur)
  BY <1>1, <1>2, Phases
<1>4. arg \in Node \ Members /\ cur \in Members /\ cur \in Node
  BY <1>1, <1>2, <1>3 DEF Inserting, Shape, Linked
<1>5. Key(cur) = Key(arg)
  BY <1>2, <1>4, EqualIs
<1>6. Phase(pc', tree', Members, sub, arg', cur', par') /\ Shape(tree', Members, sub)
  BY <1>1, <1>2, <1>3 DEF Phase
<1> QED  BY <1>4, <1>5, <1>6, Establish

LEMMA InsertFirstStep ==
  ASSUME Inductive, InsertFirst
  PROVE  Inductive' /\ Members' = Members
<1>1. PICK sub : Shape(tree, Members, sub) /\ Phase(pc, tree, Members, sub, arg, cur, par)
  BY DEF Inductive
<1>2. pc = "insert" /\ cur = NULL /\ tree' = tree /\ pc' = "insert_fix" /\ cur' = arg /\ arg' = arg
  BY DEF InsertFirst
<1>3. Sound(tree, Members, NULL) /\ Inserting(tree, Members, sub, arg, cur)
  BY <1>1, <1>2, Phases
<1>4. InsertFixing(tree, Members, arg, arg)
  BY <1>2, <1>3 DEF Inserting, InsertFixing
<1>5. Phase(pc', tree', Members, sub, arg', cur', par') /\ Shape(tree', Members, sub)
  BY <1>1, <1>2, <1>4 DEF Phase
<1> QED  BY <1>5, Establish

LEMMA LookupTurnStep ==
  ASSUME Inductive, LookupTurn
  PROVE  Inductive' /\ Members' = Members
<1>1. PICK sub : Shape(tree, Members, sub) /\ Phase(pc, tree, Members, sub, arg, cur, par)
  BY DEF Inductive
<1>2. PICK s \in Side : Toward(s) /\ Turn(tree.child[cur][s])
  BY DEF LookupTurn
<1>3. /\ pc = "lookup" /\ cur # NULL
      /\ tree' = tree /\ pc' = pc /\ arg' = arg /\ cur' = tree.child[cur][s]
  BY <1>2 DEF LookupTurn, Turn
<1>4. Sound(tree, Members, NULL) /\ LookingUp(Members, sub, arg, cur)
  BY <1>1, <1>3, Phases
<1>5. cur \in Members /\ arg \in Node /\ Lt(s, arg, cur)
  BY <1>2, <1>3, <1>4, TowardIs DEF LookingUp
<1>6. tree.child[cur][s] \in Members \cup {NULL}
  BY <1>1, <1>5 DEF Shape, Linked
<1>7. \A x \in Members : Key(x) = Key(arg) => x \in sub[tree.child[cur][s]]
  BY <1>1, <1>4, <1>5, SearchTurn DEF LookingUp
<1>8. LookingUp(Members, sub, arg, tree.child[cur][s])
  BY <1>5, <1>6, <1>7 DEF LookingUp
<1>9. Phase(pc', tree', Members, sub, arg', cur', par') /\ Shape(tree', Members, sub)
  BY <1>1, <1>3, <1>4, <1>8 DEF Phase
<1> QED  BY <1>9, Establish

LEMMA LookupEndStep ==
  ASSUME Inductive, LookupEnd
  PROVE  /\ Inductive' /\ Members' = Members
         /\ cur = NULL => \A x \in Members : Key(x) # Key(arg)
         /\ cur # NULL => cur \in Members /\ Key(cur) = Key(arg)
<1>1. PICK sub : Shape(tree, Members, sub) /\ Phase(pc, tree, Members, sub, arg, cur, par)
  BY DEF Inductive
<1>2. pc = "lookup" /\ (cur # NULL => Equal) /\ tree' = tree /\ pc' = "idle"
  BY DEF LookupEnd, Return
<1>3. Sound(tree, Members, NULL) /\ LookingUp(Members, sub, arg, cur)
  BY <1>1, <1>2, Phases
<1>4. cur = NULL => \A x \in Members : Key(x) # Key(arg)
  BY <1>1, <1>3 DEF LookingUp, Shape, Labelled
<1>5. cur # NULL => cur \in Members /\ Key(cur) = Key(arg)
  BY <1>1, <1>2, <1>3, EqualIs DEF LookingUp, Shape, Linked
<1>6. Phase(pc', tree', Members, sub, arg', cur', par') /\ Shape(tree', Members, sub)
  BY <1>1, <1>2, <1>3 DEF Phase
<1> QED  BY <1>4, <1>5, <1>6, Establish

(* One step to the left: the node there is less than what it leaves.       *)
LEMMA LeftTurn ==
  ASSUME NEW t, NEW M, NEW sub, Shape(t, M, sub), NEW c \in M,
         t.child[c]["rb_left"] # NULL, NEW x \in M, x \in sub[c] \/ Key(c) < Key(x)
  PROVE  LET l == t.child[c]["rb_left"] IN x \in sub[l] \/ Key(l) < Key(x)
<1> DEFINE l == t.child[c]["rb_left"]
<1>1. "rb_left" \in Side /\ \A r \in Side : r = "rb_left" \/ r = "rb_right"
  BY DEF Side
<1>2. l \in M /\ Lt("rb_left", l, c) /\ M \subseteq Node
  BY <1>1, ShapeFacts DEF Shape, Linked
<1>3. Key(l) \in Nat /\ Key(c) \in Nat /\ Key(x) \in Nat /\ Key(l) < Key(c)
  BY <1>2, KeyType DEF Lt
<1>4. CASE x \in sub[c] /\ x # c
  <2>1. PICK r \in Side : x \in sub[t.child[c][r]]
    BY <1>4 DEF Shape, Labelled
  <2>2. Lt(r, x, c)
    BY <2>1 DEF Shape, Ordered
  <2>3. r = "rb_right" => Key(c) < Key(x)
    BY <2>2 DEF Lt
  <2> QED  BY <1>1, <1>3, <2>1, <2>3
<1> QED  BY <1>3, <1>4

LEMMA FirstTurnStep ==
  ASSUME Inductive, FirstTurn
  PROVE  Inductive' /\ Members' = Members
<1> DEFINE l == tree.child[cur]["rb_left"]
<1>1. PICK sub : Shape(tree, Members, sub) /\ Phase(pc, tree, Members, sub, arg, cur, par)
  BY DEF Inductive
<1>2. /\ pc = "first" /\ cur # NULL /\ l # NULL
      /\ tree' = tree /\ pc' = pc /\ cur' = l
  BY DEF FirstTurn, Turn
<1>3. Sound(tree, Members, NULL) /\ Descending(Members, sub, cur)
  BY <1>1, <1>2, Phases
<1>4. cur \in Members
  BY <1>2, <1>3 DEF Descending
<1>5. l \in Members
  BY <1>1, <1>2, <1>4, SideFacts DEF Shape, Linked
<1>6. \A x \in Members : x \in sub[l] \/ Key(l) < Key(x)
  BY <1>1, <1>2, <1>3, <1>4, LeftTurn DEF Descending
<1>7. Descending(Members, sub, l)
  BY <1>2, <1>5, <1>6 DEF Descending
<1>8. Phase(pc', tree', Members, sub, arg', cur', par') /\ Shape(tree', Members, sub)
  BY <1>1, <1>2, <1>3, <1>7 DEF Phase
<1> QED  BY <1>8, Establish

LEMMA FirstEndStep ==
  ASSUME Inductive, FirstEnd
  PROVE  /\ Inductive' /\ Members' = Members
         /\ cur = NULL => Members = {}
         /\ cur # NULL => cur \in Members /\ \A x \in Members : Key(cur) <= Key(x)
<1>1. PICK sub : Shape(tree, Members, sub) /\ Phase(pc, tree, Members, sub, arg, cur, par)
  BY DEF Inductive
<1>2. /\ pc = "first" /\ (cur # NULL => tree.child[cur]["rb_left"] = NULL)
      /\ tree' = tree /\ pc' = "idle"
  BY DEF FirstEnd, Return
<1>3. Sound(tree, Members, NULL) /\ Descending(Members, sub, cur)
  BY <1>1, <1>2, Phases
<1>4. cur = NULL => Members = {}
  BY <1>3 DEF Descending
<1>5. ASSUME cur # NULL, NEW x \in Members  PROVE Key(cur) <= Key(x)
  <2>1. /\ cur \in Members /\ (x \in sub[cur] \/ Key(cur) < Key(x)) /\ Members \subseteq Node
    BY <1>1, <1>3, <1>5 DEF Descending, Shape, Linked
  <2>2. Key(cur) \in Nat /\ Key(x) \in Nat
    BY <2>1, KeyType
  <2>3. CASE x \in sub[cur] /\ x # cur
    <3>1. PICK r \in Side : x \in sub[tree.child[cur][r]]
      BY <1>1, <2>1, <2>3 DEF Shape, Labelled
    <3>2. r = "rb_right"
      BY <1>1, <1>2, <1>5, <3>1 DEF Shape, Labelled, Side
    <3>3. Lt(r, x, cur)
      BY <1>1, <2>1, <3>1 DEF Shape, Ordered
    <3> QED  BY <2>2, <3>2, <3>3 DEF Lt
  <2> QED  BY <2>1, <2>2, <2>3
<1>6. cur # NULL => cur \in Members
  BY <1>3 DEF Descending
<1>7. Phase(pc', tree', Members, sub, arg', cur', par') /\ Shape(tree', Members, sub)
  BY <1>1, <1>2, <1>3 DEF Phase
<1> QED  BY <1>4, <1>5, <1>6, <1>7, Establish

LEMMA SuccessorTurnStep ==
  ASSUME Inductive, SuccessorTurn
  PROVE  Inductive' /\ Members' = Members
<1> DEFINE l == tree.child[cur]["rb_left"]
           R == tree.child[arg]["rb_right"]
<1>1. PICK sub : Shape(tree, Members, sub) /\ Phase(pc, tree, Members, sub, arg, cur, par)
  BY DEF Inductive
<1>2. /\ pc = "erase" /\ cur # NULL /\ l # NULL /\ tree.child[arg]["rb_left"] # NULL
      /\ tree' = tree /\ pc' = pc /\ cur' = l /\ arg' = arg
  BY DEF SuccessorTurn, Turn
<1>3. Sound(tree, Members, NULL) /\ Erasing(tree, Members, sub, arg, cur)
  BY <1>1, <1>2, Phases
<1>4. R # NULL /\ Follows(tree, Members, sub, arg, cur) /\ arg \in Members
  BY <1>2, <1>3 DEF Erasing
<1>5. /\ cur \in sub[R] /\ \A x \in sub[R] : x \in sub[cur] \/ Key(cur) < Key(x)
      /\ \A y \in Members : arg \in sub[y] => cur \in sub[y]
  BY <1>4 DEF Follows
<1>6. R \in Members /\ sub[R] \subseteq Members
  BY <1>1, <1>4, SideFacts, ShapeFacts DEF Shape, Linked
<1>7. l \in Members /\ l # tree.root /\ tree.parent[l] = cur /\ cur \in Members
  BY <1>1, <1>2, <1>5, <1>6, SideFacts, ShapeFacts DEF Shape, Linked
<1>8. \A y \in Members : cur \in sub[y] => l \in sub[y]
  BY <1>1, <1>7, ShapeFacts DEF Shape, Closed
<1>9. \A x \in sub[R] : x \in sub[l] \/ Key(l) < Key(x)
  BY <1>1, <1>2, <1>5, <1>6, <1>7, LeftTurn
<1>10. Follows(tree, Members, sub, arg, l)
  BY <1>4, <1>5, <1>6, <1>8, <1>9 DEF Follows
<1>11. Erasing(tree, Members, sub, arg, l)
  BY <1>2, <1>4, <1>10 DEF Erasing
<1>12. Phase(pc', tree', Members, sub, arg', cur', par') /\ Shape(tree', Members, sub)
  BY <1>1, <1>2, <1>3, <1>11 DEF Phase
<1> QED  BY <1>12, Establish

-----------------------------------------------------------------------------
(* The steps that change the tree.                                         *)

LEMMA FixRootIs ==
  ASSUME Inductive, FixRoot
  PROVE  /\ Inductive' /\ Members' = (Members \ {arg}) \cup {arg}
         /\ arg \in Node /\ \A x \in Members \ {arg} : Key(x) # Key(arg)
<1>1. PICK sub : Shape(tree, Members, sub) /\ Phase(pc, tree, Members, sub, arg, cur, par)
  BY DEF Inductive
<1>2. /\ pc = "insert_fix" /\ tree.parent[cur] = NULL /\ pc' = "idle"
      /\ tree' = [rb_set_parent_color(tree, cur, NULL, RB_BLACK) EXCEPT !.root = cur]
  BY DEF FixRoot, Return
<1>3. InsertFixing(tree, Members, arg, cur)
  BY <1>1, <1>2, Phases
<1>4. arg \in Node /\ \A x \in Members \ {arg} : Key(x) # Key(arg)
  BY <1>3 DEF InsertFixing
<1>5. CASE Members = {} /\ cur = arg /\ Sound(tree, Members, NULL)
  <2>1. (\E sub2 : Shape(tree', {cur}, sub2)) /\ Sound(tree', {cur}, NULL)
    BY <1>1, <1>2, <1>4, <1>5, FirstNodeStep
  <2>2. PICK sub2 : Shape(tree', {cur}, sub2)
    BY <2>1
  <2>3. Phase(pc', tree', {cur}, sub2, arg', cur', par')
    BY <1>2, <2>1 DEF Phase
  <2>4. Inductive' /\ Members' = {cur}
    BY <2>2, <2>3, Establish
  <2> QED  BY <1>4, <1>5, <2>4
<1>6. CASE arg \in Members /\ cur \in Members /\ tree.color[cur] = RB_RED /\ Sound(tree, Members, cur)
  <2>1. Shape(tree', Members, sub) /\ Sound(tree', Members, NULL)
    BY <1>1, <1>2, <1>6, FixRootStep
  <2>2. Phase(pc', tree', Members, sub, arg', cur', par')
    BY <1>2, <2>1 DEF Phase
  <2>3. Inductive' /\ Members' = Members
    BY <2>1, <2>2, Establish
  <2> QED  BY <1>4, <1>6, <2>3
<1> QED  BY <1>3, <1>5, <1>6 DEF InsertFixing

(* With a parent, the current node is in the tree.                         *)
LEMMA FixInside ==
  ASSUME NEW t, NEW M, NEW sub, Shape(t, M, sub), NEW a, NEW c, InsertFixing(t, M, a, c),
         t.parent[c] # NULL
  PROVE  /\ a \in M /\ c \in M /\ t.color[c] = RB_RED /\ Sound(t, M, c)
         /\ a \in Node /\ \A x \in M \ {a} : Key(x) # Key(a)
  BY DEF InsertFixing, Shape, Linked

LEMMA FixBlackParentIs ==
  ASSUME Inductive, FixBlackParent
  PROVE  /\ Inductive' /\ Members' = (Members \ {arg}) \cup {arg}
         /\ arg \in Node /\ \A x \in Members \ {arg} : Key(x) # Key(arg)
<1>1. PICK sub : Shape(tree, Members, sub) /\ Phase(pc, tree, Members, sub, arg, cur, par)
  BY DEF Inductive
<1>2. /\ pc = "insert_fix" /\ tree.parent[cur] # NULL /\ pc' = "idle" /\ tree' = tree
      /\ ~IsRed(tree, tree.parent[cur])
  BY DEF FixBlackParent, Return
<1>3. /\ arg \in Members /\ cur \in Members /\ Sound(tree, Members, cur)
      /\ arg \in Node /\ \A x \in Members \ {arg} : Key(x) # Key(arg)
  BY <1>1, <1>2, Phases, FixInside
<1>4. Sound(tree, Members, NULL)
  BY <1>1, <1>2, <1>3, BlackParentStep
<1>5. Phase(pc', tree', Members, sub, arg', cur', par') /\ Shape(tree', Members, sub)
  BY <1>1, <1>2, <1>4 DEF Phase
<1>6. Inductive' /\ Members' = Members
  BY <1>5, Establish
<1> QED  BY <1>3, <1>6

LEMMA FixRedUncleIs ==
  ASSUME Inductive, FixRedUncle
  PROVE  Inductive' /\ Members' = Members
<1> DEFINE p == tree.parent[cur]
           g == tree.parent[p]
           n == tree.child[g][Other(SideOf(tree, g, p))]
<1>1. PICK sub : Shape(tree, Members, sub) /\ Phase(pc, tree, Members, sub, arg, cur, par)
  BY DEF Inductive
<1>2. /\ pc = "insert_fix" /\ p # NULL /\ IsRed(tree, p) /\ IsRed(tree, n)
      /\ tree' = Recoloured(tree, p, n, g) /\ cur' = g /\ pc' = pc /\ arg' = arg
  BY DEF FixRedUncle
<1>3. /\ arg \in Members /\ cur \in Members /\ Sound(tree, Members, cur)
      /\ arg \in Node /\ \A x \in Members \ {arg} : Key(x) # Key(arg)
  BY <1>1, <1>2, Phases, FixInside
<1>4. /\ Shape(tree', Members, sub) /\ g \in Members
      /\ tree'.color[g] = RB_RED /\ Sound(tree', Members, g)
  BY <1>1, <1>2, <1>3, RedUncleStep, Zenon
<1> HIDE DEF p, g, n
<1>5. InsertFixing(tree', Members, arg, g)
  BY <1>3, <1>4 DEF InsertFixing
<1>6. Phase(pc', tree', Members, sub, arg', cur', par')
  BY <1>2, <1>5 DEF Phase
<1> QED  BY <1>4, <1>6, Establish

LEMMA FixBlackUncleIs ==
  ASSUME Inductive, FixBlackUncle
  PROVE  /\ Inductive' /\ Members' = (Members \ {arg}) \cup {arg}
         /\ arg \in Node /\ \A x \in Members \ {arg} : Key(x) # Key(arg)
<1>1. PICK sub : Shape(tree, Members, sub) /\ Phase(pc, tree, Members, sub, arg, cur, par)
  BY DEF Inductive
<1>2. pc = "insert_fix" /\ tree.parent[cur] # NULL /\ IsRed(tree, tree.parent[cur]) /\ pc' = "idle"
  BY DEF FixBlackUncle, Return
<1>3. /\ arg \in Members /\ cur \in Members /\ tree.color[cur] = RB_RED
      /\ Sound(tree, Members, cur)
      /\ arg \in Node /\ \A x \in Members \ {arg} : Key(x) # Key(arg)
  BY <1>1, <1>2, Phases, FixInside
<1>4. \E sub2 : Shape(tree', Members, sub2) /\ Sound(tree', Members, NULL)
  BY <1>1, <1>2, <1>3, BlackUncleStep, Zenon DEF FixBlackUncle
<1>5. PICK sub2 : Shape(tree', Members, sub2) /\ Sound(tree', Members, NULL)
  BY <1>4
<1>6. Phase(pc', tree', Members, sub2, arg', cur', par')
  BY <1>2, <1>5 DEF Phase
<1>7. Inductive' /\ Members' = Members
  BY <1>5, <1>6, Establish
<1> QED  BY <1>3, <1>7

(* A removal goes on to __rb_erase_fix or returns.                         *)
LEMMA RebalanceIs ==
  ASSUME NEW N, NEW sub2, Shape(tree', N, sub2), NEW gone, NEW child, NEW parent,
         Rebalance(gone, child, parent), pc = "erase",
         child # NULL \/ IsRed(tree, gone) \/ parent = NULL => Sound(tree', N, NULL),
         ~(child # NULL \/ IsRed(tree, gone) \/ parent = NULL)
           => EraseFixing(tree', N, arg, NULL, parent)
  PROVE  /\ Inductive' /\ Members' = N
         /\ \/ pc' = "idle" /\ ret' = NULL /\ arg' = NULL
            \/ pc' = "erase_fix" /\ arg' = arg /\ ret' = ret
<1>1. CASE child # NULL \/ IsRed(tree, gone) \/ parent = NULL
  <2>1. Return(NULL)
    BY <1>1 DEF Rebalance
  <2>2. pc' = "idle" /\ ret' = NULL /\ arg' = NULL
    BY <2>1 DEF Return
  <2>3. Phase(pc', tree', N, sub2, arg', cur', par')
    BY <1>1, <2>2 DEF Phase
  <2> QED  BY <2>2, <2>3, Establish
<1>2. CASE ~(child # NULL \/ IsRed(tree, gone) \/ parent = NULL)
  <2>1. pc' = "erase_fix" /\ par' = parent /\ cur' = NULL /\ UNCHANGED <<arg, ret>>
    BY <1>2 DEF Rebalance
  <2>2. Phase(pc', tree', N, sub2, arg', cur', par')
    BY <1>2, <2>1 DEF Phase
  <2> QED  BY <2>1, <2>2, Establish
<1> QED  BY <1>1, <1>2

LEMMA EraseSingleIs ==
  ASSUME Inductive, EraseSingle
  PROVE  /\ Inductive' /\ Members' = Members \ {arg} /\ arg \in Members
         /\ \/ pc' = "idle" /\ ret' = NULL /\ arg' = NULL
            \/ pc' = "erase_fix" /\ arg' = arg /\ ret' = ret
<1> DEFINE left == tree.child[arg]["rb_left"]
           child == IF left = NULL THEN cur ELSE left
<1>1. PICK sub : Shape(tree, Members, sub) /\ Phase(pc, tree, Members, sub, arg, cur, par)
  BY DEF Inductive
<1>2. /\ pc = "erase" /\ NULL \in {left, cur}
      /\ tree' = Blank(Replace(tree, arg, child), arg)
      /\ Rebalance(arg, child, tree.parent[arg])
  BY DEF EraseSingle
<1>3. Sound(tree, Members, NULL) /\ Erasing(tree, Members, sub, arg, cur)
  BY <1>1, <1>2, Phases
<1>4. /\ arg \in Members /\ NULL \notin Members
      /\ left = NULL => cur = tree.child[arg]["rb_right"]
      /\ tree.child[arg]["rb_right"] # NULL => Follows(tree, Members, sub, arg, cur)
  BY <1>1, <1>3, ShapeFacts DEF Erasing
<1>5. cur = NULL => tree.child[arg]["rb_right"] = NULL
  <2> SUFFICES ASSUME tree.child[arg]["rb_right"] # NULL  PROVE cur # NULL
    OBVIOUS
  <2>1. cur \in sub[tree.child[arg]["rb_right"]]
    BY <1>4 DEF Follows
  <2>2. cur \in Members
    BY <1>1, <1>4, <2>1, SideFacts, ShapeFacts
  <2> QED  BY <1>4, <2>2
<1>6. \E q \in Side : child = tree.child[arg][q] /\ tree.child[arg][Other(q)] = NULL
  <2>1. CASE left = NULL
    BY <1>4, <2>1, SideFacts
  <2>2. CASE left # NULL
    BY <1>2, <1>5, <2>2, SideFacts
  <2> QED  BY <2>1, <2>2
<1> HIDE DEF child
<1>7. PICK q \in Side : child = tree.child[arg][q] /\ tree.child[arg][Other(q)] = NULL
  BY <1>6
<1>8. /\ \E sub2 : Shape(tree', Members \ {arg}, sub2)
      /\ child # NULL \/ IsRed(tree, arg) \/ tree.parent[arg] = NULL
           => Sound(tree', Members \ {arg}, NULL)
      /\ ~(child # NULL \/ IsRed(tree, arg) \/ tree.parent[arg] = NULL)
           => EraseFixing(tree', Members \ {arg}, arg, NULL, tree.parent[arg])
  BY <1>1, <1>2, <1>3, <1>4, <1>7, EraseSingleStep
<1>9. PICK sub2 : Shape(tree', Members \ {arg}, sub2)
  BY <1>8
<1> QED  BY <1>2, <1>4, <1>8, <1>9, RebalanceIs

LEMMA EraseSuccessorIs ==
  ASSUME Inductive, EraseSuccessor
  PROVE  /\ Inductive' /\ Members' = Members \ {arg} /\ arg \in Members
         /\ \/ pc' = "idle" /\ ret' = NULL /\ arg' = NULL
            \/ pc' = "erase_fix" /\ arg' = arg /\ ret' = ret
<1> DEFINE left == tree.child[arg]["rb_left"]
           right == tree.child[arg]["rb_right"]
           child2 == tree.child[cur]["rb_right"]
           below == IF cur = right THEN cur ELSE tree.parent[cur]
<1>1. PICK sub : Shape(tree, Members, sub) /\ Phase(pc, tree, Members, sub, arg, cur, par)
  BY DEF Inductive
<1>2. /\ pc = "erase" /\ left # NULL /\ cur # NULL /\ tree.child[cur]["rb_left"] = NULL
      /\ Rebalance(cur, child2, below)
  BY DEF EraseSuccessor
<1>3. Succeeded(tree, tree', arg, cur, below)
  BY DEF EraseSuccessor, Succeeded
<1>4. Sound(tree, Members, NULL) /\ Erasing(tree, Members, sub, arg, cur)
  BY <1>1, <1>2, Phases
<1>5. arg \in Members /\ Follows(tree, Members, sub, arg, cur)
  BY <1>2, <1>4 DEF Erasing
<1>6. /\ \E sub2 : Shape(tree', Members \ {arg}, sub2)
      /\ child2 # NULL \/ IsRed(tree, cur) \/ below = NULL
           => Sound(tree', Members \ {arg}, NULL)
      /\ ~(child2 # NULL \/ IsRed(tree, cur) \/ below = NULL)
           => EraseFixing(tree', Members \ {arg}, arg, NULL, below)
  <2>1. below = IF cur = tree.child[arg]["rb_right"] THEN cur ELSE tree.parent[cur]
    OBVIOUS
  <2>2. Shape(tree, Members, sub) /\ tree.child[cur]["rb_left"] = NULL
        /\ tree.child[arg]["rb_left"] # NULL
    BY <1>1, <1>2
  <2> HIDE DEF below
  <2>3. Heir(tree, Members, arg, cur, below)
    BY <1>5, <2>1, <2>2, HeirFacts
  <2> QED  BY <1>3, <1>4, <1>5, <2>2, <2>3, EraseSuccessorStep
<1>7. PICK sub2 : Shape(tree', Members \ {arg}, sub2)
  BY <1>6
<1> HIDE DEF below, child2
<1> QED  BY <1>2, <1>5, <1>6, <1>7, RebalanceIs

LEMMA FixRedSiblingIs ==
  ASSUME Inductive, FixRedSibling
  PROVE  Inductive' /\ Members' = Members
<1>1. PICK sub : Shape(tree, Members, sub) /\ Phase(pc, tree, Members, sub, arg, cur, par)
  BY DEF Inductive
<1>2. /\ pc = "erase_fix" /\ pc' = pc /\ arg' = arg /\ cur' = cur /\ par' = par
      /\ IsRed(tree, tree.child[par][Other(SideOf(tree, par, cur))])
  BY DEF FixRedSibling
<1>3. EraseFixing(tree, Members, arg, cur, par)
  BY <1>1, <1>2, Phases
<1>4. \E sub2 : Shape(tree', Members, sub2) /\ EraseFixing(tree', Members, arg, cur, par)
  BY <1>1, <1>2, <1>3, RedSiblingFix DEF FixRedSibling
<1>5. PICK sub2 : Shape(tree', Members, sub2) /\ EraseFixing(tree', Members, arg, cur, par)
  BY <1>4
<1>6. Phase(pc', tree', Members, sub2, arg', cur', par')
  BY <1>2, <1>5 DEF Phase
<1> QED  BY <1>5, <1>6, Establish

LEMMA FixBlackNephewsIs ==
  ASSUME Inductive, FixBlackNephews
  PROVE  /\ Inductive' /\ Members' = Members /\ arg \in Node \ Members
         /\ \/ pc' = "idle" /\ ret' = NULL /\ arg' = NULL
            \/ pc' = "erase_fix" /\ arg' = arg /\ ret' = ret
<1> DEFINE n == tree.child[par][Other(SideOf(tree, par, cur))]
           t2 == rb_set_parent_color(tree, n, par, RB_RED)
           up == tree.parent[par]
<1>1. PICK sub : Shape(tree, Members, sub) /\ Phase(pc, tree, Members, sub, arg, cur, par)
  BY DEF Inductive
<1>2. /\ pc = "erase_fix" /\ ~IsRed(tree, n) /\ \A r \in Side : ~IsRed(tree, tree.child[n][r])
      /\ \/ /\ IsRed(tree, par)
            /\ tree' = [t2 EXCEPT !.color[par] = RB_BLACK]
            /\ Return(NULL)
         \/ ~IsRed(tree, par) /\ up = NULL /\ tree' = t2 /\ Return(NULL)
         \/ /\ ~IsRed(tree, par) /\ up # NULL
            /\ tree' = t2 /\ cur' = par /\ par' = up
            /\ UNCHANGED <<pc, arg, ret>>
  BY DEF FixBlackNephews
<1>3. EraseFixing(tree, Members, arg, cur, par)
  BY <1>1, <1>2, Phases
<1>4. arg \in Node \ Members
  BY <1>3 DEF EraseFixing
<1>5. /\ IsRed(tree, par) => LET u == [t2 EXCEPT !.color[par] = RB_BLACK]
                             IN  Shape(u, Members, sub) /\ Sound(u, Members, NULL)
      /\ Shape(t2, Members, sub)
      /\ ~IsRed(tree, par) /\ up = NULL => Sound(t2, Members, NULL)
      /\ ~IsRed(tree, par) /\ up # NULL => EraseFixing(t2, Members, arg, par, up)
  BY <1>1, <1>2, <1>3, BlackNephewsFix
<1> HIDE DEF n, t2, up
<1>6. CASE Return(NULL)
  <2>1. pc' = "idle" /\ ret' = NULL /\ arg' = NULL
    BY <1>6 DEF Return
  <2>2. Shape(tree', Members, sub) /\ Sound(tree', Members, NULL)
    BY <1>2, <1>5, <2>1
  <2>3. Phase(pc', tree', Members, sub, arg', cur', par')
    BY <2>1, <2>2 DEF Phase
  <2> QED  BY <1>4, <2>1, <2>2, <2>3, Establish
<1>7. CASE /\ ~IsRed(tree, par) /\ up # NULL
           /\ tree' = t2 /\ cur' = par /\ par' = up
           /\ UNCHANGED <<pc, arg, ret>>
  <2>1. Shape(tree', Members, sub) /\ EraseFixing(tree', Members, arg', cur', par')
    BY <1>5, <1>7
  <2>2. Phase(pc', tree', Members, sub, arg', cur', par')
    BY <1>2, <1>7, <2>1 DEF Phase
  <2> QED  BY <1>2, <1>4, <1>7, <2>1, <2>2, Establish
<1> QED  BY <1>2, <1>6, <1>7

LEMMA FixRedNephewIs ==
  ASSUME Inductive, FixRedNephew
  PROVE  Inductive' /\ Members' = Members /\ arg \in Node \ Members
<1>1. PICK sub : Shape(tree, Members, sub) /\ Phase(pc, tree, Members, sub, arg, cur, par)
  BY DEF Inductive
<1>2. pc = "erase_fix" /\ pc' = "idle"
  BY Zenon DEF FixRedNephew, Return
<1>3. EraseFixing(tree, Members, arg, cur, par)
  BY <1>1, <1>2, Phases
<1>4. arg \in Node \ Members
  BY <1>3 DEF EraseFixing
<1>5. \E sub2 : Shape(tree', Members, sub2) /\ Sound(tree', Members, NULL)
  BY <1>1, <1>3, RedNephewFix, Zenon DEF FixRedNephew
<1>6. PICK sub2 : Shape(tree', Members, sub2) /\ Sound(tree', Members, NULL)
  BY <1>5
<1>7. Phase(pc', tree', Members, sub2, arg', cur', par')
  BY <1>2, <1>6 DEF Phase
<1> QED  BY <1>4, <1>6, <1>7, Establish

LEMMA NextInductive == Inductive /\ [Next]_vars => Inductive'
<1> SUFFICES ASSUME Inductive, [Next]_vars  PROVE Inductive'
  OBVIOUS
<1>1. CASE \/ \E n \in Node : _rb_insert(n) \/ _rb_erase(n) \/ _rb_lookup(n)
           \/ _rb_first
  BY <1>1, CallStep
<1>2. CASE InsertTurn
  BY <1>2, InsertTurnStep
<1>3. CASE InsertEqual
  BY <1>3, InsertEqualStep
<1>4. CASE InsertFirst
  BY <1>4, InsertFirstStep
<1>5. CASE FixRoot
  BY <1>5, FixRootIs
<1>6. CASE FixBlackParent
  BY <1>6, FixBlackParentIs
<1>7. CASE FixRedUncle
  BY <1>7, FixRedUncleIs
<1>8. CASE FixBlackUncle
  BY <1>8, FixBlackUncleIs
<1>9. CASE EraseSingle
  BY <1>9, EraseSingleIs
<1>10. CASE SuccessorTurn
  BY <1>10, SuccessorTurnStep
<1>11. CASE EraseSuccessor
  BY <1>11, EraseSuccessorIs
<1>12. CASE FixRedSibling
  BY <1>12, FixRedSiblingIs
<1>13. CASE FixBlackNephews
  BY <1>13, FixBlackNephewsIs
<1>14. CASE FixRedNephew
  BY <1>14, FixRedNephewIs
<1>15. CASE LookupTurn
  BY <1>15, LookupTurnStep
<1>16. CASE LookupEnd
  BY <1>16, LookupEndStep
<1>17. CASE FirstTurn
  BY <1>17, FirstTurnStep
<1>18. CASE FirstEnd
  BY <1>18, FirstEndStep
<1>19. CASE UNCHANGED vars
  BY <1>19 DEF vars, Inductive, Members
<1> QED
  BY <1>1, <1>2, <1>3, <1>4, <1>5, <1>6, <1>7, <1>8, <1>9, <1>10, <1>11, <1>12, <1>13, <1>14,
     <1>15, <1>16, <1>17, <1>18, <1>19 DEF Next

(* The tree is, in every state of every call, a search tree of its members *)
(* with all links both ways, painted as a red-black tree but for the one   *)
(* node or the one place the running loop of rbtree.c is about to repair.  *)
THEOREM SpecInductive == Spec => []Inductive
  BY InitInductive, NextInductive, PTL DEF Spec

-----------------------------------------------------------------------------
(* The definition of BlackHeight is that of a function, which there is     *)
(* when the labels h are those of the tree.                                *)
LEMMA BlackHeightIs ==
  ASSUME NEW M, Linked(tree, M), tree \in Tree, NEW h, NEW q, Heights(tree, M, h, NULL, q)
  PROVE  /\ BlackHeight[NULL] = 0
         /\ \A n \in M : BlackHeight[n] = tree.color[n] + BlackHeight[tree.child[n]["rb_left"]]
<1> DEFINE Body(f) == [n \in Link |-> IF n = NULL THEN 0
                                      ELSE tree.color[n] + f[tree.child[n]["rb_left"]]]
           f0 == [n \in Link |-> IF n \in M THEN h[n]
                                 ELSE IF n = NULL THEN 0 ELSE tree.color[n] + 0]
<1>1. /\ NULL \notin Node /\ M \subseteq Node /\ NULL \in Link /\ NULL \notin M
      /\ "rb_left" \in Side /\ h[NULL] = 0
  BY NodeAssumption, SideFacts DEF Link, Linked, Heights
<1>2. ASSUME NEW n \in Link
      PROVE  f0[n] = IF n = NULL THEN 0 ELSE tree.color[n] + f0[tree.child[n]["rb_left"]]
  <2>1. CASE n \in M
    <3> DEFINE l == tree.child[n]["rb_left"]
    <3>1. l \in M \cup {NULL}
      BY <1>1, <2>1 DEF Linked
    <3>2. f0[l] = h[l] /\ f0[n] = h[n]
      BY <1>1, <2>1, <3>1 DEF Link
    <3>3. h[n] = tree.color[n] + h[l]
      <4>1. h[n] = tree.color[n] + h[l] + (IF n = NULL /\ "rb_left" = q THEN 1 ELSE 0)
        BY <1>1, <2>1 DEF Heights
      <4>2. tree.color[n] \in {0, 1} /\ h[l] \in Nat
        BY <1>1, <2>1, <3>1 DEF Tree, RB_RED, RB_BLACK, Heights, Link
      <4> QED  BY <1>1, <2>1, <4>1, <4>2
    <3> QED  BY <1>1, <2>1, <3>2, <3>3
  <2>2. CASE n = NULL
    BY <1>1, <2>2
  <2>3. CASE n \notin M /\ n # NULL
    <3>1. n \in Node /\ tree.child[n]["rb_left"] = NULL
      BY <1>1, <2>3 DEF Link, Linked
    <3>2. f0[NULL] = 0 /\ f0[n] = tree.color[n] + 0
      BY <1>1, <2>3
    <3> QED  BY <2>3, <3>1, <3>2
  <2> QED  BY <2>1, <2>2, <2>3
<1>3. f0 = Body(f0)
  BY <1>2
<1>4. BlackHeight = CHOOSE f : f = Body(f)
  BY DEF BlackHeight
<1> HIDE DEF f0, Body
<1>5. BlackHeight = Body(BlackHeight)
  BY <1>3, <1>4
<1>6. ASSUME NEW n \in Link
      PROVE  BlackHeight[n] = IF n = NULL THEN 0
                              ELSE tree.color[n] + BlackHeight[tree.child[n]["rb_left"]]
  <2>1. BlackHeight[n] = Body(BlackHeight)[n]
    BY <1>5
  <2> HIDE DEF BlackHeight
  <2> QED  BY <2>1 DEF Body
<1> QED  BY <1>1, <1>6 DEF Link

(* A count down the left children is the label, else there would be a node *)
(* with the least key where it is not.                                     *)
LEMMA BlackHeightLabel ==
  ASSUME NEW M, NEW sub, Shape(tree, M, sub), NEW h, NEW q, Heights(tree, M, h, NULL, q)
  PROVE  \A n \in M \cup {NULL} : BlackHeight[n] = h[n]
<1> DEFINE C == {n \in M : BlackHeight[n] # h[n]}
<1>1. /\ NULL \notin M /\ M \subseteq Node /\ "rb_left" \in Side /\ h[NULL] = 0
      /\ Linked(tree, M) /\ tree \in Tree
  BY NodeAssumption, SideFacts DEF Shape, Linked, Heights
<1>2. /\ BlackHeight[NULL] = 0
      /\ \A n \in M : BlackHeight[n] = tree.color[n] + BlackHeight[tree.child[n]["rb_left"]]
  BY <1>1, BlackHeightIs
<1>3. C = {}
  <2> SUFFICES ASSUME C # {}  PROVE FALSE
    OBVIOUS
  <2>1. PICK n \in C : \A y \in C : Key(n) <= Key(y)
    <3>1. C \subseteq Node
      BY <1>1
    <3> HIDE DEF C
    <3> QED  BY <3>1, ExtremeKeys
  <2> DEFINE l == tree.child[n]["rb_left"]
  <2>2. n \in M /\ l \in M \cup {NULL}
    BY <1>1, <2>1 DEF Linked
  <2>3. h[n] = tree.color[n] + h[l]
    <3>1. h[n] = tree.color[n] + h[l] + (IF n = NULL /\ "rb_left" = q THEN 1 ELSE 0)
      BY <1>1, <2>2 DEF Heights
    <3>2. tree.color[n] \in {0, 1} /\ h[l] \in Nat
      BY <1>1, <2>2 DEF Tree, RB_RED, RB_BLACK, Heights, Link
    <3> QED  BY <1>1, <2>2, <3>1, <3>2
  <2>4. BlackHeight[l] # h[l]
    BY <1>2, <2>1, <2>2, <2>3
  <2>5. l \in C
    BY <1>1, <1>2, <2>2, <2>4
  <2>6. Key(l) < Key(n) /\ Key(l) \in Nat /\ Key(n) \in Nat
    BY <1>1, <2>2, <2>5, ShapeFacts, KeyType DEF Lt
  <2> QED  BY <2>1, <2>5, <2>6
<1> QED  BY <1>1, <1>2, <1>3

LEMMA InductiveRedBlack == Inductive => RedBlack
<1> SUFFICES ASSUME Inductive  PROVE RedBlack
  OBVIOUS
<1>1. PICK sub : Shape(tree, Members, sub) /\ Phase(pc, tree, Members, sub, arg, cur, par)
  BY DEF Inductive
<1>2. tree \in Tree /\ Linked(tree, Members)
  BY <1>1 DEF Shape
<1>3. TypeOK
  BY <1>2 DEF TypeOK, Tree
<1>4. ASSUME pc = "idle"
      PROVE  /\ tree.root # NULL => tree.parent[tree.root] = NULL /\ ~IsRed(tree, tree.root)
             /\ \A n \in Members :
                  /\ \A s \in Side : LET c == tree.child[n][s]
                                     IN  /\ c # NULL => tree.parent[c] = n
                                         /\ IsRed(tree, n) => ~IsRed(tree, c)
                  /\ BlackHeight[tree.child[n]["rb_left"]] = BlackHeight[tree.child[n]["rb_right"]]
  <2>1. Sound(tree, Members, NULL)
    BY <1>1, <1>4, Phases
  <2>2. PICK h, q : Painted(tree, Members, h, NULL, q, NULL)
    BY <2>1 DEF Sound
  <2>3. Heights(tree, Members, h, NULL, q) /\ Colours(tree, Members, NULL)
    BY <2>2 DEF Painted
  <2>4. tree.root # NULL => tree.parent[tree.root] = NULL /\ ~IsRed(tree, tree.root)
    BY <1>2, <2>3 DEF Linked, Colours, IsRed, RB_RED, RB_BLACK
  <2>5. ASSUME NEW n \in Members, NEW s \in Side
        PROVE  /\ tree.child[n][s] # NULL => tree.parent[tree.child[n][s]] = n
               /\ IsRed(tree, n) => ~IsRed(tree, tree.child[n][s])
    BY <1>2, <2>3 DEF Linked, Colours, IsRed, RB_RED, RB_BLACK
  <2>6. ASSUME NEW n \in Members
        PROVE  BlackHeight[tree.child[n]["rb_left"]] = BlackHeight[tree.child[n]["rb_right"]]
    <3> DEFINE l == tree.child[n]["rb_left"]
               r == tree.child[n]["rb_right"]
    <3>1. /\ "rb_left" \in Side /\ "rb_right" \in Side /\ NULL \notin Members
          /\ tree.color[n] \in {RB_RED, RB_BLACK}
      BY <1>2, SideFacts, NodeAssumption DEF Linked, Tree
    <3>2. l \in Members \cup {NULL} /\ r \in Members \cup {NULL} /\ n # NULL
      BY <1>2, <3>1 DEF Linked
    <3>3. /\ h[n] \in Nat /\ h[l] \in Nat
          /\ tree.color[n] = RB_RED => h[n] = h[l]
          /\ tree.color[n] = RB_BLACK => h[n] = 1 + h[l]
      BY <1>2, <2>3, <3>1, <3>2, Down
    <3>4. /\ h[r] \in Nat
          /\ tree.color[n] = RB_RED => h[n] = h[r]
          /\ tree.color[n] = RB_BLACK => h[n] = 1 + h[r]
      BY <1>2, <2>3, <3>1, <3>2, Down
    <3>5. h[l] = h[r]
      BY <3>1, <3>3, <3>4
    <3>6. BlackHeight[l] = h[l] /\ BlackHeight[r] = h[r]
      BY <1>1, <2>3, <3>2, BlackHeightLabel
    <3> QED  BY <3>5, <3>6
  <2> QED  BY <2>4, <2>5, <2>6
<1> QED  BY <1>3, <1>4 DEF RedBlack

(* The tree has its type in every state and is a red-black tree after      *)
(* every call of _rb_insert, _rb_erase, _rb_lookup and _rb_first, for any  *)
(* number of nodes and keys.                                               *)
THEOREM RBTreeRedBlack == Spec => []RedBlack
  BY SpecInductive, InductiveRedBlack, PTL

-----------------------------------------------------------------------------
(* The refinement of OrderedSet.                                           *)

Contents == CASE OpOf[pc] = "insert" -> Members \ {arg}
              [] OpOf[pc] = "erase" -> Members \cup {arg}
              [] OTHER -> Members

LEMMA OpOfIs ==
  /\ OpOf["idle"] = "none" /\ OpOf["insert"] = "insert" /\ OpOf["insert_fix"] = "insert"
  /\ OpOf["erase"] = "erase" /\ OpOf["erase_fix"] = "erase" /\ OpOf["lookup"] = "lookup"
  /\ OpOf["first"] = "first"
  BY DEF OpOf

LEMMA ContentsIs ==
  /\ pc \in {"insert", "insert_fix"} => Contents = Members \ {arg}
  /\ pc \in {"erase", "erase_fix"} => Contents = Members \cup {arg}
  /\ pc \in {"idle", "lookup", "first"} => Contents = Members
  BY OpOfIs DEF Contents

LEMMA ContentsNext ==
  /\ pc' \in {"insert", "insert_fix"} => Contents' = Members' \ {arg'}
  /\ pc' \in {"erase", "erase_fix"} => Contents' = Members' \cup {arg'}
  /\ pc' \in {"idle", "lookup", "first"} => Contents' = Members'
  BY OpOfIs DEF Contents

(* A step that is none of the ordered set's.                               *)
LEMMA SetStutter ==
  ASSUME Contents' = Contents, OpOf[pc'] = OpOf[pc], arg' = arg, ret' = ret
  PROVE  UNCHANGED Set!vars
  BY DEF Set!vars, Contents

LEMMA SetCall ==
  ASSUME NEW op, NEW n, OpOf[pc] = "none", OpOf[pc'] = op, arg' = n, ret' = NULL,
         Contents' = Contents,
         \/ op = "insert" /\ n \in Node \ Contents
         \/ op = "erase" /\ n \in Contents
         \/ op = "lookup" /\ n \in Node
         \/ op = "first" /\ n = NULL
  PROVE  Set!Next
<1>1. Set!Call(op, n)
  BY DEF Set!Call, Contents
<1> QED  BY <1>1 DEF Set!Next, Contents

LEMMA SetInsert ==
  ASSUME OpOf[pc] = "insert", OpOf[pc'] = "none", arg' = NULL,
         \/ /\ \A x \in Contents : Key(x) # Key(arg)
            /\ Contents' = Contents \cup {arg} /\ ret' = 0
         \/ /\ \E x \in Contents : Key(x) = Key(arg)
            /\ Contents' = Contents /\ ret' = -1
  PROVE  Set!Next
<1>1. Set!Equal(arg) = {x \in Contents : Key(x) = Key(arg)}
  BY DEF Set!Equal, Set!Key, Key, Contents
<1>2. Set!Insert
  <2>1. CASE /\ \A x \in Contents : Key(x) # Key(arg)
             /\ Contents' = Contents \cup {arg} /\ ret' = 0
    <3>1. Set!Equal(arg) = {}
      BY <1>1, <2>1
    <3> QED  BY <2>1, <3>1 DEF Set!Insert, Set!Return, Contents
  <2>2. CASE /\ \E x \in Contents : Key(x) = Key(arg)
             /\ Contents' = Contents /\ ret' = -1
    <3>1. Set!Equal(arg) # {}
      BY <1>1, <2>2
    <3> QED  BY <2>2, <3>1 DEF Set!Insert, Set!Return, Contents
  <2> QED  BY <2>1, <2>2
<1> QED  BY <1>2 DEF Set!Next

LEMMA SetErase ==
  ASSUME OpOf[pc] = "erase", OpOf[pc'] = "none", arg' = NULL, ret' = NULL,
         Contents' = Contents \ {arg}
  PROVE  Set!Next
  BY DEF Set!Next, Set!Erase, Set!Return, Contents

LEMMA SetLookup ==
  ASSUME OpOf[pc] = "lookup", OpOf[pc'] = "none", arg' = NULL, Contents' = Contents,
         \/ ret' = NULL /\ \A x \in Contents : Key(x) # Key(arg)
         \/ ret' \in Contents /\ Key(ret') = Key(arg)
  PROVE  Set!Next
<1>1. Set!Equal(arg) = {x \in Contents : Key(x) = Key(arg)}
  BY DEF Set!Equal, Set!Key, Key, Contents
<1>2. ret' \in Set!Answer(Set!Equal(arg))
  BY <1>1 DEF Set!Answer
<1>3. Set!Return(ret')
  BY DEF Set!Return
<1>4. Set!Query
  BY <1>2, <1>3 DEF Set!Query, Contents
<1> QED  BY <1>4 DEF Set!Next

LEMMA SetFirst ==
  ASSUME OpOf[pc] = "first", OpOf[pc'] = "none", arg' = NULL, Contents' = Contents,
         \/ ret' = NULL /\ Contents = {}
         \/ ret' \in Contents /\ \A x \in Contents : Key(ret') <= Key(x)
  PROVE  Set!Next
<1>1. Set!Least = {n \in Contents : \A m \in Contents : Key(n) <= Key(m)}
  BY DEF Set!Least, Set!Key, Key, Contents
<1>2. ret' \in Set!Answer(Set!Least)
  BY <1>1 DEF Set!Answer
<1>3. Set!Return(ret')
  BY DEF Set!Return
<1>4. Set!Query
  BY <1>2, <1>3 DEF Set!Query, Contents
<1> QED  BY <1>4 DEF Set!Next

LEMMA CallRefines ==
  ASSUME Inductive,
         \/ \E n \in Node : _rb_insert(n) \/ _rb_erase(n) \/ _rb_lookup(n)
         \/ _rb_first
  PROVE  Set!Next
<1>1. Members' = Members
  BY CallStep
<1>2. pc = "idle" /\ ret' = NULL /\ OpOf[pc] = "none" /\ Contents = Members
  BY OpOfIs, ContentsIs DEF _rb_insert, _rb_erase, _rb_lookup, _rb_first, Call
<1>3. ASSUME NEW n \in Node, _rb_insert(n)  PROVE Set!Next
  <2>1. pc' = "insert" /\ arg' = n /\ n \notin Members
    BY <1>3 DEF _rb_insert, Call
  <2>2. Contents' = Contents /\ OpOf[pc'] = "insert"
    BY <1>1, <1>2, <2>1, ContentsNext, OpOfIs
  <2> QED  BY <1>2, <2>1, <2>2, SetCall
<1>4. ASSUME NEW n \in Node, _rb_erase(n)  PROVE Set!Next
  <2>1. pc' = "erase" /\ arg' = n /\ n \in Members
    BY <1>4 DEF _rb_erase, Call
  <2>2. Contents' = Contents /\ OpOf[pc'] = "erase"
    BY <1>1, <1>2, <2>1, ContentsNext, OpOfIs
  <2> QED  BY <1>2, <2>1, <2>2, SetCall
<1>5. ASSUME NEW n \in Node, _rb_lookup(n)  PROVE Set!Next
  <2>1. pc' = "lookup" /\ arg' = n
    BY <1>5 DEF _rb_lookup, Call
  <2>2. Contents' = Contents /\ OpOf[pc'] = "lookup"
    BY <1>1, <1>2, <2>1, ContentsNext, OpOfIs
  <2> QED  BY <1>2, <2>1, <2>2, SetCall
<1>6. ASSUME _rb_first  PROVE Set!Next
  <2>1. pc' = "first" /\ arg' = NULL
    BY <1>6 DEF _rb_first, Call
  <2>2. Contents' = Contents /\ OpOf[pc'] = "first"
    BY <1>1, <1>2, <2>1, ContentsNext, OpOfIs
  <2> QED  BY <1>2, <2>1, <2>2, SetCall
<1> QED  BY <1>3, <1>4, <1>5, <1>6

(* The steps within a call that do not return from it.                     *)
LEMMA TurnRefines ==
  ASSUME Inductive,
         InsertTurn \/ InsertFirst \/ FixRedUncle \/ SuccessorTurn \/ FixRedSibling
           \/ LookupTurn \/ FirstTurn
  PROVE  UNCHANGED Set!vars
<1>1. CASE InsertTurn
  <2>1. /\ arg \in Node \ Members /\ pc = "insert" /\ arg' = arg /\ ret' = ret
        /\ \/ pc' = "insert" /\ Members' = Members
           \/ pc' = "insert_fix" /\ Members' = Members \cup {arg}
    BY <1>1, InsertTurnStep
  <2>2. Contents' = Contents /\ OpOf[pc'] = OpOf[pc]
    BY <2>1, ContentsIs, ContentsNext, OpOfIs
  <2> QED  BY <2>1, <2>2, SetStutter
<1>2. CASE InsertFirst
  <2>1. Members' = Members /\ pc = "insert" /\ pc' = "insert_fix" /\ arg' = arg /\ ret' = ret
    BY <1>2, InsertFirstStep DEF InsertFirst
  <2>2. Contents' = Contents /\ OpOf[pc'] = OpOf[pc]
    BY <2>1, ContentsIs, ContentsNext, OpOfIs
  <2> QED  BY <2>1, <2>2, SetStutter
<1>3. CASE FixRedUncle
  <2>1. Members' = Members /\ pc = "insert_fix" /\ pc' = pc /\ arg' = arg /\ ret' = ret
    BY <1>3, FixRedUncleIs DEF FixRedUncle
  <2>2. Contents' = Contents /\ OpOf[pc'] = OpOf[pc]
    BY <2>1, ContentsIs, ContentsNext, OpOfIs
  <2> QED  BY <2>1, <2>2, SetStutter
<1>4. CASE SuccessorTurn
  <2>1. Members' = Members /\ pc = "erase" /\ pc' = pc /\ arg' = arg /\ ret' = ret
    BY <1>4, SuccessorTurnStep DEF SuccessorTurn, Turn
  <2>2. Contents' = Contents /\ OpOf[pc'] = OpOf[pc]
    BY <2>1, ContentsIs, ContentsNext, OpOfIs
  <2> QED  BY <2>1, <2>2, SetStutter
<1>5. CASE FixRedSibling
  <2>1. Members' = Members /\ pc = "erase_fix" /\ pc' = pc /\ arg' = arg /\ ret' = ret
    BY <1>5, FixRedSiblingIs DEF FixRedSibling
  <2>2. Contents' = Contents /\ OpOf[pc'] = OpOf[pc]
    BY <2>1, ContentsIs, ContentsNext, OpOfIs
  <2> QED  BY <2>1, <2>2, SetStutter
<1>6. CASE LookupTurn
  <2>1. Members' = Members /\ pc = "lookup" /\ pc' = pc /\ arg' = arg /\ ret' = ret
    BY <1>6, LookupTurnStep DEF LookupTurn, Turn
  <2>2. Contents' = Contents /\ OpOf[pc'] = OpOf[pc]
    BY <2>1, ContentsIs, ContentsNext, OpOfIs
  <2> QED  BY <2>1, <2>2, SetStutter
<1>7. CASE FirstTurn
  <2>1. Members' = Members /\ pc = "first" /\ pc' = pc /\ arg' = arg /\ ret' = ret
    BY <1>7, FirstTurnStep DEF FirstTurn, Turn
  <2>2. Contents' = Contents /\ OpOf[pc'] = OpOf[pc]
    BY <2>1, ContentsIs, ContentsNext, OpOfIs
  <2> QED  BY <2>1, <2>2, SetStutter
<1> QED  BY <1>1, <1>2, <1>3, <1>4, <1>5, <1>6, <1>7

LEMMA InsertRefines ==
  ASSUME Inductive, InsertEqual \/ FixRoot \/ FixBlackParent \/ FixBlackUncle
  PROVE  Set!Next
<1>1. CASE InsertEqual
  <2>1. /\ arg \in Node \ Members /\ Members' = Members
        /\ cur \in Members /\ Key(cur) = Key(arg)
    BY <1>1, InsertEqualStep
  <2>2. pc = "insert" /\ pc' = "idle" /\ arg' = NULL /\ ret' = -1
    BY <1>1 DEF InsertEqual, Return
  <2>3. /\ Contents = Members /\ Contents' = Members
        /\ OpOf[pc] = "insert" /\ OpOf[pc'] = "none"
    BY <2>1, <2>2, ContentsIs, ContentsNext, OpOfIs
  <2> QED  BY <2>1, <2>2, <2>3, SetInsert
<1>2. CASE FixRoot \/ FixBlackParent \/ FixBlackUncle
  <2>1. /\ Members' = (Members \ {arg}) \cup {arg}
        /\ \A x \in Members \ {arg} : Key(x) # Key(arg)
    BY <1>2, FixRootIs, FixBlackParentIs, FixBlackUncleIs
  <2>2. pc = "insert_fix" /\ pc' = "idle" /\ arg' = NULL /\ ret' = 0
    BY <1>2 DEF FixRoot, FixBlackParent, FixBlackUncle, Return
  <2>3. /\ Contents = Members \ {arg} /\ Contents' = Members'
        /\ OpOf[pc] = "insert" /\ OpOf[pc'] = "none"
    BY <2>2, ContentsIs, ContentsNext, OpOfIs
  <2> QED  BY <2>1, <2>2, <2>3, SetInsert
<1> QED  BY <1>1, <1>2

LEMMA EraseRefines ==
  ASSUME Inductive, EraseSingle \/ EraseSuccessor \/ FixBlackNephews \/ FixRedNephew
  PROVE  Set!Next \/ UNCHANGED Set!vars
<1>1. /\ Members' = Members \ {arg} /\ pc \in {"erase", "erase_fix"}
      /\ \/ pc' = "idle" /\ ret' = NULL /\ arg' = NULL
         \/ pc' = "erase_fix" /\ arg' = arg /\ ret' = ret
  <2>1. CASE EraseSingle
    BY <2>1, EraseSingleIs DEF EraseSingle
  <2>2. CASE EraseSuccessor
    <3>1. pc = "erase"
      BY <2>2 DEF EraseSuccessor
    <3> QED  BY <2>2, <3>1, EraseSuccessorIs
  <2>3. CASE FixBlackNephews
    <3>1. pc = "erase_fix"
      BY <2>3 DEF FixBlackNephews
    <3>2. Members' = Members /\ arg \notin Members
      BY <2>3, FixBlackNephewsIs
    <3>3. Members' = Members \ {arg}
      BY <3>2
    <3> QED  BY <2>3, <3>1, <3>3, FixBlackNephewsIs
  <2>4. CASE FixRedNephew
    <3>1. pc = "erase_fix" /\ pc' = "idle" /\ ret' = NULL /\ arg' = NULL
      BY <2>4, Zenon DEF FixRedNephew, Return
    <3>2. Members' = Members /\ arg \notin Members
      BY <2>4, FixRedNephewIs
    <3>3. Members' = Members \ {arg}
      BY <3>2
    <3> QED  BY <3>1, <3>3
  <2> QED  BY <2>1, <2>2, <2>3, <2>4
<1>2. Contents = Members \cup {arg} /\ OpOf[pc] = "erase"
  BY <1>1, ContentsIs, OpOfIs
<1>3. CASE pc' = "idle" /\ ret' = NULL /\ arg' = NULL
  <2>1. Contents' = Members' /\ OpOf[pc'] = "none"
    BY <1>3, ContentsNext, OpOfIs
  <2>2. Contents' = Contents \ {arg}
    BY <1>1, <1>2, <2>1
  <2> QED  BY <1>2, <1>3, <2>1, <2>2, SetErase
<1>4. CASE pc' = "erase_fix" /\ arg' = arg /\ ret' = ret
  <2>1. Contents' = Members' \cup {arg} /\ OpOf[pc'] = "erase"
    BY <1>4, ContentsNext, OpOfIs
  <2>2. Contents' = Contents
    BY <1>1, <1>2, <2>1
  <2> QED  BY <1>2, <1>4, <2>1, <2>2, SetStutter
<1> QED  BY <1>1, <1>3, <1>4

LEMMA QueryRefines ==
  ASSUME Inductive, LookupEnd \/ FirstEnd
  PROVE  Set!Next
<1>1. CASE LookupEnd
  <2>1. /\ Members' = Members
        /\ cur = NULL => \A x \in Members : Key(x) # Key(arg)
        /\ cur # NULL => cur \in Members /\ Key(cur) = Key(arg)
    BY <1>1, LookupEndStep
  <2>2. pc = "lookup" /\ pc' = "idle" /\ arg' = NULL /\ ret' = cur
    BY <1>1 DEF LookupEnd, Return
  <2>3. /\ Contents = Members /\ Contents' = Members
        /\ OpOf[pc] = "lookup" /\ OpOf[pc'] = "none"
    BY <2>1, <2>2, ContentsIs, ContentsNext, OpOfIs
  <2> QED  BY <2>1, <2>2, <2>3, SetLookup
<1>2. CASE FirstEnd
  <2>1. /\ Members' = Members
        /\ cur = NULL => Members = {}
        /\ cur # NULL => cur \in Members /\ \A x \in Members : Key(cur) <= Key(x)
    BY <1>2, FirstEndStep
  <2>2. pc = "first" /\ pc' = "idle" /\ arg' = NULL /\ ret' = cur
    BY <1>2 DEF FirstEnd, Return
  <2>3. /\ Contents = Members /\ Contents' = Members
        /\ OpOf[pc] = "first" /\ OpOf[pc'] = "none"
    BY <2>1, <2>2, ContentsIs, ContentsNext, OpOfIs
  <2> QED  BY <2>1, <2>2, <2>3, SetFirst
<1> QED  BY <1>1, <1>2

LEMMA InitRefines == Init => Set!Init
<1> SUFFICES ASSUME Init  PROVE Set!Init
  OBVIOUS
<1>1. pc = "idle" /\ arg = NULL /\ ret = NULL /\ OpOf[pc] = "none"
  BY OpOfIs DEF Init
<1>2. Members = {}
  BY NodeAssumption DEF Init, Members
<1>3. Contents = {}
  BY <1>1, <1>2, ContentsIs
<1> QED  BY <1>1, <1>3 DEF Set!Init, Contents

LEMMA StepRefines == Inductive /\ [Next]_vars => [Set!Next]_Set!vars
<1> SUFFICES ASSUME Inductive, [Next]_vars  PROVE Set!Next \/ UNCHANGED Set!vars
  OBVIOUS
<1>1. CASE \/ \E n \in Node : _rb_insert(n) \/ _rb_erase(n) \/ _rb_lookup(n)
           \/ _rb_first
  BY <1>1, CallRefines
<1>2. CASE InsertTurn \/ InsertFirst \/ FixRedUncle \/ SuccessorTurn \/ FixRedSibling
             \/ LookupTurn \/ FirstTurn
  BY <1>2, TurnRefines
<1>3. CASE InsertEqual \/ FixRoot \/ FixBlackParent \/ FixBlackUncle
  BY <1>3, InsertRefines
<1>4. CASE EraseSingle \/ EraseSuccessor \/ FixBlackNephews \/ FixRedNephew
  BY <1>4, EraseRefines
<1>5. CASE LookupEnd \/ FirstEnd
  BY <1>5, QueryRefines
<1>6. CASE UNCHANGED vars
  <2>1. tree' = tree /\ pc' = pc /\ arg' = arg /\ ret' = ret
    BY <1>6 DEF vars
  <2>2. Contents' = Contents
    BY <2>1 DEF Contents, Members
  <2> QED  BY <2>1, <2>2, SetStutter
<1> QED  BY <1>1, <1>2, <1>3, <1>4, <1>5, <1>6 DEF Next

(* The tree implements the ordered set of its users: whatever calls are    *)
(* made, _rb_insert adds the node unless its key is there, _rb_erase takes *)
(* out that node alone, _rb_lookup finds the node with the key and         *)
(* _rb_first the least one, for any number of nodes and keys.              *)
THEOREM RBTreeIsOrderedSet == Spec => IsOrderedSet
<1>1. Init /\ [][Next]_vars /\ []Inductive => Set!Init /\ [][Set!Next]_Set!vars
  BY InitRefines, StepRefines, PTL
<1> QED  BY <1>1, SpecInductive, PTL DEF Spec, IsOrderedSet, Set!Spec
=============================================================================

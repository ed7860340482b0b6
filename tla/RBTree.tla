------------------------------- MODULE RBTree -------------------------------
(***************************************************************************)
(* The red-black tree of src/src/common/rbtree.c, which holds the timers   *)
(* of a CPU.  A tree is a record of the root and the three fields of every *)
(* node.  The code spells the rebalancing out twice, for a left and for a  *)
(* right child; here the side is a parameter and Other(s) its mirror.      *)
(*                                                                         *)
(* The users hold a lock of their own, so one call runs at a time; each    *)
(* turn of its loops is a step.  They neither insert a node that is in the *)
(* tree nor erase one that is not.  The fields of a node outside of the    *)
(* tree are never read: removal resets them, where the code leaves that to *)
(* the next insertion, so that equal trees are equal states.               *)
(***************************************************************************)
EXTENDS Integers

CONSTANTS Node,    \* a set of numbers
          Keys,    \* the number of different keys
          NULL

ASSUME NodeAssumption == Node \subseteq Nat /\ Keys \in Nat \ {0} /\ NULL \notin Node

VARIABLES tree,
          pc,      \* the loop that runs, or "idle"
          arg,     \* the node the caller passed
          cur,     \* the node the loop has come to: nw, node, successor or n
          par,     \* the parent of cur in __rb_erase_fix, where cur may be NULL
          ret      \* what the last call returned, NULL while one runs

vars == <<tree, pc, arg, cur, par, ret>>

RB_RED == 0
RB_BLACK == 1
Side == {"rb_left", "rb_right"}
Other(s) == IF s = "rb_left" THEN "rb_right" ELSE "rb_left"
Link == Node \cup {NULL}

(* The comparison the user passes: here rb_cmp of test/rbtreetest.c, by    *)
(* the key of the node, under which two nodes may be equal.  __timer_cmp   *)
(* (kernel/cpu.c), which decides ties by the address, is the case in which *)
(* all keys are distinct.                                                  *)
Key(n) == n % Keys
cmp(n, m) == Key(n) < Key(m)

(* Every node of the tree but the root has a parent.                       *)
Members == {n \in Node : n = tree.root \/ tree.parent[n] # NULL}

-----------------------------------------------------------------------------
(* Stores to the fields.  A null node is skipped, as by the tests `if      *)
(* (tmp)' of the code.                                                     *)
SetChild(t, n, s, c) == [t EXCEPT !.child[n][s] = c]
rb_set_parent_color(t, n, p, color) ==
  IF n = NULL THEN t ELSE [t EXCEPT !.parent[n] = p, !.color[n] = color]
SetParentMutant(t, n, p) == rb_set_parent_color(t, n, p, RB_BLACK)
rb_set_parent(t, n, p) ==
  IF n = NULL THEN t ELSE rb_set_parent_color(t, n, p, t.color[n])

IsRed(t, n) == n # NULL /\ t.color[n] = RB_RED

(* The side of parent p on which the code looks for the child n: the right *)
(* one is compared first, also when both children are NULL.                *)
SideOf(t, p, n) == IF t.child[p]["rb_right"] # n THEN "rb_left" ELSE "rb_right"

ChangeChildMutant(t, old, new, p) ==
  IF p = NULL THEN t
  ELSE SetChild(t, p, IF t.child[p]["rb_left"] = old THEN "rb_left"
                                                     ELSE "rb_right", new)
__rb_change_child(t, old, new, p) ==
  IF p = NULL THEN [t EXCEPT !.root = new]
  ELSE SetChild(t, p, IF t.child[p]["rb_left"] = old THEN "rb_left"
                                                     ELSE "rb_right", new)

__rb_rotate_set_parents(t, old, new, color) ==
  __rb_change_child(
    rb_set_parent_color(
      rb_set_parent_color(t, new, t.parent[old], t.color[old]), old, new, color),
    old, new, t.parent[old])

(* Node n gets its parent p as its child on the side s, and p takes the    *)
(* child that n had there, as a black one.                                 *)
TurnUp(t, p, n, s) ==
  LET tmp == t.child[n][s]
  IN  SetChild(rb_set_parent_color(SetChild(t, p, Other(s), tmp), tmp, p, RB_BLACK),
               n, s, p)

-----------------------------------------------------------------------------
(* Calls, turns of a loop that leave the tree as it is, and returns.       *)
Call(loop, n, start) == /\ pc = "idle" /\ pc' = loop
                        /\ arg' = n /\ cur' = start /\ ret' = NULL
                        /\ UNCHANGED <<tree, par>>
Turn(next) == cur' = next /\ UNCHANGED <<tree, pc, arg, par, ret>>
Return(value) == /\ pc' = "idle" /\ ret' = value
                 /\ arg' = NULL /\ cur' = NULL /\ par' = NULL

(* Whether the node passed belongs on the side s of the current one.       *)
Toward(s) == IF s = "rb_left" THEN cmp(arg, cur) ELSE cmp(cur, arg)
Equal == ~ \E s \in Side : Toward(s)

-----------------------------------------------------------------------------
(* Insertion.                                                              *)

_rb_insert(n) == n \notin Members /\ Call("insert", n, tree.root)

InsertTurn ==
  /\ pc = "insert" /\ cur # NULL
  /\ \E s \in Side :
       /\ Toward(s)
       /\ \/ tree.child[cur][s] # NULL /\ Turn(tree.child[cur][s])
          \/ /\ tree.child[cur][s] = NULL
             /\ tree' = rb_set_parent_color(SetChild(tree, cur, s, arg), arg, cur, RB_RED)
             /\ pc' = "insert_fix" /\ cur' = arg
             /\ UNCHANGED <<arg, par, ret>>

InsertEqual == pc = "insert" /\ cur # NULL /\ Equal /\ Return(-1) /\ UNCHANGED tree

(* The tree was empty.                                                     *)
InsertFirst == /\ pc = "insert" /\ cur = NULL
               /\ pc' = "insert_fix" /\ cur' = arg
               /\ UNCHANGED <<tree, arg, par, ret>>

(* __rb_insert_fix: the current node is red.                               *)
FixRoot ==
  /\ pc = "insert_fix" /\ tree.parent[cur] = NULL
  /\ tree' = [rb_set_parent_color(tree, cur, NULL, RB_BLACK) EXCEPT !.root = cur]
  /\ Return(0)

FixBlackParent ==
  /\ pc = "insert_fix" /\ tree.parent[cur] # NULL
  /\ ~IsRed(tree, tree.parent[cur])
  /\ Return(0) /\ UNCHANGED tree

(* Case 1: recolour and go on from the grandparent.                        *)
Recoloured(t, parent, uncle, g) ==
  rb_set_parent_color(
    rb_set_parent_color(
      rb_set_parent_color(t, uncle, g, RB_BLACK), parent, g, RB_BLACK),
    g, t.parent[g], RB_RED)

FixRedUncle ==
  LET parent == tree.parent[cur]
      g == tree.parent[parent]
      uncle == tree.child[g][Other(SideOf(tree, g, parent))]
  IN  /\ pc = "insert_fix" /\ parent # NULL
      /\ IsRed(tree, parent) /\ IsRed(tree, uncle)
      /\ tree' = Recoloured(tree, parent, uncle, g)
      /\ cur' = g
      /\ UNCHANGED <<pc, arg, par, ret>>

(* Case 2: the node takes the place of its parent first.  Case 3: then the *)
(* upper one of the two takes the place of the grandparent.                *)
FixBlackUncle ==
  LET parent == tree.parent[cur]
      g == tree.parent[parent]
      s == SideOf(tree, g, parent)
      inner == tree.child[parent][Other(s)] = cur
      t2 == IF inner
            THEN rb_set_parent_color(TurnUp(tree, parent, cur, s), parent, cur, RB_RED)
            ELSE tree
      top == IF inner THEN cur ELSE parent
  IN  /\ pc = "insert_fix" /\ parent # NULL
      /\ IsRed(tree, parent) /\ ~IsRed(tree, tree.child[g][Other(s)])
      /\ tree' = __rb_rotate_set_parents(TurnUp(t2, g, top, Other(s)), g, top, RB_RED)
      /\ Return(0)

-----------------------------------------------------------------------------
(* Removal.                                                                *)

_rb_erase(n) == n \in Members /\ Call("erase", n, tree.child[n]["rb_right"])

Blank(t, n) == [t EXCEPT !.child[n] = [s \in Side |-> NULL], !.parent[n] = NULL,
                         !.color[n] = RB_RED]

(* Node new takes over the place and the colour of the node old.           *)
Replace(t, old, new) ==
  rb_set_parent_color(__rb_change_child(t, old, new, t.parent[old]),
                      new, t.parent[old], t.color[old])

(* The node gone has left its place under parent to child: rebalance there *)
(* when a black node is missing.                                           *)
Rebalance(gone, child, parent) ==
  IF child # NULL \/ IsRed(tree, gone) \/ parent = NULL
  THEN Return(NULL)
  ELSE pc' = "erase_fix" /\ par' = parent /\ cur' = NULL /\ UNCHANGED <<arg, ret>>

(* A node with one child or none.                                          *)
EraseSingle ==
  LET left == tree.child[arg]["rb_left"]
      child == IF left = NULL THEN cur ELSE left
  IN  /\ pc = "erase" /\ NULL \in {left, cur}
      /\ tree' = Blank(Replace(tree, arg, child), arg)
      /\ Rebalance(arg, child, tree.parent[arg])

SuccessorTurn ==
  /\ pc = "erase" /\ NULL \notin {tree.child[arg]["rb_left"], cur}
  /\ tree.child[cur]["rb_left"] # NULL
  /\ Turn(tree.child[cur]["rb_left"])

(* The successor takes the place of the node.                              *)
EraseSuccessor ==
  LET left == tree.child[arg]["rb_left"]
      right == tree.child[arg]["rb_right"]
      child2 == tree.child[cur]["rb_right"]
      below == IF cur = right THEN cur ELSE tree.parent[cur]
      t1 == IF cur = right THEN tree
            ELSE rb_set_parent(SetChild(SetChild(tree, below, "rb_left", child2),
                                        cur, "rb_right", right), right, cur)
      t2 == rb_set_parent(SetChild(t1, cur, "rb_left", left), left, cur)
  IN  /\ pc = "erase" /\ NULL \notin {left, cur}
      /\ tree.child[cur]["rb_left"] = NULL
      /\ tree' = Blank(rb_set_parent_color(Replace(t2, arg, cur), child2, below, RB_BLACK),
                       arg)
      /\ Rebalance(cur, child2, below)

(* __rb_erase_fix: below par one black node is missing on the side of cur. *)
(* Case 1: a red sibling is turned up over the parent; the next one is     *)
(* black.                                                                  *)
FixRedSibling ==
  LET s == SideOf(tree, par, cur)
      sibling == tree.child[par][Other(s)]
  IN  /\ pc = "erase_fix" /\ IsRed(tree, sibling)
      /\ tree' = __rb_rotate_set_parents(TurnUp(tree, par, sibling, s),
                                         par, sibling, RB_RED)
      /\ UNCHANGED <<pc, arg, cur, par, ret>>

(* Case 2: the sibling turns red, and the parent black or one short.       *)
FixBlackNephews ==
  LET s == SideOf(tree, par, cur)
      sibling == tree.child[par][Other(s)]
      up == tree.parent[par]
      t2 == rb_set_parent_color(tree, sibling, par, RB_RED)
  IN  /\ pc = "erase_fix" /\ ~IsRed(tree, sibling)
      /\ \A r \in Side : ~IsRed(tree, tree.child[sibling][r])
      /\ \/ /\ IsRed(tree, par)
            /\ tree' = [t2 EXCEPT !.color[par] = RB_BLACK]
            /\ Return(NULL)
         \/ ~IsRed(tree, par) /\ up = NULL /\ tree' = t2 /\ Return(NULL)
         \/ /\ ~IsRed(tree, par) /\ up # NULL
            /\ tree' = t2 /\ cur' = par /\ par' = up
            /\ UNCHANGED <<pc, arg, ret>>

(* Case 3 turns the near nephew up over the sibling, unless the far one is *)
(* red; then the upper one of the two is turned up over the parent.        *)
FixRedNephew ==
  LET s == SideOf(tree, par, cur)
      o == Other(s)
      sibling == tree.child[par][o]
      far == tree.child[sibling][o]
      near == tree.child[sibling][s]
      t3 == IF IsRed(tree, far) THEN tree
            ELSE SetChild(TurnUp(tree, sibling, near, o), par, o, near)
      top == IF IsRed(tree, far) THEN sibling ELSE near
      low == IF IsRed(tree, far) THEN far ELSE sibling
      tmp == t3.child[top][s]
      t4 == SetChild(rb_set_parent(SetChild(t3, par, o, tmp), tmp, par), top, s, par)
  IN  /\ pc = "erase_fix" /\ ~IsRed(tree, sibling)
      /\ IsRed(tree, far) \/ IsRed(tree, near)
      /\ tree' = __rb_rotate_set_parents(rb_set_parent_color(t4, low, top, RB_BLACK),
                                         par, top, RB_BLACK)
      /\ Return(NULL)

-----------------------------------------------------------------------------
(* Queries.                                                                *)

_rb_lookup(n) == Call("lookup", n, tree.root)

LookupTurn == /\ pc = "lookup" /\ cur # NULL
              /\ \E s \in Side : Toward(s) /\ Turn(tree.child[cur][s])

LookupEnd == pc = "lookup" /\ (cur # NULL => Equal) /\ Return(cur) /\ UNCHANGED tree

_rb_first == Call("first", NULL, tree.root)

FirstTurn == /\ pc = "first" /\ cur # NULL /\ tree.child[cur]["rb_left"] # NULL
             /\ Turn(tree.child[cur]["rb_left"])

FirstEnd == /\ pc = "first" /\ (cur # NULL => tree.child[cur]["rb_left"] = NULL)
            /\ Return(cur) /\ UNCHANGED tree

-----------------------------------------------------------------------------
Init == /\ tree = [root |-> NULL, child |-> [n \in Node |-> [s \in Side |-> NULL]],
                   parent |-> [n \in Node |-> NULL], color |-> [n \in Node |-> RB_RED]]
        /\ pc = "idle" /\ arg = NULL /\ cur = NULL /\ par = NULL /\ ret = NULL

Next == \/ \E n \in Node : _rb_insert(n) \/ _rb_erase(n) \/ _rb_lookup(n)
        \/ InsertTurn \/ InsertEqual \/ InsertFirst
        \/ FixRoot \/ FixBlackParent \/ FixRedUncle \/ FixBlackUncle
        \/ EraseSingle \/ SuccessorTurn \/ EraseSuccessor
        \/ FixRedSibling \/ FixBlackNephews \/ FixRedNephew
        \/ LookupTurn \/ LookupEnd
        \/ _rb_first \/ FirstTurn \/ FirstEnd

Spec == Init /\ [][Next]_vars
-----------------------------------------------------------------------------
BlackHeight[n \in Link] ==
  IF n = NULL THEN 0 ELSE tree.color[n] + BlackHeight[tree.child[n]["rb_left"]]

TypeOK == /\ tree.root \in Link
          /\ tree.child \in [Node -> [Side -> Link]]
          /\ tree.parent \in [Node -> Link]
          /\ tree.color \in [Node -> {RB_RED, RB_BLACK}]

(* The tree is well typed and a red-black tree after every call: a black   *)
(* root without a parent, children that point back, no red child of a red  *)
(* node and as many black nodes on the way to every leaf.                  *)
RedBlack ==
  /\ TypeOK
  /\ pc = "idle" =>
     /\ tree.root # NULL => tree.parent[tree.root] = NULL /\ ~IsRed(tree, tree.root)
     /\ \A n \in Members :
          /\ \A s \in Side : LET c == tree.child[n][s]
                             IN  /\ c # NULL => tree.parent[c] = n
                                 /\ IsRed(tree, n) => ~IsRed(tree, c)
          /\ BlackHeight[tree.child[n]["rb_left"]] = BlackHeight[tree.child[n]["rb_right"]]

(* The tree implements an ordered set: insert adds the node or returns -1  *)
(* for an equal key, erase removes no other node, lookup finds the node    *)
(* with the key and first the least one, after any sequence of calls.  A   *)
(* node counts from the return of its insertion to that of its removal.    *)
OpOf == [idle |-> "none", insert |-> "insert", insert_fix |-> "insert",
         erase |-> "erase", erase_fix |-> "erase", lookup |-> "lookup",
         first |-> "first"]
Set == INSTANCE OrderedSet WITH
         members <- CASE OpOf[pc] = "insert" -> Members \ {arg}
                      [] OpOf[pc] = "erase" -> Members \cup {arg}
                      [] OTHER -> Members,
         op <- OpOf[pc]
IsOrderedSet == Set!Spec
=============================================================================

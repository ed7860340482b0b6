----------------------------- MODULE OrderedSet -----------------------------
(***************************************************************************)
(* What src/src/common/rbtree.h promises to its users: a set of nodes with *)
(* distinct keys that can be searched and whose least node can be found.   *)
(***************************************************************************)
EXTENDS Integers

CONSTANTS Node, Keys, NULL

VARIABLES members,   \* the nodes in the set
          op, arg,   \* the call that runs, or "none", and the node passed
          ret        \* what the last call returned, NULL while one runs

vars == <<members, op, arg, ret>>

Key(n) == n % Keys
Equal(n) == {m \in members : Key(m) = Key(n)}
Least == {n \in members : \A m \in members : Key(n) <= Key(m)}

Init == members = {} /\ op = "none" /\ arg = NULL /\ ret = NULL

Call(name, n) == /\ op = "none" /\ op' = name /\ arg' = n /\ ret' = NULL
                 /\ UNCHANGED members

Return(value) == op' = "none" /\ arg' = NULL /\ ret' = value

Insert == /\ op = "insert"
          /\ IF Equal(arg) = {}
             THEN members' = members \cup {arg} /\ Return(0)
             ELSE members' = members /\ Return(-1)

Erase == op = "erase" /\ members' = members \ {arg} /\ Return(NULL)

Answer(S) == IF S = {} THEN {NULL} ELSE S
Query == /\ \/ op = "lookup" /\ \E n \in Answer(Equal(arg)) : Return(n)
            \/ op = "first" /\ \E n \in Answer(Least) : Return(n)
         /\ UNCHANGED members

Next == \/ \E n \in Node \ members : Call("insert", n)
        \/ \E n \in members : Call("erase", n)
        \/ \E n \in Node : Call("lookup", n)
        \/ Call("first", NULL)
        \/ Insert \/ Erase \/ Query

Spec == Init /\ [][Next]_vars
=============================================================================

------------------------------ MODULE ProcTree ------------------------------
(***************************************************************************)
(* The process tree of src/src/kernel/proc.c: create_proc, start_proc,     *)
(* kill, exit and wait, under the global lock proc_list_lock.              *)
(*                                                                         *)
(* A step is what one process does between two acquisitions of             *)
(* proc_list_lock or sched_lock; a lock that is taken and given back       *)
(* within a step only has to be free.  How wait_sem sleeps and how it is   *)
(* woken is the subject of SleepWakeup: here childexit is a counter, and a *)
(* killed process may give up waiting for it.                              *)
(***************************************************************************)
EXTENDS Integers, FiniteSets

CONSTANTS Proc, Root, NULL

ASSUME RootAssumption == Root \in Proc /\ NULL \notin Proc
(* A struct proc takes memory: there are finitely many.                    *)
ASSUME ProcAssumption == IsFiniteSet(Proc)

VARIABLES
  state,      \* proc->state; FREE when there is no such struct proc, ALIVE
              \* for the four states of a process that was started
  parent,     \* proc->parent
  children,   \* the list proc->children
  childexit,  \* the value of the semaphore proc->childexit
  killed,     \* proc->killed
  listLocked, \* proc_list_lock
  schedLocked,\* sched_lock
  pc,         \* where the process is
  new,        \* the process it has created and not yet started
  panic       \* the PANIC at the end of wait() was reached

tree == <<parent, children>>
locks == <<listLocked, schedLocked>>
vars == <<state, parent, children, childexit, killed, listLocked, schedLocked,
          pc, new, panic>>

PC == {"run",        \* outside of the operations below
       "created",    \* after create_proc
       "activate",   \* start_proc, before activate_proc
       "wait_sem",   \* wait, before wait_sem
       "wait_lock",  \* wait, after wait_sem
       "wait_scan",  \* wait, holds proc_list_lock
       "exit_lock",  \* exit, holds proc_list_lock
       "exit_sched", \* exit, holds sched_lock
       "gone"}       \* never runs again, or does not run yet

TypeOK ==
  /\ state \in [Proc -> {"FREE", "UNUSED", "ALIVE", "ZOMBIE"}]
  /\ parent \in [Proc -> Proc \cup {NULL}]
  /\ children \in [Proc -> SUBSET Proc]
  /\ childexit \in [Proc -> Nat]
  /\ killed \in [Proc -> BOOLEAN]
  /\ listLocked \in BOOLEAN
  /\ schedLocked \in BOOLEAN
  /\ pc \in [Proc -> PC]
  /\ new \in [Proc -> Proc \cup {NULL}]
  /\ panic \in BOOLEAN

At(p, l) == ~panic /\ pc[p] = l
Goto(p, l) == pc' = [pc EXCEPT ![p] = l]

_set_proc_parent(q, p) ==
  /\ children' = [children EXCEPT ![p] = @ \cup {q}]
  /\ parent' = [parent EXCEPT ![q] = p]

-----------------------------------------------------------------------------
(* create_proc and init_proc.                                              *)
create_proc(p, q) ==
  /\ At(p, "run")
  /\ ~listLocked
  /\ state[q] = "FREE"
  /\ state' = [state EXCEPT ![q] = "UNUSED"]
  /\ parent' = [parent EXCEPT ![q] = NULL]
  /\ children' = [children EXCEPT ![q] = {}]
  /\ childexit' = [childexit EXCEPT ![q] = 0]
  /\ killed' = [killed EXCEPT ![q] = FALSE]
  /\ new' = [new EXCEPT ![p] = q, ![q] = NULL]
  /\ Goto(p, "created")
  /\ UNCHANGED <<locks, panic>>

set_parent_to_this(p) ==
  /\ At(p, "created")
  /\ parent[new[p]] = NULL
  /\ ~listLocked
  /\ _set_proc_parent(new[p], p)
  /\ UNCHANGED <<state, childexit, killed, locks, pc, new, panic>>

(* start_proc up to activate_proc.                                         *)
start_proc(p) ==
  /\ At(p, "created")
  /\ IF parent[new[p]] = NULL
     THEN ~listLocked /\ _set_proc_parent(new[p], Root)
     ELSE UNCHANGED tree
  /\ Goto(p, "activate")
  /\ UNCHANGED <<state, childexit, killed, locks, new, panic>>

activate_proc(p) ==
  /\ At(p, "activate")
  /\ ~schedLocked
  /\ state' = [state EXCEPT ![new[p]] = "ALIVE"]
  /\ pc' = [pc EXCEPT ![p] = "run", ![new[p]] = "run"]
  /\ new' = [new EXCEPT ![p] = NULL]
  /\ UNCHANGED <<tree, childexit, killed, locks, panic>>

(* _find_child(&root_proc, pid): the search kill makes.                    *)
_find_child(q) == q \in children[Root] /\ state[q] # "UNUSED"

(* kill, by any process (or in a trap of it), of a process it finds.       *)
kill(p, q) ==
  /\ At(p, "run")
  /\ ~listLocked
  /\ ~schedLocked
  /\ _find_child(q)
  /\ killed' = [killed EXCEPT ![q] = TRUE]
  /\ UNCHANGED <<state, tree, childexit, locks, pc, new, panic>>

-----------------------------------------------------------------------------
TokensMovedMutant(p) == 0

(* The exits of its children that p has not waited for: root_proc will.    *)
TokensMoved(p) == childexit[p]

TreeAfterExitMutant(p) ==
  /\ parent' = parent
  /\ children' = [children EXCEPT ![Root] = @ \cup children[p], ![p] = {}]

(* The children of p are handed over to root_proc.                         *)
TreeAfterExit(p) ==
  /\ parent' = [q \in Proc |-> IF q \in children[p] THEN Root ELSE parent[q]]
  /\ children' = [children EXCEPT ![Root] = @ \cup children[p], ![p] = {}]

(* exit up to lock_for_sched.                                              *)
exit(p) ==
  /\ At(p, "run")
  /\ p # Root
  /\ ~listLocked
  /\ listLocked' = TRUE
  /\ TreeAfterExit(p)
  /\ childexit' = [q \in Proc |->
                     IF q = p THEN 0
                     ELSE childexit[q]
                          + (IF q = Root THEN TokensMoved(p) ELSE 0)
                          + (IF q = parent[p] THEN 1 ELSE 0)]
  /\ Goto(p, "exit_lock")
  /\ UNCHANGED <<state, killed, schedLocked, new, panic>>

exit_lock_for_sched_mutant(p) ==
  /\ At(p, "exit_lock")
  /\ listLocked' = FALSE
  /\ Goto(p, "exit_sched")
  /\ UNCHANGED <<state, tree, childexit, killed, schedLocked, new, panic>>

exit_lock_for_sched_mutant_killed(p) ==
  /\ At(p, "exit_lock")
  /\ ~schedLocked
  /\ IF killed[p] THEN UNCHANGED vars
     ELSE /\ schedLocked' = TRUE
          /\ listLocked' = FALSE
          /\ Goto(p, "exit_sched")
          /\ UNCHANGED <<state, tree, childexit, killed, new, panic>>

(* proc_list_lock is released only when sched_lock is held, by a killed    *)
(* process too.                                                            *)
exit_lock_for_sched(p) ==
  /\ At(p, "exit_lock")
  /\ ~schedLocked
  /\ schedLocked' = TRUE
  /\ listLocked' = FALSE
  /\ Goto(p, "exit_sched")
  /\ UNCHANGED <<state, tree, childexit, killed, new, panic>>

(* sched(ZOMBIE); the next thread releases sched_lock.                     *)
exit_sched(p) ==
  /\ At(p, "exit_sched")
  /\ state' = [state EXCEPT ![p] = "ZOMBIE"]
  /\ schedLocked' = FALSE
  /\ Goto(p, "gone")
  /\ UNCHANGED <<tree, childexit, killed, listLocked, new, panic>>

-----------------------------------------------------------------------------
(* wait: nothing to wait for (returns -1), or on to wait_sem.              *)
wait(p) ==
  /\ At(p, "run")
  /\ ~listLocked
  /\ children[p] # {}
  /\ Goto(p, "wait_sem")
  /\ UNCHANGED <<state, tree, childexit, killed, locks, new, panic>>

(* A killed process stops waiting (returns -1) unless it was posted.       *)
wait_sem(p) ==
  /\ At(p, "wait_sem")
  /\ \/ /\ childexit[p] > 0
        /\ childexit' = [childexit EXCEPT ![p] = @ - 1]
        /\ Goto(p, "wait_lock")
     \/ /\ childexit[p] = 0 /\ killed[p]
        /\ Goto(p, "run")
        /\ UNCHANGED childexit
  /\ UNCHANGED <<state, tree, killed, locks, new, panic>>

wait_lock(p) ==
  /\ At(p, "wait_lock")
  /\ ~listLocked
  /\ listLocked' = TRUE
  /\ Goto(p, "wait_scan")
  /\ UNCHANGED <<state, tree, childexit, killed, schedLocked, new, panic>>

(* The first zombie in the list, whichever it is, is removed and freed.    *)
wait_scan(p) ==
  LET zombies == {q \in children[p] : state[q] = "ZOMBIE"} IN
  /\ At(p, "wait_scan")
  /\ ~schedLocked
  /\ IF zombies = {}
     THEN panic' = TRUE /\ UNCHANGED <<state, children, listLocked, pc>>
     ELSE /\ \E q \in zombies :
               /\ children' = [children EXCEPT ![p] = @ \ {q}]
               /\ state' = [state EXCEPT ![q] = "FREE"]
          /\ listLocked' = FALSE
          /\ Goto(p, "run")
          /\ UNCHANGED panic
  /\ UNCHANGED <<parent, childexit, killed, schedLocked, new>>

-----------------------------------------------------------------------------
(* define_init(root_proc): the root process is its own parent and no child *)
(* of itself.                                                              *)
Init ==
  /\ state = [p \in Proc |-> IF p = Root THEN "ALIVE" ELSE "FREE"]
  /\ parent = [p \in Proc |-> IF p = Root THEN Root ELSE NULL]
  /\ children = [p \in Proc |-> {}]
  /\ childexit = [p \in Proc |-> 0]
  /\ killed = [p \in Proc |-> FALSE]
  /\ listLocked = FALSE
  /\ schedLocked = FALSE
  /\ pc = [p \in Proc |-> IF p = Root THEN "run" ELSE "gone"]
  /\ new = [p \in Proc |-> NULL]
  /\ panic = FALSE

Start(p) == \/ \E q \in Proc : create_proc(p, q)
            \/ set_parent_to_this(p)
            \/ start_proc(p)
            \/ activate_proc(p)

Exit(p) == exit(p) \/ exit_lock_for_sched(p) \/ exit_sched(p)

Wait(p) == wait(p) \/ wait_sem(p) \/ wait_lock(p) \/ wait_scan(p)

Next == \E p \in Proc : \/ Start(p) \/ Exit(p) \/ Wait(p)
                        \/ \E q \in Proc : kill(p, q)

Spec == Init /\ [][Next]_vars

(* A process that holds one of the spinlocks runs with traps off: its CPU  *)
(* goes on executing it.                                                   *)
FairSpec == /\ Spec
            /\ \A p \in Proc : /\ WF_vars(exit_lock_for_sched(p))
                               /\ WF_vars(exit_sched(p))
                               /\ WF_vars(wait_scan(p))

-----------------------------------------------------------------------------
(***************************************************************************)
(* Properties.                                                             *)
(***************************************************************************)
Exited(q) == pc[q] \in {"exit_lock", "exit_sched", "gone"}
Started(q) == state[q] \in {"ALIVE", "ZOMBIE"}

(* The state is well typed.  Every process but the root is, exactly once,  *)
(* in the children of its parent, and the parent has not begun to exit,    *)
(* let alone been freed:                                                   *)
(* this->parent in exit (proc.c:87) is never a dangling pointer.           *)
(* doc/lab3.md:40 asks for it.                                             *)
ParentsAlive ==
  /\ TypeOK
  /\ \A q \in Proc \ {Root} :
    /\ Started(q) => /\ parent[q] # NULL
                     /\ q \in children[parent[q]]
                     /\ state[parent[q]] = "ALIVE"
                     /\ ~Exited(parent[q])
    /\ \A p \in Proc : q \in children[p] => parent[q] = p

(* No exit is lost and none is counted twice: the value of childexit, and  *)
(* the exit that wait has taken from it, are the children that have exited *)
(* and not been reaped, also after the children of a dying process, dead   *)
(* or alive, were handed to the root.                                      *)
ExitsCounted ==
  \A p \in Proc :
    childexit[p] + (IF pc[p] \in {"wait_lock", "wait_scan"} THEN 1 ELSE 0) =
      Cardinality({q \in children[p] : Started(q) /\ Exited(q)})

(* wait never reaches the PANIC at its end: when childexit was posted, a   *)
(* zombie is there, however exit and wait interleave (proc.c:89, 130).     *)
ReapFindsZombie == ~panic

(***************************************************************************)
(* The inductive invariant behind them (see ProcTreeProofs).               *)
(***************************************************************************)
HoldsList(p) == pc[p] \in {"wait_scan", "exit_lock"}
HoldsSched(p) == pc[p] = "exit_sched"
Creating(p) == pc[p] \in {"created", "activate"}

(* Each lock is held by at most one process, and free when by none.        *)
LocksHeld ==
  /\ listLocked <=> \E p \in Proc : HoldsList(p)
  /\ schedLocked <=> \E p \in Proc : HoldsSched(p)
  /\ \A p, q \in Proc : HoldsList(p) /\ HoldsList(q) => p = q
  /\ \A p, q \in Proc : HoldsSched(p) /\ HoldsSched(q) => p = q

(* A process runs exactly while it is ALIVE, and the root always does.     *)
AliveRuns ==
  /\ \A p \in Proc : state[p] = "ALIVE" <=> pc[p] # "gone"
  /\ state[Root] = "ALIVE" /\ ~Exited(Root)

(* Who is between create_proc and start_proc has a process of its own.     *)
CreatedUnused ==
  /\ \A p \in Proc : Creating(p) =>
       /\ new[p] \in Proc /\ state[new[p]] = "UNUSED"
       /\ pc[p] = "activate" => parent[new[p]] # NULL
  /\ \A p, q \in Proc : Creating(p) /\ Creating(q) /\ new[p] = new[q] => p = q

(* parent and children are inverse to each other; a process without a      *)
(* parent was never started, and no parent has begun to exit.              *)
TreeLinked ==
  /\ \A p, q \in Proc : q \in children[p] =>
       parent[q] = p /\ q \notin {p, Root} /\ state[q] # "FREE"
  /\ \A q \in Proc \ {Root} :
       state[q] # "FREE" /\ (state[q] = "UNUSED" => parent[q] # NULL) =>
         /\ parent[q] \in Proc /\ q \in children[parent[q]]
         /\ state[parent[q]] = "ALIVE" /\ ~Exited(parent[q])

TreeInv == /\ TypeOK /\ LocksHeld /\ AliveRuns /\ CreatedUnused /\ TreeLinked
           /\ ExitsCounted /\ ReapFindsZombie

(* A process that has announced its exit to its parent becomes a ZOMBIE    *)
(* and gives back both locks, whoever else holds or wants them.            *)
ExitCompletes ==
  \A p \in Proc : pc[p] = "exit_lock" ~> (pc[p] = "gone" /\ ~listLocked)

=============================================================================

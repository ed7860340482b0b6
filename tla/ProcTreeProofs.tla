--------------------------- MODULE ProcTreeProofs ---------------------------
(***************************************************************************)
(* Proofs about ProcTree, for any finite set of processes.                 *)
(*                                                                         *)
(* TreeInv is inductive: one lemma per conjunct shows that a step of one   *)
(* process preserves it.  The PANIC of wait comes first, because what      *)
(* wait_scan does depends on it: that a zombie is there follows from the   *)
(* count of the exits and from the two locks.                              *)
(***************************************************************************)
EXTENDS ProcTree, FiniteSetTheorems, TLAPS

(* A step of process p, as Next has it.                                    *)
Step(p) == \/ Start(p) \/ Exit(p) \/ Wait(p)
           \/ \E q \in Proc : kill(p, q)

(* The children of p that have exited and were not reaped, and the exit    *)
(* that wait has taken from childexit.                                     *)
Dead(p) == {q \in children[p] : Started(q) /\ Exited(q)}
Token(p) == IF pc[p] \in {"wait_lock", "wait_scan"} THEN 1 ELSE 0

(* There are finitely many of them.                                        *)
LEMMA DeadFinite == ASSUME TypeOK, NEW p \in Proc
                    PROVE  IsFiniteSet(Dead(p)) /\ Cardinality(Dead(p)) \in Nat
BY ProcAssumption, FS_Subset, FS_CardinalityType DEF TypeOK, Dead

(* The same in the next state.                                             *)
LEMMA DeadFiniteNext ==
  ASSUME TypeOK', NEW p \in Proc
  PROVE  IsFiniteSet(Dead(p)') /\ Cardinality(Dead(p)') \in Nat
BY ProcAssumption, FS_Subset, FS_CardinalityType DEF TypeOK, Dead

(* What wait_scan of p does when q is the zombie it finds.                 *)
Reaps(p, q) ==
  /\ pc[p] = "wait_scan" /\ q \in children[p] /\ state[q] = "ZOMBIE"
  /\ children' = [children EXCEPT ![p] = @ \ {q}]
  /\ state' = [state EXCEPT ![q] = "FREE"]
  /\ listLocked' = FALSE
  /\ pc' = [pc EXCEPT ![p] = "run"]
  /\ UNCHANGED <<parent, childexit, killed, schedLocked, new, panic>>

(* wait never reaches its PANIC: when it scans with proc_list_lock, a      *)
(* child that has posted childexit has got to sched_lock, and wait_scan    *)
(* sees it only when sched_lock is free, as a ZOMBIE.                      *)
LEMMA ScanFindsZombie ==
  ASSUME TreeInv, NEW p \in Proc, wait_scan(p)
  PROVE  \E q \in Proc : Reaps(p, q)
<1>1. pc[p] = "wait_scan" /\ ~schedLocked
  BY DEF wait_scan, At
<1>2. childexit[p] + 1 = Cardinality(Dead(p)) /\ childexit[p] \in Nat
  BY <1>1 DEF TreeInv, ExitsCounted, Dead, TypeOK
<1>3. Dead(p) # {}
  BY <1>2, FS_EmptySet
<1>4. PICK q \in Dead(p) : TRUE
  BY <1>3
<1>5. q \in Proc /\ q \in children[p] /\ Started(q) /\ Exited(q)
  BY <1>4 DEF Dead, TreeInv, TypeOK
<1>6. ~HoldsList(q) /\ ~HoldsSched(q)
  BY <1>1, <1>5 DEF TreeInv, LocksHeld, HoldsList, Exited
<1>7. pc[q] = "gone"
  BY <1>5, <1>6 DEF Exited, HoldsList, HoldsSched
<1>8. state[q] = "ZOMBIE"
  BY <1>5, <1>7 DEF Started, TreeInv, AliveRuns
<1>9. {r \in children[p] : state[r] = "ZOMBIE"} # {}
  BY <1>5, <1>8
<1>10. PICK r \in children[p] :
         /\ state[r] = "ZOMBIE"
         /\ children' = [children EXCEPT ![p] = @ \ {r}]
         /\ state' = [state EXCEPT ![r] = "FREE"]
         /\ listLocked' = FALSE
         /\ Goto(p, "run")
         /\ UNCHANGED panic
  BY <1>9 DEF wait_scan
<1>11. r \in Proc
  BY DEF TreeInv, TypeOK
<1>12. UNCHANGED <<parent, childexit, killed, schedLocked, new>>
  BY DEF wait_scan
<1> QED
  BY <1>1, <1>10, <1>11, <1>12 DEF Goto, Reaps

(* The PANIC is not reached by any other step either.                      *)
LEMMA PanicStep == ASSUME TreeInv, NEW p \in Proc, Step(p)
                   PROVE  ReapFindsZombie'
<1>1. CASE wait_scan(p)
  BY <1>1, ScanFindsZombie DEF TreeInv, ReapFindsZombie, Reaps
<1> QED
  BY <1>1 DEF Step, Start, Exit, Wait, create_proc, set_parent_to_this,
              start_proc, activate_proc, kill, exit, exit_lock_for_sched,
              exit_sched, wait, wait_sem, wait_lock, TreeInv, ReapFindsZombie

(* The variables keep their types; childexit never becomes negative.       *)
LEMMA TypeStep == ASSUME TreeInv, NEW p \in Proc, Step(p) PROVE TypeOK'
<1> USE RootAssumption DEF TreeInv, TypeOK, PC, At, Goto, tree, locks
<1>1. ASSUME NEW q \in Proc, create_proc(p, q) PROVE TypeOK'
  BY <1>1 DEF create_proc
<1>2. CASE set_parent_to_this(p)
  BY <1>2 DEF set_parent_to_this, _set_proc_parent, CreatedUnused, Creating
<1>3. CASE start_proc(p)
  BY <1>3 DEF start_proc, _set_proc_parent, CreatedUnused, Creating
<1>4. CASE activate_proc(p)
  BY <1>4 DEF activate_proc
<1>5. ASSUME NEW q \in Proc, kill(p, q) PROVE TypeOK'
  BY <1>5 DEF kill
<1>6. CASE exit(p)
  BY <1>6 DEF exit, TreeAfterExit, TokensMoved
<1>7. CASE exit_lock_for_sched(p)
  BY <1>7 DEF exit_lock_for_sched
<1>8. CASE exit_sched(p)
  BY <1>8 DEF exit_sched
<1>9. CASE wait(p)
  BY <1>9 DEF wait
<1>10. CASE wait_sem(p)
  BY <1>10 DEF wait_sem
<1>11. CASE wait_lock(p)
  BY <1>11 DEF wait_lock
<1>12. CASE wait_scan(p)
  <2>1. PICK q \in Proc : Reaps(p, q)
    BY <1>12, ScanFindsZombie
  <2> QED
    BY <2>1 DEF Reaps
<1> QED
  BY <1>1, <1>2, <1>3, <1>4, <1>5, <1>6, <1>7, <1>8, <1>9, <1>10, <1>11,
     <1>12
     DEF Step, Start, Exit, Wait

(* The locks: only who holds one gives it back.                            *)
LEMMA LocksStep == ASSUME TreeInv, NEW p \in Proc, Step(p) PROVE LocksHeld'
<1> USE DEF TreeInv, TypeOK, LocksHeld, HoldsList, HoldsSched, At, Goto, locks
<1>1. ASSUME NEW q \in Proc, create_proc(p, q) PROVE LocksHeld'
  BY <1>1 DEF create_proc
<1>2. CASE set_parent_to_this(p)
  BY <1>2 DEF set_parent_to_this
<1>3. CASE start_proc(p)
  BY <1>3 DEF start_proc
<1>4. CASE activate_proc(p)
  BY <1>4 DEF activate_proc, CreatedUnused, Creating, AliveRuns
<1>5. ASSUME NEW q \in Proc, kill(p, q) PROVE LocksHeld'
  BY <1>5 DEF kill
<1>6. CASE exit(p)
  BY <1>6 DEF exit
<1>7. CASE exit_lock_for_sched(p)
  BY <1>7 DEF exit_lock_for_sched
<1>8. CASE exit_sched(p)
  BY <1>8 DEF exit_sched
<1>9. CASE wait(p)
  BY <1>9 DEF wait
<1>10. CASE wait_sem(p)
  BY <1>10 DEF wait_sem
<1>11. CASE wait_lock(p)
  BY <1>11 DEF wait_lock
<1>12. CASE wait_scan(p)
  <2>1. PICK q \in Proc : Reaps(p, q)
    BY <1>12, ScanFindsZombie
  <2> QED
    BY <2>1 DEF Reaps
<1> QED
  BY <1>1, <1>2, <1>3, <1>4, <1>5, <1>6, <1>7, <1>8, <1>9, <1>10, <1>11,
     <1>12
     DEF Step, Start, Exit, Wait

(* A process starts to run when it becomes ALIVE and stops when it becomes *)
(* a ZOMBIE; nothing stops the root.                                       *)
LEMMA AliveStep == ASSUME TreeInv, NEW p \in Proc, Step(p) PROVE AliveRuns'
<1> USE RootAssumption
    DEF TreeInv, TypeOK, AliveRuns, Exited, At, Goto, locks
<1>1. ASSUME NEW q \in Proc, create_proc(p, q) PROVE AliveRuns'
  BY <1>1 DEF create_proc
<1>2. CASE set_parent_to_this(p)
  BY <1>2 DEF set_parent_to_this
<1>3. CASE start_proc(p)
  BY <1>3 DEF start_proc
<1>4. CASE activate_proc(p)
  BY <1>4 DEF activate_proc, CreatedUnused, Creating
<1>5. ASSUME NEW q \in Proc, kill(p, q) PROVE AliveRuns'
  BY <1>5 DEF kill
<1>6. CASE exit(p)
  BY <1>6 DEF exit
<1>7. CASE exit_lock_for_sched(p)
  BY <1>7 DEF exit_lock_for_sched
<1>8. CASE exit_sched(p)
  BY <1>8 DEF exit_sched
<1>9. CASE wait(p)
  BY <1>9 DEF wait
<1>10. CASE wait_sem(p)
  BY <1>10 DEF wait_sem
<1>11. CASE wait_lock(p)
  BY <1>11 DEF wait_lock
<1>12. CASE wait_scan(p)
  <2>1. PICK q \in Proc : Reaps(p, q)
    BY <1>12, ScanFindsZombie
  <2> QED
    BY <2>1 DEF Reaps
<1> QED
  BY <1>1, <1>2, <1>3, <1>4, <1>5, <1>6, <1>7, <1>8, <1>9, <1>10, <1>11,
     <1>12
     DEF Step, Start, Exit, Wait

(* A process that was created and not started belongs to its creator.      *)
LEMMA CreatedStep ==
  ASSUME TreeInv, NEW p \in Proc, Step(p) PROVE CreatedUnused'
<1> USE RootAssumption
    DEF TreeInv, TypeOK, CreatedUnused, Creating, At, Goto, locks, tree
<1>1. ASSUME NEW q \in Proc, create_proc(p, q) PROVE CreatedUnused'
  BY <1>1 DEF create_proc, AliveRuns
<1>2. CASE set_parent_to_this(p)
  BY <1>2 DEF set_parent_to_this, _set_proc_parent
<1>3. CASE start_proc(p)
  BY <1>3 DEF start_proc, _set_proc_parent
<1>4. CASE activate_proc(p)
  BY <1>4 DEF activate_proc, AliveRuns
<1>5. ASSUME NEW q \in Proc, kill(p, q) PROVE CreatedUnused'
  BY <1>5 DEF kill
<1>6. CASE exit(p)
  BY <1>6 DEF exit, TreeAfterExit
<1>7. CASE exit_lock_for_sched(p)
  BY <1>7 DEF exit_lock_for_sched
<1>8. CASE exit_sched(p)
  BY <1>8 DEF exit_sched, AliveRuns
<1>9. CASE wait(p)
  BY <1>9 DEF wait
<1>10. CASE wait_sem(p)
  BY <1>10 DEF wait_sem
<1>11. CASE wait_lock(p)
  BY <1>11 DEF wait_lock
<1>12. CASE wait_scan(p)
  <2>1. PICK q \in Proc : Reaps(p, q)
    BY <1>12, ScanFindsZombie
  <2> QED
    BY <2>1 DEF Reaps
<1> QED
  BY <1>1, <1>2, <1>3, <1>4, <1>5, <1>6, <1>7, <1>8, <1>9, <1>10, <1>11,
     <1>12
     DEF Step, Start, Exit, Wait

(* The tree: exit hands every child to the root, and only a zombie, which  *)
(* has no children, is taken out of it.                                    *)
LEMMA LinksStep == ASSUME TreeInv, NEW p \in Proc, Step(p) PROVE TreeLinked'
<1> USE RootAssumption
    DEF TreeInv, TypeOK, TreeLinked, AliveRuns, Exited, At, Goto, locks, tree
<1>1. ASSUME NEW q \in Proc, create_proc(p, q) PROVE TreeLinked'
  BY <1>1 DEF create_proc
<1>2. CASE set_parent_to_this(p)
  BY <1>2 DEF set_parent_to_this, _set_proc_parent, CreatedUnused, Creating
<1>3. CASE start_proc(p)
  BY <1>3 DEF start_proc, _set_proc_parent, CreatedUnused, Creating
<1>4. CASE activate_proc(p)
  BY <1>4 DEF activate_proc, CreatedUnused, Creating
<1>5. ASSUME NEW q \in Proc, kill(p, q) PROVE TreeLinked'
  BY <1>5 DEF kill
<1>6. CASE exit(p)
  BY <1>6 DEF exit, TreeAfterExit
<1>7. CASE exit_lock_for_sched(p)
  BY <1>7 DEF exit_lock_for_sched
<1>8. CASE exit_sched(p)
  BY <1>8 DEF exit_sched
<1>9. CASE wait(p)
  BY <1>9 DEF wait
<1>10. CASE wait_sem(p)
  BY <1>10 DEF wait_sem
<1>11. CASE wait_lock(p)
  BY <1>11 DEF wait_lock
<1>12. CASE wait_scan(p)
  <2>1. PICK q \in Proc : Reaps(p, q)
    BY <1>12, ScanFindsZombie
  <2> QED
    BY <2>1 DEF Reaps
<1> QED
  BY <1>1, <1>2, <1>3, <1>4, <1>5, <1>6, <1>7, <1>8, <1>9, <1>10, <1>11,
     <1>12
     DEF Step, Start, Exit, Wait
(* The count of the exits: it changes with the pc of a child that exits,   *)
(* with the children that exit hands over, and with the zombie that wait   *)
(* takes; everything else leaves the dead children as they are.            *)
LEMMA SameDead ==
  ASSUME TreeInv, TypeOK', NEW p \in Proc,
         Dead(p)' = Dead(p), childexit'[p] + Token(p)' = childexit[p] + Token(p)
  PROVE  childexit'[p] + Token(p)' = Cardinality(Dead(p)')
BY DEF TreeInv, ExitsCounted, Dead, Token

LEMMA CountStep == ASSUME TreeInv, TypeOK', NEW p \in Proc, Step(p)
                   PROVE  ExitsCounted'
<1> SUFFICES ASSUME NEW r \in Proc
             PROVE  childexit'[r] + Token(r)' = Cardinality(Dead(r)')
  BY DEF ExitsCounted, Dead, Token
<1> USE RootAssumption DEF At, Goto, locks, tree
<1>0. childexit[r] + Token(r) = Cardinality(Dead(r)) /\ childexit[r] \in Nat
  BY DEF TreeInv, TypeOK, ExitsCounted, Dead, Token
<1>1. ASSUME NEW q \in Proc, create_proc(p, q)
      PROVE  childexit'[r] + Token(r)' = Cardinality(Dead(r)')
  <2>1. Dead(r)' = Dead(r)
    BY <1>1 DEF create_proc, Dead, Started, Exited, TreeInv, TypeOK,
                TreeLinked, AliveRuns
  <2>2. CASE r = q
    <3>1. Dead(r)' = {} /\ childexit'[r] = 0 /\ Token(r)' = 0
      BY <1>1, <2>2 DEF create_proc, Dead, Token, TreeInv, TypeOK, AliveRuns
    <3> QED
      BY <3>1, FS_EmptySet
  <2>3. CASE r # q
    <3>1. childexit'[r] = childexit[r] /\ Token(r)' = Token(r)
      BY <1>1, <2>3 DEF create_proc, Token, TreeInv, TypeOK
    <3> QED
      BY <2>1, <3>1, SameDead
  <2> QED
    BY <2>2, <2>3
<1>2. CASE set_parent_to_this(p)
  <2>1. Dead(r)' = Dead(r)
    BY <1>2 DEF set_parent_to_this, _set_proc_parent, Dead, Started, Exited,
                TreeInv, TypeOK, CreatedUnused, Creating
  <2>2. childexit'[r] = childexit[r] /\ Token(r)' = Token(r)
    BY <1>2 DEF set_parent_to_this, Token
  <2> QED
    BY <2>1, <2>2, SameDead
<1>3. CASE start_proc(p)
  <2>1. Dead(r)' = Dead(r)
    BY <1>3 DEF start_proc, _set_proc_parent, Dead, Started, Exited,
                TreeInv, TypeOK, CreatedUnused, Creating
  <2>2. childexit'[r] = childexit[r] /\ Token(r)' = Token(r)
    BY <1>3 DEF start_proc, Token, TreeInv, TypeOK
  <2> QED
    BY <2>1, <2>2, SameDead
<1>4. CASE activate_proc(p)
  <2>1. Dead(r)' = Dead(r)
    BY <1>4 DEF activate_proc, Dead, Started, Exited, TreeInv, TypeOK,
                CreatedUnused, Creating
  <2>2. childexit'[r] = childexit[r] /\ Token(r)' = Token(r)
    BY <1>4 DEF activate_proc, Token, TreeInv, TypeOK, CreatedUnused,
                Creating, AliveRuns
  <2> QED
    BY <2>1, <2>2, SameDead
<1>5. ASSUME NEW q \in Proc, kill(p, q)
      PROVE  childexit'[r] + Token(r)' = Cardinality(Dead(r)')
  <2>1. Dead(r)' = Dead(r) /\ childexit'[r] = childexit[r]
          /\ Token(r)' = Token(r)
    BY <1>5 DEF kill, Dead, Started, Exited, Token
  <2> QED
    BY <2>1, SameDead
<1>7. CASE exit_lock_for_sched(p)
  <2>1. Dead(r)' = Dead(r) /\ childexit'[r] = childexit[r]
          /\ Token(r)' = Token(r)
    BY <1>7 DEF exit_lock_for_sched, Dead, Started, Exited, Token, TreeInv,
                TypeOK
  <2> QED
    BY <2>1, SameDead
<1>8. CASE exit_sched(p)
  <2>1. Dead(r)' = Dead(r) /\ childexit'[r] = childexit[r]
          /\ Token(r)' = Token(r)
    BY <1>8 DEF exit_sched, Dead, Started, Exited, Token, TreeInv, TypeOK,
                AliveRuns
  <2> QED
    BY <2>1, SameDead
<1>9. CASE wait(p)
  <2>1. Dead(r)' = Dead(r) /\ childexit'[r] = childexit[r]
          /\ Token(r)' = Token(r)
    BY <1>9 DEF wait, Dead, Started, Exited, Token, TreeInv, TypeOK
  <2> QED
    BY <2>1, SameDead
<1>10. CASE wait_sem(p)
  <2>1. Dead(r)' = Dead(r)
    BY <1>10 DEF wait_sem, Dead, Started, Exited, TreeInv, TypeOK
  <2>2. childexit'[r] + Token(r)' = childexit[r] + Token(r)
    BY <1>10 DEF wait_sem, Token, TreeInv, TypeOK
  <2> QED
    BY <2>1, <2>2, SameDead
<1>11. CASE wait_lock(p)
  <2>1. Dead(r)' = Dead(r) /\ childexit'[r] = childexit[r]
          /\ Token(r)' = Token(r)
    BY <1>11 DEF wait_lock, Dead, Started, Exited, Token, TreeInv, TypeOK
  <2> QED
    BY <2>1, SameDead
<1>12. CASE wait_scan(p)
  <2>1. PICK q \in Proc : Reaps(p, q)
    BY <1>12, ScanFindsZombie
  <2>2. q \in Dead(p)
    BY <2>1 DEF Reaps, Dead, Started, Exited, TreeInv, AliveRuns
  <2>3. Dead(r)' = Dead(r) \ {q}
    BY <2>1 DEF Reaps, Dead, Started, Exited, TreeInv, TypeOK, TreeLinked,
                AliveRuns
  <2>4. CASE r = p
    <3>1. childexit'[r] = childexit[r] /\ Token(r)' = 0 /\ Token(r) = 1
      BY <2>1, <2>4 DEF Reaps, Token, TreeInv, TypeOK
    <3>2. Cardinality(Dead(r)') = Cardinality(Dead(r)) - 1
      BY <2>2, <2>3, <2>4, DeadFinite, FS_RemoveElement DEF TreeInv
    <3> QED
      BY <1>0, <3>1, <3>2, DeadFinite DEF TreeInv
  <2>5. CASE r # p
    <3>1. q \notin Dead(r)
      BY <2>1, <2>5 DEF Reaps, Dead, TreeInv, TreeLinked
    <3>2. Dead(r)' = Dead(r)
      BY <2>3, <3>1
    <3>3. childexit'[r] = childexit[r] /\ Token(r)' = Token(r)
      BY <2>1, <2>5 DEF Reaps, Token, TreeInv, TypeOK
    <3> QED
      BY <3>2, <3>3, SameDead
  <2> QED
    BY <2>4, <2>5
<1>6. CASE exit(p)
  <2>1. /\ pc[p] = "run" /\ p # Root
        /\ pc' = [pc EXCEPT ![p] = "exit_lock"] /\ UNCHANGED state
        /\ children' = [children EXCEPT ![Root] = @ \cup children[p],
                                        ![p] = {}]
        /\ childexit' = [q \in Proc |->
                           IF q = p THEN 0
                           ELSE childexit[q]
                                + (IF q = Root THEN childexit[p] ELSE 0)
                                + (IF q = parent[p] THEN 1 ELSE 0)]
    BY <1>6 DEF exit, TreeAfterExit, TokensMoved
  <2>2. /\ state[p] = "ALIVE" /\ parent[p] \in Proc /\ parent[p] # p
        /\ p \in children[parent[p]]
    BY <2>1 DEF TreeInv, AliveRuns, TreeLinked
  <2>3. childexit[p] = Cardinality(Dead(p)) /\ childexit[p] \in Nat
    BY <2>1 DEF TreeInv, TypeOK, ExitsCounted, Dead
  <2>4. Token(r)' = Token(r)
    BY <2>1 DEF Token, TreeInv, TypeOK
  <2>5. CASE r = p
    <3>1. Dead(r)' = {} /\ childexit'[r] = 0 /\ Token(r) = 0
      BY <2>1, <2>5 DEF Dead, Token, TreeInv, TypeOK
    <3> QED
      BY <2>4, <3>1, FS_EmptySet
  <2> DEFINE Own == IF r = parent[p] THEN {p} ELSE {}
             Moved == IF r = Root THEN Dead(p) ELSE {}
  <2>6. CASE r # p
    <3>1. Dead(r)' = (Dead(r) \cup Own) \cup Moved
      BY <2>1, <2>2, <2>6
         DEF Dead, Started, Exited, TreeInv, TypeOK, TreeLinked
    <3>2. p \notin Dead(r)
      BY <2>1 DEF Dead, Exited
    <3>3. IsFiniteSet(Dead(r)) /\ Cardinality(Dead(r)) \in Nat
      BY DeadFinite DEF TreeInv
    <3>4. /\ IsFiniteSet(Dead(r) \cup Own)
          /\ Cardinality(Dead(r) \cup Own) =
               Cardinality(Dead(r)) + (IF r = parent[p] THEN 1 ELSE 0)
      <4>1. CASE r = parent[p]
        BY <3>2, <3>3, <4>1, FS_AddElement
      <4>2. CASE r # parent[p]
        <5>1. Dead(r) \cup Own = Dead(r)
          BY <4>2
        <5> QED
          BY <3>3, <4>2, <5>1
      <4> QED
        BY <4>1, <4>2
    <3>5. (Dead(r) \cup Own) \cap Moved = {}
      <4>1. p \notin Dead(p)
        BY <2>1 DEF Dead, Exited
      <4>2. Dead(r) \cap Dead(p) = {}
        BY <2>6 DEF Dead, TreeInv, TypeOK, TreeLinked
      <4> QED
        BY <4>1, <4>2
    <3>6. IsFiniteSet(Moved) /\ Cardinality(Moved) =
            IF r = Root THEN childexit[p] ELSE 0
      BY <2>3, DeadFinite, FS_EmptySet DEF TreeInv
    <3> HIDE DEF Own, Moved
    <3>7. Cardinality(Dead(r)') = Cardinality(Dead(r) \cup Own)
                                    + Cardinality(Moved) - Cardinality({})
      BY <3>1, <3>4, <3>5, <3>6, FS_Union
    <3>8. Cardinality(Dead(r)') =
            Cardinality(Dead(r)) + (IF r = parent[p] THEN 1 ELSE 0)
              + (IF r = Root THEN childexit[p] ELSE 0)
      BY <2>3, <3>3, <3>4, <3>6, <3>7, FS_EmptySet
    <3>9. childexit'[r] = childexit[r]
            + (IF r = Root THEN childexit[p] ELSE 0)
            + (IF r = parent[p] THEN 1 ELSE 0)
      BY <2>1, <2>6
    <3>10. Token(r) \in Nat
      BY DEF Token
    <3> QED
      BY <1>0, <2>3, <2>4, <3>3, <3>8, <3>9, <3>10
  <2> QED
    BY <2>5, <2>6
<1> QED
  BY <1>1, <1>2, <1>3, <1>4, <1>5, <1>6, <1>7, <1>8, <1>9, <1>10, <1>11,
     <1>12
     DEF Step, Start, Exit, Wait

(* The system starts with the root process alone.                          *)
LEMMA InitTreeInv == ASSUME Init PROVE TreeInv
<1> USE RootAssumption DEF Init
<1>1. TypeOK
  BY DEF TypeOK, PC
<1>2. LocksHeld /\ AliveRuns /\ CreatedUnused /\ TreeLinked
  BY DEF LocksHeld, HoldsList, HoldsSched, AliveRuns, Exited, CreatedUnused,
         Creating, TreeLinked
<1>3. ExitsCounted
  <2>1. \A p \in Proc : Dead(p) = {} /\ childexit[p] = 0 /\ Token(p) = 0
    BY DEF Dead, Token
  <2> QED
    BY <2>1, FS_EmptySet DEF ExitsCounted, Dead, Token
<1> QED
  BY <1>1, <1>2, <1>3 DEF TreeInv, ReapFindsZombie

(* TreeInv holds in every reachable state: the locks have one holder, the  *)
(* tree is linked both ways, and no exit is lost or counted twice.         *)
THEOREM TreeInvariant == Spec => []TreeInv
<1>1. TreeInv /\ [Next]_vars => TreeInv'
  <2> SUFFICES ASSUME TreeInv, [Next]_vars PROVE TreeInv'
    OBVIOUS
  <2>1. ASSUME NEW p \in Proc, Step(p) PROVE TreeInv'
    BY <2>1, PanicStep, TypeStep, LocksStep, AliveStep, CreatedStep, LinksStep,
       CountStep DEF TreeInv
  <2>2. CASE UNCHANGED vars
    BY <2>2 DEF vars, TreeInv, TypeOK, LocksHeld, HoldsList, HoldsSched,
                AliveRuns, Exited, CreatedUnused, Creating, TreeLinked,
                ExitsCounted, Started, ReapFindsZombie
  <2> QED
    BY <2>1, <2>2 DEF Next, Step
<1> QED
  BY <1>1, InitTreeInv, PTL DEF Spec

(* The parent of a started process is alive and has the process among its  *)
(* children: this->parent in exit (proc.c:87) never dangles, however many  *)
(* processes create, exit and wait.                                        *)
THEOREM ParentsStayAlive == Spec => []ParentsAlive
<1>1. TreeInv => ParentsAlive
  BY RootAssumption DEF TreeInv, ParentsAlive, TreeLinked, Started, TypeOK
<1> QED
  BY <1>1, TreeInvariant, PTL

(* childexit counts exactly the exits that were not waited for, across the *)
(* handing over of a dying process's children to the root (proc.c:64-86).  *)
THEOREM ExitsStayCounted == Spec => []ExitsCounted
<1>1. TreeInv => ExitsCounted
  BY DEF TreeInv
<1> QED
  BY <1>1, TreeInvariant, PTL

(* wait never reaches the PANIC at its end (proc.c:130).                   *)
THEOREM WaitNeverPanics == Spec => []ReapFindsZombie
<1>1. TreeInv => ReapFindsZombie
  BY DEF TreeInv
<1> QED
  BY <1>1, TreeInvariant, PTL
=============================================================================

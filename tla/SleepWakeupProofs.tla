-------------------------- MODULE SleepWakeupProofs --------------------------
(***************************************************************************)
(* Proofs about SleepWakeup: SleepInv is an inductive invariant, for any   *)
(* number of processes, CPUs and semaphores, and the run queue, the        *)
(* kernel stacks, the wait lists and the wakeups are correct in every      *)
(* reachable state.                                                        *)
(***************************************************************************)
EXTENDS SleepWakeup, SequenceTheorems, TLAPS

-----------------------------------------------------------------------------
(* The lists of src/src/common/list.h are sequences here: what inserting   *)
(* and detaching a node does to the nodes of a list that has each of them  *)
(* once.                                                                   *)

(* A node inserted at the end.                                             *)
LEMMA AppendMembers ==
  ASSUME NEW S, NEW q \in Seq(S), NEW x \in S, IsInjective(q), x \notin Range(q)
  PROVE  /\ Append(q, x) \in Seq(S)
         /\ Len(Append(q, x)) = Len(q) + 1
         /\ IsInjective(Append(q, x))
         /\ Range(Append(q, x)) = Range(q) \cup {x}
<1> DEFINE r == Append(q, x)
<1>1. /\ r \in Seq(S)
      /\ Len(r) = Len(q) + 1
      /\ \A i \in 1..Len(q) : r[i] = q[i]
      /\ r[Len(q) + 1] = x
  BY AppendProperties
<1>2. DOMAIN q = 1..Len(q) /\ Len(q) \in Nat /\ DOMAIN r = 1..(Len(q) + 1)
  BY <1>1
<1> HIDE DEF r
<1>3. IsInjective(r)
  BY <1>1, <1>2 DEF IsInjective, Range
<1>4. Range(r) = Range(q) \cup {x}
  BY <1>1, <1>2 DEF Range
<1> QED  BY <1>1, <1>3, <1>4 DEF r

(* A node inserted at the front.                                           *)
LEMMA ConsMembers ==
  ASSUME NEW S, NEW q \in Seq(S), NEW x \in S, IsInjective(q), x \notin Range(q)
  PROVE  /\ <<x>> \o q \in Seq(S)
         /\ IsInjective(<<x>> \o q)
         /\ Range(<<x>> \o q) = Range(q) \cup {x}
<1> DEFINE r == <<x>> \o q
<1>0. <<x>> \in Seq(S) /\ Len(<<x>>) = 1 /\ <<x>>[1] = x
  OBVIOUS
<1>1. /\ r \in Seq(S)
      /\ Len(r) = Len(q) + 1
      /\ \A i \in 1..(Len(q) + 1) : r[i] = IF i <= 1 THEN x ELSE q[i - 1]
  BY <1>0, ConcatProperties
<1>2. DOMAIN q = 1..Len(q) /\ Len(q) \in Nat /\ DOMAIN r = 1..(Len(q) + 1)
  BY <1>1
<1> HIDE DEF r
<1>3. IsInjective(r)
  <2>1. \A i \in DOMAIN q : q[i] # x
    BY DEF Range
  <2> SUFFICES ASSUME NEW i \in 1..(Len(q) + 1), NEW j \in 1..(Len(q) + 1),
                      r[i] = r[j]
               PROVE  i = j
    BY <1>2 DEF IsInjective
  <2>2. CASE i = 1 \/ j = 1
    BY <1>1, <1>2, <2>1, <2>2
  <2>3. CASE i # 1 /\ j # 1
    <3>1. q[i - 1] = q[j - 1] /\ i - 1 \in DOMAIN q /\ j - 1 \in DOMAIN q
      BY <1>1, <1>2, <2>3
    <3>2. i - 1 = j - 1
      BY <3>1 DEF IsInjective
    <3> QED  BY <3>2
  <2> QED  BY <2>2, <2>3
<1>4. Range(r) = Range(q) \cup {x}
  <2>1. \A y \in Range(r) : y \in Range(q) \cup {x}
    BY <1>1, <1>2 DEF Range
  <2>2. x \in Range(r)
    BY <1>1, <1>2 DEF Range
  <2>3. ASSUME NEW i \in 1..Len(q)  PROVE q[i] \in Range(r)
    <3>1. r[i + 1] = q[i] /\ i + 1 \in DOMAIN r
      BY <1>1, <1>2
    <3> QED  BY <3>1 DEF Range
  <2> QED  BY <1>2, <2>1, <2>2, <2>3 DEF Range
<1> QED  BY <1>1, <1>3, <1>4 DEF r

(* The first node is detached.                                             *)
LEMMA TailMembers ==
  ASSUME NEW S, NEW q \in Seq(S), IsInjective(q), q # <<>>
  PROVE  /\ Head(q) \in Range(q)
         /\ Tail(q) \in Seq(S)
         /\ Len(Tail(q)) = Len(q) - 1
         /\ IsInjective(Tail(q))
         /\ Range(Tail(q)) = Range(q) \ {Head(q)}
<1> DEFINE r == Tail(q)
<1>1. /\ r \in Seq(S)
      /\ Len(r) = Len(q) - 1
      /\ \A i \in 1..Len(r) : r[i] = q[i + 1]
  BY HeadTailProperties
<1>2. /\ DOMAIN q = 1..Len(q)
      /\ Len(q) \in Nat \ {0}
      /\ DOMAIN r = 1..(Len(q) - 1)
      /\ Head(q) = q[1]
  BY <1>1
<1> HIDE DEF r
<1>3. IsInjective(r)
  BY <1>1, <1>2 DEF IsInjective
<1>4. Range(r) = Range(q) \ {Head(q)}
  <2>1. \A y \in Range(r) : y \in Range(q) /\ y # q[1]
    BY <1>1, <1>2 DEF Range, IsInjective
  <2>2. ASSUME NEW i \in 1..Len(q), q[i] # q[1]  PROVE q[i] \in Range(r)
    <3>1. r[i - 1] = q[i] /\ i - 1 \in DOMAIN r
      BY <1>1, <1>2, <2>2
    <3> QED  BY <3>1 DEF Range
  <2> QED  BY <1>2, <2>1, <2>2 DEF Range
<1>5. Head(q) \in Range(q)
  BY <1>2 DEF Range
<1> QED  BY <1>1, <1>3, <1>4, <1>5 DEF r

(* One node is detached, wherever it is.                                   *)
LEMMA RemoveMembers ==
  ASSUME NEW S, NEW q \in Seq(S), IsInjective(q), NEW x \in Range(q)
  PROVE  /\ RemoveFirst(q, x) \in Seq(S)
         /\ Len(RemoveFirst(q, x)) = Len(q) - 1
         /\ IsInjective(RemoveFirst(q, x))
         /\ Range(RemoveFirst(q, x)) = Range(q) \ {x}
<1>0. DOMAIN q = 1..Len(q) /\ Len(q) \in Nat /\ \A i \in 1..Len(q) : q[i] \in S
  OBVIOUS
<1>1. PICK k \in 1..Len(q) : q[k] = x
  BY <1>0 DEF Range
<1>2. {i \in 1..Len(q) : q[i] = x} = {k}
  BY <1>0, <1>1 DEF IsInjective
<1>3. Min({k}) = k
  BY DEF Min
<1> DEFINE a == SubSeq(q, 1, k - 1)
           b == SubSeq(q, k + 1, Len(q))
           r == a \o b
<1>4. RemoveFirst(q, x) = r
  BY <1>1, <1>2, <1>3 DEF RemoveFirst, SelectInSeq, RemoveAt
<1>5. /\ a \in Seq(S)
      /\ Len(a) = k - 1
      /\ \A i \in 1..(k - 1) : a[i] = q[i]
  BY <1>0, SubSeqProperties
<1>6. /\ b \in Seq(S)
      /\ Len(b) = Len(q) - k
      /\ \A i \in 1..(Len(q) - k) : b[i] = q[k + i]
  <2>1. \A i \in (k + 1)..Len(q) : q[i] \in S
    BY <1>0
  <2>2. k + 1 \in Int /\ Len(q) \in Int
    BY <1>0
  <2>3. /\ b \in Seq(S)
        /\ Len(b) = IF k + 1 <= Len(q) THEN Len(q) - (k + 1) + 1 ELSE 0
        /\ \A i \in 1..(Len(q) - (k + 1) + 1) : b[i] = q[k + 1 + i - 1]
    BY <2>1, <2>2, SubSeqProperties
  <2> HIDE DEF b
  <2>4. Len(b) = Len(q) - k
    <3>1. Len(b) = IF k + 1 <= Len(q) THEN Len(q) - (k + 1) + 1 ELSE 0
      BY <2>3
    <3>2. Len(q) \in Nat /\ k \in Nat /\ k <= Len(q)
      BY <1>0
    <3>3. CASE k + 1 <= Len(q)
      BY <3>1, <3>2, <3>3
    <3>4. CASE ~(k + 1 <= Len(q))
      <4>1. k = Len(q)
        BY <3>2, <3>4
      <4> QED  BY <3>1, <3>2, <3>4, <4>1
    <3> QED  BY <3>3, <3>4
  <2>5. ASSUME NEW i \in 1..(Len(q) - k)  PROVE b[i] = q[k + i]
    <3>1. i \in 1..(Len(q) - (k + 1) + 1) /\ k + 1 + i - 1 = k + i
      BY <1>0
    <3> QED  BY <2>3, <3>1
  <2> QED  BY <2>3, <2>4, <2>5
<1> HIDE DEF a, b
<1>7. /\ r \in Seq(S)
      /\ Len(r) = Len(q) - 1
      /\ \A i \in 1..(Len(q) - 1) : r[i] = IF i <= k - 1 THEN a[i] ELSE b[i - (k - 1)]
  <2>1. /\ r \in Seq(S)
        /\ Len(r) = Len(a) + Len(b)
        /\ \A i \in 1..(Len(a) + Len(b)) :
             r[i] = IF i <= Len(a) THEN a[i] ELSE b[i - Len(a)]
    BY <1>5, <1>6, ConcatProperties
  <2> HIDE DEF r
  <2> QED  BY <1>0, <1>5, <1>6, <2>1
<1> HIDE DEF r
<1>8. \A i \in 1..(Len(q) - 1) : r[i] = IF i < k THEN q[i] ELSE q[i + 1]
  <2> SUFFICES ASSUME NEW i \in 1..(Len(q) - 1)
               PROVE  r[i] = IF i < k THEN q[i] ELSE q[i + 1]
    OBVIOUS
  <2>1. CASE i < k
    BY <1>0, <1>5, <1>7, <2>1
  <2>2. CASE i >= k
    <3>1. i - (k - 1) \in 1..(Len(q) - k) /\ k + (i - (k - 1)) = i + 1
      BY <1>0, <2>2
    <3>2. r[i] = b[i - (k - 1)]
      <4>1. r[i] = IF i <= k - 1 THEN a[i] ELSE b[i - (k - 1)]
        BY <1>7
      <4>2. ~(i <= k - 1)
        BY <1>0, <2>2
      <4> QED  BY <4>1, <4>2
    <3> QED  BY <1>6, <3>1, <3>2, <2>2
  <2> QED  BY <1>0, <2>1, <2>2
<1>9. DOMAIN r = 1..(Len(q) - 1)
  BY <1>7
<1>10. IsInjective(r)
  <2> SUFFICES ASSUME NEW i \in 1..(Len(q) - 1), NEW j \in 1..(Len(q) - 1),
                      r[i] = r[j]
               PROVE  i = j
    BY <1>9 DEF IsInjective
  <2> DEFINE f(n) == IF n < k THEN n ELSE n + 1
  <2>1. f(i) \in DOMAIN q /\ f(j) \in DOMAIN q /\ q[f(i)] = q[f(j)]
    BY <1>0, <1>8
  <2>2. f(i) = f(j)
    BY <2>1 DEF IsInjective
  <2> QED  BY <1>0, <2>2
<1>11. Range(r) = Range(q) \ {x}
  <2>1. \A i \in 1..(Len(q) - 1) : r[i] \in Range(q) /\ r[i] # x
    BY <1>0, <1>1, <1>8 DEF Range, IsInjective
  <2>2. ASSUME NEW i \in 1..Len(q), q[i] # x  PROVE q[i] \in Range(r)
    <3> DEFINE j == IF i < k THEN i ELSE i - 1
    <3>1. j \in DOMAIN r /\ r[j] = q[i]
      BY <1>0, <1>1, <1>8, <1>9, <2>2
    <3> QED  BY <3>1 DEF Range
  <2> QED  BY <1>0, <1>9, <2>1, <2>2 DEF Range
<1> QED  BY <1>4, <1>7, <1>10, <1>11

-----------------------------------------------------------------------------
(***************************************************************************)
(* The thread a CPU executes is RUNNING, and off a CPU nobody is.          *)
(***************************************************************************)
LEMMA Executing ==
  ASSUME SleepInv, NEW c \in Cpu, NEW x \in Thread, NEW l, At(c, x, l)
  PROVE  /\ state[x] = "RUNNING"
         /\ \A d \in Cpu : cur[d] = x => d = c
         /\ l \in {"sched", "release"} => HasSched(c) /\ schedLocked
BY DEF SleepInv, RunQueueExact, SchedLockHeld, HasSched, At

(***************************************************************************)
(* The scheduler's steps.                                                  *)
(***************************************************************************)
LEMMA SwtchKeeps ==
  ASSUME SleepInv, NEW c \in Cpu, swtch(c)
  PROVE  SleepInv'
<1> USE DEF SleepInv, swtch, locks, sem, args
<1>1. RunQueueExact'
  BY DEF RunQueueExact, TypeOK
<1>2. SchedLockHeld'
  BY DEF SchedLockHeld, HasSched, RunQueueExact, TypeOK
<1>3. IdleReady' /\ SemLockHeld' /\ WaitersListed' /\ SemCount'
  BY DEF IdleReady, SemLockHeld, HasSem, WaitersListed, Waits, SemCount
<1>4. WaitersSleep' /\ WaitersPosted' /\ KillAlerted' /\ NoPanic'
  BY DEF WaitersSleep, WaitersPosted, Waits, Asleep, WakeupPending, KillAlerted,
         AlertPending, NoPanic
<1> QED  BY <1>1, <1>2, <1>3, <1>4

(* yield and exit take sched_lock.                                         *)
LEMMA LeaveKeeps ==
  ASSUME SleepInv, NEW c \in Cpu, NEW x \in Thread, yield(c, x) \/ exit(c, x)
  PROVE  SleepInv'
<1>1. PICK n \in {"RUNNABLE", "ZOMBIE"} :
      /\ ~schedLocked /\ schedLocked' = TRUE
      /\ pc[x] = "run" /\ pc' = [pc EXCEPT ![x] = "sched"]
      /\ want' = [want EXCEPT ![x] = n]
      /\ x \in Cpu => n = "RUNNABLE"
      /\ At(c, x, "run")
      /\ UNCHANGED <<state, cur, stack, queue, killed, semLocked, val, sleeplist,
                     up, on, target, panic>>
  BY ThreadsAssumption
     DEF SleepInv, RunQueueExact, TypeOK, yield, exit, At, LockForSched, Goto,
         sched, sem
<1>2. state[x] = "RUNNING" /\ \A d \in Cpu : cur[d] = x => d = c
  BY <1>1, Executing
<1>3. TypeOK
  BY DEF SleepInv, RunQueueExact
<1>4. /\ pc'[x] = "sched"
      /\ \A y \in Thread : y # x => pc'[y] = pc[y] /\ want'[y] = want[y]
  BY <1>1, <1>3 DEF TypeOK
<1>5. /\ ~Waits(x)
      /\ \A y \in Thread : Waits(y)' <=> Waits(y)
      /\ \A y \in Thread, s \in Sem : HasSem(y, s)' <=> HasSem(y, s)
      /\ \A d \in Cpu : HasSched(d)' <=> (HasSched(d) \/ d = c)
  BY <1>1, <1>2, <1>3, <1>4 DEF Waits, Sleep, HasSem, HasSched, At, TypeOK
<1>6. \A y \in Thread : WakeupPending(y)' <=> WakeupPending(y)
  BY <1>1, <1>4 DEF WakeupPending
<1>7. \A y \in Thread : AlertPending(y)' <=> AlertPending(y)
  BY <1>1, <1>4 DEF AlertPending
<1>8. RunQueueExact'
  <2>1. TypeOK'
    BY <1>1, <1>3 DEF TypeOK, PC
  <2> QED  BY <1>1, <2>1 DEF SleepInv, RunQueueExact
<1>9. SchedLockHeld'
  BY <1>1, <1>2, <1>3, <1>4, <1>5 DEF SleepInv, SchedLockHeld, TypeOK, At
<1>10. IdleReady'
  BY <1>1, <1>3 DEF SleepInv, IdleReady, TypeOK
<1>11. SemLockHeld'
  BY <1>1, <1>5 DEF SleepInv, SemLockHeld
<1>12. WaitersListed'
  BY <1>1, <1>5 DEF SleepInv, WaitersListed
<1>13. SemCount' /\ NoPanic'
  BY <1>1 DEF SleepInv, SemCount, NoPanic
<1>16. WaitersSleep'
  BY <1>1, <1>2, <1>3, <1>4 DEF SleepInv, WaitersSleep, Asleep, Sleep, TypeOK
<1>14. WaitersPosted'
  BY <1>1, <1>2, <1>3, <1>4, <1>5, <1>6
     DEF SleepInv, WaitersPosted, Asleep, Thread, TypeOK
<1>15. KillAlerted'
  BY <1>1, <1>7 DEF SleepInv, KillAlerted
<1> QED  BY <1>8, <1>9, <1>10, <1>11, <1>12, <1>13, <1>14, <1>15, <1>16 DEF SleepInv

(* sched_lock is released by the thread that was resumed, or by a killed   *)
(* one that gives up the switch.                                           *)
LEMMA ReleaseKeeps ==
  ASSUME SleepInv, NEW c \in Cpu, NEW x \in Thread,
         \/ release_sched_lock(c, x)
         \/ simple_sched(c, x) /\ KilledReturns(x)
  PROVE  SleepInv'
<1> DEFINE l == AfterSched(x)
<1>1. /\ pc[x] \in {"sched", "release"}
      /\ pc' = [pc EXCEPT ![x] = l]
      /\ schedLocked' = FALSE
      /\ At(c, x, pc[x])
      /\ l = IF want[x] \in Sleep THEN "recheck" ELSE "run"
      /\ want[x] = "DEEPSLEEPING" => pc[x] = "release"
      /\ panic' = panic \/ panic' = (state[x] # "RUNNING")
      /\ UNCHANGED <<state, cur, stack, queue, killed, semLocked, val, sleeplist,
                     up, want, on, target>>
  BY DEF release_sched_lock, simple_sched, KilledReturns, At, Goto, AfterSched,
         sched, sem, args
<1> HIDE DEF l
<1>2. /\ state[x] = "RUNNING" /\ HasSched(c) /\ schedLocked
      /\ \A d \in Cpu : cur[d] = x => d = c
  BY <1>1, Executing
<1>3. TypeOK
  BY DEF SleepInv, RunQueueExact
<1>4. pc'[x] = l /\ l \in {"recheck", "run"} /\ \A y \in Thread : y # x => pc'[y] = pc[y]
  BY <1>1, <1>3 DEF TypeOK
<1>5. /\ \A y \in Thread : Waits(y)' <=> Waits(y)
      /\ \A y \in Thread, s \in Sem : HasSem(y, s)' <=> HasSem(y, s)
  BY <1>1, <1>3, <1>4 DEF Waits, HasSem, TypeOK
<1>6. \A y \in Thread : WakeupPending(y)' <=> WakeupPending(y)
  BY <1>1, <1>4 DEF WakeupPending
<1>7. \A y \in Thread : AlertPending(y)' <=> AlertPending(y)
  BY <1>1, <1>4 DEF AlertPending
<1>8. RunQueueExact'
  <2>1. TypeOK'
    BY <1>1, <1>2, <1>3, <1>4 DEF TypeOK, PC
  <2> QED  BY <1>1, <2>1 DEF SleepInv, RunQueueExact
<1>9. SchedLockHeld'
  <2>1. \A d \in Cpu : ~HasSched(d)'
    BY <1>1, <1>2, <1>3, <1>4 DEF SleepInv, SchedLockHeld, HasSched, At, TypeOK
  <2>2. \A d \in Cpu : stack[d] = cur[d]
    BY <1>1, <1>2, <1>3 DEF SleepInv, SchedLockHeld, HasSched, At, TypeOK
  <2> QED  BY <1>1, <1>2, <1>4, <2>1, <2>2 DEF SleepInv, SchedLockHeld
<1>10. IdleReady'
  BY <1>1 DEF SleepInv, IdleReady
<1>11. SemLockHeld'
  BY <1>1, <1>5 DEF SleepInv, SemLockHeld
<1>12. WaitersListed'
  BY <1>1, <1>5 DEF SleepInv, WaitersListed
<1>13. SemCount'
  BY <1>1 DEF SleepInv, SemCount
<1>17. NoPanic'
  BY <1>1, <1>2 DEF SleepInv, NoPanic
<1>14. WaitersSleep'
  BY <1>1, <1>2, <1>3, <1>4 DEF SleepInv, WaitersSleep, Asleep, Sleep, TypeOK
<1>15. WaitersPosted'
  BY <1>1, <1>2, <1>3, <1>4, <1>5, <1>6
     DEF SleepInv, WaitersPosted, Asleep, Thread, TypeOK
<1>16. KillAlerted'
  BY <1>1, <1>7 DEF SleepInv, KillAlerted
<1> QED  BY <1>8, <1>9, <1>10, <1>11, <1>12, <1>13, <1>14, <1>15, <1>16, <1>17
         DEF SleepInv

(* The switch: the thread enters its new state and the next one runs.      *)
LEMMA SwitchKeeps ==
  ASSUME SleepInv, NEW c \in Cpu, NEW x \in Thread, simple_sched(c, x),
         ~KilledReturns(x)
  PROVE  SleepInv'
<1> DEFINE q == update_this_state(x)
           left == [state EXCEPT ![x] = want[x]]
           next == pick_next(q, c)
<1>1. /\ pc[x] = "sched" /\ pc' = [pc EXCEPT ![x] = "release"]
      /\ schedLocked' = TRUE
      /\ At(c, x, "sched")
      /\ state' = [left EXCEPT ![next] = "RUNNING"]
      /\ queue' = IF q = <<>> THEN q ELSE Tail(q)
      /\ cur' = [cur EXCEPT ![c] = next]
      /\ panic' = (state[x] # "RUNNING" \/ left[next] # "RUNNABLE")
      /\ UNCHANGED <<stack, killed, semLocked, val, sleeplist, up, want, on, target>>
  BY DEF simple_sched, At, Goto, LockHeldAcrossSwtch, sem, args
<1>2. /\ state[x] = "RUNNING" /\ HasSched(c) /\ schedLocked
      /\ \A d \in Cpu : cur[d] = x => d = c
  BY <1>1, Executing
<1>3. TypeOK
  BY DEF SleepInv, RunQueueExact
<1>4. /\ q \in Seq(Proc) /\ IsInjective(q)
      /\ \A y \in Proc : y \in Range(q) <=> left[y] = "RUNNABLE"
  <2>1. x \in Proc => x \notin Range(queue)
    BY <1>2 DEF SleepInv, RunQueueExact
  <2>2. queue \in Seq(Proc) /\ IsInjective(queue)
    BY DEF SleepInv, RunQueueExact, TypeOK
  <2>3. CASE want[x] = "RUNNABLE" /\ x \notin Cpu
    <3>1. x \in Proc /\ q = Append(queue, x)
      BY <2>3 DEF update_this_state, Thread
    <3>2. q \in Seq(Proc) /\ IsInjective(q) /\ Range(q) = Range(queue) \cup {x}
      BY <2>1, <2>2, <3>1, AppendMembers
    <3> HIDE DEF q
    <3> QED  BY <1>3, <2>3, <3>2 DEF SleepInv, RunQueueExact, TypeOK
  <2>4. CASE ~(want[x] = "RUNNABLE" /\ x \notin Cpu)
    <3>1. q = queue
      BY <2>4 DEF update_this_state
    <3> HIDE DEF q
    <3> QED  BY <1>3, <2>1, <2>2, <2>4, <3>1, ThreadsAssumption
             DEF SleepInv, RunQueueExact, TypeOK
  <2> QED  BY <2>3, <2>4
<1> HIDE DEF q
<1>5. /\ next \in Thread /\ left[next] = "RUNNABLE"
      /\ next \in Cpu => next = c
      /\ queue' \in Seq(Proc) /\ IsInjective(queue')
      /\ \A y \in Proc : y \in Range(queue') <=> left[y] = "RUNNABLE" /\ y # next
  <2>1. CASE q = <<>>
    <3>1. next = c /\ queue' = q
      BY <1>1, <2>1 DEF pick_next
    <3>2. left[c] = "RUNNABLE"
      <4>1. CASE x = c
        BY <1>3, <4>1 DEF SleepInv, IdleReady, TypeOK
      <4>2. CASE x # c
        BY <1>1, <4>2 DEF SleepInv, IdleReady, RunQueueExact, At, Thread
      <4> QED  BY <4>1, <4>2
    <3> QED  BY <1>4, <3>1, <3>2, ThreadsAssumption DEF Thread
  <2>2. CASE q # <<>>
    <3>1. next = Head(q) /\ queue' = Tail(q)
      BY <1>1, <2>2 DEF pick_next
    <3>2. /\ Head(q) \in Range(q)
          /\ Tail(q) \in Seq(Proc) /\ IsInjective(Tail(q))
          /\ Range(Tail(q)) = Range(q) \ {Head(q)}
      BY <1>4, <2>2, TailMembers
    <3>3. Head(q) \in Proc
      BY <1>4, <2>2
    <3> HIDE DEF next, left
    <3> QED  BY <1>4, <3>1, <3>2, <3>3, ThreadsAssumption DEF Thread
  <2> QED  BY <2>1, <2>2
<1> HIDE DEF next
<1>6. /\ \A y \in Thread : state'[y] = IF y = next THEN "RUNNING"
                                        ELSE IF y = x THEN want[x] ELSE state[y]
      /\ next # x => state[next] = "RUNNABLE"
      /\ next = x => want[x] = "RUNNABLE"
      /\ state' \in [Thread -> ProcState]
  BY <1>1, <1>3, <1>5 DEF TypeOK, ProcState
<1>7. /\ pc'[x] = "release"
      /\ \A y \in Thread : y # x => pc'[y] = pc[y]
      /\ cur'[c] = next
      /\ \A d \in Cpu : d # c => cur'[d] = cur[d]
      /\ cur' \in [Cpu -> Thread]
      /\ pc' \in [Thread -> PC]
  BY <1>1, <1>3, <1>5 DEF TypeOK, PC
<1>8. /\ \A y \in Thread : Waits(y)' <=> Waits(y)
      /\ \A y \in Thread, s \in Sem : HasSem(y, s)' <=> HasSem(y, s)
  BY <1>1, <1>3, <1>7 DEF Waits, HasSem, TypeOK
<1>9. \A y \in Thread : WakeupPending(y)' <=> WakeupPending(y)
  BY <1>1, <1>7 DEF WakeupPending
<1>10. \A y \in Thread : AlertPending(y)' <=> AlertPending(y)
  BY <1>1, <1>7 DEF AlertPending
<1>11. \A d \in Cpu : cur[d] \in Thread /\ state[cur[d]] = "RUNNING"
  BY <1>3 DEF SleepInv, RunQueueExact, TypeOK
<1>12. want[x] # "RUNNING" /\ cur[c] = x /\ stack[c] = x
  BY <1>1, <1>3 DEF TypeOK, At
<1>13. NoPanic'
  BY <1>1, <1>2, <1>5 DEF NoPanic
<1>14. RunQueueExact'
  <2>1. TypeOK'
    BY <1>1, <1>3, <1>5, <1>6, <1>7, <1>13 DEF TypeOK, NoPanic
  <2>2. \A p \in Proc : state'[p] = "RUNNABLE" <=> p \in Range(queue')
    BY <1>3, <1>5, <1>6 DEF TypeOK, Thread
  <2>3. \A y \in Thread : state'[y] = "RUNNING" <=> \E d \in Cpu : cur'[d] = y
    <3> SUFFICES ASSUME NEW y \in Thread
                 PROVE  state'[y] = "RUNNING" <=> \E d \in Cpu : cur'[d] = y
      OBVIOUS
    <3>1. CASE y = next
      BY <1>6, <1>7, <3>1
    <3>2. CASE y # next
      <4>1. state'[y] = "RUNNING" <=> y # x /\ state[y] = "RUNNING"
        BY <1>6, <1>12, <3>2
      <4>2. (\E d \in Cpu : cur'[d] = y) <=> \E d \in Cpu : d # c /\ cur[d] = y
        BY <1>7, <3>2
      <4>3. state[y] = "RUNNING" <=> \E d \in Cpu : cur[d] = y
        BY DEF SleepInv, RunQueueExact
      <4> QED  BY <1>2, <1>12, <4>1, <4>2, <4>3
    <3> QED  BY <3>1, <3>2
  <2>4. \A d, e \in Cpu : cur'[d] = cur'[e] => d = e
    BY <1>2, <1>6, <1>7, <1>11, <1>12 DEF SleepInv, RunQueueExact
  <2> QED  BY <1>5, <2>1, <2>2, <2>3, <2>4 DEF RunQueueExact
<1>15. SchedLockHeld'
  <2>1. pc'[next] = "release"
    BY <1>5, <1>6, <1>7 DEF SleepInv, SchedLockHeld
  <2>2. \A d \in Cpu : d # c => ~HasSched(d) /\ ~HasSched(d)'
    BY <1>2, <1>7, <1>11 DEF SleepInv, SchedLockHeld, HasSched
  <2>3. HasSched(c)'
    BY <1>7, <2>1 DEF HasSched
  <2>4. \A d \in Cpu : stack'[d] # cur'[d] =>
          pc'[cur'[d]] = "release" /\ state'[stack'[d]] # "RUNNING"
    <3> SUFFICES ASSUME NEW d \in Cpu, stack[d] # cur'[d]
                 PROVE  pc'[cur'[d]] = "release" /\ state'[stack[d]] # "RUNNING"
      BY <1>1
    <3>1. CASE d = c
      BY <1>6, <1>7, <1>12, <2>1, <3>1
    <3>2. CASE d # c
      BY <1>7, <2>2, <3>2 DEF SleepInv, SchedLockHeld, HasSched
    <3> QED  BY <3>1, <3>2
  <2>5. \A y \in Thread : state'[y] # "RUNNING" => pc'[y] = "release"
    BY <1>6, <1>7 DEF SleepInv, SchedLockHeld
  <2> QED  BY <1>1, <2>2, <2>3, <2>4, <2>5 DEF SchedLockHeld
<1>16. IdleReady'
  <2> SUFFICES ASSUME NEW d \in Cpu
               PROVE  /\ state'[d] \in {"RUNNING", "RUNNABLE"}
                      /\ want[d] = "RUNNABLE"
                      /\ \A e \in Cpu : cur'[e] = d => e = d
    BY <1>1 DEF IdleReady
  <2>1. d \in Thread
    BY DEF Thread
  <2> QED  BY <1>5, <1>6, <1>7, <2>1 DEF SleepInv, IdleReady
<1>17. SemLockHeld'
  BY <1>1, <1>8 DEF SleepInv, SemLockHeld
<1>18. WaitersListed' /\ SemCount'
  BY <1>1, <1>8 DEF SleepInv, WaitersListed, SemCount
<1>19. \A y \in Thread : Asleep(y)' <=> IF y = x THEN want[x] \in Sleep ELSE Asleep(y)
  BY <1>6 DEF Asleep, Sleep
<1>20. WaitersSleep'
  BY <1>1, <1>6, <1>7, <1>19 DEF SleepInv, WaitersSleep, Asleep, Sleep
<1>21. WaitersPosted'
  BY <1>1, <1>3, <1>7, <1>8, <1>9, <1>19 DEF SleepInv, WaitersPosted, Thread, TypeOK
<1>22. KillAlerted'
  BY <1>1, <1>6, <1>10 DEF SleepInv, KillAlerted, KilledReturns
<1> QED  BY <1>13, <1>14, <1>15, <1>16, <1>17, <1>18, <1>20, <1>21, <1>22 DEF SleepInv

(***************************************************************************)
(* Waking a process up, kill and start_proc.                               *)
(***************************************************************************)
(* What _activate_proc does: it needs sched_lock, so the process it wakes  *)
(* has left its CPU, and it keeps the run queue exact.                     *)
LEMMA ActivateFacts ==
  ASSUME SleepInv, NEW p \in Proc, NEW b \in BOOLEAN, _activate_proc(p, b)
  PROVE  /\ ~schedLocked
         /\ \A d \in Cpu : ~HasSched(d) /\ stack[d] = cur[d]
         /\ state' \in [Thread -> ProcState]
         /\ \A y \in Thread : y # p => state'[y] = state[y]
         /\ Asleep(p)' => b /\ state[p] = "DEEPSLEEPING" /\ state'[p] = state[p]
         /\ \/ state'[p] = state[p]
            \/ /\ state[p] \in {"UNUSED", "SLEEPING", "DEEPSLEEPING"}
               /\ b => state[p] # "DEEPSLEEPING"
               /\ state'[p] = "RUNNABLE"
         /\ queue' \in Seq(Proc) /\ IsInjective(queue')
         /\ \A y \in Proc : state'[y] = "RUNNABLE" <=> y \in Range(queue')
         /\ \A y \in Thread : state'[y] = "RUNNING" <=> state[y] = "RUNNING"
<1>1. TypeOK /\ p \in Thread
  BY DEF SleepInv, RunQueueExact, Thread
<1>2. ~schedLocked
  BY DEF _activate_proc
<1>3. \A d \in Cpu : ~HasSched(d) /\ stack[d] = cur[d]
  BY <1>2 DEF SleepInv, SchedLockHeld, HasSched
<1>4. CASE Wakes(p, b)
  <2>1. state' = [state EXCEPT ![p] = "RUNNABLE"] /\ queue' = <<p>> \o queue
    BY <1>4 DEF _activate_proc
  <2>2. /\ state[p] \in {"UNUSED", "SLEEPING", "DEEPSLEEPING"}
        /\ b => state[p] # "DEEPSLEEPING"
    BY <1>4 DEF Wakes
  <2>3. p \notin Range(queue) /\ queue \in Seq(Proc) /\ IsInjective(queue)
    BY <2>2 DEF SleepInv, RunQueueExact, TypeOK
  <2>4. queue' \in Seq(Proc) /\ IsInjective(queue') /\ Range(queue') = Range(queue) \cup {p}
    BY <2>1, <2>3, ConsMembers
  <2>5. /\ state' \in [Thread -> ProcState]
        /\ \A y \in Thread : y # p => state'[y] = state[y]
        /\ state'[p] = "RUNNABLE"
    BY <1>1, <2>1 DEF TypeOK, ProcState
  <2>6. \A y \in Proc : state'[y] = "RUNNABLE" <=> y \in Range(queue')
    BY <2>4, <2>5 DEF SleepInv, RunQueueExact, Thread
  <2> QED  BY <1>2, <1>3, <2>2, <2>4, <2>5, <2>6 DEF Asleep, Sleep
<1>5. CASE ~Wakes(p, b)
  <2>1. UNCHANGED <<state, queue>>
    BY <1>5 DEF _activate_proc
  <2>2. Asleep(p)' => b /\ state[p] = "DEEPSLEEPING"
    BY <1>5, <2>1 DEF Wakes, Asleep, Sleep
  <2> QED  BY <1>1, <1>2, <1>3, <2>1, <2>2 DEF SleepInv, RunQueueExact, TypeOK
<1> QED  BY <1>4, <1>5

LEMMA StartKeeps ==
  ASSUME SleepInv, NEW c \in Cpu, NEW x \in Thread, NEW p \in Proc,
         start_proc(c, x, p)
  PROVE  SleepInv'
<1>1. /\ _activate_proc(p, FALSE)
      /\ state[p] = "UNUSED"
      /\ UNCHANGED <<cur, stack, killed, schedLocked, semLocked, val, sleeplist, up,
                     pc, want, on, target, panic>>
  BY DEF start_proc, locks, sem, args
<1>2. TypeOK /\ p \in Thread /\ pc[p] = "release"
  BY <1>1 DEF SleepInv, RunQueueExact, SchedLockHeld, Thread
<1>3. /\ \A y \in Thread : y # p => state'[y] = state[y]
      /\ state'[p] \in {"UNUSED", "RUNNABLE"}
      /\ \A y \in Thread : Asleep(y)' <=> Asleep(y)
  BY <1>1, <1>2, ActivateFacts DEF Asleep, Sleep
<1>4. \A d \in Cpu : d # p
  BY ThreadsAssumption
<1>5. RunQueueExact'
  <2>1. TypeOK'
    BY <1>1, <1>2, ActivateFacts DEF TypeOK
  <2>2. /\ IsInjective(queue')
        /\ \A y \in Proc : state'[y] = "RUNNABLE" <=> y \in Range(queue')
        /\ \A y \in Thread : state'[y] = "RUNNING" <=> state[y] = "RUNNING"
    BY <1>1, ActivateFacts
  <2> QED  BY <1>1, <2>1, <2>2 DEF SleepInv, RunQueueExact
<1>6. SchedLockHeld'
  <2>1. /\ \A d \in Cpu : ~HasSched(d) /\ stack[d] = cur[d]
        /\ \A y \in Thread : state'[y] = "RUNNING" <=> state[y] = "RUNNING"
    BY <1>1, ActivateFacts
  <2>2. \A d \in Cpu : ~HasSched(d)'
    BY <1>1, <2>1 DEF HasSched
  <2> QED  BY <1>1, <2>1, <2>2 DEF SleepInv, SchedLockHeld
<1>7. IdleReady'
  BY <1>1, <1>3, <1>4 DEF SleepInv, IdleReady, Thread
<1>8. SemLockHeld' /\ WaitersListed' /\ SemCount' /\ NoPanic'
  BY <1>1
     DEF SleepInv, SemLockHeld, HasSem, WaitersListed, Waits, SemCount, NoPanic
<1>9. WaitersSleep'
  BY <1>1, <1>2, <1>3 DEF SleepInv, WaitersSleep, Asleep, Sleep
<1>10. WaitersPosted'
  BY <1>1, <1>3 DEF SleepInv, WaitersPosted, Waits, WakeupPending
<1>11. KillAlerted'
  BY <1>1, <1>2, <1>3 DEF SleepInv, KillAlerted, AlertPending
<1> QED  BY <1>5, <1>6, <1>7, <1>8, <1>9, <1>10, <1>11 DEF SleepInv

LEMMA KillKeeps ==
  ASSUME SleepInv, NEW c \in Cpu, NEW x \in Thread, NEW p \in Proc, kill(c, x, p)
  PROVE  SleepInv'
<1>1. /\ pc[x] = "run" /\ pc' = [pc EXCEPT ![x] = "alert"]
      /\ At(c, x, "run")
      /\ killed' = [killed EXCEPT ![p] = TRUE]
      /\ target' = [target EXCEPT ![x] = p]
      /\ UNCHANGED <<state, cur, stack, queue, schedLocked, semLocked, val, sleeplist,
                     up, want, on, panic>>
  BY DEF kill, At, Goto, sched, locks, sem
<1>2. state[x] = "RUNNING"
  BY <1>1, Executing
<1>3. TypeOK /\ p \in Thread
  BY DEF SleepInv, RunQueueExact, Thread
<1>4. /\ pc'[x] = "alert" /\ target'[x] = p
      /\ \A y \in Thread : y # x => pc'[y] = pc[y] /\ target'[y] = target[y]
      /\ \A y \in Thread : y # p => killed'[y] = killed[y]
  BY <1>1, <1>3 DEF TypeOK
<1>5. /\ ~Waits(x)
      /\ \A y \in Thread : Waits(y)' <=> Waits(y)
      /\ \A y \in Thread, s \in Sem : HasSem(y, s)' <=> HasSem(y, s)
      /\ \A d \in Cpu : HasSched(d)' <=> HasSched(d)
  BY <1>1, <1>3, <1>4 DEF Waits, HasSem, HasSched, TypeOK
<1>6. \A y \in Thread : WakeupPending(y)' <=> WakeupPending(y)
  BY <1>1, <1>4 DEF WakeupPending
<1>7. \A y \in Thread : AlertPending(y)' <=> AlertPending(y) \/ y = p
  BY <1>1, <1>4 DEF AlertPending
<1>8. RunQueueExact'
  <2>1. TypeOK'
    BY <1>1, <1>3 DEF TypeOK, PC
  <2> QED  BY <1>1, <2>1 DEF SleepInv, RunQueueExact
<1>9. SchedLockHeld'
  BY <1>1, <1>2, <1>3, <1>4, <1>5 DEF SleepInv, SchedLockHeld, TypeOK
<1>10. IdleReady'
  BY <1>1 DEF SleepInv, IdleReady
<1>11. SemLockHeld'
  BY <1>1, <1>5 DEF SleepInv, SemLockHeld
<1>12. WaitersListed'
  BY <1>1, <1>5 DEF SleepInv, WaitersListed
<1>13. SemCount' /\ NoPanic'
  BY <1>1 DEF SleepInv, SemCount, NoPanic
<1>14. WaitersSleep'
  BY <1>1, <1>4 DEF SleepInv, WaitersSleep, Asleep
<1>15. WaitersPosted'
  BY <1>1, <1>3, <1>4, <1>5, <1>6 DEF SleepInv, WaitersPosted, Asleep, Thread, TypeOK
<1>16. KillAlerted'
  BY <1>1, <1>4, <1>7 DEF SleepInv, KillAlerted
<1> QED  BY <1>8, <1>9, <1>10, <1>11, <1>12, <1>13, <1>14, <1>15, <1>16 DEF SleepInv

LEMMA AlertKeeps ==
  ASSUME SleepInv, NEW c \in Cpu, NEW x \in Thread, alert_proc(c, x)
  PROVE  SleepInv'
<1> DEFINE p == target[x]
<1>1. /\ _activate_proc(p, TRUE)
      /\ pc[x] = "alert" /\ pc' = [pc EXCEPT ![x] = "run"]
      /\ At(c, x, "alert")
      /\ UNCHANGED <<cur, stack, killed, schedLocked, semLocked, val, sleeplist, up,
                     want, on, target, panic>>
  BY DEF alert_proc, At, Goto, locks, sem, args
<1>2. TypeOK /\ p \in Proc /\ p \in Thread
  BY DEF SleepInv, RunQueueExact, TypeOK, Thread
<1>3. state[x] = "RUNNING"
  BY <1>1, Executing
<1>4. /\ pc'[x] = "run"
      /\ \A y \in Thread : y # x => pc'[y] = pc[y]
  BY <1>1, <1>2 DEF TypeOK
<1>5. /\ \A y \in Thread : y # p => state'[y] = state[y]
      /\ Asleep(p)' => state[p] = "DEEPSLEEPING" /\ state'[p] = state[p]
      /\ state'[p] # state[p] => /\ state[p] \in {"UNUSED", "SLEEPING"}
                                /\ state'[p] = "RUNNABLE"
  BY <1>1, <1>2, ActivateFacts
<1>6. \A d \in Cpu : d # p
  BY <1>2, ThreadsAssumption
<1>7. /\ ~Waits(x)
      /\ \A y \in Thread : Waits(y)' <=> Waits(y)
      /\ \A y \in Thread, s \in Sem : HasSem(y, s)' <=> HasSem(y, s)
      /\ \A d \in Cpu : HasSched(d)' <=> HasSched(d)
  BY <1>1, <1>2, <1>4 DEF Waits, HasSem, HasSched, TypeOK
<1>8. \A y \in Thread : WakeupPending(y)' <=> WakeupPending(y)
  BY <1>1, <1>4 DEF WakeupPending
<1>9. \A y \in Thread : y # p => (AlertPending(y)' <=> AlertPending(y))
  BY <1>1, <1>4 DEF AlertPending
<1>10. RunQueueExact'
  <2>1. TypeOK'
    BY <1>1, <1>2, ActivateFacts DEF TypeOK, PC
  <2>2. /\ IsInjective(queue')
        /\ \A y \in Proc : state'[y] = "RUNNABLE" <=> y \in Range(queue')
        /\ \A y \in Thread : state'[y] = "RUNNING" <=> state[y] = "RUNNING"
    BY <1>1, <1>2, ActivateFacts
  <2> QED  BY <1>1, <2>1, <2>2 DEF SleepInv, RunQueueExact
<1>11. SchedLockHeld'
  <2>1. /\ \A d \in Cpu : ~HasSched(d) /\ stack[d] = cur[d]
        /\ \A y \in Thread : state'[y] = "RUNNING" <=> state[y] = "RUNNING"
    BY <1>1, <1>2, ActivateFacts
  <2> QED  BY <1>1, <1>3, <1>4, <1>7, <2>1 DEF SleepInv, SchedLockHeld
<1>12. IdleReady'
  BY <1>1, <1>5, <1>6 DEF SleepInv, IdleReady, Thread
<1>13. SemLockHeld' /\ WaitersListed'
  BY <1>1, <1>7 DEF SleepInv, SemLockHeld, WaitersListed
<1>14. SemCount' /\ NoPanic'
  BY <1>1 DEF SleepInv, SemCount, NoPanic
<1>15. WaitersSleep'
  BY <1>1, <1>2, <1>4, <1>5 DEF SleepInv, WaitersSleep, Asleep, Sleep
<1>16. WaitersPosted'
  BY <1>1, <1>2, <1>4, <1>5, <1>7, <1>8
     DEF SleepInv, WaitersPosted, Asleep, Sleep, Thread, TypeOK
<1>17. KillAlerted'
  BY <1>1, <1>5, <1>9 DEF SleepInv, KillAlerted, Asleep, Sleep
<1> QED  BY <1>10, <1>11, <1>12, <1>13, <1>14, <1>15, <1>16, <1>17 DEF SleepInv

(***************************************************************************)
(* The semaphores' steps.                                                  *)
(***************************************************************************)
(* The value changes where nobody waits: get_sem, get_all_sem, a wait that *)
(* does not sleep and a post that finds nobody.                            *)
LEMMA ValueKeeps ==
  ASSUME SleepInv, NEW s \in Sem, NEW n \in Int,
         val[s] >= 0, n >= 0, val' = [val EXCEPT ![s] = n],
         UNCHANGED <<state, killed, cur, stack, queue, schedLocked, semLocked,
                     sleeplist, up, pc, want, on, target, panic>>
  PROVE  SleepInv'
<1>1. RunQueueExact'
  BY DEF SleepInv, RunQueueExact, TypeOK
<1>2. SemCount'
  BY DEF SleepInv, SemCount, RunQueueExact, TypeOK
<1>3. SchedLockHeld' /\ IdleReady' /\ SemLockHeld' /\ WaitersListed'
  BY DEF SleepInv, SchedLockHeld, HasSched, IdleReady, SemLockHeld, HasSem,
         WaitersListed, Waits
<1>4. WaitersSleep' /\ WaitersPosted' /\ KillAlerted' /\ NoPanic'
  BY DEF SleepInv, WaitersSleep, WaitersPosted, Waits, Asleep, WakeupPending,
         KillAlerted, AlertPending, NoPanic
<1> QED  BY <1>1, <1>2, <1>3, <1>4 DEF SleepInv

LEMMA GetKeeps ==
  ASSUME SleepInv, NEW c \in Cpu, NEW x \in Thread, NEW s \in Sem, get_sem(c, x, s)
  PROVE  SleepInv'
<1>1. val[s] \in Int /\ val[s] > 0 /\ val[s] >= 0
  BY DEF SleepInv, RunQueueExact, TypeOK, get_sem
<1>2. PICK n \in {val[s] - 1, 0} : val' = [val EXCEPT ![s] = n]
  BY DEF get_sem
<1>3. n \in Int /\ n >= 0
  BY <1>1, <1>2
<1>4. UNCHANGED <<state, killed, cur, stack, queue, schedLocked, semLocked,
                  sleeplist, up, pc, want, on, target, panic>>
  BY DEF get_sem, sched, locks, args
<1> QED  BY <1>1, <1>2, <1>3, <1>4, ValueKeeps

LEMMA WaitKeeps ==
  ASSUME SleepInv, NEW c \in Cpu, NEW x \in Thread, NEW s \in Sem, NEW n \in Sleep,
         _wait_sem(c, x, s, n)
  PROVE  SleepInv'
<1>1. TypeOK /\ val[s] \in Int
  BY DEF SleepInv, RunQueueExact, TypeOK
<1>2. CASE val[s] - 1 >= 0
  <2>1. /\ val' = [val EXCEPT ![s] = val[s] - 1]
        /\ UNCHANGED <<state, killed, cur, stack, queue, schedLocked, semLocked,
                       sleeplist, up, pc, want, on, target, panic>>
    BY <1>2 DEF _wait_sem, sched
  <2>2. val[s] >= 0 /\ val[s] - 1 \in Int
    BY <1>1, <1>2
  <2> QED  BY <1>2, <2>1, <2>2, ValueKeeps
<1>3. CASE ~(val[s] - 1 >= 0)
  <2>1. /\ x \in Proc /\ ~semLocked[s]
        /\ pc[x] = "run" /\ pc' = [pc EXCEPT ![x] = "lock_for_sched"]
        /\ At(c, x, "run")
        /\ val' = [val EXCEPT ![s] = val[s] - 1]
        /\ sleeplist' = [sleeplist EXCEPT ![s] = Append(sleeplist[s], x)]
        /\ up' = [up EXCEPT ![x] = FALSE]
        /\ semLocked' = [semLocked EXCEPT ![s] = TRUE]
        /\ want' = [want EXCEPT ![x] = n]
        /\ on' = [on EXCEPT ![x] = s]
        /\ UNCHANGED <<state, cur, stack, queue, killed, schedLocked, target, panic>>
    BY <1>3 DEF _wait_sem, At, Goto, SemLockedUntilSched, sched
  <2>2. state[x] = "RUNNING"
    BY <2>1, Executing
  <2>3. /\ ~Waits(x)
        /\ \A t \in Sem : x \notin Range(sleeplist[t])
    BY <2>1 DEF Waits, SleepInv, WaitersListed
  <2>4. sleeplist[s] \in Seq(Proc) /\ IsInjective(sleeplist[s])
    BY <1>1 DEF TypeOK, SleepInv, WaitersListed
  <2>5. /\ sleeplist'[s] \in Seq(Proc) /\ Len(sleeplist'[s]) = Len(sleeplist[s]) + 1
        /\ IsInjective(sleeplist'[s]) /\ Range(sleeplist'[s]) = Range(sleeplist[s]) \cup {x}
        /\ \A t \in Sem : t # s => sleeplist'[t] = sleeplist[t]
        /\ sleeplist' \in [Sem -> Seq(Proc)]
    <3>1. /\ Append(sleeplist[s], x) \in Seq(Proc)
          /\ Len(Append(sleeplist[s], x)) = Len(sleeplist[s]) + 1
          /\ IsInjective(Append(sleeplist[s], x))
          /\ Range(Append(sleeplist[s], x)) = Range(sleeplist[s]) \cup {x}
      BY <2>1, <2>3, <2>4, AppendMembers
    <3> QED  BY <1>1, <2>1, <3>1 DEF TypeOK
  <2>6. /\ pc'[x] = "lock_for_sched" /\ want'[x] = n /\ up'[x] = FALSE /\ on'[x] = s
        /\ \A y \in Thread : y # x => /\ pc'[y] = pc[y] /\ want'[y] = want[y]
                                      /\ up'[y] = up[y] /\ on'[y] = on[y]
    BY <1>1, <2>1 DEF TypeOK
  <2>7. /\ \A y \in Thread : Waits(y)' <=> Waits(y) \/ y = x
        /\ \A y \in Thread, t \in Sem : HasSem(y, t)' <=> HasSem(y, t) \/ (y = x /\ t = s)
        /\ \A d \in Cpu : HasSched(d)' <=> HasSched(d)
    BY <1>1, <2>1, <2>6 DEF Waits, HasSem, HasSched, TypeOK
  <2>8. \A y \in Thread : WakeupPending(y)' <=> WakeupPending(y)
    BY <2>1, <2>6 DEF WakeupPending
  <2>9. \A y \in Thread : AlertPending(y)' <=> AlertPending(y)
    BY <2>1, <2>6 DEF AlertPending
  <2>10. RunQueueExact'
    <3>1. TypeOK'
      BY <1>1, <2>1, <2>5 DEF TypeOK, PC, Sleep
    <3> QED  BY <2>1, <3>1 DEF SleepInv, RunQueueExact
  <2>11. SchedLockHeld'
    BY <1>1, <2>1, <2>2, <2>6, <2>7 DEF SleepInv, SchedLockHeld, TypeOK
  <2>12. IdleReady'
    BY <2>1, <2>6, ThreadsAssumption DEF SleepInv, IdleReady, Thread
  <2>13. SemLockHeld'
    BY <1>1, <2>1, <2>7 DEF SleepInv, SemLockHeld, TypeOK
  <2>14. WaitersListed'
    BY <2>3, <2>5, <2>6, <2>7 DEF SleepInv, WaitersListed
  <2>15. SemCount'
    BY <1>1, <1>3, <2>1, <2>5 DEF SleepInv, SemCount, TypeOK
  <2>16. WaitersSleep'
    BY <2>1, <2>2, <2>6 DEF SleepInv, WaitersSleep, Asleep, Sleep
  <2>17. WaitersPosted'
    BY <1>1, <2>1, <2>3, <2>6, <2>7, <2>8
       DEF SleepInv, WaitersPosted, Asleep, Thread, TypeOK
  <2>18. KillAlerted' /\ NoPanic'
    BY <2>1, <2>9 DEF SleepInv, KillAlerted, NoPanic
  <2> QED  BY <2>10, <2>11, <2>12, <2>13, <2>14, <2>15, <2>16, <2>17, <2>18 DEF SleepInv
<1> QED  BY <1>2, <1>3

LEMMA LockForSchedKeeps ==
  ASSUME SleepInv, NEW c \in Cpu, NEW x \in Thread, lock_for_sched(c, x)
  PROVE  SleepInv'
<1>1. /\ ~schedLocked /\ schedLocked' = TRUE
      /\ pc[x] = "lock_for_sched" /\ pc' = [pc EXCEPT ![x] = "sched"]
      /\ At(c, x, "lock_for_sched")
      /\ semLocked' = [semLocked EXCEPT ![on[x]] = FALSE]
      /\ want' = [want EXCEPT ![x] = want[x]]
      /\ UNCHANGED <<state, cur, stack, queue, killed, val, sleeplist, up, on,
                     target, panic>>
  BY DEF lock_for_sched, LockForSched, At, Goto, sched, sem
<1>2. state[x] = "RUNNING" /\ \A d \in Cpu : cur[d] = x => d = c
  BY <1>1, Executing
<1>3. TypeOK
  BY DEF SleepInv, RunQueueExact
<1>4. /\ pc'[x] = "sched" /\ want' = want /\ on[x] \in Sem
      /\ \A y \in Thread : y # x => pc'[y] = pc[y]
  BY <1>1, <1>3 DEF TypeOK
<1>5. /\ Waits(x) /\ ~up[x] /\ HasSem(x, on[x])
      /\ \A y \in Thread : Waits(y)' <=> Waits(y)
      /\ \A y \in Thread, s \in Sem : HasSem(y, s)' <=> HasSem(y, s) /\ y # x
      /\ \A d \in Cpu : HasSched(d)' <=> HasSched(d) \/ d = c
  BY <1>1, <1>2, <1>3, <1>4 DEF SleepInv, WaitersSleep, Waits, HasSem, HasSched, At, TypeOK
<1>6. \A y \in Thread : WakeupPending(y)' <=> WakeupPending(y)
  BY <1>1, <1>4 DEF WakeupPending
<1>7. \A y \in Thread : AlertPending(y)' <=> AlertPending(y)
  BY <1>1, <1>4 DEF AlertPending
<1>8. RunQueueExact'
  <2>1. TypeOK'
    BY <1>1, <1>3, <1>4 DEF TypeOK, PC
  <2> QED  BY <1>1, <2>1 DEF SleepInv, RunQueueExact
<1>9. SchedLockHeld'
  BY <1>1, <1>2, <1>3, <1>4, <1>5 DEF SleepInv, SchedLockHeld, TypeOK, At
<1>10. IdleReady'
  BY <1>1, <1>4 DEF SleepInv, IdleReady
<1>11. SemLockHeld'
  <2> SUFFICES ASSUME NEW s \in Sem
               PROVE  /\ semLocked'[s] <=> \E y \in Thread : HasSem(y, s)'
                      /\ \A y, z \in Thread : HasSem(y, s)' /\ HasSem(z, s)' => y = z
    BY DEF SemLockHeld
  <2>1. CASE s = on[x]
    BY <1>1, <1>3, <1>4, <1>5, <2>1 DEF SleepInv, SemLockHeld, TypeOK
  <2>2. CASE s # on[x]
    <3>1. semLocked'[s] = semLocked[s]
      BY <1>1, <1>3, <2>2 DEF TypeOK
    <3>2. \A y \in Thread : HasSem(y, s)' <=> HasSem(y, s)
      BY <1>5, <2>2 DEF HasSem
    <3> QED  BY <3>1, <3>2 DEF SleepInv, SemLockHeld
  <2> QED  BY <2>1, <2>2
<1>12. WaitersListed'
  BY <1>1, <1>5 DEF SleepInv, WaitersListed
<1>13. SemCount' /\ NoPanic'
  BY <1>1 DEF SleepInv, SemCount, NoPanic
<1>14. WaitersSleep'
  BY <1>1, <1>4 DEF SleepInv, WaitersSleep, Asleep
<1>15. WaitersPosted'
  BY <1>1, <1>2, <1>3, <1>4, <1>5, <1>6
     DEF SleepInv, WaitersPosted, Asleep, Thread, TypeOK
<1>16. KillAlerted'
  BY <1>1, <1>7 DEF SleepInv, KillAlerted
<1> QED  BY <1>8, <1>9, <1>10, <1>11, <1>12, <1>13, <1>14, <1>15, <1>16 DEF SleepInv

LEMMA RecheckKeeps ==
  ASSUME SleepInv, NEW c \in Cpu, NEW x \in Thread, recheck(c, x)
  PROVE  SleepInv'
<1> DEFINE s == on[x]
<1>1. /\ pc[x] = "recheck" /\ pc' = [pc EXCEPT ![x] = "run"]
      /\ At(c, x, "recheck")
      /\ ~semLocked[s]
      /\ UNCHANGED <<state, cur, stack, queue, killed, schedLocked, semLocked, up,
                     want, on, target>>
  BY DEF recheck, At, Goto, sched, locks, args
<1>2. state[x] = "RUNNING"
  BY <1>1, Executing
<1>3. TypeOK /\ s \in Sem /\ x \in Thread
  BY DEF SleepInv, RunQueueExact, TypeOK
<1>4. /\ Waits(x)
      /\ want[x] = "DEEPSLEEPING" => up[x]
      /\ ~up[x] => x \in Range(sleeplist[s])
  BY <1>1, <1>2, <1>3
     DEF SleepInv, WaitersSleep, WaitersListed, Waits, Asleep, Sleep
<1>5. sleeplist[s] \in Seq(Proc) /\ IsInjective(sleeplist[s])
  BY <1>3 DEF TypeOK, SleepInv, WaitersListed
<1>6. /\ val' \in [Sem -> Int] /\ sleeplist' \in [Sem -> Seq(Proc)] /\ ~panic'
      /\ panic' \in BOOLEAN
      /\ \A t \in Sem : IsInjective(sleeplist'[t])
      /\ \A t \in Sem : Range(sleeplist'[t]) = Range(sleeplist[t]) \ {x}
      /\ SemCount'
  <2>1. CASE up[x]
    <3>1. UNCHANGED <<val, sleeplist, panic>>
      BY <2>1 DEF recheck
    <3>2. \A t \in Sem : x \notin Range(sleeplist[t])
      BY <2>1 DEF SleepInv, WaitersListed
    <3>3. /\ val' \in [Sem -> Int] /\ sleeplist' \in [Sem -> Seq(Proc)] /\ ~panic'
          /\ panic' \in BOOLEAN
      BY <1>3, <3>1 DEF SleepInv, NoPanic, TypeOK
    <3> QED  BY <3>1, <3>2, <3>3 DEF SleepInv, WaitersListed, SemCount
  <2>2. CASE ~up[x]
    <3>1. /\ val' = [val EXCEPT ![s] = val[s] + 1]
          /\ sleeplist' = [sleeplist EXCEPT ![s] = RemoveFirst(sleeplist[s], x)]
          /\ panic' = (val[s] + 1 > 0 \/ want[x] = "DEEPSLEEPING")
      BY <2>2 DEF recheck, Forget
    <3>2. /\ RemoveFirst(sleeplist[s], x) \in Seq(Proc)
          /\ Len(RemoveFirst(sleeplist[s], x)) = Len(sleeplist[s]) - 1
          /\ IsInjective(RemoveFirst(sleeplist[s], x))
          /\ Range(RemoveFirst(sleeplist[s], x)) = Range(sleeplist[s]) \ {x}
      BY <1>4, <1>5, <2>2, RemoveMembers
    <3>3. sleeplist'[s] = RemoveFirst(sleeplist[s], x)
          /\ \A t \in Sem : t # s => sleeplist'[t] = sleeplist[t]
      BY <1>3, <3>1 DEF TypeOK
    <3>4. \A t \in Sem : t # s => x \notin Range(sleeplist[t])
      BY DEF SleepInv, WaitersListed
    <3>5. Len(sleeplist[s]) > 0 /\ val[s] < 0 /\ val[s] \in Int /\ Len(sleeplist[s]) = -val[s]
      <4>1. sleeplist[s] # <<>>
        BY <1>4, <2>2 DEF Range
      <4>2. Len(sleeplist[s]) \in Nat /\ Len(sleeplist[s]) # 0
        BY <1>5, <4>1
      <4>3. val[s] \in Int /\ Len(sleeplist[s]) = IF val[s] < 0 THEN -val[s] ELSE 0
        BY <1>3 DEF SleepInv, SemCount, TypeOK
      <4> QED  BY <4>2, <4>3
    <3>6. ~panic' /\ panic' \in BOOLEAN
      <4>1. ~(val[s] + 1 > 0)
        BY <3>5
      <4> QED  BY <1>4, <2>2, <3>1, <4>1
    <3>7. val' \in [Sem -> Int] /\ sleeplist' \in [Sem -> Seq(Proc)]
      BY <1>3, <3>1, <3>2 DEF TypeOK
    <3>8. SemCount'
      <4> SUFFICES ASSUME NEW t \in Sem
                   PROVE  Len(sleeplist'[t]) = IF val'[t] < 0 THEN -val'[t] ELSE 0
        BY DEF SemCount
      <4>1. CASE t = s
        <5>1. val'[t] = val[s] + 1
          BY <1>3, <3>1, <4>1 DEF TypeOK
        <5> QED  BY <3>2, <3>3, <3>5, <4>1, <5>1
      <4>2. CASE t # s
        BY <1>3, <3>1, <3>3, <4>2 DEF SleepInv, SemCount, TypeOK
      <4> QED  BY <4>1, <4>2
    <3>9. \A t \in Sem : IsInjective(sleeplist'[t])
      BY <3>2, <3>3 DEF SleepInv, WaitersListed
    <3> QED  BY <3>2, <3>3, <3>4, <3>6, <3>7, <3>8, <3>9
  <2> QED  BY <2>1, <2>2
<1>7. /\ pc'[x] = "run"
      /\ \A y \in Thread : y # x => pc'[y] = pc[y]
  BY <1>1, <1>3 DEF TypeOK
<1>8. /\ \A y \in Thread : Waits(y)' <=> Waits(y) /\ y # x
      /\ \A y \in Thread, t \in Sem : HasSem(y, t)' <=> HasSem(y, t)
      /\ \A d \in Cpu : HasSched(d)' <=> HasSched(d)
  BY <1>1, <1>3, <1>7 DEF Waits, HasSem, HasSched, TypeOK
<1>9. \A y \in Thread : WakeupPending(y)' <=> WakeupPending(y)
  BY <1>1, <1>7 DEF WakeupPending
<1>10. \A y \in Thread : AlertPending(y)' <=> AlertPending(y)
  BY <1>1, <1>7 DEF AlertPending
<1>11. RunQueueExact'
  <2>1. TypeOK'
    BY <1>1, <1>3, <1>6 DEF TypeOK, PC
  <2> QED  BY <1>1, <2>1 DEF SleepInv, RunQueueExact
<1>12. SchedLockHeld'
  BY <1>1, <1>2, <1>3, <1>7, <1>8 DEF SleepInv, SchedLockHeld, TypeOK
<1>13. IdleReady'
  BY <1>1 DEF SleepInv, IdleReady
<1>14. SemLockHeld'
  BY <1>1, <1>8 DEF SleepInv, SemLockHeld
<1>15. WaitersListed'
  BY <1>1, <1>6, <1>8 DEF SleepInv, WaitersListed
<1>16. NoPanic'
  BY <1>6 DEF NoPanic
<1>17. WaitersSleep'
  BY <1>1, <1>7 DEF SleepInv, WaitersSleep, Asleep
<1>18. WaitersPosted'
  (* The lock is free, so nobody is about to activate x.                   *)
  <2>1. \A y \in Thread : pc[y] \in {"activate", "activate_all"} => on[y] # s
    BY <1>1, <1>3 DEF SleepInv, SemLockHeld, HasSem
  <2>2. \A y \in Thread : pc[y] \in {"activate", "activate_all"} => target[y] # x
    BY <2>1 DEF SleepInv, WaitersPosted
  <2> QED  BY <1>1, <1>3, <1>7, <1>8, <1>9, <2>2
           DEF SleepInv, WaitersPosted, Asleep, Thread, TypeOK
<1>19. KillAlerted'
  BY <1>1, <1>10 DEF SleepInv, KillAlerted
<1> QED  BY <1>6, <1>11, <1>12, <1>13, <1>14, <1>15, <1>16, <1>17, <1>18, <1>19
         DEF SleepInv

(* What Pop does for the head h of the list, a waiter that was not posted. *)
Popped(x, s, l, h) ==
  /\ h \in Proc
  /\ Waits(h) /\ ~up[h] /\ on[h] = s
  /\ up' = [up EXCEPT ![h] = TRUE]
  /\ target' = [target EXCEPT ![x] = h]
  /\ pc' = [pc EXCEPT ![x] = l]
  /\ panic' = panic
  /\ val' \in [Sem -> Int]
  /\ sleeplist' \in [Sem -> Seq(Proc)]
  /\ \A t \in Sem : IsInjective(sleeplist'[t])
  /\ \A t \in Sem : Range(sleeplist'[t]) = Range(sleeplist[t]) \ {h}
  /\ SemCount'

LEMMA PopFacts ==
  ASSUME SleepInv, NEW x \in Thread, NEW s \in Sem, NEW l, val[s] < 0, Pop(x, s, l),
         NEW h, h = Head(sleeplist[s])
  PROVE  Popped(x, s, l, h)
<1>1. TypeOK
  BY DEF SleepInv, RunQueueExact
<1>2. sleeplist[s] \in Seq(Proc) /\ IsInjective(sleeplist[s])
  BY <1>1 DEF TypeOK, SleepInv, WaitersListed
<1>3. val[s] \in Int /\ Len(sleeplist[s]) = -val[s] /\ sleeplist[s] # <<>>
  <2>1. val[s] \in Int /\ Len(sleeplist[s]) = -val[s]
    BY <1>1 DEF SleepInv, SemCount, TypeOK
  <2>2. Len(sleeplist[s]) # 0
    BY <2>1
  <2> QED  BY <1>2, <2>1, <2>2
<1>4. /\ val' = [val EXCEPT ![s] = val[s] + 1]
      /\ sleeplist' = [sleeplist EXCEPT ![s] = Tail(sleeplist[s])]
      /\ up' = [up EXCEPT ![h] = TRUE]
      /\ target' = [target EXCEPT ![x] = h]
      /\ pc' = [pc EXCEPT ![x] = l]
      /\ panic' = panic
  BY <1>3 DEF Pop, Goto
<1>5. /\ h \in Range(sleeplist[s])
      /\ Tail(sleeplist[s]) \in Seq(Proc)
      /\ Len(Tail(sleeplist[s])) = Len(sleeplist[s]) - 1
      /\ IsInjective(Tail(sleeplist[s]))
      /\ Range(Tail(sleeplist[s])) = Range(sleeplist[s]) \ {h}
  BY <1>2, <1>3, TailMembers
<1>6. h \in Proc
  BY <1>2, <1>3
<1>7. Waits(h) /\ ~up[h] /\ on[h] = s
  BY <1>5, <1>6 DEF SleepInv, WaitersListed, Thread
<1>8. /\ sleeplist'[s] = Tail(sleeplist[s])
      /\ \A t \in Sem : t # s => sleeplist'[t] = sleeplist[t] /\ h \notin Range(sleeplist[t])
  BY <1>1, <1>4, <1>6, <1>7 DEF SleepInv, WaitersListed, TypeOK, Thread
<1>9. val' \in [Sem -> Int] /\ sleeplist' \in [Sem -> Seq(Proc)]
  BY <1>1, <1>3, <1>4, <1>5 DEF TypeOK
<1>10. \A t \in Sem : IsInjective(sleeplist'[t])
  BY <1>5, <1>8 DEF SleepInv, WaitersListed
<1>11. \A t \in Sem : Range(sleeplist'[t]) = Range(sleeplist[t]) \ {h}
  BY <1>5, <1>8
<1>12. SemCount'
  <2> SUFFICES ASSUME NEW t \in Sem
               PROVE  Len(sleeplist'[t]) = IF val'[t] < 0 THEN -val'[t] ELSE 0
    BY DEF SemCount
  <2>1. CASE t = s
    <3>1. val'[t] = val[s] + 1
      BY <1>1, <1>4, <2>1 DEF TypeOK
    <3>2. Len(sleeplist'[t]) = -val[s] - 1
      BY <1>3, <1>5, <1>8, <2>1
    <3> QED  BY <1>3, <3>1, <3>2
  <2>2. CASE t # s
    BY <1>1, <1>4, <1>8, <2>2 DEF SleepInv, SemCount, TypeOK
  <2> QED  BY <2>1, <2>2
<1> QED  BY <1>4, <1>6, <1>7, <1>9, <1>10, <1>11, <1>12 DEF Popped

LEMMA PostKeeps ==
  ASSUME SleepInv, NEW c \in Cpu, NEW x \in Thread, NEW s \in Sem,
         post_sem(c, x, s) \/ post_all_sem(c, x, s)
  PROVE  SleepInv'
<1>1. TypeOK /\ val[s] \in Int
  BY DEF SleepInv, RunQueueExact, TypeOK
<1>2. CASE val[s] + 1 > 0
  <2>1. post_sem(c, x, s)
    BY <1>1, <1>2 DEF post_all_sem
  <2>2. /\ val' = [val EXCEPT ![s] = val[s] + 1]
        /\ UNCHANGED <<state, killed, cur, stack, queue, schedLocked, semLocked,
                       sleeplist, up, pc, want, on, target, panic>>
    BY <1>2, <2>1 DEF post_sem, sched
  <2>3. val[s] >= 0 /\ val[s] + 1 >= 0 /\ val[s] + 1 \in Int
    BY <1>1, <1>2
  <2> QED  BY <2>2, <2>3, ValueKeeps
<1>3. CASE ~(val[s] + 1 > 0)
  <2>1. PICK l \in {"activate", "activate_all"} :
          /\ Pop(x, s, l)
          /\ At(c, x, "run") /\ pc[x] = "run" /\ ~semLocked[s]
          /\ semLocked' = [semLocked EXCEPT ![s] = TRUE]
          /\ on' = [on EXCEPT ![x] = s]
          /\ UNCHANGED <<state, cur, stack, queue, killed, schedLocked, want>>
    BY <1>3 DEF post_sem, post_all_sem, At, sched
  <2>2. val[s] < 0
    BY <1>1, <1>3
  <2> DEFINE h == Head(sleeplist[s])
  <2>3. /\ h \in Proc
        /\ Waits(h) /\ ~up[h] /\ on[h] = s
        /\ up' = [up EXCEPT ![h] = TRUE]
        /\ target' = [target EXCEPT ![x] = h]
        /\ pc' = [pc EXCEPT ![x] = l]
        /\ panic' = panic
        /\ val' \in [Sem -> Int]
        /\ sleeplist' \in [Sem -> Seq(Proc)]
        /\ \A t \in Sem : IsInjective(sleeplist'[t])
        /\ \A t \in Sem : Range(sleeplist'[t]) = Range(sleeplist[t]) \ {h}
        /\ SemCount'
    BY <2>1, <2>2, PopFacts DEF Popped
  <2> HIDE DEF h
  <2>4. state[x] = "RUNNING"
    BY <2>1, Executing
  <2>5. h \in Thread /\ h # x /\ ~Waits(x)
    BY <2>1, <2>3 DEF Waits, Thread
  <2>6. /\ pc'[x] = l /\ target'[x] = h /\ on'[x] = s /\ up'[h] = TRUE
        /\ \A y \in Thread : y # x => /\ pc'[y] = pc[y] /\ target'[y] = target[y]
                                      /\ on'[y] = on[y]
        /\ \A y \in Thread : y # h => up'[y] = up[y]
    BY <1>1, <2>1, <2>3, <2>5 DEF TypeOK
  <2>7. /\ \A y \in Thread : Waits(y)' <=> Waits(y)
        /\ \A y \in Thread, t \in Sem : HasSem(y, t)' <=> HasSem(y, t) \/ (y = x /\ t = s)
        /\ \A d \in Cpu : HasSched(d)' <=> HasSched(d)
    BY <1>1, <2>1, <2>6 DEF Waits, HasSem, HasSched, TypeOK
  <2>8. \A y \in Thread : WakeupPending(y)' <=> WakeupPending(y) \/ y = h
    BY <2>1, <2>6 DEF WakeupPending
  <2>9. \A y \in Thread : AlertPending(y)' <=> AlertPending(y)
    BY <2>1, <2>6 DEF AlertPending
  <2>10. RunQueueExact'
    <3>1. TypeOK'
      BY <1>1, <2>1, <2>3 DEF TypeOK, PC
    <3> QED  BY <2>1, <3>1 DEF SleepInv, RunQueueExact
  <2>11. SchedLockHeld'
    BY <1>1, <2>1, <2>4, <2>6, <2>7 DEF SleepInv, SchedLockHeld, TypeOK
  <2>12. IdleReady'
    BY <2>1 DEF SleepInv, IdleReady
  <2>13. SemLockHeld'
    BY <1>1, <2>1, <2>7 DEF SleepInv, SemLockHeld, TypeOK
  <2>14. WaitersListed'
    <3> SUFFICES ASSUME NEW y \in Thread, NEW t \in Sem
                 PROVE  y \in Range(sleeplist'[t]) <=> Waits(y)' /\ ~up'[y] /\ on'[y] = t
      BY <2>3 DEF WaitersListed
    <3>1. y \in Range(sleeplist[t]) <=> Waits(y) /\ ~up[y] /\ on[y] = t
      BY DEF SleepInv, WaitersListed
    <3>2. CASE y = h
      BY <2>3, <2>6, <3>2
    <3>3. CASE y # h
      BY <2>3, <2>5, <2>6, <2>7, <3>1, <3>3
    <3> QED  BY <3>2, <3>3
  <2>15. WaitersSleep'
    <3>1. pc[h] # "lock_for_sched"
      BY <2>1, <2>3, <2>5 DEF SleepInv, SemLockHeld, HasSem
    <3> QED  BY <2>1, <2>5, <2>6, <3>1 DEF SleepInv, WaitersSleep, Asleep
  <2>16. WaitersPosted'
    <3>1. \A y \in Thread :
            Waits(y)' /\ up'[y] /\ (pc'[y] = "sched" \/ Asleep(y)') => WakeupPending(y)'
      BY <2>1, <2>5, <2>6, <2>7, <2>8 DEF SleepInv, WaitersPosted, Asleep
    <3>2. ASSUME NEW y \in Thread, pc'[y] \in {"activate", "activate_all"}
          PROVE  (Waits(target[y]) /\ up[target[y]] /\ on[target[y]] = on[y])'
      <4>1. CASE y = x
        BY <2>3, <2>5, <2>6, <2>7, <4>1
      <4>2. CASE y # x
        <5>1. /\ target'[y] = target[y] /\ target[y] \in Thread
              /\ Waits(target[y]) /\ up[target[y]] /\ on[target[y]] = on[y]
          BY <1>1, <2>6, <3>2, <4>2 DEF SleepInv, WaitersPosted, Thread, TypeOK
        <5> QED  BY <2>3, <2>5, <2>6, <2>7, <4>2, <5>1
      <4> QED  BY <4>1, <4>2
    <3> QED  BY <3>1, <3>2 DEF WaitersPosted
  <2>17. KillAlerted'
    BY <2>1, <2>9 DEF SleepInv, KillAlerted
  <2>18. NoPanic'
    BY <2>3 DEF SleepInv, NoPanic
  <2> QED  BY <2>3, <2>10, <2>11, <2>12, <2>13, <2>14, <2>15, <2>16, <2>17, <2>18
           DEF SleepInv
<1> QED  BY <1>2, <1>3

(* A post activates the waiter it took out, and the last one releases the  *)
(* lock.                                                                   *)
LEMMA ActivateKeeps ==
  ASSUME SleepInv, NEW c \in Cpu, NEW x \in Thread,
         \/ activate(c, x)
         \/ activate_all(c, x) /\ ~(val[on[x]] < 0)
  PROVE  SleepInv'
<1>0. PICK h \in Proc : h = target[x]
  BY DEF SleepInv, RunQueueExact, TypeOK
<1>1. /\ pc[x] \in {"activate", "activate_all"}
      /\ At(c, x, pc[x])
      /\ _activate_proc(h, FALSE)
      /\ semLocked' = [semLocked EXCEPT ![on[x]] = FALSE]
      /\ pc' = [pc EXCEPT ![x] = "run"]
      /\ UNCHANGED <<cur, stack, killed, schedLocked, val, sleeplist, up, want, on,
                     target, panic>>
  BY <1>0 DEF activate, activate_all, At, Goto, sem, args
<1>2. TypeOK /\ h \in Proc /\ h \in Thread /\ on[x] \in Sem
  BY DEF SleepInv, RunQueueExact, TypeOK, Thread
<1>3. state[x] = "RUNNING"
  BY <1>1, Executing
<1>4. /\ pc'[x] = "run"
      /\ \A y \in Thread : y # x => pc'[y] = pc[y]
  BY <1>1, <1>2 DEF TypeOK
<1>5. /\ \A y \in Thread : y # h => state'[y] = state[y]
      /\ ~Asleep(h)'
      /\ state'[h] # state[h] =>
           state[h] \in {"UNUSED", "SLEEPING", "DEEPSLEEPING"} /\ state'[h] = "RUNNABLE"
      /\ \A y \in Thread : state'[y] = "RUNNING" <=> state[y] = "RUNNING"
      /\ \A d \in Cpu : ~HasSched(d) /\ stack[d] = cur[d]
  BY <1>1, <1>2, ActivateFacts
<1>6. \A d \in Cpu : d # h
  BY <1>2, ThreadsAssumption
<1>7. /\ HasSem(x, on[x]) /\ ~Waits(x)
      /\ \A y \in Thread : Waits(y)' <=> Waits(y)
      /\ \A y \in Thread, t \in Sem : HasSem(y, t)' <=> HasSem(y, t) /\ y # x
      /\ \A d \in Cpu : HasSched(d)' <=> HasSched(d)
  BY <1>1, <1>2, <1>4 DEF Waits, HasSem, HasSched, TypeOK
<1>8. \A y \in Thread : y # h => (WakeupPending(y)' <=> WakeupPending(y))
  BY <1>0, <1>1, <1>4 DEF WakeupPending
<1>9. \A y \in Thread : AlertPending(y)' <=> AlertPending(y)
  BY <1>1, <1>4 DEF AlertPending
<1>10. Waits(h) /\ up[h] /\ on[h] = on[x]
  BY <1>0, <1>1 DEF SleepInv, WaitersPosted
<1>11. RunQueueExact'
  <2>1. TypeOK'
    BY <1>1, <1>2, ActivateFacts DEF TypeOK, PC
  <2>2. /\ IsInjective(queue')
        /\ \A y \in Proc : state'[y] = "RUNNABLE" <=> y \in Range(queue')
    BY <1>1, <1>2, ActivateFacts
  <2> QED  BY <1>1, <1>5, <2>1, <2>2 DEF SleepInv, RunQueueExact
<1>12. SchedLockHeld'
  BY <1>1, <1>3, <1>4, <1>5, <1>7 DEF SleepInv, SchedLockHeld
<1>13. IdleReady'
  BY <1>1, <1>5, <1>6 DEF SleepInv, IdleReady, Thread
<1>14. SemLockHeld'
  <2> SUFFICES ASSUME NEW s \in Sem
               PROVE  /\ semLocked'[s] <=> \E y \in Thread : HasSem(y, s)'
                      /\ \A y, z \in Thread : HasSem(y, s)' /\ HasSem(z, s)' => y = z
    BY DEF SemLockHeld
  <2>1. CASE s = on[x]
    BY <1>1, <1>2, <1>7, <2>1 DEF SleepInv, SemLockHeld, TypeOK
  <2>2. CASE s # on[x]
    <3>1. semLocked'[s] = semLocked[s]
      BY <1>1, <1>2, <2>2 DEF TypeOK
    <3>2. \A y \in Thread : HasSem(y, s)' <=> HasSem(y, s)
      BY <1>7, <2>2 DEF HasSem
    <3> QED  BY <3>1, <3>2 DEF SleepInv, SemLockHeld
  <2> QED  BY <2>1, <2>2
<1>15. WaitersListed' /\ SemCount' /\ NoPanic'
  BY <1>1, <1>7 DEF SleepInv, WaitersListed, SemCount, NoPanic
<1>16. WaitersSleep'
  BY <1>1, <1>4, <1>5, <1>10 DEF SleepInv, WaitersSleep, Asleep, Sleep
<1>17. WaitersPosted'
  <2>1. pc[h] # "sched"
    BY <1>2, <1>5 DEF SleepInv, RunQueueExact, SchedLockHeld, HasSched
  <2>2. \A y \in Thread : Asleep(y)' => Asleep(y) /\ y # h
    BY <1>5 DEF Asleep
  <2> QED  BY <1>1, <1>2, <1>4, <1>7, <1>8, <2>1, <2>2
           DEF SleepInv, WaitersPosted, Thread, TypeOK
<1>18. KillAlerted'
  BY <1>1, <1>5, <1>9 DEF SleepInv, KillAlerted, Asleep, Sleep
<1> QED  BY <1>11, <1>12, <1>13, <1>14, <1>15, <1>16, <1>17, <1>18 DEF SleepInv

(* post_all_sem keeps the lock and goes on to the next waiter.             *)
LEMMA ActivateAllKeeps ==
  ASSUME SleepInv, NEW c \in Cpu, NEW x \in Thread, activate_all(c, x),
         val[on[x]] < 0
  PROVE  SleepInv'
<1>0. PICK p \in Proc, s \in Sem : p = target[x] /\ s = on[x] /\ val[s] < 0
  BY DEF SleepInv, RunQueueExact, TypeOK
<1>h. PICK h : h = Head(sleeplist[s])
  OBVIOUS
<1>1. /\ pc[x] = "activate_all"
      /\ At(c, x, "activate_all")
      /\ _activate_proc(p, FALSE)
      /\ Pop(x, s, "activate_all")
      /\ UNCHANGED <<cur, stack, killed, schedLocked, semLocked, want, on>>
  BY <1>0 DEF activate_all, At
<1>2. TypeOK /\ p \in Proc /\ p \in Thread /\ s \in Sem
  BY DEF SleepInv, RunQueueExact, TypeOK, Thread
<1>3. /\ h \in Proc
      /\ Waits(h) /\ ~up[h] /\ on[h] = s
      /\ up' = [up EXCEPT ![h] = TRUE]
      /\ target' = [target EXCEPT ![x] = h]
      /\ pc' = [pc EXCEPT ![x] = "activate_all"]
      /\ panic' = panic
      /\ val' \in [Sem -> Int]
      /\ sleeplist' \in [Sem -> Seq(Proc)]
      /\ \A t \in Sem : IsInjective(sleeplist'[t])
      /\ \A t \in Sem : Range(sleeplist'[t]) = Range(sleeplist[t]) \ {h}
      /\ SemCount'
  <2>1. Popped(x, s, "activate_all", h)
    BY <1>0, <1>h, <1>1, PopFacts
  <2> QED  BY <2>1 DEF Popped
<1>4. state[x] = "RUNNING"
  BY <1>1, Executing
<1>5. Waits(p) /\ up[p] /\ on[p] = s /\ p # h /\ h \in Thread
  BY <1>0, <1>1, <1>3 DEF SleepInv, WaitersPosted, Thread
<1>6. /\ pc' = pc /\ target'[x] = h /\ up'[h] = TRUE
      /\ \A y \in Thread : y # x => target'[y] = target[y]
      /\ \A y \in Thread : y # h => up'[y] = up[y]
  BY <1>1, <1>2, <1>3, <1>5 DEF TypeOK
<1>7. /\ \A y \in Thread : y # p => state'[y] = state[y]
      /\ ~Asleep(p)'
      /\ state'[p] # state[p] =>
           state[p] \in {"UNUSED", "SLEEPING", "DEEPSLEEPING"} /\ state'[p] = "RUNNABLE"
      /\ \A y \in Thread : state'[y] = "RUNNING" <=> state[y] = "RUNNING"
      /\ \A d \in Cpu : ~HasSched(d) /\ stack[d] = cur[d]
  BY <1>1, <1>2, ActivateFacts
<1>8. \A d \in Cpu : d # p
  BY <1>2, ThreadsAssumption
<1>9. /\ \A y \in Thread : Waits(y)' <=> Waits(y)
      /\ \A y \in Thread, t \in Sem : HasSem(y, t)' <=> HasSem(y, t)
      /\ \A d \in Cpu : HasSched(d)' <=> HasSched(d)
  BY <1>1, <1>6 DEF Waits, HasSem, HasSched
<1>10. \A y \in Thread : y # p => (WakeupPending(y)' <=> WakeupPending(y) \/ y = h)
  BY <1>0, <1>1, <1>6 DEF WakeupPending
<1>11. \A y \in Thread : AlertPending(y)' <=> AlertPending(y)
  BY <1>1, <1>6 DEF AlertPending
<1>12. RunQueueExact'
  <2>1. TypeOK'
    <3>1. state' \in [Thread -> ProcState] /\ queue' \in Seq(Proc)
      BY <1>1, <1>2, ActivateFacts
    <3> QED  BY <1>1, <1>2, <1>3, <1>6, <3>1 DEF TypeOK
  <2>2. /\ IsInjective(queue')
        /\ \A y \in Proc : state'[y] = "RUNNABLE" <=> y \in Range(queue')
    BY <1>1, <1>2, ActivateFacts
  <2> QED  BY <1>1, <1>7, <2>1, <2>2 DEF SleepInv, RunQueueExact
<1>13. SchedLockHeld'
  BY <1>1, <1>6, <1>7, <1>9 DEF SleepInv, SchedLockHeld
<1>14. IdleReady'
  BY <1>1, <1>7, <1>8 DEF SleepInv, IdleReady, Thread
<1>15. SemLockHeld'
  BY <1>1, <1>9 DEF SleepInv, SemLockHeld
<1>16. WaitersListed'
  <2> SUFFICES ASSUME NEW y \in Thread, NEW t \in Sem
               PROVE  y \in Range(sleeplist'[t]) <=> Waits(y)' /\ ~up'[y] /\ on'[y] = t
    BY <1>3 DEF WaitersListed
  <2>1. y \in Range(sleeplist[t]) <=> Waits(y) /\ ~up[y] /\ on[y] = t
    BY DEF SleepInv, WaitersListed
  <2>2. CASE y = h
    BY <1>3, <1>6, <2>2
  <2>3. CASE y # h
    BY <1>1, <1>3, <1>6, <1>9, <2>1, <2>3
  <2> QED  BY <2>2, <2>3
<1>17. WaitersSleep'
  <2>1. pc[h] # "lock_for_sched"
    <3>1. HasSem(x, s) /\ (pc[h] = "lock_for_sched" => HasSem(h, s))
      BY <1>0, <1>1, <1>3 DEF HasSem
    <3>2. pc[h] = "lock_for_sched" => h = x
      BY <1>2, <1>5, <3>1 DEF SleepInv, SemLockHeld
    <3> QED  BY <1>1, <3>2
  <2>2. \A y \in Thread : up[y] => up'[y]
    BY <1>6
  <2> QED  BY <1>1, <1>5, <1>6, <1>7, <2>1, <2>2 DEF SleepInv, WaitersSleep, Asleep, Sleep
<1>18. WaitersPosted'
  <2>1. pc[p] # "sched"
    BY <1>2, <1>7 DEF SleepInv, RunQueueExact, SchedLockHeld, HasSched
  <2>2. \A y \in Thread : Asleep(y)' => Asleep(y) /\ y # p
    BY <1>7 DEF Asleep
  <2>3. \A y \in Thread :
          Waits(y)' /\ up'[y] /\ (pc'[y] = "sched" \/ Asleep(y)') => WakeupPending(y)'
    BY <1>1, <1>6, <1>9, <1>10, <2>1, <2>2 DEF SleepInv, WaitersPosted
  <2>4. ASSUME NEW y \in Thread, pc'[y] \in {"activate", "activate_all"}
        PROVE  (Waits(target[y]) /\ up[target[y]] /\ on[target[y]] = on[y])'
    <3>1. CASE y = x
      BY <1>0, <1>1, <1>3, <1>5, <1>6, <1>9, <3>1
    <3>2. CASE y # x
      <4>1. /\ target'[y] = target[y] /\ target[y] \in Thread
            /\ Waits(target[y]) /\ up[target[y]] /\ on[target[y]] = on[y]
        BY <1>2, <1>6, <2>4, <3>2 DEF SleepInv, WaitersPosted, Thread, TypeOK
      <4> QED  BY <1>1, <1>6, <1>9, <3>2, <4>1
    <3> QED  BY <3>1, <3>2
  <2> QED  BY <2>3, <2>4 DEF WaitersPosted
<1>19. KillAlerted'
  BY <1>1, <1>7, <1>11 DEF SleepInv, KillAlerted, Asleep, Sleep
<1>20. NoPanic'
  BY <1>3 DEF SleepInv, NoPanic
<1> QED  BY <1>3, <1>12, <1>13, <1>14, <1>15, <1>16, <1>17, <1>18, <1>19, <1>20
         DEF SleepInv

-----------------------------------------------------------------------------
LEMMA InitSleepInv == Init => SleepInv
<1> SUFFICES ASSUME Init  PROVE SleepInv
  OBVIOUS
<1>1. \A x \in Thread : x \in Cpu \/ x \in Proc
  BY DEF Thread
<1>2. (CHOOSE s \in Sem : TRUE) \in Sem
  BY SemAssumption
<1>3. TypeOK
  <2>1. state \in [Thread -> ProcState] /\ pc \in [Thread -> PC]
    BY DEF Init, ProcState, PC
  <2>2. cur \in [Cpu -> Thread] /\ stack \in [Cpu -> Thread]
    BY DEF Init, Thread
  <2>3. queue \in Seq(Proc) /\ sleeplist \in [Sem -> Seq(Proc)]
    BY ThreadsAssumption DEF Init
  <2>4. on \in [Thread -> Sem]
    BY <1>2 DEF Init
  <2>5. /\ killed \in [Thread -> BOOLEAN] /\ schedLocked \in BOOLEAN
        /\ semLocked \in [Sem -> BOOLEAN] /\ up \in [Thread -> BOOLEAN]
        /\ panic \in BOOLEAN
    BY Zenon DEF Init
  <2>7. val \in [Sem -> Int]
    BY DEF Init
  <2>6. /\ want \in [Thread -> {"RUNNABLE", "SLEEPING", "DEEPSLEEPING", "ZOMBIE"}]
        /\ target \in [Thread -> Proc]
    BY ThreadsAssumption DEF Init
  <2> QED  BY <2>1, <2>2, <2>3, <2>4, <2>5, <2>6, <2>7 DEF TypeOK
<1>4. Range(queue) = {Root} /\ IsInjective(queue)
  BY DEF Init, Range, IsInjective
<1>5. RunQueueExact
  BY <1>1, <1>3, <1>4, ThreadsAssumption DEF Init, RunQueueExact, Thread
<1>6. SchedLockHeld /\ IdleReady
  BY <1>1, ThreadsAssumption DEF Init, SchedLockHeld, HasSched, IdleReady, Thread
<1>7. SemLockHeld
  BY DEF Init, SemLockHeld, HasSem
<1>8. \A s \in Sem : Range(sleeplist[s]) = {} /\ IsInjective(sleeplist[s])
  BY DEF Init, Range, IsInjective
<1>9. WaitersListed
  BY <1>8 DEF Init, WaitersListed, Waits, Sleep
<1>10. SemCount /\ NoPanic
  BY DEF Init, SemCount, NoPanic
<1>11. WaitersSleep /\ WaitersPosted /\ KillAlerted
  BY <1>1 DEF Init, WaitersSleep, WaitersPosted, Waits, Asleep, Sleep, KillAlerted
<1> QED  BY <1>5, <1>6, <1>7, <1>9, <1>10, <1>11 DEF SleepInv

LEMMA StutterSleepInv == SleepInv /\ UNCHANGED vars => SleepInv'
BY DEF SleepInv, vars, RunQueueExact, TypeOK, SchedLockHeld, HasSched, IdleReady,
       SemLockHeld, HasSem, WaitersListed, Waits, SemCount, WaitersSleep,
       WaitersPosted, Asleep, WakeupPending, KillAlerted, AlertPending, NoPanic

LEMMA NextSleepInv == SleepInv /\ [Next]_vars => SleepInv'
<1> SUFFICES ASSUME SleepInv, Next  PROVE SleepInv'
  BY StutterSleepInv
<1>1. PICK c \in Cpu : Step(c)
  BY DEF Next
<1>2. CASE swtch(c)
  BY <1>2, SwtchKeeps
<1>3. ASSUME NEW x \in Thread, Schedule(c, x)  PROVE SleepInv'
  BY <1>3, ReleaseKeeps, SwitchKeeps, LeaveKeeps DEF Schedule
<1>4. ASSUME NEW x \in Thread, Signal(c, x)  PROVE SleepInv'
  BY <1>4, StartKeeps, KillKeeps, AlertKeeps DEF Signal
<1>5. ASSUME NEW x \in Thread, Semaphore(c, x)  PROVE SleepInv'
  BY <1>5, WaitKeeps, PostKeeps, GetKeeps, LockForSchedKeeps, RecheckKeeps,
     ActivateKeeps, ActivateAllKeeps
     DEF Semaphore, Sleep
<1> QED  BY <1>1, <1>2, <1>3, <1>4, <1>5 DEF Step

(* SleepInv holds in every reachable state: sched.c's and sem.c's locks    *)
(* have one holder each, and lists, states and wakeups agree.              *)
THEOREM SleepInvariant == Spec => []SleepInv
BY InitSleepInv, NextSleepInv, PTL DEF Spec

(* The run queue holds exactly the RUNNABLE processes, once each, and the  *)
(* RUNNING threads are the current threads of distinct CPUs (sched.c:97-   *)
(* 190).                                                                   *)
THEOREM RunQueueStaysExact == Spec => []RunQueueExact
<1>1. SleepInv => RunQueueExact
  BY DEF SleepInv
<1> QED  BY <1>1, SleepInvariant, PTL

(* Two CPUs never run on one kernel stack and none runs on the stack of a  *)
(* ZOMBIE that wait may free (sched.c:185-190, proc.c:119-126).            *)
THEOREM StacksStayExclusive == Spec => []StackExclusive
<1>1. SleepInv => StackExclusive
  <2> SUFFICES ASSUME SleepInv  PROVE StackExclusive
    OBVIOUS
  <2>1. \A c \in Cpu : ~HasSched(c) => stack[c] = cur[c]
    BY DEF SleepInv, SchedLockHeld, HasSched
  <2>2. \A c \in Cpu : cur[c] \in Thread /\ stack[c] \in Thread
    BY DEF SleepInv, RunQueueExact, TypeOK
  <2>3. \A c \in Cpu : state[cur[c]] = "RUNNING"
    BY <2>2 DEF SleepInv, RunQueueExact
  <2>4. ASSUME NEW c \in Cpu, NEW d \in Cpu, stack[c] = stack[d], c # d
        PROVE  FALSE
    <3>1. ~HasSched(c) \/ ~HasSched(d)
      BY <2>4 DEF SleepInv, SchedLockHeld
    <3>2. \A e \in Cpu : stack[e] # cur[e] => state[stack[e]] # "RUNNING"
      BY DEF SleepInv, SchedLockHeld
    <3>3. cur[c] # cur[d]
      BY <2>4 DEF SleepInv, RunQueueExact
    <3> QED  BY <2>1, <2>3, <2>4, <3>1, <3>2, <3>3
  <2>5. ~schedLocked => \A c \in Cpu : state[stack[c]] # "ZOMBIE"
    BY <2>1, <2>3 DEF SleepInv, SchedLockHeld
  <2> QED  BY <2>4, <2>5 DEF StackExclusive
<1> QED  BY <1>1, SleepInvariant, PTL

(* A negative value of a semaphore is the number of threads in its list    *)
(* (the ASSERTs of sem.c:82 and 95).                                       *)
THEOREM SemaphoresCount == Spec => []SemCount
<1>1. SleepInv => SemCount
  BY DEF SleepInv
<1> QED  BY <1>1, SleepInvariant, PTL

(* A sleeper is in the list of its semaphore or is about to be activated   *)
(* by the thread that took it out (sem.c:63-101 against sched.c:97-190).   *)
THEOREM WakeupsAreNotLost == Spec => []NoLostWakeup
<1>1. SleepInv => NoLostWakeup
  <2> SUFFICES ASSUME SleepInv, NEW p \in Proc, Asleep(p)
               PROVE  \/ ~up[p] /\ p \in Range(sleeplist[on[p]])
                      \/ WakeupPending(p)
    BY DEF NoLostWakeup
  <2>1. p \in Thread /\ on[p] \in Sem
    BY DEF Thread, SleepInv, RunQueueExact, TypeOK
  <2>2. Waits(p)
    BY <2>1 DEF SleepInv, SchedLockHeld, WaitersSleep, Waits, Asleep, Sleep
  <2> QED  BY <2>1, <2>2 DEF SleepInv, WaitersListed, WaitersPosted
<1> QED  BY <1>1, SleepInvariant, PTL

(* A process that sleeps alertably although it was killed is about to be   *)
(* alerted (proc.c:45-61 against sched.c:174-178).                         *)
THEOREM KillsAreNotLost == Spec => []NoLostKill
<1>1. SleepInv => NoLostKill
  BY DEF SleepInv, KillAlerted, NoLostKill, Thread
<1> QED  BY <1>1, SleepInvariant, PTL

(* No ASSERT of sched.c:157-183, sem.c:82, 95 and sem.h:30, 33 fails.      *)
THEOREM AssertionsHold == Spec => []NoPanic
<1>1. SleepInv => NoPanic
  BY DEF SleepInv
<1> QED  BY <1>1, SleepInvariant, PTL

=============================================================================

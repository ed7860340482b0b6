---------------------------- MODULE SleepWakeup -----------------------------
(***************************************************************************)
(* Sleeping and waking up on several CPUs: the scheduler of                *)
(* src/src/kernel/sched.c, the semaphores of src/src/common/sem.c and the  *)
(* part of kill and exit (src/src/kernel/proc.c) that goes through them.   *)
(*                                                                         *)
(* A step is taken by the thread whose kernel stack a CPU runs on.  It is  *)
(* the part of the code between two spinlock acquisitions, with everything *)
(* it does before it waits for the next lock; a lock that is taken and     *)
(* given back within a step only has to be free.  Kernel code runs with    *)
(* traps off, so a step is never preempted; interrupts reach user code     *)
(* ("run") and the idle loop, where they end in a yield.                   *)
(***************************************************************************)
EXTENDS Integers, SequencesExt

CONSTANTS Proc, Cpu, Sem, Root,
          MaxVal      \* bound: no post when val has reached it

(* The idle process of CPU c is called c.                                  *)
ASSUME ThreadsAssumption == Proc \cap Cpu = {} /\ Root \in Proc
ASSUME SemAssumption == Sem # {}
ASSUME MaxValAssumption == MaxVal \in Nat

Thread == Proc \cup Cpu

VARIABLES
  state,        \* proc->state
  killed,       \* proc->killed
  cur,          \* cpus[c].sched.proc, what thisproc() returns on CPU c
  stack,        \* the thread whose kernel stack CPU c executes on
  queue,        \* root_container.schqueue, front first
  schedLocked,  \* sched_lock
  semLocked, val, sleeplist,   \* the semaphores, oldest waiter first
  up,           \* wait->up of the thread's WaitData
  pc, want, on, target,        \* where a thread is, and its arguments
  panic         \* an ASSERT or PANIC that failed

locks == <<schedLocked, semLocked>>
sem == <<val, sleeplist, up>>
sched == <<state, cur, stack, queue>>
args == <<want, on, target>>
vars == <<state, killed, cur, stack, queue, schedLocked, semLocked, val,
          sleeplist, up, pc, want, on, target, panic>>

ProcState == {"UNUSED", "RUNNABLE", "RUNNING", "SLEEPING", "DEEPSLEEPING",
              "ZOMBIE"}

PC == {"run",             \* outside of the operations below
       "lock_for_sched",  \* _wait_sem, holds the semaphore's lock
       "sched",           \* holds sched_lock, about to switch
       "release",         \* resumed by swtch with sched_lock held
       "recheck",         \* _wait_sem, after sched
       "activate",        \* _post_sem, holds the semaphore's lock
       "activate_all",    \* the same within post_all_sem
       "alert"}           \* kill, before alert_proc

TypeOK ==
  /\ state \in [Thread -> ProcState]
  /\ killed \in [Thread -> BOOLEAN]
  /\ cur \in [Cpu -> Thread]
  /\ stack \in [Cpu -> Thread]
  /\ queue \in Seq(Proc)
  /\ schedLocked \in BOOLEAN
  /\ semLocked \in [Sem -> BOOLEAN]
  /\ val \in [Sem -> Int]
  /\ sleeplist \in [Sem -> Seq(Proc)]
  /\ up \in [Thread -> BOOLEAN]
  /\ pc \in [Thread -> PC]
  /\ want \in [Thread -> {"RUNNABLE", "SLEEPING", "DEEPSLEEPING", "ZOMBIE"}]
  /\ on \in [Thread -> Sem]
  /\ target \in [Thread -> Proc]
  /\ panic \in BOOLEAN

(* CPU c executes thread x at label l.                                     *)
At(c, x, l) == /\ ~panic
               /\ stack[c] = x
               /\ cur[c] = x
               /\ pc[x] = l

Goto(x, l) == pc' = [pc EXCEPT ![x] = l]

Sleep == {"SLEEPING", "DEEPSLEEPING"}

Asleep(p) == state[p] \in Sleep

(***************************************************************************)
(* The scheduler.                                                          *)
(***************************************************************************)
WakesMutantDeep(p, onalert) == Asleep(p) \/ state[p] = "UNUSED"
WakesMutantAlways(p, onalert) == TRUE
Wakes(p, onalert) == \/ state[p] \in {"UNUSED", "SLEEPING"}
                     \/ state[p] = "DEEPSLEEPING" /\ ~onalert

(* Under sched_lock; the woken process goes to the front of the queue.     *)
_activate_proc(p, onalert) ==
  /\ ~schedLocked
  /\ IF Wakes(p, onalert)
     THEN /\ state' = [state EXCEPT ![p] = "RUNNABLE"]
          /\ queue' = <<p>> \o queue
     ELSE UNCHANGED <<state, queue>>

(* update_this_state: the queue after the running thread x has left.       *)
update_this_state(x) ==
  IF want[x] = "RUNNABLE" /\ x \notin Cpu THEN Append(queue, x) ELSE queue

pick_next(q, c) == IF q = <<>> THEN c ELSE Head(q)

(* Where a thread goes on when sched() returns.                            *)
AfterSched(x) == IF want[x] \in Sleep THEN "recheck" ELSE "run"

KilledReturnsMutant(x) == FALSE
KilledReturns(x) == killed[x] /\ want[x] \notin {"ZOMBIE", "DEEPSLEEPING"}

LockHeldAcrossSwtchMutant == FALSE
(* sched_lock is released by the thread that swtch resumes.                *)
LockHeldAcrossSwtch == TRUE

(* simple_sched up to swtch, which is the step after it if cur # stack.    *)
simple_sched(c, x) ==
  /\ At(c, x, "sched")
  /\ IF KilledReturns(x)
     THEN /\ schedLocked' = FALSE
          /\ Goto(x, AfterSched(x))
          /\ panic' = (state[x] # "RUNNING")
          /\ UNCHANGED sched
     ELSE LET q == update_this_state(x)
              left == [state EXCEPT ![x] = want[x]]
              next == pick_next(q, c)
          IN  /\ state' = [left EXCEPT ![next] = "RUNNING"]
              /\ queue' = IF q = <<>> THEN q ELSE Tail(q)
              /\ cur' = [cur EXCEPT ![c] = next]
              /\ panic' = (state[x] # "RUNNING" \/ left[next] # "RUNNABLE")
              /\ schedLocked' = LockHeldAcrossSwtch
              /\ Goto(x, "release")
              /\ UNCHANGED stack
  /\ UNCHANGED <<killed, semLocked, sem, args>>

swtch(c) ==
  /\ ~panic
  /\ stack[c] # cur[c]
  /\ stack' = [stack EXCEPT ![c] = cur[c]]
  /\ UNCHANGED <<state, killed, cur, queue, locks, sem, pc, args, panic>>

(* The end of simple_sched, or proc_entry for a thread that never ran.     *)
release_sched_lock(c, x) ==
  /\ At(c, x, "release")
  /\ schedLocked' = FALSE
  /\ Goto(x, AfterSched(x))
  /\ UNCHANGED <<sched, killed, semLocked, sem, args, panic>>

(* lock_for_sched, for the state in which the thread leaves the CPU.       *)
LockForSched(x, new) == /\ ~schedLocked
                        /\ schedLocked' = TRUE
                        /\ want' = [want EXCEPT ![x] = new]
                        /\ Goto(x, "sched")

(* yield(): a thread gives up the CPU, or the timer or idle loop does.     *)
yield(c, x) == /\ At(c, x, "run")
               /\ LockForSched(x, "RUNNABLE")
               /\ UNCHANGED <<sched, killed, semLocked, sem, on, target, panic>>

(* exit(): the bookkeeping before it is the subject of ProcTree.           *)
exit(c, x) == /\ At(c, x, "run")
              /\ x \in Proc \ {Root}
              /\ LockForSched(x, "ZOMBIE")
              /\ UNCHANGED <<sched, killed, semLocked, sem, on, target, panic>>

start_proc(c, x, p) ==
  /\ At(c, x, "run")
  /\ x \in Proc
  /\ state[p] = "UNUSED"
  /\ _activate_proc(p, FALSE)
  /\ UNCHANGED <<cur, stack, killed, locks, sem, pc, args, panic>>

(* kill(): the flag is set before, and outside of, sched_lock.             *)
kill(c, x, p) ==
  /\ At(c, x, "run")
  /\ x \in Proc
  /\ state[p] # "UNUSED"
  /\ killed' = [killed EXCEPT ![p] = TRUE]
  /\ target' = [target EXCEPT ![x] = p]
  /\ Goto(x, "alert")
  /\ UNCHANGED <<sched, locks, sem, want, on, panic>>

alert_proc(c, x) ==
  /\ At(c, x, "alert")
  /\ _activate_proc(target[x], TRUE)
  /\ Goto(x, "run")
  /\ UNCHANGED <<cur, stack, killed, locks, sem, args, panic>>

(***************************************************************************)
(* Semaphores.                                                             *)
(***************************************************************************)

SemLockedUntilSchedMutant == FALSE
(* The semaphore's lock is released only when sched_lock is held.          *)
SemLockedUntilSched == TRUE

(* wait_sem and unalertable_wait_sem up to lock_for_sched.                 *)
_wait_sem(c, x, s, new) ==
  /\ At(c, x, "run")
  /\ x \in Proc
  /\ ~semLocked[s]
  /\ val' = [val EXCEPT ![s] = @ - 1]
  /\ IF val[s] - 1 >= 0
     THEN UNCHANGED <<sleeplist, up, semLocked, want, on, pc>>
     ELSE /\ sleeplist' = [sleeplist EXCEPT ![s] = Append(@, x)]
          /\ up' = [up EXCEPT ![x] = FALSE]
          /\ semLocked' = [semLocked EXCEPT ![s] = SemLockedUntilSched]
          /\ want' = [want EXCEPT ![x] = new]
          /\ on' = [on EXCEPT ![x] = s]
          /\ Goto(x, "lock_for_sched")
  /\ UNCHANGED <<sched, killed, schedLocked, target, panic>>

(* sched_lock is taken before the semaphore's lock is released.            *)
lock_for_sched(c, x) ==
  /\ At(c, x, "lock_for_sched")
  /\ LockForSched(x, want[x])
  /\ semLocked' = [semLocked EXCEPT ![on[x]] = FALSE]
  /\ UNCHANGED <<sched, killed, sem, on, target, panic>>

ForgetMutant(x, s) == /\ sleeplist' = [sleeplist EXCEPT ![s] = RemoveFirst(@, x)]
                      /\ UNCHANGED val

(* A waiter that was not posted gives back its place: its one node is      *)
(* detached from the list.                                                 *)
Forget(x, s) == /\ val' = [val EXCEPT ![s] = @ + 1]
                /\ sleeplist' = [sleeplist EXCEPT ![s] = RemoveFirst(@, x)]

(* The end of _wait_sem; the unalertable macros assert that it was posted. *)
recheck(c, x) ==
  /\ At(c, x, "recheck")
  /\ ~semLocked[on[x]]
  /\ IF up[x] THEN UNCHANGED <<val, sleeplist, panic>>
              ELSE /\ Forget(x, on[x])
                   /\ panic' = (\/ val[on[x]] + 1 > 0
                                \/ want[x] = "DEEPSLEEPING")
  /\ Goto(x, "run")
  /\ UNCHANGED <<sched, killed, locks, up, args>>

(* The part of _post_sem before activate_proc, when somebody waits.        *)
Pop(x, s, l) ==
  /\ val' = [val EXCEPT ![s] = @ + 1]
  /\ IF sleeplist[s] = <<>>
     THEN panic' = TRUE /\ UNCHANGED <<sleeplist, up, target, pc>>
     ELSE /\ sleeplist' = [sleeplist EXCEPT ![s] = Tail(@)]
          /\ up' = [up EXCEPT ![Head(sleeplist[s])] = TRUE]
          /\ target' = [target EXCEPT ![x] = Head(sleeplist[s])]
          /\ Goto(x, l)
          /\ UNCHANGED panic

(* post_sem, up to activate_proc.                                          *)
post_sem(c, x, s) ==
  /\ At(c, x, "run")
  /\ x \in Proc
  /\ ~semLocked[s]
  /\ val[s] < MaxVal
  /\ IF val[s] + 1 > 0
     THEN /\ val' = [val EXCEPT ![s] = @ + 1]
          /\ UNCHANGED <<sleeplist, up, target, pc, panic, semLocked, on>>
     ELSE /\ Pop(x, s, "activate")
          /\ semLocked' = [semLocked EXCEPT ![s] = TRUE]
          /\ on' = [on EXCEPT ![x] = s]
  /\ UNCHANGED <<sched, killed, schedLocked, want>>

(* post_all_sem takes back the post that finds nobody: it only wakes.      *)
post_all_sem(c, x, s) ==
  /\ At(c, x, "run")
  /\ x \in Proc
  /\ ~semLocked[s]
  /\ val[s] < 0
  /\ Pop(x, s, "activate_all")
  /\ semLocked' = [semLocked EXCEPT ![s] = TRUE]
  /\ on' = [on EXCEPT ![x] = s]
  /\ UNCHANGED <<sched, killed, schedLocked, want>>

activate(c, x) ==
  /\ At(c, x, "activate")
  /\ _activate_proc(target[x], FALSE)
  /\ semLocked' = [semLocked EXCEPT ![on[x]] = FALSE]
  /\ Goto(x, "run")
  /\ UNCHANGED <<cur, stack, killed, schedLocked, sem, args, panic>>

(* The loop of post_all_sem.                                               *)
activate_all(c, x) ==
  /\ At(c, x, "activate_all")
  /\ _activate_proc(target[x], FALSE)
  /\ IF val[on[x]] < 0
     THEN Pop(x, on[x], "activate_all") /\ UNCHANGED semLocked
     ELSE /\ semLocked' = [semLocked EXCEPT ![on[x]] = FALSE]
          /\ Goto(x, "run")
          /\ UNCHANGED <<val, sleeplist, up, target, panic>>
  /\ UNCHANGED <<cur, stack, killed, schedLocked, want, on>>

(* get_sem takes one, get_all_sem takes everything.                        *)
get_sem(c, x, s) ==
  /\ At(c, x, "run")
  /\ x \in Proc
  /\ ~semLocked[s]
  /\ val[s] > 0
  /\ \E n \in {val[s] - 1, 0} : val' = [val EXCEPT ![s] = n]
  /\ UNCHANGED <<sched, killed, locks, sleeplist, up, pc, args, panic>>

-----------------------------------------------------------------------------
(* define_init(sched) and define_init(root_proc): every CPU runs its idle  *)
(* process and the root process has been activated.                        *)
Init ==
  /\ state = [x \in Thread |-> IF x \in Cpu THEN "RUNNING"
                               ELSE IF x = Root THEN "RUNNABLE" ELSE "UNUSED"]
  /\ killed = [x \in Thread |-> FALSE]
  /\ cur = [c \in Cpu |-> c]
  /\ stack = [c \in Cpu |-> c]
  /\ queue = <<Root>>
  /\ schedLocked = FALSE
  /\ semLocked = [s \in Sem |-> FALSE]
  /\ val = [s \in Sem |-> 0]
  /\ sleeplist = [s \in Sem |-> <<>>]
  /\ up = [x \in Thread |-> FALSE]
  /\ pc = [x \in Thread |-> IF x \in Cpu THEN "run" ELSE "release"]
  /\ want = [x \in Thread |-> "RUNNABLE"]
  /\ on = [x \in Thread |-> CHOOSE s \in Sem : TRUE]
  /\ target = [x \in Thread |-> Root]
  /\ panic = FALSE

Schedule(c, x) == \/ simple_sched(c, x)
                  \/ release_sched_lock(c, x)
                  \/ yield(c, x)
                  \/ exit(c, x)

Signal(c, x) == \/ \E p \in Proc : start_proc(c, x, p) \/ kill(c, x, p)
                \/ alert_proc(c, x)

Semaphore(c, x) ==
  \/ \E s \in Sem : \/ _wait_sem(c, x, s, "SLEEPING")
                    \/ _wait_sem(c, x, s, "DEEPSLEEPING")
                    \/ post_sem(c, x, s)
                    \/ post_all_sem(c, x, s)
                    \/ get_sem(c, x, s)
  \/ lock_for_sched(c, x)
  \/ recheck(c, x)
  \/ activate(c, x)
  \/ activate_all(c, x)

Step(c) == \/ swtch(c)
           \/ \E x \in Thread : Schedule(c, x) \/ Signal(c, x) \/ Semaphore(c, x)

Next == \E c \in Cpu : Step(c)

Spec == Init /\ [][Next]_vars

(* A CPU keeps executing, and a CPU that spins for a lock that is free     *)
(* again and again gets it.                                                *)
FairSpec == Spec /\ \A c \in Cpu : SF_vars(Step(c))

-----------------------------------------------------------------------------
(***************************************************************************)
(* Properties.                                                             *)
(***************************************************************************)
(* Some thread is about to activate p.                                     *)
WakeupPending(p) ==
  \E x \in Thread : pc[x] \in {"activate", "activate_all"} /\ target[x] = p
AlertPending(p) == \E x \in Thread : pc[x] = "alert" /\ target[x] = p

(* A negative value is the number of waiters in the list, also after a     *)
(* waiter that was killed has left it (ASSERTs of sem.c:82 and 95).        *)
SemCount ==
  \A s \in Sem : Len(sleeplist[s]) = IF val[s] < 0 THEN -val[s] ELSE 0

(* The state is well typed; exactly the RUNNABLE processes are in the run  *)
(* queue, once each, and exactly the RUNNING threads are the current       *)
(* thread of one CPU.                                                      *)
RunQueueExact ==
  /\ TypeOK
  /\ \A p \in Proc : state[p] = "RUNNABLE" <=> p \in Range(queue)
  /\ IsInjective(queue)
  /\ \A x \in Thread : state[x] = "RUNNING" <=> \E c \in Cpu : cur[c] = x
  /\ \A c, d \in Cpu : cur[c] = cur[d] => c = d

(* Two CPUs never execute on one kernel stack, and a CPU that can see a    *)
(* ZOMBIE (is_zombie takes sched_lock) may free its stack: nobody executes *)
(* on it any more (proc.c:119-126).                                        *)
StackExclusive ==
  /\ \A c, d \in Cpu : stack[c] = stack[d] => c = d
  /\ ~schedLocked => \A c \in Cpu : state[stack[c]] # "ZOMBIE"

(* No lost wakeup: a sleeper is still in the list of its semaphore, or the *)
(* thread that took it out is on its way to activate it.                   *)
NoLostWakeup ==
  \A p \in Proc : Asleep(p) =>
     \/ ~up[p] /\ p \in Range(sleeplist[on[p]])
     \/ WakeupPending(p)

(* No lost kill: a process that sleeps alertably although it was killed is *)
(* about to be alerted, however kill and sched interleave.                 *)
NoLostKill ==
  \A p \in Proc : state[p] = "SLEEPING" /\ killed[p] =>
     AlertPending(p) \/ WakeupPending(p)

(* Every ASSERT of sched.c:157-183, sem.c:82, 95 and of the unalertable    *)
(* waits (sem.h:30, 33) holds: a DEEPSLEEPING process is woken by a post.  *)
NoPanic == ~panic

(* A wakeup or an alert is delivered: the sleeper becomes runnable.        *)
WakeupDelivered ==
  \A p \in Proc : Asleep(p) /\ (up[p] \/ (killed[p] /\ state[p] = "SLEEPING")) ~>
                     ~Asleep(p)

(***************************************************************************)
(* The inductive invariant behind the safety properties (SleepWakeupProofs)*)
(***************************************************************************)
(* CPU c holds sched_lock: the thread it runs is before or after swtch.    *)
HasSched(c) == pc[cur[c]] \in {"sched", "release"}

(* sched_lock has one holder, and only the holder can be between the       *)
(* choice of the next thread and swtch; who is off the CPU is in swtch.    *)
SchedLockHeld ==
  /\ schedLocked <=> \E c \in Cpu : HasSched(c)
  /\ \A c, d \in Cpu : HasSched(c) /\ HasSched(d) => c = d
  /\ \A c \in Cpu : stack[c] # cur[c] =>
       pc[cur[c]] = "release" /\ state[stack[c]] # "RUNNING"
  /\ \A x \in Thread : state[x] # "RUNNING" => pc[x] = "release"

(* An idle process runs on its own CPU or is ready to.                     *)
IdleReady ==
  \A c \in Cpu : /\ state[c] \in {"RUNNING", "RUNNABLE"}
                 /\ want[c] = "RUNNABLE"
                 /\ \A d \in Cpu : cur[d] = c => d = c

(* Thread x holds the lock of s.                                           *)
HasSem(x, s) == /\ pc[x] \in {"lock_for_sched", "activate", "activate_all"}
                /\ on[x] = s

SemLockHeld ==
  \A s \in Sem : /\ semLocked[s] <=> \E x \in Thread : HasSem(x, s)
                 /\ \A x, y \in Thread : HasSem(x, s) /\ HasSem(y, s) => x = y

(* Thread x is inside _wait_sem with a WaitData.                           *)
Waits(x) == /\ pc[x] \in {"lock_for_sched", "sched", "release", "recheck"}
            /\ want[x] \in Sleep

(* The list of a semaphore holds exactly its waiters that were not posted. *)
WaitersListed ==
  /\ \A s \in Sem : IsInjective(sleeplist[s])
  /\ \A x \in Thread, s \in Sem :
       x \in Range(sleeplist[s]) <=> Waits(x) /\ ~up[x] /\ on[x] = s

(* A thread in _wait_sem sleeps as it asked to, cannot be posted before it *)
(* holds sched_lock, and only a post lets it out of DEEPSLEEPING.          *)
WaitersSleep ==
  \A x \in Thread :
    /\ Asleep(x) => want[x] = state[x]
    /\ pc[x] \in {"lock_for_sched", "recheck"} => want[x] \in Sleep
    /\ pc[x] = "lock_for_sched" => ~up[x]
    /\ /\ want[x] = "DEEPSLEEPING"
       /\ pc[x] \in {"release", "recheck"}
       /\ ~Asleep(x)
       => up[x]

(* Who took a waiter out of the list activates it before the lock of the   *)
(* semaphore is released.                                                  *)
WaitersPosted ==
  \A x \in Thread :
    /\ Waits(x) /\ up[x] /\ (pc[x] = "sched" \/ Asleep(x)) => WakeupPending(x)
    /\ pc[x] \in {"activate", "activate_all"} =>
         Waits(target[x]) /\ up[target[x]] /\ on[target[x]] = on[x]

KillAlerted ==
  \A x \in Thread : state[x] = "SLEEPING" /\ killed[x] => AlertPending(x)

SleepInv == /\ RunQueueExact
            /\ SchedLockHeld
            /\ IdleReady
            /\ SemLockHeld
            /\ WaitersListed
            /\ SemCount
            /\ WaitersSleep
            /\ WaitersPosted
            /\ KillAlerted
            /\ NoPanic

=============================================================================

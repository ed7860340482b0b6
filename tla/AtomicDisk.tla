----------------------------- MODULE AtomicDisk -----------------------------
(***************************************************************************)
(* What the comments of src/src/fs/cache.h (lines 54-84) promise to the    *)
(* users of the block cache: a disk on which the writes of an atomic       *)
(* operation become durable all together, and on which end_op returns only *)
(* when they are.  Operations are committed in groups: a group is durable  *)
(* at once, when no operation is running.  A crash forgets everything that *)
(* is not durable and kills every thread.                                  *)
(***************************************************************************)

CONSTANTS Thread, Block, Data

VARIABLES stable,   \* what a crash leaves: contents of the durable disk
          buf,      \* what a reader sees: stable plus pending writes
          op        \* where each thread is in its atomic operation

vars == <<stable, buf, op>>

OpState == {"idle", "running", "ended", "durable"}

TypeOK == /\ stable \in [Block -> Data]
          /\ buf \in [Block -> Data]
          /\ op \in [Thread -> OpState]

Init == /\ stable \in [Block -> Data]
        /\ buf = stable
        /\ op = [t \in Thread |-> "idle"]

Begin(t) == /\ op[t] = "idle"
            /\ op' = [op EXCEPT ![t] = "running"]
            /\ UNCHANGED <<stable, buf>>

Write(t, b, v) == /\ op[t] = "running"
                  /\ buf' = [buf EXCEPT ![b] = v]
                  /\ UNCHANGED <<stable, op>>

(* sync without a context: outside every operation, durable at once.       *)
WriteThrough(b, v) == /\ stable' = [stable EXCEPT ![b] = v]
                      /\ buf' = [buf EXCEPT ![b] = v]
                      /\ UNCHANGED op

End(t) == /\ op[t] = "running"
          /\ op' = [op EXCEPT ![t] = "ended"]
          /\ UNCHANGED <<stable, buf>>

(* The commit point of a whole group of ended operations.                  *)
Commit == /\ \A t \in Thread : op[t] # "running"
          /\ stable' = buf
          /\ op' = [t \in Thread |-> IF op[t] = "ended" THEN "durable"
                                                        ELSE op[t]]
          /\ UNCHANGED buf

Return(t) == /\ op[t] = "durable"
             /\ op' = [op EXCEPT ![t] = "idle"]
             /\ UNCHANGED <<stable, buf>>

Crash == /\ buf' = stable
         /\ op' = [t \in Thread |-> "idle"]
         /\ UNCHANGED stable

Next == \/ \E t \in Thread : Begin(t) \/ End(t) \/ Return(t)
        \/ \E t \in Thread, b \in Block, v \in Data : Write(t, b, v)
        \/ \E b \in Block, v \in Data : WriteThrough(b, v)
        \/ Commit
        \/ Crash

Spec == Init /\ [][Next]_vars
=============================================================================

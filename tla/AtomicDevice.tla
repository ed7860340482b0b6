---------------------------- MODULE AtomicDevice ----------------------------
(***************************************************************************)
(* The promise of src/src/fs/block_device.h to the block cache: a read     *)
(* returns the contents of the block, a write replaces them, each at one   *)
(* moment between its call and its return, whoever else uses the device.   *)
(* Only a card that fails may return something else.                       *)
(***************************************************************************)
EXTENDS Naturals

CONSTANTS Proc, Block, Value, Garbage, None

VARIABLES disk,     \* contents of the card
          req,      \* the call each process is in, or None
          res,      \* its result, or None while it has not taken effect
          faults    \* how often the card failed

vars == <<disk, req, res, faults>>

Request == [write : BOOLEAN, n : Block, v : Value \cup {Garbage}]

Init == /\ disk \in [Block -> Value]
        /\ req = [p \in Proc |-> None]
        /\ res = [p \in Proc |-> None]
        /\ faults = 0

Call(p) == /\ req[p] = None
           /\ \E r \in Request : req' = [req EXCEPT ![p] = r]
           /\ UNCHANGED <<disk, res, faults>>

Read(p) == /\ req[p] # None /\ res[p] = None /\ ~req[p].write
           /\ \/ /\ res' = [res EXCEPT ![p] = disk[req[p].n]]
                 /\ UNCHANGED faults
              \/ /\ res' = [res EXCEPT ![p] = Garbage]
                 /\ faults' = faults + 1
           /\ UNCHANGED <<disk, req>>

Write(p) == /\ req[p] # None /\ res[p] = None /\ req[p].write
            /\ disk' = [disk EXCEPT ![req[p].n] = req[p].v]
            /\ res' = [res EXCEPT ![p] = req[p].v]
            /\ UNCHANGED <<req, faults>>

Return(p) == /\ res[p] # None
             /\ req' = [req EXCEPT ![p] = None]
             /\ res' = [res EXCEPT ![p] = None]
             /\ UNCHANGED <<disk, faults>>

Fail == faults' = faults + 1 /\ UNCHANGED <<disk, req, res>>

Next == Fail \/ \E p \in Proc : Call(p) \/ Read(p) \/ Write(p) \/ Return(p)

Spec == Init /\ [][Next]_vars
=============================================================================

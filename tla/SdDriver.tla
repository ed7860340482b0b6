------------------------------ MODULE SdDriver ------------------------------
(***************************************************************************)
(* The block device of src/src/fs/block_device.c on the SD card driver of  *)
(* src/src/driver/sd.c, once the card is initialised: processes that read  *)
(* and write blocks through sdrw, the interrupt handler sd_intr, and the   *)
(* EMMC controller with its card, which answers whenever it likes.         *)
(*                                                                         *)
(* The request of process p lies in the buf p has on its stack, so a buf   *)
(* is named by its process.  The second lock, sdlock, is only taken under  *)
(* the lock of the queue and is left out.                                  *)
(***************************************************************************)
EXTENDS Integers, Sequences, SequencesExt

CONSTANTS Proc,
          Intr,           \* the interrupt handler, on CPU 0
          Block, Value,
          Garbage,        \* what the stack holds, or a card that fails sends
          None,
          CardType,       \* the card that is in the slot
          MaxFaults       \* bound on the failures of the card

ASSUME SdAssumption == /\ CardType \in {"SD_TYPE_2_HC", "SD_TYPE_2_SC"}
                       /\ MaxFaults \in Nat
                       /\ Block \subseteq Nat /\ \A n \in Block : n < 2^23
                       /\ Intr \notin Proc
ASSUME NamesAssumption == /\ Garbage \notin Value
                          /\ None \notin Proc \cup {Intr} \cup Value \cup {Garbage}

VARIABLES
  sdque, lk,              \* the queue of requests, who holds its lock
  flags, data, sl,        \* the fields of a buf
  interrupt,              \* EMMC_INTERRUPT, as a set of bits
  xfer,                   \* the transfer the controller works on
  card,                   \* contents of the card
  pc, req,                \* where an actor is, the call a process is in
  faults                  \* how often the card has failed

bufs == <<flags, data, sl>>
device == <<interrupt, xfer, card, faults>>
vars == <<sdque, lk, bufs, device, pc, req>>

Actor == Proc \cup {Intr}
Phase == {"idle", "cmd", "read", "fifo", "drained", "write", "ready",
          "filled", "dead"}
PC == {"idle", "lock", "start", "cmd", "wrdy", "test", "sleep", "relock",
       "data", "panic"}

(* IRPT_EN: the handler runs for every bit but these two.                  *)
IrqEnabled == {"READ_RDY", "DATA_DONE", "ERR"}

Requests == [write : BOOLEAN, n : Block, v : Value \cup {Garbage}]
ASSUME NoRequestAssumption == None \notin Requests

Idle == [phase |-> "idle", arg |-> 0, fifo |-> None]

TypeOK ==
  /\ sdque \in Seq(Proc)
  /\ lk \in Actor \cup {None}
  /\ flags \in [Proc -> SUBSET {"B_DIRTY", "B_VALID"}]
  /\ data \in [Proc -> Value \cup {Garbage}]
  /\ sl \in [Proc -> 0..1]
  /\ interrupt \subseteq {"CMD_DONE", "WRITE_RDY"} \cup IrqEnabled
  /\ xfer \in [phase : Phase, arg : Nat, fifo : Value \cup {Garbage, None}]
  /\ card \in [Block -> Value]
  /\ pc \in [Actor -> PC]
  /\ req \in [Proc -> Requests \cup {None}]
  /\ faults \in 0..MaxFaults

Goto(a, l) == pc' = [pc EXCEPT ![a] = l]

queue_lock(a) == lk = None /\ lk' = a
queue_unlock == lk' = None
queue_push(p) == sdque' = Append(sdque, p)
queue_pop == sdque' = Tail(sdque)
queue_front == Head(sdque)
queue_empty == sdque = <<>>

get_and_clear_EMMC_INTERRUPT == interrupt' = {}

(* The argument of a transfer: block number or, for small cards, address.  *)
bnoMutant(n) == n
bno(n) == IF CardType = "SD_TYPE_2_HC" THEN n ELSE n * 512

-----------------------------------------------------------------------------
(* Processes.                                                              *)

(* The semaphore of a buf on the stack before init_sem.                    *)
Uninitialised(p) == \E x \in 0..1 : sl' = [sl EXCEPT ![p] = x]

sd_read(p, n) ==
  /\ pc[p] = "idle"
  /\ flags' = [flags EXCEPT ![p] = {}]
  /\ data' = [data EXCEPT ![p] = Garbage]
  /\ req' = [req EXCEPT ![p] = [write |-> FALSE, n |-> n, v |-> Garbage]]
  /\ Uninitialised(p)
  /\ Goto(p, "lock")
  /\ UNCHANGED <<sdque, lk, device>>

sd_write(p, n, v) ==
  /\ pc[p] = "idle"
  /\ flags' = [flags EXCEPT ![p] = {"B_DIRTY", "B_VALID"}]
  /\ data' = [data EXCEPT ![p] = v]
  /\ req' = [req EXCEPT ![p] = [write |-> TRUE, n |-> n, v |-> v]]
  /\ Uninitialised(p)
  /\ Goto(p, "lock")
  /\ UNCHANGED <<sdque, lk, device>>

sdrw_push_mutant(p) ==
  /\ pc[p] = "lock" /\ queue_lock(p)
  /\ queue_push(p)
  /\ Goto(p, "start")
  /\ UNCHANGED <<bufs, device, req>>

(* sdrw up to request_head or, if the queue was not empty, init_sem.       *)
sdrw_push(p) ==
  /\ pc[p] = "lock" /\ queue_lock(p)
  /\ queue_push(p)
  /\ IF queue_empty THEN Goto(p, "start") /\ UNCHANGED sl
                     ELSE Goto(p, "test") /\ sl' = [sl EXCEPT ![p] = 0]
  /\ UNCHANGED <<flags, data, device, req>>

(* The loop of sdrw: return, or give the lock back and sleep.              *)
sdrw_test(p) ==
  /\ pc[p] = "test" /\ lk = p
  /\ queue_unlock
  /\ IF flags[p] = {"B_VALID"}
     THEN Goto(p, "idle") /\ req' = [req EXCEPT ![p] = None]
     ELSE Goto(p, "sleep") /\ UNCHANGED req
  /\ UNCHANGED <<sdque, bufs, device>>

wait_sem_mutant(p) ==
  /\ pc[p] = "sleep"
  /\ \/ sl[p] > 0 /\ sl' = [sl EXCEPT ![p] = @ - 1] /\ Goto(p, "relock")
     \/ sl' = [sl EXCEPT ![p] = 0] /\ UNCHANGED pc
  /\ UNCHANGED <<sdque, lk, flags, data, device, req>>

(* unalertable_wait_sem, which SleepWakeup models.                         *)
wait_sem(p) ==
  /\ pc[p] = "sleep" /\ sl[p] > 0
  /\ sl' = [sl EXCEPT ![p] = @ - 1]
  /\ Goto(p, "relock")
  /\ UNCHANGED <<sdque, lk, flags, data, device, req>>

sdrw_relock(p) ==
  /\ pc[p] = "relock" /\ queue_lock(p)
  /\ Goto(p, "test")
  /\ UNCHANGED <<sdque, bufs, device, req>>

-----------------------------------------------------------------------------
(* sd_start, by a process or by the handler, which holds the lock.         *)

(* What follows a start: a process initialises its semaphore, the handler  *)
(* gives the lock back and returns.                                        *)
Started(a) ==
  IF a = Intr
  THEN queue_unlock /\ Goto(a, "idle") /\ UNCHANGED sl
  ELSE sl' = [sl EXCEPT ![a] = 0] /\ Goto(a, "test") /\ UNCHANGED lk

Panic(a) == Goto(a, "panic") /\ UNCHANGED <<lk, sl, data, req, flags, sdque>>

Dirty(p) == "B_DIRTY" \in flags[p]

sd_start(a) ==
  /\ pc[a] = "start"
  /\ IF interrupt # {}
     THEN Panic(a) /\ UNCHANGED device
     ELSE /\ xfer' = [Idle EXCEPT !.phase = "cmd",
                                  !.arg = bno(req[queue_front].n)]
          /\ Goto(a, "cmd")
          /\ UNCHANGED <<sdque, lk, bufs, interrupt, card, faults, req>>

(* sdWaitForInterrupt: TRUE when bit b, an error or a timeout ends the     *)
(* wait.  An error or a timeout clears the register, b alone only itself.  *)
WaitOver(b) == interrupt \cap {b, "ERR"} # {} \/ xfer.phase = "dead"
WaitOK(b) == b \in interrupt /\ "ERR" \notin interrupt
WaitClears(b) ==
  interrupt' = IF WaitOK(b) THEN interrupt \ {b} ELSE {}

(* sdSendCommandA: the command is accepted, or sd_start panics.            *)
sd_start_cmd(a) ==
  /\ pc[a] = "cmd" /\ WaitOver("CMD_DONE")
  /\ WaitClears("CMD_DONE")
  /\ IF WaitOK("CMD_DONE")
     THEN /\ IF Dirty(queue_front) THEN Goto(a, "wrdy") /\ UNCHANGED <<lk, sl>>
                                   ELSE Started(a)
          /\ UNCHANGED <<sdque, flags, data, req>>
     ELSE Panic(a)
  /\ UNCHANGED <<xfer, card, faults>>

(* A write fills the FIFO when the controller is ready for it.             *)
sd_start_fill(a) ==
  /\ pc[a] = "wrdy" /\ WaitOver("WRITE_RDY")
  /\ WaitClears("WRITE_RDY")
  /\ IF WaitOK("WRITE_RDY") /\ interrupt = {"WRITE_RDY"}
     THEN /\ xfer' = [xfer EXCEPT !.phase = IF @ = "ready" THEN "filled" ELSE @,
                                  !.fifo = data[queue_front]]
          /\ Started(a)
          /\ UNCHANGED <<sdque, flags, data, req>>
     ELSE Panic(a) /\ UNCHANGED xfer
  /\ UNCHANGED <<card, faults>>

-----------------------------------------------------------------------------
(* The end of sd_intr: the request is done, the next one is started.       *)
CompleteMutant ==
  /\ flags' = [flags EXCEPT ![queue_front] = {"B_VALID"}]
  /\ sl' = [sl EXCEPT ![queue_front] = @ + 1]
  /\ queue_pop
  /\ queue_unlock /\ Goto(Intr, "idle")

Complete ==
  /\ flags' = [flags EXCEPT ![queue_front] = {"B_VALID"}]
  /\ sl' = [sl EXCEPT ![queue_front] = @ + 1]
  /\ queue_pop
  /\ IF Tail(sdque) = <<>> THEN queue_unlock /\ Goto(Intr, "idle")
                           ELSE lk' = Intr /\ Goto(Intr, "start")

(* interrupt_global_handler: the line is raised as long as a bit is set.   *)
Pending == interrupt \cap IrqEnabled # {}

sd_intr_mutant ==
  /\ pc[Intr] = "idle" /\ lk = None
  /\ Pending /\ ~queue_empty
  /\ get_and_clear_EMMC_INTERRUPT
  /\ IF Dirty(queue_front)
     THEN Complete /\ UNCHANGED <<data, xfer>>
     ELSE /\ data' = [data EXCEPT ![queue_front] = xfer.fifo]
          /\ xfer' = [xfer EXCEPT !.phase = "drained"]
          /\ Complete
  /\ UNCHANGED <<card, faults, req>>

(* sd_intr: it clears the register, insists on the bit that the request at *)
(* the head of the queue waits for, and reads the FIFO if it is a read.    *)
(* With an empty queue it would return and leave the register as it is.    *)
sd_intr ==
  /\ pc[Intr] = "idle" /\ lk = None
  /\ Pending /\ ~queue_empty
  /\ get_and_clear_EMMC_INTERRUPT
  /\ \/ /\ Dirty(queue_front) /\ interrupt = {"DATA_DONE"}
        /\ Complete
        /\ UNCHANGED <<data, xfer>>
     \/ /\ ~Dirty(queue_front) /\ interrupt = {"READ_RDY"}
        /\ lk' = Intr
        /\ data' = [data EXCEPT ![queue_front] = xfer.fifo]
        /\ xfer' = [xfer EXCEPT !.phase = IF @ = "fifo" THEN "drained" ELSE @]
        /\ Goto(Intr, "data")
        /\ UNCHANGED <<sdque, flags, sl>>
     \/ /\ interrupt # {IF Dirty(queue_front) THEN "DATA_DONE" ELSE "READ_RDY"}
        /\ lk' = Intr
        /\ Goto(Intr, "panic")
        /\ UNCHANGED <<sdque, bufs, xfer>>
  /\ UNCHANGED <<card, faults, req>>

(* A read waits for the end of the transfer, and does not ask how it ended. *)
sd_intr_data ==
  /\ pc[Intr] = "data" /\ WaitOver("DATA_DONE")
  /\ WaitClears("DATA_DONE")
  /\ Complete
  /\ xfer' = Idle
  /\ UNCHANGED <<data, card, faults, req>>

-----------------------------------------------------------------------------
(* The controller and the card.                                            *)

Answer(bit, x) == /\ interrupt' = interrupt \cup {bit}
                  /\ xfer' = x
                  /\ UNCHANGED <<sdque, lk, bufs, pc, req>>

(* The block that an argument means to the card.                           *)
Addressed == IF CardType = "SD_TYPE_2_HC" THEN xfer.arg ELSE xfer.arg \div 512

card_command ==
  /\ xfer.phase = "cmd"
  /\ Answer("CMD_DONE", [xfer EXCEPT !.phase =
                           IF Dirty(queue_front) THEN "write" ELSE "read"])
  /\ UNCHANGED <<card, faults>>

card_read ==
  /\ xfer.phase = "read"
  /\ Answer("READ_RDY", [xfer EXCEPT !.phase = "fifo",
                                     !.fifo = card[Addressed]])
  /\ UNCHANGED <<card, faults>>

card_drained ==
  /\ xfer.phase = "drained"
  /\ Answer(IF xfer.fifo = Garbage THEN "ERR" ELSE "DATA_DONE", Idle)
  /\ UNCHANGED <<card, faults>>

card_ready ==
  /\ xfer.phase = "write"
  /\ Answer("WRITE_RDY", [xfer EXCEPT !.phase = "ready"])
  /\ UNCHANGED <<card, faults>>

card_write ==
  /\ xfer.phase = "filled"
  /\ card' = [card EXCEPT ![Addressed] = xfer.fifo]
  /\ Answer("DATA_DONE", Idle)
  /\ UNCHANGED faults

(* The card reports an error, sends garbage, or never answers again.       *)
card_fail ==
  /\ faults < MaxFaults
  /\ faults' = faults + 1
  /\ \/ /\ xfer.phase \notin {"idle", "dead"}
        /\ Answer("ERR", [xfer EXCEPT !.phase = "idle"])
     \/ /\ xfer.phase = "read"
        /\ Answer("READ_RDY", [xfer EXCEPT !.phase = "fifo", !.fifo = Garbage])
     \/ /\ xfer.phase \notin {"idle", "dead"}
        /\ xfer' = [xfer EXCEPT !.phase = "dead"]
        /\ UNCHANGED <<sdque, lk, bufs, pc, req, interrupt>>
  /\ UNCHANGED card

-----------------------------------------------------------------------------
Init ==
  /\ sdque = <<>> /\ lk = None
  /\ flags = [p \in Proc |-> {}]
  /\ data = [p \in Proc |-> Garbage]
  /\ sl = [p \in Proc |-> 0]
  /\ interrupt = {} /\ xfer = Idle
  /\ card \in [Block -> Value]
  /\ pc = [a \in Actor |-> "idle"]
  /\ req = [p \in Proc |-> None]
  /\ faults = 0

Step(a) == sd_start(a) \/ sd_start_cmd(a) \/ sd_start_fill(a)

Sdrw(p) == sdrw_push(p) \/ sdrw_test(p) \/ wait_sem(p) \/ sdrw_relock(p)

Handler == sd_intr \/ sd_intr_data

Card == card_command \/ card_read \/ card_drained \/ card_ready \/ card_write

Next == \/ \E p \in Proc, n \in Block : \/ sd_read(p, n)
                                        \/ \E v \in Value : sd_write(p, n, v)
        \/ \E p \in Proc : Sdrw(p)
        \/ \E a \in Actor : Step(a)
        \/ Handler
        \/ Card \/ card_fail

(* CPUs go on with what they run, CPU 0 takes its interrupts at the latest *)
(* when it is idle, and a card that does not fail answers.                 *)
Fairness == /\ \A p \in Proc : WF_vars(Sdrw(p))
            /\ \A a \in Actor : WF_vars(Step(a))
            /\ WF_vars(Handler) /\ WF_vars(Card)

Spec == Init /\ [][Next]_vars /\ Fairness

-----------------------------------------------------------------------------
(* Properties.                                                             *)

(* A request has taken effect when the card has sent or taken its block:   *)
(* for the head of the queue while the driver does not know it yet.        *)
Effect(p) ==
  IF p \notin Range(sdque) THEN pc[p] \notin {"idle", "lock"}
  ELSE /\ p = queue_front
       /\ IF Dirty(p) THEN "DATA_DONE" \in interrupt
          ELSE xfer.fifo # None \/ pc[Intr] = "data"

Result(p) ==
  IF ~Effect(p) THEN None
  ELSE IF req[p].write THEN req[p].v
  ELSE IF p \in Range(sdque) /\ pc[Intr] # "data" THEN xfer.fifo
  ELSE data[p]

AbsRes == [p \in Proc |-> Result(p)]

AtomicDev == INSTANCE AtomicDevice WITH disk <- card, res <- AbsRes

(* block_device.h: reads and writes of the device are atomic.  This is     *)
(* what CommitLog takes for granted of device->read and device->write.     *)
DeviceIsAtomic == AtomicDev!Spec

(* The PANICs of sd_start (sd.c:107, 121, 137, 142) and of sd_intr (191,   *)
(* 196) are out of reach as long as the card does not fail.                *)
NoPanic == faults = 0 => \A a \in Actor : pc[a] # "panic"

(* sd_intr returns at once when the queue is empty and leaves the register *)
(* as it is: unless it is empty too, the interrupt is raised for ever and  *)
(* the next sd_start panics.                                               *)
QuietWhenIdle == sdque = <<>> => interrupt = {} /\ xfer.phase \in {"idle", "dead"}

(* The state is well typed.  bufs lie on the stacks of their callers: one  *)
(* that is in the queue belongs to a process that is still in sdrw, and is *)
(* there once.  A process sleeps only while its request is queued or its   *)
(* semaphore has been posted (sd.c:208 against sd.c:252).                  *)
NoLostPost ==
  /\ TypeOK
  /\ IsInjective(sdque)
  /\ \A p \in Range(sdque) : pc[p] \notin {"idle", "lock"}
  /\ \A p \in Proc : pc[p] = "sleep" => p \in Range(sdque) \/ sl[p] > 0

(* Every request in the queue is served: the handler starts what follows.  *)
QueuedServed ==
  \A p \in Proc : p \in Range(sdque) ~> (p \notin Range(sdque) \/ faults > 0)

-----------------------------------------------------------------------------
(***************************************************************************)
(* The inductive invariant behind the safety properties and the refinement *)
(* (see SdDriverProofs).                                                   *)
(***************************************************************************)
Doing(l) == \E a \in Actor : pc[a] = l
HeadWrites == Dirty(queue_front)
Locked == {"start", "cmd", "wrdy", "test", "data", "panic"}

(* The lock of the queue is held from queue_lock to queue_unlock, and for  *)
(* ever by who panics.                                                     *)
LockOwned ==
  /\ \A a \in Actor : lk = a <=> pc[a] \in Locked
  /\ pc[Intr] \in {"idle", "start", "cmd", "wrdy", "data", "panic"}
  /\ \A p \in Proc : pc[p] # "data"

(* A buf is as its caller filled it until its request is done, and its     *)
(* semaphore is posted exactly then.                                       *)
Asks(p) == /\ flags[p] = IF req[p].write THEN {"B_DIRTY", "B_VALID"} ELSE {}
           /\ req[p].write => data[p] = req[p].v /\ data[p] \in Value

BufOwned(p) ==
  /\ pc[p] = "idle" <=> req[p] = None
  /\ pc[p] = "lock" => Asks(p)
  /\ p \in Range(sdque) =>
       /\ pc[p] \in {"start", "cmd", "wrdy", "test", "sleep", "panic"}
       /\ pc[p] \in {"test", "sleep"} => sl[p] = 0
       /\ Asks(p)
  /\ p \notin Range(sdque) /\ pc[p] \notin {"idle", "lock"} =>
       /\ pc[p] \in {"test", "sleep", "relock"}
       /\ pc[p] = "sleep" => sl[p] = 1
       /\ flags[p] = {"B_VALID"}

BufsOwned == IsInjective(sdque) /\ \A p \in Proc : BufOwned(p)

(* Where the driver is in the transfer of the request at the head.         *)
Starting == Doing("start") \/ Doing("cmd") \/ Doing("wrdy")

Serving ==
  /\ sdque = <<>> => /\ xfer = Idle /\ interrupt = {} /\ ~Starting
                     /\ ~Doing("data") /\ ~Doing("panic")
  /\ Doing("start") => xfer = Idle /\ interrupt = {}
  /\ Doing("wrdy") => HeadWrites
  /\ Doing("data") => ~HeadWrites
  /\ Doing("panic") => faults > 0
  /\ xfer.phase # "idle" => xfer.arg = bno(req[queue_front].n)

(* Where the controller is in it, phase by phase: what it has signalled    *)
(* and the driver not seen yet, and what is in the FIFO.                   *)
Signals(S) == interrupt = S \cup (IF Doing("cmd") THEN {"CMD_DONE"} ELSE {})

CmdPhase == Doing("cmd") /\ interrupt = {} /\ xfer.fifo = None

ReadPhase == /\ ~HeadWrites /\ ~Doing("data")
             /\ Signals({}) /\ xfer.fifo = None

FifoPhase == /\ ~HeadWrites /\ ~Doing("data") /\ Signals({"READ_RDY"})
             /\ xfer.fifo # None /\ (xfer.fifo = Garbage => faults > 0)

DrainedPhase == /\ Doing("data") /\ interrupt = {}
                /\ xfer.fifo = Garbage => faults > 0

WritePhase(S) == /\ HeadWrites /\ Signals(S)
                 /\ Doing("cmd") \/ Doing("wrdy")

FilledPhase == /\ HeadWrites /\ interrupt = {} /\ ~Starting
               /\ xfer.fifo = data[queue_front]

IdlePhase == \/ sdque = <<>> \/ Doing("start")
             \/ /\ xfer = Idle /\ interrupt = {"DATA_DONE"}
                /\ Doing("data") \/ (HeadWrites /\ ~Starting)
             \/ /\ faults > 0 /\ "DATA_DONE" \notin interrupt
                /\ "ERR" \in interrupt \/ Doing("panic")

DeadPhase == /\ faults > 0 /\ interrupt \cap {"DATA_DONE", "ERR"} = {}
             /\ "READ_RDY" \in interrupt => ~HeadWrites /\ xfer.fifo # None

InPhase ==
  /\ xfer.phase = "cmd" => CmdPhase
  /\ xfer.phase = "read" => ReadPhase
  /\ xfer.phase = "fifo" => FifoPhase
  /\ xfer.phase = "drained" => DrainedPhase
  /\ xfer.phase = "write" => WritePhase({})
  /\ xfer.phase = "ready" => WritePhase({"WRITE_RDY"})
  /\ xfer.phase = "filled" => FilledPhase
  /\ xfer.phase = "idle" => IdlePhase
  /\ xfer.phase = "dead" => DeadPhase

DriverInv == TypeOK /\ LockOwned /\ BufsOwned /\ Serving /\ InPhase

=============================================================================

--------------------------- MODULE SdDriverProofs ---------------------------
(***************************************************************************)
(* Proofs about SdDriver: DriverInv is an invariant, from which follow the *)
(* safety properties, and every step of the driver and of the card is a    *)
(* step of AtomicDevice or changes nothing there.                          *)
(***************************************************************************)
EXTENDS SdDriver, SequenceTheorems, TLAPS

-----------------------------------------------------------------------------
(* The lists of src/src/common/list.h are sequences here: what inserting   *)
(* and detaching a node does to the nodes of a list that has each of them  *)
(* once.                                                                   *)

(* A node inserted at the end.                                             *)
LEMMA AppendMembers ==
  ASSUME NEW S, NEW q \in Seq(S), NEW x \in S, IsInjective(q), x \notin Range(q)
  PROVE  /\ Append(q, x) \in Seq(S)
         /\ Len(Append(q, x)) = Len(q) + 1
         /\ IsInjective(Append(q, x))
         /\ Range(Append(q, x)) = Range(q) \cup {x}
<1> DEFINE r == Append(q, x)
<1>1. /\ r \in Seq(S)
      /\ Len(r) = Len(q) + 1
      /\ \A i \in 1..Len(q) : r[i] = q[i]
      /\ r[Len(q) + 1] = x
  BY AppendProperties
<1>2. DOMAIN q = 1..Len(q) /\ Len(q) \in Nat /\ DOMAIN r = 1..(Len(q) + 1)
  BY <1>1
<1> HIDE DEF r
<1>3. IsInjective(r)
  BY <1>1, <1>2 DEF IsInjective, Range
<1>4. Range(r) = Range(q) \cup {x}
  BY <1>1, <1>2 DEF Range
<1> QED  BY <1>1, <1>3, <1>4 DEF r

(* The first node is detached.                                             *)
LEMMA TailMembers ==
  ASSUME NEW S, NEW q \in Seq(S), IsInjective(q), q # <<>>
  PROVE  /\ Head(q) \in Range(q)
         /\ Tail(q) \in Seq(S)
         /\ Len(Tail(q)) = Len(q) - 1
         /\ IsInjective(Tail(q))
         /\ Range(Tail(q)) = Range(q) \ {Head(q)}
<1> DEFINE r == Tail(q)
<1>1. /\ r \in Seq(S)
      /\ Len(r) = Len(q) - 1
      /\ \A i \in 1..Len(r) : r[i] = q[i + 1]
  BY HeadTailProperties
<1>2. /\ DOMAIN q = 1..Len(q)
      /\ Len(q) \in Nat \ {0}
      /\ DOMAIN r = 1..(Len(q) - 1)
      /\ Head(q) = q[1]
  BY <1>1
<1> HIDE DEF r
<1>3. IsInjective(r)
  BY <1>1, <1>2 DEF IsInjective
<1>4. Range(r) = Range(q) \ {Head(q)}
  <2>1. \A y \in Range(r) : y \in Range(q) /\ y # q[1]
    BY <1>1, <1>2 DEF Range, IsInjective
  <2>2. ASSUME NEW i \in 1..Len(q), q[i] # q[1]  PROVE q[i] \in Range(r)
    <3>1. r[i - 1] = q[i] /\ i - 1 \in DOMAIN r
      BY <1>1, <1>2, <2>2
    <3> QED  BY <3>1 DEF Range
  <2> QED  BY <1>2, <2>1, <2>2 DEF Range
<1>5. Head(q) \in Range(q)
  BY <1>2 DEF Range
<1> QED  BY <1>1, <1>3, <1>4, <1>5 DEF r

-----------------------------------------------------------------------------
(* Who is where.  At most one actor is at a label under the lock, so what  *)
(* Doing says of these labels follows from the one that moves.             *)

LEMMA DoingNow ==
  ASSUME LockOwned, NEW a \in Actor, pc[a] \in Locked
  PROVE  \A k \in Locked : Doing(k) <=> pc[a] = k
BY DEF LockOwned, Doing

LEMMA DoingNone ==
  ASSUME LockOwned, lk = None
  PROVE  \A k \in Locked : ~Doing(k)
BY NamesAssumption DEF LockOwned, Doing, Actor

LEMMA DoingAfter ==
  ASSUME TypeOK, LockOwned, NEW a \in Actor, lk \in {a, None}, NEW l,
         pc' = [pc EXCEPT ![a] = l]
  PROVE  \A k \in Locked : Doing(k)' <=> l = k
<1>1. pc'[a] = l /\ \A b \in Actor \ {a} : pc'[b] = pc[b]
  BY DEF TypeOK
<1>2. \A b \in Actor \ {a} : pc[b] \notin Locked
  BY NamesAssumption DEF LockOwned, Actor
<1> QED  BY <1>1, <1>2 DEF Doing

LEMMA DoingSame ==
  ASSUME TypeOK, NEW a \in Actor, NEW l, l \notin Locked, pc[a] \notin Locked,
         pc' = [pc EXCEPT ![a] = l]
  PROVE  \A k \in Locked : Doing(k)' <=> Doing(k)
<1>1. pc'[a] = l /\ \A b \in Actor \ {a} : pc'[b] = pc[b]
  BY DEF TypeOK
<1> QED  BY <1>1 DEF Doing

(* The buf of a process that a step does not touch.                        *)
LEMMA BufSame ==
  ASSUME BufsOwned, NEW q \in Proc,
         pc'[q] = pc[q], sl'[q] = sl[q], flags'[q] = flags[q],
         data'[q] = data[q], req'[q] = req[q],
         q \in Range(sdque') <=> q \in Range(sdque)
  PROVE  BufOwned(q)'
BY DEF BufsOwned, BufOwned, Asks

(* The head of a queue.                                                    *)
LEMMA HeadMember ==
  ASSUME TypeOK, sdque # <<>>
  PROVE  queue_front \in Proc /\ queue_front \in Range(sdque)
BY DEF TypeOK, queue_front, Range

LEMMA BlockNumbers == \A n \in Block : n \in Nat /\ bno(n) \in Nat
<1>1. Block \subseteq Nat
  BY SdAssumption
<1> QED  BY <1>1 DEF bno

(* An injective queue has its head once.                                   *)
LEMMA PopMembers ==
  ASSUME TypeOK, BufsOwned, sdque # <<>>
  PROVE  /\ Tail(sdque) \in Seq(Proc) /\ IsInjective(Tail(sdque))
         /\ Range(Tail(sdque)) = Range(sdque) \ {queue_front}
         /\ Tail(sdque) # <<>> => Head(Tail(sdque)) # queue_front
         /\ Tail(sdque) # <<>> => Head(Tail(sdque)) \in Range(sdque)
<1>1. /\ Tail(sdque) \in Seq(Proc) /\ IsInjective(Tail(sdque))
      /\ Range(Tail(sdque)) = Range(sdque) \ {queue_front}
  BY TailMembers DEF TypeOK, BufsOwned, queue_front
<1> DEFINE t == Tail(sdque)
<1>2. t \in Seq(Proc) /\ Range(t) = Range(sdque) \ {queue_front}
  BY <1>1
<1> HIDE DEF t
<1>3. t # <<>> => Head(t) \in Range(t)
  BY <1>2 DEF Range
<1>4. t # <<>> => Head(t) \in Range(sdque) /\ Head(t) # queue_front
  BY <1>2, <1>3
<1> QED  BY <1>1, <1>4 DEF t

-----------------------------------------------------------------------------
(* What the controller and the card do.                                    *)

(* The phases say nothing of the other phases, and a phase other than idle *)
(* means that there is a request.                                          *)
LEMMA Busy ==
  ASSUME DriverInv, xfer.phase # "idle"
  PROVE  /\ sdque # <<>> /\ ~Doing("start")
         /\ xfer.arg = bno(req[queue_front].n)
BY DEF DriverInv, Serving, Idle

LEMMA CardFrame ==
  ASSUME DriverInv, UNCHANGED <<sdque, lk, bufs, pc, req>>
  PROVE  /\ LockOwned' /\ BufsOwned'
         /\ \A l : Doing(l)' <=> Doing(l)
         /\ HeadWrites' <=> HeadWrites
         /\ queue_front' = queue_front
BY DEF DriverInv, LockOwned, BufsOwned, BufOwned, Asks, Doing, HeadWrites,
       Dirty, queue_front, bufs

(* A transfer goes on in another phase, with the same argument.            *)
LEMMA CardMoves ==
  ASSUME DriverInv, UNCHANGED <<sdque, lk, bufs, pc, req>>,
         xfer.phase # "idle", xfer'.arg = xfer.arg, faults' >= faults,
         faults \in Nat, faults' \in Nat
  PROVE  Serving'
<1>1. sdque # <<>> /\ ~Doing("start") /\ xfer.arg = bno(req[queue_front].n)
  BY Busy
<1>2. /\ \A l : Doing(l)' <=> Doing(l)
      /\ HeadWrites' <=> HeadWrites
      /\ queue_front' = queue_front
  BY CardFrame
<1> QED  BY <1>1, <1>2 DEF DriverInv, Serving

LEMMA CardCommandInv ==
  ASSUME DriverInv, card_command
  PROVE  DriverInv'
<1>1. /\ xfer.phase = "cmd"
      /\ xfer' = [xfer EXCEPT !.phase = IF HeadWrites THEN "write" ELSE "read"]
      /\ interrupt' = interrupt \cup {"CMD_DONE"}
      /\ UNCHANGED <<sdque, lk, bufs, pc, req, card, faults>>
  BY DEF card_command, Answer, HeadWrites
<1>2. LockOwned' /\ BufsOwned' /\ (\A l : Doing(l)' <=> Doing(l))
      /\ (HeadWrites' <=> HeadWrites) /\ queue_front' = queue_front
  BY <1>1, CardFrame
<1>3. TypeOK'
  BY <1>1 DEF DriverInv, TypeOK, Phase, bufs, IrqEnabled
<1>4. /\ xfer'.phase = IF HeadWrites THEN "write" ELSE "read"
      /\ xfer'.arg = xfer.arg /\ xfer'.fifo = xfer.fifo
  BY <1>1 DEF DriverInv, TypeOK
<1>5. Serving'
  BY <1>1, <1>4, CardMoves DEF DriverInv, TypeOK
<1>6. Doing("cmd") /\ interrupt = {} /\ xfer.fifo = None /\ ~Doing("data")
  BY <1>1, DoingNow DEF DriverInv, InPhase, CmdPhase, Doing, Locked
<1>7. InPhase'
  <2>1. interrupt' = {} \cup (IF Doing("cmd")' THEN {"CMD_DONE"} ELSE {})
    BY <1>1, <1>2, <1>6
  <2> QED  BY <1>2, <1>4, <1>6, <2>1 DEF InPhase, ReadPhase, WritePhase, Signals
<1> QED  BY <1>2, <1>3, <1>5, <1>7 DEF DriverInv

LEMMA CardReadInv ==
  ASSUME DriverInv, NEW x \in Value \cup {Garbage}, xfer.phase = "read",
         xfer' = [xfer EXCEPT !.phase = "fifo", !.fifo = x],
         interrupt' = interrupt \cup {"READ_RDY"},
         faults' \in 0..MaxFaults, faults' >= faults, x = Garbage => faults' > 0,
         UNCHANGED <<sdque, lk, bufs, pc, req, card>>
  PROVE  DriverInv'
<1>2. LockOwned' /\ BufsOwned' /\ (\A l : Doing(l)' <=> Doing(l))
      /\ (HeadWrites' <=> HeadWrites) /\ queue_front' = queue_front
  BY CardFrame
<1>3. TypeOK'
  BY DEF DriverInv, TypeOK, Phase, bufs, IrqEnabled
<1>4. xfer'.phase = "fifo" /\ xfer'.arg = xfer.arg /\ xfer'.fifo = x
  BY DEF DriverInv, TypeOK
<1>5. Serving'
  BY <1>4, SdAssumption, CardMoves DEF DriverInv, TypeOK
<1>6. ~HeadWrites /\ ~Doing("data") /\ Signals({})
  BY DEF DriverInv, InPhase, ReadPhase
<1>7. InPhase'
  <2>1. Signals({"READ_RDY"})'
    BY <1>2, <1>6 DEF Signals
  <2>2. x # None
    BY NamesAssumption
  <2> QED  BY <1>2, <1>4, <1>6, <2>1, <2>2 DEF InPhase, FifoPhase
<1> QED  BY <1>2, <1>3, <1>5, <1>7 DEF DriverInv

LEMMA CardReadyInv ==
  ASSUME DriverInv, card_ready
  PROVE  DriverInv'
<1>1. /\ xfer.phase = "write"
      /\ xfer' = [xfer EXCEPT !.phase = "ready"]
      /\ interrupt' = interrupt \cup {"WRITE_RDY"}
      /\ UNCHANGED <<sdque, lk, bufs, pc, req, card, faults>>
  BY DEF card_ready, Answer
<1>2. LockOwned' /\ BufsOwned' /\ (\A l : Doing(l)' <=> Doing(l))
      /\ (HeadWrites' <=> HeadWrites) /\ queue_front' = queue_front
  BY <1>1, CardFrame
<1>3. TypeOK'
  BY <1>1 DEF DriverInv, TypeOK, Phase, bufs, IrqEnabled
<1>4. xfer'.phase = "ready" /\ xfer'.arg = xfer.arg
  BY <1>1 DEF DriverInv, TypeOK
<1>5. Serving'
  BY <1>1, <1>4, CardMoves DEF DriverInv, TypeOK
<1>6. HeadWrites /\ Signals({}) /\ (Doing("cmd") \/ Doing("wrdy"))
  BY <1>1 DEF DriverInv, InPhase, WritePhase
<1>7. InPhase'
  <2>1. Signals({"WRITE_RDY"})'
    BY <1>1, <1>2, <1>6 DEF Signals
  <2> QED  BY <1>2, <1>4, <1>6, <2>1 DEF InPhase, WritePhase
<1> QED  BY <1>2, <1>3, <1>5, <1>7 DEF DriverInv

(* The transfer ends, well or not: the controller is idle and says so.     *)
LEMMA CardEndsInv ==
  ASSUME DriverInv, xfer.phase # "idle", UNCHANGED <<sdque, lk, bufs, pc, req>>,
         NEW b \in {"DATA_DONE", "ERR"}, interrupt' = interrupt \cup {b},
         xfer' \in [phase : {"idle"}, arg : Nat, fifo : Value \cup {Garbage, None}],
         card' \in [Block -> Value],
         faults' \in 0..MaxFaults, faults' >= faults,
         b = "DATA_DONE" => /\ xfer' = Idle /\ interrupt = {}
                            /\ Doing("data") \/ (HeadWrites /\ ~Starting),
         b = "ERR" => faults' > 0 /\ "DATA_DONE" \notin interrupt
  PROVE  DriverInv'
<1>2. LockOwned' /\ BufsOwned' /\ (\A l : Doing(l)' <=> Doing(l))
      /\ (HeadWrites' <=> HeadWrites) /\ queue_front' = queue_front
  BY CardFrame
<1>3. TypeOK'
  BY DEF DriverInv, TypeOK, Phase, bufs, IrqEnabled
<1>4. xfer'.phase = "idle" /\ sdque # <<>> /\ ~Doing("start")
  BY Busy
<1>5. Serving'
  <2>1. faults > 0 => faults' > 0
    BY SdAssumption DEF DriverInv, TypeOK
  <2> QED  BY <1>2, <1>4, <2>1 DEF DriverInv, Serving
<1>6. InPhase'
  <2>1. Starting' <=> Starting
    BY <1>2 DEF Starting
  <2>2. CASE b = "DATA_DONE"
    <3>1. interrupt' = {"DATA_DONE"}
      BY <2>2
    <3> QED  BY <1>2, <1>4, <2>1, <2>2, <3>1 DEF InPhase, IdlePhase
  <2>3. CASE b = "ERR"
    <3>1. "ERR" \in interrupt' /\ "DATA_DONE" \notin interrupt'
      BY <2>3
    <3> QED  BY <1>2, <1>4, <2>3, <3>1 DEF InPhase, IdlePhase
  <2> QED  BY <2>2, <2>3
<1> QED  BY <1>2, <1>3, <1>5, <1>6 DEF DriverInv

(* An answer on the way when the card falls silent is not an error.        *)
LEMMA CardDiesInv ==
  ASSUME DriverInv, xfer.phase \notin {"idle", "dead"},
         UNCHANGED <<sdque, lk, bufs, pc, req, interrupt, card>>,
         xfer' = [xfer EXCEPT !.phase = "dead"],
         faults < MaxFaults, faults' = faults + 1
  PROVE  DriverInv'
<1>2. LockOwned' /\ BufsOwned' /\ (\A l : Doing(l)' <=> Doing(l))
      /\ (HeadWrites' <=> HeadWrites) /\ queue_front' = queue_front
  BY CardFrame
<1>0. faults' \in 0..MaxFaults
  BY SdAssumption DEF DriverInv, TypeOK
<1>1. xfer' \in [phase : Phase, arg : Nat, fifo : Value \cup {Garbage, None}]
  BY DEF DriverInv, TypeOK, Phase
<1>3. TypeOK'
  BY <1>0, <1>1 DEF DriverInv, TypeOK, bufs
<1>4. xfer'.phase = "dead" /\ xfer'.arg = xfer.arg /\ xfer'.fifo = xfer.fifo
      /\ faults \in Nat /\ faults' \in Nat /\ faults' > 0
  BY SdAssumption DEF DriverInv, TypeOK
<1>5. Serving'
  BY <1>4, CardMoves
<1>6. interrupt \cap {"DATA_DONE", "ERR"} = {}
  BY DEF DriverInv, TypeOK, Phase, InPhase, CmdPhase, ReadPhase, FifoPhase,
         DrainedPhase, WritePhase, FilledPhase, Signals
<1>7. "READ_RDY" \in interrupt => ~HeadWrites /\ xfer.fifo # None
  BY DEF DriverInv, TypeOK, Phase, InPhase, CmdPhase, ReadPhase, FifoPhase,
         DrainedPhase, WritePhase, FilledPhase, Signals
<1>8. InPhase'
  BY <1>2, <1>4, <1>6, <1>7 DEF InPhase, DeadPhase
<1> QED  BY <1>2, <1>3, <1>5, <1>8 DEF DriverInv


LEMMA AddressedBlock ==
  ASSUME DriverInv, xfer.phase # "idle"
  PROVE  Addressed = req[queue_front].n /\ Addressed \in Block
<1>1. sdque # <<>> /\ xfer.arg = bno(req[queue_front].n)
  BY Busy
<1>2. queue_front \in Proc /\ queue_front \in Range(sdque)
  BY <1>1, HeadMember DEF DriverInv
<1>3. req[queue_front] \in Requests
  BY <1>2 DEF DriverInv, BufsOwned, BufOwned, TypeOK
<1>4. req[queue_front].n \in Block /\ req[queue_front].n \in Nat
  BY <1>3, BlockNumbers DEF Requests
<1>5. \A n \in Nat : (n * 512) \div 512 = n
  OBVIOUS
<1> QED  BY <1>1, <1>4, <1>5 DEF Addressed, bno

LEMMA CardInv ==
  ASSUME DriverInv, Card
  PROVE  DriverInv'
<1>0. faults \in 0..MaxFaults /\ faults \in Nat /\ card \in [Block -> Value]
  BY SdAssumption DEF DriverInv, TypeOK
<1>1. CASE card_command
  BY <1>1, CardCommandInv
<1>2. CASE card_read
  <2>1. card[Addressed] \in Value
    BY <1>0, <1>2, AddressedBlock DEF card_read
  <2>2. card[Addressed] # Garbage
    BY <2>1, NamesAssumption
  <2>3. PICK x \in Value : x = card[Addressed]
    BY <2>1
  <2>4. /\ xfer.phase = "read" /\ faults' = faults
        /\ xfer' = [xfer EXCEPT !.phase = "fifo", !.fifo = x]
        /\ interrupt' = interrupt \cup {"READ_RDY"}
        /\ UNCHANGED <<sdque, lk, bufs, pc, req, card>>
    BY <1>2, <2>3 DEF card_read, Answer
  <2>5. faults' \in 0..MaxFaults /\ faults' >= faults
    BY <1>0, <2>4
  <2> QED  BY <2>2, <2>3, <2>4, <2>5, CardReadInv
<1>3. CASE card_drained
  <2>1. /\ xfer.phase = "drained" /\ Doing("data") /\ interrupt = {}
        /\ xfer.fifo = Garbage => faults > 0
    BY <1>3 DEF card_drained, DriverInv, InPhase, DrainedPhase
  <2>2. Idle \in [phase : {"idle"}, arg : Nat, fifo : Value \cup {Garbage, None}]
    BY DEF Idle
  <2>3. /\ UNCHANGED <<sdque, lk, bufs, pc, req, card, faults>>
        /\ xfer' = Idle
        /\ \E b \in {"DATA_DONE", "ERR"} : /\ interrupt' = interrupt \cup {b}
                                           /\ b = "ERR" => xfer.fifo = Garbage
    BY <1>3 DEF card_drained, Answer
  <2>4. PICK b \in {"DATA_DONE", "ERR"} : /\ interrupt' = interrupt \cup {b}
                                          /\ b = "ERR" => xfer.fifo = Garbage
    BY <2>3
  <2>5. /\ faults' \in 0..MaxFaults /\ faults' >= faults
        /\ card' \in [Block -> Value]
        /\ xfer' \in [phase : {"idle"}, arg : Nat, fifo : Value \cup {Garbage, None}]
        /\ b = "ERR" => faults' > 0 /\ "DATA_DONE" \notin interrupt
    BY <1>0, <2>1, <2>2, <2>3, <2>4
  <2>6. xfer.phase # "idle"
    BY <2>1
  <2>7. b = "DATA_DONE" => /\ xfer' = Idle /\ interrupt = {}
                           /\ Doing("data") \/ (HeadWrites /\ ~Starting)
    BY <2>1, <2>3
  <2>8. interrupt' = interrupt \cup {b} /\ UNCHANGED <<sdque, lk, bufs, pc, req>>
    BY <2>3, <2>4
  <2> QED  BY <2>5, <2>6, <2>7, <2>8, CardEndsInv
<1>4. CASE card_ready
  BY <1>4, CardReadyInv
<1>5. CASE card_write
  <2>1. /\ xfer.phase = "filled" /\ HeadWrites /\ interrupt = {} /\ ~Starting
        /\ xfer.fifo = data[queue_front]
    BY <1>5 DEF card_write, DriverInv, InPhase, FilledPhase
  <2>2. Idle \in [phase : {"idle"}, arg : Nat, fifo : Value \cup {Garbage, None}]
    BY DEF Idle
  <2>3. card' \in [Block -> Value]
    <3>1. queue_front \in Proc /\ queue_front \in Range(sdque)
      BY <2>1, Busy, HeadMember DEF DriverInv
    <3>2. req[queue_front].write
      BY <2>1, <3>1 DEF DriverInv, BufsOwned, BufOwned, Asks, HeadWrites, Dirty
    <3>3. data[queue_front] \in Value
      BY <3>1, <3>2 DEF DriverInv, BufsOwned, BufOwned, Asks
    <3>4. Addressed \in Block
      BY <2>1, AddressedBlock
    <3> QED  BY <1>0, <1>5, <2>1, <3>3, <3>4 DEF card_write
  <2>4. /\ UNCHANGED <<sdque, lk, bufs, pc, req, faults>>
        /\ xfer' = Idle /\ interrupt' = interrupt \cup {"DATA_DONE"}
    BY <1>5 DEF card_write, Answer
  <2>5. /\ faults' \in 0..MaxFaults /\ faults' >= faults
        /\ xfer' \in [phase : {"idle"}, arg : Nat, fifo : Value \cup {Garbage, None}]
    BY <1>0, <2>2, <2>4
  <2>6. xfer.phase # "idle"
    BY <2>1
  <2> QED  BY <2>1, <2>3, <2>4, <2>5, <2>6, CardEndsInv
<1> QED  BY <1>1, <1>2, <1>3, <1>4, <1>5 DEF Card


LEMMA CardFailInv ==
  ASSUME DriverInv, card_fail
  PROVE  DriverInv'
<1>0. /\ faults \in Nat /\ faults' = faults + 1 /\ faults' \in 0..MaxFaults
      /\ faults' > 0 /\ faults' >= faults /\ faults < MaxFaults
      /\ card' = card /\ card \in [Block -> Value]
  BY SdAssumption DEF card_fail, DriverInv, TypeOK
<1>1. CASE /\ xfer.phase \notin {"idle", "dead"}
           /\ Answer("ERR", [xfer EXCEPT !.phase = "idle"])
  <2>1. "DATA_DONE" \notin interrupt
    BY <1>1 DEF DriverInv, TypeOK, Phase, InPhase, CmdPhase, ReadPhase, FifoPhase,
           DrainedPhase, WritePhase, FilledPhase, Signals
  <2>2. /\ xfer' \in [phase : {"idle"}, arg : Nat, fifo : Value \cup {Garbage, None}]
        /\ interrupt' = interrupt \cup {"ERR"}
        /\ UNCHANGED <<sdque, lk, bufs, pc, req>>
    BY <1>1 DEF Answer, DriverInv, TypeOK
  <2>3. xfer.phase # "idle" /\ card' \in [Block -> Value]
    BY <1>0, <1>1
  <2> QED  BY <1>0, <2>1, <2>2, <2>3, CardEndsInv
<1>2. CASE /\ xfer.phase = "read"
           /\ Answer("READ_RDY", [xfer EXCEPT !.phase = "fifo", !.fifo = Garbage])
  <2>1. /\ xfer' = [xfer EXCEPT !.phase = "fifo", !.fifo = Garbage]
        /\ interrupt' = interrupt \cup {"READ_RDY"}
        /\ UNCHANGED <<sdque, lk, bufs, pc, req, card>>
    BY <1>0, <1>2 DEF Answer
  <2> QED  BY <1>0, <1>2, <2>1, CardReadInv
<1>3. CASE /\ xfer.phase \notin {"idle", "dead"}
           /\ xfer' = [xfer EXCEPT !.phase = "dead"]
           /\ UNCHANGED <<sdque, lk, bufs, pc, req, interrupt>>
  BY <1>0, <1>3, CardDiesInv
<1> QED  BY <1>1, <1>2, <1>3 DEF card_fail

-----------------------------------------------------------------------------
(* What the processes do.                                                  *)

(* A step of a process that moves it and changes its buf, and neither the  *)
(* queue nor the device: what is known of the transfer stays.              *)
LEMMA ProcFrame ==
  ASSUME DriverInv, UNCHANGED <<sdque, device>>,
         \A k \in Locked \ {"test"} : Doing(k)' <=> Doing(k),
         sdque # <<>> => /\ flags'[queue_front] = flags[queue_front]
                         /\ data'[queue_front] = data[queue_front]
                         /\ req'[queue_front] = req[queue_front]
  PROVE  Serving' /\ InPhase'
<1>1. /\ xfer' = xfer /\ interrupt' = interrupt /\ faults' = faults
      /\ sdque' = sdque /\ queue_front' = queue_front
      /\ Doing("start")' <=> Doing("start")
      /\ Doing("cmd")' <=> Doing("cmd")
      /\ Doing("wrdy")' <=> Doing("wrdy")
      /\ Doing("data")' <=> Doing("data")
      /\ Doing("panic")' <=> Doing("panic")
      /\ sdque # <<>> => (HeadWrites' <=> HeadWrites)
  BY DEF device, queue_front, HeadWrites, Dirty, Locked
<1>2. Serving'
  BY <1>1 DEF DriverInv, Serving, Starting, Idle
<1>3. CASE sdque = <<>>
  BY <1>1, <1>2, <1>3 DEF DriverInv, Serving, InPhase, Idle, IdlePhase
<1>4. CASE sdque # <<>>
  BY <1>1, <1>2, <1>4 DEF DriverInv, InPhase, CmdPhase, ReadPhase, FifoPhase, Starting,
         DrainedPhase, WritePhase, FilledPhase, IdlePhase, DeadPhase, Signals
<1> QED  BY <1>2, <1>3, <1>4

LEMMA CallInv ==
  ASSUME DriverInv, NEW p \in Proc, NEW r \in Requests, NEW f, NEW x \in 0..1,
         pc[p] = "idle",
         flags' = [flags EXCEPT ![p] = f],
         f = IF r.write THEN {"B_DIRTY", "B_VALID"} ELSE {},
         data' = [data EXCEPT ![p] = r.v],
         r.write => r.v \in Value,
         req' = [req EXCEPT ![p] = r],
         sl' = [sl EXCEPT ![p] = x],
         pc' = [pc EXCEPT ![p] = "lock"],
         UNCHANGED <<sdque, lk, device>>
  PROVE  DriverInv'
<1>0. p \in Actor /\ Intr \in Actor /\ p # Intr
  BY SdAssumption DEF Actor
<1>1. /\ pc'[p] = "lock" /\ flags'[p] = f /\ data'[p] = r.v /\ req'[p] = r
      /\ pc'[Intr] = pc[Intr]
      /\ \A b \in Actor \ {p} : pc'[b] = pc[b]
      /\ \A q \in Proc \ {p} : /\ pc'[q] = pc[q] /\ sl'[q] = sl[q]
                               /\ flags'[q] = flags[q] /\ data'[q] = data[q]
                               /\ req'[q] = req[q]
  BY <1>0 DEF DriverInv, TypeOK, Actor
<1>2. TypeOK'
  <2>1. r.v \in Value \cup {Garbage} /\ f \in SUBSET {"B_DIRTY", "B_VALID"}
    BY DEF Requests
  <2> QED  BY <1>0, <2>1 DEF DriverInv, TypeOK, PC, device
<1>3. LockOwned'
  BY <1>0, <1>1 DEF DriverInv, LockOwned, Locked, Actor
<1>4. p \notin Range(sdque)
  BY DEF DriverInv, BufsOwned, BufOwned
<1>5. BufsOwned'
  <2>1. BufOwned(p)'
    BY <1>1, <1>4, NoRequestAssumption DEF BufOwned, Asks
  <2>2. \A q \in Proc \ {p} : BufOwned(q)'
    BY <1>1, BufSame DEF DriverInv
  <2> QED  BY <2>1, <2>2 DEF DriverInv, BufsOwned
<1>6. \A k \in Locked : Doing(k)' <=> Doing(k)
  BY <1>0, DoingSame DEF DriverInv, Locked
<1>7. Serving' /\ InPhase'
  <2>1. sdque # <<>> => queue_front \in Proc \ {p}
    BY <1>4, HeadMember DEF DriverInv
  <2> QED  BY <1>1, <1>6, <2>1, ProcFrame
<1> QED  BY <1>2, <1>3, <1>5, <1>7 DEF DriverInv

LEMMA ReadCallInv ==
  ASSUME DriverInv, NEW p \in Proc, NEW n \in Block, sd_read(p, n)
  PROVE  DriverInv'
<1> DEFINE r == [write |-> FALSE, n |-> n, v |-> Garbage]
<1>1. r \in Requests /\ ~r.write /\ r.v = Garbage
  BY DEF Requests
<1>2. PICK x \in 0..1 : sl' = [sl EXCEPT ![p] = x]
  BY DEF sd_read, Uninitialised
<1> QED  BY <1>1, <1>2, CallInv DEF sd_read, Goto

LEMMA WriteCallInv ==
  ASSUME DriverInv, NEW p \in Proc, NEW n \in Block, NEW v \in Value,
         sd_write(p, n, v)
  PROVE  DriverInv'
<1> DEFINE r == [write |-> TRUE, n |-> n, v |-> v]
<1>1. r \in Requests /\ r.write /\ r.v = v
  BY DEF Requests
<1>2. PICK x \in 0..1 : sl' = [sl EXCEPT ![p] = x]
  BY DEF sd_write, Uninitialised
<1> QED  BY <1>1, <1>2, CallInv DEF sd_write, Goto


LEMMA PushInv ==
  ASSUME DriverInv, NEW p \in Proc, sdrw_push(p)
  PROVE  DriverInv'
<1>0. p \in Actor /\ Intr \in Actor /\ p # Intr /\ p # None
  BY SdAssumption, NamesAssumption DEF Actor
<1>1. /\ pc[p] = "lock" /\ lk = None /\ lk' = p
      /\ sdque' = Append(sdque, p)
      /\ UNCHANGED <<flags, data, device, req>>
  BY DEF sdrw_push, queue_lock, queue_push
<1>2. PICK l \in {"start", "test"}, y \in 0..1 :
        /\ pc' = [pc EXCEPT ![p] = l] /\ sl' = [sl EXCEPT ![p] = y]
        /\ l = "start" <=> sdque = <<>>
        /\ l = "test" => y = 0
  <2>1. sl' = [sl EXCEPT ![p] = sl[p]] \/ sl' = [sl EXCEPT ![p] = 0]
    BY DEF sdrw_push, DriverInv, TypeOK
  <2>2. sl[p] \in 0..1
    BY DEF DriverInv, TypeOK
  <2>3. sl = [sl EXCEPT ![p] = sl[p]]
    BY DEF DriverInv, TypeOK
  <2> QED  BY <2>2, <2>3 DEF sdrw_push, queue_empty, Goto
<1>3. /\ pc'[p] = l /\ sl'[p] = y /\ pc'[Intr] = pc[Intr]
      /\ \A b \in Actor \ {p} : pc'[b] = pc[b]
      /\ \A q \in Proc \ {p} : pc'[q] = pc[q] /\ sl'[q] = sl[q]
  BY <1>0, <1>2 DEF DriverInv, TypeOK, Actor
<1>4. p \notin Range(sdque)
  BY <1>1 DEF DriverInv, BufsOwned, BufOwned
<1>5. /\ sdque' \in Seq(Proc) /\ IsInjective(sdque') /\ sdque' # <<>>
      /\ Range(sdque') = Range(sdque) \cup {p}
  BY <1>1, <1>4, AppendMembers DEF DriverInv, TypeOK, BufsOwned
<1>6. TypeOK'
  BY <1>0, <1>1, <1>2, <1>5 DEF DriverInv, TypeOK, PC, device
<1>7. LockOwned'
  BY <1>0, <1>1, <1>2, <1>3, NamesAssumption
     DEF DriverInv, LockOwned, Locked, Actor
<1>8. BufsOwned'
  <2>1. BufOwned(p)'
    BY <1>1, <1>2, <1>3, <1>5 DEF DriverInv, BufsOwned, BufOwned, Asks
  <2>2. \A q \in Proc \ {p} : BufOwned(q)'
    BY <1>1, <1>3, <1>5, BufSame DEF DriverInv
  <2> QED  BY <1>5, <2>1, <2>2 DEF BufsOwned
<1>9. (\A k \in Locked : ~Doing(k)) /\ (\A k \in Locked : Doing(k)' <=> l = k)
  BY <1>0, <1>1, <1>2, DoingNone, DoingAfter DEF DriverInv
<1>10. Serving' /\ InPhase'
  <2>1. CASE sdque # <<>>
    <3>1. /\ queue_front' = queue_front /\ l = "test"
          /\ HeadWrites' <=> HeadWrites
      BY <1>1, <1>2, <2>1 DEF DriverInv, TypeOK, queue_front, HeadWrites, Dirty
    <3>2. /\ xfer' = xfer /\ interrupt' = interrupt /\ faults' = faults
          /\ req' = req /\ data' = data
      BY <1>1 DEF device
    <3>3. \A k \in {"start", "cmd", "wrdy", "data", "panic"} : ~Doing(k) /\ ~Doing(k)'
      BY <1>9, <3>1 DEF Locked
    <3>4. Serving'
      BY <1>5, <3>1, <3>2, <3>3 DEF DriverInv, Serving, Starting
    <3>5. InPhase'
      BY <2>1, <3>1, <3>2, <3>3
         DEF DriverInv, InPhase, CmdPhase, ReadPhase, FifoPhase, Starting,
             DrainedPhase, WritePhase, FilledPhase, IdlePhase, DeadPhase, Signals
    <3> QED  BY <3>4, <3>5
  <2>2. CASE sdque = <<>>
    <3>1. xfer = Idle /\ interrupt = {} /\ l = "start"
      BY <1>2, <2>2 DEF DriverInv, Serving
    <3>2. xfer' = Idle /\ interrupt' = {} /\ xfer'.phase = "idle"
      BY <1>1, <3>1 DEF device, Idle
    <3>3. /\ Doing("start")' /\ ~Doing("wrdy")' /\ ~Doing("data")'
          /\ ~Doing("panic")'
      BY <1>9, <3>1 DEF Locked
    <3> QED  BY <1>5, <3>2, <3>3 DEF Serving, InPhase, IdlePhase
  <2> QED  BY <2>1, <2>2
<1> QED  BY <1>6, <1>7, <1>8, <1>10 DEF DriverInv

(* A process that goes on in the loop of sdrw, or leaves it: nobody else   *)
(* can tell but for the lock.                                              *)
LEMMA LoopInv ==
  ASSUME DriverInv, NEW p \in Proc,
         NEW l \in {"test", "sleep", "relock", "idle"},
         pc[p] \in {"test", "sleep", "relock"},
         pc' = [pc EXCEPT ![p] = l], UNCHANGED <<sdque, flags, data, device>>,
         lk' \in Actor \cup {None}, LockOwned',
         sl' \in [Proc -> 0..1], req' \in [Proc -> Requests \cup {None}],
         \A q \in Proc \ {p} : sl'[q] = sl[q] /\ req'[q] = req[q],
         p \in Range(sdque) => req'[p] = req[p],
         BufOwned(p)'
  PROVE  DriverInv'
<1>0. p \in Actor
  BY DEF Actor
<1>1. /\ pc'[p] = l
      /\ \A b \in Actor \ {p} : pc'[b] = pc[b]
      /\ \A q \in Proc \ {p} : pc'[q] = pc[q]
  BY <1>0 DEF DriverInv, TypeOK, Actor
<1>2. TypeOK'
  BY <1>0 DEF DriverInv, TypeOK, PC, device
<1>3. BufsOwned'
  <2>1. \A q \in Proc \ {p} : BufOwned(q)'
    BY <1>1, BufSame DEF DriverInv
  <2> QED  BY <2>1 DEF DriverInv, BufsOwned
<1>4. \A k \in Locked \ {"test"} : Doing(k)' <=> Doing(k)
  BY <1>0, <1>1 DEF Doing, Locked
<1>5. sdque # <<>> => queue_front \in Proc /\ queue_front \in Range(sdque)
  BY HeadMember DEF DriverInv
<1>6. Serving' /\ InPhase'
  BY <1>4, <1>5, ProcFrame
<1> QED  BY <1>2, <1>3, <1>6 DEF DriverInv

LEMMA TestInv ==
  ASSUME DriverInv, NEW p \in Proc, sdrw_test(p)
  PROVE  DriverInv'
<1>0. p \in Actor /\ Intr \in Actor /\ p # Intr /\ p # None
  BY SdAssumption, NamesAssumption DEF Actor
<1>1. /\ pc[p] = "test" /\ lk = p /\ lk' = None
      /\ UNCHANGED <<sdque, flags, data, sl, device>>
  BY DEF sdrw_test, queue_unlock, bufs
<1>2. PICK l \in {"sleep", "idle"} : pc' = [pc EXCEPT ![p] = l]
  BY DEF sdrw_test, Goto
<1>3. /\ pc'[p] = l /\ pc'[Intr] = pc[Intr]
      /\ \A b \in Actor \ {p} : pc'[b] = pc[b]
  BY <1>0, <1>2 DEF DriverInv, TypeOK, Actor
<1>4. IF flags[p] = {"B_VALID"} THEN l = "idle" /\ req' = [req EXCEPT ![p] = None]
                                ELSE l = "sleep" /\ req' = req
  BY <1>3 DEF sdrw_test, Goto, DriverInv, TypeOK
<1>5. req' \in [Proc -> Requests \cup {None}]
      /\ \A q \in Proc \ {p} : req'[q] = req[q]
  BY <1>4 DEF DriverInv, TypeOK
<1>6. LockOwned'
  BY <1>0, <1>1, <1>3, NamesAssumption DEF DriverInv, LockOwned, Locked, Actor
<1>7. p \in Range(sdque) => flags[p] # {"B_VALID"} /\ sl[p] = 0
  BY <1>1 DEF DriverInv, BufsOwned, BufOwned, Asks
<1>8. p \notin Range(sdque) => flags[p] = {"B_VALID"}
  BY <1>1 DEF DriverInv, BufsOwned, BufOwned
<1>9. BufOwned(p)'
  <2>1. CASE p \in Range(sdque)
    BY <1>1, <1>3, <1>4, <1>7, <2>1 DEF DriverInv, BufsOwned, BufOwned, Asks
  <2>2. CASE p \notin Range(sdque)
    <3>1. l = "idle" /\ req'[p] = None
      BY <1>4, <1>8, <2>2 DEF DriverInv, TypeOK
    <3> QED  BY <1>1, <1>3, <2>2, <3>1 DEF BufOwned
  <2> QED  BY <2>1, <2>2
<1>10. p \in Range(sdque) => req'[p] = req[p]
  BY <1>4, <1>7
<1> QED  BY <1>1, <1>2, <1>5, <1>6, <1>9, <1>10, LoopInv DEF DriverInv, TypeOK

LEMMA WaitInv ==
  ASSUME DriverInv, NEW p \in Proc, wait_sem(p)
  PROVE  DriverInv'
<1>0. p \in Actor /\ Intr \in Actor /\ p # Intr /\ p # None
  BY SdAssumption, NamesAssumption DEF Actor
<1>1. /\ pc[p] = "sleep" /\ sl[p] > 0 /\ sl' = [sl EXCEPT ![p] = sl[p] - 1]
      /\ pc' = [pc EXCEPT ![p] = "relock"]
      /\ UNCHANGED <<sdque, lk, flags, data, device, req>>
  BY DEF wait_sem, Goto
<1>2. sl[p] = 1 /\ sl \in [Proc -> 0..1]
  BY <1>1 DEF DriverInv, TypeOK
<1>3. sl' \in [Proc -> 0..1] /\ \A q \in Proc \ {p} : sl'[q] = sl[q]
  BY <1>1, <1>2
<1>4. /\ pc'[p] = "relock" /\ pc'[Intr] = pc[Intr]
      /\ \A b \in Actor \ {p} : pc'[b] = pc[b]
  BY <1>0, <1>1 DEF DriverInv, TypeOK, Actor
<1>5. LockOwned'
  BY <1>0, <1>1, <1>4 DEF DriverInv, LockOwned, Locked, Actor
<1>6. p \notin Range(sdque) /\ flags[p] = {"B_VALID"} /\ req[p] # None
  BY <1>1, <1>2 DEF DriverInv, BufsOwned, BufOwned
<1>7. BufOwned(p)'
  BY <1>1, <1>4, <1>6 DEF BufOwned
<1> QED  BY <1>1, <1>3, <1>5, <1>7, LoopInv DEF DriverInv, TypeOK

LEMMA RelockInv ==
  ASSUME DriverInv, NEW p \in Proc, sdrw_relock(p)
  PROVE  DriverInv'
<1>0. p \in Actor /\ Intr \in Actor /\ p # Intr /\ p # None
  BY SdAssumption, NamesAssumption DEF Actor
<1>1. /\ pc[p] = "relock" /\ lk = None /\ lk' = p
      /\ pc' = [pc EXCEPT ![p] = "test"]
      /\ UNCHANGED <<sdque, flags, data, sl, device, req>>
  BY DEF sdrw_relock, Goto, queue_lock, bufs
<1>2. /\ pc'[p] = "test" /\ pc'[Intr] = pc[Intr]
      /\ \A b \in Actor \ {p} : pc'[b] = pc[b]
  BY <1>0, <1>1 DEF DriverInv, TypeOK, Actor
<1>3. LockOwned'
  BY <1>0, <1>1, <1>2, NamesAssumption DEF DriverInv, LockOwned, Locked, Actor
<1>4. BufOwned(p)'
  BY <1>1, <1>2 DEF DriverInv, BufsOwned, BufOwned
<1> QED  BY <1>0, <1>1, <1>3, <1>4, LoopInv DEF DriverInv, TypeOK

-----------------------------------------------------------------------------
(* sd_start, by whoever holds the lock.                                    *)

(* What a step of sd_start from label k to label l leaves to be shown.     *)
StartMove(a, l) ==
  /\ pc[a] \in {"start", "cmd", "wrdy"}
  /\ l \in {"cmd", "wrdy", "panic"} \cup IF a = Intr THEN {"idle"} ELSE {"test"}
  /\ pc' = [pc EXCEPT ![a] = l]
  /\ lk' = (IF l = "idle" THEN None ELSE lk)
  /\ sl' = (IF l = "test" THEN [sl EXCEPT ![a] = 0] ELSE sl)
  /\ UNCHANGED <<sdque, flags, data, req, card, faults>>

LEMMA StartFrame ==
  ASSUME DriverInv, NEW a \in Actor, NEW l, StartMove(a, l),
         interrupt' \subseteq interrupt,
         xfer' \in [phase : Phase, arg : Nat, fifo : Value \cup {Garbage, None}]
  PROVE  /\ TypeOK' /\ LockOwned' /\ BufsOwned'
         /\ \A k \in Locked : Doing(k) <=> pc[a] = k
         /\ \A k \in Locked : Doing(k)' <=> l = k
         /\ HeadWrites' <=> HeadWrites
         /\ queue_front' = queue_front
         /\ sdque # <<>> /\ sdque' # <<>>
<1>0. Intr \in Actor /\ Intr \notin Proc /\ a # None /\ (a = Intr \/ a \in Proc)
  BY SdAssumption, NamesAssumption DEF Actor
<1>1. lk = a
  BY DEF DriverInv, LockOwned, Locked, StartMove
<1>2. /\ l \in PC /\ l # "data" /\ l # "lock"
      /\ l = "idle" => a = Intr
      /\ l = "test" => a \in Proc
      /\ pc'[a] = l /\ \A b \in Actor \ {a} : pc'[b] = pc[b]
  BY <1>0 DEF DriverInv, TypeOK, PC, StartMove
<1>3. sl' \in [Proc -> 0..1] /\ \A q \in Proc \ {a} : sl'[q] = sl[q]
  BY <1>2 DEF DriverInv, TypeOK, StartMove
<1>4. TypeOK'
  <2>1. lk' \in Actor \cup {None}
    BY <1>1 DEF StartMove
  <2>2. pc' \in [Actor -> PC]
    BY <1>2 DEF DriverInv, TypeOK, StartMove
  <2>3. interrupt' \subseteq {"CMD_DONE", "WRITE_RDY"} \cup IrqEnabled
    BY DEF DriverInv, TypeOK
  <2> QED  BY <1>3, <2>1, <2>2, <2>3 DEF DriverInv, TypeOK, StartMove
<1>5. LockOwned'
  <2>1. lk' = IF l = "idle" THEN None ELSE a
    BY <1>1 DEF StartMove
  <2>2. \A b \in Actor \ {a} : pc[b] \notin Locked /\ b # None
    BY <1>1, NamesAssumption DEF DriverInv, LockOwned, Actor
  <2>3. l = "idle" <=> l \notin Locked
    BY DEF StartMove, Locked
  <2>4. l = "test" => a # Intr
    BY <1>0, <1>2
  <2>5. pc'[Intr] \in {"idle", "start", "cmd", "wrdy", "data", "panic"}
    BY <1>0, <1>2, <2>4 DEF DriverInv, LockOwned, StartMove
  <2>6. \A p \in Proc : pc'[p] # "data"
    BY <1>0, <1>2 DEF DriverInv, LockOwned, Actor
  <2>7. \A b \in Actor : lk' = b <=> pc'[b] \in Locked
    BY <1>0, <1>2, <2>1, <2>2, <2>3
  <2> QED  BY <2>5, <2>6, <2>7 DEF LockOwned
<1>6. BufsOwned'
  <2>1. ASSUME a \in Proc PROVE BufOwned(a)'
    <3>1. /\ a \in Range(sdque) /\ Asks(a) /\ req[a] # None
      BY <2>1 DEF DriverInv, BufsOwned, BufOwned, StartMove
    <3>2. l \in {"cmd", "wrdy", "panic", "test"} /\ (l = "test" => sl'[a] = 0)
      BY <1>0, <2>1 DEF StartMove, DriverInv, TypeOK
    <3> QED  BY <1>2, <3>1, <3>2 DEF BufOwned, Asks, StartMove
  <2>2. \A q \in Proc \ {a} : BufOwned(q)'
    BY <1>2, <1>3, BufSame DEF DriverInv, StartMove, Actor
  <2> QED  BY <2>1, <2>2 DEF DriverInv, BufsOwned, StartMove
<1>7. \A k \in Locked : Doing(k) <=> pc[a] = k
  BY DoingNow DEF DriverInv, StartMove, Locked
<1>8. \A k \in Locked : Doing(k)' <=> l = k
  BY <1>1, DoingAfter DEF DriverInv, StartMove
<1>9. sdque # <<>> /\ sdque' # <<>>
  BY <1>7 DEF DriverInv, Serving, Starting, StartMove, Locked
<1> QED  BY <1>4, <1>5, <1>6, <1>7, <1>8, <1>9
            DEF HeadWrites, Dirty, queue_front, StartMove

LEMMA StartInv ==
  ASSUME DriverInv, NEW a \in Actor, sd_start(a)
  PROVE  DriverInv'
<1>1. pc[a] = "start" /\ xfer = Idle /\ interrupt = {}
  BY DEF sd_start, DriverInv, Serving, Doing
<1>2. /\ xfer' = [Idle EXCEPT !.phase = "cmd", !.arg = bno(req[queue_front].n)]
      /\ StartMove(a, "cmd") /\ interrupt' = interrupt
  BY <1>1 DEF sd_start, Goto, StartMove, bufs
<1>3. sdque # <<>>
  BY <1>1 DEF DriverInv, Serving, Starting, Doing
<1>4. bno(req[queue_front].n) \in Nat
  <2>1. queue_front \in Proc /\ queue_front \in Range(sdque)
    BY <1>3, HeadMember DEF DriverInv
  <2>2. req[queue_front] \in Requests
    BY <2>1 DEF DriverInv, BufsOwned, BufOwned, TypeOK
  <2> QED  BY <2>2, BlockNumbers DEF Requests
<1>5. /\ xfer' \in [phase : Phase, arg : Nat, fifo : Value \cup {Garbage, None}]
      /\ xfer'.phase = "cmd" /\ xfer'.arg = bno(req[queue_front].n)
      /\ xfer'.fifo = None
  BY <1>2, <1>4 DEF Idle, Phase
<1>6. /\ TypeOK' /\ LockOwned' /\ BufsOwned'
      /\ \A k \in Locked : Doing(k)' <=> "cmd" = k
      /\ queue_front' = queue_front /\ sdque' # <<>>
  BY <1>2, <1>5, StartFrame
<1>7. /\ Doing("cmd")' /\ ~Doing("start")' /\ ~Doing("wrdy")'
      /\ ~Doing("data")' /\ ~Doing("panic")'
  BY <1>6 DEF Locked
<1>8. Serving'
  BY <1>2, <1>5, <1>6, <1>7 DEF Serving, StartMove
<1>9. InPhase'
  BY <1>1, <1>2, <1>5, <1>7 DEF InPhase, CmdPhase
<1> QED  BY <1>6, <1>8, <1>9 DEF DriverInv


(* What sd_start finds in the register while it waits for bit "CMD_DONE".  *)
LEMMA CommandInv ==
  ASSUME DriverInv, NEW a \in Actor, sd_start_cmd(a)
  PROVE  DriverInv'
<1>1. pc[a] = "cmd" /\ WaitOver("CMD_DONE") /\ UNCHANGED <<xfer, card, faults>>
  BY DEF sd_start_cmd
<1>2. /\ Doing("cmd") /\ ~Doing("start") /\ ~Doing("wrdy")
      /\ ~Doing("data") /\ ~Doing("panic")
  BY <1>1, DoingNow DEF DriverInv, Locked
<1>3. /\ xfer.phase \in {"read", "fifo", "write", "ready", "idle", "dead"}
      /\ xfer.phase = "idle" => "ERR" \in interrupt /\ faults > 0
      /\ xfer.phase = "dead" => faults > 0
  <2>1. sdque # <<>>
    BY <1>2 DEF DriverInv, Serving, Starting
  <2>2. xfer.phase = "idle" => "ERR" \in interrupt /\ faults > 0
    BY <1>2, <2>1 DEF DriverInv, InPhase, IdlePhase, Starting
  <2>3. xfer.phase \notin {"cmd", "drained", "filled"}
    BY <1>1, <1>2 DEF DriverInv, InPhase, CmdPhase, DrainedPhase, FilledPhase,
                      WaitOver, Starting
  <2> QED  BY <2>2, <2>3 DEF DriverInv, TypeOK, Phase, InPhase, DeadPhase
<1>4. CASE WaitOK("CMD_DONE")
  <2>1. PICK l \in {"wrdy", "idle", "test"} :
          /\ StartMove(a, l) /\ (l = "wrdy" <=> HeadWrites)
    BY <1>1, <1>4 DEF sd_start_cmd, Started, StartMove, Goto, queue_unlock, HeadWrites
  <2>2. interrupt' = interrupt \ {"CMD_DONE"}
    BY <1>4 DEF sd_start_cmd, WaitClears
  <2>3. /\ TypeOK' /\ LockOwned' /\ BufsOwned'
        /\ \A k \in Locked : Doing(k)' <=> l = k
        /\ HeadWrites' <=> HeadWrites
        /\ queue_front' = queue_front /\ sdque' # <<>>
    <3>1. xfer' \in [phase : Phase, arg : Nat, fifo : Value \cup {Garbage, None}]
      BY <1>1 DEF DriverInv, TypeOK
    <3> QED  BY <2>1, <2>2, <3>1, StartFrame
  <2>4. /\ ~Doing("cmd")' /\ ~Doing("start")' /\ ~Doing("data")'
        /\ ~Doing("panic")' /\ (Doing("wrdy")' <=> HeadWrites)
    BY <2>1, <2>3 DEF Locked
  <2>5. /\ xfer' = xfer /\ faults' = faults /\ req' = req /\ data' = data
    BY <1>1, <2>1 DEF StartMove
  <2>6. Serving'
    BY <2>3, <2>4, <2>5 DEF DriverInv, Serving, Starting
  <2>7. \A S \in {{}, {"READ_RDY"}, {"WRITE_RDY"}} : Signals(S) => Signals(S)'
    BY <1>2, <2>2, <2>4 DEF Signals
  <2>8. /\ xfer.phase # "idle"
        /\ interrupt \cap {"DATA_DONE", "ERR"} = {} =>
             interrupt' \cap {"DATA_DONE", "ERR"} = {}
        /\ "READ_RDY" \in interrupt' => "READ_RDY" \in interrupt
    BY <1>3, <1>4, <2>2 DEF WaitOK
  <2>9. InPhase'
    BY <1>2, <1>3, <2>3, <2>4, <2>5, <2>7, <2>8
       DEF DriverInv, InPhase, ReadPhase, FifoPhase, WritePhase, DeadPhase
  <2> QED  BY <2>3, <2>6, <2>9 DEF DriverInv
<1>5. CASE ~WaitOK("CMD_DONE")
  <2>1. StartMove(a, "panic") /\ interrupt' = {}
    BY <1>1, <1>5 DEF sd_start_cmd, Panic, StartMove, Goto, WaitClears
  <2>2. /\ TypeOK' /\ LockOwned' /\ BufsOwned'
        /\ \A k \in Locked : Doing(k)' <=> "panic" = k
        /\ HeadWrites' <=> HeadWrites
        /\ queue_front' = queue_front /\ sdque' # <<>>
    <3>1. /\ xfer' \in [phase : Phase, arg : Nat, fifo : Value \cup {Garbage, None}]
          /\ interrupt' \subseteq interrupt
      BY <1>1, <2>1 DEF DriverInv, TypeOK
    <3> QED  BY <2>1, <3>1, StartFrame
  <2>3. /\ ~Doing("cmd")' /\ ~Doing("start")' /\ ~Doing("data")'
        /\ Doing("panic")' /\ ~Doing("wrdy")'
    BY <2>2 DEF Locked
  <2>4. /\ xfer' = xfer /\ faults' = faults /\ req' = req
    BY <1>1, <2>1 DEF StartMove
  <2>5. xfer.phase \in {"idle", "dead"} /\ faults > 0
    <3>1. \A S \in {{}, {"READ_RDY"}, {"WRITE_RDY"}} : ~Signals(S)
      BY <1>2, <1>5 DEF Signals, WaitOK
    <3> QED  BY <1>3, <3>1 DEF DriverInv, InPhase, ReadPhase, FifoPhase, WritePhase
  <2>6. Serving'
    BY <2>2, <2>3, <2>4, <2>5 DEF DriverInv, Serving, Starting
  <2>7. InPhase'
    BY <2>1, <2>3, <2>4, <2>5 DEF InPhase, IdlePhase, DeadPhase
  <2> QED  BY <2>2, <2>6, <2>7 DEF DriverInv
<1> QED  BY <1>4, <1>5

LEMMA FillInv ==
  ASSUME DriverInv, NEW a \in Actor, sd_start_fill(a)
  PROVE  DriverInv'
<1>1. pc[a] = "wrdy" /\ WaitOver("WRITE_RDY") /\ UNCHANGED <<card, faults>>
  BY DEF sd_start_fill
<1>2. /\ Doing("wrdy") /\ ~Doing("start") /\ ~Doing("cmd")
      /\ ~Doing("data") /\ ~Doing("panic") /\ HeadWrites /\ sdque # <<>>
  BY <1>1, DoingNow DEF DriverInv, Locked, Serving, Starting
<1>3. /\ xfer.phase \in {"ready", "idle", "dead"}
      /\ xfer.phase = "ready" => interrupt = {"WRITE_RDY"}
      /\ xfer.phase = "idle" => "ERR" \in interrupt /\ faults > 0
      /\ xfer.phase = "dead" => faults > 0
  <2>1. xfer.phase = "idle" => "ERR" \in interrupt /\ faults > 0
    BY <1>2 DEF DriverInv, InPhase, IdlePhase, Starting
  <2>2. xfer.phase \notin {"cmd", "read", "fifo", "drained", "filled"}
    BY <1>2 DEF DriverInv, InPhase, CmdPhase, DrainedPhase, FilledPhase,
                ReadPhase, FifoPhase, Starting
  <2>3. xfer.phase # "write"
    BY <1>1, <1>2 DEF DriverInv, InPhase, WritePhase, Signals, WaitOver
  <2>4. xfer.phase = "ready" => interrupt = {"WRITE_RDY"}
    BY <1>2 DEF DriverInv, InPhase, WritePhase, Signals
  <2> QED  BY <2>1, <2>2, <2>3, <2>4
           DEF DriverInv, TypeOK, Phase, InPhase, DeadPhase
<1>4. CASE interrupt = {"WRITE_RDY"}
  <2>1. PICK l \in {"idle", "test"} : StartMove(a, l)
    BY <1>1, <1>4 DEF sd_start_fill, WaitOK, Started, StartMove, Goto, queue_unlock
  <2>2. interrupt' = {} /\ interrupt' \subseteq interrupt
    BY <1>4 DEF sd_start_fill, WaitClears
  <2>3. queue_front \in Proc /\ data[queue_front] \in Value \cup {Garbage}
    BY <1>2, HeadMember DEF DriverInv, TypeOK
  <2>4. xfer' = [xfer EXCEPT !.phase = IF @ = "ready" THEN "filled" ELSE @,
                             !.fifo = data[queue_front]]
    BY <1>4 DEF sd_start_fill, WaitOK
  <2>5. /\ xfer' \in [phase : Phase, arg : Nat, fifo : Value \cup {Garbage, None}]
        /\ xfer'.phase = IF xfer.phase = "ready" THEN "filled" ELSE xfer.phase
        /\ xfer'.arg = xfer.arg /\ xfer'.fifo = data[queue_front]
    BY <2>3, <2>4 DEF DriverInv, TypeOK, Phase
  <2>6. /\ TypeOK' /\ LockOwned' /\ BufsOwned'
        /\ \A k \in Locked : Doing(k)' <=> l = k
        /\ HeadWrites' <=> HeadWrites
        /\ queue_front' = queue_front /\ sdque' # <<>>
    BY <2>1, <2>2, <2>5, StartFrame
  <2>7. /\ ~Doing("cmd")' /\ ~Doing("start")' /\ ~Doing("data")'
        /\ ~Doing("panic")' /\ ~Doing("wrdy")'
    BY <2>1, <2>6 DEF Locked
  <2>8. xfer.phase \in {"ready", "dead"} /\ req' = req /\ data' = data
        /\ faults' = faults
    BY <1>1, <1>3, <1>4, <2>1 DEF StartMove
  <2>9. Serving'
    BY <2>5, <2>6, <2>7, <2>8 DEF DriverInv, Serving
  <2>10. InPhase'
    BY <1>2, <1>3, <2>2, <2>5, <2>6, <2>7, <2>8
       DEF InPhase, FilledPhase, DeadPhase, Starting
  <2> QED  BY <2>6, <2>9, <2>10 DEF DriverInv
<1>5. CASE interrupt # {"WRITE_RDY"}
  <2>1. StartMove(a, "panic") /\ interrupt' \subseteq interrupt /\ xfer' = xfer
    BY <1>1, <1>5 DEF sd_start_fill, Panic, StartMove, Goto, WaitClears
  <2>2. /\ TypeOK' /\ LockOwned' /\ BufsOwned'
        /\ \A k \in Locked : Doing(k)' <=> "panic" = k
        /\ HeadWrites' <=> HeadWrites
        /\ queue_front' = queue_front /\ sdque' # <<>>
    <3>1. xfer' \in [phase : Phase, arg : Nat, fifo : Value \cup {Garbage, None}]
      BY <2>1 DEF DriverInv, TypeOK
    <3> QED  BY <2>1, <3>1, StartFrame
  <2>3. /\ ~Doing("cmd")' /\ ~Doing("start")' /\ ~Doing("data")'
        /\ Doing("panic")' /\ ~Doing("wrdy")'
    BY <2>2 DEF Locked
  <2>4. xfer' = xfer /\ faults' = faults /\ req' = req
    BY <1>1, <2>1 DEF StartMove
  <2>5. xfer.phase \in {"idle", "dead"} /\ faults > 0
    BY <1>3, <1>5
  <2>6. Serving'
    BY <2>2, <2>3, <2>4, <2>5 DEF DriverInv, Serving, Starting
  <2>7. /\ "DATA_DONE" \notin interrupt
        /\ xfer.phase = "dead" => "ERR" \notin interrupt /\ "READ_RDY" \notin interrupt
    BY <1>2, <2>5 DEF DriverInv, InPhase, IdlePhase, DeadPhase, Starting
  <2>8. InPhase'
    BY <2>1, <2>2, <2>3, <2>4, <2>5, <2>7 DEF InPhase, IdlePhase, DeadPhase
  <2> QED  BY <2>2, <2>6, <2>8 DEF DriverInv
<1> QED  BY <1>4, <1>5

-----------------------------------------------------------------------------
(* The handler.                                                            *)

(* The request at the head is done: its process sleeps and is woken, and   *)
(* the next request finds an idle controller and an empty register.        *)
LEMMA CompleteInv ==
  ASSUME DriverInv, sdque # <<>>, Complete, lk \in {Intr, None},
         interrupt' = {}, xfer' = Idle, UNCHANGED <<data, card, faults, req>>
  PROVE  DriverInv'
<1> DEFINE h == queue_front
           t == Tail(sdque)
<1>0. Intr \in Actor /\ Intr \notin Proc /\ Intr # None /\ Proc \subseteq Actor
  BY SdAssumption, NamesAssumption DEF Actor
<1>1. /\ flags' = [flags EXCEPT ![h] = {"B_VALID"}]
      /\ sl' = [sl EXCEPT ![h] = sl[h] + 1]
      /\ sdque' = t
  BY DEF Complete, queue_pop
<1>2. PICK l \in {"idle", "start"} :
        /\ pc' = [pc EXCEPT ![Intr] = l]
        /\ lk' = IF l = "idle" THEN None ELSE Intr
        /\ l = "idle" <=> t = <<>>
  BY DEF Complete, queue_unlock, Goto
<1>3. h \in Proc /\ h \in Range(sdque)
  BY HeadMember DEF DriverInv
<1>4. /\ t \in Seq(Proc) /\ IsInjective(t) /\ Range(t) = Range(sdque) \ {h}
  BY PopMembers DEF DriverInv
<1> HIDE DEF h, t
<1>5. /\ pc'[Intr] = l /\ \A p \in Proc : pc'[p] = pc[p] /\ p # Intr
      /\ \A b \in Actor \ {Intr} : pc'[b] = pc[b]
  BY <1>0, <1>2 DEF DriverInv, TypeOK
<1>6. \A b \in Actor \ {Intr} : pc[b] \notin Locked /\ b # None
  BY NamesAssumption DEF DriverInv, LockOwned, Actor
<1>7. pc[h] = "sleep" /\ sl[h] = 0 /\ req[h] # None
  <2>1. pc[h] \notin Locked
    BY <1>0, <1>3, <1>6
  <2> QED  BY <1>3, <2>1 DEF DriverInv, BufsOwned, BufOwned, Locked
<1>8. /\ sl' \in [Proc -> 0..1] /\ sl'[h] = 1
      /\ \A q \in Proc \ {h} : sl'[q] = sl[q]
  <2>1. sl' = [sl EXCEPT ![h] = 1]
    BY <1>1, <1>7
  <2> QED  BY <1>3, <2>1 DEF DriverInv, TypeOK
<1>9. /\ flags' \in [Proc -> SUBSET {"B_DIRTY", "B_VALID"}]
      /\ flags'[h] = {"B_VALID"}
      /\ \A q \in Proc \ {h} : flags'[q] = flags[q]
  BY <1>1, <1>3 DEF DriverInv, TypeOK
<1>10. TypeOK'
  <2>1. pc' \in [Actor -> PC] /\ lk' \in Actor \cup {None}
    BY <1>0, <1>2 DEF DriverInv, TypeOK, PC
  <2>2. xfer' \in [phase : Phase, arg : Nat, fifo : Value \cup {Garbage, None}]
    BY DEF Idle, Phase
  <2> QED  BY <1>1, <1>4, <1>8, <1>9, <2>1, <2>2 DEF DriverInv, TypeOK
<1>11. LockOwned'
  <2>1. \A b \in Actor : lk' = b <=> pc'[b] \in Locked
    BY <1>0, <1>2, <1>5, <1>6 DEF Locked
  <2> QED  BY <1>5, <2>1 DEF DriverInv, LockOwned
<1>12. BufsOwned'
  <2>1. \A q \in Proc : q = h => BufOwned(q)'
    BY <1>1, <1>3, <1>4, <1>5, <1>7, <1>8, <1>9 DEF BufOwned
  <2>2. \A q \in Proc \ {h} : BufOwned(q)'
    BY <1>1, <1>4, <1>5, <1>8, <1>9, BufSame DEF DriverInv
  <2> QED  BY <1>1, <1>4, <2>1, <2>2 DEF BufsOwned
<1>13. /\ ~Doing("cmd")' /\ ~Doing("wrdy")' /\ ~Doing("data")' /\ ~Doing("panic")'
       /\ Doing("start")' <=> l = "start"
  <2>1. \A k \in Locked : Doing(k)' <=> l = k
    BY <1>0, <1>2, DoingAfter DEF DriverInv
  <2> QED  BY <2>1 DEF Locked
<1>14. Serving' /\ InPhase'
  <2>1. sdque' = <<>> \/ Doing("start")'
    BY <1>1, <1>2, <1>13
  <2>2. sdque' = <<>> => ~Doing("start")'
    BY <1>1, <1>2, <1>13
  <2>3. xfer'.phase = "idle"
    BY DEF Idle
  <2> QED  BY <1>13, <2>1, <2>2, <2>3 DEF Serving, Starting, InPhase, IdlePhase
<1> QED  BY <1>10, <1>11, <1>12, <1>14 DEF DriverInv

(* What sd_intr finds in the register and the controller.                  *)
LEMMA IntrFinds ==
  ASSUME DriverInv, sd_intr
  PROVE  /\ xfer.phase \in {"fifo", "idle", "dead"}
         /\ xfer.phase = "fifo" => ~HeadWrites /\ interrupt = {"READ_RDY"}
         /\ xfer.phase = "dead" => /\ faults > 0
                                   /\ interrupt \cap {"DATA_DONE", "ERR"} = {}
         /\ xfer.phase = "idle" =>
              \/ xfer = Idle /\ HeadWrites /\ interrupt = {"DATA_DONE"}
              \/ faults > 0 /\ "ERR" \in interrupt /\ "DATA_DONE" \notin interrupt
<1>1. lk = None /\ interrupt # {} /\ sdque # <<>>
  BY DEF sd_intr, queue_empty, Pending
<1>2. /\ ~Doing("start") /\ ~Doing("cmd") /\ ~Doing("wrdy")
      /\ ~Doing("data") /\ ~Doing("panic")
  BY <1>1, DoingNone DEF DriverInv, Locked
<1>3. xfer.phase \notin {"cmd", "read", "drained", "write", "ready", "filled"}
  BY <1>1, <1>2 DEF DriverInv, InPhase, CmdPhase, ReadPhase, DrainedPhase,
                    WritePhase, FilledPhase, Signals
<1>4. xfer.phase = "fifo" => ~HeadWrites /\ interrupt = {"READ_RDY"}
  BY <1>2 DEF DriverInv, InPhase, FifoPhase, Signals
<1>5. xfer.phase = "idle" =>
         \/ xfer = Idle /\ HeadWrites /\ interrupt = {"DATA_DONE"}
         \/ faults > 0 /\ "ERR" \in interrupt /\ "DATA_DONE" \notin interrupt
  BY <1>1, <1>2 DEF DriverInv, InPhase, IdlePhase
<1> QED  BY <1>3, <1>4, <1>5 DEF DriverInv, TypeOK, Phase, InPhase, DeadPhase

LEMMA IntrInv ==
  ASSUME DriverInv, sd_intr
  PROVE  DriverInv'
<1>0. Intr \in Actor /\ Intr \notin Proc /\ Intr # None /\ Proc \subseteq Actor
  BY SdAssumption, NamesAssumption DEF Actor
<1>1. /\ pc[Intr] = "idle" /\ lk = None /\ Pending /\ sdque # <<>>
      /\ interrupt' = {} /\ UNCHANGED <<card, faults, req>>
  BY DEF sd_intr, queue_empty, get_and_clear_EMMC_INTERRUPT
<1>2. /\ ~Doing("start") /\ ~Doing("cmd") /\ ~Doing("wrdy")
      /\ ~Doing("data") /\ ~Doing("panic")
  BY <1>1, DoingNone DEF DriverInv, Locked
<1>3. /\ xfer.phase \in {"fifo", "idle", "dead"}
      /\ xfer.phase = "fifo" => ~HeadWrites /\ interrupt = {"READ_RDY"}
      /\ xfer.phase = "dead" => /\ faults > 0
                                /\ interrupt \cap {"DATA_DONE", "ERR"} = {}
      /\ xfer.phase = "idle" =>
           \/ xfer = Idle /\ HeadWrites /\ interrupt = {"DATA_DONE"}
           \/ faults > 0 /\ "ERR" \in interrupt /\ "DATA_DONE" \notin interrupt
  BY IntrFinds
<1>4. CASE HeadWrites /\ interrupt = {"DATA_DONE"}
  <2>1. Complete /\ UNCHANGED <<data, xfer>>
    BY <1>4 DEF sd_intr, HeadWrites
  <2>2. xfer = Idle
    BY <1>3, <1>4
  <2> QED  BY <1>1, <2>1, <2>2, CompleteInv
<1>5. CASE ~HeadWrites /\ interrupt = {"READ_RDY"}
  <2>1. /\ lk' = Intr /\ pc' = [pc EXCEPT ![Intr] = "data"]
        /\ data' = [data EXCEPT ![queue_front] = xfer.fifo]
        /\ xfer' = [xfer EXCEPT !.phase = IF @ = "fifo" THEN "drained" ELSE @]
        /\ UNCHANGED <<sdque, flags, sl>>
    BY <1>5 DEF sd_intr, HeadWrites, Goto
  <2>2. /\ xfer.phase \in {"fifo", "dead"} /\ xfer.fifo # None
        /\ xfer.phase = "fifo" => (xfer.fifo = Garbage => faults > 0)
    BY <1>3, <1>5 DEF DriverInv, InPhase, FifoPhase, DeadPhase
  <2>3. /\ queue_front \in Proc /\ queue_front \in Range(sdque)
        /\ ~req[queue_front].write
    BY <1>1, <1>5, HeadMember
       DEF DriverInv, BufsOwned, BufOwned, Asks, HeadWrites, Dirty
  <2>4. /\ data' \in [Proc -> Value \cup {Garbage}]
        /\ \A q \in Proc \ {queue_front} : data'[q] = data[q]
    BY <2>1, <2>2, <2>3 DEF DriverInv, TypeOK
  <2>5. /\ xfer' \in [phase : Phase, arg : Nat, fifo : Value \cup {Garbage, None}]
        /\ xfer'.phase = IF xfer.phase = "fifo" THEN "drained" ELSE xfer.phase
        /\ xfer'.arg = xfer.arg /\ xfer'.fifo = xfer.fifo
    BY <2>1 DEF DriverInv, TypeOK, Phase
  <2>6. TypeOK'
    <3>1. pc' \in [Actor -> PC] /\ lk' \in Actor \cup {None}
      BY <1>0, <2>1 DEF DriverInv, TypeOK, PC
    <3> QED  BY <1>1, <2>1, <2>4, <2>5, <3>1 DEF DriverInv, TypeOK
  <2>7. /\ pc'[Intr] = "data" /\ \A p \in Proc : pc'[p] = pc[p] /\ p # Intr
        /\ \A b \in Actor \ {Intr} : pc'[b] = pc[b]
    BY <1>0, <2>1 DEF DriverInv, TypeOK
  <2>8. LockOwned'
    BY <1>0, <1>1, <2>1, <2>7, NamesAssumption DEF DriverInv, LockOwned, Locked, Actor
  <2>9. BufsOwned'
    <3>1. \A q \in Proc \ {queue_front} : BufOwned(q)'
      BY <1>1, <2>1, <2>4, <2>7, BufSame DEF DriverInv
    <3>2. \A q \in Proc : q = queue_front => BufOwned(q)'
      BY <1>1, <2>1, <2>3, <2>7 DEF DriverInv, BufsOwned, BufOwned, Asks
    <3> QED  BY <2>1, <3>1, <3>2 DEF DriverInv, BufsOwned
  <2>10. /\ Doing("data")' /\ ~Doing("start")' /\ ~Doing("cmd")' /\ ~Doing("wrdy")'
         /\ ~Doing("panic")'
    <3>1. \A k \in Locked : Doing(k)' <=> "data" = k
      BY <1>0, <1>1, <2>1, DoingAfter DEF DriverInv
    <3> QED  BY <3>1 DEF Locked
  <2>11. queue_front' = queue_front /\ ~HeadWrites'
    BY <1>5, <2>1 DEF queue_front, HeadWrites, Dirty
  <2>12. Serving'
    BY <1>1, <2>1, <2>2, <2>5, <2>10, <2>11 DEF DriverInv, Serving
  <2>13. InPhase'
    BY <1>1, <1>3, <2>2, <2>5, <2>10 DEF InPhase, DrainedPhase, DeadPhase
  <2> QED  BY <2>6, <2>8, <2>9, <2>12, <2>13 DEF DriverInv
<1>6. CASE interrupt # {IF HeadWrites THEN "DATA_DONE" ELSE "READ_RDY"}
  <2>1. /\ lk' = Intr /\ pc' = [pc EXCEPT ![Intr] = "panic"]
        /\ UNCHANGED <<sdque, bufs, xfer>>
    <3>1. ~(HeadWrites /\ interrupt = {"DATA_DONE"})
          /\ ~(~HeadWrites /\ interrupt = {"READ_RDY"})
      BY <1>6
    <3> QED  BY <3>1 DEF sd_intr, HeadWrites, Goto
  <2>2. xfer.phase \in {"idle", "dead"} /\ faults > 0 /\ "DATA_DONE" \notin interrupt
    BY <1>3, <1>6
  <2>3. TypeOK'
    BY <1>0, <1>1, <2>1 DEF DriverInv, TypeOK, PC, bufs
  <2>4. /\ pc'[Intr] = "panic" /\ \A p \in Proc : pc'[p] = pc[p] /\ p # Intr
        /\ \A b \in Actor \ {Intr} : pc'[b] = pc[b]
    BY <1>0, <2>1 DEF DriverInv, TypeOK
  <2>5. LockOwned'
    BY <1>0, <1>1, <2>1, <2>4, NamesAssumption DEF DriverInv, LockOwned, Locked, Actor
  <2>6. BufsOwned'
    <3>1. \A q \in Proc : BufOwned(q)'
      BY <1>1, <2>1, <2>4, BufSame DEF DriverInv, bufs
    <3> QED  BY <2>1, <3>1 DEF DriverInv, BufsOwned
  <2>7. /\ Doing("panic")' /\ ~Doing("start")' /\ ~Doing("cmd")' /\ ~Doing("wrdy")'
        /\ ~Doing("data")'
    <3>1. \A k \in Locked : Doing(k)' <=> "panic" = k
      BY <1>0, <1>1, <2>1, DoingAfter DEF DriverInv
    <3> QED  BY <3>1 DEF Locked
  <2>8. queue_front' = queue_front /\ (HeadWrites' <=> HeadWrites)
    BY <2>1 DEF queue_front, HeadWrites, Dirty, bufs
  <2>9. Serving'
    BY <1>1, <2>1, <2>2, <2>7, <2>8 DEF DriverInv, Serving
  <2>10. InPhase'
    BY <1>1, <2>1, <2>2, <2>7 DEF InPhase, IdlePhase, DeadPhase
  <2> QED  BY <2>3, <2>5, <2>6, <2>9, <2>10 DEF DriverInv
<1> QED  BY <1>4, <1>5, <1>6

(* Whatever ends the wait of sd_intr for the end of a read, the register   *)
(* is empty afterwards.                                                    *)
LEMMA IntrDataClears ==
  ASSUME DriverInv, sd_intr_data
  PROVE  /\ interrupt' = {} /\ lk = Intr /\ sdque # <<>> /\ ~HeadWrites
<1>1. pc[Intr] = "data"
  BY DEF sd_intr_data
<1>2. Intr \in Actor /\ lk = Intr
  BY <1>1 DEF DriverInv, LockOwned, Locked, Actor
<1>3. Doing("data") /\ sdque # <<>> /\ ~HeadWrites
  BY <1>1, <1>2 DEF DriverInv, Serving, Doing
<1>4. ~Doing("start") /\ ~Doing("cmd") /\ ~Doing("wrdy") /\ ~Doing("panic")
  BY <1>1, <1>2, DoingNow DEF DriverInv, Locked
<1>5. "DATA_DONE" \in interrupt => interrupt = {"DATA_DONE"}
  BY <1>3, <1>4
     DEF DriverInv, TypeOK, Phase, InPhase, CmdPhase, ReadPhase, FifoPhase,
         DrainedPhase, WritePhase, FilledPhase, IdlePhase, DeadPhase, Signals
<1>6. interrupt' = {}
  BY <1>5 DEF sd_intr_data, WaitClears, WaitOK
<1> QED  BY <1>2, <1>3, <1>6

LEMMA IntrDataInv ==
  ASSUME DriverInv, sd_intr_data
  PROVE  DriverInv'
BY IntrDataClears, CompleteInv DEF sd_intr_data

-----------------------------------------------------------------------------
(* The theorems.                                                           *)

LEMMA DriverInit ==
  ASSUME Init
  PROVE  DriverInv
<1>0. Intr \in Actor /\ Proc \subseteq Actor
  BY DEF Actor
<1>1. \A a \in Actor : pc[a] = "idle"
  BY DEF Init
<1>2. \A l : l # "idle" => ~Doing(l)
  BY <1>1 DEF Doing
<1>3. TypeOK
  <2>1. Idle \in [phase : Phase, arg : Nat, fifo : Value \cup {Garbage, None}]
    BY DEF Idle, Phase
  <2>2. 0 \in 0..MaxFaults
    BY SdAssumption
  <2>3. /\ flags \in [Proc -> SUBSET {"B_DIRTY", "B_VALID"}]
        /\ data \in [Proc -> Value \cup {Garbage}] /\ sl \in [Proc -> 0..1]
        /\ pc \in [Actor -> PC] /\ req \in [Proc -> Requests \cup {None}]
        /\ sdque \in Seq(Proc) /\ lk \in Actor \cup {None} /\ interrupt = {}
    BY DEF Init, PC
  <2> QED  BY <2>1, <2>2, <2>3 DEF Init, TypeOK
<1>4. LockOwned
  BY <1>0, <1>1, NamesAssumption DEF Init, LockOwned, Locked, Actor
<1>5. BufsOwned
  <2>1. IsInjective(sdque) /\ Range(sdque) = {}
    BY DEF Init, IsInjective, Range
  <2>2. \A p \in Proc : pc[p] = "idle" /\ req[p] = None
    BY <1>0, <1>1 DEF Init
  <2> QED  BY <2>1, <2>2 DEF BufsOwned, BufOwned
<1>6. xfer = Idle /\ xfer.phase = "idle" /\ interrupt = {} /\ sdque = <<>>
  BY DEF Init, Idle
<1>7. Serving /\ InPhase
  BY <1>2, <1>6 DEF Serving, InPhase, IdlePhase, Starting
<1> QED  BY <1>3, <1>4, <1>5, <1>7 DEF DriverInv

LEMMA DriverNext ==
  ASSUME DriverInv, [Next]_vars
  PROVE  DriverInv'
<1>1. CASE \E p \in Proc, n \in Block : \/ sd_read(p, n)
                                        \/ \E v \in Value : sd_write(p, n, v)
  BY <1>1, ReadCallInv, WriteCallInv
<1>2. CASE \E p \in Proc : Sdrw(p)
  BY <1>2, PushInv, TestInv, WaitInv, RelockInv DEF Sdrw
<1>3. CASE \E a \in Actor : Step(a)
  BY <1>3, StartInv, CommandInv, FillInv DEF Step
<1>4. CASE Handler
  BY <1>4, IntrInv, IntrDataInv DEF Handler
<1>5. CASE Card \/ card_fail
  BY <1>5, CardInv, CardFailInv
<1>6. CASE UNCHANGED vars
  BY <1>6 DEF vars, bufs, device, DriverInv, TypeOK, LockOwned, BufsOwned, BufOwned,
              Asks, Serving, InPhase, Starting, Doing, HeadWrites, Dirty, queue_front,
              CmdPhase, ReadPhase, FifoPhase, DrainedPhase, WritePhase, FilledPhase,
              IdlePhase, DeadPhase, Signals
<1> QED  BY <1>1, <1>2, <1>3, <1>4, <1>5, <1>6 DEF Next

(* For every set of processes and blocks, either addressing of the card,   *)
(* and any number of failures: the driver, the register and the controller *)
(* agree, at every step, on the request at the head of the queue.          *)
THEOREM DriverInvariant == Spec => []DriverInv
<1>1. Init => DriverInv
  BY DriverInit
<1>2. DriverInv /\ [Next]_vars => DriverInv'
  BY DriverNext
<1> QED  BY <1>1, <1>2, PTL DEF Spec

(* No PANIC of sd_start or sd_intr is reached unless the card fails.       *)
THEOREM DriverNeverPanics == Spec => []NoPanic
<1>1. DriverInv => NoPanic
  <2> SUFFICES ASSUME DriverInv, faults = 0, NEW a \in Actor, pc[a] = "panic"
               PROVE  FALSE
    BY DEF NoPanic
  <2> QED  BY DEF DriverInv, Serving, Doing
<1> QED  BY <1>1, DriverInvariant, PTL

(* With an empty queue the interrupt register is empty and the controller  *)
(* idle: sd_intr, which would return without clearing it, is not called.   *)
THEOREM IdleDriverIsQuiet == Spec => []QuietWhenIdle
<1>1. DriverInv => QuietWhenIdle
  BY DEF DriverInv, Serving, QuietWhenIdle, Idle
<1> QED  BY <1>1, DriverInvariant, PTL

(* A queued buf belongs to a process that is still in sdrw, and a process  *)
(* that sleeps is queued or has its semaphore posted.                      *)
THEOREM PostsAreNotLost == Spec => []NoLostPost
<1>1. ASSUME DriverInv PROVE NoLostPost
  <2>1. \A p \in Proc : BufOwned(p)
    BY <1>1 DEF DriverInv, BufsOwned
  <2>2. Range(sdque) \subseteq Proc
    BY <1>1 DEF DriverInv, TypeOK, Range
  <2>3. \A p \in Range(sdque) : pc[p] \notin {"idle", "lock"}
    BY <2>1, <2>2 DEF BufOwned
  <2>4. \A p \in Proc : pc[p] = "sleep" => p \in Range(sdque) \/ sl[p] > 0
    BY <2>1 DEF BufOwned
  <2> QED  BY <1>1, <2>3, <2>4 DEF NoLostPost, DriverInv, BufsOwned
<1> QED  BY <1>1, DriverInvariant, PTL

-----------------------------------------------------------------------------
(***************************************************************************)
(* The refinement.  Outcome gives the result of a call by cases on the     *)
(* queue instead of on the effect; it is easier to follow through a step.  *)
(***************************************************************************)
Outcome(p) ==
  IF p \in Range(sdque)
  THEN IF p # queue_front THEN None
       ELSE IF req[p].write
            THEN IF "DATA_DONE" \in interrupt THEN req[p].v ELSE None
            ELSE IF pc[Intr] = "data" THEN data[p] ELSE xfer.fifo
  ELSE IF pc[p] \in {"idle", "lock"} THEN None
       ELSE IF req[p].write THEN req[p].v ELSE data[p]

LEMMA ResultIsOutcome == DriverInv => \A p \in Proc : Result(p) = Outcome(p)
<1> SUFFICES ASSUME DriverInv, NEW p \in Proc PROVE Result(p) = Outcome(p)
  OBVIOUS
<1>0. pc[p] \notin {"idle", "lock"} => req[p].write \in BOOLEAN
  BY DEF DriverInv, TypeOK, Requests, BufsOwned, BufOwned
<1>1. CASE p \notin Range(sdque)
  <2>1. Effect(p) <=> pc[p] \notin {"idle", "lock"}
    BY <1>1 DEF Effect
  <2>2. CASE Effect(p) /\ req[p].write
    BY <1>1, <2>1, <2>2 DEF Result, Outcome
  <2>3. CASE Effect(p) /\ ~req[p].write
    BY <1>1, <2>1, <2>3 DEF Result, Outcome
  <2>4. CASE ~Effect(p)
    BY <1>1, <2>1, <2>4 DEF Result, Outcome
  <2> QED  BY <2>2, <2>3, <2>4
<1>2. CASE p \in Range(sdque)
  <2>1. Dirty(p) <=> req[p].write
    BY <1>2 DEF DriverInv, BufsOwned, BufOwned, Asks, Dirty
  <2>2. CASE Effect(p) /\ req[p].write
    <3>1. p = queue_front /\ "DATA_DONE" \in interrupt
      BY <1>2, <2>1, <2>2 DEF Effect
    <3> QED  BY <1>2, <2>2, <3>1 DEF Result, Outcome
  <2>3. CASE Effect(p) /\ ~req[p].write
    <3>1. p = queue_front
      BY <1>2, <2>3 DEF Effect
    <3> QED  BY <1>2, <2>3, <3>1 DEF Result, Outcome
  <2>4. CASE ~Effect(p)
    <3>1. Result(p) = None
      BY <2>4 DEF Result
    <3>2. Outcome(p) = None
      BY <1>2, <2>1, <2>4 DEF Effect, Outcome
    <3> QED  BY <3>1, <3>2
  <2> QED  BY <2>2, <2>3, <2>4
<1> QED  BY <1>1, <1>2

(* The result of one call changes, or none does.                           *)
LEMMA OneResult ==
  ASSUME NEW p \in Proc, NEW v, Result(p)' = v,
         \A q \in Proc \ {p} : Result(q)' = Result(q)
  PROVE  AbsRes' = [AbsRes EXCEPT ![p] = v]
BY DEF AbsRes

LEMMA NoResult ==
  ASSUME \A q \in Proc : Result(q)' = Result(q), UNCHANGED <<card, req, faults>>
  PROVE  [AtomicDev!Next]_(AtomicDev!vars)
BY DEF AbsRes, AtomicDev!vars

LEMMA ResultPrimed ==
  ASSUME DriverInv' 
  PROVE  \A p \in Proc : Result(p)' = Outcome(p)'
<1>1. (DriverInv => \A p \in Proc : Result(p) = Outcome(p))'
  BY ResultIsOutcome, PTL
<1> QED  BY <1>1


(* Facts about the transfer that the refinement needs.                     *)
LEMMA DataLabel ==
  ASSUME DriverInv
  PROVE  pc[Intr] = "data" <=> Doing("data")
BY DEF DriverInv, LockOwned, Doing, Actor

LEMMA HeadRequest ==
  ASSUME DriverInv, sdque # <<>>
  PROVE  /\ queue_front \in Proc /\ queue_front \in Range(sdque)
         /\ req[queue_front] \in Requests
         /\ HeadWrites <=> req[queue_front].write
<1>1. queue_front \in Proc /\ queue_front \in Range(sdque)
  BY HeadMember DEF DriverInv
<1> QED  BY <1>1 DEF DriverInv, TypeOK, BufsOwned, BufOwned, Asks, HeadWrites, Dirty

(* A call.                                                                 *)
LEMMA CallStep ==
  ASSUME DriverInv, DriverInv', NEW p \in Proc, NEW r \in Requests, pc[p] = "idle",
         req' = [req EXCEPT ![p] = r], pc' = [pc EXCEPT ![p] = "lock"],
         \A q \in Proc \ {p} : data'[q] = data[q],
         UNCHANGED <<sdque, device>>
  PROVE  [AtomicDev!Next]_(AtomicDev!vars)
<1>1. Intr \in Actor /\ p \in Actor /\ p # Intr
  BY SdAssumption DEF Actor
<1>2. /\ pc'[p] = "lock" /\ pc'[Intr] = pc[Intr]
      /\ \A q \in Proc \ {p} : pc'[q] = pc[q] /\ req'[q] = req[q]
  BY <1>1 DEF DriverInv, TypeOK, Actor
<1>3. p \notin Range(sdque) /\ req[p] = None
  BY DEF DriverInv, BufsOwned, BufOwned
<1>4. \A q \in Proc : Outcome(q)' = Outcome(q)
  BY <1>2, <1>3 DEF Outcome, device, queue_front
<1>5. AbsRes' = AbsRes
  BY <1>4, ResultIsOutcome, ResultPrimed DEF AbsRes
<1>6. AtomicDev!Call(p)
  BY <1>3, <1>5 DEF AtomicDev!Call, AtomicDev!Request, Requests, device
<1> QED  BY <1>6 DEF AtomicDev!Next

LEMMA CallsStep ==
  ASSUME DriverInv, DriverInv', NEW p \in Proc, NEW n \in Block,
         sd_read(p, n) \/ \E v \in Value : sd_write(p, n, v)
  PROVE  [AtomicDev!Next]_(AtomicDev!vars)
<1>1. CASE sd_read(p, n)
  <2> DEFINE r == [write |-> FALSE, n |-> n, v |-> Garbage]
  <2>1. r \in Requests
    BY DEF Requests
  <2>2. \A q \in Proc \ {p} : data'[q] = data[q]
    BY <1>1 DEF sd_read, DriverInv, TypeOK
  <2> QED  BY <1>1, <2>1, <2>2, CallStep DEF sd_read, Goto
<1>2. ASSUME NEW v \in Value, sd_write(p, n, v)
      PROVE  [AtomicDev!Next]_(AtomicDev!vars)
  <2> DEFINE r == [write |-> TRUE, n |-> n, v |-> v]
  <2>1. r \in Requests
    BY DEF Requests
  <2>2. \A q \in Proc \ {p} : data'[q] = data[q]
    BY <1>2 DEF sd_write, DriverInv, TypeOK
  <2> QED  BY <1>2, <2>1, <2>2, CallStep DEF sd_write, Goto
<1> QED  BY <1>1, <1>2

LEMMA PushStep ==
  ASSUME DriverInv, DriverInv', NEW p \in Proc, sdrw_push(p)
  PROVE  [AtomicDev!Next]_(AtomicDev!vars)
<1>1. /\ pc[p] = "lock" /\ lk = None /\ sdque' = Append(sdque, p)
      /\ UNCHANGED <<flags, data, device, req>>
  BY DEF sdrw_push, queue_lock, queue_push
<1>0. p \notin Range(sdque)
  BY <1>1 DEF DriverInv, BufsOwned, BufOwned
<1>2. p \notin Range(sdque) /\ Range(sdque') = Range(sdque) \cup {p}
  BY <1>0, <1>1, AppendMembers DEF DriverInv, TypeOK, BufsOwned
<1>3. p \in Actor /\ p # Intr /\ Intr \in Actor
  BY SdAssumption DEF Actor
<1>4. pc'[Intr] = pc[Intr] /\ \A q \in Proc \ {p} : pc'[q] = pc[q]
  BY <1>3 DEF sdrw_push, Goto, DriverInv, TypeOK, Actor
<1>5. pc[Intr] # "data"
  BY <1>1, <1>3, NamesAssumption DEF DriverInv, LockOwned, Locked, Actor
<1>6. CASE sdque # <<>>
  <2>1. queue_front' = queue_front
    BY <1>1, <1>6 DEF DriverInv, TypeOK, queue_front
  <2>2. queue_front \in Range(sdque)
    BY <1>6, HeadRequest
  <2>3. \A q \in Proc : Outcome(q)' = Outcome(q)
    BY <1>1, <1>2, <1>4, <2>1, <2>2 DEF Outcome, device
  <2> QED  BY <1>1, <2>3, ResultIsOutcome, ResultPrimed, NoResult DEF device
<1>7. CASE sdque = <<>>
  <2>1. xfer.fifo = None /\ interrupt = {} /\ Range(sdque) = {}
    BY <1>7 DEF DriverInv, Serving, Idle, Range
  <2>2. \A q \in Proc : Outcome(q)' = Outcome(q)
    BY <1>1, <1>2, <1>4, <1>5, <2>1 DEF Outcome, device
  <2> QED  BY <1>1, <2>2, ResultIsOutcome, ResultPrimed, NoResult DEF device
<1> QED  BY <1>6, <1>7

(* A process in the loop of sdrw: its call returns, or nothing is seen.    *)
LEMMA TestStep ==
  ASSUME DriverInv, DriverInv', NEW p \in Proc, sdrw_test(p)
  PROVE  [AtomicDev!Next]_(AtomicDev!vars)
<1>1. pc[p] = "test" /\ UNCHANGED <<sdque, bufs, device>>
  BY DEF sdrw_test
<1>2. p \in Actor /\ p # Intr /\ Intr \in Actor
  BY SdAssumption DEF Actor
<1>3. pc'[Intr] = pc[Intr] /\ \A q \in Proc \ {p} : pc'[q] = pc[q]
  BY <1>2 DEF sdrw_test, Goto, DriverInv, TypeOK, Actor
<1>4. CASE flags[p] = {"B_VALID"}
  <2>1. pc'[p] = "idle" /\ req' = [req EXCEPT ![p] = None]
    BY <1>2, <1>4 DEF sdrw_test, Goto, DriverInv, TypeOK
  <2>2. p \notin Range(sdque) /\ req[p] \in Requests
    <3>1. p \in Range(sdque) => flags[p] # {"B_VALID"}
      BY DEF DriverInv, BufsOwned, BufOwned, Asks
    <3>2. req[p] \in Requests
      BY <1>1 DEF DriverInv, TypeOK, BufsOwned, BufOwned
    <3> QED  BY <1>4, <3>1, <3>2
  <2>3. Outcome(p)' = None
    BY <1>1, <2>1, <2>2 DEF Outcome
  <2>4. \A q \in Proc \ {p} : Outcome(q)' = Outcome(q)
    BY <1>1, <1>3, <2>1, <2>2 DEF Outcome, bufs, device, queue_front, DriverInv, TypeOK
  <2>5. Outcome(p) # None
    <3>1. req[p].v \in Value \cup {Garbage} /\ data[p] \in Value \cup {Garbage}
      BY <2>2 DEF Requests, DriverInv, TypeOK
    <3> QED  BY <1>1, <2>2, <3>1, NamesAssumption DEF Outcome
  <2>6. AbsRes' = [AbsRes EXCEPT ![p] = None] /\ AbsRes[p] # None
    BY <2>3, <2>4, <2>5, ResultIsOutcome, ResultPrimed DEF AbsRes
  <2>7. AtomicDev!Return(p)
    BY <1>1, <2>1, <2>6 DEF AtomicDev!Return, device
  <2> QED  BY <2>7 DEF AtomicDev!Next
<1>5. CASE flags[p] # {"B_VALID"}
  <2>1. pc'[p] = "sleep" /\ req' = req
    BY <1>2, <1>5 DEF sdrw_test, Goto, DriverInv, TypeOK
  <2>2. \A q \in Proc : Outcome(q)' = Outcome(q)
    BY <1>1, <1>3, <2>1 DEF Outcome, bufs, device, queue_front
  <2> QED  BY <1>1, <2>1, <2>2, ResultIsOutcome, ResultPrimed, NoResult DEF device
<1> QED  BY <1>4, <1>5

LEMMA SleepStep ==
  ASSUME DriverInv, DriverInv', NEW p \in Proc, wait_sem(p) \/ sdrw_relock(p)
  PROVE  [AtomicDev!Next]_(AtomicDev!vars)
<1>1. p \in Actor /\ p # Intr /\ Intr \in Actor
  BY SdAssumption DEF Actor
<1>2. /\ pc[p] \in {"sleep", "relock"} /\ pc'[p] \in {"relock", "test"}
      /\ pc'[Intr] = pc[Intr] /\ \A q \in Proc \ {p} : pc'[q] = pc[q]
      /\ UNCHANGED <<sdque, data, device, req>>
  BY <1>1 DEF wait_sem, sdrw_relock, Goto, DriverInv, TypeOK, Actor, bufs
<1>3. \A q \in Proc : Outcome(q)' = Outcome(q)
  BY <1>2 DEF Outcome, device, queue_front
<1> QED  BY <1>2, <1>3, ResultIsOutcome, ResultPrimed, NoResult DEF device


(* sd_start: the register has no DATA_DONE to lose, and the FIFO is filled *)
(* for writes only.                                                        *)
LEMMA StartStep ==
  ASSUME DriverInv, DriverInv', NEW a \in Actor, Step(a)
  PROVE  [AtomicDev!Next]_(AtomicDev!vars)
<1>0. Intr \in Actor /\ Intr \notin Proc /\ (a = Intr \/ a \in Proc)
  BY SdAssumption DEF Actor
<1>1. pc[a] \in {"start", "cmd", "wrdy"}
  BY DEF Step, sd_start, sd_start_cmd, sd_start_fill
<1>2. Starting /\ ~Doing("data") /\ sdque # <<>>
  <2>1. \A k \in Locked : Doing(k) <=> pc[a] = k
    BY <1>1, DoingNow DEF DriverInv, Locked
  <2> QED  BY <1>1, <2>1 DEF Starting, Locked, DriverInv, Serving
<1>3. /\ UNCHANGED <<sdque, data, req, card, faults>>
      /\ \E l \in PC \ {"data", "lock"} : pc' = [pc EXCEPT ![a] = l] /\ (l = "idle" => a = Intr)
  BY DEF Step, sd_start, sd_start_cmd, sd_start_fill, Panic, Started, Goto, bufs,
         device, PC
<1>4. PICK l \in PC \ {"data", "lock"} :
        pc' = [pc EXCEPT ![a] = l] /\ (l = "idle" => a = Intr)
  BY <1>3
<1>5. /\ \A q \in Proc : pc'[q] \in {"idle", "lock"} <=> pc[q] \in {"idle", "lock"}
      /\ pc[Intr] # "data" /\ pc'[Intr] # "data"
  <2>1. pc'[a] = l /\ \A b \in Actor \ {a} : pc'[b] = pc[b]
    BY <1>4 DEF DriverInv, TypeOK
  <2>2. pc[Intr] # "data"
    BY <1>2, DataLabel
  <2> QED  BY <1>0, <1>1, <1>4, <2>1, <2>2 DEF Actor
<1>6. "DATA_DONE" \notin interrupt
  <2>1. Doing("start") => interrupt = {}
    BY DEF DriverInv, Serving
  <2> QED  BY <1>2, <2>1
     DEF DriverInv, TypeOK, Phase, InPhase, CmdPhase, ReadPhase, FifoPhase,
         DrainedPhase, WritePhase, FilledPhase, IdlePhase, DeadPhase, Signals
<1>7. interrupt' \subseteq interrupt
  BY DEF Step, sd_start, sd_start_cmd, sd_start_fill, WaitClears, device
<1>8. HeadWrites \/ xfer'.fifo = xfer.fifo
  <2>1. CASE sd_start(a)
    <3>1. xfer = Idle /\ interrupt = {}
      BY <2>1 DEF sd_start, DriverInv, Serving, Doing
    <3> QED  BY <2>1, <3>1 DEF sd_start, Idle
  <2>2. CASE sd_start_cmd(a)
    BY <2>2 DEF sd_start_cmd
  <2>3. CASE sd_start_fill(a)
    BY <2>3 DEF sd_start_fill, DriverInv, Serving, Doing
  <2> QED  BY <2>1, <2>2, <2>3 DEF Step
<1>9. queue_front' = queue_front /\ (HeadWrites <=> req[queue_front].write)
  BY <1>2, <1>3, HeadRequest DEF queue_front
<1>10. \A q \in Proc : Outcome(q)' = Outcome(q)
  BY <1>3, <1>5, <1>6, <1>7, <1>8, <1>9 DEF Outcome
<1> QED  BY <1>3, <1>10, ResultIsOutcome, ResultPrimed, NoResult

(* The request at the head leaves the queue with the result it had.        *)
LEMMA CompleteStep ==
  ASSUME DriverInv, DriverInv', Complete, sdque # <<>>,
         interrupt' = {}, xfer' = Idle, UNCHANGED <<data, card, faults, req>>,
         lk \in {Intr, None},
         IF HeadWrites THEN "DATA_DONE" \in interrupt ELSE pc[Intr] = "data"
  PROVE  [AtomicDev!Next]_(AtomicDev!vars)
<1> DEFINE h == queue_front
<1>0. Intr \in Actor /\ Intr \notin Proc /\ Proc \subseteq Actor
  BY SdAssumption DEF Actor
<1>1. /\ h \in Proc /\ h \in Range(sdque)
      /\ HeadWrites <=> req[h].write
  BY HeadRequest
<1>2. /\ sdque' = Tail(sdque) /\ Range(sdque') = Range(sdque) \ {h}
  BY PopMembers DEF DriverInv, Complete, queue_pop
<1>3. pc'[Intr] # "data" /\ \A q \in Proc : pc'[q] = pc[q]
  BY <1>0 DEF Complete, Goto, DriverInv, TypeOK
<1>4. pc[h] \notin {"idle", "lock"}
  BY <1>1 DEF DriverInv, BufsOwned, BufOwned
<1>5. xfer'.fifo = None
  BY DEF Idle
<1> HIDE DEF h
<1>6. \A q \in Proc : q = h => Outcome(q)' = Outcome(q)
  BY <1>1, <1>2, <1>3, <1>4 DEF Outcome, h
<1>7. \A q \in Proc \ {h} : Outcome(q)' = Outcome(q)
  BY <1>2, <1>3, <1>5 DEF Outcome, h
<1> QED  BY <1>6, <1>7, ResultIsOutcome, ResultPrimed, NoResult

LEMMA HandlerStep ==
  ASSUME DriverInv, DriverInv', Handler
  PROVE  [AtomicDev!Next]_(AtomicDev!vars)
<1>0. Intr \in Actor /\ Intr \notin Proc /\ Proc \subseteq Actor
  BY SdAssumption DEF Actor
<1>1. CASE sd_intr_data
  <2>1. /\ pc[Intr] = "data" /\ Complete /\ xfer' = Idle
        /\ UNCHANGED <<data, card, faults, req>>
    BY <1>1 DEF sd_intr_data
  <2>2. interrupt' = {} /\ lk = Intr /\ sdque # <<>> /\ ~HeadWrites
    BY <1>1, IntrDataClears
  <2> QED  BY <2>1, <2>2, CompleteStep
<1>2. CASE sd_intr
  <2>1. /\ pc[Intr] = "idle" /\ lk = None /\ sdque # <<>>
        /\ interrupt' = {} /\ UNCHANGED <<card, faults, req>>
    BY <1>2 DEF sd_intr, queue_empty, get_and_clear_EMMC_INTERRUPT
  <2>2. CASE HeadWrites /\ interrupt = {"DATA_DONE"}
    <3>1. Complete /\ UNCHANGED <<data, xfer>>
      BY <1>2, <2>2 DEF sd_intr, HeadWrites
    <3>2. xfer = Idle
      BY <1>2, <2>2, IntrFinds
    <3> QED  BY <2>1, <2>2, <3>1, <3>2, CompleteStep
  <2>3. CASE ~HeadWrites /\ interrupt = {"READ_RDY"}
    <3>1. /\ pc' = [pc EXCEPT ![Intr] = "data"]
          /\ data' = [data EXCEPT ![queue_front] = xfer.fifo]
          /\ sdque' = sdque
      BY <1>2, <2>3 DEF sd_intr, HeadWrites, Goto
    <3>2. /\ queue_front \in Proc /\ queue_front \in Range(sdque)
          /\ ~req[queue_front].write
      BY <2>1, <2>3, HeadRequest
    <3>3. /\ data'[queue_front] = xfer.fifo
          /\ \A q \in Proc \ {queue_front} : data'[q] = data[q]
      BY <3>1, <3>2 DEF DriverInv, TypeOK
    <3>4. pc'[Intr] = "data" /\ \A q \in Proc : pc'[q] = pc[q]
      BY <1>0, <3>1 DEF DriverInv, TypeOK
    <3>5. queue_front' = queue_front
      BY <3>1 DEF queue_front
    <3>6. \A q \in Proc : Outcome(q)' = Outcome(q)
      BY <2>1, <2>3, <3>1, <3>2, <3>3, <3>4, <3>5 DEF Outcome
    <3> QED  BY <2>1, <3>6, ResultIsOutcome, ResultPrimed, NoResult
  <2>4. CASE interrupt # {IF HeadWrites THEN "DATA_DONE" ELSE "READ_RDY"}
    <3>1. /\ pc' = [pc EXCEPT ![Intr] = "panic"]
          /\ UNCHANGED <<sdque, bufs, xfer>>
      <4>1. ~(HeadWrites /\ interrupt = {"DATA_DONE"})
            /\ ~(~HeadWrites /\ interrupt = {"READ_RDY"})
        BY <2>4
      <4> QED  BY <1>2, <4>1 DEF sd_intr, HeadWrites, Goto
    <3>2. "DATA_DONE" \notin interrupt
      BY <1>2, <2>4, IntrFinds
    <3>3. pc'[Intr] = "panic" /\ \A q \in Proc : pc'[q] = pc[q]
      BY <1>0, <3>1 DEF DriverInv, TypeOK
    <3>4. \A q \in Proc : Outcome(q)' = Outcome(q)
      BY <2>1, <3>1, <3>2, <3>3 DEF Outcome, bufs, queue_front
    <3> QED  BY <2>1, <3>4, ResultIsOutcome, ResultPrimed, NoResult
  <2> QED  BY <2>2, <2>3, <2>4
<1> QED  BY <1>1, <1>2 DEF Handler


(* A read takes effect when the card sends the block, a write when it has  *)
(* written it; a failure is a Fail of AtomicDevice.                        *)
LEMMA CardQuiet ==
  ASSUME DriverInv, DriverInv', UNCHANGED <<sdque, data, pc, req>>,
         "DATA_DONE" \in interrupt' => "DATA_DONE" \in interrupt \/ ~HeadWrites,
         "DATA_DONE" \in interrupt => "DATA_DONE" \in interrupt',
         sdque # <<>> => \/ xfer'.fifo = xfer.fifo
                         \/ HeadWrites \/ pc[Intr] = "data"
  PROVE  AbsRes' = AbsRes
<1>1. queue_front' = queue_front
  BY DEF queue_front
<1>2. sdque # <<>> => (HeadWrites <=> req[queue_front].write)
  BY HeadRequest
<1>3. Range(sdque) # {} => sdque # <<>>
  BY DEF Range
<1>4. \A q \in Proc : Outcome(q)' = Outcome(q)
  BY <1>1, <1>2, <1>3 DEF Outcome
<1> QED  BY <1>4, ResultIsOutcome, ResultPrimed DEF AbsRes

LEMMA CardRead ==
  ASSUME DriverInv, DriverInv', xfer.phase = "read", NEW x,
         xfer' = [xfer EXCEPT !.phase = "fifo", !.fifo = x],
         interrupt' = interrupt \cup {"READ_RDY"},
         UNCHANGED <<sdque, lk, bufs, pc, req, card>>,
         \/ x = card[Addressed] /\ faults' = faults
         \/ x = Garbage /\ faults' = faults + 1
  PROVE  [AtomicDev!Next]_(AtomicDev!vars)
<1>1. /\ ~HeadWrites /\ pc[Intr] # "data" /\ xfer.fifo = None
  BY DataLabel DEF DriverInv, InPhase, ReadPhase
<1>2. sdque # <<>> /\ Addressed = req[queue_front].n
  BY Busy, AddressedBlock
<1>3. PICK h \in Proc : h = queue_front /\ h \in Range(sdque) /\ ~req[h].write
                        /\ req[h] \in Requests
  BY <1>1, <1>2, HeadRequest
<1>4. xfer'.fifo = x
  BY DEF DriverInv, TypeOK
<1>5. Outcome(h) = None /\ Outcome(h)' = x
  BY <1>1, <1>3, <1>4 DEF Outcome, bufs, queue_front
<1>6. \A q \in Proc \ {h} : Outcome(q)' = Outcome(q)
  BY <1>3 DEF Outcome, bufs, queue_front
<1>7. AbsRes' = [AbsRes EXCEPT ![h] = x] /\ AbsRes[h] = None
  BY <1>5, <1>6, ResultIsOutcome, ResultPrimed DEF AbsRes
<1>8. AtomicDev!Read(h)
  BY <1>2, <1>3, <1>7, NoRequestAssumption DEF AtomicDev!Read
<1> QED  BY <1>8 DEF AtomicDev!Next

LEMMA CardStep ==
  ASSUME DriverInv, DriverInv', Card
  PROVE  [AtomicDev!Next]_(AtomicDev!vars)
<1>1. CASE card_command \/ card_ready
  <2>1. /\ UNCHANGED <<sdque, lk, bufs, pc, req, card, faults>>
        /\ \E b \in {"CMD_DONE", "WRITE_RDY"} : interrupt' = interrupt \cup {b}
        /\ xfer'.fifo = xfer.fifo
    BY <1>1 DEF card_command, card_ready, Answer, DriverInv, TypeOK
  <2>2. AbsRes' = AbsRes
    BY <2>1, CardQuiet DEF bufs
  <2> QED  BY <2>1, <2>2 DEF AtomicDev!vars
<1>2. CASE card_read
  BY <1>2, CardRead DEF card_read, Answer
<1>3. CASE card_drained
  <2>1. pc[Intr] = "data" /\ ~HeadWrites /\ interrupt = {}
    BY <1>3, DataLabel DEF card_drained, DriverInv, InPhase, DrainedPhase, Serving
  <2>2. UNCHANGED <<sdque, lk, bufs, pc, req, card, faults>>
    BY <1>3 DEF card_drained, Answer
  <2>3. AbsRes' = AbsRes
    BY <2>1, <2>2, CardQuiet DEF bufs
  <2> QED  BY <2>2, <2>3 DEF AtomicDev!vars
<1>4. CASE card_write
  <2>1. /\ xfer.phase = "filled" /\ HeadWrites /\ interrupt = {}
        /\ xfer.fifo = data[queue_front]
    BY <1>4 DEF card_write, DriverInv, InPhase, FilledPhase
  <2>2. sdque # <<>> /\ Addressed = req[queue_front].n
    BY <2>1, Busy, AddressedBlock
  <2>3. PICK h \in Proc : h = queue_front /\ h \in Range(sdque) /\ req[h].write
                          /\ req[h] \in Requests
    BY <2>1, <2>2, HeadRequest
  <2>4. data[h] = req[h].v
    BY <2>3 DEF DriverInv, BufsOwned, BufOwned, Asks
  <2>5. /\ card' = [card EXCEPT ![req[h].n] = req[h].v]
        /\ interrupt' = {"DATA_DONE"}
        /\ UNCHANGED <<sdque, lk, bufs, pc, req, faults>>
    BY <1>4, <2>1, <2>2, <2>3, <2>4 DEF card_write, Answer
  <2>6. Outcome(h) = None /\ Outcome(h)' = req[h].v
    BY <2>1, <2>3, <2>5 DEF Outcome, bufs, queue_front
  <2>7. \A q \in Proc \ {h} : Outcome(q)' = Outcome(q)
    BY <2>3, <2>5 DEF Outcome, bufs, queue_front
  <2>8. AbsRes' = [AbsRes EXCEPT ![h] = req[h].v] /\ AbsRes[h] = None
    BY <2>6, <2>7, ResultIsOutcome, ResultPrimed DEF AbsRes
  <2>9. AtomicDev!Write(h)
    BY <2>3, <2>5, <2>8, NoRequestAssumption DEF AtomicDev!Write
  <2> QED  BY <2>9 DEF AtomicDev!Next
<1> QED  BY <1>1, <1>2, <1>3, <1>4 DEF Card

LEMMA CardFailStep ==
  ASSUME DriverInv, DriverInv', card_fail
  PROVE  [AtomicDev!Next]_(AtomicDev!vars)
<1>1. CASE /\ xfer.phase = "read"
           /\ Answer("READ_RDY", [xfer EXCEPT !.phase = "fifo", !.fifo = Garbage])
  BY <1>1, CardRead DEF card_fail, Answer
<1>2. CASE \/ Answer("ERR", [xfer EXCEPT !.phase = "idle"])
           \/ /\ xfer' = [xfer EXCEPT !.phase = "dead"]
              /\ UNCHANGED <<sdque, lk, bufs, pc, req, interrupt>>
  <2>1. /\ UNCHANGED <<sdque, lk, bufs, pc, req, card>> /\ faults' = faults + 1
        /\ interrupt' = interrupt \/ interrupt' = interrupt \cup {"ERR"}
        /\ xfer'.fifo = xfer.fifo
    BY <1>2 DEF card_fail, Answer, DriverInv, TypeOK
  <2>2. AbsRes' = AbsRes
    BY <2>1, CardQuiet DEF bufs
  <2>3. AtomicDev!Fail
    BY <2>1, <2>2 DEF AtomicDev!Fail
  <2> QED  BY <2>3 DEF AtomicDev!Next
<1> QED  BY <1>1, <1>2 DEF card_fail

(* block_device.h: whatever the interleaving of the processes, the handler *)
(* and the card, every read and write through the driver takes effect at   *)
(* one moment between its call and its return.                             *)
THEOREM DriverIsAtomic == Spec => DeviceIsAtomic
<1>1. Init => AtomicDev!Init
  <2> SUFFICES ASSUME Init PROVE AtomicDev!Init
    OBVIOUS
  <2>1. \A p \in Proc : Result(p) = None
    <3>1. Range(sdque) = {} /\ \A p \in Proc : pc[p] = "idle"
      BY DEF Init, Range, Actor
    <3> QED  BY <3>1 DEF Result, Effect
  <2> QED  BY <2>1 DEF Init, AtomicDev!Init, AbsRes
<1>2. DriverInv /\ DriverInv' /\ [Next]_vars => [AtomicDev!Next]_(AtomicDev!vars)
  <2> SUFFICES ASSUME DriverInv, DriverInv', [Next]_vars
               PROVE  [AtomicDev!Next]_(AtomicDev!vars)
    OBVIOUS
  <2>1. CASE \E p \in Proc, n \in Block : \/ sd_read(p, n)
                                          \/ \E v \in Value : sd_write(p, n, v)
    BY <2>1, CallsStep
  <2>2. CASE \E p \in Proc : Sdrw(p)
    BY <2>2, PushStep, TestStep, SleepStep DEF Sdrw
  <2>3. CASE \E a \in Actor : Step(a)
    BY <2>3, StartStep
  <2>4. CASE Handler
    BY <2>4, HandlerStep
  <2>5. CASE Card \/ card_fail
    BY <2>5, CardStep, CardFailStep
  <2>6. CASE UNCHANGED vars
    <3>1. \A q \in Proc : Result(q)' = Result(q)
      BY <2>6 DEF vars, bufs, device, Result, Effect, Dirty, queue_front
    <3> QED  BY <2>6, <3>1, NoResult DEF vars, device
  <2> QED  BY <2>1, <2>2, <2>3, <2>4, <2>5, <2>6 DEF Next
<1> QED  BY <1>1, <1>2, DriverInvariant, PTL DEF Spec, DeviceIsAtomic, AtomicDev!Spec

=============================================================================

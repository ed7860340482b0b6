----------------------------- MODULE CommitLog ------------------------------
(***************************************************************************)
(* The write-ahead log of src/src/fs/cache.c: begin_op / sync / end_op by  *)
(* several threads, the group commit, eviction of cached blocks, a crash   *)
(* between any two device writes, and recovery at the next boot.           *)
(*                                                                         *)
(* One step is one critical section of log.lock, or one device write.  The *)
(* body of an operation (acquire a block, modify it, sync it, release it)  *)
(* is one step: exclusive access to a held block is the subject of         *)
(* BlockCache, not of this module.                                         *)
(*                                                                         *)
(* A LogHeader is the sequence of its first num_blocks entries, block      *)
(* log_start + i of the disk is logArea[i], and the cached copies of the   *)
(* log blocks, which always equal the disk, are left out.                  *)
(***************************************************************************)
EXTENDS Integers, Sequences, FiniteSets

CONSTANTS Thread, Block, Data,
          NotCached,          \* "this block has no Block struct"
          OP_MAX_NUM_BLOCKS,  \* cache.h: distinct blocks of one operation
          LogMax              \* log.mx, the number of usable log blocks

ASSUME ThreadAssumption == IsFiniteSet(Thread)
ASSUME DataAssumption == NotCached \notin Data
(* With a log smaller than one operation begin_op waits forever (line 181). *)
ASSUME SizeAssumption == /\ OP_MAX_NUM_BLOCKS \in Nat \ {0}
                         /\ LogMax \in Nat
                         /\ OP_MAX_NUM_BLOCKS <= LogMax

VARIABLES
  disk,         \* data blocks on the device
  logArea,      \* log blocks on the device
  diskHeader,   \* log header on the device: a sequence of block numbers
  header,       \* in-memory copy of the log header
  cache,        \* data of the cached blocks
  pinned,       \* the blocks whose `pinned` flag is set
  outstanding, committing, mu,   \* struct LOG
  rm,           \* ctx->rm of each thread's OpContext
  wrote,        \* history: the blocks synced by each thread's operation
  pc,           \* where each thread is
  tail,         \* loop variable of write_log / install_trans
  boot,         \* progress of recover_from_log
  panic         \* which PANIC() stopped the machine, if any

device == <<disk, logArea, diskHeader>>
log == <<outstanding, committing, mu>>
vars == <<disk, logArea, diskHeader, header, cache, pinned, outstanding,
          committing, mu, rm, wrote, pc, tail, boot, panic>>

Slot == 1..LogMax

PC == {"out",         \* not in an operation
       "begin",       \* woken in begin_op, about to check again
       "begin_wait",  \* asleep on log.sem
       "op",          \* between begin_op and end_op
       "end_wait",    \* asleep on log.outstandingsem
       "end_done",    \* woken in end_op
       "commit", "write_log", "install", "finish"}  \* the committer

TypeOK ==
  /\ disk \in [Block -> Data]
  /\ logArea \in [Slot -> Data]
  /\ diskHeader \in Seq(Block)
  /\ header \in Seq(Block)
  /\ cache \in [Block -> Data \cup {NotCached}]
  /\ pinned \subseteq Block
  /\ outstanding \in Int
  /\ committing \in BOOLEAN
  /\ mu \in Int
  /\ rm \in [Thread -> 0..OP_MAX_NUM_BLOCKS]
  /\ wrote \in [Thread -> SUBSET Block]
  /\ pc \in [Thread -> PC]
  /\ tail \in 0..LogMax
  /\ boot \in {"read_header", "install", "up"}
  /\ panic \in {"no", "log_full", "no_operation", "quota", "committing"}

(***************************************************************************)
(* The block cache as the log sees it.                                     *)
(***************************************************************************)
Running == boot = "up" /\ panic = "no"

Logged == {header[i] : i \in 1..Len(header)}

(* What cache_acquire returns for block b: the cached data, or the disk's. *)
Load(b) == IF cache[b] # NotCached THEN cache[b] ELSE disk[b]

(* An acquire that misses may free Block structs that are not pinned.      *)
Unpinned == {c \in Block \ pinned : cache[c] # NotCached}
Evictable(b) == IF cache[b] # NotCached THEN {} ELSE Unpinned

(* The cache after the blocks of E were evicted and b was set to v.        *)
Cached(E, b, v) ==
  [c \in Block |-> IF c = b THEN v ELSE IF c \in E THEN NotCached ELSE cache[c]]

(***************************************************************************)
(* begin_op, sync and end_op.                                              *)
(***************************************************************************)
OutOfSpaceMutant == Len(header) + OP_MAX_NUM_BLOCKS > LogMax  \* forgets mu
OutOfSpace == Len(header) + mu + OP_MAX_NUM_BLOCKS > LogMax

MustWaitMutant == OutOfSpace                   \* begins during a commit
MustWait == committing \/ OutOfSpace

(* The sem is locked before log.lock is released: check and sleep are one. *)
cache_begin_op(t) ==
  /\ Running
  /\ pc[t] \in {"out", "begin"}
  /\ IF MustWait
     THEN /\ pc' = [pc EXCEPT ![t] = "begin_wait"]
          /\ UNCHANGED <<outstanding, mu, rm, wrote>>
     ELSE /\ pc' = [pc EXCEPT ![t] = "op"]
          /\ outstanding' = outstanding + 1
          /\ mu' = mu + OP_MAX_NUM_BLOCKS
          /\ rm' = [rm EXCEPT ![t] = OP_MAX_NUM_BLOCKS]
          /\ wrote' = [wrote EXCEPT ![t] = {}]
  /\ UNCHANGED <<device, header, cache, pinned, committing, tail, boot, panic>>

SyncPanicMutantNoQuota(t, b) == IF Len(header) >= LogMax THEN "log_full" ELSE "no"

(* Which PANIC() of cache_sync, if any, a sync of b with t's context meets. *)
SyncPanic(t, b) ==
  IF Len(header) >= LogMax THEN "log_full"
  ELSE IF outstanding < 1 THEN "no_operation"
  ELSE IF b \notin Logged /\ rm[t] = 0 THEN "quota"
  ELSE "no"

log_block_mutant(t, b) == /\ header' = Append(header, b)
                          /\ rm' = [rm EXCEPT ![t] = @ - 1]
                          /\ mu' = mu - 1
                          /\ UNCHANGED pinned

(* A block that was not in the header gets the next log slot.              *)
log_block(t, b) == /\ header' = Append(header, b)
                   /\ pinned' = pinned \cup {b}
                   /\ rm' = [rm EXCEPT ![t] = @ - 1]
                   /\ mu' = mu - 1

(* Acquire b, set its contents to v, sync it with t's context, release it. *)
cache_sync(t, b, v) ==
  /\ Running
  /\ pc[t] = "op"
  /\ SyncPanic(t, b) = "no"
  /\ \E E \in SUBSET Evictable(b) : cache' = Cached(E, b, v)
  /\ wrote' = [wrote EXCEPT ![t] = @ \cup {b}]
  /\ IF b \in Logged
     THEN UNCHANGED <<header, pinned, rm, mu>>
     ELSE log_block(t, b)
  /\ UNCHANGED <<device, outstanding, committing, pc, tail, boot, panic>>

(* The machine stops: its memory no longer matters.                        *)
cache_sync_panic(t, b) ==
  /\ Running
  /\ pc[t] = "op"
  /\ SyncPanic(t, b) # "no"
  /\ panic' = SyncPanic(t, b)
  /\ UNCHANGED <<device, header, cache, pinned, log, rm, wrote, pc, tail, boot>>

(* sync with a NULL context writes through.  Its caller must use it "with  *)
(* care" (cache.h:74): not on a block that is being committed.             *)
cache_sync_null(b, v) ==
  /\ Running
  /\ ~(committing /\ b \in Logged)
  /\ \E E \in SUBSET Evictable(b) : cache' = Cached(E, b, v)
  /\ disk' = [disk EXCEPT ![b] = v]
  /\ UNCHANGED <<logArea, diskHeader, header, pinned, log, rm, wrote, pc, tail,
                 boot, panic>>

(* A reader acquires and releases b.                                       *)
cache_acquire(b) ==
  /\ Running
  /\ \E E \in SUBSET Evictable(b) : cache' = Cached(E, b, Load(b))
  /\ UNCHANGED <<device, header, pinned, log, rm, wrote, pc, tail, boot, panic>>

(* post_all_sem: every sleeper of the semaphore returns from its wait.     *)
Wake(from, to, f) == [s \in Thread |-> IF f[s] = from THEN to ELSE f[s]]

post_all_mutant(f) == f
post_all_sem(f) == Wake("begin_wait", "begin", f)              \* log.sem
post_all_outstandingsem(f) == Wake("end_wait", "end_done", f)

cache_end_op(t) ==
  /\ Running
  /\ pc[t] = "op"
  /\ outstanding' = outstanding - 1
  /\ mu' = mu - rm[t]
  /\ panic' = IF committing THEN "committing" ELSE panic
  /\ IF outstanding' = 0
     THEN /\ committing' = TRUE
          /\ pc' = [pc EXCEPT ![t] = "commit"]
     ELSE /\ pc' = post_all_sem([pc EXCEPT ![t] = "end_wait"])
          /\ UNCHANGED committing
  /\ UNCHANGED <<device, header, cache, pinned, rm, wrote, tail, boot>>

(***************************************************************************)
(* The committer: commit(), write_log() and install_trans().               *)
(***************************************************************************)
commit(t) ==
  /\ Running
  /\ pc[t] = "commit"
  /\ pc' = [pc EXCEPT ![t] = IF Len(header) > 0 THEN "write_log" ELSE "finish"]
  /\ tail' = 0
  /\ UNCHANGED <<device, header, cache, pinned, log, rm, wrote, boot, panic>>

write_log(t) ==
  /\ Running
  /\ pc[t] = "write_log"
  /\ tail < Len(header)
  /\ logArea' = [logArea EXCEPT ![tail + 1] = Load(header[tail + 1])]
  /\ \E E \in SUBSET Unpinned :
       cache' = Cached(E, header[tail + 1], Load(header[tail + 1]))
  /\ tail' = tail + 1
  /\ UNCHANGED <<disk, diskHeader, header, pinned, log, rm, wrote, pc, boot,
                 panic>>

(* write_header(): the commit point.                                       *)
write_header(t) ==
  /\ Running
  /\ pc[t] = "write_log"
  /\ tail = Len(header)
  /\ diskHeader' = header
  /\ tail' = 0
  /\ pc' = [pc EXCEPT ![t] = "install"]
  /\ UNCHANGED <<disk, logArea, header, cache, pinned, log, rm, wrote, boot,
                 panic>>

(* One iteration of install_trans, for a commit and for recovery.          *)
install_trans ==
  /\ tail < Len(header)
  /\ LET b == header[tail + 1]
     IN  /\ disk' = [disk EXCEPT ![b] = logArea[tail + 1]]
         /\ \E E \in SUBSET Unpinned : cache' = Cached(E, b, logArea[tail + 1])
  /\ tail' = tail + 1
  /\ UNCHANGED <<logArea, diskHeader, header, log, rm, wrote, pc, boot, panic>>

clear_header_mutant ==
  /\ header' = <<>>
  /\ diskHeader' = <<>>
  /\ tail' = 0
  /\ UNCHANGED <<disk, logArea, cache, pinned, log, rm, wrote, panic>>

(* header.num_blocks = 0; write_header().                                  *)
clear_header ==
  /\ tail = Len(header)
  /\ header' = <<>>
  /\ diskHeader' = <<>>
  /\ tail' = 0
  /\ UNCHANGED <<disk, logArea, cache, pinned, log, rm, wrote, panic>>

install(t) == Running /\ pc[t] = "install" /\ install_trans /\ UNCHANGED pinned

clear(t) == /\ Running
            /\ pc[t] = "install"
            /\ clear_header
            /\ pc' = [pc EXCEPT ![t] = "finish"]
            /\ UNCHANGED boot

finish(t) ==
  /\ Running
  /\ pc[t] = "finish"
  /\ committing' = FALSE
  /\ pc' = post_all_sem(post_all_outstandingsem([pc EXCEPT ![t] = "out"]))
  /\ UNCHANGED <<device, header, cache, pinned, outstanding, mu, rm, wrote,
                 tail, boot, panic>>

(* A thread woken from log.outstandingsem returns from end_op.             *)
return(t) ==
  /\ Running
  /\ pc[t] = "end_done"
  /\ pc' = [pc EXCEPT ![t] = "out"]
  /\ UNCHANGED <<device, header, cache, pinned, log, rm, wrote, tail, boot,
                 panic>>

(***************************************************************************)
(* Crash and recovery.                                                     *)
(***************************************************************************)
(* The machine stops at any point and boots again: memory is lost.         *)
Crash ==
  /\ header' = <<>>
  /\ cache' = [b \in Block |-> NotCached]
  /\ pinned' = {}
  /\ outstanding' = 0
  /\ committing' = FALSE
  /\ mu' = 0
  /\ rm' = [t \in Thread |-> 0]
  /\ wrote' = [t \in Thread |-> {}]
  /\ pc' = [t \in Thread |-> "out"]
  /\ tail' = 0
  /\ boot' = "read_header"
  /\ panic' = "no"
  /\ UNCHANGED device

read_header ==
  /\ boot = "read_header"
  /\ header' = diskHeader
  /\ boot' = "install"
  /\ UNCHANGED <<device, cache, pinned, log, rm, wrote, pc, tail, panic>>

recover_install ==
  /\ boot = "install"
  /\ install_trans
  /\ pinned' = pinned \ {header[tail + 1]}

recover_clear ==
  /\ boot = "install"
  /\ clear_header
  /\ boot' = "up"
  /\ UNCHANGED pc

recover_from_log == read_header \/ recover_install \/ recover_clear

-----------------------------------------------------------------------------
(* A formatted disk: the header is empty, the blocks hold anything.        *)
Init ==
  /\ disk \in [Block -> Data]
  /\ logArea \in [Slot -> Data]
  /\ diskHeader = <<>>
  /\ header = <<>>
  /\ cache = [b \in Block |-> NotCached]
  /\ pinned = {}
  /\ outstanding = 0
  /\ committing = FALSE
  /\ mu = 0
  /\ rm = [t \in Thread |-> 0]
  /\ wrote = [t \in Thread |-> {}]
  /\ pc = [t \in Thread |-> "out"]
  /\ tail = 0
  /\ boot = "read_header"
  /\ panic = "no"

Commit(t) == commit(t) \/ write_log(t) \/ write_header(t) \/ install(t)
               \/ clear(t) \/ finish(t)

Sync(t) == \E b \in Block :
             (\E v \in Data : cache_sync(t, b, v)) \/ cache_sync_panic(t, b)

Step(t) == cache_begin_op(t) \/ Sync(t) \/ cache_end_op(t) \/ Commit(t)
             \/ return(t)

Next == \/ \E t \in Thread : Step(t)
        \/ \E b \in Block : cache_acquire(b)
        \/ \E b \in Block, v \in Data : cache_sync_null(b, v)
        \/ recover_from_log
        \/ Crash

Spec == Init /\ [][Next]_vars

(* Fairness: a thread that can run its next kernel step runs it.  Starting  *)
(* an operation, and what it writes, is the caller's choice; an operation  *)
(* that was started ends.                                                  *)
Fairness ==
  /\ \A t \in Thread : /\ WF_vars(cache_begin_op(t) /\ pc[t] = "begin")
                       /\ WF_vars(cache_end_op(t))
                       /\ WF_vars(Commit(t))
                       /\ WF_vars(return(t))
  /\ WF_vars(recover_from_log)

FairSpec == Spec /\ Fairness

-----------------------------------------------------------------------------
(***************************************************************************)
(* Refinement: the cache and its log implement AtomicDisk.                 *)
(***************************************************************************)

(* The disk that recovery would leave if the machine stopped now.          *)
Recovered ==
  [b \in Block |->
     IF \E i \in 1..Len(diskHeader) : diskHeader[i] = b
     THEN logArea[CHOOSE i \in 1..Len(diskHeader) : diskHeader[i] = b]
     ELSE disk[b]]

Visible == IF boot = "up" THEN [b \in Block |-> Load(b)] ELSE Recovered

(* The group that is being committed has passed its commit point.          *)
Durable == \E s \in Thread : pc[s] \in {"install", "finish"}

OpOf(t) ==
  CASE pc[t] \in {"out", "begin", "begin_wait"} -> "idle"
    [] pc[t] = "op" -> "running"
    [] pc[t] \in {"commit", "write_log"} -> "ended"
    [] pc[t] = "end_wait" -> IF Durable THEN "durable" ELSE "ended"
    [] OTHER -> "durable"

AD == INSTANCE AtomicDisk WITH stable <- Recovered, buf <- Visible,
                               op <- [t \in Thread |-> OpOf(t)]

(* cache.h:54-84: whatever the interleaving and wherever the machine stops, *)
(* the writes of a group of operations reach the disk together or not at   *)
(* all, a reader sees the latest write, and end_op returns only when the   *)
(* operation's blocks are persisted.                                       *)
RefinesAtomicDisk == AD!Spec

(***************************************************************************)
(* Invariants.                                                             *)
(***************************************************************************)

(* A block whose cached data is newer than the disk is in the log header,  *)
(* and the pinned flag keeps the blocks of the header from being evicted.  *)
DirtyIsPinned ==
  /\ \A b \in Block : cache[b] \notin {NotCached, disk[b]} => b \in Logged
  /\ boot = "up" => Logged \subseteq pinned

(* commit() relies on it: no operation runs while the log is committed, and *)
(* log.outstanding counts the running operations exactly.                  *)
CommitIsExclusive ==
  /\ outstanding = Cardinality({t \in Thread : pc[t] = "op"})
  /\ committing => outstanding = 0

(* No PANIC() of lines 204 and 254: sync always finds its own operation    *)
(* counted, and no operation ends during a commit.                         *)
NoAssertionPanic == panic \notin {"no_operation", "committing"}

(* The log blocks that begin_op has reserved and no sync has used yet.     *)
Reserved == {r \in Thread \X (1..OP_MAX_NUM_BLOCKS) :
               pc[r[1]] = "op" /\ r[2] <= rm[r[1]]}

(* log.mu is what the running operations may still log, and the log has    *)
(* room for all of it: begin_op's admission test (line 181) is enough for  *)
(* every sync that stays within its quota to find a free log block.        *)
SpaceReserved ==
  panic = "no" => mu = Cardinality(Reserved) /\ Len(header) + mu <= LogMax

(* Whenever a running operation is about to sync a block: the PANIC() of   *)
(* line 220 meets it only if, with that block, it holds more than          *)
(* OP_MAX_NUM_BLOCKS distinct blocks (cache.h:78), and the PANIC() for a   *)
(* full log (line 201) only if it has nothing left of its own quota, which *)
(* it has spent on distinct blocks, the refused one not counted: nobody    *)
(* else's syncs take the space that begin_op reserved for it.  That the    *)
(* refused block takes a new slot is not said, and is not so: line 201     *)
(* comes before the look-up, so a second sync of a block the operation     *)
(* holds is refused too, although cache.h:8 counts distinct blocks.        *)
QuotaPanicJustified ==
  \A t \in Thread, b \in Block : Running /\ pc[t] = "op" =>
    /\ SyncPanic(t, b) = "quota" =>
         Cardinality(wrote[t] \cup {b}) > OP_MAX_NUM_BLOCKS
    /\ SyncPanic(t, b) = "log_full" =>
         rm[t] = 0 /\ Cardinality(wrote[t]) >= OP_MAX_NUM_BLOCKS

(* No lost wakeup: a thread sleeps in begin_op (on log.sem) only while the *)
(* condition it waits for is false, and in end_op (on log.outstandingsem)  *)
(* only while somebody will still commit.                                  *)
WaitersBlocked ==
  \A t \in Thread :
    /\ pc[t] = "begin_wait" => committing \/ OutOfSpace
    /\ pc[t] = "end_wait" => committing \/ \E u \in Thread : pc[u] = "op"

(***************************************************************************)
(* The inductive invariant behind RefinesAtomicDisk (see CommitLogProofs). *)
(***************************************************************************)
Committer == {"commit", "write_log", "install", "finish"}

Distinct(s) == \A i, j \in 1..Len(s) : s[i] = s[j] => i = j

(* A header fits the log area and names each block once.                   *)
HeadersFit == /\ Len(header) <= LogMax /\ Distinct(header)
              /\ Len(diskHeader) <= LogMax /\ Distinct(diskHeader)

(* committing is the lock of the one committer; recovery runs alone.       *)
OneCommitter ==
  /\ \A t \in Thread : pc[t] \in Committer => committing
  /\ \A s, t \in Thread : pc[s] \in Committer /\ pc[t] \in Committer => s = t
  /\ boot # "up" => panic = "no" /\ ~committing /\ pinned = {}
                     /\ \A t \in Thread : pc[t] = "out"

(* The on-disk header is empty except between a commit point and the end   *)
(* of the installation, where the in-memory header is its copy.            *)
HeaderOnDisk ==
  /\ boot = "up" /\ (\A t \in Thread : pc[t] # "install") => diskHeader = <<>>
  /\ \A t \in Thread : pc[t] = "install" => header = diskHeader
  /\ \A t \in Thread : pc[t] = "finish" => header = <<>>
  /\ boot = "install" => header = diskHeader
  /\ boot = "read_header" => header = <<>> /\ tail = 0

(* The log blocks hold what the cache holds, as far as write_log went, and *)
(* the disk holds what the log blocks hold, as far as install_trans went.  *)
CopiesAgree ==
  /\ \A t \in Thread : pc[t] = "write_log" =>
       tail <= Len(header) /\ \A i \in 1..tail : logArea[i] = Load(header[i])
  /\ \A t \in Thread : pc[t] = "install" =>
       \A i \in 1..Len(header) : logArea[i] = Load(header[i])
  /\ boot = "install" \/ (\E t \in Thread : pc[t] = "install") =>
       tail <= Len(header) /\ \A i \in 1..tail : disk[header[i]] = logArea[i]
  /\ boot # "up" => \A b \in Block : cache[b] \in {NotCached, disk[b]}

LogInv == /\ TypeOK /\ HeadersFit /\ CommitIsExclusive /\ OneCommitter
          /\ HeaderOnDisk /\ DirtyIsPinned /\ CopiesAgree

(* What an operation has used of its quota are blocks that it wrote and    *)
(* that are in the header until its group is committed.                    *)
QuotaUsed ==
  \A t \in Thread : panic = "no" /\ pc[t] = "op" =>
    /\ wrote[t] \subseteq Logged
    /\ rm[t] + Cardinality(wrote[t]) >= OP_MAX_NUM_BLOCKS

SpaceInv == SpaceReserved /\ QuotaUsed

(***************************************************************************)
(* Liveness, under FairSpec.                                               *)
(***************************************************************************)

(* cache.h:82: end_op returns (or the machine stops).                      *)
EndOpReturns ==
  \A t \in Thread : pc[t] \in {"end_wait", "commit"} ~>
                      pc[t] = "out" \/ panic # "no"

(* While threads wait in begin_op, operations keep starting.               *)
BeginOpProgress ==
  (\E t \in Thread : pc[t] = "begin_wait") ~>
     (\E t \in Thread : pc[t] = "op") \/ panic # "no" \/ boot # "up"
=============================================================================

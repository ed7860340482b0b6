-------------------------- MODULE CommitLogProofs ---------------------------
(***************************************************************************)
(* Proofs about CommitLog, for any threads, blocks, data and log size that *)
(* satisfy its assumptions.                                                *)
(*                                                                         *)
(* LogInv is inductive: one lemma per conjunct shows that a step preserves *)
(* it, from the conjuncts before it.  The refinement of AtomicDisk follows *)
(* from LogInv with one lemma per action, and so do the space in the log,  *)
(* the quota of an operation and the sleepers of begin_op and end_op.      *)
(***************************************************************************)
EXTENDS CommitLog, FiniteSetTheorems, TLAPS

(* Every step of the log keeps its variables in their types.               *)
LEMMA TypeCorrect == ASSUME TypeOK, HeadersFit, [Next]_vars PROVE TypeOK'
<1> USE SizeAssumption DEF TypeOK, PC, Slot
<1>1. CASE UNCHANGED vars
  BY <1>1 DEF vars
<1>2. ASSUME NEW t \in Thread, cache_begin_op(t) PROVE TypeOK'
  <2>1. CASE MustWait
    BY <1>2, <2>1 DEF cache_begin_op, device
  <2>2. CASE ~MustWait
    <3>1. rm' \in [Thread -> 0..OP_MAX_NUM_BLOCKS]
      BY <1>2, <2>2 DEF cache_begin_op
    <3>2. wrote' \in [Thread -> SUBSET Block]
      BY <1>2, <2>2 DEF cache_begin_op
    <3>3. /\ pc' = [pc EXCEPT ![t] = "op"]
          /\ outstanding' = outstanding + 1
          /\ mu' = mu + OP_MAX_NUM_BLOCKS
      BY <1>2, <2>2, Zenon DEF cache_begin_op
    <3>4. UNCHANGED <<device, header, cache, pinned, committing, tail, boot,
                      panic>>
      BY <1>2 DEF cache_begin_op
    <3> QED
      BY <3>1, <3>2, <3>3, <3>4 DEF device
  <2> QED
    BY <2>1, <2>2
<1>3. ASSUME NEW t \in Thread, NEW b \in Block, NEW v \in Data,
             cache_sync(t, b, v)
      PROVE TypeOK'
  <2>1. wrote' \in [Thread -> SUBSET Block]
    BY <1>3 DEF cache_sync
  <2>2. cache' \in [Block -> Data \cup {NotCached}]
    BY <1>3 DEF cache_sync, Cached
  <2>3. CASE b \in Logged
    BY <1>3, <2>1, <2>2, <2>3 DEF cache_sync, device
  <2>4. CASE b \notin Logged
    <3>1. rm[t] # 0
      BY <1>3, <2>4 DEF cache_sync, SyncPanic
    <3>2. log_block(t, b)
      BY <1>3, <2>4 DEF cache_sync
    <3>3. rm' \in [Thread -> 0..OP_MAX_NUM_BLOCKS]
      BY <3>1, <3>2 DEF log_block
    <3>4. header' \in Seq(Block)
      BY <3>2 DEF log_block
    <3>5. mu' \in Int /\ pinned' \subseteq Block
      BY <3>2 DEF log_block
    <3> QED
      BY <1>3, <2>1, <2>2, <3>3, <3>4, <3>5 DEF cache_sync, device
  <2> QED
    BY <2>3, <2>4
<1>4. ASSUME NEW t \in Thread, NEW b \in Block, cache_sync_panic(t, b)
      PROVE TypeOK'
  <2>1. panic' \in {"no", "log_full", "no_operation", "quota", "committing"}
    BY <1>4 DEF cache_sync_panic, SyncPanic
  <2> QED
    BY <1>4, <2>1 DEF cache_sync_panic, device, log
<1>5. ASSUME NEW t \in Thread, cache_end_op(t) PROVE TypeOK'
  <2>1. pc' \in [Thread -> PC] /\ committing' \in BOOLEAN
    <3>1. CASE outstanding' = 0
      BY <1>5, <3>1 DEF cache_end_op
    <3>2. CASE outstanding' # 0
      BY <1>5, <3>2 DEF cache_end_op, post_all_sem, Wake
    <3> QED
      BY <3>1, <3>2
  <2> QED
    BY <1>5, <2>1 DEF cache_end_op, device
<1>6. ASSUME NEW t \in Thread, commit(t) PROVE TypeOK'
  BY <1>6 DEF commit, device, log
<1>7. ASSUME NEW t \in Thread, write_log(t) PROVE TypeOK'
  BY <1>7 DEF write_log, Cached, Load, HeadersFit, log
<1>8. ASSUME NEW t \in Thread, write_header(t) PROVE TypeOK'
  BY <1>8 DEF write_header, log
<1>9. ASSUME install_trans, pinned' \subseteq Block PROVE TypeOK'
  BY <1>9 DEF install_trans, Cached, HeadersFit, log
<1>10. ASSUME clear_header, pc' \in [Thread -> PC],
              boot' \in {"read_header", "install", "up"}
       PROVE TypeOK'
  BY <1>10 DEF clear_header, log
<1>11. ASSUME NEW t \in Thread, finish(t) PROVE TypeOK'
  BY <1>11 DEF finish, post_all_sem, post_all_outstandingsem, Wake, device
<1>12. ASSUME NEW t \in Thread, return(t) PROVE TypeOK'
  BY <1>12 DEF return, device, log
<1>13. ASSUME NEW b \in Block, cache_acquire(b) PROVE TypeOK'
  BY <1>13 DEF cache_acquire, Cached, Load, device, log
<1>14. ASSUME NEW b \in Block, NEW v \in Data, cache_sync_null(b, v)
       PROVE TypeOK'
  BY <1>14 DEF cache_sync_null, Cached, log
<1>15. CASE recover_from_log
  BY <1>9, <1>10, <1>15
     DEF recover_from_log, read_header, recover_install, recover_clear,
         device, log
<1>16. CASE Crash
  <2>1. /\ rm' \in [Thread -> 0..OP_MAX_NUM_BLOCKS]
        /\ pc' \in [Thread -> PC]
        /\ cache' \in [Block -> Data \cup {NotCached}]
    BY <1>16 DEF Crash
  <2>2. wrote' \in [Thread -> SUBSET Block]
    BY <1>16 DEF Crash
  <2>3. header' \in Seq(Block)
    BY <1>16 DEF Crash
  <2>4. /\ pinned' \subseteq Block /\ committing' \in BOOLEAN
        /\ boot' = "read_header" /\ panic' = "no"
    BY <1>16, Zenon DEF Crash
  <2>5. outstanding' = 0 /\ mu' = 0 /\ tail' = 0 /\ UNCHANGED device
    BY <1>16, Zenon DEF Crash
  <2> QED
    BY <2>1, <2>2, <2>3, <2>4, <2>5 DEF device
<1>17. ASSUME NEW t \in Thread, Step(t) PROVE TypeOK'
  BY <1>2, <1>3, <1>4, <1>5, <1>6, <1>7, <1>8, <1>9, <1>10, <1>11, <1>12,
     <1>17
     DEF Step, Sync, Commit, install, clear
<1> QED
  BY <1>1, <1>13, <1>14, <1>15, <1>16, <1>17 DEF Next

(***************************************************************************)
(* The headers.                                                            *)
(***************************************************************************)
(* A header without duplicates stays so when cache_sync appends a block    *)
(* that is not in it.                                                      *)
LEMMA DistinctAppend ==
  ASSUME NEW s \in Seq(Block), NEW b \in Block, Distinct(s),
         \A i \in 1..Len(s) : s[i] # b
  PROVE  Distinct(Append(s, b))
<1> DEFINE r == Append(s, b)
<1>1. Len(r) = Len(s) + 1 /\ r[Len(s) + 1] = b
  OBVIOUS
<1>2. \A i \in 1..Len(s) : r[i] = s[i]
  OBVIOUS
<1> HIDE DEF r
<1>3. ASSUME NEW i \in 1..Len(r), NEW j \in 1..Len(r), r[i] = r[j]
      PROVE  i = j
  BY <1>1, <1>2, <1>3 DEF Distinct
<1>4. Distinct(r)
  BY <1>3 DEF Distinct
<1> QED
  BY <1>4 DEF r

(* The header of an empty log has no duplicates.                           *)
LEMMA DistinctEmpty == Distinct(<<>>) /\ Len(<<>>) = 0
BY DEF Distinct

(* The headers, in memory and on disk, stay free of duplicates and within  *)
(* the log, and the tail within the header.                                *)
LEMMA HeadersFitPreserved ==
  ASSUME TypeOK, HeadersFit, [Next]_vars PROVE HeadersFit'
<1> USE SizeAssumption
<1>1. ASSUME UNCHANGED <<header, diskHeader>> PROVE HeadersFit'
  BY <1>1 DEF HeadersFit, Distinct
<1>2. ASSUME NEW t \in Thread, NEW b \in Block, NEW v \in Data,
             cache_sync(t, b, v)
      PROVE HeadersFit'
  <2>1. CASE b \in Logged
    BY <1>1, <1>2, <2>1 DEF cache_sync, device
  <2>2. CASE b \notin Logged
    <3>1. header' = Append(header, b) /\ UNCHANGED diskHeader
      BY <1>2, <2>2 DEF cache_sync, log_block, device
    <3>2. Len(header) < LogMax /\ header \in Seq(Block)
      BY <1>2 DEF cache_sync, SyncPanic, TypeOK
    <3>3. Len(header') <= LogMax
      BY <3>1, <3>2
    <3>4. \A i \in 1..Len(header) : header[i] # b
      BY <2>2 DEF Logged
    <3>5. Distinct(header')
      BY <3>1, <3>2, <3>4, DistinctAppend DEF HeadersFit
    <3>6. Len(diskHeader') <= LogMax /\ Distinct(diskHeader')
      BY <3>1 DEF HeadersFit, Distinct
    <3> QED
      BY <3>3, <3>5, <3>6 DEF HeadersFit, Distinct
  <2> QED
    BY <2>1, <2>2
<1>3. ASSUME NEW t \in Thread, write_header(t) PROVE HeadersFit'
  BY <1>3 DEF write_header, HeadersFit, Distinct
<1>4. CASE clear_header
  BY <1>4, DistinctEmpty DEF clear_header, HeadersFit, Distinct
<1>5. CASE read_header
  BY <1>5 DEF read_header, device, HeadersFit, Distinct
<1>6. CASE Crash
  <2>1. header' = <<>> /\ UNCHANGED diskHeader
    BY <1>6, Zenon DEF Crash, device
  <2> QED
    BY <2>1, DistinctEmpty DEF HeadersFit, Distinct
<1>7. ASSUME NEW t \in Thread, Step(t) PROVE HeadersFit'
  <2>1. ASSUME cache_begin_op(t) \/ (\E b \in Block : cache_sync_panic(t, b))
                 \/ cache_end_op(t) \/ return(t)
        PROVE UNCHANGED <<header, diskHeader>>
    BY <2>1, Zenon DEF cache_begin_op, cache_sync_panic, cache_end_op, return,
                       device
  <2>2. ASSUME commit(t) \/ write_log(t) \/ install(t) \/ finish(t)
        PROVE UNCHANGED <<header, diskHeader>>
    BY <2>2, Zenon DEF commit, write_log, install, install_trans, finish, device
  <2> QED
    BY <1>1, <1>2, <1>3, <1>4, <1>7, <2>1, <2>2
       DEF Step, Sync, Commit, clear
<1>8. CASE recover_from_log
  BY <1>1, <1>4, <1>5, <1>8
     DEF recover_from_log, recover_install, recover_clear, install_trans
<1>9. ASSUME NEW b \in Block, cache_acquire(b)
      PROVE UNCHANGED <<header, diskHeader>>
  BY <1>9, Zenon DEF cache_acquire, device
<1>10. ASSUME NEW b \in Block, NEW v \in Data, cache_sync_null(b, v)
       PROVE UNCHANGED <<header, diskHeader>>
  BY <1>10, Zenon DEF cache_sync_null
<1> QED
  BY <1>1, <1>6, <1>7, <1>8, <1>9, <1>10 DEF Next, vars

(***************************************************************************)
(* Who runs: the operations are counted, the committer is alone.           *)
(***************************************************************************)
Ops == {t \in Thread : pc[t] = "op"}

(* The operations that were begun and not ended are finitely many.         *)
LEMMA OpsFinite == IsFiniteSet(Ops) /\ Cardinality(Ops) \in Nat
BY ThreadAssumption, FS_Subset, FS_CardinalityType DEF Ops

(* While a thread is in an operation, outstanding is positive: cache_sync  *)
(* and cache_end_op do not meet their PANICs.                              *)
LEMMA OpRunning ==
  ASSUME CommitIsExclusive, NEW t \in Thread, pc[t] = "op"
  PROVE  outstanding >= 1 /\ ~committing
<1>1. t \in Ops
  BY DEF Ops
<1>2. Cardinality(Ops) # 0
  BY <1>1, OpsFinite, FS_EmptySet
<1> QED
  BY <1>2, OpsFinite DEF CommitIsExclusive, Ops

(* A step that changes no thread's place leaves the set of running         *)
(* operations alone.                                                       *)
LEMMA OpsSame ==
  ASSUME CommitIsExclusive, UNCHANGED outstanding, committing' => committing,
         \A t \in Thread : pc'[t] = "op" <=> pc[t] = "op"
  PROVE  CommitIsExclusive'
<1>1. Ops' = Ops
  BY DEF Ops
<1> QED
  BY <1>1 DEF CommitIsExclusive, Ops

(* outstanding counts the running operations, and committing is set        *)
(* exactly while one thread is between end_op and the end of its commit.   *)
LEMMA ControlPreserved ==
  ASSUME TypeOK, CommitIsExclusive, OneCommitter, [Next]_vars
  PROVE  CommitIsExclusive' /\ OneCommitter'
<1> DEFINE Goal == CommitIsExclusive /\ OneCommitter
<1> USE DEF TypeOK, PC
<1>1. ASSUME UNCHANGED <<pc, outstanding, committing, boot, panic, pinned>>
      PROVE Goal'
  BY <1>1 DEF CommitIsExclusive, OneCommitter
<1>2. ASSUME NEW t \in Thread, cache_begin_op(t) PROVE Goal'
  <2>1. CASE MustWait
    <3>1. /\ pc' = [pc EXCEPT ![t] = "begin_wait"]
          /\ pc[t] \in {"out", "begin"} /\ boot = "up"
          /\ UNCHANGED <<outstanding, committing, boot, panic, pinned>>
      BY <1>2, <2>1, Zenon DEF cache_begin_op, Running
    <3>2. CommitIsExclusive'
      BY <3>1, OpsSame
    <3>3. OneCommitter'
      BY <3>1 DEF OneCommitter, Committer
    <3> QED
      BY <3>2, <3>3
  <2>2. CASE ~MustWait
    <3>1. /\ pc' = [pc EXCEPT ![t] = "op"]
          /\ pc[t] \in {"out", "begin"} /\ boot = "up" /\ ~committing
          /\ outstanding' = outstanding + 1
          /\ UNCHANGED <<committing, boot, panic, pinned>>
      BY <1>2, <2>2, Zenon DEF cache_begin_op, Running, MustWait
    <3>2. Ops' = Ops \cup {t} /\ t \notin Ops
      BY <3>1 DEF Ops
    <3>3. Cardinality(Ops') = Cardinality(Ops) + 1
      BY <3>2, OpsFinite, FS_AddElement
    <3>4. CommitIsExclusive'
      BY <3>1, <3>3 DEF CommitIsExclusive, Ops
    <3>5. OneCommitter'
      BY <3>1 DEF OneCommitter, Committer
    <3> QED
      BY <3>4, <3>5
  <2> QED
    BY <2>1, <2>2
<1>3. ASSUME NEW t \in Thread, NEW b \in Block, NEW v \in Data,
             cache_sync(t, b, v)
      PROVE Goal'
  <2>1. boot = "up" /\ UNCHANGED <<pc, outstanding, committing, boot, panic>>
    BY <1>3, Zenon DEF cache_sync, Running
  <2> QED
    BY <2>1 DEF CommitIsExclusive, OneCommitter
<1>4. ASSUME NEW t \in Thread, NEW b \in Block, cache_sync_panic(t, b)
      PROVE Goal'
  <2>1. boot = "up" /\ UNCHANGED <<pc, outstanding, committing, boot>>
    BY <1>4, Zenon DEF cache_sync_panic, Running, log
  <2> QED
    BY <2>1 DEF CommitIsExclusive, OneCommitter
<1>5. ASSUME NEW t \in Thread, cache_end_op(t) PROVE Goal'
  <2>1. /\ pc[t] = "op" /\ boot = "up" /\ boot' = "up"
        /\ outstanding' = outstanding - 1
    BY <1>5, Zenon DEF cache_end_op, Running
  <2>2. ~committing
    BY <2>1, OpRunning
  <2>3. \A s \in Thread : pc'[s] = "op" <=> pc[s] = "op" /\ s # t
    BY <1>5, <2>1 DEF cache_end_op, post_all_sem, Wake
  <2>4. Ops' = Ops \ {t} /\ t \in Ops
    BY <2>1, <2>3 DEF Ops
  <2>5. Cardinality(Ops') = Cardinality(Ops) - 1
    BY <2>4, OpsFinite, FS_RemoveElement
  <2>6. CommitIsExclusive'
    BY <1>5, <2>1, <2>2, <2>5 DEF CommitIsExclusive, Ops, cache_end_op
  <2>7. \A s \in Thread : pc'[s] \in Committer => committing' /\ s = t
    BY <1>5, <2>1, <2>2
       DEF cache_end_op, post_all_sem, Wake, OneCommitter, Committer
  <2>8. OneCommitter'
    BY <2>1, <2>7 DEF OneCommitter
  <2> QED
    BY <2>6, <2>8
<1>6. ASSUME NEW t \in Thread, pc[t] \in Committer, pc' = [pc EXCEPT ![t] = pc'[t]],
             pc'[t] \in Committer,
             UNCHANGED <<outstanding, committing, boot, panic, pinned>>
      PROVE Goal'
  <2>1. CommitIsExclusive'
    BY <1>6, OpsSame DEF Committer
  <2>2. OneCommitter'
    BY <1>6 DEF OneCommitter, Committer
  <2> QED
    BY <2>1, <2>2
<1>7. ASSUME NEW t \in Thread, finish(t) PROVE Goal'
  <2>1. /\ pc[t] = "finish" /\ boot' = "up" /\ UNCHANGED outstanding
        /\ ~committing'
    BY <1>7, Zenon DEF finish, Running
  <2>2. \A s \in Thread : /\ pc'[s] = "op" <=> pc[s] = "op"
                          /\ pc'[s] \in Committer => pc[s] \in Committer /\ s # t
    BY <1>7, <2>1
       DEF finish, post_all_sem, post_all_outstandingsem, Wake, Committer
  <2>3. CommitIsExclusive'
    BY <2>1, <2>2, OpsSame
  <2>4. OneCommitter'
    BY <2>1, <2>2 DEF OneCommitter, Committer
  <2> QED
    BY <2>3, <2>4
<1>8. ASSUME NEW t \in Thread, return(t) PROVE Goal'
  <2>1. /\ pc[t] = "end_done" /\ pc' = [pc EXCEPT ![t] = "out"] /\ boot = "up"
        /\ UNCHANGED <<outstanding, committing, boot>>
    BY <1>8, Zenon DEF return, Running, log
  <2>2. CommitIsExclusive'
    BY <2>1, OpsSame
  <2>3. OneCommitter'
    BY <2>1 DEF OneCommitter, Committer
  <2> QED
    BY <2>2, <2>3
<1>9. ASSUME NEW t \in Thread, Commit(t) PROVE Goal'
  <2>1. CASE commit(t)
    BY <1>6, <2>1 DEF commit, log, Committer
  <2>2. CASE write_log(t)
    BY <1>1, <2>2 DEF write_log, log
  <2>3. CASE write_header(t)
    BY <1>6, <2>3 DEF write_header, log, Committer
  <2>4. CASE install(t)
    BY <1>1, <2>4 DEF install, install_trans, log
  <2>5. CASE clear(t)
    BY <1>6, <2>5 DEF clear, clear_header, log, Committer
  <2> QED
    BY <1>7, <1>9, <2>1, <2>2, <2>3, <2>4, <2>5 DEF Commit
<1>10. ASSUME NEW t \in Thread, Step(t) PROVE Goal'
  BY <1>2, <1>3, <1>4, <1>5, <1>8, <1>9, <1>10 DEF Step, Sync
<1>11. CASE recover_from_log
  <2>1. /\ boot # "up"
        /\ UNCHANGED <<pc, outstanding, committing, panic>>
        /\ pinned' \subseteq pinned
    BY <1>11
       DEF recover_from_log, read_header, recover_install, recover_clear,
           install_trans, clear_header, log
  <2>2. CommitIsExclusive'
    BY <2>1, OpsSame
  <2>3. OneCommitter'
    BY <2>1 DEF OneCommitter
  <2> QED
    BY <2>2, <2>3
<1>12. CASE Crash
  <2>1. /\ outstanding' = 0 /\ ~committing' /\ panic' = "no" /\ pinned' = {}
        /\ pc' = [t \in Thread |-> "out"]
    BY <1>12, Zenon DEF Crash
  <2>2. Ops' = {}
    BY <2>1 DEF Ops
  <2>3. CommitIsExclusive'
    BY <2>1, <2>2, FS_EmptySet DEF CommitIsExclusive, Ops
  <2>4. OneCommitter'
    BY <2>1 DEF OneCommitter, Committer
  <2> QED
    BY <2>3, <2>4
<1>13. ASSUME NEW b \in Block, cache_acquire(b) PROVE Goal'
  BY <1>1, <1>13 DEF cache_acquire, log
<1>14. ASSUME NEW b \in Block, NEW v \in Data, cache_sync_null(b, v)
       PROVE Goal'
  BY <1>1, <1>14 DEF cache_sync_null, log
<1>15. CASE UNCHANGED vars
  BY <1>1, <1>15 DEF vars
<1> QED
  BY <1>10, <1>11, <1>12, <1>13, <1>14, <1>15 DEF Next

(* Without a committing thread the log is not being committed.             *)
LEMMA NoCommitter ==
  ASSUME LogInv, NEW t \in Thread, pc[t] = "op"
  PROVE  \A s \in Thread : pc[s] \notin Committer
BY OpRunning DEF LogInv, OneCommitter

(* The header on disk is empty or equal to the one in memory whenever the  *)
(* commit has reached the point where the code relies on it.               *)
LEMMA HeaderOnDiskPreserved ==
  ASSUME LogInv, [Next]_vars PROVE HeaderOnDisk'
<1> USE DEF LogInv, TypeOK, PC, HeaderOnDisk
<1>1. ASSUME UNCHANGED <<header, diskHeader, pc, boot>>,
             boot # "up" => UNCHANGED tail \/ boot # "read_header"
      PROVE HeaderOnDisk'
  BY <1>1
<1>2. ASSUME UNCHANGED <<header, diskHeader, boot>>, boot = "up",
             \A s \in Thread : pc[s] \notin Committer,
             \A s \in Thread : pc'[s] \notin {"install", "finish"}
      PROVE HeaderOnDisk'
  BY <1>2 DEF Committer
<1>3. ASSUME NEW t \in Thread, cache_begin_op(t) PROVE HeaderOnDisk'
  BY <1>3 DEF cache_begin_op, device, Running
<1>4. ASSUME NEW t \in Thread, NEW b \in Block, NEW v \in Data,
             cache_sync(t, b, v)
      PROVE HeaderOnDisk'
  <2>1. boot = "up" /\ pc[t] = "op" /\ UNCHANGED <<pc, diskHeader, boot>>
    BY <1>4, Zenon DEF cache_sync, device, Running
  <2>2. \A s \in Thread : pc[s] \notin Committer
    BY <2>1, NoCommitter
  <2> QED
    BY <2>1, <2>2 DEF Committer
<1>5. ASSUME NEW t \in Thread, NEW b \in Block, cache_sync_panic(t, b)
      PROVE HeaderOnDisk'
  BY <1>1, <1>5 DEF cache_sync_panic, device
<1>6. ASSUME NEW t \in Thread, cache_end_op(t) PROVE HeaderOnDisk'
  <2>1. pc[t] = "op" /\ boot = "up" /\ UNCHANGED <<header, diskHeader, boot>>
    BY <1>6, Zenon DEF cache_end_op, device, Running
  <2>2. \A s \in Thread : pc[s] \notin Committer
    BY <2>1, NoCommitter
  <2>3. \A s \in Thread : pc'[s] \notin {"install", "finish"}
    BY <1>6, <2>1, <2>2 DEF cache_end_op, post_all_sem, Wake, Committer
  <2> QED
    BY <1>2, <2>1, <2>2, <2>3
<1>7. ASSUME NEW t \in Thread, pc[t] \in Committer
      PROVE \A s \in Thread \ {t} : pc[s] \notin Committer
  BY <1>7 DEF OneCommitter
<1>8. ASSUME NEW t \in Thread, commit(t) PROVE HeaderOnDisk'
  <2>1. /\ pc[t] = "commit" /\ boot = "up"
        /\ UNCHANGED <<header, diskHeader, boot>>
        /\ pc' = [pc EXCEPT ![t] = IF Len(header) > 0 THEN "write_log"
                                                     ELSE "finish"]
    BY <1>8, Zenon DEF commit, device, Running
  <2>2. Len(header) > 0 \/ header = <<>>
    OBVIOUS
  <2> QED
    BY <1>7, <2>1, <2>2 DEF Committer
<1>9. ASSUME NEW t \in Thread, write_header(t) PROVE HeaderOnDisk'
  BY <1>7, <1>9 DEF write_header, Running, Committer
<1>10. ASSUME NEW t \in Thread, clear(t) PROVE HeaderOnDisk'
  BY <1>7, <1>10 DEF clear, clear_header, Running, Committer
<1>11. ASSUME NEW t \in Thread, finish(t) PROVE HeaderOnDisk'
  <2>1. \A s \in Thread : pc'[s] \notin Committer
    BY <1>7, <1>11
       DEF finish, post_all_sem, post_all_outstandingsem, Wake, Committer
  <2>2. /\ pc[t] = "finish" /\ boot = "up"
        /\ UNCHANGED <<header, diskHeader, boot>>
    BY <1>11, Zenon DEF finish, device, Running
  <2>3. diskHeader = <<>>
    BY <1>7, <2>2 DEF Committer
  <2> QED
    BY <2>1, <2>2, <2>3 DEF Committer
<1>12. ASSUME NEW t \in Thread, return(t) PROVE HeaderOnDisk'
  BY <1>12 DEF return, device, Running
<1>13. ASSUME NEW t \in Thread, write_log(t) \/ install(t) PROVE HeaderOnDisk'
  BY <1>1, <1>13 DEF write_log, install, install_trans, Running
<1>14. ASSUME NEW t \in Thread, Step(t) PROVE HeaderOnDisk'
  BY <1>3, <1>4, <1>5, <1>6, <1>8, <1>9, <1>10, <1>11, <1>12, <1>13, <1>14
     DEF Step, Sync, Commit
<1>15. CASE recover_from_log
  <2>1. CASE read_header
    BY <2>1 DEF read_header, device, OneCommitter
  <2>2. CASE recover_install
    BY <2>2 DEF recover_install, install_trans
  <2>3. CASE recover_clear
    BY <2>3 DEF recover_clear, clear_header, OneCommitter
  <2> QED
    BY <1>15, <2>1, <2>2, <2>3 DEF recover_from_log
<1>16. CASE Crash
  <2>1. /\ header' = <<>> /\ tail' = 0 /\ boot' = "read_header"
        /\ pc' = [t \in Thread |-> "out"]
    BY <1>16, Zenon DEF Crash
  <2> QED
    BY <2>1
<1>17. ASSUME NEW b \in Block, cache_acquire(b) PROVE HeaderOnDisk'
  BY <1>1, <1>17 DEF cache_acquire, device
<1>18. ASSUME NEW b \in Block, NEW v \in Data, cache_sync_null(b, v)
       PROVE HeaderOnDisk'
  BY <1>1, <1>18 DEF cache_sync_null
<1>19. CASE UNCHANGED vars
  BY <1>1, <1>19 DEF vars
<1> QED
  BY <1>14, <1>15, <1>16, <1>17, <1>18, <1>19 DEF Next

(***************************************************************************)
(* What the cache, the log area and the disk hold.                         *)
(***************************************************************************)

(* A block that may be evicted is read back from the disk unchanged.       *)
LEMMA UnpinnedIsClean ==
  ASSUME LogInv, NEW c \in Unpinned PROVE cache[c] = disk[c]
BY DEF LogInv, Unpinned, OneCommitter, DirtyIsPinned, CopiesAgree

(* cache_acquire and a write to the acquired block change no other block.  *)
LEMMA AcquireKeepsOthers ==
  ASSUME LogInv, NEW b \in Block, NEW v \in Data, NEW E \in SUBSET Unpinned,
         cache' = Cached(E, b, v),
         \A c \in Block \ {b} : disk'[c] = disk[c]
  PROVE  /\ Load(b)' = v
         /\ cache'[b] = v
         /\ \A c \in Block \ {b} : /\ Load(c)' = Load(c)
                                   /\ cache'[c] \in {NotCached, cache[c]}
<1>1. Load(b)' = v /\ cache'[b] = v
  BY DataAssumption DEF Cached, Load
<1>2. ASSUME NEW c \in Block \ {b}, c \in E
      PROVE  Load(c)' = Load(c) /\ cache'[c] = NotCached
  BY <1>2, UnpinnedIsClean DEF Cached, Load, Unpinned
<1>3. ASSUME NEW c \in Block \ {b}, c \notin E
      PROVE  Load(c)' = Load(c) /\ cache'[c] = cache[c]
  BY <1>3 DEF Cached, Load
<1> QED
  BY <1>1, <1>2, <1>3

(* cache_acquire returns the contents of a block.                          *)
LEMMA LoadInData == ASSUME TypeOK, NEW b \in Block PROVE Load(b) \in Data
BY DEF TypeOK, Load

(* The same for the steps that acquire a block.                            *)
LEMMA SyncLoads ==
  ASSUME LogInv, NEW t \in Thread, NEW b \in Block, NEW v \in Data,
         cache_sync(t, b, v)
  PROVE  /\ Load(b)' = v
         /\ \A c \in Block \ {b} : /\ Load(c)' = Load(c)
                                   /\ cache'[c] \in {NotCached, cache[c]}
<1>1. UNCHANGED disk
  BY Zenon DEF cache_sync, device
<1>2. PICK E \in SUBSET Unpinned : cache' = Cached(E, b, v)
  BY DEF cache_sync, Evictable
<1> QED
  BY <1>1, <1>2, AcquireKeepsOthers

(* What the other blocks look like after cache_sync without a context.     *)
LEMMA SyncNullLoads ==
  ASSUME LogInv, NEW b \in Block, NEW v \in Data, cache_sync_null(b, v)
  PROVE  /\ Load(b)' = v /\ cache'[b] = v
         /\ \A c \in Block \ {b} : /\ Load(c)' = Load(c)
                                   /\ cache'[c] \in {NotCached, cache[c]}
<1>1. \A c \in Block \ {b} : disk'[c] = disk[c]
  BY DEF cache_sync_null, LogInv, TypeOK
<1>2. PICK E \in SUBSET Unpinned : cache' = Cached(E, b, v)
  BY DEF cache_sync_null, Evictable
<1> QED
  BY <1>1, <1>2, AcquireKeepsOthers

(* What the blocks look like after cache_acquire: as before.               *)
LEMMA AcquireLoads ==
  ASSUME LogInv, NEW b \in Block, cache_acquire(b)
  PROVE  \A c \in Block : /\ Load(c)' = Load(c)
                          /\ cache'[c] \in {NotCached, cache[c], disk[c]}
<1>1. UNCHANGED disk
  BY Zenon DEF cache_acquire, device
<1>2. PICK E \in SUBSET Unpinned : cache' = Cached(E, b, Load(b))
  BY DEF cache_acquire, Evictable
<1>3. Load(b) \in Data
  BY LoadInData DEF LogInv
<1>4. /\ Load(b)' = Load(b) /\ cache'[b] = Load(b)
      /\ \A c \in Block \ {b} : /\ Load(c)' = Load(c)
                                /\ cache'[c] \in {NotCached, cache[c]}
  BY <1>1, <1>2, <1>3, AcquireKeepsOthers
<1> QED
  BY <1>4 DEF Load

(* What the blocks look like after a round of write_log: as before.        *)
LEMMA WriteLogLoads ==
  ASSUME LogInv, NEW t \in Thread, write_log(t)
  PROVE  /\ tail + 1 \in 1..Len(header) /\ header[tail + 1] \in Block
         /\ \A c \in Block : /\ Load(c)' = Load(c)
                             /\ cache'[c] \in {NotCached, cache[c], disk[c]}
<1>1. tail + 1 \in 1..Len(header) /\ header[tail + 1] \in Block
  BY DEF write_log, LogInv, TypeOK
<1>2. PICK b \in Block : b = header[tail + 1]
  BY <1>1
<1>3. UNCHANGED disk
  BY Zenon DEF write_log
<1>4. PICK E \in SUBSET Unpinned : cache' = Cached(E, b, Load(b))
  BY <1>2 DEF write_log
<1>5. Load(b) \in Data
  BY LoadInData DEF LogInv
<1>6. /\ Load(b)' = Load(b) /\ cache'[b] = Load(b)
      /\ \A c \in Block \ {b} : /\ Load(c)' = Load(c)
                                /\ cache'[c] \in {NotCached, cache[c]}
  BY <1>3, <1>4, <1>5, AcquireKeepsOthers
<1> QED
  BY <1>1, <1>6 DEF Load

(* What the blocks look like after a round of install_trans.               *)
LEMMA InstallLoads ==
  ASSUME LogInv, install_trans, NEW b, b = header[tail + 1]
  PROVE  /\ tail + 1 \in 1..Len(header) /\ b \in Block
         /\ logArea[tail + 1] \in Data
         /\ disk' = [disk EXCEPT ![b] = logArea[tail + 1]]
         /\ Load(b)' = logArea[tail + 1] /\ cache'[b] = logArea[tail + 1]
         /\ \A c \in Block \ {b} : /\ Load(c)' = Load(c)
                                   /\ cache'[c] \in {NotCached, cache[c]}
<1>1. tail + 1 \in 1..Len(header) /\ tail + 1 \in Slot
  BY SizeAssumption DEF install_trans, LogInv, TypeOK, HeadersFit, Slot
<1>2. b \in Block /\ logArea[tail + 1] \in Data
  BY <1>1 DEF LogInv, TypeOK
<1>3. disk' = [disk EXCEPT ![b] = logArea[tail + 1]]
  BY DEF install_trans
<1>4. PICK E \in SUBSET Unpinned : cache' = Cached(E, b, logArea[tail + 1])
  BY DEF install_trans
<1>5. \A c \in Block \ {b} : disk'[c] = disk[c]
  BY <1>2, <1>3 DEF LogInv, TypeOK
<1>6. /\ Load(b)' = logArea[tail + 1] /\ cache'[b] = logArea[tail + 1]
      /\ \A c \in Block \ {b} : /\ Load(c)' = Load(c)
                                /\ cache'[c] \in {NotCached, cache[c]}
  BY <1>2, <1>4, <1>5, AcquireKeepsOthers
<1> QED
  BY <1>1, <1>2, <1>3, <1>6

(* Steps that touch neither the device, nor the header, nor the cache.     *)
Quiet == /\ UNCHANGED <<disk, logArea, diskHeader, header, cache, pinned, tail,
                        boot>>
         /\ \A t \in Thread : /\ pc'[t] = "write_log" <=> pc[t] = "write_log"
                              /\ pc'[t] = "install" <=> pc[t] = "install"

(* begin_op, end_op, returning and a PANIC leave disk, log and cache       *)
(* alone.                                                                  *)
LEMMA QuietSteps ==
  ASSUME LogInv, NEW t \in Thread,
         cache_begin_op(t) \/ (\E b \in Block : cache_sync_panic(t, b))
           \/ cache_end_op(t) \/ finish(t) \/ return(t)
  PROVE  Quiet
<1> USE DEF LogInv, TypeOK, PC
<1>1. CASE cache_begin_op(t)
  BY <1>1 DEF cache_begin_op, device, Quiet
<1>2. CASE \E b \in Block : cache_sync_panic(t, b)
  BY <1>2 DEF cache_sync_panic, device, Quiet
<1>3. CASE cache_end_op(t)
  <2>1. pc[t] = "op" /\ UNCHANGED <<disk, logArea, diskHeader, header, cache,
                                     pinned, tail, boot>>
    BY <1>3, Zenon DEF cache_end_op, device
  <2>2. \A s \in Thread : /\ pc'[s] = "write_log" <=> pc[s] = "write_log"
                          /\ pc'[s] = "install" <=> pc[s] = "install"
    BY <1>3, <2>1 DEF cache_end_op, post_all_sem, Wake
  <2> QED
    BY <2>1, <2>2 DEF Quiet
<1>4. CASE finish(t)
  <2>1. pc[t] = "finish" /\ UNCHANGED <<disk, logArea, diskHeader, header, cache,
                                         pinned, tail, boot>>
    BY <1>4, Zenon DEF finish, device
  <2>2. \A s \in Thread : /\ pc'[s] = "write_log" <=> pc[s] = "write_log"
                          /\ pc'[s] = "install" <=> pc[s] = "install"
    BY <1>4, <2>1 DEF finish, post_all_sem, post_all_outstandingsem, Wake
  <2> QED
    BY <2>1, <2>2 DEF Quiet
<1>5. CASE return(t)
  BY <1>5 DEF return, device, Quiet
<1> QED
  BY <1>1, <1>2, <1>3, <1>4, <1>5

(* When install_trans is done, no cached block is newer than the disk.     *)
LEMMA InstalledIsClean ==
  ASSUME LogInv, clear_header,
         boot = "install" \/ \E t \in Thread : pc[t] = "install"
  PROVE  \A b \in Block : cache[b] \in {NotCached, disk[b]}
<1>1. CASE boot = "install"
  BY <1>1 DEF LogInv, CopiesAgree
<1>2. CASE \E t \in Thread : pc[t] = "install"
  <2>1. \A i \in 1..Len(header) : disk[header[i]] = Load(header[i])
    BY <1>2 DEF LogInv, CopiesAgree, clear_header
  <2> QED
    BY <2>1 DEF LogInv, DirtyIsPinned, Logged, Load
<1> QED
  BY <1>1, <1>2

(* The blocks of a header to which one was appended.                       *)
LEMMA LoggedAppend ==
  ASSUME header \in Seq(Block), NEW b \in Block, header' = Append(header, b)
  PROVE  Logged' = Logged \cup {b}
<1>1. Len(header') = Len(header) + 1 /\ header'[Len(header) + 1] = b
      /\ \A i \in 1..Len(header) : header'[i] = header[i]
  OBVIOUS
<1>2. Logged' = {header'[i] : i \in 1..(Len(header) + 1)}
  BY <1>1 DEF Logged
<1> QED
  BY <1>1, <1>2 DEF Logged

(* Every step keeps the blocks that differ from the disk pinned in the     *)
(* cache.                                                                  *)
LEMMA DirtyIsPinnedPreserved ==
  ASSUME LogInv, [Next]_vars PROVE DirtyIsPinned'
<1> USE DEF LogInv, DirtyIsPinned
<1>1. ASSUME UNCHANGED <<disk, header, pinned>>, boot' = "up" => boot = "up",
             \A c \in Block : cache'[c] \in {NotCached, cache[c], disk[c]}
      PROVE DirtyIsPinned'
  <2>1. Logged' = Logged
    BY <1>1 DEF Logged
  <2> QED
    BY <1>1, <2>1
<1>2. ASSUME Quiet PROVE DirtyIsPinned'
  BY <1>1, <1>2 DEF Quiet
<1>3. ASSUME NEW t \in Thread, NEW b \in Block, NEW v \in Data,
             cache_sync(t, b, v)
      PROVE DirtyIsPinned'
  <2>1. \A c \in Block \ {b} : cache'[c] \in {NotCached, cache[c]}
    BY <1>3, SyncLoads
  <2>2. UNCHANGED disk /\ boot = "up"
    BY <1>3, Zenon DEF cache_sync, device, Running
  <2>3. Logged' = Logged \cup {b} /\ (Logged' \ Logged) \cup pinned \subseteq pinned'
    <3>1. CASE b \in Logged
      BY <1>3, <3>1 DEF cache_sync, Logged
    <3>2. CASE b \notin Logged
      <4>1. header' = Append(header, b) /\ pinned' = pinned \cup {b}
        BY <1>3, <3>2 DEF cache_sync, log_block
      <4> QED
        BY <4>1, LoggedAppend DEF TypeOK
    <3> QED
      BY <3>1, <3>2
  <2> QED
    BY <2>1, <2>2, <2>3
<1>4. ASSUME NEW t \in Thread, commit(t) \/ write_header(t)
      PROVE DirtyIsPinned'
  BY <1>1, <1>4, Zenon DEF commit, write_header, device
<1>5. ASSUME NEW t \in Thread, write_log(t) PROVE DirtyIsPinned'
  <2>1. UNCHANGED <<disk, header, pinned, boot>>
    BY <1>5, Zenon DEF write_log
  <2> QED
    BY <1>1, <1>5, <2>1, WriteLogLoads
<1>6. ASSUME install_trans, boot # "up" \/ UNCHANGED pinned PROVE DirtyIsPinned'
  <2>1. PICK b : b = header[tail + 1]
    OBVIOUS
  <2>2. /\ b \in Block /\ disk' = [disk EXCEPT ![b] = logArea[tail + 1]]
        /\ cache'[b] = logArea[tail + 1]
        /\ \A c \in Block \ {b} : cache'[c] \in {NotCached, cache[c]}
    BY <1>6, <2>1, InstallLoads
  <2>3. \A c \in Block : /\ c = b => cache'[c] = disk'[c]
                         /\ c # b => disk'[c] = disk[c]
    BY <2>2 DEF TypeOK
  <2>4. Logged' = Logged /\ UNCHANGED boot
    BY <1>6 DEF install_trans, Logged
  <2> QED
    BY <1>6, <2>2, <2>3, <2>4
<1>7. ASSUME clear_header, boot = "install" \/ \E t \in Thread : pc[t] = "install"
      PROVE DirtyIsPinned'
  <2>1. UNCHANGED <<disk, cache>> /\ header' = <<>>
    BY <1>7 DEF clear_header
  <2>2. Logged' = {}
    BY <2>1 DEF Logged
  <2> QED
    BY <1>7, <2>1, <2>2, InstalledIsClean
<1>8. ASSUME NEW t \in Thread, Step(t) PROVE DirtyIsPinned'
  BY <1>2, <1>3, <1>4, <1>5, <1>6, <1>7, <1>8, QuietSteps
     DEF Step, Sync, Commit, install, clear
<1>9. CASE recover_from_log
  <2>1. CASE read_header
    <3>1. /\ UNCHANGED <<disk, cache>> /\ boot' # "up"
          /\ \A b \in Block : cache[b] \in {NotCached, disk[b]}
      BY <2>1 DEF read_header, device, CopiesAgree
    <3> QED
      BY <3>1
  <2>2. CASE recover_install
    BY <1>6, <2>2 DEF recover_install
  <2>3. CASE recover_clear
    BY <1>7, <2>3 DEF recover_clear
  <2> QED
    BY <1>9, <2>1, <2>2, <2>3 DEF recover_from_log
<1>10. CASE Crash
  <2>1. cache' = [b \in Block |-> NotCached] /\ boot' = "read_header"
    BY <1>10, Zenon DEF Crash
  <2> QED
    BY <2>1
<1>11. ASSUME NEW b \in Block, cache_acquire(b) PROVE DirtyIsPinned'
  <2>1. UNCHANGED <<disk, header, pinned, boot>>
    BY <1>11, Zenon DEF cache_acquire, device
  <2> QED
    BY <1>1, <1>11, <2>1, AcquireLoads
<1>12. ASSUME NEW b \in Block, NEW v \in Data, cache_sync_null(b, v)
       PROVE DirtyIsPinned'
  <2>1. /\ UNCHANGED <<header, pinned, boot>>
        /\ disk' = [disk EXCEPT ![b] = v]
    BY <1>12, Zenon DEF cache_sync_null
  <2>2. \A c \in Block : c # b => disk'[c] = disk[c]
    BY <2>1 DEF TypeOK
  <2>3. disk'[b] = v
    BY <2>1 DEF TypeOK
  <2>4. Logged' = Logged
    BY <2>1 DEF Logged
  <2> QED
    BY <1>12, <2>1, <2>2, <2>3, <2>4, SyncNullLoads
<1>13. CASE UNCHANGED vars
  BY <1>1, <1>13 DEF vars
<1> QED
  BY <1>8, <1>9, <1>10, <1>11, <1>12, <1>13 DEF Next

(* Every step keeps the copies in the log area equal to the blocks they    *)
(* were taken from, from write_log on to the end of the commit.            *)
LEMMA CopiesAgreePreserved ==
  ASSUME LogInv, [Next]_vars PROVE CopiesAgree'
<1> USE SizeAssumption DEF LogInv, CopiesAgree
<1>1. ASSUME UNCHANGED <<disk, logArea, header, tail, boot>>,
             \A c \in Block : /\ Load(c)' = Load(c)
                              /\ cache'[c] \in {NotCached, cache[c], disk[c]},
             \A t \in Thread : /\ pc'[t] = "write_log" <=> pc[t] = "write_log"
                               /\ pc'[t] = "install" <=> pc[t] = "install"
      PROVE CopiesAgree'
  <2>1. \A i \in 1..Len(header) : header[i] \in Block
    BY DEF TypeOK
  <2>2. \A i \in 1..Len(header) : Load(header[i])' = Load(header[i])
    BY <1>1, <2>1
  <2>3. \A i \in 1..tail : tail <= Len(header) => i \in 1..Len(header)
    BY DEF TypeOK
  <2> QED
    BY <1>1, <2>1, <2>2, <2>3
<1>2. ASSUME Quiet PROVE CopiesAgree'
  BY <1>1, <1>2 DEF Quiet, Load
<1>3. ASSUME NEW t \in Thread, NEW b \in Block, NEW v \in Data,
             cache_sync(t, b, v)
      PROVE CopiesAgree'
  <2>1. pc[t] = "op" /\ boot = "up" /\ UNCHANGED <<pc, boot>>
    BY <1>3, Zenon DEF cache_sync, Running
  <2>2. \A s \in Thread : pc[s] \notin Committer
    BY <2>1, NoCommitter
  <2> QED
    BY <2>1, <2>2 DEF Committer
<1>4. ASSUME NEW t \in Thread, pc[t] \in Committer
      PROVE  /\ boot = "up" /\ committing
             /\ \A s \in Thread \ {t} : pc[s] \notin Committer
  BY <1>4 DEF OneCommitter, Committer
<1>5. ASSUME NEW t \in Thread, commit(t) PROVE CopiesAgree'
  BY <1>4, <1>5 DEF commit, Committer, TypeOK, PC
<1>6. ASSUME NEW t \in Thread, write_log(t) PROVE CopiesAgree'
  <2>1. /\ pc[t] = "write_log" /\ tail' = tail + 1 /\ UNCHANGED <<header, pc, boot>>
        /\ logArea' = [logArea EXCEPT ![tail + 1] = Load(header[tail + 1])]
    BY <1>6, Zenon DEF write_log
  <2>2. /\ boot = "up"
        /\ \A s \in Thread : pc[s] # "install"
    BY <1>4, <2>1 DEF Committer
  <2>3. /\ tail + 1 \in 1..Len(header)
        /\ \A c \in Block : Load(c)' = Load(c)
    BY <1>6, WriteLogLoads
  <2>4. \A i \in 1..(tail + 1) : header[i] \in Block /\ i \in Slot
    BY <2>3 DEF TypeOK, HeadersFit, Slot
  <2>5. \A i \in 1..(tail + 1) : Load(header[i])' = Load(header[i])
    BY <2>1, <2>3, <2>4
  <2>6. \A i \in 1..(tail + 1) : logArea'[i] = Load(header[i])
    BY <2>1, <2>4 DEF TypeOK
  <2> QED
    BY <2>1, <2>2, <2>3, <2>5, <2>6
<1>7. ASSUME NEW t \in Thread, write_header(t) PROVE CopiesAgree'
  <2>1. /\ pc[t] = "write_log" /\ tail = Len(header) /\ tail' = 0
        /\ UNCHANGED <<disk, logArea, header, cache, boot>>
        /\ pc' = [pc EXCEPT ![t] = "install"]
    BY <1>7, Zenon DEF write_header
  <2>2. boot = "up" /\ \A s \in Thread : pc'[s] # "write_log"
    BY <1>4, <2>1 DEF Committer, TypeOK
  <2>3. \A i \in 1..Len(header) : logArea'[i] = Load(header[i])'
    BY <2>1 DEF Load
  <2> QED
    BY <2>1, <2>2, <2>3 DEF TypeOK
<1>8. ASSUME install_trans, \/ boot = "install"
                            \/ \E t \in Thread : pc[t] = "install"
      PROVE CopiesAgree'
  <2>1. /\ tail < Len(header) /\ tail' = tail + 1
        /\ UNCHANGED <<logArea, header, pc, boot>>
    BY <1>8 DEF install_trans
  <2>2. PICK b : b = header[tail + 1]
    OBVIOUS
  <2>3. /\ tail + 1 \in 1..Len(header) /\ b \in Block
        /\ disk' = [disk EXCEPT ![b] = logArea[tail + 1]]
        /\ Load(b)' = logArea[tail + 1] /\ cache'[b] = logArea[tail + 1]
        /\ \A c \in Block \ {b} : /\ Load(c)' = Load(c)
                                  /\ cache'[c] \in {NotCached, cache[c]}
    BY <1>8, <2>2, InstallLoads
  <2>4. \A i \in 1..Len(header) : /\ header[i] \in Block
                                  /\ i # tail + 1 => header[i] # b
    BY <2>2, <2>3 DEF TypeOK, HeadersFit, Distinct
  <2>5. \A s \in Thread : pc[s] # "write_log"
    BY <1>4, <1>8 DEF Committer, OneCommitter
  <2>6. \A c \in Block : disk'[c] = IF c = b THEN logArea[tail + 1] ELSE disk[c]
    BY <2>3 DEF TypeOK
  <2>7. \A i \in 1..(tail + 1) : disk'[header[i]] = logArea[i]
    BY <1>8, <2>2, <2>3, <2>4, <2>6 DEF TypeOK
  <2>8. ASSUME NEW t \in Thread, pc[t] = "install"
        PROVE \A i \in 1..Len(header) : logArea[i] = Load(header[i])'
    <3>1. ASSUME NEW i \in 1..Len(header), NEW c \in Block, c = header[i]
          PROVE  logArea[i] = Load(c)'
      BY <2>2, <2>3, <2>4, <2>8, <3>1
    <3>2. \A i \in 1..Len(header) : header'[i] = header[i]
      BY <2>1
    <3> QED
      BY <2>4, <3>1, <3>2 DEF Load
  <2>9. boot # "up" => \A c \in Block : cache'[c] \in {NotCached, disk'[c]}
    BY <2>3, <2>6
  <2> QED
    BY <2>1, <2>3, <2>5, <2>7, <2>8, <2>9 DEF TypeOK
<1>9. ASSUME NEW t \in Thread, clear(t) PROVE CopiesAgree'
  <2>1. /\ pc[t] = "install" /\ pc' = [pc EXCEPT ![t] = "finish"]
        /\ UNCHANGED boot
    BY <1>9, Zenon DEF clear
  <2>2. boot = "up" /\ \A s \in Thread : pc'[s] \notin {"write_log", "install"}
    BY <1>4, <2>1 DEF Committer, TypeOK
  <2> QED
    BY <2>1, <2>2
<1>10. ASSUME NEW t \in Thread, Step(t) PROVE CopiesAgree'
  BY <1>2, <1>3, <1>5, <1>6, <1>7, <1>8, <1>9, <1>10, QuietSteps
     DEF Step, Sync, Commit, install
<1>11. CASE recover_from_log
  <2>1. CASE read_header
    <3>1. /\ header' = diskHeader /\ tail' = 0 /\ UNCHANGED <<pc, disk, cache>>
          /\ boot = "read_header"
      BY <2>1 DEF read_header, device, HeaderOnDisk
    <3> QED
      BY <3>1 DEF OneCommitter, TypeOK
  <2>2. CASE recover_install
    BY <1>8, <2>2 DEF recover_install
  <2>3. CASE recover_clear
    <3>1. boot = "install" /\ boot' = "up" /\ UNCHANGED pc
      BY <2>3 DEF recover_clear
    <3> QED
      BY <3>1 DEF OneCommitter
  <2> QED
    BY <1>11, <2>1, <2>2, <2>3 DEF recover_from_log
<1>12. CASE Crash
  <2>1. /\ cache' = [b \in Block |-> NotCached] /\ boot' = "read_header"
        /\ pc' = [t \in Thread |-> "out"]
    BY <1>12, Zenon DEF Crash
  <2> QED
    BY <2>1
<1>13. ASSUME NEW b \in Block, cache_acquire(b) PROVE CopiesAgree'
  <2>1. UNCHANGED <<disk, logArea, header, tail, boot, pc>>
    BY <1>13, Zenon DEF cache_acquire, device
  <2> QED
    BY <1>1, <1>13, <2>1, AcquireLoads
<1>14. ASSUME NEW b \in Block, NEW v \in Data, cache_sync_null(b, v)
       PROVE CopiesAgree'
  <2>1. /\ UNCHANGED <<logArea, header, tail, boot, pc>> /\ boot = "up"
        /\ disk' = [disk EXCEPT ![b] = v]
        /\ ~(committing /\ b \in Logged)
    BY <1>14, Zenon DEF cache_sync_null, Running
  <2>2. \A c \in Block \ {b} : Load(c)' = Load(c) /\ disk'[c] = disk[c]
    BY <1>14, <2>1, SyncNullLoads DEF TypeOK
  <2>3. ASSUME NEW t \in Thread, pc[t] \in Committer, NEW i \in 1..Len(header),
               NEW c, c = header[i]
        PROVE  c \in Block \ {b}
    BY <1>4, <2>1, <2>3 DEF Logged, TypeOK
  <2>4. ASSUME NEW t \in Thread, pc[t] \in Committer
        PROVE \A i \in 1..Len(header) : /\ Load(header[i])' = Load(header[i])
                                        /\ disk'[header[i]] = disk[header[i]]
    BY <2>1, <2>2, <2>3, <2>4
  <2> QED
    BY <2>1, <2>4 DEF Committer, TypeOK
<1>15. CASE UNCHANGED vars
  <2>1. \A c \in Block : Load(c)' = Load(c)
    BY <1>15 DEF vars, Load
  <2> QED
    BY <1>1, <1>15, <2>1 DEF vars
<1> QED
  BY <1>10, <1>11, <1>12, <1>13, <1>14, <1>15 DEF Next

(* The machine starts, with an empty log or one left by a crash, in a      *)
(* state of the invariant.                                                 *)
LEMMA InitLogInv == ASSUME Init PROVE LogInv
<1> USE SizeAssumption
<1>1. /\ disk \in [Block -> Data] /\ logArea \in [Slot -> Data]
      /\ diskHeader = <<>> /\ header = <<>>
      /\ cache = [b \in Block |-> NotCached] /\ pinned = {}
      /\ outstanding = 0 /\ committing = FALSE /\ mu = 0
      /\ rm = [t \in Thread |-> 0] /\ wrote = [t \in Thread |-> {}]
      /\ pc = [t \in Thread |-> "out"] /\ tail = 0
      /\ boot = "read_header" /\ panic = "no"
  BY Zenon DEF Init
<1>2. TypeOK
  <2>1. wrote \in [Thread -> SUBSET Block]
    BY <1>1
  <2>2. /\ rm \in [Thread -> 0..OP_MAX_NUM_BLOCKS] /\ pc \in [Thread -> PC]
        /\ cache \in [Block -> Data \cup {NotCached}]
    BY <1>1 DEF PC
  <2>3. header \in Seq(Block) /\ diskHeader \in Seq(Block)
    BY <1>1
  <2>4. pinned \subseteq Block /\ committing \in BOOLEAN
    BY <1>1
  <2>5. outstanding \in Int /\ mu \in Int /\ tail \in 0..LogMax
    BY <1>1
  <2> QED
    BY <1>1, <2>1, <2>2, <2>3, <2>4, <2>5 DEF TypeOK
<1>3. HeadersFit
  BY <1>1, DistinctEmpty DEF HeadersFit
<1>4. CommitIsExclusive
  <2>1. Ops = {}
    BY <1>1 DEF Ops
  <2> QED
    BY <1>1, <2>1, FS_EmptySet DEF CommitIsExclusive, Ops
<1>5. OneCommitter
  BY <1>1 DEF OneCommitter, Committer
<1>6. HeaderOnDisk
  BY <1>1 DEF HeaderOnDisk
<1>7. DirtyIsPinned
  BY <1>1 DEF DirtyIsPinned
<1>8. CopiesAgree
  BY <1>1 DEF CopiesAgree
<1> QED
  BY <1>2, <1>3, <1>4, <1>5, <1>6, <1>7, <1>8 DEF LogInv

(* LogInv holds in every reachable state.                                  *)
THEOREM LogInvariant == Spec => []LogInv
<1>1. Init => LogInv
  BY InitLogInv
<1>2. LogInv /\ [Next]_vars => LogInv'
  BY TypeCorrect, HeadersFitPreserved, ControlPreserved, HeaderOnDiskPreserved,
     DirtyIsPinnedPreserved, CopiesAgreePreserved
     DEF LogInv
<1> QED
  BY <1>1, <1>2, PTL DEF Spec

(* The variables of the log have their types in every reachable state.     *)
THEOREM TypeCorrectness == Spec => []TypeOK
<1>1. LogInv => TypeOK
  BY DEF LogInv
<1> QED
  BY <1>1, LogInvariant, PTL

(* A block newer in the cache than on the disk is never evicted, for any   *)
(* number of threads and blocks and any size of the log.                   *)
THEOREM DirtyBlocksStay == Spec => []DirtyIsPinned
<1>1. LogInv => DirtyIsPinned
  BY DEF LogInv
<1> QED
  BY <1>1, LogInvariant, PTL

(* While a commit writes the log (cache.c:237-245) no operation is running *)
(* and no other thread commits, for any number of threads.                 *)
THEOREM CommitExclusion == Spec => []CommitIsExclusive
<1>1. LogInv => CommitIsExclusive
  BY DEF LogInv
<1> QED
  BY <1>1, LogInvariant, PTL

(* The PANICs of cache.c:204 and 254 are never reached: no sync outside an *)
(* operation, no operation ends during a commit, however many threads run. *)
THEOREM AssertionsHold == Spec => []NoAssertionPanic
<1>1. Init => NoAssertionPanic
  BY DEF Init, NoAssertionPanic
<1>2. ASSUME LogInv, NoAssertionPanic, [Next]_vars PROVE NoAssertionPanic'
  <2> USE <1>2 DEF NoAssertionPanic
  <2>1. ASSUME NEW t \in Thread, NEW b \in Block, cache_sync_panic(t, b)
        PROVE  NoAssertionPanic'
    <3>1. pc[t] = "op" /\ panic' = SyncPanic(t, b)
      BY <2>1 DEF cache_sync_panic
    <3>2. outstanding >= 1 /\ outstanding \in Int
      BY <3>1, OpRunning DEF LogInv, TypeOK
    <3>3. ~(outstanding < 1)
      BY <3>2
    <3> QED
      BY <3>1, <3>3 DEF SyncPanic
  <2>2. ASSUME NEW t \in Thread, cache_end_op(t) PROVE NoAssertionPanic'
    BY <2>2, OpRunning DEF cache_end_op, LogInv
  <2>3. CASE Crash
    BY <2>3 DEF Crash
  <2>4. CASE UNCHANGED panic
    BY <2>4
  <2>5. \/ \E t \in Thread : cache_end_op(t)
        \/ \E t \in Thread, b \in Block : cache_sync_panic(t, b)
        \/ Crash
        \/ UNCHANGED panic
    BY <1>2 DEF Next, vars, Step, Sync, Commit, cache_begin_op, cache_sync,
       cache_sync_null, cache_acquire, commit, write_log, write_header, install,
       install_trans, clear, clear_header, finish, return, recover_from_log,
       read_header, recover_install, recover_clear, log, device
  <2> QED
    BY <2>1, <2>2, <2>3, <2>4, <2>5
<1> QED
  BY <1>1, <1>2, LogInvariant, PTL DEF Spec

(***************************************************************************)
(* Refinement.                                                             *)
(***************************************************************************)
AbsOp == [t \in Thread |-> OpOf(t)]

(* The disk after recovery: the logged blocks over the others.             *)
RecoveredOverlay ==
  /\ Recovered \in [Block -> Data]
  /\ \A i \in 1..Len(diskHeader) : Recovered[diskHeader[i]] = logArea[i]
  /\ \A b \in Block : (\A i \in 1..Len(diskHeader) : diskHeader[i] # b)
                        => Recovered[b] = disk[b]

(* What recovery would leave on the disk, as a function of disk, log area  *)
(* and header on disk.                                                     *)
LEMMA RecoveredValue ==
  ASSUME TypeOK, HeadersFit PROVE RecoveredOverlay
<1> USE SizeAssumption DEF TypeOK, HeadersFit
<1>1. \A i \in 1..Len(diskHeader) : diskHeader[i] \in Block /\ i \in Slot
  BY DEF Slot
<1>2. ASSUME NEW i \in 1..Len(diskHeader)
      PROVE  (CHOOSE j \in 1..Len(diskHeader) : diskHeader[j] = diskHeader[i]) = i
  BY DEF Distinct
<1>3. ASSUME NEW i \in 1..Len(diskHeader)
      PROVE  Recovered[diskHeader[i]] = logArea[i]
  BY <1>1, <1>2 DEF Recovered
<1>4. ASSUME NEW b \in Block, \A i \in 1..Len(diskHeader) : diskHeader[i] # b
      PROVE  Recovered[b] = disk[b]
  BY <1>4 DEF Recovered
<1>5. ASSUME NEW b \in Block PROVE Recovered[b] \in Data
  BY <1>1, <1>3, <1>4
<1>6. Recovered = [b \in Block |-> Recovered[b]]
  BY DEF Recovered
<1> QED
  BY <1>3, <1>4, <1>5, <1>6 DEF RecoveredOverlay

(* The same in the next state.                                             *)
LEMMA RecoveredValueNext == (LogInv => RecoveredOverlay)'
<1>1. LogInv => RecoveredOverlay
  BY RecoveredValue DEF LogInv
<1> QED
  BY <1>1, PTL

(* A step that changes neither abstract variable is a stuttering step of   *)
(* AtomicDisk.                                                             *)
LEMMA Stutter ==
  ASSUME Recovered' = Recovered, Visible' = Visible, AbsOp' = AbsOp
  PROVE  [AD!Next]_(AD!vars)
BY DEF AD!vars, AbsOp

(* What recovery would leave depends on the device only.                   *)
LEMMA SameRecovered ==
  ASSUME UNCHANGED <<disk, logArea, diskHeader>> PROVE Recovered' = Recovered
BY DEF Recovered

(* What readers see depends on cache and disk only.                        *)
LEMMA SameVisible ==
  ASSUME UNCHANGED boot, Recovered' = Recovered,
         \A c \in Block : Load(c)' = Load(c)
  PROVE  Visible' = Visible
BY DEF Visible

(* The abstract places of the threads depend on pc only.                   *)
LEMMA SameOps == ASSUME UNCHANGED pc PROVE AbsOp' = AbsOp
BY DEF AbsOp, OpOf, Durable

(* cache_begin_op is a Begin of AtomicDisk, or a stuttering step while it  *)
(* has to wait.                                                            *)
LEMMA BeginStep ==
  ASSUME LogInv, NEW t \in Thread, cache_begin_op(t)
  PROVE  [AD!Next]_(AD!vars)
<1>1. /\ pc[t] \in {"out", "begin"}
      /\ UNCHANGED <<disk, logArea, diskHeader, cache, boot>>
  BY Zenon DEF cache_begin_op, device
<1>2. Recovered' = Recovered /\ Visible' = Visible
  BY <1>1, SameRecovered, SameVisible DEF Load
<1>3. CASE MustWait
  <2>1. pc' = [pc EXCEPT ![t] = "begin_wait"]
    BY <1>3, Zenon DEF cache_begin_op
  <2>2. AbsOp' = AbsOp
    BY <1>1, <2>1 DEF AbsOp, OpOf, Durable, LogInv, TypeOK
  <2> QED
    BY <1>2, <2>2, Stutter
<1>4. CASE ~MustWait
  <2>1. pc' = [pc EXCEPT ![t] = "op"]
    BY <1>4, Zenon DEF cache_begin_op
  <2>2. Durable' <=> Durable
    BY <1>1, <2>1 DEF Durable, LogInv, TypeOK
  <2>3. AbsOp[t] = "idle" /\ AbsOp' = [AbsOp EXCEPT ![t] = "running"]
    BY <1>1, <2>1, <2>2 DEF AbsOp, OpOf, LogInv, TypeOK
  <2>4. AD!Begin(t)
    BY <1>2, <2>3 DEF AD!Begin, AbsOp
  <2> QED
    BY <2>4 DEF AD!Next
<1> QED
  BY <1>3, <1>4

(* cache_sync with a context is a Write of AtomicDisk.                     *)
LEMMA SyncStep ==
  ASSUME LogInv, NEW t \in Thread, NEW b \in Block, NEW v \in Data,
         cache_sync(t, b, v)
  PROVE  [AD!Next]_(AD!vars)
<1>1. /\ pc[t] = "op" /\ boot = "up"
      /\ UNCHANGED <<disk, logArea, diskHeader, boot, pc>>
  BY Zenon DEF cache_sync, device, Running
<1>2. Recovered' = Recovered /\ AbsOp' = AbsOp /\ AbsOp[t] = "running"
  BY <1>1, SameRecovered, SameOps DEF AbsOp, OpOf
<1>3. Load(b)' = v /\ \A c \in Block \ {b} : Load(c)' = Load(c)
  BY SyncLoads
<1>4. Visible' = [Visible EXCEPT ![b] = v]
  BY <1>1, <1>3 DEF Visible
<1>5. AD!Write(t, b, v)
  BY <1>2, <1>4 DEF AD!Write, AbsOp
<1> QED
  BY <1>5 DEF AD!Next

(* A PANIC in cache_sync is a stuttering step.                             *)
LEMMA PanicStep ==
  ASSUME LogInv, NEW t \in Thread, NEW b \in Block, cache_sync_panic(t, b)
  PROVE  [AD!Next]_(AD!vars)
<1>1. UNCHANGED <<disk, logArea, diskHeader, cache, boot, pc>>
  BY Zenon DEF cache_sync_panic, device
<1> QED
  BY <1>1, Stutter, SameRecovered, SameVisible, SameOps DEF Load

(* cache_end_op is an End of AtomicDisk.                                   *)
LEMMA EndStep ==
  ASSUME LogInv, NEW t \in Thread, cache_end_op(t)
  PROVE  [AD!Next]_(AD!vars)
<1>1. pc[t] = "op" /\ UNCHANGED <<disk, logArea, diskHeader, cache, boot>>
  BY Zenon DEF cache_end_op, device
<1>2. Recovered' = Recovered /\ Visible' = Visible
  BY <1>1, SameRecovered, SameVisible DEF Load
<1>3. \A s \in Thread : pc[s] \notin Committer
  BY <1>1, NoCommitter
<1>4. /\ pc'[t] \in {"commit", "end_wait"}
      /\ \A s \in Thread \ {t} :
            \/ pc'[s] = pc[s]
            \/ pc[s] = "begin_wait" /\ pc'[s] = "begin"
  BY <1>1 DEF cache_end_op, post_all_sem, Wake, LogInv, TypeOK
<1>5. ~Durable /\ ~Durable'
  BY <1>3, <1>4 DEF Durable, Committer
<1>6. /\ OpOf(t) = "running" /\ OpOf(t)' = "ended"
      /\ \A s \in Thread \ {t} : OpOf(s)' = OpOf(s)
  BY <1>1, <1>4, <1>5 DEF OpOf
<1>7. AD!End(t)
  BY <1>2, <1>6 DEF AD!End
<1> QED
  BY <1>7 DEF AD!Next

(* The return of end_op is a Return of AtomicDisk.                         *)
LEMMA ReturnStep ==
  ASSUME LogInv, NEW t \in Thread, return(t)
  PROVE  [AD!Next]_(AD!vars)
<1>1. /\ pc[t] = "end_done" /\ pc' = [pc EXCEPT ![t] = "out"]
      /\ UNCHANGED <<disk, logArea, diskHeader, cache, boot>>
  BY Zenon DEF return, device
<1>2. Recovered' = Recovered /\ Visible' = Visible
  BY <1>1, SameRecovered, SameVisible DEF Load
<1>3. Durable' <=> Durable
  BY <1>1 DEF Durable, LogInv, TypeOK
<1>4. /\ OpOf(t) = "durable" /\ OpOf(t)' = "idle"
      /\ \A s \in Thread \ {t} : OpOf(s)' = OpOf(s)
  BY <1>1, <1>3 DEF OpOf, LogInv, TypeOK
<1>5. AD!Return(t)
  BY <1>2, <1>4 DEF AD!Return
<1> QED
  BY <1>5 DEF AD!Next

(***************************************************************************)
(* The commit.                                                             *)
(***************************************************************************)

(* The step at which the group becomes durable: the disk that recovery     *)
(* would leave turns into what readers see.                                *)
LEMMA CommitPoint ==
  ASSUME LogInv, NEW t \in Thread, pc[t] \in {"commit", "write_log"},
         \/ pc' = [pc EXCEPT ![t] = "install"]
         \/ pc' = [pc EXCEPT ![t] = "finish"],
         Recovered' = Visible, Visible' = Visible
  PROVE  [AD!Next]_(AD!vars)
<1>1. \A s \in Thread : pc[s] # "op"
  BY OpRunning DEF LogInv, OneCommitter, Committer
<1>2. \A s \in Thread \ {t} : pc[s] \notin Committer /\ pc'[s] = pc[s]
  BY DEF LogInv, OneCommitter, Committer, TypeOK
<1>3. ~Durable /\ Durable'
  BY <1>2 DEF Durable, Committer, LogInv, TypeOK
<1>4. \A s \in Thread : /\ OpOf(s) # "running"
                        /\ OpOf(s)' = IF OpOf(s) = "ended" THEN "durable"
                                                          ELSE OpOf(s)
  BY <1>1, <1>2, <1>3 DEF OpOf, Committer, LogInv, TypeOK, PC
<1>5. AD!Commit
  BY <1>4 DEF AD!Commit
<1> QED
  BY <1>5 DEF AD!Next

(* The beginning of commit is a Commit of AtomicDisk if nothing was        *)
(* logged, and a stuttering step otherwise.                                *)
LEMMA CommitStep ==
  ASSUME LogInv, NEW t \in Thread, commit(t)
  PROVE  [AD!Next]_(AD!vars)
<1>1. /\ pc[t] = "commit" /\ boot = "up"
      /\ UNCHANGED <<disk, logArea, diskHeader, cache, boot>>
      /\ pc' = [pc EXCEPT ![t] = IF Len(header) > 0 THEN "write_log"
                                                   ELSE "finish"]
  BY Zenon DEF commit, device, Running
<1>2. Recovered' = Recovered /\ Visible' = Visible
  BY <1>1, SameRecovered, SameVisible DEF Load
<1>3. CASE Len(header) > 0
  <2>1. Durable' <=> Durable
    BY <1>1, <1>3 DEF Durable, LogInv, TypeOK
  <2>2. AbsOp' = AbsOp
    BY <1>1, <1>3, <2>1 DEF AbsOp, OpOf, LogInv, TypeOK
  <2> QED
    BY <1>2, <2>2, Stutter
<1>4. CASE ~(Len(header) > 0)
  <2>1. diskHeader = <<>>
    BY <1>1 DEF LogInv, HeaderOnDisk, OneCommitter, Committer
  <2>2. Logged = {}
    BY <1>4 DEF Logged, LogInv, TypeOK
  <2>3. \A b \in Block : Load(b) = disk[b] /\ Recovered[b] = disk[b]
    BY <2>1, <2>2 DEF Load, Recovered, LogInv, DirtyIsPinned
  <2>4. Recovered = Visible
    BY <1>1, <2>3 DEF Recovered, Visible
  <2> QED
    BY <1>1, <1>2, <1>4, <2>4, CommitPoint
<1> QED
  BY <1>3, <1>4

(* Writing a block to the log area changes nothing that recovery would     *)
(* leave.                                                                  *)
LEMMA WriteLogStep ==
  ASSUME LogInv, NEW t \in Thread, write_log(t)
  PROVE  [AD!Next]_(AD!vars)
<1>1. /\ pc[t] = "write_log" /\ boot = "up"
      /\ UNCHANGED <<disk, diskHeader, boot, pc>>
  BY Zenon DEF write_log, Running
<1>2. diskHeader = <<>>
  BY <1>1 DEF LogInv, HeaderOnDisk, OneCommitter, Committer
<1>3. Recovered' = Recovered
  BY <1>1, <1>2 DEF Recovered
<1>4. Visible' = Visible
  BY <1>1, <1>3, SameVisible, WriteLogLoads
<1> QED
  BY <1>1, <1>3, <1>4, Stutter, SameOps

(* Writing the header is the Commit of AtomicDisk: from here on the group  *)
(* is durable.                                                             *)
LEMMA WriteHeaderStep ==
  ASSUME LogInv, LogInv', NEW t \in Thread, write_header(t)
  PROVE  [AD!Next]_(AD!vars)
<1>1. /\ pc[t] = "write_log" /\ boot = "up" /\ diskHeader' = header
      /\ pc' = [pc EXCEPT ![t] = "install"] /\ tail = Len(header)
      /\ UNCHANGED <<disk, logArea, header, cache, boot>>
  BY Zenon DEF write_header, Running
<1>2. \A i \in 1..Len(header) : logArea[i] = Load(header[i])
  BY <1>1 DEF LogInv, CopiesAgree
<1>3. Visible' = Visible
  BY <1>1 DEF Visible, Load
<1>4. /\ Recovered' \in [Block -> Data]
      /\ \A i \in 1..Len(header) : Recovered'[header[i]] = logArea[i]
      /\ \A b \in Block : (\A i \in 1..Len(header) : header[i] # b)
                            => Recovered'[b] = disk[b]
  BY <1>1, RecoveredValueNext DEF RecoveredOverlay
<1>5. ASSUME NEW b \in Block PROVE Recovered'[b] = Load(b)
  <2>1. CASE b \in Logged
    BY <1>2, <1>4, <2>1 DEF Logged
  <2>2. CASE b \notin Logged
    BY <1>4, <2>2 DEF Logged, Load, LogInv, DirtyIsPinned
  <2> QED
    BY <2>1, <2>2
<1>6. Recovered' = Visible
  BY <1>1, <1>4, <1>5 DEF Visible
<1> QED
  BY <1>1, <1>3, <1>6, CommitPoint

(* Installing a block that the on-disk header names changes nothing.       *)
LEMMA InstallStep ==
  ASSUME LogInv, LogInv', install_trans,
         boot = "install" \/ \E t \in Thread : pc[t] = "install"
  PROVE  [AD!Next]_(AD!vars)
<1>1. header = diskHeader /\ UNCHANGED <<logArea, diskHeader, boot, pc>>
  BY DEF install_trans, LogInv, HeaderOnDisk
<1>2. PICK b : b = header[tail + 1]
  OBVIOUS
<1>3. /\ tail + 1 \in 1..Len(header) /\ b \in Block
      /\ disk' = [disk EXCEPT ![b] = logArea[tail + 1]]
      /\ Load(b)' = logArea[tail + 1]
      /\ \A c \in Block \ {b} : Load(c)' = Load(c)
  BY <1>2, InstallLoads
<1>4. RecoveredOverlay /\ RecoveredOverlay'
  BY RecoveredValue, RecoveredValueNext DEF LogInv
<1>5. ASSUME NEW c \in Block PROVE Recovered'[c] = Recovered[c]
  <2>1. CASE \E i \in 1..Len(diskHeader) : diskHeader[i] = c
    BY <1>1, <1>4, <2>1 DEF RecoveredOverlay
  <2>2. CASE \A i \in 1..Len(diskHeader) : diskHeader[i] # c
    <3>1. c # b
      BY <1>1, <1>2, <1>3, <2>2
    <3>2. disk'[c] = disk[c]
      BY <1>3, <3>1 DEF LogInv, TypeOK
    <3> QED
      BY <1>1, <1>4, <2>2, <3>2 DEF RecoveredOverlay
  <2> QED
    BY <2>1, <2>2
<1>6. Recovered' = Recovered
  BY <1>4, <1>5 DEF RecoveredOverlay
<1>7. Visible' = Visible
  <2>1. CASE boot = "up"
    <3>1. logArea[tail + 1] = Load(b)
      BY <1>2, <1>3, <2>1 DEF LogInv, CopiesAgree
    <3> QED
      BY <1>1, <1>3, <1>6, <3>1, SameVisible
  <2>2. CASE boot # "up"
    BY <1>1, <1>6, <2>2 DEF Visible
  <2> QED
    BY <2>1, <2>2
<1> QED
  BY <1>1, <1>6, <1>7, Stutter, SameOps

(* When everything is installed, the log is no longer needed.              *)
LEMMA ClearedRecovered ==
  ASSUME LogInv, LogInv', clear_header,
         boot = "install" \/ \E t \in Thread : pc[t] = "install"
  PROVE  /\ Recovered' = Recovered /\ Recovered = disk
         /\ \A c \in Block : Load(c)' = Load(c) /\ Load(c) = disk[c]
<1>1. /\ header = diskHeader /\ tail = Len(header) /\ diskHeader' = <<>>
      /\ UNCHANGED <<disk, logArea, cache>>
  BY DEF clear_header, LogInv, HeaderOnDisk
<1>2. \A i \in 1..Len(header) : disk[header[i]] = logArea[i]
  BY <1>1 DEF LogInv, CopiesAgree
<1>3. RecoveredOverlay /\ RecoveredOverlay'
  BY RecoveredValue, RecoveredValueNext DEF LogInv
<1>4. ASSUME NEW c \in Block PROVE Recovered[c] = disk[c] /\ Recovered'[c] = disk[c]
  BY <1>1, <1>2, <1>3 DEF RecoveredOverlay
<1>5. \A c \in Block : Load(c)' = Load(c) /\ Load(c) = disk[c]
  BY <1>1, InstalledIsClean DEF Load
<1> QED
  BY <1>3, <1>4, <1>5 DEF RecoveredOverlay, LogInv, TypeOK

(* Clearing the header on disk is a stuttering step.                       *)
LEMMA ClearStep ==
  ASSUME LogInv, LogInv', NEW t \in Thread, clear(t)
  PROVE  [AD!Next]_(AD!vars)
<1>1. /\ pc[t] = "install" /\ pc' = [pc EXCEPT ![t] = "finish"]
      /\ clear_header /\ UNCHANGED boot
  BY Zenon DEF clear
<1>2. Recovered' = Recovered /\ Visible' = Visible
  BY <1>1, ClearedRecovered, SameVisible
<1>3. Durable /\ Durable'
  BY <1>1 DEF Durable, LogInv, TypeOK
<1>4. AbsOp' = AbsOp
  BY <1>1, <1>3 DEF AbsOp, OpOf, LogInv, TypeOK
<1> QED
  BY <1>2, <1>4, Stutter

(* The end of the commit is a Return of the committing thread; the others  *)
(* return on their own.                                                    *)
LEMMA FinishStep ==
  ASSUME LogInv, NEW t \in Thread, finish(t)
  PROVE  [AD!Next]_(AD!vars)
<1>1. pc[t] = "finish" /\ UNCHANGED <<disk, logArea, diskHeader, cache, boot>>
  BY Zenon DEF finish, device
<1>2. Recovered' = Recovered /\ Visible' = Visible
  BY <1>1, SameRecovered, SameVisible DEF Load
<1>3. \A s \in Thread \ {t} : pc[s] \notin Committer
  BY <1>1 DEF LogInv, OneCommitter, Committer
<1>4. /\ pc'[t] = "out"
      /\ \A s \in Thread \ {t} :
            \/ pc[s] \notin {"begin_wait", "end_wait"} /\ pc'[s] = pc[s]
            \/ pc[s] = "begin_wait" /\ pc'[s] = "begin"
            \/ pc[s] = "end_wait" /\ pc'[s] = "end_done"
  BY <1>1
     DEF finish, post_all_sem, post_all_outstandingsem, Wake, LogInv, TypeOK
<1>5. Durable /\ ~Durable'
  BY <1>1, <1>3, <1>4 DEF Durable, Committer
<1>6. /\ OpOf(t) = "durable" /\ OpOf(t)' = "idle"
      /\ \A s \in Thread \ {t} : OpOf(s)' = OpOf(s)
  BY <1>1, <1>4, <1>5 DEF OpOf
<1>7. AD!Return(t)
  BY <1>2, <1>6 DEF AD!Return
<1> QED
  BY <1>7 DEF AD!Next

(***************************************************************************)
(* Readers, writes without a context, the crash and the recovery.          *)
(***************************************************************************)
(* cache_sync without a context is a WriteThrough of AtomicDisk.           *)
LEMMA SyncNullStep ==
  ASSUME LogInv, LogInv', NEW b \in Block, NEW v \in Data, cache_sync_null(b, v)
  PROVE  [AD!Next]_(AD!vars)
<1>1. /\ boot = "up" /\ UNCHANGED <<logArea, diskHeader, pc, boot>>
      /\ disk' = [disk EXCEPT ![b] = v]
      /\ ~(committing /\ b \in Logged)
  BY Zenon DEF cache_sync_null, Running
<1>2. \A i \in 1..Len(diskHeader) : diskHeader[i] # b
  <2>1. CASE \E t \in Thread : pc[t] = "install"
    BY <1>1, <2>1 DEF LogInv, OneCommitter, Committer, HeaderOnDisk, Logged
  <2>2. CASE \A t \in Thread : pc[t] # "install"
    BY <1>1, <2>2 DEF LogInv, HeaderOnDisk
  <2> QED
    BY <2>1, <2>2
<1>3. RecoveredOverlay /\ RecoveredOverlay'
  BY RecoveredValue, RecoveredValueNext DEF LogInv
<1>4. \A c \in Block : disk'[c] = IF c = b THEN v ELSE disk[c]
  BY <1>1 DEF LogInv, TypeOK
<1>5. \A c \in Block : Recovered'[c] = IF c = b THEN v ELSE Recovered[c]
  BY <1>1, <1>2, <1>3, <1>4 DEF RecoveredOverlay
<1>6. Recovered' = [Recovered EXCEPT ![b] = v]
  BY <1>3, <1>5 DEF RecoveredOverlay
<1>7. Load(b)' = v /\ \A c \in Block \ {b} : Load(c)' = Load(c)
  BY SyncNullLoads
<1>8. Visible' = [Visible EXCEPT ![b] = v]
  BY <1>1, <1>7 DEF Visible
<1>9. AD!WriteThrough(b, v)
  BY <1>1, <1>6, <1>8, SameOps DEF AD!WriteThrough, AbsOp
<1> QED
  BY <1>9 DEF AD!Next

(* cache_acquire, with its evictions, is a stuttering step.                *)
LEMMA AcquireStep ==
  ASSUME LogInv, NEW b \in Block, cache_acquire(b)
  PROVE  [AD!Next]_(AD!vars)
<1>1. UNCHANGED <<disk, logArea, diskHeader, boot, pc>>
  BY Zenon DEF cache_acquire, device
<1> QED
  BY <1>1, AcquireLoads, Stutter, SameRecovered, SameVisible, SameOps

(* A crash of the machine is a Crash of AtomicDisk.                        *)
LEMMA CrashStep == ASSUME LogInv, Crash PROVE [AD!Next]_(AD!vars)
<1>1. /\ UNCHANGED <<disk, logArea, diskHeader>> /\ boot' = "read_header"
      /\ pc' = [t \in Thread |-> "out"]
  BY Zenon DEF Crash, device
<1>2. Recovered' = Recovered /\ Visible' = Recovered
  BY <1>1, SameRecovered DEF Visible
<1>3. \A t \in Thread : OpOf(t)' = "idle"
  BY <1>1 DEF OpOf
<1>4. AD!Crash
  BY <1>2, <1>3 DEF AD!Crash
<1> QED
  BY <1>4 DEF AD!Next

(* Every step of recover_from_log is a stuttering step.                    *)
LEMMA RecoveryStep ==
  ASSUME LogInv, LogInv', recover_from_log PROVE [AD!Next]_(AD!vars)
<1>1. CASE read_header
  <2>1. /\ UNCHANGED <<disk, logArea, diskHeader, pc>>
        /\ boot = "read_header" /\ boot' = "install"
    BY <1>1 DEF read_header, device
  <2>2. Recovered' = Recovered /\ Visible' = Visible
    BY <2>1, SameRecovered DEF Visible
  <2> QED
    BY <2>1, <2>2, Stutter, SameOps
<1>2. CASE recover_install
  BY <1>2, InstallStep DEF recover_install
<1>3. CASE recover_clear
  <2>1. boot = "install" /\ boot' = "up" /\ clear_header /\ UNCHANGED pc
    BY <1>3 DEF recover_clear
  <2>2. /\ Recovered' = Recovered /\ Recovered = disk
        /\ \A c \in Block : Load(c)' = disk[c]
    BY <2>1, ClearedRecovered
  <2>3. Visible' = Visible
    BY <2>1, <2>2 DEF Visible, LogInv, TypeOK
  <2> QED
    BY <2>1, <2>2, <2>3, Stutter, SameOps
<1> QED
  BY <1>1, <1>2, <1>3 DEF recover_from_log

(* The write-ahead log implements AtomicDisk, for any number of threads,   *)
(* blocks and log slots: groups of operations are atomic and durable       *)
(* across crashes, and end_op returns only from a durable group.           *)
THEOREM Refinement == Spec => RefinesAtomicDisk
<1>1. Init => AD!Init
  <2> SUFFICES ASSUME Init PROVE AD!Init
    OBVIOUS
  <2>1. LogInv
    BY InitLogInv
  <2>2. pc = [t \in Thread |-> "out"] /\ boot = "read_header"
    BY Zenon DEF Init
  <2>3. Recovered \in [Block -> Data] /\ Visible = Recovered
    BY <2>1, <2>2, RecoveredValue DEF LogInv, RecoveredOverlay, Visible
  <2>4. \A t \in Thread : OpOf(t) = "idle"
    BY <2>2 DEF OpOf
  <2> QED
    BY <2>3, <2>4 DEF AD!Init
<1>2. LogInv /\ LogInv' /\ [Next]_vars => [AD!Next]_(AD!vars)
  <2> SUFFICES ASSUME LogInv, LogInv', [Next]_vars PROVE [AD!Next]_(AD!vars)
    OBVIOUS
  <2>1. ASSUME NEW t \in Thread, Step(t) PROVE [AD!Next]_(AD!vars)
    BY <2>1, BeginStep, SyncStep, PanicStep, EndStep, ReturnStep, CommitStep,
       WriteLogStep, WriteHeaderStep, InstallStep, ClearStep, FinishStep
       DEF Step, Sync, Commit, install
  <2>2. CASE UNCHANGED vars
    <3>1. UNCHANGED <<disk, logArea, diskHeader, cache, boot, pc>>
      BY <2>2 DEF vars
    <3> QED
      BY <3>1, Stutter, SameRecovered, SameVisible, SameOps DEF Load
  <2> QED
    BY <2>1, <2>2, SyncNullStep, AcquireStep, CrashStep, RecoveryStep DEF Next
<1> QED
  BY <1>1, <1>2, LogInvariant, PTL DEF Spec, RefinesAtomicDisk, AD!Spec

-----------------------------------------------------------------------------
(***************************************************************************)
(* The reserved log blocks.                                                *)
(***************************************************************************)
(* The blocks that thread t has reserved if it may still log n of them.    *)
Share(t, n) == {t} \X (1..n)

(* A share of n blocks has n elements.                                     *)
LEMMA ShareSize ==
  ASSUME NEW t, NEW n \in Nat
  PROVE  IsFiniteSet(Share(t, n)) /\ Cardinality(Share(t, n)) = n
<1>1. IsFiniteSet({t}) /\ Cardinality({t}) = 1
  BY FS_Singleton
<1>2. IsFiniteSet(1..n) /\ Cardinality(1..n) = n
  BY FS_Interval
<1>3. /\ IsFiniteSet(Share(t, n))
      /\ Cardinality(Share(t, n)) = Cardinality({t}) * Cardinality(1..n)
  BY <1>1, <1>2, FS_Product, Zenon DEF Share
<1> QED
  BY <1>1, <1>2, <1>3

(* Finitely many log blocks are reserved.                                  *)
LEMMA ReservedFinite == IsFiniteSet(Reserved) /\ Cardinality(Reserved) \in Nat
<1>1. IsFiniteSet(1..OP_MAX_NUM_BLOCKS)
  BY SizeAssumption, FS_Interval
<1>2. IsFiniteSet(Thread \X (1..OP_MAX_NUM_BLOCKS))
  BY <1>1, ThreadAssumption, FS_Product
<1> QED
  BY <1>2, FS_Subset, FS_CardinalityType DEF Reserved

(* Taking a disjoint share in or out changes the count by its size.        *)
LEMMA DisjointUnion ==
  ASSUME NEW S, NEW T, IsFiniteSet(S), IsFiniteSet(T), S \cap T = {}
  PROVE  Cardinality(S \cup T) = Cardinality(S) + Cardinality(T)
<1>1. Cardinality(S \cup T) =
        Cardinality(S) + Cardinality(T) - Cardinality(S \cap T)
  BY FS_Union, Zenon
<1>2. Cardinality(S \cap T) = 0
  BY FS_EmptySet, Zenon
<1>3. Cardinality(S) \in Nat /\ Cardinality(T) \in Nat
  BY FS_CardinalityType
<1> QED
  BY <1>1, <1>2, <1>3

(* A step that neither begins, ends nor logs leaves the reservations.      *)
LEMMA SameReserved ==
  ASSUME UNCHANGED rm, \A t \in Thread : pc'[t] = "op" <=> pc[t] = "op"
  PROVE  Reserved' = Reserved
BY DEF Reserved

(* begin_op reserves OP_MAX_NUM_BLOCKS.                                    *)
LEMMA BeginReserves ==
  ASSUME LogInv, NEW t \in Thread, pc[t] # "op",
         pc' = [pc EXCEPT ![t] = "op"],
         rm' = [rm EXCEPT ![t] = OP_MAX_NUM_BLOCKS]
  PROVE  Cardinality(Reserved') = Cardinality(Reserved) + OP_MAX_NUM_BLOCKS
<1> USE SizeAssumption
<1>1. Reserved' = Reserved \cup Share(t, OP_MAX_NUM_BLOCKS)
  BY DEF Reserved, Share, LogInv, TypeOK
<1>2. Reserved \cap Share(t, OP_MAX_NUM_BLOCKS) = {}
  BY DEF Reserved, Share
<1> QED
  BY <1>1, <1>2, ReservedFinite, ShareSize, DisjointUnion

(* Logging a new block uses one reserved block.                            *)
LEMMA LogBlockUses ==
  ASSUME LogInv, NEW t \in Thread, pc[t] = "op", rm[t] # 0, UNCHANGED pc,
         rm' = [rm EXCEPT ![t] = @ - 1]
  PROVE  Cardinality(Reserved') = Cardinality(Reserved) - 1
<1>1. rm[t] \in 1..OP_MAX_NUM_BLOCKS
  BY SizeAssumption DEF LogInv, TypeOK
<1>2. <<t, rm[t]>> \in Reserved
  BY <1>1 DEF Reserved
<1>3. Reserved' = Reserved \ {<<t, rm[t]>>}
  BY <1>1, SizeAssumption DEF Reserved, LogInv, TypeOK
<1> QED
  BY <1>2, <1>3, ReservedFinite, FS_RemoveElement

(* end_op gives back what the operation has not used.                      *)
LEMMA EndGivesBack ==
  ASSUME LogInv, NEW t \in Thread, pc[t] = "op", UNCHANGED rm,
         \A s \in Thread : pc'[s] = "op" <=> pc[s] = "op" /\ s # t
  PROVE  Cardinality(Reserved') = Cardinality(Reserved) - rm[t]
<1>1. rm[t] \in 0..OP_MAX_NUM_BLOCKS
  BY DEF LogInv, TypeOK
<1>2. Reserved = Reserved' \cup Share(t, rm[t])
  BY <1>1, SizeAssumption DEF Reserved, Share
<1>3. Reserved' \cap Share(t, rm[t]) = {}
  BY DEF Reserved, Share
<1>4. IsFiniteSet(Reserved') /\ Cardinality(Reserved') \in Nat
  BY <1>2, ReservedFinite, FS_Subset, FS_CardinalityType
<1>5. IsFiniteSet(Share(t, rm[t])) /\ Cardinality(Share(t, rm[t])) = rm[t]
  BY <1>1, ShareSize, SizeAssumption
<1>6. Cardinality(Reserved) = Cardinality(Reserved') + rm[t]
  BY <1>2, <1>3, <1>4, <1>5, DisjointUnion
<1> QED
  BY <1>1, <1>4, <1>6, SizeAssumption
(***************************************************************************)
(* SpaceInv.                                                               *)
(***************************************************************************)
(* What the steps outside of begin_op, sync and end_op have in common: the *)
(* reservations stay, and the header changes only when no operation runs.  *)
SpaceKept ==
  /\ UNCHANGED <<rm, mu, wrote, panic>>
  /\ \A t \in Thread : pc'[t] = "op" <=> pc[t] = "op"
  /\ UNCHANGED header \/ \A t \in Thread : pc[t] # "op"

(* Every step is one of begin_op, sync, end_op, a crash, or keeps space.   *)
LEMMA StepKinds ==
  ASSUME LogInv, [Next]_vars
  PROVE  \/ \E t \in Thread : cache_begin_op(t) \/ cache_end_op(t)
         \/ \E t \in Thread, b \in Block : cache_sync_panic(t, b)
         \/ \E t \in Thread, b \in Block, v \in Data : cache_sync(t, b, v)
         \/ Crash
         \/ SpaceKept
<1> USE DEF SpaceKept, LogInv, TypeOK
<1>1. ASSUME UNCHANGED <<rm, mu, wrote, panic, pc, header>> PROVE SpaceKept
  BY <1>1
<1>2. ASSUME NEW t \in Thread, Commit(t) PROVE SpaceKept
  <2>1. CASE commit(t)
    BY <2>1 DEF commit, log
  <2>2. CASE write_log(t)
    BY <1>1, <2>2 DEF write_log, log
  <2>3. CASE write_header(t)
    BY <2>3 DEF write_header, log
  <2>4. CASE install(t)
    BY <1>1, <2>4 DEF install, install_trans, log
  <2>5. CASE clear(t)
    <3>1. pc[t] = "install" /\ UNCHANGED <<rm, mu, wrote, panic>>
          /\ pc' = [pc EXCEPT ![t] = "finish"]
      BY <2>5 DEF clear, clear_header, log
    <3>2. \A s \in Thread : pc[s] # "op"
      BY <3>1, NoCommitter DEF Committer
    <3> QED
      BY <3>1, <3>2
  <2>6. CASE finish(t)
    BY <2>6 DEF finish, post_all_sem, post_all_outstandingsem, Wake
  <2> QED
    BY <1>2, <2>1, <2>2, <2>3, <2>4, <2>5, <2>6 DEF Commit
<1>3. ASSUME NEW t \in Thread, return(t) PROVE SpaceKept
  BY <1>3 DEF return, log
<1>4. CASE recover_from_log
  <2>1. boot # "up" /\ UNCHANGED <<rm, mu, wrote, panic, pc>>
    BY <1>4 DEF recover_from_log, read_header, recover_install, recover_clear,
                install_trans, clear_header, log
  <2> QED
    BY <2>1 DEF OneCommitter
<1>5. ASSUME NEW b \in Block, cache_acquire(b) PROVE SpaceKept
  BY <1>1, <1>5 DEF cache_acquire, log
<1>6. ASSUME NEW b \in Block, NEW v \in Data, cache_sync_null(b, v)
      PROVE  SpaceKept
  BY <1>1, <1>6 DEF cache_sync_null, log
<1>7. CASE UNCHANGED vars
  BY <1>1, <1>7 DEF vars
<1> QED
  BY <1>2, <1>3, <1>4, <1>5, <1>6, <1>7 DEF Next, Step, Sync

(* The header of a new block contains what the old one did, and it.        *)
LEMMA SyncLogged ==
  ASSUME LogInv, NEW b \in Block, header' = Append(header, b)
  PROVE  Logged' = Logged \cup {b} /\ Len(header') = Len(header) + 1
BY LoggedAppend DEF LogInv, TypeOK

(* mu is the number of reserved blocks, and there is room for them.        *)
LEMMA SpaceReservedStep ==
  ASSUME LogInv, LogInv', SpaceInv, [Next]_vars PROVE SpaceReserved'
<1> USE SizeAssumption DEF SpaceInv, SpaceReserved
<1>0. /\ Len(header) \in Nat /\ Len(header') \in Nat /\ Len(header') <= LogMax
      /\ mu \in Int
  BY DEF LogInv, TypeOK, HeadersFit
<1>1. ASSUME NEW t \in Thread, cache_begin_op(t) PROVE SpaceReserved'
  <2>1. pc[t] # "op" /\ UNCHANGED <<header, panic>>
    BY <1>1 DEF cache_begin_op
  <2>2. CASE MustWait
    <3>1. pc' = [pc EXCEPT ![t] = "begin_wait"] /\ UNCHANGED <<rm, mu>>
      BY <1>1, <2>2 DEF cache_begin_op
    <3>2. Reserved' = Reserved
      BY <2>1, <3>1, SameReserved DEF LogInv, TypeOK
    <3> QED
      BY <2>1, <3>1, <3>2
  <2>3. CASE ~MustWait
    <3>1. /\ pc' = [pc EXCEPT ![t] = "op"]
          /\ rm' = [rm EXCEPT ![t] = OP_MAX_NUM_BLOCKS]
          /\ mu' = mu + OP_MAX_NUM_BLOCKS
          /\ ~OutOfSpace
      BY <1>1, <2>3 DEF cache_begin_op, MustWait
    <3>2. Cardinality(Reserved') = Cardinality(Reserved) + OP_MAX_NUM_BLOCKS
      BY <2>1, <3>1, BeginReserves
    <3> QED
      BY <1>0, <2>1, <3>1, <3>2, ReservedFinite DEF OutOfSpace
  <2> QED
    BY <2>2, <2>3
<1>2. ASSUME NEW t \in Thread, cache_end_op(t) PROVE SpaceReserved'
  <2>1. pc[t] = "op" /\ mu' = mu - rm[t] /\ UNCHANGED <<header, rm>>
    BY <1>2 DEF cache_end_op
  <2>2. \A s \in Thread : pc'[s] = "op" <=> pc[s] = "op" /\ s # t
    BY <1>2 DEF cache_end_op, post_all_sem, Wake, LogInv, TypeOK
  <2>3. Cardinality(Reserved') = Cardinality(Reserved) - rm[t]
    BY <2>1, <2>2, EndGivesBack
  <2>4. panic = "no" /\ rm[t] \in Nat
    BY <1>2 DEF cache_end_op, Running, LogInv, TypeOK
  <2> QED
    BY <1>0, <2>1, <2>3, <2>4, ReservedFinite
<1>3. ASSUME NEW t \in Thread, NEW b \in Block, cache_sync_panic(t, b)
      PROVE  SpaceReserved'
  BY <1>3 DEF cache_sync_panic
<1>4. ASSUME NEW t \in Thread, NEW b \in Block, NEW v \in Data,
             cache_sync(t, b, v)
      PROVE  SpaceReserved'
  <2>1. pc[t] = "op" /\ UNCHANGED <<pc, panic>>
    BY <1>4 DEF cache_sync
  <2>2. CASE b \in Logged
    <3>1. UNCHANGED <<rm, mu, header>>
      BY <1>4, <2>2 DEF cache_sync
    <3> QED
      BY <2>1, <3>1, SameReserved
  <2>3. CASE b \notin Logged
    <3>1. /\ rm[t] # 0 /\ header' = Append(header, b) /\ mu' = mu - 1
          /\ rm' = [rm EXCEPT ![t] = @ - 1]
      BY <1>4, <2>3 DEF cache_sync, SyncPanic, log_block
    <3>2. Cardinality(Reserved') = Cardinality(Reserved) - 1
      BY <2>1, <3>1, LogBlockUses
    <3>3. Len(header') = Len(header) + 1
      BY <3>1, SyncLogged
    <3> QED
      BY <1>0, <2>1, <3>1, <3>2, <3>3, ReservedFinite
  <2> QED
    BY <2>2, <2>3
<1>5. CASE Crash
  <2>1. mu' = 0 /\ pc' = [t \in Thread |-> "out"]
    BY <1>5, Zenon DEF Crash
  <2>2. Reserved' = {}
    BY <2>1 DEF Reserved
  <2> QED
    BY <1>0, <2>1, <2>2, FS_EmptySet
<1>6. CASE SpaceKept
  <2>1. Reserved' = Reserved /\ UNCHANGED <<mu, panic>>
    BY <1>6, SameReserved DEF SpaceKept
  <2>2. CASE UNCHANGED header
    BY <2>1, <2>2
  <2>3. CASE \A t \in Thread : pc[t] # "op"
    <3>1. Reserved = {}
      BY <2>3 DEF Reserved
    <3> QED
      BY <1>0, <2>1, <3>1, FS_EmptySet
  <2> QED
    BY <1>6, <2>2, <2>3 DEF SpaceKept
<1> QED
  BY <1>1, <1>2, <1>3, <1>4, <1>5, <1>6, StepKinds

(* A running operation has written finitely many blocks: they are in the   *)
(* header.                                                                 *)
LEMMA WroteFinite ==
  ASSUME LogInv, QuotaUsed, NEW t \in Thread, pc[t] = "op", panic = "no"
  PROVE  IsFiniteSet(wrote[t]) /\ Cardinality(wrote[t]) \in Nat
<1>1. wrote[t] \subseteq Logged
  BY DEF QuotaUsed
<1>2. IsFiniteSet(1..Len(header)) /\ Len(header) \in Nat
  BY FS_Interval DEF LogInv, TypeOK
<1>3. IsFiniteSet(Logged)
  <2>1. header \in Surjection(1..Len(header), Logged)
    BY DEF Surjection, Logged, LogInv, TypeOK
  <2> QED
    BY <1>2, <2>1, FS_Surjection
<1> QED
  BY <1>1, <1>3, FS_Subset, FS_CardinalityType

(* What an operation has used of its quota it has written, and the blocks  *)
(* stay in the header: it is cleared only when no operation is running.    *)
LEMMA QuotaUsedStep ==
  ASSUME LogInv, LogInv', SpaceInv, [Next]_vars PROVE QuotaUsed'
<1> SUFFICES ASSUME NEW s \in Thread, panic' = "no", pc'[s] = "op"
             PROVE  /\ wrote'[s] \subseteq Logged'
                    /\ rm'[s] + Cardinality(wrote'[s]) >= OP_MAX_NUM_BLOCKS
  BY DEF QuotaUsed
<1> DEFINE Goal == /\ wrote'[s] \subseteq Logged'
                   /\ rm'[s] + Cardinality(wrote'[s]) >= OP_MAX_NUM_BLOCKS
<1> USE SizeAssumption DEF SpaceInv
<1>0. ASSUME pc[s] = "op", panic = "no"
      PROVE  /\ wrote[s] \subseteq Logged
             /\ rm[s] + Cardinality(wrote[s]) >= OP_MAX_NUM_BLOCKS
             /\ IsFiniteSet(wrote[s]) /\ Cardinality(wrote[s]) \in Nat
             /\ rm[s] \in Nat
  BY <1>0, WroteFinite DEF QuotaUsed, LogInv, TypeOK
<1>1. ASSUME NEW t \in Thread, cache_begin_op(t) PROVE Goal
  <2>1. Logged' = Logged /\ panic = "no"
    BY <1>1 DEF cache_begin_op, Running, Logged
  <2>2. CASE pc[s] = "op"
    <3>1. s # t
      BY <1>1, <2>2 DEF cache_begin_op
    <3>2. rm'[s] = rm[s] /\ wrote'[s] = wrote[s]
      BY <1>1, <3>1 DEF cache_begin_op, LogInv, TypeOK
    <3> QED
      BY <1>0, <2>1, <2>2, <3>2
  <2>3. CASE pc[s] # "op"
    <3>1. s = t /\ ~MustWait
      BY <1>1, <2>3 DEF cache_begin_op, LogInv, TypeOK
    <3>2. rm'[s] = OP_MAX_NUM_BLOCKS /\ wrote'[s] = {}
      BY <1>1, <3>1 DEF cache_begin_op, LogInv, TypeOK
    <3> QED
      BY <3>2, FS_EmptySet
  <2> QED
    BY <2>2, <2>3
<1>2. ASSUME NEW t \in Thread, cache_end_op(t) PROVE Goal
  <2>1. pc[s] = "op" /\ panic = "no"
    BY <1>2 DEF cache_end_op, post_all_sem, Wake, Running, LogInv, TypeOK
  <2>2. UNCHANGED <<rm, wrote>> /\ Logged' = Logged
    BY <1>2 DEF cache_end_op, Logged
  <2> QED
    BY <1>0, <2>1, <2>2
<1>3. ASSUME NEW t \in Thread, NEW b \in Block, cache_sync_panic(t, b)
      PROVE  Goal
  BY <1>3 DEF cache_sync_panic
<1>4. ASSUME NEW t \in Thread, NEW b \in Block, NEW v \in Data,
             cache_sync(t, b, v)
      PROVE  Goal
  <2>1. pc[s] = "op" /\ panic = "no" /\ pc[t] = "op"
    BY <1>4 DEF cache_sync
  <2>2. wrote' = [wrote EXCEPT ![t] = @ \cup {b}]
    BY <1>4 DEF cache_sync
  <2>3. Cardinality(wrote[s] \cup {b}) =
          IF b \in wrote[s] THEN Cardinality(wrote[s])
                            ELSE Cardinality(wrote[s]) + 1
    BY <1>0, <2>1, FS_AddElement
  <2>4. CASE b \in Logged
    <3>1. UNCHANGED <<rm, header>>
      BY <1>4, <2>4 DEF cache_sync
    <3>2. Logged' = Logged
      BY <3>1 DEF Logged
    <3>3. CASE s = t
      <4>1. wrote'[s] = wrote[s] \cup {b}
        BY <2>2, <3>3 DEF LogInv, TypeOK
      <4> QED
        BY <1>0, <2>1, <2>3, <2>4, <3>1, <3>2, <4>1
    <3>4. CASE s # t
      <4>1. wrote'[s] = wrote[s]
        BY <2>2, <3>4 DEF LogInv, TypeOK
      <4> QED
        BY <1>0, <2>1, <3>1, <3>2, <4>1
    <3> QED
      BY <3>3, <3>4
  <2>5. CASE b \notin Logged
    <3>1. /\ rm[t] # 0 /\ header' = Append(header, b)
          /\ rm' = [rm EXCEPT ![t] = @ - 1]
      BY <1>4, <2>5 DEF cache_sync, SyncPanic, log_block
    <3>2. Logged' = Logged \cup {b}
      BY <3>1, SyncLogged
    <3>3. CASE s = t
      <4>1. wrote'[s] = wrote[s] \cup {b} /\ rm'[s] = rm[s] - 1
        BY <2>2, <3>1, <3>3 DEF LogInv, TypeOK
      <4>2. b \notin wrote[s]
        BY <1>0, <2>1, <2>5
      <4> QED
        BY <1>0, <2>1, <2>3, <3>2, <4>1, <4>2
    <3>4. CASE s # t
      <4>1. wrote'[s] = wrote[s] /\ rm'[s] = rm[s]
        BY <2>2, <3>1, <3>4 DEF LogInv, TypeOK
      <4> QED
        BY <1>0, <2>1, <3>2, <4>1
    <3> QED
      BY <3>3, <3>4
  <2> QED
    BY <2>4, <2>5
<1>5. CASE Crash
  <2>1. pc' = [t \in Thread |-> "out"]
    BY <1>5, Zenon DEF Crash
  <2> QED
    BY <2>1
<1>6. CASE SpaceKept
  <2>1. pc[s] = "op" /\ panic = "no" /\ UNCHANGED <<rm, wrote, header>>
    BY <1>6 DEF SpaceKept
  <2>2. Logged' = Logged
    BY <2>1 DEF Logged
  <2> QED
    BY <1>0, <2>1, <2>2
<1> QED
  BY <1>1, <1>2, <1>3, <1>4, <1>5, <1>6, StepKinds

(* The space and quota invariant holds in every reachable state.           *)
THEOREM SpaceInvariant == Spec => []SpaceInv
<1>1. Init => SpaceInv
  <2> SUFFICES ASSUME Init PROVE SpaceInv
    OBVIOUS
  <2>1. /\ pc = [t \in Thread |-> "out"] /\ mu = 0 /\ header = <<>>
        /\ panic = "no"
    BY Zenon DEF Init
  <2>2. Reserved = {}
    BY <2>1 DEF Reserved
  <2> QED
    BY <2>1, <2>2, FS_EmptySet, SizeAssumption
       DEF SpaceInv, SpaceReserved, QuotaUsed
<1>2. LogInv /\ LogInv' /\ SpaceInv /\ [Next]_vars => SpaceInv'
  BY SpaceReservedStep, QuotaUsedStep DEF SpaceInv
<1> QED
  BY <1>1, <1>2, LogInvariant, PTL DEF Spec

(* log.mu counts the reserved log blocks and the log has room for them     *)
(* (cache.c:181), for any number of operations and any size of the log.    *)
THEOREM SpaceStaysReserved == Spec => []SpaceReserved
<1>1. SpaceInv => SpaceReserved
  BY DEF SpaceInv
<1> QED
  BY <1>1, SpaceInvariant, PTL

(* A running operation that would meet a PANIC() of sync: with a full log  *)
(* nothing is reserved, so its own quota is used up, and what it has used  *)
(* are distinct blocks that are in the header.                             *)
LEMMA PanicJustified ==
  ASSUME LogInv, SpaceInv PROVE QuotaPanicJustified
<1> USE SizeAssumption DEF SpaceInv
<1> SUFFICES ASSUME NEW t \in Thread, NEW b \in Block, Running, pc[t] = "op"
             PROVE  /\ SyncPanic(t, b) = "quota" =>
                         Cardinality(wrote[t] \cup {b}) > OP_MAX_NUM_BLOCKS
                    /\ SyncPanic(t, b) = "log_full" =>
                         /\ rm[t] = 0
                         /\ Cardinality(wrote[t]) >= OP_MAX_NUM_BLOCKS
  BY DEF QuotaPanicJustified
<1>1. panic = "no"
  BY DEF Running
<1>2. /\ wrote[t] \subseteq Logged
      /\ rm[t] + Cardinality(wrote[t]) >= OP_MAX_NUM_BLOCKS
      /\ IsFiniteSet(wrote[t]) /\ Cardinality(wrote[t]) \in Nat
      /\ rm[t] \in 0..OP_MAX_NUM_BLOCKS
  BY <1>1, WroteFinite DEF QuotaUsed, LogInv, TypeOK
<1>3. ASSUME SyncPanic(t, b) = "quota"
      PROVE  Cardinality(wrote[t] \cup {b}) > OP_MAX_NUM_BLOCKS
  <2>1. b \notin Logged /\ rm[t] = 0
    BY <1>3 DEF SyncPanic
  <2>2. Cardinality(wrote[t] \cup {b}) = Cardinality(wrote[t]) + 1
    BY <1>2, <2>1, FS_AddElement
  <2> QED
    BY <1>2, <2>1, <2>2
<1>4. ASSUME SyncPanic(t, b) = "log_full"
      PROVE  rm[t] = 0 /\ Cardinality(wrote[t]) >= OP_MAX_NUM_BLOCKS
  <2>1. Len(header) >= LogMax
    BY <1>4 DEF SyncPanic
  <2>2. Cardinality(Reserved) = 0
    BY <1>1, <2>1, ReservedFinite DEF SpaceReserved, LogInv, TypeOK
  <2>3. Reserved = {}
    BY <2>2, ReservedFinite, FS_EmptySet
  <2>4. rm[t] = 0
    <3>1. SUFFICES ASSUME rm[t] # 0 PROVE FALSE
      OBVIOUS
    <3>2. <<t, rm[t]>> \in Reserved
      BY <1>2, <3>1 DEF Reserved
    <3> QED
      BY <2>3, <3>2
  <2> QED
    BY <1>2, <2>4
<1> QED
  BY <1>3, <1>4

(* For any number of threads and any size of the log: a sync meets the     *)
(* PANIC() of cache.c:220 only with more distinct blocks than the quota,   *)
(* and that of cache.c:201 only when its own operation has spent its whole *)
(* quota on distinct blocks, the refused one not counted.                  *)
THEOREM QuotaPanicsJustified == Spec => []QuotaPanicJustified
  BY PanicJustified, LogInvariant, SpaceInvariant, PTL

(***************************************************************************)
(* The sleepers.                                                           *)
(***************************************************************************)
(* A step that puts nobody to sleep and keeps what the sleepers wait for.  *)
LEMMA SleepersStay ==
  ASSUME LogInv, WaitersBlocked, committing => committing',
         committing' \/ Len(header') + mu' >= Len(header) + mu,
         mu' \in Int, Len(header') \in Nat,
         committing' \/ \A u \in Thread : pc[u] = "op" => pc'[u] = "op",
         \A t \in Thread : pc'[t] \in {"begin_wait", "end_wait"} => pc'[t] = pc[t]
  PROVE  WaitersBlocked'
<1> USE SizeAssumption DEF WaitersBlocked
<1>1. mu \in Int /\ Len(header) \in Nat
  BY DEF LogInv, TypeOK
<1>2. ASSUME OutOfSpace, ~committing' PROVE OutOfSpace'
  BY <1>1, <1>2 DEF OutOfSpace
<1> QED
  BY <1>2

(* Every step keeps the sleepers' conditions false: whoever makes one true *)
(* wakes them, or is about to commit.                                      *)
LEMMA WaitersStep ==
  ASSUME LogInv, LogInv', WaitersBlocked, [Next]_vars PROVE WaitersBlocked'
<1> USE SizeAssumption
<1>0. /\ mu \in Int /\ mu' \in Int /\ Len(header) \in Nat /\ Len(header') \in Nat
      /\ pc \in [Thread -> PC]
  BY DEF LogInv, TypeOK
<1>1. ASSUME UNCHANGED <<pc, committing, mu, header>> PROVE WaitersBlocked'
  BY <1>0, <1>1, SleepersStay
<1>2. ASSUME NEW t \in Thread, cache_begin_op(t) PROVE WaitersBlocked'
  <2>1. pc[t] \in {"out", "begin"} /\ UNCHANGED <<header, committing>>
    BY <1>2 DEF cache_begin_op
  <2>2. CASE MustWait
    <3>1. pc' = [pc EXCEPT ![t] = "begin_wait"] /\ UNCHANGED mu
      BY <1>2, <2>2 DEF cache_begin_op
    <3>2. (committing \/ OutOfSpace) /\ OutOfSpace' = OutOfSpace
      BY <2>1, <2>2, <3>1 DEF MustWait, OutOfSpace
    <3> QED
      BY <1>0, <2>1, <3>1, <3>2 DEF WaitersBlocked
  <2>3. CASE ~MustWait
    <3>1. pc' = [pc EXCEPT ![t] = "op"] /\ mu' = mu + OP_MAX_NUM_BLOCKS
      BY <1>2, <2>3 DEF cache_begin_op
    <3> QED
      BY <1>0, <2>1, <3>1, SleepersStay
  <2> QED
    BY <2>2, <2>3
<1>3. ASSUME NEW t \in Thread, cache_end_op(t) PROVE WaitersBlocked'
  <2>1. pc[t] = "op" /\ outstanding' = outstanding - 1 /\ UNCHANGED header
    BY <1>3 DEF cache_end_op
  <2>2. CASE outstanding' = 0
    <3>1. committing' /\ pc' = [pc EXCEPT ![t] = "commit"]
      BY <1>3, <2>2 DEF cache_end_op
    <3> QED
      BY <1>0, <3>1 DEF WaitersBlocked
  <2>3. CASE outstanding' # 0
    <3>1. pc' = post_all_sem([pc EXCEPT ![t] = "end_wait"])
      BY <1>3, <2>3 DEF cache_end_op
    <3>2. \A s \in Thread : pc'[s] # "begin_wait"
      BY <1>0, <3>1 DEF post_all_sem, Wake
    <3>3. Ops' # {}
      <4>1. outstanding' = Cardinality(Ops') /\ outstanding' # 0
        BY <2>3 DEF LogInv, CommitIsExclusive, Ops
      <4> QED
        BY <4>1, FS_EmptySet
    <3>4. \E u \in Thread : pc'[u] = "op"
      BY <3>3 DEF Ops
    <3> QED
      BY <3>2, <3>4 DEF WaitersBlocked
  <2> QED
    BY <2>2, <2>3
<1>4. ASSUME NEW t \in Thread, NEW b \in Block, cache_sync_panic(t, b)
      PROVE  WaitersBlocked'
  BY <1>1, <1>4 DEF cache_sync_panic, log
<1>5. ASSUME NEW t \in Thread, NEW b \in Block, NEW v \in Data,
             cache_sync(t, b, v)
      PROVE  WaitersBlocked'
  <2>1. UNCHANGED <<pc, committing>>
    BY <1>5 DEF cache_sync
  <2>2. CASE b \in Logged
    BY <1>1, <1>5, <2>2 DEF cache_sync
  <2>3. CASE b \notin Logged
    <3>1. header' = Append(header, b) /\ mu' = mu - 1
      BY <1>5, <2>3 DEF cache_sync, log_block
    <3>2. Len(header') = Len(header) + 1
      BY <3>1, SyncLogged
    <3> QED
      BY <1>0, <2>1, <3>1, <3>2, SleepersStay
  <2> QED
    BY <2>2, <2>3
<1>6. ASSUME NEW t \in Thread, pc[t] \in Committer, UNCHANGED committing,
             \/ UNCHANGED pc
             \/ /\ pc'[t] \notin {"begin_wait", "end_wait"}
                /\ pc' = [pc EXCEPT ![t] = pc'[t]]
      PROVE  WaitersBlocked'
  <2>1. committing
    BY <1>6 DEF LogInv, OneCommitter
  <2> QED
    BY <1>0, <1>6, <2>1 DEF WaitersBlocked
<1>7. ASSUME NEW t \in Thread, finish(t) PROVE WaitersBlocked'
  <2>1. \A s \in Thread : pc'[s] \notin {"begin_wait", "end_wait"}
    BY <1>0, <1>7 DEF finish, post_all_sem, post_all_outstandingsem, Wake
  <2> QED
    BY <2>1 DEF WaitersBlocked
<1>8. ASSUME NEW t \in Thread, Commit(t) PROVE WaitersBlocked'
  <2>1. CASE commit(t)
    BY <1>0, <1>6, <2>1 DEF commit, log, Committer
  <2>2. CASE write_log(t)
    BY <1>1, <2>2 DEF write_log, log
  <2>3. CASE write_header(t)
    BY <1>0, <1>6, <2>3 DEF write_header, log, Committer
  <2>4. CASE install(t)
    BY <1>1, <2>4 DEF install, install_trans, log
  <2>5. CASE clear(t)
    BY <1>0, <1>6, <2>5 DEF clear, clear_header, log, Committer
  <2> QED
    BY <1>7, <1>8, <2>1, <2>2, <2>3, <2>4, <2>5 DEF Commit
<1>9. ASSUME NEW t \in Thread, return(t) PROVE WaitersBlocked'
  <2>1. /\ pc[t] = "end_done" /\ pc' = [pc EXCEPT ![t] = "out"]
        /\ UNCHANGED <<header, mu, committing>>
    BY <1>9 DEF return, log
  <2> QED
    BY <1>0, <2>1, SleepersStay
<1>10. ASSUME \A t \in Thread : pc'[t] = "out" PROVE WaitersBlocked'
  BY <1>10 DEF WaitersBlocked
<1>11. CASE Crash
  <2>1. pc' = [t \in Thread |-> "out"]
    BY <1>11, Zenon DEF Crash
  <2> QED
    BY <1>10, <2>1
<1>12. CASE recover_from_log
  <2>1. boot # "up" /\ UNCHANGED pc
    BY <1>12 DEF recover_from_log, read_header, recover_install, recover_clear,
                 install_trans
  <2> QED
    BY <1>10, <2>1 DEF LogInv, OneCommitter
<1>13. ASSUME NEW b \in Block, cache_acquire(b) PROVE WaitersBlocked'
  BY <1>1, <1>13 DEF cache_acquire, log
<1>14. ASSUME NEW b \in Block, NEW v \in Data, cache_sync_null(b, v)
       PROVE  WaitersBlocked'
  BY <1>1, <1>14 DEF cache_sync_null, log
<1>15. CASE UNCHANGED vars
  BY <1>1, <1>15 DEF vars
<1> QED
  BY <1>2, <1>3, <1>4, <1>5, <1>8, <1>9, <1>11, <1>12, <1>13, <1>14, <1>15
     DEF Next, Step, Sync

(* Nobody sleeps in begin_op or end_op without a reason: no interleaving   *)
(* of begin_op, sync, end_op, commits and crashes loses a wakeup of the    *)
(* log's two semaphores (cache.c:177, 261).                                *)
THEOREM NoLostLogWakeup == Spec => []WaitersBlocked
<1>1. Init => WaitersBlocked
  BY DEF Init, WaitersBlocked
<1>2. LogInv /\ LogInv' /\ WaitersBlocked /\ [Next]_vars => WaitersBlocked'
  BY WaitersStep
<1> QED
  BY <1>1, <1>2, LogInvariant, PTL DEF Spec
=============================================================================

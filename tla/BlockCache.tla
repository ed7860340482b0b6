----------------------------- MODULE BlockCache -----------------------------
(***************************************************************************)
(* The block cache of src/src/fs/cache.c below the log: the list of Block  *)
(* structs, their sleeplocks, pinning and eviction.  CommitLog abstracts   *)
(* all of it to the contents of each block; here contents are left out and *)
(* the memory of the structs is what matters: a struct that is freed may   *)
(* be handed out again for another block while a thread still points to    *)
(* it.                                                                     *)
(***************************************************************************)
EXTENDS Integers, Sequences, FiniteSets, SequencesExt

CONSTANTS Thread, BlockNo,
          Buf,                 \* the addresses kalloc may return
          EVICTION_THRESHOLD

ASSUME ThresholdAssumption == EVICTION_THRESHOLD \in Nat
ASSUME SetsAssumption == /\ IsFiniteSet(Thread)
                         /\ BlockNo # {} /\ Buf # {}

VARIABLES
  list,      \* the list at `head', the most recently used struct first
  block_no, acquired, pinned,  \* the fields of a Block struct
  val,       \* the semaphore of its sleeplock
  logged,    \* the block numbers in the log header
  pc, ptr, want                \* where a thread is, its struct and block

fields == <<block_no, acquired, pinned>>
vars == <<list, block_no, acquired, pinned, val, logged, pc, ptr, want>>

PC == {"out", "lock", "held", "release"}

TypeOK ==
  /\ list \in Seq(Buf)
  /\ block_no \in [Buf -> BlockNo]
  /\ acquired \in [Buf -> BOOLEAN]
  /\ pinned \in [Buf -> BOOLEAN]
  /\ val \in [Buf -> 0..1 + Cardinality(Thread)]
  /\ logged \subseteq BlockNo
  /\ pc \in [Thread -> PC]
  /\ ptr \in [Thread -> Buf]
  /\ want \in [Thread -> BlockNo]

Goto(t, l) == pc' = [pc EXCEPT ![t] = l]

CachedMutant(n) == {i \in 2..Len(list) : block_no[list[i]] = n}

(* The places of block n in the list: the search of cache_acquire.         *)
Cached(n) == {i \in 1..Len(list) : block_no[list[i]] = n}

MayEvictMutant(b) == ~acquired[b]          \* evicts pinned structs
MayEvictMutantHeld(b) == ~pinned[b]        \* evicts acquired structs
MayEvict(b) == ~pinned[b] /\ ~acquired[b]

ThresholdReached(sz) == sz >= EVICTION_THRESHOLD

(* The eviction loop: from the least recently used struct on, structs that *)
(* may be evicted are freed until the list is short enough.                *)
Turn(acc, b) == IF MayEvict(b) /\ ThresholdReached(Len(list) - acc.freed)
                THEN [acc EXCEPT !.freed = @ + 1]
                ELSE [acc EXCEPT !.kept = <<b>> \o @]

Loop ==
  LET acc[i \in 0..Len(list)] ==
        IF i = 0 THEN [kept |-> <<>>, freed |-> 0]
                 ELSE Turn(acc[i - 1], list[Len(list) + 1 - i])
  IN  acc

Evict == Loop[Len(list)].kept

-----------------------------------------------------------------------------
(* cache_acquire of a block in the list, up to the wait for its lock, for  *)
(* which the lock of the cache is given back.                              *)
acquire_hit(t, n) ==
  /\ pc[t] = "out"
  /\ \E i \in Cached(n) :
       /\ list' = <<list[i]>> \o RemoveAt(list, i)
       /\ ptr' = [ptr EXCEPT ![t] = list[i]]
  /\ want' = [want EXCEPT ![t] = n]
  /\ Goto(t, "lock")
  /\ UNCHANGED <<fields, val, logged>>

(* cache_acquire of a block that is not in the list.                       *)
acquire_miss(t, n) ==
  /\ pc[t] = "out"
  /\ Cached(n) = {}
  /\ \E b \in Buf \ Range(Evict) :
       /\ list' = <<b>> \o Evict
       /\ block_no' = [block_no EXCEPT ![b] = n]
       /\ acquired' = [acquired EXCEPT ![b] = TRUE]
       /\ pinned' = [pinned EXCEPT ![b] = FALSE]
       /\ val' = [val EXCEPT ![b] = 1]
       /\ ptr' = [ptr EXCEPT ![t] = b]
  /\ want' = [want EXCEPT ![t] = n]
  /\ Goto(t, "lock")
  /\ UNCHANGED logged

(* unalertable_acquire_sleeplock, on whatever struct the pointer is by now. *)
acquire_sleeplock(t) ==
  /\ pc[t] = "lock"
  /\ val[ptr[t]] > 0
  /\ val' = [val EXCEPT ![ptr[t]] = @ - 1]
  /\ Goto(t, "held")
  /\ UNCHANGED <<list, fields, logged, ptr, want>>

(* cache_sync with a context: a block not yet in the header is pinned.     *)
cache_sync(t) ==
  LET n == block_no[ptr[t]] IN
  /\ pc[t] = "held"
  /\ pinned' = [pinned EXCEPT ![ptr[t]] = @ \/ n \notin logged]
  /\ logged' = logged \cup {n}
  /\ UNCHANGED <<list, block_no, acquired, val, pc, ptr, want>>

(* commit writes the logged blocks to their places; the pins stay.         *)
install_trans ==
  /\ logged # {}
  /\ logged' = {}
  /\ UNCHANGED <<list, fields, val, pc, ptr, want>>

(* cache_release: the flag is cleared without the lock of the cache and    *)
(* before the sleeplock is given back.                                     *)
cache_release(t) ==
  /\ pc[t] = "held"
  /\ acquired' = [acquired EXCEPT ![ptr[t]] = FALSE]
  /\ Goto(t, "release")
  /\ UNCHANGED <<list, block_no, pinned, val, logged, ptr, want>>

release_sleeplock(t) ==
  /\ pc[t] = "release"
  /\ val' = [val EXCEPT ![ptr[t]] = @ + 1]
  /\ Goto(t, "out")
  /\ UNCHANGED <<list, fields, logged, ptr, want>>

Init ==
  /\ list = <<>>
  /\ block_no = [b \in Buf |-> CHOOSE n \in BlockNo : TRUE]
  /\ acquired = [b \in Buf |-> FALSE]
  /\ pinned = [b \in Buf |-> FALSE]
  /\ val = [b \in Buf |-> 1]
  /\ logged = {}
  /\ pc = [t \in Thread |-> "out"]
  /\ ptr = [t \in Thread |-> CHOOSE b \in Buf : TRUE]
  /\ want = [t \in Thread |-> CHOOSE n \in BlockNo : TRUE]

Next == \/ install_trans
        \/ \E t \in Thread :
             \/ \E n \in BlockNo : acquire_hit(t, n) \/ acquire_miss(t, n)
             \/ acquire_sleeplock(t)
             \/ cache_sync(t)
             \/ cache_release(t)
             \/ release_sleeplock(t)

Spec == Init /\ [][Next]_vars

-----------------------------------------------------------------------------
(***************************************************************************)
(* Properties.                                                             *)
(***************************************************************************)
Holds(t) == pc[t] \in {"held", "release"}
Holders(b) == {t \in Thread : Holds(t) /\ ptr[t] = b}

(* The state is well typed and there is one struct per block: two threads  *)
(* that acquire the same block at the same time do not each load a copy    *)
(* (cache.c:73-117).                                                       *)
OneStructPerBlock ==
  /\ TypeOK
  /\ \A i, j \in 1..Len(list) :
    i # j => list[i] # list[j] /\ block_no[list[i]] # block_no[list[j]]

(* Every pointer a thread has is to the struct in the list for its block,  *)
(* and the sleeplocks are held by exactly those who hold a block.          *)
PointersValid ==
  /\ \A t \in Thread : pc[t] # "out" =>
       ptr[t] \in Range(list) /\ block_no[ptr[t]] = want[t]
  /\ \A b \in Range(list) :
       val[b] + Cardinality(Holders(b)) = 1

(* A struct that a thread has, or waits for, leaves the list, perhaps to   *)
(* be handed out again at once; it does not carry the mark of line 116.    *)
TakesUnmarked ==
  \E t \in Thread :
    /\ pc[t] # "out" /\ ~acquired[ptr[t]]
    /\ ptr[t] \notin Range(list') \/ block_no'[ptr[t]] # block_no[ptr[t]]

(* Pointers and sleeplocks stay consistent in every interleaving of        *)
(* acquires and releases, with one exception: another thread's miss takes  *)
(* a struct in use that is not marked acquired, because it was found in    *)
(* the cache (line 85) or its release has cleared the mark (line 127).     *)
(* Whoever has loaded a block keeps it until then, and no eviction of a    *)
(* struct that nobody uses does any harm.                                  *)
OnlyEvictionHurts ==
  [][PointersValid => PointersValid' \/ TakesUnmarked]_vars

LoggedInCache == \A n \in logged : \E i \in Cached(n) : pinned[list[i]]

(* A block in the log header stays in memory until its commit: while the   *)
(* pointers are valid no sync is lost and no eviction takes a struct with  *)
(* changes that are not on the disk.                                       *)
LoggedStays ==
  [][PointersValid /\ LoggedInCache => LoggedInCache']_vars

(* cache.h:46-48: acquire locks the block and returns a pointer to the     *)
(* locked block.  Whoever has acquired a block points to the struct the    *)
(* cache has for it, and is the only one.                                  *)
HolderHasTheBlock ==
  \A t \in Thread : pc[t] = "held" =>
    /\ ptr[t] \in Range(list)
    /\ block_no[ptr[t]] = want[t]
    /\ \A u \in Thread \ {t} : pc[u] = "held" => want[u] # want[t]

-----------------------------------------------------------------------------
(***************************************************************************)
(* The inductive invariant behind them (see BlockCacheProofs).  A struct   *)
(* that is handed out again has a new semaphore while threads may still    *)
(* hold the old one: what they post later is all that val can exceed 1 by. *)
(***************************************************************************)
PostsBounded ==
  \A b \in Buf : val[b] + Cardinality(Holders(b)) <= 1 + Cardinality(Thread)

CacheInv == OneStructPerBlock /\ PostsBounded
=============================================================================

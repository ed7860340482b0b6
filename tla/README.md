# Verification of the OS-2022Fall-Fudan kernel

TLA+ models of the kernel under `src/src`, checked with TLC on small instances,
and proofs with TLAPS, for every instance, of all the safety properties that hold.  Paths
below are relative to `src/src` unless they start with `doc/`, which is
`src/doc`.

## The system

A small multi-core AArch64 kernel with a scheduler, processes, semaphores,
memory management, an SD card driver and the lower half of a file system (a
block cache with a write-ahead log).

| Component | State | Operations | Meets | Hard parts |
|---|---|---|---|---|
| scheduler (`kernel/sched.c`) | process states, current process per CPU, run queue, `sched_lock` | `activate_proc`, `alert_proc`, `sched`, `yield`, timer tick | semaphores, exit, start | the lock is handed from one thread to another across `swtch`; kills race with sleeping; fairness |
| semaphores (`common/sem.c`) | value, sleep list, lock | wait (alertable or not), post, post_all, get, get_all | scheduler | lost wakeups, waiters that leave because they were killed |
| process tree (`kernel/proc.c`) | parent, children, `childexit`, `killed`, `proc_list_lock` | create, set_parent, start, kill, exit, wait | scheduler, semaphores, page allocator | exit and wait on different CPUs, orphans, reuse of freed `struct proc`s |
| write-ahead log (`fs/cache.c`) | header in memory and on disk, log area, `outstanding`, `committing`, reserved space | `begin_op`, `sync`, `end_op`, recovery | block cache, block device | crash between any two writes, group commit, admission, limits |
| block cache (`fs/cache.c`) | LRU list of `Block` structs, pins, flags, sleeplocks | acquire, release, eviction | log, device, semaphores | use of a struct after its eviction, pins |
| block bitmap (`fs/cache.c`) | bitmap blocks | alloc, free | log | concurrent allocations, crash |
| SD driver (`driver/sd.c`, `driver/sddef.h`, `fs/block_device.c`) | request queue, `buf` flags, `EMMC_INTERRUPT`, the card descriptor | `sdrw`, interrupt handler, `sdInit` | semaphores, interrupts, block cache | interrupt against request, lost and late answers, a result that is ignored |
| message queues (`common/ipc.c`) | id table, messages, waiting senders and receivers | get, send, receive, remove | scheduler, page allocator | removal and kills under sleepers, full queues |
| page and pool allocator (`kernel/mem.c`, `common/list.c`) | lock-free free lists | alloc, free | everything | ABA on the lock-free list |
| CPU timers (`kernel/cpu.c`, `common/rbtree.c`) | red-black tree per CPU | set, cancel, clock handler | scheduler | handlers that switch threads |
| page tables (`kernel/pt.c`) | tree of tables | get_pte, free_pgdir | page allocator | ownership of pages |
| containers (`kernel/container.c`) | nested schedule queues | create | scheduler | uninitialised queue |
| traps, drivers, boot, printing, `user/mkfs` | registers, devices | | | not state machines of interest here |

What makes them correct: no wakeup and no kill is lost and no stack is used by
two CPUs (scheduler and semaphores); the processes form a tree, each exit is
collected exactly once (process tree); operations are atomic and durable
(log); a block has one struct, held by one thread, for as long as it is held
(cache); a page has one owner (allocators); a request or message reaches
exactly one waiter, and every waiter is served or refused (driver, message
queues).

## Modules

| Module | Models | Kind |
|---|---|---|
| `AtomicDisk` | what `fs/cache.h:54-84` promises: groups of operations become durable at once, `end_op` returns when they are | abstract specification |
| `CommitLog` | the log of `fs/cache.c:133-273` over block contents | component, implements `AtomicDisk` |
| `BlockCache` | `cache_acquire`, `cache_release` and pins, `fs/cache.c:46-144` over struct addresses | component |
| `SleepWakeup` | `kernel/sched.c`, `common/sem.c` and the parts of `kernel/proc.c` that go through them | composition of scheduler, semaphores and kill |
| `ProcTree` | `kernel/proc.c` | component |
| `MsgQueue` | `common/ipc.c` | component |
| `AtomicDevice` | what `fs/block_device.h` promises: a read or write of a block happens at one moment | abstract specification |
| `SdDriver` | `fs/block_device.c`, `sdrw`, `sd_start` and `sd_intr` of `driver/sd.c`, the queue of `common/list.c` | processes, interrupt handler and card composed; implements `AtomicDevice` |
| `SdInit` | `sd_init` of `driver/sd.c`, `sdInit` and everything it calls in `driver/sddef.h` | driver and card composed |
| `OrderedSet` | what `common/rbtree.h` promises | abstract specification |
| `RBTree` | `common/rbtree.c` | component, implements `OrderedSet` |
| `PageMemory` | `kernel/mem.c` on the lock-free queue of `common/list.c` | component |
| `CommitLogProofs`, `BlockCacheProofs`, `SleepWakeupProofs`, `ProcTreeProofs`, `MsgQueueProofs`, `SdDriverProofs`, `SdInitProofs`, `RBTreeProofs` | the component they are named for | proofs |
| `MC...` | constants and symmetry | model checking |

An action is the code between two points where another CPU can interfere: two
lock acquisitions, two device writes, a context switch.  A spinlock is a
Boolean where it is held across actions; a lock that is taken and released
within one action only has to be free.  Kernel code runs with traps disabled,
so a thread is not preempted inside an action.  Definitions named `...Mutant`
or `..._mutant` are plausible mistakes in the definition after them.  They are
not part of any specification; they show that a property would notice.

### CommitLog

`disk`, `logArea` and `diskHeader` are the device and survive `Crash`;
`header`, `cache`, `pinned`, `outstanding`, `committing`, `mu` and the threads'
`rm` and `pc` do not.  `cache_begin_op`, `cache_sync` (with and without a
context, and its panics), `cache_end_op`, one action per device write of
`commit` (`write_log`, `write_header`, `install_trans`, `clear_header`),
`finish`, and the same installation run by `recover_from_log` after a crash
are actions.  A miss of `cache_acquire` may evict any set of unpinned blocks,
whatever the LRU order.  A write of one block to the device is atomic, and a
thread's acquire, change, sync and release of a block is one action: block
locks serialise them.  That locks do so is not unconditional, see
`BlockCache`.  `wrote` is a ghost variable: the blocks an operation has synced.

`AtomicDisk` is implemented under the mapping `stable` = the disk as recovery
would leave it now, `buf` = what `cache_acquire` returns, `op` = the thread's
place, with `write_header` as the commit point.

### BlockCache

`list` is the LRU list of struct addresses; a freed address may be handed out
again at once.  The two critical sections of `cache_acquire` (list under the
spinlock, then the sleeplock) and the two steps of `cache_release` (flag, then
sleeplock) are separate actions.  Contents are left out, and of `commit` only
what it does to pins is kept.

### SleepWakeup

One step belongs to the thread whose kernel stack a CPU executes on (`stack`),
which between `simple_sched` and `swtch` is not the thread `thisproc()` returns
(`cur`).  `sched_lock` is taken by one thread and released by another.  An idle
thread per CPU, yields by timer or by choice, sleeping with and without alerts,
posts, `post_all`, `get_sem`, kills, exits and starts interleave freely.

### ProcTree

The tree, the exit tokens (`childexit`), the two locks and the lifecycle
`FREE`, `UNUSED`, `ALIVE`, `ZOMBIE`, `FREE` of each `struct proc`, which is
reused.  Sleeping inside `wait` is `SleepWakeup`'s subject: here a waiter takes
a token when there is one and may give up when killed and there is none.

### MsgQueue

The table of queues, the messages (a page with a type and a size), the lists of
waiting senders and receivers, and the locals of a process inside a system
call.  Each critical section of `msg_ids.lock` is an action: a sleeper takes
`sched_lock` before it lets go of that lock, so a wakeup cannot fall in
between, which is `SleepWakeup`'s subject.  Calls that fail without changing
anything are left out.  Two things the code does are in the model as they are:
after refusing a receiver whose buffer is too small, `pipeline_send` loops for
ever with the lock (`common/ipc.c:132-147`, a process at `spin`); `freeque`
wakes receivers without setting `r_msg` (`Garbage`, after which anything may
happen: `wild`, where the model stops) and does not wake senders
(`common/ipc.c:281`).  Neither contradicts a statement of the repository, and
the invariants hold in spite of both.

### SdDriver

A request is the `buf` on the stack of its caller, so a process names its
`buf`; `sdque` is the queue, `lk` the holder of its lock, `sl` the semaphore of
a `buf`, `flags` and `data` its other fields.  `interrupt` is `EMMC_INTERRUPT`
and `xfer` what the controller is doing.  `sdrw` is cut where it gives the lock
back or sleeps, `sd_start` at its two waits for the card, `sd_intr` at its
wait for `INT_DATA_DONE`, whose result it ignores (`driver/sd.c:203`).  The
handler runs on CPU 0 whenever an enabled bit is set, both for `IRQ_SDIO` and
`IRQ_ARASANSDIO`.  The card and the controller are external: they take their
steps at any time, and up to `MaxFaults` times fail, after which the driver may
panic and a read may return anything.  A poll of one second times out only when
the answer never comes, so a bit that is set after the wait at
`driver/sd.c:203` was given up is not covered; `SdInit` has late answers.

`AtomicDevice` is implemented with `disk` = the contents of the card and the
effect of a request at the moment the card has sent or taken its block.  It is
what `CommitLog` and `BlockCache` assume of `device->read` and
`device->write`.  (`sd_read` and `sd_write` use block numbers of the card,
without the offset of the partition that `sd_init` has read.)

### SdInit

`step` is the command `sdInit` is at (or the reset, or a change of the clock),
`ph` the place inside `sdSendCommand`.  Every command goes through
`sdSendCommandP`: the wait for a command in progress, the clearing of
`EMMC_INTERRUPT`, the `APP_CMD` before an app command, the wait for the answer,
its time-out, and the treatment of each kind of response, with every early
return of `sdInit`, the six tries of `APP_SEND_OP_COND`, the fallback for old
cards, the clock divider (with its real arithmetic) and the read of the
partition table at the end of `sd_init`.  The card is external: of version 1 or
2, of high or standard capacity, with a wide bus or not, with the right voltage
or not, in any state the firmware may have left it; it may miss any command,
and its answer may be lost or arrive after the driver has given up.  The parsing
of CID and CSD and the GPIO pins are left out, a data transfer ends before the
next command does, and the host controller is of version 2 or 3.

Three things the model shows and no property denies.  A lost `GO_IDLE_STATE`
or a lost answer leaves `sd_init` with a card it cannot use, since it does not
look at the result of `sdInit` (`driver/sd.c:68`; `CardUsable` therefore
promises nothing after a fault unless `sdInit` has set its flag).  `sdReadSCR`
never waits for the end of its transfer: for a card without the wide bus no
later command clears the bit and `sd_start` panics (`NoPanic` excludes such
cards).  `sdInit` returns `SD_CARD_CHANGED` on success although
`driver/sddef.h:1071` says zero.

### RBTree

`tree` is a record of the root and of the children, parents and colours of all
nodes; the helpers of `common/rbtree.c` are operators on trees.  Calls do not
overlap (`common/rbtree.h:14` leaves the lock to the user), and each turn of a
loop is an action: the descent of `_rb_insert`, `_rb_lookup` and `_rb_first`,
the walk to the successor in `__rb_erase`, and each case of `__rb_insert_fix`
and `__rb_erase_fix`.  `pc` is the loop that runs, `arg` the node passed, `cur`
and `par` the locals of the loop, `ret` the result.  The two mirrored halves of
the rebalancing functions are one, with the side as a parameter, and their
rotations share `TurnUp`.  `OrderedSet` takes effect at the return of a call:
a node counts as a member from the return of its insertion to the return of its
removal.  `cmp` is that of `test/rbtreetest.c`, under which two nodes may be
equal; the timers' `__timer_cmp` (`kernel/cpu.c:11-19`) decides ties by the
address and is the case in which all keys are distinct.

### PageMemory

The pages, the sixteen pools and the heads of their queues.  Every load, store
and compare-exchange of `add_to_queue` and `fetch_from_queue` is an action, and
the compare-exchange, a weak one, may fail without reason.  `kalloc_page`,
`kfree_page`, `simple_pool_alloc` (with the page that a large request takes and
forgets, `kernel/mem.c:31-34`, and the carving of a new page) and
`simple_pool_free` call them.  A block in use that another CPU reads as
a node has its old link, or was cleared, or holds the address of its pool
(`kernel/mem.c:44`) or its owner's data (`Wild`, which the model follows no
further).

## Runs

Deadlock is checked except where the system may really stop: in `msg_queue` all
processes may wait for messages that nobody is left to send, in `sd_driver` the
machine stops after a panic or a failure of the card, `sd_init` ends, and in
`page_memory` the bound on the allocations is reached.

| Run | Instance | Shows |
|---|---|---|
| `commit_log` | 2 threads, 3 blocks, 2 values, 2 blocks per operation, log of 4 | The log implements `AtomicDisk` with overlapping operations, absorption, group commit, evictions, crashes at any point, crashes during recovery. `outstanding` is exact and no operation overlaps a commit; dirty blocks are pinned; sleepers have a reason to sleep. |
| `commit_log_live` | 3 threads contending for a log that has room for 2 operations | The space reserved by running operations never exceeds the log; a full log stops only a thread that has spent its own quota on distinct blocks, the quota panic only one that exceeds it; `end_op` returns; while threads wait in `begin_op`, operations start. |
| `sleep_wakeup` | 3 processes, 2 CPUs, 1 semaphore with values up to 1 | No lost wakeup or kill, exact run queue and semaphore counts, no stack used twice or freed in use, no failed assertion. |
| `sleep_wakeup_live` | 2 processes, 2 CPUs | A post or kill always makes the sleeper runnable. |
| `proc_tree` | root and 3 processes | The tree is a tree of live parents, exits are counted exactly once, `wait` finds its zombie, `exit` completes. |
| `block_cache` | 2 threads, 3 blocks, 3 addresses, threshold 2 | One struct per block; logged blocks stay while pointers are valid; only the eviction of a struct in use without its `acquired` mark invalidates a pointer. |
| `block_cache_held` (violation) | the same | The hit path does not mark the struct acquired (`fs/cache.c:85-93`), so it is freed while held. |
| `msg_queue` | 3 processes, 1 slot, 2 sequence numbers, 4 pages, queues of 2 | A message has one owner until it is freed; no receiver sleeps beside a message it asked for; a listed sender sleeps and its queue is full; counts are exact; a receiver gets only what it asked for and has room for. |
| `sd_driver` | 2 processes, 2 blocks, 2 values, standard capacity, 1 failure | Reads and writes are atomic whatever the card, the handler and the other process do; no post is lost; an idle driver leaves no interrupt behind; no panic without a failure; every queued request is served. |
| `sd_init` | every kind of card in every initial state, 2 addresses | `sdInit` takes no answer for another's, sends app commands only after their `APP_CMD`, keeps the clock in range; an initialised card agrees with the driver; `sd_init` always ends. |
| `rb_tree` | 11 nodes, 10 keys | After any insertions and removals the tree is a red-black tree, and with the queries it behaves as an ordered set. |
| `page_memory` (violation) | 2 CPUs, 2 pages, 2 pools | ABA: a page that is taken and given back between another CPU's load and compare-exchange puts a page in use on the free list (`common/list.c:59`), and two CPUs own it. |

Disagreements with the documentation that the models contain and no run
asserts: with the log exactly full a second sync of a block that the operation
holds panics (`fs/cache.c:201` comes before the look-up of the slot), although
`fs/cache.h:8` and `78-79` count distinct blocks and such a sync takes no slot
(see below); two processes that wake each other starve a third
(`kernel/sched.c:105` against `doc/lab4.md:58`; `SleepWakeup` under `FairSpec`
with one CPU); a process whose parent is not the root cannot be killed
(`kernel/proc.c:49` against `doc/lab4.md:52`); committed blocks stay pinned and
the cache outgrows its threshold (`fs/cache.c:139` against
`fs/test/cache_test.cpp:144`).

The first of these in `CommitLog`, with two threads, four blocks, two blocks per
operation and a log of four (`num_log_blocks` of five): one operation syncs
`b1` and `b2`, the next one, admitted because four slots are enough for both,
syncs `b3` and `b4`, and now `SyncPanic(t, b)` is `log_full` for every block of
`wrote[t]` of either thread.  TLC reaches the state in eight steps as a
counterexample to `\A t \in Thread : \A b \in wrote[t] : Running /\ pc[t] = "op"
=> SyncPanic(t, b) = "no"`.  What does hold, `QuotaPanicJustified`, is that only
an operation that has used up its own quota is exposed to it.

Bounds and why they suffice.  Two operations are enough for overlap, group
commit and absorption, and three threads for one committing, one waiting for
the commit and one waiting to begin.  Three blocks let a group contain a block
of each operation and a shared one and leave one to evict.  In
`commit_log_live` two operations of one block fill the log of two, so both
panics of `cache_sync` are reached.  Two CPUs suffice for every race on a lock
or across `swtch`; three processes allow a sleeper, a poster and a killer at
once.  `MaxVal` caps posts to a semaphore nobody waits for.  Three processes
besides the root make the chain grandparent, parent, child, in which the middle
one dies.  Three blocks and a threshold of two force evictions.  Four pages
fill a queue of two with two senders still waiting, two sequence numbers make
identifiers stale and let them come back; with a single slot there is never a
second queue for a key to clash with, so one key (`IPC_PRIVATE`) is enough.
Two requests are a head that is served and one that is pushed, tested or
started meanwhile; the standard capacity card is the one whose address is
computed (`driver/sd.c:97`).  Ten keys are the fewest for which the rebalancing
after a removal goes up more than one level (trees with three black nodes on
every path), and the eleventh node has the key of another. The ABA needs two
CPUs and two pages.  `MaxCount` caps `alloc_page_cnt`, which also counts
allocations that fail.  Where symmetry is used the next-state relation and the
checked properties treat the permuted values alike; it is not used in runs with
liveness properties.

Fairness.  `CommitLog`: each thread goes on with an operation it is in, a
commit and the recovery go on; crashes and new operations are not required.
`SleepWakeup`: strong fairness of each CPU, that is, a CPU keeps executing and
gets a spinlock that is free again and again.  `ProcTree`: a process that holds
a spinlock runs with traps off and so goes on.  No process is assumed to be
scheduled: the scheduler does not promise it (see above).  `SdDriver`: processes
in `sdrw`, the handler and a card that has not failed go on; the handler is an
interrupt that CPU 0 takes whenever traps are on, at the latest when it is
idle.  `SdInit`: only CPU 0 goes on; nothing is assumed of the card, because
every wait of the driver has a time-out.

## Proofs

Each theorem holds for every value of the constants that the named assumptions
of its module allow.  The assumptions say that sets of threads and processes
are finite, that sizes are natural numbers (and a log has room for one
operation, an identifier for every slot), that the markers for "nothing" are
not values, and that block numbers of the card are below 2^23, where the byte
address of a standard capacity card would overflow (`driver/sd.c:97`).  Every
module has one inductive invariant, checked with TLC before it was proved
(except that of `RBTree`, which says that certain labels exist); a lemma per
action shows that the action preserves it, and the properties follow.  The
theorems are listed in `PROJECT.json`.  What insertion and removal do to the
lists of `common/list.h` is proved at the head of the modules that use it.

**`CommitLog`** (`LogInv`): type correctness, dirty blocks are pinned,
`outstanding` is exact and zero during a commit, the panics at `fs/cache.c:204`
and `254` are unreachable, and `Refinement`: the log implements `AtomicDisk`.
`HeadersFit`: headers have no duplicates and fit the log, so a slot belongs to
one block.  `OneCommitter`: at most one thread is past the last `end_op`, and
recovery runs alone.  `HeaderOnDisk`: the header on disk is empty except
between commit point and the end of the installation, where it equals the one
in memory; without it a crash could install an old group.  `CopiesAgree`: log
area and cache agree as far as `write_log` has come, disk and log area as far
as `install_trans` has come; without it the commit point would not make
exactly what readers see durable.  For the refinement, `RecoveredValue`
characterises the disk that recovery would leave; `write_header` is the
abstract commit, an installation or a clearing stutters because the values are
already determined, a crash maps to a crash.

The second part proves `SpaceReserved`, `QuotaPanicJustified` and
`WaitersBlocked` (`SpaceInv`, that is `SpaceReserved` and `QuotaUsed`, on top of
`LogInv`).  The reserved space is the
set `Reserved` of pairs of a running operation and a unit of its quota, so that
its size needs no sum over the threads; `QuotaUsed` says that what an operation
has used of its quota are distinct blocks in the header, without which a sync
that is absorbed could not be told from one that takes a slot.
`QuotaPanicJustified` follows from the two: in a full log nothing is reserved,
so the operation that meets the panic has no quota left, and has used it on
distinct blocks.

**`BlockCache`** (`CacheInv`): `OneStructPerBlock` and the two action
properties `OnlyEvictionHurts` and `LoggedStays`.  The exception in the first,
`TakesUnmarked`, is what the code does allow: a struct in use without its mark
is freed (`block_cache_held` shows one way to it, a release that has cleared the
mark at `fs/cache.c:127` is another).  The eviction loop is a
recursive function over its turns; `EvictFine` shows that it leaves a list of
distinct structs and frees only what is neither pinned nor marked.
`PostsBounded` is needed for the type of a semaphore alone: threads that held a
struct when it was freed post to it after it was handed out again.

**`SleepWakeup`** (`SleepInv`): the run queue is exact, no stack is used twice,
semaphores count their waiters, no wakeup and no kill is lost, no assertion
fails.  `SchedLockHeld` ties `sched_lock` to the one CPU between `sched` and
the release behind `swtch`, by whichever thread; `SemLockHeld` does it for the
semaphores.  `WaitersListed`, `WaitersSleep` and `WaitersPosted` follow a
waiter from its list to its wakeup: it is listed until it is posted, and once
posted somebody who holds the lock of the semaphore still has to activate it.

**`ProcTree`** (`TreeInv`): started processes have live parents, exits are
counted exactly, the scan of `wait` finds its zombie.  `LocksHeld`, `AliveRuns`
and `CreatedUnused` say who may change the tree; `TreeLinked` that parents and
children are inverse to each other also while orphans are handed to the root.
`ReapFindsZombie` is the consequence of `ExitsCounted`, a count of zombies.

**`MsgQueue`** (`MsgInv`): all five properties of the run.  `Lists` puts a
process in one list exactly while it sleeps there; `Locals` gives each place in
a system call the messages it may have.  A move of a message from sender to
queue or receiver, or from queue to receiver, exchanges one element of `Held`
for another with the same page (`OwnedMove`).  `Found` shows what the search of
`sys_msgrcv`, with a type that changes as it goes, has found at its end.

**`SdDriver`** (`DriverInv`): no panic without a failure of the card, an idle
driver is quiet, no post is lost, and `DriverIsAtomic`: the driver implements
`AtomicDevice`.  `LockOwned` and `BufsOwned` say who may touch the queue and
what a `buf` holds until its request is done; `Serving` and `InPhase` relate,
for each phase of the controller, the place of the driver, the bits in
`EMMC_INTERRUPT` and the FIFO.  The card's transfer of a block is the step of
the abstract device, all others stutter.

**`SdInit`** (`SdInv`, defined in `SdInitProofs`): the three safety properties
of the run, for any base clock up to 51.2 MHz (the dividers are computed for
41.67 MHz) and any addresses.  `OnTheBus` says that while the driver waits, its
own command is on the bus with no answer flag raised, or has been answered;
`Genuine` that a good answer means the command had its effect, although damaged
answers, and answers kept from an earlier command, are about.  `Places` gives
the state of the card at each step; `Capacity` that a card which reports its
power up has read the argument the driver remembers.  `Faultless` and `Cleared`
are what is certain as long as nothing was lost or late: from `CARD_SELECT` on
the card takes every command, and the transfer of the SCR is over and its flag
cleared when `SET_BUS_WIDTH` is sent.  The many ends of `sdSendCommandP` are
reduced to seven outcomes once (`EndIs`), and each is shown to keep `SdInv`.

**`RBTree`** (`Inductive`, defined in `RBTreeProofs`): `RedBlack`, and
`RBTreeIsOrderedSet`: the tree implements `OrderedSet`, for any set of nodes and
any number of keys.  A proof about trees of any size would be an induction over
the tree, which the provers cannot do; instead the invariant says that labels
of the nodes exist which satisfy a condition at every node, and a step that
changes a few links changes the labels of a few nodes.  `Shape`
holds when `sub` assigns to each node the set of nodes below it: links go both
ways (`Linked`), a node's set is itself and the sets of its children
(`Labelled`), all of a child's set is on the right side of the node by key
(`Ordered`), and a set contains a node exactly if it contains its parent
(`Closed`).  `Painted` holds when `h` assigns a black height to each node that
agrees with both children, except that below one place one black node may be
missing, and when no red node has a red child, except one node.  `Phase` ties
both to the loop that runs: in `__rb_insert_fix` the exception is the current
node, in `__rb_erase_fix` the side of `par` on which `cur` is, and in a descent
a node with the key looked for, if there is one, is in the set of `cur`, so a
search that ends at `NULL` has shown that there is none, and an insertion has
come to the place that keeps the order.

Each primitive of the code is described by what it does to every link
(`ChildStored`, `Replaced`), each rotation by one description of the links
before and after (`Rotated`, `DoublyRotated`) that all mirrored cases of the
code are shown to have, and three changes of shape (`Rotated`, a leaf hung in,
a node cut out or swapped with its successor) keep `Shape` with labels given
explicitly.  The colours are done apart from the shape: `Framed` says that
outside of the few nodes of a case nothing changed, which leaves the equations
of the heights at those nodes.  `BlackHeightLabel` shows that the recursive
`BlackHeight` of `RedBlack` is the label `h`: of the nodes where they differ,
the one with the least key would have a left child that is another.  For the
refinement the beginning and the return of a call are steps of `OrderedSet` and
every turn of a loop stutters; a removal whose node has two children moves the successor, and `Follows`, that
every node below the right child is below `cur` or has a greater key, is what
makes the key order survive it.

Only model-checked:

* liveness (`EndOpReturns`, `BeginOpProgress`, `WakeupDelivered`,
  `ExitCompletes`, `QueuedServed`, `Terminates`): fairness and `ENABLED` are out
  of the prover's reach;
* `PageMemory`, whose property does not hold: its run shows the violation.

## What is not modelled, and the plan

Later modules, in order:

1. CPU timers (`kernel/cpu.c`, `driver/clock.c`) over `OrderedSet`: a timer is
   in the tree of its CPU exactly while it has not triggered, and the clock is
   set no later than the first one.
2. `MsgQueue`: kills of sleepers, whose nodes stay in the lists, and the copy
   loops of `load_msg` and `store_msg` as a pure algorithm.
3. `BlockCache` with a miss that sleeps in `SdDriver`, with the spinlock of the
   cache held (`fs/cache.c:113`).
4. Bitmap allocation of `fs/cache.c:275-333` as a client of the log; nothing
   calls it yet.
5. Page tables: ownership of table pages.

Theorems to come: the invariants of these modules.

Left out: register-level device code (UART, mailbox, GPIO), assembly, boot, printing and string
functions, `user/mkfs` (a host tool), `kernel/kalloc.c` (compiled out), the
file system tests' mocks.  Containers other than the root, whose queue
`create_container` never initialises, are not modelled.  The hazards of the
parts that are not modelled are listed, with the lines, in `PROJECT.json`.

----------------------------- MODULE PageMemory -----------------------------
(***************************************************************************)
(* The memory allocator of src/src/kernel/mem.c: pages on a free list and  *)
(* pools of elements of 2^i units carved from pages, each one a lock-free  *)
(* queue of src/src/common/list.c.  Every load, store and compare-exchange *)
(* on a queue is a step, and the CPUs take them in any order.              *)
(*                                                                         *)
(* An address is a number; a unit stands for 16 bytes, so that the pool of *)
(* class i has elements of 2^i units and the last class whole pages.       *)
(***************************************************************************)
EXTENDS Integers, FiniteSetsExt

CONSTANTS Cpu,
          Pages,       \* number of pages between end and PHYSTOP
          Top,         \* index of the last pool; a page has 2^Top units
          MaxCount     \* bound on alloc_page_cnt

VARIABLES
  head, next,          \* the heads of the queues, the links in free memory
  alloc_page_cnt,
  held,                \* the blocks handed out to each CPU
  pc, want, q,         \* where a CPU is, the queue it allocates for and uses
  node, link,          \* locals of the queue functions
  forget, page, todo   \* locals of simple_pool_alloc

queues == <<head, next>>
locals == <<want, q, node, link, forget, page, todo>>
vars == <<queues, alloc_page_cnt, held, pc, locals>>

NULL == 0
Wild == -2              \* what is read from memory in use and is no link
PAGE_SIZE == 2^Top
Page == {n * PAGE_SIZE : n \in 1..Pages}
Addr == PAGE_SIZE .. (Pages + 1) * PAGE_SIZE - 1
free_page == -1
Class == 0..Top
Queue == Class \cup {free_page}
Size(i) == IF i = free_page THEN PAGE_SIZE ELSE 2^i
Units(b) == b.at .. b.at + Size(b.of) - 1
InUse(a) == \E c \in Cpu : \E b \in held[c] : a \in Units(b)

Goto(c, l) == pc' = [pc EXCEPT ![c] = l]
Set(f, c, v) == [f EXCEPT ![c] = v]

-----------------------------------------------------------------------------
(* fetch_from_queue: load the head, read its link, and exchange.  A node   *)
(* that is in use by then still has its old link, or was cleared, or holds *)
(* something else: the address of its pool (mem.c:44) or its owner's data. *)
(* A CPU that takes such a Wild value for a node goes no further here.     *)
(* The compare-exchange is a weak one and may fail for no reason.          *)

fetch_load(c) ==
  /\ pc[c] = "fetch"
  /\ node' = Set(node, c, head[q[c]])
  /\ Goto(c, IF head[q[c]] = NULL THEN "fetched" ELSE "next")
  /\ UNCHANGED <<queues, alloc_page_cnt, held, want, q, link, forget, page, todo>>

fetch_next(c) ==
  /\ pc[c] = "next" /\ node[c] # Wild
  /\ \E v \in {next[node[c]]} \cup (IF InUse(node[c]) THEN {NULL, Wild} ELSE {}) :
       link' = Set(link, c, v)
  /\ Goto(c, "exchange")
  /\ UNCHANGED <<queues, alloc_page_cnt, held, want, q, node, forget, page, todo>>

fetch_exchange(c) ==
  /\ pc[c] = "exchange"
  /\ \/ /\ head[q[c]] = node[c]
        /\ head' = Set(head, q[c], link[c])
        /\ Goto(c, "fetched")
     \/ Goto(c, "fetch") /\ UNCHANGED head
  /\ UNCHANGED <<next, alloc_page_cnt, held, locals>>

(* add_to_queue: store the head in the link of the node, and exchange.     *)

add_link(c) ==
  /\ pc[c] = "add"
  /\ next' = Set(next, node[c], head[q[c]])
  /\ Goto(c, "push")
  /\ UNCHANGED <<head, alloc_page_cnt, held, locals>>

add_exchange(c) ==
  /\ pc[c] = "push"
  /\ \/ /\ head[q[c]] = next[node[c]]
        /\ head' = Set(head, q[c], node[c])
        /\ Goto(c, "added")
     \/ Goto(c, "add") /\ UNCHANGED head
  /\ UNCHANGED <<next, alloc_page_cnt, held, locals>>

-----------------------------------------------------------------------------
_increment_rc == alloc_page_cnt' = alloc_page_cnt + 1
_decrement_rc == alloc_page_cnt' = alloc_page_cnt - 1

(* Fetching from the empty list is counted as an allocation too.           *)
kalloc_page(c) ==
  /\ pc[c] = "idle" /\ alloc_page_cnt < MaxCount
  /\ want' = Set(want, c, free_page) /\ q' = Set(q, c, free_page)
  /\ _increment_rc
  /\ Goto(c, "fetch")
  /\ UNCHANGED <<queues, held, node, link, forget, page, todo>>

(* A size of more than half a page first takes a page that is forgotten.   *)
(* A size that no class has changes nothing and returns NULL.              *)
simple_pool_alloc(c, i) ==
  /\ pc[c] = "idle" /\ alloc_page_cnt < MaxCount
  /\ want' = Set(want, c, i)
  /\ forget' = Set(forget, c, i = Top)
  /\ IF i = Top THEN _increment_rc /\ q' = Set(q, c, free_page)
                ELSE UNCHANGED alloc_page_cnt /\ q' = Set(q, c, i)
  /\ Goto(c, "fetch")
  /\ UNCHANGED <<queues, held, node, link, page, todo>>

HandOut(c, a) ==
  /\ held' = IF a = NULL THEN held
             ELSE [held EXCEPT ![c] = @ \cup {[at |-> a, of |-> want[c]]}]
  /\ Goto(c, "idle")

fetched(c) ==
  /\ pc[c] = "fetched"
  /\ \/ /\ forget[c]
        /\ forget' = Set(forget, c, FALSE) /\ q' = Set(q, c, want[c])
        /\ Goto(c, "fetch")
        /\ UNCHANGED <<held, alloc_page_cnt, page, todo>>
     \/ /\ ~forget[c] /\ q[c] = want[c] /\ (node[c] # NULL \/ want[c] = free_page)
        /\ HandOut(c, node[c])
        /\ UNCHANGED <<alloc_page_cnt, q, forget, page, todo>>
     \/ /\ ~forget[c] /\ q[c] = want[c] /\ node[c] = NULL /\ want[c] # free_page
        /\ q' = Set(q, c, free_page)
        /\ _increment_rc
        /\ Goto(c, "fetch")
        /\ UNCHANGED <<held, forget, page, todo>>
     \/ /\ ~forget[c] /\ q[c] # want[c] /\ node[c] = NULL
        /\ HandOut(c, NULL)
        /\ UNCHANGED <<alloc_page_cnt, q, forget, page, todo>>
     \/ /\ ~forget[c] /\ q[c] # want[c] /\ node[c] # NULL
        /\ page' = Set(page, c, node[c])
        /\ todo' = Set(todo, c, {a \in node[c] + 1 .. node[c] + PAGE_SIZE - 1 :
                                   (a - node[c]) % Size(want[c]) = 0})
        /\ q' = Set(q, c, want[c])
        /\ Goto(c, "added")
        /\ UNCHANGED <<held, alloc_page_cnt, forget>>
  /\ UNCHANGED <<queues, want, node, link>>

(* Back from add_to_queue: the next element of the page, or the return.    *)
added(c) ==
  /\ pc[c] = "added"
  /\ IF todo[c] # {}
     THEN /\ node' = Set(node, c, Min(todo[c]))
          /\ todo' = [todo EXCEPT ![c] = @ \ {Min(@)}]
          /\ Goto(c, "add")
          /\ UNCHANGED <<held, page>>
     ELSE /\ HandOut(c, page[c])
          /\ page' = Set(page, c, NULL)
          /\ UNCHANGED <<node, todo>>
  /\ UNCHANGED <<queues, alloc_page_cnt, want, q, link, forget>>

Free(c, b) ==
  /\ pc[c] = "idle" /\ b \in held[c]
  /\ held' = [held EXCEPT ![c] = @ \ {b}]
  /\ node' = Set(node, c, b.at) /\ q' = Set(q, c, b.of)
  /\ Goto(c, "add")
  /\ UNCHANGED <<queues, want, link, forget, page, todo>>

kfree_page(c, b) == b.of = free_page /\ Free(c, b) /\ _decrement_rc
simple_pool_free(c, b) == b.of # free_page /\ Free(c, b) /\ UNCHANGED alloc_page_cnt

-----------------------------------------------------------------------------
Init ==
  /\ head = [i \in Queue |-> IF i = free_page THEN Max(Page) ELSE NULL]
  /\ next = [a \in Addr |-> IF a \in Page \ {Min(Page)} THEN a - PAGE_SIZE ELSE NULL]
  /\ alloc_page_cnt = -Pages
  /\ held = [c \in Cpu |-> {}]
  /\ pc = [c \in Cpu |-> "idle"]
  /\ want = [c \in Cpu |-> free_page] /\ q = [c \in Cpu |-> free_page]
  /\ node = [c \in Cpu |-> NULL] /\ link = [c \in Cpu |-> NULL]
  /\ forget = [c \in Cpu |-> FALSE] /\ page = [c \in Cpu |-> NULL]
  /\ todo = [c \in Cpu |-> {}]

Next == \E c \in Cpu :
  \/ fetch_load(c) \/ fetch_next(c) \/ fetch_exchange(c)
  \/ add_link(c) \/ add_exchange(c)
  \/ kalloc_page(c) \/ fetched(c) \/ added(c)
  \/ \E i \in Class : simple_pool_alloc(c, i)
  \/ \E b \in held[c] : kfree_page(c, b) \/ simple_pool_free(c, b)

Spec == Init /\ [][Next]_vars
-----------------------------------------------------------------------------
(* No two CPUs own overlapping memory: what an allocation returns is not   *)
(* in the hands of another CPU.  The test writes a pattern to every page   *)
(* and expects to find it again.                                           *)
MemoryExclusive ==
  \A c, d \in Cpu : c # d =>
    \A a \in held[c], b \in held[d] : Units(a) \cap Units(b) = {}
=============================================================================

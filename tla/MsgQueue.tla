------------------------------ MODULE MsgQueue ------------------------------
(***************************************************************************)
(* The message queues of src/src/common/ipc.c: sys_msgget, sys_msgsnd,     *)
(* sys_msgrcv and sys_msgctl(IPC_RMID).                                    *)
(*                                                                         *)
(* Every operation works on the table of queues under msg_ids.lock, and a  *)
(* process that goes to sleep takes sched_lock before it gives that lock   *)
(* back, so a critical section with its wakeups is one step.  A message is *)
(* the page it is stored in, with its type and its size; contents are left *)
(* out.  Killing a process that sleeps here is not modelled.               *)
(***************************************************************************)
EXTENDS Integers, FiniteSets, SequencesExt

CONSTANTS Proc, Key,
          IPC_PRIVATE,     \* the key that ipc_findkey is not asked for
          Page,            \* the pages load_msg may get
          NULL, Garbage,   \* no message; a pointer that was never set
          Size,            \* msg_ids.size
          SEQ_MULTIPLIER, MAX_MSGNUM,
          SEQS,            \* msg_ids.seq wraps around: 2^16 in the code
          MaxType, MaxSize \* bounds: the types and sizes that are used

ASSUME KeysAssumption == IPC_PRIVATE \in Key
ASSUME SizesAssumption == /\ Size \in 1..SEQ_MULTIPLIER
                          /\ SEQS \in Nat \ {0}
                          /\ SEQ_MULTIPLIER \in Nat
                          /\ MAX_MSGNUM \in Nat \ {0}
                          /\ MaxType \in Nat /\ MaxSize \in Nat

VARIABLES
  entries,    \* msg_ids.entries: NULL or the queue
  seq, in_use,\* of msg_ids
  pages,      \* the pages that are allocated
  pc, msgid,  \* where a process is, and its first argument
  msg,        \* the message a sender has loaded
  request,    \* what a receiver asks for
  r_msg,      \* the message a receiver was given
  wild        \* a pointer that was never set, or is stale, was followed

table == <<entries, seq, in_use>>
vars == <<entries, seq, in_use, pages, pc, msgid, msg, request, r_msg, wild>>

PC == {"run", "send", "send_sleep", "spin", "recv_sleep", "store"}
Message == [page : Page, mtype : 1..MaxType, size : 0..MaxSize]
MsgId == 0..(SEQS * SEQ_MULTIPLIER - 1)
NoRequest == [mtype |-> 0, size |-> 0]
Request == [mtype : (-MaxType)..MaxType, size : 0..MaxSize]
Queue == [key : Key, seq : 0..SEQS - 1, sum_msg : 0..MAX_MSGNUM,
          q_message : Seq(Message), q_sender : Seq(Proc), q_receiver : Seq(Proc)]
ASSUME NullAssumption == /\ NULL \notin Queue \cup Message
                         /\ Garbage \notin Message

(* The types; among them seq, which wraps around, and sum_msg, which the   *)
(* check for room in sys_msgsnd keeps within max_msg.                      *)
TypeOK ==
  /\ entries \in [0..Size - 1 -> Queue \cup {NULL}]
  /\ seq \in 0..SEQS - 1
  /\ in_use \in 0..Size
  /\ pages \subseteq Page
  /\ pc \in [Proc -> PC]
  /\ msgid \in [Proc -> MsgId]
  /\ msg \in [Proc -> Message \cup {NULL}]
  /\ request \in [Proc -> Request]
  /\ r_msg \in [Proc -> Message \cup {NULL, Garbage}]
  /\ wild \in BOOLEAN

(* msg_ids.lock is free: nobody spins with it in pipeline_send.            *)
LockFree == \A p \in Proc : pc[p] # "spin"
At(p, l) == ~wild /\ pc[p] = l
Goto(p, l) == pc' = [pc EXCEPT ![p] = l]
InUse == {id \in 0..Size - 1 : entries[id] # NULL}

-----------------------------------------------------------------------------
(* The identifiers.                                                        *)

(* The slot that a msgid made by ipc_buildin names.                        *)
get_msgq(m) == {id \in InUse : /\ id = m % SEQ_MULTIPLIER
                               /\ entries[id].seq = m \div SEQ_MULTIPLIER}

ipc_findkey(key) == {id \in InUse : entries[id].key = key}

NextSeq(s) == (s + 1) % SEQS

(* newque and ipc_addid: the first free slot.                              *)
newque(key) ==
  LET free == 0..Size - 1 \ InUse
      id == CHOOSE i \in free : \A j \in free : i <= j
  IN  /\ free # {}
      /\ entries' = [entries EXCEPT ![id] =
                       [key |-> key, seq |-> seq, sum_msg |-> 0, q_message |-> <<>>,
                        q_sender |-> <<>>, q_receiver |-> <<>>]]
      /\ seq' = NextSeq(seq)
      /\ in_use' = in_use + 1

(* sys_msgget when it makes a queue: IPC_PRIVATE, or IPC_CREATE of a key   *)
(* that there is none for.  It changes nothing otherwise.                  *)
sys_msgget(p, key) ==
  /\ At(p, "run")
  /\ LockFree
  /\ key = IPC_PRIVATE \/ ipc_findkey(key) = {}
  /\ newque(key)
  /\ UNCHANGED <<pages, pc, msgid, msg, request, r_msg, wild>>

-----------------------------------------------------------------------------
(* Sending.                                                                *)

testmsg(rqtype, type) == IF rqtype > 0 THEN rqtype = type
                         ELSE rqtype = 0 \/ rqtype + type <= 0

load_msg(p, m, id) ==
  /\ At(p, "run")
  /\ m.page \notin pages
  /\ pages' = pages \cup {m.page}
  /\ msg' = [msg EXCEPT ![p] = m]
  /\ msgid' = [msgid EXCEPT ![p] = id]
  /\ Goto(p, "send")
  /\ UNCHANGED <<table, request, r_msg, wild>>

(* The locals of sys_msgsnd are gone.                                      *)
SendReturns(p) == /\ msg' = [msg EXCEPT ![p] = NULL]
                  /\ msgid' = [msgid EXCEPT ![p] = 0]

MatchingMutant(que, m) == 0

(* The first receiver that asks for the type of the message.               *)
Matching(que, m) ==
  SelectInSeq(que.q_receiver, LAMBDA r : testmsg(request[r].mtype, m.mtype))

FitsMutant(m, rq) == TRUE
Fits(m, rq) == m.size <= rq.size

(* An attempt on a queue that has been removed (EIDRM), or on a full one   *)
(* with IPC_NOWAIT (EAGAIN), frees the message.                            *)
send_fails(p) ==
  /\ At(p, "send")
  /\ LockFree
  /\ \A id \in get_msgq(msgid[p]) : entries[id].sum_msg + 1 > MAX_MSGNUM
  /\ pages' = pages \ {msg[p].page}
  /\ SendReturns(p)
  /\ Goto(p, "run")
  /\ UNCHANGED <<table, request, r_msg, wild>>

send_sleeps(p) ==
  /\ At(p, "send")
  /\ LockFree
  /\ \E id \in get_msgq(msgid[p]) :
       /\ entries[id].sum_msg + 1 > MAX_MSGNUM
       /\ entries' = [entries EXCEPT ![id].q_sender = Append(@, p)]
  /\ Goto(p, "send_sleep")
  /\ UNCHANGED <<seq, in_use, pages, msgid, msg, request, r_msg, wild>>

(* The receiver gets the message, or NULL if it is too large; then the     *)
(* loop of pipeline_send goes on from the node it has detached, which now  *)
(* points to itself: it finds the same receiver for ever, under the lock.  *)
pipeline_send(p) ==
  /\ At(p, "send")
  /\ LockFree
  /\ \E id \in get_msgq(msgid[p]) :
       LET que == entries[id]
           i == Matching(que, msg[p])
           r == que.q_receiver[i]
           fits == Fits(msg[p], request[r])
       IN  /\ que.sum_msg + 1 <= MAX_MSGNUM
           /\ i # 0
           /\ entries' = [entries EXCEPT ![id].q_receiver = RemoveFirst(@, r)]
           /\ r_msg' = [r_msg EXCEPT ![r] = IF fits THEN msg[p] ELSE NULL]
           /\ pc' = [pc EXCEPT ![r] = "store", ![p] = IF fits THEN "run" ELSE "spin"]
           /\ IF fits THEN SendReturns(p) ELSE UNCHANGED <<msg, msgid>>
  /\ UNCHANGED <<seq, in_use, pages, request, wild>>

send_enqueues(p) ==
  /\ At(p, "send")
  /\ LockFree
  /\ \E id \in get_msgq(msgid[p]) :
       /\ entries[id].sum_msg + 1 <= MAX_MSGNUM
       /\ Matching(entries[id], msg[p]) = 0
       /\ entries' = [entries EXCEPT ![id].q_message = Append(@, msg[p]),
                                     ![id].sum_msg = @ + 1]
  /\ SendReturns(p)
  /\ Goto(p, "run")
  /\ UNCHANGED <<seq, in_use, pages, request, r_msg, wild>>

-----------------------------------------------------------------------------
(* Receiving.                                                              *)

(* The search of sys_msgrcv: for a type below -1 it goes on with the next  *)
(* type up, and returns the last message that it found.                    *)
Look(acc, m) ==
  IF acc.done \/ ~testmsg(acc.rqtype, m.mtype) THEN acc
  ELSE [found |-> m,
        rqtype |-> IF acc.rqtype < -1 THEN acc.rqtype + 1 ELSE acc.rqtype,
        done |-> acc.rqtype >= -1]

Search(msgs, rqtype) ==
  LET acc[i \in 0..Len(msgs)] ==
        IF i = 0 THEN [found |-> NULL, rqtype |-> rqtype, done |-> FALSE]
                 ELSE Look(acc[i - 1], msgs[i])
  IN  acc

FindMsg(msgs, rqtype) == Search(msgs, rqtype)[Len(msgs)].found

ss_wakeup_mutant(list) == IF list = <<>> THEN 0 ELSE 1

(* How many processes are taken off a list and woken: all of them.         *)
ss_wakeup(list) == Len(list)

Woken(list) == {list[i] : i \in 1..ss_wakeup(list)}
NotWoken(list) == SubSeq(list, ss_wakeup(list) + 1, Len(list))

TakenMutant(que, m) ==
  [que EXCEPT !.q_message = RemoveFirst(@, m), !.q_sender = <<>>]

(* The queue once m is taken out of it and its senders are woken.          *)
Taken(que, m) ==
  [que EXCEPT !.q_message = RemoveFirst(@, m),
              !.sum_msg = @ - 1,
              !.q_sender = NotWoken(@)]

(* A message is there: it is taken out and the senders are woken.  One     *)
(* that is too large for the caller (E2BIG) stays.                         *)
recv_finds(p, id, rq) ==
  /\ At(p, "run")
  /\ LockFree
  /\ \E i \in get_msgq(id) :
       LET que == entries[i]
           m == FindMsg(que.q_message, rq.mtype)
       IN  /\ m # NULL
           /\ Fits(m, rq)
           /\ entries' = [entries EXCEPT ![i] = Taken(que, m)]
           /\ pc' = [q \in Proc |-> IF q = p THEN "store"
                                    ELSE IF q \in Woken(que.q_sender) THEN "send"
                                    ELSE pc[q]]
           /\ r_msg' = [r_msg EXCEPT ![p] = m]
  /\ request' = [request EXCEPT ![p] = rq]
  /\ UNCHANGED <<seq, in_use, pages, msgid, msg, wild>>

(* No message: the caller waits, with r_msg on its stack not yet set.      *)
recv_sleeps(p, id, rq) ==
  /\ At(p, "run")
  /\ LockFree
  /\ \E i \in get_msgq(id) :
       /\ FindMsg(entries[i].q_message, rq.mtype) = NULL
       /\ entries' = [entries EXCEPT ![i].q_receiver = Append(@, p)]
  /\ request' = [request EXCEPT ![p] = rq]
  /\ r_msg' = [r_msg EXCEPT ![p] = Garbage]
  /\ Goto(p, "recv_sleep")
  /\ UNCHANGED <<seq, in_use, pages, msgid, msg, wild>>

(* The end of sys_msgrcv, without a lock: E2BIG for NULL, or the message   *)
(* is copied out and freed.  Garbage may be anything, and so may the node  *)
(* on the stack of a receiver that returns while pipeline_send is at it.   *)
store_msg(p) ==
  /\ At(p, "store")
  /\ wild' \in IF r_msg[p] = Garbage \/ ~LockFree THEN BOOLEAN ELSE {FALSE}
  /\ pages' = pages \ {g \in pages : r_msg[p] \in Message /\ r_msg[p].page = g}
  /\ r_msg' = [r_msg EXCEPT ![p] = NULL]
  /\ request' = [request EXCEPT ![p] = NoRequest]
  /\ Goto(p, "run")
  /\ UNCHANGED <<table, msgid, msg>>

-----------------------------------------------------------------------------
FreedMessagesMutant(que) == {}
FreedMessages(que) == {m.page : m \in Range(que.q_message)}

(* sys_msgctl(IPC_RMID): the receivers are woken by ss_wakeup, which sets  *)
(* no r_msg and leaves none for expunge_all; the senders are not woken.    *)
freeque(p, id) ==
  /\ At(p, "run")
  /\ LockFree
  /\ \E i \in get_msgq(id) :
       /\ entries' = [entries EXCEPT ![i] = NULL]
       /\ pc' = [q \in Proc |-> IF q \in Woken(entries[i].q_receiver)
                                THEN "store" ELSE pc[q]]
       /\ pages' = pages \ FreedMessages(entries[i])
  /\ in_use' = in_use - 1
  /\ UNCHANGED <<seq, msgid, msg, request, r_msg, wild>>

Init ==
  /\ entries = [id \in 0..Size - 1 |-> NULL]
  /\ seq = 0
  /\ in_use = 0
  /\ pages = {}
  /\ pc = [p \in Proc |-> "run"]
  /\ msgid = [p \in Proc |-> 0]
  /\ msg = [p \in Proc |-> NULL]
  /\ request = [p \in Proc |-> NoRequest]
  /\ r_msg = [p \in Proc |-> NULL]
  /\ wild = FALSE

Get(p) == \E key \in Key : sys_msgget(p, key)

Send(p) == \/ \E m \in Message, id \in MsgId : load_msg(p, m, id)
           \/ send_fails(p)
           \/ send_sleeps(p)
           \/ pipeline_send(p)
           \/ send_enqueues(p)

Receive(p) == \/ \E id \in MsgId, rq \in Request :
                   recv_finds(p, id, rq) \/ recv_sleeps(p, id, rq)
              \/ store_msg(p)

Next == \E p \in Proc : \/ Get(p) \/ Send(p) \/ Receive(p)
                        \/ \E id \in MsgId : freeque(p, id)

Spec == Init /\ [][Next]_vars

-----------------------------------------------------------------------------
(***************************************************************************)
(* Properties.                                                             *)
(***************************************************************************)
(* Who holds which message: a queue, the sender that has loaded it, or the *)
(* receiver it was handed to.                                              *)
HeldByQueues ==
  UNION {{<<"queue", id, m>> : m \in Range(entries[id].q_message)} : id \in InUse}
HeldBySenders == {<<"sender", p, msg[p]>> : p \in {q \in Proc : msg[q] # NULL}}
HeldByReceivers ==
  {<<"receiver", p, r_msg[p]>> : p \in {q \in Proc : r_msg[q] \in Message}}
Held == HeldByQueues \cup HeldBySenders \cup HeldByReceivers
PageOf(h) == h[3].page

(* Every page of a message belongs to exactly one queue, or sender, or     *)
(* receiver it was handed to, and is freed exactly when the last of them   *)
(* lets go of it: no message is lost, delivered twice or leaked, whoever   *)
(* sends, waits, receives and removes queues at the same time.             *)
MessagesOwned ==
  /\ \A id \in InUse : IsInjective(entries[id].q_message)
  /\ \A h, k \in Held : PageOf(h) = PageOf(k) => h = k
  /\ pages = {PageOf(h) : h \in Held}

(* No receiver sleeps while a message it asked for is in the queue.        *)
NoMissedMessage ==
  \A id \in InUse : \A r \in Range(entries[id].q_receiver) :
    \A m \in Range(entries[id].q_message) : ~testmsg(request[r].mtype, m.mtype)

(* A sender in the list of a queue is asleep and the queue is full: making *)
(* room wakes every sender, and one that is woken does not stay in a list. *)
SendersWaitForRoom ==
  \A id \in InUse : \A s \in Range(entries[id].q_sender) :
    pc[s] = "send_sleep" /\ entries[id].sum_msg = MAX_MSGNUM

(* The state is well typed; sum_msg is the length of the list, and in_use  *)
(* the number of queues.                                                   *)
CountsExact ==
  /\ TypeOK
  /\ in_use = Cardinality(InUse)
  /\ \A id \in InUse : entries[id].sum_msg = Len(entries[id].q_message)

(* A receiver is given nothing that it did not ask for or has no room for. *)
DeliveryFits ==
  \A p \in Proc : pc[p] = "store" /\ r_msg[p] \in Message =>
    /\ testmsg(request[p].mtype, r_msg[p].mtype)
    /\ r_msg[p].size <= request[p].size

-----------------------------------------------------------------------------
(***************************************************************************)
(* The inductive invariant behind them (see MsgQueueProofs).  A process is *)
(* in a list exactly while it sleeps there, so that only its queue, or a   *)
(* waker, changes what it waits with.                                      *)
(***************************************************************************)
Lists ==
  /\ \A id \in InUse :
       /\ IsInjective(entries[id].q_receiver)
       /\ \A p \in Range(entries[id].q_receiver) : pc[p] = "recv_sleep"
       /\ \A p \in Range(entries[id].q_sender) : pc[p] = "send_sleep"
  /\ \A id, jd \in InUse : id # jd =>
       /\ Range(entries[id].q_receiver) \cap Range(entries[jd].q_receiver) = {}
       /\ Range(entries[id].q_sender) \cap Range(entries[jd].q_sender) = {}

(* What a process has, by where it is.                                     *)
Locals ==
  \A p \in Proc :
    /\ msg[p] # NULL <=> pc[p] \in {"send", "send_sleep", "spin"}
    /\ r_msg[p] \in Message => pc[p] = "store"

MsgInv == /\ CountsExact /\ Lists /\ Locals /\ MessagesOwned
          /\ NoMissedMessage /\ SendersWaitForRoom /\ DeliveryFits
=============================================================================

----------------------------- MODULE RhinoQueue -----------------------------
(***************************************************************************)
(* Message queues (k_queue.c) and buffer queues (k_buf_queue.c).  Both     *)
(* keep their messages in a ring; a message for which a task waits goes to *)
(* the task instead.  A message is a sequence of bytes; that of a kqueue_t *)
(* is a pointer, one cell.  Buffer queues have a ring of fixed blocks or   *)
(* of records with a length; a message for fixed blocks fills its block.   *)
(***************************************************************************)
EXTENDS RhinoObj, RhinoRing

CONSTANTS
    PtrMsgs, FixMsgs, DynMsgs,  \* the messages sent to each kind of queue
    MsgNum,     \* msg_num: the messages a kqueue_t or a ring of blocks holds
    DynSize,    \* the bytes of a ring of records
    QueueKinds  \* the kinds of queue created: "PTR", "FIX", "DYN"

VARIABLES
    ring, cur_num,  \* the fields of kqueue_t and kbuf_queue_t (peak_num and
                    \* min_free_buf_size are for debug only)
    msg,            \* what task->msg was given, NULL when not used
    got             \* history: the message that a receive just returned, or NULL

queueVars == <<ring, cur_num, msg, got>>

QUEUE     == "RHINO_QUEUE_OBJ_TYPE"
BUF_QUEUE == "RHINO_BUF_QUEUE_OBJ_TYPE"
IsQueue(q) == Is(q, QUEUE) \/ Is(q, BUF_QUEUE)

QueueMsgs == PtrMsgs \cup FixMsgs \cup DynMsgs

\* The last conjunct: RING_BUF_LEN bytes, those of a size_t, hold every length.
ASSUME QueueAssumption ==
    /\ QueueMsgs \subseteq Seq(Nat) /\ <<>> \notin QueueMsgs /\ NULL \notin QueueMsgs
    /\ \A m \in PtrMsgs : Len(m) = 1
    /\ \A m, n \in FixMsgs : Len(m) = Len(n)
    /\ QueueKinds \subseteq {"PTR", "FIX", "DYN"} /\ ("FIX" \in QueueKinds => FixMsgs # {})
    /\ MsgNum \in Nat \ {0} /\ DynSize \in Nat \ {0}
    /\ \A n \in 0..DynSize : Rests(n)[RingBufLen] = 0

BlkSize(msgs) == Len(CHOOSE m \in msgs : TRUE)

\* The rings that queue_create and buf_queue_create make.
NewRing(kind) ==
    CASE kind = "PTR" -> RingbufInit("FIX", MsgNum, 1)
      [] kind = "FIX" -> RingbufInit("FIX", MsgNum * BlkSize(FixMsgs), BlkSize(FixMsgs))
      [] kind = "DYN" -> RingbufInit("DYN", DynSize, DynSize)

NoRing == RingbufInit("FIX", 0, 0)

\* The messages the application sends to q.
MsgsOf(q) ==
    IF Is(q, QUEUE) THEN PtrMsgs ELSE IF ring[q].type = "FIX" THEN FixMsgs ELSE DynMsgs

\* The queues that exist when the system starts.
QueueInit ==
    /\ ring \in [Others -> {NewRing(k) : k \in QueueKinds} \cup {NoRing}]
    /\ \A o \in Others :
          IF IsQueue(o) THEN ring[o] \in {NewRing(k) : k \in
                                 QueueKinds \cap IF Is(o, QUEUE) THEN {"PTR"} ELSE {"FIX", "DYN"}}
          ELSE ring[o] = NoRing
    /\ cur_num = [o \in Others |-> 0]
    /\ msg = [t \in Tasks |-> NULL]
    /\ got = NULL

\* krhino_queue_create, krhino_fix_buf_queue_create, krhino_buf_queue_create.
QueueCreate(q, kind) ==
    /\ Calling("queue_create")
    /\ ObjCreate(q, IF kind = "PTR" THEN QUEUE ELSE BUF_QUEUE)
    /\ ring' = [ring EXCEPT ![q] = NewRing(kind)]
    /\ cur_num' = [cur_num EXCEPT ![q] = 0]
    /\ got' = NULL
    /\ UNCHANGED msg

\* krhino_queue_del, krhino_buf_queue_del: the ring is reset as well (it and
\* cur_num are set anew before they are read again).
QueueDel(q) ==
    /\ Calling("queue_del")
    /\ \E kind \in {QUEUE, BUF_QUEUE} : ObjDel(q, kind)
    /\ ring' = [ring EXCEPT ![q] = NoRing]
    /\ cur_num' = [cur_num EXCEPT ![q] = 0]
    /\ got' = NULL
    /\ UNCHANGED msg

Sending(c, q) == (Calling(c) \/ InIsr(c)) /\ IsQueue(q)

\* Mutant: the count of a queue is checked too late.
HasRoom_OffByOne(q, m) ==
    IF Is(q, QUEUE) THEN cur_num[q] <= MsgNum ELSE ~RingbufFull(ring[q], Len(m))

\* Otherwise RHINO_QUEUE_FULL or RHINO_BUF_QUEUE_FULL.
HasRoom(q, m) ==
    IF Is(q, QUEUE) THEN cur_num[q] < MsgNum ELSE ~RingbufFull(ring[q], Len(m))

\* Mutant: the message is stored although tasks wait for it.
QueueSend_Waiters(q, m) ==
    /\ Sending("queue_send", q) \/ Sending("queue_all_send", q)
    /\ HasRoom(q, m)
    /\ ring' = [ring EXCEPT ![q] = IF Is(q, QUEUE) THEN RingbufQueuePush(@, m)
                                   ELSE RingbufPush(@, m)]
    /\ cur_num' = [cur_num EXCEPT ![q] = @ + 1]
    /\ got' = NULL
    /\ UNCHANGED <<vars, obj_type, msg>>

\* msg_send (one or all) and buf_queue_send while no task waits.
QueueSend(q, m) ==
    /\ Sending("queue_send", q) \/ Sending("queue_all_send", q)
    /\ HasRoom(q, m) /\ blk_list[q] = <<>>
    /\ ring' = [ring EXCEPT ![q] = IF Is(q, QUEUE) THEN RingbufQueuePush(@, m)
                                   ELSE RingbufPush(@, m)]
    /\ cur_num' = [cur_num EXCEPT ![q] = @ + 1]
    /\ got' = NULL
    /\ UNCHANGED <<vars, obj_type, msg>>

\* krhino_queue_back_send and buf_queue_send while tasks wait: task_msg_recv.
QueueSendOne(q, m) ==
    /\ Sending("queue_send", q)
    /\ Is(q, QUEUE) => HasRoom(q, m)
    /\ ObjWakeFirst(q)
    /\ msg' = [msg EXCEPT ![Head(blk_list[q])] = m]
    /\ got' = NULL
    /\ UNCHANGED <<ring, cur_num>>

\* krhino_queue_all_send while tasks wait; all of them get the message.
QueueSendAll(q, m) ==
    /\ Sending("queue_all_send", q) /\ Is(q, QUEUE)
    /\ HasRoom(q, m)
    /\ ObjLoop(q, "queue_wake", NULL)
    /\ msg' = [t \in Tasks |-> IF t \in ToSet(blk_list[q]) THEN m ELSE msg[t]]
    /\ got' = NULL
    /\ UNCHANGED <<ring, cur_num>>

QueueWake ==
    /\ Doing("queue_wake")
    /\ ObjWakeNext(Head(todo).obj)
    /\ got' = NULL
    /\ UNCHANGED <<ring, cur_num, msg>>

\* A receive: an interrupt may make one that does not wait, and is refused
\* when the task it interrupted is cancelled.
Receiving(q) == /\ Calling("queue_recv") \/ InIsr("queue_recv")
                /\ IsQueue(q) /\ ~cancel[active]

Pop(q) == IF Is(q, QUEUE) THEN RingbufQueuePop(ring[q]) ELSE RingbufPop(ring[q])

\* krhino_queue_recv and krhino_buf_queue_recv of a message that is there.
QueueRecv(q) ==
    /\ Receiving(q) /\ cur_num[q] > 0
    /\ ring' = [ring EXCEPT ![q] = Pop(q).ring]
    /\ got' = Pop(q).data
    /\ cur_num' = [cur_num EXCEPT ![q] = @ - 1]
    /\ UNCHANGED <<vars, obj_type, msg>>

\* The same when they have to wait.
QueueRecvPend(q, ticks) ==
    /\ Receiving(q) /\ nested = 0 /\ cur_num[q] = 0
    /\ ObjPend(q, ticks)
    /\ got' = NULL
    /\ UNCHANGED <<ring, cur_num, msg>>

\* krhino_queue_flush and krhino_buf_queue_flush.
QueueFlush(q) ==
    /\ Calling("queue_flush") /\ IsQueue(q)
    /\ ring' = [ring EXCEPT ![q] = RingbufReset(@)]
    /\ cur_num' = [cur_num EXCEPT ![q] = 0]
    /\ got' = NULL
    /\ UNCHANGED <<vars, obj_type, msg>>

QueueCall ==
    \/ QueueWake
    \/ \E q \in Others :
        \/ \E kind \in QueueKinds : QueueCreate(q, kind)
        \/ QueueDel(q)
        \/ \E m \in MsgsOf(q) :
              QueueSend(q, m) \/ QueueSendOne(q, m) \/ QueueSendAll(q, m)
        \/ QueueRecv(q)
        \/ \E ticks \in Waits : QueueRecvPend(q, ticks)
        \/ QueueFlush(q)

\* The message that task t returns with, if its wait ended well.
Handed(t) == IF task_state[t] \notin Pending /\ PendStatus(t) = "BLK_FINISH"
             THEN msg[t] ELSE NULL

\* A step of the core.  The end of a receive that waited: *msg is task->msg
\* when the wait ended well.  Nothing else reads task->msg.
QueueCore ==
    /\ msg' = [t \in Tasks |-> IF call'[t] = NULL THEN NULL ELSE msg[t]]
    /\ got' = IF pc[active] = "end" /\ pc'[active] = "run" THEN Handed(active) ELSE NULL
    /\ UNCHANGED <<ring, cur_num>>
-----------------------------------------------------------------------------
\* The messages in a ring, the oldest first: what a reader makes of the bytes
\* behind the head who knows nothing of the code.
Bytes(r, p, n) == [i \in 1..n |-> r.buf[(r.head + (p + (i - 1))) % r.size]]

Skip(r) == IF r.type = "FIX" THEN 0 ELSE RingBufLen

DataLen(r, p) == IF r.type = "FIX" THEN r.blk_size ELSE LenValue(Bytes(r, p, RingBufLen))

Begins(r, n) ==
    LET start[k \in 1..n] ==
            IF k = 1 THEN 0 ELSE start[k - 1] + Skip(r) + DataLen(r, start[k - 1])
    IN  start

Contents(r, n) ==
    LET start == Begins(r, n)
    IN  [k \in 1..n |-> Bytes(r, start[k] + Skip(r), DataLen(r, start[k]))]

\* Records of one byte are the shortest; the length of each is stored with it.
Capacity == LET records == DynSize \div (RingBufLen + 1)
            IN  IF records > MsgNum THEN records ELSE MsgNum

Fifo == INSTANCE RhinoFifo WITH
            Chans <- Others, Procs <- Tasks, Msgs <- QueueMsgs, NoMsg <- NULL,
            Capacity <- Capacity,
            chan <- [q \in Others |-> IF IsQueue(q) THEN Contents(ring[q], cur_num[q]) ELSE <<>>],
            box <- [t \in Tasks |-> Handed(t)]

\* The queues implement module RhinoFifo: whatever wraps in the ring, whoever
\* waits, times out, is cancelled or deleted, every receive returns the oldest
\* message, whole, and a message that overtakes the queue finds it empty.
ImplementsFifo == Fifo!FifoSpec

\* A message is never left lying while a task waits for one.
NoMessageBesideWaiters ==
    todo = <<>> => \A q \in Others : IsQueue(q) /\ cur_num[q] > 0 => blk_list[q] = <<>>

\* The free size of a buffer queue's ring accounts for every byte, nothing was
\* written beyond the end of the memory, and only bytes of messages are in use.
RingSound ==
    \A q \in Others : IsQueue(q) =>
       /\ DOMAIN ring[q].buf = 0..ring[q].size - 1
       /\ Is(q, BUF_QUEUE) =>
             Cardinality({i \in DOMAIN ring[q].buf : ring[q].buf[i] = FREE}) = ring[q].freesize
=============================================================================

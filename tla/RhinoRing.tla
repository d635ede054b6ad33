------------------------------ MODULE RhinoRing ------------------------------
(***************************************************************************)
(* The ring buffer of k_ringbuf.c and k_ringbuf.h as pure operators.  The  *)
(* memory is a function on 0..size-1; head and tail are offsets and may be *)
(* equal to the end, which is turned into 0 only by the next access.  A    *)
(* write beyond the end would widen the domain of buf, and a byte that was *)
(* taken out becomes FREE, so that a read of it would show.                *)
(***************************************************************************)
EXTENDS Integers, Sequences

CONSTANT RingBufLen    \* RING_BUF_LEN: the bytes of a stored length

ASSUME RingAssumption == RingBufLen \in Nat \ {0}

FREE == -1

\* ringbuf_reset (what the bytes hold does not matter any more).
RingbufReset(r) ==
    [r EXCEPT !.buf = [i \in 0..r.size - 1 |-> FREE], !.head = 0, !.tail = 0,
              !.freesize = r.size]

\* ringbuf_init with a type, the length of the memory and a block size.
RingbufInit(type, size, blk_size) ==
    RingbufReset([buf |-> <<>>, size |-> size, head |-> 0, tail |-> 0,
                  freesize |-> 0, type |-> type, blk_size |-> blk_size])

Wrap(r, p) == IF p = r.size THEN 0 ELSE p

\* memcpy into and out of the buffer.
Put(buf, at, data) ==
    [i \in DOMAIN buf \cup at..at + Len(data) - 1 |->
        IF i \in at..at + Len(data) - 1 THEN data[i - at + 1] ELSE buf[i]]

Get(buf, at, n) == [i \in 1..n |-> buf[at + i - 1]]

Fill(n) == [i \in 1..n |-> FREE]

\* What is left of n behind its first bytes.
Rests(n) ==
    LET rest[i \in 0..RingBufLen] == IF i = 0 THEN n ELSE rest[i - 1] \div 256
    IN  rest

\* memcpy of a length to bytes and back: the lowest byte comes first.
LenBytes(n) == [i \in 1..RingBufLen |-> Rests(n)[i - 1] % 256]

LenValue(bytes) ==
    LET val[i \in 0..RingBufLen] ==
            IF i = 0 THEN 0 ELSE val[i - 1] * 256 + bytes[RingBufLen - i + 1]
    IN  val[RingBufLen]

\* ringbuf_queue_push and ringbuf_queue_pop: a block, without the free size.
RingbufQueuePush(r, data) ==
    LET tail == Wrap(r, r.tail)
    IN  [r EXCEPT !.buf = Put(@, tail, data), !.tail = tail + r.blk_size]

RingbufQueuePop(r) ==
    LET head == Wrap(r, r.head)
    IN  [data |-> Get(r.buf, head, r.blk_size),
         ring |-> [r EXCEPT !.buf = Put(@, head, Fill(r.blk_size)),
                            !.head = head + r.blk_size]]

\* Mutant: the bytes after the end of the buffer are not split off.
DynPut_NoSplit(r, data) ==
    LET tail == Wrap(r, r.tail)
    IN  [r EXCEPT !.buf = Put(@, tail, data), !.tail = tail + Len(data),
                  !.freesize = @ - Len(data)]

\* ringbuf_push copies the length, then the data: each is split at the end of
\* the buffer, when the free space goes on at its start.
DynPut(r, data) ==
    LET tail  == Wrap(r, r.tail)
        split == r.size - tail
        cut   == tail >= r.head /\ split < Len(data) /\ split > 0
    IN  [r EXCEPT
           !.buf = IF cut THEN Put(Put(@, tail, SubSeq(data, 1, split)),
                                   0, SubSeq(data, split + 1, Len(data)))
                   ELSE Put(@, tail, data),
           !.tail = IF cut THEN Len(data) - split ELSE tail + Len(data),
           !.freesize = @ - Len(data)]

\* ringbuf_pop reads the length, then the data, in the same two parts.
DynGet(r, n, mayCut) ==
    LET head  == Wrap(r, r.head)
        split == r.size - head
        cut   == mayCut /\ split < n
    IN  [data |-> IF cut THEN Get(r.buf, head, split) \o Get(r.buf, 0, n - split)
                  ELSE Get(r.buf, head, n),
         ring |-> [r EXCEPT
                     !.buf = IF cut THEN Put(Put(@, head, Fill(split)), 0, Fill(n - split))
                             ELSE Put(@, head, Fill(n)),
                     !.head = IF cut THEN n - split ELSE head + n,
                     !.freesize = @ + n]]

\* The condition for RHINO_RINGBUF_FULL.
RingbufFull(r, len) ==
    r.freesize < IF r.type = "FIX" THEN r.blk_size ELSE RingBufLen + len

\* ringbuf_push of a message that is not refused.
RingbufPush(r, data) ==
    IF r.type = "FIX"
    THEN [RingbufQueuePush(r, data) EXCEPT !.freesize = @ - r.blk_size]
    ELSE DynPut(DynPut(r, LenBytes(Len(data))), data)

\* ringbuf_pop; that there is a message is the caller's business.
RingbufPop(r) ==
    LET q   == RingbufQueuePop(r)
        len == DynGet(r, RingBufLen, TRUE)
        h   == len.ring
    IN  IF r.type = "FIX"
        THEN [q EXCEPT !.ring.freesize = @ + r.blk_size]
        ELSE DynGet(h, LenValue(len.data), Wrap(h, h.head) > h.tail)
=============================================================================

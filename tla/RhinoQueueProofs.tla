--------------------------- MODULE RhinoQueueProofs ---------------------------
(***************************************************************************)
(* The queues implement module RhinoFifo.  The first half is about the     *)
(* ring buffer alone: a ring is read as a line of bytes from its head on   *)
(* (At), a push appends to that line and a pop takes from its front, also  *)
(* when the bytes are split at the end of the memory; so a ring holds a    *)
(* sequence of messages (Holds), and a reader who follows the lengths that *)
(* are stored with them finds just these (ContentsAre).                    *)
(*                                                                         *)
(* The second half carries this through the composed specification: every  *)
(* queue holds as many messages as cur_num says (QueueSound), and a message *)
(* that was handed to a waiter stays with it until it returns (MsgSound).   *)
(*                                                                         *)
(* Induction is over sets of naturals, by least elements: the induction     *)
(* theorems of the library take an operator as a parameter.                 *)
(***************************************************************************)
EXTENDS RhinoIpcProofs
-----------------------------------------------------------------------------
(* Induction and recursion over the naturals, by least elements.            *)

\* Induction, over a set instead of a predicate.
LEMMA NatInd ==
    ASSUME NEW S, 0 \in S, \A n \in Nat : n \in S => n + 1 \in S
    PROVE  \A n \in Nat : n \in S
<1> DEFINE Bad == {n \in Nat : n \notin S}
<1>1. ASSUME Bad # {} PROVE FALSE
  <2> DEFINE k == Min(Bad)
  <2>1. k \in Bad /\ \A y \in Bad : k <= y
    <3>1. Bad \subseteq Nat
      OBVIOUS
    <3> HIDE DEF Bad
    <3> QED
      BY <1>1, <3>1, MinNat
  <2>2. k \in Nat /\ k \notin S
    BY <2>1
  <2> HIDE DEF k
  <2>3. k # 0 /\ k - 1 \in Nat /\ ~(k <= k - 1)
    BY <2>2
  <2>4. k - 1 \in S
    BY <2>1, <2>3
  <2>5. (k - 1) + 1 \in S
    BY <2>3, <2>4
  <2> QED
    BY <2>2, <2>5
<1> QED
  BY <1>1

\* The same up to a bound.
LEMMA IndUpTo ==
    ASSUME NEW m \in Nat, NEW S, 0 \in S, \A n \in 0..m - 1 : n \in S => n + 1 \in S
    PROVE  \A n \in 0..m : n \in S
<1> DEFINE T == {n \in Nat : n <= m => n \in S}
<1>1. 0 \in T
  OBVIOUS
<1>2. ASSUME NEW n \in Nat, n \in T PROVE n + 1 \in T
  BY <1>2
<1>3. \A n \in Nat : n \in T
  <2> HIDE DEF T
  <2> QED
    BY <1>1, <1>2, NatInd
<1> QED
  BY <1>3
-----------------------------------------------------------------------------
(* The bytes of a length.                                                   *)

\* The recursive function of Rests is defined.
LEMMA RestsExist ==
    ASSUME NEW n \in Nat
    PROVE  \E f : f = [i \in 0..RingBufLen |-> IF i = 0 THEN n ELSE f[i - 1] \div 256]
<1> DEFINE Ex(m) == \E f : f = [i \in 0..m |-> IF i = 0 THEN n ELSE f[i - 1] \div 256]
           S == {m \in Nat : Ex(m)}
<1>1. Ex(0)
  <2> DEFINE f == [i \in 0..0 |-> n]
  <2>1. f = [i \in 0..0 |-> IF i = 0 THEN n ELSE f[i - 1] \div 256]
    OBVIOUS
  <2> QED
    BY <2>1
<1>2. ASSUME NEW k \in Nat, Ex(k) PROVE Ex(k + 1)
  <2>1. PICK f : f = [i \in 0..k |-> IF i = 0 THEN n ELSE f[i - 1] \div 256]
    BY <1>2
  <2> DEFINE g == [i \in 0..k + 1 |-> IF i = k + 1 THEN f[k] \div 256 ELSE f[i]]
  <2>2. ASSUME NEW i \in 0..k + 1 PROVE g[i] = IF i = 0 THEN n ELSE g[i - 1] \div 256
    <3>1. CASE i = k + 1
      <4>1. k \in 0..k + 1 /\ k # k + 1 /\ i # 0 /\ i - 1 = k
        BY <3>1
      <4> QED
        BY <3>1, <4>1
    <3>2. CASE i # k + 1 /\ i # 0
      <4>1. i \in 0..k /\ i - 1 \in 0..k /\ i - 1 \in 0..k + 1 /\ i - 1 # k + 1
        BY <3>2
      <4>2. g[i] = f[i] /\ g[i - 1] = f[i - 1]
        BY <4>1, <3>2
      <4> QED
        BY <2>1, <3>2, <4>1, <4>2
    <3>3. CASE i # k + 1 /\ i = 0
      <4>1. 0 \in 0..k
        OBVIOUS
      <4> QED
        BY <2>1, <3>3, <4>1
    <3> QED
      BY <3>1, <3>2, <3>3
  <2>3. g = [i \in 0..k + 1 |-> IF i = 0 THEN n ELSE g[i - 1] \div 256]
    BY <2>2
  <2> HIDE DEF g
  <2> QED
    BY <2>3
<1>3. 0 \in S
  BY <1>1
<1>4. ASSUME NEW k \in Nat, k \in S PROVE k + 1 \in S
  <2>1. Ex(k + 1)
    BY <1>2, <1>4
  <2> QED
    BY <2>1
<1>5. \A m \in Nat : m \in S
  <2> HIDE DEF S
  <2> QED
    BY <1>3, <1>4, NatInd
<1>6. Ex(RingBufLen)
  BY <1>5, RingAssumption
<1> QED
  BY <1>6

\* What is left behind i bytes.
LEMMA RestsFn ==
    ASSUME NEW n \in Nat
    PROVE  /\ Rests(n) \in [0..RingBufLen -> Nat]
           /\ Rests(n)[0] = n
           /\ \A i \in 1..RingBufLen : Rests(n)[i] = Rests(n)[i - 1] \div 256
<1> DEFINE r == Rests(n)
<1>1. r = [i \in 0..RingBufLen |-> IF i = 0 THEN n ELSE r[i - 1] \div 256]
  <2>1. PICK f : f = [i \in 0..RingBufLen |-> IF i = 0 THEN n ELSE f[i - 1] \div 256]
    BY RestsExist
  <2> QED
    BY <2>1, Zenon DEF Rests
<1> HIDE DEF r
<1>2. DOMAIN r = 0..RingBufLen /\ 0 \in 0..RingBufLen /\ RingBufLen \in Nat
  BY <1>1, RingAssumption
<1>3. r[0] = n
  BY <1>1, <1>2
<1>4. ASSUME NEW i \in 1..RingBufLen PROVE r[i] = r[i - 1] \div 256
  <2>1. i \in 0..RingBufLen /\ i # 0
    BY <1>2
  <2> QED
    BY <1>1, <2>1
<1> DEFINE S == {i \in Nat : i \in 0..RingBufLen /\ r[i] \in Nat}
<1>5. 0 \in S
  BY <1>2, <1>3
<1>6. ASSUME NEW i \in 0..RingBufLen - 1, i \in S PROVE i + 1 \in S
  <2>1. i + 1 \in 1..RingBufLen /\ (i + 1) - 1 = i /\ r[i] \in Nat
    BY <1>2, <1>6
  <2>2. r[i + 1] = r[i] \div 256
    BY <1>4, <2>1
  <2> QED
    BY <2>1, <2>2
<1>7. \A i \in 0..RingBufLen : i \in S
  <2> HIDE DEF S
  <2> QED
    BY <1>2, <1>5, <1>6, IndUpTo
<1>8. r \in [0..RingBufLen -> Nat]
  BY <1>1, <1>2, <1>7
<1> QED
  BY <1>3, <1>4, <1>8 DEF r

\* They are bytes.
LEMMA LenBytesType ==
    ASSUME NEW n \in Nat
    PROVE  LenBytes(n) \in [1..RingBufLen -> 0..255]
<1>1. ASSUME NEW i \in 1..RingBufLen PROVE Rests(n)[i - 1] % 256 \in 0..255
  <2>1. PICK f : f = Rests(n) /\ f \in [0..RingBufLen -> Nat]
    BY RestsFn
  <2>2. PICK j \in 0..RingBufLen : j = i - 1
    BY RingAssumption
  <2>3. f[j] \in Nat
    BY <2>1
  <2>4. f[j] % 256 \in 0..255
    BY <2>3
  <2> QED
    BY <2>1, <2>2, <2>4
<1> QED
  BY <1>1 DEF LenBytes

\* So is the recursive function of LenValue.
LEMMA ValueExists ==
    ASSUME NEW bytes
    PROVE  \E f : f = [i \in 0..RingBufLen |->
                          IF i = 0 THEN 0 ELSE f[i - 1] * 256 + bytes[RingBufLen - i + 1]]
<1> DEFINE Ex(m) == \E f : f = [i \in 0..m |->
                          IF i = 0 THEN 0 ELSE f[i - 1] * 256 + bytes[RingBufLen - i + 1]]
           S == {m \in Nat : Ex(m)}
<1>1. Ex(0)
  <2> DEFINE f == [i \in 0..0 |-> 0]
  <2>1. f = [i \in 0..0 |-> IF i = 0 THEN 0 ELSE f[i - 1] * 256 + bytes[RingBufLen - i + 1]]
    OBVIOUS
  <2> QED
    BY <2>1
<1>2. ASSUME NEW k \in Nat, Ex(k) PROVE Ex(k + 1)
  <2>1. PICK f : f = [i \in 0..k |->
                      IF i = 0 THEN 0 ELSE f[i - 1] * 256 + bytes[RingBufLen - i + 1]]
    BY <1>2
  <2> DEFINE new == f[k] * 256 + bytes[RingBufLen - (k + 1) + 1]
             g == [i \in 0..k + 1 |-> IF i = k + 1 THEN new ELSE f[i]]
  <2>2. ASSUME NEW i \in 0..k + 1
        PROVE  g[i] = IF i = 0 THEN 0 ELSE g[i - 1] * 256 + bytes[RingBufLen - i + 1]
    <3>1. CASE i = k + 1
      <4>1. k \in 0..k + 1 /\ k # k + 1 /\ i # 0 /\ i - 1 = k
        BY <3>1
      <4>2. g[i] = new /\ g[k] = f[k]
        BY <3>1, <4>1
      <4> QED
        BY <3>1, <4>1, <4>2
    <3>2. CASE i # k + 1 /\ i # 0
      <4>1. i \in 0..k /\ i - 1 \in 0..k /\ i - 1 \in 0..k + 1 /\ i - 1 # k + 1
        BY <3>2
      <4>2. g[i] = f[i] /\ g[i - 1] = f[i - 1]
        BY <4>1, <3>2
      <4> QED
        BY <2>1, <3>2, <4>1, <4>2
    <3>3. CASE i # k + 1 /\ i = 0
      <4>1. 0 \in 0..k
        OBVIOUS
      <4> QED
        BY <2>1, <3>3, <4>1
    <3> QED
      BY <3>1, <3>2, <3>3
  <2>3. g = [i \in 0..k + 1 |->
              IF i = 0 THEN 0 ELSE g[i - 1] * 256 + bytes[RingBufLen - i + 1]]
    BY <2>2
  <2> HIDE DEF g
  <2> QED
    BY <2>3
<1>3. 0 \in S
  BY <1>1
<1>4. ASSUME NEW k \in Nat, k \in S PROVE k + 1 \in S
  <2>1. Ex(k + 1)
    BY <1>2, <1>4
  <2> QED
    BY <2>1
<1>5. \A m \in Nat : m \in S
  <2> HIDE DEF S
  <2> QED
    BY <1>3, <1>4, NatInd
<1>6. Ex(RingBufLen)
  BY <1>5, RingAssumption
<1> QED
  BY <1>6

\* What LenValue computes, byte by byte from the highest.
LEMMA LenValueFn ==
    ASSUME NEW bytes
    PROVE  \E v : /\ v[0] = 0
                  /\ \A j \in 1..RingBufLen :
                        v[j] = v[j - 1] * 256 + bytes[RingBufLen - j + 1]
                  /\ LenValue(bytes) = v[RingBufLen]
<1> DEFINE v == CHOOSE f : f = [i \in 0..RingBufLen |->
                       IF i = 0 THEN 0 ELSE f[i - 1] * 256 + bytes[RingBufLen - i + 1]]
<1>1. v = [i \in 0..RingBufLen |->
              IF i = 0 THEN 0 ELSE v[i - 1] * 256 + bytes[RingBufLen - i + 1]]
  <2>1. \E f : f = [i \in 0..RingBufLen |->
                       IF i = 0 THEN 0 ELSE f[i - 1] * 256 + bytes[RingBufLen - i + 1]]
    BY ValueExists
  <2> QED
    BY <2>1, Zenon
<1>2. LenValue(bytes) = v[RingBufLen]
  BY DEF LenValue
<1> HIDE DEF v
<1>3. v[0] = 0
  BY <1>1, RingAssumption
<1>4. ASSUME NEW j \in 1..RingBufLen PROVE v[j] = v[j - 1] * 256 + bytes[RingBufLen - j + 1]
  <2>1. j \in 0..RingBufLen /\ j # 0
    BY RingAssumption
  <2> QED
    BY <1>1, <2>1
<1> QED
  BY <1>2, <1>3, <1>4

\* The length that ringbuf_pop reads is the one that ringbuf_push wrote.
LEMMA LengthReadBack ==
    ASSUME NEW n \in Nat, Rests(n)[RingBufLen] = 0
    PROVE  LenValue(LenBytes(n)) = n
<1> DEFINE L == RingBufLen
           r == Rests(n)
           b == LenBytes(n)
<1>1. PICK v : /\ v[0] = 0
               /\ \A j \in 1..L : v[j] = v[j - 1] * 256 + b[L - j + 1]
               /\ LenValue(b) = v[L]
  BY LenValueFn
<1>2. /\ r \in [0..L -> Nat] /\ r[0] = n /\ r[L] = 0
      /\ \A i \in 1..L : r[i] = r[i - 1] \div 256
  BY RestsFn
<1>3. \A i \in 1..L : b[i] = r[i - 1] % 256
  BY DEF LenBytes
<1>4. L \in Nat /\ 0 \in 0..L
  BY RingAssumption
<1> HIDE DEF r, L, b
<1> DEFINE S == {i \in Nat : i \in 0..L /\ v[i] = r[L - i]}
<1>5. 0 \in S
  BY <1>1, <1>2, <1>4
<1>6. ASSUME NEW i \in 0..L - 1, i \in S PROVE i + 1 \in S
  <2>1. PICK k : k = L - i
    OBVIOUS
  <2>2. /\ k \in 1..L /\ k - 1 \in 0..L /\ i + 1 \in 1..L /\ (i + 1) - 1 = i
        /\ L - (i + 1) + 1 = k /\ L - (i + 1) = k - 1 /\ v[i] = r[k]
    BY <1>4, <1>6, <2>1
  <2>3. v[i + 1] = v[(i + 1) - 1] * 256 + b[L - (i + 1) + 1]
    BY <1>1, <2>2
  <2>4. v[i + 1] = r[k] * 256 + b[k]
    BY <2>2, <2>3
  <2>5. b[k] = r[k - 1] % 256 /\ r[k] = r[k - 1] \div 256 /\ r[k - 1] \in Nat
    BY <1>2, <1>3, <2>2
  <2>6. v[i + 1] = r[k - 1]
    BY <2>4, <2>5
  <2> QED
    BY <1>4, <2>2, <2>6
<1>7. \A i \in 0..L : i \in S
  <2> HIDE DEF S
  <2> QED
    BY <1>4, <1>5, <1>6, IndUpTo
<1>8. v[L] = r[L - L] /\ L - L = 0
  BY <1>4, <1>7
<1> QED
  BY <1>1, <1>2, <1>8 DEF b
-----------------------------------------------------------------------------
(* The bytes of a ring from its head on.                                    *)

\* A ring is a record.
IsRing(r) ==
    r = [buf |-> r.buf, size |-> r.size, head |-> r.head, tail |-> r.tail,
         freesize |-> r.freesize, type |-> r.type, blk_size |-> r.blk_size]

\* An offset goes on at the start of the memory, and the place p behind the head.
Turn(n, p) == IF p < n THEN p ELSE p - n
\* The offset of the byte p behind the head.
At(r, p) == Turn(r.size, Wrap(r, r.head) + p)

\* The first "used" bytes from the head on are bytes of messages, the others free.
RingOK(r, used) ==
    /\ IsRing(r) /\ r.size \in Nat \ {0}
    /\ r.head \in 0..r.size /\ r.tail \in 0..r.size /\ used \in 0..r.size
    /\ r.buf \in [0..r.size - 1 -> Nat \cup {FREE}]
    /\ Wrap(r, r.tail) = At(r, used)
    /\ \A p \in 0..r.size - 1 : r.buf[At(r, p)] = FREE <=> p >= used

\* Seen from the head of r, "new" is "old" but for the data copied to place p.
Copied(r, old, p, data, new) ==
    /\ new \in [0..r.size - 1 -> Nat \cup {FREE}]
    /\ \A q \in 0..r.size - 1 :
          /\ p <= q /\ q < p + Len(data) => new[At(r, q)] = data[q - p + 1]
          /\ ~(p <= q /\ q < p + Len(data)) => new[At(r, q)] = old[At(r, q)]

\* "new" is the memory buf of n bytes after data was copied to the offset at.
Spliced(n, buf, at, data, new) ==
    /\ new \in [0..n - 1 -> Nat \cup {FREE}]
    /\ \A i \in 0..n - 1 :
          /\ at <= i /\ i < at + Len(data) => new[i] = data[i - at + 1]
          /\ ~(at <= i /\ i < at + Len(data)) => new[i] = buf[i]

\* memcpy that stays within the memory.
LEMMA PutFits ==
    ASSUME NEW n \in Nat, NEW buf, buf \in [0..n - 1 -> Nat \cup {FREE}],
           NEW data, Len(data) \in Nat, \A j \in 1..Len(data) : data[j] \in Nat \cup {FREE},
           NEW at \in Nat, at + Len(data) <= n
    PROVE  Spliced(n, buf, at, data, Put(buf, at, data))
<1> DEFINE len == Len(data)
<1> DEFINE new == [i \in 0..n - 1 |-> IF i \in at..at + len - 1 THEN data[i - at + 1]
                                      ELSE buf[i]]
<1>1. DOMAIN buf \cup at..at + len - 1 = 0..n - 1
  OBVIOUS
<1>2. Put(buf, at, data) = new
  BY <1>1 DEF Put
<1>3. ASSUME NEW i \in 0..n - 1 PROVE new[i] \in Nat \cup {FREE}
  BY DEF FREE
<1>4. new \in [0..n - 1 -> Nat \cup {FREE}]
  BY <1>3
<1> QED
  BY <1>2, <1>4 DEF Spliced

\* Where the place p behind the head is.
LEMMA AtRange ==
    ASSUME NEW r, NEW used, RingOK(r, used)
    PROVE  /\ Wrap(r, r.head) \in 0..r.size - 1 /\ Wrap(r, r.tail) \in 0..r.size - 1
           /\ \A p \in 0..r.size - 1 : At(r, p) \in 0..r.size - 1
           /\ \A p, q \in 0..r.size - 1 : At(r, p) = At(r, q) => p = q
           /\ \A i \in 0..r.size - 1 : \E p \in 0..r.size - 1 : At(r, p) = i
<1> DEFINE n == r.size
           h == Wrap(r, r.head)
<1>1. n \in Nat \ {0} /\ h \in 0..n - 1 /\ Wrap(r, r.tail) \in 0..n - 1
  BY DEF RingOK, Wrap
<1>2. \A p : At(r, p) = Turn(n, h + p)
  BY DEF At
<1> HIDE DEF n, h
<1>3. \A p \in 0..n - 1 : Turn(n, h + p) \in 0..n - 1
  BY <1>1 DEF Turn
<1>4. \A p, q \in 0..n - 1 : Turn(n, h + p) = Turn(n, h + q) => p = q
  BY <1>1 DEF Turn
<1>5. ASSUME NEW i \in 0..n - 1 PROVE \E p \in 0..n - 1 : Turn(n, h + p) = i
  <2>1. CASE i >= h
    <3>1. i - h \in 0..n - 1 /\ Turn(n, h + (i - h)) = i
      BY <1>1, <2>1 DEF Turn
    <3> QED
      BY <3>1
  <2>2. CASE i < h
    <3>1. i + n - h \in 0..n - 1 /\ Turn(n, h + (i + n - h)) = i
      BY <1>1, <2>2 DEF Turn
    <3> QED
      BY <3>1
  <2> QED
    BY <1>1, <2>1, <2>2
<1>6. /\ \A p \in 0..n - 1 : At(r, p) \in 0..n - 1
      /\ \A p, q \in 0..n - 1 : At(r, p) = At(r, q) => p = q
      /\ \A i \in 0..n - 1 : \E p \in 0..n - 1 : At(r, p) = i
  BY <1>2, <1>3, <1>4, <1>5
<1> QED
  BY <1>1, <1>6 DEF n, h

\* One memcpy, to place p, that need not be split.
LEMMA PutWhole ==
    ASSUME NEW r, NEW used, RingOK(r, used), NEW old \in [0..r.size - 1 -> Nat \cup {FREE}],
           NEW p \in 0..r.size, NEW data, Len(data) \in Nat,
           \A j \in 1..Len(data) : data[j] \in Nat \cup {FREE},
           p + Len(data) <= r.size, At(r, p) + Len(data) <= r.size
    PROVE  Copied(r, old, p, data, Put(old, At(r, p), data))
<1> DEFINE n == r.size
           h == Wrap(r, r.head)
           t == At(r, p)
           new == Put(old, t, data)
           len == Len(data)
<1>1. /\ n \in Nat \ {0} /\ h \in 0..n - 1
      /\ \A q \in 0..n - 1 : At(r, q) \in 0..n - 1
  BY AtRange DEF RingOK
<1>2. /\ \A q : At(r, q) = Turn(n, h + q)
      /\ t = Turn(n, h + p) /\ p \in 0..n
  BY DEF At
<1>3. t \in Nat
  BY <1>1, <1>2, SMTT(30) DEF Turn
<1>4. t + len <= n /\ p + len <= n /\ len \in Nat
  OBVIOUS
<1>5. /\ new \in [0..n - 1 -> Nat \cup {FREE}]
      /\ \A i \in 0..n - 1 :
            /\ t <= i /\ i < t + len => new[i] = data[i - t + 1]
            /\ ~(t <= i /\ i < t + len) => new[i] = old[i]
  <2>1. old \in [0..n - 1 -> Nat \cup {FREE}] /\ n \in Nat /\ t + len <= n
    BY <1>1
  <2>2. Spliced(n, old, t, data, new)
    BY <1>3, <2>1, PutFits
  <2> QED
    BY <2>2 DEF Spliced
<1> HIDE DEF n, h, t, new, len
<1>6. ASSUME NEW q \in 0..n - 1
      PROVE  /\ (t <= Turn(n, h + q) /\ Turn(n, h + q) < t + len) <=> (p <= q /\ q < p + len)
             /\ p <= q /\ q < p + len => Turn(n, h + q) - t = q - p
  <2>1. /\ len \in Nat /\ n \in Nat /\ h \in Nat /\ h < n /\ p \in Nat /\ q \in Nat /\ q < n
        /\ p + len <= n /\ Turn(n, h + p) + len <= n /\ t = Turn(n, h + p)
    BY <1>1, <1>2, <1>4
  <2> QED
    BY <2>1 DEF Turn
<1>7. ASSUME NEW q \in 0..n - 1
      PROVE  /\ p <= q /\ q < p + len => new[At(r, q)] = data[q - p + 1]
             /\ ~(p <= q /\ q < p + len) => new[At(r, q)] = old[At(r, q)]
  <2>1. At(r, q) \in 0..n - 1 /\ At(r, q) = Turn(n, h + q)
    BY <1>1, <1>2
  <2>2. CASE p <= q /\ q < p + len
    BY <1>5, <1>6, <2>1, <2>2
  <2>3. CASE ~(p <= q /\ q < p + len)
    BY <1>5, <1>6, <2>1, <2>3
  <2> QED
    BY <2>2, <2>3
<1> QED
  BY <1>5, <1>7 DEF Copied, n, new, t, len

\* A memcpy in two parts.
LEMMA PutSplit ==
    ASSUME NEW r, NEW used, RingOK(r, used), NEW old \in [0..r.size - 1 -> Nat \cup {FREE}],
           NEW p \in 0..r.size, NEW data \in Seq(Nat \cup {FREE}), NEW split \in 1..Len(data),
           p + Len(data) <= r.size, At(r, p) + split = r.size, split < Len(data)
    PROVE  Copied(r, old, p, data,
                  Put(Put(old, At(r, p), SubSeq(data, 1, split)),
                      0, SubSeq(data, split + 1, Len(data))))
<1> DEFINE n == r.size
           h == Wrap(r, r.head)
           d1 == SubSeq(data, 1, split)
           d2 == SubSeq(data, split + 1, Len(data))
           b1 == Put(old, At(r, p), d1)
           b2 == Put(b1, 0, d2)
           len == Len(data)
<1>1. /\ n \in Nat \ {0} /\ h \in 0..n - 1 /\ len \in Nat /\ split \in Nat
      /\ 1 <= split /\ split < len /\ p + len <= n /\ p \in Nat
  BY AtRange, SMTT(30) DEF RingOK
<1>2. /\ Len(d1) = split /\ \A j \in 1..split : d1[j] = data[j] /\ d1[j] \in Nat \cup {FREE}
      /\ Len(d2) = len - split
      /\ \A j \in 1..len - split : d2[j] = data[split + j] /\ d2[j] \in Nat \cup {FREE}
  BY <1>1
<1>3. \A q : At(r, q) = Turn(n, h + q)
  BY DEF At
<1>4. At(r, p + split) = 0 /\ p + split \in 0..n
  <2>1. Turn(n, h + p) + split = n
    BY <1>3
  <2> HIDE DEF n, h, len
  <2> QED
    BY <1>1, <1>3, <2>1 DEF Turn
<1>5. Copied(r, old, p, d1, b1)
  <2>1. Len(d1) \in Nat /\ p + Len(d1) <= r.size /\ At(r, p) + Len(d1) <= r.size
    BY <1>1, <1>2, SMTT(30)
  <2>2. \A j \in 1..Len(d1) : d1[j] \in Nat \cup {FREE}
    BY <1>2
  <2> HIDE DEF d1
  <2> QED
    BY <2>1, <2>2, PutWhole
<1>6. Copied(r, b1, p + split, d2, b2)
  <2>1. /\ Len(d2) \in Nat /\ (p + split) + Len(d2) <= r.size
        /\ At(r, p + split) + Len(d2) <= r.size
    <3>1. Len(d2) = len - split /\ At(r, p + split) = 0 /\ n = r.size
      BY <1>2, <1>4
    <3> HIDE DEF n, d2, len, h
    <3>2. /\ Len(d2) \in Nat /\ (p + split) + Len(d2) <= n
          /\ At(r, p + split) + Len(d2) <= n
      BY <1>1, <3>1
    <3> QED
      BY <3>1, <3>2
  <2>2. \A j \in 1..Len(d2) : d2[j] \in Nat \cup {FREE}
    BY <1>2
  <2>3. b1 \in [0..r.size - 1 -> Nat \cup {FREE}]
    BY <1>5 DEF Copied
  <2> HIDE DEF d2, b1
  <2>4. Copied(r, b1, p + split, d2, Put(b1, At(r, p + split), d2))
    BY <1>4, <2>1, <2>2, <2>3, PutWhole
  <2> QED
    BY <1>4, <2>4
<1>7. ASSUME NEW q \in 0..n - 1
      PROVE  /\ p <= q /\ q < p + len => b2[At(r, q)] = data[q - p + 1]
             /\ ~(p <= q /\ q < p + len) => b2[At(r, q)] = old[At(r, q)]
  <2>1. /\ p <= q /\ q < p + split => b1[At(r, q)] = d1[q - p + 1]
        /\ ~(p <= q /\ q < p + split) => b1[At(r, q)] = old[At(r, q)]
    BY <1>2, <1>5 DEF Copied
  <2>2. /\ p + split <= q /\ q < p + len => b2[At(r, q)] = d2[q - (p + split) + 1]
        /\ ~(p + split <= q /\ q < p + len) => b2[At(r, q)] = b1[At(r, q)]
    <3>1. (p + split) + Len(d2) = p + len
      BY <1>1, <1>2
    <3> QED
      BY <1>6, <3>1 DEF Copied
  <2> HIDE DEF n, h, d1, d2, b1, b2, len
  <2>3. CASE p <= q /\ q < p + split
    <3>1. q - p + 1 \in 1..split
      BY <1>1, <2>3
    <3> QED
      BY <1>1, <1>2, <2>1, <2>2, <2>3, <3>1
  <2>4. CASE p + split <= q /\ q < p + len
    <3>1. PICK j : j = q - (p + split) + 1
      OBVIOUS
    <3>2. j \in 1..len - split /\ split + j = q - p + 1
      BY <1>1, <2>4, <3>1
    <3>3. b2[At(r, q)] = data[split + j]
      BY <1>2, <2>2, <2>4, <3>1, <3>2
    <3> QED
      BY <1>1, <2>4, <3>2, <3>3, SMTT(30)
  <2>5. CASE ~(p <= q /\ q < p + len)
    BY <1>1, <2>1, <2>2, <2>5
  <2> QED
    BY <1>1, <2>3, <2>4, <2>5
<1>8. b2 \in [0..r.size - 1 -> Nat \cup {FREE}]
  BY <1>6 DEF Copied
<1> QED
  BY <1>7, <1>8 DEF Copied
-----------------------------------------------------------------------------
(* What a push does to the ring.                                            *)

\* r2 is the ring r, with "used" bytes, after data was added behind them.
Added(r, used, data, r2) ==
    /\ RingOK(r2, used + Len(data))
    /\ r2.size = r.size /\ r2.head = r.head /\ r2.type = r.type /\ r2.blk_size = r.blk_size
    /\ Copied(r, r.buf, used, data, r2.buf)

\* It is when the bytes are there and the tail has moved on.
LEMMA AddedRing ==
    ASSUME NEW r, NEW used, RingOK(r, used), NEW data \in Seq(Nat), used + Len(data) <= r.size,
           NEW r2, IsRing(r2), r2.size = r.size, r2.head = r.head, r2.type = r.type,
           r2.blk_size = r.blk_size, Copied(r, r.buf, used, data, r2.buf),
           r2.tail \in 0..r.size, Wrap(r, r2.tail) = At(r, used + Len(data))
    PROVE  Added(r, used, data, r2)
<1> DEFINE n == r.size
           len == Len(data)
<1>1. /\ n \in Nat \ {0} /\ used \in Nat /\ len \in Nat /\ used + len <= n
      /\ r.head \in 0..n
  BY DEF RingOK
<1>2. \A q : At(r2, q) = At(r, q)
  BY DEF At, Wrap
<1>3. Wrap(r2, r2.tail) = Wrap(r, r2.tail)
  BY DEF Wrap
<1>4. ASSUME NEW q \in 0..n - 1
      PROVE  r2.buf[At(r2, q)] = FREE <=> q >= used + len
  <2>1. /\ used <= q /\ q < used + len => r2.buf[At(r, q)] = data[q - used + 1]
        /\ ~(used <= q /\ q < used + len) => r2.buf[At(r, q)] = r.buf[At(r, q)]
    BY DEF Copied
  <2>2. r.buf[At(r, q)] = FREE <=> q >= used
    BY DEF RingOK
  <2>3. CASE used <= q /\ q < used + len
    <3>1. q - used + 1 \in 1..len
      BY <1>1, <2>3
    <3>2. data[q - used + 1] \in Nat
      BY <3>1
    <3> QED
      BY <1>1, <1>2, <2>1, <2>3, <3>2, SMTT(30) DEF FREE
  <2>4. CASE ~(used <= q /\ q < used + len)
    BY <1>1, <1>2, <2>1, <2>2, <2>4
  <2> QED
    BY <2>3, <2>4
<1>5. r2.buf \in [0..n - 1 -> Nat \cup {FREE}]
  BY DEF Copied
<1>6. RingOK(r2, used + len)
  BY <1>1, <1>2, <1>3, <1>4, <1>5 DEF RingOK
<1> QED
  BY <1>6 DEF Added

\* An offset that moves on within the memory or up to its end.
LEMMA WrapMoves ==
    ASSUME NEW r, NEW used, RingOK(r, used), NEW k \in Nat, used + k <= r.size,
           At(r, used) + k <= r.size
    PROVE  At(r, used) + k \in 0..r.size /\ Wrap(r, At(r, used) + k) = At(r, used + k)
<1> DEFINE n == r.size
           h == Wrap(r, r.head)
<1>1. n \in Nat \ {0} /\ h \in 0..n - 1 /\ used \in 0..n
  BY AtRange DEF RingOK
<1>2. /\ \A q : At(r, q) = Turn(n, h + q)
      /\ \A q : Wrap(r, q) = IF q = n THEN 0 ELSE q
  BY DEF At, Wrap
<1>3. used + k <= n /\ Turn(n, h + used) + k <= n
  BY <1>2
<1> HIDE DEF n, h
<1>4. Turn(n, h + used) + k \in 0..n
  BY <1>1, <1>3 DEF Turn
<1>5. Turn(n, h + used) + k # n => Turn(n, h + used) + k = Turn(n, h + (used + k))
  BY <1>1, <1>3 DEF Turn
<1>6. Turn(n, h + used) + k = n => 0 = Turn(n, h + (used + k))
  BY <1>1, <1>3 DEF Turn
<1>7. Wrap(r, Turn(n, h + used) + k) = Turn(n, h + (used + k))
  BY <1>2, <1>5, <1>6
<1> QED
  BY <1>2, <1>4, <1>7 DEF n

\* A block is copied in one piece.
LEMMA QueuePushAdds ==
    ASSUME NEW r, NEW used, RingOK(r, used), NEW data \in Seq(Nat), Len(data) = r.blk_size,
           used + Len(data) <= r.size, At(r, used) + Len(data) <= r.size
    PROVE  /\ Added(r, used, data, RingbufQueuePush(r, data))
           /\ RingbufQueuePush(r, data).freesize = r.freesize
<1> DEFINE r2 == RingbufQueuePush(r, data)
           t == At(r, used)
<1>1. IsRing(r) /\ Wrap(r, r.tail) = t
  BY DEF RingOK
<1>2. r2 = [r EXCEPT !.buf = Put(r.buf, t, data), !.tail = t + r.blk_size]
  BY <1>1 DEF RingbufQueuePush
<1>3. /\ IsRing(r2) /\ r2.size = r.size /\ r2.head = r.head /\ r2.type = r.type
      /\ r2.blk_size = r.blk_size /\ r2.freesize = r.freesize
      /\ r2.buf = Put(r.buf, t, data) /\ r2.tail = t + r.blk_size
  BY <1>1, <1>2 DEF IsRing
<1>4. /\ Len(data) \in Nat /\ \A j \in 1..Len(data) : data[j] \in Nat \cup {FREE}
      /\ r.buf \in [0..r.size - 1 -> Nat \cup {FREE}] /\ used \in 0..r.size
  BY SMTT(30) DEF RingOK
<1> HIDE DEF r2
<1>5. Copied(r, r.buf, used, data, r2.buf)
  BY <1>3, <1>4, PutWhole
<1>6. r2.tail \in 0..r.size /\ Wrap(r, r2.tail) = At(r, used + Len(data))
  BY <1>3, <1>4, WrapMoves
<1>7. Added(r, used, data, r2)
  BY <1>3, <1>5, <1>6, AddedRing
<1> QED
  BY <1>3, <1>7 DEF r2

\* A length or the data of a record are copied in one piece or in two.
LEMMA DynPutAdds ==
    ASSUME NEW r, NEW used, RingOK(r, used), NEW data \in Seq(Nat),
           used + Len(data) <= r.size
    PROVE  /\ Added(r, used, data, DynPut(r, data))
           /\ DynPut(r, data).freesize = r.freesize - Len(data)
<1> DEFINE r2 == DynPut(r, data)
           t == At(r, used)
           n == r.size
           h == Wrap(r, r.head)
           len == Len(data)
           split == n - t
           cut == t >= r.head /\ split < len /\ split > 0
<1>1. IsRing(r) /\ Wrap(r, r.tail) = t
  BY DEF RingOK
<1>2. r2 = [r EXCEPT
              !.buf = IF cut THEN Put(Put(r.buf, t, SubSeq(data, 1, split)),
                                      0, SubSeq(data, split + 1, len))
                      ELSE Put(r.buf, t, data),
              !.tail = IF cut THEN len - split ELSE t + len,
              !.freesize = r.freesize - len]
  BY <1>1 DEF DynPut
<1>3. /\ IsRing(r2) /\ r2.size = r.size /\ r2.head = r.head /\ r2.type = r.type
      /\ r2.blk_size = r.blk_size /\ r2.freesize = r.freesize - len
      /\ r2.buf = IF cut THEN Put(Put(r.buf, t, SubSeq(data, 1, split)),
                                  0, SubSeq(data, split + 1, len))
                  ELSE Put(r.buf, t, data)
      /\ r2.tail = IF cut THEN len - split ELSE t + len
  BY <1>1, <1>2 DEF IsRing
<1>4. /\ len \in Nat /\ \A j \in 1..len : data[j] \in Nat \cup {FREE}
      /\ r.buf \in [0..n - 1 -> Nat \cup {FREE}] /\ used \in 0..n
      /\ n \in Nat \ {0} /\ h \in 0..n - 1 /\ t \in 0..n - 1 /\ used + len <= n
      /\ r.head \in 0..n /\ h = IF r.head = n THEN 0 ELSE r.head
  BY <1>1, AtRange, SMTT(30) DEF RingOK, Wrap
<1>5. t = Turn(n, h + used) /\ At(r, used + len) = Turn(n, h + (used + len))
  BY DEF At
<1> HIDE DEF r2, cut
<1>6. CASE cut
  <2>1. /\ r2.buf = Put(Put(r.buf, t, SubSeq(data, 1, split)), 0, SubSeq(data, split + 1, len))
        /\ r2.tail = len - split
    BY <1>3, <1>6
  <2>2. split \in 1..len /\ split < len /\ t + split = n /\ t >= r.head
    <3> HIDE DEF n, t, len, h
    <3> QED
      BY <1>4, <1>6 DEF cut
  <2>3. Copied(r, r.buf, used, data, r2.buf)
    <3>1. data \in Seq(Nat \cup {FREE})
      OBVIOUS
    <3>2. /\ split \in 1..Len(data) /\ split < Len(data) /\ At(r, used) + split = r.size
          /\ used + Len(data) <= r.size /\ used \in 0..r.size
          /\ r.buf \in [0..r.size - 1 -> Nat \cup {FREE}]
      BY <1>4, <2>2
    <3> HIDE DEF split
    <3>3. Copied(r, r.buf, used, data,
                 Put(Put(r.buf, At(r, used), SubSeq(data, 1, split)),
                     0, SubSeq(data, split + 1, Len(data))))
      BY <3>1, <3>2, PutSplit
    <3> QED
      BY <2>1, <3>3
  <2>4. /\ len - split \in 0..n /\ len - split # n
        /\ len - split = Turn(n, h + (used + len))
    <3>1. /\ len \in Nat /\ used \in Nat /\ n \in Nat /\ h \in Nat /\ h < n /\ t \in Nat /\ t < n
          /\ used + len <= n /\ r.head \in Nat /\ (h = r.head \/ (h = 0 /\ r.head = n))
      BY <1>4
    <3>2. t >= r.head /\ n - t < len
      BY <2>2
    <3>3. t = Turn(n, h + used)
      BY <1>5
    <3> HIDE DEF n, t, len, h
    <3>4. h = r.head /\ h + used < n
      BY <3>1, <3>2, <3>3 DEF Turn
    <3>5. t = h + used /\ h + (used + len) >= n
      BY <3>1, <3>2, <3>3, <3>4, SMTT(30) DEF Turn
    <3>6. Turn(n, h + (used + len)) = h + used + len - n
      BY <3>1, <3>5 DEF Turn
    <3>7. split = n - (h + used)
      BY <3>5
    <3>8. len - split = h + used + len - n
      BY <3>1, <3>7
    <3>9. h + used + len - n \in 0..n /\ h + used + len - n # n
      BY <3>1, <3>5
    <3> HIDE DEF split
    <3> QED
      BY <3>6, <3>8, <3>9
  <2>5. r2.tail \in 0..n /\ Wrap(r, r2.tail) = At(r, used + len)
    BY <1>5, <2>1, <2>4 DEF Wrap
  <2> QED
    BY <1>3, <1>4, <2>3, <2>5, AddedRing DEF r2
<1>7. CASE ~cut
  <2>1. r2.buf = Put(r.buf, t, data) /\ r2.tail = t + len
    BY <1>3, <1>7
  <2>2. t + len <= n
    <3>1. /\ len \in Nat /\ used \in Nat /\ n \in Nat /\ h \in Nat /\ h < n /\ t \in Nat /\ t < n
          /\ used + len <= n /\ r.head \in Nat /\ (h = r.head \/ (h = 0 /\ r.head = n))
          /\ t = IF h + used < n THEN h + used ELSE h + used - n
          /\ ~(t >= r.head /\ n - t < len /\ n - t > 0)
      BY <1>4, <1>5, <1>7 DEF Turn, cut
    <3> HIDE DEF n, t, len, h
    <3> QED
      BY <3>1
  <2>3. Copied(r, r.buf, used, data, r2.buf)
    BY <1>4, <2>1, <2>2, PutWhole, SMTT(30)
  <2>4. r2.tail \in 0..n /\ Wrap(r, r2.tail) = At(r, used + len)
    BY <1>4, <2>1, <2>2, WrapMoves
  <2> QED
    BY <1>3, <1>4, <2>3, <2>4, AddedRing DEF r2
<1> QED
  BY <1>6, <1>7
-----------------------------------------------------------------------------
(* What a pop does to the ring.                                             *)

\* The first k bytes from the head on.
FirstBytes(r, k) == [i \in 1..k |-> r.buf[At(r, i - 1)]]

\* r2 is the ring r, with "used" bytes, after its first k bytes were taken.
Removed(r, used, k, r2) ==
    /\ RingOK(r2, used - k)
    /\ r2.size = r.size /\ r2.tail = r.tail /\ r2.type = r.type /\ r2.blk_size = r.blk_size
    /\ \A q \in 0..r.size - 1 : q + k < r.size => r2.buf[At(r2, q)] = r.buf[At(r, q + k)]

\* The places of the ring after its head has moved on by k.
LEMMA AtMoved ==
    ASSUME NEW n \in Nat, NEW h \in Nat, h < n, NEW k \in Nat, k <= n,
           NEW q \in Nat, q < n
    PROVE  /\ q + k < n => Turn(n, Turn(n, h + k) + q) = Turn(n, h + (q + k))
           /\ q + k >= n => Turn(n, Turn(n, h + k) + q) = Turn(n, h + (q + k - n))
<1>1. CASE h + k < n
  BY <1>1 DEF Turn
<1>2. CASE h + k >= n
  BY <1>2 DEF Turn
<1> QED
  BY <1>1, <1>2

\* They are taken when they are FREE and the head has moved on.
LEMMA RemovedRing ==
    ASSUME NEW r, NEW used, RingOK(r, used), NEW k \in Nat, k <= used,
           NEW r2, IsRing(r2), r2.size = r.size, r2.tail = r.tail, r2.type = r.type,
           r2.blk_size = r.blk_size, Copied(r, r.buf, 0, Fill(k), r2.buf),
           r2.head \in 0..r.size, Wrap(r, r2.head) = At(r, k)
    PROVE  Removed(r, used, k, r2)
<1> DEFINE n == r.size
           h == Wrap(r, r.head)
           g == Wrap(r, r2.head)
<1>1. /\ n \in Nat \ {0} /\ used \in 0..n /\ h \in 0..n - 1 /\ r.tail \in 0..n
      /\ Wrap(r, r.tail) = Turn(n, h + used) /\ g = Turn(n, h + k)
  BY AtRange DEF RingOK, At
<1>2. /\ \A q : At(r2, q) = Turn(n, g + q)
      /\ \A q : At(r, q) = Turn(n, h + q)
      /\ Wrap(r2, r2.tail) = Wrap(r, r.tail)
  BY DEF At, Wrap
<1>3. /\ r2.buf \in [0..n - 1 -> Nat \cup {FREE}]
      /\ \A q \in 0..n - 1 : /\ q < k => r2.buf[At(r, q)] = FREE
                             /\ q >= k => r2.buf[At(r, q)] = r.buf[At(r, q)]
  <2>1. Len(Fill(k)) = k /\ \A j \in 1..k : Fill(k)[j] = FREE
    BY DEF Fill
  <2>2. ASSUME NEW q \in 0..n - 1
        PROVE  /\ q < k => r2.buf[At(r, q)] = FREE
               /\ q >= k => r2.buf[At(r, q)] = r.buf[At(r, q)]
    <3>1. /\ 0 <= q /\ q < 0 + Len(Fill(k)) => r2.buf[At(r, q)] = Fill(k)[q - 0 + 1]
          /\ ~(0 <= q /\ q < 0 + Len(Fill(k))) => r2.buf[At(r, q)] = r.buf[At(r, q)]
      BY DEF Copied
    <3>2. q < k => q - 0 + 1 \in 1..k
      BY <1>1
    <3> QED
      BY <2>1, <3>1, <3>2
  <2> QED
    BY <2>2 DEF Copied
<1>4. \A q \in 0..n - 1 : r.buf[At(r, q)] = FREE <=> q >= used
  BY DEF RingOK
<1> HIDE DEF n, h, g
<1>5. ASSUME NEW q \in 0..n - 1
      PROVE  /\ q + k < n => At(r2, q) = At(r, q + k)
             /\ q + k >= n => At(r2, q) = At(r, q + k - n)
  <2>1. /\ q + k < n => Turn(n, g + q) = Turn(n, h + (q + k))
        /\ q + k >= n => Turn(n, g + q) = Turn(n, h + (q + k - n))
    <3>1. n \in Nat /\ h \in Nat /\ h < n /\ k \in Nat /\ k <= n /\ q \in Nat /\ q < n
      BY <1>1
    <3> QED
      BY <1>1, <3>1, AtMoved
  <2> QED
    BY <1>2, <2>1
<1>6. ASSUME NEW q \in 0..n - 1, q + k < n PROVE r2.buf[At(r2, q)] = r.buf[At(r, q + k)]
  <2>1. q + k \in 0..n - 1 /\ q + k >= k
    BY <1>1, <1>6
  <2> QED
    BY <1>3, <1>5, <1>6, <2>1
<1>7. ASSUME NEW q \in 0..n - 1 PROVE r2.buf[At(r2, q)] = FREE <=> q >= used - k
  <2>1. CASE q + k < n
    <3>1. q + k \in 0..n - 1 /\ (q + k >= used <=> q >= used - k)
      BY <1>1, <2>1
    <3> QED
      BY <1>4, <1>6, <2>1, <3>1
  <2>2. CASE q + k >= n
    <3>1. q + k - n \in 0..n - 1 /\ q + k - n < k /\ q >= used - k
      BY <1>1, <2>2
    <3> QED
      BY <1>3, <1>5, <2>2, <3>1
  <2> QED
    BY <1>1, <2>1, <2>2
<1>8. Wrap(r2, r2.tail) = At(r2, used - k)
  <2>1. CASE used - k < n
    <3>1. Turn(n, Turn(n, h + k) + (used - k)) = Turn(n, h + used)
      <4>1. CASE h + k < n
        BY <1>1, <4>1 DEF Turn
      <4>2. CASE h + k >= n
        BY <1>1, <4>2 DEF Turn
      <4> QED
        BY <1>1, <4>1, <4>2
    <3> QED
      BY <1>1, <1>2, <3>1
  <2>2. CASE used - k >= n
    <3>1. used = n /\ k = 0
      BY <1>1, <2>2
    <3>2. Turn(n, Turn(n, h + k) + (used - k)) = Turn(n, h + used)
      BY <1>1, <3>1 DEF Turn
    <3> QED
      BY <1>1, <1>2, <3>2
  <2> QED
    BY <1>1, <2>1, <2>2
<1>9. used - k \in 0..n
  BY <1>1
<1>10. RingOK(r2, used - k)
  BY <1>1, <1>3, <1>7, <1>8, <1>9 DEF RingOK, n
<1> QED
  BY <1>6, <1>10 DEF Removed, n

\* Filling with FREE in two parts.
LEMMA FillParts ==
    ASSUME NEW k \in Nat, NEW split \in 1..k
    PROVE  /\ Fill(k) \in Seq(Nat \cup {FREE}) /\ Len(Fill(k)) = k
           /\ SubSeq(Fill(k), 1, split) = Fill(split)
           /\ SubSeq(Fill(k), split + 1, k) = Fill(k - split)
<1>1. Fill(k) \in Seq(Nat \cup {FREE}) /\ Len(Fill(k)) = k /\ \A i \in 1..k : Fill(k)[i] = FREE
  BY DEF Fill
<1>2. SubSeq(Fill(k), 1, split) = [i \in 1..split |-> FREE]
  BY <1>1
<1>3. SubSeq(Fill(k), split + 1, k) = [i \in 1..k - split |-> FREE]
  BY <1>1
<1> QED
  BY <1>1, <1>2, <1>3 DEF Fill

\* What is read in one piece.
LEMMA GetWhole ==
    ASSUME NEW r, NEW used, RingOK(r, used), NEW k \in Nat, k <= used,
           Wrap(r, r.head) + k <= r.size
    PROVE  Get(r.buf, Wrap(r, r.head), k) = FirstBytes(r, k)
<1> DEFINE n == r.size
           h == Wrap(r, r.head)
<1>1. n \in Nat /\ h \in 0..n - 1 /\ h + k <= n
  BY AtRange DEF RingOK
<1>2. \A q : At(r, q) = Turn(n, h + q)
  BY DEF At
<1> HIDE DEF n, h
<1>3. ASSUME NEW i \in 1..k PROVE At(r, i - 1) = h + i - 1
  <2>1. Turn(n, h + (i - 1)) = h + i - 1
    BY <1>1 DEF Turn
  <2> QED
    BY <1>2, <2>1
<1>4. Get(r.buf, h, k) = [i \in 1..k |-> r.buf[h + i - 1]]
  BY DEF Get
<1>5. Get(r.buf, h, k) = FirstBytes(r, k)
  BY <1>3, <1>4 DEF FirstBytes
<1> QED
  BY <1>5 DEF h

\* What is read in two parts.
LEMMA GetSplit ==
    ASSUME NEW r, NEW used, RingOK(r, used), NEW k \in Nat, k <= used,
           NEW split \in 1..k, Wrap(r, r.head) + split = r.size, split < k
    PROVE  Get(r.buf, Wrap(r, r.head), split) \o Get(r.buf, 0, k - split) = FirstBytes(r, k)
<1> DEFINE n == r.size
           h == Wrap(r, r.head)
           a == Get(r.buf, h, split)
           b == Get(r.buf, 0, k - split)
<1>1. /\ n \in Nat /\ h \in 0..n - 1 /\ h + split = n /\ k <= n
      /\ r.buf \in [0..n - 1 -> Nat \cup {FREE}]
  <2>1. h \in 0..n - 1
    BY AtRange
  <2>2. n \in Nat /\ used \in 0..n /\ r.buf \in [0..n - 1 -> Nat \cup {FREE}]
    BY DEF RingOK
  <2>3. h + split = n
    OBVIOUS
  <2> HIDE DEF n, h
  <2> QED
    BY <2>1, <2>2, <2>3
<1>2. \A q : At(r, q) = Turn(n, h + q)
  BY DEF At
<1>3. a = [i \in 1..split |-> r.buf[h + i - 1]] /\ b = [i \in 1..k - split |-> r.buf[i - 1]]
  <2>1. \A i \in 1..k - split : 0 + i - 1 = i - 1
    OBVIOUS
  <2>2. b = [i \in 1..k - split |-> r.buf[0 + i - 1]]
    BY DEF Get
  <2>3. b = [i \in 1..k - split |-> r.buf[i - 1]]
    BY <2>1, <2>2
  <2> QED
    BY <2>3 DEF Get
<1> HIDE DEF n, h, a, b
<1>4. /\ a \in Seq(Nat \cup {FREE}) /\ Len(a) = split
      /\ b \in Seq(Nat \cup {FREE}) /\ Len(b) = k - split
  <2>1. \A i \in 1..split : h + i - 1 \in 0..n - 1
    BY <1>1
  <2>2. \A i \in 1..k - split : i - 1 \in 0..n - 1
    BY <1>1
  <2>3. a \in [1..split -> Nat \cup {FREE}]
    BY <1>1, <1>3, <2>1
  <2>4. b \in [1..k - split -> Nat \cup {FREE}]
    BY <1>1, <1>3, <2>2
  <2> QED
    BY <1>3, <2>3, <2>4
<1>5. a \o b \in Seq(Nat \cup {FREE}) /\ Len(a \o b) = k
  BY <1>4
<1>6. ASSUME NEW i \in 1..k PROVE (a \o b)[i] = r.buf[At(r, i - 1)]
  <2>1. CASE i <= split
    <3>1. Turn(n, h + (i - 1)) = h + i - 1
      BY <1>1, <2>1 DEF Turn
    <3>2. (a \o b)[i] = a[i]
      BY <1>4, <2>1
    <3> QED
      BY <1>2, <1>3, <2>1, <3>1, <3>2
  <2>2. CASE ~(i <= split)
    <3>1. Turn(n, h + (i - 1)) = i - split - 1
      BY <1>1, <2>2 DEF Turn
    <3>2. (a \o b)[i] = b[i - split]
      BY <1>4, <2>2
    <3>3. i - split \in 1..k - split
      BY <2>2
    <3>4. b[i - split] = r.buf[i - split - 1]
      BY <1>3, <3>3
    <3> QED
      BY <1>2, <3>1, <3>2, <3>4
  <2> QED
    BY <2>1, <2>2, Zenon
<1>7. a \o b = [i \in 1..k |-> r.buf[At(r, i - 1)]]
  <2>1. a \o b \in [1..k -> Nat \cup {FREE}]
    <3>1. PICK s : s = a \o b
      OBVIOUS
    <3>2. s \in Seq(Nat \cup {FREE}) /\ Len(s) = k
      BY <1>5, <3>1
    <3>3. s \in [1..k -> Nat \cup {FREE}]
      BY <3>2
    <3> QED
      BY <3>1, <3>3
  <2> QED
    BY <1>6, <2>1
<1> QED
  BY <1>7 DEF FirstBytes, a, b, h

\* A block is read in one piece.
LEMMA QueuePopRemoves ==
    ASSUME NEW r, NEW used, RingOK(r, used), r.blk_size \in Nat, r.blk_size <= used,
           Wrap(r, r.head) + r.blk_size <= r.size
    PROVE  LET p == RingbufQueuePop(r)
           IN  /\ p = [data |-> p.data, ring |-> p.ring]
               /\ p.data = FirstBytes(r, r.blk_size)
               /\ Removed(r, used, r.blk_size, p.ring)
               /\ p.ring.freesize = r.freesize
<1> DEFINE p == RingbufQueuePop(r)
           h == Wrap(r, r.head)
           k == r.blk_size
           r2 == p.ring
<1>1. /\ IsRing(r) /\ r.size \in Nat \ {0} /\ used \in 0..r.size
      /\ r.buf \in [0..r.size - 1 -> Nat \cup {FREE}] /\ h \in 0..r.size - 1
  BY AtRange DEF RingOK
<1>2. At(r, 0) = h
  BY <1>1 DEF At, Turn
<1>3. p = [data |-> Get(r.buf, h, k),
           ring |-> [r EXCEPT !.buf = Put(r.buf, h, Fill(k)), !.head = h + k]]
  BY DEF RingbufQueuePop
<1>4. p.data = FirstBytes(r, k) /\ p = [data |-> p.data, ring |-> p.ring]
  BY <1>3, GetWhole
<1>5. /\ IsRing(r2) /\ r2.size = r.size /\ r2.tail = r.tail /\ r2.type = r.type
      /\ r2.blk_size = r.blk_size /\ r2.freesize = r.freesize
      /\ r2.buf = Put(r.buf, h, Fill(k)) /\ r2.head = h + k
  <2>1. PICK g : g = r2
    OBVIOUS
  <2>2. g = [r EXCEPT !.buf = Put(r.buf, h, Fill(k)), !.head = h + k]
    BY <1>3, <2>1
  <2> HIDE DEF h, k, p
  <2>3. /\ IsRing(g) /\ g.size = r.size /\ g.tail = r.tail /\ g.type = r.type
        /\ g.blk_size = r.blk_size /\ g.freesize = r.freesize
        /\ g.buf = Put(r.buf, h, Fill(k)) /\ g.head = h + k
    BY <1>1, <2>2 DEF IsRing
  <2> QED
    BY <2>1, <2>3
<1> HIDE DEF p, r2
<1>6. Len(Fill(k)) = k /\ \A j \in 1..k : Fill(k)[j] \in Nat \cup {FREE}
  BY DEF Fill
<1>7. Copied(r, r.buf, 0, Fill(k), r2.buf)
  <2>1. /\ Len(Fill(k)) \in Nat /\ \A j \in 1..Len(Fill(k)) : Fill(k)[j] \in Nat \cup {FREE}
        /\ 0 + Len(Fill(k)) <= r.size /\ At(r, 0) + Len(Fill(k)) <= r.size /\ 0 \in 0..r.size
    BY <1>1, <1>2, <1>6
  <2>2. Copied(r, r.buf, 0, Fill(k), Put(r.buf, At(r, 0), Fill(k)))
    BY <1>1, <2>1, PutWhole
  <2> QED
    BY <1>2, <1>5, <2>2
<1>8. r2.head \in 0..r.size /\ Wrap(r, r2.head) = At(r, k)
  BY <1>1, <1>5 DEF Wrap, At, Turn
<1>9. Removed(r, used, k, r2)
  BY <1>5, <1>7, <1>8, RemovedRing
<1> QED
  BY <1>4, <1>5, <1>9 DEF p, r2

\* A length or the data of a record are read in one piece or in two.
LEMMA DynGetRemoves ==
    ASSUME NEW r, NEW used, RingOK(r, used), NEW k \in Nat, k <= used, NEW mayCut \in BOOLEAN,
           mayCut \/ Wrap(r, r.head) + k <= r.size
    PROVE  LET p == DynGet(r, k, mayCut)
           IN  /\ p.data = FirstBytes(r, k)
               /\ Removed(r, used, k, p.ring)
               /\ p.ring.freesize = r.freesize + k
<1> DEFINE p == DynGet(r, k, mayCut)
           h == Wrap(r, r.head)
           n == r.size
           split == n - h
           cut == mayCut /\ split < k
           r2 == p.ring
<1>1. /\ IsRing(r) /\ n \in Nat \ {0} /\ used \in 0..n
      /\ r.buf \in [0..n - 1 -> Nat \cup {FREE}] /\ h \in 0..n - 1
  BY AtRange DEF RingOK
<1>2. At(r, 0) = h
  BY <1>1 DEF At, Turn
<1>3. p = [data |-> IF cut THEN Get(r.buf, h, split) \o Get(r.buf, 0, k - split)
                    ELSE Get(r.buf, h, k),
           ring |-> [r EXCEPT
                       !.buf = IF cut THEN Put(Put(r.buf, h, Fill(split)), 0, Fill(k - split))
                               ELSE Put(r.buf, h, Fill(k)),
                       !.head = IF cut THEN k - split ELSE h + k,
                       !.freesize = r.freesize + k]]
  BY DEF DynGet
<1>4. p.data = IF cut THEN Get(r.buf, h, split) \o Get(r.buf, 0, k - split)
               ELSE Get(r.buf, h, k)
  BY <1>3
<1>5. /\ IsRing(r2) /\ r2.size = r.size /\ r2.tail = r.tail /\ r2.type = r.type
      /\ r2.blk_size = r.blk_size /\ r2.freesize = r.freesize + k
      /\ r2.buf = IF cut THEN Put(Put(r.buf, h, Fill(split)), 0, Fill(k - split))
                  ELSE Put(r.buf, h, Fill(k))
      /\ r2.head = IF cut THEN k - split ELSE h + k
  <2> DEFINE buf2 == IF cut THEN Put(Put(r.buf, h, Fill(split)), 0, Fill(k - split))
                     ELSE Put(r.buf, h, Fill(k))
             head2 == IF cut THEN k - split ELSE h + k
  <2>1. PICK g : g = r2
    OBVIOUS
  <2>2. g = [r EXCEPT !.buf = buf2, !.head = head2, !.freesize = r.freesize + k]
    BY <1>3, <2>1
  <2> HIDE DEF h, p, buf2, head2
  <2>3. /\ IsRing(g) /\ g.size = r.size /\ g.tail = r.tail /\ g.type = r.type
        /\ g.blk_size = r.blk_size /\ g.freesize = r.freesize + k
        /\ g.buf = buf2 /\ g.head = head2
    BY <1>1, <2>2 DEF IsRing
  <2> QED
    BY <2>1, <2>3 DEF buf2, head2
<1> HIDE DEF p, r2, cut
<1>6. CASE cut
  <2>1. split \in 1..k /\ split < k /\ h + split = n /\ k <= n
    <3> HIDE DEF n, h
    <3> QED
      BY <1>1, <1>6 DEF cut
  <2>2. p.data = FirstBytes(r, k)
    <3> HIDE DEF split
    <3> QED
      BY <1>4, <1>6, <2>1, GetSplit
  <2>3. /\ Fill(k) \in Seq(Nat \cup {FREE}) /\ Len(Fill(k)) = k
        /\ SubSeq(Fill(k), 1, split) = Fill(split)
        /\ SubSeq(Fill(k), split + 1, k) = Fill(k - split)
    BY <2>1, FillParts
  <2>4. Copied(r, r.buf, 0, Fill(k), r2.buf)
    <3>1. /\ split \in 1..Len(Fill(k)) /\ split < Len(Fill(k)) /\ At(r, 0) + split = r.size
          /\ 0 + Len(Fill(k)) <= r.size /\ 0 \in 0..r.size
          /\ r.buf \in [0..r.size - 1 -> Nat \cup {FREE}]
      BY <1>1, <1>2, <2>1, <2>3
    <3> HIDE DEF split
    <3>2. Copied(r, r.buf, 0, Fill(k),
                 Put(Put(r.buf, At(r, 0), SubSeq(Fill(k), 1, split)),
                     0, SubSeq(Fill(k), split + 1, Len(Fill(k)))))
      BY <2>3, <3>1, PutSplit
    <3> QED
      BY <1>2, <1>5, <1>6, <2>3, <3>2
  <2>5. r2.head = k - split
    BY <1>5, <1>6
  <2>6. k - split \in 0..n /\ k - split # n /\ Turn(n, h + k) = k - split
    <3> HIDE DEF n, h
    <3> QED
      BY <1>1, <2>1 DEF Turn
  <2>7. r2.head \in 0..r.size /\ Wrap(r, r2.head) = At(r, k)
    BY <2>5, <2>6 DEF Wrap, At
  <2>8. Removed(r, used, k, r2)
    BY <1>5, <2>4, <2>7, RemovedRing
  <2> QED
    BY <1>5, <2>2, <2>8 DEF p, r2
<1>7. CASE ~cut
  <2>1. h + k <= n
    <3> HIDE DEF n, h
    <3>1. mayCut \/ h + k <= n
      BY DEF n, h
    <3> QED
      BY <1>1, <1>7, <3>1 DEF cut
  <2>2. p.data = FirstBytes(r, k)
    BY <1>4, <1>7, <2>1, GetWhole
  <2>3. Len(Fill(k)) = k /\ \A j \in 1..k : Fill(k)[j] \in Nat \cup {FREE}
    BY DEF Fill
  <2>4. Copied(r, r.buf, 0, Fill(k), r2.buf)
    <3>1. /\ Len(Fill(k)) \in Nat /\ \A j \in 1..Len(Fill(k)) : Fill(k)[j] \in Nat \cup {FREE}
          /\ 0 + Len(Fill(k)) <= r.size /\ At(r, 0) + Len(Fill(k)) <= r.size /\ 0 \in 0..r.size
      BY <1>1, <1>2, <2>1, <2>3
    <3>2. Copied(r, r.buf, 0, Fill(k), Put(r.buf, At(r, 0), Fill(k)))
      BY <1>1, <3>1, PutWhole
    <3> QED
      BY <1>2, <1>5, <1>7, <3>2
  <2>5. r2.head = h + k
    BY <1>5, <1>7
  <2>6. r2.head \in 0..r.size /\ Wrap(r, r2.head) = At(r, k)
    BY <1>1, <2>1, <2>5 DEF Wrap, At, Turn
  <2>7. Removed(r, used, k, r2)
    BY <1>5, <2>4, <2>6, RemovedRing
  <2> QED
    BY <1>5, <2>2, <2>7 DEF p, r2
<1> QED
  BY <1>6, <1>7
-----------------------------------------------------------------------------
(* What a whole message is in the ring.                                     *)

\* The bytes of a message in the ring: a block, or its length and its data.
Record(r, m) == IF r.type = "FIX" THEN m ELSE LenBytes(Len(m)) \o m

\* The bytes of a length as a sequence.
LEMMA LenBytesSeq ==
    ASSUME NEW n \in Nat
    PROVE  LenBytes(n) \in Seq(Nat) /\ Len(LenBytes(n)) = RingBufLen
<1>1. PICK s : s = LenBytes(n)
  OBVIOUS
<1>2. s \in [1..RingBufLen -> Nat]
  <2>1. s \in [1..RingBufLen -> 0..255]
    BY <1>1, LenBytesType, Zenon
  <2>2. \A x \in 0..255 : x \in Nat
    OBVIOUS
  <2> QED
    BY <2>1, <2>2, Zenon
<1>3. s \in Seq(Nat) /\ Len(s) = RingBufLen
  BY <1>2, RingAssumption
<1> QED
  BY <1>1, <1>3

\* The bytes of a record are bytes.
LEMMA RecordSeq ==
    ASSUME NEW r, NEW m \in Seq(Nat)
    PROVE  /\ Record(r, m) \in Seq(Nat)
           /\ r.type = "FIX" => Len(Record(r, m)) = Len(m)
           /\ r.type # "FIX" => Len(Record(r, m)) = RingBufLen + Len(m)
<1>1. Len(m) \in Nat
  OBVIOUS
<1>2. PICK s : s = LenBytes(Len(m))
  OBVIOUS
<1>3. s \in Seq(Nat) /\ Len(s) = RingBufLen
  BY <1>1, <1>2, LenBytesSeq
<1> QED
  BY <1>2, <1>3 DEF Record

\* What is behind the first of two pieces.
LEMMA SecondPart ==
    ASSUME NEW s \in Seq(Nat), NEW t \in Seq(Nat), NEW q \in Nat, NEW u \in Nat,
           u + Len(s) <= q, q < u + Len(s) + Len(t)
    PROVE  (s \o t)[q - u + 1] = t[q - u + 1 - Len(s)]
<1>1. q - u + 1 \in 1..Len(s) + Len(t) /\ q - u + 1 > Len(s)
  OBVIOUS
<1>2. \A k \in 1..Len(s) + Len(t) : k > Len(s) => (s \o t)[k] = t[k - Len(s)]
  OBVIOUS
<1> QED
  BY <1>1, <1>2, SMTT(30)

\* Two pieces added one after the other.
LEMMA AddedTwice ==
    ASSUME NEW r, NEW used, RingOK(r, used), NEW s \in Seq(Nat), NEW t \in Seq(Nat),
           NEW r1, Added(r, used, s, r1), NEW r2, Added(r1, used + Len(s), t, r2)
    PROVE  Added(r, used, s \o t, r2)
<1> DEFINE n == r.size
           i == Len(s)
           j == Len(t)
<1>1. /\ n \in Nat \ {0} /\ used \in Nat /\ i \in Nat /\ j \in Nat
      /\ r1.size = n /\ r1.head = r.head /\ r1.type = r.type /\ r1.blk_size = r.blk_size
      /\ r2.size = n /\ r2.head = r.head /\ r2.type = r.type /\ r2.blk_size = r.blk_size
  BY DEF RingOK, Added
<1>2. \A q : At(r1, q) = At(r, q)
  BY <1>1 DEF At, Wrap
<1>3. s \o t \in Seq(Nat) /\ Len(s \o t) = i + j
  OBVIOUS
<1>4. RingOK(r2, used + Len(s \o t))
  <2>1. RingOK(r2, (used + i) + j)
    BY DEF Added
  <2>2. (used + i) + j = used + Len(s \o t)
    BY <1>1, <1>3
  <2> QED
    BY <2>1, <2>2
<1>5. /\ r2.buf \in [0..n - 1 -> Nat \cup {FREE}]
      /\ \A q \in 0..n - 1 :
            /\ used <= q /\ q < used + i => r1.buf[At(r, q)] = s[q - used + 1]
            /\ ~(used <= q /\ q < used + i) => r1.buf[At(r, q)] = r.buf[At(r, q)]
            /\ used + i <= q /\ q < used + i + j => r2.buf[At(r, q)] = t[q - (used + i) + 1]
            /\ ~(used + i <= q /\ q < used + i + j) => r2.buf[At(r, q)] = r1.buf[At(r, q)]
  BY <1>1, <1>2 DEF Added, Copied
<1> HIDE DEF n
<1>6. ASSUME NEW q \in 0..n - 1
      PROVE  /\ used <= q /\ q < used + (i + j) => r2.buf[At(r, q)] = (s \o t)[q - used + 1]
             /\ ~(used <= q /\ q < used + (i + j)) => r2.buf[At(r, q)] = r.buf[At(r, q)]
  <2>1. CASE used <= q /\ q < used + i
    <3>1. (s \o t)[q - used + 1] = s[q - used + 1]
      BY <1>1, <2>1
    <3> QED
      BY <1>1, <1>5, <2>1, <3>1
  <2>2. CASE used + i <= q /\ q < used + i + j
    <3>1. (s \o t)[q - used + 1] = t[q - used + 1 - i]
      <4>1. used \in Nat /\ q \in Nat /\ used + Len(s) <= q /\ q < used + Len(s) + Len(t)
        BY <1>1, <2>2
      <4> QED
        BY <4>1, SecondPart
    <3>2. q - used + 1 - i = q - (used + i) + 1
      BY <1>1
    <3> QED
      BY <1>1, <1>5, <2>2, <3>1, <3>2
  <2>3. CASE ~(used <= q /\ q < used + (i + j))
    <3>1. q \in Nat /\ ~(used <= q /\ q < used + i) /\ ~(used + i <= q /\ q < used + i + j)
      <4> HIDE DEF i, j
      <4> QED
        BY <1>1, <2>3
    <3>2. r2.buf[At(r, q)] = r.buf[At(r, q)]
      BY <1>5, <3>1
    <3> QED
      BY <2>3, <3>2
  <2>4. \/ used <= q /\ q < used + i
        \/ used + i <= q /\ q < used + i + j
        \/ ~(used <= q /\ q < used + (i + j))
    <3> HIDE DEF i, j
    <3> QED
      BY <1>1
  <2> QED
    BY <2>1, <2>2, <2>3, <2>4
<1>7. Copied(r, r.buf, used, s \o t, r2.buf)
  BY <1>3, <1>5, <1>6 DEF Copied, n
<1> QED
  BY <1>1, <1>4, <1>7 DEF Added

\* ringbuf_push adds the record of the message.
LEMMA PushAdds ==
    ASSUME NEW r, NEW used, RingOK(r, used), NEW m \in Seq(Nat),
           used + Len(Record(r, m)) <= r.size, r.freesize \in Int,
           r.type = "FIX" => Len(m) = r.blk_size /\ At(r, used) + Len(m) <= r.size
    PROVE  /\ Added(r, used, Record(r, m), RingbufPush(r, m))
           /\ RingbufPush(r, m).freesize = r.freesize - Len(Record(r, m))
<1>1. Len(m) \in Nat /\ used \in Nat /\ r.size \in Nat /\ RingBufLen \in Nat
  BY RingAssumption DEF RingOK
<1>2. CASE r.type = "FIX"
  <2>1. Record(r, m) = m
    BY <1>2 DEF Record
  <2>2. PICK p : p = RingbufQueuePush(r, m)
    OBVIOUS
  <2>3. Added(r, used, m, p) /\ p.freesize = r.freesize
    BY <1>2, <2>1, <2>2, QueuePushAdds
  <2>4. PICK r2 : r2 = RingbufPush(r, m)
    OBVIOUS
  <2>5. r2 = [p EXCEPT !.freesize = p.freesize - r.blk_size]
    BY <1>2, <2>2, <2>4 DEF RingbufPush
  <2>6. IsRing(p)
    BY <2>3 DEF Added, RingOK
  <2>7. /\ IsRing(r2) /\ r2.buf = p.buf /\ r2.size = p.size /\ r2.head = p.head
        /\ r2.tail = p.tail /\ r2.type = p.type /\ r2.blk_size = p.blk_size
        /\ r2.freesize = p.freesize - r.blk_size
    BY <2>5, <2>6 DEF IsRing
  <2>8. RingOK(r2, used + Len(m))
    <3>1. RingOK(p, used + Len(m))
      BY <2>3 DEF Added
    <3>2. /\ \A q : At(r2, q) = At(p, q)
          /\ Wrap(r2, r2.tail) = Wrap(p, p.tail)
      BY <2>7 DEF At, Wrap
    <3> QED
      BY <2>7, <3>1, <3>2 DEF RingOK
  <2>9. Added(r, used, m, r2)
    BY <2>3, <2>7, <2>8 DEF Added
  <2> QED
    BY <1>2, <2>1, <2>3, <2>4, <2>7, <2>9
<1>3. CASE r.type # "FIX"
  <2>1. PICK s : s = LenBytes(Len(m))
    OBVIOUS
  <2>2. s \in Seq(Nat) /\ Len(s) = RingBufLen
    BY <1>1, <2>1, LenBytesSeq
  <2>3. Record(r, m) = s \o m /\ Len(s \o m) = RingBufLen + Len(m)
    BY <1>3, <2>1, <2>2 DEF Record
  <2>4. PICK r1 : r1 = DynPut(r, s)
    OBVIOUS
  <2>5. used + Len(s) <= r.size
    BY <1>1, <2>2, <2>3
  <2>6. Added(r, used, s, r1) /\ r1.freesize = r.freesize - Len(s)
    BY <2>2, <2>4, <2>5, DynPutAdds
  <2>7. RingOK(r1, used + Len(s)) /\ r1.size = r.size
    BY <2>6 DEF Added
  <2>8. PICK r2 : r2 = DynPut(r1, m)
    OBVIOUS
  <2>9. (used + Len(s)) + Len(m) <= r1.size
    BY <1>1, <2>2, <2>3, <2>7
  <2>10. Added(r1, used + Len(s), m, r2) /\ r2.freesize = r1.freesize - Len(m)
    BY <2>7, <2>8, <2>9, DynPutAdds
  <2>11. Added(r, used, s \o m, r2)
    BY <2>2, <2>6, <2>10, AddedTwice
  <2>12. RingbufPush(r, m) = r2
    BY <1>3, <2>1, <2>4, <2>8 DEF RingbufPush
  <2>13. r2.freesize = r.freesize - (RingBufLen + Len(m))
    BY <1>1, <2>2, <2>6, <2>10
  <2> QED
    BY <2>3, <2>11, <2>12, <2>13
<1> QED
  BY <1>2, <1>3

\* Two pieces removed one after the other.
LEMMA RemovedTwice ==
    ASSUME NEW r, NEW used, RingOK(r, used), NEW i \in Nat, NEW j \in Nat, i + j <= used,
           NEW r1, Removed(r, used, i, r1), NEW r2, Removed(r1, used - i, j, r2)
    PROVE  Removed(r, used, i + j, r2)
<1>1. /\ r.size \in Nat /\ used \in Nat /\ r1.size = r.size /\ r2.size = r.size
      /\ r1.tail = r.tail /\ r2.tail = r.tail /\ r1.type = r.type /\ r2.type = r.type
      /\ r1.blk_size = r.blk_size /\ r2.blk_size = r.blk_size
  BY DEF RingOK, Removed
<1>2. RingOK(r2, used - (i + j))
  <2>1. RingOK(r2, (used - i) - j)
    BY DEF Removed
  <2>2. (used - i) - j = used - (i + j)
    BY <1>1
  <2> QED
    BY <2>1, <2>2
<1>3. ASSUME NEW q \in 0..r.size - 1, q + (i + j) < r.size
      PROVE  r2.buf[At(r2, q)] = r.buf[At(r, q + (i + j))]
  <2>1. q + j < r1.size /\ q \in 0..r1.size - 1
    BY <1>1, <1>3
  <2>2. r2.buf[At(r2, q)] = r1.buf[At(r1, q + j)]
    BY <2>1 DEF Removed
  <2>3. q + j \in 0..r.size - 1 /\ (q + j) + i < r.size
    BY <1>1, <1>3
  <2>4. r1.buf[At(r1, q + j)] = r.buf[At(r, (q + j) + i)]
    BY <2>3 DEF Removed
  <2>5. (q + j) + i = q + (i + j)
    BY <1>1
  <2> QED
    BY <2>2, <2>4, <2>5
<1> QED
  BY <1>1, <1>2, <1>3 DEF Removed

\* When the data of a record goes over the end of the memory, the reader may cut it.
LEMMA CutSeen ==
    ASSUME NEW r, NEW used, RingOK(r, used), used < r.size, NEW k \in Nat, k <= used, k > 0
    PROVE  Wrap(r, r.head) > r.tail \/ Wrap(r, r.head) + k <= r.size
<1> DEFINE n == r.size
           h == Wrap(r, r.head)
           t == r.tail
<1>1. /\ n \in Nat \ {0} /\ h \in 0..n - 1 /\ t \in 0..n /\ used \in 0..n
      /\ used < n /\ k <= used
  BY AtRange DEF RingOK
<1>2. (IF t = n THEN 0 ELSE t) = IF h + used < n THEN h + used ELSE h + used - n
  BY DEF RingOK, Wrap, At, Turn
<1> HIDE DEF n, h, t
<1>3. h > t \/ h + k <= n
  BY <1>1, <1>2
<1> QED
  BY <1>3 DEF n, h, t

\* The first bytes of the ring are those of a sequence.
Leads(r, s) == \A i \in 1..Len(s) : r.buf[At(r, i - 1)] = s[i]

\* A read of as many bytes returns the sequence.
LEMMA ReadStart ==
    ASSUME NEW r, NEW s \in Seq(Nat), Leads(r, s)
    PROVE  FirstBytes(r, Len(s)) = s
<1>1. \A i \in 1..Len(s) : r.buf[At(r, i - 1)] = s[i]
  BY DEF Leads
<1>2. FirstBytes(r, Len(s)) = [i \in 1..Len(s) |-> s[i]]
  BY <1>1, Zenon DEF FirstBytes
<1>3. s = [i \in 1..Len(s) |-> s[i]]
  OBVIOUS
<1> QED
  BY <1>2, <1>3, Zenon

\* What is behind the bytes that were taken.
LEMMA NextStart ==
    ASSUME NEW r, NEW used, RingOK(r, used), NEW s \in Seq(Nat), NEW t \in Seq(Nat),
           Len(s \o t) <= used, Leads(r, s \o t), NEW r2, Removed(r, used, Len(s), r2)
    PROVE  Leads(r, s) /\ Leads(r2, t)
<1>1. /\ r.size \in Nat /\ used \in Nat /\ used <= r.size
      /\ Len(s) \in Nat /\ Len(t) \in Nat /\ Len(s \o t) = Len(s) + Len(t)
  BY DEF RingOK
<1>2. ASSUME NEW i \in 1..Len(s) PROVE r.buf[At(r, i - 1)] = s[i]
  <2>1. r.buf[At(r, i - 1)] = (s \o t)[i]
    <3>1. i \in 1..Len(s \o t)
      BY <1>1
    <3> QED
      BY <3>1 DEF Leads
  <2>2. (s \o t)[i] = s[i]
    OBVIOUS
  <2> QED
    BY <2>1, <2>2
<1>3. ASSUME NEW i \in 1..Len(t) PROVE r2.buf[At(r2, i - 1)] = t[i]
  <2>1. i - 1 \in 0..r.size - 1 /\ (i - 1) + Len(s) < r.size
    BY <1>1
  <2>2. r2.buf[At(r2, i - 1)] = r.buf[At(r, (i - 1) + Len(s))]
    BY <2>1 DEF Removed
  <2>3. i + Len(s) \in 1..Len(s \o t) /\ (i - 1) + Len(s) = (i + Len(s)) - 1
    BY <1>1
  <2>4. r.buf[At(r, (i - 1) + Len(s))] = (s \o t)[i + Len(s)]
    BY <2>3 DEF Leads
  <2>5. (s \o t)[i + Len(s)] = t[i]
    BY <1>1
  <2> QED
    BY <2>2, <2>4, <2>5
<1> QED
  BY <1>2, <1>3 DEF Leads

\* ringbuf_pop takes the record of the message that is first, and returns it.
LEMMA PopRemoves ==
    ASSUME NEW r, NEW used, RingOK(r, used), NEW m \in Seq(Nat), m # <<>>,
           Len(Record(r, m)) <= used, Leads(r, Record(r, m)), r.freesize \in Int,
           r.type = "FIX" => Len(m) = r.blk_size /\ Wrap(r, r.head) + Len(m) <= r.size,
           r.type # "FIX" => Rests(Len(m))[RingBufLen] = 0
    PROVE  LET p == RingbufPop(r)
           IN  /\ p.data = m
               /\ Removed(r, used, Len(Record(r, m)), p.ring)
               /\ p.ring.freesize = r.freesize + Len(Record(r, m))
<1>1. Len(m) \in Nat \ {0} /\ used \in Nat /\ r.size \in Nat /\ RingBufLen \in Nat \ {0}
  BY RingAssumption DEF RingOK
<1>2. used <= r.size
  BY DEF RingOK
<1>3. CASE r.type = "FIX"
  <2>1. Record(r, m) = m
    BY <1>3 DEF Record
  <2>2. PICK p : p = RingbufQueuePop(r)
    OBVIOUS
  <2>3. /\ p = [data |-> p.data, ring |-> p.ring]
        /\ p.data = FirstBytes(r, r.blk_size)
        /\ Removed(r, used, r.blk_size, p.ring)
        /\ p.ring.freesize = r.freesize
    <3>1. r.blk_size \in Nat /\ r.blk_size <= used /\ Wrap(r, r.head) + r.blk_size <= r.size
      BY <1>1, <1>3, <2>1
    <3> QED
      BY <2>2, <3>1, QueuePopRemoves
  <2>4. p.data = m
    BY <1>3, <2>1, <2>3, ReadStart
  <2>5. PICK x : x = RingbufPop(r)
    OBVIOUS
  <2>6. PICK g : g = p.ring
    OBVIOUS
  <2>7. x.data = m /\ x.ring = [g EXCEPT !.freesize = g.freesize + r.blk_size]
    <3>1. x = [p EXCEPT !.ring.freesize = @ + r.blk_size]
      BY <1>3, <2>2, <2>5 DEF RingbufPop
    <3>2. p = [data |-> m, ring |-> g]
      BY <2>3, <2>4, <2>6
    <3> QED
      BY <3>1, <3>2
  <2>8. PICK r2 : r2 = x.ring
    OBVIOUS
  <2>9. IsRing(g) /\ Removed(r, used, Len(m), g) /\ g.freesize = r.freesize
    BY <1>3, <2>3, <2>6 DEF Removed, RingOK
  <2>10. r2 = [g EXCEPT !.freesize = g.freesize + r.blk_size]
    BY <2>7, <2>8
  <2>11. /\ IsRing(r2) /\ r2.buf = g.buf /\ r2.size = g.size /\ r2.head = g.head
         /\ r2.tail = g.tail /\ r2.type = g.type /\ r2.blk_size = g.blk_size
         /\ r2.freesize = g.freesize + r.blk_size
    BY <2>9, <2>10 DEF IsRing
  <2>12. \A q : At(r2, q) = At(g, q) /\ Wrap(r2, r2.tail) = Wrap(g, g.tail)
    BY <2>11 DEF At, Wrap
  <2>13. RingOK(r2, used - Len(m))
    <3>1. RingOK(g, used - Len(m))
      BY <2>9 DEF Removed
    <3> QED
      BY <2>11, <2>12, <3>1 DEF RingOK
  <2>14. Removed(r, used, Len(m), r2)
    BY <2>9, <2>11, <2>12, <2>13 DEF Removed
  <2> QED
    BY <1>3, <2>1, <2>5, <2>7, <2>8, <2>9, <2>11, <2>14
<1>4. CASE r.type # "FIX"
  <2>1. PICK s : s = LenBytes(Len(m))
    OBVIOUS
  <2>2. s \in Seq(Nat) /\ Len(s) = RingBufLen
    BY <1>1, <2>1, LenBytesSeq
  <2>3. Record(r, m) = s \o m /\ Len(s \o m) = RingBufLen + Len(m)
    BY <1>4, <2>1, <2>2 DEF Record
  <2>4. PICK p : p = DynGet(r, RingBufLen, TRUE)
    OBVIOUS
  <2>5. PICK h : h = p.ring
    OBVIOUS
  <2>6. /\ p.data = FirstBytes(r, RingBufLen)
        /\ Removed(r, used, RingBufLen, h)
        /\ h.freesize = r.freesize + RingBufLen
    <3>1. RingBufLen \in Nat /\ RingBufLen <= used /\ TRUE \in BOOLEAN
      BY <1>1, <2>3
    <3> QED
      BY <2>4, <2>5, <3>1, DynGetRemoves
  <2>7. Leads(r, s) /\ Leads(h, m)
    BY <2>2, <2>3, <2>6, NextStart
  <2>8. LenValue(p.data) = Len(m)
    <3>1. p.data = s
      BY <2>2, <2>6, <2>7, ReadStart
    <3>2. LenValue(LenBytes(Len(m))) = Len(m)
      BY <1>1, <1>4, LengthReadBack
    <3> QED
      BY <2>1, <3>1, <3>2
  <2>9. RingOK(h, used - RingBufLen) /\ h.size = r.size
    BY <2>6 DEF Removed
  <2>10. PICK cut : cut = (Wrap(h, h.head) > h.tail)
    OBVIOUS
  <2>11. PICK x : x = DynGet(h, Len(m), cut)
    OBVIOUS
  <2>12. RingbufPop(r) = x
    BY <1>4, <2>4, <2>5, <2>8, <2>10, <2>11 DEF RingbufPop
  <2>13. /\ x.data = FirstBytes(h, Len(m))
         /\ Removed(h, used - RingBufLen, Len(m), x.ring)
         /\ x.ring.freesize = h.freesize + Len(m)
    <3>1. /\ used - RingBufLen \in Nat /\ used - RingBufLen < h.size
          /\ Len(m) \in Nat /\ Len(m) > 0 /\ Len(m) <= used - RingBufLen
      BY <1>1, <1>2, <2>3, <2>9
    <3>2. cut \/ Wrap(h, h.head) + Len(m) <= h.size
      BY <2>9, <2>10, <3>1, CutSeen
    <3>3. cut \in BOOLEAN
      BY <2>10
    <3> QED
      BY <2>9, <2>11, <3>1, <3>2, <3>3, DynGetRemoves
  <2>14. x.data = m
    BY <2>7, <2>13, ReadStart
  <2>15. Removed(r, used, RingBufLen + Len(m), x.ring)
    BY <1>1, <2>3, <2>6, <2>13, RemovedTwice
  <2>16. x.ring.freesize = r.freesize + (RingBufLen + Len(m))
    BY <1>1, <2>6, <2>13
  <2> QED
    BY <2>3, <2>12, <2>14, <2>15, <2>16
<1> QED
  BY <1>3, <1>4
-----------------------------------------------------------------------------
(* The messages in a ring.                                                  *)

\* The ring holds the records of the messages ms, one behind the other; that of
\* the message k begins at the place st[k], and the last one ends before "used".
Stored(r, used, ms, st) ==
    /\ RingOK(r, used)
    /\ ms \in Seq(Seq(Nat))
    /\ st \in [1..Len(ms) + 1 -> Nat] /\ st[1] = 0 /\ st[Len(ms) + 1] = used
    /\ \A j, k \in 1..Len(ms) + 1 : j <= k => st[j] <= st[k]
    /\ \A k \in 1..Len(ms) :
          /\ st[k + 1] = st[k] + Len(Record(r, ms[k]))
          /\ \A i \in 1..Len(Record(r, ms[k])) :
                r.buf[At(r, st[k] + (i - 1))] = Record(r, ms[k])[i]

\* The same, wherever the messages start.
Holds(r, used, ms) == \E st : Stored(r, used, ms, st)

\* A record that is added is the last one.
LEMMA StoredMore ==
    ASSUME NEW r, NEW used, NEW ms, NEW st, Stored(r, used, ms, st), NEW m \in Seq(Nat),
           NEW r2, Added(r, used, Record(r, m), r2)
    PROVE  Holds(r2, used + Len(Record(r, m)), Append(ms, m))
<1> DEFINE n == Len(ms)
           len == Len(Record(r, m))
           ms2 == Append(ms, m)
           st2 == [k \in 1..n + 2 |-> IF k <= n + 1 THEN st[k] ELSE used + len]
<1>1. /\ ms \in Seq(Seq(Nat)) /\ n \in Nat /\ r.size \in Nat /\ used \in Nat /\ used <= r.size
      /\ st \in [1..n + 1 -> Nat] /\ st[1] = 0 /\ st[n + 1] = used
      /\ \A j, k \in 1..n + 1 : j <= k => st[j] <= st[k]
  BY DEF Stored, RingOK
<1>2. Record(r, m) \in Seq(Nat) /\ len \in Nat
  BY RecordSeq
<1>3. /\ r2.size = r.size /\ r2.head = r.head /\ r2.type = r.type
      /\ RingOK(r2, used + len)
  BY DEF Added
<1>4. \A x : Record(r2, x) = Record(r, x) /\ At(r2, x) = At(r, x)
  BY <1>3 DEF Record, At, Wrap
<1>5. /\ ms2 \in Seq(Seq(Nat)) /\ Len(ms2) = n + 1 /\ ms2[n + 1] = m
      /\ \A k \in 1..n : ms2[k] = ms[k]
  BY <1>1
<1> HIDE DEF n, len, ms2
<1>6. /\ st2 \in [1..n + 2 -> Nat] /\ st2[1] = 0 /\ st2[n + 2] = used + len
      /\ \A k \in 1..n + 1 : st2[k] = st[k]
  BY <1>1, <1>2
<1> HIDE DEF st2
<1>7. ASSUME NEW j \in 1..n + 2, NEW k \in 1..n + 2, j <= k PROVE st2[j] <= st2[k]
  <2>1. CASE k <= n + 1
    BY <1>1, <1>6, <1>7, <2>1
  <2>2. CASE k = n + 2 /\ j <= n + 1
    <3>1. st2[j] <= used
      BY <1>1, <1>6, <2>2
    <3>2. st2[j] \in Nat
      BY <1>6
    <3> QED
      BY <1>1, <1>2, <1>6, <2>2, <3>1, <3>2
  <2>3. CASE k = n + 2 /\ j = n + 2
    BY <1>1, <1>2, <1>6, <2>3
  <2> QED
    BY <1>1, <1>7, <2>1, <2>2, <2>3
<1>8. ASSUME NEW k \in 1..n + 1
      PROVE  /\ st2[k + 1] = st2[k] + Len(Record(r2, ms2[k]))
             /\ \A i \in 1..Len(Record(r2, ms2[k])) :
                   r2.buf[At(r2, st2[k] + (i - 1))] = Record(r2, ms2[k])[i]
  <2>1. CASE k <= n
    <3>1. k \in 1..n /\ k \in 1..n + 1 /\ k + 1 \in 1..n + 1 /\ k <= k + 1 /\ k + 1 <= n + 1
      BY <1>1, <2>1
    <3>2. Record(r2, ms2[k]) = Record(r, ms[k]) /\ st2[k] = st[k] /\ st2[k + 1] = st[k + 1]
      BY <1>4, <1>5, <1>6, <3>1
    <3>3. /\ st[k + 1] = st[k] + Len(Record(r, ms[k]))
          /\ \A i \in 1..Len(Record(r, ms[k])) :
                r.buf[At(r, st[k] + (i - 1))] = Record(r, ms[k])[i]
      BY <3>1 DEF Stored, n
    <3>4. ASSUME NEW i \in 1..Len(Record(r, ms[k]))
          PROVE  r2.buf[At(r2, st[k] + (i - 1))] = Record(r, ms[k])[i]
      <4>1. ms[k] \in Seq(Nat)
        BY <1>1, <3>1 DEF n
      <4>2. Len(Record(r, ms[k])) \in Nat
        BY <4>1, RecordSeq
      <4>3. st[k] \in Nat /\ st[k + 1] \in Nat /\ st[k + 1] <= used
        <5>1. n + 1 \in 1..n + 1
          BY <1>1
        <5>2. st[k + 1] <= st[n + 1]
          BY <1>1, <3>1, <5>1
        <5> QED
          BY <1>1, <3>1, <5>2
      <4>4. st[k] + (i - 1) \in 0..r.size - 1 /\ st[k] + (i - 1) < used
        BY <1>1, <3>3, <4>2, <4>3
      <4>5. PICK x : x = st[k] + (i - 1)
        OBVIOUS
      <4>6. ~(used <= x /\ x < used + Len(Record(r, m))) /\ x \in 0..r.size - 1
        BY <1>1, <4>4, <4>5
      <4>7. r2.buf[At(r, x)] = r.buf[At(r, x)]
        BY <4>6 DEF Added, Copied
      <4>8. r.buf[At(r, x)] = Record(r, ms[k])[i]
        BY <3>3, <4>5
      <4> QED
        BY <1>4, <4>5, <4>7, <4>8
    <3> QED
      BY <3>2, <3>3, <3>4
  <2>2. CASE k = n + 1
    <3>1. Record(r2, ms2[k]) = Record(r, m) /\ st2[k] = used /\ st2[k + 1] = used + len
      <4>1. n + 1 \in 1..n + 1 /\ (n + 1) + 1 = n + 2
        BY <1>1
      <4> QED
        BY <1>1, <1>4, <1>5, <1>6, <2>2, <4>1
    <3>2. ASSUME NEW i \in 1..len PROVE r2.buf[At(r2, used + (i - 1))] = Record(r, m)[i]
      <4>1. PICK x : x = used + (i - 1)
        OBVIOUS
      <4>2. used + len <= r.size
        BY <1>3 DEF RingOK
      <4>3. /\ used <= x /\ x < used + Len(Record(r, m)) /\ x \in 0..r.size - 1
            /\ x - used + 1 = i
        BY <1>1, <1>2, <4>1, <4>2 DEF len
      <4>4. r2.buf[At(r, x)] = Record(r, m)[x - used + 1]
        BY <4>3 DEF Added, Copied
      <4> QED
        BY <1>4, <4>1, <4>3, <4>4
    <3> QED
      BY <3>1, <3>2 DEF len
  <2> QED
    BY <1>1, <2>1, <2>2
<1>9. Stored(r2, used + len, ms2, st2)
  <2>1. Len(ms2) + 1 = n + 2 /\ 1..Len(ms2) = 1..n + 1
    BY <1>1, <1>5
  <2> QED
    BY <1>3, <1>5, <1>6, <1>7, <1>8, <2>1 DEF Stored
<1> QED
  BY <1>9 DEF Holds, len, ms2

\* The first record is at the head.
LEMMA StoredFirst ==
    ASSUME NEW r, NEW used, NEW ms, NEW st, Stored(r, used, ms, st), ms # <<>>
    PROVE  /\ Head(ms) \in Seq(Nat) /\ Head(ms) = ms[1] /\ Len(ms) \in Nat \ {0}
           /\ st[2] = Len(Record(r, ms[1])) /\ Len(Record(r, ms[1])) <= used
           /\ Leads(r, Record(r, ms[1]))
<1>1. ms \in Seq(Seq(Nat)) /\ Len(ms) \in Nat \ {0} /\ used \in Nat
  <2>1. ms \in Seq(Seq(Nat)) /\ used \in Nat
    BY DEF Stored, RingOK
  <2> QED
    BY <2>1
<1>2. /\ 1 \in 1..Len(ms) /\ 2 \in 1..Len(ms) + 1 /\ Len(ms) + 1 \in 1..Len(ms) + 1
      /\ 2 <= Len(ms) + 1 /\ 1 + 1 = 2
  BY <1>1
<1>3. Head(ms) \in Seq(Nat) /\ Head(ms) = ms[1]
  BY <1>1
<1>4. Len(Record(r, ms[1])) \in Nat
  BY <1>3, RecordSeq
<1>5. /\ st[2] = st[1] + Len(Record(r, ms[1])) /\ st[1] = 0 /\ st[2] <= st[Len(ms) + 1]
      /\ st[Len(ms) + 1] = used
      /\ \A i \in 1..Len(Record(r, ms[1])) :
            r.buf[At(r, st[1] + (i - 1))] = Record(r, ms[1])[i]
  BY <1>2 DEF Stored
<1>6. st[2] = Len(Record(r, ms[1])) /\ Len(Record(r, ms[1])) <= used
  BY <1>4, <1>5
<1>7. ASSUME NEW i \in 1..Len(Record(r, ms[1]))
      PROVE  r.buf[At(r, i - 1)] = Record(r, ms[1])[i]
  <2>1. 0 + (i - 1) = i - 1
    BY <1>4
  <2> QED
    BY <1>5, <2>1
<1> QED
  BY <1>1, <1>3, <1>6, <1>7 DEF Leads

\* When the first record was taken, the ring holds the others.
LEMMA StoredLess ==
    ASSUME NEW r, NEW used, NEW ms, NEW st, Stored(r, used, ms, st), ms # <<>>,
           NEW r2, Removed(r, used, Len(Record(r, ms[1])), r2)
    PROVE  Holds(r2, used - Len(Record(r, ms[1])), Tail(ms))
<1> DEFINE n == Len(ms)
           len == Len(Record(r, ms[1]))
           ms2 == Tail(ms)
           st2 == [k \in 1..n |-> st[k + 1] - len]
<1>1. /\ ms \in Seq(Seq(Nat)) /\ n \in Nat \ {0} /\ r.size \in Nat /\ used \in Nat
      /\ used <= r.size
      /\ st \in [1..n + 1 -> Nat] /\ st[n + 1] = used
      /\ \A j, k \in 1..n + 1 : j <= k => st[j] <= st[k]
  BY StoredFirst DEF Stored, RingOK
<1>2. /\ Head(ms) \in Seq(Nat) /\ Head(ms) = ms[1]
      /\ st[2] = len /\ len <= used /\ Leads(r, Record(r, ms[1]))
  BY StoredFirst
<1>3. len \in Nat
  BY <1>2, RecordSeq
<1>4. r2.size = r.size /\ r2.type = r.type /\ RingOK(r2, used - len)
  BY DEF Removed
<1>5. \A x : Record(r2, x) = Record(r, x)
  BY <1>4 DEF Record
<1>6. /\ ms2 \in Seq(Seq(Nat)) /\ Len(ms2) = n - 1
      /\ \A k \in 1..n - 1 : ms2[k] = ms[k + 1]
  BY <1>1
<1>7. ASSUME NEW q \in 0..r.size - 1, q + len < r.size
      PROVE  r2.buf[At(r2, q)] = r.buf[At(r, q + len)]
  BY <1>7 DEF Removed
<1> HIDE DEF n, len, ms2
<1>8. ASSUME NEW k \in 1..n
      PROVE  st[k + 1] \in Nat /\ len <= st[k + 1] /\ st[k + 1] <= used
  <2>1. k + 1 \in 1..n + 1 /\ 2 \in 1..n + 1 /\ 2 <= k + 1 /\ n + 1 \in 1..n + 1 /\ k + 1 <= n + 1
    BY <1>1
  <2>2. st[2] <= st[k + 1] /\ st[k + 1] <= st[n + 1] /\ st[k + 1] \in Nat
    BY <1>1, <2>1
  <2> QED
    BY <1>1, <1>2, <2>2
<1>9. /\ st2 \in [1..n -> Nat] /\ \A k \in 1..n : st2[k] = st[k + 1] - len
  <2>1. \A k \in 1..n : st[k + 1] - len \in Nat
    BY <1>3, <1>8
  <2> QED
    BY <2>1
<1> HIDE DEF st2
<1>10. st2[1] = 0 /\ st2[n] = used - len
  BY <1>1, <1>2, <1>3, <1>9
<1>11. ASSUME NEW j \in 1..n, NEW k \in 1..n, j <= k PROVE st2[j] <= st2[k]
  <2>1. j + 1 \in 1..n + 1 /\ k + 1 \in 1..n + 1 /\ j + 1 <= k + 1
    BY <1>1, <1>11
  <2>2. st[j + 1] <= st[k + 1]
    BY <1>1, <2>1
  <2> QED
    BY <1>3, <1>8, <1>9, <2>2
<1>12. ASSUME NEW k \in 1..n - 1
       PROVE  /\ st2[k + 1] = st2[k] + Len(Record(r2, ms2[k]))
              /\ \A i \in 1..Len(Record(r2, ms2[k])) :
                    r2.buf[At(r2, st2[k] + (i - 1))] = Record(r2, ms2[k])[i]
  <2>1. k \in 1..n /\ k + 1 \in 1..n
    BY <1>1
  <2>2. Record(r2, ms2[k]) = Record(r, ms[k + 1])
    BY <1>5, <1>6
  <2>3. /\ st[(k + 1) + 1] = st[k + 1] + Len(Record(r, ms[k + 1]))
        /\ \A i \in 1..Len(Record(r, ms[k + 1])) :
              r.buf[At(r, st[k + 1] + (i - 1))] = Record(r, ms[k + 1])[i]
    BY <2>1 DEF Stored, n
  <2>4. /\ st2[k + 1] = st[(k + 1) + 1] - len /\ st2[k] = st[k + 1] - len
        /\ st[k + 1] \in Nat /\ len <= st[k + 1]
        /\ st[(k + 1) + 1] \in Nat /\ st[(k + 1) + 1] <= used
    BY <1>8, <1>9, <2>1
  <2>5. ms[k + 1] \in Seq(Nat)
    BY <1>1, <2>1 DEF n
  <2>6. Len(Record(r, ms[k + 1])) \in Nat
    BY <2>5, RecordSeq
  <2>7. st2[k + 1] = st2[k] + Len(Record(r2, ms2[k]))
    BY <1>3, <2>2, <2>3, <2>4, <2>6
  <2>8. ASSUME NEW i \in 1..Len(Record(r, ms[k + 1]))
        PROVE  r2.buf[At(r2, st2[k] + (i - 1))] = Record(r, ms[k + 1])[i]
    <3>1. PICK x : x = st2[k] + (i - 1)
      OBVIOUS
    <3>2. /\ x \in 0..r.size - 1 /\ x + len < r.size
          /\ x + len = st[k + 1] + (i - 1)
      <4>1. PICK p : p = st[k + 1]
        OBVIOUS
      <4>2. PICK l : l = Len(Record(r, ms[k + 1]))
        OBVIOUS
      <4>3. /\ p \in Nat /\ l \in Nat /\ p + l <= used /\ len <= p /\ i \in 1..l
            /\ x = (p - len) + (i - 1)
        BY <2>3, <2>4, <2>6, <3>1, <4>1, <4>2
      <4>4. x \in 0..r.size - 1 /\ x + len < r.size /\ x + len = p + (i - 1)
        BY <1>1, <1>3, <4>3, SMTT(30)
      <4> QED
        BY <4>1, <4>4
    <3>3. r2.buf[At(r2, x)] = r.buf[At(r, x + len)]
      BY <1>7, <3>2
    <3>4. r.buf[At(r, x + len)] = Record(r, ms[k + 1])[i]
      BY <2>3, <3>2
    <3> QED
      BY <3>1, <3>3, <3>4
  <2> QED
    BY <2>2, <2>7, <2>8
<1>13. Stored(r2, used - len, ms2, st2)
  <2>1. Len(ms2) + 1 = n /\ 1..Len(ms2) = 1..n - 1
    BY <1>1, <1>6
  <2> QED
    BY <1>4, <1>6, <1>9, <1>10, <1>11, <1>12, <2>1 DEF Stored
<1> QED
  BY <1>13 DEF Holds, len, ms2

\* An empty ring.
LEMMA StoredNone ==
    ASSUME NEW r, RingOK(r, 0)
    PROVE  Holds(r, 0, <<>>)
<1> DEFINE st == [k \in 1..1 |-> 0]
<1>1. st \in [1..1 -> Nat] /\ st[1] = 0
  OBVIOUS
<1>2. <<>> \in Seq(Seq(Nat)) /\ Len(<<>>) = 0
  OBVIOUS
<1>3. PICK ms : ms = <<>>
  OBVIOUS
<1> HIDE DEF st
<1>4. ms \in Seq(Seq(Nat)) /\ Len(ms) = 0
  BY <1>2, <1>3
<1>5. Stored(r, 0, ms, st)
  BY <1>1, <1>4 DEF Stored
<1> QED
  BY <1>3, <1>5 DEF Holds
-----------------------------------------------------------------------------
(* The rings of the three kinds of queues.                                  *)

KindMsgs(kind) ==
    CASE kind = "PTR" -> PtrMsgs [] kind = "FIX" -> FixMsgs [] kind = "DYN" -> DynMsgs

\* A ring of blocks has only whole blocks, n of them in use.
Blocks(r, n, used) ==
    /\ r.type = "FIX" /\ r.blk_size \in Nat \ {0} /\ r.size = MsgNum * r.blk_size
    /\ used = n * r.blk_size /\ \E i \in Nat : r.head = i * r.blk_size

\* The fields of the ring of a queue with n messages.
Fields(kind, r, n, used) ==
    /\ kind = "PTR" => Blocks(r, n, used) /\ r.blk_size = 1
    /\ kind = "FIX" => Blocks(r, n, used) /\ r.blk_size = BlkSize(FixMsgs)
    /\ kind = "DYN" => r.type = "DYN" /\ r.size = DynSize
    /\ kind # "PTR" => r.freesize = r.size - used

\* The ring r of a queue of a kind holds the messages ms.
RingHolds(kind, r, ms) ==
    /\ ms \in Seq(KindMsgs(kind))
    /\ \E used : Holds(r, used, ms) /\ Fields(kind, r, Len(ms), used)

\* The check that a send makes,
Room(kind, r, n, m) == IF kind = "PTR" THEN n < MsgNum ELSE ~RingbufFull(r, Len(m))
\* what it makes of the ring,
Pushed(kind, r, m) == IF kind = "PTR" THEN RingbufQueuePush(r, m) ELSE RingbufPush(r, m)
\* and what a receive does.
Popped(kind, r) == IF kind = "PTR" THEN RingbufQueuePop(r) ELSE RingbufPop(r)

\* Multiples of a block.
LEMMA BlockLess ==
    ASSUME NEW b \in Nat \ {0}, NEW x \in Int, NEW y \in Int, x * b < y * b
    PROVE  x < y /\ x * b + b <= y * b
<1>1. x < y
  <2>1. ASSUME x >= y PROVE FALSE
    <3>1. x - y \in Nat
      BY <2>1
    <3>2. (x - y) * b \in Nat
      BY <3>1
    <3>3. x * b = (x - y) * b + y * b
      OBVIOUS
    <3> QED
      BY <3>2, <3>3
  <2> QED
    BY <2>1
<1>2. y - x - 1 \in Nat
  BY <1>1
<1>3. (y - x - 1) * b \in Nat
  BY <1>2
<1>4. y * b = (y - x - 1) * b + x * b + b
  OBVIOUS
<1> QED
  BY <1>1, <1>3, <1>4

\* A block never goes over the end of the memory.
LEMMA BlockFits ==
    ASSUME NEW r, NEW used, RingOK(r, used), NEW n \in Nat, Blocks(r, n, used)
    PROVE  /\ Wrap(r, r.head) + r.blk_size <= r.size
           /\ used < r.size => At(r, used) + r.blk_size <= r.size
           /\ \E i \in Nat : Wrap(r, r.head) + r.blk_size = i * r.blk_size
<1> DEFINE b == r.blk_size
           h == Wrap(r, r.head)
<1>1. b \in Nat \ {0} /\ MsgNum \in Nat \ {0} /\ r.size = MsgNum * b /\ used = n * b
  BY QueueAssumption DEF Blocks
<1>2. PICK i \in Nat : r.head = i * b
  BY DEF Blocks
<1>3. h \in 0..r.size - 1 /\ used \in 0..r.size /\ r.size \in Nat
  BY AtRange DEF RingOK
<1>4. PICK j \in Nat : h = j * b
  <2>1. CASE h = r.head
    BY <1>2, <2>1
  <2>2. CASE h # r.head
    <3>1. h = 0 /\ 0 = 0 * b
      BY <1>1, <2>2 DEF Wrap
    <3> QED
      BY <3>1
  <2> QED
    BY <2>1, <2>2
<1>5. At(r, used) = h + used \/ At(r, used) = h + used - r.size
  <2>1. At(r, used) = Turn(r.size, h + used)
    BY DEF At
  <2> HIDE DEF h
  <2> QED
    BY <1>3, <2>1 DEF Turn
<1> HIDE DEF b, h
<1>6. h + b <= r.size
  <2>1. j * b < MsgNum * b
    BY <1>1, <1>3, <1>4
  <2>2. j * b + b <= MsgNum * b
    BY <1>1, <2>1, BlockLess
  <2> QED
    BY <1>1, <1>4, <2>2
<1>7. ASSUME used < r.size PROVE At(r, used) + b <= r.size
  <2>1. PICK k \in Int : At(r, used) = k * b
    <3>1. h + used = (j + n) * b /\ h + used - r.size = (j + n - MsgNum) * b
      BY <1>1, <1>4
    <3>2. j + n \in Int /\ j + n - MsgNum \in Int
      BY <1>1
    <3>3. At(r, used) = (j + n) * b \/ At(r, used) = (j + n - MsgNum) * b
      BY <1>5, <3>1
    <3> QED
      BY <3>2, <3>3
  <2>2. k * b < MsgNum * b
    <3>1. At(r, used) \in 0..r.size - 1
      BY <1>3, <1>7, AtRange
    <3> QED
      BY <1>1, <2>1, <3>1
  <2>3. k * b + b <= MsgNum * b
    BY <1>1, <2>2, BlockLess
  <2> QED
    BY <1>1, <2>1, <2>3
<1>8. h + b = (j + 1) * b
  BY <1>1, <1>4
<1> QED
  BY <1>6, <1>7, <1>8 DEF b, h

\* The messages of a kind.
LEMMA KindFacts ==
    ASSUME NEW kind \in QueueKinds, NEW m \in KindMsgs(kind)
    PROVE  /\ m \in Seq(Nat) /\ m # <<>> /\ Len(m) \in Nat \ {0} /\ m \in QueueMsgs
           /\ kind = "PTR" => Len(m) = 1
           /\ kind = "FIX" => Len(m) = BlkSize(FixMsgs)
<1>1. kind \in {"PTR", "FIX", "DYN"}
  BY QueueAssumption
<1>2. m \in QueueMsgs
  BY <1>1 DEF KindMsgs, QueueMsgs
<1>3. m \in Seq(Nat) /\ m # <<>>
  BY <1>2, QueueAssumption
<1>4. kind = "PTR" => Len(m) = 1
  BY QueueAssumption DEF KindMsgs
<1>5. ASSUME kind = "FIX" PROVE Len(m) = BlkSize(FixMsgs)
  <2>1. m \in FixMsgs
    BY <1>5 DEF KindMsgs
  <2>2. (CHOOSE x \in FixMsgs : TRUE) \in FixMsgs
    BY <2>1
  <2> QED
    BY <2>1, <2>2, QueueAssumption DEF BlkSize
<1> QED
  BY <1>2, <1>3, <1>4, <1>5

\* ringbuf_reset.
LEMMA ResetEmpty ==
    ASSUME NEW r, IsRing(r), r.size \in Nat \ {0}, NEW r2, r2 = RingbufReset(r)
    PROVE  /\ RingOK(r2, 0) /\ r2.size = r.size /\ r2.type = r.type /\ r2.blk_size = r.blk_size
           /\ r2.head = 0 /\ r2.freesize = r.size
<1>1. r2 = [r EXCEPT !.buf = [i \in 0..r.size - 1 |-> FREE], !.head = 0, !.tail = 0,
                     !.freesize = r.size]
  BY DEF RingbufReset
<1>2. /\ IsRing(r2) /\ r2.size = r.size /\ r2.type = r.type /\ r2.blk_size = r.blk_size
      /\ r2.head = 0 /\ r2.tail = 0 /\ r2.freesize = r.size
      /\ r2.buf = [i \in 0..r.size - 1 |-> FREE]
  BY <1>1 DEF IsRing
<1>3. PICK n : n = r.size
  OBVIOUS
<1>4. /\ n \in Nat \ {0} /\ r2.size = n /\ r2.buf = [i \in 0..n - 1 |-> FREE]
      /\ r2.head = 0 /\ r2.tail = 0
  BY <1>2, <1>3
<1>5. /\ Wrap(r2, 0) = 0 /\ \A p \in 0..n - 1 : At(r2, p) = p
  BY <1>4 DEF Wrap, At, Turn
<1>6. At(r2, 0) = 0 /\ r2.buf \in [0..n - 1 -> Nat \cup {FREE}]
  BY <1>4, <1>5
<1>7. \A p \in 0..n - 1 : r2.buf[At(r2, p)] = FREE <=> p >= 0
  BY <1>4, <1>5
<1>8. RingOK(r2, 0)
  BY <1>2, <1>4, <1>5, <1>6, <1>7 DEF RingOK
<1> QED
  BY <1>2, <1>8

\* A new ring, and one that is flushed, are empty.
LEMMA NewHolds ==
    ASSUME NEW kind \in QueueKinds, NEW r, IsRing(r), r.size \in Nat \ {0},
           kind # "DYN" => /\ r.type = "FIX" /\ r.blk_size \in Nat \ {0}
                           /\ r.size = MsgNum * r.blk_size,
           kind = "PTR" => r.blk_size = 1,
           kind = "FIX" => r.blk_size = BlkSize(FixMsgs),
           kind = "DYN" => r.type = "DYN" /\ r.size = DynSize
    PROVE  RingHolds(kind, RingbufReset(r), <<>>)
<1>1. PICK r2 : r2 = RingbufReset(r)
  OBVIOUS
<1>2. /\ RingOK(r2, 0) /\ r2.size = r.size /\ r2.type = r.type /\ r2.blk_size = r.blk_size
      /\ r2.head = 0 /\ r2.freesize = r.size
  BY <1>1, ResetEmpty
<1>3. Holds(r2, 0, <<>>)
  BY <1>2, StoredNone
<1>4. Fields(kind, r2, 0, 0)
  <2>1. ASSUME kind # "DYN" PROVE Blocks(r2, 0, 0)
    <3>1. r2.blk_size \in Nat \ {0}
      BY <1>2, <2>1
    <3>2. 0 = 0 * r2.blk_size
      BY <3>1
    <3> QED
      BY <1>2, <2>1, <3>1, <3>2 DEF Blocks
  <2>2. r2.freesize = r2.size - 0
    BY <1>2
  <2> QED
    BY <1>2, <2>1, <2>2 DEF Fields
<1>5. <<>> \in Seq(KindMsgs(kind)) /\ Len(<<>>) = 0
  OBVIOUS
<1> QED
  BY <1>1, <1>3, <1>4, <1>5 DEF RingHolds

\* As many bytes are FREE as are not in use.
LEMMA FreeBytes ==
    ASSUME NEW r, NEW used, RingOK(r, used)
    PROVE  /\ DOMAIN r.buf = 0..r.size - 1
           /\ Cardinality({i \in DOMAIN r.buf : r.buf[i] = FREE}) = r.size - used
<1> DEFINE n == r.size
           A == used..n - 1
           B == {i \in 0..n - 1 : r.buf[i] = FREE}
           f == [p \in A |-> At(r, p)]
<1>1. n \in Nat \ {0} /\ used \in 0..n /\ DOMAIN r.buf = 0..n - 1
  BY DEF RingOK
<1>2. /\ \A p \in 0..n - 1 : At(r, p) \in 0..n - 1
      /\ \A p, q \in 0..n - 1 : At(r, p) = At(r, q) => p = q
      /\ \A i \in 0..n - 1 : \E p \in 0..n - 1 : At(r, p) = i
      /\ \A p \in 0..n - 1 : r.buf[At(r, p)] = FREE <=> p >= used
  BY AtRange DEF RingOK
<1>3. A \subseteq 0..n - 1 /\ \A p \in 0..n - 1 : p \in A <=> p >= used
  BY <1>1
<1> HIDE DEF A, n
<1>4. f \in [A -> B] /\ \A p, q \in A : f[p] = f[q] => p = q
  BY <1>2, <1>3
<1>5. \A i \in B : \E p \in A : f[p] = i
  BY <1>2, <1>3
<1>6. ExistsBijection(A, B)
  <2> HIDE DEF f, B
  <2>1. f \in Bijection(A, B)
    BY <1>4, <1>5 DEF Bijection, Injection, Surjection, IsInjective
  <2> QED
    BY <2>1 DEF ExistsBijection
<1>7. IsFiniteSet(A) /\ Cardinality(A) = n - used
  <2>1. IsFiniteSet(A) /\ Cardinality(A) = IF used > n - 1 THEN 0 ELSE (n - 1) - used + 1
    <3>1. used \in Int /\ n - 1 \in Int
      BY <1>1
    <3> QED
      BY <3>1, FS_Interval DEF A
  <2> QED
    BY <1>1, <2>1
<1>8. Cardinality(B) = n - used
  <2> HIDE DEF B
  <2> QED
    BY <1>6, <1>7, FS_Bijection
<1> QED
  BY <1>1, <1>8 DEF n

\* Records have at least one byte of data.
LEMMA StoredMany ==
    ASSUME NEW r, NEW used, NEW ms, NEW st, Stored(r, used, ms, st), r.type # "FIX",
           \A k \in 1..Len(ms) : ms[k] # <<>>
    PROVE  Len(ms) * (RingBufLen + 1) <= used
<1> DEFINE n == Len(ms)
           d == RingBufLen + 1
<1>1. /\ ms \in Seq(Seq(Nat)) /\ n \in Nat /\ d \in Nat /\ RingBufLen \in Nat
      /\ st \in [1..n + 1 -> Nat] /\ st[1] = 0 /\ st[n + 1] = used
  <2>1. ms \in Seq(Seq(Nat)) /\ st \in [1..n + 1 -> Nat] /\ st[1] = 0 /\ st[n + 1] = used
    BY DEF Stored
  <2> QED
    BY <2>1, RingAssumption
<1>2. ASSUME NEW k \in 1..n PROVE st[k + 1] >= st[k] + d
  <2>1. ms[k] \in Seq(Nat) /\ ms[k] # <<>>
    BY <1>1
  <2>2. Len(ms[k]) \in Nat /\ Len(ms[k]) >= 1
    <3>1. PICK m : m = ms[k]
      OBVIOUS
    <3>2. m \in Seq(Nat) /\ m # <<>>
      BY <2>1, <3>1
    <3> QED
      BY <3>1, <3>2
  <2>3. Len(Record(r, ms[k])) = RingBufLen + Len(ms[k])
    BY <2>1, RecordSeq
  <2>4. st[k + 1] = st[k] + Len(Record(r, ms[k]))
    BY DEF Stored
  <2>5. st[k] \in Nat
    <3>1. k \in 1..n + 1
      BY <1>1
    <3> QED
      BY <1>1, <3>1
  <2> QED
    BY <1>1, <2>2, <2>3, <2>4, <2>5, SMTT(30)
<1> HIDE DEF n, d
<1> DEFINE S == {k \in 0..n : st[k + 1] >= k * d}
<1>3. 0 \in S
  BY <1>1
<1>4. ASSUME NEW k \in 0..n - 1, k \in S PROVE k + 1 \in S
  <2>1. st[k + 1] >= k * d /\ k + 1 \in 1..n /\ k \in Nat
    BY <1>1, <1>4
  <2>2. st[(k + 1) + 1] >= st[k + 1] + d
    BY <1>2, <2>1
  <2>3. (k + 1) * d = k * d + d /\ k * d \in Nat
    BY <1>1, <2>1
  <2>4. st[k + 1] \in Nat /\ st[(k + 1) + 1] \in Nat
    BY <1>1, <2>1
  <2>5. st[(k + 1) + 1] >= (k + 1) * d
    BY <1>1, <2>1, <2>2, <2>3, <2>4
  <2> QED
    BY <1>1, <2>1, <2>5
<1>5. \A k \in 0..n : k \in S
  <2> HIDE DEF S
  <2> QED
    BY <1>1, <1>3, <1>4, IndUpTo
<1>6. n \in S
  BY <1>1, <1>5
<1> QED
  BY <1>1, <1>6 DEF n, d

\* Whole records in a number of bytes.
LEMMA DivBound ==
    ASSUME NEW x \in Nat, NEW s \in Nat, NEW d \in Nat \ {0}, x * d <= s
    PROVE  x <= s \div d
<1>1. PICK y \in Int : y = s \div d
  OBVIOUS
<1>2. s < (y + 1) * d
  BY <1>1
<1>3. x * d < (y + 1) * d
  <2>1. x * d \in Int /\ (y + 1) * d \in Int
    OBVIOUS
  <2> QED
    BY <1>2, <2>1
<1>4. x < y + 1
  BY <1>3, BlockLess
<1> QED
  BY <1>1, <1>4
\* A queue of n messages with room for one has less than its capacity.
LEMMA HasCapacity ==
    ASSUME NEW kind \in QueueKinds, NEW r, NEW ms, RingHolds(kind, r, ms),
           NEW used, Holds(r, used, ms), Fields(kind, r, Len(ms), used), NEW l \in Nat \ {0},
           kind # "DYN" => used + r.blk_size <= r.size,
           kind = "DYN" => used + RingBufLen + l <= r.size
    PROVE  Len(ms) < Capacity
<1> DEFINE d == RingBufLen + 1
<1>1. /\ ms \in Seq(KindMsgs(kind)) /\ Len(ms) \in Nat /\ d \in Nat \ {0}
      /\ MsgNum \in Nat \ {0} /\ DynSize \in Nat /\ kind \in {"PTR", "FIX", "DYN"}
      /\ RingBufLen \in Nat
  <2>1. ms \in Seq(KindMsgs(kind))
    BY DEF RingHolds
  <2> QED
    BY <2>1, QueueAssumption, RingAssumption
<1>2. PICK st : Stored(r, used, ms, st)
  BY DEF Holds
<1>3. RingOK(r, used) /\ used \in Nat
  BY <1>2 DEF Stored, RingOK
<1>4. PICK c \in Int : c = DynSize \div d
  BY <1>1
<1>5. Capacity = IF c > MsgNum THEN c ELSE MsgNum
  BY <1>4 DEF Capacity
<1>6. CASE kind # "DYN"
  <2>1. Blocks(r, Len(ms), used)
    BY <1>1, <1>6 DEF Fields
  <2>2. /\ r.blk_size \in Nat \ {0} /\ used = Len(ms) * r.blk_size
        /\ r.size = MsgNum * r.blk_size
    BY <2>1 DEF Blocks
  <2>3. Len(ms) * r.blk_size < MsgNum * r.blk_size
    <3>1. used + r.blk_size <= r.size /\ r.blk_size \in Nat \ {0} /\ r.size \in Nat
      BY <1>3, <1>6, <2>2 DEF RingOK
    <3>2. used < r.size
      BY <1>3, <3>1
    <3> QED
      BY <2>2, <3>2
  <2>4. Len(ms) < MsgNum
    BY <1>1, <2>2, <2>3, BlockLess
  <2> QED
    BY <1>1, <1>4, <1>5, <2>4
<1>7. CASE kind = "DYN"
  <2>1. r.type # "FIX" /\ r.size = DynSize
    BY <1>7 DEF Fields
  <2>2. ASSUME NEW k \in 1..Len(ms) PROVE ms[k] # <<>>
    <3>1. ms[k] \in KindMsgs(kind)
      BY <1>1
    <3> QED
      BY <3>1, KindFacts
  <2>3. Len(ms) * d <= used
    BY <1>2, <2>1, <2>2, StoredMany
  <2>4. (Len(ms) + 1) * d <= DynSize
    <3>1. (Len(ms) + 1) * d = Len(ms) * d + d /\ Len(ms) * d \in Nat
      BY <1>1
    <3>2. used + d <= DynSize
      BY <1>1, <1>3, <1>7, <2>1
    <3> HIDE DEF d
    <3> QED
      BY <1>1, <1>3, <2>3, <3>1, <3>2
  <2>5. Len(ms) + 1 <= c
    <3>1. Len(ms) + 1 \in Nat
      BY <1>1
    <3> HIDE DEF d
    <3> QED
      BY <1>1, <1>4, <2>4, <3>1, DivBound
  <2> QED
    BY <1>1, <1>4, <1>5, <2>5
<1> QED
  BY <1>6, <1>7

\* A message that is sent is the last one in the ring.
LEMMA SendHolds ==
    ASSUME NEW kind \in QueueKinds, NEW r, NEW ms, RingHolds(kind, r, ms),
           NEW m \in KindMsgs(kind), Room(kind, r, Len(ms), m)
    PROVE  RingHolds(kind, Pushed(kind, r, m), Append(ms, m)) /\ Len(ms) < Capacity
<1>1. PICK used : Holds(r, used, ms) /\ Fields(kind, r, Len(ms), used)
  BY DEF RingHolds
<1>2. PICK st : Stored(r, used, ms, st)
  BY <1>1 DEF Holds
<1>3. /\ kind \in {"PTR", "FIX", "DYN"} /\ ms \in Seq(KindMsgs(kind)) /\ Len(ms) \in Nat
      /\ RingBufLen \in Nat /\ MsgNum \in Nat \ {0}
  <2>1. ms \in Seq(KindMsgs(kind))
    BY DEF RingHolds
  <2> QED
    BY <2>1, QueueAssumption, RingAssumption
<1>4. /\ RingOK(r, used) /\ used \in Nat /\ used <= r.size /\ r.size \in Nat
  BY <1>2 DEF Stored, RingOK
<1>5. /\ m \in Seq(Nat) /\ Len(m) \in Nat \ {0}
      /\ kind = "PTR" => Len(m) = 1
      /\ kind = "FIX" => Len(m) = BlkSize(FixMsgs)
  BY KindFacts
<1>6. PICK r2 : r2 = Pushed(kind, r, m)
  OBVIOUS
<1>7. Append(ms, m) \in Seq(KindMsgs(kind)) /\ Len(Append(ms, m)) = Len(ms) + 1
  BY <1>3
<1>8. CASE kind # "DYN"
  <2>1. /\ Blocks(r, Len(ms), used) /\ Len(m) = r.blk_size /\ r.type = "FIX"
        /\ r.blk_size \in Nat \ {0} /\ used = Len(ms) * r.blk_size
        /\ r.size = MsgNum * r.blk_size
    BY <1>3, <1>5, <1>8, <1>1 DEF Fields, Blocks
  <2>2. used + Len(m) <= r.size
    <3>1. CASE kind = "PTR"
      <4>1. Len(ms) < MsgNum /\ r.blk_size = 1
        BY <1>1, <3>1 DEF Room, Fields
      <4> QED
        BY <1>3, <2>1, <4>1
    <3>2. CASE kind = "FIX"
      <4>1. r.freesize = r.size - used /\ ~(r.freesize < r.blk_size)
        BY <1>1, <2>1, <3>2 DEF Room, Fields, RingbufFull
      <4> QED
        BY <1>4, <2>1, <4>1
    <3> QED
      BY <1>3, <1>8, <3>1, <3>2
  <2>3. At(r, used) + Len(m) <= r.size
    <3>1. used < r.size
      BY <1>4, <1>5, <2>2
    <3> QED
      BY <1>3, <1>4, <2>1, <3>1, BlockFits
  <2>4. Record(r, m) = m
    BY <2>1 DEF Record
  <2>5. /\ Added(r, used, m, r2)
        /\ kind # "PTR" => r2.freesize = r.freesize - Len(m)
    <3>1. CASE kind = "PTR"
      BY <1>4, <1>5, <1>6, <2>1, <2>2, <2>3, <3>1, QueuePushAdds DEF Pushed
    <3>2. CASE kind # "PTR"
      <4>1. r.freesize \in Int
        BY <1>1, <1>4, <3>2 DEF Fields
      <4> QED
        BY <1>4, <1>5, <1>6, <2>1, <2>2, <2>3, <2>4, <3>2, <4>1, PushAdds DEF Pushed
    <3> QED
      BY <3>1, <3>2
  <2>6. Holds(r2, used + Len(m), Append(ms, m))
    BY <1>2, <1>5, <2>4, <2>5, StoredMore
  <2>7. /\ r2.size = r.size /\ r2.head = r.head /\ r2.type = r.type
        /\ r2.blk_size = r.blk_size
    BY <2>5 DEF Added
  <2>8. Blocks(r2, Len(ms) + 1, used + Len(m))
    <3>1. used + Len(m) = (Len(ms) + 1) * r.blk_size
      <4>1. \A n \in Nat, b \in Nat : n * b + b = (n + 1) * b
        OBVIOUS
      <4>2. r.blk_size \in Nat
        BY <2>1
      <4>3. Len(ms) * r.blk_size + r.blk_size = (Len(ms) + 1) * r.blk_size
        BY <1>3, <4>1, <4>2
      <4> QED
        BY <2>1, <4>3
    <3> QED
      BY <2>1, <2>7, <3>1 DEF Blocks
  <2>9. Fields(kind, r2, Len(ms) + 1, used + Len(m))
    <3>1. kind # "PTR" => r2.freesize = r2.size - (used + Len(m))
      BY <1>1, <1>4, <1>5, <2>5, <2>7 DEF Fields
    <3> QED
      BY <1>1, <1>8, <2>7, <2>8, <3>1 DEF Fields
  <2>10. Len(ms) < Capacity
    BY <1>1, <1>5, <1>8, <2>1, <2>2, HasCapacity
  <2> QED
    BY <1>6, <1>7, <2>6, <2>9, <2>10 DEF RingHolds
<1>9. CASE kind = "DYN"
  <2>1. r.type = "DYN" /\ r.size = DynSize /\ r.freesize = r.size - used
    BY <1>1, <1>9 DEF Fields
  <2>2. r.type # "FIX" /\ Len(Record(r, m)) = RingBufLen + Len(m)
    BY <1>5, <2>1, RecordSeq
  <2>3. used + (RingBufLen + Len(m)) <= r.size
    <3>1. ~(r.freesize < RingBufLen + Len(m))
      BY <1>9, <2>2 DEF Room, RingbufFull
    <3> QED
      BY <1>3, <1>4, <1>5, <2>1, <3>1
  <2>4. r2 = RingbufPush(r, m) /\ r.freesize \in Int
    BY <1>4, <1>6, <1>9, <2>1 DEF Pushed
  <2>5. /\ Added(r, used, Record(r, m), r2)
        /\ r2.freesize = r.freesize - Len(Record(r, m))
    BY <1>4, <1>5, <2>2, <2>3, <2>4, PushAdds
  <2>6. Holds(r2, used + Len(Record(r, m)), Append(ms, m))
    BY <1>2, <1>5, <2>5, StoredMore
  <2>7. r2.size = r.size /\ r2.type = r.type
    BY <2>5 DEF Added
  <2>8. r2.freesize = r2.size - (used + Len(Record(r, m)))
    BY <1>3, <1>4, <1>5, <2>1, <2>2, <2>5, <2>7
  <2>9. Fields(kind, r2, Len(ms) + 1, used + Len(Record(r, m)))
    BY <1>9, <2>1, <2>7, <2>8 DEF Fields
  <2>10. Len(ms) < Capacity
    BY <1>1, <1>3, <1>4, <1>5, <1>9, <2>3, HasCapacity
  <2> QED
    BY <1>6, <1>7, <2>6, <2>9, <2>10 DEF RingHolds
<1> QED
  BY <1>8, <1>9

\* Where the head of a ring of blocks goes.
LEMMA PopHead ==
    ASSUME NEW r, NEW used, RingOK(r, used)
    PROVE  /\ RingbufQueuePop(r).ring.head = Wrap(r, r.head) + r.blk_size
           /\ r.type = "FIX" => RingbufPop(r).ring.head = Wrap(r, r.head) + r.blk_size
<1>1. IsRing(r)
  BY DEF RingOK
<1> DEFINE buf2 == Put(r.buf, Wrap(r, r.head), Fill(r.blk_size))
           head2 == Wrap(r, r.head) + r.blk_size
           data == Get(r.buf, Wrap(r, r.head), r.blk_size)
<1>2. PICK g : g = [r EXCEPT !.buf = buf2, !.head = head2]
  OBVIOUS
<1>3. g.head = head2
  <2> HIDE DEF buf2, head2
  <2> QED
    BY <1>1, <1>2 DEF IsRing
<1>4. PICK p : p = RingbufQueuePop(r)
  OBVIOUS
<1>5. p = [data |-> data, ring |-> g]
  BY <1>2, <1>4 DEF RingbufQueuePop
<1>6. ASSUME r.type = "FIX" PROVE RingbufPop(r).ring.head = head2
  <2>1. RingbufPop(r) = [p EXCEPT !.ring.freesize = @ + r.blk_size]
    BY <1>4, <1>6 DEF RingbufPop
  <2>2. RingbufPop(r).ring = [g EXCEPT !.freesize = g.freesize + r.blk_size]
    <3> HIDE DEF data
    <3> QED
      BY <1>5, <2>1
  <2>3. IsRing(g)
    <3> HIDE DEF buf2, head2
    <3> QED
      BY <1>1, <1>2 DEF IsRing
  <2>4. PICK x : x = RingbufPop(r).ring
    OBVIOUS
  <2>5. x.head = g.head
    BY <2>2, <2>3, <2>4 DEF IsRing
  <2> QED
    BY <1>3, <2>4, <2>5
<1>7. RingbufQueuePop(r).ring.head = head2
  BY <1>3, <1>4, <1>5
<1> QED
  BY <1>6, <1>7

\* A message that is received is the first one in the ring.
LEMMA RecvHolds ==
    ASSUME NEW kind \in QueueKinds, NEW r, NEW ms, RingHolds(kind, r, ms), ms # <<>>
    PROVE  /\ Popped(kind, r).data = Head(ms)
           /\ RingHolds(kind, Popped(kind, r).ring, Tail(ms))
<1>1. PICK used : Holds(r, used, ms) /\ Fields(kind, r, Len(ms), used)
  BY DEF RingHolds
<1>2. PICK st : Stored(r, used, ms, st)
  BY <1>1 DEF Holds
<1>3. /\ kind \in {"PTR", "FIX", "DYN"} /\ ms \in Seq(KindMsgs(kind)) /\ Len(ms) \in Nat \ {0}
      /\ RingBufLen \in Nat /\ MsgNum \in Nat \ {0} /\ DynSize \in Nat
  <2>1. ms \in Seq(KindMsgs(kind))
    BY DEF RingHolds
  <2> QED
    BY <2>1, QueueAssumption, RingAssumption
<1>4. /\ RingOK(r, used) /\ used \in Nat /\ used <= r.size /\ r.size \in Nat
  BY <1>2 DEF Stored, RingOK
<1>5. PICK m : m = ms[1]
  OBVIOUS
<1>6. /\ Head(ms) = m /\ m \in Seq(Nat) /\ Leads(r, Record(r, m))
      /\ Len(Record(r, m)) <= used
  BY <1>2, <1>5, StoredFirst
<1>7. m \in KindMsgs(kind)
  BY <1>3, <1>5
<1>8. /\ m # <<>> /\ Len(m) \in Nat \ {0}
      /\ kind = "PTR" => Len(m) = 1
      /\ kind = "FIX" => Len(m) = BlkSize(FixMsgs)
  BY <1>7, KindFacts
<1>9. Tail(ms) \in Seq(KindMsgs(kind)) /\ Len(Tail(ms)) = Len(ms) - 1
  BY <1>3
<1>10. PICK p : p = Popped(kind, r)
  OBVIOUS
<1>11. CASE kind # "DYN"
  <2>1. /\ Blocks(r, Len(ms), used) /\ Len(m) = r.blk_size /\ r.type = "FIX"
        /\ r.blk_size \in Nat \ {0} /\ used = Len(ms) * r.blk_size
        /\ r.size = MsgNum * r.blk_size
    BY <1>1, <1>3, <1>8, <1>11 DEF Fields, Blocks
  <2>2. Record(r, m) = m
    BY <2>1 DEF Record
  <2>3. /\ Wrap(r, r.head) + r.blk_size <= r.size
        /\ \E i \in Nat : Wrap(r, r.head) + r.blk_size = i * r.blk_size
    BY <1>3, <1>4, <2>1, BlockFits
  <2>4. /\ p.data = m /\ Removed(r, used, Len(m), p.ring)
        /\ kind # "PTR" => p.ring.freesize = r.freesize + Len(m)
        /\ p.ring.head = Wrap(r, r.head) + r.blk_size
    <3>1. CASE kind = "PTR"
      <4>1. p = RingbufQueuePop(r)
        BY <1>10, <3>1 DEF Popped
      <4>2. p.data = FirstBytes(r, Len(m)) /\ Removed(r, used, Len(m), p.ring)
        BY <1>4, <1>6, <2>1, <2>2, <2>3, <4>1, QueuePopRemoves
      <4>3. p.data = m
        BY <1>6, <2>2, <4>2, ReadStart
      <4>4. p.ring.head = Wrap(r, r.head) + r.blk_size
        BY <1>4, <4>1, PopHead
      <4> QED
        BY <3>1, <4>2, <4>3, <4>4
    <3>2. CASE kind # "PTR"
      <4>1. p = RingbufPop(r) /\ r.freesize \in Int
        BY <1>1, <1>4, <1>10, <3>2 DEF Popped, Fields
      <4>2. /\ p.data = m /\ Removed(r, used, Len(m), p.ring)
            /\ p.ring.freesize = r.freesize + Len(m)
        BY <1>4, <1>6, <1>8, <2>1, <2>2, <2>3, <4>1, PopRemoves
      <4>3. p.ring.head = Wrap(r, r.head) + r.blk_size
        BY <1>4, <2>1, <4>1, PopHead
      <4> QED
        BY <4>2, <4>3
    <3> QED
      BY <3>1, <3>2
  <2>5. PICK r2 : r2 = p.ring
    OBVIOUS
  <2>6. Holds(r2, used - Len(m), Tail(ms))
    BY <1>2, <1>3, <1>5, <2>2, <2>4, <2>5, StoredLess
  <2>7. r2.size = r.size /\ r2.type = r.type /\ r2.blk_size = r.blk_size
    BY <2>4, <2>5 DEF Removed
  <2>8. Blocks(r2, Len(ms) - 1, used - Len(m))
    <3>1. used - Len(m) = (Len(ms) - 1) * r.blk_size
      BY <1>3, <2>1
    <3> QED
      BY <2>1, <2>3, <2>4, <2>5, <2>7, <3>1 DEF Blocks
  <2>9. Fields(kind, r2, Len(ms) - 1, used - Len(m))
    <3>1. kind # "PTR" => r2.freesize = r2.size - (used - Len(m))
      BY <1>1, <1>4, <1>8, <2>4, <2>5, <2>7 DEF Fields
    <3> QED
      BY <1>1, <1>11, <2>7, <2>8, <3>1 DEF Fields
  <2> QED
    BY <1>6, <1>9, <1>10, <2>4, <2>5, <2>6, <2>9 DEF RingHolds
<1>12. CASE kind = "DYN"
  <2>1. r.type = "DYN" /\ r.size = DynSize /\ r.freesize = r.size - used /\ r.type # "FIX"
    BY <1>1, <1>12 DEF Fields
  <2>2. Len(Record(r, m)) = RingBufLen + Len(m)
    BY <1>6, <2>1, RecordSeq
  <2>3. Rests(Len(m))[RingBufLen] = 0
    <3>1. Len(m) \in 0..DynSize
      BY <1>3, <1>4, <1>6, <1>8, <2>1, <2>2
    <3> QED
      BY <3>1, QueueAssumption
  <2>4. p = RingbufPop(r) /\ r.freesize \in Int
    BY <1>4, <1>10, <1>12, <2>1 DEF Popped
  <2>5. /\ p.data = m /\ Removed(r, used, Len(Record(r, m)), p.ring)
        /\ p.ring.freesize = r.freesize + Len(Record(r, m))
    BY <1>4, <1>6, <1>8, <2>1, <2>3, <2>4, PopRemoves
  <2>6. PICK r2 : r2 = p.ring
    OBVIOUS
  <2>7. Holds(r2, used - Len(Record(r, m)), Tail(ms))
    BY <1>2, <1>3, <1>5, <2>5, <2>6, StoredLess
  <2>8. r2.size = r.size /\ r2.type = r.type
    BY <2>5, <2>6 DEF Removed
  <2>9. r2.freesize = r2.size - (used - Len(Record(r, m)))
    BY <1>3, <1>4, <1>8, <2>1, <2>2, <2>5, <2>6, <2>8
  <2>10. Fields(kind, r2, Len(ms) - 1, used - Len(Record(r, m)))
    BY <1>12, <2>1, <2>8, <2>9 DEF Fields
  <2> QED
    BY <1>6, <1>9, <1>10, <2>5, <2>6, <2>7, <2>10 DEF RingHolds
<1> QED
  BY <1>11, <1>12
-----------------------------------------------------------------------------
(* What a reader finds in the ring are the messages.                        *)

\* An offset behind the head, modulo the size of the memory.
LEMMA ModTurn ==
    ASSUME NEW n \in Nat \ {0}, NEW h \in 0..n, NEW p \in 0..n - 1
    PROVE  (h + p) % n = Turn(n, (IF h = n THEN 0 ELSE h) + p)
<1> DEFINE g == IF h = n THEN 0 ELSE h
<1>1. g \in 0..n - 1 /\ (g = h \/ (g = 0 /\ h = n))
  OBVIOUS
<1> HIDE DEF g
<1>2. PICK m \in Int : m = (h + p) % n
  OBVIOUS
<1>3. PICK d \in Int : d = (h + p) \div n
  OBVIOUS
<1>4. h + p = n * d + m /\ 0 <= m /\ m < n
  BY <1>2, <1>3
<1>5. d < 2
  <2>1. h + p < 2 * n
    OBVIOUS
  <2>2. ASSUME d >= 2 PROVE FALSE
    <3>1. (d - 2) * n >= 0
      BY <2>2
    <3>2. n * d = (d - 2) * n + 2 * n
      OBVIOUS
    <3> QED
      BY <1>4, <2>1, <3>1, <3>2
  <2> QED
    BY <2>2
<1>6. d >= 0
  BY <1>3
<1>7. CASE d = 0
  <2>1. n * d = 0
    BY <1>7
  <2>2. h + p = m /\ h # n
    BY <1>4, <2>1
  <2>3. g = h /\ g + p < n
    BY <1>1, <1>4, <2>2
  <2> QED
    BY <1>2, <2>2, <2>3 DEF Turn, g
<1>8. CASE d = 1
  <2>1. n * d = n
    BY <1>8
  <2>2. h + p = n + m
    BY <1>4, <2>1
  <2>3. Turn(n, g + p) = m
    BY <1>1, <1>4, <2>2 DEF Turn
  <2> QED
    BY <1>2, <2>3 DEF g
<1> QED
  BY <1>5, <1>6, <1>7, <1>8

\* Where a reader looks for a byte.
LEMMA ReaderAt ==
    ASSUME NEW r, NEW used, RingOK(r, used), NEW p \in 0..r.size - 1
    PROVE  (r.head + p) % r.size = At(r, p)
<1>1. r.size \in Nat \ {0} /\ r.head \in 0..r.size
  BY DEF RingOK
<1> QED
  BY <1>1, ModTurn DEF At, Wrap

\* What is behind the first of two pieces.
LEMMA SecondAt ==
    ASSUME NEW s \in Seq(Nat), NEW t \in Seq(Nat), NEW i \in 1..Len(t)
    PROVE  (s \o t)[Len(s) + i] = t[i]
OBVIOUS

\* A byte of a piece that fits into a ring is in the ring.
LEMMA FitsIn ==
    ASSUME NEW b \in Nat, NEW n \in Nat, NEW used \in Nat, NEW z \in Nat,
           b + n <= used, used <= z, NEW i \in 1..n
    PROVE  b + (i - 1) \in 0..z - 1
OBVIOUS

\* A reader that knows where a record begins reads its length and its data.
LEMMA ReadRecord ==
    ASSUME NEW r, NEW used, NEW ms, NEW st, Stored(r, used, ms, st), NEW k \in 1..Len(ms),
           r.type = "FIX" => r.blk_size = Len(ms[k]),
           r.type # "FIX" => Rests(Len(ms[k]))[RingBufLen] = 0
    PROVE  /\ DataLen(r, st[k]) = Len(ms[k])
           /\ Bytes(r, st[k] + Skip(r), Len(ms[k])) = ms[k]
           /\ st[k + 1] = st[k] + Skip(r) + Len(ms[k])
<1>1. /\ RingOK(r, used) /\ used \in Nat /\ r.size \in Nat /\ used <= r.size
      /\ ms \in Seq(Seq(Nat)) /\ Len(ms) \in Nat
      /\ st \in [1..Len(ms) + 1 -> Nat] /\ st[Len(ms) + 1] = used
  <2>1. RingOK(r, used) /\ ms \in Seq(Seq(Nat))
    BY DEF Stored
  <2> QED
    BY <2>1 DEF Stored, RingOK
<1>2. PICK m : m = ms[k]
  OBVIOUS
<1>3. m \in Seq(Nat) /\ Len(m) \in Nat /\ RingBufLen \in Nat
  BY <1>1, <1>2, RingAssumption
<1>4. PICK b : b = st[k]
  OBVIOUS
<1>5. PICK s : s = Record(r, m)
  OBVIOUS
<1>6. s \in Seq(Nat) /\ Len(s) = Skip(r) + Len(m)
  BY <1>3, <1>5, RecordSeq DEF Skip
<1>7. /\ b \in Nat /\ st[k + 1] = b + Len(s) /\ b + Len(s) <= used
      /\ \A i \in 1..Len(s) : r.buf[At(r, b + (i - 1))] = s[i]
  <2>1. /\ k \in 1..Len(ms) + 1 /\ k + 1 \in 1..Len(ms) + 1 /\ Len(ms) + 1 \in 1..Len(ms) + 1
        /\ k + 1 <= Len(ms) + 1
    BY <1>1
  <2>2. st[k + 1] <= st[Len(ms) + 1]
    BY <2>1 DEF Stored
  <2>3. /\ st[k + 1] = st[k] + Len(Record(r, ms[k]))
        /\ \A i \in 1..Len(Record(r, ms[k])) :
              r.buf[At(r, st[k] + (i - 1))] = Record(r, ms[k])[i]
    BY DEF Stored
  <2> QED
    BY <1>1, <1>2, <1>4, <1>5, <2>1, <2>2, <2>3
<1>8. ASSUME NEW i \in 1..Len(s) PROVE r.buf[(r.head + (b + (i - 1))) % r.size] = s[i]
  <2>1. b + (i - 1) \in 0..r.size - 1
    <3>1. Len(s) \in Nat
      BY <1>6
    <3>2. PICK n, z : n = Len(s) /\ z = r.size
      OBVIOUS
    <3>3. n \in Nat /\ z \in Nat /\ b \in Nat /\ b + n <= used /\ used <= z /\ used \in Nat
      BY <1>1, <1>7, <3>1, <3>2
    <3>4. i \in 1..n
      BY <3>2
    <3>5. b + (i - 1) \in 0..z - 1
      BY <3>3, <3>4, FitsIn
    <3> QED
      BY <3>2, <3>5
  <2>2. PICK p \in 0..r.size - 1 : p = b + (i - 1)
    BY <2>1
  <2>3. (r.head + p) % r.size = At(r, p)
    BY <1>1, ReaderAt
  <2>4. r.buf[At(r, p)] = s[i]
    BY <1>7, <2>2
  <2> QED
    BY <2>2, <2>3, <2>4
<1>9. CASE r.type = "FIX"
  <2>1. Skip(r) = 0 /\ s = m /\ DataLen(r, b) = Len(m)
    BY <1>2, <1>5, <1>9 DEF Skip, Record, DataLen
  <2>2. Bytes(r, b, Len(m)) = [i \in 1..Len(m) |-> m[i]]
    BY <1>8, <2>1, Zenon DEF Bytes
  <2>3. [i \in 1..Len(m) |-> m[i]] = m /\ b + 0 = b
    BY <1>3, <1>7
  <2> QED
    BY <1>2, <1>4, <1>6, <1>7, <2>1, <2>2, <2>3
<1>10. CASE r.type # "FIX"
  <2>1. PICK l : l = LenBytes(Len(m))
    OBVIOUS
  <2>2. l \in Seq(Nat) /\ Len(l) = RingBufLen /\ s = l \o m /\ Skip(r) = RingBufLen
    BY <1>3, <1>5, <1>10, <2>1, LenBytesSeq DEF Skip, Record
  <2>3. ASSUME NEW i \in 1..RingBufLen PROVE s[i] = l[i] /\ i \in 1..Len(s)
    <3>1. i \in 1..Len(s)
      BY <1>3, <1>6, <2>2
    <3>2. (l \o m)[i] = l[i]
      BY <1>3, <2>2
    <3> QED
      BY <2>2, <3>1, <3>2, Zenon
  <2>4. Bytes(r, b, RingBufLen) = l
    <3>1. \A i \in 1..RingBufLen : r.buf[(r.head + (b + (i - 1))) % r.size] = l[i]
      BY <1>8, <2>3
    <3>2. Bytes(r, b, RingBufLen) = [i \in 1..RingBufLen |-> l[i]]
      BY <3>1, Zenon DEF Bytes
    <3>3. [i \in 1..RingBufLen |-> l[i]] = l
      BY <2>2
    <3> QED
      BY <3>2, <3>3, Zenon
  <2>5. DataLen(r, b) = Len(m)
    BY <1>2, <1>3, <1>10, <2>1, <2>4, LengthReadBack DEF DataLen
  <2>6. ASSUME NEW i \in 1..Len(m)
        PROVE  r.buf[(r.head + ((b + RingBufLen) + (i - 1))) % r.size] = m[i]
    <3>1. /\ RingBufLen + i \in 1..Len(s)
          /\ b + ((RingBufLen + i) - 1) = (b + RingBufLen) + (i - 1)
      BY <1>3, <1>6, <1>7, <2>2
    <3>2. (l \o m)[RingBufLen + i] = m[i]
      <4>1. (l \o m)[Len(l) + i] = m[i]
        BY <1>3, <2>2, SecondAt
      <4> QED
        BY <2>2, <4>1
    <3> QED
      BY <1>8, <2>2, <3>1, <3>2
  <2>7. Bytes(r, b + RingBufLen, Len(m)) = m
    <3>1. Bytes(r, b + RingBufLen, Len(m)) = [i \in 1..Len(m) |-> m[i]]
      BY <2>6, Zenon DEF Bytes
    <3>2. [i \in 1..Len(m) |-> m[i]] = m
      BY <1>3
    <3> QED
      BY <3>1, <3>2, Zenon
  <2> QED
    BY <1>2, <1>3, <1>4, <1>6, <1>7, <2>2, <2>5, <2>7
<1> QED
  BY <1>9, <1>10
\* So the records begin where they were put ...
LEMMA BeginsAt ==
    ASSUME NEW r, NEW used, NEW ms, NEW st, Stored(r, used, ms, st),
           \A k \in 1..Len(ms) :
              /\ r.type = "FIX" => r.blk_size = Len(ms[k])
              /\ r.type # "FIX" => Rests(Len(ms[k]))[RingBufLen] = 0
    PROVE  \A k \in 1..Len(ms) : Begins(r, Len(ms))[k] = st[k]
<1> DEFINE n == Len(ms)
           Eq(f) == f = [k \in 1..n |-> IF k = 1 THEN 0 ELSE f[k - 1] + Skip(r) + DataLen(r, f[k - 1])]
           g == CHOOSE f : Eq(f)
<1>1. /\ n \in Nat /\ st \in [1..n + 1 -> Nat] /\ st[1] = 0
  <2>1. ms \in Seq(Seq(Nat)) /\ st \in [1..n + 1 -> Nat] /\ st[1] = 0
    BY DEF Stored
  <2> QED
    BY <2>1
<1>2. ASSUME NEW k \in 1..n PROVE st[k + 1] = st[k] + Skip(r) + DataLen(r, st[k])
  BY ReadRecord
<1>3. Begins(r, n) = g
  BY DEF Begins
<1>4. \E f : Eq(f)
  <2> DEFINE f == [k \in 1..n |-> st[k]]
  <2>1. ASSUME NEW k \in 1..n
        PROVE  f[k] = IF k = 1 THEN 0 ELSE f[k - 1] + Skip(r) + DataLen(r, f[k - 1])
    <3>1. CASE k = 1
      BY <1>1, <3>1
    <3>2. CASE k # 1
      <4>1. k - 1 \in 1..n /\ (k - 1) + 1 = k
        BY <1>1, <3>2
      <4>2. st[k] = st[k - 1] + Skip(r) + DataLen(r, st[k - 1])
        BY <1>2, <4>1
      <4>3. f[k] = st[k] /\ f[k - 1] = st[k - 1]
        BY <4>1
      <4> QED
        BY <3>2, <4>2, <4>3
    <3> QED
      BY <3>1, <3>2
  <2>2. f = [k \in 1..n |-> f[k]]
    OBVIOUS
  <2> HIDE DEF f
  <2>3. Eq(f)
    BY <2>1, <2>2, Zenon
  <2> QED
    BY <2>3, Zenon
<1>5. Eq(g)
  <2> HIDE DEF Eq
  <2> QED
    BY <1>4, Zenon
<1>6. \A k \in 1..n : g[k] = IF k = 1 THEN 0 ELSE g[k - 1] + Skip(r) + DataLen(r, g[k - 1])
  <2> HIDE DEF g
  <2> QED
    BY <1>5, Zenon
<1> HIDE DEF g, n, Eq
<1> DEFINE S == {k \in 0..n : k > 0 => g[k] = st[k]}
<1>7. 0 \in S
  BY <1>1
<1>8. ASSUME NEW k \in 0..n - 1, k \in S PROVE k + 1 \in S
  <2>1. k + 1 \in 1..n /\ k + 1 \in 0..n /\ (k + 1) - 1 = k
    BY <1>1
  <2>2. g[k + 1] = IF k + 1 = 1 THEN 0 ELSE g[k] + Skip(r) + DataLen(r, g[k])
    BY <1>6, <2>1
  <2>3. CASE k = 0
    BY <1>1, <2>1, <2>2, <2>3
  <2>4. CASE k # 0
    <3>1. k \in 1..n /\ k + 1 # 1 /\ g[k] = st[k]
      BY <1>1, <1>8, <2>4
    <3>2. st[k + 1] = st[k] + Skip(r) + DataLen(r, st[k])
      BY <1>2, <3>1
    <3> QED
      BY <2>1, <2>2, <3>1, <3>2
  <2> QED
    BY <2>3, <2>4
<1>9. \A k \in 0..n : k \in S
  <2> HIDE DEF S
  <2> QED
    BY <1>1, <1>7, <1>8, IndUpTo
<1>10. \A k \in 1..n : g[k] = st[k]
  <2>1. \A k \in 1..n : k \in 0..n /\ k > 0
    BY <1>1
  <2> QED
    BY <1>9, <2>1
<1> QED
  BY <1>3, <1>10 DEF n

\* ... and the reader finds the messages.
LEMMA ContentsAre ==
    ASSUME NEW kind \in QueueKinds, NEW r, NEW ms, RingHolds(kind, r, ms)
    PROVE  Contents(r, Len(ms)) = ms
<1>1. PICK used : Holds(r, used, ms) /\ Fields(kind, r, Len(ms), used)
  BY DEF RingHolds
<1>2. PICK st : Stored(r, used, ms, st)
  BY <1>1 DEF Holds
<1>3. /\ kind \in {"PTR", "FIX", "DYN"} /\ ms \in Seq(KindMsgs(kind)) /\ Len(ms) \in Nat
      /\ RingBufLen \in Nat /\ DynSize \in Nat
  <2>1. ms \in Seq(KindMsgs(kind))
    BY DEF RingHolds
  <2> QED
    BY <2>1, QueueAssumption, RingAssumption
<1>4. ASSUME NEW k \in 1..Len(ms)
      PROVE  /\ r.type = "FIX" => r.blk_size = Len(ms[k])
             /\ r.type # "FIX" => Rests(Len(ms[k]))[RingBufLen] = 0
  <2>1. ms[k] \in KindMsgs(kind)
    BY <1>3
  <2>2. /\ ms[k] \in Seq(Nat) /\ Len(ms[k]) \in Nat
        /\ kind = "PTR" => Len(ms[k]) = 1
        /\ kind = "FIX" => Len(ms[k]) = BlkSize(FixMsgs)
    BY <2>1, KindFacts
  <2>3. CASE kind # "DYN"
    BY <1>1, <1>3, <2>2, <2>3 DEF Fields, Blocks
  <2>4. CASE kind = "DYN"
    <3>1. r.type = "DYN" /\ r.size = DynSize
      BY <1>1, <2>4 DEF Fields
    <3>2. Len(Record(r, ms[k])) = RingBufLen + Len(ms[k])
      BY <2>2, <3>1, RecordSeq
    <3>3. /\ used \in Nat /\ used <= DynSize /\ st \in [1..Len(ms) + 1 -> Nat]
          /\ st[Len(ms) + 1] = used /\ st[k + 1] = st[k] + Len(Record(r, ms[k]))
      BY <1>2, <3>1 DEF Stored, RingOK
    <3>4. /\ k \in 1..Len(ms) + 1 /\ k + 1 \in 1..Len(ms) + 1 /\ k + 1 <= Len(ms) + 1
          /\ Len(ms) + 1 \in 1..Len(ms) + 1
      BY <1>3
    <3>5. st[k + 1] <= st[Len(ms) + 1]
      BY <1>2, <3>4 DEF Stored
    <3>6. st[k] \in Nat
      BY <3>3, <3>4
    <3>7. Len(ms[k]) \in 0..DynSize
      BY <1>3, <2>2, <3>2, <3>3, <3>5, <3>6
    <3> QED
      BY <3>1, <3>7, QueueAssumption
  <2> QED
    BY <2>3, <2>4
<1>5. \A k \in 1..Len(ms) : Begins(r, Len(ms))[k] = st[k]
  BY <1>2, <1>4, BeginsAt
<1>6. ASSUME NEW k \in 1..Len(ms)
      PROVE  Bytes(r, st[k] + Skip(r), DataLen(r, st[k])) = ms[k]
  <2>1. /\ DataLen(r, st[k]) = Len(ms[k])
        /\ Bytes(r, st[k] + Skip(r), Len(ms[k])) = ms[k]
    BY <1>2, <1>4, ReadRecord
  <2> QED
    BY <2>1
<1>7. PICK b : b = Begins(r, Len(ms))
  OBVIOUS
<1>8. Contents(r, Len(ms)) = [k \in 1..Len(ms) |-> Bytes(r, b[k] + Skip(r), DataLen(r, b[k]))]
  BY <1>7, Zenon DEF Contents
<1>9. Contents(r, Len(ms)) = [k \in 1..Len(ms) |-> ms[k]]
  BY <1>5, <1>6, <1>7, <1>8, Zenon
<1>10. [k \in 1..Len(ms) |-> ms[k]] = ms
  BY <1>3
<1> QED
  BY <1>9, <1>10, Zenon
-----------------------------------------------------------------------------
(* The rings of the queues.                                                 *)

\* The ring r of a queue of a type, with cur_num n, holds the messages ms.
InRing(type, r, n, ms) ==
    /\ n = Len(ms)
    /\ \E kind \in QueueKinds : (type = QUEUE <=> kind = "PTR") /\ RingHolds(kind, r, ms)

\* What the reader of the ring finds are these messages.
LEMMA InRingContents ==
    ASSUME NEW type, NEW r, NEW n, NEW ms, InRing(type, r, n, ms)
    PROVE  Contents(r, n) = ms /\ n \in Nat /\ ms \in Seq(QueueMsgs)
<1>1. PICK kind \in QueueKinds : RingHolds(kind, r, ms)
  BY DEF InRing
<1>2. Contents(r, Len(ms)) = ms
  BY <1>1, ContentsAre
<1>3. ms \in Seq(KindMsgs(kind)) /\ Len(ms) \in Nat
  BY <1>1 DEF RingHolds
<1>4. \A m \in KindMsgs(kind) : m \in QueueMsgs
  BY KindFacts
<1>5. ms \in Seq(QueueMsgs)
  BY <1>3, <1>4
<1> QED
  BY <1>2, <1>3, <1>5 DEF InRing

\* A send that finds room.
LEMMA InRingSend ==
    ASSUME NEW type, NEW r, NEW n, NEW ms, InRing(type, r, n, ms), NEW m,
           m \in IF type = QUEUE THEN PtrMsgs ELSE IF r.type = "FIX" THEN FixMsgs ELSE DynMsgs,
           IF type = QUEUE THEN n < MsgNum ELSE ~RingbufFull(r, Len(m)),
           NEW r2, r2 = IF type = QUEUE THEN RingbufQueuePush(r, m) ELSE RingbufPush(r, m)
    PROVE  InRing(type, r2, n + 1, Append(ms, m)) /\ Len(ms) < Capacity /\ m \in QueueMsgs
<1>1. PICK kind \in QueueKinds : (type = QUEUE <=> kind = "PTR") /\ RingHolds(kind, r, ms)
  BY DEF InRing
<1>2. kind \in {"PTR", "FIX", "DYN"} /\ n = Len(ms)
  BY QueueAssumption DEF InRing
<1>3. (kind = "FIX" => r.type = "FIX") /\ (kind = "DYN" => r.type = "DYN")
  BY <1>1 DEF RingHolds, Fields, Blocks
<1>4. m \in KindMsgs(kind)
  BY <1>1, <1>2, <1>3 DEF KindMsgs
<1>5. Room(kind, r, Len(ms), m)
  BY <1>1, <1>2 DEF Room
<1>6. r2 = Pushed(kind, r, m)
  BY <1>1 DEF Pushed
<1>7. RingHolds(kind, r2, Append(ms, m)) /\ Len(ms) < Capacity
  BY <1>1, <1>4, <1>5, <1>6, SendHolds
<1>8. ms \in Seq(QueueMsgs) /\ m \in QueueMsgs
  BY <1>4, InRingContents, KindFacts
<1>9. n + 1 = Len(Append(ms, m))
  BY <1>2, <1>8
<1> QED
  BY <1>1, <1>7, <1>8, <1>9 DEF InRing

\* A receive of a message that is there.
LEMMA InRingRecv ==
    ASSUME NEW type, NEW r, NEW n, NEW ms, InRing(type, r, n, ms), n > 0,
           NEW p, p = IF type = QUEUE THEN RingbufQueuePop(r) ELSE RingbufPop(r)
    PROVE  p.data = Head(ms) /\ InRing(type, p.ring, n - 1, Tail(ms)) /\ ms # <<>>
<1>1. PICK kind \in QueueKinds : (type = QUEUE <=> kind = "PTR") /\ RingHolds(kind, r, ms)
  BY DEF InRing
<1>2. n = Len(ms) /\ ms \in Seq(QueueMsgs) /\ n \in Nat
  <2>1. n = Len(ms)
    BY DEF InRing
  <2>2. ms \in Seq(QueueMsgs)
    BY InRingContents
  <2> QED
    BY <2>1, <2>2
<1>3. ms # <<>> /\ n - 1 = Len(Tail(ms))
  BY <1>2
<1>4. p = Popped(kind, r)
  BY <1>1 DEF Popped
<1>5. p.data = Head(ms) /\ RingHolds(kind, p.ring, Tail(ms))
  BY <1>1, <1>3, <1>4, RecvHolds
<1> QED
  BY <1>1, <1>3, <1>5 DEF InRing

\* A flush.
LEMMA InRingReset ==
    ASSUME NEW type, NEW r, NEW n, NEW ms, InRing(type, r, n, ms)
    PROVE  InRing(type, RingbufReset(r), 0, <<>>)
<1>1. PICK kind \in QueueKinds : (type = QUEUE <=> kind = "PTR") /\ RingHolds(kind, r, ms)
  BY DEF InRing
<1>2. PICK used : Holds(r, used, ms) /\ Fields(kind, r, Len(ms), used)
  BY <1>1 DEF RingHolds
<1>3. IsRing(r) /\ r.size \in Nat \ {0}
  BY <1>2 DEF Holds, Stored, RingOK
<1>4. kind \in {"PTR", "FIX", "DYN"}
  BY QueueAssumption
<1>5. /\ kind # "DYN" => /\ r.type = "FIX" /\ r.blk_size \in Nat \ {0}
                         /\ r.size = MsgNum * r.blk_size
      /\ kind = "PTR" => r.blk_size = 1
      /\ kind = "FIX" => r.blk_size = BlkSize(FixMsgs)
      /\ kind = "DYN" => r.type = "DYN" /\ r.size = DynSize
  BY <1>2, <1>4 DEF Fields, Blocks
<1>6. RingHolds(kind, RingbufReset(r), <<>>)
  BY <1>3, <1>5, NewHolds
<1>7. 0 = Len(<<>>)
  OBVIOUS
<1> QED
  BY <1>1, <1>6, <1>7 DEF InRing

\* A new queue.
LEMMA InRingNew ==
    ASSUME NEW kind \in QueueKinds, NEW type, type = QUEUE <=> kind = "PTR"
    PROVE  InRing(type, NewRing(kind), 0, <<>>)
<1>1. kind \in {"PTR", "FIX", "DYN"} /\ MsgNum \in Nat \ {0} /\ DynSize \in Nat \ {0}
  BY QueueAssumption
<1>2. kind = "FIX" => BlkSize(FixMsgs) \in Nat \ {0}
  <2>1. SUFFICES ASSUME kind = "FIX" PROVE BlkSize(FixMsgs) \in Nat \ {0}
    OBVIOUS
  <2>2. PICK m : m \in FixMsgs
    BY <2>1, QueueAssumption
  <2>3. m \in KindMsgs(kind)
    BY <2>1, <2>2 DEF KindMsgs
  <2> QED
    BY <2>1, <2>3, KindFacts
<1>3. \A a, b \in Nat \ {0} : a * b \in Nat \ {0}
  OBVIOUS
<1>4. \E r : /\ NewRing(kind) = RingbufReset(r) /\ IsRing(r) /\ r.size \in Nat \ {0}
             /\ kind # "DYN" => /\ r.type = "FIX" /\ r.blk_size \in Nat \ {0}
                                /\ r.size = MsgNum * r.blk_size
             /\ kind = "PTR" => r.blk_size = 1
             /\ kind = "FIX" => r.blk_size = BlkSize(FixMsgs)
             /\ kind = "DYN" => r.type = "DYN" /\ r.size = DynSize
  <2> DEFINE Ring(type1, size, blk) ==
               [buf |-> <<>>, size |-> size, head |-> 0, tail |-> 0,
                freesize |-> 0, type |-> type1, blk_size |-> blk]
  <2>1. CASE kind = "PTR"
    <3> DEFINE r == Ring("FIX", MsgNum, 1)
    <3>1. NewRing(kind) = RingbufReset(r)
      BY <2>1 DEF NewRing, RingbufInit
    <3>2. IsRing(r) /\ r.size = MsgNum /\ r.type = "FIX" /\ r.blk_size = 1
      BY DEF IsRing
    <3>3. MsgNum = MsgNum * 1
      BY <1>1
    <3> QED
      BY <1>1, <2>1, <3>1, <3>2, <3>3
  <2>2. CASE kind = "FIX"
    <3> DEFINE b == BlkSize(FixMsgs)
               r == Ring("FIX", MsgNum * b, b)
    <3>1. NewRing(kind) = RingbufReset(r)
      BY <2>2 DEF NewRing, RingbufInit
    <3>2. IsRing(r) /\ r.size = MsgNum * b /\ r.type = "FIX" /\ r.blk_size = b
      BY DEF IsRing
    <3>3. MsgNum * b \in Nat \ {0} /\ b \in Nat \ {0}
      BY <1>1, <1>2, <1>3, <2>2
    <3> QED
      BY <2>2, <3>1, <3>2, <3>3
  <2>3. CASE kind = "DYN"
    <3> DEFINE r == Ring("DYN", DynSize, DynSize)
    <3>1. NewRing(kind) = RingbufReset(r)
      BY <2>3 DEF NewRing, RingbufInit
    <3>2. IsRing(r) /\ r.size = DynSize /\ r.type = "DYN"
      BY DEF IsRing
    <3> QED
      BY <1>1, <2>3, <3>1, <3>2
  <2> QED
    BY <1>1, <2>1, <2>2, <2>3
<1>5. RingHolds(kind, NewRing(kind), <<>>)
  BY <1>4, NewHolds
<1>6. 0 = Len(<<>>)
  OBVIOUS
<1> QED
  BY <1>5, <1>6 DEF InRing

\* What RingSound says of such a ring.
LEMMA InRingSound ==
    ASSUME NEW type, NEW r, NEW n, NEW ms, InRing(type, r, n, ms)
    PROVE  /\ DOMAIN r.buf = 0..r.size - 1
           /\ type # QUEUE =>
                 Cardinality({i \in DOMAIN r.buf : r.buf[i] = FREE}) = r.freesize
<1>1. PICK kind \in QueueKinds : (type = QUEUE <=> kind = "PTR") /\ RingHolds(kind, r, ms)
  BY DEF InRing
<1>2. PICK used : Holds(r, used, ms) /\ Fields(kind, r, Len(ms), used)
  BY <1>1 DEF RingHolds
<1>3. RingOK(r, used)
  BY <1>2 DEF Holds, Stored
<1>4. /\ DOMAIN r.buf = 0..r.size - 1
      /\ Cardinality({i \in DOMAIN r.buf : r.buf[i] = FREE}) = r.size - used
  BY <1>3, FreeBytes
<1>5. kind # "PTR" => r.freesize = r.size - used
  BY <1>2 DEF Fields
<1> QED
  BY <1>1, <1>4, <1>5
-----------------------------------------------------------------------------
(* The steps on queues.                                                     *)

\* The messages in a queue.
Chan(q) == IF IsQueue(q) THEN Contents(ring[q], cur_num[q]) ELSE <<>>

\* The ring of q holds them.
InQueue(q) == InRing(obj_type[q], ring[q], cur_num[q], Chan(q))

\* The ring of every queue holds as many messages as cur_num says.
QueueSound ==
    /\ ring = [q \in Others |-> ring[q]]
    /\ \A q \in Others : IsQueue(q) => InQueue(q)

\* A step leaves the queue x, if it is one, alone.
SameQueue(x) ==
    /\ IsQueue(x)' <=> IsQueue(x)
    /\ IsQueue(x) => obj_type'[x] = obj_type[x] /\ ring'[x] = ring[x] /\ cur_num'[x] = cur_num[x]

\* A step leaves the messages ms in q, and the other queues alone.
OnQueue(q, ms) ==
    /\ ring' = [x \in Others |-> ring'[x]]
    /\ IsQueue(q)' => InQueue(q)'
    /\ Chan(q)' = ms
    /\ \A x \in Others : x # q => SameQueue(x)

\* A queue that is left alone keeps its messages.
LEMMA SameChan ==
    ASSUME NEW x \in Others, SameQueue(x)
    PROVE  Chan(x)' = Chan(x) /\ (IsQueue(x)' /\ InQueue(x) => InQueue(x)')
<1>1. Chan(x)' = Chan(x)
  BY DEF SameQueue, Chan
<1> QED
  BY <1>1 DEF SameQueue, InQueue

\* What a ring that holds ms means for its queue.
LEMMA ChanIs ==
    ASSUME NEW q, IsQueue(q)', NEW ms, InRing(obj_type'[q], ring'[q], cur_num'[q], ms)
    PROVE  Chan(q)' = ms /\ InQueue(q)'
<1>1. Contents(ring'[q], cur_num'[q]) = ms
  BY InRingContents
<1>2. Chan(q)' = ms
  BY <1>1 DEF Chan
<1> QED
  BY <1>2 DEF InQueue

\* Queues that a step leaves alone stay as they are.
LEMMA AllSame ==
    ASSUME QueueSound, ring' = [x \in Others |-> ring'[x]], NEW q,
           IsQueue(q)' => InQueue(q)', \A x \in Others : x # q => SameQueue(x)
    PROVE  QueueSound'
<1>1. ASSUME NEW x \in Others, IsQueue(x)' PROVE InQueue(x)'
  <2>1. CASE x = q
    BY <1>1, <2>1
  <2>2. CASE x # q
    <3>1. SameQueue(x)
      BY <2>2
    <3>2. InQueue(x)
      BY <1>1, <3>1 DEF SameQueue, QueueSound
    <3> QED
      BY <1>1, <3>1, <3>2, SameChan
  <2> QED
    BY <2>1, <2>2
<1> QED
  BY <1>1, Zenon DEF QueueSound

\* A step that touches no queue.
LEMMA QueueKept ==
    ASSUME QueueSound, UNCHANGED <<obj_type, ring, cur_num>>
    PROVE  QueueSound' /\ \A x \in Others : SameQueue(x)
<1>1. \A x \in Others : SameQueue(x)
  BY DEF SameQueue, IsQueue, Is
<1>2. ring' = [x \in Others |-> ring'[x]]
  BY DEF QueueSound
<1>3. ASSUME NEW x \in Others, IsQueue(x)' PROVE InQueue(x)'
  <2>1. SameQueue(x)
    BY <1>1
  <2>2. InQueue(x)
    BY <1>3, <2>1 DEF SameQueue, QueueSound
  <2> QED
    BY <1>3, <2>1, <2>2, SameChan
<1>4. QueueSound'
  BY <1>2, <1>3, Zenon DEF QueueSound
<1> QED
  BY <1>1, <1>4

\* The object o is created or deleted, and is no queue.
LEMMA OtherKind ==
    ASSUME ObjSound, QueueSound, NEW o \in Others, NEW k,
           k \notin {QUEUE, BUF_QUEUE}, ~IsQueue(o), obj_type' = [obj_type EXCEPT ![o] = k],
           UNCHANGED <<ring, cur_num>>
    PROVE  QueueSound' /\ \A x \in Others : SameQueue(x)
<1>1. obj_type'[o] = k /\ \A x \in Others : x # o => obj_type'[x] = obj_type[x]
  BY DEF ObjSound
<1>2. ~IsQueue(o)'
  BY <1>1 DEF IsQueue, Is
<1>3. \A x \in Others : SameQueue(x)
  BY <1>1, <1>2 DEF SameQueue, IsQueue, Is
<1>4. ring' = [x \in Others |-> ring'[x]]
  BY DEF QueueSound
<1> QED
  BY <1>2, <1>3, <1>4, AllSame

\* A step on one queue keeps the invariant.
LEMMA OneQueue ==
    ASSUME QueueSound, NEW q, NEW ms, OnQueue(q, ms)
    PROVE  QueueSound'
BY AllSame DEF OnQueue

\* A step that sets the ring and the count of q.
LEMMA SetQueue ==
    ASSUME QueueSound, MessageSound, ObjSound, NEW q \in Others, NEW r, NEW n,
           ring' = [ring EXCEPT ![q] = r], cur_num' = [cur_num EXCEPT ![q] = n],
           obj_type' = [obj_type EXCEPT ![q] = obj_type'[q]],
           NEW ms, IF IsQueue(q)' THEN InRing(obj_type'[q], r, n, ms) ELSE ms = <<>>
    PROVE  OnQueue(q, ms)
<1>1. ring'[q] = r /\ cur_num'[q] = n
  BY DEF QueueSound, MessageSound
<1>2. \A x \in Others : x # q =>
         ring'[x] = ring[x] /\ cur_num'[x] = cur_num[x] /\ obj_type'[x] = obj_type[x]
  BY DEF QueueSound, MessageSound, ObjSound
<1>3. \A x \in Others : x # q => SameQueue(x)
  BY <1>2 DEF SameQueue, IsQueue, Is
<1>4. ring' = [x \in Others |-> ring'[x]]
  BY DEF QueueSound
<1>5. Chan(q)' = ms /\ (IsQueue(q)' => InQueue(q)')
  <2>1. CASE IsQueue(q)'
    BY <1>1, <2>1, ChanIs
  <2>2. CASE ~IsQueue(q)'
    BY <2>2 DEF Chan
  <2> QED
    BY <2>1, <2>2
<1> QED
  BY <1>3, <1>4, <1>5 DEF OnQueue

\* The creation of a queue.
LEMMA OnCreate ==
    ASSUME IpcIInv, QueueSound, NEW q \in Others, NEW kind \in QueueKinds, QueueCreate(q, kind)
    PROVE  OnQueue(q, <<>>)
<1>1. MessageSound /\ ObjSound
  BY DEF IpcIInv
<1>2. PICK type : type = IF kind = "PTR" THEN QUEUE ELSE BUF_QUEUE
  OBVIOUS
<1>3. /\ obj_type' = [obj_type EXCEPT ![q] = type]
      /\ ring' = [ring EXCEPT ![q] = NewRing(kind)] /\ cur_num' = [cur_num EXCEPT ![q] = 0]
  BY <1>2 DEF QueueCreate, ObjCreate
<1>4. obj_type'[q] = type
  BY <1>1, <1>3 DEF ObjSound
<1>5. type = QUEUE <=> kind = "PTR"
  BY <1>2 DEF QUEUE, BUF_QUEUE
<1>6. InRing(obj_type'[q], NewRing(kind), 0, <<>>)
  BY <1>4, <1>5, InRingNew
<1>7. IsQueue(q)'
  BY <1>2, <1>4 DEF IsQueue, Is
<1> QED
  BY <1>1, <1>3, <1>4, <1>6, <1>7, SetQueue

\* Its deletion.
LEMMA OnDel ==
    ASSUME IpcIInv, QueueSound, NEW q \in Others, QueueDel(q)
    PROVE  OnQueue(q, <<>>)
<1>1. MessageSound /\ ObjSound
  BY DEF IpcIInv
<1>2. /\ obj_type' = [obj_type EXCEPT ![q] = NONE]
      /\ ring' = [ring EXCEPT ![q] = NoRing] /\ cur_num' = [cur_num EXCEPT ![q] = 0]
  BY DEF QueueDel, ObjDel
<1>3. obj_type'[q] = NONE
  BY <1>1, <1>2 DEF ObjSound
<1>4. ~IsQueue(q)'
  BY <1>3 DEF IsQueue, Is, NONE, QUEUE, BUF_QUEUE
<1> QED
  BY <1>1, <1>2, <1>3, <1>4, SetQueue

\* A flush.
LEMMA OnFlush ==
    ASSUME IpcIInv, QueueSound, NEW q \in Others, QueueFlush(q)
    PROVE  OnQueue(q, <<>>)
<1>1. MessageSound /\ ObjSound /\ IsQueue(q) /\ InQueue(q)
  BY DEF IpcIInv, QueueFlush, QueueSound
<1>2. /\ UNCHANGED obj_type /\ ring' = [ring EXCEPT ![q] = RingbufReset(ring[q])]
      /\ cur_num' = [cur_num EXCEPT ![q] = 0]
  BY DEF QueueFlush, QueueSound
<1>3. obj_type' = [obj_type EXCEPT ![q] = obj_type'[q]] /\ IsQueue(q)'
  BY <1>1, <1>2 DEF ObjSound, IsQueue, Is
<1>4. InRing(obj_type[q], RingbufReset(ring[q]), 0, <<>>)
  BY <1>1, InRingReset DEF InQueue
<1>5. InRing(obj_type'[q], RingbufReset(ring[q]), 0, <<>>)
  BY <1>2, <1>4
<1> QED
  BY <1>1, <1>2, <1>3, <1>5, SetQueue

\* A message goes into the ring.
LEMMA OnSend ==
    ASSUME IpcIInv, QueueSound, NEW q \in Others, NEW m \in MsgsOf(q), QueueSend(q, m)
    PROVE  /\ OnQueue(q, Append(Chan(q), m))
           /\ Len(Chan(q)) < Capacity /\ m \in QueueMsgs
<1>1. MessageSound /\ ObjSound /\ IsQueue(q) /\ InQueue(q)
  BY DEF IpcIInv, QueueSend, Sending, QueueSound
<1>2. PICK r2 : r2 = IF obj_type[q] = QUEUE THEN RingbufQueuePush(ring[q], m)
                     ELSE RingbufPush(ring[q], m)
  OBVIOUS
<1>3. /\ UNCHANGED obj_type /\ ring' = [ring EXCEPT ![q] = r2]
      /\ cur_num' = [cur_num EXCEPT ![q] = cur_num[q] + 1]
  BY <1>2 DEF QueueSend, Is
<1>4. obj_type' = [obj_type EXCEPT ![q] = obj_type'[q]] /\ IsQueue(q)'
  BY <1>1, <1>3 DEF ObjSound, IsQueue, Is
<1>5. /\ m \in IF obj_type[q] = QUEUE THEN PtrMsgs
               ELSE IF ring[q].type = "FIX" THEN FixMsgs ELSE DynMsgs
      /\ IF obj_type[q] = QUEUE THEN cur_num[q] < MsgNum ELSE ~RingbufFull(ring[q], Len(m))
  BY DEF MsgsOf, QueueSend, HasRoom, Is
<1>6. /\ InRing(obj_type[q], r2, cur_num[q] + 1, Append(Chan(q), m))
      /\ Len(Chan(q)) < Capacity /\ m \in QueueMsgs
  BY <1>1, <1>2, <1>5, InRingSend DEF InQueue
<1>7. InRing(obj_type'[q], r2, cur_num[q] + 1, Append(Chan(q), m))
  BY <1>3, <1>6
<1>8. OnQueue(q, Append(Chan(q), m))
  BY <1>1, <1>3, <1>4, <1>7, SetQueue
<1> QED
  BY <1>6, <1>8

\* The oldest message is taken out.
LEMMA OnRecv ==
    ASSUME IpcIInv, QueueSound, NEW q \in Others, QueueRecv(q)
    PROVE  OnQueue(q, Tail(Chan(q))) /\ got' = Head(Chan(q)) /\ Chan(q) # <<>>
<1>1. MessageSound /\ ObjSound /\ IsQueue(q) /\ InQueue(q) /\ cur_num[q] > 0
  BY DEF IpcIInv, QueueRecv, Receiving, QueueSound
<1>2. PICK p : p = IF obj_type[q] = QUEUE THEN RingbufQueuePop(ring[q]) ELSE RingbufPop(ring[q])
  OBVIOUS
<1>3. /\ UNCHANGED obj_type /\ ring' = [ring EXCEPT ![q] = p.ring]
      /\ cur_num' = [cur_num EXCEPT ![q] = cur_num[q] - 1] /\ got' = p.data
  BY <1>2 DEF QueueRecv, Pop, Is
<1>4. obj_type' = [obj_type EXCEPT ![q] = obj_type'[q]] /\ IsQueue(q)'
  BY <1>1, <1>3 DEF ObjSound, IsQueue, Is
<1>5. /\ p.data = Head(Chan(q)) /\ Chan(q) # <<>>
      /\ InRing(obj_type[q], p.ring, cur_num[q] - 1, Tail(Chan(q)))
  BY <1>1, <1>2, InRingRecv DEF InQueue
<1>6. InRing(obj_type'[q], p.ring, cur_num[q] - 1, Tail(Chan(q)))
  BY <1>3, <1>5
<1>7. OnQueue(q, Tail(Chan(q)))
  BY <1>1, <1>3, <1>4, <1>6, SetQueue
<1> QED
  BY <1>3, <1>5, <1>7

\* The calls on semaphores and event flags leave the queues alone.
LEMMA OtherObjects ==
    ASSUME IpcIInv, QueueSound, SemCall \/ EventCall, UNCHANGED queueVars
    PROVE  QueueSound' /\ \A x \in Others : SameQueue(x)
<1>1. UNCHANGED <<ring, cur_num>> /\ ObjSound
  BY DEF queueVars, IpcIInv
<1>2. SEM \notin {QUEUE, BUF_QUEUE} /\ EVENT \notin {QUEUE, BUF_QUEUE} /\ NONE \notin {QUEUE, BUF_QUEUE}
  BY DEF SEM, EVENT, QUEUE, BUF_QUEUE, NONE
<1>3. ASSUME NEW o \in Others, NEW k \in {SEM, EVENT}, ObjCreate(o, k)
      PROVE  QueueSound' /\ \A x \in Others : SameQueue(x)
  <2>1. obj_type[o] = NONE /\ obj_type' = [obj_type EXCEPT ![o] = k]
    BY <1>1, <1>3 DEF ObjSound, ObjCreate
  <2>2. ~IsQueue(o) /\ k \notin {QUEUE, BUF_QUEUE}
    BY <1>2, <2>1 DEF IsQueue, Is
  <2> QED
    BY <1>1, <2>1, <2>2, OtherKind
<1>4. ASSUME NEW o \in Others, NEW k \in {SEM, EVENT}, ObjDel(o, k)
      PROVE  QueueSound' /\ \A x \in Others : SameQueue(x)
  <2>1. obj_type[o] = k /\ obj_type' = [obj_type EXCEPT ![o] = NONE]
    BY <1>4 DEF ObjDel, Is
  <2>2. ~IsQueue(o)
    BY <1>2, <2>1 DEF IsQueue, Is
  <2> QED
    BY <1>1, <1>2, <2>1, <2>2, OtherKind
<1>5. \/ UNCHANGED obj_type
      \/ \E o \in Others, k \in {SEM, EVENT} : ObjCreate(o, k) \/ ObjDel(o, k)
  <2>1. CASE SemCall
    <3>1. ASSUME SemWake PROVE UNCHANGED obj_type
      BY <3>1 DEF SemWake, ObjWakeNext
    <3>2. ASSUME NEW s \in Others, \E n \in SemCounts : SemCreate(s, n) PROVE ObjCreate(s, SEM)
      BY <3>2 DEF SemCreate
    <3>3. ASSUME NEW s \in Others, SemDel(s) PROVE ObjDel(s, SEM)
      BY <3>3 DEF SemDel
    <3>4. ASSUME NEW s \in Others,
                 \/ SemGiveCount(s) \/ SemGiveOne(s) \/ SemGiveAll(s) \/ SemTakeCount(s)
                 \/ \E ticks \in Waits : SemTakePend(s, ticks)
                 \/ \E n \in SemCounts : SemCountSet(s, n)
          PROVE  UNCHANGED obj_type
      BY <3>4 DEF SemGiveCount, SemGiveOne, SemGiveAll, SemTakeCount, SemTakePend, SemCountSet,
                  ObjWakeFirst, ObjLoop, ObjPend
    <3> QED
      BY <2>1, <3>1, <3>2, <3>3, <3>4, Zenon DEF SemCall
  <2>2. CASE EventCall
    <3>1. ASSUME EventWake PROVE UNCHANGED obj_type
      BY <3>1 DEF EventWake
    <3>2. ASSUME NEW e \in Others, \E f \in SUBSET Flags : EventCreate(e, f) PROVE ObjCreate(e, EVENT)
      BY <3>2 DEF EventCreate
    <3>3. ASSUME NEW e \in Others, EventDel(e) PROVE ObjDel(e, EVENT)
      BY <3>3 DEF EventDel
    <3>4. ASSUME NEW e \in Others,
                 \/ \E req \in EventGets :
                       EventGetNow(e, req) \/ \E ticks \in Waits : EventGetPend(e, req, ticks)
                 \/ \E set \in EventSets : EventSetAnd(e, set)
          PROVE  UNCHANGED obj_type
      BY <3>4 DEF EventGetNow, EventGetPend, EventSetAnd, ObjPend
    <3>5. ASSUME NEW e \in Others, \E set \in EventSets : EventSetOr(e, set)
          PROVE  UNCHANGED obj_type
      BY <3>5 DEF EventSetOr, ObjLoop
    <3> QED
      BY <2>2, <3>1, <3>2, <3>3, <3>4, <3>5, Zenon DEF EventCall
  <2> QED
    BY <2>1, <2>2
<1> QED
  BY <1>1, <1>3, <1>4, <1>5, QueueKept

\* What a call on a queue does to the messages.
LEMMA QueueEffect ==
    ASSUME IpcIInv, QueueSound, QueueCall
    PROVE  QueueSound'
<1>1. ASSUME QueueWake \/ \E q \in Others :
                \/ \E m \in MsgsOf(q) : QueueSendOne(q, m) \/ QueueSendAll(q, m)
                \/ \E ticks \in Waits : QueueRecvPend(q, ticks)
      PROVE  QueueSound'
  <2>1. UNCHANGED <<obj_type, ring, cur_num>>
    BY <1>1 DEF QueueWake, QueueSendOne, QueueSendAll, QueueRecvPend, ObjWakeNext, ObjWakeFirst,
                ObjLoop, ObjPend
  <2> QED
    BY <2>1, QueueKept
<1>2. ASSUME NEW q \in Others, \E kind \in QueueKinds : QueueCreate(q, kind) PROVE QueueSound'
  BY <1>2, OnCreate, OneQueue
<1>3. ASSUME NEW q \in Others, QueueDel(q) PROVE QueueSound'
  BY <1>3, OnDel, OneQueue
<1>4. ASSUME NEW q \in Others, \E m \in MsgsOf(q) : QueueSend(q, m) PROVE QueueSound'
  BY <1>4, OnSend, OneQueue
<1>5. ASSUME NEW q \in Others, QueueRecv(q) PROVE QueueSound'
  BY <1>5, OnRecv, OneQueue
<1>6. ASSUME NEW q \in Others, QueueFlush(q) PROVE QueueSound'
  BY <1>6, OnFlush, OneQueue
<1> QED
  BY <1>1, <1>2, <1>3, <1>4, <1>5, <1>6, Zenon DEF QueueCall

\* The queues that exist when the system starts are empty.
LEMMA QueueStart == IpcInit => QueueSound
<1> SUFFICES ASSUME IpcInit PROVE QueueSound
  OBVIOUS
<1>1. QueueInit /\ obj_type \in [Others -> Kinds]
  BY DEF IpcInit
<1>2. ring = [q \in Others |-> ring[q]] /\ cur_num = [o \in Others |-> 0]
  BY <1>1 DEF QueueInit
<1>3. ASSUME NEW q \in Others, IsQueue(q) PROVE InQueue(q)
  <2>1. PICK kind \in QueueKinds \cap IF Is(q, QUEUE) THEN {"PTR"} ELSE {"FIX", "DYN"} :
               ring[q] = NewRing(kind)
    BY <1>1, <1>3 DEF QueueInit
  <2>2. obj_type[q] = QUEUE <=> kind = "PTR"
    BY <2>1 DEF Is
  <2>3. InRing(obj_type[q], ring[q], cur_num[q], <<>>)
    BY <1>2, <2>1, <2>2, InRingNew
  <2>4. Contents(ring[q], cur_num[q]) = <<>>
    BY <2>3, InRingContents
  <2> QED
    BY <1>3, <2>3, <2>4 DEF InQueue, Chan
<1> QED
  BY <1>2, <1>3 DEF QueueSound

\* The invariant that RingSound relies on.
QueueIInv == IpcIInv /\ QueueSound

\* Every step keeps it.
LEMMA QueueStep ==
    ASSUME "task_suspend" \notin IsrCalls, QueueIInv, [IpcNext]_ipcVars
    PROVE  QueueIInv'
<1>1. IpcIInv /\ QueueSound
  BY DEF QueueIInv
<1>2. IpcIInv'
  BY <1>1, IpcStutter, CoreStep, SemCalls, QueueCalls, EventCalls DEF IpcNext
<1>3. QueueSound'
  <2>1. CASE Next /\ QueueCore /\ EventCore /\ UNCHANGED <<obj_type, count>>
    BY <1>1, <2>1, QueueKept DEF QueueCore
  <2>2. CASE UNCHANGED ipcVars
    BY <1>1, <2>2, QueueKept DEF ipcVars, queueVars
  <2>3. CASE SemCall /\ UNCHANGED <<queueVars, eventVars>>
    BY <1>1, <2>3, OtherObjects
  <2>4. CASE EventCall /\ UNCHANGED <<count, queueVars>>
    BY <1>1, <2>4, OtherObjects
  <2>5. CASE QueueCall /\ UNCHANGED <<count, eventVars>>
    BY <1>1, <2>5, QueueEffect
  <2> QED
    BY <2>1, <2>2, <2>3, <2>4, <2>5, Zenon DEF IpcNext
<1> QED
  BY <1>2, <1>3 DEF QueueIInv

\* It is inductive: the ring of every queue holds exactly its messages, whatever
\* wraps around in it.
THEOREM QueueInductive ==
    ASSUME "task_suspend" \notin IsrCalls PROVE IpcSpec => []QueueIInv
<1>1. IpcInit => QueueIInv
  BY IpcInitInv, QueueStart DEF QueueIInv
<1>2. QueueIInv /\ [IpcNext]_ipcVars => QueueIInv'
  BY QueueStep
<1> QED
  BY <1>1, <1>2, PTL DEF IpcSpec

\* In every state the ring's memory has its size, and the free size of a buffer
\* queue counts exactly the bytes that are not in use.
THEOREM RingCorrect ==
    ASSUME "task_suspend" \notin IsrCalls PROVE IpcSpec => []RingSound
<1>1. ASSUME QueueIInv PROVE RingSound
  <2>1. ASSUME NEW q \in Others, IsQueue(q)
        PROVE  /\ DOMAIN ring[q].buf = 0..ring[q].size - 1
               /\ Is(q, BUF_QUEUE) =>
                     Cardinality({i \in DOMAIN ring[q].buf : ring[q].buf[i] = FREE})
                        = ring[q].freesize
    <3>1. InRing(obj_type[q], ring[q], cur_num[q], Chan(q))
      BY <1>1, <2>1 DEF QueueIInv, QueueSound, InQueue
    <3>2. Is(q, BUF_QUEUE) => obj_type[q] # QUEUE
      BY DEF Is, QUEUE, BUF_QUEUE
    <3> QED
      BY <3>1, <3>2, InRingSound
  <2> QED
    BY <2>1 DEF RingSound
<1>2. QueueIInv => RingSound
  BY <1>1
<1> QED
  BY <1>2, QueueInductive, PTL
-----------------------------------------------------------------------------
(* What task->msg is while a receive waits.                                 *)

\* The task t is in a call that waits, or has waited, for an object.
InCall(t) == pc[t] \in {"blk", "end"} /\ call[t] \in Others

\* A task has a message only in a receive, and every waiter that krhino_queue_all_send
\* is about to wake has one.
MsgSound ==
    /\ msg \in [Tasks -> QueueMsgs \cup {NULL}]
    /\ \A t \in Tasks : msg[t] # NULL => InCall(t) /\ obj_type[call[t]] \notin {SEM, EVENT}
    /\ \A it \in ToSet(todo) : it.op = "queue_wake" =>
          \A t \in ToSet(blk_list[it.obj]) : msg[t] # NULL
    /\ \A it \in ToSet(todo) : it.op \in {"sem_wake", "event_wake"} =>
          obj_type[it.obj] \in {SEM, EVENT}

\* A call that waits, or has waited, is the same after the step, or it is over.
CallHolds(x) ==
    InCall(x) => \/ call'[x] = NULL
                 \/ call'[x] = call[x] /\ pc'[x] \in {"blk", "end"}

\* It is when the answer of the call is not touched,
LEMMA AnswerHolds == ASSUME NEW x, AnswerKept(x) PROVE CallHolds(x)
BY DEF AnswerKept, CallHolds, InCall

\* or when only its phase may change.
LEMMA CallPcHolds ==
    ASSUME IInv, PcKept, UNCHANGED call PROVE \A x \in Tasks : CallHolds(x)
BY CallKept DEF CallHolds, InCall

\* A step of the core keeps a call or ends it.
LEMMA CoreCalls == ASSUME MutexIInv, MutexIInv', Next PROVE \A x \in Tasks : CallHolds(x)
<1>1. IInv /\ IInv' /\ active \in Tasks
  BY DEF MutexIInv, IInv, FieldsOK
<1>2. ASSUME PhaseKept \/ \E t \in Tasks : WaitFails(t) PROVE \A x \in Tasks : CallHolds(x)
  BY <1>1, <1>2, CallPcHolds DEF PhaseKept, WaitFails
<1>3. CASE \/ CoreSched \/ PendSV \/ IdleLoop \/ IntrptEnter \/ TickEnter \/ IntrptExit
           \/ TimeSliceUpdate \/ SchedDisable \/ SchedEnable
  BY <1>1, <1>2, <1>3, CpuSteps
<1>4. CASE TickProc \/ TaskPriChange \/ CancelCoreSched
  BY <1>1, <1>2, <1>4, RoundSteps
<1>5. CASE TickExpire \/ DelWaiters
  BY <1>1, <1>2, <1>5, EndSteps
<1>6. ASSUME NEW x \in Tasks, pc[x] \notin {"blk", "end"} PROVE CallHolds(x)
  BY <1>6 DEF CallHolds, InCall
<1>7. ASSUME pc[active] \notin {"blk", "end"}, \A x \in Tasks : x # active => pc'[x] = pc[x] /\ call'[x] = call[x]
      PROVE  \A x \in Tasks : CallHolds(x)
  BY <1>6, <1>7 DEF CallHolds, InCall
<1>8. CASE MutexLockPend
  <2>1. pc[active] = "run" /\ PendToBlkObj(Head(todo).obj, Head(todo).arg)
    BY <1>1, <1>8, DoingItem DEF MutexLockPend, WorkItem, ItemSound
  <2>2. \A x \in Tasks : x # active => pc'[x] = pc[x] /\ call'[x] = call[x]
    BY <1>1, <2>1 DEF PendToBlkObj, IInv, FieldsOK
  <2> QED
    BY <1>7, <2>1, <2>2
<1>9. CASE MutexHandOver \/ TaskMutexFree
  <2>1. UNCHANGED call
    BY <1>9 DEF MutexHandOver, TaskMutexFree
  <2>2. CASE TaskMutexFree
    <3>1. PcKept
      BY <2>2, ZenonT(60) DEF TaskMutexFree, PcKept
    <3> QED
      BY <1>1, <2>1, <3>1, CallPcHolds
  <2>3. CASE MutexHandOver
    <3>1. todo # <<>> /\ Head(todo).op = "hand_over"
      BY <2>3 DEF MutexHandOver, Doing
    <3>2. Head(todo) \in Marks(todo)
      BY <1>1, <3>1, MarksHead DEF MarkOps
    <3>3. pc[active] = "run"
      BY <3>1, <3>2 DEF MutexIInv, RestSound, MarkSound
    <3>4. ExitSched \/ UNCHANGED pc
      BY <2>3 DEF MutexHandOver
    <3>5. PcKept
      BY <1>1, <3>3, <3>4, ExitKeepsPc
    <3> QED
      BY <1>1, <2>1, <3>5, CallPcHolds
  <2> QED
    BY <1>9, <2>2, <2>3, SMTT(30)
<1>10. CASE TaskDelEnd
  <2>1. Doing("del_end")
    BY <1>10 DEF TaskDelEnd
  <2>2. todo # <<>> /\ Head(todo).op = "del_end"
    BY <2>1 DEF Doing
  <2>3. Head(todo) \in Marks(todo) /\ Head(todo).task \in AppTasks
    BY <1>1, <2>2, MarksHead DEF WorkItem, MarkOps
  <2>4. PICK t \in Tasks : t = Head(todo).task
    BY <2>3 DEF AppTasks
  <2>5. pc[active] = "run" /\ Created(t)
    BY <2>2, <2>3, <2>4 DEF MutexIInv, RestSound, MarkSound
  <2>6. call' = [call EXCEPT ![t] = NULL] /\ ExitSched
    BY <1>10, <2>4, <2>5 DEF TaskDelEnd, Created
  <2>7. PcKept
    BY <1>1, <2>5, <2>6, ExitKeepsPc
  <2>8. \A x \in Tasks : call'[x] = NULL \/ call'[x] = call[x]
    BY <1>1, <2>6 DEF IInv, FieldsOK
  <2> QED
    BY <1>1, <2>7, <2>8, CallKept, SMTT(30) DEF CallHolds, InCall
<1>11. CASE Continue
  BY <1>4, <1>5, <1>8, <1>9, <1>10, <1>11, Zenon DEF Continue
<1>12. CASE PendStateEndProc
  <2>1. pc' = [pc EXCEPT ![active] = "run"] /\ call' = [call EXCEPT ![active] = NULL]
    BY <1>12 DEF PendStateEndProc
  <2> QED
    BY <1>1, <2>1 DEF CallHolds, InCall, IInv, FieldsOK
<1>13. CASE TaskPriChangeCall \/ \E t \in Tasks, p \in NewPris : TaskPriChangeCheck(t, p)
  <2>1. PriCall
    BY <1>1, <1>13, PriCallSteps
  <2> QED
    BY <1>7, <2>1 DEF PriCall
<1>14. ASSUME NEW t \in Tasks, TaskWaitAbort(t) \/ TaskCancel(t) PROVE \A x \in Tasks : CallHolds(x)
  BY <1>1, <1>2, <1>14, AbortSteps
<1>15. ASSUME NEW t \in Tasks, TaskDel(t) PROVE \A x \in Tasks : CallHolds(x)
  BY <1>15 DEF TaskDel, CallHolds, InCall
<1>16. ASSUME NEW ticks \in Waits, TaskSleep(ticks) PROVE \A x \in Tasks : CallHolds(x)
  <2>1. call' = call /\ pc[active] = "run"
    BY <1>16, CallerMutex DEF TaskSleep
  <2>2. \A x \in Tasks : x # active => pc'[x] = pc[x]
    BY <1>1, <1>16 DEF TaskSleep, ExitSched, IInv, FieldsOK
  <2> QED
    BY <1>7, <2>1, <2>2
<1>17. ASSUME NEW t \in Tasks, NEW p \in NewPris, NEW autorun \in BOOLEAN, TaskCreate(t, p, autorun)
       PROVE  \A x \in Tasks : CallHolds(x)
  <2>1. /\ UNCHANGED call /\ ~Created(t) /\ NULL \notin Others /\ pc[active] = "run"
        /\ IInv /\ active \in Tasks
    BY <1>1, <1>17, CallerMutex, KernelAssumption DEF TaskCreate
  <2>2. ~InCall(t)
    BY <2>1 DEF MutexIInv, CallsSound, InCall
  <2>3. ASSUME NEW x \in Tasks, x # t PROVE AnswerKept(x)
    BY <1>17, <2>1, <2>3 DEF TaskCreate, AnswerKept, IInv, FieldsOK
  <2> QED
    BY <2>2, <2>3, AnswerHolds DEF CallHolds
<1>18. ASSUME NEW t \in Tasks,
               \/ TaskYield \/ TaskSuspend(t) \/ TaskResume(t)
               \/ \E s \in TimeSlices : TaskTimeSliceSet(t, s)
               \/ \E policy \in {"KSCHED_FIFO", "KSCHED_RR"} : SchedPolicySet(t, policy)
       PROVE  \A x \in Tasks : CallHolds(x)
  BY <1>1, <1>2, <1>18, QueueSteps
<1>19. CASE TaskYield
  BY <1>18, <1>19, KernelAssumption
<1>20. CASE TaskCall
  BY <1>13, <1>14, <1>15, <1>16, <1>17, <1>18, <1>19, <1>20, Zenon DEF TaskCall
<1>21. CASE MutexCall
  <2>1. UNCHANGED call
    BY <1>21 DEF MutexCall, MutexCreate, MutexLockNested, MutexLockFree, MutexLockBusy,
       MutexUnlockNested, MutexUnlock, MutexDel, dataVars, tcbVars, waitVars, ctlVars
  <2>2. (ExitSched \/ UNCHANGED pc) /\ \E c : Calling(c)
    BY <1>21 DEF MutexCall, MutexCreate, MutexLockNested, MutexLockFree, MutexLockBusy,
       MutexUnlockNested, MutexUnlock, MutexDel, ctlVars
  <2>3. PcKept
    BY <1>1, <2>2, ExitKeepsPc DEF Calling
  <2> QED
    BY <1>1, <2>1, <2>3, CallPcHolds
<1> QED
  BY <1>3, <1>4, <1>11, <1>12, <1>20, <1>21, Zenon DEF Next

\* A step of the core begins no loop over the waiters of these objects.
LEMMA CoreTodo ==
    ASSUME IInv, Next, NEW it \in ToSet(todo'), it.op \in IpcOps
    PROVE  it \in ToSet(todo)
<1>1. CASE todo = <<>>
  <2>1. CASE todo' = <<>>
    BY <2>1, NoWork
  <2>2. ASSUME NEW x, x.op \notin IpcOps, Grown(<<x>>, todo') PROVE FALSE
    <3>1. <<x>> \in Seq({x}) /\ ToSet(<<x>>) = {x}
      BY DEF ToSet
    <3> QED
      BY <2>2, <3>1, GrownSet DEF IpcOps
  <2> QED
    BY <1>1, <2>1, <2>2, BeginTodo
<1>2. CASE todo # <<>>
  <2>1. todo \in Seq(Items)
    BY DEF IInv, TodoSound
  <2>2. Tail(todo) \in Seq(Items) /\ ToSet(Tail(todo)) \subseteq ToSet(todo)
    BY <1>2, <2>1, TailSeq
  <2> QED
    BY <1>2, <2>1, <2>2, OnlyContinue, ContinueTodo, GrownSet DEF IpcOps
<1> QED
  BY <1>1, <1>2

\* What is left of a section is sound.
LEMMA WorkOf ==
    ASSUME IInv, NEW it \in ToSet(todo) PROVE WorkItem(it)
<1>1. todo \in Seq(Items)
  BY DEF IInv, TodoSound
<1>2. PICK i \in 1..Len(todo) : it = todo[i]
  BY <1>1, MemberAt
<1> QED
  BY <1>1, <1>2 DEF IInv, TodoSound, WorkList
-----------------------------------------------------------------------------
(* The messages on their way to the tasks.                                  *)

\* A task is on its way back from a wait that ended well.
Answered(t) == task_state[t] \notin Pending /\ PendStatus(t) = "BLK_FINISH"

\* What was handed to a task, seen from the objects.
HandedByObjects ==
    \A t \in Tasks : Handed(t) = IF \E s \in Others : t \in Granted(s) THEN msg[t] ELSE NULL

\* The task is then one of those that Granted names, as for a semaphore.
LEMMA HandedIs == MsgSound => HandedByObjects
<1> SUFFICES ASSUME MsgSound, NEW t \in Tasks
             PROVE  Handed(t) = IF \E s \in Others : t \in Granted(s) THEN msg[t] ELSE NULL
  BY DEF HandedByObjects
<1>1. CASE msg[t] = NULL
  BY <1>1 DEF Handed
<1>2. CASE msg[t] # NULL
  <2>1. InCall(t)
    BY <1>2 DEF MsgSound
  <2>2. (\E s \in Others : t \in Granted(s)) <=> Answered(t)
    BY <2>1 DEF Granted, Answered, InCall
  <2> QED
    BY <2>2 DEF Handed, Answered
<1> QED
  BY <1>1, <1>2

\* The same in the next state.
LEMMA HandedNext ==
    MsgSound' => \A t \in Tasks :
       Handed(t)' = IF \E s \in Others : t \in Granted(s)' THEN msg'[t] ELSE NULL
<1>1. MsgSound' => HandedByObjects'
  BY HandedIs, PTL
<1> QED
  BY <1>1 DEF HandedByObjects

\* A task for which nothing happens.
LEMMA HandedKept ==
    ASSUME NEW t \in Tasks, AnswerKept(t), msg'[t] = msg[t]
    PROVE  Handed(t)' = Handed(t)
BY DEF AnswerKept, Handed, PendStatus

\* The rest of the invariant after a step of the core.
LEMMA CoreMsg ==
    ASSUME TokenIInv, IInv', MutexIInv', MsgSound, Next, QueueCore, UNCHANGED obj_type
    PROVE  MsgSound'
<1>1. /\ MutexIInv /\ IInv /\ NULL \notin Others
      /\ msg \in [Tasks -> QueueMsgs \cup {NULL}]
      /\ \A t \in Tasks : msg[t] # NULL => InCall(t) /\ obj_type[call[t]] \notin {SEM, EVENT}
  BY KernelAssumption DEF TokenIInv, MutexIInv, MsgSound
<1>2. msg' = [t \in Tasks |-> IF call'[t] = NULL THEN NULL ELSE msg[t]]
  BY DEF QueueCore
<1>3. msg' \in [Tasks -> QueueMsgs \cup {NULL}]
  BY <1>1, <1>2
<1>4. ASSUME NEW t \in Tasks, msg'[t] # NULL
      PROVE  InCall(t)' /\ obj_type'[call'[t]] \notin {SEM, EVENT}
  <2>1. call'[t] # NULL /\ msg[t] # NULL
    BY <1>2, <1>4
  <2>2. InCall(t) /\ obj_type[call[t]] \notin {SEM, EVENT}
    BY <1>1, <2>1
  <2>3. call'[t] = call[t] /\ pc'[t] \in {"blk", "end"}
    BY <1>1, <2>1, <2>2, CoreCalls DEF CallHolds
  <2> QED
    BY <2>2, <2>3 DEF InCall
<1>5. ASSUME NEW it \in ToSet(todo'), it.op = "queue_wake", NEW t \in ToSet(blk_list'[it.obj])
      PROVE  msg'[t] # NULL
  <2>1. it \in ToSet(todo)
    BY <1>1, <1>5, CoreTodo DEF IpcOps
  <2>2. it.obj \in Others
    BY <1>1, <1>5, <2>1, WorkOf DEF WorkItem
  <2>3. it.obj \in Objs /\ it.obj \notin Mutexes
    BY <2>2, KernelAssumption DEF Objs
  <2>4. t \in ToSet(blk_list[it.obj]) /\ blk_list'[it.obj] \in Seq(Tasks)
    BY <1>1, <1>5, <2>3, NextKind, CoreShrinks DEF IInv, BlkExact
  <2>5. t \in Tasks
    BY <1>5, <2>4, MemberAt
  <2>6. task_state'[t] \in Pending /\ blk_obj'[t] = it.obj
    BY <1>5, <2>3, <2>5 DEF IInv, BlkExact
  <2>7. call'[t] = it.obj
    BY <2>5, <2>6 DEF IInv, PendSound
  <2>8. msg[t] # NULL
    BY <1>5, <2>1, <2>4 DEF MsgSound
  <2> QED
    BY <1>1, <1>2, <2>2, <2>5, <2>7, <2>8
<1>6. ASSUME NEW it \in ToSet(todo'), it.op \in {"sem_wake", "event_wake"}
      PROVE  obj_type'[it.obj] \in {SEM, EVENT}
  <2>1. it \in ToSet(todo)
    BY <1>1, <1>6, CoreTodo DEF IpcOps
  <2> QED
    BY <1>6, <2>1 DEF MsgSound
<1> QED
  BY <1>3, <1>4, <1>5, <1>6 DEF MsgSound

\* What a step of the core does to the messages on their way: nothing, or a task
\* returns with its own, or loses it.
LEMMA CoreHanded ==
    ASSUME MutexIInv, MutexIInv', MsgSound, MsgSound', Next, QueueCore
    PROVE  \/ got' = NULL /\ \A x \in Tasks : Handed(x)' = Handed(x)
           \/ \E t \in Tasks :
                 /\ Handed(t) # NULL /\ Handed(t)' = NULL /\ got' \in {NULL, Handed(t)}
                 /\ \A x \in Tasks : x # t => Handed(x)' = Handed(x)
<1>1. NULL \notin Others /\ active \in Tasks
  BY KernelAssumption DEF MutexIInv, IInv, FieldsOK
<1>2. /\ msg' = [t \in Tasks |-> IF call'[t] = NULL THEN NULL ELSE msg[t]]
      /\ got' = IF pc[active] = "end" /\ pc'[active] = "run" THEN Handed(active) ELSE NULL
  BY DEF QueueCore
<1>3. ASSUME NEW x \in Tasks, Still(x) PROVE Handed(x)' = Handed(x)
  <2>1. CASE \A s \in Others : x \notin Granted(s)
    <3>1. \A s \in Others : x \notin Granted(s)'
      BY <1>3, <2>1 DEF Still
    <3> QED
      BY <2>1, <3>1, HandedIs, HandedNext DEF HandedByObjects
  <2>2. ASSUME NEW s \in Others, x \in Granted(s) PROVE Handed(x)' = Handed(x)
    <3>1. x \in Granted(s)'
      BY <1>3, <2>2 DEF Still
    <3>2. call'[x] = s
      BY <3>1 DEF Granted
    <3>3. msg'[x] = msg[x]
      BY <1>1, <1>2, <3>2
    <3> QED
      BY <2>2, <3>1, <3>3, HandedIs, HandedNext DEF HandedByObjects
  <2> QED
    BY <2>1, <2>2
<1>0. PICK a \in Tasks : a = active
  BY <1>1
<1>4. ASSUME got' # NULL PROVE Handed(a) # NULL /\ got' = Handed(a) /\ Handed(a)' = NULL
  <2>1. pc'[a] = "run" /\ got' = Handed(a)
    BY <1>0, <1>2, <1>4
  <2>2. \A s \in Others : a \notin Granted(s)'
    BY <2>1 DEF Granted
  <2> QED
    BY <1>4, <2>1, <2>2, HandedNext
<1>5. CASE \A x \in Tasks : Still(x)
  <2>1. Handed(a)' = Handed(a) /\ \A x \in Tasks : Handed(x)' = Handed(x)
    BY <1>3, <1>5
  <2> QED
    BY <1>4, <2>1
<1>6. ASSUME NEW t \in Tasks, Drops(t), \A x \in Tasks : x # t => Still(x)
      PROVE  \/ got' = NULL /\ \A x \in Tasks : Handed(x)' = Handed(x)
             \/ /\ Handed(t) # NULL /\ Handed(t)' = NULL /\ got' \in {NULL, Handed(t)}
                /\ \A x \in Tasks : x # t => Handed(x)' = Handed(x)
  <2>1. Handed(t)' = NULL
    BY <1>6, HandedNext DEF Drops
  <2>2. \A x \in Tasks : x # t => Handed(x)' = Handed(x)
    BY <1>3, <1>6
  <2>3. got' # NULL => t = a
    BY <1>4, <2>2
  <2> QED
    BY <1>4, <2>1, <2>2, <2>3
<1>7. NoneGranted
  BY CoreGranted
<1> QED
  BY <1>5, <1>6, <1>7 DEF NoneGranted
-----------------------------------------------------------------------------
(* The calls, and the messages on their way.                                *)

\* A step that does nothing to a task with a message.
Undisturbed ==
    /\ \A x \in Tasks : AnswerKept(x) \/ msg[x] = NULL
    /\ \A x \in Tasks : msg[x] # NULL => obj_type'[call[x]] \notin {SEM, EVENT}
    /\ \A it \in ToSet(todo') :
          /\ it.op # "queue_wake"
          /\ it.op \in {"sem_wake", "event_wake"} => obj_type'[it.obj] \in {SEM, EVENT}

\* It moves no message and keeps the invariant.
LEMMA UndisturbedMsg ==
    ASSUME MsgSound, Undisturbed, UNCHANGED msg
    PROVE  MsgSound' /\ \A x \in Tasks : Handed(x)' = Handed(x)
<1>1. ASSUME NEW x \in Tasks PROVE Handed(x)' = Handed(x)
  <2>1. CASE AnswerKept(x)
    BY <2>1, HandedKept
  <2>2. CASE msg[x] = NULL
    BY <2>2 DEF Handed
  <2> QED
    BY <2>1, <2>2 DEF Undisturbed
<1>2. ASSUME NEW x \in Tasks, msg'[x] # NULL
      PROVE  InCall(x)' /\ obj_type'[call'[x]] \notin {SEM, EVENT}
  <2>1. AnswerKept(x) /\ InCall(x) /\ obj_type'[call[x]] \notin {SEM, EVENT}
    BY <1>2 DEF Undisturbed, MsgSound
  <2> QED
    BY <2>1 DEF AnswerKept, InCall
<1>3. msg' \in [Tasks -> QueueMsgs \cup {NULL}]
  BY DEF MsgSound
<1> QED
  BY <1>1, <1>2, <1>3 DEF MsgSound, Undisturbed

\* The tasks that nothing happens to.
LEMMA KeptByPc ==
    ASSUME IInv, PcKept, NEW x \in Tasks, task_state'[x] \in Pending <=> task_state[x] \in Pending,
           blk_state'[x] = blk_state[x], call'[x] = call[x], cancel'[x] = cancel[x]
    PROVE  AnswerKept(x)
BY CallKept DEF AnswerKept

\* A call that wakes nobody and blocks nobody.
LEMMA NobodyMoves ==
    ASSUME MutexIInv, NEW c, Calling(c) \/ InIsr(c), ExitSched \/ UNCHANGED pc,
           UNCHANGED <<task_state, blk_state, call, cancel>>
    PROVE  \A x \in Tasks : AnswerKept(x)
<1>1. IInv /\ PcKept
  BY Entered, ExitKeepsPc DEF MutexIInv
<1> QED
  BY <1>1, KeptByPc

\* xxx_create.
LEMMA CreateMsg ==
    ASSUME TokenIInv, MsgSound, NEW c, Calling(c), NEW o \in Others, NEW k, ObjCreate(o, k)
    PROVE  Undisturbed /\ \A x \in Tasks : AnswerKept(x)
<1>1. MutexIInv /\ ObjSound /\ todo = <<>>
  BY Entered DEF TokenIInv, IpcIInv
<1>2. /\ UNCHANGED <<todo, pc, task_state, waitVars, tcbVars, call>>
      /\ obj_type' = [obj_type EXCEPT ![o] = k] /\ \A x \in Tasks : call[x] # o
  BY DEF ObjCreate, ctlVars
<1>3. UNCHANGED <<blk_state, cancel>>
  BY <1>2 DEF waitVars, tcbVars
<1>4. \A x \in Tasks : AnswerKept(x)
  BY <1>1, <1>2, <1>3, NobodyMoves
<1>5. ASSUME NEW x \in Tasks, msg[x] # NULL PROVE obj_type'[call[x]] \notin {SEM, EVENT}
  <2>1. call[x] \in Others /\ obj_type[call[x]] \notin {SEM, EVENT}
    BY <1>5 DEF MsgSound, InCall
  <2> QED
    BY <1>1, <1>2, <2>1 DEF ObjSound
<1>6. ToSet(todo') = {}
  BY <1>1, <1>2, NoWork
<1> QED
  BY <1>4, <1>5, <1>6 DEF Undisturbed

\* xxx_del.
LEMMA DelMsg ==
    ASSUME TokenIInv, MsgSound, NEW c, Calling(c), NEW o \in Others, NEW k, ObjDel(o, k)
    PROVE  Undisturbed /\ \A x \in Tasks : AnswerKept(x)
<1>1. MutexIInv /\ ObjSound
  BY DEF TokenIInv, IpcIInv
<1>2. /\ UNCHANGED <<task_state, waitVars, tcbVars, call>> /\ ExitSched
      /\ obj_type' = [obj_type EXCEPT ![o] = NONE]
  BY DEF ObjDel
<1>3. UNCHANGED <<blk_state, cancel>>
  BY <1>2 DEF waitVars, tcbVars
<1>4. \A x \in Tasks : AnswerKept(x)
  BY <1>1, <1>2, <1>3, NobodyMoves
<1>5. ASSUME NEW x \in Tasks, msg[x] # NULL PROVE obj_type'[call[x]] \notin {SEM, EVENT}
  <2>1. call[x] \in Others /\ obj_type[call[x]] \notin {SEM, EVENT}
    BY <1>5 DEF MsgSound, InCall
  <2> QED
    BY <1>1, <1>2, <2>1 DEF ObjSound, SEM, EVENT, NONE
<1>6. PICK it : it = Item("del_waiters", NULL, o, 0) /\ todo' = <<it>>
  BY DEF ObjDel
<1>7. ToSet(todo') = {it} /\ it.op = "del_waiters"
  BY <1>6, IpcTodo
<1> QED
  BY <1>4, <1>5, <1>7 DEF Undisturbed

\* A call that changes the object's own fields only.
LEMMA FieldsMsg ==
    ASSUME TokenIInv, MsgSound, NEW c, Calling(c) \/ InIsr(c), UNCHANGED <<vars, obj_type>>
    PROVE  Undisturbed /\ \A x \in Tasks : AnswerKept(x)
<1>1. MutexIInv /\ todo = <<>>
  BY Entered DEF TokenIInv
<1>2. UNCHANGED <<todo, pc, task_state, blk_state, cancel, call, obj_type>>
  BY DEF vars, dataVars, ctlVars, waitVars, tcbVars
<1>3. \A x \in Tasks : AnswerKept(x)
  BY <1>1, <1>2, NobodyMoves
<1>4. ToSet(todo') = {}
  BY <1>1, <1>2, NoWork
<1> QED
  BY <1>2, <1>3, <1>4 DEF Undisturbed, MsgSound

\* A loop over the waiters begins, or finds none.
LEMMA LoopMsg ==
    ASSUME TokenIInv, MsgSound, NEW c, Calling(c) \/ InIsr(c), ExitSched,
           UNCHANGED <<dataVars, call, obj_type>>
    PROVE  /\ \A x \in Tasks : AnswerKept(x)
           /\ \A x \in Tasks : msg[x] # NULL => obj_type'[call[x]] \notin {SEM, EVENT}
<1>1. MutexIInv /\ UNCHANGED <<task_state, blk_state, cancel>>
  BY DEF TokenIInv, dataVars, waitVars, tcbVars
<1>2. \A x \in Tasks : AnswerKept(x)
  BY <1>1, NobodyMoves
<1> QED
  BY <1>2 DEF MsgSound

\* A waiter has what it waits for.
LEMMA WokenMsg ==
    ASSUME TokenIInv, NEW o \in Others, NEW t \in Tasks, task_state[t] \in Pending,
           blk_obj[t] = o, PendTaskWakeup(t, "BLK_FINISH"), PcKept, UNCHANGED <<cancel, call>>
    PROVE  /\ \A x \in Tasks : x # t => AnswerKept(x)
           /\ InCall(t) /\ InCall(t)' /\ call[t] = o /\ call'[t] = o
           /\ Handed(t) = NULL /\ Handed(t)' = msg'[t]
<1>1. /\ MutexIInv /\ IInv /\ ~cancel[t] /\ task_state \in [Tasks -> TaskStates]
      /\ blk_state \in [Tasks -> Reasons]
  BY DEF TokenIInv, MutexIInv, CancelSound, IInv, FieldsOK, Reasons
<1>2. /\ task_state' = [task_state EXCEPT
                          ![t] = IF @ \in {"K_PEND", "K_SLEEP"} THEN "K_RDY"
                                 ELSE "K_SUSPENDED"]
      /\ blk_state' = [blk_state EXCEPT ![t] = "BLK_FINISH"]
  BY DEF PendTaskWakeup, LeaveWait
<1>3. /\ task_state'[t] \notin Pending /\ blk_state'[t] = "BLK_FINISH"
      /\ \A x \in Tasks : x # t => task_state'[x] = task_state[x] /\ blk_state'[x] = blk_state[x]
  BY <1>1, <1>2 DEF Pending
<1>4. \A x \in Tasks : x # t => AnswerKept(x)
  BY <1>1, <1>3, KeptByPc
<1>5. call[t] = o /\ pc[t] \in {"blk", "end"}
  BY <1>1 DEF MutexIInv, CallsSound, IInv, PendSound
<1>6. pc'[t] \in {"blk", "end"}
  BY <1>1, <1>5, CallKept
<1>7. Handed(t) = NULL
  BY DEF Handed
<1>8. Handed(t)' = msg'[t]
  BY <1>1, <1>3 DEF Handed, PendStatus
<1> QED
  BY <1>4, <1>5, <1>6, <1>7, <1>8 DEF InCall

\* The task on the CPU begins to wait.
LEMMA PendMsg ==
    ASSUME TokenIInv, MsgSound, NEW c, Calling(c), NEW o \in Others, NEW ticks, ObjPend(o, ticks)
    PROVE  Undisturbed
<1>1. /\ MutexIInv /\ IInv /\ todo = <<>> /\ active \in Tasks /\ pc[active] = "run"
  BY CallerMutex DEF TokenIInv, MutexIInv
<1>2. /\ UNCHANGED <<cancel, todo, obj_type, blk_state>>
      /\ task_state' = [task_state EXCEPT ![active] = "K_PEND"]
      /\ pc' = [pc EXCEPT ![active] = "blk"]
      /\ call' = [call EXCEPT ![active] = o]
  BY DEF ObjPend, PendToBlkObj, coreRest, tcbVars
<1>3. msg[active] = NULL
  BY <1>1 DEF MsgSound, InCall
<1>4. ASSUME NEW x \in Tasks, x # active PROVE AnswerKept(x)
  BY <1>1, <1>2, <1>4 DEF AnswerKept, IInv, FieldsOK
<1>5. ToSet(todo') = {}
  BY <1>1, <1>2, NoWork
<1> QED
  BY <1>2, <1>3, <1>4, <1>5 DEF Undisturbed, MsgSound

\* A task that waits for a semaphore or for event flags has no message.
LEMMA NoMsgThere ==
    ASSUME TokenIInv, MsgSound, NEW o \in Others, obj_type[o] \in {SEM, EVENT},
           NEW t \in Tasks, task_state[t] \in Pending, blk_obj[t] = o
    PROVE  msg[t] = NULL
<1>1. IInv
  BY DEF TokenIInv, MutexIInv
<1>2. call[t] = o
  BY <1>1 DEF IInv, PendSound
<1> QED
  BY <1>2 DEF MsgSound

\* The first waiter of a semaphore is woken.
LEMMA WakeMsg ==
    ASSUME TokenIInv, MsgSound, NEW c, Calling(c) \/ InIsr(c), NEW o \in Others,
           obj_type[o] \in {SEM, EVENT}, ObjWakeFirst(o)
    PROVE  Undisturbed
<1>1. /\ MutexIInv /\ IInv /\ todo = <<>> /\ (nested = 0 => pc[active] = "run")
  BY Entered DEF TokenIInv, MutexIInv
<1>2. /\ blk_list[o] # <<>> /\ PendTaskWakeup(Head(blk_list[o]), "BLK_FINISH")
      /\ ExitSched /\ UNCHANGED <<coreRest, todo, call, obj_type>>
  BY DEF ObjWakeFirst
<1>3. PcKept /\ UNCHANGED cancel
  BY <1>1, <1>2, ExitKeepsPc DEF coreRest, tcbVars
<1>4. o \in Objs
  BY DEF Objs
<1>5. PICK t \in Tasks : t = Head(blk_list[o]) /\ task_state[t] \in Pending /\ blk_obj[t] = o
  BY <1>1, <1>2, <1>4, BlkHead DEF IInv
<1>6. msg[t] = NULL /\ \A x \in Tasks : x # t => AnswerKept(x)
  BY <1>2, <1>3, <1>5, NoMsgThere, WokenMsg
<1>7. ToSet(todo') = {}
  BY <1>1, <1>2, NoWork
<1> QED
  BY <1>2, <1>6, <1>7 DEF Undisturbed, MsgSound

\* A round of a loop over the waiters of a semaphore.
LEMMA RoundMsg ==
    ASSUME TokenIInv, MsgSound, Doing("sem_wake"), ObjWakeNext(Head(todo).obj)
    PROVE  Undisturbed
<1>1. MutexIInv /\ IInv /\ "sem_wake" \in IpcOps
  BY DEF TokenIInv, MutexIInv, IpcOps
<1>2. /\ Tail(todo) = <<>> /\ ToSet(todo) = {Head(todo)} /\ Head(todo).op = "sem_wake"
      /\ Head(todo).obj \in Others
  BY <1>1, LoopItem
<1>3. PICK o \in Others : o = Head(todo).obj
  BY <1>2
<1>4. obj_type[o] \in {SEM, EVENT}
  BY <1>2, <1>3 DEF MsgSound
<1>5. UNCHANGED <<coreRest, pc, call, obj_type, cancel>> /\ PcKept
  BY DEF ObjWakeNext, coreRest, tcbVars, PcKept
<1>6. \A x \in Tasks : msg[x] # NULL => obj_type'[call[x]] \notin {SEM, EVENT}
  BY <1>5 DEF MsgSound
<1>7. CASE blk_list[o] = <<>>
  <2>1. todo' = <<>> /\ UNCHANGED <<task_state, waitVars>>
    BY <1>2, <1>3, <1>7 DEF ObjWakeNext
  <2>2. UNCHANGED <<task_state, blk_state>> /\ ToSet(todo') = {}
    BY <2>1, NoWork DEF waitVars
  <2>3. \A x \in Tasks : AnswerKept(x)
    BY <1>1, <1>5, <2>2, KeptByPc
  <2> QED
    BY <1>6, <2>2, <2>3 DEF Undisturbed
<1>8. CASE blk_list[o] # <<>>
  <2>1. PendTaskWakeup(Head(blk_list[o]), "BLK_FINISH") /\ UNCHANGED todo
    BY <1>3, <1>8 DEF ObjWakeNext
  <2>2. o \in Objs
    BY DEF Objs
  <2>3. PICK t \in Tasks : t = Head(blk_list[o]) /\ task_state[t] \in Pending /\ blk_obj[t] = o
    BY <1>1, <1>8, <2>2, BlkHead DEF IInv
  <2>4. msg[t] = NULL /\ \A x \in Tasks : x # t => AnswerKept(x)
    BY <1>4, <1>5, <2>1, <2>3, NoMsgThere, WokenMsg
  <2> QED
    BY <1>2, <1>3, <1>4, <1>5, <1>6, <2>1, <2>4 DEF Undisturbed
<1> QED
  BY <1>7, <1>8
-----------------------------------------------------------------------------
\* A loop over the waiters of a semaphore or of event flags begins.
LEMMA BeginMsg ==
    ASSUME TokenIInv, MsgSound, NEW c, Calling(c) \/ InIsr(c), NEW o \in Others,
           obj_type[o] \in {SEM, EVENT}, NEW op \in {"sem_wake", "event_wake"},
           NEW t \in Tasks \cup {NULL}, ObjLoop(o, op, t)
    PROVE  Undisturbed
<1>1. ExitSched /\ UNCHANGED <<dataVars, call, obj_type>>
  BY DEF ObjLoop
<1>2. PICK it : it = Item(op, t, o, 0) /\ todo' = <<it>>
  BY DEF ObjLoop
<1>3. op \in IpcOps \cup {"del_waiters"}
  BY DEF IpcOps
<1>4. ToSet(todo') = {it} /\ it.op = op /\ it.obj = o
  BY <1>2, <1>3, IpcTodo
<1>5. \A x \in Tasks : AnswerKept(x)
  BY <1>1, LoopMsg
<1>6. \A x \in Tasks : msg[x] # NULL => obj_type'[call[x]] \notin {SEM, EVENT}
  BY <1>1, LoopMsg
<1> QED
  BY <1>1, <1>4, <1>5, <1>6 DEF Undisturbed

\* The calls on semaphores do nothing to a task with a message.
LEMMA SemMsg == ASSUME TokenIInv, MsgSound, SemCall PROVE Undisturbed
<1>1. ASSUME NEW s \in Others, NEW n \in SemCounts, SemCreate(s, n) PROVE Undisturbed
  <2>1. Calling("sem_create") /\ ObjCreate(s, SEM)
    BY <1>1 DEF SemCreate
  <2> QED
    BY <2>1, CreateMsg
<1>2. ASSUME NEW s \in Others, SemDel(s) PROVE Undisturbed
  <2>1. Calling("sem_del") /\ ObjDel(s, SEM)
    BY <1>2 DEF SemDel
  <2> QED
    BY <2>1, DelMsg
<1>3. ASSUME NEW s \in Others, SemGiveCount(s) \/ SemTakeCount(s) \/ \E n \in SemCounts : SemCountSet(s, n)
      PROVE  Undisturbed
  <2>1. PICK c : Calling(c) \/ InIsr(c)
    BY <1>3 DEF SemGiveCount, SemTakeCount, SemCountSet, Giving, Taking
  <2>2. UNCHANGED <<vars, obj_type>>
    BY <1>3 DEF SemGiveCount, SemTakeCount, SemCountSet
  <2> QED
    BY <2>1, <2>2, FieldsMsg
<1>4. ASSUME NEW s \in Others, SemGiveOne(s) PROVE Undisturbed
  <2>1. /\ Calling("sem_give") \/ InIsr("sem_give")
        /\ ObjWakeFirst(s) /\ obj_type[s] \in {SEM, EVENT}
    BY <1>4 DEF SemGiveOne, Giving, Is
  <2> QED
    BY <2>1, WakeMsg
<1>5. ASSUME NEW s \in Others, SemGiveAll(s) PROVE Undisturbed
  <2>1. /\ Calling("sem_give_all") \/ InIsr("sem_give_all")
        /\ ObjLoop(s, "sem_wake", NULL) /\ obj_type[s] \in {SEM, EVENT}
    BY <1>5 DEF SemGiveAll, Giving, Is
  <2> QED
    BY <2>1, BeginMsg
<1>6. CASE SemWake
  BY <1>6, RoundMsg DEF SemWake
<1>7. ASSUME NEW s \in Others, NEW ticks \in Waits, SemTakePend(s, ticks) PROVE Undisturbed
  <2>1. Calling("sem_take") /\ ObjPend(s, ticks)
    BY <1>7 DEF SemTakePend, Taking
  <2> QED
    BY <2>1, PendMsg
<1> QED
  BY <1>1, <1>2, <1>3, <1>4, <1>5, <1>6, <1>7, Zenon DEF SemCall

\* A round of the loop of event_set.
LEMMA EventRoundMsg == ASSUME TokenIInv, MsgSound, EventWake PROVE Undisturbed
<1>1. MutexIInv /\ IInv /\ "event_wake" \in IpcOps /\ Doing("event_wake")
  BY DEF TokenIInv, MutexIInv, IpcOps, EventWake
<1>2. PICK e \in Others, t \in Tasks \cup {NULL} :
         /\ Head(todo).obj = e /\ Head(todo).task = t /\ Tail(todo) = <<>>
         /\ t # NULL => \E k \in 1..Len(blk_list[e]) : t = blk_list[e][k]
  <2>1. PICK e \in Others, t \in Tasks \cup {NULL}, k \in Nat \ {0} :
           /\ Head(todo).obj = e /\ Head(todo).task = t /\ Tail(todo) = <<>>
           /\ k \in 1..Len(blk_list[e]) + 1
           /\ IF k = Len(blk_list[e]) + 1 THEN t = NULL ELSE t = blk_list[e][k] /\ t # NULL
    BY LoopRound DEF TokenIInv
  <2>2. blk_list[e] \in Seq(Tasks)
    BY <1>1 DEF IInv, BlkExact, Objs
  <2> QED
    BY <2>1, <2>2
<1>3. ToSet(todo) = {Head(todo)} /\ Head(todo).op = "event_wake" /\ e \in Objs
  BY <1>1, LoopItem DEF Objs
<1>4. obj_type[e] \in {SEM, EVENT}
  BY <1>2, <1>3 DEF MsgSound
<1>5. UNCHANGED <<coreRest, pc, call, obj_type, cancel>> /\ PcKept
  BY DEF EventWake, coreRest, tcbVars, PcKept
<1>6. \A x \in Tasks : msg[x] # NULL => obj_type'[call[x]] \notin {SEM, EVENT}
  BY <1>5 DEF MsgSound
<1>7. \A it \in ToSet(todo') : it.op = "event_wake" /\ it.obj = e
  <2>1. CASE t = NULL
    <3>1. todo' = <<>>
      BY <1>2, <2>1 DEF EventWake
    <3> QED
      BY <3>1, NoWork
  <2>2. CASE t # NULL
    <3>1. PICK it : it = Item("event_wake", After(e, t), e, 0) /\ todo' = <<it>> \o Tail(todo)
      BY <1>2, <2>2 DEF EventWake
    <3>2. it.op = "event_wake" /\ it.obj = e
      BY <3>1 DEF Item
    <3>3. <<it>> \o <<>> = <<it>>
      OBVIOUS
    <3>4. todo' = <<it>>
      BY <1>2, <3>1, <3>3
    <3>5. ToSet(todo') = {it}
      BY <3>4 DEF ToSet
    <3> QED
      BY <3>2, <3>5
  <2> QED
    BY <2>1, <2>2
<1>8. \A x \in Tasks : AnswerKept(x) \/ msg[x] = NULL
  <2>1. CASE UNCHANGED <<task_state, waitVars>>
    <3>1. UNCHANGED <<task_state, blk_state>>
      BY <2>1 DEF waitVars
    <3> QED
      BY <1>1, <1>5, <3>1, KeptByPc
  <2>2. CASE t # NULL /\ PendTaskWakeup(t, "BLK_FINISH")
    <3>1. t \in Tasks /\ blk_list[e] \in Seq(Tasks)
      BY <1>1, <1>3, <2>2 DEF IInv, BlkExact
    <3>2. t \in ToSet(blk_list[e])
      BY <1>2, <2>2, <3>1, MemberAt
    <3>3. task_state[t] \in Pending /\ blk_obj[t] = e
      BY <1>1, <1>3, <3>1, <3>2 DEF IInv, BlkExact
    <3>4. msg[t] = NULL
      BY <1>4, <3>1, <3>3, NoMsgThere
    <3>5. \A x \in Tasks : x # t => AnswerKept(x)
      BY <1>5, <2>2, <3>1, <3>3, WokenMsg
    <3> QED
      BY <3>4, <3>5
  <2> QED
    BY <1>2, <2>1, <2>2 DEF EventWake
<1> QED
  BY <1>4, <1>5, <1>6, <1>7, <1>8 DEF Undisturbed

\* The calls on event flags do nothing to a task with a message.
LEMMA EventMsg == ASSUME TokenIInv, MsgSound, EventCall PROVE Undisturbed
<1>1. MutexIInv /\ IInv
  BY DEF TokenIInv, MutexIInv
<1>2. ASSUME NEW e \in Others, NEW f, EventCreate(e, f) PROVE Undisturbed
  <2>1. Calling("event_create") /\ ObjCreate(e, EVENT)
    BY <1>2 DEF EventCreate
  <2> QED
    BY <2>1, CreateMsg
<1>3. ASSUME NEW e \in Others, EventDel(e) PROVE Undisturbed
  <2>1. Calling("event_del") /\ ObjDel(e, EVENT)
    BY <1>3 DEF EventDel
  <2> QED
    BY <2>1, DelMsg
<1>4. ASSUME NEW e \in Others, NEW a, EventGetNow(e, a) \/ EventSetAnd(e, a) PROVE Undisturbed
  <2>1. PICK c : Calling(c) \/ InIsr(c)
    BY <1>4 DEF EventGetNow, EventSetAnd, Getting, Setting
  <2>2. UNCHANGED <<vars, obj_type>>
    BY <1>4 DEF EventGetNow, EventSetAnd
  <2> QED
    BY <2>1, <2>2, FieldsMsg
<1>5. ASSUME NEW e \in Others, NEW req, NEW ticks \in Waits, EventGetPend(e, req, ticks)
      PROVE  Undisturbed
  <2>1. Calling("event_get") /\ ObjPend(e, ticks)
    BY <1>5 DEF EventGetPend, Getting
  <2> QED
    BY <2>1, PendMsg
<1>6. ASSUME NEW e \in Others, NEW set, EventSetOr(e, set) PROVE Undisturbed
  <2>1. PICK c : Calling(c) \/ InIsr(c)
    BY <1>6 DEF EventSetOr, Setting
  <2>2. obj_type[e] \in {SEM, EVENT}
    BY <1>6 DEF EventSetOr, Setting, Is
  <2>3. CASE ObjLoop(e, "event_wake", Head(blk_list[e]))
    <3>1. e \in Objs /\ blk_list[e] # <<>>
      BY <2>3 DEF Objs, ObjLoop
    <3>2. Head(blk_list[e]) \in Tasks
      BY <1>1, <3>1, BlkHead DEF IInv
    <3> QED
      BY <2>1, <2>2, <2>3, <3>2, BeginMsg
  <2>4. CASE ExitSched /\ UNCHANGED <<dataVars, cpuVars, todo, call, fatal, obj_type>>
    <3>1. ToSet(todo') = {}
      BY <1>1, <2>1, <2>4, Entered, NoWork
    <3>2. \A x \in Tasks : AnswerKept(x)
      BY <2>1, <2>4, LoopMsg
    <3>3. \A x \in Tasks : msg[x] # NULL => obj_type'[call[x]] \notin {SEM, EVENT}
      BY <2>1, <2>4, LoopMsg
    <3> QED
      BY <3>1, <3>2, <3>3 DEF Undisturbed
  <2> QED
    BY <1>6, <2>3, <2>4 DEF EventSetOr
<1> QED
  BY <1>2, <1>3, <1>4, <1>5, <1>6, EventRoundMsg, Zenon DEF EventCall
-----------------------------------------------------------------------------
(* The calls on queues, and the messages on their way.                      *)

\* A step leaves the messages on their way alone.
HandedSame == \A x \in Tasks : Handed(x)' = Handed(x)

\* A step puts the message m on its way to the task t, for which none was.
HandedTo(t, m) ==
    /\ Handed(t) = NULL /\ Handed(t)' = m /\ m \in QueueMsgs
    /\ \A x \in Tasks : x # t => Handed(x)' = Handed(x)

\* What is sent to a queue is a message.
LEMMA SentIs == ASSUME NEW q, NEW m \in MsgsOf(q) PROVE m \in QueueMsgs /\ m # NULL
<1>1. m \in QueueMsgs
  BY DEF MsgsOf, QueueMsgs
<1> QED
  BY <1>1, QueueAssumption

\* A queue for which a task waits is empty.
LEMMA WaitedEmpty ==
    ASSUME MessageSound, QueueSound, NEW q \in Others, blk_list[q] # <<>>
    PROVE  Chan(q) = <<>>
<1>1. CASE ~IsQueue(q)
  BY <1>1 DEF Chan
<1>2. CASE IsQueue(q)
  <2>1. cur_num[q] \in Nat /\ ~(cur_num[q] > 0)
    BY <1>2 DEF MessageSound
  <2>2. PICK ms : ms = Chan(q)
    OBVIOUS
  <2>3. InRing(obj_type[q], ring[q], cur_num[q], ms)
    BY <1>2, <2>2 DEF QueueSound, InQueue
  <2>4. cur_num[q] = Len(ms)
    BY <2>3 DEF InRing
  <2>5. ms \in Seq(QueueMsgs)
    BY <2>3, InRingContents
  <2>6. ms = <<>>
    BY <2>1, <2>4, <2>5
  <2> QED
    BY <2>2, <2>6
<1> QED
  BY <1>1, <1>2

\* A waiter of a queue is in a receive.
LEMMA WaiterCalls ==
    ASSUME TokenIInv, NEW q \in Others, NEW t \in Tasks, t \in ToSet(blk_list[q])
    PROVE  task_state[t] \in Pending /\ blk_obj[t] = q /\ call[t] = q /\ InCall(t)
<1>1. MutexIInv /\ IInv
  BY DEF TokenIInv, MutexIInv
<1>2. task_state[t] \in Pending /\ blk_obj[t] = q
  BY <1>1 DEF IInv, BlkExact, Objs
<1>3. call[t] = q /\ pc[t] \in {"blk", "end"}
  BY <1>1, <1>2 DEF MutexIInv, CallsSound, IInv, PendSound
<1> QED
  BY <1>2, <1>3 DEF InCall

\* krhino_queue_all_send: the messages are there, and nobody is awake yet.
LEMMA SendAllMsg ==
    ASSUME TokenIInv, MsgSound, NEW q \in Others, NEW m \in MsgsOf(q), QueueSendAll(q, m)
    PROVE  MsgSound' /\ HandedSame
<1>1. /\ Calling("queue_all_send") \/ InIsr("queue_all_send")
      /\ Is(q, QUEUE) /\ ObjLoop(q, "queue_wake", NULL)
      /\ msg' = [t \in Tasks |-> IF t \in ToSet(blk_list[q]) THEN m ELSE msg[t]]
  BY DEF QueueSendAll, Sending
<1>2. obj_type[q] \notin {SEM, EVENT}
  BY <1>1 DEF Is, QUEUE, SEM, EVENT
<1>3. ExitSched /\ UNCHANGED <<dataVars, call, obj_type>>
  BY <1>1 DEF ObjLoop
<1>4. UNCHANGED <<task_state, blk_list>>
  BY <1>3 DEF dataVars, waitVars
<1>5. \A x \in Tasks : AnswerKept(x)
  BY <1>1, <1>3, LoopMsg
<1>6. m \in QueueMsgs /\ m # NULL
  BY SentIs
<1>7. ASSUME NEW x \in Tasks PROVE Handed(x)' = Handed(x)
  <2>1. CASE x \in ToSet(blk_list[q])
    <3>1. task_state[x] \in Pending /\ task_state'[x] \in Pending
      BY <1>4, <2>1, WaiterCalls
    <3> QED
      BY <3>1 DEF Handed
  <2>2. CASE x \notin ToSet(blk_list[q])
    <3>1. msg'[x] = msg[x]
      BY <1>1, <2>2
    <3> QED
      BY <1>5, <3>1, HandedKept
  <2> QED
    BY <2>1, <2>2
<1>8. ASSUME NEW x \in Tasks, msg'[x] # NULL
      PROVE  InCall(x)' /\ obj_type'[call'[x]] \notin {SEM, EVENT}
  <2>1. InCall(x) /\ obj_type[call[x]] \notin {SEM, EVENT}
    <3>1. CASE x \in ToSet(blk_list[q])
      BY <1>2, <3>1, WaiterCalls
    <3>2. CASE x \notin ToSet(blk_list[q])
      <4>1. msg[x] # NULL
        BY <1>1, <1>8, <3>2
      <4> QED
        BY <4>1 DEF MsgSound
    <3> QED
      BY <3>1, <3>2
  <2>2. AnswerKept(x) /\ UNCHANGED obj_type
    BY <1>3, <1>5
  <2> QED
    BY <2>1, <2>2 DEF AnswerKept, InCall
<1>9. msg' \in [Tasks -> QueueMsgs \cup {NULL}]
  BY <1>1, <1>6 DEF MsgSound
<1>10. PICK it : it = Item("queue_wake", NULL, q, 0) /\ todo' = <<it>>
  BY <1>1 DEF ObjLoop
<1>11. "queue_wake" \in IpcOps \cup {"del_waiters"}
  BY DEF IpcOps
<1>12. ToSet(todo') = {it} /\ it.op = "queue_wake" /\ it.obj = q
  BY <1>10, <1>11, IpcTodo
<1>13. ASSUME NEW x \in ToSet(blk_list'[q]) PROVE msg'[x] # NULL
  <2>1. IInv
    BY DEF TokenIInv, MutexIInv
  <2>2. blk_list[q] \in Seq(Tasks)
    BY <2>1 DEF IInv, BlkExact, Objs
  <2>3. x \in Tasks /\ x \in ToSet(blk_list[q])
    BY <1>4, <1>13, <2>2, MemberAt
  <2> QED
    BY <1>1, <1>6, <2>3
<1>14. MsgSound'
  BY <1>8, <1>9, <1>12, <1>13 DEF MsgSound
<1> QED
  BY <1>7, <1>14 DEF HandedSame

\* The first waiter of a queue is woken with the message m.
LEMMA ServeMsg ==
    ASSUME TokenIInv, IInv', MsgSound, NEW o \in Others, obj_type[o] \notin {SEM, EVENT},
           NEW t \in Tasks, task_state[t] \in Pending, blk_obj[t] = o,
           PendTaskWakeup(t, "BLK_FINISH"), PcKept, UNCHANGED <<cancel, call, obj_type>>,
           NEW m \in QueueMsgs, m # NULL, msg' = [msg EXCEPT ![t] = m],
           \A it \in ToSet(todo') : it \in ToSet(todo) /\ (it.op = "queue_wake" => it.obj = o)
    PROVE  MsgSound' /\ HandedTo(t, m)
<1>1. /\ \A x \in Tasks : x # t => AnswerKept(x)
      /\ InCall(t) /\ InCall(t)' /\ call[t] = o /\ call'[t] = o
      /\ Handed(t) = NULL /\ Handed(t)' = msg'[t]
  BY WokenMsg
<1>2. /\ msg'[t] = m /\ \A x \in Tasks : x # t => msg'[x] = msg[x]
      /\ msg' \in [Tasks -> QueueMsgs \cup {NULL}]
  BY DEF MsgSound
<1>3. ASSUME NEW x \in Tasks, x # t PROVE Handed(x)' = Handed(x)
  BY <1>1, <1>2, <1>3, HandedKept
<1>4. HandedTo(t, m)
  BY <1>1, <1>2, <1>3 DEF HandedTo
<1>5. ASSUME NEW x \in Tasks, msg'[x] # NULL
      PROVE  InCall(x)' /\ obj_type'[call'[x]] \notin {SEM, EVENT}
  <2>1. CASE x = t
    BY <1>1, <2>1
  <2>2. CASE x # t
    <3>1. AnswerKept(x) /\ InCall(x) /\ obj_type[call[x]] \notin {SEM, EVENT}
      BY <1>1, <1>2, <1>5, <2>2 DEF MsgSound
    <3> QED
      BY <3>1 DEF AnswerKept, InCall
  <2> QED
    BY <2>1, <2>2
<1>6. ASSUME NEW it \in ToSet(todo'), it.op = "queue_wake", NEW x \in ToSet(blk_list'[it.obj])
      PROVE  msg'[x] # NULL
  <2>1. it.obj = o /\ o \in Objs /\ it \in ToSet(todo)
    BY <1>6 DEF Objs
  <2>2. blk_list'[o] \in Seq(Tasks) /\ x \in ToSet(blk_list'[o])
    BY <1>6, <2>1 DEF IInv, BlkExact
  <2>3. x \in Tasks
    BY <2>2, MemberAt
  <2>4. task_state'[x] \in Pending /\ blk_obj'[x] = o
    BY <2>1, <2>2, <2>3 DEF IInv, BlkExact
  <2>5. call'[x] = o
    BY <2>3, <2>4 DEF IInv, PendSound
  <2>6. CASE x = t
    BY <1>2, <2>6
  <2>7. CASE x # t
    <3>1. task_state[x] \in Pending /\ call[x] = o
      BY <1>1, <2>3, <2>4, <2>5, <2>7 DEF AnswerKept
    <3>2. IInv
      BY DEF TokenIInv, MutexIInv
    <3>3. blk_obj[x] = o
      BY <2>3, <3>1, <3>2 DEF IInv, PendSound
    <3>4. x \in ToSet(blk_list[o])
      BY <2>1, <2>3, <3>1, <3>2, <3>3 DEF IInv, BlkExact
    <3>5. msg[x] # NULL
      BY <1>6, <2>1, <3>4 DEF MsgSound
    <3> QED
      BY <1>2, <2>3, <2>7, <3>5
  <2> QED
    BY <2>6, <2>7
<1>7. ASSUME NEW it \in ToSet(todo'), it.op \in {"sem_wake", "event_wake"}
      PROVE  obj_type'[it.obj] \in {SEM, EVENT}
  BY <1>7 DEF MsgSound
<1>8. MsgSound'
  BY <1>2, <1>5, <1>6, <1>7 DEF MsgSound
<1> QED
  BY <1>4, <1>8

\* What a call that hands a message to a waiter does.
Serves == \E o \in Others, t \in Tasks, m \in QueueMsgs : HandedTo(t, m) /\ Chan(o) = <<>>

\* A message goes to the first waiter instead of the ring.
LEMMA SendOneMsg ==
    ASSUME TokenIInv, IInv', QueueSound, MsgSound, NEW q \in Others, NEW m \in MsgsOf(q),
           QueueSendOne(q, m)
    PROVE  MsgSound' /\ Serves
<1>1. /\ Calling("queue_send") \/ InIsr("queue_send")
      /\ IsQueue(q) /\ ObjWakeFirst(q) /\ msg' = [msg EXCEPT ![Head(blk_list[q])] = m]
  BY DEF QueueSendOne, Sending
<1>2. /\ MutexIInv /\ IInv /\ MessageSound /\ todo = <<>> /\ (nested = 0 => pc[active] = "run")
  BY <1>1, Entered DEF TokenIInv, MutexIInv, IpcIInv
<1>3. /\ blk_list[q] # <<>> /\ PendTaskWakeup(Head(blk_list[q]), "BLK_FINISH")
      /\ ExitSched /\ UNCHANGED <<coreRest, todo, call, obj_type>>
  BY <1>1 DEF ObjWakeFirst
<1>4. PcKept /\ UNCHANGED cancel
  BY <1>2, <1>3, ExitKeepsPc DEF coreRest, tcbVars
<1>5. q \in Objs
  BY DEF Objs
<1>6. PICK t \in Tasks : t = Head(blk_list[q]) /\ task_state[t] \in Pending /\ blk_obj[t] = q
  BY <1>2, <1>3, <1>5, BlkHead DEF IInv
<1>7. obj_type[q] \notin {SEM, EVENT}
  BY <1>1 DEF IsQueue, Is, SEM, EVENT, QUEUE, BUF_QUEUE
<1>8. ToSet(todo') = {}
  BY <1>2, <1>3, NoWork
<1>9. m \in QueueMsgs /\ m # NULL
  BY SentIs
<1>10. MsgSound' /\ HandedTo(t, m)
  BY <1>1, <1>3, <1>4, <1>6, <1>7, <1>8, <1>9, ServeMsg
<1>11. Chan(q) = <<>>
  BY <1>2, <1>3, WaitedEmpty
<1> QED
  BY <1>9, <1>10, <1>11 DEF Serves

\* A round of the loop of krhino_queue_all_send.
LEMMA QueueWakeMsg ==
    ASSUME TokenIInv, IInv', QueueSound, MsgSound, QueueWake
    PROVE  MsgSound' /\ (HandedSame \/ Serves)
<1>1. /\ MutexIInv /\ IInv /\ MessageSound /\ "queue_wake" \in IpcOps /\ WakeSound
  BY DEF TokenIInv, MutexIInv, IpcIInv, IpcOps
<1>2. Doing("queue_wake") /\ ObjWakeNext(Head(todo).obj) /\ UNCHANGED msg
  BY DEF QueueWake
<1>3. /\ Tail(todo) = <<>> /\ ToSet(todo) = {Head(todo)} /\ Head(todo).op = "queue_wake"
      /\ Head(todo).obj \in Others
  BY <1>1, <1>2, LoopItem
<1>4. PICK o \in Others : o = Head(todo).obj
  BY <1>3
<1>5. UNCHANGED <<coreRest, pc, call, obj_type, cancel>> /\ PcKept
  BY <1>2 DEF ObjWakeNext, coreRest, tcbVars, PcKept
<1>6. CASE blk_list[o] = <<>>
  <2>1. todo' = <<>> /\ UNCHANGED <<task_state, waitVars>>
    BY <1>2, <1>3, <1>4, <1>6 DEF ObjWakeNext
  <2>2. UNCHANGED <<task_state, blk_state>> /\ ToSet(todo') = {}
    BY <2>1, NoWork DEF waitVars
  <2>3. \A x \in Tasks : AnswerKept(x)
    BY <1>1, <1>5, <2>2, KeptByPc
  <2>4. \A x \in Tasks : msg[x] # NULL => obj_type'[call[x]] \notin {SEM, EVENT}
    BY <1>5 DEF MsgSound
  <2>5. Undisturbed
    BY <2>2, <2>3, <2>4 DEF Undisturbed
  <2> QED
    BY <1>2, <2>5, UndisturbedMsg DEF HandedSame
<1>7. CASE blk_list[o] # <<>>
  <2>1. PendTaskWakeup(Head(blk_list[o]), "BLK_FINISH") /\ UNCHANGED todo
    BY <1>2, <1>4, <1>7 DEF ObjWakeNext
  <2>2. o \in Objs /\ blk_list[o] \in Seq(Tasks)
    BY <1>1 DEF Objs, IInv, BlkExact
  <2>3. PICK t \in Tasks : t = Head(blk_list[o]) /\ task_state[t] \in Pending /\ blk_obj[t] = o
    BY <1>1, <1>7, <2>2, BlkHead DEF IInv
  <2>4. t \in ToSet(blk_list[o])
    BY <1>7, <2>2, <2>3, TailSeq
  <2>5. msg[t] # NULL
    BY <1>3, <1>4, <2>4 DEF MsgSound
  <2>6. PICK m \in QueueMsgs : m = msg[t] /\ m # NULL
    BY <2>5 DEF MsgSound
  <2>7. msg' = [msg EXCEPT ![t] = m]
    BY <1>2, <2>6 DEF MsgSound
  <2>8. call[t] = o
    BY <2>4, WaiterCalls
  <2>9. obj_type[o] \notin {SEM, EVENT}
    BY <2>5, <2>8 DEF MsgSound
  <2>10. \A it \in ToSet(todo') : it \in ToSet(todo) /\ (it.op = "queue_wake" => it.obj = o)
    BY <1>3, <1>4, <2>1
  <2>11. MsgSound' /\ HandedTo(t, m)
    BY <1>5, <2>1, <2>3, <2>6, <2>7, <2>9, <2>10, ServeMsg
  <2>12. Chan(o) = <<>>
    BY <1>1, <1>7, WaitedEmpty
  <2> QED
    BY <2>11, <2>12 DEF Serves
<1> QED
  BY <1>6, <1>7

\* The calls on queues that move no message to a task.
LEMMA QuietMsg ==
    ASSUME TokenIInv, MsgSound, NEW q \in Others,
           \/ \E kind \in QueueKinds : QueueCreate(q, kind)
           \/ QueueDel(q) \/ QueueRecv(q) \/ QueueFlush(q)
           \/ \E m \in MsgsOf(q) : QueueSend(q, m)
           \/ \E ticks \in Waits : QueueRecvPend(q, ticks)
    PROVE  MsgSound' /\ HandedSame
<1>1. SUFFICES Undisturbed /\ UNCHANGED msg
  BY <1>1, UndisturbedMsg DEF HandedSame
<1>2. UNCHANGED msg
  BY DEF QueueCreate, QueueDel, QueueRecv, QueueFlush, QueueSend, QueueRecvPend
<1>3. ASSUME NEW kind, QueueCreate(q, kind) PROVE Undisturbed
  <2>1. PICK k : Calling("queue_create") /\ ObjCreate(q, k)
    BY <1>3 DEF QueueCreate
  <2> QED
    BY <2>1, CreateMsg
<1>4. ASSUME QueueDel(q) PROVE Undisturbed
  <2>1. PICK k : Calling("queue_del") /\ ObjDel(q, k)
    BY <1>4 DEF QueueDel
  <2> QED
    BY <2>1, DelMsg
<1>5. ASSUME QueueRecv(q) \/ QueueFlush(q) \/ \E m \in MsgsOf(q) : QueueSend(q, m) PROVE Undisturbed
  <2>1. PICK c : Calling(c) \/ InIsr(c)
    BY <1>5 DEF QueueSend, QueueRecv, QueueFlush, Sending, Receiving
  <2>2. UNCHANGED <<vars, obj_type>>
    BY <1>5 DEF QueueSend, QueueRecv, QueueFlush
  <2> QED
    BY <2>1, <2>2, FieldsMsg
<1>6. ASSUME NEW ticks \in Waits, QueueRecvPend(q, ticks) PROVE Undisturbed
  <2>1. Calling("queue_recv") /\ ObjPend(q, ticks)
    BY <1>6 DEF QueueRecvPend, Receiving, InIsr
  <2> QED
    BY <2>1, PendMsg
<1> QED
  BY <1>2, <1>3, <1>4, <1>5, <1>6
-----------------------------------------------------------------------------
(* The refinement.                                                          *)

\* What RhinoFifo calls chan and box: the messages in the queues,
Chans == [q \in Others |-> Chan(q)]
\* and those on their way to tasks.
Boxes == [t \in Tasks |-> Handed(t)]

\* The steps of RhinoFifo in these terms.
FifoMove ==
    \/ got' = NULL /\ UNCHANGED <<Chans, Boxes>>
    \/ \E c \in Others, m \in QueueMsgs :
          /\ Len(Chans[c]) < Capacity
          /\ Chans' = [Chans EXCEPT ![c] = Append(@, m)] /\ got' = NULL /\ UNCHANGED Boxes
    \/ \E c \in Others, p \in Tasks, m \in QueueMsgs :
          /\ Chans[c] = <<>> /\ Boxes[p] = NULL
          /\ Boxes' = [Boxes EXCEPT ![p] = m] /\ got' = NULL /\ UNCHANGED Chans
    \/ \E c \in Others :
          /\ Chans[c] # <<>> /\ got' = Head(Chans[c])
          /\ Chans' = [Chans EXCEPT ![c] = Tail(@)] /\ UNCHANGED Boxes
    \/ \E c \in Others :
          Chans' = [Chans EXCEPT ![c] = <<>>] /\ got' = NULL /\ UNCHANGED Boxes
    \/ \E p \in Tasks :
          /\ Boxes[p] # NULL /\ got' \in {NULL, Boxes[p]}
          /\ Boxes' = [Boxes EXCEPT ![p] = NULL] /\ UNCHANGED Chans

\* They are its steps.
LEMMA MoveIsFifo == FifoMove => Fifo!FifoNext
<1> USE DEF Fifo!FifoNext, Fifo!Quiet, Fifo!Send, Fifo!HandOver, Fifo!Recv, Fifo!Clear,
            Fifo!Return, Fifo!Lose, Chans, Boxes, Chan
<1>1. ASSUME got' = NULL /\ UNCHANGED <<Chans, Boxes>> PROVE Fifo!FifoNext
  BY <1>1
<1>2. ASSUME NEW c \in Others, NEW m \in QueueMsgs, Len(Chans[c]) < Capacity,
             Chans' = [Chans EXCEPT ![c] = Append(@, m)], got' = NULL, UNCHANGED Boxes
      PROVE  Fifo!FifoNext
  BY <1>2
<1>3. ASSUME NEW c \in Others, NEW p \in Tasks, NEW m \in QueueMsgs, Chans[c] = <<>>,
             Boxes[p] = NULL, Boxes' = [Boxes EXCEPT ![p] = m], got' = NULL, UNCHANGED Chans
      PROVE  Fifo!FifoNext
  BY <1>3
<1>4. ASSUME NEW c \in Others, Chans[c] # <<>>, got' = Head(Chans[c]),
             Chans' = [Chans EXCEPT ![c] = Tail(@)], UNCHANGED Boxes
      PROVE  Fifo!FifoNext
  BY <1>4
<1>5. ASSUME NEW c \in Others, Chans' = [Chans EXCEPT ![c] = <<>>], got' = NULL, UNCHANGED Boxes
      PROVE  Fifo!FifoNext
  BY <1>5
<1>6. ASSUME NEW p \in Tasks, Boxes[p] # NULL, got' \in {NULL, Boxes[p]},
             Boxes' = [Boxes EXCEPT ![p] = NULL], UNCHANGED Chans
      PROVE  Fifo!FifoNext
  BY <1>6
<1> HIDE DEF Fifo!FifoNext, Fifo!Quiet, Fifo!Send, Fifo!HandOver, Fifo!Recv, Fifo!Clear,
            Fifo!Return, Fifo!Lose, Chans, Boxes, Chan
<1> QED
  BY <1>1, <1>2, <1>3, <1>4, <1>5, <1>6 DEF FifoMove

\* The queues and the messages on their way as functions.
LEMMA ChansSame == ASSUME \A x \in Others : SameQueue(x) PROVE UNCHANGED Chans
<1>1. \A x \in Others : Chan(x)' = Chan(x)
  BY SameChan
<1> QED
  BY <1>1 DEF Chans

\* One of the queues changes.
LEMMA ChansSet == ASSUME NEW q \in Others, NEW ms, OnQueue(q, ms) PROVE Chans' = [Chans EXCEPT ![q] = ms]
<1>1. Chan(q)' = ms /\ \A x \in Others : x # q => SameQueue(x)
  BY DEF OnQueue
<1>2. \A x \in Others : x # q => Chan(x)' = Chan(x)
  BY <1>1, SameChan
<1> QED
  BY <1>1, <1>2 DEF Chans

\* No message moves to a task, or one does.
LEMMA BoxesSame == ASSUME HandedSame PROVE UNCHANGED Boxes
BY DEF HandedSame, Boxes

\* One does.
LEMMA BoxesSet ==
    ASSUME NEW t \in Tasks, NEW m, Handed(t)' = m, \A x \in Tasks : x # t => Handed(x)' = Handed(x)
    PROVE  Boxes' = [Boxes EXCEPT ![t] = m]
BY DEF Boxes

\* Their values.
LEMMA ChanAt == ASSUME NEW q \in Others PROVE Chans[q] = Chan(q)
BY DEF Chans

\* The box of a task.
LEMMA BoxAt == ASSUME NEW t \in Tasks PROVE Boxes[t] = Handed(t)
BY DEF Boxes
-----------------------------------------------------------------------------
\* The invariant that the promise of RhinoFifo relies on.
FifoIInv == TokenIInv /\ QueueSound /\ MsgSound

\* It holds at first, when the queues are empty.
LEMMA FifoStart == IpcInit => FifoIInv /\ Fifo!FifoInit
<1> SUFFICES ASSUME IpcInit PROVE FifoIInv /\ Fifo!FifoInit
  OBVIOUS
<1>1. TokenIInv /\ QueueSound
  BY TokenInit, QueueStart
<1>2. /\ msg = [t \in Tasks |-> NULL] /\ got = NULL /\ cur_num = [o \in Others |-> 0]
      /\ todo = <<>>
  BY DEF IpcInit, QueueInit, Init
<1>3. ToSet(todo) = {}
  BY <1>2, NoWork
<1>4. MsgSound
  BY <1>2, <1>3 DEF MsgSound
<1>5. \A t \in Tasks : Handed(t) = NULL
  BY <1>2 DEF Handed
<1>6. ASSUME NEW q \in Others PROVE Chan(q) = <<>>
  <2>1. CASE ~IsQueue(q)
    BY <2>1 DEF Chan
  <2>2. CASE IsQueue(q)
    <3>1. PICK ms : ms = Chan(q)
      OBVIOUS
    <3>2. InRing(obj_type[q], ring[q], cur_num[q], ms)
      BY <1>1, <2>2, <3>1 DEF QueueSound, InQueue
    <3>3. ms \in Seq(QueueMsgs)
      BY <3>2, InRingContents
    <3>4. Len(ms) = 0
      BY <1>2, <3>2 DEF InRing
    <3> QED
      BY <3>1, <3>3, <3>4
  <2> QED
    BY <2>1, <2>2
<1>7. Chans = [q \in Others |-> <<>>] /\ Boxes = [t \in Tasks |-> NULL]
  <2>1. Chans = [q \in Others |-> <<>>]
    BY <1>6 DEF Chans
  <2>2. Boxes = [t \in Tasks |-> NULL]
    BY <1>5 DEF Boxes
  <2> QED
    BY <2>1, <2>2
<1>8. Fifo!FifoInit
  BY <1>2, <1>7 DEF Fifo!FifoInit, Chans, Boxes, Chan
<1> QED
  BY <1>1, <1>4, <1>8 DEF FifoIInv

\* What every call on a queue does is a step of RhinoFifo.
LEMMA QueueMove ==
    ASSUME FifoIInv, IInv', QueueCall
    PROVE  MsgSound' /\ FifoMove
<1>1. TokenIInv /\ QueueSound /\ MsgSound /\ IpcIInv /\ MessageSound
  BY DEF FifoIInv, TokenIInv, IpcIInv
<1>2. ASSUME UNCHANGED <<obj_type, ring, cur_num>>, got' = NULL, HandedSame PROVE FifoMove
  <2>1. UNCHANGED Chans
    BY <1>1, <1>2, QueueKept, ChansSame
  <2>2. UNCHANGED Boxes
    BY <1>2, BoxesSame
  <2> QED
    BY <1>2, <2>1, <2>2 DEF FifoMove
<1>3. ASSUME UNCHANGED <<obj_type, ring, cur_num>>, got' = NULL, Serves PROVE FifoMove
  <2>1. UNCHANGED Chans
    BY <1>1, <1>3, QueueKept, ChansSame
  <2>2. PICK o \in Others, t \in Tasks, m \in QueueMsgs : HandedTo(t, m) /\ Chan(o) = <<>>
    BY <1>3 DEF Serves
  <2>3. Boxes' = [Boxes EXCEPT ![t] = m]
    BY <2>2, BoxesSet DEF HandedTo
  <2>4. Chans[o] = <<>> /\ Boxes[t] = NULL
    BY <2>2, ChanAt, BoxAt DEF HandedTo
  <2> QED
    BY <1>3, <2>1, <2>3, <2>4 DEF FifoMove
<1>4. ASSUME NEW q \in Others, OnQueue(q, <<>>), got' = NULL, HandedSame PROVE FifoMove
  <2>1. Chans' = [Chans EXCEPT ![q] = <<>>] /\ UNCHANGED Boxes
    BY <1>4, ChansSet, BoxesSame
  <2> QED
    BY <1>4, <2>1 DEF FifoMove
<1>5. CASE QueueWake
  <2>1. UNCHANGED <<obj_type, ring, cur_num>> /\ got' = NULL
    BY <1>5 DEF QueueWake, ObjWakeNext
  <2> QED
    BY <1>1, <1>2, <1>3, <1>5, <2>1, QueueWakeMsg
<1>6. ASSUME NEW q \in Others, NEW m \in MsgsOf(q), QueueSendOne(q, m) PROVE MsgSound' /\ FifoMove
  <2>1. UNCHANGED <<obj_type, ring, cur_num>> /\ got' = NULL
    BY <1>6 DEF QueueSendOne, ObjWakeFirst
  <2> QED
    BY <1>1, <1>3, <1>6, <2>1, SendOneMsg
<1>7. ASSUME NEW q \in Others, NEW m \in MsgsOf(q), QueueSendAll(q, m) PROVE MsgSound' /\ FifoMove
  <2>1. UNCHANGED <<obj_type, ring, cur_num>> /\ got' = NULL
    BY <1>7 DEF QueueSendAll, ObjLoop
  <2> QED
    BY <1>1, <1>2, <1>7, <2>1, SendAllMsg
<1>8. ASSUME NEW q \in Others, \E ticks \in Waits : QueueRecvPend(q, ticks) PROVE MsgSound' /\ FifoMove
  <2>1. UNCHANGED <<obj_type, ring, cur_num>> /\ got' = NULL
    BY <1>8 DEF QueueRecvPend, ObjPend
  <2>2. MsgSound' /\ HandedSame
    BY <1>1, <1>8, QuietMsg
  <2> QED
    BY <1>2, <2>1, <2>2
<1>9. ASSUME NEW q \in Others, \E kind \in QueueKinds : QueueCreate(q, kind) PROVE MsgSound' /\ FifoMove
  <2>1. OnQueue(q, <<>>) /\ got' = NULL
    BY <1>1, <1>9, OnCreate DEF QueueCreate
  <2>2. MsgSound' /\ HandedSame
    BY <1>1, <1>9, QuietMsg
  <2> QED
    BY <1>4, <2>1, <2>2
<1>10. ASSUME NEW q \in Others, QueueDel(q) PROVE MsgSound' /\ FifoMove
  <2>1. OnQueue(q, <<>>)
    BY <1>1, <1>10, OnDel
  <2>2. got' = NULL
    BY <1>10 DEF QueueDel
  <2>3. MsgSound' /\ HandedSame
    BY <1>1, <1>10, QuietMsg
  <2> QED
    BY <1>4, <2>1, <2>2, <2>3
<1>11. ASSUME NEW q \in Others, QueueFlush(q) PROVE MsgSound' /\ FifoMove
  <2>1. OnQueue(q, <<>>)
    BY <1>1, <1>11, OnFlush
  <2>2. got' = NULL
    BY <1>11 DEF QueueFlush
  <2>3. MsgSound' /\ HandedSame
    BY <1>1, <1>11, QuietMsg
  <2> QED
    BY <1>4, <2>1, <2>2, <2>3
<1>12. ASSUME NEW q \in Others, NEW m \in MsgsOf(q), QueueSend(q, m) PROVE MsgSound' /\ FifoMove
  <2>1. OnQueue(q, Append(Chan(q), m)) /\ Len(Chan(q)) < Capacity /\ m \in QueueMsgs
    BY <1>1, <1>12, OnSend
  <2>2. got' = NULL
    BY <1>12 DEF QueueSend
  <2>3. MsgSound' /\ HandedSame
    BY <1>1, <1>12, QuietMsg
  <2>4. Chans[q] = Chan(q)
    BY ChanAt
  <2>5. Chans' = [Chans EXCEPT ![q] = Append(Chan(q), m)] /\ UNCHANGED Boxes
    BY <2>1, <2>3, ChansSet, BoxesSame
  <2>6. Chans' = [Chans EXCEPT ![q] = Append(@, m)]
    BY <2>4, <2>5
  <2>7. Len(Chans[q]) < Capacity
    BY <2>1, <2>4
  <2> QED
    BY <2>1, <2>2, <2>3, <2>5, <2>6, <2>7 DEF FifoMove
<1>13. ASSUME NEW q \in Others, QueueRecv(q) PROVE MsgSound' /\ FifoMove
  <2>1. OnQueue(q, Tail(Chan(q))) /\ got' = Head(Chan(q)) /\ Chan(q) # <<>>
    BY <1>1, <1>13, OnRecv
  <2>2. MsgSound' /\ HandedSame
    BY <1>1, <1>13, QuietMsg
  <2>3. Chans[q] = Chan(q)
    BY ChanAt
  <2>4. Chans' = [Chans EXCEPT ![q] = Tail(Chan(q))] /\ UNCHANGED Boxes
    BY <2>1, <2>2, ChansSet, BoxesSame
  <2>5. Chans' = [Chans EXCEPT ![q] = Tail(@)]
    BY <2>3, <2>4
  <2>6. Chans[q] # <<>> /\ got' = Head(Chans[q])
    BY <2>1, <2>3
  <2> QED
    BY <2>2, <2>4, <2>5, <2>6 DEF FifoMove
<1> QED
  BY <1>5, <1>6, <1>7, <1>8, <1>9, <1>10, <1>11, <1>12, <1>13, Zenon DEF QueueCall

\* The other calls are none to RhinoFifo.
LEMMA OtherMove ==
    ASSUME FifoIInv, SemCall \/ EventCall, UNCHANGED queueVars
    PROVE  MsgSound' /\ UNCHANGED <<Chans, Boxes, got>>
<1>1. TokenIInv /\ QueueSound /\ MsgSound /\ IpcIInv
  BY DEF FifoIInv, TokenIInv
<1>2. UNCHANGED <<msg, got>>
  BY DEF queueVars
<1>3. MsgSound' /\ HandedSame
  BY <1>1, <1>2, SemMsg, EventMsg, UndisturbedMsg DEF HandedSame
<1>4. UNCHANGED Chans
  BY <1>1, OtherObjects, ChansSame
<1> QED
  BY <1>2, <1>3, <1>4, BoxesSame

\* A step of the core: a task returns with its message, or loses it, or nothing.
LEMMA CoreMove ==
    ASSUME FifoIInv, TokenIInv', Next, QueueCore, UNCHANGED obj_type
    PROVE  MsgSound' /\ FifoMove
<1>1. TokenIInv /\ QueueSound /\ MsgSound /\ MutexIInv /\ MutexIInv' /\ IInv'
  BY DEF FifoIInv, TokenIInv, MutexIInv
<1>2. MsgSound'
  BY <1>1, CoreMsg
<1>3. UNCHANGED <<ring, cur_num>>
  BY DEF QueueCore
<1>4. UNCHANGED Chans
  BY <1>1, <1>3, QueueKept, ChansSame
<1>5. CASE got' = NULL /\ \A x \in Tasks : Handed(x)' = Handed(x)
  <2>1. UNCHANGED Boxes
    BY <1>5, BoxesSame DEF HandedSame
  <2> QED
    BY <1>2, <1>4, <1>5, <2>1 DEF FifoMove
<1>6. ASSUME NEW t \in Tasks, Handed(t) # NULL, Handed(t)' = NULL, got' \in {NULL, Handed(t)},
             \A x \in Tasks : x # t => Handed(x)' = Handed(x)
      PROVE  FifoMove
  <2>1. Boxes' = [Boxes EXCEPT ![t] = NULL]
    BY <1>6, BoxesSet
  <2>2. Boxes[t] = Handed(t)
    BY BoxAt
  <2>3. Boxes[t] # NULL /\ got' \in {NULL, Boxes[t]}
    BY <1>6, <2>2
  <2> QED
    BY <1>4, <2>1, <2>3 DEF FifoMove
<1> QED
  BY <1>1, <1>2, <1>5, <1>6, CoreHanded
-----------------------------------------------------------------------------
\* A step keeps the invariant and is one of RhinoFifo, or none.
LEMMA FifoStep ==
    ASSUME "task_suspend" \notin IsrCalls, "task_redel" \notin Calls, FifoIInv,
           [IpcNext]_ipcVars
    PROVE  FifoIInv' /\ (FifoMove \/ UNCHANGED <<Chans, Boxes, got>>)
<1>1. TokenIInv /\ QueueSound /\ MsgSound /\ QueueIInv /\ IpcIInv
  BY DEF FifoIInv, TokenIInv, QueueIInv
<1>2. TokenIInv'
  BY <1>1, TokenStep, TokenStutter
<1>3. IInv'
  BY <1>2 DEF TokenIInv, MutexIInv
<1>4. QueueSound'
  BY <1>1, QueueStep DEF QueueIInv
<1>5. MsgSound' /\ (FifoMove \/ UNCHANGED <<Chans, Boxes, got>>)
  <2>1. CASE Next /\ QueueCore /\ EventCore /\ UNCHANGED <<obj_type, count>>
    BY <1>2, <2>1, CoreMove
  <2>2. CASE SemCall /\ UNCHANGED <<queueVars, eventVars>>
    BY <2>2, OtherMove
  <2>3. CASE EventCall /\ UNCHANGED <<count, queueVars>>
    BY <2>3, OtherMove
  <2>4. CASE QueueCall /\ UNCHANGED <<count, eventVars>>
    BY <1>3, <2>4, QueueMove
  <2>5. CASE UNCHANGED ipcVars
    <3>1. UNCHANGED <<vars, obj_type, queueVars>>
      BY <2>5 DEF ipcVars
    <3>2. UNCHANGED <<ring, cur_num, msg, got>>
      BY <3>1 DEF queueVars
    <3>3. UNCHANGED <<pc, call, cancel, blk_state, task_state, todo, blk_list>>
      BY <3>1 DEF vars, dataVars, ctlVars, waitVars, tcbVars
    <3>4. MsgSound'
      BY <1>1, <3>1, <3>2, <3>3 DEF MsgSound, InCall
    <3>5. ASSUME NEW x \in Tasks PROVE Handed(x)' = Handed(x)
      BY <3>2, <3>3, HandedKept DEF AnswerKept
    <3>6. UNCHANGED Chans
      BY <1>1, <3>1, <3>2, QueueKept, ChansSame
    <3> QED
      BY <3>2, <3>4, <3>5, <3>6, BoxesSame DEF HandedSame
  <2> QED
    BY <2>1, <2>2, <2>3, <2>4, <2>5, Zenon DEF IpcNext
<1> QED
  BY <1>2, <1>4, <1>5 DEF FifoIInv

\* No step changes what a stutter of RhinoFifo may not.
LEMMA SameFifo == UNCHANGED <<Chans, Boxes, got>> => UNCHANGED Fifo!fifoVars
BY DEF Fifo!fifoVars, Chans, Boxes, Chan

\* Message queues and buffer queues implement module RhinoFifo: whatever wraps
\* around in the rings and whoever waits, times out, is cancelled or deleted, a
\* receive returns the oldest message, whole and once, a message overtakes the
\* queue only while that is empty, and none is lost but with its receiver, a
\* flush or the queue.
THEOREM FifoCorrect ==
    ASSUME "task_suspend" \notin IsrCalls, "task_redel" \notin Calls
    PROVE  IpcSpec => ImplementsFifo
<1>1. IpcInit => FifoIInv /\ Fifo!FifoInit
  BY FifoStart
<1>2. FifoIInv /\ [IpcNext]_ipcVars => FifoIInv' /\ [Fifo!FifoNext]_(Fifo!fifoVars)
  BY FifoStep, SameFifo, MoveIsFifo
<1> QED
  BY <1>1, <1>2, PTL DEF IpcSpec, ImplementsFifo, Fifo!FifoSpec
=============================================================================

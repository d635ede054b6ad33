------------------------------ MODULE KvProofs ------------------------------
(***************************************************************************)
(* Theorems about the key-value store: for any number of keys, values,     *)
(* tasks and places in a block, with calls, collections, power failures    *)
(* and recoveries in any order, what g_kv_mgr knows of the flash is exact, *)
(* a key has one item, and no key loses its value or gets an older one     *)
(* back.                                                                   *)
(*                                                                         *)
(* The inductive invariant KvIInv says what the flash and the writes that  *)
(* are left of a critical section look like together: in a call            *)
(* (CallShape), in a collection before and after the erase (Copying,       *)
(* Copied), and in the recovery (BootShape), where the flash has the items *)
(* of one block (Single) or an interrupted collection (Double).            *)
(***************************************************************************)
EXTENDS KvStore, RhinoListsProofs, FiniteSetTheorems

\* Of two blocks, the other, and the items of block b and their places.
Other(b) == 1 - b

Its(b) == flash[b].items
Idx(b) == 1..Len(flash[b].items)

\* What is stored, written, known and promised.
Places == [blk : Blocks, n : Nat \ {0}]
Items  == [key : Keys \cup {NULL}, val : Vals \cup {NULL}, live : BOOLEAN,
           ok : BOOLEAN, origin : Places \cup {NULL}]
Writes == [do : {"item"}, blk : Blocks, item : Items]
          \cup [do : {"delete"}, at : Places]
          \cup [do : {"state"}, blk : Blocks, state : {"USED", "DIRTY"}]
          \cup [do : {"erase", "header"}, blk : Blocks]

FlashType == [Blocks -> [state : {"NONE", "CLEAN", "USED", "DIRTY"}, items : Seq(Items)]]
InfoType  == [Blocks -> [state : {"ZERO", "CLEAN", "USED", "DIRTY"}, used : Nat]]
TaskType  == [Tasks -> [pc : {"idle", "waiter", "wait", "blocked", "set", "end"},
                        key : Keys \cup {NULL}, val : Vals \cup {NULL}]]
LegalType == [Keys -> SUBSET (Vals \cup {NULL})]

\* The variables have their types.
KvTypeOK ==
    /\ flash \in FlashType /\ info \in InfoType
    /\ write_pos \in [blk : Blocks, n : Nat]
    /\ clean_blk_nums \in Int
    /\ gc_trigger \in {0, 1} /\ gc_waiter \in Nat /\ gc_sem \in Nat /\ posts \in Nat
    /\ gc \in {"none", "lock", "run"}
    /\ lock \in Tasks \cup {GC, BOOT, NULL}
    /\ todo \in Seq(Writes)
    /\ task \in TaskType
    /\ boot \in [stage : {"blocks", "items", "mark", "up"}, blk : 0..2, n : Nat,
                 unclean : Seq(Blocks)]
    /\ legal \in LegalType
    /\ lossy \in BOOLEAN

\* Who holds the lock; only the holder has writes to do.
Holders ==
    /\ \A p \in Tasks : task[p].pc = "end" <=> lock = p
    /\ \A p \in Tasks : task[p].pc \in {"waiter", "wait", "blocked", "set"} =>
          task[p].key \in Keys /\ task[p].val \in Vals
    /\ gc = "run" <=> lock = GC
    /\ Up <=> lock # BOOT
    /\ lock = NULL => todo = <<>>

\* The call that holds the lock.
Job == IF lock \in Tasks THEN task[lock] ELSE IdleTask

\* The writes that are left delete item i of block b, mark the block as dirty.
Goes(b, i) == WriteDelete(Place(b, i)) \in ToSet(todo)
Marks(b)   == WriteState(b, "DIRTY") \in ToSet(todo)

\* The next write is an item with the key k.
Pended(k) == todo # <<>> /\ Head(todo).do = "item" /\ Head(todo).item.key = k

\* g_kv_mgr knows block b.
Exact(b) == info[b] = [state |-> flash[b].state, used |-> Len(Its(b))]

\* Two items with one key.
Twins(b, i, j) ==
    i # j /\ Its(b)[i].live /\ Its(b)[j].live /\ Its(b)[i].key = Its(b)[j].key

NoTwins(b) == \A i, j \in Idx(b) : ~Twins(b, i, j)

\* Item i can be read as that of the key k.
Good(b, i, k) == Its(b)[i].live /\ Its(b)[i].ok /\ Its(b)[i].key = k

\* What is live has a key and a value, and its crc matches.
Filled(b) == \A i \in Idx(b) : Its(b)[i].live => Its(b)[i].key \in Keys /\ Its(b)[i].val \in Vals
AllOk(b)  == \A i \in Idx(b) : Its(b)[i].live => Its(b)[i].ok

\* The items of block b have values their keys may have, and a key that must
\* have one has an item; with Values it has one when the writes are done, too.
Lawful(b) == \A k \in Keys : \A i \in Idx(b) : Good(b, i, k) => Its(b)[i].val \in legal[k]
Free(k)   == NULL \in legal[k] \/ lossy
Valued(b) == Lawful(b) /\ \A k \in Keys : Free(k) \/ \E i \in Idx(b) : Good(b, i, k)
Values(b) ==
    /\ Lawful(b)
    /\ \A k \in Keys : Free(k) \/ \E i \in Idx(b) : Good(b, i, k) /\ (~Goes(b, i) \/ Pended(k))

\* The item a call is about to write to block b.
NewItem(b, it) ==
    /\ Len(Its(b)) < Slots
    /\ it \in Items /\ it.live /\ it.ok /\ it.key \in Keys /\ it.val \in Vals
    /\ Job.pc = "end" /\ it.key = Job.key /\ it.val = Job.val
    /\ \A j \in Idx(b) : Its(b)[j].live /\ Its(b)[j].key = it.key =>
          Goes(b, j) /\ it.origin = Place(b, j)

\* The write i that is left of a call.
CallWrite(b, i) ==
    \/ i = 1 /\ todo[i].do = "item" /\ todo[i].blk = b /\ NewItem(b, todo[i].item)
    \/ /\ \E n \in Idx(b) : todo[i] = WriteDelete(Place(b, n))
       /\ flash[b].state = "DIRTY" \/ Marks(b)
    \/ todo[i] = WriteState(b, "DIRTY")

\* The keys the call is about.
Affected(k) == k = Job.key \/ (Job.key = NULL /\ k \in Prefixed)

\* What the call stores or deletes will be so when its writes are done.
Outcome(b) == Job.pc = "end" => \A k \in Keys : Affected(k) =>
    /\ Job.val \in legal[k]
    /\ \A i \in Idx(b) : Good(b, i, k) => Its(b)[i].val = Job.val \/ Goes(b, i)
    /\ \/ Job.val = NULL
       \/ Pended(k)
       \/ \E i \in Idx(b) : Good(b, i, k) /\ ~Goes(b, i)

\* Open for calls, which write to block b; the other block is clean.
Parted(b) ==
    /\ Exact(b) /\ Exact(Other(b))
    /\ flash[Other(b)] = [state |-> "CLEAN", items |-> <<>>]
    /\ flash[b].state \in {"USED", "DIRTY"}
    /\ clean_blk_nums = 1 /\ write_pos = Place(b, Len(Its(b)))
    /\ Len(Its(b)) <= Slots /\ Filled(b) /\ AllOk(b)

\* Of two items with one key the call deletes the one that the other replaces.
CallTwins(b) == \A i, j \in Idx(b) : Twins(b, i, j) =>
    \/ Goes(b, i) /\ Its(b)[j].origin = Place(b, i)
    \/ Goes(b, j) /\ Its(b)[i].origin = Place(b, j)

\* A block in state USED has no deleted item, or will be marked.
UsedLive(b) == flash[b].state = "USED" => Marks(b) \/ \A i \in Idx(b) : Its(b)[i].live

\* In a call, or between two critical sections.
CallShape(b) ==
    /\ Parted(b)
    /\ \A i \in 1..Len(todo) : CallWrite(b, i)
    /\ UsedLive(b) /\ CallTwins(b)
    /\ Values(b) /\ Outcome(b)

\* The live items of block b are sound, one for each key.
Sound(b) == Len(Its(b)) <= Slots /\ NoTwins(b) /\ Filled(b) /\ AllOk(b) /\ Valued(b)

Erase(b)  == [do |-> "erase", blk |-> b]
Header(b) == [do |-> "header", blk |-> b]

\* A collection into block b: the first items are copied, the others follow.
CopyList(b) ==
    LET live == LiveIn(flash, Other(b))
        n == Len(Its(b))
        left == Len(live) - n
    IN
    /\ left \in Nat /\ Len(todo) = left + 3
    /\ \A i \in 1..n : Its(b)[i] = Its(Other(b))[live[i]]
    /\ \A i \in 1..left : todo[i] = WriteItem(b, Its(Other(b))[live[n + i]])
    /\ todo[left + 1] = Erase(Other(b))
    /\ todo[left + 2] = Header(Other(b))
    /\ todo[left + 3] = WriteState(b, "USED")

\* Before the erase: all items are in the other block still.
Copying(b) ==
    /\ Exact(b) /\ Exact(Other(b))
    /\ flash[b].state = "CLEAN" /\ flash[Other(b)].state = "DIRTY"
    /\ clean_blk_nums = 1 /\ write_pos = Place(b, Len(Its(b)))
    /\ CopyList(b)
    /\ Sound(Other(b))

\* The other block is erased, or has its new header.
Copied(b) ==
    /\ Exact(b) /\ flash[b].state = "CLEAN" /\ write_pos = Place(b, Len(Its(b)))
    /\ \/ /\ todo = <<Header(Other(b)), WriteState(b, "USED")>>
          /\ flash[Other(b)] = [state |-> "NONE", items |-> <<>>] /\ clean_blk_nums = 1
       \/ /\ todo = <<WriteState(b, "USED")>>
          /\ flash[Other(b)] = [state |-> "CLEAN", items |-> <<>>] /\ Exact(Other(b))
          /\ clean_blk_nums = 2
    /\ Sound(b) /\ \A i \in Idx(b) : Its(b)[i].live

\* In a collection, which may find nothing to do.
GcShape(b) == Copying(b) \/ Copied(b) \/ (CallShape(b) /\ todo = <<>>)

\* The traversals of kv_init have passed item i of block b.
Reached(b, i) ==
    \/ b < boot.blk
    \/ b = boot.blk /\ boot.stage = "items" /\ i < boot.n

\* Of two items with one key one was to replace the other; the traversal that
\* passed it deletes one of them.
BootTwins(b) ==
    /\ \A i, j \in Idx(b) : Twins(b, i, j) =>
          Its(b)[i].origin = Place(b, j) \/ Its(b)[j].origin = Place(b, i)
    /\ \A i, j \in Idx(b) :
          Twins(b, i, j) /\ Its(b)[j].origin = Place(b, i) /\ Reached(b, j) =>
             Goes(b, i) \/ Goes(b, j)

\* All items are in block b.
Single(b) ==
    /\ Its(Other(b)) = <<>> /\ flash[Other(b)].state \in {"NONE", "CLEAN"}
    /\ flash[b].state = "NONE" => Its(b) = <<>>
    /\ Len(Its(b)) <= Slots /\ Filled(b)
    /\ BootTwins(b)
    /\ \A i \in Idx(b) : Its(b)[i].live /\ ~Its(b)[i].ok /\ Reached(b, i) => Goes(b, i)
    /\ Values(b)

\* A copy whose origin_off is the place of the item it was copied from.
Copies(b, o, i, j) ==
    /\ Its(o)[j].live /\ Its(o)[j].ok /\ Its(b)[i].live
    /\ Its(b)[i].key = Its(o)[j].key /\ Its(o)[j].origin = Place(b, i)

\* The other block has the first copies of the items of block b.
Double(b) ==
    /\ flash[b].state = "DIRTY" /\ flash[Other(b)].state = "CLEAN" /\ Its(Other(b)) # <<>>
    /\ Len(Its(b)) <= Slots /\ NoTwins(b) /\ Filled(b) /\ AllOk(b) /\ Values(b)
    /\ NoTwins(Other(b))
    /\ \A i \in Idx(b), j \in Idx(Other(b)) : Copies(b, Other(b), i, j) => lossy

\* What g_kv_mgr has of a block before kv_init reads it, and of one without items.
Unread == [state |-> "ZERO", used |-> Slots]
Empty  == [state |-> "CLEAN", used |-> 0]

Count(b) == IF info[b] = Empty THEN 1 ELSE 0

\* A block that is marked clean and has items.
Unfit(b) == info[b].state = "CLEAN" /\ info[b].used > 0

\* The format of block b.
Formats(b) ==
    \/ todo = <<Erase(b), Header(b)>>
    \/ todo = <<Header(b)>> /\ flash[b] = [state |-> "NONE", items |-> <<>>]

\* The writes of the recovery of an item.
ItemWrites ==
    /\ \E b \in Blocks : \E i \in Idx(b) :
          \/ todo = <<WriteDelete(Place(b, i))>>
          \/ todo = <<WriteDelete(Place(b, i)), WriteState(b, "DIRTY")>>
          \/ todo = <<WriteState(b, "DIRTY")>>
    /\ \A b \in Blocks : Marks(b) => b <= boot.blk /\ info[b].state \in {"USED", "DIRTY"}

\* A block without a header, or the target of a collection.
FormatWrites(b) ==
    /\ Formats(b) /\ b < boot.blk
    /\ \/ /\ b = boot.blk - 1 /\ info[b] = Unread
          /\ flash[b] = [state |-> "NONE", items |-> <<>>]
       \/ boot.blk = 2 /\ boot.unclean = <<>> /\ Unfit(b) /\ clean_blk_nums = 0

\* The writes that are left in the recovery.
BootTodo ==
    \/ todo = <<>>
    \/ boot.stage = "items" /\ ItemWrites
    \/ boot.stage = "blocks" /\ \E b \in Blocks : FormatWrites(b)
    \/ /\ boot.stage = "blocks" /\ boot.blk = 2 /\ boot.unclean = <<>>
       /\ \E b \in Blocks : todo = <<WriteState(b, "DIRTY")>> /\ Unfit(b) /\ clean_blk_nums > 0
    \/ boot.stage = "mark" /\ todo = <<WriteState(0, "USED")>> /\ clean_blk_nums = 2

\* The unfit blocks are those of boot.unclean, but for the one in the works.
Listed(b) == b \in ToSet(boot.unclean) \/ (boot.stage = "blocks" /\ Marks(b))

\* What is known of a block that was read.
BootRead(b) ==
    \/ Exact(b) /\ (Unfit(b) <=> Listed(b))
    \/ todo # <<>> /\ Formats(b) /\ b \notin ToSet(boot.unclean)

\* Where kv_init is.
BootStage ==
    /\ boot.stage = "items" =>
          /\ boot.blk \in Blocks /\ boot.n > 0 /\ flash[boot.blk].state # "NONE"
          /\ info[boot.blk] = [state |-> flash[boot.blk].state, used |-> Slots]
    /\ boot.stage = "mark" =>
          /\ boot.blk = 2 /\ boot.unclean = <<>>
          /\ clean_blk_nums = 1 \/ todo = <<WriteState(0, "USED")>>

\* What kv_init has found out.
BootInfo ==
    /\ clean_blk_nums = Count(0) + Count(1)
    /\ \A b \in Blocks : b > boot.blk \/ (b = boot.blk /\ boot.stage = "blocks") => info[b] = Unread
    /\ \A b \in Blocks : b < boot.blk => BootRead(b)
    /\ boot.unclean = <<>> \/ \E b \in Blocks : boot.unclean = <<b>> /\ b < boot.blk
    /\ \A b \in Blocks : \A i \in Idx(b) :
          flash[b].state = "USED" /\ Reached(b, i) /\ (~Its(b)[i].live \/ Goes(b, i)) => Marks(b)

\* In the recovery.
BootShape ==
    /\ BootTodo /\ BootStage /\ BootInfo
    /\ \E b \in Blocks : Single(b) \/ Double(b)

\* The inductive invariant.
KvIInv ==
    /\ KvTypeOK /\ Holders
    /\ lock \in Tasks \cup {NULL} => \E b \in Blocks : CallShape(b)
    /\ lock = GC => \E b \in Blocks : GcShape(b)
    /\ lock = BOOT => BootShape

-----------------------------------------------------------------------------
(* Lists of writes, and numbers in their order.                            *)

\* The two blocks.
LEMMA TwoBlocks ==
    /\ Blocks = {0, 1}
    /\ \A b \in Blocks : Other(b) \in Blocks /\ Other(b) # b /\ Other(Other(b)) = b
    /\ \A b, c \in Blocks : c = b \/ c = Other(b)
BY DEF Blocks, BlockNums, Other

\* The elements of a list are its head and those of the rest.
LEMMA HeadOrTail ==
    ASSUME NEW S, NEW s \in Seq(S), s # <<>>
    PROVE  /\ Head(s) \in S /\ Tail(s) \in Seq(S)
           /\ Len(s) \in Nat \ {0} /\ Len(Tail(s)) = Len(s) - 1
           /\ Head(s) = s[1]
           /\ \A i \in 1..Len(Tail(s)) : Tail(s)[i] = s[i + 1] /\ i + 1 \in 1..Len(s)
           /\ \A e : e \in ToSet(s) <=> e = Head(s) \/ e \in ToSet(Tail(s))
<1> DEFINE r == Tail(s)
<1>1. /\ Len(s) \in Nat /\ Len(s) >= 1 /\ 1 \in 1..Len(s)
      /\ Head(s) = s[1] /\ Head(s) \in S /\ Head(s) \in ToSet(s)
      /\ r \in Seq(S) /\ Len(r) = Len(s) - 1
      /\ \A i \in 1..Len(r) : r[i] = s[i + 1] /\ i + 1 \in 1..Len(s)
      /\ ToSet(r) \subseteq ToSet(s)
  BY TailSeq
<1> HIDE DEF r
<1>2. ASSUME NEW e \in ToSet(s), e # Head(s) PROVE e \in ToSet(r)
  <2>1. PICK i \in 1..Len(s) : s[i] = e
    BY MemberAt
  <2>2. i - 1 \in 1..Len(r) /\ r[i - 1] = s[(i - 1) + 1] /\ (i - 1) + 1 = i
    BY <1>1, <1>2, <2>1
  <2>3. r[i - 1] \in ToSet(r)
    BY <1>1, <2>2, MemberAt
  <2> QED
    BY <2>1, <2>2, <2>3
<1> QED
  BY <1>1, <1>2 DEF r

\* The elements of two lists one behind the other.
LEMMA ConcatSet ==
    ASSUME NEW S, NEW s \in Seq(S), NEW r \in Seq(S)
    PROVE  s \o r \in Seq(S) /\ \A e : e \in ToSet(s \o r) <=> e \in ToSet(s) \/ e \in ToSet(r)
<1> DEFINE u == s \o r
<1>1. /\ u \in Seq(S) /\ Len(u) = Len(s) + Len(r) /\ Len(s) \in Nat /\ Len(r) \in Nat
      /\ \A i \in 1..Len(s) + Len(r) : u[i] = IF i <= Len(s) THEN s[i] ELSE r[i - Len(s)]
  BY ConcatProperties, LenProperties
<1> HIDE DEF u
<1>2. ASSUME NEW e \in ToSet(u) PROVE e \in ToSet(s) \/ e \in ToSet(r)
  <2>1. PICK i \in 1..Len(u) : u[i] = e
    BY <1>1, MemberAt
  <2>2. CASE i <= Len(s)
    <3>1. i \in 1..Len(s) /\ s[i] = e
      BY <1>1, <2>1, <2>2
    <3> QED
      BY <3>1, MemberAt
  <2>3. CASE i > Len(s)
    <3>1. i - Len(s) \in 1..Len(r) /\ r[i - Len(s)] = e
      BY <1>1, <2>1, <2>3
    <3> QED
      BY <3>1, MemberAt
  <2> QED
    BY <1>1, <2>1, <2>2, <2>3
<1>3. ASSUME NEW e \in ToSet(s) PROVE e \in ToSet(u)
  <2>1. PICK i \in 1..Len(s) : s[i] = e
    BY MemberAt
  <2>2. i \in 1..Len(u) /\ u[i] = e
    BY <1>1, <2>1
  <2> QED
    BY <1>1, <2>2, MemberAt
<1>4. ASSUME NEW e \in ToSet(r) PROVE e \in ToSet(u)
  <2>1. PICK i \in 1..Len(r) : r[i] = e
    BY MemberAt
  <2> DEFINE j == i + Len(s)
  <2>2. j \in 1..Len(s) + Len(r) /\ ~(j <= Len(s)) /\ j - Len(s) = i
    BY <1>1, <2>1
  <2> HIDE DEF j
  <2>3. j \in 1..Len(u) /\ u[j] = e
    BY <1>1, <2>1, <2>2
  <2> QED
    BY <1>1, <2>3, MemberAt
<1> QED
  BY <1>1, <1>2, <1>3, <1>4 DEF u

\* The elements of the short lists.
LEMMA ShortSets ==
    /\ \A e : e \notin ToSet(<<>>)
    /\ \A a, e : e \in ToSet(<<a>>) <=> e = a
    /\ \A a, c, e : e \in ToSet(<<a, c>>) <=> e = a \/ e = c
BY DEF ToSet

\* The head and the rest of short lists.
LEMMA ShortTails ==
    /\ \A a : <<a>> # <<>> /\ Head(<<a>>) = a /\ Tail(<<a>>) = <<>>
    /\ \A a, c : <<a, c>> # <<>> /\ Head(<<a, c>>) = a /\ Tail(<<a, c>>) = <<c>>
OBVIOUS

\* There is a list in order for every set of numbers up to n.
LEMMA OrderExists ==
    ASSUME NEW n \in Nat, NEW S \in SUBSET (1..n)
    PROVE  /\ Cardinality(S) \in 0..n
           /\ \E s \in [1..Cardinality(S) -> S] : \A i, j \in DOMAIN s : i < j => s[i] < s[j]
<1> DEFINE P(m, T) == /\ IsFiniteSet(T) /\ Cardinality(T) \in 0..m
                      /\ \E s \in [1..Cardinality(T) -> T] :
                            \A i, j \in 1..Cardinality(T) : i < j => s[i] < s[j]
           Bad == {m \in Nat : \E T \in SUBSET (1..m) : ~P(m, T)}
           R == {p \in Nat \X Nat : p[1] < p[2]}
<1>1. SUFFICES Bad = {}
  OBVIOUS
<1>2. SUFFICES ASSUME Bad # {} PROVE FALSE
  OBVIOUS
<1>3. Bad \subseteq Nat
  OBVIOUS
<1> HIDE DEF Bad
<1>4. Min(Bad) \in Bad /\ \A y \in Bad : Min(Bad) <= y
  BY <1>2, <1>3, MinNat
<1>5. PICK m \in Nat : m \in Bad /\ \A y \in Bad : m <= y
  BY <1>3, <1>4
<1>6. PICK T \in SUBSET (1..m) : ~P(m, T)
  BY <1>5 DEF Bad
<1>7. CASE m = 0
  <2>1. T = {}
    BY <1>6, <1>7
  <2>2. IsFiniteSet(T) /\ Cardinality(T) = 0
    BY <2>1, FS_EmptySet
  <2>3. \E s \in [1..Cardinality(T) -> T] :
           \A i, j \in 1..Cardinality(T) : i < j => s[i] < s[j]
    <3> DEFINE s == [i \in 1..0 |-> 0]
    <3>1. s \in [1..0 -> T] /\ \A i, j \in 1..0 : i < j => s[i] < s[j]
      BY <2>1
    <3>2. 1..Cardinality(T) = 1..0
      BY <2>2
    <3> QED
      BY <3>1, <3>2, Zenon
  <2>4. IsFiniteSet(T) /\ Cardinality(T) \in 0..m
    BY <1>7, <2>2
  <2> QED
    BY <1>6, <2>3, <2>4, Zenon
<1>8. CASE m # 0
  <2> DEFINE U == T \ {m}
             c == Cardinality(U)
  <2>1. m - 1 \in Nat /\ m - 1 \notin Bad /\ U \in SUBSET (1..(m - 1))
    BY <1>5, <1>6, <1>8
  <2>2. P(m - 1, U)
    BY <2>1 DEF Bad
  <2>3. IsFiniteSet(U) /\ c \in 0..m - 1
    BY <2>2
  <2>4. PICK r \in [1..c -> U] : \A i, j \in 1..c : i < j => r[i] < r[j]
    BY <2>2
  <2> HIDE DEF c
  <2>5. CASE m \notin T
    <3>1. U = T /\ c = Cardinality(T)
      BY <2>5 DEF c
    <3> HIDE DEF U
    <3>2. c \in 0..m
      BY <1>5, <2>3
    <3>3. P(m, T)
      BY <2>3, <2>4, <3>1, <3>2
    <3> QED
      BY <1>6, <3>3
  <2>6. CASE m \in T
    <3>1. T = U \cup {m} /\ m \notin U
      BY <2>6
    <3>2. IsFiniteSet(T) /\ Cardinality(T) = c + 1
      <4> HIDE DEF U
      <4> QED
        BY <2>3, <3>1, FS_AddElement DEF c
    <3>3. c + 1 \in 0..m
      BY <1>5, <2>3
    <3> DEFINE s == [i \in 1..c + 1 |-> IF i = c + 1 THEN m ELSE r[i]]
    <3>4. s \in [1..c + 1 -> T]
      <4>1. \A i \in 1..c + 1 : i # c + 1 => i \in 1..c
        BY <2>3
      <4> QED
        BY <2>4, <3>1, <4>1
    <3>5. \A i, j \in 1..c + 1 : i < j => s[i] < s[j]
      <4> SUFFICES ASSUME NEW i \in 1..c + 1, NEW j \in 1..c + 1, i < j PROVE s[i] < s[j]
        OBVIOUS
      <4>0. i \in 1..c /\ i # c + 1
        BY <2>3
      <4>1. s[i] = r[i] /\ r[i] \in U /\ r[i] \in 1..(m - 1)
        <5> HIDE DEF U
        <5> QED
          BY <2>1, <2>4, <4>0
      <4>2. CASE j = c + 1
        BY <1>5, <4>1, <4>2
      <4>3. CASE j # c + 1
        <5>1. j \in 1..c /\ s[j] = r[j]
          BY <2>3, <4>3
        <5> QED
          BY <2>4, <4>0, <4>1, <5>1
      <4> QED
        BY <4>2, <4>3
    <3> HIDE DEF s
    <3>6. P(m, T)
      BY <3>2, <3>3, <3>4, <3>5
    <3> QED
      BY <1>6, <3>6
  <2> QED
    BY <2>5, <2>6
<1> QED
  BY <1>7, <1>8

\* InOrder lists a set of numbers, each one once.
LEMMA InOrderSeq ==
    ASSUME NEW n \in Nat, NEW S \in SUBSET (1..n)
    PROVE  LET s == InOrder(S)
           IN  /\ s \in Seq(S) /\ Len(s) \in 0..n /\ s \in [1..Len(s) -> S]
               /\ \A i, j \in 1..Len(s) : s[i] = s[j] => i = j
               /\ \A x \in S : \E i \in 1..Len(s) : s[i] = x
               /\ S = {} => s = <<>>
               /\ S # {} => s # <<>>
<1> DEFINE c == Cardinality(S)
           s == InOrder(S)
<1>1. c \in 0..n /\ \E r \in [1..c -> S] : \A i, j \in DOMAIN r : i < j => r[i] < r[j]
  BY OrderExists
<1>2. s \in [1..c -> S] /\ \A i, j \in DOMAIN s : i < j => s[i] < s[j]
  BY <1>1 DEF InOrder
<1> HIDE DEF s
<1>3. IsFiniteSet(S) /\ IsFiniteSet(1..c) /\ Cardinality(1..c) = c
  <2>1. IsFiniteSet(1..n) /\ 1 \in Int /\ n \in Int /\ c \in Int
    BY <1>1, FS_Interval
  <2>2. IsFiniteSet(S)
    BY <2>1, FS_Subset
  <2>3. IsFiniteSet(1..c) /\ Cardinality(1..c) = IF 1 > c THEN 0 ELSE c - 1 + 1
    <3> HIDE DEF c
    <3> QED
      BY <2>1, FS_Interval
  <2> QED
    BY <1>1, <2>2, <2>3
<1>4. \A i, j \in 1..c : s[i] = s[j] => i = j
  <2>1. ASSUME NEW i \in 1..c, NEW j \in 1..c, i # j PROVE s[i] # s[j]
    <3>1. s[i] \in 1..n /\ s[j] \in 1..n
      BY <1>2
    <3>2. i < j \/ j < i
      BY <1>1, <2>1
    <3> QED
      BY <1>2, <3>1, <3>2
  <2> QED
    BY <2>1
<1>5. s \in Injection(1..c, S)
  BY <1>2, <1>4 DEF Injection, IsInjective
<1>6. s \in Surjection(1..c, S)
  <2>1. Cardinality(1..c) = Cardinality(S)
    BY <1>3
  <2> QED
    BY <1>3, <1>5, <2>1, FS_Injection, Zenon
<1>7. \A x \in S : \E i \in 1..c : s[i] = x
  BY <1>6 DEF Surjection
<1>8. s \in Seq(S) /\ Len(s) = c
  BY <1>1, <1>2
<1>9. S = {} => s = <<>>
  <2>1. S = {} => c = 0
    BY FS_EmptySet
  <2> QED
    BY <1>8, <2>1
<1>10. S # {} => s # <<>>
  <2>1. S # {} => c # 0
    BY <1>3, FS_EmptySet
  <2> QED
    BY <1>8, <2>1
<1> QED
  BY <1>1, <1>2, <1>4, <1>7, <1>8, <1>9, <1>10 DEF s

-----------------------------------------------------------------------------
(* One write.                                                              *)

\* What a write says.
LEMMA WriteKinds ==
    ASSUME NEW w \in Writes
    PROVE  /\ w.do \in {"item", "delete", "state", "erase", "header"}
           /\ w.do = "item" => w.blk \in Blocks /\ w.item \in Items
           /\ w.do = "delete" => w.at \in Places
           /\ w.do = "state" => w.blk \in Blocks /\ w.state \in {"USED", "DIRTY"}
           /\ w.do \in {"erase", "header"} => w.blk \in Blocks
BY DEF Writes

\* The writes the operations put into the list are writes.
LEMMA WriteTypes ==
    ASSUME NEW b \in Blocks
    PROVE  /\ \A it \in Items : WriteItem(b, it) \in Writes
           /\ \A p \in Places : WriteDelete(p) \in Writes
           /\ WriteState(b, "DIRTY") \in Writes /\ WriteState(b, "USED") \in Writes
           /\ Erase(b) \in Writes /\ Header(b) \in Writes
           /\ Format(b) = <<Erase(b), Header(b)>>
           /\ \A n \in Nat \ {0} : Place(b, n) \in Places
BY DEF Writes, WriteItem, WriteDelete, WriteState, Erase, Header, Format, Place, Places

\* The writes differ.
LEMMA WriteDiffer ==
    ASSUME NEW b, NEW c, NEW i, NEW j, NEW it, NEW s, NEW r
    PROVE  /\ WriteDelete(Place(b, i)) = WriteDelete(Place(c, j)) => b = c /\ i = j
           /\ WriteDelete(Place(b, i)) # WriteState(c, s)
           /\ WriteDelete(Place(b, i)) # WriteItem(c, it)
           /\ WriteDelete(Place(b, i)) # Erase(c) /\ WriteDelete(Place(b, i)) # Header(c)
           /\ WriteState(b, s) = WriteState(c, r) => b = c /\ s = r
           /\ WriteState(b, s) # WriteItem(c, it)
           /\ WriteState(b, s) # Erase(c) /\ WriteState(b, s) # Header(c)
           /\ Erase(b) # Header(c)
           /\ Erase(b) # WriteItem(c, it) /\ Header(b) # WriteItem(c, it)
           /\ Erase(b) = Erase(c) => b = c
           /\ Header(b) = Header(c) => b = c
BY DEF WriteItem, WriteDelete, WriteState, Erase, Header, Place

\* What each kind of write does.
LEMMA WriteCases ==
    ASSUME Write, NEW w, w = Head(todo)
    PROVE  /\ w.do = "item" =>
              /\ flash' = [flash EXCEPT ![w.blk].items = Append(@, w.item)]
              /\ info' = [info EXCEPT ![w.blk].used = @ + 1]
              /\ write_pos' = [write_pos EXCEPT !.n = @ + 1]
              /\ clean_blk_nums' = clean_blk_nums
           /\ w.do = "delete" =>
              /\ flash' = [flash EXCEPT ![w.at.blk].items[w.at.n] = Deleted]
              /\ UNCHANGED <<info, write_pos, clean_blk_nums>>
           /\ w.do = "state" =>
              /\ flash' = [flash EXCEPT ![w.blk].state = w.state]
              /\ info' = [info EXCEPT ![w.blk].state = w.state]
              /\ clean_blk_nums' = clean_blk_nums - (IF w.state = "USED" THEN 1 ELSE 0)
              /\ write_pos' = write_pos
           /\ w.do = "erase" =>
              /\ flash' = [flash EXCEPT ![w.blk] = [state |-> "NONE", items |-> <<>>]]
              /\ UNCHANGED <<info, write_pos, clean_blk_nums>>
           /\ w.do = "header" =>
              /\ flash' = [flash EXCEPT ![w.blk].state = "CLEAN"]
              /\ info' = [info EXCEPT ![w.blk] = [state |-> "CLEAN", used |-> 0]]
              /\ clean_blk_nums' = clean_blk_nums + 1
              /\ write_pos' = write_pos
<1>1. CASE w.do = "item"
  BY <1>1, Zenon DEF Write
<1>2. CASE w.do = "delete"
  BY <1>2, Zenon DEF Write
<1>3. CASE w.do = "state"
  BY <1>3, Zenon DEF Write
<1>4. CASE w.do = "erase"
  BY <1>4, Zenon DEF Write
<1>5. CASE w.do = "header"
  BY <1>5, Zenon DEF Write
<1> QED
  BY <1>1, <1>2, <1>3, <1>4, <1>5

\* What a write leaves alone, and what is left to write.
LEMMA WriteRest ==
    ASSUME KvTypeOK, Write
    PROVE  /\ todo # <<>> /\ todo' = Tail(todo) /\ todo' \in Seq(Writes)
           /\ Head(todo) \in Writes /\ Head(todo) = todo[1]
           /\ Len(todo) \in Nat \ {0} /\ Len(todo') = Len(todo) - 1
           /\ \A i \in 1..Len(todo') : todo'[i] = todo[i + 1] /\ i + 1 \in 1..Len(todo)
           /\ \A e : e \in ToSet(todo) <=> e = Head(todo) \/ e \in ToSet(todo')
           /\ UNCHANGED <<gcVars, lock, task, boot, legal, lossy>>
           /\ Job' = Job
<1>1. /\ todo # <<>> /\ todo' = Tail(todo) /\ UNCHANGED <<gcVars, lock, task, boot, legal, lossy>>
  BY DEF Write
<1>2. todo \in Seq(Writes)
  BY DEF KvTypeOK
<1>3. Job' = Job
  BY <1>1 DEF Job
<1> QED
  BY <1>1, <1>2, <1>3, HeadOrTail, Zenon

\* The blocks, and the items in them.
LEMMA FlashTypes ==
    ASSUME KvTypeOK, NEW b \in Blocks
    PROVE  /\ flash \in FlashType
           /\ info \in InfoType
           /\ flash[b] = [state |-> flash[b].state, items |-> Its(b)]
           /\ info[b] = [state |-> info[b].state, used |-> info[b].used]
           /\ flash[b].state \in {"NONE", "CLEAN", "USED", "DIRTY"} /\ Its(b) \in Seq(Items)
           /\ info[b].state \in {"ZERO", "CLEAN", "USED", "DIRTY"} /\ info[b].used \in Nat
           /\ Len(Its(b)) \in Nat
           /\ \A i \in Idx(b) : Its(b)[i] \in Items
BY SMTT(30) DEF KvTypeOK, Its, Idx, FlashType, InfoType

\* An item is written.
LEMMA ItemStep ==
    ASSUME KvTypeOK, Write, NEW b \in Blocks, NEW it \in Items, Head(todo) = WriteItem(b, it)
    PROVE  /\ flash' \in FlashType
           /\ info' \in InfoType
           /\ flash'[b].state = flash[b].state /\ flash'[Other(b)] = flash[Other(b)]
           /\ Len(Its(b)') = Len(Its(b)) + 1 /\ Its(b)'[Len(Its(b)) + 1] = it
           /\ \A i \in Idx(b) : Its(b)'[i] = Its(b)[i]
           /\ Idx(b)' = Idx(b) \cup {Len(Its(b)) + 1} /\ Len(Its(b)) + 1 \notin Idx(b)
           /\ info'[b] = [state |-> info[b].state, used |-> info[b].used + 1]
           /\ info'[Other(b)] = info[Other(b)]
           /\ write_pos' = Place(write_pos.blk, write_pos.n + 1)
           /\ clean_blk_nums' = clean_blk_nums
<1>1. /\ flash' = [flash EXCEPT ![b].items = Append(@, it)]
      /\ info' = [info EXCEPT ![b].used = @ + 1]
      /\ write_pos' = [write_pos EXCEPT !.n = @ + 1]
      /\ clean_blk_nums' = clean_blk_nums
  <2> DEFINE w == Head(todo)
  <2>1. w.do = "item" /\ w.blk = b /\ w.item = it
    BY DEF WriteItem
  <2>2. w = Head(todo)
    OBVIOUS
  <2> HIDE DEF w
  <2> QED
    BY <2>1, <2>2, WriteCases, Zenon
<1>2. Other(b) \in Blocks /\ Other(b) # b
  BY TwoBlocks
<1>3. /\ flash \in FlashType
      /\ info \in InfoType
      /\ write_pos \in [blk : Blocks, n : Nat] /\ Its(b) \in Seq(Items) /\ Len(Its(b)) \in Nat
  BY FlashTypes DEF KvTypeOK
<1>4. /\ flash'[b].items = Append(flash[b].items, it) /\ flash'[b].state = flash[b].state
      /\ flash'[Other(b)] = flash[Other(b)]
  BY <1>1, <1>2, <1>3, SMTT(30) DEF FlashType, InfoType
<1>5. /\ info'[b] = [state |-> info[b].state, used |-> info[b].used + 1]
      /\ info'[Other(b)] = info[Other(b)] /\ write_pos' = Place(write_pos.blk, write_pos.n + 1)
  BY <1>1, <1>2, <1>3 DEF Place, FlashType, InfoType
<1>6. /\ Its(b)' = Append(Its(b), it)
  BY <1>4 DEF Its
<1>7. /\ Len(Its(b)') = Len(Its(b)) + 1 /\ Its(b)'[Len(Its(b)) + 1] = it
      /\ \A i \in 1..Len(Its(b)) : Its(b)'[i] = Its(b)[i]
  BY <1>3, <1>6
<1>8. Idx(b)' = 1..Len(Its(b)') /\ Idx(b) = 1..Len(Its(b))
  BY DEF Idx, Its
<1>9. Idx(b)' = Idx(b) \cup {Len(Its(b)) + 1} /\ Len(Its(b)) + 1 \notin Idx(b)
  BY <1>3, <1>7, <1>8
<1>10. /\ flash' \in FlashType
       /\ info' \in InfoType
  <2>1. flash[b].items \in Seq(Items) /\ info[b].used + 1 \in Nat
    BY <1>3 DEF FlashType, InfoType
  <2>2. Append(flash[b].items, it) \in Seq(Items)
    BY <2>1
  <2> QED
    BY <1>1, <1>3, <2>1, <2>2, ZenonT(60) DEF FlashType, InfoType
<1> QED
  BY <1>1, <1>4, <1>5, <1>7, <1>8, <1>9, <1>10

\* An item is deleted.
LEMMA DeleteStep ==
    ASSUME KvTypeOK, Write, NEW b \in Blocks, NEW n \in Idx(b), Head(todo) = WriteDelete(Place(b, n))
    PROVE  /\ flash' \in FlashType
           /\ flash'[b].state = flash[b].state /\ flash'[Other(b)] = flash[Other(b)]
           /\ Len(Its(b)') = Len(Its(b)) /\ ~Its(b)'[n].live
           /\ \A i \in Idx(b) : i # n => Its(b)'[i] = Its(b)[i]
           /\ Idx(b)' = Idx(b)
           /\ UNCHANGED <<info, write_pos, clean_blk_nums>>
<1>1. /\ flash' = [flash EXCEPT ![b].items[n] = Deleted]
      /\ UNCHANGED <<info, write_pos, clean_blk_nums>>
  <2> DEFINE w == Head(todo)
  <2>1. w.do = "delete" /\ w.at.blk = b /\ w.at.n = n
    BY DEF WriteDelete, Place
  <2>2. w = Head(todo)
    OBVIOUS
  <2> HIDE DEF w
  <2> QED
    BY <2>1, <2>2, WriteCases, Zenon
<1>2. Other(b) \in Blocks /\ Other(b) # b
  BY TwoBlocks
<1>3. /\ flash \in FlashType
      /\ Its(b) \in Seq(Items) /\ Len(Its(b)) \in Nat
  BY FlashTypes
<1>4. Deleted \in Items /\ ~Deleted.live
  BY DEF Deleted, Item, Items
<1>5. /\ flash'[b].items = [flash[b].items EXCEPT ![n] = Deleted] /\ flash'[b].state = flash[b].state
      /\ flash'[Other(b)] = flash[Other(b)]
  BY <1>1, <1>2, <1>3 DEF FlashType, InfoType
<1>6. Its(b)' = [Its(b) EXCEPT ![n] = Deleted]
  BY <1>5 DEF Its
<1>7. n \in 1..Len(Its(b)) /\ Idx(b) = 1..Len(Its(b)) /\ Idx(b)' = 1..Len(Its(b)')
  BY DEF Idx, Its
<1>8. /\ Its(b)' \in Seq(Items) /\ Len(Its(b)') = Len(Its(b)) /\ Its(b)'[n] = Deleted
      /\ \A i \in 1..Len(Its(b)) : i # n => Its(b)'[i] = Its(b)[i]
  BY <1>3, <1>4, <1>6, <1>7
<1>9. flash' \in FlashType
  <2>1. [flash[b].items EXCEPT ![n] = Deleted] \in Seq(Items)
    BY <1>6, <1>8 DEF Its
  <2> QED
    BY <1>1, <1>3, <2>1 DEF FlashType, InfoType
<1> QED
  BY <1>1, <1>4, <1>5, <1>7, <1>8, <1>9

\* A block gets a new state.
LEMMA StateStep ==
    ASSUME KvTypeOK, Write, NEW b \in Blocks, NEW s \in {"USED", "DIRTY"},
           Head(todo) = WriteState(b, s)
    PROVE  /\ flash' \in FlashType
           /\ info' \in InfoType
           /\ flash'[b].state = s /\ flash'[Other(b)] = flash[Other(b)]
           /\ \A c \in Blocks : Its(c)' = Its(c) /\ Idx(c)' = Idx(c)
           /\ info'[b] = [state |-> s, used |-> info[b].used] /\ info'[Other(b)] = info[Other(b)]
           /\ write_pos' = write_pos
           /\ clean_blk_nums' = IF s = "USED" THEN clean_blk_nums - 1 ELSE clean_blk_nums
<1>1. /\ flash' = [flash EXCEPT ![b].state = s]
      /\ info' = [info EXCEPT ![b].state = s]
      /\ clean_blk_nums' = clean_blk_nums - (IF s = "USED" THEN 1 ELSE 0)
      /\ write_pos' = write_pos
  <2> DEFINE w == Head(todo)
  <2>1. w.do = "state" /\ w.blk = b /\ w.state = s
    BY DEF WriteState
  <2>2. w = Head(todo)
    OBVIOUS
  <2> HIDE DEF w
  <2> QED
    BY <2>1, <2>2, WriteCases, Zenon
<1>2. Other(b) \in Blocks /\ Other(b) # b /\ \A c \in Blocks : c = b \/ c = Other(b)
  BY TwoBlocks
<1>3. /\ flash \in FlashType
      /\ info \in InfoType
      /\ clean_blk_nums \in Int
  BY FlashTypes DEF KvTypeOK
<1>4. \A c \in Blocks : flash'[c].items = flash[c].items
  BY <1>1, <1>3
<1>5. \A c \in Blocks : Its(c)' = Its(c) /\ Idx(c)' = Idx(c)
  BY <1>4 DEF Its, Idx
<1>6. /\ flash' \in FlashType
      /\ flash'[b].state = s /\ flash'[Other(b)] = flash[Other(b)]
  BY <1>1, <1>2, <1>3 DEF FlashType, InfoType
<1>7. /\ info' \in InfoType
      /\ info'[b] = [state |-> s, used |-> info[b].used] /\ info'[Other(b)] = info[Other(b)]
  BY <1>1, <1>2, <1>3 DEF FlashType, InfoType
<1>8. clean_blk_nums' = IF s = "USED" THEN clean_blk_nums - 1 ELSE clean_blk_nums
  BY <1>1, <1>3
<1> QED
  BY <1>1, <1>5, <1>6, <1>7, <1>8

\* A block is erased.
LEMMA EraseStep ==
    ASSUME KvTypeOK, Write, NEW b \in Blocks, Head(todo) = Erase(b)
    PROVE  /\ flash' \in FlashType
           /\ flash'[b] = [state |-> "NONE", items |-> <<>>] /\ flash'[Other(b)] = flash[Other(b)]
           /\ UNCHANGED <<info, write_pos, clean_blk_nums>>
<1>1. /\ flash' = [flash EXCEPT ![b] = [state |-> "NONE", items |-> <<>>]]
      /\ UNCHANGED <<info, write_pos, clean_blk_nums>>
  <2> DEFINE w == Head(todo)
  <2>1. w.do = "erase" /\ w.blk = b
    BY DEF Erase
  <2>2. w = Head(todo)
    OBVIOUS
  <2> HIDE DEF w
  <2> QED
    BY <2>1, <2>2, WriteCases, Zenon
<1>2. Other(b) \in Blocks /\ Other(b) # b
  BY TwoBlocks
<1> QED
  <2>1. flash \in FlashType
    BY FlashTypes
  <2>2. [state |-> "NONE", items |-> <<>>] \in
           [state : {"NONE", "CLEAN", "USED", "DIRTY"}, items : Seq(Items)]
    OBVIOUS
  <2> QED
    BY <1>1, <1>2, <2>1, <2>2 DEF FlashType, InfoType

\* A block gets its header.
LEMMA HeaderStep ==
    ASSUME KvTypeOK, Write, NEW b \in Blocks, Head(todo) = Header(b)
    PROVE  /\ flash' \in FlashType
           /\ info' \in InfoType
           /\ flash'[b].state = "CLEAN" /\ flash'[Other(b)] = flash[Other(b)]
           /\ \A c \in Blocks : Its(c)' = Its(c) /\ Idx(c)' = Idx(c)
           /\ info'[b] = Empty /\ info'[Other(b)] = info[Other(b)]
           /\ write_pos' = write_pos /\ clean_blk_nums' = clean_blk_nums + 1
<1>1. /\ flash' = [flash EXCEPT ![b].state = "CLEAN"]
      /\ info' = [info EXCEPT ![b] = [state |-> "CLEAN", used |-> 0]]
      /\ clean_blk_nums' = clean_blk_nums + 1
      /\ write_pos' = write_pos
  <2> DEFINE w == Head(todo)
  <2>1. w.do = "header" /\ w.blk = b
    BY DEF Header
  <2>2. w = Head(todo)
    OBVIOUS
  <2> HIDE DEF w
  <2> QED
    BY <2>1, <2>2, WriteCases, Zenon
<1>2. Other(b) \in Blocks /\ Other(b) # b /\ \A c \in Blocks : c = b \/ c = Other(b)
  BY TwoBlocks
<1>3. /\ flash \in FlashType
      /\ info \in InfoType
  BY FlashTypes
<1>4. \A c \in Blocks : flash'[c].items = flash[c].items
  BY <1>1, <1>3
<1>5. \A c \in Blocks : Its(c)' = Its(c) /\ Idx(c)' = Idx(c)
  BY <1>4 DEF Its, Idx
<1> QED
  BY <1>1, <1>2, <1>3, <1>5 DEF Empty, FlashType, InfoType

-----------------------------------------------------------------------------
(* Types, and who holds the lock.                                          *)

\* kv_item_search returns an item with the key, if there is one.
LEMMA SearchFound ==
    ASSUME NEW k
    PROVE  LET found == {p \in [blk : Blocks, n : 1..Slots] :
                           /\ info[p.blk].state # "CLEAN" /\ Holds(flash, p)
                           /\ At(flash, p).live /\ At(flash, p).key = k}
           IN  IF found = {} THEN Search(k) = NULL ELSE Search(k) \in found
<1> DEFINE found == {p \in [blk : Blocks, n : 1..Slots] :
                       /\ info[p.blk].state # "CLEAN" /\ Holds(flash, p)
                       /\ At(flash, p).live /\ At(flash, p).key = k}
           First(p) == \A o \in found : p.blk < o.blk \/ (p.blk = o.blk /\ p.n <= o.n)
           In(b) == {n \in 1..Slots : Place(b, n) \in found}
<1>1. Search(k) = IF found = {} THEN NULL ELSE CHOOSE p \in found : First(p)
  BY DEF Search
<1>2. \A p \in found : p \in [blk : Blocks, n : 1..Slots]
  BY SMTT(30)
<1> HIDE DEF found
<1>3. SUFFICES ASSUME found # {} PROVE \E p \in found : First(p)
  BY <1>1 DEF found
<1>4. \A p \in found : p = Place(p.blk, p.n) /\ p.blk \in {0, 1} /\ p.n \in 1..Slots /\ p.n \in Nat
  BY <1>2, TwoBlocks, KvAssumption DEF Place
<1>5. \A p \in found : p.n \in In(p.blk)
  BY <1>4
<1>6. In(0) \subseteq Nat /\ In(1) \subseteq Nat
  BY KvAssumption
<1>7. CASE In(0) # {}
  <2>1. Min(In(0)) \in In(0) /\ \A y \in In(0) : Min(In(0)) <= y
    BY <1>6, <1>7, MinNat
  <2>2. Place(0, Min(In(0))) \in found
    BY <2>1
  <2>3. First(Place(0, Min(In(0))))
    BY <1>4, <1>5, <2>1 DEF Place
  <2> QED
    BY <2>2, <2>3
<1>8. CASE In(0) = {}
  <2>1. In(1) # {} /\ \A p \in found : p.blk = 1
    BY <1>3, <1>4, <1>5, <1>8
  <2>2. Min(In(1)) \in In(1) /\ \A y \in In(1) : Min(In(1)) <= y
    BY <1>6, <2>1, MinNat
  <2>3. Place(1, Min(In(1))) \in found
    BY <2>2
  <2>4. First(Place(1, Min(In(1))))
    BY <1>4, <1>5, <2>1, <2>2 DEF Place
  <2> QED
    BY <2>3, <2>4
<1> QED
  BY <1>7, <1>8

\* What it returns is the place of a live item with the key.
LEMMA SearchPlace ==
    ASSUME KvTypeOK, NEW k, Search(k) # NULL
    PROVE  /\ Search(k) \in Places
           /\ \E b \in Blocks : \E i \in Idx(b) :
                 /\ Search(k) = Place(b, i) /\ info[b].state # "CLEAN"
                 /\ Its(b)[i].live /\ Its(b)[i].key = k /\ At(flash, Search(k)) = Its(b)[i]
<1> DEFINE p == Search(k)
<1>1. /\ p \in [blk : Blocks, n : 1..Slots] /\ info[p.blk].state # "CLEAN"
      /\ Holds(flash, p) /\ At(flash, p).live /\ At(flash, p).key = k
  BY SearchFound
<1> HIDE DEF p
<1>2. p = Place(p.blk, p.n) /\ p.blk \in Blocks /\ p.n \in Nat \ {0}
  BY <1>1, KvAssumption DEF Place
<1>3. p \in Places
  BY <1>1, KvAssumption DEF Places
<1>4. p.n \in Idx(p.blk) /\ At(flash, p) = Its(p.blk)[p.n]
  BY <1>1 DEF Holds, At, Idx, Its
<1> QED
  BY <1>1, <1>2, <1>3, <1>4 DEF p

\* It finds the items of the blocks that are not clean.
LEMMA SearchFinds ==
    ASSUME KvTypeOK, NEW b \in Blocks, NEW i \in Idx(b), Len(Its(b)) <= Slots,
           info[b].state # "CLEAN", Its(b)[i].live
    PROVE  Search(Its(b)[i].key) # NULL
<1> DEFINE k == Its(b)[i].key
           p == Place(b, i)
           found == {q \in [blk : Blocks, n : 1..Slots] :
                       /\ info[q.blk].state # "CLEAN" /\ Holds(flash, q)
                       /\ At(flash, q).live /\ At(flash, q).key = k}
<1>1. i \in 1..Slots /\ i \in Nat
  BY FlashTypes, KvAssumption DEF Idx, Its
<1>2. p \in [blk : Blocks, n : 1..Slots] /\ p.blk = b /\ p.n = i
  BY <1>1 DEF Place
<1>3. p # NULL
  BY <1>1, KvAssumption DEF Place
<1>4. p \in found
  BY <1>2, <1>3 DEF Holds, At, Its, Idx
<1>5. Search(k) \in found
  <2> HIDE DEF k, p
  <2>1. IF found = {} THEN Search(k) = NULL ELSE Search(k) \in found
    BY SearchFound
  <2> QED
    BY <1>4, <2>1
<1>6. NULL \notin found
  <2>1. \A q \in [blk : Blocks, n : 1..Slots] : q \in [blk : Blocks, n : Nat]
    BY KvAssumption
  <2> QED
    BY <2>1, KvAssumption
<1> QED
  BY <1>5, <1>6

\* kv_item_del, as a list and as a set of writes.
LEMMA KvItemDelSet ==
    ASSUME KvTypeOK, NEW b \in Blocks, NEW i \in Nat \ {0}
    PROVE  LET r == KvItemDel(Place(b, i))
           IN  /\ r \in Seq(Writes) /\ r # <<>>
               /\ \A e : e \in ToSet(r) <=> \/ e = WriteDelete(Place(b, i))
                                            \/ info[b].state = "USED" /\ e = WriteState(b, "DIRTY")
               /\ r = IF info[b].state = "USED"
                      THEN <<WriteDelete(Place(b, i)), WriteState(b, "DIRTY")>>
                      ELSE <<WriteDelete(Place(b, i))>>
<1> DEFINE d == WriteDelete(Place(b, i))
           s == WriteState(b, "DIRTY")
<1>1. d \in Writes /\ s \in Writes
  BY WriteTypes
<1>2. KvItemDel(Place(b, i)) = IF info[b].state = "USED" THEN <<d, s>> ELSE <<d>>
  BY DEF KvItemDel, Place
<1> HIDE DEF d, s
<1>3. <<d, s>> \in Seq(Writes) /\ <<d>> \in Seq(Writes) /\ <<d, s>> # <<>> /\ <<d>> # <<>>
  BY <1>1
<1> QED
  BY <1>2, <1>3, ShortSets DEF d, s

\* kv_item_update, write by write.
LEMMA UpdateSeq ==
    ASSUME KvTypeOK, NEW b \in Blocks, NEW it \in Items, NEW c \in Blocks, NEW n \in Nat \ {0}
    PROVE  LET r == Update(b, it, Place(c, n))
           IN  /\ r \in Seq(Writes) /\ r # <<>> /\ Head(r) = WriteItem(b, it) /\ r[1] = Head(r)
               /\ \A e : e \in ToSet(r) <=> \/ e = WriteItem(b, it)
                                            \/ e = WriteDelete(Place(c, n))
                                            \/ info[c].state = "USED" /\ e = WriteState(c, "DIRTY")
               /\ \A i \in 1..Len(r) : i # 1 => \/ r[i] = WriteDelete(Place(c, n))
                                                \/ r[i] = WriteState(c, "DIRTY")
<1> DEFINE w == WriteItem(b, it)
           s == KvItemDel(Place(c, n))
           r == <<w>> \o s
<1>1. w \in Writes
  BY WriteTypes
<1>2. /\ s \in Seq(Writes)
      /\ \A e : e \in ToSet(s) <=> \/ e = WriteDelete(Place(c, n))
                                   \/ info[c].state = "USED" /\ e = WriteState(c, "DIRTY")
  BY KvItemDelSet
<1>3. r = Update(b, it, Place(c, n))
  BY DEF Update
<1> HIDE DEF w, s
<1>4. /\ r \in Seq(Writes) /\ Len(s) \in Nat /\ Len(r) = Len(s) + 1 /\ r[1] = w
      /\ \A i \in 1..Len(r) : i = 1 \/ (i - 1 \in 1..Len(s) /\ r[i] = s[i - 1])
  BY <1>1, <1>2, ConsSeq
<1>5. \A e : e \in ToSet(r) <=> e = w \/ e \in ToSet(s)
  <2>1. <<w>> \in Seq(Writes)
    BY <1>1
  <2>2. \A e : e \in ToSet(r) <=> e \in ToSet(<<w>>) \/ e \in ToSet(s)
    BY <1>2, <2>1, ConcatSet
  <2> QED
    BY <2>2, ShortSets
<1> HIDE DEF r
<1>6. r # <<>> /\ Head(r) = r[1]
  BY <1>4
<1>7. \A i \in 1..Len(r) : i # 1 => r[i] \in ToSet(s)
  BY <1>2, <1>4, MemberAt
<1> QED
  BY <1>2, <1>3, <1>4, <1>5, <1>6, <1>7 DEF w, r

\* The items of a block that kv_item_delete_by_prefix deletes.
PrefixedIn(b) == {n \in Idx(b) : Its(b)[n].live /\ Its(b)[n].key \in Prefixed}

\* They are deleted, and the block is marked.
LEMMA DelByPrefixSet ==
    ASSUME KvTypeOK, NEW b \in Blocks
    PROVE  /\ DelByPrefix(b) \in Seq(Writes)
           /\ \A e \in ToSet(DelByPrefix(b)) :
                 \/ \E n \in PrefixedIn(b) : e = WriteDelete(Place(b, n))
                 \/ e = WriteState(b, "DIRTY")
           /\ \A n \in PrefixedIn(b) : WriteDelete(Place(b, n)) \in ToSet(DelByPrefix(b))
           /\ PrefixedIn(b) # {} /\ info[b].state = "USED" =>
                 WriteState(b, "DIRTY") \in ToSet(DelByPrefix(b))
           /\ PrefixedIn(b) = {} => DelByPrefix(b) = <<>>
<1> DEFINE h == InOrder(PrefixedIn(b))
           s == KvItemDel(Place(b, Head(h)))
           d == [i \in 1..(Len(h) - 1) |-> WriteDelete(Place(b, h[i + 1]))]
<1>1. DelByPrefix(b) = IF h = <<>> THEN <<>> ELSE s \o d
  BY Zenon DEF DelByPrefix, PrefixedIn, Idx, Its
<1>2. PrefixedIn(b) \in SUBSET (1..Len(Its(b))) /\ Len(Its(b)) \in Nat
  BY FlashTypes DEF PrefixedIn, Idx, Its
<1>3. /\ h \in Seq(PrefixedIn(b)) /\ h \in [1..Len(h) -> PrefixedIn(b)]
      /\ \A x \in PrefixedIn(b) : \E i \in 1..Len(h) : h[i] = x
      /\ PrefixedIn(b) = {} => h = <<>>
      /\ PrefixedIn(b) # {} => h # <<>>
  <2> DEFINE S == PrefixedIn(b)
             n == Len(Its(b))
  <2>1. n \in Nat /\ S \in SUBSET (1..n)
    BY <1>2
  <2> HIDE DEF S, n
  <2>2. LET r == InOrder(S)
        IN  /\ r \in Seq(S) /\ Len(r) \in 0..n /\ r \in [1..Len(r) -> S]
            /\ \A i, j \in 1..Len(r) : r[i] = r[j] => i = j
            /\ \A x \in S : \E i \in 1..Len(r) : r[i] = x
            /\ S = {} => r = <<>>
            /\ S # {} => r # <<>>
    BY <2>1, InOrderSeq, Zenon
  <2> QED
    BY <2>2 DEF S
<1> HIDE DEF h
<1>4. CASE h = <<>>
  <2>1. PrefixedIn(b) = {} /\ DelByPrefix(b) = <<>> /\ <<>> \in Seq(Writes)
    BY <1>1, <1>3, <1>4
  <2> QED
    BY <2>1, ShortSets
<1>5. CASE h # <<>>
  <2>1. /\ Len(h) \in Nat \ {0} /\ Head(h) = h[1] /\ Head(h) \in PrefixedIn(b)
    BY <1>3, <1>5
  <2>2. \A i \in 1..Len(h) : h[i] \in PrefixedIn(b) /\ h[i] \in Nat \ {0}
    BY <1>2, <1>3
  <2>3. Head(h) \in Nat \ {0}
    BY <2>1, <2>2
  <2>4. /\ s \in Seq(Writes)
        /\ \A e : e \in ToSet(s) <=> \/ e = WriteDelete(Place(b, Head(h)))
                                     \/ info[b].state = "USED" /\ e = WriteState(b, "DIRTY")
    BY <2>3, KvItemDelSet
  <2>5. \A i \in 1..(Len(h) - 1) : i + 1 \in 1..Len(h) /\ WriteDelete(Place(b, h[i + 1])) \in Writes
    <3>1. \A i \in 1..(Len(h) - 1) : i + 1 \in 1..Len(h)
      BY <2>1
    <3> QED
      BY <2>2, <3>1, WriteTypes
  <2>6. d \in Seq(Writes) /\ Len(d) = Len(h) - 1
    BY <2>1, <2>5
  <2>7. \A e : e \in ToSet(d) <=> \E i \in 1..(Len(h) - 1) : e = WriteDelete(Place(b, h[i + 1]))
    BY <2>6 DEF ToSet
  <2> HIDE DEF s, d
  <2>8. DelByPrefix(b) = s \o d
    BY <1>1, <1>5
  <2>9. /\ DelByPrefix(b) \in Seq(Writes)
        /\ \A e : e \in ToSet(DelByPrefix(b)) <=> e \in ToSet(s) \/ e \in ToSet(d)
    BY <2>4, <2>6, <2>8, ConcatSet
  <2>10. \A e \in ToSet(DelByPrefix(b)) :
            \/ \E n \in PrefixedIn(b) : e = WriteDelete(Place(b, n))
            \/ e = WriteState(b, "DIRTY")
    <3>1. \A e \in ToSet(d) : \E n \in PrefixedIn(b) : e = WriteDelete(Place(b, n))
      BY <2>2, <2>5, <2>7
    <3> QED
      BY <2>1, <2>4, <2>9, <3>1
  <2>11. ASSUME NEW n \in PrefixedIn(b) PROVE WriteDelete(Place(b, n)) \in ToSet(DelByPrefix(b))
    <3>1. PICK i \in 1..Len(h) : h[i] = n
      BY <1>3
    <3>2. CASE i = 1
      BY <2>1, <2>4, <2>9, <3>1, <3>2
    <3>3. CASE i # 1
      <4>1. i - 1 \in 1..(Len(h) - 1) /\ (i - 1) + 1 = i
        BY <2>1, <3>3
      <4>2. WriteDelete(Place(b, h[(i - 1) + 1])) \in ToSet(d)
        BY <2>7, <4>1
      <4> QED
        BY <2>9, <3>1, <4>1, <4>2
    <3> QED
      BY <3>2, <3>3
  <2> QED
    BY <1>3, <1>5, <2>4, <2>9, <2>10, <2>11
<1> QED
  BY <1>4, <1>5

\* The list of a collection.
LEMMA CollectSeq ==
    ASSUME KvTypeOK, NEW o \in Blocks, NEW b \in Blocks
    PROVE  LET live == LiveIn(flash, o)
               r == Collect(o, b)
           IN  /\ r \in Seq(Writes) /\ Len(live) \in 0..Len(Its(o)) /\ Len(r) = Len(live) + 3
               /\ \A i \in 1..Len(live) : r[i] = WriteItem(b, Its(o)[live[i]])
               /\ r[Len(live) + 1] = Erase(o) /\ r[Len(live) + 2] = Header(o)
               /\ r[Len(live) + 3] = WriteState(b, "USED")
<1> DEFINE live == LiveIn(flash, o)
           S == {n \in Idx(o) : Its(o)[n].live}
           m == Len(live)
           c == [i \in 1..m |-> WriteItem(b, Its(o)[live[i]])]
           f == <<Erase(o), Header(o)>>
           u == <<WriteState(b, "USED")>>
<1>1. Collect(o, b) = (c \o f) \o u
  BY Zenon, WriteTypes DEF Collect, Its
<1>2. live = InOrder(S)
  BY Zenon DEF LiveIn, Its, Idx
<1>3. S \in SUBSET (1..Len(Its(o))) /\ Len(Its(o)) \in Nat
  BY FlashTypes DEF Idx, Its
<1>4. live \in Seq(S) /\ m \in 0..Len(Its(o))
  <2> HIDE DEF S
  <2> QED
    BY <1>2, <1>3, InOrderSeq
<1> HIDE DEF live
<1>5. \A i \in 1..m : live[i] \in Idx(o)
  BY <1>4
<1>6. \A i \in 1..m : WriteItem(b, Its(o)[live[i]]) \in Writes
  <2>1. \A i \in 1..m : Its(o)[live[i]] \in Items
    BY <1>5, FlashTypes
  <2> QED
    BY <2>1, WriteTypes
<1>7. m \in Nat
  BY <1>3, <1>4
<1> HIDE DEF m, S
<1>8. c \in Seq(Writes) /\ Len(c) = m /\ \A i \in 1..m : c[i] = WriteItem(b, Its(o)[live[i]])
  BY <1>6, <1>7
<1>9. /\ f \in Seq(Writes) /\ Len(f) = 2 /\ f[1] = Erase(o) /\ f[2] = Header(o)
      /\ u \in Seq(Writes) /\ Len(u) = 1 /\ u[1] = WriteState(b, "USED")
  BY WriteTypes
<1> HIDE DEF c, f, u
<1> DEFINE v == c \o f
<1>10. /\ v \in Seq(Writes) /\ Len(v) = m + 2
       /\ \A i \in 1..m + 2 : v[i] = IF i <= m THEN c[i] ELSE f[i - m]
  <2>1. c \in Seq(Writes) /\ f \in Seq(Writes) /\ Len(c) = m /\ Len(f) = 2
    BY <1>8, <1>9
  <2>2. /\ v \in Seq(Writes) /\ Len(v) = Len(c) + Len(f)
        /\ \A i \in 1..Len(c) + Len(f) : v[i] = IF i <= Len(c) THEN c[i] ELSE f[i - Len(c)]
    BY <2>1, ConcatProperties, Zenon
  <2> HIDE DEF v
  <2> QED
    BY <2>1, <2>2
<1>11. /\ \A i \in 1..m : v[i] = c[i]
       /\ v[m + 1] = f[1] /\ v[m + 2] = f[2]
  <2>1. /\ \A i \in 1..m : i \in 1..m + 2 /\ i <= m
        /\ m + 1 \in 1..m + 2 /\ ~(m + 1 <= m) /\ (m + 1) - m = 1
        /\ m + 2 \in 1..m + 2 /\ ~(m + 2 <= m) /\ (m + 2) - m = 2
    BY <1>7
  <2> HIDE DEF v
  <2> QED
    BY <1>10, <2>1
<1> DEFINE r == v \o u
<1> HIDE DEF v
<1>12. /\ r \in Seq(Writes) /\ Len(r) = m + 3
       /\ \A i \in 1..m + 3 : r[i] = IF i <= m + 2 THEN v[i] ELSE u[i - (m + 2)]
  <2>1. v \in Seq(Writes) /\ u \in Seq(Writes) /\ Len(v) = m + 2 /\ Len(u) = 1
    BY <1>9, <1>10
  <2>2. /\ r \in Seq(Writes) /\ Len(r) = Len(v) + Len(u)
        /\ \A i \in 1..Len(v) + Len(u) : r[i] = IF i <= Len(v) THEN v[i] ELSE u[i - Len(v)]
    BY <2>1, ConcatProperties, Zenon
  <2>3. Len(v) + Len(u) = m + 3
    BY <1>7, <2>1
  <2> HIDE DEF r
  <2> QED
    BY <2>1, <2>2, <2>3
<1>13. /\ \A i \in 1..m : r[i] = v[i]
       /\ r[m + 1] = v[m + 1] /\ r[m + 2] = v[m + 2] /\ r[m + 3] = u[1]
  <2>1. /\ \A i \in 1..m : i \in 1..m + 3 /\ i <= m + 2
        /\ m + 1 \in 1..m + 3 /\ m + 1 <= m + 2 /\ m + 2 \in 1..m + 3 /\ m + 2 <= m + 2
        /\ m + 3 \in 1..m + 3 /\ ~(m + 3 <= m + 2) /\ (m + 3) - (m + 2) = 1
    BY <1>7
  <2> HIDE DEF r
  <2> QED
    BY <1>12, <2>1
<1> HIDE DEF r
<1>14. Collect(o, b) = r
  BY <1>1 DEF r, v
<1> QED
  BY <1>4, <1>8, <1>9, <1>11, <1>12, <1>13, <1>14 DEF m, live

\* An element of a list is replaced.
LEMMA ReplaceSeq ==
    ASSUME NEW S, NEW s \in Seq(S), NEW n, NEW e \in S
    PROVE  [s EXCEPT ![n] = e] \in Seq(S)
<1>1. CASE n \in 1..Len(s)
  BY <1>1, ExceptSeq
<1>2. CASE n \notin 1..Len(s)
  <2>1. DOMAIN s = 1..Len(s) /\ s = [i \in 1..Len(s) |-> s[i]]
    OBVIOUS
  <2>2. [s EXCEPT ![n] = e] = s
    BY <1>2, <2>1
  <2> QED
    BY <2>2
<1> QED
  BY <1>1, <1>2

\* A task goes on, or several do.
LEMMA TaskTypes ==
    ASSUME task \in TaskType
    PROVE  /\ \A p \in Tasks : \A x \in {"idle", "waiter", "wait", "blocked", "set", "end"} :
                 Move(p, x) \in TaskType
           /\ \A p \in Tasks : [task EXCEPT ![p] = IdleTask] \in TaskType
           /\ \A B \in SUBSET Tasks :
                 [p \in Tasks |-> IF p \in B THEN [task[p] EXCEPT !.pc = "set"] ELSE task[p]]
                    \in TaskType
BY DEF TaskType, Move, IdleTask

\* A write keeps the types.
LEMMA WriteTypeOK ==
    ASSUME KvTypeOK, Write
    PROVE  KvTypeOK'
<1> DEFINE w == Head(todo)
<1>1. w \in Writes /\ w = Head(todo) /\ todo' \in Seq(Writes)
      /\ UNCHANGED <<gcVars, lock, task, boot, legal, lossy>>
  BY WriteRest
<1>2. /\ flash \in FlashType
      /\ info \in InfoType
      /\ write_pos \in [blk : Blocks, n : Nat] /\ clean_blk_nums \in Int
  BY DEF KvTypeOK
<1> HIDE DEF w
<1> DEFINE Ok == /\ flash' \in FlashType
                 /\ info' \in InfoType
                 /\ write_pos' \in [blk : Blocks, n : Nat] /\ clean_blk_nums' \in Int
<1>3. CASE w.do = "item"
  <2>1. w.blk \in Blocks /\ w.item \in Items
    BY <1>1, <1>3, WriteKinds
  <2>2. /\ flash' = [flash EXCEPT ![w.blk].items = Append(@, w.item)]
        /\ info' = [info EXCEPT ![w.blk].used = @ + 1]
        /\ write_pos' = [write_pos EXCEPT !.n = @ + 1]
        /\ clean_blk_nums' = clean_blk_nums
    BY <1>1, <1>3, WriteCases, Zenon
  <2>3. flash[w.blk].items \in Seq(Items) /\ info[w.blk].used + 1 \in Nat /\ write_pos.n + 1 \in Nat
    BY <1>2, <2>1 DEF FlashType, InfoType
  <2>4. Append(flash[w.blk].items, w.item) \in Seq(Items)
    BY <2>1, <2>3
  <2>5. Ok
    BY <1>2, <2>1, <2>2, <2>3, <2>4, ZenonT(60) DEF FlashType, InfoType
  <2> QED
    BY <1>1, <2>5 DEF KvTypeOK, gcVars
<1>4. CASE w.do = "delete"
  <2>1. w.at \in Places
    BY <1>1, <1>4, WriteKinds
  <2>2. /\ flash' = [flash EXCEPT ![w.at.blk].items[w.at.n] = Deleted]
        /\ UNCHANGED <<info, write_pos, clean_blk_nums>>
    BY <1>1, <1>4, WriteCases, Zenon
  <2>3. w.at.blk \in Blocks /\ flash[w.at.blk].items \in Seq(Items)
    BY <1>2, <2>1 DEF Places, FlashType, InfoType
  <2>4. Deleted \in Items
    BY DEF Deleted, Item, Items
  <2>5. [flash[w.at.blk].items EXCEPT ![w.at.n] = Deleted] \in Seq(Items)
    <3> DEFINE r == flash[w.at.blk].items
    <3>1. r \in Seq(Items)
      BY <2>3
    <3> HIDE DEF r
    <3>2. [r EXCEPT ![w.at.n] = Deleted] \in Seq(Items)
      BY <2>4, <3>1, ReplaceSeq
    <3> QED
      BY <3>2 DEF r
  <2>6. Ok
    BY <1>2, <2>2, <2>3, <2>5, ZenonT(60) DEF FlashType, InfoType
  <2> QED
    BY <1>1, <2>6 DEF KvTypeOK, gcVars
<1>5. CASE w.do = "state"
  <2>1. w.blk \in Blocks /\ w.state \in {"USED", "DIRTY"}
    BY <1>1, <1>5, WriteKinds
  <2>2. /\ flash' = [flash EXCEPT ![w.blk].state = w.state]
        /\ info' = [info EXCEPT ![w.blk].state = w.state]
        /\ clean_blk_nums' = clean_blk_nums - (IF w.state = "USED" THEN 1 ELSE 0)
        /\ write_pos' = write_pos
    BY <1>1, <1>5, WriteCases, Zenon
  <2>3. flash' \in FlashType
    BY <1>2, <2>1, <2>2 DEF FlashType
  <2>4. info' \in InfoType
    BY <1>2, <2>1, <2>2 DEF InfoType
  <2>5. Ok
    BY <1>2, <2>2, <2>3, <2>4
  <2> QED
    BY <1>1, <2>5 DEF KvTypeOK, gcVars
<1>6. CASE w.do = "erase"
  <2>1. w.blk \in Blocks
    BY <1>1, <1>6, WriteKinds
  <2>2. /\ flash' = [flash EXCEPT ![w.blk] = [state |-> "NONE", items |-> <<>>]]
        /\ UNCHANGED <<info, write_pos, clean_blk_nums>>
    BY <1>1, <1>6, WriteCases, Zenon
  <2>3. <<>> \in Seq(Items)
    OBVIOUS
  <2>4. Ok
    BY <1>2, <2>1, <2>2, <2>3 DEF FlashType, InfoType
  <2> QED
    BY <1>1, <2>4 DEF KvTypeOK, gcVars
<1>7. CASE w.do = "header"
  <2>1. w.blk \in Blocks
    BY <1>1, <1>7, WriteKinds
  <2>2. /\ flash' = [flash EXCEPT ![w.blk].state = "CLEAN"]
        /\ info' = [info EXCEPT ![w.blk] = [state |-> "CLEAN", used |-> 0]]
        /\ clean_blk_nums' = clean_blk_nums + 1
        /\ write_pos' = write_pos
    BY <1>1, <1>7, WriteCases, Zenon
  <2>3. flash' \in FlashType
    BY <1>2, <2>1, <2>2 DEF FlashType
  <2>4. info' \in InfoType
    BY <1>2, <2>1, <2>2 DEF InfoType
  <2>5. Ok
    BY <1>2, <2>2, <2>3, <2>4
  <2> QED
    BY <1>1, <2>5 DEF KvTypeOK, gcVars
<1> QED
  BY <1>1, <1>3, <1>4, <1>5, <1>6, <1>7, WriteKinds

\* A new item.
LEMMA ItemType ==
    ASSUME NEW k \in Keys, NEW v \in Vals, NEW o \in Places \cup {NULL}
    PROVE  LET it == Item(k, v, o)
           IN  /\ it \in Items /\ it.key = k /\ it.val = v /\ it.live /\ it.ok /\ it.origin = o
BY DEF Item, Items

\* The steps of kv_item_set keep the types.
LEMMA SetTypeOK ==
    ASSUME KvTypeOK, Holders, NEW p \in Tasks,
           \/ \E k \in Keys, v \in Vals : SetCheck(p, k, v)
           \/ SetWaiter(p) \/ SetWait(p) \/ SetLocked(p)
    PROVE  KvTypeOK'
<1>1. CASE \E k \in Keys, v \in Vals : SetCheck(p, k, v)
  <2>1. task' \in TaskType
    <3>1. task \in TaskType
      BY DEF KvTypeOK
    <3> QED
      BY <1>1, <3>1 DEF SetCheck, TaskType
  <2>2. UNCHANGED <<flashVars, gcVars, lock, todo, boot, legal, lossy>>
    BY <1>1 DEF SetCheck
  <2> QED
    BY <2>1, <2>2 DEF KvTypeOK, flashVars, gcVars
<1>2. CASE SetWaiter(p)
  BY <1>2, TaskTypes DEF KvTypeOK, SetWaiter, flashVars
<1>3. CASE SetWait(p)
  BY <1>3, TaskTypes DEF KvTypeOK, SetWait, flashVars
<1>4. CASE SetLocked(p)
  <2> DEFINE k == task[p].key
             v == task[p].val
             b == write_pos.blk
             old == Search(k)
  <2>1. k \in Keys /\ v \in Vals /\ b \in Blocks
    BY <1>4 DEF SetLocked, Holders, KvTypeOK
  <2>2. /\ task' \in TaskType
        /\ gc_trigger' \in {0, 1} /\ gc_waiter' \in Nat /\ gc' \in {"none", "lock", "run"}
        /\ lock' \in Tasks \cup {GC, BOOT, NULL}
        /\ UNCHANGED <<gc_sem, posts, flashVars, boot, lossy>>
    <3>1. \/ task' = Move(p, "end") \/ task' = [task EXCEPT ![p] = IdleTask]
      BY <1>4 DEF SetLocked
    <3>2. task' \in TaskType
      BY <3>1, TaskTypes DEF KvTypeOK
    <3>3. lock' = p \/ lock' = lock
      BY <1>4 DEF SetLocked
    <3>4. KvTriggerGc \/ UNCHANGED <<gc_trigger, gc_waiter, gc>>
      BY <1>4 DEF SetLocked, gcVars
    <3>5. UNCHANGED <<gc_sem, posts, flashVars, boot, lossy>>
      BY <1>4 DEF SetLocked, gcVars
    <3> QED
      BY <3>2, <3>3, <3>4, <3>5 DEF KvTypeOK, KvTriggerGc
  <2>3. legal' \in LegalType
    <3>1. legal' = legal \/ legal' = [legal EXCEPT ![k] = @ \cup {v}]
      BY <1>4 DEF SetLocked
    <3> QED
      <4> HIDE DEF k, v
      <4> QED
        BY <2>1, <3>1 DEF KvTypeOK, LegalType
  <2>4. todo' \in Seq(Writes)
    <3>1. \/ todo' = todo
          \/ old = NULL /\ todo' = <<WriteItem(b, Item(k, v, NULL))>>
          \/ old # NULL /\ todo' = Update(b, Item(k, v, old), old)
      BY <1>4 DEF SetLocked
    <3>2. CASE todo' = todo
      BY <3>2 DEF KvTypeOK
    <3>3. CASE old = NULL /\ todo' = <<WriteItem(b, Item(k, v, NULL))>>
      <4>1. WriteItem(b, Item(k, v, NULL)) \in Writes
        BY <2>1, ItemType, WriteTypes
      <4> QED
        BY <3>3, <4>1
    <3>4. CASE old # NULL /\ todo' = Update(b, Item(k, v, old), old)
      <4> HIDE DEF k, v, b
      <4>1. old \in Places /\ \E c \in Blocks : \E i \in Idx(c) : old = Place(c, i)
        BY <3>4, SearchPlace
      <4>2. PICK c \in Blocks, i \in Nat \ {0} : old = Place(c, i)
        BY <4>1 DEF Idx
      <4>3. Item(k, v, old) \in Items
        BY <2>1, <4>1, ItemType
      <4> HIDE DEF old
      <4>4. Update(b, Item(k, v, old), Place(c, i)) \in Seq(Writes)
        BY <2>1, <4>2, <4>3, UpdateSeq
      <4> QED
        BY <3>4, <4>2, <4>4
    <3> QED
      BY <3>1, <3>2, <3>3, <3>4
  <2> QED
    BY <2>2, <2>3, <2>4 DEF KvTypeOK, flashVars
<1> QED
  BY <1>1, <1>2, <1>3, <1>4

\* The other steps of the calls keep the types.
LEMMA CallTypeOK ==
    ASSUME KvTypeOK, NEW p \in Tasks,
           (\E k \in Keys : Delete(p, k)) \/ DeleteByPrefix(p) \/ CallEnd(p)
    PROVE  KvTypeOK'
<1>1. ASSUME NEW k \in Keys, Delete(p, k) PROVE KvTypeOK'
  <2>1. todo' \in Seq(Writes)
    <3>1. PICK c \in Blocks, i \in Nat \ {0} : Search(k) = Place(c, i)
      BY <1>1, SearchPlace DEF Delete, Idx
    <3>2. todo' = KvItemDel(Place(c, i))
      BY <1>1, <3>1 DEF Delete
    <3> QED
      BY <3>2, KvItemDelSet
  <2>2. legal' \in LegalType
    <3>1. legal' = [legal EXCEPT ![k] = @ \cup {NULL}] /\ legal \in LegalType
      BY <1>1 DEF KvTypeOK, Delete
    <3> QED
      BY <3>1 DEF LegalType
  <2>3. task' \in TaskType
    <3>1. task' = [task EXCEPT ![p] = [pc |-> "end", key |-> k, val |-> NULL]] /\ task \in TaskType
      BY <1>1 DEF KvTypeOK, Delete
    <3> QED
      BY <3>1 DEF TaskType
  <2>4. lock' = p /\ UNCHANGED <<flashVars, gcVars, boot, lossy>>
    BY <1>1 DEF Delete
  <2> QED
    BY <2>1, <2>2, <2>3, <2>4 DEF KvTypeOK, flashVars, gcVars
<1>2. CASE DeleteByPrefix(p)
  <2>1. todo' \in Seq(Writes)
    <3>1. DelByPrefix(0) \in Seq(Writes) /\ DelByPrefix(1) \in Seq(Writes)
      BY DelByPrefixSet, TwoBlocks
    <3>2. todo' = DelByPrefix(0) \o DelByPrefix(1)
      BY <1>2 DEF DeleteByPrefix
    <3> QED
      BY <3>1, <3>2, ConcatProperties
  <2>2. legal' \in LegalType
    <3>1. /\ legal' = [k \in Keys |-> IF k \in Prefixed THEN legal[k] \cup {NULL} ELSE legal[k]]
          /\ legal \in LegalType
      BY <1>2 DEF KvTypeOK, DeleteByPrefix
    <3> QED
      BY <3>1 DEF LegalType
  <2>3. task' \in TaskType
    <3>1. task' = [task EXCEPT ![p] = [pc |-> "end", key |-> NULL, val |-> NULL]] /\ task \in TaskType
      BY <1>2 DEF KvTypeOK, DeleteByPrefix
    <3> QED
      BY <3>1 DEF TaskType
  <2>4. lock' = p /\ UNCHANGED <<flashVars, gcVars, boot, lossy>>
    BY <1>2 DEF DeleteByPrefix
  <2> QED
    BY <2>1, <2>2, <2>3, <2>4 DEF KvTypeOK, flashVars, gcVars
<1>3. CASE CallEnd(p)
  <2>1. legal' \in LegalType
    <3>1. /\ legal' = [k \in Keys |->
                        IF k = task[p].key \/ (task[p].key = NULL /\ k \in Prefixed)
                        THEN {task[p].val} ELSE legal[k]]
          /\ legal \in LegalType /\ task[p].val \in Vals \cup {NULL}
      BY <1>3 DEF KvTypeOK, CallEnd, TaskType
    <3> QED
      BY <3>1 DEF LegalType
  <2>2. task' \in TaskType
    BY <1>3, TaskTypes DEF KvTypeOK, CallEnd
  <2>3. lock' = NULL /\ UNCHANGED <<flashVars, gcVars, todo, boot, lossy>>
    BY <1>3 DEF CallEnd
  <2> QED
    BY <2>1, <2>2, <2>3 DEF KvTypeOK, flashVars, gcVars
<1> QED
  BY <1>1, <1>2, <1>3

\* The steps of the collection keep the types.
LEMMA GcTypeOK ==
    ASSUME KvTypeOK, GcStart \/ GcEnd \/ GcPost
    PROVE  KvTypeOK'
<1>1. CASE GcStart
  <2> DEFINE clean == {b \in Blocks : info[b].state = "CLEAN"}
             after(d) == (write_pos.blk + d) % BlockNums
             dirty == {d \in 1..BlockNums : info[after(d)].state = "DIRTY"}
  <2>1. /\ gc' = "run" /\ lock' = GC
        /\ UNCHANGED <<flash, info, clean_blk_nums, gc_trigger, gc_waiter, gc_sem, posts, task,
                       boot, legal, lossy>>
    BY <1>1, SMTT(30) DEF GcStart
  <2>2. \/ UNCHANGED <<write_pos, todo>>
        \/ /\ clean # {} /\ write_pos' = Place(Min(clean), 0)
           /\ todo' = Collect(after(Min(dirty)), Min(clean))
    BY <1>1 DEF GcStart
  <2>3. CASE UNCHANGED <<write_pos, todo>>
    BY <2>1, <2>3 DEF KvTypeOK
  <2>4. CASE /\ clean # {} /\ dirty # {} /\ write_pos' = Place(Min(clean), 0)
             /\ todo' = Collect(after(Min(dirty)), Min(clean))
    <3>1. clean \subseteq Nat /\ dirty \subseteq Nat
      BY DEF Blocks, BlockNums
    <3> HIDE DEF dirty
    <3>2. Min(clean) \in clean
      <4> HIDE DEF clean
      <4> QED
        BY <2>4, <3>1, MinNat
    <3>3. Min(clean) \in Blocks
      BY <3>2
    <3>4. Min(dirty) \in dirty
      BY <2>4, <3>1, MinNat
    <3>5. after(Min(dirty)) \in Blocks
      <4>1. write_pos.blk \in {0, 1} /\ \A d \in dirty : d \in {1, 2}
        BY TwoBlocks DEF KvTypeOK, dirty, BlockNums
      <4>2. \A d \in {1, 2} : (write_pos.blk + d) % 2 \in {0, 1}
        BY <4>1
      <4> QED
        BY <3>4, <4>1, <4>2, TwoBlocks DEF BlockNums
    <3>6. todo' \in Seq(Writes)
      <4> HIDE DEF after, clean
      <4> QED
        BY <2>4, <3>3, <3>5, CollectSeq
    <3>7. write_pos' \in [blk : Blocks, n : Nat]
      BY <2>4, <3>3 DEF Place
    <3> QED
      BY <2>1, <3>6, <3>7 DEF KvTypeOK
  <2> QED
    BY <1>1, <2>3, <2>4 DEF GcStart
<1>2. CASE GcEnd
  BY <1>2 DEF KvTypeOK, GcEnd, flashVars
<1>3. CASE GcPost
  <2>1. task' \in TaskType
    <3>1. {p \in Tasks : task[p].pc = "blocked"} \in SUBSET Tasks /\ task \in TaskType
      BY DEF KvTypeOK
    <3> QED
      BY <1>3, <3>1, TaskTypes, Zenon DEF GcPost
  <2>2. gc_sem' \in Nat /\ posts' \in Nat
    BY <1>3 DEF KvTypeOK, GcPost
  <2> QED
    BY <1>3, <2>1, <2>2 DEF KvTypeOK, GcPost, flashVars
<1> QED
  BY <1>1, <1>2, <1>3, SMTT(30)

-----------------------------------------------------------------------------
(* Types at a power failure and in the recovery.                           *)

\* The power failure keeps the types.
LEMMA CrashTypeOK ==
    ASSUME KvTypeOK, Crash
    PROVE  KvTypeOK'
<1>1. flash' \in FlashType
  <2>1. flash \in FlashType /\ todo \in Seq(Writes)
    BY DEF KvTypeOK
  <2>2. CASE todo # <<>> /\ Head(todo).do = "item"
             /\ flash' = [flash EXCEPT ![Head(todo).blk].items =
                             Append(@, [Head(todo).item EXCEPT !.ok = FALSE])]
    <3> DEFINE w == Head(todo)
               it == [w.item EXCEPT !.ok = FALSE]
    <3>1. w \in Writes
      BY <2>1, <2>2
    <3>2. flash' = [flash EXCEPT ![w.blk].items = Append(@, it)]
      BY <2>2
    <3>3. w.blk \in Blocks /\ w.item \in Items
      BY <2>2, <3>1, WriteKinds
    <3>4. it \in Items
      BY <3>3 DEF Items
    <3> HIDE DEF w, it
    <3>5. Append(flash[w.blk].items, it) \in Seq(Items)
      BY <2>1, <3>3, <3>4 DEF FlashType
    <3> QED
      BY <2>1, <3>2, <3>3, <3>5 DEF FlashType
  <2> QED
    BY <2>1, <2>2 DEF Crash
<1>2. /\ info' \in InfoType
      /\ write_pos' \in [blk : Blocks, n : Nat] /\ clean_blk_nums' \in Int
      /\ gc_trigger' \in {0, 1} /\ gc_waiter' \in Nat /\ gc_sem' \in Nat /\ posts' \in Nat
      /\ gc' \in {"none", "lock", "run"}
      /\ lock' \in Tasks \cup {GC, BOOT, NULL}
      /\ todo' \in Seq(Writes)
      /\ task' \in TaskType
  BY KvAssumption, SMTT(30) DEF Crash, Fresh, InfoType, TaskType, IdleTask, Place, Blocks, BlockNums
<1>3. /\ boot' \in [stage : {"blocks", "items", "mark", "up"}, blk : 0..2, n : Nat,
                    unclean : Seq(Blocks)]
      /\ lossy' \in BOOLEAN /\ legal' \in LegalType
  BY SMTT(30) DEF Crash, Off, KvTypeOK, Window
<1> QED
  BY <1>1, <1>2, <1>3 DEF KvTypeOK

\* Where kv_init is, after a change of some of its parts.
LEMMA BootTypes ==
    ASSUME KvTypeOK
    PROVE  LET BootType == [stage : {"blocks", "items", "mark", "up"}, blk : 0..2, n : Nat,
                            unclean : Seq(Blocks)]
           IN  /\ boot \in BootType
               /\ boot.stage \in {"blocks", "items", "mark", "up"} /\ boot.blk \in 0..2
               /\ boot.n \in Nat /\ boot.unclean \in Seq(Blocks)
               /\ \A c \in 0..2 : [boot EXCEPT !.blk = c] \in BootType
               /\ \A m \in Nat : [boot EXCEPT !.n = m] \in BootType
               /\ \A m \in Nat : [boot EXCEPT !.stage = "items", !.n = m] \in BootType
               /\ [boot EXCEPT !.stage = "mark"] \in BootType
               /\ \A c \in 0..2 : [boot EXCEPT !.stage = "blocks", !.blk = c] \in BootType
               /\ \A u \in Seq(Blocks) : [boot EXCEPT !.unclean = u] \in BootType
               /\ \A c \in 0..2, u \in Seq(Blocks) :
                     [boot EXCEPT !.stage = "blocks", !.blk = c, !.unclean = u] \in BootType
<1> DEFINE S == Seq(Blocks)
<1>1. boot \in [stage : {"blocks", "items", "mark", "up"}, blk : 0..2, n : Nat, unclean : S]
  BY DEF KvTypeOK
<1> HIDE DEF S
<1>2. /\ boot.stage \in {"blocks", "items", "mark", "up"} /\ boot.blk \in 0..2
      /\ boot.n \in Nat /\ boot.unclean \in S
      /\ boot = [stage |-> boot.stage, blk |-> boot.blk, n |-> boot.n, unclean |-> boot.unclean]
  BY <1>1
<1>3. /\ \A c \in 0..2 : [boot EXCEPT !.blk = c] \in
            [stage : {"blocks", "items", "mark", "up"}, blk : 0..2, n : Nat, unclean : S]
      /\ \A c \in 0..2 : [boot EXCEPT !.stage = "blocks", !.blk = c] \in
            [stage : {"blocks", "items", "mark", "up"}, blk : 0..2, n : Nat, unclean : S]
  BY <1>1
<1>4. /\ \A m \in Nat : [boot EXCEPT !.n = m] \in
            [stage : {"blocks", "items", "mark", "up"}, blk : 0..2, n : Nat, unclean : S]
      /\ \A m \in Nat : [boot EXCEPT !.stage = "items", !.n = m] \in
            [stage : {"blocks", "items", "mark", "up"}, blk : 0..2, n : Nat, unclean : S]
      /\ [boot EXCEPT !.stage = "mark"] \in
            [stage : {"blocks", "items", "mark", "up"}, blk : 0..2, n : Nat, unclean : S]
  BY <1>1
<1>5. \A u \in S : [boot EXCEPT !.unclean = u] \in
         [stage : {"blocks", "items", "mark", "up"}, blk : 0..2, n : Nat, unclean : S]
  BY <1>1
<1>6. \A c \in 0..2, u \in S : [boot EXCEPT !.stage = "blocks", !.blk = c, !.unclean = u] \in
         [stage : {"blocks", "items", "mark", "up"}, blk : 0..2, n : Nat, unclean : S]
  BY <1>1
<1> QED
  BY <1>1, <1>2, <1>3, <1>4, <1>5, <1>6 DEF S

\* The initial state has the types.
LEMMA InitTypeOK == Init => KvTypeOK
<1> SUFFICES ASSUME Init PROVE KvTypeOK
  OBVIOUS
<1>1. flash \in FlashType
  BY DEF Init, FlashType
<1>2. info \in InfoType
  BY KvAssumption DEF Init, InfoType
<1>3. task \in TaskType
  BY DEF Init, TaskType, IdleTask
<1>4. legal \in LegalType
  BY DEF Init, LegalType
<1> DEFINE BootType == [stage : {"blocks", "items", "mark", "up"}, blk : 0..2, n : Nat,
                        unclean : Seq(Blocks)]
<1>5. boot \in BootType
  BY DEF Init, Off
<1> HIDE DEF BootType
<1> QED
  <2>1. todo \in Seq(Writes) /\ write_pos \in [blk : Blocks, n : Nat]
    BY TwoBlocks DEF Init, Place
  <2>2. /\ clean_blk_nums \in Int
        /\ gc_trigger \in {0, 1} /\ gc_waiter \in Nat /\ gc_sem \in Nat /\ posts \in Nat
        /\ gc \in {"none", "lock", "run"}
        /\ lock \in Tasks \cup {GC, BOOT, NULL}
    BY DEF Init
  <2>3. lossy \in BOOLEAN
    BY Zenon DEF Init
  <2> QED
    BY <1>1, <1>2, <1>3, <1>4, <1>5, <2>1, <2>2, <2>3, Zenon DEF KvTypeOK, BootType

\* The steps of kv_init keep the types.
LEMMA BootTypeOK ==
    ASSUME KvTypeOK, BootStage, BootInfo,
           BootBlock \/ BootItem \/ BootBlockEnd \/ BootUnclean \/ BootMark
    PROVE  KvTypeOK'
<1> DEFINE S == Seq(Blocks)
           BootType == [stage : {"blocks", "items", "mark", "up"}, blk : 0..2, n : Nat, unclean : S]
<1>1. /\ boot \in BootType /\ flash \in FlashType /\ info \in InfoType
      /\ clean_blk_nums \in Int
  BY DEF KvTypeOK
<1> HIDE DEF S
<1>2. \A b \in Blocks : Format(b) \in Seq(Writes)
  <2>1. TAKE b \in Blocks
  <2>2. Erase(b) \in Writes /\ Header(b) \in Writes /\ Format(b) = <<Erase(b), Header(b)>>
    BY WriteTypes
  <2> QED
    BY <2>2
<1>3. \A b \in Blocks, s \in {"USED", "DIRTY"} : <<WriteState(b, s)>> \in Seq(Writes)
  <2>1. TAKE b \in Blocks, s \in {"USED", "DIRTY"}
  <2>2. WriteState(b, s) \in Writes
    BY WriteTypes
  <2> QED
    BY <2>2
<1>4. CASE BootBlock
  <2> DEFINE b == boot.blk
  <2>1. b \in Blocks /\ b + 1 \in 0..2
    BY <1>4, TwoBlocks DEF BootBlock
  <2>2. todo' \in Seq(Writes)
    BY <1>2, <1>4, <2>1 DEF BootBlock, KvTypeOK
  <2>3. info' \in InfoType
    <3>1. \/ info' = info
          \/ flash[b].state # "NONE" /\ info' = [info EXCEPT ![b].state = flash[b].state]
      BY <1>4 DEF BootBlock
    <3>2. flash[b].state \in {"NONE", "CLEAN", "USED", "DIRTY"}
      BY <2>1, FlashTypes
    <3> HIDE DEF b
    <3> QED
      BY <1>1, <2>1, <3>1, <3>2 DEF InfoType
  <2>4. boot' \in BootType
    <3>1. \/ boot' = [boot EXCEPT !.blk = b + 1]
          \/ boot' = [boot EXCEPT !.stage = "items", !.n = 1]
      BY <1>4 DEF BootBlock
    <3> HIDE DEF b
    <3> QED
      BY <2>1, <3>1, BootTypes, ZenonT(60) DEF S
  <2> QED
    BY <1>4, <2>2, <2>3, <2>4 DEF BootBlock, KvTypeOK, gcVars, S
<1>5. CASE BootItem
  <2>1. boot' = [boot EXCEPT !.n = @ + 1]
    BY <1>5 DEF BootItem
  <2>2. boot' \in BootType
    BY <1>1, <2>1
  <2> DEFINE b == boot.blk
             n == boot.n
             it == Its(b)[n]
  <2>3. b \in Blocks /\ n \in Idx(b) /\ n \in Nat \ {0} /\ it \in Items
        /\ UNCHANGED <<flashVars, gcVars, lock, task, legal, lossy>>
        /\ todo' = IF it.live THEN Recover(Place(b, n), it)
                   ELSE IF info[b].state = "USED" THEN <<WriteState(b, "DIRTY")>>
                   ELSE <<>>
    <3>1. b \in Blocks
      BY <1>5 DEF BootStage, BootItem
    <3>2. n \in Idx(b) /\ Place(b, n).blk = b /\ At(flash, Place(b, n)) = it
      BY <1>5 DEF BootItem, Holds, Place, At, Its, Idx
    <3>3. it \in Items
      BY <3>1, <3>2, FlashTypes
    <3>4. n \in Nat \ {0}
      BY <3>2 DEF Idx
    <3>5. todo' = IF At(flash, Place(b, n)).live THEN Recover(Place(b, n), At(flash, Place(b, n)))
                  ELSE IF info[Place(b, n).blk].state = "USED"
                       THEN <<WriteState(Place(b, n).blk, "DIRTY")>>
                  ELSE <<>>
      BY <1>5 DEF BootItem
    <3>6. UNCHANGED <<flashVars, gcVars, lock, task, legal, lossy>>
      BY <1>5 DEF BootItem
    <3> HIDE DEF b, n, it
    <3> QED
      BY <3>1, <3>2, <3>3, <3>4, <3>5, <3>6
  <2> HIDE DEF b, n, it
  <2>4. \A c \in Blocks : \A i \in Nat \ {0} : KvItemDel(Place(c, i)) \in Seq(Writes)
    BY KvItemDelSet
  <2>5. Recover(Place(b, n), it) \in {<<>>, KvItemDel(Place(b, n)), KvItemDel(it.origin)}
    BY DEF Recover, Holds
  <2>6. it.origin # NULL => KvItemDel(it.origin) \in Seq(Writes)
    <3>1. SUFFICES ASSUME it.origin # NULL PROVE KvItemDel(it.origin) \in Seq(Writes)
      OBVIOUS
    <3>2. it.origin \in Places
      BY <2>3, <3>1 DEF Items
    <3>3. it.origin = Place(it.origin.blk, it.origin.n) /\ it.origin.blk \in Blocks
          /\ it.origin.n \in Nat \ {0}
      BY <3>2 DEF Places, Place
    <3> QED
      BY <2>4, <3>3
  <2>7. todo' \in Seq(Writes)
    <3>1. Recover(Place(b, n), it) \in Seq(Writes)
      <4>1. it.origin = NULL =>
                Recover(Place(b, n), it) \in {<<>>, KvItemDel(Place(b, n))}
        BY DEF Recover, Holds
      <4>2. KvItemDel(Place(b, n)) \in Seq(Writes) /\ <<>> \in Seq(Writes)
        BY <2>3, <2>4
      <4> QED
        BY <2>5, <2>6, <4>1, <4>2
    <3> QED
      BY <1>3, <2>3, <3>1
  <2> QED
    BY <2>2, <2>3, <2>7 DEF KvTypeOK, flashVars, gcVars, S
<1>6. CASE BootBlockEnd
  <2> DEFINE b == boot.blk
  <2>1. b \in Blocks /\ b + 1 \in 0..2
    BY <1>6, TwoBlocks DEF BootBlockEnd, BootStage
  <2>2. info' \in InfoType
    <3>1. info' = [info EXCEPT ![b].used = Len(flash[b].items)] /\ Len(flash[b].items) \in Nat
      BY <1>6, <2>1, FlashTypes DEF BootBlockEnd, Its
    <3> HIDE DEF b
    <3> QED
      BY <1>1, <2>1, <3>1 DEF InfoType
  <2>3. boot' \in BootType
    <3>1. \/ boot' = [boot EXCEPT !.stage = "blocks", !.blk = b + 1,
                                  !.unclean = Append(boot.unclean, b)]
          \/ boot' = [boot EXCEPT !.stage = "blocks", !.blk = b + 1]
      BY <1>6 DEF BootBlockEnd
    <3>a. boot.unclean \in Seq(Blocks)
      BY BootTypes
    <3>2. Append(boot.unclean, b) \in Seq(Blocks)
      BY <2>1, <3>a, SMTT(30)
    <3> DEFINE u == Append(boot.unclean, b)
    <3>3. \A c \in 0..2, r \in Seq(Blocks) :
             [boot EXCEPT !.stage = "blocks", !.blk = c, !.unclean = r] \in
                [stage : {"blocks", "items", "mark", "up"}, blk : 0..2, n : Nat,
                 unclean : Seq(Blocks)]
      BY BootTypes
    <3>4. u \in Seq(Blocks) /\ \/ boot' = [boot EXCEPT !.stage = "blocks", !.blk = b + 1, !.unclean = u]
                               \/ boot' = [boot EXCEPT !.stage = "blocks", !.blk = b + 1]
      BY <3>1, <3>2
    <3> HIDE DEF b, u
    <3> QED
      <4>1. CASE boot' = [boot EXCEPT !.stage = "blocks", !.blk = b + 1, !.unclean = u]
        BY <2>1, <3>3, <3>4, <4>1 DEF S
      <4>2. CASE boot' = [boot EXCEPT !.stage = "blocks", !.blk = b + 1]
        BY <2>1, <4>2, BootTypes, ZenonT(60) DEF S
      <4> QED
        BY <3>4, <4>1, <4>2
  <2>4. clean_blk_nums' \in Int /\ UNCHANGED <<flash, write_pos, gcVars, lock, todo, task, legal, lossy>>
    BY <1>1, <1>6 DEF BootBlockEnd
  <2> QED
    BY <2>2, <2>3, <2>4 DEF KvTypeOK, gcVars, S
<1>7. CASE BootUnclean
  <2>1. PICK b \in Blocks : boot.unclean = <<b>>
    BY <1>7 DEF BootUnclean, BootInfo
  <2>2. Last(boot.unclean) = b /\ Front(boot.unclean) = <<>>
    BY <2>1 DEF Last, Front
  <2>3. todo' \in Seq(Writes)
    BY <1>2, <1>3, <1>7, <2>2 DEF BootUnclean, Unclean
  <2>4. boot' = [boot EXCEPT !.unclean = <<>>]
    BY <1>7, <2>2, SMTT(30) DEF BootUnclean
  <2>5. boot' \in BootType
    <3>1. <<>> \in Seq(Blocks)
      OBVIOUS
    <3> QED
      BY <2>4, <3>1, BootTypes DEF S
  <2> QED
    BY <1>7, <2>3, <2>5 DEF BootUnclean, KvTypeOK, flashVars, gcVars, S
<1>8. CASE BootMark
  <2>1. todo' \in Seq(Writes)
    BY <1>2, <1>3, <1>8, TwoBlocks DEF BootMark
  <2>2. boot' \in BootType
    BY <1>1, <1>8 DEF BootMark
  <2> QED
    BY <1>8, <2>1, <2>2 DEF BootMark, KvTypeOK, flashVars, gcVars, S
<1> QED
  BY <1>4, <1>5, <1>6, <1>7, <1>8

-----------------------------------------------------------------------------
(* Who holds the lock.                                                     *)

\* The holders of the lock differ.
LEMMA HoldersDiffer ==
    /\ GC # BOOT /\ NULL # GC /\ NULL # BOOT
    /\ \A p \in Tasks : p # NULL /\ p # GC /\ p # BOOT
    /\ NULL \notin Keys /\ NULL \notin Vals /\ NULL \notin Places
    /\ Prefixed \subseteq Keys /\ Slots \in Nat \ {0}
<1>1. Places \subseteq [blk : Blocks, n : Nat]
  BY DEF Places
<1> QED
  BY <1>1, KvAssumption DEF GC, BOOT

\* A task that moves keeps its key and value, the others stay.
LEMMA TaskMoves ==
    ASSUME task \in TaskType, NEW p \in Tasks
    PROVE  /\ \A x : /\ Move(p, x)[p].pc = x
                     /\ Move(p, x)[p].key = task[p].key /\ Move(p, x)[p].val = task[p].val
                     /\ \A q \in Tasks : q # p => Move(p, x)[q] = task[q]
           /\ \A r : task' = [task EXCEPT ![p] = r] =>
                       task'[p] = r /\ \A q \in Tasks : q # p => task'[q] = task[q]
BY DEF TaskType, Move

\* The steps of kv_item_set before the lock move only a task that has no lock.
LEMMA SetHolders ==
    ASSUME KvTypeOK, Holders, NEW p \in Tasks,
           \/ \E k \in Keys, v \in Vals : SetCheck(p, k, v)
           \/ SetWaiter(p) \/ SetWait(p)
    PROVE  Holders' /\ Job' = Job /\ UNCHANGED <<flashVars, lock, todo, legal, lossy, boot>>
<1>1. /\ task \in TaskType
      /\ UNCHANGED <<flashVars, gc, lock, todo, legal, lossy, boot>>
  BY DEF SetCheck, SetWaiter, SetWait, KvTypeOK, gcVars
<1>2. /\ task[p].pc \in {"idle", "waiter", "wait"}
      /\ task'[p].pc \in {"waiter", "wait", "blocked", "set"}
      /\ task'[p].key \in Keys /\ task'[p].val \in Vals
      /\ \A q \in Tasks : q # p => task'[q] = task[q]
  <2>1. CASE \E k \in Keys, v \in Vals : SetCheck(p, k, v)
    <3>1. PICK k \in Keys, v \in Vals : SetCheck(p, k, v)
      BY <2>1
    <3>2. PICK x \in {"waiter", "set"} : task' = [task EXCEPT ![p] = [pc |-> x, key |-> k, val |-> v]]
      BY <3>1 DEF SetCheck
    <3>3. task'[p] = [pc |-> x, key |-> k, val |-> v] /\ \A q \in Tasks : q # p => task'[q] = task[q]
      BY <1>1, <3>2 DEF TaskType
    <3> QED
      BY <3>1, <3>3 DEF SetCheck
  <2>2. CASE SetWaiter(p)
    <3>1. task[p].pc = "waiter" /\ task' = Move(p, "wait")
      BY <2>2 DEF SetWaiter
    <3> QED
      BY <1>1, <3>1, TaskMoves DEF Holders
  <2>3. CASE SetWait(p)
    <3>1. task[p].pc = "wait" /\ (task' = Move(p, "set") \/ task' = Move(p, "blocked"))
      BY <2>3 DEF SetWait
    <3> QED
      BY <1>1, <3>1, TaskMoves DEF Holders
  <2> QED
    BY <2>1, <2>2, <2>3
<1>3. lock # p
  BY <1>2 DEF Holders
<1>4. Holders'
  BY <1>1, <1>2, <1>3 DEF Holders, Up
<1>5. Job' = Job
  BY <1>1, <1>2, <1>3 DEF Job
<1> QED
  BY <1>1, <1>4, <1>5

\* A call takes the lock, or finds no space and has to start anew.
LEMMA CallHolders ==
    ASSUME KvTypeOK, Holders, NEW p \in Tasks, lock = NULL,
           \/ SetLocked(p) \/ (\E k \in Keys : Delete(p, k)) \/ DeleteByPrefix(p)
    PROVE  Holders'
<1>1. task \in TaskType /\ boot' = boot /\ gc # "run" /\ Up /\ todo = <<>>
      /\ \A q \in Tasks : task[q].pc # "end"
  BY HoldersDiffer DEF SetLocked, Delete, DeleteByPrefix, KvTypeOK, Holders
<1>2. gc' # "run"
  BY <1>1 DEF SetLocked, Delete, DeleteByPrefix, gcVars, KvTriggerGc
<1>3. /\ \A q \in Tasks : q # p => task'[q] = task[q]
      /\ \/ lock' = p /\ task'[p].pc = "end"
         \/ lock' = NULL /\ task'[p].pc = "idle" /\ todo' = <<>>
  <2>1. CASE SetLocked(p)
    <3>1. \/ lock' = p /\ task' = Move(p, "end")
          \/ lock' = lock /\ todo' = todo /\ task' = [task EXCEPT ![p] = IdleTask]
      BY <2>1 DEF SetLocked
    <3>2. IdleTask.pc = "idle"
      BY DEF IdleTask
    <3> QED
      BY <1>1, <3>1, <3>2, TaskMoves
  <2>2. CASE \E k \in Keys : Delete(p, k)
    <3>1. PICK k \in Keys : Delete(p, k)
      BY <2>2
    <3> DEFINE r == [pc |-> "end", key |-> k, val |-> NULL]
    <3>2. lock' = p /\ task' = [task EXCEPT ![p] = r] /\ r.pc = "end"
      BY <3>1 DEF Delete
    <3> HIDE DEF r
    <3> QED
      BY <1>1, <3>2, TaskMoves
  <2>3. CASE DeleteByPrefix(p)
    <3> DEFINE r == [pc |-> "end", key |-> NULL, val |-> NULL]
    <3>1. lock' = p /\ task' = [task EXCEPT ![p] = r] /\ r.pc = "end"
      BY <2>3 DEF DeleteByPrefix
    <3> HIDE DEF r
    <3> QED
      BY <1>1, <3>1, TaskMoves
  <2> QED
    BY <2>1, <2>2, <2>3
<1> QED
  BY <1>1, <1>2, <1>3, HoldersDiffer DEF Holders, Up

\* The end of a call, and the steps of the collection.
LEMMA OtherHolders ==
    ASSUME KvTypeOK, Holders,
           (\E p \in Tasks : CallEnd(p)) \/ Write \/ GcStart \/ GcEnd \/ GcPost
    PROVE  Holders'
<1>1. task \in TaskType
  BY DEF KvTypeOK
<1>2. ASSUME NEW p \in Tasks, CallEnd(p) PROVE Holders'
  <2>1. lock = p /\ lock' = NULL /\ todo' = <<>> /\ gc' = gc /\ boot' = boot
        /\ task' = [task EXCEPT ![p] = IdleTask]
    BY <1>2 DEF CallEnd, Holders, gcVars
  <2>2. task'[p].pc = "idle" /\ \A q \in Tasks : q # p => task'[q] = task[q]
    <3>1. IdleTask.pc = "idle"
      BY DEF IdleTask
    <3> QED
      BY <1>1, <2>1, <3>1, TaskMoves
  <2> QED
    BY <2>1, <2>2, HoldersDiffer DEF Holders, Up
<1>3. CASE Write
  BY <1>3, WriteRest DEF Holders, Up, gcVars
<1>4. CASE GcStart
  BY <1>4, HoldersDiffer DEF Holders, Up, GcStart
<1>5. CASE GcEnd
  BY <1>5, HoldersDiffer DEF Holders, Up, GcEnd
<1>6. CASE GcPost
  <2>1. UNCHANGED <<gc, lock, todo, boot>>
    BY <1>6 DEF GcPost
  <2>2. \A q \in Tasks : task'[q] = task[q]
                         \/ (task[q].pc = "blocked" /\ task'[q] = [task[q] EXCEPT !.pc = "set"])
    BY <1>1, <1>6 DEF GcPost, TaskType
  <2>3. \A q \in Tasks : task'[q] = task[q]
                         \/ (task[q].pc = "blocked" /\ task'[q].pc = "set"
                             /\ task'[q].key = task[q].key /\ task'[q].val = task[q].val)
    BY <1>1, <2>2 DEF TaskType
  <2> QED
    BY <2>1, <2>3 DEF Holders, Up
<1> QED
  BY <1>2, <1>3, <1>4, <1>5, <1>6

\* A power failure gives the lock to the start.
LEMMA CrashHolders ==
    ASSUME KvTypeOK, Holders, Crash
    PROVE  Holders' /\ lock' = BOOT
BY HoldersDiffer DEF Holders, Up, Crash, Fresh, Off, IdleTask

\* The start has the lock ...
LEMMA BootHolders ==
    ASSUME KvTypeOK, Holders,
           BootBlock \/ BootItem \/ BootBlockEnd \/ BootUnclean \/ BootMark
    PROVE  Holders' /\ lock = BOOT /\ lock' = BOOT
<1>1. ~Up /\ UNCHANGED <<lock, task, gc>>
  BY DEF BootBlock, BootItem, BootBlockEnd, BootUnclean, BootMark, Up, gcVars
<1>2. boot'.stage \in {"blocks", "items", "mark"}
  <2>1. boot.stage \in {"blocks", "items"}
    BY DEF BootBlock, BootItem, BootBlockEnd, BootUnclean, BootMark
  <2>2. \/ boot' = [boot EXCEPT !.blk = @ + 1]
        \/ boot' = [boot EXCEPT !.stage = "items", !.n = 1]
        \/ boot' = [boot EXCEPT !.n = @ + 1]
        \/ boot' = [boot EXCEPT !.stage = "blocks", !.blk = @ + 1]
        \/ boot' = [boot EXCEPT !.stage = "blocks", !.blk = @ + 1, !.unclean = Append(@, boot.blk)]
        \/ boot' = [boot EXCEPT !.unclean = Front(@)]
        \/ boot' = [boot EXCEPT !.stage = "mark"]
    BY DEF BootBlock, BootItem, BootBlockEnd, BootUnclean, BootMark
  <2>3. boot = [stage |-> boot.stage, blk |-> boot.blk, n |-> boot.n, unclean |-> boot.unclean]
    BY DEF KvTypeOK
  <2> QED
    BY <2>1, <2>2, <2>3
<1>3. lock = BOOT
  BY <1>1 DEF Holders
<1> QED
  BY <1>1, <1>2, <1>3, HoldersDiffer DEF Holders, Up

\* ... until it opens the store.
LEMMA BootEndHolders ==
    ASSUME KvTypeOK, Holders, BootEnd
    PROVE  Holders' /\ lock = BOOT /\ lock' = NULL
<1>1. ~Up /\ todo = <<>> /\ UNCHANGED <<task, todo>> /\ lock' = NULL
      /\ boot' = [Off EXCEPT !.stage = "up"]
  BY DEF BootEnd, Up
<1>2. lock = BOOT /\ gc # "run" /\ boot'.stage = "up"
  BY <1>1, HoldersDiffer DEF Holders, Off
<1>3. gc' # "run"
  BY <1>2 DEF BootEnd, KvTriggerGc
<1> QED
  BY <1>1, <1>2, <1>3, HoldersDiffer DEF Holders, Up

-----------------------------------------------------------------------------
(* Between two critical sections.                                          *)

\* The shapes are about the flash, g_kv_mgr, the writes that are left, the call
\* and the history.
LEMMA ShapeFrame ==
    ASSUME UNCHANGED <<flashVars, todo, legal, lossy>>, Job' = Job, NEW b
    PROVE  CallShape(b)' = CallShape(b) /\ GcShape(b)' = GcShape(b)
<1>1. /\ \A c : Its(c)' = Its(c) /\ Idx(c)' = Idx(c) /\ Exact(c)' = Exact(c)
      /\ UNCHANGED <<flash, info, write_pos, clean_blk_nums>>
  BY DEF flashVars, Its, Idx, Exact
<1>2. /\ \A c, i : Goes(c, i)' = Goes(c, i)
      /\ \A c : Marks(c)' = Marks(c)
      /\ \A k : Pended(k)' = Pended(k) /\ Free(k)' = Free(k) /\ Affected(k)' = Affected(k)
      /\ \A c, i, j : Twins(c, i, j)' = Twins(c, i, j)
      /\ \A c, i, k : Good(c, i, k)' = Good(c, i, k)
  BY <1>1 DEF Goes, Marks, Pended, Free, Affected, Twins, Good
<1>3. \A c : /\ Filled(c)' = Filled(c) /\ AllOk(c)' = AllOk(c) /\ Lawful(c)' = Lawful(c)
             /\ NoTwins(c)' = NoTwins(c)
  BY <1>1, <1>2 DEF Filled, AllOk, Lawful, NoTwins
<1>4. \A c : Valued(c)' = Valued(c) /\ Values(c)' = Values(c) /\ Outcome(c)' = Outcome(c)
  BY <1>1, <1>2, <1>3 DEF Valued, Values, Outcome
<1>5. \A c, i : CallWrite(c, i)' = CallWrite(c, i)
  BY <1>1, <1>2 DEF CallWrite, NewItem
<1>6. \A c : /\ Parted(c)' = Parted(c) /\ CallTwins(c)' = CallTwins(c)
             /\ UsedLive(c)' = UsedLive(c) /\ Sound(c)' = Sound(c)
  BY <1>1, <1>2, <1>3, <1>4 DEF Parted, CallTwins, UsedLive, Sound
<1>7. \A c : CallShape(c)' = CallShape(c)
  BY <1>1, <1>4, <1>5, <1>6 DEF CallShape
<1>8. \A c : CopyList(c)' = CopyList(c)
  BY <1>1, ZenonT(60) DEF CopyList, LiveIn
<1>9. \A c : Copying(c)' = Copying(c)
  BY <1>1, <1>6, <1>8 DEF Copying
<1>10. \A c : Copied(c)' = Copied(c)
  BY <1>1, <1>6 DEF Copied
<1> QED
  BY <1>7, <1>9, <1>10 DEF GcShape

\* Between two critical sections the block in use is sound.
LEMMA QuietFacts ==
    ASSUME KvTypeOK, NEW b \in Blocks, CallShape(b), todo = <<>>
    PROVE  /\ Parted(b) /\ NoTwins(b) /\ Valued(b)
           /\ flash[b].state = "USED" => \A i \in Idx(b) : Its(b)[i].live
<1>1. /\ \A i : ~Goes(b, i)
      /\ ~Marks(b)
      /\ \A k : ~Pended(k)
  BY ShortSets DEF Goes, Marks, Pended
<1> QED
  BY <1>1 DEF CallShape, NoTwins, CallTwins, UsedLive, Values, Valued

\* kv_item_search finds the item with the key in a block, if it is there and the
\* other block is clean.
LEMMA OpenSearch ==
    ASSUME KvTypeOK, NEW b \in Blocks, info[Other(b)].state = "CLEAN", info[b].state # "CLEAN",
           Len(Its(b)) <= Slots, AllOk(b), NoTwins(b), NEW k \in Keys
    PROVE  /\ Search(k) = NULL => \A i \in Idx(b) : Its(b)[i].live => Its(b)[i].key # k
           /\ Search(k) = NULL => Get(k) = NULL
           /\ Search(k) # NULL =>
                 \E i \in Idx(b) : /\ Search(k) = Place(b, i) /\ Good(b, i, k) /\ Its(b)[i].val = Get(k)
                                   /\ \A j \in Idx(b) : Its(b)[j].live /\ Its(b)[j].key = k => j = i
<1>2. ASSUME Search(k) = NULL, NEW i \in Idx(b), Its(b)[i].live PROVE Its(b)[i].key # k
  BY <1>2, SearchFinds
<1>3. ASSUME Search(k) # NULL
      PROVE \E i \in Idx(b) : /\ Search(k) = Place(b, i) /\ Good(b, i, k) /\ Its(b)[i].val = Get(k)
                              /\ \A j \in Idx(b) : Its(b)[j].live /\ Its(b)[j].key = k => j = i
  <2>1. PICK c \in Blocks : \E i \in Idx(c) :
                 /\ Search(k) = Place(c, i) /\ info[c].state # "CLEAN"
                 /\ Its(c)[i].live /\ Its(c)[i].key = k /\ At(flash, Search(k)) = Its(c)[i]
    BY <1>3, SearchPlace
  <2>2. c = b
    BY <2>1, TwoBlocks
  <2>3. PICK i \in Idx(b) :
                 /\ Search(k) = Place(b, i)
                 /\ Its(b)[i].live /\ Its(b)[i].key = k /\ At(flash, Search(k)) = Its(b)[i]
    BY <2>1, <2>2
  <2>4. Good(b, i, k)
    BY <2>3 DEF AllOk, Good
  <2>5. Get(k) = Its(b)[i].val
    BY <1>3, <2>3 DEF Get
  <2>6. \A j \in Idx(b) : Its(b)[j].live /\ Its(b)[j].key = k => j = i
    BY <2>3 DEF NoTwins, Twins
  <2> QED
    BY <2>3, <2>4, <2>5, <2>6
<1>4. Search(k) = NULL => Get(k) = NULL
  BY DEF Get
<1> QED
  BY <1>2, <1>3, <1>4

\* The same for the block in use, between two critical sections.
LEMMA QuietSearch ==
    ASSUME KvTypeOK, NEW b \in Blocks, Parted(b), NoTwins(b), NEW k \in Keys
    PROVE  /\ Search(k) = NULL => \A i \in Idx(b) : Its(b)[i].live => Its(b)[i].key # k
           /\ Search(k) = NULL => Get(k) = NULL
           /\ Search(k) # NULL =>
                 \E i \in Idx(b) : /\ Search(k) = Place(b, i) /\ Good(b, i, k) /\ Its(b)[i].val = Get(k)
                                   /\ \A j \in Idx(b) : Its(b)[j].live /\ Its(b)[j].key = k => j = i
<1>1. /\ info[Other(b)].state = "CLEAN" /\ info[b].state # "CLEAN"
      /\ Len(Its(b)) <= Slots /\ AllOk(b)
  BY DEF Parted, Exact
<1> QED
  BY <1>1, OpenSearch

-----------------------------------------------------------------------------
(* A call begins and ends.                                                 *)

\* A critical section of a call begins: the flash is sound, and the writes that
\* the call is about to do fit what it stores or deletes.
LEMMA CallOpens ==
    ASSUME KvTypeOK, NEW b \in Blocks, CallShape(b), todo = <<>>,
           UNCHANGED <<flashVars, lossy>>,
           \A k \in Keys : legal[k] \subseteq legal'[k],
           \A i \in 1..Len(todo') : CallWrite(b, i)',
           \A k \in Keys : \A i \in Idx(b) : Good(b, i, k) /\ Goes(b, i)' => Pended(k)' \/ Free(k)',
           Outcome(b)'
    PROVE  CallShape(b)'
<1>1. /\ Parted(b) /\ NoTwins(b) /\ Valued(b)
      /\ flash[b].state = "USED" => \A i \in Idx(b) : Its(b)[i].live
  BY QuietFacts
<1>2. /\ Its(b)' = Its(b) /\ Idx(b)' = Idx(b) /\ flash' = flash
      /\ \A i, k : Good(b, i, k)' = Good(b, i, k)
      /\ \A i, j : Twins(b, i, j)' = Twins(b, i, j)
  BY DEF flashVars, Its, Idx, Good, Twins
<1>3. Parted(b)'
  BY <1>1, <1>2 DEF Parted, Exact, Filled, AllOk, flashVars, Its, Idx
<1>4. UsedLive(b)' /\ CallTwins(b)'
  BY <1>1, <1>2 DEF UsedLive, CallTwins, NoTwins
<1>5. Lawful(b)'
  <2>1. ASSUME NEW k \in Keys, NEW i \in Idx(b), Good(b, i, k) PROVE Its(b)[i].val \in legal'[k]
    BY <1>1, <2>1 DEF Valued, Lawful
  <2> QED
    BY <1>2, <2>1 DEF Lawful
<1>6. Values(b)'
  <2>1. ASSUME NEW k \in Keys
        PROVE Free(k)' \/ \E i \in Idx(b) : Good(b, i, k) /\ (~Goes(b, i)' \/ Pended(k)')
    <3>1. CASE Free(k)
      BY <3>1 DEF Free
    <3>2. CASE \E i \in Idx(b) : Good(b, i, k)
      BY <3>2
    <3> QED
      BY <1>1, <3>1, <3>2 DEF Valued
  <2> QED
    BY <1>2, <1>5, <2>1 DEF Values
<1> QED
  BY <1>3, <1>4, <1>6 DEF CallShape

\* kv_item_set is about to write an item, in the place of an old one or not.
LEMMA SetItemShape ==
    ASSUME KvTypeOK, NEW b \in Blocks, CallShape(b), todo = <<>>, UNCHANGED <<flashVars, lossy>>,
           NEW k \in Keys, NEW v \in Vals, NEW old, old = Search(k), info[b].used < Slots,
           Job'.pc = "end", Job'.key = k, Job'.val = v,
           legal' = [legal EXCEPT ![k] = @ \cup {v}],
           todo' = IF old = NULL THEN <<WriteItem(b, Item(k, v, NULL))>>
                   ELSE Update(b, Item(k, v, old), old)
    PROVE  CallShape(b)'
<1>1. /\ Parted(b) /\ NoTwins(b) /\ Valued(b) /\ v # NULL /\ k # NULL
      /\ flash[b].state = "USED" => \A i \in Idx(b) : Its(b)[i].live
  BY QuietFacts, HoldersDiffer
<1>2. /\ Its(b)' = Its(b) /\ Idx(b)' = Idx(b) /\ flash' = flash
      /\ \A i, x : Good(b, i, x)' = Good(b, i, x)
  BY DEF flashVars, Its, Idx, Good
<1>a. /\ info[b].used = Len(Its(b)) /\ Len(Its(b)) \in Nat /\ Slots \in Nat
      /\ Its(b) \in Seq(Items) /\ Idx(b) \subseteq Nat \ {0}
  <2>1. Exact(b)
    BY <1>1 DEF Parted
  <2>2. Len(Its(b)) \in Nat /\ Its(b) \in Seq(Items)
    BY FlashTypes
  <2> QED
    BY <2>1, <2>2, HoldersDiffer DEF Exact, Idx, Its
<1>3. /\ old = NULL => \A i \in Idx(b) : Its(b)[i].live => Its(b)[i].key # k
      /\ old # NULL =>
            \E i \in Idx(b) : /\ old = Place(b, i) /\ Good(b, i, k)
                              /\ \A j \in Idx(b) : Its(b)[j].live /\ Its(b)[j].key = k => j = i
  <2> QED
    BY <1>1, <1>2, QuietSearch
<1>4. old \in Places \cup {NULL}
  <2>1. \A i \in Idx(b) : Place(b, i) \in Places
    BY <1>a, WriteTypes
  <2> QED
    BY <1>3, <2>1
<1>b. PICK it : it = Item(k, v, old)
  OBVIOUS
<1>5. /\ it \in Items /\ it.key = k /\ it.val = v /\ it.live /\ it.ok /\ it.origin = old
  <2> QED
    BY <1>4, <1>b, ItemType
<1>6. /\ \A x \in Keys : legal[x] \subseteq legal'[x]
      /\ v \in legal'[k]
  <2>1. legal \in LegalType
    BY DEF KvTypeOK
  <2> QED
    BY <1>1, <1>2, <2>1 DEF LegalType
<1>7. /\ todo' \in Seq(Writes) /\ todo' # <<>> /\ todo'[1] = WriteItem(b, it) /\ Head(todo') = todo'[1]
      /\ \A i \in Idx(b) : Goes(b, i)' <=> old = Place(b, i)
      /\ old # NULL /\ info[b].state = "USED" => Marks(b)'
      /\ \A i \in 1..Len(todo') : i # 1 =>
            old # NULL /\ (todo'[i] = WriteDelete(old) \/ todo'[i] = WriteState(b, "DIRTY"))
  <2>1. CASE old = NULL
    <3>1. todo' = <<WriteItem(b, it)>>
      BY <1>b, <2>1
    <3>2. WriteItem(b, it) \in Writes
      BY <1>5, WriteTypes
    <3> DEFINE w == WriteItem(b, it)
    <3>3. todo' = <<w>> /\ w \in Writes /\ \A i : WriteDelete(Place(b, i)) # w
      BY <3>1, <3>2, WriteDiffer
    <3> HIDE DEF w
    <3>4. todo' \in Seq(Writes) /\ todo' # <<>> /\ todo'[1] = w /\ Head(todo') = todo'[1] /\ Len(todo') = 1
      <4>1. <<w>> \in Seq(Writes) /\ <<w>> # <<>> /\ <<w>>[1] = w /\ Head(<<w>>) = w /\ Len(<<w>>) = 1
        BY <3>3
      <4> QED
        BY <3>3, <4>1
    <3>5. \A e : e \in ToSet(todo') <=> e = w
      BY <3>3, ShortSets
    <3>6. \A i \in Idx(b) : ~Goes(b, i)' /\ old # Place(b, i)
      <4>1. \A i \in Idx(b) : Place(b, i) \in Places
        BY <1>a, WriteTypes
      <4> QED
        BY <2>1, <3>3, <3>5, <4>1, HoldersDiffer DEF Goes
    <3> QED
      BY <2>1, <3>4, <3>6 DEF w
  <2>2. CASE old # NULL
    <3>1. PICK n \in Idx(b) : old = Place(b, n)
      BY <1>3, <2>2
    <3> DEFINE r == Update(b, it, Place(b, n))
    <3>2. /\ r \in Seq(Writes) /\ r # <<>> /\ Head(r) = WriteItem(b, it) /\ r[1] = Head(r)
          /\ \A e : e \in ToSet(r) <=> \/ e = WriteItem(b, it)
                                       \/ e = WriteDelete(Place(b, n))
                                       \/ info[b].state = "USED" /\ e = WriteState(b, "DIRTY")
          /\ \A i \in 1..Len(r) : i # 1 => \/ r[i] = WriteDelete(Place(b, n))
                                           \/ r[i] = WriteState(b, "DIRTY")
      BY <1>a, <1>5, <3>1, UpdateSeq
    <3>3. todo' = r
      BY <1>b, <2>2, <3>1
    <3> HIDE DEF r
    <3>4. \A i \in Idx(b) : Goes(b, i)' <=> old = Place(b, i)
      <4>1. \A i : Place(b, i) = Place(b, n) <=> i = n
        BY DEF Place
      <4>2. \A i : WriteDelete(Place(b, i)) = WriteDelete(Place(b, n)) <=> i = n
        BY WriteDiffer
      <4>3. \A i : WriteDelete(Place(b, i)) # WriteItem(b, it)
                   /\ WriteDelete(Place(b, i)) # WriteState(b, "DIRTY")
        BY WriteDiffer
      <4> QED
        BY <3>1, <3>2, <3>3, <4>1, <4>2, <4>3 DEF Goes
    <3>5. info[b].state = "USED" => Marks(b)'
      BY <3>2, <3>3 DEF Marks
    <3> QED
      BY <2>2, <3>1, <3>2, <3>3, <3>4, <3>5
  <2> QED
    BY <2>1, <2>2
<1>8. todo'[1].do = "item" /\ todo'[1].blk = b /\ todo'[1].item = it
  BY <1>7 DEF WriteItem
<1>9. Pended(k)'
  BY <1>5, <1>7, <1>8 DEF Pended
<1>10. NewItem(b, it)'
  <2>1. Len(Its(b)) < Slots
    BY <1>a
  <2>2. \A j \in Idx(b) : Its(b)[j].live /\ Its(b)[j].key = k => old = Place(b, j)
    <3> QED
      BY <1>3
  <2>3. \A j \in Idx(b) : Its(b)[j].live /\ Its(b)[j].key = it.key =>
           Goes(b, j)' /\ it.origin = Place(b, j)
    BY <1>5, <1>7, <2>2
  <2> QED
    BY <1>1, <1>2, <1>5, <2>1, <2>3 DEF NewItem
<1>11. ASSUME NEW i \in 1..Len(todo') PROVE CallWrite(b, i)'
  <2>1. CASE i = 1
    BY <1>8, <1>10, <2>1 DEF CallWrite
  <2>2. CASE i # 1
    <3>1. old # NULL /\ (todo'[i] = WriteDelete(old) \/ todo'[i] = WriteState(b, "DIRTY"))
      BY <1>7, <2>2
    <3>2. PICK n \in Idx(b) : old = Place(b, n)
      BY <1>3, <3>1
    <3>3. flash'[b].state = "DIRTY" \/ Marks(b)'
      BY <1>1, <1>2, <1>7, <3>1 DEF Parted, Exact, flashVars
    <3> QED
      BY <1>1, <1>2, <3>1, <3>2, <3>3 DEF CallWrite
  <2> QED
    BY <2>1, <2>2
<1>12. ASSUME NEW i \in Idx(b), Goes(b, i)', NEW x \in Keys, Good(b, i, x) PROVE x = k
  <2>1. old = Place(b, i) /\ old # NULL
    <3>1. Place(b, i) \in Places
      BY <1>a, WriteTypes
    <3> QED
      BY <1>7, <1>12, <3>1, HoldersDiffer
  <2>2. PICK n \in Idx(b) : old = Place(b, n) /\ Good(b, n, k)
    BY <1>3, <2>1
  <2>3. n = i
    BY <2>1, <2>2 DEF Place
  <2> QED
    BY <1>12, <2>2, <2>3 DEF Good
<1>13. Outcome(b)'
  <2>1. \A x \in Keys : Affected(x)' => x = k
    BY <1>1, <1>2 DEF Affected
  <2>2. \A i \in Idx(b) : Good(b, i, k) => Goes(b, i)'
    <3> QED
      BY <1>3, <1>7 DEF Good
  <2> QED
    BY <1>1, <1>2, <1>6, <1>9, <2>1, <2>2 DEF Outcome
<1> QED
  BY <1>1, <1>2, <1>6, <1>9, <1>11, <1>12, <1>13, CallOpens

\* kv_item_set takes the lock: the value is there already, an item is to be
\* written, or there is no space.
LEMMA SetLockedShape ==
    ASSUME KvTypeOK, Holders, NEW p \in Tasks, NEW b \in Blocks, CallShape(b), todo = <<>>,
           SetLocked(p)
    PROVE  CallShape(b)'
<1> DEFINE k == task[p].key
           v == task[p].val
           old == Search(k)
<1>1. /\ Parted(b) /\ NoTwins(b) /\ Valued(b)
      /\ flash[b].state = "USED" => \A i \in Idx(b) : Its(b)[i].live
  BY QuietFacts
<1>2. /\ k \in Keys /\ v \in Vals /\ v # NULL /\ k # NULL
      /\ UNCHANGED <<flashVars, lossy>> /\ lock = NULL /\ task \in TaskType
  BY HoldersDiffer DEF SetLocked, Holders, KvTypeOK
<1>3. /\ Its(b)' = Its(b) /\ Idx(b)' = Idx(b)
      /\ \A i, x : Good(b, i, x)' = Good(b, i, x)
  BY <1>2 DEF flashVars, Its, Idx, Good
<1>4. lock' = p /\ task' = Move(p, "end") => Job'.pc = "end" /\ Job'.key = k /\ Job'.val = v
  BY <1>2, TaskMoves DEF Job
<1>a. /\ write_pos.blk = b /\ info[b].used = Len(Its(b)) /\ Len(Its(b)) \in Nat /\ Slots \in Nat
      /\ Its(b) \in Seq(Items) /\ Idx(b) \subseteq Nat \ {0}
  <2>1. Exact(b) /\ write_pos = Place(b, Len(Its(b)))
    BY <1>1 DEF Parted
  <2>2. Len(Its(b)) \in Nat /\ Its(b) \in Seq(Items)
    BY FlashTypes
  <2> QED
    BY <2>1, <2>2, HoldersDiffer DEF Exact, Idx, Its, Place
<1>5. CASE Get(k) = v
  <2>1. lock' = p /\ task' = Move(p, "end") /\ UNCHANGED <<todo, legal>>
    BY <1>5 DEF SetLocked
  <2>2. Job'.pc = "end" /\ Job'.key = k /\ Job'.val = v
    BY <1>4, <2>1
  <2>3. PICK i \in Idx(b) : /\ Good(b, i, k) /\ Its(b)[i].val = v
                            /\ \A j \in Idx(b) : Its(b)[j].live /\ Its(b)[j].key = k => j = i
    <3> HIDE DEF k, v
    <3> QED
      BY <1>1, <1>2, <1>5, QuietSearch
  <2>4. \A j : ~Goes(b, j)'
    BY <2>1, ShortSets DEF Goes
  <2> HIDE DEF k, v
  <2>5. Outcome(b)'
    <3>1. \A x \in Keys : Affected(x)' => x = k
      BY <1>2, <2>2 DEF Affected
    <3>2. v \in legal'[k]
      BY <1>1, <1>2, <2>1, <2>3 DEF Valued, Lawful
    <3>3. \A j \in Idx(b) : Good(b, j, k) => Its(b)[j].val = v
      BY <2>3 DEF Good
    <3> QED
      BY <1>3, <2>2, <2>3, <2>4, <3>1, <3>2, <3>3 DEF Outcome
  <2> QED
    BY <1>2, <2>1, <2>4, <2>5, CallOpens
<1>6. CASE Get(k) # v /\ info[b].used < Slots
  <2>1. PICK x \in Keys, y \in Vals : x = k /\ y = v
    BY <1>2
  <2>2. lock' = p /\ task' = Move(p, "end") /\ legal' = [legal EXCEPT ![x] = @ \cup {y}]
        /\ todo' = IF Search(x) = NULL THEN <<WriteItem(b, Item(x, y, NULL))>>
                   ELSE Update(b, Item(x, y, Search(x)), Search(x))
    BY <1>6, <1>a, <2>1 DEF SetLocked
  <2>3. Job'.pc = "end" /\ Job'.key = x /\ Job'.val = y
    BY <1>4, <2>1, <2>2
  <2>4. PICK o : o = Search(x)
    OBVIOUS
  <2>5. todo' = IF o = NULL THEN <<WriteItem(b, Item(x, y, NULL))>> ELSE Update(b, Item(x, y, o), o)
    BY <2>2, <2>4
  <2> QED
    BY <1>2, <1>6, <2>2, <2>3, <2>4, <2>5, SetItemShape
<1>7. CASE Get(k) # v /\ info[b].used >= Slots
  <2>1. UNCHANGED <<todo, lock, legal>>
    BY <1>7, <1>a DEF SetLocked
  <2>2. Job' = Job
    BY <1>2, <2>1, HoldersDiffer DEF Job
  <2> QED
    BY <1>2, <2>1, <2>2, ShapeFrame
<1> QED
  BY <1>5, <1>6, <1>7, <1>a

\* The places of the items of a block are counted from 1.
LEMMA IdxNat ==
    ASSUME KvTypeOK, NEW b \in Blocks
    PROVE  /\ Its(b) \in Seq(Items) /\ Idx(b) \subseteq Nat \ {0} /\ Idx(b) = 1..Len(Its(b))
           /\ Len(Its(b)) \in Nat
<1>1. Its(b) \in Seq(Items) /\ Len(Its(b)) \in Nat
  BY FlashTypes
<1>2. Idx(b) = 1..Len(Its(b))
  BY DEF Idx, Its
<1> QED
  BY <1>1, <1>2

\* The items with the keys in K are about to be deleted.
LEMMA DeleteOpens ==
    ASSUME KvTypeOK, NEW b \in Blocks, CallShape(b), todo = <<>>, UNCHANGED <<flashVars, lossy>>,
           NEW K \in SUBSET Keys, NEW D \in SUBSET Idx(b), todo' \in Seq(Writes),
           \A i \in Idx(b) : i \in D <=> Its(b)[i].live /\ Its(b)[i].key \in K,
           \A e \in ToSet(todo') : \/ \E n \in D : e = WriteDelete(Place(b, n))
                                   \/ e = WriteState(b, "DIRTY"),
           \A n \in D : WriteDelete(Place(b, n)) \in ToSet(todo'),
           D # {} /\ info[b].state = "USED" => WriteState(b, "DIRTY") \in ToSet(todo'),
           Job'.val = NULL, \A k \in Keys : Affected(k)' => k \in K,
           \A k \in Keys : legal[k] \subseteq legal'[k],
           \A k \in K : NULL \in legal'[k]
    PROVE  CallShape(b)'
<1>1. /\ Its(b)' = Its(b) /\ Idx(b)' = Idx(b) /\ flash' = flash
      /\ \A i, x : Good(b, i, x)' = Good(b, i, x)
  BY DEF flashVars, Its, Idx, Good
<1>2. \A i \in Idx(b) : Goes(b, i)' <=> i \in D
  <2>1. \A i, n : WriteDelete(Place(b, i)) = WriteDelete(Place(b, n)) => i = n
    BY WriteDiffer
  <2>2. \A i : WriteDelete(Place(b, i)) # WriteState(b, "DIRTY")
    BY WriteDiffer
  <2> QED
    BY <2>1, <2>2 DEF Goes
<1>3. ASSUME NEW i \in 1..Len(todo') PROVE CallWrite(b, i)'
  <2>1. todo'[i] \in ToSet(todo')
    BY MemberAt
  <2>2. flash'[b].state = "DIRTY" \/ Marks(b)' \/ D = {}
    <3>1. Parted(b)
      BY QuietFacts
    <3>2. info[b].state = flash[b].state /\ flash[b].state \in {"USED", "DIRTY"}
      BY <3>1 DEF Parted, Exact
    <3> QED
      BY <1>1, <3>2 DEF Marks
  <2> QED
    BY <1>1, <2>1, <2>2 DEF CallWrite
<1>4. \A k \in Keys : \A i \in Idx(b) : Good(b, i, k) /\ Goes(b, i)' => Free(k)'
  BY <1>2 DEF Good, Free
<1>5. Outcome(b)'
  <2>1. ASSUME NEW k \in Keys, Affected(k)', NEW i \in Idx(b), Good(b, i, k) PROVE Goes(b, i)'
    BY <1>2, <2>1 DEF Good
  <2> QED
    BY <1>1, <2>1 DEF Outcome
<1> QED
  BY <1>3, <1>4, <1>5, CallOpens

\* kv_item_delete takes the lock.
LEMMA DeleteShape ==
    ASSUME KvTypeOK, NEW p \in Tasks, NEW k \in Keys, NEW b \in Blocks, CallShape(b), todo = <<>>,
           Delete(p, k)
    PROVE  CallShape(b)'
<1>1. Parted(b) /\ NoTwins(b) /\ Its(b) \in Seq(Items) /\ Idx(b) \subseteq Nat \ {0}
  BY QuietFacts, IdxNat
<1>2. PICK n \in Idx(b) : /\ Search(k) = Place(b, n) /\ Good(b, n, k)
                          /\ \A j \in Idx(b) : Its(b)[j].live /\ Its(b)[j].key = k => j = n
  BY <1>1, QuietSearch DEF Delete
<1>3. todo' = KvItemDel(Place(b, n)) /\ n \in Nat \ {0}
  BY <1>1, <1>2 DEF Delete
<1>4. /\ todo' \in Seq(Writes)
      /\ \A e : e \in ToSet(todo') <=> \/ e = WriteDelete(Place(b, n))
                                       \/ info[b].state = "USED" /\ e = WriteState(b, "DIRTY")
  BY <1>3, KvItemDelSet
<1>5. Job'.val = NULL /\ Job'.key = k
  <2> DEFINE r == [pc |-> "end", key |-> k, val |-> NULL]
  <2>1. lock' = p /\ task' = [task EXCEPT ![p] = r] /\ r.val = NULL /\ r.key = k
    BY DEF Delete
  <2>2. task \in TaskType
    BY DEF KvTypeOK
  <2> HIDE DEF r
  <2>3. task'[p] = r
    BY <2>1, <2>2, TaskMoves
  <2> QED
    BY <2>1, <2>3 DEF Job
<1>6. \A x \in Keys : Affected(x)' => x \in {k}
  BY <1>5, HoldersDiffer DEF Affected
<1>7. /\ \A x \in Keys : legal[x] \subseteq legal'[x]
      /\ NULL \in legal'[k]
  <2>1. legal \in LegalType /\ legal' = [legal EXCEPT ![k] = @ \cup {NULL}]
    BY DEF KvTypeOK, Delete
  <2> QED
    BY <2>1 DEF LegalType
<1>8. \A i \in Idx(b) : i \in {n} <=> Its(b)[i].live /\ Its(b)[i].key \in {k}
  BY <1>2 DEF Good
<1>9. UNCHANGED <<flashVars, lossy>>
  BY DEF Delete
<1> DEFINE K == {k}
           D == {n}
<1>10. /\ K \in SUBSET Keys /\ D \in SUBSET Idx(b)
       /\ \A i \in Idx(b) : i \in D <=> Its(b)[i].live /\ Its(b)[i].key \in K
       /\ \A e \in ToSet(todo') : \/ \E m \in D : e = WriteDelete(Place(b, m))
                                  \/ e = WriteState(b, "DIRTY")
       /\ \A m \in D : WriteDelete(Place(b, m)) \in ToSet(todo')
       /\ D # {} /\ info[b].state = "USED" => WriteState(b, "DIRTY") \in ToSet(todo')
       /\ \A x \in Keys : Affected(x)' => x \in K
       /\ \A x \in K : NULL \in legal'[x]
  BY <1>4, <1>6, <1>7, <1>8
<1> HIDE DEF K, D
<1> QED
  BY <1>4, <1>5, <1>7, <1>9, <1>10, DeleteOpens

\* kv_item_delete_by_prefix takes the lock.
LEMMA DeleteByPrefixShape ==
    ASSUME KvTypeOK, NEW p \in Tasks, NEW b \in Blocks, CallShape(b), todo = <<>>,
           DeleteByPrefix(p)
    PROVE  CallShape(b)'
<1>1. Parted(b) /\ NoTwins(b) /\ Its(b) \in Seq(Items) /\ Idx(b) \subseteq Nat \ {0}
  BY QuietFacts, IdxNat
<1> DEFINE D == PrefixedIn(b)
<1>2. /\ todo' \in Seq(Writes)
      /\ \A e : e \in ToSet(todo') <=> e \in ToSet(DelByPrefix(b))
  <2>1. Its(Other(b)) = <<>>
    BY <1>1 DEF Parted, Its
  <2>2. PrefixedIn(Other(b)) = {}
    BY <2>1 DEF PrefixedIn, Idx, Its
  <2>3. DelByPrefix(Other(b)) = <<>>
    BY <2>2, TwoBlocks, DelByPrefixSet
  <2>4. DelByPrefix(0) \in Seq(Writes) /\ DelByPrefix(1) \in Seq(Writes)
    BY DelByPrefixSet, TwoBlocks
  <2>5. todo' = DelByPrefix(0) \o DelByPrefix(1)
    BY DEF DeleteByPrefix
  <2>6. /\ todo' \in Seq(Writes)
        /\ \A e : e \in ToSet(todo') <=> e \in ToSet(DelByPrefix(0)) \/ e \in ToSet(DelByPrefix(1))
    BY <2>4, <2>5, ConcatSet
  <2>7. (b = 0 /\ Other(b) = 1) \/ (b = 1 /\ Other(b) = 0)
    BY TwoBlocks DEF Other
  <2> QED
    BY <2>3, <2>6, <2>7, ShortSets
<1>3. /\ D \in SUBSET Idx(b)
      /\ \A i \in Idx(b) : i \in D <=> Its(b)[i].live /\ Its(b)[i].key \in Prefixed
  BY DEF PrefixedIn
<1>4. Job'.val = NULL /\ Job'.key = NULL
  <2> DEFINE r == [pc |-> "end", key |-> NULL, val |-> NULL]
  <2>1. lock' = p /\ task' = [task EXCEPT ![p] = r] /\ r.val = NULL /\ r.key = NULL
    BY DEF DeleteByPrefix
  <2>2. task \in TaskType
    BY DEF KvTypeOK
  <2> HIDE DEF r
  <2>3. task'[p] = r
    BY <2>1, <2>2, TaskMoves
  <2> QED
    BY <2>1, <2>3 DEF Job
<1>5. \A x \in Keys : Affected(x)' => x \in Prefixed
  BY <1>4, HoldersDiffer DEF Affected
<1>6. /\ \A x \in Keys : legal[x] \subseteq legal'[x]
      /\ \A x \in Prefixed : NULL \in legal'[x]
  BY HoldersDiffer DEF DeleteByPrefix
<1>7. UNCHANGED <<flashVars, lossy>>
  BY DEF DeleteByPrefix
<1>8. /\ \A e \in ToSet(todo') : \/ \E n \in D : e = WriteDelete(Place(b, n))
                                 \/ e = WriteState(b, "DIRTY")
      /\ \A n \in D : WriteDelete(Place(b, n)) \in ToSet(todo')
      /\ D # {} /\ info[b].state = "USED" => WriteState(b, "DIRTY") \in ToSet(todo')
  BY <1>2, DelByPrefixSet
<1> HIDE DEF D
<1> QED
  BY <1>2, <1>3, <1>4, <1>5, <1>6, <1>7, <1>8, HoldersDiffer, DeleteOpens

\* The call returns.
LEMMA CallEndShape ==
    ASSUME KvTypeOK, Holders, NEW p \in Tasks, NEW b \in Blocks, CallShape(b), CallEnd(p)
    PROVE  CallShape(b)'
<1>1. /\ todo = <<>> /\ todo' = <<>> /\ lock = p /\ lock' = NULL /\ Job.pc = "end"
      /\ UNCHANGED <<flashVars, lossy>> /\ Job = task[p]
  BY DEF CallEnd, Holders, Job
<1>2. /\ Parted(b) /\ NoTwins(b) /\ Valued(b)
      /\ flash[b].state = "USED" => \A i \in Idx(b) : Its(b)[i].live
  BY <1>1, QuietFacts
<1>3. /\ Its(b)' = Its(b) /\ Idx(b)' = Idx(b) /\ flash' = flash
      /\ \A i, x : Good(b, i, x)' = Good(b, i, x)
      /\ \A i, j : Twins(b, i, j)' = Twins(b, i, j)
  BY <1>1 DEF flashVars, Its, Idx, Good, Twins
<1>4. /\ \A i : ~Goes(b, i) /\ ~Goes(b, i)'
      /\ \A k : ~Pended(k)
  BY <1>1, ShortSets DEF Goes, Pended
<1>5. \A k \in Keys : legal'[k] = IF Affected(k) THEN {Job.val} ELSE legal[k]
  BY <1>1 DEF CallEnd, Affected
<1>6. Parted(b)' /\ UsedLive(b)' /\ CallTwins(b)'
  BY <1>1, <1>2, <1>3 DEF Parted, Exact, Filled, AllOk, flashVars, Its, Idx, UsedLive, CallTwins, NoTwins
<1>7. \A k \in Keys : Affected(k) =>
         /\ \A i \in Idx(b) : Good(b, i, k) => Its(b)[i].val = Job.val
         /\ Job.val = NULL \/ \E i \in Idx(b) : Good(b, i, k)
  BY <1>1, <1>4 DEF CallShape, Outcome
<1>8. Lawful(b)'
  <2>1. ASSUME NEW k \in Keys, NEW i \in Idx(b), Good(b, i, k) PROVE Its(b)[i].val \in legal'[k]
    BY <1>2, <1>5, <1>7, <2>1 DEF Valued, Lawful
  <2> QED
    BY <1>3, <2>1 DEF Lawful
<1>9. Values(b)'
  <2>1. ASSUME NEW k \in Keys PROVE Free(k)' \/ \E i \in Idx(b) : Good(b, i, k)
    <3>1. CASE Affected(k)
      BY <1>5, <1>7, <3>1 DEF Free
    <3>2. CASE ~Affected(k)
      BY <1>1, <1>2, <1>5, <3>2 DEF Valued, Free
    <3> QED
      BY <3>1, <3>2
  <2> QED
    BY <1>3, <1>4, <1>8, <2>1 DEF Values
<1>10. Outcome(b)'
  BY <1>1, HoldersDiffer DEF Outcome, Job, IdleTask
<1>11. \A i \in 1..Len(todo') : CallWrite(b, i)'
  BY <1>1
<1> QED
  BY <1>6, <1>9, <1>10, <1>11 DEF CallShape

-----------------------------------------------------------------------------
(* The writes of a call.                                                   *)

\* What is in a write.
LEMMA WriteFields ==
    /\ \A b, it : /\ WriteItem(b, it).do = "item" /\ WriteItem(b, it).blk = b
                  /\ WriteItem(b, it).item = it
    /\ \A p : WriteDelete(p).do = "delete" /\ WriteDelete(p).at = p
    /\ \A b, s : WriteState(b, s).do = "state"
    /\ \A b : Erase(b).do = "erase" /\ Header(b).do = "header"
BY DEF WriteItem, WriteDelete, WriteState, Erase, Header

\* The writes that are left of a call: deletions of items that are there, marks,
\* and an item only at the first place.
LEMMA CallWrites ==
    ASSUME KvTypeOK, NEW b \in Blocks, CallShape(b), Write
    PROVE  /\ \/ \E it \in Items : Head(todo) = WriteItem(b, it) /\ NewItem(b, it)
              \/ \E n \in Idx(b) : /\ Head(todo) = WriteDelete(Place(b, n))
                                   /\ flash[b].state = "DIRTY" \/ Marks(b)
              \/ Head(todo) = WriteState(b, "DIRTY")
           /\ \A i \in 1..Len(todo') :
                 \/ /\ \E n \in Idx(b) : todo'[i] = WriteDelete(Place(b, n))
                    /\ flash[b].state = "DIRTY" \/ Marks(b)
                 \/ todo'[i] = WriteState(b, "DIRTY")
           /\ \A k : ~Pended(k)'
<1>1. /\ todo # <<>> /\ Head(todo) \in Writes /\ Head(todo) = todo[1]
      /\ Len(todo) \in Nat \ {0} /\ Len(todo') = Len(todo) - 1 /\ todo' \in Seq(Writes)
      /\ \A i \in 1..Len(todo') : todo'[i] = todo[i + 1] /\ i + 1 \in 1..Len(todo)
  BY WriteRest
<1>2. CallWrite(b, 1)
  BY <1>1 DEF CallShape
<1>3. ASSUME Head(todo).do = "item", Head(todo).blk = b, NewItem(b, Head(todo).item)
      PROVE  \E it \in Items : Head(todo) = WriteItem(b, it) /\ NewItem(b, it)
  <2> DEFINE w == Head(todo)
  <2>1. w \in Writes /\ w.do = "item" /\ w.blk = b /\ NewItem(b, w.item)
    BY <1>1, <1>3
  <2> HIDE DEF w
  <2>2. w.item \in Items
    BY <2>1, WriteKinds
  <2>3. w = WriteItem(b, w.item)
    BY <2>1 DEF Writes, WriteItem
  <2> QED
    BY <2>1, <2>2, <2>3 DEF w
<1>4. \A i \in 1..Len(todo') :
         \/ /\ \E n \in Idx(b) : todo'[i] = WriteDelete(Place(b, n))
            /\ flash[b].state = "DIRTY" \/ Marks(b)
         \/ todo'[i] = WriteState(b, "DIRTY")
  <2>1. TAKE i \in 1..Len(todo')
  <2>2. i + 1 \in 1..Len(todo) /\ i + 1 # 1 /\ todo'[i] = todo[i + 1]
    BY <1>1
  <2>3. CallWrite(b, i + 1)
    BY <2>2 DEF CallShape
  <2> QED
    BY <2>2, <2>3 DEF CallWrite
<1>5. ASSUME NEW k PROVE ~Pended(k)'
  <2>1. CASE todo' = <<>>
    BY <2>1 DEF Pended
  <2>2. CASE todo' # <<>>
    <3>1. Head(todo') = todo'[1] /\ 1 \in 1..Len(todo')
      BY <1>1, <2>2, HeadOrTail
    <3>2. Head(todo').do \in {"delete", "state"}
      BY <1>4, <3>1, WriteFields
    <3> QED
      BY <3>2 DEF Pended
  <2> QED
    BY <2>1, <2>2
<1> QED
  BY <1>1, <1>2, <1>3, <1>4, <1>5 DEF CallWrite

\* A call writes its item.
LEMMA CallItemShape ==
    ASSUME KvTypeOK, NEW b \in Blocks, CallShape(b), Write,
           NEW it \in Items, Head(todo) = WriteItem(b, it), NewItem(b, it)
    PROVE  CallShape(b)'
<1>1. PICK m : m = Len(Its(b)) + 1
  OBVIOUS
<1>2. /\ m = Len(Its(b)) + 1 /\ Len(Its(b)) \in Nat /\ Slots \in Nat /\ Len(Its(b)) < Slots
  BY <1>1, IdxNat, HoldersDiffer DEF NewItem
<1>3. /\ flash'[b].state = flash[b].state /\ flash'[Other(b)] = flash[Other(b)]
      /\ Len(Its(b)') = m /\ Its(b)'[m] = it
      /\ \A i \in Idx(b) : Its(b)'[i] = Its(b)[i]
      /\ Idx(b)' = Idx(b) \cup {m} /\ m \notin Idx(b)
      /\ info'[b] = [state |-> info[b].state, used |-> info[b].used + 1]
      /\ info'[Other(b)] = info[Other(b)]
      /\ write_pos' = Place(write_pos.blk, write_pos.n + 1)
      /\ clean_blk_nums' = clean_blk_nums
  BY <1>2, ItemStep
<1>4. /\ \A e : e \in ToSet(todo) <=> e = WriteItem(b, it) \/ e \in ToSet(todo')
      /\ UNCHANGED <<legal, lossy>> /\ Job' = Job
      /\ todo # <<>> /\ todo \in Seq(Writes) /\ Len(todo) \in Nat
  BY WriteRest DEF KvTypeOK
<1>5. /\ \A i : Goes(b, i)' <=> Goes(b, i)
      /\ Marks(b)' <=> Marks(b)
  BY <1>4, WriteDiffer DEF Goes, Marks
<1>6. ~Goes(b, m)
  <2>1. SUFFICES ASSUME Goes(b, m) PROVE FALSE
    OBVIOUS
  <2>2. PICK i \in 1..Len(todo) : todo[i] = WriteDelete(Place(b, m))
    BY <1>4, <2>1, MemberAt DEF Goes
  <2>3. CallWrite(b, i)
    BY DEF CallShape
  <2>4. \A j \in Idx(b) : WriteDelete(Place(b, j)) # WriteDelete(Place(b, m))
    BY <1>3, WriteDiffer
  <2>5. todo[i] # WriteState(b, "DIRTY") /\ todo[i].do # "item"
    BY <2>2, WriteDiffer, WriteFields
  <2> QED
    BY <2>2, <2>3, <2>4, <2>5 DEF CallWrite
<1>7. /\ it.live /\ it.ok /\ it.key \in Keys /\ it.val \in Vals /\ it.val # NULL
      /\ Job.pc = "end" /\ it.key = Job.key /\ it.val = Job.val
      /\ \A j \in Idx(b) : Its(b)[j].live /\ Its(b)[j].key = it.key => Goes(b, j) /\ it.origin = Place(b, j)
  BY HoldersDiffer DEF NewItem
<1>8. \A k : Pended(k) <=> k = it.key
  BY <1>4 DEF Pended, WriteItem
<1>9. /\ \A i \in Idx(b) : \A k : Good(b, i, k)' = Good(b, i, k)
      /\ \A k : Good(b, m, k)' <=> k = it.key
  BY <1>3, <1>7 DEF Good
<1>10. Affected(it.key) /\ \A k : Affected(k)' = Affected(k)
  BY <1>4, <1>7 DEF Affected
<1>11. it.val \in legal[it.key]
  BY <1>7, <1>10 DEF CallShape, Outcome
<1>12. Parted(b)'
  <2>1. /\ info[b] = [state |-> flash[b].state, used |-> Len(Its(b))] /\ Exact(Other(b))
        /\ flash[Other(b)] = [state |-> "CLEAN", items |-> <<>>]
        /\ flash[b].state \in {"USED", "DIRTY"}
        /\ clean_blk_nums = 1 /\ write_pos = Place(b, Len(Its(b)))
        /\ Len(Its(b)) <= Slots /\ Filled(b) /\ AllOk(b)
    BY DEF CallShape, Parted, Exact
  <2>2. Exact(b)'
    BY <1>2, <1>3, <2>1 DEF Exact
  <2>3. Exact(Other(b))'
    BY <1>3, <2>1 DEF Exact, Its
  <2>4. Filled(b)' /\ AllOk(b)'
    BY <1>3, <1>7, <2>1 DEF Filled, AllOk
  <2>5. write_pos' = Place(b, m) /\ m <= Slots
    BY <1>2, <1>3, <2>1 DEF Place
  <2> QED
    BY <1>3, <2>1, <2>2, <2>3, <2>4, <2>5 DEF Parted
<1>13. \A i \in 1..Len(todo') : CallWrite(b, i)'
  <2>1. TAKE i \in 1..Len(todo')
  <2>2. \/ /\ \E j \in Idx(b) : todo'[i] = WriteDelete(Place(b, j))
           /\ flash[b].state = "DIRTY" \/ Marks(b)
        \/ todo'[i] = WriteState(b, "DIRTY")
    BY CallWrites
  <2> QED
    BY <1>3, <1>5, <2>2 DEF CallWrite
<1>14. UsedLive(b)'
  BY <1>3, <1>5, <1>7 DEF CallShape, UsedLive
<1>15. CallTwins(b)'
  <2>1. SUFFICES ASSUME NEW i \in Idx(b)', NEW j \in Idx(b)', Twins(b, i, j)'
                 PROVE  \/ Goes(b, i)' /\ Its(b)'[j].origin = Place(b, i)
                        \/ Goes(b, j)' /\ Its(b)'[i].origin = Place(b, j)
    BY DEF CallTwins
  <2>2. i # j /\ Its(b)'[i].live /\ Its(b)'[j].live /\ Its(b)'[i].key = Its(b)'[j].key
    BY <2>1 DEF Twins
  <2>3. CASE i \in Idx(b) /\ j \in Idx(b)
    <3>1. Twins(b, i, j)
      BY <1>3, <2>2, <2>3 DEF Twins
    <3> QED
      BY <1>3, <1>5, <2>3, <3>1 DEF CallShape, CallTwins
  <2>4. CASE i = m
    <3>1. j \in Idx(b) /\ Its(b)[j].live /\ Its(b)[j].key = it.key
      BY <1>3, <2>2, <2>4
    <3> QED
      BY <1>3, <1>5, <1>7, <2>4, <3>1
  <2>5. CASE j = m
    <3>1. i \in Idx(b) /\ Its(b)[i].live /\ Its(b)[i].key = it.key
      BY <1>3, <2>2, <2>5
    <3> QED
      BY <1>3, <1>5, <1>7, <2>5, <3>1
  <2> QED
    BY <1>3, <2>3, <2>4, <2>5
<1>16. Lawful(b)'
  <2>1. ASSUME NEW k \in Keys, NEW i \in Idx(b)', Good(b, i, k)' PROVE Its(b)'[i].val \in legal'[k]
    <3>1. CASE i \in Idx(b)
      <4>1. Good(b, i, k) /\ Its(b)'[i] = Its(b)[i]
        BY <1>3, <1>9, <2>1, <3>1
      <4> QED
        BY <1>4, <3>1, <4>1 DEF CallShape, Values, Lawful
    <3>2. CASE i = m
      BY <1>3, <1>4, <1>9, <1>11, <2>1, <3>2
    <3> QED
      BY <1>3, <3>1, <3>2
  <2> QED
    BY <2>1 DEF Lawful
<1>17. Values(b)'
  <2>1. ASSUME NEW k \in Keys PROVE Free(k)' \/ \E i \in Idx(b)' : Good(b, i, k)' /\ ~Goes(b, i)'
    <3>1. CASE Free(k)
      BY <1>4, <3>1 DEF Free
    <3>2. ASSUME NEW i \in Idx(b), Good(b, i, k), ~Goes(b, i)
          PROVE  \E j \in Idx(b)' : Good(b, j, k)' /\ ~Goes(b, j)'
      BY <1>3, <1>5, <1>9, <3>2
    <3>3. CASE Pended(k)
      BY <1>3, <1>5, <1>6, <1>8, <1>9, <3>3
    <3> QED
      BY <3>1, <3>2, <3>3 DEF CallShape, Values
  <2> QED
    BY <1>16, <2>1 DEF Values
<1>18. Outcome(b)'
  <2>1. ASSUME NEW k \in Keys, Affected(k)
        PROVE  /\ Job.val \in legal'[k]
               /\ \A i \in Idx(b)' : Good(b, i, k)' => Its(b)'[i].val = Job.val \/ Goes(b, i)'
               /\ \/ Job.val = NULL
                  \/ \E i \in Idx(b)' : Good(b, i, k)' /\ ~Goes(b, i)'
    <3>1. /\ Job.val \in legal[k]
          /\ \A i \in Idx(b) : Good(b, i, k) => Its(b)[i].val = Job.val \/ Goes(b, i)
          /\ \/ Job.val = NULL
             \/ Pended(k)
             \/ \E i \in Idx(b) : Good(b, i, k) /\ ~Goes(b, i)
      BY <1>7, <2>1 DEF CallShape, Outcome
    <3>2. ASSUME NEW i \in Idx(b)', Good(b, i, k)' PROVE Its(b)'[i].val = Job.val \/ Goes(b, i)'
      BY <1>3, <1>5, <1>7, <1>9, <3>1, <3>2
    <3>3. Pended(k) => Good(b, m, k)' /\ ~Goes(b, m)' /\ m \in Idx(b)'
      BY <1>3, <1>5, <1>6, <1>8, <1>9
    <3>4. \A i \in Idx(b) : Good(b, i, k) /\ ~Goes(b, i) => Good(b, i, k)' /\ ~Goes(b, i)' /\ i \in Idx(b)'
      BY <1>3, <1>5, <1>9
    <3> QED
      BY <1>4, <3>1, <3>2, <3>3, <3>4
  <2> QED
    BY <1>4, <1>10, <2>1 DEF Outcome
<1> QED
  BY <1>12, <1>13, <1>14, <1>15, <1>17, <1>18 DEF CallShape

\* The deletion of an item that was to be deleted loses nothing.
LEMMA DeleteFacts ==
    ASSUME KvTypeOK, Write, NEW b \in Blocks, NEW n \in Idx(b), Head(todo) = WriteDelete(Place(b, n))
    PROVE  /\ Goes(b, n) /\ ~Its(b)'[n].live /\ Idx(b)' = Idx(b)
           /\ \A i \in Idx(b) : i # n => Its(b)'[i] = Its(b)[i]
           /\ \A c, i : Goes(c, i) <=> Goes(c, i)' \/ (c = b /\ i = n)
           /\ \A c : Marks(c)' <=> Marks(c)
           /\ \A k : ~Pended(k) /\ \A i \in Idx(b) : Good(b, i, k)' <=> i # n /\ Good(b, i, k)
           /\ \A i, j \in Idx(b) : Twins(b, i, j)' => Twins(b, i, j) /\ i # n /\ j # n
           /\ Filled(b) => Filled(b)'
           /\ AllOk(b) => AllOk(b)'
           /\ Values(b) => Values(b)'
<1>1. /\ ~Its(b)'[n].live /\ Idx(b)' = Idx(b)
      /\ \A i \in Idx(b) : i # n => Its(b)'[i] = Its(b)[i]
  BY DeleteStep
<1>2. /\ \A e : e \in ToSet(todo) <=> e = WriteDelete(Place(b, n)) \/ e \in ToSet(todo')
      /\ UNCHANGED <<legal, lossy>>
  BY WriteRest
<1>3. /\ \A c, i : Goes(c, i) <=> Goes(c, i)' \/ (c = b /\ i = n)
      /\ \A c : Marks(c)' <=> Marks(c)
  <2>1. \A c, i : WriteDelete(Place(c, i)) = WriteDelete(Place(b, n)) <=> c = b /\ i = n
    BY WriteDiffer
  <2>2. \A c : WriteState(c, "DIRTY") # WriteDelete(Place(b, n))
    BY WriteDiffer
  <2> QED
    BY <1>2, <2>1, <2>2 DEF Goes, Marks
<1>4. \A k : ~Pended(k)
  BY WriteFields DEF Pended
<1>5. /\ \A k : \A i \in Idx(b) : Good(b, i, k)' <=> i # n /\ Good(b, i, k)
      /\ \A i, j \in Idx(b) : Twins(b, i, j)' => Twins(b, i, j) /\ i # n /\ j # n
  BY <1>1 DEF Good, Twins
<1>6. (Filled(b) => Filled(b)') /\ (AllOk(b) => AllOk(b)')
  BY <1>1 DEF Filled, AllOk
<1>7. Lawful(b) => Lawful(b)'
  <2>1. SUFFICES ASSUME Lawful(b), NEW k \in Keys, NEW i \in Idx(b), Good(b, i, k)'
                 PROVE  Its(b)'[i].val \in legal'[k]
    BY <1>1 DEF Lawful
  <2> QED
    BY <1>1, <1>2, <1>5, <2>1 DEF Lawful
<1>8. Values(b) => Values(b)'
  <2>1. SUFFICES ASSUME Values(b), NEW k \in Keys
                 PROVE  Free(k)' \/ \E i \in Idx(b) : Good(b, i, k)' /\ ~Goes(b, i)'
    BY <1>1, <1>7 DEF Values
  <2>2. Free(k) \/ \E i \in Idx(b) : Good(b, i, k) /\ ~Goes(b, i)
    BY <1>4, <2>1 DEF Values
  <2>3. Free(k) => Free(k)'
    BY <1>2 DEF Free
  <2> QED
    BY <1>3, <1>5, <2>2, <2>3
<1>9. Goes(b, n)
  BY <1>3
<1> QED
  BY <1>1, <1>3, <1>4, <1>5, <1>6, <1>8, <1>9

\* A mark leaves the items alone.
LEMMA StateFacts ==
    ASSUME KvTypeOK, Write, NEW b \in Blocks, NEW s \in {"USED", "DIRTY"},
           Head(todo) = WriteState(b, s)
    PROVE  /\ \A c, i : Goes(c, i)' <=> Goes(c, i)
           /\ \A c \in Blocks : /\ Its(c)' = Its(c) /\ Idx(c)' = Idx(c)
                                /\ \A i, k : Good(c, i, k)' = Good(c, i, k)
                                /\ \A i, j : Twins(c, i, j)' = Twins(c, i, j)
                                /\ Filled(c)' = Filled(c) /\ AllOk(c)' = AllOk(c)
                                /\ NoTwins(c)' = NoTwins(c)
                                /\ Values(c) => Values(c)'
                                /\ Valued(c) => Valued(c)'
           /\ \A k : ~Pended(k)
           /\ Marks(b) \/ s = "USED"
           /\ \A c : c # b => Marks(c)' = Marks(c)
<1>1. \A c \in Blocks : Its(c)' = Its(c) /\ Idx(c)' = Idx(c)
  BY StateStep
<1>2. /\ \A e : e \in ToSet(todo) <=> e = WriteState(b, s) \/ e \in ToSet(todo')
      /\ UNCHANGED <<legal, lossy>>
  BY WriteRest
<1>3. /\ \A c, i : Goes(c, i)' <=> Goes(c, i)
      /\ Marks(b) \/ s = "USED"
      /\ \A c : c # b => Marks(c)' = Marks(c)
  <2>1. \A c, i : WriteDelete(Place(c, i)) # WriteState(b, s)
    BY WriteDiffer
  <2>2. \A c : c # b => WriteState(c, "DIRTY") # WriteState(b, s)
    BY WriteDiffer
  <2> QED
    BY <1>2, <2>1, <2>2 DEF Goes, Marks
<1>4. \A k : ~Pended(k)
  BY WriteFields DEF Pended
<1>5. \A c \in Blocks : /\ \A i, k : Good(c, i, k)' = Good(c, i, k)
                        /\ \A i, j : Twins(c, i, j)' = Twins(c, i, j)
                        /\ Filled(c)' = Filled(c) /\ AllOk(c)' = AllOk(c)
  BY <1>1 DEF Good, Twins, Filled, AllOk
<1>6. \A c \in Blocks : Lawful(c)' = Lawful(c) /\ NoTwins(c)' = NoTwins(c)
  BY <1>1, <1>2, <1>5 DEF Lawful, NoTwins
<1>7. \A k : Free(k)' = Free(k)
  BY <1>2 DEF Free
<1>8. ASSUME NEW c \in Blocks PROVE (Values(c) => Values(c)') /\ (Valued(c) => Valued(c)')
  BY <1>1, <1>3, <1>4, <1>5, <1>6, <1>7 DEF Values, Valued
<1> QED
  BY <1>1, <1>3, <1>4, <1>5, <1>6, <1>8

\* A call deletes an item.
LEMMA CallDeleteShape ==
    ASSUME KvTypeOK, NEW b \in Blocks, CallShape(b), Write,
           NEW n \in Idx(b), Head(todo) = WriteDelete(Place(b, n)), flash[b].state = "DIRTY" \/ Marks(b)
    PROVE  CallShape(b)'
<1>1. /\ flash'[b].state = flash[b].state /\ flash'[Other(b)] = flash[Other(b)]
      /\ Len(Its(b)') = Len(Its(b))
      /\ UNCHANGED <<info, write_pos, clean_blk_nums>>
  BY DeleteStep
<1>2. /\ ~Its(b)'[n].live /\ Idx(b)' = Idx(b)
      /\ \A i \in Idx(b) : i # n => Its(b)'[i] = Its(b)[i]
      /\ \A i : Goes(b, i) <=> Goes(b, i)' \/ i = n
      /\ Marks(b)' <=> Marks(b)
      /\ \A k : ~Pended(k) /\ \A i \in Idx(b) : Good(b, i, k)' <=> i # n /\ Good(b, i, k)
      /\ \A i, j \in Idx(b) : Twins(b, i, j)' => Twins(b, i, j) /\ i # n /\ j # n
      /\ Filled(b) => Filled(b)'
      /\ AllOk(b) => AllOk(b)'
      /\ Values(b)'
  BY DeleteFacts DEF CallShape
<1>3. UNCHANGED legal /\ Job' = Job /\ \A k : Affected(k)' = Affected(k)
  BY WriteRest DEF Affected
<1>4. Parted(b)'
  <2>1. Parted(b)
    BY DEF CallShape
  <2>2. Its(Other(b))' = Its(Other(b))
    BY <1>1 DEF Its
  <2>3. Exact(b)' /\ Exact(Other(b))'
    BY <1>1, <2>1, <2>2 DEF Parted, Exact
  <2> QED
    BY <1>1, <1>2, <2>1, <2>3 DEF Parted
<1>5. \A i \in 1..Len(todo') : CallWrite(b, i)'
  <2>1. TAKE i \in 1..Len(todo')
  <2>2. \/ /\ \E j \in Idx(b) : todo'[i] = WriteDelete(Place(b, j))
           /\ flash[b].state = "DIRTY" \/ Marks(b)
        \/ todo'[i] = WriteState(b, "DIRTY")
    BY CallWrites
  <2> QED
    BY <1>1, <1>2, <2>2 DEF CallWrite
<1>6. UsedLive(b)'
  BY <1>1, <1>2 DEF UsedLive
<1>7. CallTwins(b)'
  <2>1. SUFFICES ASSUME NEW i \in Idx(b), NEW j \in Idx(b), Twins(b, i, j)'
                 PROVE  \/ Goes(b, i)' /\ Its(b)'[j].origin = Place(b, i)
                        \/ Goes(b, j)' /\ Its(b)'[i].origin = Place(b, j)
    BY <1>2 DEF CallTwins
  <2>2. Twins(b, i, j) /\ i # n /\ j # n
    BY <1>2, <2>1
  <2>3. \/ Goes(b, i) /\ Its(b)[j].origin = Place(b, i)
        \/ Goes(b, j) /\ Its(b)[i].origin = Place(b, j)
    BY <2>2 DEF CallShape, CallTwins
  <2> QED
    BY <1>2, <2>2, <2>3
<1>8. Outcome(b)'
  <2>1. ASSUME Job.pc = "end", NEW k \in Keys, Affected(k)
        PROVE  /\ Job.val \in legal'[k]
               /\ \A i \in Idx(b)' : Good(b, i, k)' => Its(b)'[i].val = Job.val \/ Goes(b, i)'
               /\ \/ Job.val = NULL
                  \/ \E i \in Idx(b)' : Good(b, i, k)' /\ ~Goes(b, i)'
    <3>1. /\ Job.val \in legal[k]
          /\ \A i \in Idx(b) : Good(b, i, k) => Its(b)[i].val = Job.val \/ Goes(b, i)
          /\ \/ Job.val = NULL
             \/ \E i \in Idx(b) : Good(b, i, k) /\ ~Goes(b, i)
      BY <1>2, <2>1 DEF CallShape, Outcome
    <3> QED
      BY <1>2, <1>3, <3>1
  <2> QED
    BY <1>3, <2>1 DEF Outcome
<1> QED
  BY <1>2, <1>4, <1>5, <1>6, <1>7, <1>8 DEF CallShape

\* A call marks its block as dirty.
LEMMA CallStateShape ==
    ASSUME KvTypeOK, NEW b \in Blocks, CallShape(b), Write, Head(todo) = WriteState(b, "DIRTY")
    PROVE  CallShape(b)'
<1>1. /\ flash'[b].state = "DIRTY" /\ flash'[Other(b)] = flash[Other(b)]
      /\ info'[b] = [state |-> "DIRTY", used |-> info[b].used] /\ info'[Other(b)] = info[Other(b)]
      /\ write_pos' = write_pos
      /\ clean_blk_nums' = clean_blk_nums
  BY StateStep
<1>2. /\ \A i : Goes(b, i)' <=> Goes(b, i)
      /\ Its(b)' = Its(b) /\ Idx(b)' = Idx(b) /\ Its(Other(b))' = Its(Other(b))
      /\ \A i, k : Good(b, i, k)' = Good(b, i, k)
      /\ \A i, j : Twins(b, i, j)' = Twins(b, i, j)
      /\ Filled(b)' = Filled(b) /\ AllOk(b)' = AllOk(b)
      /\ Values(b)'
      /\ \A k : ~Pended(k)
  BY StateFacts, TwoBlocks DEF CallShape
<1>3. UNCHANGED legal /\ Job' = Job /\ \A k : Affected(k)' = Affected(k)
  BY WriteRest DEF Affected
<1>4. Parted(b)'
  <2>1. Parted(b)
    BY DEF CallShape
  <2>2. Exact(b)' /\ Exact(Other(b))'
    BY <1>1, <1>2, <2>1 DEF Parted, Exact
  <2> QED
    BY <1>1, <1>2, <2>1, <2>2 DEF Parted
<1>5. \A i \in 1..Len(todo') : CallWrite(b, i)'
  <2>1. TAKE i \in 1..Len(todo')
  <2>2. \/ \E j \in Idx(b) : todo'[i] = WriteDelete(Place(b, j))
        \/ todo'[i] = WriteState(b, "DIRTY")
    BY CallWrites
  <2> QED
    BY <1>1, <1>2, <2>2 DEF CallWrite
<1>6. UsedLive(b)'
  BY <1>1 DEF UsedLive
<1>7. CallTwins(b)'
  BY <1>2 DEF CallShape, CallTwins
<1>8. Outcome(b)'
  BY <1>2, <1>3 DEF CallShape, Outcome
<1> QED
  BY <1>2, <1>4, <1>5, <1>6, <1>7, <1>8 DEF CallShape

\* A write of a call.
LEMMA CallWriteShape ==
    ASSUME KvTypeOK, NEW b \in Blocks, CallShape(b), Write
    PROVE  CallShape(b)'
BY CallWrites, CallItemShape, CallDeleteShape, CallStateShape

-----------------------------------------------------------------------------
(* The collection.                                                         *)

\* The live items of a block, in their order.
LEMMA LiveSeq ==
    ASSUME KvTypeOK, NEW o \in Blocks
    PROVE  LET live == LiveIn(flash, o)
           IN  /\ Len(live) \in 0..Len(Its(o))
               /\ \A i \in 1..Len(live) : live[i] \in Idx(o) /\ Its(o)[live[i]].live
               /\ \A i, j \in 1..Len(live) : live[i] = live[j] => i = j
               /\ \A x \in Idx(o) : Its(o)[x].live => \E i \in 1..Len(live) : live[i] = x
<1> DEFINE S == {n \in 1..Len(flash[o].items) : flash[o].items[n].live}
           m == Len(Its(o))
<1>1. m \in Nat /\ S \in SUBSET (1..m) /\ LiveIn(flash, o) = InOrder(S)
  <2>1. Len(Its(o)) \in Nat
    BY FlashTypes
  <2> QED
    BY <2>1, Zenon DEF LiveIn, Its
<1>2. \A x : x \in S <=> x \in Idx(o) /\ Its(o)[x].live
  BY DEF Idx, Its
<1> HIDE DEF S, m
<1>3. LET s == InOrder(S)
      IN  /\ s \in Seq(S) /\ Len(s) \in 0..m /\ s \in [1..Len(s) -> S]
          /\ \A i, j \in 1..Len(s) : s[i] = s[j] => i = j
          /\ \A x \in S : \E i \in 1..Len(s) : s[i] = x
          /\ S = {} => s = <<>>
          /\ S # {} => s # <<>>
  BY <1>1, InOrderSeq, Zenon
<1> DEFINE v == LiveIn(flash, o)
<1>4. /\ Len(v) \in 0..m /\ v \in [1..Len(v) -> S]
      /\ \A i, j \in 1..Len(v) : v[i] = v[j] => i = j
      /\ \A x \in S : \E i \in 1..Len(v) : v[i] = x
  BY <1>1, <1>3
<1> HIDE DEF v
<1>5. \A i \in 1..Len(v) : v[i] \in S
  BY <1>4
<1> QED
  BY <1>2, <1>4, <1>5 DEF v, m

\* A block that nothing is written to stays sound.
LEMMA SoundFrame ==
    ASSUME NEW o, flash'[o] = flash[o], UNCHANGED <<legal, lossy>>
    PROVE  /\ Sound(o)' = Sound(o) /\ Its(o)' = Its(o) /\ Idx(o)' = Idx(o)
           /\ \A i, k : Good(o, i, k)' = Good(o, i, k)
           /\ NoTwins(o)' = NoTwins(o) /\ Filled(o)' = Filled(o) /\ AllOk(o)' = AllOk(o)
           /\ Valued(o)' = Valued(o) /\ Lawful(o)' = Lawful(o)
           /\ \A k : Free(k)' = Free(k)
           /\ \A i, j : Twins(o, i, j)' = Twins(o, i, j)
<1>1. Its(o)' = Its(o) /\ Idx(o)' = Idx(o)
  BY DEF Its, Idx
<1>2. /\ \A i, k : Good(o, i, k)' = Good(o, i, k)
      /\ \A i, j : Twins(o, i, j)' = Twins(o, i, j)
      /\ \A k : Free(k)' = Free(k)
  BY <1>1 DEF Good, Twins, Free
<1>3. /\ NoTwins(o)' = NoTwins(o) /\ Filled(o)' = Filled(o) /\ AllOk(o)' = AllOk(o)
      /\ Lawful(o)' = Lawful(o)
  BY <1>1, <1>2 DEF NoTwins, Filled, AllOk, Lawful
<1>4. Valued(o)' = Valued(o)
  BY <1>1, <1>2, <1>3 DEF Valued
<1> QED
  BY <1>1, <1>2, <1>3, <1>4 DEF Sound

\* The collection begins, or finds nothing to do.
LEMMA GcStartShape ==
    ASSUME KvTypeOK, NEW b \in Blocks, CallShape(b), todo = <<>>, GcStart
    PROVE  GcShape(b)' \/ GcShape(Other(b))'
<1> DEFINE clean == {c \in Blocks : info[c].state = "CLEAN"}
           after(d) == (write_pos.blk + d) % BlockNums
           dirty == {d \in 1..BlockNums : info[after(d)].state = "DIRTY"}
           o == Other(b)
<1>1. /\ Parted(b) /\ NoTwins(b) /\ Valued(b)
  BY QuietFacts
<1>2. /\ lock' = GC /\ lock = NULL
      /\ UNCHANGED <<flash, info, clean_blk_nums, task, legal, lossy>>
  BY DEF GcStart
<1>3. Job' = Job
  BY <1>2, HoldersDiffer DEF Job
<1>4. CASE UNCHANGED <<write_pos, todo>>
  <2>1. CallShape(b)'
    BY <1>2, <1>3, <1>4, ShapeFrame DEF flashVars
  <2> QED
    BY <1>4, <2>1 DEF GcShape
<1>5. CASE /\ clean_blk_nums # 0 /\ clean # {} /\ dirty # {}
           /\ write_pos' = Place(Min(clean), 0)
           /\ todo' = Collect(after(Min(dirty)), Min(clean))
  <2>1. /\ info[o].state = "CLEAN" /\ info[b].state # "CLEAN" /\ write_pos.blk = b
        /\ o \in Blocks /\ Other(o) = b /\ o # b
    BY <1>1, TwoBlocks DEF Parted, Exact, Place
  <2>2. clean = {o}
    BY <2>1, TwoBlocks
  <2>3. Min(clean) = o
    <3>1. o \in Nat
      BY <2>1, TwoBlocks
    <3>2. Min({o}) \in {o}
      BY <3>1, MinNat
    <3> QED
      BY <2>2, <3>2
  <2>4. after(1) = o /\ after(2) = b
    <3>1. b \in {0, 1} /\ o = 1 - b /\ write_pos.blk = b
      BY <2>1, TwoBlocks DEF Other
    <3> HIDE DEF o
    <3>2. (b + 1) % 2 = o /\ (b + 2) % 2 = b
      BY <3>1
    <3> QED
      BY <3>1, <3>2 DEF BlockNums
  <2>5. \A d \in dirty : d = 2
    <3>1. \A d \in dirty : d \in {1, 2} /\ info[after(d)].state = "DIRTY"
      BY DEF BlockNums
    <3> HIDE DEF after
    <3> QED
      BY <2>1, <2>4, <3>1
  <2>6. 2 \in dirty /\ dirty = {2}
    BY <1>5, <2>5
  <2>7. Min(dirty) = 2
    <3>1. Min({2}) \in {2}
      BY MinNat
    <3> QED
      BY <2>6, <3>1
  <2>8. info[b].state = "DIRTY"
    BY <2>4, <2>6
  <2>9. todo' = Collect(b, o) /\ write_pos' = Place(o, 0)
    BY <1>5, <2>3, <2>4, <2>7
  <2>10. GcShape(o)'
    <3> HIDE DEF o, clean, dirty, after
    <3>1. PICK x \in Blocks : x = o /\ Other(x) = b /\ Other(b) = x
      BY <2>1 DEF o
    <3>2. /\ todo' = Collect(b, x) /\ write_pos' = Place(x, 0)
          /\ Len(LiveIn(flash, b)) \in Nat /\ Len(todo') = Len(LiveIn(flash, b)) + 3
          /\ \A i \in 1..Len(LiveIn(flash, b)) : todo'[i] = WriteItem(x, Its(b)[LiveIn(flash, b)[i]])
          /\ todo'[Len(LiveIn(flash, b)) + 1] = Erase(b) /\ todo'[Len(LiveIn(flash, b)) + 2] = Header(b)
          /\ todo'[Len(LiveIn(flash, b)) + 3] = WriteState(x, "USED")
      BY <2>9, <3>1, CollectSeq, SMTT(30)
    <3>3. Its(x) = <<>> /\ flash[x].state = "CLEAN" /\ flash[b].state = "DIRTY"
          /\ Exact(b) /\ Exact(x) /\ clean_blk_nums = 1 /\ Len(Its(b)) <= Slots /\ Filled(b) /\ AllOk(b)
      BY <1>1, <2>8, <3>1 DEF Parted, Exact, Its
    <3>4. Len(Its(x)') = 0 /\ Its(x)' = Its(x) /\ Its(b)' = Its(b)
          /\ Exact(x)' /\ Exact(b)' /\ LiveIn(flash, b)' = LiveIn(flash, b)
      BY <1>2, <3>3 DEF Its, Exact
    <3> DEFINE v == LiveIn(flash, b)
    <3>5. CopyList(x)'
      <4>1. v' = v /\ Len(v) \in Nat /\ Len(v) - 0 = Len(v) /\ \A i \in 1..Len(v) : 0 + i = i
        BY <3>2, <3>4
      <4>2. /\ Len(todo') = Len(v) + 3
            /\ \A i \in 1..Len(v) : todo'[i] = WriteItem(x, Its(b)'[v[i]])
            /\ todo'[Len(v) + 1] = Erase(b) /\ todo'[Len(v) + 2] = Header(b)
            /\ todo'[Len(v) + 3] = WriteState(x, "USED")
        BY <3>2, <3>4
      <4> HIDE DEF v
      <4>3. LiveIn(flash, Other(x))' = v
        BY <3>1, <4>1 DEF v
      <4> QED
        BY <3>1, <3>4, <4>1, <4>2, <4>3 DEF CopyList
    <3>6. Sound(b)'
      <4>1. Sound(b)
        BY <1>1, <3>3 DEF Sound
      <4> QED
        BY <1>2, <4>1, SoundFrame
    <3>7. Copying(x)'
      BY <1>2, <3>1, <3>2, <3>3, <3>4, <3>5, <3>6 DEF Copying
    <3> QED
      BY <3>1, <3>7 DEF GcShape
  <2> QED
    BY <2>10
<1> QED
  BY <1>4, <1>5 DEF GcStart

\* The list of a collection, spelled out.
LEMMA CopyFacts ==
    ASSUME KvTypeOK, NEW b \in Blocks, NEW o \in Blocks, o = Other(b), Copying(b),
           NEW v, v = LiveIn(flash, o)
    PROVE  /\ Len(Its(b)) \in Nat /\ Len(v) \in Nat /\ Len(Its(b)) <= Len(v)
           /\ Len(todo) = Len(v) - Len(Its(b)) + 3
           /\ \A i \in 1..Len(Its(b)) : Its(b)[i] = Its(o)[v[i]]
           /\ \A i \in 1..(Len(v) - Len(Its(b))) : todo[i] = WriteItem(b, Its(o)[v[Len(Its(b)) + i]])
           /\ todo[Len(v) - Len(Its(b)) + 1] = Erase(o)
           /\ todo[Len(v) - Len(Its(b)) + 2] = Header(o)
           /\ todo[Len(v) - Len(Its(b)) + 3] = WriteState(b, "USED")
           /\ Len(v) \in 0..Len(Its(o))
           /\ \A i \in 1..Len(v) : v[i] \in Idx(o) /\ Its(o)[v[i]].live
           /\ \A i, j \in 1..Len(v) : v[i] = v[j] => i = j
           /\ \A x \in Idx(o) : Its(o)[x].live => \E i \in 1..Len(v) : v[i] = x
<1>1. CopyList(b)
  BY DEF Copying
<1>2. /\ Len(v) \in 0..Len(Its(o))
      /\ \A i \in 1..Len(v) : v[i] \in Idx(o) /\ Its(o)[v[i]].live
      /\ \A i, j \in 1..Len(v) : v[i] = v[j] => i = j
      /\ \A x \in Idx(o) : Its(o)[x].live => \E i \in 1..Len(v) : v[i] = x
  <2>1. /\ Len(LiveIn(flash, o)) \in 0..Len(Its(o))
        /\ \A i \in 1..Len(LiveIn(flash, o)) :
              LiveIn(flash, o)[i] \in Idx(o) /\ Its(o)[LiveIn(flash, o)[i]].live
        /\ \A i, j \in 1..Len(LiveIn(flash, o)) : LiveIn(flash, o)[i] = LiveIn(flash, o)[j] => i = j
        /\ \A x \in Idx(o) : Its(o)[x].live => \E i \in 1..Len(LiveIn(flash, o)) : LiveIn(flash, o)[i] = x
    BY LiveSeq
  <2> QED
    BY <2>1
<1>3. Len(Its(b)) \in Nat /\ Len(Its(o)) \in Nat
  BY IdxNat
<1>4. Len(v) - Len(Its(b)) \in Nat
  BY <1>1 DEF CopyList
<1>5. Len(v) \in Nat /\ Len(Its(b)) <= Len(v)
  BY <1>2, <1>3, <1>4
<1> QED
  BY <1>1, <1>2, <1>3, <1>5, Zenon DEF CopyList

\* A copy is written.
LEMMA CopyItemShape ==
    ASSUME KvTypeOK, NEW b \in Blocks, NEW o \in Blocks, o = Other(b), Copying(b), Write,
           NEW v, v = LiveIn(flash, o), Len(Its(b)) # Len(v)
    PROVE  Copying(b)'
<1>1. PICK n \in Nat : n = Len(Its(b)) /\ Len(v) \in Nat /\ n + 1 \in 1..Len(v)
  BY CopyFacts
<1>2. PICK it : it = Its(o)[v[n + 1]]
  OBVIOUS
<1>11. /\ \A i \in 1..n : Its(b)[i] = Its(o)[v[i]]
       /\ \A i \in 1..(Len(v) - n) : todo[i] = WriteItem(b, Its(o)[v[n + i]])
  <2>1. /\ \A i \in 1..Len(Its(b)) : Its(b)[i] = Its(o)[v[i]]
        /\ \A i \in 1..(Len(v) - Len(Its(b))) : todo[i] = WriteItem(b, Its(o)[v[Len(Its(b)) + i]])
    BY CopyFacts, SMTT(30)
  <2> QED
    BY <1>1, <2>1, Zenon
<1>3. /\ v[n + 1] \in Idx(o) /\ it \in Items /\ Head(todo) = WriteItem(b, it)
  <2>1. v[n + 1] \in Idx(o)
    BY <1>1, CopyFacts
  <2>2. it \in Items
    BY <1>2, <2>1, FlashTypes
  <2>3. 1 \in 1..(Len(v) - n)
    BY <1>1
  <2>4. todo[1] = WriteItem(b, Its(o)[v[n + 1]])
    BY <1>1, <2>3, CopyFacts
  <2>5. Head(todo) = todo[1]
    BY WriteRest
  <2> QED
    BY <1>2, <2>1, <2>2, <2>4, <2>5
<1>4. /\ flash'[b].state = flash[b].state /\ flash'[o] = flash[o]
      /\ Len(Its(b)') = n + 1 /\ Its(b)'[n + 1] = it
      /\ \A i \in Idx(b) : Its(b)'[i] = Its(b)[i]
      /\ info'[b] = [state |-> info[b].state, used |-> info[b].used + 1]
      /\ info'[o] = info[o]
      /\ write_pos' = Place(write_pos.blk, write_pos.n + 1)
      /\ clean_blk_nums' = clean_blk_nums
  BY <1>1, <1>3, ItemStep
<1>5. /\ Len(todo') = Len(todo) - 1
      /\ \A i \in 1..Len(todo') : todo'[i] = todo[i + 1] /\ i + 1 \in 1..Len(todo)
      /\ UNCHANGED <<legal, lossy>>
  BY WriteRest
<1>6. /\ info[b] = [state |-> flash[b].state, used |-> n] /\ Exact(o)
      /\ flash[b].state = "CLEAN" /\ flash[o].state = "DIRTY"
      /\ clean_blk_nums = 1 /\ write_pos = Place(b, n) /\ Sound(o)
  BY <1>1 DEF Copying, Exact
<1>7. Sound(o)' /\ Its(o)' = Its(o) /\ LiveIn(flash, o)' = v
  BY <1>4, <1>5, <1>6, SoundFrame DEF LiveIn
<1>8. Exact(b)' /\ Exact(o)'
  BY <1>1, <1>4, <1>6, <1>7 DEF Exact
<1>9. write_pos' = Place(b, Len(Its(b)'))
  BY <1>4, <1>6 DEF Place
<1>10. CopyList(b)'
  <2>1. Len(v) - (n + 1) \in Nat /\ Len(todo') = Len(v) - (n + 1) + 3
    BY <1>1, <1>5, CopyFacts
  <2>2. \A i \in 1..(n + 1) : Its(b)'[i] = Its(o)'[v[i]]
    <3>1. Idx(b) = 1..n
      BY <1>1, IdxNat
    <3>2. \A i \in 1..n : Its(b)'[i] = Its(o)[v[i]]
      BY <1>4, <1>11, <3>1
    <3> QED
      BY <1>1, <1>2, <1>4, <1>7, <3>2
  <2>3. \A i \in 1..(Len(v) - (n + 1)) : todo'[i] = WriteItem(b, Its(o)'[v[(n + 1) + i]])
    <3>1. TAKE i \in 1..(Len(v) - (n + 1))
    <3>2. i \in 1..Len(todo') /\ i + 1 \in 1..(Len(v) - n) /\ (n + 1) + i = n + (i + 1)
      BY <1>1, <2>1
    <3>3. todo'[i] = todo[i + 1] /\ todo[i + 1] = WriteItem(b, Its(o)[v[n + (i + 1)]])
      BY <1>5, <1>11, <3>2
    <3> QED
      BY <1>7, <3>2, <3>3
  <2>4. /\ todo'[Len(v) - (n + 1) + 1] = Erase(o)
        /\ todo'[Len(v) - (n + 1) + 2] = Header(o)
        /\ todo'[Len(v) - (n + 1) + 3] = WriteState(b, "USED")
    <3> DEFINE l == Len(v) - (n + 1)
    <3>1. l \in Nat /\ Len(todo') = l + 3 /\ Len(v) - n = l + 1
      BY <1>1, <2>1
    <3> HIDE DEF l
    <3>2. /\ l + 1 \in 1..Len(todo') /\ l + 2 \in 1..Len(todo') /\ l + 3 \in 1..Len(todo')
          /\ (l + 1) + 1 = (l + 1) + 1 /\ (l + 2) + 1 = (l + 1) + 2 /\ (l + 3) + 1 = (l + 1) + 3
      BY <3>1
    <3>3. todo[(l + 1) + 1] = Erase(o) /\ todo[(l + 1) + 2] = Header(o)
          /\ todo[(l + 1) + 3] = WriteState(b, "USED")
      BY <1>1, <3>1, CopyFacts, SMTT(30)
    <3>4. todo'[l + 1] = Erase(o) /\ todo'[l + 2] = Header(o) /\ todo'[l + 3] = WriteState(b, "USED")
      BY <1>5, <3>2, <3>3
    <3> QED
      BY <3>4 DEF l
  <2>5. Len(Its(b)') = n + 1 /\ LiveIn(flash, Other(b))' = v
    BY <1>4, <1>7
  <2> QED
    BY <2>1, <2>2, <2>3, <2>4, <2>5, Zenon DEF CopyList
<1> QED
  BY <1>4, <1>6, <1>7, <1>8, <1>9, <1>10 DEF Copying

\* The items of the source are copied: it is erased.
LEMMA CopyEraseShape ==
    ASSUME KvTypeOK, NEW b \in Blocks, NEW o \in Blocks, o = Other(b), Copying(b), Write,
           NEW v, v = LiveIn(flash, o), Len(Its(b)) = Len(v)
    PROVE  Copied(b)'
<1>0. b = Other(o)
  BY TwoBlocks
<1>1. /\ Len(v) \in Nat /\ Len(todo) = 3
      /\ \A i \in 1..Len(v) : Its(b)[i] = Its(o)[v[i]]
      /\ todo[1] = Erase(o) /\ todo[2] = Header(o) /\ todo[3] = WriteState(b, "USED")
  <2>1. Len(v) \in Nat /\ Len(v) - Len(Its(b)) = 0
    BY CopyFacts
  <2>2. 0 + 1 = 1 /\ 0 + 2 = 2 /\ 0 + 3 = 3
    OBVIOUS
  <2>3. \A i \in 1..Len(Its(b)) : Its(b)[i] = Its(o)[v[i]]
    BY CopyFacts
  <2>4. Len(todo) = Len(v) - Len(Its(b)) + 3
    BY CopyFacts
  <2>5. todo[Len(v) - Len(Its(b)) + 1] = Erase(o)
    BY CopyFacts
  <2>6. todo[Len(v) - Len(Its(b)) + 2] = Header(o)
    BY CopyFacts, SMTT(30)
  <2>7. todo[Len(v) - Len(Its(b)) + 3] = WriteState(b, "USED")
    BY CopyFacts, SMTT(30)
  <2> QED
    BY <2>1, <2>2, <2>3, <2>4, <2>5, <2>6, <2>7
<1>2. /\ Len(todo') = 2 /\ todo' \in Seq(Writes)
      /\ \A i \in 1..Len(todo') : todo'[i] = todo[i + 1]
      /\ Head(todo) = todo[1] /\ UNCHANGED <<legal, lossy>>
  <2>1. /\ Len(todo') = Len(todo) - 1 /\ todo' \in Seq(Writes)
        /\ \A i \in 1..Len(todo') : todo'[i] = todo[i + 1]
        /\ Head(todo) = todo[1] /\ UNCHANGED <<legal, lossy>>
    BY WriteRest
  <2> QED
    BY <1>1, <2>1
<1>3. todo' = <<Header(o), WriteState(b, "USED")>>
  <2> DEFINE x == Header(o)
             y == WriteState(b, "USED")
  <2>1. todo'[1] = x /\ todo'[2] = y
    BY <1>1, <1>2
  <2> HIDE DEF x, y
  <2>2. todo' = <<x, y>>
    BY <1>2, <2>1
  <2> QED
    BY <2>2 DEF x, y
<1>4. /\ flash'[o] = [state |-> "NONE", items |-> <<>>] /\ flash'[b] = flash[b]
      /\ UNCHANGED <<info, write_pos, clean_blk_nums>>
  BY <1>0, <1>1, <1>2, EraseStep
<1>5. /\ Exact(b) /\ flash[b].state = "CLEAN"
      /\ clean_blk_nums = 1 /\ write_pos = Place(b, Len(Its(b))) /\ Sound(o)
  BY DEF Copying
<1>6. /\ Idx(b) = 1..Len(v) /\ Idx(o) = 1..Len(Its(o)) /\ Len(v) \in 0..Len(Its(o))
      /\ \A i \in 1..Len(v) : v[i] \in Idx(o) /\ Its(o)[v[i]].live /\ Its(b)[i] = Its(o)[v[i]]
      /\ \A i, j \in 1..Len(v) : v[i] = v[j] => i = j
      /\ \A x \in Idx(o) : Its(o)[x].live => \E i \in 1..Len(v) : v[i] = x
  <2>1. /\ Len(v) \in 0..Len(Its(o))
        /\ \A i \in 1..Len(v) : v[i] \in Idx(o) /\ Its(o)[v[i]].live
    BY CopyFacts
  <2>2. \A i \in 1..Len(Its(b)) : Its(b)[i] = Its(o)[v[i]]
    BY CopyFacts
  <2>3. /\ \A i, j \in 1..Len(v) : v[i] = v[j] => i = j
        /\ \A x \in Idx(o) : Its(o)[x].live => \E i \in 1..Len(v) : v[i] = x
    BY CopyFacts
  <2>4. Idx(b) = 1..Len(v) /\ Idx(o) = 1..Len(Its(o))
    BY IdxNat
  <2> QED
    BY <2>1, <2>2, <2>3, <2>4
<1>7. /\ Len(Its(o)) <= Slots /\ NoTwins(o) /\ Filled(o) /\ AllOk(o) /\ Valued(o)
      /\ Len(Its(o)) \in Nat /\ Slots \in Nat
  BY <1>5, IdxNat, HoldersDiffer DEF Sound
<1>8. Len(Its(b)) <= Slots
  BY <1>6, <1>7
<1>9. NoTwins(b)
  <2>1. SUFFICES ASSUME NEW i \in Idx(b), NEW j \in Idx(b), Twins(b, i, j) PROVE FALSE
    BY DEF NoTwins
  <2>2. v[i] # v[j] /\ v[i] \in Idx(o) /\ v[j] \in Idx(o)
    BY <1>6, <2>1 DEF Twins
  <2>3. Twins(o, v[i], v[j])
    BY <1>6, <2>1, <2>2 DEF Twins
  <2> QED
    BY <1>7, <2>2, <2>3 DEF NoTwins
<1>10. Filled(b) /\ AllOk(b)
  BY <1>6, <1>7, SMTT(30) DEF Filled, AllOk
<1>11. Valued(b)
  <2>1. \A i \in Idx(b), k \in Keys : Good(b, i, k) => v[i] \in Idx(o) /\ Good(o, v[i], k) /\ Its(b)[i] = Its(o)[v[i]]
    BY <1>6 DEF Good
  <2>2. Lawful(b)
    BY <1>7, <2>1 DEF Valued, Lawful
  <2>3. ASSUME NEW k \in Keys, NEW x \in Idx(o), Good(o, x, k) PROVE \E i \in Idx(b) : Good(b, i, k)
    <3>1. PICK i \in 1..Len(v) : v[i] = x
      BY <1>6, <2>3 DEF Good
    <3> QED
      BY <1>6, <2>3, <3>1, SMTT(30) DEF Good
  <2> QED
    BY <1>7, <2>2, <2>3 DEF Valued
<1>12. Sound(b) /\ \A i \in Idx(b) : Its(b)[i].live
  BY <1>6, <1>8, <1>9, <1>10, <1>11 DEF Sound
<1>13. Sound(b)' /\ Its(b)' = Its(b) /\ Idx(b)' = Idx(b)
  BY <1>2, <1>4, <1>12, SoundFrame
<1>14. Exact(b)'
  BY <1>4, <1>5, <1>13 DEF Exact
<1> QED
  BY <1>3, <1>4, <1>5, <1>12, <1>13, <1>14 DEF Copied

\* The erased source gets its header.
LEMMA CopyHeaderShape ==
    ASSUME KvTypeOK, NEW b \in Blocks, NEW o \in Blocks, o = Other(b), Copied(b), Write,
           todo = <<Header(o), WriteState(b, "USED")>>
    PROVE  Copied(b)'
<1>0. b = Other(o)
  BY TwoBlocks
<1>1. Head(todo) = Header(o) /\ todo' = <<WriteState(b, "USED")>> /\ UNCHANGED <<legal, lossy>>
  BY ShortTails, WriteRest
<1>2. /\ flash' \in FlashType
      /\ flash'[o].state = "CLEAN" /\ flash'[b] = flash[b]
      /\ Its(o)' = Its(o)
      /\ info'[o] = Empty /\ info'[b] = info[b]
      /\ write_pos' = write_pos /\ clean_blk_nums' = clean_blk_nums + 1
  BY <1>0, <1>1, HeaderStep
<1>3. todo # <<WriteState(b, "USED")>>
  <2>1. Header(o) # WriteState(b, "USED")
    BY WriteFields
  <2> QED
    BY <1>1, <2>1, ShortTails
<1>4. /\ Exact(b) /\ flash[b].state = "CLEAN" /\ write_pos = Place(b, Len(Its(b)))
      /\ flash[o] = [state |-> "NONE", items |-> <<>>] /\ clean_blk_nums = 1
      /\ Sound(b) /\ \A i \in Idx(b) : Its(b)[i].live
  BY <1>3 DEF Copied
<1>5. flash'[o] = [state |-> "CLEAN", items |-> <<>>]
  <2>1. flash'[o] = [state |-> flash'[o].state, items |-> Its(o)']
    BY <1>2 DEF FlashType, Its
  <2> QED
    BY <1>2, <1>4, <2>1 DEF Its
<1>6. Sound(b)' /\ Its(b)' = Its(b) /\ Idx(b)' = Idx(b)
  BY <1>1, <1>2, <1>4, SoundFrame
<1>7. Exact(b)' /\ Exact(o)'
  BY <1>2, <1>4, <1>5, <1>6 DEF Exact, Empty, Its
<1> QED
  BY <1>1, <1>2, <1>4, <1>5, <1>6, <1>7 DEF Copied

\* The target is marked as used: calls may write to it.
LEMMA CopyUsedShape ==
    ASSUME KvTypeOK, NEW b \in Blocks, NEW o \in Blocks, o = Other(b), Copied(b), Write,
           todo = <<WriteState(b, "USED")>>, lock = GC
    PROVE  CallShape(b)' /\ todo' = <<>>
<1>1. Head(todo) = WriteState(b, "USED") /\ todo' = <<>> /\ UNCHANGED <<legal, lossy, lock>>
  BY ShortTails, WriteRest
<1>2. /\ flash'[b].state = "USED" /\ flash'[o] = flash[o]
      /\ info'[b] = [state |-> "USED", used |-> info[b].used] /\ info'[o] = info[o]
      /\ write_pos' = write_pos
      /\ clean_blk_nums' = clean_blk_nums - 1
  BY <1>1, StateStep
<1>3. /\ Its(b)' = Its(b) /\ Idx(b)' = Idx(b) /\ Its(o)' = Its(o)
      /\ \A i, j : Twins(b, i, j)' = Twins(b, i, j)
      /\ Filled(b)' = Filled(b) /\ AllOk(b)' = AllOk(b)
      /\ Valued(b) => Valued(b)'
  BY <1>1, StateFacts
<1>4. todo # <<Header(o), WriteState(b, "USED")>>
  BY <1>1, ShortTails, WriteFields
<1>5. /\ Exact(b) /\ flash[b].state = "CLEAN" /\ write_pos = Place(b, Len(Its(b)))
      /\ flash[o] = [state |-> "CLEAN", items |-> <<>>] /\ Exact(o) /\ clean_blk_nums = 2
      /\ Sound(b) /\ \A i \in Idx(b) : Its(b)[i].live
  BY <1>4 DEF Copied
<1>6. Parted(b)'
  <2>1. Exact(b)' /\ Exact(o)'
    BY <1>2, <1>3, <1>5 DEF Exact
  <2>2. clean_blk_nums' = 1
    BY <1>2, <1>5
  <2> QED
    BY <1>2, <1>3, <1>5, <2>1, <2>2 DEF Parted, Sound
<1>7. /\ \A i : ~Goes(b, i)'
      /\ ~Marks(b)'
  BY <1>1, ShortSets DEF Goes, Marks
<1>8. UsedLive(b)' /\ CallTwins(b)'
  BY <1>3, <1>5 DEF UsedLive, CallTwins, Sound, NoTwins
<1>9. Values(b)'
  BY <1>3, <1>5, <1>7 DEF Sound, Values, Valued
<1>10. Outcome(b)'
  <2>1. Job' = IdleTask
    BY <1>1, HoldersDiffer DEF Job
  <2> QED
    BY <2>1 DEF Outcome, IdleTask
<1>11. \A i \in 1..Len(todo') : CallWrite(b, i)'
  BY <1>1
<1> QED
  BY <1>1, <1>6, <1>8, <1>9, <1>10, <1>11 DEF CallShape

\* A write of the collection.
LEMMA GcWriteShape ==
    ASSUME KvTypeOK, NEW b \in Blocks, GcShape(b), Write, lock = GC
    PROVE  GcShape(b)'
<1> DEFINE o == Other(b)
<1>1. o \in Blocks
  BY TwoBlocks
<1>2. CASE Copying(b)
  BY <1>1, <1>2, CopyItemShape, CopyEraseShape DEF GcShape
<1>3. CASE Copied(b)
  <2>1. \/ todo = <<Header(o), WriteState(b, "USED")>>
        \/ todo = <<WriteState(b, "USED")>>
    BY <1>3 DEF Copied
  <2> QED
    BY <1>1, <1>3, <2>1, CopyHeaderShape, CopyUsedShape DEF GcShape
<1>4. todo # <<>>
  BY WriteRest
<1> QED
  BY <1>2, <1>3, <1>4 DEF GcShape

\* The collection ends when all is written.
LEMMA GcEndShape ==
    ASSUME KvTypeOK, Holders, NEW b \in Blocks, GcShape(b), GcEnd
    PROVE  CallShape(b)'
<1>1. /\ todo = <<>> /\ lock = GC /\ lock' = NULL
      /\ UNCHANGED <<flashVars, todo, task, legal, lossy>>
  BY DEF GcEnd, Holders
<1>2. ~Copying(b)
  <2>1. Copying(b) => Len(todo) >= 3
    BY DEF Copying, CopyList
  <2> QED
    BY <1>1, <2>1
<1>3. ~Copied(b)
  BY <1>1, ShortTails DEF Copied
<1>4. Job' = Job
  BY <1>1, HoldersDiffer, SMTT(30) DEF Job
<1> QED
  BY <1>1, <1>2, <1>3, <1>4, ShapeFrame DEF GcShape

-----------------------------------------------------------------------------
(* The power fails.                                                        *)

\* The flash after a power failure: as it was, or with a torn item.
LEMMA CrashFlash ==
    ASSUME KvTypeOK, Crash
    PROVE  \/ flash' = flash
           \/ \E b \in Blocks, it \in Items :
                 /\ todo # <<>> /\ Head(todo) = WriteItem(b, it)
                 /\ flash'[b].state = flash[b].state /\ flash'[Other(b)] = flash[Other(b)]
                 /\ Len(Its(b)') = Len(Its(b)) + 1
                 /\ Its(b)'[Len(Its(b)) + 1] = [it EXCEPT !.ok = FALSE]
                 /\ \A i \in Idx(b) : Its(b)'[i] = Its(b)[i]
                 /\ Idx(b)' = Idx(b) \cup {Len(Its(b)) + 1} /\ Len(Its(b)) + 1 \notin Idx(b)
<1>1. SUFFICES ASSUME todo # <<>>, Head(todo).do = "item",
                      flash' = [flash EXCEPT ![Head(todo).blk].items =
                                   Append(@, [Head(todo).item EXCEPT !.ok = FALSE])]
               PROVE  \E b \in Blocks, it \in Items :
                         /\ todo # <<>> /\ Head(todo) = WriteItem(b, it)
                         /\ flash'[b].state = flash[b].state /\ flash'[Other(b)] = flash[Other(b)]
                         /\ Len(Its(b)') = Len(Its(b)) + 1
                         /\ Its(b)'[Len(Its(b)) + 1] = [it EXCEPT !.ok = FALSE]
                         /\ \A i \in Idx(b) : Its(b)'[i] = Its(b)[i]
                         /\ Idx(b)' = Idx(b) \cup {Len(Its(b)) + 1} /\ Len(Its(b)) + 1 \notin Idx(b)
  BY DEF Crash
<1>2. Head(todo) \in Writes
  BY <1>1 DEF KvTypeOK
<1>3. PICK w \in Writes : w = Head(todo)
  BY <1>2
<1>4. PICK b \in Blocks, it \in Items : b = w.blk /\ it = w.item
  BY <1>1, <1>3, WriteKinds
<1>5. w = WriteItem(b, it)
  BY <1>1, <1>3, <1>4 DEF Writes, WriteItem
<1>6. PICK torn : torn = [it EXCEPT !.ok = FALSE]
  OBVIOUS
<1>7. torn \in Items
  BY <1>6 DEF Items
<1>8. flash' = [flash EXCEPT ![b].items = Append(@, torn)]
  BY <1>1, <1>3, <1>4, <1>6
<1>9. flash \in FlashType /\ Its(b) \in Seq(Items) /\ Len(Its(b)) \in Nat /\ Idx(b) = 1..Len(Its(b))
      /\ Other(b) # b /\ Other(b) \in Blocks
  BY FlashTypes, IdxNat, TwoBlocks
<1>10. /\ flash'[b].items = Append(flash[b].items, torn) /\ flash'[b].state = flash[b].state
       /\ flash'[Other(b)] = flash[Other(b)]
  BY <1>8, <1>9 DEF FlashType
<1>11. Its(b)' = Append(Its(b), torn) /\ Idx(b)' = 1..Len(Its(b)')
  BY <1>10 DEF Its, Idx
<1>12. /\ Len(Its(b)') = Len(Its(b)) + 1 /\ Its(b)'[Len(Its(b)) + 1] = torn
       /\ \A i \in 1..Len(Its(b)) : Its(b)'[i] = Its(b)[i]
  BY <1>7, <1>9, <1>11
<1>13. Idx(b)' = Idx(b) \cup {Len(Its(b)) + 1} /\ Len(Its(b)) + 1 \notin Idx(b)
  BY <1>9, <1>11, <1>12
<1> QED
  BY <1>1, <1>3, <1>5, <1>6, <1>9, <1>10, <1>12, <1>13

\* kv_init has yet to read the blocks.
LEMMA StartFacts ==
    ASSUME Crash
    PROVE  /\ \A b, i : ~Goes(b, i)'
           /\ \A b \in Blocks : \A i : ~Reached(b, i)'
           /\ \A k : Free(k) => Free(k)'
           /\ legal' = legal
           /\ BootTodo' /\ BootStage' /\ BootInfo'
<1>1. /\ info' = [b \in Blocks |-> Unread] /\ clean_blk_nums' = 0
      /\ todo' = <<>> /\ boot' = Off /\ legal' = legal
  BY DEF Crash, Fresh, Unread
<1>2. boot'.stage = "blocks" /\ boot'.blk = 0 /\ boot'.unclean = <<>>
  BY <1>1 DEF Off
<1>3. \A b, i : ~Goes(b, i)'
  BY <1>1, ShortSets DEF Goes
<1>4. \A b \in Blocks : \A i : ~Reached(b, i)'
  BY <1>2, TwoBlocks DEF Reached
<1>5. \A k : Free(k) => Free(k)'
  BY <1>1 DEF Free, Crash
<1>6. BootTodo' /\ BootStage'
  BY <1>1, <1>2 DEF BootTodo, BootStage
<1>7. BootInfo'
  <2>1. \A b \in Blocks : info'[b] = Unread /\ info'[b] # Empty
    BY <1>1 DEF Unread, Empty
  <2>2. Count(0)' = 0 /\ Count(1)' = 0
    BY <2>1, TwoBlocks DEF Count
  <2>3. \A b \in Blocks : ~(b < boot'.blk)
    BY <1>2, TwoBlocks
  <2> QED
    BY <1>1, <1>2, <1>4, <2>1, <2>2, <2>3 DEF BootInfo
<1> QED
  BY <1>1, <1>3, <1>4, <1>5, <1>6, <1>7

\* All items are in one block.
LEMMA StartSingle ==
    ASSUME Crash, NEW b \in Blocks, Its(Other(b))' = <<>>, flash'[Other(b)].state \in {"NONE", "CLEAN"},
           flash'[b].state = "NONE" => Its(b)' = <<>>,
           Len(Its(b)') <= Slots, Filled(b)',
           \A i, j \in Idx(b)' : Twins(b, i, j)' =>
              Its(b)'[i].origin = Place(b, j) \/ Its(b)'[j].origin = Place(b, i),
           Valued(b)'
    PROVE  Single(b)'
<1>1. /\ \A c, i : ~Goes(c, i)'
      /\ \A c \in Blocks : \A i : ~Reached(c, i)'
  BY StartFacts
<1>2. BootTwins(b)'
  BY <1>1 DEF BootTwins
<1>3. Values(b)'
  BY <1>1 DEF Values, Valued
<1> QED
  BY <1>1, <1>2, <1>3 DEF Single

\* The power fails in a call, or between calls.
LEMMA CrashCall ==
    ASSUME KvTypeOK, NEW b \in Blocks, CallShape(b), Crash
    PROVE  Single(b)'
<1>1. /\ Parted(b) /\ CallTwins(b) /\ Values(b)
      /\ \A i \in 1..Len(todo) : CallWrite(b, i)
  BY DEF CallShape
<1>2. /\ flash[Other(b)] = [state |-> "CLEAN", items |-> <<>>]
      /\ flash[b].state # "NONE"
      /\ Len(Its(b)) <= Slots /\ Filled(b)
  BY <1>1 DEF Parted
<1>3. legal' = legal /\ \A k : Free(k) => Free(k)'
  BY StartFacts
<1>4. Lawful(b) /\ \A k \in Keys : Free(k) \/ \E i \in Idx(b) : Good(b, i, k)
  BY <1>1 DEF Values
<1>5. CASE flash' = flash
  <2>1. /\ Its(b)' = Its(b) /\ Idx(b)' = Idx(b) /\ Its(Other(b))' = <<>>
        /\ \A i, k : Good(b, i, k)' = Good(b, i, k)
        /\ \A i, j : Twins(b, i, j)' = Twins(b, i, j)
    BY <1>2, <1>5 DEF Its, Idx, Good, Twins
  <2>2. Filled(b)' /\ Lawful(b)'
    BY <1>2, <1>3, <1>4, <2>1 DEF Filled, Lawful
  <2>3. Valued(b)'
    BY <1>3, <1>4, <2>1, <2>2 DEF Valued
  <2>4. \A i, j \in Idx(b)' : Twins(b, i, j)' =>
              Its(b)'[i].origin = Place(b, j) \/ Its(b)'[j].origin = Place(b, i)
    BY <1>1, <2>1 DEF CallTwins
  <2> QED
    BY <1>2, <1>5, <2>1, <2>2, <2>3, <2>4, StartSingle
<1>6. ASSUME NEW c \in Blocks, NEW it \in Items,
             todo # <<>>, Head(todo) = WriteItem(c, it),
             flash'[c].state = flash[c].state, flash'[Other(c)] = flash[Other(c)],
             Len(Its(c)') = Len(Its(c)) + 1,
             Its(c)'[Len(Its(c)) + 1] = [it EXCEPT !.ok = FALSE],
             \A i \in Idx(c) : Its(c)'[i] = Its(c)[i],
             Idx(c)' = Idx(c) \cup {Len(Its(c)) + 1}, Len(Its(c)) + 1 \notin Idx(c)
      PROVE  Single(b)'
  <2>1. c = b /\ NewItem(b, it)
    <3>1. Head(todo) = todo[1] /\ Len(todo) \in Nat \ {0} /\ todo \in Seq(Writes)
      BY <1>6, HeadOrTail DEF KvTypeOK
    <3>2. CallWrite(b, 1)
      BY <1>1, <3>1
    <3>3. todo[1].do = "item" /\ todo[1].blk = c /\ todo[1].item = it
      BY <1>6, <3>1, WriteFields
    <3>4. \A n : todo[1] # WriteDelete(Place(b, n)) /\ todo[1] # WriteState(b, "DIRTY")
      BY <3>3, WriteFields
    <3> QED
      BY <3>2, <3>3, <3>4 DEF CallWrite
  <2>2. PICK m : m = Len(Its(b)) + 1
    OBVIOUS
  <2>3. PICK torn : torn = [it EXCEPT !.ok = FALSE]
    OBVIOUS
  <2>4. torn.live /\ ~torn.ok /\ torn.key = it.key /\ torn.val = it.val /\ torn.origin = it.origin
    BY <2>1, <2>3 DEF NewItem, Items
  <2>5. /\ Len(Its(b)) < Slots /\ Len(Its(b)) \in Nat /\ Slots \in Nat
        /\ it.key \in Keys /\ it.val \in Vals
        /\ \A j \in Idx(b) : Its(b)[j].live /\ Its(b)[j].key = it.key => it.origin = Place(b, j)
    BY <2>1, IdxNat, HoldersDiffer DEF NewItem
  <2>6. /\ flash'[b].state = flash[b].state /\ flash'[Other(b)] = flash[Other(b)]
        /\ Len(Its(b)') = m /\ Its(b)'[m] = torn
        /\ \A i \in Idx(b) : Its(b)'[i] = Its(b)[i]
        /\ Idx(b)' = Idx(b) \cup {m} /\ m \notin Idx(b) /\ Its(Other(b))' = <<>>
    BY <1>2, <1>6, <2>1, <2>2, <2>3 DEF Its
  <2>7. /\ \A i \in Idx(b) : \A k : Good(b, i, k)' = Good(b, i, k)
        /\ \A k : ~Good(b, m, k)'
    BY <2>4, <2>6 DEF Good
  <2>8. Filled(b)'
    BY <1>2, <2>4, <2>5, <2>6 DEF Filled
  <2>9. Lawful(b)'
    BY <1>3, <1>4, <2>6, <2>7 DEF Lawful
  <2>10. Valued(b)'
    BY <1>3, <1>4, <2>6, <2>7, <2>9 DEF Valued
  <2>11. ASSUME NEW i \in Idx(b)', NEW j \in Idx(b)', Twins(b, i, j)'
         PROVE  Its(b)'[i].origin = Place(b, j) \/ Its(b)'[j].origin = Place(b, i)
    <3>1. i # j /\ Its(b)'[i].live /\ Its(b)'[j].live /\ Its(b)'[i].key = Its(b)'[j].key
      BY <2>11 DEF Twins
    <3>2. CASE i \in Idx(b) /\ j \in Idx(b)
      <4>1. Twins(b, i, j)
        BY <2>6, <3>1, <3>2 DEF Twins
      <4> QED
        BY <1>1, <2>6, <3>2, <4>1 DEF CallTwins
    <3>3. CASE i = m
      BY <2>4, <2>5, <2>6, <3>1, <3>3
    <3>4. CASE j = m
      BY <2>4, <2>5, <2>6, <3>1, <3>4
    <3> QED
      BY <2>6, <3>2, <3>3, <3>4
  <2>12. Len(Its(b)') <= Slots /\ flash'[Other(b)].state = "CLEAN" /\ flash'[b].state # "NONE"
    BY <1>2, <2>2, <2>5, <2>6
  <2> QED
    BY <2>6, <2>8, <2>10, <2>11, <2>12, StartSingle
<1> QED
  BY <1>5, <1>6, CrashFlash

\* The collection is interrupted.
LEMMA StartDouble ==
    ASSUME Crash, NEW b \in Blocks, flash'[b].state = "DIRTY", flash'[Other(b)].state = "CLEAN",
           Its(Other(b))' # <<>>, Len(Its(b)') <= Slots, NoTwins(b)', Filled(b)', AllOk(b)',
           Valued(b)', NoTwins(Other(b))',
           \A i \in Idx(b)', j \in Idx(Other(b))' : Copies(b, Other(b), i, j)' => lossy'
    PROVE  Double(b)'
<1>1. \A c, i : ~Goes(c, i)'
  BY StartFacts
<1>2. Values(b)'
  BY <1>1 DEF Values, Valued
<1> QED
  BY <1>2 DEF Double

\* A power failure leaves a block as it was.
LEMMA CrashFrame ==
    ASSUME Crash, NEW b \in Blocks, flash'[b] = flash[b]
    PROVE  /\ Its(b)' = Its(b) /\ Idx(b)' = Idx(b)
           /\ \A i, k : Good(b, i, k)' = Good(b, i, k)
           /\ \A i, j : Twins(b, i, j)' = Twins(b, i, j)
           /\ NoTwins(b)' = NoTwins(b) /\ Filled(b)' = Filled(b) /\ AllOk(b)' = AllOk(b)
           /\ Lawful(b)' = Lawful(b)
           /\ Valued(b) => Valued(b)'
           /\ Values(b) => Valued(b)'
<1>1. legal' = legal /\ \A k : Free(k) => Free(k)'
  BY StartFacts
<1>2. /\ Its(b)' = Its(b) /\ Idx(b)' = Idx(b)
      /\ \A i, k : Good(b, i, k)' = Good(b, i, k)
      /\ \A i, j : Twins(b, i, j)' = Twins(b, i, j)
  BY DEF Its, Idx, Good, Twins
<1>3. NoTwins(b)' = NoTwins(b)
  BY <1>2 DEF NoTwins
<1>4. Filled(b)' = Filled(b) /\ AllOk(b)' = AllOk(b)
  BY <1>2 DEF Filled, AllOk
<1>5. Lawful(b)' = Lawful(b)
  BY <1>1, <1>2 DEF Lawful
<1>6. Valued(b) => Valued(b)'
  BY <1>1, <1>2, <1>5 DEF Valued
<1>7. Values(b) => Valued(b)'
  BY <1>1, <1>2, <1>5 DEF Valued, Values
<1> QED
  BY <1>2, <1>3, <1>4, <1>5, <1>6, <1>7

\* A copy with the origin it was copied from is what the window of the history is about.
LEMMA CopyWindow ==
    ASSUME KvTypeOK, lock = GC, NEW b \in Blocks, NEW o \in Blocks, o # b, write_pos.blk = b,
           NEW i \in Idx(o), NEW j \in Idx(b), Its(b)[j] = Its(o)[i], Its(b)[j].ok,
           Its(b)[j].origin = Place(o, i)
    PROVE  Window
<1>1. Place(o, i).blk = o /\ Place(o, i).n = i /\ Place(o, i) \in Places
  BY IdxNat DEF Place, Places
<1>2. Place(o, i) # NULL
  BY <1>1, HoldersDiffer
<1>3. Holds(flash, Place(o, i)) /\ At(flash, Place(o, i)) = Its(b)[j]
  BY <1>1, <1>2 DEF Holds, At, Its, Idx
<1> QED
  BY <1>1, <1>3 DEF Window, Its, Idx

\* The power fails before the source of a collection is erased.
LEMMA CrashCopying ==
    ASSUME KvTypeOK, NEW b \in Blocks, NEW o \in Blocks, o = Other(b), Copying(b), lock = GC, Crash
    PROVE  Single(o)' \/ Double(o)'
<1>0. b = Other(o) /\ o # b
  BY TwoBlocks
<1>1. PICK v : v = LiveIn(flash, o)
  OBVIOUS
<1>2. PICK n \in Nat : n = Len(Its(b)) /\ Len(v) \in Nat /\ n <= Len(v)
  BY <1>1, CopyFacts
<1>3. /\ flash[b].state = "CLEAN" /\ flash[o].state = "DIRTY" /\ write_pos.blk = b
      /\ Len(Its(o)) <= Slots /\ NoTwins(o) /\ Filled(o) /\ AllOk(o) /\ Valued(o)
  BY DEF Copying, Sound, Place
<1>4. /\ \A i \in 1..n : Its(b)[i] = Its(o)[v[i]]
      /\ \A i \in 1..Len(v) : v[i] \in Idx(o) /\ Its(o)[v[i]].live
      /\ \A i, j \in 1..Len(v) : v[i] = v[j] => i = j
      /\ n # Len(v) => todo[1] = WriteItem(b, Its(o)[v[n + 1]])
      /\ n = Len(v) => todo[1] = Erase(o)
      /\ Idx(b) = 1..n
  <2>1. \A i \in 1..n : Its(b)[i] = Its(o)[v[i]]
    BY <1>1, <1>2, CopyFacts
  <2>2. n # Len(v) => todo[1] = WriteItem(b, Its(o)[v[n + 1]])
    <3>1. \A i \in 1..(Len(v) - n) : todo[i] = WriteItem(b, Its(o)[v[n + i]])
      BY <1>1, <1>2, CopyFacts
    <3> QED
      BY <1>2, <3>1
  <2>3. n = Len(v) => todo[1] = Erase(o)
    <3>1. todo[Len(v) - n + 1] = Erase(o)
      BY <1>1, <1>2, CopyFacts
    <3> QED
      BY <1>2, <3>1
  <2>4. /\ \A i \in 1..Len(v) : v[i] \in Idx(o) /\ Its(o)[v[i]].live
        /\ \A i, j \in 1..Len(v) : v[i] = v[j] => i = j
    BY <1>1, CopyFacts, SMTT(30)
  <2> QED
    BY <1>2, <2>1, <2>2, <2>3, <2>4, IdxNat
<1>6. /\ flash'[o] = flash[o] /\ flash'[b].state = flash[b].state
      /\ \E k \in Nat : /\ n <= k /\ k <= Len(v) /\ Idx(b)' = 1..k /\ Len(Its(b)') = k
                        /\ \A i \in 1..n : Its(b)'[i] = Its(b)[i]
                        /\ \A i \in 1..k : /\ Its(b)'[i].key = Its(o)[v[i]].key
                                           /\ Its(b)'[i].ok => i \in 1..n
  <2>1. CASE flash' = flash
    <3>1. Its(b)' = Its(b) /\ Idx(b)' = Idx(b)
      BY <2>1 DEF Its, Idx
    <3> QED
      BY <1>2, <1>4, <2>1, <3>1
  <2>2. ASSUME NEW c \in Blocks, NEW it \in Items,
               todo # <<>>, Head(todo) = WriteItem(c, it),
               flash'[c].state = flash[c].state, flash'[Other(c)] = flash[Other(c)],
               Len(Its(c)') = Len(Its(c)) + 1,
               Its(c)'[Len(Its(c)) + 1] = [it EXCEPT !.ok = FALSE],
               \A i \in Idx(c) : Its(c)'[i] = Its(c)[i],
               Idx(c)' = Idx(c) \cup {Len(Its(c)) + 1}, Len(Its(c)) + 1 \notin Idx(c)
        PROVE  /\ flash'[o] = flash[o] /\ flash'[b].state = flash[b].state
               /\ \E k \in Nat : /\ n <= k /\ k <= Len(v) /\ Idx(b)' = 1..k /\ Len(Its(b)') = k
                                 /\ \A i \in 1..n : Its(b)'[i] = Its(b)[i]
                                 /\ \A i \in 1..k : /\ Its(b)'[i].key = Its(o)[v[i]].key
                                                    /\ Its(b)'[i].ok => i \in 1..n
    <3>1. Head(todo) = todo[1]
      BY <2>2, HeadOrTail DEF KvTypeOK
    <3>2. n # Len(v)
      BY <1>4, <2>2, <3>1, WriteFields, SMTT(30)
    <3>3. c = b /\ it = Its(o)[v[n + 1]]
      BY <1>4, <2>2, <3>1, <3>2, WriteFields
    <3>4. PICK torn : torn = [it EXCEPT !.ok = FALSE]
      OBVIOUS
    <3>5. ~torn.ok /\ torn.key = it.key
      BY <3>4 DEF Items
    <3>6. PICK k \in Nat : k = n + 1
      BY <1>2
    <3>7. /\ n <= k /\ k <= Len(v) /\ 1..k = 1..n \cup {k}
      BY <1>2, <3>2, <3>6
    <3>8. Len(Its(b)') = k /\ Its(b)'[k] = torn /\ Idx(b)' = 1..k
      <4>1. Len(Its(b)') = k /\ Its(b)'[k] = torn
        BY <1>2, <2>2, <3>3, <3>4, <3>6
      <4> QED
        BY <4>1 DEF Idx, Its
    <3>10. \A i \in 1..n : Its(b)'[i] = Its(b)[i]
      BY <1>4, <2>2, <3>3
    <3>11. \A i \in 1..n : Its(b)'[i].key = Its(o)[v[i]].key
      BY <1>4, <3>10
    <3>12. Its(b)'[k].key = Its(o)[v[k]].key /\ ~Its(b)'[k].ok
      BY <3>3, <3>5, <3>6, <3>8
    <3>13. \A i \in 1..k : /\ Its(b)'[i].key = Its(o)[v[i]].key
                           /\ Its(b)'[i].ok => i \in 1..n
      BY <3>7, <3>11, <3>12
    <3>9. flash'[o] = flash[o] /\ flash'[b].state = flash[b].state
      BY <2>2, <3>3
    <3> QED
      BY <3>7, <3>8, <3>9, <3>10, <3>13
  <2> QED
    BY <2>1, <2>2, CrashFlash
<1>7. PICK k \in Nat : /\ n <= k /\ k <= Len(v) /\ Idx(b)' = 1..k /\ Len(Its(b)') = k
                       /\ \A i \in 1..n : Its(b)'[i] = Its(b)[i]
                       /\ \A i \in 1..k : /\ Its(b)'[i].key = Its(o)[v[i]].key
                                          /\ Its(b)'[i].ok => i \in 1..n
  BY <1>6
<1>8. /\ Its(o)' = Its(o) /\ Idx(o)' = Idx(o)
      /\ NoTwins(o)' /\ Filled(o)' /\ AllOk(o)' /\ Valued(o)'
  BY <1>3, <1>6, CrashFrame
<1>9. CASE k = 0
  <2>1. Its(b)' = <<>>
    <3>1. Its(b)' \in Seq(Items)
      <4>1. flash' \in FlashType
        BY CrashTypeOK DEF KvTypeOK
      <4> QED
        BY <4>1 DEF FlashType, Its
    <3> QED
      BY <1>7, <1>9, <3>1
  <2>2. \A i, j \in Idx(o)' : ~Twins(o, i, j)'
    BY <1>8 DEF NoTwins
  <2> QED
    BY <1>0, <1>3, <1>6, <1>8, <2>1, <2>2, StartSingle
<1>10. CASE k # 0
  <2>1. Its(b)' # <<>>
    BY <1>7, <1>10
  <2>2. \A i, j \in 1..k : Twins(b, i, j)' => Twins(o, v[i], v[j])
    <3>1. TAKE i \in 1..k, j \in 1..k
    <3>2. i \in 1..Len(v) /\ j \in 1..Len(v)
      BY <1>7
    <3> QED
      BY <1>4, <1>7, <3>2 DEF Twins
  <2>3. NoTwins(b)'
    <3>1. \A i \in 1..k : v[i] \in Idx(o)
      BY <1>4, <1>7
    <3> QED
      BY <1>3, <1>7, <2>2, <3>1 DEF NoTwins
  <2>4. ASSUME NEW i \in Idx(o), NEW j \in 1..k, Copies(o, b, i, j)' PROVE lossy'
    <3>1. /\ Its(b)'[j].ok /\ Its(o)[i].live
          /\ Its(o)[i].key = Its(b)'[j].key /\ Its(b)'[j].origin = Place(o, i)
      BY <1>8, <2>4 DEF Copies
    <3>2. j \in 1..n /\ j \in 1..Len(v) /\ Its(b)'[j] = Its(o)[v[j]] /\ v[j] \in Idx(o)
      BY <1>2, <1>4, <1>7, <3>1
    <3>3. v[j] = i
      BY <1>3, <1>4, <3>1, <3>2 DEF NoTwins, Twins
    <3>4. Its(b)[j] = Its(o)[i] /\ Its(b)[j].ok /\ Its(b)[j].origin = Place(o, i) /\ j \in Idx(b)
      BY <1>4, <1>7, <3>1, <3>2, <3>3
    <3>5. Window
      BY <1>0, <1>3, <3>4, CopyWindow
    <3>6. lossy' = (lossy \/ Window)
      BY DEF Crash
    <3> QED
      BY <3>5, <3>6, Zenon
  <2>5. \A i \in Idx(o)', j \in Idx(Other(o))' : Copies(o, Other(o), i, j)' => lossy'
    BY <1>0, <1>7, <1>8, <2>4, Zenon
  <2> QED
    BY <1>0, <1>3, <1>6, <1>8, <2>1, <2>3, <2>5, StartDouble
<1> QED
  BY <1>9, <1>10

\* The power fails after the erase.
LEMMA CrashCopied ==
    ASSUME KvTypeOK, NEW b \in Blocks, Copied(b), Crash
    PROVE  Single(b)'
<1>1. /\ flash[b].state = "CLEAN" /\ Its(Other(b)) = <<>> /\ flash[Other(b)].state \in {"NONE", "CLEAN"}
      /\ Len(Its(b)) <= Slots /\ NoTwins(b) /\ Filled(b) /\ Valued(b)
  BY DEF Copied, Sound, Its
<1>2. Head(todo) = Header(Other(b)) \/ Head(todo) = WriteState(b, "USED")
  BY ShortTails DEF Copied
<1>3. flash' = flash
  <2>1. Head(todo).do # "item"
    BY <1>2, WriteFields
  <2>2. \A c, it : Head(todo) # WriteItem(c, it)
    BY <2>1, WriteFields
  <2> QED
    BY <2>2, CrashFlash
<1>4. /\ Its(b)' = Its(b) /\ Idx(b)' = Idx(b) /\ Its(Other(b))' = <<>>
      /\ NoTwins(b)' /\ Filled(b)' /\ Valued(b)'
  BY <1>1, <1>3, CrashFrame DEF Its
<1>5. \A i, j \in Idx(b)' : ~Twins(b, i, j)'
  BY <1>4 DEF NoTwins
<1> QED
  BY <1>1, <1>3, <1>4, <1>5, StartSingle

\* The power fails in the recovery.
LEMMA CrashBoot ==
    ASSUME KvTypeOK, BootShape, Crash
    PROVE  \E b \in Blocks : Single(b)' \/ Double(b)'
<1>1. \A b, it : todo # <<>> => Head(todo) # WriteItem(b, it)
  <2>1. ASSUME NEW b, NEW it, todo # <<>>, Head(todo) = WriteItem(b, it) PROVE FALSE
    <3>1. Head(todo).do = "item"
      BY <2>1, WriteFields
    <3>2. ~ItemWrites
      BY <3>1, ShortTails, WriteFields DEF ItemWrites
    <3>3. \A c : ~Formats(c)
      BY <3>1, ShortTails, WriteFields DEF Formats
    <3>4. \A c, s : todo # <<WriteState(c, s)>>
      BY <3>1, ShortTails, WriteFields
    <3> QED
      BY <2>1, <3>2, <3>3, <3>4 DEF BootShape, BootTodo, FormatWrites
  <2> QED
    BY <2>1
<1>2. flash' = flash
  BY <1>1, CrashFlash
<1>3. PICK b \in Blocks : Single(b) \/ Double(b)
  BY DEF BootShape
<1> DEFINE o == Other(b)
<1>4. o \in Blocks
  BY TwoBlocks
<1>5. /\ Its(b)' = Its(b) /\ Idx(b)' = Idx(b)
      /\ \A i, j : Twins(b, i, j)' = Twins(b, i, j)
      /\ NoTwins(b)' = NoTwins(b) /\ Filled(b)' = Filled(b) /\ AllOk(b)' = AllOk(b)
      /\ Values(b) => Valued(b)'
  BY <1>2, CrashFrame
<1>6. Its(o)' = Its(o) /\ Idx(o)' = Idx(o) /\ NoTwins(o)' = NoTwins(o)
  BY <1>2, <1>4, CrashFrame
<1>7. CASE Single(b)
  BY <1>2, <1>5, <1>6, <1>7, StartSingle DEF Single, BootTwins
<1>8. CASE Double(b)
  <2>1. /\ flash[b].state = "DIRTY" /\ flash[o].state = "CLEAN" /\ Its(o) # <<>>
        /\ Len(Its(b)) <= Slots /\ NoTwins(b) /\ Filled(b) /\ AllOk(b) /\ Values(b)
        /\ NoTwins(o)
        /\ \A i \in Idx(b), j \in Idx(o) : Copies(b, o, i, j) => lossy
    BY <1>8 DEF Double
  <2>2. \A i \in Idx(b)', j \in Idx(o)' : Copies(b, o, i, j)' = Copies(b, o, i, j)
    BY <1>5, <1>6 DEF Copies
  <2>3. lossy => lossy'
    BY DEF Crash
  <2>4. \A i \in Idx(b)', j \in Idx(o)' : Copies(b, o, i, j)' => lossy'
    BY <1>5, <1>6, <2>1, <2>2, <2>3, Zenon
  <2>5. flash'[b].state = "DIRTY" /\ flash'[o].state = "CLEAN" /\ Its(o)' # <<>> /\ Len(Its(b)') <= Slots
    BY <1>2, <1>5, <1>6, <2>1
  <2>6. NoTwins(b)' /\ Filled(b)' /\ AllOk(b)' /\ Valued(b)' /\ NoTwins(o)'
    BY <1>5, <1>6, <2>1
  <2> QED
    BY <2>4, <2>5, <2>6, StartDouble
<1> QED
  BY <1>3, <1>7, <1>8

\* The power fails at any time.
LEMMA CrashShape ==
    ASSUME KvIInv, Crash
    PROVE  BootShape'
<1>1. KvTypeOK
  BY DEF KvIInv
<1>2. BootTodo' /\ BootStage' /\ BootInfo'
  BY StartFacts
<1>3. \E b \in Blocks : Single(b)' \/ Double(b)'
  <2>1. CASE lock \in Tasks \cup {NULL}
    <3>1. PICK b \in Blocks : CallShape(b)
      BY <2>1 DEF KvIInv
    <3> QED
      BY <1>1, <3>1, CrashCall
  <2>2. CASE lock = GC
    <3>1. PICK b \in Blocks : GcShape(b)
      BY <2>2 DEF KvIInv
    <3>2. Other(b) \in Blocks
      BY TwoBlocks
    <3> QED
      BY <1>1, <2>2, <3>1, <3>2, CrashCall, CrashCopying, CrashCopied DEF GcShape
  <2>3. CASE lock = BOOT
    <3>1. BootShape
      BY <2>3 DEF KvIInv
    <3> QED
      BY <1>1, <3>1, CrashBoot
  <2> QED
    BY <1>1, <2>1, <2>2, <2>3 DEF KvTypeOK
<1> QED
  BY <1>2, <1>3 DEF BootShape

-----------------------------------------------------------------------------
(* The recovery reads the flash.                                           *)

\* Nothing is left to write.
LEMMA NoWrites ==
    ASSUME todo = <<>>
    PROVE  /\ \A b, i : ~Goes(b, i)
           /\ \A b : ~Marks(b) /\ ~Formats(b)
           /\ \A k : ~Pended(k)
BY ShortSets, ShortTails DEF Goes, Marks, Formats, Pended

\* The writes left format a block.
LEMMA FormatFacts ==
    ASSUME NEW b \in Blocks, NEW r, r = <<Erase(b), Header(b)>> \/ r = <<Header(b)>>
    PROVE  /\ \A c, i : WriteDelete(Place(c, i)) \notin ToSet(r)
           /\ \A c, s : WriteState(c, s) \notin ToSet(r)
           /\ r # <<>>
           /\ \A c : r = <<Erase(c), Header(c)>> \/ r = <<Header(c)>> => c = b
<1>1. /\ \A c, i : WriteDelete(Place(c, i)) \notin ToSet(r)
      /\ \A c, s : WriteState(c, s) \notin ToSet(r)
  BY ShortSets, WriteDiffer
<1>2. Head(r) = Erase(b) \/ Head(r) = Header(b)
  BY ShortTails
<1>3. r # <<>>
  BY ShortTails
<1>4. ASSUME NEW c, r = <<Erase(c), Header(c)>> \/ r = <<Header(c)>> PROVE c = b
  <2>1. Head(r) = Erase(c) \/ Head(r) = Header(c)
    BY <1>4, ShortTails
  <2>2. Erase(c).blk = c /\ Header(c).blk = c /\ Erase(b).blk = b /\ Header(b).blk = b
    BY DEF Erase, Header
  <2> QED
    BY <1>2, <2>1, <2>2
<1> QED
  BY <1>1, <1>3, <1>4

\* What kv_init knows between two writes.
LEMMA BootQuiet ==
    ASSUME KvTypeOK, BootShape, todo = <<>>
    PROVE  /\ \A c \in Blocks : c < boot.blk =>
                 Exact(c) /\ (Unfit(c) <=> c \in ToSet(boot.unclean))
           /\ \A c \in Blocks : \A i \in Idx(c) :
                 flash[c].state = "USED" /\ Reached(c, i) => Its(c)[i].live
           /\ \A c \in ToSet(boot.unclean) : c \in Blocks /\ c < boot.blk
           /\ \A c \in Blocks : c > boot.blk \/ (c = boot.blk /\ boot.stage = "blocks") => info[c] = Unread
           /\ clean_blk_nums = Count(0) + Count(1)
           /\ \E b \in Blocks : Single(b) \/ Double(b)
           /\ BootStage
<1>1. BootInfo /\ BootStage /\ \E b \in Blocks : Single(b) \/ Double(b)
  BY DEF BootShape
<1>2. /\ \A b, i : ~Goes(b, i)
      /\ \A b : ~Marks(b)
  BY NoWrites
<1>3. \A c \in Blocks : c < boot.blk => Exact(c) /\ (Unfit(c) <=> c \in ToSet(boot.unclean))
  <2>1. TAKE c \in Blocks
  <2>2. HAVE c < boot.blk
  <2>3. BootRead(c)
    BY <1>1, <2>2 DEF BootInfo
  <2> QED
    BY <1>2, <2>3 DEF BootRead, Listed
<1>4. \A c \in ToSet(boot.unclean) : c \in Blocks /\ c < boot.blk
  <2>1. CASE boot.unclean = <<>>
    BY <2>1, ShortSets
  <2>2. ASSUME NEW c \in Blocks, boot.unclean = <<c>>, c < boot.blk
        PROVE  \A e \in ToSet(boot.unclean) : e \in Blocks /\ e < boot.blk
    <3>1. \A e \in ToSet(boot.unclean) : e = c
      BY <2>2, ShortSets
    <3> QED
      BY <2>2, <3>1
  <2> QED
    BY <1>1, <2>1, <2>2 DEF BootInfo
<1>5. \A c \in Blocks : \A i \in Idx(c) :
                 flash[c].state = "USED" /\ Reached(c, i) => Its(c)[i].live
  BY <1>1, <1>2 DEF BootInfo
<1>6. /\ \A c \in Blocks : c > boot.blk \/ (c = boot.blk /\ boot.stage = "blocks") => info[c] = Unread
      /\ clean_blk_nums = Count(0) + Count(1)
  BY <1>1 DEF BootInfo
<1> QED
  BY <1>1, <1>3, <1>4, <1>5, <1>6

\* A step that leaves the items alone, and deletes none.
LEMMA BootFrame ==
    ASSUME UNCHANGED <<legal, lossy>>, \A c \in Blocks : flash'[c] = flash[c],
           \A c, i : ~Goes(c, i)',
           \A c \in Blocks : \A i \in Idx(c) : ~Goes(c, i) /\ (Reached(c, i)' => Reached(c, i)),
           \E b \in Blocks : Single(b) \/ Double(b)
    PROVE  \E b \in Blocks : Single(b)' \/ Double(b)'
<1>1. PICK b \in Blocks : Single(b) \/ Double(b)
  OBVIOUS
<1> DEFINE o == Other(b)
<1>2. o \in Blocks
  BY TwoBlocks
<1>3. \A c \in Blocks : /\ Its(c)' = Its(c) /\ Idx(c)' = Idx(c)
                        /\ \A i, k : Good(c, i, k)' = Good(c, i, k)
                        /\ NoTwins(c)' = NoTwins(c) /\ Filled(c)' = Filled(c)
                        /\ AllOk(c)' = AllOk(c) /\ Lawful(c)' = Lawful(c)
                        /\ \A i, j : Twins(c, i, j)' = Twins(c, i, j)
  BY SoundFrame
<1>4. Values(b) => Values(b)'
  <2>1. \A k : Free(k)' = Free(k)
    BY DEF Free
  <2> QED
    BY <1>3, <2>1 DEF Values
<1>5. CASE Single(b)
  <2>1. /\ Its(o) = <<>> /\ flash[o].state \in {"NONE", "CLEAN"}
        /\ flash[b].state = "NONE" => Its(b) = <<>>
        /\ Len(Its(b)) <= Slots /\ Filled(b) /\ BootTwins(b) /\ Values(b)
        /\ \A i \in Idx(b) : Its(b)[i].live /\ ~Its(b)[i].ok /\ Reached(b, i) => Goes(b, i)
    BY <1>5 DEF Single
  <2>2. BootTwins(b)'
    BY <1>3, <2>1 DEF BootTwins
  <2>3. \A i \in Idx(b)' : Its(b)'[i].live /\ ~Its(b)'[i].ok /\ Reached(b, i)' => Goes(b, i)'
    BY <1>3, <2>1
  <2>4. Its(o)' = <<>>
    BY <1>2, <1>3, <2>1
  <2>5. Filled(b)' /\ Values(b)' /\ Len(Its(b)') <= Slots /\ (flash'[b].state = "NONE" => Its(b)' = <<>>)
    BY <1>3, <1>4, <2>1
  <2>6. flash'[o].state \in {"NONE", "CLEAN"}
    BY <1>2, <2>1
  <2> QED
    BY <2>2, <2>3, <2>4, <2>5, <2>6 DEF Single
<1>6. CASE Double(b)
  <2>1. /\ flash[b].state = "DIRTY" /\ flash[o].state = "CLEAN" /\ Its(o) # <<>>
        /\ Len(Its(b)) <= Slots /\ NoTwins(b) /\ Filled(b) /\ AllOk(b) /\ Values(b)
        /\ NoTwins(o)
        /\ \A i \in Idx(b), j \in Idx(o) : Copies(b, o, i, j) => lossy
    BY <1>6 DEF Double
  <2>2. \A i \in Idx(b)', j \in Idx(o)' : Copies(b, o, i, j)' = Copies(b, o, i, j)
    BY <1>2, <1>3 DEF Copies
  <2>3. \A i \in Idx(b)', j \in Idx(o)' : Copies(b, o, i, j)' => lossy'
    <3>1. SUFFICES ASSUME NEW i \in Idx(b)', NEW j \in Idx(o)', Copies(b, o, i, j)' PROVE lossy'
      BY Zenon
    <3>2. i \in Idx(b) /\ j \in Idx(o) /\ lossy' = lossy
      BY <1>2, <1>3, <3>1
    <3>3. Copies(b, o, i, j)
      BY <2>2, <3>1, Zenon
    <3>4. lossy
      BY <2>1, <3>2, <3>3, Zenon
    <3> QED
      BY <3>2, <3>4
  <2>4. /\ flash'[b].state = "DIRTY" /\ flash'[o].state = "CLEAN" /\ Its(o)' # <<>>
        /\ Len(Its(b)') <= Slots
    BY <1>2, <1>3, <2>1
  <2>5. NoTwins(b)' /\ Filled(b)' /\ AllOk(b)' /\ Values(b)' /\ NoTwins(o)'
    BY <1>2, <1>3, <1>4, <2>1
  <2> QED
    BY <2>3, <2>4, <2>5 DEF Double
<1> QED
  BY <1>1, <1>5, <1>6

\* kv_init reads the header of a block.
LEMMA BootBlockShape ==
    ASSUME KvTypeOK, BootShape, BootBlock
    PROVE  BootShape'
<1>1. PICK b \in Blocks : b = boot.blk
  BY DEF BootBlock
<1>2. /\ boot.stage = "blocks" /\ todo = <<>>
      /\ UNCHANGED <<flash, clean_blk_nums, legal, lossy>>
  BY DEF BootBlock
<1>3. /\ \A c \in Blocks : c < b => Exact(c) /\ (Unfit(c) <=> c \in ToSet(boot.unclean))
      /\ \A c \in Blocks : \A i \in Idx(c) : flash[c].state = "USED" /\ Reached(c, i) => Its(c)[i].live
      /\ \A c \in ToSet(boot.unclean) : c \in Blocks /\ c < b
      /\ \A c \in Blocks : c >= b => info[c] = Unread
      /\ clean_blk_nums = Count(0) + Count(1)
      /\ \E d \in Blocks : Single(d) \/ Double(d)
  BY <1>1, <1>2, BootQuiet, TwoBlocks
<1>4. /\ \A c, i : ~Goes(c, i)
      /\ \A c : ~Marks(c)
  BY <1>2, NoWrites
<1>5. \A c \in Blocks : Its(c)' = Its(c) /\ Idx(c)' = Idx(c)
  BY <1>2 DEF Its, Idx
<1>6. boot.unclean = <<>> \/ \E c \in Blocks : boot.unclean = <<c>> /\ c < b
  BY <1>1 DEF BootShape, BootInfo
<1>7. CASE flash[b].state = "NONE"
  <2>1. todo' = Format(b) /\ boot' = [boot EXCEPT !.blk = @ + 1] /\ info' = info
    BY <1>1, <1>7, SMTT(30) DEF BootBlock
  <2>2. boot'.blk = b + 1 /\ boot'.stage = "blocks" /\ boot'.unclean = boot.unclean
    BY <1>1, <1>2, <2>1, BootTypes
  <2>3. todo' = <<Erase(b), Header(b)>>
    BY <2>1, WriteTypes
  <2>4. /\ \A c, i : ~Goes(c, i)'
        /\ \A c : ~Marks(c)'
        /\ todo' # <<>> /\ Formats(b)'
    BY <2>3, FormatFacts DEF Goes, Marks, Formats
  <2>5. flash[b] = [state |-> "NONE", items |-> <<>>]
    <3>1. Its(b) = <<>>
      BY <1>3, <1>7, TwoBlocks DEF Single, Double
    <3> QED
      BY <1>7, <3>1, FlashTypes
  <2>6. \A c \in Blocks : \A i \in Idx(c) : Reached(c, i)' => Reached(c, i)
    <3>1. Idx(b) = {}
      BY <2>5 DEF Idx
    <3>2. \A c \in Blocks : c # b => (c < b + 1 <=> c < b)
      BY TwoBlocks
    <3> QED
      BY <1>1, <2>2, <3>1, <3>2 DEF Reached
  <2>7. \E d \in Blocks : Single(d)' \/ Double(d)'
    BY <1>2, <1>3, <1>4, <2>4, <2>6, BootFrame
  <2>8. BootTodo'
    <3>1. FormatWrites(b)'
      BY <1>2, <1>3, <2>1, <2>2, <2>4, <2>5, TwoBlocks DEF FormatWrites
    <3> QED
      BY <2>2, <3>1 DEF BootTodo
  <2>9. BootStage'
    BY <2>2 DEF BootStage
  <2>10. BootInfo'
    <3>1. clean_blk_nums' = Count(0)' + Count(1)'
      BY <1>2, <1>3, <2>1 DEF Count
    <3>2. \A c \in Blocks : c > b + 1 \/ c = b + 1 => info'[c] = Unread
      BY <1>3, <2>1, TwoBlocks
    <3>3. ASSUME NEW c \in Blocks, c < b + 1 PROVE BootRead(c)'
      <4>1. CASE c = b
        BY <1>3, <2>2, <2>4, <4>1, TwoBlocks DEF BootRead
      <4>2. CASE c # b
        <5>1. c < b
          BY <3>3, <4>2, TwoBlocks
        <5>2. Exact(c) /\ (Unfit(c) <=> c \in ToSet(boot.unclean))
          BY <1>3, <5>1
        <5>3. Exact(c)' = Exact(c) /\ Unfit(c)' = Unfit(c)
          BY <1>2, <2>1 DEF Exact, Unfit, Its
        <5>4. Listed(c)' <=> c \in ToSet(boot.unclean)
          BY <2>2, <2>4 DEF Listed
        <5> QED
          BY <5>2, <5>3, <5>4 DEF BootRead
      <4> QED
        BY <4>1, <4>2
    <3>4. boot'.unclean = <<>> \/ \E c \in Blocks : boot'.unclean = <<c>> /\ c < boot'.blk
      <4>1. \A c \in Blocks : c < b => c < b + 1
        BY TwoBlocks
      <4> QED
        BY <1>6, <2>2, <4>1
    <3>5. \A c \in Blocks : \A i \in Idx(c)' :
             flash'[c].state = "USED" /\ Reached(c, i)' /\ (~Its(c)'[i].live \/ Goes(c, i)') => Marks(c)'
      BY <1>2, <1>3, <1>5, <2>4, <2>6
    <3> QED
      BY <2>2, <3>1, <3>2, <3>3, <3>4, <3>5 DEF BootInfo
  <2> QED
    BY <2>7, <2>8, <2>9, <2>10 DEF BootShape
<1>8. CASE flash[b].state # "NONE"
  <2>1. /\ todo' = todo /\ boot' = [boot EXCEPT !.stage = "items", !.n = 1]
        /\ info' = [info EXCEPT ![b].state = flash[b].state]
    BY <1>1, <1>8, SMTT(30) DEF BootBlock
  <2>2. boot'.blk = b /\ boot'.stage = "items" /\ boot'.unclean = boot.unclean /\ boot'.n = 1
    BY <1>1, <1>2, <2>1, BootTypes
  <2>3. /\ info'[b] = [state |-> flash[b].state, used |-> Slots]
        /\ \A c \in Blocks : c # b => info'[c] = info[c]
    <3>1. info[b] = Unread /\ info \in InfoType
      BY <1>3, TwoBlocks DEF KvTypeOK
    <3> QED
      BY <2>1, <3>1 DEF InfoType, Unread
  <2>4. /\ \A c, i : ~Goes(c, i)'
        /\ \A c : ~Marks(c)'
    BY <1>2, <2>1, ShortSets DEF Goes, Marks
  <2>5. \A c \in Blocks : \A i \in Idx(c) : Reached(c, i)' => Reached(c, i)
    <3>1. \A c \in Blocks : \A i \in Idx(c) : ~(i < 1)
      BY IdxNat
    <3> QED
      BY <1>1, <2>2, <3>1 DEF Reached
  <2>6. \E d \in Blocks : Single(d)' \/ Double(d)'
    BY <1>2, <1>3, <1>4, <2>4, <2>5, BootFrame
  <2>7. BootTodo'
    BY <1>2, <2>1 DEF BootTodo
  <2>8. BootStage'
    BY <1>2, <1>8, <2>2, <2>3 DEF BootStage
  <2>9. BootInfo'
    <3>1. clean_blk_nums' = Count(0)' + Count(1)'
      <4>1. info[b] # Empty /\ info'[b] # Empty
        BY <1>3, <2>3, HoldersDiffer, TwoBlocks DEF Unread, Empty
      <4>2. \A c \in Blocks : Count(c)' = Count(c)
        BY <2>3, <4>1 DEF Count
      <4> QED
        BY <1>2, <1>3, <4>2, TwoBlocks
    <3>2. \A c \in Blocks : c > b => info'[c] = Unread
      BY <1>3, <2>3, TwoBlocks
    <3>3. ASSUME NEW c \in Blocks, c < b PROVE BootRead(c)'
      <4>1. c # b
        BY <3>3, TwoBlocks
      <4>2. Exact(c) /\ (Unfit(c) <=> c \in ToSet(boot.unclean))
        BY <1>3, <3>3
      <4>3. Exact(c)' = Exact(c) /\ Unfit(c)' = Unfit(c)
        BY <1>2, <2>3, <4>1 DEF Exact, Unfit, Its
      <4>4. Listed(c)' <=> c \in ToSet(boot.unclean)
        BY <2>2 DEF Listed
      <4> QED
        BY <4>2, <4>3, <4>4 DEF BootRead
    <3>4. \A c \in Blocks : \A i \in Idx(c)' :
             flash'[c].state = "USED" /\ Reached(c, i)' /\ (~Its(c)'[i].live \/ Goes(c, i)') => Marks(c)'
      BY <1>2, <1>3, <1>5, <2>4, <2>5
    <3> QED
      BY <1>6, <2>2, <3>1, <3>2, <3>3, <3>4 DEF BootInfo
  <2> QED
    BY <2>6, <2>7, <2>8, <2>9 DEF BootShape
<1> QED
  BY <1>7, <1>8

\* The recovery deletes item m of block c.
LEMMA ItemDelGoes ==
    ASSUME KvTypeOK, NEW c \in Blocks, NEW m \in Nat \ {0}, todo' = KvItemDel(Place(c, m))
    PROVE  /\ \A d, i : Goes(d, i)' <=> d = c /\ i = m
           /\ \A d : Marks(d)' <=> d = c /\ info[c].state = "USED"
           /\ \/ todo' = <<WriteDelete(Place(c, m))>>
              \/ todo' = <<WriteDelete(Place(c, m)), WriteState(c, "DIRTY")>>
<1>1. /\ \A e : e \in ToSet(todo') <=> \/ e = WriteDelete(Place(c, m))
                                       \/ info[c].state = "USED" /\ e = WriteState(c, "DIRTY")
      /\ \/ todo' = <<WriteDelete(Place(c, m))>>
         \/ todo' = <<WriteDelete(Place(c, m)), WriteState(c, "DIRTY")>>
  BY KvItemDelSet
<1>2. \A d, i : Goes(d, i)' <=> d = c /\ i = m
  BY <1>1, WriteDiffer DEF Goes
<1>3. \A d : Marks(d)' <=> d = c /\ info[c].state = "USED"
  BY <1>1, WriteDiffer DEF Marks
<1> QED
  BY <1>1, <1>2, <1>3

\* Item n of block b is there in the place of item m of block c.
Replaced(b, n, c, m) ==
    /\ Its(b)[n].live /\ Its(b)[n].ok /\ Its(b)[n].origin = Place(c, m)
    /\ c # b \/ m # n
    /\ Its(c)[m].live /\ Its(c)[m].key = Its(b)[n].key

\* The recovery of an item.
LEMMA BootItemFacts ==
    ASSUME KvTypeOK, BootItem, NEW b, b = boot.blk, NEW n, n = boot.n, b \in Blocks
    PROVE  /\ n \in Idx(b) /\ boot.stage = "items" /\ todo = <<>>
           /\ boot'.n = n + 1 /\ boot'.stage = "items" /\ boot'.blk = b /\ boot'.unclean = boot.unclean
           /\ UNCHANGED <<flash, info, clean_blk_nums, legal, lossy>>
           /\ Its(b)[n].live /\ ~Its(b)[n].ok => todo' = KvItemDel(Place(b, n))
           /\ \A c \in Blocks : \A m \in Idx(c) :
                 Replaced(b, n, c, m) => todo' = KvItemDel(Place(c, m))
           /\ ~Its(b)[n].live /\ info[b].state = "USED" => todo' = <<WriteState(b, "DIRTY")>>
           /\ \/ todo' = <<>>
              \/ ~Its(b)[n].live /\ info[b].state = "USED"
              \/ Its(b)[n].live /\ ~Its(b)[n].ok
              \/ \E c \in Blocks : \E m \in Idx(c) : Replaced(b, n, c, m)
<1>1. /\ boot.stage = "items" /\ todo = <<>>
      /\ boot' = [boot EXCEPT !.n = @ + 1]
      /\ UNCHANGED <<flash, info, clean_blk_nums, legal, lossy>>
  BY SMTT(30) DEF BootItem, flashVars
<1>2. boot'.n = n + 1 /\ boot'.stage = "items" /\ boot'.blk = b /\ boot'.unclean = boot.unclean
  BY <1>1, BootTypes
<1> DEFINE p == Place(b, n)
<1>3. p.blk = b /\ p.n = n
  BY DEF Place
<1>4. /\ Holds(flash, p)
      /\ todo' = IF At(flash, p).live THEN Recover(p, At(flash, p))
                 ELSE IF info[p.blk].state = "USED" THEN <<WriteState(p.blk, "DIRTY")>>
                 ELSE <<>>
  BY DEF BootItem
<1> HIDE DEF p
<1>5. n \in Idx(b) /\ At(flash, p) = Its(b)[n] /\ Its(b)[n] \in Items
  BY <1>3, <1>4, FlashTypes DEF Holds, At, Its, Idx
<1>6. PICK it \in Items : it = Its(b)[n]
  BY <1>5
<1>7. todo' = IF it.live THEN Recover(p, it)
              ELSE IF info[b].state = "USED" THEN <<WriteState(b, "DIRTY")>>
              ELSE <<>>
  BY <1>3, <1>4, <1>5, <1>6
<1>8. Its(b)[n].live /\ ~Its(b)[n].ok => todo' = KvItemDel(p)
  BY <1>6, <1>7 DEF Recover
<1>9. ASSUME NEW c \in Blocks, NEW m \in Idx(c), Replaced(b, n, c, m)
      PROVE  todo' = KvItemDel(Place(c, m))
  <2>1. Place(c, m).blk = c /\ Place(c, m).n = m /\ Place(c, m) \in Places
    BY IdxNat DEF Place, Places
  <2>2. Place(c, m) # NULL /\ Place(c, m) # p
    BY <1>3, <1>9, <2>1, HoldersDiffer DEF Replaced
  <2>3. Holds(flash, Place(c, m)) /\ At(flash, Place(c, m)) = Its(c)[m]
    BY <2>1, <2>2 DEF Holds, At, Its, Idx
  <2> QED
    BY <1>6, <1>7, <1>9, <2>2, <2>3 DEF Replaced, Recover
<1>10. ASSUME todo' # <<>>, ~(~Its(b)[n].live /\ info[b].state = "USED"),
              ~(Its(b)[n].live /\ ~Its(b)[n].ok)
       PROVE  \E c \in Blocks : \E m \in Idx(c) : Replaced(b, n, c, m)
  <2>1. it.live /\ it.ok /\ Recover(p, it) # <<>>
    BY <1>6, <1>7, <1>10
  <2>2. it.origin # p /\ Holds(flash, it.origin) /\ At(flash, it.origin).live
        /\ At(flash, it.origin).key = it.key
    BY <2>1 DEF Recover
  <2>3. it.origin \in Places
    <3>1. it.origin \in Places \cup {NULL}
      BY DEF Items
    <3> QED
      BY <2>2, <3>1 DEF Holds
  <2>4. PICK c \in Blocks, m \in Nat : it.origin = Place(c, m)
    BY <2>3 DEF Places, Place
  <2>5. Place(c, m).blk = c /\ Place(c, m).n = m
    BY DEF Place
  <2>6. m \in Idx(c) /\ At(flash, it.origin) = Its(c)[m]
    BY <2>2, <2>4, <2>5 DEF Holds, At, Its, Idx
  <2>7. c # b \/ m # n
    BY <2>2, <2>4 DEF p
  <2> QED
    BY <1>6, <2>1, <2>2, <2>4, <2>6, <2>7 DEF Replaced
<1> QED
  BY <1>1, <1>2, <1>5, <1>6, <1>7, <1>8, <1>9, <1>10 DEF p

\* The recovery of an item, when all items are in one block.
LEMMA BootItemSingle ==
    ASSUME KvTypeOK, BootShape, BootItem, NEW b \in Blocks, b = boot.blk, Single(b)
    PROVE  Single(b)'
<1>1. PICK n : n = boot.n
  OBVIOUS
<1>2. /\ n \in Idx(b) /\ boot.stage = "items" /\ todo = <<>>
      /\ boot'.n = n + 1 /\ boot'.stage = "items" /\ boot'.blk = b
      /\ UNCHANGED <<flash, info, clean_blk_nums, legal, lossy>>
  BY <1>1, BootItemFacts
<1>3. /\ Its(b)[n].live /\ ~Its(b)[n].ok => todo' = KvItemDel(Place(b, n))
      /\ \A m \in Idx(b) : Replaced(b, n, b, m) => todo' = KvItemDel(Place(b, m))
      /\ ~Its(b)[n].live /\ info[b].state = "USED" => todo' = <<WriteState(b, "DIRTY")>>
      /\ \/ todo' = <<>>
         \/ ~Its(b)[n].live /\ info[b].state = "USED"
         \/ Its(b)[n].live /\ ~Its(b)[n].ok
         \/ \E c \in Blocks : \E m \in Idx(c) : Replaced(b, n, c, m)
  BY <1>1, BootItemFacts
<1> DEFINE o == Other(b)
<1>4. /\ Its(o) = <<>> /\ flash[o].state \in {"NONE", "CLEAN"}
      /\ flash[b].state = "NONE" => Its(b) = <<>>
      /\ Len(Its(b)) <= Slots /\ Filled(b) /\ BootTwins(b) /\ Values(b)
      /\ \A i \in Idx(b) : Its(b)[i].live /\ ~Its(b)[i].ok /\ Reached(b, i) => Goes(b, i)
  BY DEF Single
<1>5. \A c, i : ~Goes(c, i)
  BY <1>2, NoWrites
<1>6. o \in Blocks /\ o # b
  BY TwoBlocks
<1>7. \A c \in Blocks : /\ Its(c)' = Its(c) /\ Idx(c)' = Idx(c)
                        /\ \A i, k : Good(c, i, k)' = Good(c, i, k)
                        /\ Filled(c)' = Filled(c) /\ Lawful(c)' = Lawful(c)
                        /\ \A i, j : Twins(c, i, j)' = Twins(c, i, j)
  BY <1>2, SoundFrame
<1>8. \A i \in Idx(b) : Reached(b, i)' => Reached(b, i) \/ i = n
  <2>1. n \in Nat /\ \A i \in Idx(b) : i \in Nat
    BY <1>2, IdxNat
  <2> QED
    BY <1>1, <1>2, <2>1 DEF Reached
<1>9. Idx(o) = {}
  BY <1>4 DEF Idx, Its
<1>10. \A m \in Idx(b) : m \in Nat \ {0}
  BY IdxNat
<1>11. \A i : Goes(b, i)' => \/ i = n /\ Its(b)[n].live /\ ~Its(b)[n].ok
                             \/ i \in Idx(b) /\ Replaced(b, n, b, i)
  <2>1. ASSUME NEW i, Goes(b, i)', Its(b)[n].live, ~Its(b)[n].ok PROVE i = n
    BY <1>2, <1>3, <1>10, <2>1, ItemDelGoes
  <2>2. ASSUME NEW i, Goes(b, i)', NEW c \in Blocks, NEW m \in Idx(c), Replaced(b, n, c, m)
        PROVE  i \in Idx(b) /\ Replaced(b, n, b, i)
    <3>1. c = b
      BY <1>9, <2>2, TwoBlocks
    <3>2. todo' = KvItemDel(Place(b, m)) /\ m \in Idx(b)
      BY <1>3, <2>2, <3>1
    <3>3. i = m
      BY <1>10, <2>2, <3>2, ItemDelGoes
    <3> QED
      BY <2>2, <3>1, <3>3
  <2>3. ASSUME NEW i, todo' = <<>> PROVE ~Goes(b, i)'
    BY <2>3, ShortSets DEF Goes
  <2>4. ASSUME NEW i, ~Its(b)[n].live, info[b].state = "USED" PROVE ~Goes(b, i)'
    BY <1>3, <2>4, ShortSets, WriteDiffer DEF Goes
  <2> QED
    BY <1>3, <2>1, <2>2, <2>3, <2>4
<1>12. Its(b)[n].live /\ ~Its(b)[n].ok => Goes(b, n)'
  BY <1>2, <1>3, <1>10, ItemDelGoes
<1>13. \A m \in Idx(b) : Replaced(b, n, b, m) => Goes(b, m)'
  BY <1>3, <1>10, ItemDelGoes
<1>14. BootTwins(b)'
  <2>1. \A i, j \in Idx(b) : Twins(b, i, j) =>
           Its(b)[i].origin = Place(b, j) \/ Its(b)[j].origin = Place(b, i)
    BY <1>4 DEF BootTwins
  <2>2. ASSUME NEW i \in Idx(b), NEW j \in Idx(b), Twins(b, i, j), Its(b)[j].origin = Place(b, i),
               Reached(b, j)'
        PROVE  Goes(b, i)' \/ Goes(b, j)'
    <3>1. ~Reached(b, j)
      BY <1>4, <1>5, <2>2 DEF BootTwins
    <3>2. j = n
      BY <1>8, <2>2, <3>1
    <3>3. Its(b)[n].live /\ Its(b)[i].live /\ Its(b)[n].key = Its(b)[i].key /\ i # n
      BY <2>2, <3>2 DEF Twins
    <3>4. CASE Its(b)[n].ok
      <4>1. Replaced(b, n, b, i)
        BY <2>2, <3>2, <3>3, <3>4 DEF Replaced
      <4> QED
        BY <1>13, <4>1
    <3>5. CASE ~Its(b)[n].ok
      BY <1>12, <3>2, <3>3, <3>5
    <3> QED
      BY <3>4, <3>5
  <2> QED
    BY <1>7, <2>1, <2>2 DEF BootTwins
<1>15. \A i \in Idx(b)' : Its(b)'[i].live /\ ~Its(b)'[i].ok /\ Reached(b, i)' => Goes(b, i)'
  <2>1. SUFFICES ASSUME NEW i \in Idx(b), Its(b)[i].live, ~Its(b)[i].ok, Reached(b, i)'
                 PROVE  Goes(b, i)'
    BY <1>7
  <2>2. ~Reached(b, i)
    BY <1>4, <1>5, <2>1
  <2> QED
    BY <1>8, <1>12, <2>1, <2>2
<1>16. Values(b)'
  <2>1. Lawful(b)' /\ \A k : Free(k)' = Free(k)
    BY <1>2, <1>4, <1>7 DEF Values, Free
  <2>2. ASSUME NEW k \in Keys, ~Free(k) PROVE \E i \in Idx(b) : Good(b, i, k) /\ ~Goes(b, i)'
    <3>1. PICK i \in Idx(b) : Good(b, i, k)
      BY <1>4, <2>2 DEF Values
    <3>2. CASE ~Goes(b, i)'
      BY <3>1, <3>2
    <3>3. CASE Goes(b, i)'
      <4>1. Replaced(b, n, b, i)
        BY <1>11, <3>1, <3>3 DEF Good
      <4>2. Good(b, n, k) /\ i # n /\ Its(b)[n].ok
        BY <3>1, <4>1 DEF Good, Replaced
      <4>3. ~Goes(b, n)'
        BY <1>11, <4>2 DEF Replaced
      <4> QED
        BY <1>2, <4>2, <4>3
    <3> QED
      BY <3>2, <3>3
  <2> QED
    BY <1>7, <2>1, <2>2 DEF Values
<1> QED
  BY <1>2, <1>4, <1>6, <1>7, <1>14, <1>15, <1>16 DEF Single

\* The recovery of an item, after an interrupted collection.
LEMMA BootItemDouble ==
    ASSUME KvTypeOK, BootShape, BootItem, NEW b \in Blocks, b = boot.blk, NEW d \in Blocks, Double(d)
    PROVE  Double(d)'
<1>1. PICK n : n = boot.n
  OBVIOUS
<1>2. /\ n \in Idx(b) /\ boot.stage = "items" /\ todo = <<>>
      /\ UNCHANGED <<flash, info, clean_blk_nums, legal, lossy>>
  BY <1>1, BootItemFacts
<1> DEFINE o == Other(d)
<1>3. /\ flash[d].state = "DIRTY" /\ flash[o].state = "CLEAN" /\ Its(o) # <<>>
      /\ Len(Its(d)) <= Slots /\ NoTwins(d) /\ Filled(d) /\ AllOk(d) /\ Values(d)
      /\ NoTwins(o)
      /\ \A i \in Idx(d), j \in Idx(o) : Copies(d, o, i, j) => lossy
  BY DEF Double
<1>4. \A c, i : ~Goes(c, i)
  BY <1>2, NoWrites
<1>5. o \in Blocks /\ o # d /\ (b = d \/ b = o)
  BY TwoBlocks
<1>6. \A c \in Blocks : /\ Its(c)' = Its(c) /\ Idx(c)' = Idx(c)
                        /\ \A i, k : Good(c, i, k)' = Good(c, i, k)
                        /\ NoTwins(c)' = NoTwins(c) /\ AllOk(c)' = AllOk(c)
                        /\ Filled(c)' = Filled(c) /\ Lawful(c)' = Lawful(c)
  BY <1>2, SoundFrame
<1>7. Values(d)'
  <2>1. Lawful(d)' /\ \A k : Free(k)' = Free(k)
    BY <1>2, <1>3, <1>6 DEF Values, Free
  <2>2. CASE lossy
    BY <2>1, <2>2 DEF Values, Free
  <2>3. CASE ~lossy
    <3>1. \A i \in Idx(d) : ~Goes(d, i)'
      <4>1. ~(b = d /\ Its(b)[n].live /\ ~Its(b)[n].ok)
        BY <1>2, <1>3 DEF AllOk
      <4>2. ASSUME NEW m \in Idx(d), Replaced(b, n, d, m) PROVE FALSE
        <5>1. CASE b = d
          <6>1. Twins(d, n, m)
            BY <4>2, <5>1 DEF Replaced, Twins
          <6> QED
            BY <1>2, <1>3, <4>2, <5>1, <6>1 DEF NoTwins
        <5>2. CASE b = o
          <6>1. Copies(d, o, m, n)
            BY <4>2, <5>2 DEF Replaced, Copies
          <6> QED
            BY <1>2, <1>3, <2>3, <4>2, <5>2, <6>1
        <5> QED
          BY <1>5, <5>1, <5>2
      <4>3. \A c \in Blocks : \A m \in Idx(c) : m \in Nat \ {0}
        BY IdxNat
      <4>4. CASE Its(b)[n].live /\ ~Its(b)[n].ok
        <5>1. todo' = KvItemDel(Place(b, n))
          BY <1>1, <4>4, BootItemFacts
        <5>2. n \in Nat \ {0}
          BY <1>2, <4>3
        <5> QED
          BY <4>1, <4>4, <5>1, <5>2, ItemDelGoes
      <4>5. ASSUME NEW c \in Blocks, NEW m \in Idx(c), Replaced(b, n, c, m)
            PROVE  \A i \in Idx(d) : ~Goes(d, i)'
        <5>1. c # d
          BY <4>2, <4>5
        <5>2. todo' = KvItemDel(Place(c, m))
          BY <1>1, <4>5, BootItemFacts
        <5>3. m \in Nat \ {0}
          BY <4>3
        <5> QED
          BY <5>1, <5>2, <5>3, ItemDelGoes
      <4>6. CASE todo' = <<>>
        BY <4>6, ShortSets DEF Goes
      <4>7. CASE ~Its(b)[n].live /\ info[b].state = "USED"
        <5>1. todo' = <<WriteState(b, "DIRTY")>>
          BY <1>1, <4>7, BootItemFacts
        <5> QED
          BY <5>1, ShortSets, WriteDiffer DEF Goes
      <4>8. \/ todo' = <<>>
            \/ ~Its(b)[n].live /\ info[b].state = "USED"
            \/ Its(b)[n].live /\ ~Its(b)[n].ok
            \/ \E c \in Blocks : \E m \in Idx(c) : Replaced(b, n, c, m)
        BY <1>1, BootItemFacts
      <4> QED
        BY <4>4, <4>5, <4>6, <4>7, <4>8
    <3> QED
      BY <1>3, <1>6, <2>1, <3>1 DEF Values
  <2> QED
    BY <2>2, <2>3
<1>8. \A i \in Idx(d)', j \in Idx(o)' : Copies(d, o, i, j)' => lossy'
  <2>1. SUFFICES ASSUME NEW i \in Idx(d)', NEW j \in Idx(o)', Copies(d, o, i, j)' PROVE lossy'
    BY Zenon
  <2>2. i \in Idx(d) /\ j \in Idx(o) /\ lossy' = lossy
    BY <1>2, <1>5, <1>6, <2>1
  <2>3. Copies(d, o, i, j)
    BY <1>5, <1>6, <2>1 DEF Copies
  <2>4. lossy
    BY <1>3, <2>2, <2>3, Zenon
  <2> QED
    BY <2>2, <2>4
<1>9. /\ flash'[d].state = "DIRTY" /\ flash'[o].state = "CLEAN" /\ Its(o)' # <<>>
      /\ Len(Its(d)') <= Slots
      /\ NoTwins(d)' /\ Filled(d)' /\ AllOk(d)' /\ NoTwins(o)'
  BY <1>2, <1>3, <1>5, <1>6
<1> QED
  BY <1>7, <1>8, <1>9 DEF Double

\* The recovery of an item.
LEMMA BootItemShape ==
    ASSUME KvTypeOK, BootShape, BootItem
    PROVE  BootShape'
<1>1. boot.stage = "items" /\ todo = <<>>
  BY DEF BootItem
<1>2. /\ boot.blk \in Blocks /\ boot.n > 0 /\ flash[boot.blk].state # "NONE"
      /\ info[boot.blk] = [state |-> flash[boot.blk].state, used |-> Slots]
  BY <1>1 DEF BootShape, BootStage
<1>3. PICK b \in Blocks, n \in {boot.n} : b = boot.blk /\ n = boot.n
  BY <1>2
<1>4. /\ n \in Idx(b)
      /\ boot'.n = n + 1 /\ boot'.stage = "items" /\ boot'.blk = b /\ boot'.unclean = boot.unclean
      /\ UNCHANGED <<flash, info, clean_blk_nums, legal, lossy>>
      /\ Its(b)[n].live /\ ~Its(b)[n].ok => todo' = KvItemDel(Place(b, n))
      /\ \A c \in Blocks : \A m \in Idx(c) : Replaced(b, n, c, m) => todo' = KvItemDel(Place(c, m))
      /\ ~Its(b)[n].live /\ info[b].state = "USED" => todo' = <<WriteState(b, "DIRTY")>>
      /\ \/ todo' = <<>>
         \/ ~Its(b)[n].live /\ info[b].state = "USED"
         \/ Its(b)[n].live /\ ~Its(b)[n].ok
         \/ \E c \in Blocks : \E m \in Idx(c) : Replaced(b, n, c, m)
  BY <1>3, BootItemFacts
<1>5. /\ \A c \in Blocks : c < b => Exact(c) /\ (Unfit(c) <=> c \in ToSet(boot.unclean))
      /\ \A c \in Blocks : \A i \in Idx(c) : flash[c].state = "USED" /\ Reached(c, i) => Its(c)[i].live
      /\ \A c \in Blocks : c > b => info[c] = Unread
      /\ clean_blk_nums = Count(0) + Count(1)
      /\ \E d \in Blocks : Single(d) \/ Double(d)
  BY <1>1, <1>3, BootQuiet
<1>6. boot.unclean = <<>> \/ \E c \in Blocks : boot.unclean = <<c>> /\ c < b
  BY <1>3 DEF BootShape, BootInfo
<1>7. \/ todo' = <<>>
      \/ todo' = <<WriteState(b, "DIRTY")>> /\ info[b].state = "USED" /\ ~Its(b)[n].live
      \/ \E c \in Blocks : \E m \in Idx(c) : todo' = KvItemDel(Place(c, m))
  BY <1>4
<1>8. \A c \in Blocks : c <= b => info[c].state = flash[c].state
  <2>1. \A c \in Blocks : c <= b => c = b \/ c < b
    BY TwoBlocks
  <2>2. \A c \in Blocks : c < b => info[c].state = flash[c].state
    <3>1. TAKE c \in Blocks
    <3>2. HAVE c < b
    <3>3. info[c] = [state |-> flash[c].state, used |-> Len(Its(c))]
      BY <1>5, <3>2 DEF Exact
    <3> QED
      BY <3>3
  <2>3. info[b].state = flash[b].state
    BY <1>2, <1>3
  <2> QED
    BY <2>1, <2>2, <2>3
<1>9. \A c \in Blocks : Marks(c)' => info[c].state = "USED"
  <2>1. \A c \in Blocks : \A m \in Idx(c) : m \in Nat \ {0}
    BY IdxNat
  <2>2. CASE todo' = <<>>
    BY <2>2, ShortSets DEF Marks
  <2>3. CASE todo' = <<WriteState(b, "DIRTY")>> /\ info[b].state = "USED"
    BY <2>3, ShortSets, WriteDiffer DEF Marks
  <2>4. ASSUME NEW c \in Blocks, NEW m \in Idx(c), todo' = KvItemDel(Place(c, m))
        PROVE  \A e \in Blocks : Marks(e)' => info[e].state = "USED"
    BY <2>1, <2>4, ItemDelGoes
  <2> QED
    BY <1>7, <2>2, <2>3, <2>4
<1>10. \A c \in Blocks : \A i : Goes(c, i)' => i \in Idx(c) /\ (info[c].state = "USED" => Marks(c)')
  <2>1. \A c \in Blocks : \A m \in Idx(c) : m \in Nat \ {0}
    BY IdxNat
  <2>2. CASE todo' = <<>>
    BY <2>2, ShortSets DEF Goes
  <2>3. CASE todo' = <<WriteState(b, "DIRTY")>>
    BY <2>3, ShortSets, WriteDiffer DEF Goes
  <2>4. ASSUME NEW c \in Blocks, NEW m \in Idx(c), todo' = KvItemDel(Place(c, m))
        PROVE  \A e \in Blocks : \A i : Goes(e, i)' => i \in Idx(e) /\ (info[e].state = "USED" => Marks(e)')
    BY <2>1, <2>4, ItemDelGoes
  <2> QED
    BY <1>7, <2>2, <2>3, <2>4
<1>11. \A c \in Blocks : Its(c)' = Its(c) /\ Idx(c)' = Idx(c)
  BY <1>4 DEF Its, Idx
<1>12. BootTodo'
  <2>1. CASE todo' = <<>>
    BY <2>1 DEF BootTodo
  <2>2. CASE todo' # <<>>
    <3>1. \E c \in Blocks : \E i \in Idx(c)' :
             \/ todo' = <<WriteDelete(Place(c, i))>>
             \/ todo' = <<WriteDelete(Place(c, i)), WriteState(c, "DIRTY")>>
             \/ todo' = <<WriteState(c, "DIRTY")>>
      <4>1. CASE todo' = <<WriteState(b, "DIRTY")>>
        BY <1>4, <1>11, <4>1
      <4>2. ASSUME NEW c \in Blocks, NEW m \in Idx(c), todo' = KvItemDel(Place(c, m))
            PROVE  <3>1
        <5>1. m \in Nat \ {0} /\ m \in Idx(c)'
          BY <1>11, IdxNat
        <5> QED
          BY <4>2, <5>1, ItemDelGoes
      <4> QED
        BY <1>7, <2>2, <4>1, <4>2
    <3>2. \A c \in Blocks : Marks(c)' => c <= boot'.blk /\ info'[c].state \in {"USED", "DIRTY"}
      <4>1. \A c \in Blocks : c <= b \/ c > b
        BY TwoBlocks
      <4> QED
        BY <1>4, <1>5, <1>9, <4>1 DEF Unread
    <3> QED
      BY <1>4, <3>1, <3>2 DEF BootTodo, ItemWrites
  <2> QED
    BY <2>1, <2>2
<1>13. BootStage'
  <2>1. n + 1 > 0
    BY <1>4, IdxNat
  <2> QED
    BY <1>2, <1>3, <1>4, <2>1 DEF BootStage
<1>14. BootInfo'
  <2>1. clean_blk_nums' = Count(0)' + Count(1)'
    BY <1>4, <1>5 DEF Count
  <2>2. ASSUME NEW c \in Blocks, c < b PROVE BootRead(c)'
    <3>1. Exact(c) /\ (Unfit(c) <=> c \in ToSet(boot.unclean))
      BY <1>5, <2>2
    <3>2. Exact(c)' = Exact(c) /\ Unfit(c)' = Unfit(c)
      BY <1>4 DEF Exact, Unfit, Its
    <3>3. Listed(c)' <=> c \in ToSet(boot.unclean)
      BY <1>4 DEF Listed
    <3> QED
      BY <3>1, <3>2, <3>3 DEF BootRead
  <2>3. ASSUME NEW c \in Blocks, NEW i \in Idx(c), flash[c].state = "USED", Reached(c, i)',
               ~Its(c)[i].live \/ Goes(c, i)'
        PROVE  Marks(c)'
    <3>1. c <= b /\ info[c].state = "USED"
      BY <1>4, <1>8, <2>3, TwoBlocks DEF Reached
    <3>2. CASE Goes(c, i)'
      BY <1>10, <3>1, <3>2
    <3>3. CASE ~Its(c)[i].live
      <4>1. ~Reached(c, i)
        BY <1>5, <2>3, <3>3
      <4>2. c = b /\ i = n
        <5>1. i \in Nat /\ n \in Nat
          BY <1>4, IdxNat
        <5> QED
          BY <1>1, <1>3, <1>4, <2>3, <4>1, <5>1 DEF Reached
      <4>3. todo' = <<WriteState(b, "DIRTY")>>
        BY <1>4, <3>1, <3>3, <4>2
      <4> QED
        BY <4>2, <4>3, ShortSets DEF Marks
    <3> QED
      BY <2>3, <3>2, <3>3
  <2>4. \A c \in Blocks : \A i \in Idx(c)' :
           flash'[c].state = "USED" /\ Reached(c, i)' /\ (~Its(c)'[i].live \/ Goes(c, i)') => Marks(c)'
    BY <1>4, <1>11, <2>3
  <2>5. \A c \in Blocks : c > boot'.blk \/ (c = boot'.blk /\ boot'.stage = "blocks") => info'[c] = Unread
    BY <1>4, <1>5
  <2> QED
    BY <1>4, <1>6, <2>1, <2>2, <2>4, <2>5 DEF BootInfo
<1>15. \E d \in Blocks : Single(d)' \/ Double(d)'
  <2>1. PICK d \in Blocks : Single(d) \/ Double(d)
    BY <1>5
  <2>2. CASE Single(d)
    <3>1. d = b
      <4>1. Idx(Other(d)) = {}
        BY <2>2 DEF Single, Idx, Its
      <4> QED
        BY <1>4, <4>1, TwoBlocks
    <3> QED
      BY <1>3, <2>2, <3>1, BootItemSingle
  <2>3. CASE Double(d)
    BY <1>3, <2>3, BootItemDouble
  <2> QED
    BY <2>1, <2>2, <2>3
<1> QED
  BY <1>12, <1>13, <1>14, <1>15 DEF BootShape

\* Two blocks with items are those of an interrupted collection.
LEMMA OneUnfit ==
    ASSUME \E d \in Blocks : Single(d) \/ Double(d), NEW b \in Blocks, NEW c \in Blocks,
           Its(b) # <<>>, Its(c) # <<>>, flash[b].state = "CLEAN", flash[c].state = "CLEAN"
    PROVE  b = c
<1>1. PICK d \in Blocks : Single(d) \/ Double(d)
  OBVIOUS
<1>2. (b = d \/ b = Other(d)) /\ (c = d \/ c = Other(d))
  BY TwoBlocks
<1>3. CASE Single(d)
  BY <1>2, <1>3 DEF Single
<1>4. CASE Double(d)
  BY <1>2, <1>4 DEF Double
<1> QED
  BY <1>1, <1>3, <1>4

\* The end of the traversal of a block.
LEMMA BootBlockEndShape ==
    ASSUME KvTypeOK, BootShape, BootBlockEnd
    PROVE  BootShape'
<1>1. boot.stage = "items" /\ todo = <<>>
  BY DEF BootBlockEnd
<1>2. BootStage
  BY DEF BootShape
<1>3. PICK b \in Blocks : b = boot.blk
  BY <1>1, <1>2 DEF BootStage
<1>4. PICK n : n = boot.n
  OBVIOUS
<1>5. n \in Nat /\ n > 0 /\ info[b] = [state |-> flash[b].state, used |-> Slots]
  BY <1>1, <1>2, <1>3, <1>4, BootTypes DEF BootStage
<1>6. /\ UNCHANGED <<flash, todo, legal, lossy>>
      /\ info' = [info EXCEPT ![b].used = Len(Its(b))]
      /\ ~Holds(flash, Place(b, n))
  BY <1>3, <1>4 DEF BootBlockEnd, Its
<1>7. \A i \in Idx(b) : i < n
  <2>1. Place(b, n).blk = b /\ Place(b, n).n = n /\ Place(b, n) \in Places
    BY <1>5 DEF Place, Places
  <2>2. Place(b, n) # NULL
    BY <2>1, HoldersDiffer
  <2>3. n \notin Idx(b)
    BY <1>6, <2>1, <2>2 DEF Holds, Idx
  <2>4. Idx(b) = 1..Len(Its(b)) /\ Len(Its(b)) \in Nat
    BY IdxNat
  <2> QED
    BY <1>5, <2>3, <2>4
<1>8. /\ info'[b] = [state |-> flash[b].state, used |-> Len(Its(b))]
      /\ \A c \in Blocks : c # b => info'[c] = info[c]
  <2>1. info \in InfoType
    BY DEF KvTypeOK
  <2> QED
    BY <1>5, <1>6, <2>1 DEF InfoType
<1>9. /\ \A c \in Blocks : c < b => Exact(c) /\ (Unfit(c) <=> c \in ToSet(boot.unclean))
      /\ \A c \in Blocks : \A i \in Idx(c) : flash[c].state = "USED" /\ Reached(c, i) => Its(c)[i].live
      /\ \A c \in ToSet(boot.unclean) : c \in Blocks /\ c < b
      /\ \A c \in Blocks : c > b => info[c] = Unread
      /\ clean_blk_nums = Count(0) + Count(1)
      /\ \E d \in Blocks : Single(d) \/ Double(d)
  BY <1>1, <1>3, BootQuiet
<1>10. boot.unclean = <<>> \/ \E c \in Blocks : boot.unclean = <<c>> /\ c < b
  BY <1>3 DEF BootShape, BootInfo
<1>11. /\ boot'.stage = "blocks" /\ boot'.blk = b + 1
       /\ IF flash[b].state = "CLEAN" /\ Its(b) # <<>>
          THEN boot'.unclean = Append(boot.unclean, b) ELSE boot'.unclean = boot.unclean
       /\ IF flash[b].state = "CLEAN" /\ Its(b) = <<>>
          THEN clean_blk_nums' = clean_blk_nums + 1 ELSE clean_blk_nums' = clean_blk_nums
  <2>1. PICK t : t = boot
    OBVIOUS
  <2>2. PICK next : next = [t EXCEPT !.stage = "blocks", !.blk = @ + 1]
    OBVIOUS
  <2>3. \/ /\ info[b].state = "CLEAN" /\ Its(b) # <<>>
           /\ boot' = [next EXCEPT !.unclean = Append(@, b)]
           /\ UNCHANGED clean_blk_nums
        \/ /\ info[b].state = "CLEAN" /\ Its(b) = <<>>
           /\ boot' = next
           /\ clean_blk_nums' = clean_blk_nums + 1
        \/ /\ info[b].state # "CLEAN"
           /\ boot' = next
           /\ UNCHANGED clean_blk_nums
    BY <1>3, <2>1, <2>2 DEF BootBlockEnd, Its
  <2>4. info[b].state = flash[b].state
    BY <1>5
  <2>5. t \in [stage : {"blocks", "items", "mark", "up"}, blk : 0..2, n : Nat, unclean : Seq(Blocks)]
    BY <2>1, BootTypes
  <2>6. next.stage = "blocks" /\ next.blk = b + 1 /\ next.unclean = boot.unclean
    BY <1>3, <2>1, <2>2, <2>5
  <2>7. [next EXCEPT !.unclean = Append(@, b)].stage = "blocks"
        /\ [next EXCEPT !.unclean = Append(@, b)].blk = b + 1
        /\ [next EXCEPT !.unclean = Append(@, b)].unclean = Append(boot.unclean, b)
    BY <2>1, <2>2, <2>5, <2>6
  <2> QED
    BY <2>3, <2>4, <2>6, <2>7
<1>12. Its(b) # <<>> /\ flash[b].state = "CLEAN" => boot.unclean = <<>>
  <2>1. SUFFICES ASSUME NEW c \in Blocks, boot.unclean = <<c>>, c < b, Its(b) # <<>>,
                        flash[b].state = "CLEAN"
                 PROVE  FALSE
    BY <1>10
  <2>2. c \in ToSet(boot.unclean)
    BY <2>1, ShortSets
  <2>3. Unfit(c) /\ Exact(c)
    BY <1>9, <2>1, <2>2
  <2>4. flash[c].state = "CLEAN" /\ Its(c) # <<>>
    <3>1. info[c] = [state |-> flash[c].state, used |-> Len(Its(c))]
      BY <2>3 DEF Exact
    <3>2. info[c].state = flash[c].state /\ info[c].used = Len(Its(c))
      BY <3>1
    <3> QED
      BY <2>3, <3>2 DEF Unfit
  <2>5. b = c
    BY <1>9, <2>1, <2>4, OneUnfit
  <2> QED
    BY <2>1, <2>5, TwoBlocks
<1>13. \A c : c \in ToSet(boot'.unclean) <=>
          \/ c \in ToSet(boot.unclean)
          \/ c = b /\ flash[b].state = "CLEAN" /\ Its(b) # <<>>
  <2>1. CASE flash[b].state = "CLEAN" /\ Its(b) # <<>>
    <3>1. boot'.unclean = <<b>> /\ boot.unclean = <<>>
      BY <1>11, <1>12, <2>1
    <3> QED
      BY <2>1, <3>1, ShortSets
  <2> QED
    BY <1>11, <2>1
<1>14. /\ \A c, i : ~Goes(c, i) /\ ~Goes(c, i)'
       /\ \A c : ~Marks(c)'
  BY <1>1, <1>6, NoWrites, ShortSets DEF Goes, Marks
<1>15. \A c \in Blocks : \A i \in Idx(c) : Reached(c, i)' => Reached(c, i)
  <2>1. \A c \in Blocks : c < b + 1 => c < b \/ c = b
    BY TwoBlocks
  <2> QED
    BY <1>1, <1>3, <1>4, <1>7, <1>11, <2>1 DEF Reached
<1>16. \E d \in Blocks : Single(d)' \/ Double(d)'
  BY <1>6, <1>9, <1>14, <1>15, BootFrame
<1>17. BootTodo' /\ BootStage'
  BY <1>1, <1>6, <1>11 DEF BootTodo, BootStage
<1>18. BootInfo'
  <2>1. clean_blk_nums' = Count(0)' + Count(1)'
    <3>1. Count(b) = 0
      BY <1>5, HoldersDiffer DEF Count, Empty
    <3>2. Count(b)' = IF flash[b].state = "CLEAN" /\ Its(b) = <<>> THEN 1 ELSE 0
      <4>1. Len(Its(b)) = 0 <=> Its(b) = <<>>
        BY IdxNat
      <4>2. info'[b] = Empty <=> flash[b].state = "CLEAN" /\ Its(b) = <<>>
        BY <1>8, <4>1 DEF Empty
      <4> QED
        BY <4>2 DEF Count
    <3>3. \A c \in Blocks : c # b => Count(c)' = Count(c)
      BY <1>8 DEF Count
    <3>4. (b = 0 \/ b = 1) /\ 0 \in Blocks /\ 1 \in Blocks
      BY TwoBlocks
    <3>5. Count(0) \in Nat /\ Count(1) \in Nat
      BY DEF Count
    <3> QED
      BY <1>9, <1>11, <3>1, <3>2, <3>3, <3>4, <3>5, SMTT(30)
  <2>2. \A c \in Blocks : c > b + 1 \/ c = b + 1 => info'[c] = Unread
    BY <1>8, <1>9, TwoBlocks
  <2>3. ASSUME NEW c \in Blocks, c < b + 1 PROVE BootRead(c)'
    <3>1. Listed(c)' <=> c \in ToSet(boot'.unclean)
      BY <1>14 DEF Listed
    <3>2. CASE c = b
      <4>1. Exact(b)'
        BY <1>6, <1>8 DEF Exact, Its
      <4>2. Unfit(b)' <=> flash[b].state = "CLEAN" /\ Its(b) # <<>>
        <5>1. Len(Its(b)) > 0 <=> Its(b) # <<>>
          BY IdxNat
        <5> QED
          BY <1>8, <5>1 DEF Unfit
      <4>3. b \notin ToSet(boot.unclean)
        BY <1>9, TwoBlocks
      <4> QED
        BY <1>13, <3>1, <3>2, <4>1, <4>2, <4>3 DEF BootRead
    <3>3. CASE c # b
      <4>1. c < b
        BY <2>3, <3>3, TwoBlocks
      <4>2. Exact(c) /\ (Unfit(c) <=> c \in ToSet(boot.unclean))
        BY <1>9, <4>1
      <4>3. Exact(c)' = Exact(c) /\ Unfit(c)' = Unfit(c)
        BY <1>6, <1>8, <3>3 DEF Exact, Unfit, Its
      <4> QED
        BY <1>13, <3>1, <3>3, <4>2, <4>3 DEF BootRead
    <3> QED
      BY <3>2, <3>3
  <2>4. boot'.unclean = <<>> \/ \E c \in Blocks : boot'.unclean = <<c>> /\ c < b + 1
    <3>1. CASE flash[b].state = "CLEAN" /\ Its(b) # <<>>
      <4>1. boot'.unclean = <<b>> /\ b < b + 1
        BY <1>11, <1>12, <3>1, TwoBlocks
      <4> QED
        BY <4>1
    <3>2. CASE ~(flash[b].state = "CLEAN" /\ Its(b) # <<>>)
      <4>1. \A c \in Blocks : c < b => c < b + 1
        BY TwoBlocks
      <4> QED
        BY <1>10, <1>11, <3>2, <4>1
    <3> QED
      BY <3>1, <3>2
  <2>5. \A c \in Blocks : Its(c)' = Its(c) /\ Idx(c)' = Idx(c)
    BY <1>6 DEF Its, Idx
  <2>6. \A c \in Blocks : \A i \in Idx(c)' :
           flash'[c].state = "USED" /\ Reached(c, i)' /\ (~Its(c)'[i].live \/ Goes(c, i)') => Marks(c)'
    BY <1>6, <1>9, <1>14, <1>15, <2>5
  <2> QED
    BY <1>11, <2>1, <2>2, <2>3, <2>4, <2>6 DEF BootInfo
<1> QED
  BY <1>16, <1>17, <1>18 DEF BootShape

\* A block that is marked clean and has items.
LEMMA BootUncleanShape ==
    ASSUME KvTypeOK, BootShape, BootUnclean
    PROVE  BootShape'
<1>1. /\ boot.stage = "blocks" /\ todo = <<>> /\ boot.blk = 2 /\ boot.unclean # <<>>
      /\ todo' = Unclean(Last(boot.unclean))
      /\ boot' = [boot EXCEPT !.unclean = Front(@)]
      /\ UNCHANGED <<flash, info, clean_blk_nums, legal, lossy>>
  BY DEF BootUnclean, flashVars, BlockNums
<1>2. PICK b \in Blocks : boot.unclean = <<b>>
  BY <1>1 DEF BootShape, BootInfo
<1>3. Last(boot.unclean) = b /\ Front(boot.unclean) = <<>>
  BY <1>2 DEF Last, Front
<1>4. boot'.stage = "blocks" /\ boot'.blk = 2 /\ boot'.unclean = <<>>
  BY <1>1, <1>3, BootTypes
<1>5. \A c \in Blocks : c < 2
  BY TwoBlocks
<1>6. /\ \A c \in Blocks : Exact(c) /\ (Unfit(c) <=> c = b)
      /\ \A c \in Blocks : \A i \in Idx(c) : flash[c].state = "USED" /\ Reached(c, i) => Its(c)[i].live
      /\ clean_blk_nums = Count(0) + Count(1)
      /\ \E d \in Blocks : Single(d) \/ Double(d)
  <2>1. \A c : c \in ToSet(boot.unclean) <=> c = b
    BY <1>2, ShortSets
  <2> QED
    BY <1>1, <1>5, <2>1, BootQuiet
<1>7. \/ clean_blk_nums > 0 /\ todo' = <<WriteState(b, "DIRTY")>>
      \/ clean_blk_nums = 0 /\ todo' = <<Erase(b), Header(b)>>
  <2>1. clean_blk_nums \in Nat
    BY <1>6 DEF Count
  <2>2. todo' = IF clean_blk_nums >= 1 THEN <<WriteState(b, "DIRTY")>> ELSE Format(b)
    BY <1>1, <1>3 DEF Unclean, Reserved
  <2>3. Format(b) = <<Erase(b), Header(b)>>
    BY WriteTypes
  <2> QED
    BY <2>1, <2>2, <2>3
<1>8. /\ \A c, i : ~Goes(c, i) /\ ~Goes(c, i)'
      /\ todo' # <<>>
      /\ \A c : Marks(c)' <=> c = b /\ todo' = <<WriteState(b, "DIRTY")>>
  <2>1. \A c, i : ~Goes(c, i)
    BY <1>1, NoWrites
  <2>2. CASE todo' = <<WriteState(b, "DIRTY")>>
    <3>1. todo' # <<>>
      BY <2>2, ShortTails
    <3>2. \A c, i : ~Goes(c, i)'
      BY <2>2, ShortSets, WriteDiffer DEF Goes
    <3>3. \A c : Marks(c)' <=> c = b
      BY <2>2, ShortSets, WriteDiffer DEF Marks
    <3> QED
      BY <2>1, <2>2, <3>1, <3>2, <3>3
  <2>3. CASE todo' = <<Erase(b), Header(b)>>
    <3>1. \A c, i : ~Goes(c, i)'
      BY <2>3, FormatFacts DEF Goes
    <3>2. \A c : ~Marks(c)'
      BY <2>3, FormatFacts DEF Marks
    <3>3. todo' # <<>>
      BY <2>3, FormatFacts
    <3>4. todo' # <<WriteState(b, "DIRTY")>>
      <4>1. WriteState(b, "DIRTY") \notin ToSet(todo')
        BY <2>3, FormatFacts
      <4> QED
        BY <4>1, ShortSets
    <3> QED
      BY <2>1, <3>1, <3>2, <3>3, <3>4
  <2> QED
    BY <1>7, <2>2, <2>3
<1>9. \A c \in Blocks : \A i : Reached(c, i)' => Reached(c, i)
  BY <1>1, <1>4 DEF Reached
<1>10. \E d \in Blocks : Single(d)' \/ Double(d)'
  BY <1>1, <1>6, <1>8, <1>9, BootFrame
<1>11. BootTodo'
  <2>1. Unfit(b)'
    BY <1>1, <1>6 DEF Unfit
  <2>2. CASE todo' = <<WriteState(b, "DIRTY")>>
    <3>1. clean_blk_nums' > 0
      <4>1. todo' # <<Erase(b), Header(b)>>
        BY <2>2, ShortTails, WriteFields
      <4> QED
        BY <1>1, <1>7, <4>1
    <3> QED
      BY <1>4, <2>1, <2>2, <3>1 DEF BootTodo
  <2>3. CASE clean_blk_nums = 0 /\ todo' = <<Erase(b), Header(b)>>
    <3>1. FormatWrites(b)'
      BY <1>1, <1>4, <1>5, <2>1, <2>3 DEF FormatWrites, Formats
    <3> QED
      BY <1>4, <3>1 DEF BootTodo
  <2> QED
    BY <1>7, <2>2, <2>3
<1>12. BootStage'
  BY <1>4 DEF BootStage
<1>13. BootInfo'
  <2>1. clean_blk_nums' = Count(0)' + Count(1)'
    BY <1>1, <1>6 DEF Count
  <2>2. ASSUME NEW c \in Blocks PROVE BootRead(c)'
    <3>1. Exact(c)' /\ (Unfit(c)' <=> c = b)
      BY <1>1, <1>6 DEF Exact, Unfit, Its
    <3>2. c \notin ToSet(boot'.unclean)
      BY <1>4, ShortSets
    <3>3. CASE todo' = <<WriteState(b, "DIRTY")>>
      BY <1>4, <1>8, <3>1, <3>2, <3>3 DEF BootRead, Listed
    <3>4. CASE todo' = <<Erase(b), Header(b)>>
      <4>1. ~Marks(c)'
        <5>1. WriteState(b, "DIRTY") \notin ToSet(todo')
          BY <3>4, FormatFacts
        <5> QED
          BY <1>8, <5>1, ShortSets
      <4>2. CASE c = b
        BY <1>8, <3>2, <3>4, <4>2 DEF BootRead, Formats
      <4>3. CASE c # b
        BY <3>1, <3>2, <4>1, <4>3 DEF BootRead, Listed
      <4> QED
        BY <4>2, <4>3
    <3> QED
      BY <1>7, <3>3, <3>4
  <2>3. \A c \in Blocks : Its(c)' = Its(c) /\ Idx(c)' = Idx(c)
    BY <1>1 DEF Its, Idx
  <2>4. \A c \in Blocks : \A i \in Idx(c)' :
           flash'[c].state = "USED" /\ Reached(c, i)' /\ (~Its(c)'[i].live \/ Goes(c, i)') => Marks(c)'
    BY <1>1, <1>6, <1>8, <1>9, <2>3
  <2>5. \A c \in Blocks : ~(c > boot'.blk \/ (c = boot'.blk /\ boot'.stage = "blocks"))
    BY <1>4, TwoBlocks
  <2> QED
    BY <1>4, <2>1, <2>2, <2>4, <2>5 DEF BootInfo
<1> QED
  BY <1>10, <1>11, <1>12, <1>13 DEF BootShape

\* What is known when all blocks are read: no block is unfit, one is clean.
LEMMA AllRead ==
    ASSUME KvTypeOK, BootShape, todo = <<>>, boot.blk = 2, boot.unclean = <<>>
    PROVE  /\ \A c \in Blocks : Exact(c) /\ ~Unfit(c)
           /\ \E b \in Blocks : Single(b) /\ info[Other(b)] = Empty
           /\ clean_blk_nums = Count(0) + Count(1) /\ clean_blk_nums \in {1, 2}
<1>1. \A c \in Blocks : c < 2
  BY TwoBlocks
<1>2. \A c \in Blocks : Exact(c) /\ ~Unfit(c)
  BY <1>1, BootQuiet, ShortSets
<1>3. PICK b \in Blocks : Single(b) \/ Double(b)
  BY BootQuiet
<1> DEFINE o == Other(b)
<1>4. o \in Blocks /\ o # b
  BY TwoBlocks
<1>5. info[o].state = flash[o].state /\ info[o].used = Len(Its(o)) /\ Len(Its(o)) \in Nat
  <2>1. info[o] = [state |-> flash[o].state, used |-> Len(Its(o))]
    BY <1>2, <1>4 DEF Exact
  <2> QED
    BY <1>4, <2>1, IdxNat
<1>6. ~Double(b)
  <2>1. ASSUME Double(b) PROVE FALSE
    <3>1. flash[o].state = "CLEAN" /\ Its(o) # <<>>
      BY <2>1 DEF Double
    <3>2. Len(Its(o)) > 0
      BY <1>4, <3>1, IdxNat
    <3> QED
      BY <1>2, <1>4, <1>5, <3>1, <3>2 DEF Unfit
  <2> QED
    BY <2>1
<1>7. info[o] = Empty
  <2>1. Its(o) = <<>> /\ flash[o].state \in {"NONE", "CLEAN"}
    BY <1>3, <1>6 DEF Single
  <2>2. Len(Its(o)) = 0
    BY <2>1
  <2>3. info[o].state # "NONE"
    BY <1>4, FlashTypes
  <2>4. info[o] = [state |-> flash[o].state, used |-> Len(Its(o))]
    BY <1>2, <1>4 DEF Exact
  <2> QED
    BY <1>5, <2>1, <2>2, <2>3, <2>4 DEF Empty
<1>8. clean_blk_nums = Count(0) + Count(1)
  BY BootQuiet
<1>9. Count(o) = 1 /\ Count(0) \in {0, 1} /\ Count(1) \in {0, 1} /\ (o = 0 \/ o = 1)
  BY <1>4, <1>7, TwoBlocks DEF Count
<1>10. clean_blk_nums \in {1, 2}
  BY <1>8, <1>9
<1> QED
  BY <1>2, <1>3, <1>6, <1>7, <1>8, <1>10

\* A block to write to.
LEMMA BootMarkShape ==
    ASSUME KvTypeOK, BootShape, BootMark
    PROVE  BootShape'
<1>1. /\ boot.stage = "blocks" /\ todo = <<>> /\ boot.blk = 2 /\ boot.unclean = <<>>
      /\ boot' = [boot EXCEPT !.stage = "mark"]
      /\ UNCHANGED <<flash, info, clean_blk_nums, legal, lossy>>
  BY DEF BootMark, flashVars, BlockNums
<1>2. boot'.stage = "mark" /\ boot'.blk = 2 /\ boot'.unclean = <<>>
  BY <1>1, BootTypes
<1>3. /\ \A c \in Blocks : Exact(c) /\ ~Unfit(c)
      /\ clean_blk_nums = Count(0) + Count(1) /\ clean_blk_nums \in {1, 2}
  BY <1>1, AllRead
<1>4. \/ clean_blk_nums = 1 /\ todo' = <<>>
      \/ clean_blk_nums = 2 /\ todo' = <<WriteState(0, "USED")>>
  BY <1>3 DEF BootMark, BlockNums
<1>5. /\ \A c, i : ~Goes(c, i) /\ ~Goes(c, i)'
      /\ \A c : ~Marks(c)'
  <2>1. CASE todo' = <<>>
    BY <1>1, <2>1, NoWrites, ShortSets DEF Goes, Marks
  <2>2. CASE todo' = <<WriteState(0, "USED")>>
    BY <1>1, <2>2, NoWrites, ShortSets, WriteDiffer DEF Goes, Marks
  <2> QED
    BY <1>4, <2>1, <2>2
<1>6. \A c \in Blocks : \A i : Reached(c, i)' => Reached(c, i)
  BY <1>1, <1>2, TwoBlocks DEF Reached
<1>7. \E d \in Blocks : Single(d)' \/ Double(d)'
  BY <1>1, <1>5, <1>6, BootFrame, BootQuiet
<1>8. BootTodo' /\ BootStage'
  BY <1>1, <1>2, <1>4 DEF BootTodo, BootStage
<1>9. BootInfo'
  <2>1. clean_blk_nums' = Count(0)' + Count(1)'
    BY <1>1, <1>3 DEF Count
  <2>2. ASSUME NEW c \in Blocks PROVE BootRead(c)'
    <3>1. Exact(c)' /\ ~Unfit(c)'
      BY <1>1, <1>3 DEF Exact, Unfit, Its
    <3>2. ~Listed(c)'
      BY <1>2, ShortSets DEF Listed
    <3> QED
      BY <3>1, <3>2 DEF BootRead
  <2>3. \A c \in Blocks : Its(c)' = Its(c) /\ Idx(c)' = Idx(c)
    BY <1>1 DEF Its, Idx
  <2>4. \A c \in Blocks : \A i \in Idx(c)' :
           flash'[c].state = "USED" /\ Reached(c, i)' /\ (~Its(c)'[i].live \/ Goes(c, i)') => Marks(c)'
    <3>1. \A c \in Blocks : \A i \in Idx(c) : flash[c].state = "USED" /\ Reached(c, i) => Its(c)[i].live
      BY <1>1, BootQuiet
    <3> QED
      BY <1>1, <1>5, <1>6, <2>3, <3>1
  <2>5. \A c \in Blocks : ~(c > boot'.blk \/ (c = boot'.blk /\ boot'.stage = "blocks"))
    BY <1>2, TwoBlocks
  <2> QED
    BY <1>2, <2>1, <2>2, <2>4, <2>5 DEF BootInfo
<1> QED
  BY <1>7, <1>8, <1>9 DEF BootShape

-----------------------------------------------------------------------------
(* The writes of the recovery.                                             *)

\* The traversals stay where they are when something is written.
LEMMA WriteReached ==
    ASSUME KvTypeOK, Write
    PROVE  boot' = boot /\ \A c, i : Reached(c, i)' = Reached(c, i)
<1>1. boot' = boot
  BY WriteRest
<1> QED
  BY <1>1 DEF Reached

\* The recovery deletes an item.
LEMMA BootDeleteShape ==
    ASSUME KvTypeOK, BootShape, Write, boot.stage = "items", ItemWrites,
           NEW c \in Blocks, NEW m \in Idx(c), Head(todo) = WriteDelete(Place(c, m))
    PROVE  BootShape'
<1>1. boot' = boot /\ UNCHANGED <<legal, lossy>> /\ \A d, i : Reached(d, i)' = Reached(d, i)
  BY WriteReached, WriteRest
<1>2. /\ todo # <<>> /\ todo' = Tail(todo)
      /\ todo' = <<>> \/ todo' = <<WriteState(c, "DIRTY")>>
  <2>a. PICK b \in Blocks : \E i \in Idx(b) :
          \/ todo = <<WriteDelete(Place(b, i))>>
          \/ todo = <<WriteDelete(Place(b, i)), WriteState(b, "DIRTY")>>
          \/ todo = <<WriteState(b, "DIRTY")>>
    BY DEF ItemWrites
  <2>1. PICK i \in Idx(b) :
          \/ todo = <<WriteDelete(Place(b, i))>>
          \/ todo = <<WriteDelete(Place(b, i)), WriteState(b, "DIRTY")>>
          \/ todo = <<WriteState(b, "DIRTY")>>
    BY <2>a
  <2>2. todo # <<WriteState(b, "DIRTY")>>
    BY ShortTails, WriteDiffer
  <2>3. Head(todo) = WriteDelete(Place(b, i)) /\ (Tail(todo) = <<>> \/ Tail(todo) = <<WriteState(b, "DIRTY")>>)
    BY <2>1, <2>2, ShortTails
  <2>4. b = c
    BY <2>3, WriteDiffer
  <2> QED
    BY <2>3, <2>4, WriteRest
<1>3. /\ flash' \in FlashType
      /\ flash'[c].state = flash[c].state /\ flash'[Other(c)] = flash[Other(c)]
      /\ Len(Its(c)') = Len(Its(c))
      /\ UNCHANGED <<info, write_pos, clean_blk_nums>>
  BY DeleteStep
<1>4. /\ Goes(c, m) /\ ~Its(c)'[m].live /\ Idx(c)' = Idx(c)
      /\ \A i \in Idx(c) : i # m => Its(c)'[i] = Its(c)[i]
      /\ \A b, i : Goes(b, i) <=> Goes(b, i)' \/ (b = c /\ i = m)
      /\ \A b : Marks(b)' <=> Marks(b)
      /\ \A k : ~Pended(k) /\ \A i \in Idx(c) : Good(c, i, k)' <=> i # m /\ Good(c, i, k)
      /\ \A i, j \in Idx(c) : Twins(c, i, j)' => Twins(c, i, j) /\ i # m /\ j # m
      /\ Filled(c) => Filled(c)'
      /\ AllOk(c) => AllOk(c)'
      /\ Values(c) => Values(c)'
  BY DeleteFacts
<1> DEFINE e == Other(c)
<1>5. e \in Blocks /\ e # c /\ Other(e) = c /\ \A d \in Blocks : d = c \/ d = e
  BY TwoBlocks
<1>6. /\ Its(e)' = Its(e) /\ Idx(e)' = Idx(e)
      /\ \A i, k : Good(e, i, k)' = Good(e, i, k)
      /\ NoTwins(e)' = NoTwins(e) /\ Filled(e)' = Filled(e) /\ AllOk(e)' = AllOk(e)
      /\ Lawful(e)' = Lawful(e)
      /\ \A k : Free(k)' = Free(k)
      /\ \A i, j : Twins(e, i, j)' = Twins(e, i, j)
  BY <1>1, <1>3, SoundFrame
<1>7. BootInfo /\ BootStage /\ \E b \in Blocks : Single(b) \/ Double(b)
  BY DEF BootShape
<1>8. \A d \in Blocks : flash'[d].state = flash[d].state /\ Len(Its(d)') = Len(Its(d)) /\ Idx(d)' = Idx(d)
  BY <1>3, <1>4, <1>5, <1>6
<1>9. BootTodo'
  <2>1. CASE todo' = <<>>
    BY <2>1 DEF BootTodo
  <2>2. CASE todo' = <<WriteState(c, "DIRTY")>>
    <3>1. \A b \in Blocks : Marks(b)' => b <= boot'.blk /\ info'[b].state \in {"USED", "DIRTY"}
      BY <1>1, <1>3, <1>4 DEF ItemWrites
    <3>2. \E b \in Blocks : \E i \in Idx(b)' : todo' = <<WriteState(b, "DIRTY")>>
      BY <1>4, <2>2
    <3>3. ItemWrites'
      BY <3>1, <3>2 DEF ItemWrites
    <3> QED
      BY <1>1, <3>3 DEF BootTodo
  <2> QED
    BY <1>2, <2>1, <2>2
<1>10. BootStage'
  BY <1>1, <1>3, <1>7, <1>8 DEF BootStage
<1>11. BootInfo'
  <2>1. clean_blk_nums' = Count(0)' + Count(1)'
    BY <1>3, <1>7 DEF Count, BootInfo
  <2>2. ASSUME NEW d \in Blocks, d < boot.blk PROVE BootRead(d)'
    <3>1. ~Formats(d)
      BY ShortTails, WriteDiffer DEF Formats
    <3>2. Exact(d) /\ (Unfit(d) <=> Listed(d))
      BY <1>7, <2>2, <3>1 DEF BootInfo, BootRead
    <3>3. Exact(d)'
      BY <1>3, <1>8, <3>2 DEF Exact
    <3>4. Unfit(d)' <=> Listed(d)'
      BY <1>1, <1>3, <3>2 DEF Unfit, Listed
    <3> QED
      BY <3>3, <3>4 DEF BootRead
  <2>3. ASSUME NEW d \in Blocks, NEW i \in Idx(d), flash[d].state = "USED", Reached(d, i),
               ~Its(d)'[i].live \/ Goes(d, i)'
        PROVE  Marks(d)'
    <3>1. CASE Goes(d, i)
      BY <1>4, <1>7, <2>3, <3>1 DEF BootInfo
    <3>2. CASE ~Goes(d, i)
      <4>1. ~Its(d)'[i].live /\ Its(d)'[i] = Its(d)[i]
        BY <1>4, <1>5, <1>6, <2>3, <3>2
      <4> QED
        BY <1>4, <1>7, <2>3, <4>1 DEF BootInfo
    <3> QED
      BY <3>1, <3>2
  <2>4. \A d \in Blocks : \A i \in Idx(d)' :
           flash'[d].state = "USED" /\ Reached(d, i)' /\ (~Its(d)'[i].live \/ Goes(d, i)') => Marks(d)'
    BY <1>1, <1>8, <2>3
  <2>5. /\ \A d \in Blocks : d > boot'.blk \/ (d = boot'.blk /\ boot'.stage = "blocks") => info'[d] = Unread
        /\ boot'.unclean = <<>> \/ \E d \in Blocks : boot'.unclean = <<d>> /\ d < boot'.blk
    BY <1>1, <1>3, <1>7 DEF BootInfo
  <2> QED
    BY <1>1, <2>1, <2>2, <2>4, <2>5 DEF BootInfo
<1>12. \E d \in Blocks : Single(d)' \/ Double(d)'
  <2>1. PICK d \in Blocks : Single(d) \/ Double(d)
    BY <1>7
  <2>2. CASE Single(d)
    <3>1. /\ Its(Other(d)) = <<>> /\ flash[Other(d)].state \in {"NONE", "CLEAN"}
          /\ flash[d].state = "NONE" => Its(d) = <<>>
          /\ Len(Its(d)) <= Slots /\ Filled(d) /\ BootTwins(d) /\ Values(d)
          /\ \A i \in Idx(d) : Its(d)[i].live /\ ~Its(d)[i].ok /\ Reached(d, i) => Goes(d, i)
      BY <2>2 DEF Single
    <3>2. d = c
      <4>1. Its(e) = <<>> => Idx(e) = {}
        BY DEF Idx, Its
      <4>2. Its(c) = <<>> => Idx(c) = {}
        BY DEF Idx, Its
      <4> QED
        BY <1>5, <3>1, <4>2
    <3>3. BootTwins(c)'
      <4>1. SUFFICES ASSUME NEW i \in Idx(c), NEW j \in Idx(c), Twins(c, i, j)'
                     PROVE  /\ Its(c)'[i].origin = Place(c, j) \/ Its(c)'[j].origin = Place(c, i)
                            /\ Its(c)'[j].origin = Place(c, i) /\ Reached(c, j)' =>
                                  Goes(c, i)' \/ Goes(c, j)'
        BY <1>4 DEF BootTwins
      <4>2. Twins(c, i, j) /\ i # m /\ j # m /\ Its(c)'[i] = Its(c)[i] /\ Its(c)'[j] = Its(c)[j]
        BY <1>4, <4>1
      <4>3. /\ Its(c)[i].origin = Place(c, j) \/ Its(c)[j].origin = Place(c, i)
            /\ Its(c)[j].origin = Place(c, i) /\ Reached(c, j) => Goes(c, i) \/ Goes(c, j)
        BY <3>1, <3>2, <4>2 DEF BootTwins
      <4> QED
        BY <1>1, <1>4, <4>2, <4>3
    <3>4. \A i \in Idx(c)' : Its(c)'[i].live /\ ~Its(c)'[i].ok /\ Reached(c, i)' => Goes(c, i)'
      <4>1. SUFFICES ASSUME NEW i \in Idx(c), Its(c)'[i].live, ~Its(c)'[i].ok, Reached(c, i)
                     PROVE  Goes(c, i)'
        BY <1>1, <1>4
      <4>2. i # m /\ Its(c)'[i] = Its(c)[i]
        BY <1>4, <4>1
      <4> QED
        BY <1>4, <3>1, <3>2, <4>1, <4>2
    <3>5. /\ Its(e)' = <<>> /\ flash'[e].state \in {"NONE", "CLEAN"}
          /\ flash'[c].state # "NONE" /\ Len(Its(c)') <= Slots /\ Filled(c)' /\ Values(c)'
      <4>1. Its(c) # <<>>
        BY DEF Idx, Its
      <4> QED
        BY <1>3, <1>4, <1>5, <1>6, <3>1, <3>2, <4>1
    <3> QED
      BY <3>3, <3>4, <3>5 DEF Single
  <2>3. CASE Double(d)
    <3> DEFINE o == Other(d)
    <3>1. /\ flash[d].state = "DIRTY" /\ flash[o].state = "CLEAN" /\ Its(o) # <<>>
          /\ Len(Its(d)) <= Slots /\ NoTwins(d) /\ Filled(d) /\ AllOk(d) /\ Values(d)
          /\ NoTwins(o)
          /\ \A i \in Idx(d), j \in Idx(o) : Copies(d, o, i, j) => lossy
      BY <2>3 DEF Double
    <3>2. o \in Blocks /\ o # d
      BY TwoBlocks
    <3>3. \A b \in Blocks : \A i \in Idx(b) : Its(b)'[i].live => Its(b)'[i] = Its(b)[i]
      BY <1>4, <1>5, <1>6
    <3>4. \A b \in Blocks : NoTwins(b) => NoTwins(b)'
      BY <1>4, <1>5, <1>6 DEF NoTwins
    <3>5. Filled(d)' /\ AllOk(d)'
      BY <1>4, <1>5, <1>6, <3>1
    <3>6. Values(d)'
      <4>1. CASE d = c
        BY <1>4, <3>1, <4>1
      <4>2. CASE d = e
        BY <1>4, <1>6, <3>1, <4>2 DEF Values
      <4> QED
        BY <1>5, <4>1, <4>2
    <3>7. Its(o)' # <<>>
      <4>1. Len(Its(o)') = Len(Its(o)) /\ Len(Its(o)) > 0
        BY <1>8, <3>1, <3>2, IdxNat
      <4> QED
        BY <4>1
    <3>8. \A i \in Idx(d)', j \in Idx(o)' : Copies(d, o, i, j)' => lossy'
      <4>1. SUFFICES ASSUME NEW i \in Idx(d)', NEW j \in Idx(o)', Copies(d, o, i, j)' PROVE lossy'
        BY Zenon
      <4>2. i \in Idx(d) /\ j \in Idx(o) /\ lossy' = lossy
        BY <1>1, <1>8, <3>2, <4>1
      <4>3. Its(d)'[i] = Its(d)[i] /\ Its(o)'[j] = Its(o)[j]
        BY <3>2, <3>3, <4>1, <4>2 DEF Copies
      <4>4. Copies(d, o, i, j)
        BY <4>1, <4>3 DEF Copies
      <4>5. lossy
        BY <3>1, <4>2, <4>4, Zenon
      <4> QED
        BY <4>2, <4>5
    <3>9. /\ flash'[d].state = "DIRTY" /\ flash'[o].state = "CLEAN" /\ Len(Its(d)') <= Slots
      BY <1>8, <3>1, <3>2
    <3> QED
      BY <3>1, <3>2, <3>4, <3>5, <3>6, <3>7, <3>8, <3>9 DEF Double
  <2> QED
    BY <1>5, <2>1, <2>2, <2>3
<1> QED
  BY <1>9, <1>10, <1>11, <1>12 DEF BootShape

\* The block with the items is marked as dirty.
LEMMA DirtyData ==
    ASSUME KvTypeOK, Write, NEW c \in Blocks, Head(todo) = WriteState(c, "DIRTY")
    PROVE  /\ Single(c) => Single(c)'
           /\ Double(c) => Double(c)'
<1>1. UNCHANGED <<legal, lossy>> /\ \A d, i : Reached(d, i)' = Reached(d, i)
  BY WriteReached, WriteRest
<1>2. flash'[c].state = "DIRTY" /\ flash'[Other(c)] = flash[Other(c)]
  BY StateStep
<1>3. /\ \A d, i : Goes(d, i)' <=> Goes(d, i)
      /\ \A d \in Blocks : /\ Its(d)' = Its(d) /\ Idx(d)' = Idx(d)
                           /\ \A i, j : Twins(d, i, j)' = Twins(d, i, j)
                           /\ Filled(d)' = Filled(d) /\ AllOk(d)' = AllOk(d)
                           /\ NoTwins(d)' = NoTwins(d)
                           /\ Values(d) => Values(d)'
  BY StateFacts
<1> DEFINE o == Other(c)
<1>4. o \in Blocks
  BY TwoBlocks
<1>5. ASSUME Single(c) PROVE Single(c)'
  <2>1. BootTwins(c)'
    BY <1>1, <1>3, <1>5 DEF Single, BootTwins
  <2>2. \A i \in Idx(c)' : Its(c)'[i].live /\ ~Its(c)'[i].ok /\ Reached(c, i)' => Goes(c, i)'
    BY <1>1, <1>3, <1>5 DEF Single
  <2> QED
    BY <1>2, <1>3, <1>4, <1>5, <2>1, <2>2 DEF Single
<1>6. ASSUME Double(c) PROVE Double(c)'
  <2>1. /\ flash[o].state = "CLEAN" /\ Its(o) # <<>>
        /\ Len(Its(c)) <= Slots /\ NoTwins(c) /\ Filled(c) /\ AllOk(c) /\ Values(c)
        /\ NoTwins(o)
        /\ \A i \in Idx(c), j \in Idx(o) : Copies(c, o, i, j) => lossy
    BY <1>6 DEF Double
  <2>2. \A i \in Idx(c)', j \in Idx(o)' : Copies(c, o, i, j)' => lossy'
    <3>1. SUFFICES ASSUME NEW i \in Idx(c)', NEW j \in Idx(o)', Copies(c, o, i, j)' PROVE lossy'
      BY Zenon
    <3>2. i \in Idx(c) /\ j \in Idx(o) /\ lossy' = lossy
      BY <1>1, <1>3, <1>4, <3>1
    <3>3. Copies(c, o, i, j)
      BY <1>3, <1>4, <3>1 DEF Copies
    <3>4. lossy
      BY <2>1, <3>2, <3>3, Zenon
    <3> QED
      BY <3>2, <3>4
  <2> QED
    BY <1>2, <1>3, <1>4, <2>1, <2>2 DEF Double
<1> QED
  BY <1>5, <1>6

\* The recovery marks a block as dirty: one with a deleted item, or the target
\* of a collection that was interrupted after the erase.
LEMMA BootDirtyShape ==
    ASSUME KvTypeOK, BootShape, Write, NEW c \in Blocks, todo = <<WriteState(c, "DIRTY")>>,
           \/ boot.stage = "items" /\ ItemWrites
           \/ /\ boot.stage = "blocks" /\ boot.blk = 2 /\ boot.unclean = <<>>
              /\ Unfit(c) /\ clean_blk_nums > 0
    PROVE  BootShape'
<1>1. boot' = boot /\ UNCHANGED <<legal, lossy>> /\ \A d, i : Reached(d, i)' = Reached(d, i)
  BY WriteReached, WriteRest
<1>2. Head(todo) = WriteState(c, "DIRTY") /\ todo' = <<>> /\ todo # <<>>
  BY ShortTails, WriteRest
<1>3. /\ flash'[c].state = "DIRTY" /\ flash'[Other(c)] = flash[Other(c)]
      /\ info'[c] = [state |-> "DIRTY", used |-> info[c].used] /\ info'[Other(c)] = info[Other(c)]
      /\ clean_blk_nums' = clean_blk_nums
  BY <1>2, StateStep
<1>4. \A d \in Blocks : Its(d)' = Its(d) /\ Idx(d)' = Idx(d)
  BY <1>2, StateStep
<1>5. \A d : Marks(d) <=> d = c
  BY ShortSets, WriteDiffer DEF Marks
<1>6. \A d : ~Formats(d)
  <2>1. ASSUME NEW d, Formats(d) PROVE FALSE
    <3>1. Head(todo) = Erase(d) \/ Head(todo) = Header(d)
      BY <2>1, ShortTails DEF Formats
    <3> QED
      BY <1>2, <3>1, WriteFields
  <2> QED
    BY <2>1
<1>7. /\ \A d, i : ~Goes(d, i)'
      /\ \A d : ~Marks(d)'
  BY <1>2, ShortSets DEF Goes, Marks
<1> DEFINE e == Other(c)
<1>8. e \in Blocks /\ e # c /\ \A d \in Blocks : d = c \/ d = e
  BY TwoBlocks
<1>9. BootInfo /\ BootStage /\ \E b \in Blocks : Single(b) \/ Double(b)
  BY DEF BootShape
<1>10. \A d \in Blocks : d < boot.blk => Exact(d) /\ (Unfit(d) <=> Listed(d))
  BY <1>6, <1>9 DEF BootInfo, BootRead
<1>11. /\ c < boot.blk \/ (c = boot.blk /\ boot.stage = "items")
       /\ boot.stage = "items" => info[c].state \in {"USED", "DIRTY"}
       /\ boot.stage = "blocks" =>
             boot.blk = 2 /\ boot.unclean = <<>> /\ Unfit(c) /\ clean_blk_nums > 0
       /\ boot.stage = "items" \/ boot.stage = "blocks"
  <2>1. CASE boot.stage = "items" /\ ItemWrites
    <3>1. c <= boot.blk /\ info[c].state \in {"USED", "DIRTY"}
      BY <1>5, <2>1 DEF ItemWrites
    <3>2. boot.blk \in 0..2
      BY BootTypes
    <3> QED
      BY <2>1, <3>1, <3>2, TwoBlocks
  <2>2. CASE boot.stage = "blocks" /\ boot.blk = 2
    BY <2>2, TwoBlocks
  <2> QED
    BY <2>1, <2>2
<1>12. info[c].state = flash[c].state /\ (c < boot.blk => info[c].used = Len(Its(c)))
  <2>1. CASE c < boot.blk
    <3>1. info[c] = [state |-> flash[c].state, used |-> Len(Its(c))]
      BY <1>10, <2>1 DEF Exact
    <3> QED
      BY <3>1
  <2>2. CASE c = boot.blk /\ boot.stage = "items"
    <3>1. info[c] = [state |-> flash[c].state, used |-> Slots]
      BY <1>9, <2>2 DEF BootStage
    <3>2. ~(c < boot.blk)
      BY <2>2, TwoBlocks
    <3> QED
      BY <3>1, <3>2
  <2> QED
    BY <1>11, <2>1, <2>2
<1>13. info[c] # Empty /\ info'[c] # Empty
  BY <1>3, <1>11 DEF Unfit, Empty
<1>14. BootTodo'
  BY <1>2 DEF BootTodo
<1>15. BootStage'
  <2>1. ASSUME boot.stage = "items"
        PROVE  /\ boot.blk \in Blocks /\ boot.n > 0 /\ flash'[boot.blk].state # "NONE"
               /\ info'[boot.blk] = [state |-> flash'[boot.blk].state, used |-> Slots]
    <3>1. /\ boot.blk \in Blocks /\ boot.n > 0 /\ flash[boot.blk].state # "NONE"
          /\ info[boot.blk] = [state |-> flash[boot.blk].state, used |-> Slots]
      BY <1>9, <2>1 DEF BootStage
    <3>2. CASE boot.blk = c
      BY <1>3, <3>1, <3>2
    <3>3. CASE boot.blk = e
      BY <1>3, <3>1, <3>3
    <3> QED
      BY <1>8, <3>1, <3>2, <3>3
  <2> QED
    BY <1>1, <1>11, <2>1 DEF BootStage
<1>16. BootInfo'
  <2>1. clean_blk_nums' = Count(0)' + Count(1)'
    <3>1. \A d \in Blocks : Count(d)' = Count(d)
      BY <1>3, <1>8, <1>13 DEF Count
    <3> QED
      BY <1>3, <1>9, <3>1, TwoBlocks DEF BootInfo
  <2>2. ASSUME NEW d \in Blocks, d > boot.blk \/ (d = boot.blk /\ boot.stage = "blocks")
        PROVE  info'[d] = Unread
    <3>1. d # c
      <4>1. boot.blk \in 0..2
        BY BootTypes
      <4>2. ~(c > boot.blk) /\ ~(c = boot.blk /\ boot.stage = "blocks")
        BY <1>11, <4>1, TwoBlocks
      <4> QED
        BY <2>2, <4>2
    <3>2. info[d] = Unread
      BY <1>9, <2>2 DEF BootInfo
    <3> QED
      BY <1>3, <1>8, <3>1, <3>2
  <2>3. ASSUME NEW d \in Blocks, d < boot.blk PROVE BootRead(d)'
    <3>1. CASE d = c
      <4>1. Exact(c)'
        BY <1>3, <1>4, <1>12, <2>3, <3>1 DEF Exact
      <4>2. ~Unfit(c)'
        BY <1>3 DEF Unfit
      <4>3. c \notin ToSet(boot.unclean)
        <5>1. CASE boot.stage = "items"
          BY <1>10, <1>11, <2>3, <3>1, <5>1 DEF Unfit, Listed
        <5>2. CASE boot.stage = "blocks"
          BY <1>11, <5>2, ShortSets
        <5> QED
          BY <1>11, <5>1, <5>2
      <4> QED
        BY <1>1, <1>7, <3>1, <4>1, <4>2, <4>3 DEF BootRead, Listed
    <3>2. CASE d = e
      <4>1. Exact(d) /\ (Unfit(d) <=> d \in ToSet(boot.unclean))
        BY <1>5, <1>8, <1>10, <2>3, <3>2 DEF Listed
      <4>2. Exact(d)' = Exact(d) /\ Unfit(d)' = Unfit(d)
        BY <1>3, <3>2 DEF Exact, Unfit, Its
      <4> QED
        BY <1>1, <1>7, <4>1, <4>2 DEF BootRead, Listed
    <3> QED
      BY <1>8, <3>1, <3>2
  <2>4. ASSUME NEW d \in Blocks, NEW i \in Idx(d), flash'[d].state = "USED", Reached(d, i),
               ~Its(d)[i].live
        PROVE  FALSE
    <3>1. d # c /\ flash[d].state = "USED"
      BY <1>3, <1>8, <2>4
    <3>2. Marks(d)
      BY <1>9, <2>4, <3>1 DEF BootInfo
    <3> QED
      BY <1>5, <3>1, <3>2
  <2>5. \A d \in Blocks : \A i \in Idx(d)' :
           flash'[d].state = "USED" /\ Reached(d, i)' /\ (~Its(d)'[i].live \/ Goes(d, i)') => Marks(d)'
    BY <1>1, <1>4, <1>7, <2>4
  <2>6. boot'.unclean = <<>> \/ \E d \in Blocks : boot'.unclean = <<d>> /\ d < boot'.blk
    BY <1>1, <1>9 DEF BootInfo
  <2> QED
    BY <1>1, <2>1, <2>2, <2>3, <2>5, <2>6 DEF BootInfo
<1>17. \E d \in Blocks : Single(d)' \/ Double(d)'
  <2>1. PICK d \in Blocks : Single(d) \/ Double(d)
    BY <1>9
  <2>2. d = c
    <3>1. CASE boot.stage = "items"
      BY <1>8, <1>11, <1>12, <2>1, <3>1, TwoBlocks DEF Single, Double
    <3>2. CASE boot.stage = "blocks"
      <4>1. flash[c].state = "CLEAN" /\ Its(c) # <<>>
        <5>1. info[c].used > 0 /\ info[c].used = Len(Its(c)) /\ info[c].state = "CLEAN"
          BY <1>11, <1>12, <3>2, TwoBlocks DEF Unfit
        <5> QED
          BY <1>12, <5>1
      <4>2. flash[e].state = "CLEAN"
        <5>1. Count(c) = 0
          BY <1>13 DEF Count
        <5>2. info[e] = Empty
          <6>1. Count(0) + Count(1) > 0
            BY <1>9, <1>11, <3>2 DEF BootInfo
          <6>2. Count(e) # 0
            BY <1>8, <5>1, <6>1, TwoBlocks
          <6> QED
            BY <6>2 DEF Count
        <5>3. info[e] = [state |-> flash[e].state, used |-> Len(Its(e))]
          BY <1>8, <1>10, <1>11, <3>2, TwoBlocks DEF Exact
        <5>4. info[e].state = flash[e].state /\ info[e].state = "CLEAN"
          BY <5>2, <5>3 DEF Empty
        <5> QED
          BY <5>4
      <4> QED
        BY <1>8, <2>1, <4>1, <4>2, TwoBlocks DEF Single, Double
    <3> QED
      BY <1>11, <3>1, <3>2
  <2> QED
    BY <1>2, <2>1, <2>2, DirtyData
<1> QED
  BY <1>14, <1>15, <1>16, <1>17 DEF BootShape

\* What is known of a block that is being formatted, and of the other one.
LEMMA FormatKnown ==
    ASSUME KvTypeOK, BootShape, NEW c \in Blocks, FormatWrites(c)
    PROVE  /\ c < boot.blk /\ c \notin ToSet(boot.unclean)
           /\ Count(c) = 0
           /\ \A d \in Blocks : d # c /\ d < boot.blk => Exact(d) /\ (Unfit(d) <=> d \in ToSet(boot.unclean))
           /\ \A d, i : ~Goes(d, i)
           /\ \A d : ~Marks(d)
<1>1. /\ Formats(c) /\ c < boot.blk
      /\ \/ c = boot.blk - 1 /\ info[c] = Unread
         \/ boot.blk = 2 /\ boot.unclean = <<>> /\ Unfit(c) /\ clean_blk_nums = 0
  BY DEF FormatWrites
<1>2. todo = <<Erase(c), Header(c)>> \/ todo = <<Header(c)>>
  BY <1>1 DEF Formats
<1>3. /\ \A d, i : ~Goes(d, i)
      /\ \A d : ~Marks(d)
      /\ \A d : Formats(d) => d = c
  BY <1>2, FormatFacts DEF Goes, Marks, Formats
<1>4. \A d \in Blocks : d < boot.blk => BootRead(d)
  BY DEF BootShape, BootInfo
<1>5. \A d \in Blocks : d # c /\ d < boot.blk => Exact(d) /\ (Unfit(d) <=> d \in ToSet(boot.unclean))
  BY <1>3, <1>4 DEF BootRead, Listed
<1>6. Count(c) = 0
  BY <1>1 DEF Count, Empty, Unread, Unfit
<1>7. c \notin ToSet(boot.unclean)
  <2>1. CASE boot.unclean = <<>>
    BY <2>1, ShortSets
  <2>2. CASE info[c] = Unread
    <3>1. ~Exact(c)
      <4>1. flash[c].state # "ZERO"
        BY FlashTypes
      <4> QED
        BY <2>2, <4>1 DEF Exact, Unread
    <3> QED
      BY <1>1, <1>4, <3>1 DEF BootRead
  <2> QED
    BY <1>1, <2>1, <2>2
<1> QED
  BY <1>1, <1>3, <1>5, <1>6, <1>7

\* Only the items of the target of an interrupted collection are erased.
LEMMA EraseData ==
    ASSUME KvTypeOK, BootShape, NEW c \in Blocks, FormatWrites(c),
           flash[c] # [state |-> "NONE", items |-> <<>>]
    PROVE  Single(Other(c)) \/ Double(Other(c))
<1> DEFINE e == Other(c)
<1>1. e \in Blocks /\ e # c /\ \A d \in Blocks : d = c \/ d = e
  BY TwoBlocks
<1>2. boot.blk = 2 /\ boot.unclean = <<>> /\ clean_blk_nums = 0
  BY DEF FormatWrites
<1>3. Exact(e) /\ ~Unfit(e)
  <2>1. e < boot.blk /\ e \notin ToSet(boot.unclean)
    BY <1>1, <1>2, ShortSets, TwoBlocks
  <2> QED
    BY <1>1, <2>1, FormatKnown
<1>4. info[e] # Empty
  <2>1. clean_blk_nums = Count(0) + Count(1)
    BY DEF BootShape, BootInfo
  <2>2. \A d \in Blocks : Count(d) \in {0, 1}
    BY DEF Count
  <2>3. Count(e) = 0
    BY <1>1, <1>2, <2>1, <2>2, TwoBlocks
  <2> QED
    BY <2>3 DEF Count
<1>5. flash[e].state \in {"USED", "DIRTY"}
  <2>1. info[e] = [state |-> flash[e].state, used |-> Len(Its(e))]
    BY <1>3 DEF Exact
  <2>2. info[e].state = flash[e].state /\ info[e].used = Len(Its(e)) /\ Len(Its(e)) \in Nat
    BY <1>1, <2>1, IdxNat
  <2>3. flash[e].state # "NONE" /\ flash[e].state \in {"NONE", "CLEAN", "USED", "DIRTY"}
    <3>1. info[e].state # "NONE" /\ flash[e].state \in {"NONE", "CLEAN", "USED", "DIRTY"}
      BY <1>1, FlashTypes
    <3> QED
      BY <2>2, <3>1
  <2>4. flash[e].state # "CLEAN"
    BY <1>3, <1>4, <2>1, <2>2 DEF Unfit, Empty
  <2> QED
    BY <2>3, <2>4
<1>6. PICK d \in Blocks : Single(d) \/ Double(d)
  BY DEF BootShape
<1>7. Other(d) # e
  BY <1>5, <1>6 DEF Single, Double
<1>8. d = e
  BY <1>1, <1>6, <1>7, TwoBlocks
<1> QED
  BY <1>6, <1>8

\* What is known of the blocks stays so while block c is formatted.
LEMMA FormatInfo ==
    ASSUME KvTypeOK, BootShape, Write, NEW c \in Blocks, FormatWrites(c), boot.stage = "blocks",
           flash'[Other(c)] = flash[Other(c)], info'[Other(c)] = info[Other(c)],
           clean_blk_nums' = Count(Other(c)) + Count(c)',
           \A d, i : ~Goes(d, i)', \A d : ~Marks(d)',
           flash'[c].state # "USED", BootRead(c)'
    PROVE  BootInfo' /\ BootStage'
<1> DEFINE e == Other(c)
<1>1. e \in Blocks /\ e # c /\ \A d \in Blocks : d = c \/ d = e
  BY TwoBlocks
<1>2. boot' = boot /\ UNCHANGED <<legal, lossy>> /\ \A d, i : Reached(d, i)' = Reached(d, i)
  BY WriteReached, WriteRest
<1>3. BootInfo /\ BootStage
  BY DEF BootShape
<1>4. /\ c < boot.blk /\ c \notin ToSet(boot.unclean)
      /\ e < boot.blk => Exact(e) /\ (Unfit(e) <=> e \in ToSet(boot.unclean))
      /\ \A d : ~Marks(d)
  BY <1>1, FormatKnown
<1>5. BootStage'
  BY <1>2 DEF BootStage
<1>6. clean_blk_nums' = Count(0)' + Count(1)'
  <2>1. Count(e)' = Count(e) /\ Count(e) \in {0, 1} /\ Count(c)' \in {0, 1}
    BY DEF Count
  <2> QED
    BY <1>1, <2>1, TwoBlocks
<1>7. \A d \in Blocks : d > boot.blk \/ d = boot.blk => info'[d] = Unread
  <2>1. ASSUME NEW d \in Blocks, d > boot.blk \/ d = boot.blk PROVE info'[d] = Unread
    <3>1. d # c
      <4>1. boot.blk \in 0..2
        BY BootTypes
      <4> QED
        BY <1>4, <2>1, <4>1, TwoBlocks
    <3>2. info[d] = Unread
      BY <1>3, <2>1 DEF BootInfo
    <3> QED
      BY <1>1, <3>1, <3>2
  <2> QED
    BY <2>1
<1>8. ASSUME NEW d \in Blocks, d < boot.blk PROVE BootRead(d)'
  <2>1. CASE d = e
    <3>1. Exact(e)' = Exact(e) /\ Unfit(e)' = Unfit(e)
      BY DEF Exact, Unfit, Its
    <3>2. Listed(e)' <=> e \in ToSet(boot.unclean)
      BY <1>2 DEF Listed
    <3> QED
      BY <1>4, <1>8, <2>1, <3>1, <3>2 DEF BootRead
  <2> QED
    BY <1>1, <2>1
<1>9. ASSUME NEW d \in Blocks, NEW i \in Idx(d)', flash'[d].state = "USED", Reached(d, i),
             ~Its(d)'[i].live
      PROVE  FALSE
  <2>1. d = e
    BY <1>1, <1>9
  <2>2. Its(e)' = Its(e) /\ Idx(e)' = Idx(e)
    BY DEF Its, Idx
  <2>3. Marks(e)
    BY <1>1, <1>3, <1>9, <2>1, <2>2 DEF BootInfo
  <2> QED
    BY <1>4, <2>3
<1>10. \A d \in Blocks : \A i \in Idx(d)' :
           flash'[d].state = "USED" /\ Reached(d, i)' /\ (~Its(d)'[i].live \/ Goes(d, i)') => Marks(d)'
  BY <1>2, <1>9
<1>11. boot'.unclean = <<>> \/ \E d \in Blocks : boot'.unclean = <<d>> /\ d < boot'.blk
  BY <1>2, <1>3 DEF BootInfo
<1>12. /\ \A d \in Blocks : d > boot'.blk \/ (d = boot'.blk /\ boot'.stage = "blocks") => info'[d] = Unread
       /\ \A d \in Blocks : d < boot'.blk => BootRead(d)'
  BY <1>2, <1>7, <1>8
<1> QED
  BY <1>5, <1>6, <1>10, <1>11, <1>12 DEF BootInfo

\* The recovery erases a block.
LEMMA BootEraseShape ==
    ASSUME KvTypeOK, BootShape, Write, NEW c \in Blocks, FormatWrites(c), boot.stage = "blocks",
           todo = <<Erase(c), Header(c)>>
    PROVE  BootShape'
<1> DEFINE e == Other(c)
<1>1. e \in Blocks /\ e # c /\ Other(e) = c /\ \A d \in Blocks : d = c \/ d = e
  BY TwoBlocks
<1>2. boot' = boot /\ UNCHANGED <<legal, lossy>> /\ \A d, i : Reached(d, i)' = Reached(d, i)
  BY WriteReached, WriteRest
<1>3. Head(todo) = Erase(c) /\ todo' = <<Header(c)>>
  BY ShortTails, WriteRest
<1>4. /\ flash' \in FlashType
      /\ flash'[c] = [state |-> "NONE", items |-> <<>>] /\ flash'[e] = flash[e]
      /\ UNCHANGED <<info, clean_blk_nums>>
  BY <1>3, EraseStep
<1>5. /\ c < boot.blk /\ c \notin ToSet(boot.unclean) /\ Count(c) = 0
      /\ \A d, i : ~Goes(d, i)
  BY FormatKnown
<1>6. /\ \A d, i : ~Goes(d, i)'
      /\ \A d : ~Marks(d)'
      /\ todo' # <<>>
  BY <1>3, FormatFacts DEF Goes, Marks
<1>7. Formats(c)'
  BY <1>3, <1>4 DEF Formats
<1>8. BootRead(c)'
  BY <1>2, <1>5, <1>6, <1>7 DEF BootRead
<1>9. clean_blk_nums' = Count(e) + Count(c)'
  <2>1. Count(c)' = 0 /\ Count(e) \in {0, 1}
    BY <1>4, <1>5 DEF Count
  <2>2. clean_blk_nums = Count(0) + Count(1)
    BY DEF BootShape, BootInfo
  <2> QED
    BY <1>1, <1>4, <1>5, <2>1, <2>2, TwoBlocks
<1>10. BootInfo' /\ BootStage'
  BY <1>4, <1>6, <1>8, <1>9, FormatInfo
<1>11. BootTodo'
  <2>1. FormatWrites(c)'
    <3>1. \/ /\ c = boot.blk - 1 /\ info[c] = Unread
             /\ flash[c] = [state |-> "NONE", items |-> <<>>]
          \/ boot.blk = 2 /\ boot.unclean = <<>> /\ Unfit(c) /\ clean_blk_nums = 0
      BY DEF FormatWrites
    <3> QED
      BY <1>2, <1>4, <1>5, <1>7, <3>1 DEF FormatWrites, Unfit
  <2> QED
    BY <1>2, <2>1 DEF BootTodo
<1>12. \E d \in Blocks : Single(d)' \/ Double(d)'
  <2>1. CASE flash[c] = [state |-> "NONE", items |-> <<>>]
    <3>1. \A d \in Blocks : flash'[d] = flash[d]
      BY <1>1, <1>4, <2>1
    <3>2. \E d \in Blocks : Single(d) \/ Double(d)
      BY DEF BootShape
    <3> QED
      BY <1>2, <1>5, <1>6, <3>1, <3>2, BootFrame
  <2>2. CASE flash[c] # [state |-> "NONE", items |-> <<>>]
    <3>1. Single(e) \/ Double(e)
      BY <2>2, EraseData
    <3>2. /\ flash[e].state = "NONE" => Its(e) = <<>>
          /\ Len(Its(e)) <= Slots /\ Filled(e) /\ Values(e) /\ BootTwins(e)
          /\ \A i \in Idx(e) : Its(e)[i].live /\ ~Its(e)[i].ok /\ Reached(e, i) => Goes(e, i)
      <4>1. CASE Single(e)
        BY <4>1 DEF Single
      <4>2. CASE Double(e)
        BY <4>2 DEF Double, NoTwins, BootTwins, AllOk
      <4> QED
        BY <3>1, <4>1, <4>2
    <3>3. /\ Its(e)' = Its(e) /\ Idx(e)' = Idx(e)
          /\ \A i, k : Good(e, i, k)' = Good(e, i, k)
          /\ Filled(e)' = Filled(e) /\ Lawful(e)' = Lawful(e)
          /\ \A k : Free(k)' = Free(k)
          /\ \A i, j : Twins(e, i, j)' = Twins(e, i, j)
      BY <1>2, <1>4, SoundFrame
    <3>4. Values(e)'
      BY <1>6, <3>2, <3>3 DEF Values
    <3>5. BootTwins(e)'
      BY <1>2, <1>5, <3>2, <3>3 DEF BootTwins
    <3>6. \A i \in Idx(e)' : Its(e)'[i].live /\ ~Its(e)'[i].ok /\ Reached(e, i)' => Goes(e, i)'
      BY <1>2, <1>5, <3>2, <3>3
    <3>7. Its(c)' = <<>> /\ flash'[c].state = "NONE"
      BY <1>4 DEF Its
    <3>8. Single(e)'
      BY <1>1, <1>4, <3>2, <3>3, <3>4, <3>5, <3>6, <3>7 DEF Single
    <3> QED
      BY <1>1, <3>8
  <2> QED
    BY <2>1, <2>2
<1> QED
  BY <1>10, <1>11, <1>12 DEF BootShape

\* The recovery writes the header of an erased block.
LEMMA BootHeaderShape ==
    ASSUME KvTypeOK, BootShape, Write, NEW c \in Blocks, FormatWrites(c), boot.stage = "blocks",
           todo = <<Header(c)>>, flash[c] = [state |-> "NONE", items |-> <<>>]
    PROVE  BootShape'
<1> DEFINE e == Other(c)
<1>1. e \in Blocks /\ e # c /\ Other(e) = c /\ \A d \in Blocks : d = c \/ d = e
  BY TwoBlocks
<1>2. boot' = boot /\ UNCHANGED <<legal, lossy>> /\ \A d, i : Reached(d, i)' = Reached(d, i)
  BY WriteReached, WriteRest
<1>3. Head(todo) = Header(c) /\ todo' = <<>>
  BY ShortTails, WriteRest
<1>4. /\ flash'[c].state = "CLEAN" /\ flash'[e] = flash[e]
      /\ info'[c] = Empty /\ info'[e] = info[e]
      /\ clean_blk_nums' = clean_blk_nums + 1
  BY <1>3, HeaderStep
<1>5. /\ Its(c)' = Its(c) /\ Idx(c)' = Idx(c) /\ Its(c) = <<>> /\ Idx(c) = {}
  <2>1. Its(c)' = Its(c) /\ Idx(c)' = Idx(c)
    BY <1>3, HeaderStep
  <2> QED
    BY <2>1 DEF Its, Idx
<1>6. /\ c < boot.blk /\ c \notin ToSet(boot.unclean) /\ Count(c) = 0
      /\ \A d, i : ~Goes(d, i)
  BY FormatKnown
<1>7. /\ \A d, i : ~Goes(d, i)'
      /\ \A d : ~Marks(d)'
  BY <1>3, ShortSets DEF Goes, Marks
<1>8. BootRead(c)'
  <2>1. Exact(c)'
    BY <1>4, <1>5 DEF Exact, Empty
  <2>2. ~Unfit(c)' /\ ~Listed(c)'
    BY <1>2, <1>4, <1>6, <1>7 DEF Unfit, Listed, Empty
  <2> QED
    BY <2>1, <2>2 DEF BootRead
<1>9. clean_blk_nums' = Count(e) + Count(c)'
  <2>1. Count(c)' = 1 /\ Count(e) \in {0, 1}
    BY <1>4 DEF Count
  <2>2. clean_blk_nums = Count(0) + Count(1)
    BY DEF BootShape, BootInfo
  <2> QED
    BY <1>1, <1>4, <1>6, <2>1, <2>2, TwoBlocks
<1>10. BootInfo' /\ BootStage'
  BY <1>4, <1>7, <1>8, <1>9, FormatInfo
<1>11. BootTodo'
  BY <1>3 DEF BootTodo
<1>12. \E d \in Blocks : Single(d)' \/ Double(d)'
  <2>1. PICK d \in Blocks : Single(d)
    <3>1. PICK d \in Blocks : Single(d) \/ Double(d)
      BY DEF BootShape
    <3>2. ~Double(d)
      BY <1>1, <3>1 DEF Double
    <3> QED
      BY <3>1, <3>2
  <2>2. /\ Its(Other(d)) = <<>> /\ flash[Other(d)].state \in {"NONE", "CLEAN"}
        /\ flash[d].state = "NONE" => Its(d) = <<>>
        /\ Len(Its(d)) <= Slots /\ Filled(d) /\ BootTwins(d) /\ Values(d)
        /\ \A i \in Idx(d) : Its(d)[i].live /\ ~Its(d)[i].ok /\ Reached(d, i) => Goes(d, i)
    BY <2>1 DEF Single
  <2>3. \A b \in Blocks : Its(b)' = Its(b) /\ Idx(b)' = Idx(b)
    BY <1>3, HeaderStep
  <2>4. \A b \in Blocks : /\ \A i, k : Good(b, i, k)' = Good(b, i, k)
                          /\ \A i, j : Twins(b, i, j)' = Twins(b, i, j)
    BY <2>3 DEF Good, Twins
  <2>5. Filled(d)' /\ BootTwins(d)'
    BY <1>2, <1>6, <2>2, <2>3, <2>4 DEF Filled, BootTwins
  <2>6. Values(d)'
    <3>1. \A k : Free(k)' = Free(k)
      BY <1>2 DEF Free
    <3>2. Lawful(d)'
      BY <1>2, <2>2, <2>3, <2>4 DEF Values, Lawful
    <3> QED
      BY <1>7, <2>2, <2>3, <2>4, <3>1, <3>2 DEF Values
  <2>7. \A i \in Idx(d)' : Its(d)'[i].live /\ ~Its(d)'[i].ok /\ Reached(d, i)' => Goes(d, i)'
    BY <1>2, <1>6, <2>2, <2>3
  <2>8. Its(Other(d))' = <<>> /\ flash'[Other(d)].state \in {"NONE", "CLEAN"}
    BY <1>1, <1>4, <2>2, <2>3, TwoBlocks
  <2>9. flash'[d].state = "NONE" => Its(d)' = <<>>
    BY <1>1, <1>4, <2>2, <2>3
  <2>10. Len(Its(d)') <= Slots
    BY <2>2, <2>3
  <2> QED
    BY <2>5, <2>6, <2>7, <2>8, <2>9, <2>10 DEF Single
<1> QED
  BY <1>10, <1>11, <1>12 DEF BootShape

\* The first block is used when all are clean.
LEMMA BootUsedShape ==
    ASSUME KvTypeOK, BootShape, Write, boot.stage = "mark", todo = <<WriteState(0, "USED")>>,
           clean_blk_nums = 2
    PROVE  BootShape'
<1>1. boot' = boot /\ UNCHANGED <<legal, lossy>>
  BY WriteReached, WriteRest
<1>2. Head(todo) = WriteState(0, "USED") /\ todo' = <<>> /\ 0 \in Blocks /\ 1 \in Blocks /\ Other(0) = 1
  BY ShortTails, WriteRest DEF Blocks, BlockNums, Other
<1>3. /\ flash'[0].state = "USED" /\ flash'[1] = flash[1]
      /\ \A d \in Blocks : Its(d)' = Its(d) /\ Idx(d)' = Idx(d)
      /\ info'[0] = [state |-> "USED", used |-> info[0].used] /\ info'[1] = info[1]
      /\ clean_blk_nums' = 1
  <2>1. /\ flash'[0].state = "USED" /\ flash'[Other(0)] = flash[Other(0)]
        /\ info'[0] = [state |-> "USED", used |-> info[0].used] /\ info'[Other(0)] = info[Other(0)]
    BY <1>2, StateStep
  <2>2. clean_blk_nums' = clean_blk_nums - 1
    BY <1>2, StateStep
  <2>3. \A d \in Blocks : Its(d)' = Its(d) /\ Idx(d)' = Idx(d)
    BY <1>2, StateStep
  <2> QED
    BY <1>2, <2>1, <2>2, <2>3
<1>4. BootInfo /\ BootStage
  BY DEF BootShape
<1>5. boot.blk = 2 /\ boot.unclean = <<>>
  BY <1>4 DEF BootStage
<1>6. \A d : ~Formats(d)
  <2>1. ASSUME NEW d, Formats(d) PROVE FALSE
    <3>1. Head(todo) = Erase(d) \/ Head(todo) = Header(d)
      BY <2>1, ShortTails DEF Formats
    <3> QED
      BY <1>2, <3>1, WriteFields
  <2> QED
    BY <2>1
<1>7. \A d \in Blocks : Exact(d) /\ info[d] = Empty
  <2>1. \A d \in Blocks : d < 2
    BY TwoBlocks
  <2>2. \A d \in Blocks : Exact(d)
    BY <1>4, <1>5, <1>6, <2>1 DEF BootInfo, BootRead
  <2>3. Count(0) = 1 /\ Count(1) = 1
    BY <1>4 DEF BootInfo, Count
  <2> QED
    BY <2>2, <2>3, TwoBlocks DEF Count
<1>8. \A d \in Blocks : flash[d].state = "CLEAN" /\ Its(d) = <<>> /\ Idx(d) = {}
  <2>1. TAKE d \in Blocks
  <2>2. info[d] = [state |-> flash[d].state, used |-> Len(Its(d))] /\ Its(d) \in Seq(Items)
    BY <1>7, IdxNat DEF Exact
  <2>3. flash[d].state = info[d].state /\ Len(Its(d)) = info[d].used
    BY <2>2
  <2>4. flash[d].state = "CLEAN" /\ Len(Its(d)) = 0
    BY <1>7, <2>3 DEF Empty
  <2>5. Its(d) = <<>>
    BY <2>2, <2>4
  <2> QED
    BY <2>4, <2>5 DEF Idx, Its
<1>9. /\ \A d, i : ~Goes(d, i)'
      /\ \A d : ~Marks(d)'
  BY <1>2, ShortSets DEF Goes, Marks
<1>10. BootTodo' /\ BootStage'
  BY <1>1, <1>2, <1>3, <1>5 DEF BootTodo, BootStage
<1>11. BootInfo'
  <2>1. Count(0)' = 0 /\ Count(1)' = 1
    BY <1>2, <1>3, <1>7 DEF Count, Empty
  <2>2. ASSUME NEW d \in Blocks PROVE BootRead(d)'
    <3>1. Exact(d)'
      <4>1. info[d] = [state |-> flash[d].state, used |-> Len(Its(d))]
        BY <1>7 DEF Exact
      <4>2. CASE d = 0
        BY <1>2, <1>3, <4>1, <4>2 DEF Exact
      <4>3. CASE d = 1
        BY <1>2, <1>3, <4>1, <4>3 DEF Exact
      <4> QED
        BY <4>2, <4>3, TwoBlocks
    <3>2. ~Unfit(d)'
      BY <1>2, <1>3, <1>7, TwoBlocks DEF Unfit, Empty
    <3>3. ~Listed(d)'
      BY <1>1, <1>5, <1>9, ShortSets DEF Listed
    <3> QED
      BY <3>1, <3>2, <3>3 DEF BootRead
  <2>3. \A d \in Blocks : Idx(d)' = {}
    BY <1>3, <1>8
  <2>4. \A d \in Blocks : ~(d > boot'.blk \/ (d = boot'.blk /\ boot'.stage = "blocks"))
    BY <1>1, <1>5, TwoBlocks
  <2> QED
    BY <1>1, <1>3, <1>5, <2>1, <2>2, <2>3, <2>4 DEF BootInfo
<1>12. Single(0)'
  <2>1. \A k \in Keys : Free(k)
    <3>1. PICK d \in Blocks : Single(d) \/ Double(d)
      BY DEF BootShape
    <3>2. Values(d)
      BY <3>1 DEF Single, Double
    <3> QED
      BY <1>8, <3>1, <3>2 DEF Values
  <2>2. \A k : Free(k)' = Free(k)
    BY <1>1 DEF Free
  <2>3. Idx(0)' = {} /\ Its(0)' = <<>> /\ Its(1)' = <<>> /\ flash'[1].state = "CLEAN"
    BY <1>2, <1>3, <1>8
  <2>4. Len(Its(0)') <= Slots
    BY <2>3, HoldersDiffer
  <2>5. Filled(0)' /\ BootTwins(0)'
    BY <2>3 DEF Filled, BootTwins
  <2>6. Values(0)'
    BY <2>1, <2>2, <2>3 DEF Values, Lawful
  <2> QED
    BY <1>2, <2>3, <2>4, <2>5, <2>6 DEF Single
<1> QED
  BY <1>2, <1>10, <1>11, <1>12 DEF BootShape

\* A write of the recovery.
LEMMA BootWriteShape ==
    ASSUME KvTypeOK, BootShape, Write
    PROVE  BootShape'
<1>1. todo # <<>>
  BY WriteRest
<1>2. BootTodo
  BY DEF BootShape
<1>3. CASE boot.stage = "items" /\ ItemWrites
  <2>1. PICK c \in Blocks : \E m \in Idx(c) :
          \/ todo = <<WriteDelete(Place(c, m))>>
          \/ todo = <<WriteDelete(Place(c, m)), WriteState(c, "DIRTY")>>
          \/ todo = <<WriteState(c, "DIRTY")>>
    BY <1>3 DEF ItemWrites
  <2>2. CASE todo = <<WriteState(c, "DIRTY")>>
    BY <1>3, <2>2, BootDirtyShape
  <2>3. ASSUME NEW m \in Idx(c), \/ todo = <<WriteDelete(Place(c, m))>>
                                 \/ todo = <<WriteDelete(Place(c, m)), WriteState(c, "DIRTY")>>
        PROVE  BootShape'
    <3>1. Head(todo) = WriteDelete(Place(c, m))
      BY <2>3, ShortTails
    <3> QED
      BY <1>3, <3>1, BootDeleteShape
  <2> QED
    BY <2>1, <2>2, <2>3
<1>4. ASSUME boot.stage = "blocks", NEW c \in Blocks, FormatWrites(c) PROVE BootShape'
  BY <1>4, BootEraseShape, BootHeaderShape DEF FormatWrites, Formats
<1>5. ASSUME boot.stage = "blocks", boot.blk = 2, boot.unclean = <<>>, NEW c \in Blocks,
             todo = <<WriteState(c, "DIRTY")>>, Unfit(c), clean_blk_nums > 0
      PROVE  BootShape'
  BY <1>5, BootDirtyShape
<1>6. CASE boot.stage = "mark" /\ todo = <<WriteState(0, "USED")>> /\ clean_blk_nums = 2
  BY <1>6, BootUsedShape
<1> QED
  BY <1>1, <1>2, <1>3, <1>4, <1>5, <1>6 DEF BootTodo

\* The store is open: kv_init has found the block to write to.
LEMMA BootEndShape ==
    ASSUME KvTypeOK, BootShape, BootEnd
    PROVE  KvTypeOK' /\ \E b \in Blocks : CallShape(b)'
<1>1. /\ boot.stage = "mark" /\ todo = <<>>
      /\ boot' = [Off EXCEPT !.stage = "up"] /\ lock' = NULL
      /\ legal' = [k \in Keys |-> IF Get(k) \in legal[k] THEN {Get(k)} ELSE legal[k]]
      /\ UNCHANGED <<flash, info, clean_blk_nums, gc_sem, posts, todo, task, lossy>>
  BY DEF BootEnd
<1>2. boot.blk = 2 /\ boot.unclean = <<>> /\ clean_blk_nums = 1
  <2>1. todo # <<WriteState(0, "USED")>>
    BY <1>1, ShortTails
  <2> QED
    BY <1>1, <2>1 DEF BootShape, BootStage
<1>3. PICK b \in Blocks : Single(b) /\ info[Other(b)] = Empty
  BY <1>1, <1>2, AllRead
<1> DEFINE o == Other(b)
<1>4. /\ o \in Blocks /\ o # b /\ Other(o) = b /\ \A c \in Blocks : c = b \/ c = o
      /\ \A c \in Blocks : (c + 1) % BlockNums = Other(c)
  BY TwoBlocks DEF BlockNums, Other
<1>5. /\ \A c \in Blocks : Exact(c) /\ ~Unfit(c)
      /\ clean_blk_nums = Count(0) + Count(1)
  BY <1>1, <1>2, AllRead
<1>6. /\ info[o] = Empty /\ flash[o] = [state |-> "CLEAN", items |-> <<>>]
      /\ info[o].state = "CLEAN"
  <2>1. info[o] = [state |-> flash[o].state, used |-> Len(Its(o))]
    BY <1>4, <1>5 DEF Exact
  <2>2. info[o].state = "CLEAN" /\ info[o].used = 0 /\ flash[o].state = info[o].state
        /\ Len(Its(o)) = info[o].used
    BY <1>3, <2>1 DEF Empty
  <2>3. Its(o) = <<>>
    BY <1>3 DEF Single
  <2>4. flash[o] = [state |-> flash[o].state, items |-> Its(o)]
    BY <1>4, FlashTypes
  <2> QED
    BY <1>3, <2>2, <2>3, <2>4
<1>7. /\ info[b] = [state |-> flash[b].state, used |-> Len(Its(b))]
      /\ info[b].state = flash[b].state /\ info[b].used = Len(Its(b)) /\ Len(Its(b)) \in Nat
  <2>1. info[b] = [state |-> flash[b].state, used |-> Len(Its(b))]
    BY <1>5 DEF Exact
  <2> QED
    BY <2>1, IdxNat
<1>8. info[b].state \in {"USED", "DIRTY"}
  <2>1. Count(b) = 0
    <3>1. Count(o) = 1 /\ Count(b) \in {0, 1}
      BY <1>3 DEF Count
    <3> QED
      BY <1>2, <1>4, <1>5, <3>1, TwoBlocks
  <2>2. info[b] # Empty
    BY <2>1 DEF Count
  <2>3. info[b].state # "CLEAN"
    <3>1. ~(info[b].used > 0) => info[b].used = 0
      BY <1>7
    <3> QED
      BY <1>5, <1>7, <2>2, <3>1 DEF Unfit, Empty
  <2>4. info[b].state \in {"ZERO", "CLEAN", "USED", "DIRTY"} /\ flash[b].state # "ZERO"
    BY FlashTypes
  <2> QED
    BY <1>7, <2>3, <2>4
<1>9. write_pos' = Place(b, Len(Its(b)))
  <2>1. \A c \in Blocks : info[c].state \in {"USED", "DIRTY"}
                          /\ info[(c + 1) % BlockNums].state = "CLEAN" <=> c = b
    BY <1>4, <1>6, <1>8
  <2>2. b = CHOOSE c \in Blocks : /\ info[c].state \in {"USED", "DIRTY"}
                                  /\ info[(c + 1) % BlockNums].state = "CLEAN"
    BY <2>1
  <2> QED
    BY <1>7, <2>2 DEF BootEnd
<1>10. /\ Len(Its(b)) <= Slots /\ Filled(b) /\ BootTwins(b) /\ Values(b)
       /\ \A i \in Idx(b) : Its(b)[i].live /\ ~Its(b)[i].ok /\ Reached(b, i) => Goes(b, i)
  BY <1>3 DEF Single
<1>11. /\ \A c, i : ~Goes(c, i)
       /\ \A i : Reached(b, i)
  BY <1>1, <1>2, NoWrites, TwoBlocks DEF Reached
<1>12. NoTwins(b)
  <2>1. ASSUME NEW i \in Idx(b), NEW j \in Idx(b), Twins(b, i, j) PROVE FALSE
    <3>1. Twins(b, j, i)
      BY <2>1 DEF Twins
    <3> QED
      BY <1>10, <1>11, <2>1, <3>1 DEF BootTwins
  <2> QED
    BY <2>1 DEF NoTwins
<1>13. AllOk(b)
  BY <1>10, <1>11 DEF AllOk
<1>14. flash[b].state = "USED" => \A i \in Idx(b) : Its(b)[i].live
  BY <1>1, <1>11, BootQuiet
<1>15. ASSUME NEW k \in Keys
       PROVE  /\ Search(k) = NULL => \A i \in Idx(b) : Its(b)[i].live => Its(b)[i].key # k
              /\ Search(k) = NULL => Get(k) = NULL
              /\ Search(k) # NULL =>
                 \E i \in Idx(b) : /\ Search(k) = Place(b, i) /\ Good(b, i, k) /\ Its(b)[i].val = Get(k)
                                   /\ \A j \in Idx(b) : Its(b)[j].live /\ Its(b)[j].key = k => j = i
  BY <1>6, <1>8, <1>10, <1>12, <1>13, OpenSearch
<1>16. \A k \in Keys : Get(k) \in Vals \cup {NULL}
  <2>1. TAKE k \in Keys
  <2>2. CASE Search(k) = NULL
    BY <1>15, <2>2
  <2>3. CASE Search(k) # NULL
    <3>1. PICK i \in Idx(b) : Good(b, i, k) /\ Its(b)[i].val = Get(k)
      BY <1>15, <2>3
    <3> QED
      BY <1>10, <3>1 DEF Filled, Good
  <2> QED
    BY <2>2, <2>3
<1>17. KvTypeOK'
  <2>1. legal' \in LegalType
    BY <1>1, <1>16 DEF KvTypeOK, LegalType
  <2>2. write_pos' \in [blk : Blocks, n : Nat]
    BY <1>7, <1>9 DEF Place
  <2>3. boot' \in [stage : {"blocks", "items", "mark", "up"}, blk : 0..2, n : Nat, unclean : Seq(Blocks)]
    <3> DEFINE S == Seq(Blocks)
    <3>1. <<>> \in S
      OBVIOUS
    <3> HIDE DEF S
    <3>2. Off \in [stage : {"blocks", "items", "mark", "up"}, blk : 0..2, n : Nat, unclean : S]
      BY <3>1 DEF Off
    <3>3. boot' \in [stage : {"blocks", "items", "mark", "up"}, blk : 0..2, n : Nat, unclean : S]
      BY <1>1, <3>2
    <3> QED
      BY <3>3 DEF S
  <2>4. gc_trigger' \in {0, 1} /\ gc_waiter' \in Nat /\ gc' \in {"none", "lock", "run"}
    BY DEF BootEnd, KvTriggerGc, KvTypeOK
  <2>5. /\ flash' \in FlashType /\ info' \in InfoType /\ clean_blk_nums' \in Int
        /\ gc_sem' \in Nat /\ posts' \in Nat /\ todo' \in Seq(Writes) /\ task' \in TaskType
        /\ lossy' \in BOOLEAN
    BY <1>1 DEF KvTypeOK
  <2>6. lock' \in Tasks \cup {GC, BOOT, NULL}
    BY <1>1
  <2> QED
    BY <2>1, <2>2, <2>3, <2>4, <2>5, <2>6 DEF KvTypeOK
<1>18. \A c \in Blocks : /\ Its(c)' = Its(c) /\ Idx(c)' = Idx(c)
                         /\ \A i, k : Good(c, i, k)' = Good(c, i, k)
                         /\ \A i, j : Twins(c, i, j)' = Twins(c, i, j)
  BY <1>1 DEF Its, Idx, Good, Twins
<1>19. Parted(b)'
  <2>1. Exact(b)' /\ Exact(o)'
    BY <1>1, <1>4, <1>5 DEF Exact, Its
  <2>2. Filled(b)' /\ AllOk(b)'
    BY <1>10, <1>13, <1>18 DEF Filled, AllOk
  <2>3. write_pos' = Place(b, Len(Its(b)')) /\ Len(Its(b)') <= Slots
    BY <1>9, <1>10, <1>18
  <2>4. flash'[o] = [state |-> "CLEAN", items |-> <<>>] /\ flash'[b].state \in {"USED", "DIRTY"}
        /\ clean_blk_nums' = 1
    BY <1>1, <1>2, <1>6, <1>7, <1>8
  <2> QED
    BY <2>1, <2>2, <2>3, <2>4 DEF Parted
<1>20. \A c, i : ~Goes(c, i)'
  BY <1>1, ShortSets DEF Goes
<1>21. Values(b)'
  <2>1. ASSUME NEW k \in Keys, NEW i \in Idx(b), Good(b, i, k) PROVE Its(b)[i].val \in legal'[k]
    <3>1. Its(b)[i].val = Get(k)
      BY <1>15, <2>1 DEF Good
    <3>2. Get(k) \in legal[k]
      BY <1>10, <2>1, <3>1 DEF Values, Lawful
    <3> QED
      BY <1>1, <3>1, <3>2
  <2>2. Lawful(b)'
    BY <1>18, <2>1 DEF Lawful
  <2>3. ASSUME NEW k \in Keys, \A i \in Idx(b) : ~Good(b, i, k) PROVE Free(k)'
    <3>1. Free(k) /\ Get(k) = NULL
      BY <1>10, <1>15, <2>3 DEF Values
    <3>2. CASE lossy
      BY <1>1, <3>2 DEF Free
    <3>3. CASE NULL \in legal[k]
      BY <1>1, <3>1, <3>3 DEF Free
    <3> QED
      BY <3>1, <3>2, <3>3 DEF Free
  <2>4. \A k \in Keys : Free(k)' \/ \E i \in Idx(b)' : Good(b, i, k)' /\ (~Goes(b, i)' \/ Pended(k)')
    BY <1>18, <1>20, <2>3
  <2> QED
    BY <2>2, <2>4 DEF Values
<1>22. Outcome(b)'
  <2>1. Job' = IdleTask
    BY <1>1, HoldersDiffer DEF Job
  <2> QED
    BY <2>1 DEF Outcome, IdleTask
<1>23. UsedLive(b)' /\ CallTwins(b)'
  BY <1>1, <1>12, <1>14, <1>18 DEF UsedLive, CallTwins, NoTwins
<1>24. \A i \in 1..Len(todo') : CallWrite(b, i)'
  BY <1>1
<1> QED
  BY <1>17, <1>19, <1>21, <1>22, <1>23, <1>24 DEF CallShape

-----------------------------------------------------------------------------
(* All steps.                                                              *)

\* The shape of the recovery is about the flash, g_kv_mgr, the writes that are
\* left, where kv_init is and the history.
LEMMA BootShapeFrame ==
    ASSUME UNCHANGED <<flashVars, todo, boot, legal, lossy>>
    PROVE  BootShape' = BootShape
<1>1. /\ \A c : Its(c)' = Its(c) /\ Idx(c)' = Idx(c) /\ Exact(c)' = Exact(c)
      /\ UNCHANGED <<flash, info, write_pos, clean_blk_nums>>
  BY DEF flashVars, Its, Idx, Exact
<1>2. /\ \A c, i : Goes(c, i)' = Goes(c, i) /\ Reached(c, i)' = Reached(c, i)
      /\ \A c : Marks(c)' = Marks(c) /\ Formats(c)' = Formats(c)
      /\ \A k : Pended(k)' = Pended(k) /\ Free(k)' = Free(k)
      /\ \A c, i, j : Twins(c, i, j)' = Twins(c, i, j)
      /\ \A c, i, k : Good(c, i, k)' = Good(c, i, k)
      /\ \A c, o, i, j : Copies(c, o, i, j)' = Copies(c, o, i, j)
      /\ \A c : Count(c)' = Count(c) /\ Unfit(c)' = Unfit(c)
  BY <1>1 DEF Goes, Marks, Pended, Free, Twins, Good, Reached, Formats, Copies, Count, Unfit
<1>3. \A c : /\ Filled(c)' = Filled(c) /\ AllOk(c)' = AllOk(c) /\ Lawful(c)' = Lawful(c)
             /\ NoTwins(c)' = NoTwins(c) /\ BootTwins(c)' = BootTwins(c)
             /\ Listed(c)' = Listed(c)
  BY <1>1, <1>2 DEF Filled, AllOk, Lawful, NoTwins, BootTwins, Listed
<1>4. \A c : Values(c)' = Values(c) /\ BootRead(c)' = BootRead(c) /\ FormatWrites(c)' = FormatWrites(c)
  BY <1>1, <1>2, <1>3 DEF Values, BootRead, FormatWrites
<1>5. \A c : Single(c)' = Single(c)
  BY <1>1, <1>2, <1>3, <1>4 DEF Single
<1>6. \A c : Double(c)' = Double(c)
  BY <1>1, <1>2, <1>3, <1>4 DEF Double
<1>7. ItemWrites' = ItemWrites
  BY <1>1, <1>2 DEF ItemWrites
<1>8. BootTodo' = BootTodo
  BY <1>1, <1>2, <1>4, <1>7 DEF BootTodo
<1>9. BootStage' = BootStage
  BY <1>1 DEF BootStage
<1>10. BootInfo' = BootInfo
  BY <1>1, <1>2, <1>4 DEF BootInfo
<1> QED
  BY <1>5, <1>6, <1>8, <1>9, <1>10 DEF BootShape

\* What the flash looks like, by who holds the lock.
Shapes ==
    /\ lock \in Tasks \cup {NULL} => \E b \in Blocks : CallShape(b)
    /\ lock = GC => \E b \in Blocks : GcShape(b)
    /\ lock = BOOT => BootShape

\* A step that changes nothing of the flash, the writes and the lock.
LEMMA ShapesFrame ==
    ASSUME Shapes, Job' = Job, UNCHANGED <<flashVars, lock, todo, boot, legal, lossy>>
    PROVE  Shapes'
<1>1. \A b : CallShape(b)' = CallShape(b) /\ GcShape(b)' = GcShape(b)
  BY ShapeFrame
<1>2. BootShape' = BootShape
  BY BootShapeFrame
<1> QED
  BY <1>1, <1>2 DEF Shapes

\* GcPost moves tasks that are blocked, none of them in a call.
LEMMA PostJob ==
    ASSUME KvTypeOK, Holders, GcPost
    PROVE  Job' = Job /\ UNCHANGED <<flashVars, lock, todo, boot, legal, lossy>>
<1>1. UNCHANGED <<flashVars, lock, todo, boot, legal, lossy>>
  BY DEF GcPost
<1>2. ASSUME lock \in Tasks PROVE task'[lock] = task[lock]
  <2>1. task[lock].pc = "end"
    BY <1>2 DEF Holders
  <2> QED
    BY <1>2, <2>1 DEF GcPost
<1> QED
  BY <1>1, <1>2 DEF Job

\* Where the lock is free, a call or a collection may start.
LEMMA FreeLock ==
    ASSUME KvTypeOK, Holders, Shapes, lock = NULL
    PROVE  todo = <<>> /\ \E b \in Blocks : CallShape(b)
BY DEF Holders, Shapes

\* The calls keep the shape.
LEMMA CallShapes ==
    ASSUME KvTypeOK, Holders, Shapes, NEW p \in Tasks,
           \/ SetLocked(p) \/ (\E k \in Keys : Delete(p, k)) \/ DeleteByPrefix(p) \/ CallEnd(p)
    PROVE  Shapes' /\ Holders'
<1>1. CASE SetLocked(p) \/ (\E k \in Keys : Delete(p, k)) \/ DeleteByPrefix(p)
  <2>1. lock = NULL
    BY <1>1 DEF SetLocked, Delete, DeleteByPrefix
  <2>2. PICK b \in Blocks : CallShape(b)
    BY <2>1, FreeLock
  <2>3. todo = <<>>
    BY <2>1, FreeLock
  <2>4. CallShape(b)'
    BY <1>1, <2>2, <2>3, SetLockedShape, DeleteShape, DeleteByPrefixShape
  <2>5. lock' \in Tasks \cup {NULL}
    BY <1>1, <2>1 DEF SetLocked, Delete, DeleteByPrefix
  <2> QED
    BY <1>1, <2>1, <2>4, <2>5, HoldersDiffer, CallHolders DEF Shapes
<1>2. CASE CallEnd(p)
  <2>1. lock = p /\ lock' = NULL
    BY <1>2 DEF CallEnd, Holders
  <2>2. PICK b \in Blocks : CallShape(b)
    BY <2>1 DEF Shapes
  <2>3. CallShape(b)'
    BY <1>2, <2>2, CallEndShape
  <2> QED
    BY <1>2, <2>1, <2>3, HoldersDiffer, OtherHolders DEF Shapes
<1> QED
  BY <1>1, <1>2

\* Every write keeps the shape of the critical section it belongs to.
LEMMA WriteShapes ==
    ASSUME KvTypeOK, Holders, Shapes, Write
    PROVE  Shapes'
<1>1. lock' = lock /\ lock \in Tasks \cup {GC, BOOT, NULL}
  BY WriteRest DEF KvTypeOK
<1>2. CASE lock \in Tasks \cup {NULL}
  <2>1. PICK b \in Blocks : CallShape(b)
    BY <1>2 DEF Shapes
  <2>2. CallShape(b)'
    BY <2>1, CallWriteShape
  <2> QED
    BY <1>1, <1>2, <2>2, HoldersDiffer DEF Shapes
<1>3. CASE lock = GC
  <2>1. PICK b \in Blocks : GcShape(b)
    BY <1>3 DEF Shapes
  <2>2. GcShape(b)'
    BY <1>3, <2>1, GcWriteShape
  <2> QED
    BY <1>1, <1>3, <2>2, HoldersDiffer DEF Shapes
<1>4. CASE lock = BOOT
  <2>1. BootShape'
    BY <1>4, BootWriteShape DEF Shapes
  <2> QED
    BY <1>1, <1>4, <2>1, HoldersDiffer DEF Shapes
<1> QED
  BY <1>1, <1>2, <1>3, <1>4

\* The collection keeps the shape.
LEMMA GcShapes ==
    ASSUME KvTypeOK, Holders, Shapes, GcStart \/ GcEnd
    PROVE  Shapes'
<1>1. CASE GcStart
  <2>1. lock = NULL /\ lock' = GC
    BY <1>1 DEF GcStart
  <2>2. PICK b \in Blocks : CallShape(b)
    BY <2>1, FreeLock
  <2>3. GcShape(b)' \/ GcShape(Other(b))'
    BY <1>1, <2>1, <2>2, FreeLock, GcStartShape
  <2> QED
    BY <2>1, <2>3, HoldersDiffer, TwoBlocks DEF Shapes
<1>2. CASE GcEnd
  <2>1. lock = GC /\ lock' = NULL
    BY <1>2 DEF GcEnd, Holders
  <2>2. PICK b \in Blocks : GcShape(b)
    BY <2>1 DEF Shapes
  <2>3. CallShape(b)'
    BY <1>2, <2>2, GcEndShape
  <2> QED
    BY <2>1, <2>3, HoldersDiffer DEF Shapes
<1> QED
  BY <1>1, <1>2

\* The steps of kv_init keep the types and the shape.
LEMMA BootShapes ==
    ASSUME KvTypeOK, Holders, Shapes,
           BootBlock \/ BootItem \/ BootBlockEnd \/ BootUnclean \/ BootMark \/ BootEnd
    PROVE  KvTypeOK' /\ Holders' /\ Shapes'
<1>1. CASE BootEnd
  <2>1. Holders' /\ lock = BOOT /\ lock' = NULL
    BY <1>1, BootEndHolders
  <2>2. KvTypeOK' /\ \E b \in Blocks : CallShape(b)'
    BY <1>1, <2>1, BootEndShape DEF Shapes
  <2> QED
    BY <2>1, <2>2, HoldersDiffer DEF Shapes
<1>2. CASE BootBlock \/ BootItem \/ BootBlockEnd \/ BootUnclean \/ BootMark
  <2>1. Holders' /\ lock = BOOT /\ lock' = BOOT
    BY <1>2, BootHolders
  <2>2. BootShape
    BY <2>1 DEF Shapes
  <2>3. BootShape'
    BY <1>2, <2>2, BootBlockShape, BootItemShape, BootBlockEndShape, BootUncleanShape, BootMarkShape
  <2>4. KvTypeOK'
    BY <1>2, <2>2, BootTypeOK DEF BootShape
  <2> QED
    BY <2>1, <2>3, <2>4, HoldersDiffer DEF Shapes
<1> QED
  BY <1>1, <1>2

\* The first start is the recovery of an erased partition.
LEMMA InitKv == Init => KvIInv
<1> SUFFICES ASSUME Init PROVE KvIInv
  OBVIOUS
<1>1. KvTypeOK
  BY InitTypeOK
<1>2. Holders
  BY HoldersDiffer DEF Init, Holders, Up, Off, IdleTask
<1>3. todo = <<>> /\ boot.blk = 0 /\ boot.stage = "blocks" /\ boot.unclean = <<>>
      /\ clean_blk_nums = 0
      /\ \A b \in Blocks : /\ info[b] = Unread
                           /\ flash[b] = [state |-> "NONE", items |-> <<>>]
                           /\ Its(b) = <<>> /\ Len(Its(b)) = 0 /\ Idx(b) = {}
  BY TwoBlocks DEF Init, Off, Unread, Its, Idx
<1>4. BootTodo /\ BootStage
  BY <1>3 DEF BootTodo, BootStage
<1>5. BootInfo
  <2>1. Count(0) = 0 /\ Count(1) = 0
    BY <1>3, TwoBlocks DEF Count, Unread, Empty
  <2>2. \A b \in Blocks : ~(b < boot.blk)
    BY <1>3, TwoBlocks
  <2> QED
    BY <1>3, <2>1, <2>2 DEF BootInfo
<1>6. Single(0)
  <2>1. 0 \in Blocks /\ Other(0) \in Blocks
    BY TwoBlocks
  <2>2. \A k \in Keys : Free(k)
    BY DEF Init, Free
  <2>3. Values(0)
    BY <1>3, <2>1, <2>2 DEF Values, Lawful
  <2>4. Filled(0) /\ BootTwins(0)
    BY <1>3, <2>1 DEF Filled, BootTwins
  <2>5. 0 <= Slots
    BY HoldersDiffer
  <2> QED
    BY <1>3, <2>1, <2>3, <2>4, <2>5 DEF Single
<1>7. BootShape
  BY <1>4, <1>5, <1>6, TwoBlocks DEF BootShape
<1>8. lock = BOOT
  BY DEF Init
<1> QED
  BY <1>1, <1>2, <1>7, <1>8, HoldersDiffer DEF KvIInv

\* Every step keeps the inductive invariant.
LEMMA StepKv == KvIInv /\ [Next]_vars => KvIInv'
<1> SUFFICES ASSUME KvIInv, [Next]_vars PROVE KvIInv'
  OBVIOUS
<1>1. KvTypeOK /\ Holders /\ Shapes
  BY DEF KvIInv, Shapes
<1>2. SUFFICES KvTypeOK' /\ Holders' /\ Shapes'
  BY DEF KvIInv, Shapes
<1>3. ASSUME NEW p \in Tasks,
             \/ \E k \in Keys, v \in Vals : SetCheck(p, k, v)
             \/ SetWaiter(p) \/ SetWait(p)
      PROVE  KvTypeOK' /\ Holders' /\ Shapes'
  BY <1>1, <1>3, SetTypeOK, SetHolders, ShapesFrame
<1>4. ASSUME NEW p \in Tasks, SetLocked(p) PROVE KvTypeOK' /\ Holders' /\ Shapes'
  BY <1>1, <1>4, SetTypeOK, CallShapes
<1>5. ASSUME NEW p \in Tasks, (\E k \in Keys : Delete(p, k)) \/ DeleteByPrefix(p) \/ CallEnd(p)
      PROVE  KvTypeOK' /\ Holders' /\ Shapes'
  BY <1>1, <1>5, CallTypeOK, CallShapes
<1>6. CASE Write
  BY <1>1, <1>6, WriteTypeOK, OtherHolders, WriteShapes
<1>7. CASE GcStart \/ GcEnd
  BY <1>1, <1>7, GcTypeOK, OtherHolders, GcShapes
<1>8. CASE GcPost
  BY <1>1, <1>8, GcTypeOK, OtherHolders, PostJob, ShapesFrame
<1>9. CASE Crash
  <2>1. Holders' /\ lock' = BOOT
    BY <1>1, <1>9, CrashHolders
  <2>2. BootShape'
    BY <1>9, CrashShape
  <2> QED
    BY <1>1, <1>9, <2>1, <2>2, CrashTypeOK, HoldersDiffer DEF Shapes
<1>10. CASE BootBlock \/ BootItem \/ BootBlockEnd \/ BootUnclean \/ BootMark \/ BootEnd
  BY <1>1, <1>10, BootShapes
<1>11. CASE UNCHANGED vars
  <2>1. UNCHANGED <<flashVars, gcVars, lock, todo, task, boot, legal, lossy>>
    BY <1>11 DEF vars
  <2>2. Job' = Job
    BY <2>1 DEF Job
  <2>3. Shapes'
    BY <1>1, <2>1, <2>2, ShapesFrame
  <2>4. Holders' /\ KvTypeOK'
    BY <1>1, <2>1 DEF Holders, Up, KvTypeOK, flashVars, gcVars
  <2> QED
    BY <2>3, <2>4
<1> QED
  BY <1>3, <1>4, <1>5, <1>6, <1>7, <1>8, <1>9, <1>10, <1>11 DEF Next

-----------------------------------------------------------------------------
(* The theorems.                                                           *)

\* At every moment the flash and the writes that are left of the critical section
\* have the shape of a call, a collection or a recovery: the inductive invariant
\* of kv.c that the other theorems follow from.
THEOREM KvInductive == Spec => []KvIInv
<1>1. Init => KvIInv
  BY InitKv
<1>2. KvIInv /\ [Next]_vars => KvIInv'
  BY StepKv
<1> QED
  BY <1>1, <1>2, PTL DEF Spec

\* The store is open and nobody holds its lock.
LEMMA QuietShape ==
    ASSUME KvIInv, Quiet
    PROVE  KvTypeOK /\ \E b \in Blocks :
              /\ Parted(b) /\ NoTwins(b) /\ Valued(b)
              /\ flash[b].state = "USED" => \A i \in Idx(b) : Its(b)[i].live
<1>1. KvTypeOK /\ lock = NULL /\ todo = <<>>
  BY DEF KvIInv, Holders, Quiet
<1>2. PICK b \in Blocks : CallShape(b)
  BY <1>1 DEF KvIInv
<1> QED
  BY <1>1, <1>2, QuietFacts

\* What g_kv_mgr knows of the flash is exact whenever the store is open and the
\* lock is free, whatever calls, collections, power failures and recoveries
\* came before: the states and the space, the number of clean blocks, the place
\* to write at, and that one block is left for the next collection.
THEOREM CacheCorrect == Spec => []CacheExact
<1>1. KvIInv => CacheExact
  <2> SUFFICES ASSUME KvIInv, Quiet PROVE CacheExact
    BY DEF CacheExact
  <2>1. PICK b \in Blocks :
           /\ Parted(b)
           /\ flash[b].state = "USED" => \A i \in Idx(b) : Its(b)[i].live
    BY QuietShape
  <2> DEFINE o == Other(b)
  <2>2. o \in Blocks /\ o # b /\ \A c \in Blocks : c = b \/ c = o
    BY TwoBlocks
  <2>3. /\ info[b] = [state |-> flash[b].state, used |-> Len(flash[b].items)]
        /\ info[o] = [state |-> flash[o].state, used |-> Len(flash[o].items)]
        /\ flash[o].state = "CLEAN" /\ flash[o].items = <<>>
        /\ flash[b].state \in {"USED", "DIRTY"}
        /\ clean_blk_nums = 1 /\ write_pos.blk = b /\ write_pos.n = Len(flash[b].items)
    BY <2>1 DEF Parted, Exact, Its, Place
  <2>4. flash[b].state = "USED" => \A i \in 1..Len(flash[b].items) : flash[b].items[i].live
    BY <2>1 DEF Its, Idx
  <2> HIDE DEF o
  <2>5. {c \in Blocks : info[c].state = "CLEAN"} = {o}
    BY <2>2, <2>3
  <2>6. Cardinality({o}) = 1
    BY FS_Singleton
  <2>7. \A c \in Blocks : /\ info[c] = [state |-> flash[c].state, used |-> Len(flash[c].items)]
                          /\ info[c].state = "CLEAN" => flash[c].items = <<>>
                          /\ info[c].state = "USED" =>
                               \A i \in 1..Len(flash[c].items) : flash[c].items[i].live
    BY <2>2, <2>3, <2>4
  <2>8. /\ clean_blk_nums = Cardinality({c \in Blocks : info[c].state = "CLEAN"})
        /\ clean_blk_nums = Reserved
    BY <2>3, <2>5, <2>6 DEF Reserved
  <2>9. /\ write_pos.n = info[write_pos.blk].used
        /\ info[write_pos.blk].state \in {"USED", "DIRTY"}
    BY <2>3
  <2> QED
    BY <2>7, <2>8, <2>9, Zenon DEF CacheExact
<1> QED
  BY <1>1, KvInductive, PTL

\* A key has one item whenever the store is open and the lock is free: the old
\* item of an update that the power interrupted, and the originals of the copies
\* of a collection, are gone before the first call, so that kv_item_delete,
\* which deletes the first item it finds, leaves none behind.
THEOREM OneItemCorrect == Spec => []OneLiveItem
<1>1. KvIInv => OneLiveItem
  <2> SUFFICES ASSUME KvIInv, Quiet PROVE OneLiveItem
    BY DEF OneLiveItem
  <2>1. PICK b \in Blocks : Parted(b) /\ NoTwins(b)
    BY QuietShape
  <2>2. \A c \in Blocks : \A i \in 1..Len(flash[c].items) : c = b
    BY <2>1, TwoBlocks DEF Parted
  <2>3. \A i, j \in 1..Len(flash[b].items) :
           /\ flash[b].items[i].live /\ flash[b].items[j].live
           /\ flash[b].items[i].key = flash[b].items[j].key
           => i = j
    BY <2>1 DEF NoTwins, Twins, Its, Idx
  <2>4. \A c, i : Place(c, i).blk = c /\ Place(c, i).n = i
                  /\ At(flash, Place(c, i)) = flash[c].items[i]
    BY DEF Place, At
  <2>5. ASSUME NEW c \in Blocks, NEW d \in Blocks,
               NEW i \in 1..Len(flash[c].items), NEW j \in 1..Len(flash[d].items),
               At(flash, Place(c, i)).live, At(flash, Place(d, j)).live,
               At(flash, Place(c, i)).key = At(flash, Place(d, j)).key
        PROVE  Place(c, i) = Place(d, j)
    <3>1. c = b /\ d = b
      BY <2>2
    <3>2. i = j
      BY <2>3, <2>4, <2>5, <3>1
    <3> QED
      BY <3>1, <3>2
  <2> QED
    BY <2>5 DEF OneLiveItem
<1> QED
  BY <1>1, KvInductive, PTL

\* Whatever the power failures in calls, collections and recoveries, a key has
\* the value of the last call that returned success or of one that the power
\* interrupted: no key is lost, but for a power failure in the window of the
\* collection (lossy), and no key gets an older value back.
THEOREM NoLossCorrect == Spec => []NoLossNoRevival
<1>1. KvIInv => NoLossNoRevival
  <2> SUFFICES ASSUME KvIInv, Quiet, NEW k \in Keys
               PROVE  Get(k) \in legal[k] \/ (lossy /\ Get(k) = NULL)
    BY DEF NoLossNoRevival
  <2>1. KvTypeOK
    BY QuietShape
  <2>2. PICK b \in Blocks : Parted(b) /\ NoTwins(b) /\ Valued(b)
    BY QuietShape
  <2>3. CASE Search(k) = NULL
    <3>1. Get(k) = NULL
      BY <2>1, <2>2, <2>3, QuietSearch
    <3>2. \A i \in Idx(b) : ~Good(b, i, k)
      BY <2>1, <2>2, <2>3, QuietSearch DEF Good
    <3>3. Free(k)
      BY <2>2, <3>2 DEF Valued
    <3> QED
      BY <3>1, <3>3, Zenon DEF Free
  <2>4. CASE Search(k) # NULL
    <3>1. PICK i \in Idx(b) : Good(b, i, k) /\ Its(b)[i].val = Get(k)
      BY <2>1, <2>2, <2>4, QuietSearch
    <3> QED
      BY <2>2, <3>1 DEF Valued, Lawful
  <2> QED
    BY <2>3, <2>4
<1> QED
  BY <1>1, KvInductive, PTL
=============================================================================

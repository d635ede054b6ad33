------------------------------ MODULE KvStore ------------------------------
(***************************************************************************)
(* The key-value store (kernel/fs/kv/kv.c) on its flash partition: calls   *)
(* of several tasks, the garbage collection task, power failures between   *)
(* any two writes or within the write of an item, and the recovery at the  *)
(* next start.                                                             *)
(*                                                                         *)
(* Every build of the repository has two blocks, one of them reserved, so  *)
(* that the search for another block in kv_calc_position is not compiled.  *)
(* All items have the largest length, KV_ITEM_MAX_LEN: a block holds Slots *)
(* of them, a place in a block is counted in items, and what remains at    *)
(* the end of a block is shorter than an item.                             *)
(***************************************************************************)
EXTENDS Integers, Sequences, SequencesExt, FiniteSets, FiniteSetsExt

CONSTANTS
    Keys, Vals,
    Prefixed,   \* the keys with the prefix kv_item_delete_by_prefix is given
    Tasks,      \* the tasks that call
    Slots,      \* the items a block holds
    NULL,       \* no value, no item; origin_off = 0
    MaxSem,     \* bound on the tokens of gc_sem
    MaxPosts    \* bound on the collections that have yet to post

BlockNums == 2
Reserved  == 1      \* KV_RESERVED_BLOCKS
Blocks    == 0..(BlockNums - 1)

GC   == "kv_gc"     \* holders of the lock besides Tasks
BOOT == "kv_init"

ASSUME KvAssumption ==
    /\ Prefixed \subseteq Keys
    /\ NULL \notin Keys \cup Vals \cup Tasks \cup {GC, BOOT} \cup [blk : Blocks, n : Nat]
    /\ Slots \in Nat \ {0} /\ {MaxSem, MaxPosts} \subseteq Nat \ {0} /\ {GC, BOOT} \cap Tasks = {}

VARIABLES
    flash,          \* of each block: the state in its header and its items
    info,           \* block_info: the state, and used for KV_BLOCK_SIZE - space
    write_pos, clean_blk_nums,
    gc_trigger, gc_waiter, gc_sem,
    lock,           \* who holds the mutex
    todo,           \* the flash writes the holder has yet to do
    gc,             \* the garbage collection task: "none", "lock", "run"
    posts,          \* such tasks that released the lock and have yet to post
    task,           \* where each task is, and its key and value
    boot,           \* where kv_init is
    legal,          \* history: the values a key may have
    lossy           \* history: the power failed in the window that loses items

flashVars == <<flash, info, write_pos, clean_blk_nums>>
gcVars    == <<gc_trigger, gc_waiter, gc_sem, gc, posts>>
vars == <<flashVars, gcVars, lock, todo, task, boot, legal, lossy>>
-----------------------------------------------------------------------------
(* Blocks, items and places.                                                *)

Place(b, n) == [blk |-> b, n |-> n]

Item(k, v, origin) ==
    [key |-> k, val |-> v, live |-> TRUE, ok |-> TRUE, origin |-> origin]

\* In the state DELETE, after which nothing else of an item is looked at.
Deleted == [Item(NULL, NULL, NULL) EXCEPT !.live = FALSE]

Holds(fl, p) == p # NULL /\ p.n \in 1..Len(fl[p.blk].items)
At(fl, p)    == fl[p.blk].items[p.n]

\* The numbers of the set S in their order.
InOrder(S) ==
    CHOOSE s \in [1..Cardinality(S) -> S] : \A i, j \in DOMAIN s : i < j => s[i] < s[j]

\* The items in the state NORMAL of block b, in the order of the block.
LiveIn(fl, b) == InOrder({n \in 1..Len(fl[b].items) : fl[b].items[n].live})

\* kv_item_search: the first item with the key in the blocks that are not clean.
Search(k) ==
    LET found == {p \in [blk : Blocks, n : 1..Slots] :
                    /\ info[p.blk].state # "CLEAN" /\ Holds(flash, p)
                    /\ At(flash, p).live /\ At(flash, p).key = k}
    IN  IF found = {} THEN NULL
        ELSE CHOOSE p \in found :
                \A o \in found : p.blk < o.blk \/ (p.blk = o.blk /\ p.n <= o.n)

\* kv_item_get.
Get(k) == IF Search(k) = NULL THEN NULL ELSE At(flash, Search(k)).val
-----------------------------------------------------------------------------
(* Writes of the flash; "todo" is a sequence of them.                       *)

WriteItem(b, it) == [do |-> "item", blk |-> b, item |-> it]
WriteDelete(p)   == [do |-> "delete", at |-> p]
WriteState(b, s) == [do |-> "state", blk |-> b, state |-> s]

\* kv_block_format: the erase and the new header.
Format(b) == <<[do |-> "erase", blk |-> b], [do |-> "header", blk |-> b]>>

\* Mutant: the block is not marked.
KvItemDel_NoMark(p) == <<WriteDelete(p)>>

\* kv_item_del with KV_DELETE_FLAG.
KvItemDel(p) ==
    IF info[p.blk].state = "USED"
    THEN <<WriteDelete(p), WriteState(p.blk, "DIRTY")>>
    ELSE <<WriteDelete(p)>>

\* One write, with the changes of g_kv_mgr that follow it.  Items are written
\* at write_pos, the end of what the block holds (CacheExact).
Write ==
    LET w == Head(todo)
    IN
    /\ todo # <<>>
    /\ todo' = Tail(todo)
    /\ CASE w.do = "item" ->
              /\ flash' = [flash EXCEPT ![w.blk].items = Append(@, w.item)]
              /\ info' = [info EXCEPT ![w.blk].used = @ + 1]
              /\ write_pos' = [write_pos EXCEPT !.n = @ + 1]
              /\ UNCHANGED clean_blk_nums
         [] w.do = "delete" ->
              /\ flash' = [flash EXCEPT ![w.at.blk].items[w.at.n] = Deleted]
              /\ UNCHANGED <<info, write_pos, clean_blk_nums>>
         [] w.do = "state" ->
              /\ flash' = [flash EXCEPT ![w.blk].state = w.state]
              /\ info' = [info EXCEPT ![w.blk].state = w.state]
              /\ clean_blk_nums' = clean_blk_nums - (IF w.state = "USED" THEN 1 ELSE 0)
              /\ UNCHANGED write_pos
         [] w.do = "erase" ->
              /\ flash' = [flash EXCEPT ![w.blk] = [state |-> "NONE", items |-> <<>>]]
              /\ UNCHANGED <<info, write_pos, clean_blk_nums>>
         [] w.do = "header" ->
              /\ flash' = [flash EXCEPT ![w.blk].state = "CLEAN"]
              /\ info' = [info EXCEPT ![w.blk] = [state |-> "CLEAN", used |-> 0]]
              /\ clean_blk_nums' = clean_blk_nums + 1
              /\ UNCHANGED write_pos
    /\ UNCHANGED <<gcVars, lock, task, boot, legal, lossy>>
-----------------------------------------------------------------------------
(* The calls.                                                               *)

Up == boot.stage = "up"

IdleTask == [pc |-> "idle", key |-> NULL, val |-> NULL]

Move(p, where) == [task EXCEPT ![p].pc = where]

\* kv_trigger_gc.
KvTriggerGc ==
    IF gc_trigger = 0
    THEN gc_waiter' = 0 /\ gc_trigger' = 1 /\ gc' = "lock"
    ELSE UNCHANGED <<gc_waiter, gc_trigger, gc>>

\* kv_item_set up to its test of gc_trigger, without the lock.
SetCheck(p, k, v) ==
    /\ Up /\ task[p].pc = "idle"
    /\ task' = [task EXCEPT ![p] = [pc |-> IF gc_trigger # 0 THEN "waiter" ELSE "set",
                                    key |-> k, val |-> v]]
    /\ UNCHANGED <<flashVars, gcVars, lock, todo, boot, legal, lossy>>

\* gc_waiter++
SetWaiter(p) ==
    /\ task[p].pc = "waiter"
    /\ gc_waiter' = gc_waiter + 1
    /\ task' = Move(p, "wait")
    /\ UNCHANGED <<flashVars, gc_trigger, gc_sem, gc, posts, lock, todo, boot, legal, lossy>>

\* kv_sem_wait: a token, or the task blocks until GcPost wakes it.
SetWait(p) ==
    /\ task[p].pc = "wait"
    /\ \/ /\ gc_sem > 0
          /\ gc_sem' = gc_sem - 1
          /\ task' = Move(p, "set")
       \/ /\ gc_sem = 0
          /\ task' = Move(p, "blocked")
          /\ UNCHANGED gc_sem
    /\ UNCHANGED <<flashVars, gc_trigger, gc_waiter, gc, posts, lock, todo, boot, legal,
                   lossy>>

\* Mutant: the old item is deleted before the new one is stored.
Update_DeleteFirst(b, it, old) == KvItemDel(old) \o <<WriteItem(b, it)>>

\* kv_item_update: the new item, then the deletion of the old one.
Update(b, it, old) == <<WriteItem(b, it)>> \o KvItemDel(old)

\* kv_item_set with the lock: the same value already (pc "get": nothing is
\* written), no space, or the item; kv_calc_position triggers the collection
\* when there is no space, and when the item takes the last place.
SetLocked(p) ==
    LET k == task[p].key  v == task[p].val
        b == write_pos.blk
        old == Search(k)
    IN
    /\ task[p].pc = "set" /\ lock = NULL
    /\ \/ /\ Get(k) = v
          /\ lock' = p /\ task' = Move(p, "end")
          /\ UNCHANGED <<gcVars, todo, legal>>
       \/ /\ Get(k) # v
          /\ info[b].used < Slots
          /\ lock' = p /\ task' = Move(p, "end")
          /\ todo' = IF old = NULL THEN <<WriteItem(b, Item(k, v, NULL))>>
                                   ELSE Update(b, Item(k, v, old), old)
          /\ IF info[b].used + 1 = Slots /\ clean_blk_nums <= Reserved
             THEN KvTriggerGc ELSE UNCHANGED <<gc_waiter, gc_trigger, gc>>
          /\ legal' = [legal EXCEPT ![k] = @ \cup {v}]
          /\ UNCHANGED <<gc_sem, posts>>
       \/ /\ Get(k) # v
          /\ info[b].used >= Slots
          /\ KvTriggerGc
          /\ task' = [task EXCEPT ![p] = IdleTask]
          /\ UNCHANGED <<gc_sem, posts, lock, todo, legal>>
    /\ UNCHANGED <<flashVars, boot, lossy>>

\* kv_item_delete; nothing to do when the key is not found.
Delete(p, k) ==
    /\ Up /\ task[p].pc = "idle" /\ lock = NULL
    /\ Search(k) # NULL
    /\ lock' = p
    /\ task' = [task EXCEPT ![p] = [pc |-> "end", key |-> k, val |-> NULL]]
    /\ todo' = KvItemDel(Search(k))
    /\ legal' = [legal EXCEPT ![k] = @ \cup {NULL}]
    /\ UNCHANGED <<flashVars, gcVars, boot, lossy>>

\* __item_del_by_prefix_cb on one block, which is marked with the first item.
DelByPrefix(b) ==
    LET here == InOrder({n \in 1..Len(flash[b].items) :
                            flash[b].items[n].live /\ flash[b].items[n].key \in Prefixed})
    IN  IF here = <<>> THEN <<>>
        ELSE KvItemDel(Place(b, Head(here))) \o
             [i \in 1..(Len(here) - 1) |-> WriteDelete(Place(b, here[i + 1]))]

\* kv_item_delete_by_prefix, block by block.
DeleteByPrefix(p) ==
    /\ Up /\ task[p].pc = "idle" /\ lock = NULL
    /\ lock' = p
    /\ task' = [task EXCEPT ![p] = [pc |-> "end", key |-> NULL, val |-> NULL]]
    /\ todo' = DelByPrefix(0) \o DelByPrefix(1)
    /\ legal' = [k \in Keys |-> IF k \in Prefixed THEN legal[k] \cup {NULL} ELSE legal[k]]
    /\ UNCHANGED <<flashVars, gcVars, boot, lossy>>

\* The call is done, unlocks and returns success.
CallEnd(p) ==
    /\ task[p].pc = "end" /\ todo = <<>>
    /\ lock' = NULL
    /\ task' = [task EXCEPT ![p] = IdleTask]
    /\ legal' = [k \in Keys |->
                   IF k = task[p].key \/ (task[p].key = NULL /\ k \in Prefixed)
                   THEN {task[p].val} ELSE legal[k]]
    /\ UNCHANGED <<flashVars, gcVars, todo, boot, lossy>>
-----------------------------------------------------------------------------
(* The garbage collection task.                                             *)

\* The copies, with their origin_off; the source is formatted, then the target
\* marked as used.
Collect(src, dst) ==
    [i \in 1..Len(LiveIn(flash, src)) |-> WriteItem(dst, flash[src].items[LiveIn(flash, src)[i]])]
    \o Format(src) \o <<WriteState(dst, "USED")>>

\* kv_gc_task: into the first clean block, from the first dirty one that
\* follows the block written to.
GcStart ==
    LET clean == {b \in Blocks : info[b].state = "CLEAN"}
        after(d) == (write_pos.blk + d) % BlockNums
        dirty == {d \in 1..BlockNums : info[after(d)].state = "DIRTY"}
    IN
    /\ gc = "lock" /\ lock = NULL /\ posts < MaxPosts
    /\ gc' = "run" /\ lock' = GC
    /\ \/ /\ clean_blk_nums # 0 /\ clean # {} /\ dirty # {}
          /\ write_pos' = Place(Min(clean), 0)
          /\ todo' = Collect(after(Min(dirty)), Min(clean))
       \/ /\ clean_blk_nums = 0 \/ clean = {} \/ dirty = {}
          /\ UNCHANGED <<write_pos, todo>>
    /\ UNCHANGED <<flash, info, clean_blk_nums, gc_trigger, gc_waiter, gc_sem, posts, task,
                   boot, legal, lossy>>

GcEnd ==
    /\ gc = "run" /\ todo = <<>>
    /\ gc' = "none" /\ gc_trigger' = 0 /\ lock' = NULL
    /\ posts' = posts + 1
    /\ UNCHANGED <<flashVars, gc_waiter, gc_sem, todo, task, boot, legal, lossy>>

\* After the unlock: kv_sem_post_all (krhino_sem_give_all) when somebody waits.
GcPost ==
    LET blocked == {p \in Tasks : task[p].pc = "blocked"}
    IN
    /\ posts > 0
    /\ posts' = posts - 1
    /\ \/ /\ gc_waiter = 0
          /\ UNCHANGED <<gc_sem, task>>
       \/ /\ gc_waiter > 0 /\ blocked # {}
          /\ task' = [p \in Tasks |-> IF p \in blocked THEN [task[p] EXCEPT !.pc = "set"]
                                                       ELSE task[p]]
          /\ UNCHANGED gc_sem
       \/ /\ gc_waiter > 0 /\ blocked = {} /\ gc_sem < MaxSem
          /\ gc_sem' = gc_sem + 1
          /\ UNCHANGED task
    /\ UNCHANGED <<flashVars, gc_trigger, gc_waiter, gc, lock, todo, boot, legal, lossy>>
-----------------------------------------------------------------------------
(* Power failure, and kv_init.                                              *)

Off == [stage |-> "blocks", blk |-> 0, n |-> 0, unclean |-> <<>>]

\* g_kv_mgr after its memset; every place below a "ZERO" state is unknown yet.
Fresh ==
    /\ info' = [b \in Blocks |-> [state |-> "ZERO", used |-> Slots]]
    /\ write_pos' = Place(0, 0) /\ clean_blk_nums' = 0
    /\ gc_trigger' = 0 /\ gc_waiter' = 0 /\ gc_sem' = 0 /\ gc' = "none" /\ posts' = 0
    /\ lock' = BOOT /\ todo' = <<>>
    /\ task' = [p \in Tasks |-> IdleTask]

\* A copy that the collection made, whose origin_off is the very place of the
\* item it was copied from, while that item is still there.
Window ==
    \E b \in Blocks : \E i \in 1..Len(flash[b].items) :
       LET it == flash[b].items[i]
       IN  /\ lock = GC /\ b = write_pos.blk /\ it.ok
           /\ Holds(flash, it.origin) /\ it.origin.blk # b
           /\ At(flash, it.origin) = it

\* The power fails between two writes, or during that of an item: its header is
\* there, and the crc does not match.
Crash ==
    /\ \/ UNCHANGED flash
       \/ /\ todo # <<>> /\ Head(todo).do = "item"
          /\ flash' = [flash EXCEPT ![Head(todo).blk].items =
                          Append(@, [Head(todo).item EXCEPT !.ok = FALSE])]
    /\ Fresh
    /\ boot' = Off
    /\ lossy' = (lossy \/ Window)
    /\ UNCHANGED legal

\* kv_init_internal reads the header of a block; no header, no valid block.
BootBlock ==
    LET b == boot.blk
    IN
    /\ boot.stage = "blocks" /\ todo = <<>> /\ b \in Blocks
    /\ \/ /\ flash[b].state = "NONE"
          /\ todo' = Format(b)
          /\ boot' = [boot EXCEPT !.blk = @ + 1]
          /\ UNCHANGED info
       \/ /\ flash[b].state # "NONE"
          /\ info' = [info EXCEPT ![b].state = flash[b].state]
          /\ boot' = [boot EXCEPT !.stage = "items", !.n = 1]
          /\ UNCHANGED todo
    /\ UNCHANGED <<flash, write_pos, clean_blk_nums, gcVars, lock, task, legal, lossy>>

\* Mutant: the item that was updated is kept.
Recover_KeepOrigin(p, it) == IF it.ok THEN <<>> ELSE KvItemDel(p)

\* __item_recovery_cb: the original of an updated item is deleted, if it is
\* there with the same key (kv_item_del with KV_UPDATE_FLAG); and so is an item
\* whose crc does not match.
Recover(p, it) ==
    IF ~it.ok THEN KvItemDel(p)
    ELSE IF it.origin # p /\ Holds(flash, it.origin)
              /\ At(flash, it.origin).live /\ At(flash, it.origin).key = it.key
    THEN KvItemDel(it.origin)
    ELSE <<>>

\* One item of the traversal; a deleted one marks its block as dirty.
BootItem ==
    LET p == Place(boot.blk, boot.n)
    IN
    /\ boot.stage = "items" /\ todo = <<>> /\ Holds(flash, p)
    /\ todo' = IF At(flash, p).live THEN Recover(p, At(flash, p))
               ELSE IF info[p.blk].state = "USED" THEN <<WriteState(p.blk, "DIRTY")>>
               ELSE <<>>
    /\ boot' = [boot EXCEPT !.n = @ + 1]
    /\ UNCHANGED <<flashVars, gcVars, lock, task, legal, lossy>>

\* The end of the traversal: the space is known, and whether a block that is
\* marked clean has items.
BootBlockEnd ==
    LET b == boot.blk
        next == [boot EXCEPT !.stage = "blocks", !.blk = @ + 1]
    IN
    /\ boot.stage = "items" /\ todo = <<>> /\ ~Holds(flash, Place(b, boot.n))
    /\ info' = [info EXCEPT ![b].used = Len(flash[b].items)]
    /\ \/ /\ info[b].state = "CLEAN" /\ flash[b].items # <<>>
          /\ boot' = [next EXCEPT !.unclean = Append(@, b)]
          /\ UNCHANGED clean_blk_nums
       \/ /\ info[b].state = "CLEAN" /\ flash[b].items = <<>>
          /\ boot' = next
          /\ clean_blk_nums' = clean_blk_nums + 1
       \/ /\ info[b].state # "CLEAN"
          /\ boot' = next
          /\ UNCHANGED clean_blk_nums
    /\ UNCHANGED <<flash, write_pos, gcVars, lock, todo, task, legal, lossy>>

\* A block marked clean that has items, the target of a collection: it stays,
\* if there is a clean block besides.
Unclean(b) == IF clean_blk_nums >= Reserved THEN <<WriteState(b, "DIRTY")>> ELSE Format(b)

BootUnclean ==
    /\ boot.stage = "blocks" /\ todo = <<>> /\ boot.blk = BlockNums
    /\ boot.unclean # <<>>
    /\ todo' = Unclean(Last(boot.unclean))
    /\ boot' = [boot EXCEPT !.unclean = Front(@)]
    /\ UNCHANGED <<flashVars, gcVars, lock, task, legal, lossy>>

\* No clean block: the first one is sacrificed.  All clean: the first is used.
BootMark ==
    /\ boot.stage = "blocks" /\ todo = <<>> /\ boot.blk = BlockNums
    /\ boot.unclean = <<>>
    /\ todo' = CASE clean_blk_nums = 0         -> Format(0)
                 [] clean_blk_nums = BlockNums -> <<WriteState(0, "USED")>>
                 [] OTHER                      -> <<>>
    /\ boot' = [boot EXCEPT !.stage = "mark"]
    /\ UNCHANGED <<flashVars, gcVars, lock, task, legal, lossy>>

\* The place to write at, in the block in use before a clean one; kv_init
\* triggers the collection when that block is full, and the store is open.
BootEnd ==
    LET b == CHOOSE c \in Blocks : /\ info[c].state \in {"USED", "DIRTY"}
                                   /\ info[(c + 1) % BlockNums].state = "CLEAN"
    IN
    /\ boot.stage = "mark" /\ todo = <<>>
    /\ boot' = [Off EXCEPT !.stage = "up"]
    /\ write_pos' = Place(b, info[b].used)
    /\ lock' = NULL
    /\ IF info[b].used = Slots /\ clean_blk_nums < Reserved + 1
       THEN KvTriggerGc ELSE UNCHANGED <<gc_waiter, gc_trigger, gc>>
    /\ legal' = [k \in Keys |-> IF Get(k) \in legal[k] THEN {Get(k)} ELSE legal[k]]
    /\ UNCHANGED <<flash, info, clean_blk_nums, gc_sem, posts, todo, task, lossy>>
-----------------------------------------------------------------------------
\* The first start, on an erased partition.
Init ==
    /\ flash = [b \in Blocks |-> [state |-> "NONE", items |-> <<>>]]
    /\ info = [b \in Blocks |-> [state |-> "ZERO", used |-> Slots]]
    /\ write_pos = Place(0, 0) /\ clean_blk_nums = 0
    /\ gc_trigger = 0 /\ gc_waiter = 0 /\ gc_sem = 0 /\ gc = "none" /\ posts = 0
    /\ lock = BOOT /\ todo = <<>>
    /\ task = [p \in Tasks |-> IdleTask]
    /\ boot = Off
    /\ legal = [k \in Keys |-> {NULL}] /\ lossy = FALSE

Next ==
    \/ \E p \in Tasks :
          \/ \E k \in Keys, v \in Vals : SetCheck(p, k, v)
          \/ SetWaiter(p)
          \/ SetWait(p)
          \/ SetLocked(p)
          \/ \E k \in Keys : Delete(p, k)
          \/ DeleteByPrefix(p)
          \/ CallEnd(p)
    \/ Write
    \/ GcStart
    \/ GcEnd
    \/ GcPost
    \/ Crash
    \/ BootBlock
    \/ BootItem
    \/ BootBlockEnd
    \/ BootUnclean
    \/ BootMark
    \/ BootEnd

Spec == Init /\ [][Next]_vars
-----------------------------------------------------------------------------
Quiet == Up /\ lock = NULL

\* Power fail safeguard: a key has the value of the last call that returned
\* success or, when the power failed during a later one, that of the latter.
PowerFailSafe == Quiet => \A k \in Keys : Get(k) \in legal[k]

\* The same in spite of any number of power failures, in calls, in collections
\* and in the recovery, with one exception: a failure while the collection has
\* made a copy whose origin_off is the place it was copied from may lose keys.
\* Even then no key has a value that was replaced or deleted.
NoLossNoRevival ==
    Quiet => \A k \in Keys : Get(k) \in legal[k] \/ (lossy /\ Get(k) = NULL)

\* A key has one item: kv_item_delete, which deletes the first it finds, never
\* brings an older value back.
OneLiveItem ==
    Quiet => \A b, c \in Blocks : \A i \in 1..Len(flash[b].items), j \in 1..Len(flash[c].items) :
                LET p == Place(b, i)  o == Place(c, j)
                IN  /\ At(flash, p).live /\ At(flash, o).live
                    /\ At(flash, p).key = At(flash, o).key
                    => p = o

\* What g_kv_mgr knows of the flash is so, whatever happened before: the states,
\* the space, the clean blocks and the place to write at; a block in state USED
\* has no deleted item, and one block is left for the next collection.
CacheExact ==
    Quiet =>
      /\ \A b \in Blocks : /\ info[b] = [state |-> flash[b].state, used |-> Len(flash[b].items)]
                           /\ info[b].state = "CLEAN" => flash[b].items = <<>>
                           /\ info[b].state = "USED" =>
                                \A i \in 1..Len(flash[b].items) : flash[b].items[i].live
      /\ clean_blk_nums = Cardinality({b \in Blocks : info[b].state = "CLEAN"})
      /\ clean_blk_nums = Reserved
      /\ write_pos.n = info[write_pos.blk].used
      /\ info[write_pos.blk].state \in {"USED", "DIRTY"}
=============================================================================

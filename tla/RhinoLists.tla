----------------------------- MODULE RhinoLists -----------------------------
(***************************************************************************)
(* The three list structures of the rhino kernel, as pure operators:       *)
(*   - the ready queue g_ready_queue of k_sched.c: one circular list per   *)
(*     priority, its head cur_list_item[prio] first, and the cached        *)
(*     highest_pri (the bitmap is set exactly for the non-empty lists: it  *)
(*     is written together with cur_list_item and is not kept apart);      *)
(*   - the priority-sorted list of the tasks blocked on an object (k_pend.c); *)
(*   - the tick list g_tick_head, sorted by remaining ticks (k_tick.c).    *)
(* A lower number is a higher priority.                                    *)
(***************************************************************************)
EXTENDS Integers, Sequences, SequencesExt, FiniteSetsExt

\* ready_list_add_tail (and ready_list_add): behind the current head, that is
\* at the end; only the first task of a list can raise highest_pri.
ReadyListAddTail(q, t, p) ==
    [list |-> [q.list EXCEPT ![p] = Append(@, t)],
     highest_pri |-> IF q.list[p] = <<>> /\ p < q.highest_pri
                     THEN p ELSE q.highest_pri]

\* ready_list_add_head: inserted behind the head, then made the head.
ReadyListAddHead(q, t, p) ==
    [list |-> [q.list EXCEPT ![p] = <<t>> \o @],
     highest_pri |-> IF q.list[p] = <<>> /\ p < q.highest_pri
                     THEN p ELSE q.highest_pri]

\* krhino_find_first_bit on the bitmap: the highest priority with a ready task
\* (k_err_proc when there is none: the idle task is always ready).
FindFirstBit(lists) == Min({p \in DOMAIN lists : lists[p] # <<>>})

\* Mutant: the cached priority is not recomputed when its list empties.
ReadyListRm_StaleHighest(q, t, p) ==
    [q EXCEPT !.list[p] = IF Len(@) > 1 THEN RemoveFirst(@, t) ELSE <<>>]

\* ready_list_rm: a list of one task is emptied, and highest_pri is searched
\* again only when the emptied list was the highest.
ReadyListRm(q, t, p) ==
    LET lists == [q.list EXCEPT ![p] = IF Len(@) > 1 THEN RemoveFirst(@, t)
                                                     ELSE <<>>]
    IN  [list |-> lists,
         highest_pri |-> IF Len(q.list[p]) > 1 \/ p # q.highest_pri
                         THEN q.highest_pri ELSE FindFirstBit(lists)]

\* Mutant: the head stays where it is.
ReadyListHeadToTail_Keep(q, p) == q

\* ready_list_head_to_tail: cur_list_item[prio] moves to the next task.
ReadyListHeadToTail(q, p) ==
    LET s == q.list[p]
    IN  [list |-> [q.list EXCEPT ![p] = [i \in DOMAIN s |-> s[(i % Len(s)) + 1]]],
         highest_pri |-> q.highest_pri]

\* preferred_cpu_ready_task_get on one CPU: the head of the highest list.
PreferredTask(q) == Head(q.list[q.highest_pri])

\* A ready queue over the tasks T and the priorities 0..n: its lists hold no
\* task twice, that of the idle priority n is never empty, and highest_pri is
\* the first list with a task.
SoundQueue(q, T, n) ==
    /\ q \in [list : [0..n -> Seq(T)], highest_pri : 0..n]
    /\ q.list[n] # <<>>
    /\ \A p \in 0..n : IsInjective(q.list[p])
    /\ q.highest_pri = FindFirstBit(q.list)
-----------------------------------------------------------------------------
\* The position at which t enters s: before the first task with a larger key.
InsertPos(s, t, key) ==
    Min({i \in 1..Len(s) : key[s[i]] > key[t]} \cup {Len(s) + 1})

\* Mutant: a task is put at the end of the list, whatever its priority.
PendListAdd_Fifo(s, t, pr) == Append(s, t)

\* pend_list_add: sorted by priority, first come first served among equals.
PendListAdd(s, t, pr) == InsertAt(s, InsertPos(s, t, pr), t)

\* Mutant: a task whose priority changes keeps its old place in the list.
PendListReorder_Keep(s, t, pr) == s

\* pend_list_reorder: taken out and inserted again with its new priority.
PendListReorder(s, t, pr) == PendListAdd(RemoveFirst(s, t), t, pr)

\* Mutant: the tick list is kept in arrival order.
TickListPriInsert_Fifo(s, t, remain) == Append(s, t)

\* tick_list_pri_insert: sorted by remaining ticks.
TickListPriInsert(s, t, remain) == InsertAt(s, InsertPos(s, t, remain), t)
=============================================================================

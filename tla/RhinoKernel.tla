----------------------------- MODULE RhinoKernel -----------------------------
(***************************************************************************)
(* The core of the rhino kernel on one CPU: task states and priorities,    *)
(* the ready queue and context switches, ticks and time slices, blocking   *)
(* on kernel objects, and mutexes with priority inheritance.               *)
(* Sources: k_task.c, k_sched.c, k_pend.c, k_tick.c, k_mutex.c, k_sys.c.   *)
(*                                                                         *)
(* A critical section runs with interrupts off, so it is atomic.  A section *)
(* that contains a loop is a first step followed by the steps of the loop, *)
(* kept in "todo" (the rest of the section, in code order); no other action *)
(* is enabled while todo is not empty.  RHINO_CRITICAL_EXIT_SCHED turns    *)
(* interrupts on BEFORE it calls core_sched, so that call is a step of its *)
(* own (pc = "sched" or "blk") that interrupts may precede; and a switch   *)
(* is done by the PendSV exception, which waits for the pending interrupts *)
(* (pendsv).  A call that returns an error before it changes anything is a *)
(* stuttering step and has no action.                                      *)
(***************************************************************************)
EXTENDS RhinoLists

CONSTANTS
    Tasks,      \* the TCBs, the idle task among them
    IdleTask,
    Mutexes,
    Others,     \* the blocking objects that are not mutexes
    NULL,
    PriMax,     \* RHINO_CONFIG_PRI_MAX
    Boot,       \* Boot[p]: the ready list of priority p at krhino_start
    Waits,      \* the timeouts used: FOREVER or a number of ticks
    NewPris,    \* the priorities passed to task_create and task_pri_change
    Calls,      \* the calls the application's tasks make
    IsrCalls,   \* the calls its interrupt handlers make, "tick" for SysTick
    TimeSlices, \* the slices given to krhino_task_time_slice_set
    TimeSliceDefault,  \* RHINO_CONFIG_TIME_SLICE_DEFAULT
    MaxSuspend, \* (suspend_nested_t)-1
    MaxNested,  \* (mutex_nested_t)-1
    MaxSchedLock, \* SCHED_MAX_LOCK_COUNT
    MaxIntrpt   \* how deep interrupts nest

FOREVER == -1                        \* RHINO_WAIT_FOREVER
IdlePri == PriMax - 1                \* RHINO_IDLE_PRI
Pris    == 0..IdlePri
Objs    == Mutexes \cup Others
Booted  == UNION {ToSet(Boot[p]) : p \in Pris}

ASSUME KernelAssumption ==
    /\ IdleTask \in Tasks /\ NULL \notin Tasks \cup Mutexes \cup Others
    /\ Mutexes \cap Others = {}
    /\ PriMax \in Nat /\ PriMax >= 2
    /\ Boot \in [Pris -> Seq(Tasks)]
    /\ Boot[IdlePri] = <<IdleTask>>
    /\ \A p, q \in Pris : \A i \in DOMAIN Boot[p], j \in DOMAIN Boot[q] :
          Boot[p][i] = Boot[q][j] => p = q /\ i = j
    /\ Waits \subseteq {FOREVER} \cup (Nat \ {0})
    /\ NewPris \subseteq 0..IdlePri - 1
    /\ TimeSlices \subseteq Nat /\ TimeSliceDefault \in Nat \ {0}
    /\ MaxSuspend \in Nat \ {0} /\ MaxNested \in Nat \ {0}
    /\ MaxSchedLock \in Nat \ {0} /\ MaxIntrpt \in Nat \ {0}

VARIABLES
    \* the fields of ktask_t
    task_state, prio, b_prio, suspend_count, cancel, blk_obj, blk_state,
    time_slice, time_total, sched_policy,
    tick_remain,    \* tick_match - g_tick_count
    mutex_list,     \* the mutexes held, last taken first
    \* kernel objects: blk_list, obj_type (alive: not RHINO_OBJ_TYPE_NONE)
    blk_list, alive,
    \* the fields of kmutex_t
    mutex_task, owner_nested,
    \* globals: g_ready_queue, g_tick_head, g_sched_lock,
    \* g_intrpt_nested_level, g_active_task, g_preferred_ready_task
    rq, tick_list, sched_lock, nested, active, preferred,
    pendsv,         \* the PendSV exception is pending
    tick_isr,       \* where the tick handler is: it runs at level 1 or not at all
    todo,           \* what is left of the critical section in progress
    pc, call,       \* where each task is, and the object its call waits for
    fatal,          \* k_err_proc was called
    held            \* history: the gets of each mutex not yet given back

tcbVars   == <<suspend_count, cancel>>
rrVars    == <<time_slice, time_total, sched_policy>>
waitVars  == <<blk_obj, blk_state, blk_list, tick_list, tick_remain>>
mutexVars == <<mutex_list, mutex_task, owner_nested, held>>
cpuVars   == <<active, preferred, pendsv, nested, tick_isr>>
ctlVars   == <<todo, pc, call, fatal>>
dataVars  == <<task_state, prio, b_prio, alive, rq, sched_lock,
               tcbVars, rrVars, waitVars, mutexVars>>
vars == <<dataVars, cpuVars, ctlVars>>

-----------------------------------------------------------------------------
TaskStates == {"K_SEED", "K_RDY", "K_PEND", "K_SUSPENDED", "K_PEND_SUSPENDED",
               "K_SLEEP", "K_SLEEP_SUSPENDED", "K_DELETED"}
Pending  == {"K_PEND", "K_PEND_SUSPENDED"}
Sleeping == {"K_SLEEP", "K_SLEEP_SUSPENDED"}
Created(t) == task_state[t] \notin {"K_SEED", "K_DELETED"}

\* krhino_init, the creation of the first tasks, and krhino_start.
Init ==
    /\ task_state = [t \in Tasks |-> IF t \in Booted THEN "K_RDY" ELSE "K_SEED"]
    /\ prio = [t \in Tasks |-> IF t \in Booted
                               THEN CHOOSE p \in Pris : t \in ToSet(Boot[p])
                               ELSE 0]
    /\ b_prio = prio
    /\ suspend_count = [t \in Tasks |-> 0]
    /\ cancel = [t \in Tasks |-> FALSE]
    /\ blk_obj = [t \in Tasks |-> NULL]
    /\ blk_state = [t \in Tasks |-> "BLK_FINISH"]
    /\ time_total = [t \in Tasks |-> TimeSliceDefault]
    /\ time_slice = time_total
    /\ sched_policy = [t \in Tasks |-> "KSCHED_RR"]
    /\ tick_remain = [t \in Tasks |-> 0]
    /\ mutex_list = [t \in Tasks |-> <<>>]
    /\ blk_list = [o \in Objs |-> <<>>]
    /\ alive = Objs
    /\ mutex_task = [m \in Mutexes |-> NULL]
    /\ owner_nested = [m \in Mutexes |-> 0]
    /\ rq = [list |-> Boot, highest_pri |-> FindFirstBit(Boot)]
    /\ tick_list = <<>>
    /\ sched_lock = 0 /\ nested = 0 /\ tick_isr = "no"
    /\ active = PreferredTask(rq) /\ preferred = active /\ pendsv = FALSE
    /\ todo = <<>>
    /\ pc = [t \in Tasks |-> "run"]
    /\ call = [t \in Tasks |-> NULL]
    /\ fatal = FALSE
    /\ held = [t \in Tasks |-> [m \in Mutexes |-> 0]]
-----------------------------------------------------------------------------
(* Who may take the next step.  A task runs when no interrupt is active and *)
(* no switch is pending; the idle task makes no calls (k_idle.c).           *)

InTask == todo = <<>> /\ nested = 0 /\ ~pendsv

Calling(c) == InTask /\ pc[active] = "run" /\ active # IdleTask /\ c \in Calls

\* The tick handler has level 1 for itself; a deeper level is a peripheral's.
InTickIsr(at) == todo = <<>> /\ nested = 1 /\ tick_isr = at

InIsr(c) ==
    /\ todo = <<>> /\ nested > 0 /\ c \in IsrCalls
    /\ nested = 1 => tick_isr = "no"

\* Mutant: RHINO_CRITICAL_EXIT where the call needs RHINO_CRITICAL_EXIT_SCHED.
ExitSched_None == UNCHANGED pc

\* RHINO_CRITICAL_EXIT_SCHED: core_sched returns at once in an interrupt.
ExitSched == pc' = IF nested > 0 THEN pc ELSE [pc EXCEPT ![active] = "sched"]

\* Mutant: the switch is requested before g_preferred_ready_task is set.
Resched_OldTarget ==
    IF sched_lock > 0 \/ PreferredTask(rq) = active
    THEN UNCHANGED <<preferred, pendsv>>
    ELSE pendsv' = TRUE /\ UNCHANGED preferred

\* The body of core_sched and the end of krhino_intrpt_exit: cpu_task_switch
\* and cpu_intrpt_switch set PendSV pending.
Resched ==
    IF sched_lock > 0 \/ PreferredTask(rq) = active
    THEN UNCHANGED <<preferred, pendsv>>
    ELSE preferred' = PreferredTask(rq) /\ pendsv' = TRUE

\* core_sched as the last part of RHINO_CRITICAL_EXIT_SCHED: a task that
\* blocked goes on to pend_state_end_proc, any other returns from its call.
CoreSched ==
    /\ InTask /\ pc[active] \in {"sched", "blk"}
    /\ pc' = [pc EXCEPT ![active] = IF @ = "sched" THEN "run" ELSE "end"]
    /\ Resched
    /\ UNCHANGED <<dataVars, active, nested, tick_isr, todo, call, fatal>>

\* PendSV_Handler: the lowest exception priority, interrupts off inside.
PendSV ==
    /\ todo = <<>> /\ nested = 0 /\ pendsv
    /\ active' = preferred /\ pendsv' = FALSE
    /\ UNCHANGED <<dataVars, preferred, nested, tick_isr, ctlVars>>

\* idle_task: counts rounds (g_idle_count, which nothing here reads) for ever.
IdleLoop ==
    /\ InTask /\ active = IdleTask
    /\ UNCHANGED vars

\* krhino_intrpt_enter of a peripheral's interrupt, which may interrupt the
\* tick handler and comes before a pending PendSV.
IntrptEnter ==
    /\ todo = <<>> /\ nested < MaxIntrpt
    /\ IsrCalls \ {"tick"} # {}
    /\ nested' = nested + 1
    /\ UNCHANGED <<dataVars, active, preferred, pendsv, tick_isr, ctlVars>>

\* krhino_intrpt_enter of SysTick_Handler: cpu_first_task_start gives SysTick and
\* PendSV the same, lowest, priority, so a pending PendSV goes first.
TickEnter ==
    /\ InTask /\ "tick" \in IsrCalls
    /\ nested' = 1 /\ tick_isr' = "tick"
    /\ UNCHANGED <<dataVars, active, preferred, pendsv, ctlVars>>

\* krhino_intrpt_exit: a switch that is already pending is left as it is.
IntrptExit ==
    /\ todo = <<>> /\ nested > 0
    /\ nested = 1 => tick_isr \in {"no", "done"}
    /\ nested' = nested - 1
    /\ tick_isr' = IF nested = 1 THEN "no" ELSE tick_isr
    /\ IF nested = 1 THEN Resched ELSE UNCHANGED <<preferred, pendsv>>
    /\ UNCHANGED <<dataVars, active, ctlVars>>
-----------------------------------------------------------------------------
(* Waiting and waking (k_pend.c, k_tick.c).                                 *)

Item(op, t, o, n) == [op |-> op, task |-> t, obj |-> o, arg |-> n]

Doing(op) == todo # <<>> /\ Head(todo).op = op

\* tick_list_insert(t, ticks), not called when the wait is for ever.
TickListInsert(t, ticks) ==
    /\ tick_remain' = [tick_remain EXCEPT ![t] = IF ticks = FOREVER THEN 0 ELSE ticks]
    /\ tick_list' = IF ticks = FOREVER THEN tick_list
                    ELSE TickListPriInsert(tick_list, t, tick_remain')

\* pend_to_blk_obj(o, active, ticks); the call goes on in core_sched.
PendToBlkObj(o, ticks) ==
    /\ task_state' = [task_state EXCEPT ![active] = "K_PEND"]
    /\ rq' = ReadyListRm(rq, active, prio[active])
    /\ blk_list' = [blk_list EXCEPT ![o] = PendListAdd(@, active, prio)]
    /\ blk_obj' = [blk_obj EXCEPT ![active] = o]
    /\ TickListInsert(active, ticks)
    /\ pc' = [pc EXCEPT ![active] = "blk"]
    /\ call' = [call EXCEPT ![active] = o]
    /\ UNCHANGED blk_state

\* Mutant: a task that is woken stays on the tick list.
LeaveWait_KeepTick(t, why) ==
    /\ blk_list' = IF blk_obj[t] = NULL THEN blk_list
                   ELSE [blk_list EXCEPT ![blk_obj[t]] = RemoveFirst(@, t)]
    /\ blk_state' = [blk_state EXCEPT ![t] = why]
    /\ blk_obj' = [blk_obj EXCEPT ![t] = NULL]
    /\ UNCHANGED <<tick_list, tick_remain>>

\* What every end of a wait does to the lists: off the object's list, off the
\* tick list (tick_match is not read any more), and why the wait ended.
LeaveWait(t, why) ==
    /\ blk_list' = IF blk_obj[t] = NULL THEN blk_list
                   ELSE [blk_list EXCEPT ![blk_obj[t]] = RemoveFirst(@, t)]
    /\ tick_list' = RemoveFirst(tick_list, t)
    /\ tick_remain' = [tick_remain EXCEPT ![t] = 0]
    /\ blk_state' = [blk_state EXCEPT ![t] = why]
    /\ blk_obj' = [blk_obj EXCEPT ![t] = NULL]

\* pend_task_wakeup (BLK_FINISH), pend_task_rm (BLK_DEL) and the expiry of a
\* wait or a sleep in tick_list_update: a suspended task stays suspended.
PendTaskWakeup(t, why) ==
    /\ task_state' = [task_state EXCEPT
                        ![t] = IF @ \in {"K_PEND", "K_SLEEP"} THEN "K_RDY"
                               ELSE "K_SUSPENDED"]
    /\ rq' = IF task_state[t] \in {"K_PEND", "K_SLEEP"}
             THEN ReadyListAddTail(rq, t, prio[t]) ELSE rq
    /\ LeaveWait(t, why)

\* Mutant: a timeout is reported as success.
PendStatus_NoTimeout(t) ==
    IF blk_state[t] = "BLK_TIMEOUT" THEN "BLK_FINISH" ELSE blk_state[t]

\* pend_state_end_proc: the status a blocking call returns.
PendStatus(t) ==
    IF cancel[t] /\ call[t] \notin Mutexes THEN "RHINO_TASK_CANCELED"
    ELSE blk_state[t]

\* The task runs again after core_sched and returns from its blocking call.
PendStateEndProc ==
    /\ InTask /\ pc[active] = "end"
    /\ pc' = [pc EXCEPT ![active] = "run"]
    /\ call' = [call EXCEPT ![active] = NULL]
    /\ held' = IF call[active] \in Mutexes \cap alive /\ PendStatus(active) = "BLK_FINISH"
               THEN [held EXCEPT ![active][call[active]] = @ + 1] ELSE held
    /\ UNCHANGED <<task_state, prio, b_prio, alive, rq, sched_lock, tcbVars, rrVars,
                   waitVars, mutex_list, mutex_task, owner_nested, cpuVars,
                   todo, fatal>>
-----------------------------------------------------------------------------
(* Priority inheritance (k_mutex.c, task_pri_change of k_task.c).           *)

\* mutex_pri_look and mutex_pri_limit: the best of base and the priorities of
\* the first waiters of the mutexes ms, given the lists and priorities.
PriLook(base, ms, lists, pr) ==
    Min({base} \cup {pr[Head(lists[m])] : m \in {x \in ms : lists[x] # <<>>}})

\* Mutant: an inherited priority is kept.
MutexRelease_Keep(t, ms, lists) == <<>>

\* mutex_release: what is left to do when t's mutexes are ms.
MutexRelease(t, ms, lists) ==
    LET new == PriLook(b_prio[t], ms, lists, prio)
    IN  IF new = prio[t] THEN <<>> ELSE <<Item("pri_change", t, NULL, new)>>

\* mutex_task_pri_reset(t), lists being the blocked lists without t.
MutexTaskPriReset(t, lists) ==
    IF blk_obj[t] \in Mutexes \cap alive
    THEN LET o == mutex_task[blk_obj[t]]
         IN  IF prio[o] = prio[t] THEN MutexRelease(o, ToSet(mutex_list[o]), lists)
             ELSE <<>>
    ELSE <<>>

\* One round of the loop of task_pri_change(t, new).
TaskPriChange ==
    LET t   == Head(todo).task
        new == Head(todo).arg
        m   == blk_obj[t]
        o   == mutex_task[m]
        look == PriLook(b_prio[o], ToSet(mutex_list[o]), blk_list', prio')
        next == IF m \notin Mutexes \cap alive THEN <<>>
                ELSE IF prio[o] > new THEN <<Item("pri_change", o, NULL, new)>>
                ELSE IF prio[o] = prio[t] /\ look # prio[o]
                     THEN <<Item("pri_change", o, NULL, look)>>
                ELSE <<>>
    IN
    /\ Doing("pri_change")
    /\ \/ /\ prio[t] = new
          /\ todo' = Tail(todo)
          /\ UNCHANGED <<prio, rq, blk_list, fatal>>
       \/ /\ prio[t] # new /\ task_state[t] = "K_RDY"
          /\ prio' = [prio EXCEPT ![t] = new]
          /\ rq' = LET q == ReadyListRm(rq, t, prio[t])
                   IN  IF t = active THEN ReadyListAddHead(q, t, new)
                                     ELSE ReadyListAddTail(q, t, new)
          /\ todo' = Tail(todo)
          /\ UNCHANGED <<blk_list, fatal>>
       \/ /\ prio[t] # new /\ task_state[t] \in Sleeping \cup {"K_SUSPENDED"}
          /\ prio' = [prio EXCEPT ![t] = new]
          /\ todo' = Tail(todo)
          /\ UNCHANGED <<rq, blk_list, fatal>>
       \/ /\ prio[t] # new /\ task_state[t] \in Pending
          /\ prio' = [prio EXCEPT ![t] = new]
          /\ blk_list' = [blk_list EXCEPT ![m] = PendListReorder(@, t, prio')]
          /\ todo' = next \o Tail(todo)
          /\ UNCHANGED <<rq, fatal>>
       \/ /\ prio[t] # new /\ ~Created(t)
          /\ fatal' = TRUE
          /\ todo' = Tail(todo)
          /\ UNCHANGED <<prio, rq, blk_list>>
    /\ UNCHANGED <<task_state, b_prio, alive, sched_lock, tcbVars, rrVars, blk_obj,
                   blk_state, tick_list, tick_remain, mutexVars, cpuVars, pc, call>>
-----------------------------------------------------------------------------
(* Mutexes (k_mutex.c).                                                     *)

\* Mutant: the owner of the mutex that was in this memory before is left in.
MutexCreate_KeepOwner(m) ==
    /\ Calling("mutex_create") /\ m \notin alive
    /\ \A t \in Tasks : call[t] # m
    /\ alive' = alive \cup {m}
    /\ UNCHANGED <<task_state, prio, b_prio, rq, sched_lock, tcbVars, rrVars,
                   waitVars, mutexVars, cpuVars, ctlVars>>

\* krhino_mutex_create, dynamic or static; the application does not create a
\* mutex again in memory that a call still uses.
MutexCreate(m) ==
    /\ Calling("mutex_create") /\ m \notin alive
    /\ \A t \in Tasks : call[t] # m
    /\ alive' = alive \cup {m}
    /\ mutex_task' = [mutex_task EXCEPT ![m] = NULL]
    /\ owner_nested' = [owner_nested EXCEPT ![m] = 0]
    /\ UNCHANGED <<task_state, prio, b_prio, rq, sched_lock, tcbVars, rrVars,
                   waitVars, mutex_list, held, cpuVars, ctlVars>>

\* Mutant: the nested counter is not checked against its largest value.
MutexLockNested_NoLimit(m) ==
    /\ Calling("mutex_lock") /\ m \in alive
    /\ mutex_task[m] = active
    /\ owner_nested' = [owner_nested EXCEPT ![m] = @ + 1]
    /\ held' = [held EXCEPT ![active][m] = @ + 1]
    /\ UNCHANGED <<task_state, prio, b_prio, alive, rq, sched_lock, tcbVars, rrVars,
                   waitVars, mutex_list, mutex_task, cpuVars, ctlVars>>

\* krhino_mutex_lock by the owner: one more nested get.  At the largest count
\* k_err_proc is called ("system must be stoped here") and nothing changes.
MutexLockNested(m) ==
    /\ Calling("mutex_lock") /\ m \in alive
    /\ mutex_task[m] = active /\ owner_nested[m] < MaxNested
    /\ owner_nested' = [owner_nested EXCEPT ![m] = @ + 1]
    /\ held' = [held EXCEPT ![active][m] = @ + 1]
    /\ UNCHANGED <<task_state, prio, b_prio, alive, rq, sched_lock, tcbVars, rrVars,
                   waitVars, mutex_list, mutex_task, cpuVars, ctlVars>>

\* Mutant: the first get of a mutex is not counted.
MutexLockFree_NoCount(m) ==
    /\ Calling("mutex_lock") /\ m \in alive
    /\ mutex_task[m] = NULL
    /\ mutex_task' = [mutex_task EXCEPT ![m] = active]
    /\ mutex_list' = [mutex_list EXCEPT ![active] = <<m>> \o @]
    /\ held' = [held EXCEPT ![active][m] = @ + 1]
    /\ UNCHANGED <<task_state, prio, b_prio, alive, rq, sched_lock, tcbVars, rrVars,
                   waitVars, owner_nested, cpuVars, ctlVars>>

\* krhino_mutex_lock of a free mutex.
MutexLockFree(m) ==
    /\ Calling("mutex_lock") /\ m \in alive
    /\ mutex_task[m] = NULL
    /\ mutex_task' = [mutex_task EXCEPT ![m] = active]
    /\ mutex_list' = [mutex_list EXCEPT ![active] = <<m>> \o @]
    /\ owner_nested' = [owner_nested EXCEPT ![m] = 1]
    /\ held' = [held EXCEPT ![active][m] = @ + 1]
    /\ UNCHANGED <<task_state, prio, b_prio, alive, rq, sched_lock, tcbVars, rrVars,
                   waitVars, cpuVars, ctlVars>>

\* Mutant: the owner inherits nothing.
MutexLockBusy_NoInherit(m, ticks) ==
    /\ Calling("mutex_lock") /\ m \in alive
    /\ mutex_task[m] \notin {NULL, active} /\ sched_lock = 0
    /\ todo' = <<Item("lock_pend", active, m, ticks)>>
    /\ UNCHANGED <<dataVars, cpuVars, pc, call, fatal>>

\* krhino_mutex_lock of a mutex another task owns: the owner inherits the
\* caller's priority, then the caller blocks (MutexLockPend).
MutexLockBusy(m, ticks) ==
    /\ Calling("mutex_lock") /\ m \in alive
    /\ mutex_task[m] \notin {NULL, active} /\ sched_lock = 0
    /\ todo' = (IF prio[active] < prio[mutex_task[m]]
                THEN <<Item("pri_change", mutex_task[m], NULL, prio[active])>>
                ELSE <<>>) \o <<Item("lock_pend", active, m, ticks)>>
    /\ UNCHANGED <<dataVars, cpuVars, pc, call, fatal>>

MutexLockPend ==
    /\ Doing("lock_pend")
    /\ PendToBlkObj(Head(todo).obj, Head(todo).arg)
    /\ todo' = Tail(todo)
    /\ UNCHANGED <<prio, b_prio, alive, sched_lock, tcbVars, rrVars, mutexVars,
                   cpuVars, fatal>>

\* krhino_mutex_unlock by the owner, while gets are nested.
MutexUnlockNested(m) ==
    /\ Calling("mutex_unlock") /\ m \in alive
    /\ mutex_task[m] = active /\ owner_nested[m] > 1
    /\ owner_nested' = [owner_nested EXCEPT ![m] = @ - 1]
    /\ held' = [held EXCEPT ![active][m] = IF @ > 0 THEN @ - 1 ELSE 0]
    /\ UNCHANGED <<task_state, prio, b_prio, alive, rq, sched_lock, tcbVars, rrVars,
                   waitVars, mutex_list, mutex_task, cpuVars, ctlVars>>

\* The last krhino_mutex_unlock: mutex_release, then MutexHandOver.
MutexUnlock(m) ==
    /\ Calling("mutex_unlock") /\ m \in alive
    /\ mutex_task[m] = active /\ owner_nested[m] = 1
    /\ owner_nested' = [owner_nested EXCEPT ![m] = 0]
    /\ held' = [held EXCEPT ![active][m] = IF @ > 0 THEN @ - 1 ELSE 0]
    /\ mutex_list' = [mutex_list EXCEPT ![active] = RemoveFirst(@, m)]
    /\ todo' = MutexRelease(active, ToSet(mutex_list'[active]), blk_list)
               \o <<Item("hand_over", active, m, 0)>>
    /\ UNCHANGED <<task_state, prio, b_prio, alive, rq, sched_lock, tcbVars, rrVars,
                   waitVars, mutex_task, cpuVars, pc, call, fatal>>

\* The rest of krhino_mutex_unlock: the mutex is free and the call returns
\* without core_sched, or the first waiter owns it.
MutexHandOver ==
    LET m == Head(todo).obj
        t == Head(blk_list[m])
    IN
    /\ Doing("hand_over")
    /\ todo' = Tail(todo)
    /\ \/ /\ blk_list[m] = <<>>
          /\ mutex_task' = [mutex_task EXCEPT ![m] = NULL]
          /\ UNCHANGED <<task_state, rq, waitVars, mutex_list, owner_nested, pc>>
       \/ /\ blk_list[m] # <<>>
          /\ PendTaskWakeup(t, "BLK_FINISH")
          /\ mutex_task' = [mutex_task EXCEPT ![m] = t]
          /\ mutex_list' = [mutex_list EXCEPT ![t] = <<m>> \o @]
          /\ owner_nested' = [owner_nested EXCEPT ![m] = 1]
          /\ ExitSched
    /\ UNCHANGED <<prio, b_prio, alive, sched_lock, tcbVars, rrVars, held, cpuVars,
                   call, fatal>>

\* krhino_mutex_del and krhino_mutex_dyn_del: mutex_task is not cleared; the
\* waiters are woken in DelWaiters.
MutexDel(m) ==
    LET o == mutex_task[m]
    IN
    /\ Calling("mutex_del") /\ m \in alive
    /\ alive' = alive \ {m}
    /\ held' = [t \in Tasks |-> [held[t] EXCEPT ![m] = 0]]
    /\ \/ /\ o = NULL
          /\ todo' = <<Item("del_waiters", NULL, m, 0)>>
          /\ UNCHANGED mutex_list
       \/ /\ o # NULL
          /\ mutex_list' = [mutex_list EXCEPT ![o] = RemoveFirst(@, m)]
          /\ todo' = MutexRelease(o, ToSet(mutex_list'[o]), blk_list)
                     \o <<Item("del_waiters", NULL, m, 0)>>
    /\ ExitSched
    /\ UNCHANGED <<task_state, prio, b_prio, rq, sched_lock, tcbVars, rrVars,
                   waitVars, mutex_task, owner_nested, cpuVars, call, fatal>>

\* One round of the loop over the waiters of a deleted object.
DelWaiters ==
    LET o == Head(todo).obj
    IN
    /\ Doing("del_waiters")
    /\ \/ /\ blk_list[o] = <<>>
          /\ todo' = Tail(todo)
          /\ UNCHANGED <<task_state, rq, waitVars>>
       \/ /\ blk_list[o] # <<>>
          /\ PendTaskWakeup(Head(blk_list[o]), "BLK_DEL")
          /\ UNCHANGED todo
    /\ UNCHANGED <<prio, b_prio, alive, sched_lock, tcbVars, rrVars, mutexVars,
                   cpuVars, pc, call, fatal>>
-----------------------------------------------------------------------------
(* Tasks (k_task.c).  Only created tasks are passed to the calls.           *)

\* krhino_task_create of a TCB that was never used or whose task was deleted.
TaskCreate(t, p, autorun) ==
    /\ Calling("task_create") /\ ~Created(t)
    /\ task_state' = [task_state EXCEPT ![t] = IF autorun THEN "K_RDY"
                                               ELSE "K_SUSPENDED"]
    /\ suspend_count' = [suspend_count EXCEPT ![t] = IF autorun THEN 0 ELSE 1]
    /\ prio' = [prio EXCEPT ![t] = p]
    /\ b_prio' = [b_prio EXCEPT ![t] = p]
    /\ cancel' = [cancel EXCEPT ![t] = FALSE]
    /\ time_total' = [time_total EXCEPT ![t] = TimeSliceDefault]
    /\ time_slice' = [time_slice EXCEPT ![t] = TimeSliceDefault]
    /\ sched_policy' = [sched_policy EXCEPT ![t] = "KSCHED_RR"]
    /\ blk_obj' = [blk_obj EXCEPT ![t] = NULL]
    /\ blk_state' = [blk_state EXCEPT ![t] = "BLK_FINISH"]
    /\ mutex_list' = [mutex_list EXCEPT ![t] = <<>>]
    /\ rq' = IF autorun THEN ReadyListAddTail(rq, t, p) ELSE rq
    /\ pc' = [pc EXCEPT ![t] = "run", ![active] = IF autorun THEN "sched" ELSE "run"]
    /\ UNCHANGED <<alive, sched_lock, blk_list, tick_list, tick_remain, mutex_task,
                   owner_nested, held, cpuVars, todo, call, fatal>>

\* krhino_task_sleep.
TaskSleep(ticks) ==
    /\ Calling("task_sleep") /\ sched_lock = 0
    /\ task_state' = [task_state EXCEPT ![active] = "K_SLEEP"]
    /\ TickListInsert(active, ticks)
    /\ rq' = ReadyListRm(rq, active, prio[active])
    /\ pc' = [pc EXCEPT ![active] = "blk"]
    /\ UNCHANGED <<prio, b_prio, alive, sched_lock, tcbVars, rrVars, blk_obj,
                   blk_state, blk_list, mutexVars, cpuVars, todo, call, fatal>>

\* krhino_task_yield: the list of the caller's priority is rotated.
TaskYield ==
    /\ Calling("task_yield")
    /\ rq' = ReadyListHeadToTail(rq, prio[active])
    /\ ExitSched
    /\ UNCHANGED <<task_state, prio, b_prio, alive, sched_lock, tcbVars, rrVars,
                   waitVars, mutexVars, cpuVars, todo, call, fatal>>

\* krhino_task_suspend and task_suspend, from a task or an interrupt.
TaskSuspend(t) ==
    /\ Calling("task_suspend") \/ InIsr("task_suspend")
    /\ Created(t) /\ prio[t] # IdlePri
    /\ ~(t = active /\ sched_lock > 0)
    /\ \/ /\ task_state[t] \in {"K_RDY", "K_SLEEP", "K_PEND"}
          /\ suspend_count' = [suspend_count EXCEPT ![t] = 1]
          /\ task_state' = [task_state EXCEPT
                             ![t] = CASE @ = "K_RDY"   -> "K_SUSPENDED"
                                      [] @ = "K_SLEEP" -> "K_SLEEP_SUSPENDED"
                                      [] @ = "K_PEND"  -> "K_PEND_SUSPENDED"]
          /\ rq' = IF task_state[t] = "K_RDY" THEN ReadyListRm(rq, t, prio[t]) ELSE rq
       \/ /\ task_state[t] \notin {"K_RDY", "K_SLEEP", "K_PEND"}
          /\ suspend_count[t] < MaxSuspend
          /\ suspend_count' = [suspend_count EXCEPT ![t] = @ + 1]
          /\ UNCHANGED <<task_state, rq>>
    /\ ExitSched
    /\ UNCHANGED <<prio, b_prio, alive, sched_lock, cancel, rrVars, waitVars,
                   mutexVars, cpuVars, todo, call, fatal>>

\* Mutant: the count of suspensions is off by one.
LastResume_OffByOne(t) == suspend_count[t] = 0

\* The resume that undoes the last suspension.
LastResume(t) == suspend_count[t] = 1

\* krhino_task_resume and task_resume, from a task or an interrupt.
TaskResume(t) ==
    /\ Calling("task_resume") \/ InIsr("task_resume")
    /\ task_state[t] \in {"K_SUSPENDED", "K_SLEEP_SUSPENDED", "K_PEND_SUSPENDED"}
    /\ suspend_count' = [suspend_count EXCEPT ![t] = @ - 1]
    /\ task_state' = [task_state EXCEPT
                        ![t] = IF ~LastResume(t) THEN @
                               ELSE CASE @ = "K_SUSPENDED"       -> "K_RDY"
                                      [] @ = "K_SLEEP_SUSPENDED" -> "K_SLEEP"
                                      [] @ = "K_PEND_SUSPENDED"  -> "K_PEND"]
    /\ rq' = IF LastResume(t) /\ task_state[t] = "K_SUSPENDED"
             THEN ReadyListAddTail(rq, t, prio[t]) ELSE rq
    /\ ExitSched
    /\ UNCHANGED <<prio, b_prio, alive, sched_lock, cancel, rrVars, waitVars,
                   mutexVars, cpuVars, todo, call, fatal>>

\* krhino_task_pri_change checks the state of the task before it enters the
\* critical section ...
TaskPriChangeCheck(t, p) ==
    /\ Calling("task_pri_change")
    /\ Created(t) /\ prio[t] < IdlePri
    /\ pc' = [pc EXCEPT ![active] = "pri"]
    /\ call' = [call EXCEPT ![active] = <<t, p>>]
    /\ UNCHANGED <<dataVars, cpuVars, todo, fatal>>

\* ... and changes the priority inside it; there is no core_sched after the
\* error that task_pri_change returns for a task deleted in between.
TaskPriChangeCall ==
    LET t == call[active][1]
        p == call[active][2]
        limit == PriLook(p, ToSet(mutex_list[t]), blk_list, prio)
    IN
    /\ InTask /\ pc[active] = "pri"
    /\ b_prio' = [b_prio EXCEPT ![t] = p]
    /\ todo' = <<Item("pri_change", t, NULL, limit)>>
    /\ pc' = [pc EXCEPT ![active] = IF Created(t) \/ prio[t] = limit THEN "sched"
                                   ELSE "run"]
    /\ call' = [call EXCEPT ![active] = NULL]
    /\ UNCHANGED <<task_state, prio, alive, rq, sched_lock, tcbVars, rrVars, waitVars,
                   mutexVars, cpuVars, fatal>>

\* Mutant: a wait that has already ended is aborted as well.
WaitAbort_Ended(t) ==
    /\ task_state' = [task_state EXCEPT ![t] = "K_RDY"]
    /\ rq' = IF task_state[t] = "K_RDY" THEN rq ELSE ReadyListAddTail(rq, t, prio[t])
    /\ LeaveWait(t, "BLK_ABORT")

\* The body of krhino_task_wait_abort; the count of suspensions is left alone.
WaitAbort(t) ==
    /\ task_state' = [task_state EXCEPT ![t] = "K_RDY"]
    /\ rq' = IF task_state[t] = "K_RDY" THEN rq ELSE ReadyListAddTail(rq, t, prio[t])
    /\ IF task_state[t] \in Sleeping \cup Pending THEN LeaveWait(t, "BLK_ABORT")
       ELSE UNCHANGED waitVars

\* krhino_task_wait_abort.
TaskWaitAbort(t) ==
    /\ Calling("task_wait_abort") /\ Created(t)
    /\ WaitAbort(t)
    /\ todo' = IF task_state[t] \in Pending THEN MutexTaskPriReset(t, blk_list')
               ELSE <<>>
    /\ ExitSched
    /\ UNCHANGED <<prio, b_prio, alive, sched_lock, tcbVars, rrVars, mutexVars,
                   cpuVars, call, fatal>>

\* krhino_task_cancel: wait_abort inside a critical section of its own, so
\* core_sched runs before interrupts are enabled.
TaskCancel(t) ==
    /\ Calling("task_cancel") /\ Created(t)
    /\ cancel' = [cancel EXCEPT ![t] = TRUE]
    /\ WaitAbort(t)
    /\ todo' = (IF task_state[t] \in Pending THEN MutexTaskPriReset(t, blk_list')
                ELSE <<>>) \o <<Item("core_sched", NULL, NULL, 0)>>
    /\ UNCHANGED <<prio, b_prio, alive, sched_lock, suspend_count, rrVars, mutexVars,
                   cpuVars, pc, call, fatal>>

CancelCoreSched ==
    /\ Doing("core_sched")
    /\ todo' = Tail(todo)
    /\ Resched
    /\ UNCHANGED <<dataVars, active, nested, tick_isr, pc, call, fatal>>

\* krhino_task_del (and a task function that returns, krhino_task_deathbed):
\* task_mutex_free, then TaskDelEnd.  A deleted task may be passed again: its
\* list of mutexes is walked too (exact for one mutex: the list is linked
\* through the mutexes, and later owners relink them).
TaskDel(t) ==
    /\ \/ Calling("task_del") /\ Created(t)
       \/ Calling("task_redel") /\ task_state[t] = "K_DELETED"
    /\ prio[t] # IdlePri
    /\ ~(t = active /\ sched_lock > 0)
    /\ todo' = <<Item("mutex_free", t, NULL, 1), Item("del_end", t, NULL, 0)>>
    /\ UNCHANGED <<dataVars, cpuVars, pc, call, fatal>>

\* One round of the loop of task_mutex_free over task->mutex_list, which is
\* not changed.
TaskMutexFree ==
    LET t == Head(todo).task
        i == Head(todo).arg
        m == mutex_list[t][i]
        w == Head(blk_list[m])
    IN
    /\ Doing("mutex_free")
    /\ \/ /\ i > Len(mutex_list[t])
          /\ todo' = Tail(todo)
          /\ UNCHANGED <<task_state, rq, waitVars, mutex_task, mutex_list>>
       \/ /\ i <= Len(mutex_list[t])
          /\ todo' = <<Item("mutex_free", t, NULL, i + 1)>> \o Tail(todo)
          /\ \/ /\ blk_list[m] # <<>>
                /\ PendTaskWakeup(w, "BLK_FINISH")
                /\ mutex_task' = [mutex_task EXCEPT ![m] = w]
                /\ mutex_list' = [mutex_list EXCEPT ![w] = <<m>> \o @]
             \/ /\ blk_list[m] = <<>>
                /\ mutex_task' = [mutex_task EXCEPT ![m] = NULL]
                /\ UNCHANGED <<task_state, rq, waitVars, mutex_list>>
    /\ UNCHANGED <<prio, b_prio, alive, sched_lock, tcbVars, rrVars, owner_nested,
                   held, cpuVars, pc, call, fatal>>

\* The rest of krhino_task_del; blk_obj of the deleted task is left as it is.
TaskDelEnd ==
    LET t == Head(todo).task
    IN
    /\ Doing("del_end")
    /\ \/ /\ task_state[t] = "K_DELETED"
          /\ todo' = Tail(todo)
          /\ UNCHANGED <<task_state, rq, blk_list, tick_list, tick_remain, pc, call,
                         held>>
       \/ /\ task_state[t] # "K_DELETED"
          /\ task_state' = [task_state EXCEPT ![t] = "K_DELETED"]
          /\ rq' = IF task_state[t] = "K_RDY" THEN ReadyListRm(rq, t, prio[t]) ELSE rq
          /\ blk_list' = IF task_state[t] \in Pending
                         THEN [blk_list EXCEPT ![blk_obj[t]] = RemoveFirst(@, t)]
                         ELSE blk_list
          /\ tick_list' = RemoveFirst(tick_list, t)
          /\ tick_remain' = [tick_remain EXCEPT ![t] = 0]
          /\ todo' = (IF task_state[t] \in Pending THEN MutexTaskPriReset(t, blk_list')
                      ELSE <<>>) \o Tail(todo)
          /\ call' = [call EXCEPT ![t] = NULL]
          /\ held' = [held EXCEPT ![t] = [m \in Mutexes |-> 0]]
          /\ ExitSched
    /\ UNCHANGED <<prio, b_prio, alive, sched_lock, tcbVars, rrVars, blk_obj, blk_state,
                   mutex_list, mutex_task, owner_nested, cpuVars, fatal>>

\* krhino_task_time_slice_set; 0 stands for the default.
TaskTimeSliceSet(t, s) ==
    /\ Calling("task_time_slice_set") /\ Created(t)
    /\ time_total' = [time_total EXCEPT ![t] = IF s > 0 THEN s ELSE TimeSliceDefault]
    /\ time_slice' = [time_slice EXCEPT ![t] = time_total'[t]]
    /\ UNCHANGED <<task_state, prio, b_prio, alive, rq, sched_lock, tcbVars,
                   sched_policy, waitVars, mutexVars, cpuVars, ctlVars>>

\* krhino_sched_policy_set.
SchedPolicySet(t, policy) ==
    /\ Calling("sched_policy_set") /\ Created(t)
    /\ sched_policy' = [sched_policy EXCEPT ![t] = policy]
    /\ UNCHANGED <<task_state, prio, b_prio, alive, rq, sched_lock, tcbVars,
                   time_slice, time_total, waitVars, mutexVars, cpuVars, ctlVars>>
-----------------------------------------------------------------------------
(* The scheduler lock (k_sched.c) and the tick (k_time.c, k_tick.c).        *)

SchedDisable ==
    /\ Calling("sched_disable") /\ sched_lock < MaxSchedLock
    /\ sched_lock' = sched_lock + 1
    /\ UNCHANGED <<task_state, prio, b_prio, alive, rq, tcbVars, rrVars, waitVars,
                   mutexVars, cpuVars, ctlVars>>

SchedEnable ==
    /\ Calling("sched_enable") /\ sched_lock > 0
    /\ sched_lock' = sched_lock - 1
    /\ IF sched_lock = 1 THEN ExitSched ELSE UNCHANGED pc
    /\ UNCHANGED <<task_state, prio, b_prio, alive, rq, tcbVars, rrVars, waitVars,
                   mutexVars, cpuVars, todo, call, fatal>>

\* Mutant: time stands still for a suspended task.
TickProc_NotSuspended ==
    /\ InTickIsr("tick")
    /\ tick_remain' = [t \in Tasks |-> IF /\ t \in ToSet(tick_list)
                                          /\ task_state[t] \in {"K_SLEEP", "K_PEND"}
                                       THEN tick_remain[t] - 1 ELSE tick_remain[t]]
    /\ todo' = <<Item("tick", NULL, NULL, 0)>>
    /\ tick_isr' = "slice"
    /\ UNCHANGED <<task_state, prio, b_prio, alive, rq, sched_lock, tcbVars, rrVars,
                   blk_obj, blk_state, blk_list, tick_list, mutexVars, active,
                   preferred, pendsv, nested, pc, call, fatal>>

\* krhino_tick_proc in the tick interrupt: g_tick_count moves on, the expired
\* entries are served in TickExpire, the time slice in TimeSliceUpdate.
TickProc ==
    /\ InTickIsr("tick")
    /\ tick_remain' = [t \in Tasks |-> IF t \in ToSet(tick_list) THEN tick_remain[t] - 1
                                       ELSE tick_remain[t]]
    /\ todo' = <<Item("tick", NULL, NULL, 0)>>
    /\ tick_isr' = "slice"
    /\ UNCHANGED <<task_state, prio, b_prio, alive, rq, sched_lock, tcbVars, rrVars,
                   blk_obj, blk_state, blk_list, tick_list, mutexVars, active,
                   preferred, pendsv, nested, pc, call, fatal>>

\* One round of the loop of tick_list_update (a task on the list that neither
\* sleeps nor pends is k_err_proc: here the section could not go on).
TickExpire ==
    LET t == Head(tick_list)
        due == tick_list # <<>> /\ tick_remain[t] <= 0
    IN
    /\ Doing("tick")
    /\ \/ /\ ~due
          /\ todo' = Tail(todo)
          /\ UNCHANGED <<task_state, rq, waitVars>>
       \/ /\ due
          /\ task_state[t] \in Sleeping
          /\ PendTaskWakeup(t, "BLK_FINISH")
          /\ UNCHANGED todo
       \/ /\ due
          /\ task_state[t] \in Pending
          /\ PendTaskWakeup(t, "BLK_TIMEOUT")
          /\ todo' = MutexTaskPriReset(t, blk_list') \o todo
    /\ UNCHANGED <<prio, b_prio, alive, sched_lock, tcbVars, rrVars, mutexVars,
                   cpuVars, pc, call, fatal>>

\* time_slice_update: only the head of the active task's priority list counts,
\* and only when the list holds another task.
TimeSliceUpdate ==
    LET p == prio[active]
        t == Head(rq.list[p])
        counts == Len(rq.list[p]) > 1 /\ sched_policy[t] # "KSCHED_FIFO"
    IN
    /\ InTickIsr("slice")
    /\ tick_isr' = "done"
    /\ \/ /\ ~counts
          /\ UNCHANGED <<rq, time_slice>>
       \/ /\ counts
          /\ time_slice' = [time_slice EXCEPT ![t] = IF @ > 1 THEN @ - 1 ELSE time_total[t]]
          /\ rq' = IF time_slice[t] > 1 THEN rq ELSE ReadyListHeadToTail(rq, p)
    /\ UNCHANGED <<task_state, prio, b_prio, alive, sched_lock, tcbVars, time_total,
                   sched_policy, waitVars, mutexVars, active, preferred, pendsv, nested,
                   ctlVars>>
-----------------------------------------------------------------------------
(* The rest of a critical section in progress.                              *)
Continue ==
    \/ TaskPriChange
    \/ MutexLockPend
    \/ MutexHandOver
    \/ DelWaiters
    \/ TaskMutexFree
    \/ TaskDelEnd
    \/ CancelCoreSched
    \/ TickExpire

MutexCall ==
    \E m \in Mutexes :
        \/ MutexCreate(m)
        \/ MutexLockNested(m)
        \/ MutexLockFree(m)
        \/ \E ticks \in Waits : MutexLockBusy(m, ticks)
        \/ MutexUnlockNested(m)
        \/ MutexUnlock(m)
        \/ MutexDel(m)

TaskCall ==
    \/ TaskYield
    \/ \E ticks \in Waits \ {FOREVER} : TaskSleep(ticks)
    \/ TaskPriChangeCall
    \/ \E t \in Tasks :
        \/ \E p \in NewPris, autorun \in BOOLEAN : TaskCreate(t, p, autorun)
        \/ TaskSuspend(t)
        \/ TaskResume(t)
        \/ \E p \in NewPris : TaskPriChangeCheck(t, p)
        \/ TaskWaitAbort(t)
        \/ TaskCancel(t)
        \/ TaskDel(t)
        \/ \E s \in TimeSlices : TaskTimeSliceSet(t, s)
        \/ \E policy \in {"KSCHED_FIFO", "KSCHED_RR"} : SchedPolicySet(t, policy)

Next ==
    \/ Continue
    \/ CoreSched
    \/ PendStateEndProc
    \/ PendSV
    \/ IdleLoop
    \/ IntrptEnter
    \/ TickEnter
    \/ IntrptExit
    \/ TickProc
    \/ TimeSliceUpdate
    \/ SchedDisable
    \/ SchedEnable
    \/ MutexCall
    \/ TaskCall

Spec == Init /\ [][Next]_vars
=============================================================================

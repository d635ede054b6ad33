------------------------------ MODULE RhinoObj ------------------------------
(***************************************************************************)
(* What the semaphores, queues and event flags of the kernel share: a      *)
(* blk_obj_t with a type, the tasks blocked on it, its creation and its    *)
(* deletion.  The memory of an object may be used again for an object of   *)
(* another kind.                                                           *)
(***************************************************************************)
EXTENDS RhinoProperties, FiniteSets

VARIABLE obj_type   \* blk_obj.obj_type of the objects that are not mutexes

Kinds == {"RHINO_SEM_OBJ_TYPE", "RHINO_QUEUE_OBJ_TYPE", "RHINO_BUF_QUEUE_OBJ_TYPE",
          "RHINO_EVENT_OBJ_TYPE"}
NONE == "RHINO_OBJ_TYPE_NONE"

Is(o, kind) == obj_type[o] = kind

\* The calls on one kind of object leave the rest of the core alone.
coreRest == <<prio, b_prio, alive, sched_lock, tcbVars, rrVars, mutexVars, cpuVars, fatal>>

\* xxx_create in memory that no call uses any more.
ObjCreate(o, kind) ==
    /\ o \notin alive /\ \A t \in Tasks : call[t] # o
    /\ alive' = alive \cup {o}
    /\ obj_type' = [obj_type EXCEPT ![o] = kind]
    /\ UNCHANGED <<task_state, prio, b_prio, rq, sched_lock, tcbVars, rrVars, waitVars,
                   mutexVars, cpuVars, ctlVars>>

\* Mutant: the waiters of a deleted object are forgotten.
ObjDel_NoWake(o, kind) ==
    /\ Is(o, kind)
    /\ alive' = alive \ {o}
    /\ obj_type' = [obj_type EXCEPT ![o] = NONE]
    /\ ExitSched
    /\ UNCHANGED <<task_state, prio, b_prio, rq, sched_lock, tcbVars, rrVars, waitVars,
                   mutexVars, cpuVars, todo, call, fatal>>

\* xxx_del and xxx_dyn_del; the waiters are woken in DelWaiters.
ObjDel(o, kind) ==
    /\ Is(o, kind)
    /\ alive' = alive \ {o}
    /\ obj_type' = [obj_type EXCEPT ![o] = NONE]
    /\ todo' = <<Item("del_waiters", NULL, o, 0)>>
    /\ ExitSched
    /\ UNCHANGED <<task_state, prio, b_prio, rq, sched_lock, tcbVars, rrVars, waitVars,
                   mutexVars, cpuVars, call, fatal>>

\* The first waiter has what it waits for.
ObjWakeFirst(o) ==
    /\ blk_list[o] # <<>>
    /\ PendTaskWakeup(Head(blk_list[o]), "BLK_FINISH")
    /\ ExitSched
    /\ UNCHANGED <<coreRest, todo, call, obj_type>>

\* A section that serves several waiters: "op" is the loop over them.
ObjLoop(o, op, first) ==
    /\ blk_list[o] # <<>>
    /\ todo' = <<Item(op, first, o, 0)>>
    /\ ExitSched
    /\ UNCHANGED <<dataVars, cpuVars, call, fatal, obj_type>>

\* One round of the loop that wakes them all.
ObjWakeNext(o) ==
    /\ \/ /\ blk_list[o] = <<>>
          /\ todo' = Tail(todo)
          /\ UNCHANGED <<task_state, rq, waitVars>>
       \/ /\ blk_list[o] # <<>>
          /\ PendTaskWakeup(Head(blk_list[o]), "BLK_FINISH")
          /\ UNCHANGED todo
    /\ UNCHANGED <<coreRest, pc, call, obj_type>>

\* A call that has to wait (a cancelled task was refused before).
ObjPend(o, ticks) ==
    /\ sched_lock = 0
    /\ PendToBlkObj(o, ticks)
    /\ UNCHANGED <<coreRest, todo, obj_type>>
-----------------------------------------------------------------------------
\* No task is left waiting for a deleted object: it would wait for ever.
NoWaiterOnDeadObject ==
    todo = <<>> => \A o \in Objs \ alive : blk_list[o] = <<>>
=============================================================================

---------------------------- MODULE RhinoInductive ----------------------------
(***************************************************************************)
(* An inductive invariant of the kernel core: what the steps of module     *)
(* RhinoKernel rely on without looking.  Module RhinoKernelProofs proves   *)
(* that it is inductive, for any number of tasks, mutexes and priorities.  *)
(***************************************************************************)
EXTENDS RhinoProperties

\* All tasks but the idle task.
AppTasks == Tasks \ {IdleTask}
AppPris  == 0..IdlePri - 1

\* The ready queue q fits the states st and the priorities pr of the tasks.
QueueExact(q, st, pr) ==
    /\ SoundQueue(q, Tasks, IdlePri)
    /\ \A p \in Pris, t \in Tasks :
          t \in ToSet(q.list[p]) <=> st[t] = "K_RDY" /\ pr[t] = p

\* The idle task is ready at the lowest priority, and alone there, so that
\* core_sched always finds a task.
IdleSound ==
    /\ task_state[IdleTask] = "K_RDY" /\ prio[IdleTask] = IdlePri
    /\ \A t \in AppTasks : prio[t] \in AppPris /\ b_prio[t] \in AppPris

\* PendSV switches to a ready task; the task on the CPU is ready unless it is
\* on its way into core_sched, and in any case while the scheduler is locked.
CpuSound ==
    /\ pendsv => task_state[preferred] = "K_RDY"
    /\ pendsv \/ task_state[active] = "K_RDY" \/ pc[active] \in {"sched", "blk"}
    /\ sched_lock = 0 \/ task_state[active] = "K_RDY"

\* The blocked lists fit the states st and the objects bo the tasks wait for.
BlkExact(lists, st, bo) ==
    /\ lists \in [Objs -> Seq(Tasks)]
    /\ \A o \in Objs :
          /\ IsInjective(lists[o])
          /\ \A t \in Tasks : t \in ToSet(lists[o]) <=> st[t] \in Pending /\ bo[t] = o

\* A pending task waits for what its call names; a mutex that is waited for has
\* an owner, and the idle task owns none.
PendSound ==
    /\ \A t \in Tasks : task_state[t] \in Pending =>
          /\ blk_obj[t] \in Objs /\ call[t] = blk_obj[t]
          /\ blk_obj[t] \in Mutexes \cap alive => mutex_task[blk_obj[t]] # NULL
    /\ \A m \in Mutexes : mutex_task[m] # IdleTask

\* krhino_task_pri_change passed its checks: not the idle task or priority.
CallSound ==
    \A t \in Tasks : Created(t) /\ pc[t] = "pri" => call[t] \in AppTasks \X AppPris

\* The work that is left of a critical section: priority changes come first,
\* the loop of task_mutex_free is before the end of krhino_task_del, and
\* everything else ends its section.
WorkItem(it) ==
    /\ it.op \in {"sem_wake", "queue_wake", "event_wake"} => it.obj \in Others
    /\ it.op = "pri_change" => it.task \in AppTasks /\ it.arg \in AppPris
    /\ it.op \in {"lock_pend", "hand_over"} => it.obj \in Mutexes
    /\ it.op = "lock_pend" => it.arg \in Waits
    /\ it.op = "del_waiters" => it.obj \in Objs
    /\ it.op = "mutex_free" => it.task \in AppTasks /\ it.arg \in Nat \ {0}
    /\ it.op = "del_end" => it.task \in AppTasks

\* The items of a rest td are sound and come in that order.
WorkList(td) ==
    \A i \in 1..Len(td) :
       /\ WorkItem(td[i])
       /\ i < Len(td) => td[i].op \in {"pri_change", "mutex_free"}
       /\ td[i].op = "mutex_free" => i + 1 = Len(td) /\ td[i + 1].op = "del_end"

\* What that work relies on: the section runs in the task that began it.
ItemSound(it) ==
    /\ it.op = "lock_pend" =>
          /\ it.obj \in alive /\ mutex_task[it.obj] # NULL
          /\ active # IdleTask /\ pc[active] = "run"
          /\ nested = 0 /\ ~pendsv /\ sched_lock = 0
    /\ it.op = "del_end" =>
          /\ nested = 0 /\ ~pendsv
          /\ it.task = active => sched_lock = 0

\* The rest of a critical section, and what each part of it relies on.
TodoSound ==
    /\ todo \in Seq(Items) /\ WorkList(todo)
    /\ \A it \in ToSet(todo) : ItemSound(it)

\* The inductive invariant of the core.
IInv ==
    /\ FieldsOK
    /\ QueueExact(rq, task_state, prio)
    /\ BlkExact(blk_list, task_state, blk_obj)
    /\ SuspendCountSound
    /\ IdleSound
    /\ CpuSound
    /\ PendSound
    /\ CallSound
    /\ TodoSound
=============================================================================

--------------------------- MODULE RhinoProperties ---------------------------
(***************************************************************************)
(* What makes the kernel core of module RhinoKernel correct.               *)
(***************************************************************************)
EXTENDS RhinoKernel

\* The parts that critical sections are made of (the last three are
\* those of modules RhinoSem, RhinoQueue and RhinoEvent).
Ops == {"pri_change", "lock_pend", "hand_over", "del_waiters", "mutex_free", "del_end",
        "tick", "core_sched", "sem_wake", "queue_wake", "event_wake"}
Items == [op : Ops, task : Tasks \cup {NULL}, obj : Objs \cup {NULL}, arg : Int]

\* Every variable has its type: the fields and counters ...
FieldsOK ==
    /\ task_state \in [Tasks -> TaskStates]
    /\ prio \in [Tasks -> Pris] /\ b_prio \in [Tasks -> Pris]
    /\ suspend_count \in [Tasks -> 0..MaxSuspend]
    /\ cancel \in [Tasks -> BOOLEAN]
    /\ blk_obj \in [Tasks -> Objs \cup {NULL}]
    /\ blk_state \in [Tasks -> {"BLK_FINISH", "BLK_ABORT", "BLK_TIMEOUT", "BLK_DEL"}]
    /\ time_slice \in [Tasks -> Nat] /\ time_total \in [Tasks -> Nat]
    /\ sched_policy \in [Tasks -> {"KSCHED_FIFO", "KSCHED_RR"}]
    /\ tick_remain \in [Tasks -> Int]
    /\ mutex_list \in [Tasks -> Seq(Mutexes)]
    /\ alive \subseteq Objs
    /\ mutex_task \in [Mutexes -> Tasks \cup {NULL}]
    /\ owner_nested \in [Mutexes -> 0..MaxNested]
    /\ tick_list \in Seq(Tasks)
    /\ sched_lock \in 0..MaxSchedLock
    /\ nested \in 0..MaxIntrpt /\ tick_isr \in {"no", "tick", "slice", "done"}
    /\ active \in Tasks /\ preferred \in Tasks /\ pendsv \in BOOLEAN
    /\ pc \in [Tasks -> {"run", "sched", "blk", "end", "pri"}]
    /\ call \in [Tasks -> Objs \cup {NULL} \cup (Tasks \X Pris)]
    /\ fatal \in BOOLEAN
    /\ held \in [Tasks -> [Mutexes -> Nat]]

\* ... and the lists.
TypeOK ==
    /\ FieldsOK
    /\ rq \in [list : [Pris -> Seq(Tasks)], highest_pri : Pris]
    /\ blk_list \in [Objs -> Seq(Tasks)]
    /\ todo \in Seq(Items)

\* The ready queue holds exactly the K_RDY tasks, each once and in the list of
\* its current priority, and highest_pri is the first non-empty list: what
\* core_sched and ready_list_rm rely on without looking.
ReadyQueueExact ==
    /\ \A p \in Pris :
          /\ IsInjective(rq.list[p])
          /\ \A t \in Tasks :
                t \in ToSet(rq.list[p]) <=> task_state[t] = "K_RDY" /\ prio[t] = p
    /\ rq.highest_pri = FindFirstBit(rq.list)

\* A task is on an object's blocked list, once, exactly while it pends on that
\* object, and the list is sorted by the priorities the tasks have NOW,
\* inherited priorities included: the head that is woken is the right one.
PendListExact ==
    \A o \in Objs :
       /\ IsInjective(blk_list[o])
       /\ \A t \in Tasks :
             t \in ToSet(blk_list[o]) <=> task_state[t] \in Pending /\ blk_obj[t] = o
       /\ \A i, j \in DOMAIN blk_list[o] :
             i < j => prio[blk_list[o][i]] <= prio[blk_list[o][j]]

\* Only sleeping and pending tasks are on the tick list, every sleeping task
\* is, the list is sorted by expiry, and between ticks nothing on it is due:
\* no timeout is lost however the wait of the task changes meanwhile.
TickListExact ==
    /\ IsInjective(tick_list)
    /\ \A t \in ToSet(tick_list) : task_state[t] \in Sleeping \cup Pending
    /\ \A t \in Tasks : task_state[t] \in Sleeping => t \in ToSet(tick_list)
    /\ \A i, j \in DOMAIN tick_list :
          i < j => tick_remain[tick_list[i]] <= tick_remain[tick_list[j]]
    /\ todo = <<>> => \A t \in ToSet(tick_list) : tick_remain[t] > 0

\* task->mutex_list and mutex->mutex_task agree between critical sections, and
\* a mutex without an owner has no waiters (mutex_task_pri_reset and
\* task_pri_change dereference the owner of any mutex with a waiter).
OwnershipExact ==
    todo = <<>> =>
       \A m \in Mutexes \cap alive :
          /\ \A t \in Tasks : Created(t) =>
                /\ m \in ToSet(mutex_list[t]) <=> mutex_task[m] = t
                /\ IsInjective(mutex_list[t])
          /\ mutex_task[m] # NULL => Created(mutex_task[m])
          /\ mutex_task[m] = NULL => blk_list[m] = <<>>

\* Between critical sections the priority of every task is the best of its own
\* and of all the tasks that wait for a mutex it holds: nothing is inherited
\* too little, and nothing is kept after the reason for it is gone.
InheritanceExact ==
    todo = <<>> =>
       \A t \in Tasks : Created(t) =>
          prio[t] = Min({b_prio[t]} \cup
                        {prio[w] : w \in {x \in Tasks :
                            /\ task_state[x] \in Pending
                            /\ blk_obj[x] \in Mutexes /\ mutex_task[blk_obj[x]] = t}})

\* A point where a task computes: nothing of the kernel is still to be done.
Computing == InTask /\ pc[active] \in {"run", "end", "pri"}

\* When a task computes and the scheduler is not locked, it is one of the
\* tasks of the highest ready priority: no call path forgets to reschedule.
NoMissedReschedule ==
    Computing /\ sched_lock = 0 =>
       active \in ToSet(rq.list[FindFirstBit(rq.list)])

\* The task PendSV is about to switch to is a task of the highest ready
\* priority, as the comments on g_preferred_ready_task say it is.
SwitchTargetIsHighest ==
    todo = <<>> /\ nested = 0 /\ pendsv =>
       preferred \in ToSet(rq.list[FindFirstBit(rq.list)])

\* A task computes only while it is ready.
RunningIsReady == Computing => task_state[active] = "K_RDY"

\* While a task waits for a mutex whose owner is ready to run, no task of a
\* lower priority than the waiter computes: the inversion that inheritance is
\* there to bound never lasts beyond the owner's own section.
NoPriorityInversion ==
    Computing /\ sched_lock = 0 =>
       \A w \in Tasks :
          (/\ task_state[w] \in Pending /\ blk_obj[w] \in Mutexes
           /\ task_state[mutex_task[blk_obj[w]]] = "K_RDY")
          => prio[active] <= prio[w]

\* A task that was told it has the mutex owns it, so two never think they do,
\* whatever timeouts, aborts, suspensions and deletions happen meanwhile.
MutualExclusion ==
    todo = <<>> =>
       \A t \in Tasks, m \in Mutexes : held[t][m] > 0 => mutex_task[m] = t

\* owner_nested counts the gets of the present owner, 1 while the call that
\* waited for the mutex has not returned: as many gives free it.
NestedCountExact ==
    todo = <<>> =>
       \A m \in Mutexes \cap alive : mutex_task[m] # NULL =>
          LET t == mutex_task[m]
          IN  owner_nested[m] = IF pc[t] \in {"blk", "end"} /\ call[t] = m THEN 1
                                ELSE held[t][m]

\* A suspended task has a suspension to undo, so task_resume never wraps the
\* counter, and it stops at the largest value.
SuspendCountSound ==
    \A t \in Tasks :
       task_state[t] \in {"K_SUSPENDED", "K_SLEEP_SUSPENDED", "K_PEND_SUSPENDED"}
       => suspend_count[t] \in 1..MaxSuspend
-----------------------------------------------------------------------------
(* What a step may never do.                                                *)

\* Only the tick, the waker, the aborter or the deleter of a wait ends it, and
\* none ends it twice: from the moment a task is told how its wait ended, until
\* it has returned from the call, that answer stands.
OneAnswerPerWait ==
    [][\A t \in Tasks :
         (/\ pc[t] \in {"blk", "end"} /\ pc'[t] \in {"blk", "end"}
          /\ task_state[t] \notin Pending \cup Sleeping)
         => /\ blk_state'[t] = blk_state[t]
            /\ task_state'[t] \notin Pending \cup Sleeping]_vars
-----------------------------------------------------------------------------
(* Progress.  A section that began ends, an interrupt handler ends, and the *)
(* exceptions that are pending are taken.  A task that is on the CPU gets on *)
(* with its call although ticks interrupt it again and again, and the timer *)
(* goes on ticking: strong fairness.  No task is obliged to make a call.    *)
FairSpec ==
    /\ Spec
    /\ WF_vars(Continue)
    /\ WF_vars(PendSV)
    /\ WF_vars(TickProc) /\ WF_vars(TimeSliceUpdate) /\ WF_vars(IntrptExit)
    /\ SF_vars(TickEnter)
    /\ SF_vars(CoreSched) /\ SF_vars(PendStateEndProc)

\* Every wait with a timeout, and every sleep, comes to an end, even of a task
\* that is suspended meanwhile or whose mutex changes hands.
TimedWaitEnds ==
    \A t \in Tasks : t \in ToSet(tick_list) ~> t \notin ToSet(tick_list)

\* Round robin: a ready task of the same priority as the running one gets the
\* CPU, unless it stops being ready, or the CPU goes to a KSCHED_FIFO task or
\* to one of a better priority.
EqualsShareCpu ==
    \A t, u \in Tasks :
       (task_state[t] = "K_RDY" /\ active = u /\ prio[t] = prio[u])
       ~> (\/ active = t \/ task_state[t] # "K_RDY"
           \/ prio[active] < prio[t] \/ sched_policy[active] = "KSCHED_FIFO")
=============================================================================

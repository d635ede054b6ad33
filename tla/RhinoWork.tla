------------------------------ MODULE RhinoWork ------------------------------
(***************************************************************************)
(* Work queues (k_workqueue.c) on the software timers: a call or, for a    *)
(* delayed work, the callback of its timer puts the work into the list of  *)
(* a work queue and gives its semaphore; the worker takes one token per    *)
(* work.  The critical section and the give are separate steps, between    *)
(* which every other task may run.  One work queue, the default one; its   *)
(* semaphore is used by what it promises (module RhinoSem).                *)
(***************************************************************************)
EXTENDS RhinoTimer

CONSTANTS
    Works,      \* the kwork_t structures, set up by krhino_work_init
    TimerOf,    \* the timer of each delayed work (dly > 0)
    MaxGives,   \* how many callers are between their section and their give
    Wq          \* g_workqueue_default

Delayed    == DOMAIN TimerOf
WorkTimers == {TimerOf[k] : k \in Delayed}
WorkOf(t)  == CHOOSE k \in Delayed : TimerOf[k] = t

ASSUME WorkAssumption ==
    /\ Delayed \subseteq Works
    /\ WorkTimers \subseteq Running \cap DynTimers
    /\ \A k, l \in Delayed : TimerOf[k] = TimerOf[l] => k = l
    /\ NULL \notin Works /\ Wq # NULL /\ MaxGives \in Nat \ {0}

VARIABLES
    work_list, work_current,    \* the fields of kworkqueue_t
    sem,                        \* the tokens of its semaphore
    work_exit, wq,              \* the fields of kwork_t: queued, and the queue
    wpc,                        \* where the worker is
    gives,                      \* callers that have yet to give the semaphore
    cancels,                    \* works whose krhino_work_cancel is half done
    cancelled                   \* history: cancelled, and not run again since

workVars == <<work_list, work_current, sem, work_exit, wq, wpc, gives, cancels, cancelled>>
allVars == <<timerVars, workVars>>

\* workqueue_init and krhino_work_init.
WorkInit ==
    /\ TimerInit
    /\ \A t \in WorkTimers : timer[t].round = 0
    /\ work_list = <<>> /\ work_current = NULL /\ sem = 0
    /\ work_exit = [k \in Works |-> 0] /\ wq = [k \in Works |-> NULL]
    /\ wpc = "take" /\ gives = 0 /\ cancels = {}
    /\ cancelled = [k \in Works |-> FALSE]

\* The section of krhino_work_run and of work_timer_cb.
Enqueue(k, queue_of) ==
    /\ work_list' = Append(work_list, k)
    /\ work_exit' = [work_exit EXCEPT ![k] = 1]
    /\ wq' = [wq EXCEPT ![k] = queue_of]

Idle(k) == work_current # k /\ work_exit[k] = 0

\* Mutant: a work that is queued already is put into the list again.
WorkRun_Queued(k) ==
    /\ k \notin Delayed /\ gives < MaxGives /\ work_current # k
    /\ Len(work_list) < 3
    /\ Enqueue(k, Wq)
    /\ gives' = gives + 1
    /\ cancelled' = [cancelled EXCEPT ![k] = FALSE]
    /\ UNCHANGED <<timerVars, work_current, sem, wpc, cancels>>

\* krhino_work_run of a work without delay, up to the end of its section.
WorkRun(k) ==
    /\ k \notin Delayed /\ gives < MaxGives
    /\ Idle(k)
    /\ Enqueue(k, Wq)
    /\ gives' = gives + 1
    /\ cancelled' = [cancelled EXCEPT ![k] = FALSE]
    /\ UNCHANGED <<timerVars, work_current, sem, wpc, cancels>>

\* ... and its give.
WorkGive ==
    /\ gives > 0
    /\ gives' = gives - 1 /\ sem' = sem + 1
    /\ UNCHANGED <<timerVars, work_list, work_current, work_exit, wq, wpc, cancels,
                   cancelled>>

\* krhino_work_run of a delayed work (an error when the queue is full).
WorkRunDelayed(k) ==
    /\ k \in Delayed
    /\ TimerCommand(Cmd("TIMER_ARG_CHG_AUTO", TimerOf[k], 0, Wq))
    /\ cancelled' = [cancelled EXCEPT ![k] = FALSE]
    /\ UNCHANGED <<work_list, work_current, sem, work_exit, wq, wpc, gives, cancels>>

\* Mutant: the semaphore is given for a work that is queued already, too.
WorkTimerCb_GiveAlways ==
    LET k == WorkOf(q)
    IN
    /\ Due /\ q \in WorkTimers
    /\ tpc' = "cb_give"
    /\ IF Idle(k) THEN Enqueue(k, timer[q].arg) ELSE UNCHANGED <<work_list, work_exit, wq>>
    /\ UNCHANGED <<timer, timer_list, queue, cmd, wait, q, lag,
                   work_current, sem, wpc, gives, cancels, cancelled>>

\* work_timer_cb in timer_task: a work that is queued or running is left alone.
WorkTimerCb ==
    LET k == WorkOf(q)
    IN
    /\ Due /\ q \in WorkTimers
    /\ \/ /\ ~Idle(k)
          /\ tpc' = "rearm"
          /\ UNCHANGED <<work_list, work_exit, wq>>
       \/ /\ Idle(k)
          /\ Enqueue(k, timer[q].arg)
          /\ tpc' = "cb_give"
    /\ UNCHANGED <<timer, timer_list, queue, cmd, wait, q, lag,
                   work_current, sem, wpc, gives, cancels, cancelled>>

WorkTimerGive ==
    /\ tpc = "cb_give"
    /\ tpc' = "rearm"
    /\ sem' = sem + 1
    /\ UNCHANGED <<timer, timer_list, queue, cmd, wait, q, lag, work_list, work_current,
                   work_exit, wq, wpc, gives, cancels, cancelled>>

\* worker_task: krhino_sem_take ...
WorkerTake ==
    /\ wpc = "take" /\ sem > 0
    /\ sem' = sem - 1 /\ wpc' = "got"
    /\ UNCHANGED <<timerVars, work_list, work_current, work_exit, wq, gives, cancels,
                   cancelled>>

\* Mutant: the mark that the work is queued is kept.
WorkerStart_KeepExit ==
    /\ wpc = "got" /\ work_list # <<>>
    /\ work_current' = Head(work_list) /\ work_list' = Tail(work_list)
    /\ wpc' = "run"
    /\ UNCHANGED <<timerVars, sem, wq, work_exit, gives, cancels, cancelled>>

\* ... the work at the head of the list, which it takes without looking ...
WorkerStart ==
    /\ wpc = "got" /\ work_list # <<>>
    /\ work_current' = Head(work_list) /\ work_list' = Tail(work_list)
    /\ work_exit' = [work_exit EXCEPT ![Head(work_list)] = 0]
    /\ wpc' = "run"
    /\ UNCHANGED <<timerVars, sem, wq, gives, cancels, cancelled>>

\* ... and the end of work->handle.
WorkerDone ==
    /\ wpc = "run"
    /\ work_current' = NULL /\ wpc' = "take"
    /\ UNCHANGED <<timerVars, work_list, sem, work_exit, wq, gives, cancels, cancelled>>

\* krhino_work_cancel reads work->wq without a lock.  NULL: the work was never
\* queued, and a timer is told to stop (its queue may be full).
WorkCancel(k) ==
    /\ k \notin cancels
    /\ \/ /\ wq[k] # NULL
          /\ cancels' = cancels \cup {k}
          /\ UNCHANGED <<timerVars, cancelled>>
       \/ /\ wq[k] = NULL
          /\ \/ k \in Delayed /\ TimerCommand(Cmd("TIMER_CMD_STOP", TimerOf[k], 0, NULL))
             \/ /\ k \in Delayed => tpc # "wait" /\ Len(queue) = MsgNum
                /\ UNCHANGED timerVars
          /\ cancelled' = [cancelled EXCEPT ![k] = TRUE]
          /\ UNCHANGED cancels
    /\ UNCHANGED <<work_list, work_current, sem, work_exit, wq, wpc, gives>>

\* Mutant: a work that is queued is reported as cancelled.
WorkCancelEnd_Queued(k) ==
    /\ k \in cancels
    /\ cancels' = cancels \ {k}
    /\ IF work_current # k
       THEN /\ wq' = [wq EXCEPT ![k] = NULL]
            /\ cancelled' = [cancelled EXCEPT ![k] = TRUE]
       ELSE UNCHANGED <<wq, cancelled>>
    /\ UNCHANGED <<timerVars, work_list, work_current, sem, work_exit, wpc, gives>>

\* Otherwise its section: RHINO_WORKQUEUE_WORK_RUNNING, RHINO_WORKQUEUE_WORK_EXIST
\* or success.
WorkCancelEnd(k) ==
    /\ k \in cancels
    /\ cancels' = cancels \ {k}
    /\ IF Idle(k)
       THEN /\ wq' = [wq EXCEPT ![k] = NULL]
            /\ cancelled' = [cancelled EXCEPT ![k] = TRUE]
       ELSE UNCHANGED <<wq, cancelled>>
    /\ UNCHANGED <<timerVars, work_list, work_current, sem, work_exit, wpc, gives>>

\* The steps of timer_task and of the worker, and of the calls in progress.
TimerTaskStep ==
    \/ TimerTask /\ UNCHANGED workVars
    \/ (\E t \in Timers \ WorkTimers : TimerCb(t)) /\ UNCHANGED workVars
    \/ WorkTimerCb
    \/ WorkTimerGive

WorkerStep == WorkerTake \/ WorkerStart \/ WorkerDone

WorkNext ==
    \/ TimerTaskStep
    \/ WorkerStep
    \/ WorkGive
    \/ Tick /\ UNCHANGED workVars
    \/ TimerCall /\ UNCHANGED workVars
    \/ \E k \in Works :
          \/ WorkRun(k)
          \/ WorkRunDelayed(k)
          \/ WorkCancel(k)
          \/ WorkCancelEnd(k)

\* Both tasks get the CPU again and again, handlers and callbacks end, a call
\* that began ends, and the timer ticks.  Nobody is obliged to make a call.
WorkSpec ==
    /\ WorkInit /\ [][WorkNext]_allVars
    /\ WF_allVars(TimerTaskStep) /\ WF_allVars(WorkerStep) /\ WF_allVars(WorkGive)
    /\ WF_allVars(Tick /\ UNCHANGED workVars)
-----------------------------------------------------------------------------
\* The worker that has a token finds a work: the tokens, the one it took and
\* the gives to come are as many as the works in the list.
TokensMatchWorks ==
    Len(work_list) = sem + gives + (IF wpc = "got" THEN 1 ELSE 0)
                         + (IF tpc = "cb_give" THEN 1 ELSE 0)

\* work_exit says whether the work is in the list; it is there once at most.
QueuedOnce ==
    /\ IsInjective(work_list)
    /\ \A k \in Works : work_exit[k] = 1 <=> k \in ToSet(work_list)

\* A work that is queued runs.
QueuedWorkRuns == \A k \in Works : work_exit[k] = 1 ~> work_current = k

\* A work without delay that was cancelled does not run until it is run again.
CancelHolds ==
    \A k \in Works \ Delayed : cancelled[k] => work_current # k /\ work_exit[k] = 0
=============================================================================

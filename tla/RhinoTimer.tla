------------------------------ MODULE RhinoTimer ------------------------------
(***************************************************************************)
(* Software timers (k_timer.c): the calls put commands into g_timer_queue, *)
(* and timer_task carries them out and calls the callbacks.  The queue is  *)
(* used by what it promises (module RhinoFifo): a command goes straight to *)
(* timer_task when it waits.  timer_task may be delayed for any number of  *)
(* ticks between any two of its steps.                                     *)
(*                                                                         *)
(* Time is relative.  "due" is timer->match - g_timer_count, and "lag" the *)
(* ticks that passed since g_timer_count was set; all values beyond the    *)
(* largest period act alike, so that an overdue timer is at -1 and lag     *)
(* stops at MaxTicks + 1.                                                  *)
(***************************************************************************)
EXTENDS Integers, Sequences, SequencesExt, FiniteSetsExt

CONSTANTS
    Timers,     \* the ktimer_t structures
    DynTimers,  \* the ones in memory from the heap (K_OBJ_DYN_ALLOC)
    NULL,
    MaxTicks,   \* the largest first or round ticks used
    Periods,    \* the <<first, round>> used
    Running,    \* the timers that are created before the system starts
    MsgNum,     \* RHINO_CONFIG_TIMER_MSG_NUM
    Cmds        \* the commands the application gives, see Cmd below

FOREVER == -1

ASSUME TimerAssumption ==
    /\ Running \subseteq Timers /\ DynTimers \subseteq Timers /\ NULL \notin Timers
    /\ MaxTicks \in Nat \ {0} /\ Periods \subseteq (1..MaxTicks) \X (0..MaxTicks)
    /\ MsgNum \in Nat \ {0}
    /\ \A c \in Cmds :
          /\ c.timer \in Timers
          /\ c.num = "TIMER_CMD_CHG" => c.first \in 1..MaxTicks /\ c.u \in 0..MaxTicks

VARIABLES
    timer,      \* obj_type # NONE (alive), timer_state (active), init_count,
                \* round_ticks, timer_cb_arg and due of each timer
    timer_list, \* g_timer_head
    queue,      \* g_timer_queue
    cmd,        \* cb_msg of timer_task
    tpc, wait,  \* where timer_task is, and the ticks its receive waits at most
    q,          \* the cursor of timer_cb_proc
    lag

timerVars == <<timer, timer_list, queue, cmd, tpc, wait, q, lag>>

\* A command: cb_num, timer, first and u (round or arg).
Cmd(num, t, first, u) == [num |-> num, timer |-> t, first |-> first, u |-> u]

NewTimer(period) ==
    [alive |-> TRUE, active |-> FALSE, first |-> period[1], round |-> period[2],
     arg |-> NULL, due |-> 0]

NoTimer == [NewTimer(<<1, 0>>) EXCEPT !.alive = FALSE]

\* ktimer_init, and the timers that were created already.
TimerInit ==
    /\ timer \in {f \in [Timers -> {NewTimer(p) : p \in Periods} \cup {NoTimer}] :
                    \A t \in Timers : f[t].alive <=> t \in Running}
    /\ timer_list = <<>> /\ queue = <<>>
    /\ cmd = NULL /\ tpc = "recv" /\ wait = FOREVER /\ q = NULL /\ lag = 0
-----------------------------------------------------------------------------
(* The list of active timers; st is the pair of timer and timer_list.       *)

\* Mutant: the timer is put at the end of the list.
TimerListPriInsert_Last(st, t, val) == Append(st.list, t)

\* timer_list_pri_insert: before the first timer whose match - g_timer_count,
\* an UNSIGNED difference, is larger: that of an overdue timer is very large.
TimerListPriInsert(st, t, val) ==
    LET larger == {i \in 1..Len(st.list) : \/ st.timer[st.list[i]].due > val
                                           \/ st.timer[st.list[i]].due < 0}
    IN  InsertAt(st.list, Min(larger \cup {Len(st.list) + 1}), t)

\* Active for val more ticks.
Arm(st, t, val) ==
    [timer |-> [st.timer EXCEPT ![t].active = TRUE, ![t].due = val],
     list |-> TimerListPriInsert(st, t, val)]

Disarm(st, t) ==
    [timer |-> [st.timer EXCEPT ![t].active = FALSE, ![t].due = 0],
     list |-> RemoveFirst(st.list, t)]

\* Mutant: a timer that is active is deleted as well.
CmdProc_DelActive(st, c, num) ==
    LET t == c.timer
    IN
    IF ~st.timer[t].alive THEN st
    ELSE IF num = "TIMER_CMD_STOP" THEN Disarm(st, t)
    ELSE IF num = "TIMER_CMD_DEL" /\ t \notin DynTimers
         THEN [st EXCEPT !.timer[t] = NoTimer]
    ELSE IF num = "TIMER_CMD_START" /\ ~st.timer[t].active
         THEN Arm(st, t, st.timer[t].first)
    ELSE st

\* cmd_proc: what a command does not apply to, it leaves as it is.
CmdProc(st, c, num) ==
    LET t == c.timer
        may(n) == num = n /\ st.timer[t].alive /\ ~st.timer[t].active
    IN
    CASE may("TIMER_CMD_START") -> Arm(st, t, st.timer[t].first)
      [] num = "TIMER_CMD_STOP" /\ st.timer[t].alive /\ st.timer[t].active -> Disarm(st, t)
      [] may("TIMER_CMD_CHG") -> [st EXCEPT !.timer[t].first = c.first, !.timer[t].round = c.u]
      [] may("TIMER_ARG_CHG") -> [st EXCEPT !.timer[t].arg = c.u]
      [] may("TIMER_CMD_DEL") /\ t \notin DynTimers -> [st EXCEPT !.timer[t] = NoTimer]
      [] may("TIMER_CMD_DYN_DEL") /\ t \in DynTimers -> [st EXCEPT !.timer[t] = NoTimer]
      [] OTHER -> st

\* timer_cmd_proc: the automatic change of the argument is three commands.
TimerCmdProc(st, c) ==
    IF c.num = "TIMER_ARG_CHG_AUTO"
    THEN CmdProc(CmdProc(CmdProc(st, c, "TIMER_CMD_STOP"), c, "TIMER_ARG_CHG"),
                 c, "TIMER_CMD_START")
    ELSE CmdProc(st, c, c.num)

Now == [timer |-> timer, list |-> timer_list]

Become(st) == timer' = st.timer /\ timer_list' = st.list

First(list) == IF list = <<>> THEN NULL ELSE Head(list)
-----------------------------------------------------------------------------
(* The calls, from any task or interrupt.                                   *)

\* krhino_buf_queue_send to g_timer_queue; refused when it is full.
Send(c) ==
    \/ /\ tpc = "wait"
       /\ cmd' = c /\ tpc' = "got"
       /\ UNCHANGED queue
    \/ /\ tpc # "wait" /\ Len(queue) < MsgNum
       /\ queue' = Append(queue, c)
       /\ UNCHANGED <<cmd, tpc>>

\* krhino_timer_start, stop, change, arg_change, arg_change_auto, del, dyn_del.
TimerCommand(c) ==
    /\ Send(c)
    /\ UNCHANGED <<timer, timer_list, wait, q, lag>>

\* krhino_timer_create and krhino_timer_dyn_create in memory that holds no timer.
\* When the queue is full the call returns the error of the start: the timer
\* exists nevertheless, except that one from the heap is freed again.
TimerCreate(t, period, auto_run) ==
    /\ ~timer[t].alive
    /\ timer' = [timer EXCEPT ![t] = NewTimer(period)]
    /\ \/ auto_run /\ Send(Cmd("TIMER_CMD_START", t, 0, NULL))
       \/ /\ auto_run => tpc # "wait" /\ Len(queue) = MsgNum /\ t \notin DynTimers
          /\ UNCHANGED <<queue, cmd, tpc>>
    /\ UNCHANGED <<timer_list, wait, q, lag>>
-----------------------------------------------------------------------------
(* timer_task.                                                              *)

\* krhino_buf_queue_recv, for ever or for at most "wait" ticks.
TimerRecv ==
    /\ tpc = "recv"
    /\ \/ /\ queue # <<>>
          /\ cmd' = Head(queue) /\ queue' = Tail(queue) /\ tpc' = "got"
       \/ /\ queue = <<>>
          /\ tpc' = "wait"
          /\ UNCHANGED <<cmd, queue>>
    /\ UNCHANGED <<timer, timer_list, wait, q, lag>>

\* g_timer_count becomes the present tick.
Sync ==
    /\ timer' = [t \in Timers |-> IF timer[t].active
                                  THEN [timer[t] EXCEPT !.due = Max({@ - lag, -1})]
                                  ELSE timer[t]]
    /\ lag' = 0

\* After the receive: tick_end is read and becomes g_timer_count.
TimerTickEnd ==
    /\ tpc \in {"got", "timeout"}
    /\ Sync
    /\ tpc' = IF tpc = "got" THEN "cmd" ELSE "cb"
    /\ q' = IF tpc = "got" THEN NULL ELSE First(timer_list)
    /\ UNCHANGED <<timer_list, queue, cmd, wait>>

\* The command; timer_cb_proc follows it only inside the inner loop.
TimerCmd ==
    /\ tpc = "cmd"
    /\ Become(TimerCmdProc(Now, cmd))
    /\ cmd' = NULL
    /\ tpc' = IF wait = FOREVER THEN "loop" ELSE "cb"
    /\ q' = IF wait = FOREVER THEN NULL ELSE First(timer_list')
    /\ UNCHANGED <<queue, wait, lag>>

\* Mutant: the head of the list is not looked at again.
TimerLoop_Forever ==
    /\ tpc = "loop"
    /\ tpc' = "recv" /\ wait' = FOREVER
    /\ UNCHANGED <<timer, lag, q, timer_list, queue, cmd>>

\* The head of the inner loop: tick_start is read.
TimerLoop ==
    LET delta == timer[Head(timer_list)].due - lag
    IN
    /\ tpc = "loop"
    /\ \/ /\ timer_list = <<>>
          /\ tpc' = "recv" /\ wait' = FOREVER
          /\ UNCHANGED <<timer, lag, q>>
       \/ /\ timer_list # <<>> /\ delta > 0
          /\ tpc' = "recv" /\ wait' = delta
          /\ UNCHANGED <<timer, lag, q>>
       \/ /\ timer_list # <<>> /\ delta <= 0
          /\ Sync
          /\ tpc' = "cb" /\ q' = Head(timer_list)
          /\ UNCHANGED wait
    /\ UNCHANGED <<timer_list, queue, cmd>>

Due == tpc = "cb" /\ q # NULL /\ timer[q].due <= 0

\* timer_cb_proc is over at the first timer that is not due.
TimerCbEnd ==
    /\ tpc = "cb" /\ ~Due
    /\ tpc' = "loop" /\ q' = NULL
    /\ UNCHANGED <<timer, timer_list, queue, cmd, wait, lag>>

\* The callback of an application's timer; whatever it does are calls.
TimerCb(t) ==
    /\ Due /\ q = t
    /\ tpc' = "rearm"
    /\ UNCHANGED <<timer, timer_list, queue, cmd, wait, q, lag>>

\* The place that follows t in a list, NULL at the end.
NextOf(list, t) ==
    LET i == CHOOSE k \in 1..Len(list) : list[k] = t
    IN  IF i = Len(list) THEN NULL ELSE list[i + 1]

\* timer_cb_proc after the callback: q->next is read from the timer where it
\* is now, or, when it is in no list any more, from where it was.
TimerRearm ==
    LET off == Disarm(Now, q)
    IN
    /\ tpc = "rearm"
    /\ \/ /\ timer[q].round > 0
          /\ Become(Arm(off, q, timer[q].round))
          /\ q' = NextOf(timer_list', q)
       \/ /\ timer[q].round = 0
          /\ Become(off)
          /\ q' = NextOf(timer_list, q)
    /\ tpc' = "cb"
    /\ UNCHANGED <<queue, cmd, wait, lag>>

\* The tick, which ends a receive with a timeout.
Tick ==
    /\ lag' = Min({lag + 1, MaxTicks + 1})
    /\ wait' = IF tpc = "wait" /\ wait # FOREVER THEN wait - 1 ELSE wait
    /\ tpc' = IF tpc = "wait" /\ wait = 1 THEN "timeout" ELSE tpc
    /\ UNCHANGED <<timer, timer_list, queue, cmd, q>>

\* All of timer_task but the callbacks.
TimerTask ==
    \/ TimerRecv
    \/ TimerTickEnd
    \/ TimerCmd
    \/ TimerLoop
    \/ TimerCbEnd
    \/ TimerRearm

TimerCall ==
    \/ \E c \in Cmds : TimerCommand(c)
    \/ \E t \in Timers, p \in Periods, auto_run \in BOOLEAN : TimerCreate(t, p, auto_run)
-----------------------------------------------------------------------------
\* The active timers are in the list, each once, and they exist: no timer is
\* deleted or armed again while the list goes through it, in whatever order
\* commands and expiries come.
TimerListExact ==
    /\ IsInjective(timer_list)
    /\ \A t \in Timers : t \in ToSet(timer_list) <=> timer[t].active
    /\ \A t \in Timers : timer[t].active => timer[t].alive

Sorted ==
    \A i, j \in 1..Len(timer_list) :
       i < j => timer[timer_list[i]].due <= timer[timer_list[j]].due

\* The list stays sorted by the time that remains as long as no timer in it is
\* overdue when another is armed; timer_list_pri_insert puts a timer before an
\* overdue one, because it compares unsigned.
OrderKept ==
    [][Sorted /\ (\A t \in ToSet(timer_list) : timer[t].due >= 0) => Sorted']_timerVars

Fires(t) == tpc = "rearm" /\ q = t

\* No timer is active for ever without firing: no command, no other timer and
\* no delay of timer_task makes it lose its turn, except when timers are
\* restarted by arg_change_auto for ever, each time in front of an overdue one.
ActiveTimerFires ==
    \A t \in Timers :
       []<>(\/ Fires(t) \/ ~timer[t].active
            \/ cmd # NULL /\ cmd.num = "TIMER_ARG_CHG_AUTO")
=============================================================================

----------------------------- MODULE RhinoEvent -----------------------------
(***************************************************************************)
(* Event flags (k_event.c): tasks wait for all or any of some flags, and   *)
(* may have them cleared; tasks and interrupts set flags.  A flag word is  *)
(* the set of its bits.                                                    *)
(***************************************************************************)
EXTENDS RhinoObj

CONSTANTS
    Flags,      \* the bits in use
    EventGets,  \* the requests made: <<flags, opt>>
    EventSets   \* the arguments of krhino_event_set: <<flags, opt>>

EventOpts == {"RHINO_AND", "RHINO_AND_CLEAR", "RHINO_OR", "RHINO_OR_CLEAR"}

ASSUME EventAssumption == EventGets \cup EventSets \subseteq (SUBSET Flags) \X EventOpts

VARIABLES
    flags,              \* kevent_t: flags
    pend,               \* task->pend_flags and task->pend_option, <<>> when not used
    cur_event_flags     \* the local variable of event_set, {} when not used

eventVars == <<flags, pend, cur_event_flags>>

EVENT == "RHINO_EVENT_OBJ_TYPE"

And(opt)     == opt \in {"RHINO_AND", "RHINO_AND_CLEAR"}
Clearing(opt) == opt \in {"RHINO_AND_CLEAR", "RHINO_OR_CLEAR"}

\* The condition of a request, with the flags f.
Met(req, f) == IF And(req[2]) THEN req[1] \subseteq f ELSE req[1] \cap f # {}

\* The event flags that exist when the system starts.
EventInit ==
    /\ flags \in {f \in [Others -> SUBSET Flags] : \A o \in Others : ~Is(o, EVENT) => f[o] = {}}
    /\ pend = [t \in Tasks |-> <<>>]
    /\ cur_event_flags = {}

EventCreate(e, f) ==
    /\ Calling("event_create")
    /\ ObjCreate(e, EVENT)
    /\ flags' = [flags EXCEPT ![e] = f]
    /\ UNCHANGED <<pend, cur_event_flags>>

EventDel(e) ==
    /\ Calling("event_del")
    /\ ObjDel(e, EVENT)
    /\ flags' = [flags EXCEPT ![e] = {}]
    /\ UNCHANGED <<pend, cur_event_flags>>

Getting(e) == Calling("event_get") /\ Is(e, EVENT) /\ ~cancel[active]

\* krhino_event_get of flags that are there.
EventGetNow(e, req) ==
    /\ Getting(e) /\ Met(req, flags[e])
    /\ flags' = [flags EXCEPT ![e] = IF Clearing(req[2]) THEN @ \ req[1] ELSE @]
    /\ UNCHANGED <<vars, obj_type, pend, cur_event_flags>>

\* Mutant: a request for any of some flags is tested as one for all of them.
EventGetPend_All(e, req, ticks) ==
    /\ Getting(e) /\ ~(req[1] \subseteq flags[e])
    /\ pend' = [pend EXCEPT ![active] = req]
    /\ ObjPend(e, ticks)
    /\ UNCHANGED <<flags, cur_event_flags>>

\* krhino_event_get that has to wait.
EventGetPend(e, req, ticks) ==
    /\ Getting(e) /\ ~Met(req, flags[e])
    /\ pend' = [pend EXCEPT ![active] = req]
    /\ ObjPend(e, ticks)
    /\ UNCHANGED <<flags, cur_event_flags>>

Setting(e) == (Calling("event_set") \/ InIsr("event_set")) /\ Is(e, EVENT)

\* event_set with RHINO_AND only takes flags away.
EventSetAnd(e, set) ==
    /\ Setting(e) /\ And(set[2])
    /\ flags' = [flags EXCEPT ![e] = @ \cap set[1]]
    /\ UNCHANGED <<vars, obj_type, pend, cur_event_flags>>

\* event_set with RHINO_OR; RHINO_CRITICAL_EXIT_SCHED also without waiters.
EventSetOr(e, set) ==
    /\ Setting(e) /\ ~And(set[2])
    /\ flags' = [flags EXCEPT ![e] = @ \cup set[1]]
    /\ \/ /\ ObjLoop(e, "event_wake", Head(blk_list[e]))
          /\ cur_event_flags' = flags'[e]
       \/ /\ blk_list[e] = <<>>
          /\ ExitSched
          /\ UNCHANGED <<dataVars, cpuVars, todo, call, fatal, obj_type, cur_event_flags>>
    /\ UNCHANGED pend

\* iter->next: the waiter after t, NULL at the end of the list.
After(e, t) ==
    LET i == CHOOSE k \in DOMAIN blk_list[e] : blk_list[e][k] = t
    IN  IF i = Len(blk_list[e]) THEN NULL ELSE blk_list[e][i + 1]

\* Mutant: every waiter is compared with what the waiters before it left.
EventWake_PresentFlags ==
    LET e == Head(todo).obj
        t == Head(todo).task
    IN
    /\ Doing("event_wake")
    /\ todo' = IF t = NULL THEN Tail(todo)
               ELSE <<Item("event_wake", After(e, t), e, 0)>> \o Tail(todo)
    /\ IF t # NULL /\ Met(pend[t], flags[e])
       THEN /\ PendTaskWakeup(t, "BLK_FINISH")
            /\ flags' = [flags EXCEPT ![e] = IF Clearing(pend[t][2]) THEN @ \ pend[t][1]
                                             ELSE @]
       ELSE UNCHANGED <<task_state, rq, waitVars, flags>>
    /\ cur_event_flags' = IF t = NULL THEN {} ELSE cur_event_flags
    /\ UNCHANGED <<coreRest, pc, call, obj_type, pend>>

\* One round of the loop of event_set over the waiters: iter is the task.
EventWake ==
    LET e == Head(todo).obj
        t == Head(todo).task
    IN
    /\ Doing("event_wake")
    /\ todo' = IF t = NULL THEN Tail(todo)
               ELSE <<Item("event_wake", After(e, t), e, 0)>> \o Tail(todo)
    /\ IF t # NULL /\ Met(pend[t], cur_event_flags)
       THEN /\ PendTaskWakeup(t, "BLK_FINISH")
            /\ flags' = [flags EXCEPT ![e] = IF Clearing(pend[t][2]) THEN @ \ pend[t][1]
                                             ELSE @]
       ELSE UNCHANGED <<task_state, rq, waitVars, flags>>
    /\ cur_event_flags' = IF t = NULL THEN {} ELSE cur_event_flags
    /\ UNCHANGED <<coreRest, pc, call, obj_type, pend>>

EventCall ==
    \/ EventWake
    \/ \E e \in Others :
        \/ \E f \in SUBSET Flags : EventCreate(e, f)
        \/ EventDel(e)
        \/ \E req \in EventGets :
              \/ EventGetNow(e, req)
              \/ \E ticks \in Waits : EventGetPend(e, req, ticks)
        \/ \E set \in EventSets : EventSetAnd(e, set) \/ EventSetOr(e, set)

\* A step of the core: the request of a call that is over is not read again.
EventCore ==
    /\ pend' = [t \in Tasks |-> IF call'[t] = NULL THEN <<>> ELSE pend[t]]
    /\ UNCHANGED <<flags, cur_event_flags>>
-----------------------------------------------------------------------------
\* No task waits for flags that are there, whatever sets, clearing gets,
\* timeouts and cancellations came in between.
NoSatisfiedWaiter ==
    todo = <<>> =>
       \A e \in Others : Is(e, EVENT) =>
          \A t \in ToSet(blk_list[e]) : ~Met(pend[t], flags[e])

\* event_set serves every waiter whose condition its flags met when it was
\* called, although waiters served before it had flags cleared: at the end of
\* the loop none of them is left.
SetServesAll ==
    Doing("event_wake") /\ Head(todo).task = NULL =>
       \A t \in ToSet(blk_list[Head(todo).obj]) : ~Met(pend[t], cur_event_flags)
=============================================================================

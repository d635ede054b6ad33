---------------------------- MODULE RhinoIpcProofs ----------------------------
(***************************************************************************)
(* The semaphores, queues and event flags on top of the kernel core: the   *)
(* invariants of the core hold for the composed specification too, and     *)
(* what a task waits for is never there while it waits.                    *)
(*                                                                         *)
(* The calls have a few forms, those of module RhinoObj; a form says what   *)
(* happens to the lists of the waiters (SettledBut), and that is all the    *)
(* invariants of the three kinds of objects need to know.                   *)
(*                                                                         *)
(* The tokens of the semaphores are counted with those that woken tasks     *)
(* have in their hands (Granted).  A step leaves these alone, hands one out *)
(* or takes one back; CancelSound is needed because a waiter that is handed *)
(* a token must not be told that it was cancelled, and the invariant of the *)
(* mutexes because it says where in its call a task is.                     *)
(***************************************************************************)
EXTENDS RhinoIpc, RhinoMutexProofs, FiniteSetTheorems

\* The work that the calls on semaphores, queues and event flags leave.
IpcOps == {"sem_wake", "queue_wake", "event_wake"}

\* An item of work about an object that is not a mutex.
LEMMA IpcItem ==
    ASSUME NEW op \in IpcOps \cup {"del_waiters"}, NEW t \in Tasks \cup {NULL},
           NEW o \in Others, NEW it, it = Item(op, t, o, 0)
    PROVE  /\ it \in Items /\ WorkItem(it) /\ it.op = op /\ it.obj = o /\ it.task = t
               /\ it.op # "mutex_free" /\ ItemSound(it)'
<1>1. it \in Items /\ it.op = op /\ it.obj = o /\ it.task = t
  <2>1. op \in Ops /\ o \in Objs \cup {NULL} /\ 0 \in Int
    BY DEF Ops, Objs, IpcOps
  <2> QED
    BY <2>1 DEF Item, Items
<1>2. o \in Objs
  BY DEF Objs
<1>3. WorkItem(it) /\ it.op # "mutex_free"
  BY <1>1, <1>2 DEF WorkItem, IpcOps
<1>4. ItemSound(it)'
  BY <1>1 DEF ItemSound, IpcOps
<1> QED
  BY <1>1, <1>3, <1>4

\* A section whose rest is one such item.
LEMMA IpcTodo ==
    ASSUME NEW op \in IpcOps \cup {"del_waiters"}, NEW t \in Tasks \cup {NULL},
           NEW o \in Others, NEW it, it = Item(op, t, o, 0), todo' = <<it>>
    PROVE  /\ TodoSound' /\ ToSet(todo') = {it}
           /\ it.op = op /\ it.obj = o /\ it.task = t
<1>1. /\ it \in Items /\ WorkItem(it) /\ it.op = op /\ it.obj = o /\ it.task = t
      /\ it.op # "mutex_free" /\ ItemSound(it)'
  BY IpcItem
<1>2. <<>> \in PriWork /\ <<it>> = <<>> \o <<it>>
  BY <1>1 DEF PriWork
<1>3. TodoSound'
  BY <1>1, <1>2, TodoBegin
<1>4. ToSet(<<it>>) = {it}
  BY <1>1, WorkEnd
<1> QED
  BY <1>1, <1>3, <1>4

\* A call that begins a section, or only ends in core_sched; it may create or
\* delete an object that is not a mutex.
LEMMA CallInv ==
    ASSUME IInv, ExitSched \/ UNCHANGED pc, alive' \subseteq Objs,
           alive' \cap Mutexes = alive \cap Mutexes, TodoSound',
           UNCHANGED <<task_state, prio, b_prio, rq, sched_lock, tcbVars, rrVars, waitVars,
                       mutexVars, cpuVars, call, fatal>>
    PROVE  IInv'
<1> USE DEF tcbVars, rrVars, waitVars, mutexVars, cpuVars
<1>1. /\ pc' \in [Tasks -> {"run", "sched", "blk", "end", "pri"}]
      /\ \A x \in Tasks : pc'[x] = pc[x] \/ (x = active /\ pc'[x] = "sched")
      /\ CallSound'
  BY ExitSound DEF IInv
<1>2. FieldsOK'
  BY <1>1 DEF IInv, FieldsOK
<1>3. CpuSound'
  BY <1>1 DEF IInv, FieldsOK, CpuSound
<1>4. PendSound'
  BY DEF IInv, PendSound
<1> QED
  BY <1>1, <1>2, <1>3, <1>4, Frames DEF IInv

\* A call that wakes a waiter.
LEMMA WakeInv ==
    ASSUME IInv, NEW t \in Tasks, task_state[t] \in Pending,
           PendTaskWakeup(t, "BLK_FINISH"), ExitSched \/ UNCHANGED pc, TodoSound',
           UNCHANGED <<coreRest, call>>
    PROVE  IInv' /\ WaitEnds(t)
<1> USE DEF coreRest, tcbVars, rrVars, mutexVars, cpuVars
<1>1. /\ Woken(t)
      /\ task_state' \in [Tasks -> TaskStates]
      /\ QueueExact(rq', task_state', prio')
      /\ BlkExact(blk_list', task_state', blk_obj')
      /\ SuspendCountSound' /\ IdleSound'
      /\ blk_obj' \in [Tasks -> Objs \cup {NULL}] /\ blk_state' \in [Tasks -> Reasons]
      /\ tick_list' \in Seq(Tasks) /\ tick_remain' \in [Tasks -> Int]
  BY WakeupSound DEF Reasons
<1>2. /\ CpuSound' /\ CallSound' /\ PendSound'
      /\ pc' \in [Tasks -> {"run", "sched", "blk", "end", "pri"}]
  BY <1>1, WokenSound
<1>3. FieldsOK'
  BY <1>1, <1>2 DEF IInv, FieldsOK, Reasons
<1>4. task_state[t] \in Timed
  BY DEF Timed
<1>5. WaitEnds(t)
  BY <1>4, WakeKind
<1> QED
  BY <1>1, <1>2, <1>3, <1>5 DEF IInv

\* A call that has to wait.
LEMMA PendInv ==
    ASSUME IInv, NEW c, Calling(c), NEW o \in Others, NEW ticks \in Waits, ObjPend(o, ticks)
    PROVE  IInv' /\ WaitBegins(o, ticks)
<1> USE DEF coreRest, tcbVars, rrVars, mutexVars, cpuVars
<1>1. /\ PendToBlkObj(o, ticks) /\ sched_lock = 0
      /\ UNCHANGED <<prio, b_prio, alive, sched_lock, tcbVars, rrVars, mutexVars,
                     cpuVars, fatal, todo>>
  BY DEF ObjPend
<1>2. /\ todo = <<>> /\ nested = 0 /\ ~pendsv /\ pc[active] = "run"
      /\ active \in AppTasks /\ active \in Tasks /\ task_state[active] = "K_RDY"
  BY Caller
<1>3. o \in Objs /\ o \notin Mutexes /\ ticks \in Int
  BY KernelAssumption DEF Objs, FOREVER
<1>4. /\ task_state' = [task_state EXCEPT ![active] = "K_PEND"]
      /\ rq' = ReadyListRm(rq, active, prio[active])
      /\ blk_list' = [blk_list EXCEPT ![o] = PendListAdd(@, active, prio)]
      /\ blk_obj' = [blk_obj EXCEPT ![active] = o]
      /\ TickListInsert(active, ticks)
      /\ pc' = [pc EXCEPT ![active] = "blk"]
      /\ call' = [call EXCEPT ![active] = o]
      /\ UNCHANGED blk_state
  BY <1>1 DEF PendToBlkObj
<1>5. /\ call' \in [Tasks -> Objs \cup {NULL} \cup (Tasks \X Pris)]
      /\ \A x \in Tasks : call'[x] = IF x = active THEN o ELSE call[x]
  <2>1. call \in [Tasks -> Objs \cup {NULL} \cup (Tasks \X Pris)]
    BY DEF IInv, FieldsOK
  <2> QED
    BY <1>2, <1>3, <1>4, <2>1
<1>6. /\ task_state' \in [Tasks -> TaskStates] /\ task_state'[active] = "K_PEND"
      /\ \A x \in Tasks : x # active => task_state'[x] = task_state[x]
      /\ pc' \in [Tasks -> {"run", "sched", "blk", "end", "pri"}]
      /\ QueueExact(rq', task_state', prio')
      /\ SuspendCountSound' /\ IdleSound' /\ CpuSound' /\ CallSound'
  BY <1>1, <1>2, <1>4, <1>5, BlockSound
<1>7. /\ blk_obj' \in [Tasks -> Objs \cup {NULL}]
      /\ \A x \in Tasks : blk_obj'[x] = IF x = active THEN o ELSE blk_obj[x]
  BY <1>2, <1>3, <1>4 DEF IInv, FieldsOK
<1>8. BlkExact(blk_list', task_state', blk_obj')
  <2>1. /\ BlkExact(blk_list, task_state, blk_obj)
        /\ task_state[active] \notin Pending /\ task_state'[active] \in Pending
        /\ \A x \in Tasks : x # active => /\ task_state'[x] = task_state[x]
                                          /\ blk_obj'[x] = blk_obj[x]
        /\ blk_obj'[active] = o
    BY <1>2, <1>6, <1>7 DEF IInv, Pending
  <2>2. o \in Objs
    BY <1>3
  <2>3. active \in Tasks
    BY <1>2
  <2>4. BlkExact([blk_list EXCEPT ![o] = PendListAdd(@, active, prio)], task_state', blk_obj')
    BY <2>1, <2>2, <2>3, BlkEnter, SMTT(30)
  <2> QED
    BY <1>4, <2>4
<1>9. tick_list' \in Seq(Tasks) /\ tick_remain' \in [Tasks -> Int]
  BY <1>2, <1>3, <1>4, TickInsertSound
<1>10. FieldsOK'
  BY <1>1, <1>4, <1>5, <1>6, <1>7, <1>9 DEF IInv, FieldsOK
<1>11. PendSound'
  BY <1>1, <1>3, <1>5, <1>6, <1>7 DEF IInv, PendSound
<1>12. TodoSound'
  BY <1>1, <1>2, TodoEmpty
<1>13. WaitBegins(o, ticks)
  BY <1>1, <1>2, <1>3, PendKind
<1> QED
  BY <1>6, <1>8, <1>10, <1>11, <1>12, <1>13 DEF IInv
-----------------------------------------------------------------------------
(* What the objects keep to.                                                *)

\* An object that does not exist has no waiters, or its deletion is about to
\* wake them.
ObjSound ==
    /\ obj_type \in [Others -> Kinds \cup {NONE}]
    /\ \A o \in Others : obj_type[o] = NONE <=> o \notin alive
    /\ \A o \in Objs \ alive :
          blk_list[o] = <<>> \/ \E it \in ToSet(todo) : it.op = "del_waiters" /\ it.obj = o

\* No token beside waiters, in the middle of a section either.
TokenSound ==
    /\ count \in [Others -> 0..MaxCount]
    /\ \A s \in Others : Is(s, SEM) /\ count[s] > 0 => blk_list[s] = <<>>

\* No message beside waiters.
MessageSound ==
    /\ cur_num \in [Others -> Nat]
    /\ \A q \in Others : IsQueue(q) /\ cur_num[q] > 0 => blk_list[q] = <<>>

\* No waiter whose request is met, unless event_set is about to serve it.
Looping(td) == \E it \in ToSet(td) : it.op = "event_wake"

\* Nobody who waits for an event has what it asked for.
Unmet(lists, pe, fl) ==
    \A e \in Others : Is(e, EVENT) => \A t \in ToSet(lists[e]) : ~Met(pe[t], fl[e])

\* The types of the variables of the event flags.
EventTypes ==
    /\ flags \in [Others -> SUBSET Flags]
    /\ pend \in [Tasks -> EventGets \cup {<<>>}]
    /\ cur_event_flags \in SUBSET Flags

\* Outside the loop of event_set nobody waits for flags that are there.
EventSound ==
    /\ EventTypes
    /\ ~Looping(todo) => Unmet(blk_list, pend, flags)

\* A step leaves an object, other than o, with its kind and no new waiters, or
\* it has none, or it does not exist.
SettledBut(o) ==
    \A x \in Others : x # o =>
       \/ obj_type'[x] = obj_type[x] /\ ToSet(blk_list'[x]) \subseteq ToSet(blk_list[x])
       \/ blk_list'[x] = <<>>
       \/ obj_type'[x] = NONE

\* Lists of tasks that are empty.
LEMMA EmptyList == ASSUME NEW s \in Seq(Tasks) PROVE s = <<>> <=> ToSet(s) = {}
<1>1. s # <<>> => Head(s) \in ToSet(s)
  BY TailSeq
<1>2. ToSet(<<>>) = {}
  BY DEF ToSet
<1> QED
  BY <1>1, <1>2

\* In such a step the tokens are still not beside waiters.
LEMMA TokenFrame ==
    ASSUME IInv, IInv', TokenSound, NEW o, SettledBut(o), UNCHANGED count,
           o \in Others => obj_type'[o] # SEM \/ count[o] = 0
    PROVE  TokenSound'
<1>1. \A x \in Others : blk_list[x] \in Seq(Tasks) /\ blk_list'[x] \in Seq(Tasks)
  BY DEF IInv, BlkExact, Objs
<1>2. ASSUME NEW s \in Others, obj_type'[s] = SEM, count[s] > 0 PROVE blk_list'[s] = <<>>
  <2>1. \/ obj_type'[s] = obj_type[s] /\ ToSet(blk_list'[s]) \subseteq ToSet(blk_list[s])
        \/ blk_list'[s] = <<>>
    BY <1>2 DEF SettledBut, SEM, NONE, TokenSound
  <2>2. CASE obj_type[s] = SEM /\ ToSet(blk_list'[s]) \subseteq ToSet(blk_list[s])
    <3>1. blk_list[s] = <<>>
      BY <1>2, <2>2 DEF TokenSound, Is
    <3> QED
      BY <1>1, <2>2, <3>1, EmptyList
  <2> QED
    BY <1>2, <2>1, <2>2
<1> QED
  BY <1>2 DEF TokenSound, Is

\* Nor the messages.
LEMMA MessageFrame ==
    ASSUME IInv, IInv', MessageSound, NEW o, SettledBut(o), UNCHANGED cur_num,
           o \in Others => obj_type'[o] \notin {QUEUE, BUF_QUEUE} \/ cur_num[o] = 0
    PROVE  MessageSound'
<1>1. \A x \in Others : blk_list[x] \in Seq(Tasks) /\ blk_list'[x] \in Seq(Tasks)
  BY DEF IInv, BlkExact, Objs
<1>2. ASSUME NEW s \in Others, obj_type'[s] \in {QUEUE, BUF_QUEUE}, cur_num[s] > 0
      PROVE  blk_list'[s] = <<>>
  <2>1. \/ obj_type'[s] = obj_type[s] /\ ToSet(blk_list'[s]) \subseteq ToSet(blk_list[s])
        \/ blk_list'[s] = <<>>
    BY <1>2 DEF SettledBut, QUEUE, BUF_QUEUE, NONE, MessageSound
  <2>2. CASE /\ obj_type[s] \in {QUEUE, BUF_QUEUE}
             /\ ToSet(blk_list'[s]) \subseteq ToSet(blk_list[s])
    <3>1. blk_list[s] = <<>>
      BY <1>2, <2>2 DEF MessageSound, IsQueue, Is
    <3> QED
      BY <1>1, <2>2, <3>1, EmptyList
  <2> QED
    BY <1>2, <2>1, <2>2
<1> QED
  BY <1>2 DEF MessageSound, IsQueue, Is

\* And the waiters for flags still wait for flags that are not there.
LEMMA EventFrame ==
    ASSUME IInv, IInv', EventSound, EventTypes', ~Looping(todo), NEW o, SettledBut(o),
           \A e \in Others : flags'[e] = flags[e],
           \A t \in Tasks : task_state'[t] \in Pending => pend'[t] = pend[t] \/ blk_obj'[t] = o,
           o \in Others /\ obj_type'[o] = EVENT
             => \A t \in ToSet(blk_list'[o]) : ~Met(pend'[t], flags[o])
    PROVE  EventSound'
<1>1. \A x \in Others : blk_list[x] \in Seq(Tasks) /\ blk_list'[x] \in Seq(Tasks)
  BY DEF IInv, BlkExact, Objs
<1>2. ASSUME NEW e \in Others, obj_type'[e] = EVENT, NEW t \in ToSet(blk_list'[e])
      PROVE  ~Met(pend'[t], flags'[e])
  <2>1. CASE e = o
    BY <1>2, <2>1
  <2>2. CASE e # o
    <3>1. t \in Tasks
      BY <1>1, MemberAt
    <3>2. task_state'[t] \in Pending /\ blk_obj'[t] = e
      BY <3>1, <1>2 DEF IInv, BlkExact, Objs
    <3>3. blk_list'[e] # <<>>
      BY <1>1, EmptyList
    <3>4. obj_type[e] = EVENT /\ t \in ToSet(blk_list[e])
      BY <1>2, <2>2, <3>3 DEF SettledBut, EVENT, NONE
    <3>5. ~Met(pend[t], flags[e])
      BY <3>4 DEF EventSound, Unmet, Is
    <3> QED
      BY <2>2, <3>1, <3>2, <3>5
  <2> QED
    BY <2>1, <2>2
<1> QED
  BY <1>2 DEF EventSound, Unmet, Is
-----------------------------------------------------------------------------
(* The forms of the calls.                                                  *)

\* What every form of a call but the loop of event_set makes sure of; a task may
\* begin to wait for o.
FormOK(o) ==
    /\ IInv' /\ Kind /\ SettledBut(o) /\ ObjSound'
    /\ ~Ticking(todo) /\ ~Looping(todo) /\ ~Looping(todo')

\* Nothing is left of a section.
LEMMA NoWork == ASSUME NEW td, td = <<>> PROVE ~Ticking(td) /\ ~Looping(td) /\ ToSet(td) = {}
BY DEF Ticking, Looping, ToSet

\* One item is left of it.
LEMMA OneWork ==
    ASSUME NEW td, NEW it, ToSet(td) = {it}, it.op \notin {"tick", "event_wake"}
    PROVE  ~Ticking(td) /\ ~Looping(td)
BY DEF Ticking, Looping

\* A call that changes the object's own fields only.
LEMMA QuietForm ==
    ASSUME IInv, ObjSound, todo = <<>>, UNCHANGED <<vars, obj_type>>
    PROVE  FormOK(NULL)
<1>1. IInv'
  BY StutterInv
<1>2. /\ blk_list' = blk_list /\ alive' = alive /\ todo' = todo
      /\ UNCHANGED <<waitVars, prio, task_state>>
  BY DEF vars, dataVars, waitVars, ctlVars
<1>3. Kind
  BY <1>2, QuietKind DEF Kind, CoreKind
<1>4. SettledBut(NULL) /\ ObjSound'
  BY <1>2 DEF SettledBut, ObjSound
<1> QED
  BY <1>1, <1>2, <1>3, <1>4, NoWork DEF FormOK

\* xxx_create: nobody waits for an object that did not exist.
LEMMA CreateForm ==
    ASSUME IInv, ObjSound, NEW c, Calling(c), NEW o \in Others, NEW kind \in Kinds,
           ObjCreate(o, kind)
    PROVE  FormOK(NULL) /\ blk_list'[o] = <<>> /\ obj_type'[o] = kind /\ UNCHANGED call
<1>1. /\ o \notin alive /\ alive' = alive \cup {o}
      /\ obj_type' = [obj_type EXCEPT ![o] = kind]
      /\ UNCHANGED <<task_state, prio, b_prio, rq, sched_lock, tcbVars, rrVars, waitVars,
                     mutexVars, cpuVars, ctlVars>>
  BY DEF ObjCreate
<1>2. todo = <<>> /\ todo' = <<>> /\ UNCHANGED <<pc, call, fatal>>
  BY <1>1, Caller DEF ctlVars
<1>3. o \in Objs /\ o \notin Mutexes
  BY KernelAssumption DEF Objs
<1>4. TodoSound'
  BY <1>2, TodoEmpty
<1>5. alive' \subseteq Objs /\ alive' \cap Mutexes = alive \cap Mutexes
  BY <1>1, <1>3, SMTT(30) DEF IInv, FieldsOK
<1>6. IInv'
  BY <1>1, <1>2, <1>4, <1>5, CallInv
<1>7. blk_list' = blk_list /\ blk_list[o] = <<>>
  BY <1>1, <1>2, <1>3, NoWork DEF ObjSound, waitVars
<1>8. /\ obj_type' \in [Others -> Kinds \cup {NONE}] /\ obj_type'[o] = kind
      /\ \A x \in Others : x # o => obj_type'[x] = obj_type[x]
  BY <1>1 DEF ObjSound
<1>9. kind # NONE
  BY DEF Kinds, NONE
<1>10. ObjSound'
  BY <1>1, <1>2, <1>7, <1>8, <1>9 DEF ObjSound
<1>11. SettledBut(NULL)
  BY <1>7, <1>8 DEF SettledBut
<1>12. Kind
  BY <1>1, QuietKind DEF Kind, CoreKind
<1> QED
  BY <1>2, <1>6, <1>7, <1>8, <1>10, <1>11, <1>12, NoWork DEF FormOK

\* xxx_del and xxx_dyn_del: the waiters are still to be woken.
LEMMA DelForm ==
    ASSUME IInv, ObjSound, NEW c, Calling(c), NEW o \in Others, NEW kind \in Kinds,
           ObjDel(o, kind)
    PROVE  FormOK(NULL) /\ obj_type'[o] = NONE /\ UNCHANGED call
<1>1. /\ alive' = alive \ {o} /\ obj_type' = [obj_type EXCEPT ![o] = NONE]
      /\ ExitSched
      /\ UNCHANGED <<task_state, prio, b_prio, rq, sched_lock, tcbVars, rrVars, waitVars,
                     mutexVars, cpuVars, call, fatal>>
  BY DEF ObjDel
<1>2. todo = <<>>
  BY Caller
<1>3. o \in Objs /\ o \notin Mutexes
  BY KernelAssumption DEF Objs
<1>4. PICK it : it = Item("del_waiters", NULL, o, 0) /\ todo' = <<it>>
  BY DEF ObjDel
<1>5. TodoSound' /\ ToSet(todo') = {it} /\ it.op = "del_waiters" /\ it.obj = o
  BY <1>4, IpcTodo
<1>6. alive' \subseteq Objs /\ alive' \cap Mutexes = alive \cap Mutexes
  BY <1>1, <1>3 DEF IInv, FieldsOK
<1>7. IInv'
  BY <1>1, <1>5, <1>6, CallInv
<1>8. blk_list' = blk_list /\ \A x \in Objs \ alive : blk_list[x] = <<>>
  BY <1>1, <1>2, NoWork DEF ObjSound, waitVars
<1>9. /\ obj_type' \in [Others -> Kinds \cup {NONE}] /\ obj_type'[o] = NONE
      /\ \A x \in Others : x # o => obj_type'[x] = obj_type[x]
  BY <1>1 DEF ObjSound
<1>10. ObjSound'
  BY <1>1, <1>5, <1>8, <1>9 DEF ObjSound
<1>11. SettledBut(NULL)
  BY <1>8, <1>9 DEF SettledBut
<1>12. Kind
  BY <1>1, QuietKind DEF Kind, CoreKind
<1>13. ~Ticking(todo) /\ ~Looping(todo) /\ ~Looping(todo')
  BY <1>2, <1>5, NoWork, OneWork
<1> QED
  BY <1>1, <1>7, <1>9, <1>10, <1>11, <1>12, <1>13 DEF FormOK

\* A wait for t ends: the lists lose t and no more.
LEMMA EndShrinks ==
    ASSUME IInv, IInv', NEW t \in Tasks, WaitEnds(t)
    PROVE  \A o \in Objs : ToSet(blk_list'[o]) \subseteq ToSet(blk_list[o])
<1> SUFFICES ASSUME NEW o \in Objs, NEW x \in ToSet(blk_list'[o]) PROVE x \in ToSet(blk_list[o])
  OBVIOUS
<1>1. blk_list[o] \in Seq(Tasks) /\ blk_list'[o] \in Seq(Tasks)
  BY DEF IInv, BlkExact
<1>2. x \in Tasks
  BY <1>1, MemberAt
<1>3. task_state'[x] \in Pending /\ blk_obj'[x] = o
  BY <1>2 DEF IInv, BlkExact
<1>4. x # t
  BY <1>3 DEF WaitEnds, Timed
<1>5. task_state[x] \in Pending /\ blk_obj[x] = o
  BY <1>2, <1>3, <1>4 DEF WaitEnds, LeaveWait, IInv, FieldsOK
<1> QED
  BY <1>2, <1>5 DEF IInv, BlkExact

\* Objects that do not exist get no waiters.
LEMMA DeadShrinks ==
    ASSUME IInv, IInv', ObjSound, UNCHANGED <<obj_type, alive>>,
           \A o \in Objs : ToSet(blk_list'[o]) \subseteq ToSet(blk_list[o]),
           \A it \in ToSet(todo) : it.op # "del_waiters"
    PROVE  ObjSound' /\ SettledBut(NULL)
<1>1. \A x \in Objs : blk_list[x] \in Seq(Tasks) /\ blk_list'[x] \in Seq(Tasks)
  BY DEF IInv, BlkExact
<1>2. ASSUME NEW o \in Objs \ alive PROVE blk_list'[o] = <<>>
  <2>1. blk_list[o] = <<>>
    BY DEF ObjSound
  <2> QED
    BY <1>1, <2>1, EmptyList
<1>3. ObjSound'
  BY <1>2 DEF ObjSound
<1>4. SettledBut(NULL)
  BY DEF SettledBut, Objs
<1> QED
  BY <1>3, <1>4

\* A section that consists of one loop.
LEMMA LoopItem ==
    ASSUME IInv, NEW op \in IpcOps, Doing(op)
    PROVE  /\ Tail(todo) = <<>> /\ ToSet(todo) = {Head(todo)} /\ todo = <<Head(todo)>>
           /\ Head(todo) \in Items /\ Head(todo).op = op /\ Head(todo).obj \in Others
           /\ WorkItem(Head(todo))
<1>1. /\ todo \in Seq(Items) /\ todo # <<>> /\ Head(todo) \in Items /\ Head(todo).op = op
      /\ WorkItem(Head(todo)) /\ Tail(todo) = <<>>
  BY DoingItem DEF IpcOps
<1>2. todo = <<Head(todo)>>
  BY <1>1, OneElement
<1>3. ToSet(<<Head(todo)>>) = {Head(todo)}
  BY <1>1, WorkEnd DEF IpcOps
<1>4. Head(todo).obj \in Others
  BY <1>1 DEF WorkItem, IpcOps
<1> QED
  BY <1>1, <1>2, <1>3, <1>4

\* The first waiter is woken.
LEMMA WakeFirstForm ==
    ASSUME IInv, ObjSound, todo = <<>>, NEW o \in Others, ObjWakeFirst(o)
    PROVE  FormOK(NULL) /\ UNCHANGED <<call, obj_type>>
<1>1. /\ blk_list[o] # <<>> /\ PendTaskWakeup(Head(blk_list[o]), "BLK_FINISH")
      /\ ExitSched /\ UNCHANGED <<coreRest, todo, call, obj_type>>
  BY DEF ObjWakeFirst
<1>2. o \in Objs
  BY DEF Objs
<1>3. PICK t \in Tasks : t = Head(blk_list[o]) /\ task_state[t] \in Pending
  BY <1>1, <1>2, BlkHead DEF IInv
<1>4. TodoSound'
  BY <1>1, TodoEmpty
<1>5. IInv' /\ WaitEnds(t)
  BY <1>1, <1>3, <1>4, WakeInv
<1>6. \A x \in Objs : ToSet(blk_list'[x]) \subseteq ToSet(blk_list[x])
  BY <1>5, EndShrinks
<1>7. UNCHANGED alive
  BY <1>1 DEF coreRest
<1>8. ObjSound' /\ SettledBut(NULL)
  BY <1>1, <1>5, <1>6, <1>7, NoWork, DeadShrinks
<1>9. Kind
  BY <1>5 DEF Kind, CoreKind
<1> QED
  BY <1>1, <1>5, <1>8, <1>9, NoWork DEF FormOK

\* The loop that wakes them all begins.
LEMMA LoopForm ==
    ASSUME IInv, ObjSound, todo = <<>>, NEW o \in Others, NEW op \in {"sem_wake", "queue_wake"},
           ObjLoop(o, op, NULL)
    PROVE  FormOK(NULL) /\ UNCHANGED <<call, obj_type>>
<1>1. ExitSched /\ UNCHANGED <<dataVars, cpuVars, call, fatal, obj_type>>
  BY DEF ObjLoop
<1>2. PICK it : it = Item(op, NULL, o, 0) /\ todo' = <<it>>
  BY DEF ObjLoop
<1>3. op \in IpcOps \cup {"del_waiters"}
  BY DEF IpcOps
<1>4. TodoSound' /\ ToSet(todo') = {it} /\ it.op = op
  BY <1>2, <1>3, IpcTodo
<1>5. /\ UNCHANGED <<task_state, prio, b_prio, alive, rq, sched_lock, tcbVars, rrVars, waitVars,
                     mutexVars>>
      /\ UNCHANGED blk_list /\ alive \subseteq Objs
  BY <1>1 DEF dataVars, waitVars, IInv, FieldsOK
<1>6. IInv'
  BY <1>1, <1>4, <1>5, CallInv
<1>7. ObjSound' /\ SettledBut(NULL)
  BY <1>1, <1>5, <1>6, NoWork, DeadShrinks
<1>8. Kind
  BY <1>5, QuietKind DEF Kind, CoreKind
<1>9. ~Ticking(todo) /\ ~Looping(todo) /\ ~Looping(todo')
  BY <1>4, NoWork, OneWork
<1> QED
  BY <1>1, <1>6, <1>7, <1>8, <1>9 DEF FormOK

\* A round of it.
LEMMA WakeNextForm ==
    ASSUME IInv, ObjSound, NEW op \in {"sem_wake", "queue_wake"}, Doing(op),
           ObjWakeNext(Head(todo).obj)
    PROVE  FormOK(NULL) /\ UNCHANGED <<call, obj_type>>
<1>1. UNCHANGED <<coreRest, pc, call, obj_type, alive>>
  BY DEF ObjWakeNext, coreRest
<1>2. op \in IpcOps
  BY DEF IpcOps
<1>3. /\ Tail(todo) = <<>> /\ ToSet(todo) = {Head(todo)} /\ Head(todo).op = op
      /\ Head(todo).obj \in Others
  BY <1>2, LoopItem
<1>4. ~Ticking(todo) /\ ~Looping(todo) /\ \A it \in ToSet(todo) : it.op # "del_waiters"
  BY <1>3, OneWork
<1>5. PICK o \in Others : o = Head(todo).obj
  BY <1>3
<1>6. o \in Objs
  BY DEF Objs
<1>7. CASE blk_list[o] = <<>>
  <2>1. todo' = <<>> /\ UNCHANGED <<task_state, rq, waitVars>>
    BY <1>3, <1>5, <1>7 DEF ObjWakeNext
  <2>2. UNCHANGED <<blk_list, prio>> /\ alive \subseteq Objs
    BY <1>1, <2>1 DEF waitVars, coreRest, IInv, FieldsOK
  <2>3. IInv'
    BY <1>1, <2>1, <2>2, TodoEmpty, CallInv DEF coreRest
  <2>4. ObjSound' /\ SettledBut(NULL)
    BY <1>1, <1>4, <2>2, <2>3, DeadShrinks
  <2>5. Kind
    BY <2>1, <2>2, QuietKind DEF Kind, CoreKind
  <2> QED
    BY <1>1, <1>4, <2>1, <2>3, <2>4, <2>5, NoWork DEF FormOK
<1>8. CASE blk_list[o] # <<>>
  <2>1. PendTaskWakeup(Head(blk_list[o]), "BLK_FINISH") /\ UNCHANGED todo
    BY <1>5, <1>8 DEF ObjWakeNext
  <2>2. PICK t \in Tasks : t = Head(blk_list[o]) /\ task_state[t] \in Pending
    BY <1>6, <1>8, BlkHead DEF IInv
  <2>3. TodoSound'
    BY <1>1, <2>1, Frames DEF coreRest, mutexVars, cpuVars
  <2>4. IInv' /\ WaitEnds(t)
    BY <1>1, <2>1, <2>2, <2>3, WakeInv
  <2>5. \A x \in Objs : ToSet(blk_list'[x]) \subseteq ToSet(blk_list[x])
    BY <2>4, EndShrinks
  <2>6. ObjSound' /\ SettledBut(NULL)
    BY <1>1, <1>4, <2>4, <2>5, DeadShrinks
  <2>7. Kind
    BY <2>4 DEF Kind, CoreKind
  <2> QED
    BY <1>1, <1>4, <2>1, <2>4, <2>6, <2>7 DEF FormOK
<1> QED
  BY <1>7, <1>8

\* A call waits for o, which exists.
LEMMA PendForm ==
    ASSUME IInv, ObjSound, NEW c, Calling(c), NEW o \in Others, obj_type[o] # NONE,
           NEW ticks \in Waits, ObjPend(o, ticks)
    PROVE  /\ FormOK(o) /\ UNCHANGED obj_type
           /\ \A t \in Tasks : t # active => call'[t] = call[t]
           /\ \A t \in ToSet(blk_list'[o]) : t = active \/ t \in ToSet(blk_list[o])
           /\ \A t \in Tasks : task_state'[t] \in Pending /\ blk_obj'[t] # o => t # active
<1>1. IInv' /\ WaitBegins(o, ticks)
  BY PendInv
<1>2. /\ PendToBlkObj(o, ticks) /\ UNCHANGED <<coreRest, todo, obj_type, alive>>
  BY DEF ObjPend, coreRest
<1>3. todo = <<>> /\ active \in Tasks
  BY Caller
<1>4. o \in Objs /\ o # NULL
  BY Constants, SMTT(30) DEF Objs
<1>5. /\ \A x \in Objs : blk_list[x] \in Seq(Tasks) /\ blk_list'[x] \in Seq(Tasks)
      /\ \A x \in Objs : x # o => blk_list'[x] = blk_list[x]
      /\ \A t \in Tasks : t # active => /\ call'[t] = call[t] /\ blk_obj'[t] = blk_obj[t]
                                        /\ task_state'[t] = task_state[t]
      /\ blk_obj'[active] = o
  BY <1>1, <1>2, <1>3 DEF PendToBlkObj, IInv, BlkExact, FieldsOK
<1>6. o \in alive
  BY DEF ObjSound
<1>7. ObjSound'
  BY <1>2, <1>5, <1>6 DEF ObjSound
<1>8. SettledBut(o)
  BY <1>2, <1>5 DEF SettledBut, Objs
<1>9. Kind
  BY <1>1, <1>4 DEF Kind
<1>10. ASSUME NEW t \in ToSet(blk_list'[o]), t # active PROVE t \in ToSet(blk_list[o])
  <2>1. t \in Tasks
    BY <1>4, <1>5, MemberAt
  <2>2. task_state'[t] \in Pending /\ blk_obj'[t] = o
    BY <1>1, <1>4, <2>1 DEF IInv, BlkExact
  <2> QED
    BY <1>4, <1>5, <1>10, <2>1, <2>2 DEF IInv, BlkExact
<1> QED
  BY <1>1, <1>2, <1>3, <1>5, <1>7, <1>8, <1>9, <1>10, NoWork DEF FormOK
-----------------------------------------------------------------------------
(* The invariant, and the calls on semaphores and queues.                   *)

\* The loop of event_set is at position k of the list l, which is where the
\* task x is, or at its end; the waiters before that are not met by f.
Served(l, x, pe, f) ==
    \E k \in 1..Len(l) + 1 :
       /\ IF k = Len(l) + 1 THEN x = NULL ELSE x = l[k]
       /\ \A i \in 1..Len(l) : i < k => ~Met(pe[l[i]], f)

\* In the loop of event_set: it is all that is left of the section, no flag
\* comes back that was there at its start, and the waiters it has passed were
\* rightly passed.
LoopSound ==
    \A it \in ToSet(todo) : it.op = "event_wake" =>
       /\ todo = <<it>>
       /\ flags[it.obj] \subseteq cur_event_flags
       /\ Served(blk_list[it.obj], it.task, pend, cur_event_flags)
       /\ \A e \in Others : e # it.obj /\ Is(e, EVENT) =>
             \A t \in ToSet(blk_list[e]) : ~Met(pend[t], flags[e])

\* The invariant of the composition.
IpcIInv ==
    /\ WaitIInv
    /\ ObjSound
    /\ TokenSound
    /\ MessageSound
    /\ EventSound
    /\ LoopSound

\* What every form leaves true.
LEMMA FormStep ==
    ASSUME IpcIInv, NEW o, FormOK(o)
    PROVE  /\ WaitIInv' /\ ObjSound' /\ LoopSound' /\ SettledBut(o) /\ IInv /\ IInv'
           /\ ~Looping(todo)
<1>1. /\ WaitIInv /\ IInv' /\ Kind /\ SettledBut(o) /\ ObjSound'
      /\ ~Ticking(todo) /\ ~Looping(todo) /\ ~Looping(todo')
  BY DEF IpcIInv, FormOK
<1>2. WaitIInv'
  BY <1>1, WaitStep
<1>3. LoopSound'
  BY <1>1 DEF Looping, LoopSound
<1> QED
  BY <1>1, <1>2, <1>3 DEF WaitIInv

\* A call on a semaphore leaves the queues and the event flags alone.
LEMMA SemForm ==
    ASSUME IpcIInv, NEW o, FormOK(o), o \in Others => obj_type'[o] = SEM, TokenSound',
           UNCHANGED <<queueVars, eventVars>>
    PROVE  IpcIInv'
<1> USE DEF queueVars, eventVars
<1>1. /\ WaitIInv' /\ ObjSound' /\ LoopSound' /\ SettledBut(o) /\ IInv /\ IInv'
      /\ ~Looping(todo)
  BY FormStep
<1>2. o \in Others => obj_type'[o] \notin {QUEUE, BUF_QUEUE, EVENT}
  BY DEF SEM, QUEUE, BUF_QUEUE, EVENT
<1>3. MessageSound'
  BY <1>1, <1>2, MessageFrame DEF IpcIInv
<1>4. EventTypes'
  BY DEF IpcIInv, EventSound, EventTypes
<1>5. EventSound'
  BY <1>1, <1>2, <1>4, EventFrame DEF IpcIInv
<1> QED
  BY <1>1, <1>3, <1>5 DEF IpcIInv

\* Tasks and interrupts make calls between sections only.
LEMMA Between ==
    ASSUME IpcIInv
    PROVE  /\ \A c, s : Giving(c, s) => todo = <<>>
           /\ \A c, q : Sending(c, q) => todo = <<>>
           /\ \A q : Receiving(q) => todo = <<>>
           /\ \A e : Setting(e) => todo = <<>>
           /\ \A c : Calling(c) => todo = <<>>
BY DEF Giving, Sending, Receiving, Setting, Calling, InTask, InIsr

\* krhino_sem_create, krhino_sem_del and krhino_sem_count_set.
LEMMA SemAdmin ==
    ASSUME IpcIInv, UNCHANGED <<queueVars, eventVars>>, NEW s \in Others,
           SemDel(s) \/ \E n \in SemCounts : SemCreate(s, n) \/ SemCountSet(s, n)
    PROVE  IpcIInv'
<1>1. IInv /\ ObjSound /\ TokenSound /\ SEM \in Kinds
  BY DEF IpcIInv, WaitIInv, SEM, Kinds
<1>2. NULL \notin Others /\ SemCounts \subseteq 0..MaxCount /\ MaxCount \in Nat
  BY SemAssumption, KernelAssumption
<1>3. ASSUME NEW n \in SemCounts, SemCreate(s, n) PROVE IpcIInv'
  <2>1. /\ Calling("sem_create") /\ ObjCreate(s, SEM) /\ count' = [count EXCEPT ![s] = n]
    BY <1>3 DEF SemCreate
  <2>2. FormOK(NULL) /\ blk_list'[s] = <<>>
    BY <1>1, <2>1, CreateForm
  <2>3. obj_type' = [obj_type EXCEPT ![s] = SEM] /\ UNCHANGED blk_list
    BY <2>1 DEF ObjCreate, waitVars
  <2>4. TokenSound'
    BY <1>1, <1>2, <2>1, <2>2, <2>3 DEF TokenSound, Is, ObjSound
  <2> QED
    BY <1>2, <2>2, <2>4, SemForm
<1>4. CASE SemDel(s)
  <2>1. Calling("sem_del") /\ ObjDel(s, SEM) /\ UNCHANGED count
    BY <1>4 DEF SemDel
  <2>2. FormOK(NULL)
    BY <1>1, <2>1, DelForm
  <2>3. SettledBut(NULL) /\ IInv'
    BY <2>2 DEF FormOK
  <2>4. TokenSound'
    BY <1>1, <1>2, <2>1, <2>3, TokenFrame
  <2> QED
    BY <1>2, <2>2, <2>4, SemForm
<1>5. ASSUME NEW n \in SemCounts, SemCountSet(s, n) PROVE IpcIInv'
  <2>1. /\ todo = <<>> /\ Is(s, SEM) /\ (count[s] > 0 \/ blk_list[s] = <<>>)
        /\ count' = [count EXCEPT ![s] = n] /\ UNCHANGED <<vars, obj_type>>
    BY <1>5, Between DEF SemCountSet
  <2>2. FormOK(NULL)
    BY <1>1, <2>1, QuietForm
  <2>3. UNCHANGED <<blk_list, obj_type>>
    BY <2>1 DEF vars, dataVars, waitVars
  <2>4. TokenSound'
    BY <1>1, <1>2, <2>1, <2>3 DEF TokenSound, Is
  <2> QED
    BY <1>2, <2>2, <2>4, SemForm
<1> QED
  BY <1>3, <1>4, <1>5

\* krhino_sem_give and krhino_sem_give_all.
LEMMA SemGive ==
    ASSUME IpcIInv, UNCHANGED <<queueVars, eventVars>>, NEW s \in Others,
           SemGiveCount(s) \/ SemGiveOne(s) \/ SemGiveAll(s) \/ SemWake
    PROVE  IpcIInv'
<1>1. IInv /\ ObjSound /\ TokenSound
  BY DEF IpcIInv, WaitIInv
<1>2. NULL \notin Others /\ MaxCount \in Nat
  BY SemAssumption, KernelAssumption
<1>3. CASE SemGiveCount(s)
  <2>1. /\ todo = <<>> /\ blk_list[s] = <<>> /\ count[s] < MaxCount
        /\ count' = [count EXCEPT ![s] = @ + 1] /\ UNCHANGED <<vars, obj_type>>
    BY <1>3, Between DEF SemGiveCount
  <2>2. FormOK(NULL)
    BY <1>1, <2>1, QuietForm
  <2>3. UNCHANGED <<blk_list, obj_type>>
    BY <2>1 DEF vars, dataVars, waitVars
  <2>4. TokenSound'
    BY <1>1, <1>2, <2>1, <2>3 DEF TokenSound, Is
  <2> QED
    BY <1>2, <2>2, <2>4, SemForm
<1>4. CASE SemGiveOne(s) \/ SemGiveAll(s) \/ SemWake
  <2>1. UNCHANGED count
    BY <1>4 DEF SemGiveOne, SemGiveAll, SemWake
  <2>2. FormOK(NULL)
    <3>1. CASE SemGiveOne(s)
      <4>1. todo = <<>> /\ ObjWakeFirst(s)
        BY <3>1, Between DEF SemGiveOne
      <4> QED
        BY <1>1, <4>1, WakeFirstForm
    <3>2. CASE SemGiveAll(s)
      <4>1. todo = <<>> /\ ObjLoop(s, "sem_wake", NULL)
        BY <3>2, Between DEF SemGiveAll
      <4> QED
        BY <1>1, <4>1, LoopForm
    <3>3. CASE SemWake
      <4>1. Doing("sem_wake") /\ ObjWakeNext(Head(todo).obj)
        BY <3>3 DEF SemWake
      <4> QED
        BY <1>1, <4>1, WakeNextForm
    <3> QED
      BY <1>4, <3>1, <3>2, <3>3
  <2>3. SettledBut(NULL) /\ IInv'
    BY <2>2 DEF FormOK
  <2>4. TokenSound'
    BY <1>1, <1>2, <2>1, <2>3, TokenFrame
  <2> QED
    BY <1>2, <2>2, <2>4, SemForm
<1> QED
  BY <1>3, <1>4

\* krhino_sem_take.
LEMMA SemTake ==
    ASSUME IpcIInv, UNCHANGED <<queueVars, eventVars>>, NEW s \in Others,
           SemTakeCount(s) \/ \E ticks \in Waits : SemTakePend(s, ticks)
    PROVE  IpcIInv'
<1>1. IInv /\ ObjSound /\ TokenSound
  BY DEF IpcIInv, WaitIInv
<1>2. NULL \notin Others /\ MaxCount \in Nat
  BY SemAssumption, KernelAssumption
<1>3. Calling("sem_take") /\ todo = <<>> /\ obj_type[s] = SEM
  BY Between DEF SemTakeCount, SemTakePend, Taking, Is
<1>4. CASE SemTakeCount(s)
  <2>1. /\ count[s] > 0 /\ count' = [count EXCEPT ![s] = @ - 1]
        /\ UNCHANGED <<vars, obj_type>>
    BY <1>4 DEF SemTakeCount
  <2>2. FormOK(NULL)
    BY <1>1, <1>3, <2>1, QuietForm
  <2>3. UNCHANGED <<blk_list, obj_type>>
    BY <2>1 DEF vars, dataVars, waitVars
  <2>4. TokenSound'
    BY <1>1, <1>2, <2>1, <2>3 DEF TokenSound, Is
  <2> QED
    BY <1>2, <2>2, <2>4, SemForm
<1>5. ASSUME NEW ticks \in Waits, SemTakePend(s, ticks) PROVE IpcIInv'
  <2>1. count[s] = 0 /\ ObjPend(s, ticks) /\ UNCHANGED count
    BY <1>5 DEF SemTakePend
  <2>2. FormOK(s) /\ UNCHANGED obj_type
    BY <1>1, <1>3, <2>1, PendForm DEF SEM, NONE
  <2>3. SettledBut(s) /\ IInv'
    BY <2>2 DEF FormOK
  <2>4. TokenSound'
    BY <1>1, <2>1, <2>3, TokenFrame
  <2> QED
    BY <1>3, <2>2, <2>4, SemForm
<1> QED
  BY <1>4, <1>5

\* A call on a queue leaves the semaphores and the event flags alone.
LEMMA QueueForm ==
    ASSUME IpcIInv, NEW o, FormOK(o), o \in Others => obj_type'[o] \in {QUEUE, BUF_QUEUE},
           MessageSound', UNCHANGED <<count, eventVars>>
    PROVE  IpcIInv'
<1> USE DEF eventVars
<1>1. /\ WaitIInv' /\ ObjSound' /\ LoopSound' /\ SettledBut(o) /\ IInv /\ IInv'
      /\ ~Looping(todo)
  BY FormStep
<1>2. o \in Others => obj_type'[o] \notin {SEM, EVENT}
  BY DEF SEM, QUEUE, BUF_QUEUE, EVENT
<1>3. TokenSound'
  BY <1>1, <1>2, TokenFrame DEF IpcIInv
<1>4. EventTypes'
  BY DEF IpcIInv, EventSound, EventTypes
<1>5. EventSound'
  BY <1>1, <1>2, <1>4, EventFrame DEF IpcIInv
<1> QED
  BY <1>1, <1>3, <1>5 DEF IpcIInv

\* The queues are created, deleted and flushed.
LEMMA QueueAdmin ==
    ASSUME IpcIInv, UNCHANGED <<count, eventVars>>, NEW q \in Others,
           QueueDel(q) \/ QueueFlush(q) \/ \E kind \in QueueKinds : QueueCreate(q, kind)
    PROVE  IpcIInv'
<1>1. IInv /\ ObjSound /\ MessageSound
  BY DEF IpcIInv, WaitIInv
<1>2. NULL \notin Others /\ QUEUE \in Kinds /\ BUF_QUEUE \in Kinds
  BY KernelAssumption DEF QUEUE, BUF_QUEUE, Kinds
<1>3. cur_num' = [cur_num EXCEPT ![q] = 0]
  BY DEF QueueDel, QueueFlush, QueueCreate
<1>4. ASSUME NEW kind \in QueueKinds, QueueCreate(q, kind) PROVE IpcIInv'
  <2>1. PICK k \in Kinds : Calling("queue_create") /\ ObjCreate(q, k)
    BY <1>2, <1>4 DEF QueueCreate
  <2>2. FormOK(NULL) /\ blk_list'[q] = <<>>
    BY <1>1, <2>1, CreateForm
  <2>3. obj_type' = [obj_type EXCEPT ![q] = k] /\ UNCHANGED blk_list
    BY <2>1 DEF ObjCreate, waitVars
  <2>4. MessageSound'
    BY <1>1, <1>3, <2>2, <2>3 DEF MessageSound, IsQueue, Is, ObjSound
  <2> QED
    BY <1>2, <2>2, <2>4, QueueForm
<1>5. CASE QueueDel(q)
  <2>1. PICK k \in Kinds : Calling("queue_del") /\ ObjDel(q, k)
    BY <1>2, <1>5 DEF QueueDel
  <2>2. FormOK(NULL)
    BY <1>1, <2>1, DelForm
  <2>3. obj_type' = [obj_type EXCEPT ![q] = NONE] /\ UNCHANGED blk_list
    BY <2>1 DEF ObjDel, waitVars
  <2>4. MessageSound'
    BY <1>1, <1>3, <2>2, <2>3 DEF MessageSound, IsQueue, Is, ObjSound
  <2> QED
    BY <1>2, <2>2, <2>4, QueueForm
<1>6. CASE QueueFlush(q)
  <2>1. todo = <<>> /\ UNCHANGED <<vars, obj_type>>
    BY <1>6, Between DEF QueueFlush
  <2>2. FormOK(NULL)
    BY <1>1, <2>1, QuietForm
  <2>3. UNCHANGED <<blk_list, obj_type>>
    BY <2>1 DEF vars, dataVars, waitVars
  <2>4. MessageSound'
    BY <1>1, <1>3, <2>3 DEF MessageSound, IsQueue, Is
  <2> QED
    BY <1>2, <2>2, <2>4, QueueForm
<1> QED
  BY <1>4, <1>5, <1>6

\* A message is sent.
LEMMA QueueSends ==
    ASSUME IpcIInv, UNCHANGED <<count, eventVars>>, NEW q \in Others, NEW m,
           QueueSend(q, m) \/ QueueSendOne(q, m) \/ QueueSendAll(q, m) \/ QueueWake
    PROVE  IpcIInv'
<1>1. IInv /\ ObjSound /\ MessageSound
  BY DEF IpcIInv, WaitIInv
<1>2. NULL \notin Others
  BY KernelAssumption
<1>3. CASE QueueSend(q, m)
  <2>1. /\ todo = <<>> /\ blk_list[q] = <<>>
        /\ cur_num' = [cur_num EXCEPT ![q] = @ + 1] /\ UNCHANGED <<vars, obj_type>>
    BY <1>3, Between DEF QueueSend
  <2>2. FormOK(NULL)
    BY <1>1, <2>1, QuietForm
  <2>3. UNCHANGED <<blk_list, obj_type>>
    BY <2>1 DEF vars, dataVars, waitVars
  <2>4. MessageSound'
    BY <1>1, <1>2, <2>1, <2>3 DEF MessageSound, IsQueue, Is
  <2> QED
    BY <1>2, <2>2, <2>4, QueueForm
<1>4. CASE QueueSendOne(q, m) \/ QueueSendAll(q, m) \/ QueueWake
  <2>1. UNCHANGED cur_num
    BY <1>4 DEF QueueSendOne, QueueSendAll, QueueWake
  <2>2. FormOK(NULL)
    <3>1. CASE QueueSendOne(q, m)
      <4>1. todo = <<>> /\ ObjWakeFirst(q)
        BY <3>1, Between DEF QueueSendOne
      <4> QED
        BY <1>1, <4>1, WakeFirstForm
    <3>2. CASE QueueSendAll(q, m)
      <4>1. todo = <<>> /\ ObjLoop(q, "queue_wake", NULL)
        BY <3>2, Between DEF QueueSendAll
      <4> QED
        BY <1>1, <4>1, LoopForm
    <3>3. CASE QueueWake
      <4>1. Doing("queue_wake") /\ ObjWakeNext(Head(todo).obj)
        BY <3>3 DEF QueueWake
      <4> QED
        BY <1>1, <4>1, WakeNextForm
    <3> QED
      BY <1>4, <3>1, <3>2, <3>3
  <2>3. SettledBut(NULL) /\ IInv'
    BY <2>2 DEF FormOK
  <2>4. MessageSound'
    BY <1>1, <1>2, <2>1, <2>3, MessageFrame
  <2> QED
    BY <1>2, <2>2, <2>4, QueueForm
<1> QED
  BY <1>3, <1>4

\* A message is received or waited for.
LEMMA QueueReceives ==
    ASSUME IpcIInv, UNCHANGED <<count, eventVars>>, NEW q \in Others,
           QueueRecv(q) \/ \E ticks \in Waits : QueueRecvPend(q, ticks)
    PROVE  IpcIInv'
<1>1. IInv /\ ObjSound /\ MessageSound
  BY DEF IpcIInv, WaitIInv
<1>2. NULL \notin Others
  BY KernelAssumption
<1>3. todo = <<>> /\ obj_type[q] \in {QUEUE, BUF_QUEUE}
  BY Between DEF QueueRecv, QueueRecvPend, Receiving, IsQueue, Is
<1>4. CASE QueueRecv(q)
  <2>1. /\ cur_num[q] > 0 /\ cur_num' = [cur_num EXCEPT ![q] = @ - 1]
        /\ UNCHANGED <<vars, obj_type>>
    BY <1>4 DEF QueueRecv
  <2>2. FormOK(NULL)
    BY <1>1, <1>3, <2>1, QuietForm
  <2>3. UNCHANGED <<blk_list, obj_type>>
    BY <2>1 DEF vars, dataVars, waitVars
  <2>4. MessageSound'
    BY <1>1, <1>2, <2>1, <2>3 DEF MessageSound, IsQueue, Is
  <2> QED
    BY <1>2, <2>2, <2>4, QueueForm
<1>5. ASSUME NEW ticks \in Waits, QueueRecvPend(q, ticks) PROVE IpcIInv'
  <2>1. cur_num[q] = 0 /\ ObjPend(q, ticks) /\ UNCHANGED cur_num
    BY <1>5 DEF QueueRecvPend
  <2>2. Calling("queue_recv")
    BY <1>5 DEF QueueRecvPend, Receiving, InIsr
  <2>3. FormOK(q) /\ UNCHANGED obj_type
    BY <1>1, <1>3, <2>1, <2>2, PendForm DEF QUEUE, BUF_QUEUE, NONE
  <2>4. SettledBut(q) /\ IInv'
    BY <2>3 DEF FormOK
  <2>5. MessageSound'
    BY <1>1, <2>1, <2>4, MessageFrame
  <2> QED
    BY <1>3, <2>3, <2>5, QueueForm
<1> QED
  BY <1>4, <1>5
-----------------------------------------------------------------------------
(* The calls on event flags.                                                *)

\* A request that some flags meet is met by more of them.
LEMMA MetMore == ASSUME NEW req, NEW f, NEW g, f \subseteq g, Met(req, f) PROVE Met(req, g)
BY DEF Met

\* The requests and arguments are what the code accepts.
LEMMA EventArgs ==
    /\ \A r \in EventGets : r[1] \in SUBSET Flags
    /\ \A r \in EventSets : r[1] \in SUBSET Flags
BY EventAssumption

\* A call on event flags leaves the semaphores and the queues alone.
LEMMA EventForm ==
    ASSUME IpcIInv, NEW o, FormOK(o), o \in Others => obj_type'[o] = EVENT, EventSound',
           UNCHANGED <<count, queueVars>>
    PROVE  IpcIInv'
<1> USE DEF queueVars
<1>1. /\ WaitIInv' /\ ObjSound' /\ LoopSound' /\ SettledBut(o) /\ IInv /\ IInv'
  BY FormStep
<1>2. o \in Others => obj_type'[o] \notin {SEM, QUEUE, BUF_QUEUE}
  BY DEF SEM, QUEUE, BUF_QUEUE, EVENT
<1>3. TokenSound'
  BY <1>1, <1>2, TokenFrame DEF IpcIInv
<1>4. MessageSound'
  BY <1>1, <1>2, MessageFrame DEF IpcIInv
<1> QED
  BY <1>1, <1>3, <1>4 DEF IpcIInv

\* The flags of e become fewer, or nobody waits for e any more.
LEMMA FewerFlags ==
    ASSUME EventSound, ~Looping(todo), UNCHANGED <<blk_list, pend, cur_event_flags>>,
           NEW e \in Others, NEW f \in SUBSET Flags, flags' = [flags EXCEPT ![e] = f],
           f \subseteq flags[e] \/ blk_list[e] = <<>> \/ obj_type'[e] # EVENT,
           \A x \in Others : x # e => obj_type'[x] = obj_type[x],
           obj_type'[e] = obj_type[e] \/ blk_list[e] = <<>> \/ obj_type'[e] # EVENT
    PROVE  EventSound'
<1>1. /\ flags \in [Others -> SUBSET Flags] /\ Unmet(blk_list, pend, flags)
      /\ EventTypes
  BY DEF EventSound, EventTypes
<1>2. /\ flags' \in [Others -> SUBSET Flags] /\ flags'[e] = f
      /\ \A x \in Others : x # e => flags'[x] = flags[x]
  BY <1>1
<1>3. EventTypes'
  BY <1>1, <1>2 DEF EventTypes
<1>4. ASSUME NEW x \in Others, obj_type'[x] = EVENT, NEW t \in ToSet(blk_list[x])
      PROVE  ~Met(pend[t], flags'[x])
  <2>1. CASE x # e
    BY <1>1, <1>2, <1>4, <2>1 DEF Unmet, Is
  <2>2. CASE x = e
    <3>1. blk_list[e] # <<>>
      BY <1>4, <2>2 DEF ToSet
    <3>2. f \subseteq flags[e] /\ obj_type[e] = EVENT
      BY <1>4, <2>2, <3>1
    <3>3. ~Met(pend[t], flags[e])
      BY <1>1, <1>4, <2>2, <3>2 DEF Unmet, Is
    <3> QED
      BY <1>2, <2>2, <3>2, <3>3, MetMore
  <2> QED
    BY <2>1, <2>2
<1> QED
  BY <1>3, <1>4 DEF EventSound, Unmet, Is

\* krhino_event_create, krhino_event_del, krhino_event_get of flags that are
\* there, and krhino_event_set that takes flags away.
LEMMA EventQuiet ==
    ASSUME IpcIInv, UNCHANGED <<count, queueVars>>, NEW e \in Others,
           \/ \E f \in SUBSET Flags : EventCreate(e, f)
           \/ EventDel(e)
           \/ \E req \in EventGets : EventGetNow(e, req)
           \/ \E set \in EventSets : EventSetAnd(e, set)
    PROVE  IpcIInv'
<1>1. IInv /\ ObjSound /\ EventSound /\ flags \in [Others -> SUBSET Flags]
  BY DEF IpcIInv, WaitIInv, EventSound, EventTypes
<1>2. NULL \notin Others /\ EVENT \in Kinds
  BY KernelAssumption DEF EVENT, Kinds
<1>3. ASSUME NEW f \in SUBSET Flags, EventCreate(e, f) PROVE IpcIInv'
  <2>1. /\ Calling("event_create") /\ ObjCreate(e, EVENT)
        /\ flags' = [flags EXCEPT ![e] = f] /\ UNCHANGED <<pend, cur_event_flags>>
    BY <1>3 DEF EventCreate
  <2>2. FormOK(NULL) /\ blk_list'[e] = <<>>
    BY <1>1, <1>2, <2>1, CreateForm
  <2>3. /\ obj_type' = [obj_type EXCEPT ![e] = EVENT] /\ UNCHANGED blk_list /\ ~Looping(todo)
    BY <2>1, <2>2 DEF ObjCreate, waitVars, FormOK
  <2>4. \A x \in Others : x # e => obj_type'[x] = obj_type[x]
    BY <1>1, <2>3 DEF ObjSound
  <2>5. EventSound'
    BY <1>1, <2>1, <2>2, <2>3, <2>4, FewerFlags
  <2> QED
    BY <1>2, <2>2, <2>5, EventForm
<1>4. CASE EventDel(e)
  <2>1. /\ Calling("event_del") /\ ObjDel(e, EVENT)
        /\ flags' = [flags EXCEPT ![e] = {}] /\ UNCHANGED <<pend, cur_event_flags>>
    BY <1>4 DEF EventDel
  <2>2. FormOK(NULL) /\ obj_type'[e] = NONE
    BY <1>1, <1>2, <2>1, DelForm
  <2>3. /\ obj_type' = [obj_type EXCEPT ![e] = NONE] /\ UNCHANGED blk_list /\ ~Looping(todo)
    BY <2>1, <2>2 DEF ObjDel, waitVars, FormOK
  <2>4. /\ \A x \in Others : x # e => obj_type'[x] = obj_type[x]
        /\ obj_type'[e] # EVENT /\ {} \in SUBSET Flags
    BY <1>1, <2>2, <2>3 DEF ObjSound, NONE, EVENT
  <2>5. EventSound'
    BY <1>1, <2>1, <2>3, <2>4, FewerFlags
  <2> QED
    BY <1>2, <2>2, <2>5, EventForm
<1>5. ASSUME NEW f \in SUBSET Flags, f \subseteq flags[e], flags' = [flags EXCEPT ![e] = f],
             todo = <<>>, UNCHANGED <<vars, obj_type, pend, cur_event_flags>>
      PROVE  IpcIInv'
  <2>1. FormOK(NULL)
    BY <1>1, <1>5, QuietForm
  <2>2. UNCHANGED <<blk_list, obj_type>> /\ ~Looping(todo)
    BY <1>5, NoWork DEF vars, dataVars, waitVars
  <2>3. EventSound'
    BY <1>1, <1>5, <2>2, FewerFlags
  <2> QED
    BY <1>2, <2>1, <2>3, EventForm
<1>6. ASSUME NEW req \in EventGets, EventGetNow(e, req) PROVE IpcIInv'
  <2> DEFINE f == IF Clearing(req[2]) THEN flags[e] \ req[1] ELSE flags[e]
  <2>1. flags' = [flags EXCEPT ![e] = f] /\ UNCHANGED <<vars, obj_type, pend, cur_event_flags>>
    BY <1>6 DEF EventGetNow
  <2>2. todo = <<>>
    BY <1>6, Between DEF EventGetNow, Getting
  <2>3. f \in SUBSET Flags /\ f \subseteq flags[e]
    BY <1>1
  <2> HIDE DEF f
  <2> QED
    BY <1>5, <2>1, <2>2, <2>3
<1>7. ASSUME NEW set \in EventSets, EventSetAnd(e, set) PROVE IpcIInv'
  <2> DEFINE f == flags[e] \cap set[1]
  <2>1. flags' = [flags EXCEPT ![e] = f] /\ UNCHANGED <<vars, obj_type, pend, cur_event_flags>>
    BY <1>7 DEF EventSetAnd
  <2>2. todo = <<>>
    BY <1>7, Between DEF EventSetAnd
  <2>3. f \in SUBSET Flags /\ f \subseteq flags[e]
    BY <1>1
  <2> HIDE DEF f
  <2> QED
    BY <1>5, <2>1, <2>2, <2>3
<1> QED
  BY <1>3, <1>4, <1>6, <1>7

\* krhino_event_get of flags that are not there.
LEMMA EventPends ==
    ASSUME IpcIInv, UNCHANGED <<count, queueVars>>, NEW e \in Others, NEW req \in EventGets,
           NEW ticks \in Waits, EventGetPend(e, req, ticks)
    PROVE  IpcIInv'
<1>1. IInv /\ ObjSound /\ EventSound /\ EventTypes
  BY DEF IpcIInv, WaitIInv, EventSound
<1>2. /\ Calling("event_get") /\ obj_type[e] = EVENT /\ ~Met(req, flags[e])
      /\ pend' = [pend EXCEPT ![active] = req] /\ ObjPend(e, ticks)
      /\ UNCHANGED <<flags, cur_event_flags>>
  BY DEF EventGetPend, Getting, Is
<1>3. /\ FormOK(e) /\ UNCHANGED obj_type
      /\ \A t \in ToSet(blk_list'[e]) : t = active \/ t \in ToSet(blk_list[e])
      /\ \A t \in Tasks : task_state'[t] \in Pending /\ blk_obj'[t] # e => t # active
  BY <1>1, <1>2, PendForm DEF EVENT, NONE
<1>4. active \in Tasks /\ task_state[active] = "K_RDY"
  BY <1>1, <1>2, Caller
<1>5. /\ EventTypes' /\ pend'[active] = req
      /\ \A t \in Tasks : t # active => pend'[t] = pend[t]
  BY <1>1, <1>2, <1>4 DEF EventTypes
<1>6. SettledBut(e) /\ IInv' /\ ~Looping(todo)
  BY <1>3 DEF FormOK
<1>7. \A t \in ToSet(blk_list'[e]) : ~Met(pend'[t], flags[e])
  <2>1. ASSUME NEW t \in ToSet(blk_list[e]) PROVE t \in Tasks /\ t # active
    <3>1. blk_list[e] \in Seq(Tasks) /\ e \in Objs
      BY <1>1 DEF IInv, BlkExact, Objs
    <3>2. t \in Tasks
      BY <3>1, MemberAt
    <3>3. task_state[t] \in Pending
      BY <1>1, <3>1, <3>2 DEF IInv, BlkExact
    <3> QED
      BY <1>4, <3>2, <3>3 DEF Pending
  <2>2. \A t \in ToSet(blk_list[e]) : ~Met(pend[t], flags[e])
    BY <1>1, <1>2, <1>6 DEF EventSound, Unmet, Is
  <2> QED
    BY <1>2, <1>3, <1>5, <2>1, <2>2
<1>8. EventSound'
  BY <1>1, <1>2, <1>3, <1>5, <1>6, <1>7, EventFrame
<1> QED
  BY <1>2, <1>3, <1>8, EventForm

\* The position of a waiter in a list without repetition, and the one after it.
LEMMA AfterAt ==
    ASSUME IInv, NEW e \in Objs, NEW k \in 1..Len(blk_list[e])
    PROVE  After(e, blk_list[e][k]) = IF k = Len(blk_list[e]) THEN NULL ELSE blk_list[e][k + 1]
<1> DEFINE l == blk_list[e]
<1>1. l \in Seq(Tasks) /\ IsInjective(l)
  BY DEF IInv, BlkExact
<1>2. DOMAIN l = 1..Len(l) /\ k \in DOMAIN l /\ \A i \in DOMAIN l : l[i] = l[k] => i = k
  BY <1>1 DEF IsInjective
<1> DEFINE c == CHOOSE i \in DOMAIN l : l[i] = l[k]
<1>3. c = k
  BY <1>2
<1>4. After(e, l[k]) = IF c = Len(l) THEN NULL ELSE l[c + 1]
  BY Zenon DEF After
<1> HIDE DEF c
<1> QED
  BY <1>3, <1>4

\* krhino_event_set of flags nobody waits for.
LEMMA ExitForm ==
    ASSUME IInv, ObjSound, todo = <<>>, ExitSched,
           UNCHANGED <<dataVars, cpuVars, todo, call, fatal, obj_type>>
    PROVE  FormOK(NULL)
<1>1. /\ UNCHANGED <<task_state, prio, b_prio, alive, rq, sched_lock, tcbVars, rrVars, waitVars,
                     mutexVars>>
      /\ UNCHANGED blk_list /\ alive \subseteq Objs
  BY DEF dataVars, waitVars, IInv, FieldsOK
<1>2. IInv'
  BY <1>1, TodoEmpty, CallInv
<1>3. ObjSound' /\ SettledBut(NULL)
  BY <1>1, <1>2, NoWork, DeadShrinks
<1>4. Kind
  BY <1>1, QuietKind DEF Kind, CoreKind
<1> QED
  BY <1>2, <1>3, <1>4, NoWork DEF FormOK

\* The loop of event_set leaves the semaphores and the queues alone.
LEMMA LoopStep ==
    ASSUME IpcIInv, IInv', Kind, ~Ticking(todo), ObjSound', SettledBut(NULL), EventSound',
           LoopSound', UNCHANGED <<count, queueVars>>
    PROVE  IpcIInv'
<1> USE DEF queueVars
<1>1. IInv /\ NULL \notin Others
  BY KernelAssumption DEF IpcIInv, WaitIInv
<1>2. WaitIInv'
  BY WaitStep DEF IpcIInv
<1>3. TokenSound'
  BY <1>1, TokenFrame DEF IpcIInv
<1>4. MessageSound'
  BY <1>1, MessageFrame DEF IpcIInv
<1> QED
  BY <1>2, <1>3, <1>4 DEF IpcIInv

\* krhino_event_set of flags, with waiters: the loop begins at the first one.
LEMMA EventSets1 ==
    ASSUME IpcIInv, UNCHANGED <<count, queueVars>>, NEW e \in Others, NEW set \in EventSets,
           EventSetOr(e, set), blk_list[e] # <<>>
    PROVE  IpcIInv'
<1>1. IInv /\ ObjSound /\ EventSound /\ EventTypes
  BY DEF IpcIInv, WaitIInv, EventSound
<1>2. /\ todo = <<>> /\ e \in Objs /\ NULL \notin Others
  BY Between, KernelAssumption DEF EventSetOr, Objs
<1>3. /\ ObjLoop(e, "event_wake", Head(blk_list[e])) /\ cur_event_flags' = flags'[e]
      /\ flags' = [flags EXCEPT ![e] = @ \cup set[1]] /\ UNCHANGED pend
  BY DEF EventSetOr
<1>4. ExitSched /\ UNCHANGED <<dataVars, cpuVars, call, fatal, obj_type>>
  BY <1>3 DEF ObjLoop
<1>5. PICK t \in Tasks : t = Head(blk_list[e])
  BY <1>1, <1>2, BlkHead DEF IInv
<1>6. PICK it : it = Item("event_wake", t, e, 0) /\ todo' = <<it>>
  BY <1>3, <1>5 DEF ObjLoop
<1>7. "event_wake" \in IpcOps \cup {"del_waiters"}
  BY DEF IpcOps
<1>8. TodoSound' /\ ToSet(todo') = {it} /\ it.op = "event_wake" /\ it.obj = e /\ it.task = t
  BY <1>6, <1>7, IpcTodo
<1>9. /\ UNCHANGED <<task_state, prio, b_prio, alive, rq, sched_lock, tcbVars, rrVars, waitVars,
                     mutexVars>>
      /\ UNCHANGED blk_list /\ alive \subseteq Objs
  BY <1>1, <1>4 DEF dataVars, waitVars, IInv, FieldsOK
<1>10. IInv'
  BY <1>1, <1>4, <1>8, <1>9, CallInv
<1>11. ObjSound' /\ SettledBut(NULL)
  BY <1>1, <1>2, <1>4, <1>9, <1>10, NoWork, DeadShrinks
<1>12. Kind
  BY <1>9, QuietKind DEF Kind, CoreKind
<1>13. ~Ticking(todo) /\ ~Looping(todo)
  BY <1>2, NoWork
<1>14. set[1] \in SUBSET Flags
  BY EventArgs
<1>15. /\ flags' \in [Others -> SUBSET Flags] /\ flags'[e] \in SUBSET Flags
       /\ \A x \in Others : x # e => flags'[x] = flags[x]
  BY <1>1, <1>3, <1>14 DEF EventTypes
<1>16. EventTypes'
  BY <1>1, <1>3, <1>15 DEF EventTypes
<1>17. Looping(todo')
  BY <1>8 DEF Looping
<1>18. EventSound'
  BY <1>16, <1>17 DEF EventSound
<1>19. Served(blk_list[e], t, pend, cur_event_flags')
  <2>1. blk_list[e] \in Seq(Tasks)
    BY <1>1, <1>2 DEF IInv, BlkExact
  <2>2. 1 \in 1..Len(blk_list[e]) /\ t = blk_list[e][1] /\ Len(blk_list[e]) \in Nat
    BY <1>5, <2>1, TailSeq
  <2> QED
    BY <2>2 DEF Served
<1>20. \A x \in Others : x # e /\ obj_type[x] = EVENT =>
          \A y \in ToSet(blk_list[x]) : ~Met(pend[y], flags'[x])
  BY <1>1, <1>13, <1>15 DEF EventSound, Unmet, Is
<1>21. LoopSound'
  BY <1>3, <1>4, <1>6, <1>8, <1>9, <1>19, <1>20 DEF LoopSound, Is
<1> QED
  BY <1>10, <1>11, <1>12, <1>13, <1>18, <1>21, LoopStep

\* krhino_event_set of flags.
LEMMA EventSetsOr ==
    ASSUME IpcIInv, UNCHANGED <<count, queueVars>>, NEW e \in Others, NEW set \in EventSets,
           EventSetOr(e, set)
    PROVE  IpcIInv'
<1>1. IInv /\ ObjSound /\ EventSound /\ flags \in [Others -> SUBSET Flags]
  BY DEF IpcIInv, WaitIInv, EventSound, EventTypes
<1>2. todo = <<>> /\ NULL \notin Others
  BY Between, KernelAssumption DEF EventSetOr
<1>3. CASE blk_list[e] # <<>>
  BY <1>3, EventSets1
<1>4. CASE blk_list[e] = <<>>
  <2> DEFINE f == flags[e] \cup set[1]
  <2>1. /\ flags' = [flags EXCEPT ![e] = f] /\ UNCHANGED pend /\ ExitSched
        /\ UNCHANGED <<dataVars, cpuVars, todo, call, fatal, obj_type, cur_event_flags>>
    BY <1>4 DEF EventSetOr, ObjLoop
  <2>2. f \in SUBSET Flags
    BY <1>1, EventArgs
  <2> HIDE DEF f
  <2>3. FormOK(NULL)
    BY <1>1, <1>2, <2>1, ExitForm
  <2>4. UNCHANGED <<blk_list, obj_type>> /\ ~Looping(todo)
    BY <1>2, <2>1, NoWork DEF dataVars, waitVars
  <2>5. EventSound'
    BY <1>1, <1>4, <2>1, <2>2, <2>4, FewerFlags
  <2> QED
    BY <1>2, <2>3, <2>5, EventForm
<1> QED
  BY <1>3, <1>4

\* What a round of the loop begins with.
LEMMA LoopRound ==
    ASSUME IpcIInv, EventWake
    PROVE  \E e \in Others, x \in Tasks \cup {NULL}, k \in Nat \ {0} :
              /\ Head(todo).obj = e /\ Head(todo).task = x /\ Tail(todo) = <<>>
              /\ ~Ticking(todo) /\ \A it \in ToSet(todo) : it.op # "del_waiters"
              /\ flags[e] \subseteq cur_event_flags
              /\ k \in 1..Len(blk_list[e]) + 1
              /\ IF k = Len(blk_list[e]) + 1 THEN x = NULL ELSE x = blk_list[e][k] /\ x # NULL
              /\ \A i \in 1..Len(blk_list[e]) : i < k => ~Met(pend[blk_list[e][i]], cur_event_flags)
              /\ \A o \in Others : o # e /\ obj_type[o] = EVENT =>
                    \A t \in ToSet(blk_list[o]) : ~Met(pend[t], flags[o])
<1>1. Doing("event_wake") /\ IInv /\ "event_wake" \in IpcOps
  BY DEF EventWake, IpcIInv, WaitIInv, IpcOps
<1>2. PICK it : /\ it = Head(todo) /\ Tail(todo) = <<>> /\ ToSet(todo) = {it}
                /\ it.op = "event_wake" /\ it.obj \in Others /\ it \in Items
  BY <1>1, LoopItem
<1>3. /\ flags[it.obj] \subseteq cur_event_flags
      /\ Served(blk_list[it.obj], it.task, pend, cur_event_flags)
      /\ \A e \in Others : e # it.obj /\ Is(e, EVENT) =>
            \A t \in ToSet(blk_list[e]) : ~Met(pend[t], flags[e])
  BY <1>2 DEF IpcIInv, LoopSound
<1>4. PICK e \in Others : e = it.obj
  BY <1>2
<1>5. PICK x \in Tasks \cup {NULL} : x = it.task
  BY <1>2 DEF Items
<1>6. blk_list[e] \in Seq(Tasks) /\ NULL \notin Tasks
  BY <1>1, KernelAssumption DEF IInv, BlkExact, Objs
<1>7. PICK k \in 1..Len(blk_list[e]) + 1 :
         /\ IF k = Len(blk_list[e]) + 1 THEN x = NULL ELSE x = blk_list[e][k]
         /\ \A i \in 1..Len(blk_list[e]) :
               i < k => ~Met(pend[blk_list[e][i]], cur_event_flags)
  BY <1>3, <1>4, <1>5 DEF Served
<1>8. Len(blk_list[e]) \in Nat
  BY <1>6
<1>9. k # Len(blk_list[e]) + 1 => blk_list[e][k] \in Tasks
  <2> SUFFICES ASSUME k # Len(blk_list[e]) + 1 PROVE blk_list[e][k] \in Tasks
    OBVIOUS
  <2>1. k \in 1..Len(blk_list[e])
    BY <1>8
  <2> QED
    BY <1>6, <2>1
<1>10. k \in Nat \ {0}
  BY <1>8
<1>11. ~Ticking(todo) /\ \A i \in ToSet(todo) : i.op # "del_waiters"
  BY <1>2 DEF Ticking
<1>12. Head(todo).obj = e /\ Head(todo).task = x
  BY <1>2, <1>4, <1>5
<1>13. flags[e] \subseteq cur_event_flags
  BY <1>3, <1>4
<1>14. \A o \in Others : o # e /\ obj_type[o] = EVENT =>
          \A t \in ToSet(blk_list[o]) : ~Met(pend[t], flags[o])
  BY <1>3, <1>4 DEF Is
<1>15. IF k = Len(blk_list[e]) + 1 THEN x = NULL ELSE x = blk_list[e][k] /\ x # NULL
  BY <1>6, <1>7, <1>9
<1> QED
  BY <1>2, <1>7, <1>10, <1>11, <1>12, <1>13, <1>14, <1>15

\* The loop is over: it has served everybody it had to.
LEMMA LoopEnds ==
    ASSUME IpcIInv, UNCHANGED <<count, queueVars>>, EventWake, Head(todo).task = NULL
    PROVE  IpcIInv'
<1>1. IInv /\ ObjSound /\ EventTypes
  BY DEF IpcIInv, WaitIInv, EventSound
<1>2. PICK e \in Others, x \in Tasks \cup {NULL}, k \in Nat \ {0} :
         /\ Head(todo).obj = e /\ Head(todo).task = x /\ Tail(todo) = <<>>
         /\ ~Ticking(todo) /\ \A it \in ToSet(todo) : it.op # "del_waiters"
         /\ flags[e] \subseteq cur_event_flags
         /\ k \in 1..Len(blk_list[e]) + 1
         /\ IF k = Len(blk_list[e]) + 1 THEN x = NULL ELSE x = blk_list[e][k] /\ x # NULL
         /\ \A i \in 1..Len(blk_list[e]) : i < k => ~Met(pend[blk_list[e][i]], cur_event_flags)
         /\ \A o \in Others : o # e /\ obj_type[o] = EVENT =>
               \A t \in ToSet(blk_list[o]) : ~Met(pend[t], flags[o])
  BY LoopRound
<1>3. /\ todo' = <<>> /\ UNCHANGED <<task_state, rq, waitVars, flags>> /\ cur_event_flags' = {}
      /\ UNCHANGED <<coreRest, pc, call, obj_type, pend>>
  BY <1>2 DEF EventWake
<1>4. UNCHANGED <<blk_list, prio, alive>> /\ alive \subseteq Objs
  BY <1>1, <1>3 DEF waitVars, coreRest, IInv, FieldsOK
<1>5. IInv'
  BY <1>1, <1>3, <1>4, TodoEmpty, CallInv DEF coreRest
<1>6. ObjSound' /\ SettledBut(NULL)
  BY <1>1, <1>2, <1>3, <1>4, <1>5, DeadShrinks
<1>7. Kind
  BY <1>3, <1>4, QuietKind DEF Kind, CoreKind
<1>8. EventTypes'
  BY <1>1, <1>3 DEF EventTypes
<1>9. ASSUME NEW t \in ToSet(blk_list[e]) PROVE ~Met(pend[t], flags[e])
  <2>1. blk_list[e] \in Seq(Tasks)
    BY <1>1 DEF IInv, BlkExact, Objs
  <2>2. PICK i \in 1..Len(blk_list[e]) : t = blk_list[e][i]
    BY <2>1, MemberAt
  <2>3. k = Len(blk_list[e]) + 1 /\ Len(blk_list[e]) \in Nat
    BY <1>2, <2>1
  <2>4. ~Met(pend[t], cur_event_flags)
    BY <1>2, <2>2, <2>3
  <2> QED
    BY <1>2, <2>4, MetMore
<1>10. Unmet(blk_list, pend, flags)'
  BY <1>2, <1>3, <1>4, <1>9 DEF Unmet, Is
<1>11. EventSound' /\ LoopSound'
  BY <1>3, <1>8, <1>10, NoWork DEF EventSound, LoopSound
<1> QED
  BY <1>2, <1>5, <1>6, <1>7, <1>11, LoopStep

\* A waiter is looked at.
LEMMA LoopGoesOn ==
    ASSUME IpcIInv, UNCHANGED <<count, queueVars>>, EventWake, Head(todo).task # NULL
    PROVE  IpcIInv'
<1>1. IInv /\ ObjSound /\ EventTypes
  BY DEF IpcIInv, WaitIInv, EventSound
<1>2. PICK e \in Others, t \in Tasks \cup {NULL}, k \in Nat \ {0} :
         /\ Head(todo).obj = e /\ Head(todo).task = t /\ Tail(todo) = <<>>
         /\ ~Ticking(todo) /\ \A it \in ToSet(todo) : it.op # "del_waiters"
         /\ flags[e] \subseteq cur_event_flags
         /\ k \in 1..Len(blk_list[e]) + 1
         /\ IF k = Len(blk_list[e]) + 1 THEN t = NULL ELSE t = blk_list[e][k] /\ t # NULL
         /\ \A i \in 1..Len(blk_list[e]) : i < k => ~Met(pend[blk_list[e][i]], cur_event_flags)
         /\ \A o \in Others : o # e /\ obj_type[o] = EVENT =>
               \A x \in ToSet(blk_list[o]) : ~Met(pend[x], flags[o])
  BY LoopRound
<1> DEFINE l == blk_list[e]
           n == Len(l)
<1>3. e \in Objs /\ l \in Seq(Tasks) /\ IsInjective(l) /\ n \in Nat
  BY <1>1 DEF IInv, BlkExact, Objs
<1>4. k \in 1..n /\ t = l[k] /\ t \in Tasks /\ NULL \notin Tasks
  BY <1>2, <1>3, KernelAssumption
<1>5. t \in ToSet(l)
  BY <1>3, <1>4, MemberAt
<1>6. task_state[t] \in Pending /\ blk_obj[t] = e
  BY <1>1, <1>3, <1>4, <1>5 DEF IInv, BlkExact
<1>7. PICK nx : nx = After(e, t)
  OBVIOUS
<1>8. /\ k = n => nx = NULL
      /\ k # n => k + 1 \in 1..n /\ nx = l[k + 1]
      /\ nx \in Tasks \cup {NULL}
  <2>1. nx = IF k = n THEN NULL ELSE l[k + 1]
    BY <1>1, <1>3, <1>4, <1>7, AfterAt
  <2>2. k # n => k + 1 \in 1..n
    BY <1>3, <1>4
  <2> HIDE DEF l, n
  <2>3. k # n => l[k + 1] \in Tasks
    BY <1>3, <2>2 DEF n
  <2> QED
    BY <2>1, <2>2, <2>3
<1>9. PICK it : it = Item("event_wake", nx, e, 0)
  OBVIOUS
<1>10. todo' = <<it>>
  <2>1. todo' = <<it>> \o Tail(todo)
    BY <1>2, <1>7, <1>9, <1>4 DEF EventWake
  <2>2. <<it>> \o <<>> = <<it>>
    OBVIOUS
  <2> QED
    BY <1>2, <2>1, <2>2
<1>11. "event_wake" \in IpcOps \cup {"del_waiters"}
  BY DEF IpcOps
<1>12. TodoSound' /\ ToSet(todo') = {it} /\ it.op = "event_wake" /\ it.obj = e /\ it.task = nx
  <2>1. nx \in Tasks \cup {NULL}
    BY <1>8
  <2> QED
    BY <1>9, <1>10, <1>11, <2>1, IpcTodo
<1>13. /\ UNCHANGED <<coreRest, pc, call, obj_type, pend, cur_event_flags>>
       /\ Looping(todo') /\ UNCHANGED alive /\ alive \subseteq Objs
  BY <1>1, <1>2, <1>4, <1>12 DEF EventWake, Looping, coreRest, IInv, FieldsOK
<1>14. ASSUME IInv', Kind, \A o \in Objs : ToSet(blk_list'[o]) \subseteq ToSet(blk_list[o]),
              flags' \in [Others -> SUBSET Flags], flags'[e] \subseteq flags[e],
              \A o \in Others : o # e => flags'[o] = flags[o],
              Served(blk_list'[e], nx, pend, cur_event_flags)
       PROVE  IpcIInv'
  <2>1. ObjSound' /\ SettledBut(NULL)
    BY <1>1, <1>2, <1>13, <1>14, DeadShrinks
  <2>2. EventSound'
    BY <1>1, <1>13, <1>14 DEF EventSound, EventTypes
  <2>3. flags'[e] \subseteq cur_event_flags
    BY <1>2, <1>14
  <2>4. \A o \in Others : o # e /\ obj_type[o] = EVENT =>
           \A x \in ToSet(blk_list'[o]) : ~Met(pend[x], flags'[o])
    BY <1>2, <1>14 DEF Objs
  <2>5. LoopSound'
    BY <1>10, <1>12, <1>13, <1>14, <2>3, <2>4 DEF LoopSound, Is
  <2> QED
    BY <1>2, <1>14, <2>1, <2>2, <2>5, LoopStep
<1>15. CASE ~Met(pend[t], cur_event_flags)
  <2>1. UNCHANGED <<task_state, rq, waitVars, flags>>
    BY <1>2, <1>15 DEF EventWake
  <2>2. UNCHANGED <<blk_list, prio>>
    BY <1>13, <2>1 DEF waitVars, coreRest
  <2>3. IInv'
    BY <1>1, <1>12, <1>13, <2>1, CallInv DEF coreRest
  <2>4. Kind
    BY <2>1, <2>2, QuietKind DEF Kind, CoreKind
  <2>5. Served(l, nx, pend, cur_event_flags)
    <3>1. k + 1 \in 1..n + 1 /\ IF k + 1 = n + 1 THEN nx = NULL ELSE nx = l[k + 1]
      BY <1>3, <1>4, <1>8
    <3>2. \A i \in 1..n : i < k + 1 => ~Met(pend[l[i]], cur_event_flags)
      BY <1>2, <1>3, <1>4, <1>15
    <3> QED
      BY <3>1, <3>2 DEF Served
  <2> QED
    BY <1>1, <1>14, <2>1, <2>2, <2>3, <2>4, <2>5 DEF EventTypes
<1>16. CASE Met(pend[t], cur_event_flags)
  <2> DEFINE f == IF Clearing(pend[t][2]) THEN flags[e] \ pend[t][1] ELSE flags[e]
  <2>1. PendTaskWakeup(t, "BLK_FINISH") /\ flags' = [flags EXCEPT ![e] = f]
    BY <1>2, <1>4, <1>16 DEF EventWake
  <2>2. IInv' /\ WaitEnds(t)
    BY <1>1, <1>4, <1>6, <1>12, <1>13, <2>1, WakeInv
  <2>3. \A o \in Objs : ToSet(blk_list'[o]) \subseteq ToSet(blk_list[o])
    BY <1>1, <1>4, <2>2, EndShrinks
  <2>4. Kind
    BY <1>4, <2>2 DEF Kind, CoreKind
  <2>5. f \subseteq flags[e] /\ flags \in [Others -> SUBSET Flags]
    BY <1>1 DEF EventTypes
  <2> HIDE DEF f
  <2>6. /\ flags' \in [Others -> SUBSET Flags] /\ flags'[e] \subseteq flags[e]
        /\ \A o \in Others : o # e => flags'[o] = flags[o]
    BY <2>1, <2>5
  <2>7. blk_list'[e] = RemoveFirst(l, t)
    <3>1. blk_list' = [blk_list EXCEPT ![blk_obj[t]] = RemoveFirst(@, t)]
      BY <1>3, <1>6, <2>1, Constants DEF PendTaskWakeup, LeaveWait
    <3>2. blk_list \in [Objs -> Seq(Tasks)]
      BY <1>1 DEF IInv, BlkExact
    <3> QED
      BY <1>3, <1>6, <3>1, <3>2
  <2> DEFINE r == RemoveFirst(l, t)
  <2> HIDE DEF l
  <2>8. PICK j \in 1..Len(l) :
           /\ l[j] = t /\ r \in Seq(Tasks) /\ Len(r) = Len(l) - 1
           /\ \A i \in 1..Len(r) : r[i] = IF i < j THEN l[i] ELSE l[i + 1]
    BY <1>3, <1>5, RemoveFirstShape
  <2> HIDE DEF r
  <2>9. j = k
    BY <1>3, <1>4, <2>8 DEF IsInjective, n
  <2>10. Served(r, nx, pend, cur_event_flags)
    <3>1. Len(r) = n - 1 /\ Len(r) \in Nat /\ k \in 1..Len(r) + 1
      BY <1>3, <1>4, <2>8
    <3>2. k = Len(r) + 1 => nx = NULL
      BY <1>3, <1>8, <3>1
    <3>3. k # Len(r) + 1 => nx = r[k]
      <4> SUFFICES ASSUME k # Len(r) + 1 PROVE nx = r[k]
        OBVIOUS
      <4>1. k \in 1..Len(r) /\ k # n
        BY <3>1, <1>3
      <4> QED
        BY <1>8, <2>8, <2>9, <4>1
    <3>4. \A i \in 1..Len(r) : i < k => ~Met(pend[r[i]], cur_event_flags)
      <4> SUFFICES ASSUME NEW i \in 1..Len(r), i < k PROVE ~Met(pend[r[i]], cur_event_flags)
        OBVIOUS
      <4>1. r[i] = l[i] /\ i \in 1..n
        BY <1>3, <2>8, <2>9, <3>1
      <4> QED
        BY <1>2, <4>1 DEF l
    <3> QED
      BY <3>1, <3>2, <3>3, <3>4 DEF Served
  <2> QED
    BY <1>14, <2>2, <2>3, <2>4, <2>6, <2>7, <2>10 DEF r
<1> QED
  BY <1>15, <1>16

\* Every call on event flags keeps the invariant.
LEMMA EventCalls ==
    ASSUME IpcIInv, EventCall, UNCHANGED <<count, queueVars>> PROVE IpcIInv'
<1>1. CASE EventWake
  BY <1>1, LoopEnds, LoopGoesOn
<1>2. ASSUME NEW e \in Others,
             \/ \E f \in SUBSET Flags : EventCreate(e, f)
             \/ EventDel(e)
             \/ \E req \in EventGets : EventGetNow(e, req)
             \/ \E set \in EventSets : EventSetAnd(e, set)
      PROVE  IpcIInv'
  BY <1>2, EventQuiet
<1>3. ASSUME NEW e \in Others, NEW req \in EventGets, NEW ticks \in Waits,
             EventGetPend(e, req, ticks)
      PROVE  IpcIInv'
  BY <1>3, EventPends
<1>4. ASSUME NEW e \in Others, NEW set \in EventSets, EventSetOr(e, set) PROVE IpcIInv'
  BY <1>4, EventSetsOr
<1> QED
  BY <1>1, <1>2, <1>3, <1>4, Zenon DEF EventCall

\* So does every call on semaphores.
LEMMA SemCalls ==
    ASSUME IpcIInv, SemCall, UNCHANGED <<queueVars, eventVars>> PROVE IpcIInv'
<1>1. ASSUME SemWake PROVE IpcIInv'
  <2>1. Head(todo).obj \in Others
    BY <1>1, LoopItem DEF SemWake, IpcOps, IpcIInv, WaitIInv
  <2> QED
    BY <1>1, <2>1, SemGive
<1>2. ASSUME NEW s \in Others,
             SemDel(s) \/ \E n \in SemCounts : SemCreate(s, n) \/ SemCountSet(s, n)
      PROVE  IpcIInv'
  BY <1>2, SemAdmin
<1>3. ASSUME NEW s \in Others, SemGiveCount(s) \/ SemGiveOne(s) \/ SemGiveAll(s)
      PROVE  IpcIInv'
  BY <1>3, SemGive
<1>4. ASSUME NEW s \in Others, SemTakeCount(s) \/ \E ticks \in Waits : SemTakePend(s, ticks)
      PROVE  IpcIInv'
  BY <1>4, SemTake
<1> QED
  BY <1>1, <1>2, <1>3, <1>4, Zenon DEF SemCall

\* And every call on queues.
LEMMA QueueCalls ==
    ASSUME IpcIInv, QueueCall, UNCHANGED <<count, eventVars>> PROVE IpcIInv'
<1>1. ASSUME QueueWake PROVE IpcIInv'
  <2>1. Head(todo).obj \in Others
    BY <1>1, LoopItem DEF QueueWake, IpcOps, IpcIInv, WaitIInv
  <2> QED
    BY <1>1, <2>1, QueueSends
<1>2. ASSUME NEW q \in Others,
             QueueDel(q) \/ QueueFlush(q) \/ \E kind \in QueueKinds : QueueCreate(q, kind)
      PROVE  IpcIInv'
  BY <1>2, QueueAdmin
<1>3. ASSUME NEW q \in Others, NEW m, QueueSend(q, m) \/ QueueSendOne(q, m) \/ QueueSendAll(q, m)
      PROVE  IpcIInv'
  BY <1>3, QueueSends
<1>4. ASSUME NEW q \in Others, QueueRecv(q) \/ \E ticks \in Waits : QueueRecvPend(q, ticks)
      PROVE  IpcIInv'
  BY <1>4, QueueReceives
<1> QED
  BY <1>1, <1>2, <1>3, <1>4, Zenon DEF QueueCall

-----------------------------------------------------------------------------
(* The steps of the kernel core.                                            *)

\* The work of a section grows, if at all, by an item put before it.
Grown(td, td2) ==
    \E r : /\ r = <<>> \/ \E x : r = <<x>> /\ x.op \in {"pri_change", "mutex_free"}
           /\ td2 = r \o td

\* What a grown rest of a section holds.
LEMMA GrownSet ==
    ASSUME NEW S, NEW td \in Seq(S), NEW td2, Grown(td, td2)
    PROVE  /\ ToSet(td) \subseteq ToSet(td2)
           /\ \A x \in ToSet(td2) : x \in ToSet(td) \/ x.op \in {"pri_change", "mutex_free"}
<1>1. PICK r : /\ r = <<>> \/ \E x : r = <<x>> /\ x.op \in {"pri_change", "mutex_free"}
               /\ td2 = r \o td
  BY DEF Grown
<1>2. CASE r = <<>>
  BY <1>1, <1>2
<1>3. ASSUME NEW x, r = <<x>>, x.op \in {"pri_change", "mutex_free"}
      PROVE  /\ ToSet(td) \subseteq ToSet(td2)
             /\ \A y \in ToSet(td2) : y \in ToSet(td) \/ y.op \in {"pri_change", "mutex_free"}
  <2>1. td \in Seq(S \cup {x})
    OBVIOUS
  <2>2. ToSet(<<x>> \o td) = ToSet(td) \cup {x}
    BY <2>1, ConsSet
  <2> QED
    BY <1>1, <1>3, <2>2
<1> QED
  BY <1>1, <1>2, <1>3

\* A rest that stays as it is.
LEMMA GrownSame == ASSUME NEW S, NEW td \in Seq(S) PROVE Grown(td, td)
<1>1. td = <<>> \o td
  OBVIOUS
<1> QED
  BY <1>1, Zenon DEF Grown

\* The resets of inherited priorities are such items.
LEMMA ResetGrows ==
    ASSUME NEW t, NEW ms, NEW lists, NEW td
    PROVE  /\ Grown(td, MutexRelease(t, ms, lists) \o td)
           /\ Grown(td, MutexTaskPriReset(t, lists) \o td)
           /\ \A o, p : Grown(td, <<Item("pri_change", o, NULL, p)>> \o td)
<1>1. \A o, p : Item("pri_change", o, NULL, p).op = "pri_change"
  BY DEF Item
<1>2. \A o, m : \/ MutexRelease(o, m, lists) = <<>>
                \/ \E x : MutexRelease(o, m, lists) = <<x>> /\ x.op \in {"pri_change", "mutex_free"}
  BY <1>1 DEF MutexRelease
<1>3. \/ MutexTaskPriReset(t, lists) = <<>>
      \/ \E x : MutexTaskPriReset(t, lists) = <<x>> /\ x.op \in {"pri_change", "mutex_free"}
  BY <1>2, Zenon DEF MutexTaskPriReset
<1>4. \A o, p : \E x : /\ x = Item("pri_change", o, NULL, p)
                       /\ x.op \in {"pri_change", "mutex_free"}
  BY <1>1
<1> QED
  BY <1>2, <1>3, <1>4, Zenon DEF Grown

\* A round of a section keeps what is behind its first item.
LEMMA ContinueTodo ==
    ASSUME IInv, Continue
    PROVE  Grown(Tail(todo), todo') \/ Grown(todo, todo')
<1>1. todo \in Seq(Items) /\ todo # <<>>
  BY DEF IInv, TodoSound, Continue, TaskPriChange, MutexLockPend, MutexHandOver, DelWaiters,
     TaskMutexFree, TaskDelEnd, CancelCoreSched, TickExpire, Doing
<1>2. Tail(todo) \in Seq(Items)
  BY <1>1, TailSeq
<1>3. Grown(Tail(todo), Tail(todo)) /\ Grown(todo, todo)
  BY <1>1, <1>2, GrownSame
<1>4. \A o, p : Item("pri_change", o, NULL, p).op = "pri_change"
  BY DEF Item
<1>5. CASE TaskPriChange
  <2> DEFINE t == Head(todo).task
             new == Head(todo).arg
             m == blk_obj[t]
             o == mutex_task[m]
             look == PriLook(b_prio[o], ToSet(mutex_list[o]), blk_list', prio')
             next == IF m \notin Mutexes \cap alive THEN <<>>
                     ELSE IF prio[o] > new THEN <<Item("pri_change", o, NULL, new)>>
                     ELSE IF prio[o] = prio[t] /\ look # prio[o]
                          THEN <<Item("pri_change", o, NULL, look)>>
                     ELSE <<>>
  <2>1. todo' = Tail(todo) \/ todo' = next \o Tail(todo)
    BY <1>5 DEF TaskPriChange
  <2>2. next = <<>> \/ \E p : next = <<Item("pri_change", o, NULL, p)>>
    <3> HIDE DEF o, t, m, look, new
    <3> QED
      BY Zenon
  <2> HIDE DEF next
  <2>3. <<>> \o Tail(todo) = Tail(todo)
    BY <1>2
  <2> QED
    BY <1>3, <2>1, <2>2, <2>3, ResetGrows
<1>6. CASE MutexLockPend \/ MutexHandOver \/ CancelCoreSched \/ DelWaiters
  BY <1>3, <1>6 DEF MutexLockPend, MutexHandOver, CancelCoreSched, DelWaiters
<1>7. CASE TaskMutexFree
  <2>1. \/ todo' = Tail(todo)
        \/ \E t, i : todo' = <<Item("mutex_free", t, NULL, i)>> \o Tail(todo)
    BY <1>7, Zenon DEF TaskMutexFree
  <2>2. \A o, p : Item("mutex_free", o, NULL, p).op = "mutex_free"
    BY DEF Item
  <2> QED
    BY <1>3, <2>1, <2>2 DEF Grown
<1>8. CASE TaskDelEnd
  <2>1. \/ todo' = Tail(todo)
        \/ todo' = MutexTaskPriReset(Head(todo).task, blk_list') \o Tail(todo)
        \/ todo' = <<>> \o Tail(todo)
    BY <1>8, Zenon DEF TaskDelEnd
  <2>2. <<>> \o Tail(todo) = Tail(todo)
    BY <1>2
  <2> QED
    BY <1>3, <2>1, <2>2, ResetGrows
<1>9. CASE TickExpire
  <2>1. \/ todo' = Tail(todo) \/ todo' = todo
        \/ todo' = MutexTaskPriReset(Head(tick_list), blk_list') \o todo
    BY <1>9, Zenon DEF TickExpire
  <2> QED
    BY <1>3, <2>1, ResetGrows
<1> QED
  BY <1>5, <1>6, <1>7, <1>8, <1>9 DEF Continue

\* A call begins a section with one item that is not about waiters for flags,
\* and what may come before it.
LEMMA BeginTodo ==
    ASSUME IInv, Next, todo = <<>>
    PROVE  \/ todo' = <<>>
           \/ \E it : it.op \notin IpcOps /\ Grown(<<it>>, todo')
<1> USE DEF IpcOps
<1>1. /\ \A op, t, o, n : Item(op, t, o, n).op = op
      /\ \A x : Grown(<<x>>, <<x>>) /\ <<>> \o <<x>> = <<x>>
  <2>1. ASSUME NEW x PROVE Grown(<<x>>, <<x>>) /\ <<>> \o <<x>> = <<x>>
    <3>1. <<x>> \in Seq({x})
      OBVIOUS
    <3>2. Grown(<<x>>, <<x>>)
      BY <3>1, GrownSame
    <3>3. <<>> \o <<x>> = <<x>>
      OBVIOUS
    <3> QED
      BY <3>2, <3>3
  <2> QED
    BY <2>1 DEF Item
<1>2. CASE MutexCall
  <2>1. ASSUME NEW m \in Mutexes, NEW ticks \in Waits, MutexLockBusy(m, ticks)
        PROVE  \E it : it.op \notin IpcOps /\ Grown(<<it>>, todo')
    <3>1. PICK it : it = Item("lock_pend", active, m, ticks)
      OBVIOUS
    <3>2. \/ todo' = <<>> \o <<it>>
          \/ \E o, p : todo' = <<Item("pri_change", o, NULL, p)>> \o <<it>>
      BY <2>1, <3>1, Zenon DEF MutexLockBusy
    <3>3. Grown(<<it>>, todo')
      BY <1>1, <3>2, ResetGrows
    <3> QED
      BY <1>1, <3>1, <3>3
  <2>2. ASSUME NEW m \in Mutexes, MutexUnlock(m)
        PROVE  \E it : it.op \notin IpcOps /\ Grown(<<it>>, todo')
    <3>1. Grown(<<Item("hand_over", active, m, 0)>>, todo')
      BY <2>2, ResetGrows DEF MutexUnlock
    <3> QED
      BY <1>1, <3>1
  <2>3. ASSUME NEW m \in Mutexes, MutexDel(m)
        PROVE  \E it : it.op \notin IpcOps /\ Grown(<<it>>, todo')
    <3>1. PICK it : it = Item("del_waiters", NULL, m, 0)
      OBVIOUS
    <3>2. \/ todo' = <<it>>
          \/ \E o, ms : todo' = MutexRelease(o, ms, blk_list) \o <<it>>
      BY <2>3, <3>1, Zenon DEF MutexDel
    <3>3. Grown(<<it>>, todo')
      BY <1>1, <3>2, ResetGrows
    <3> QED
      BY <1>1, <3>1, <3>3
  <2>4. ASSUME NEW m \in Mutexes,
               \/ MutexCreate(m) \/ MutexLockNested(m) \/ MutexLockFree(m)
               \/ MutexUnlockNested(m)
        PROVE  todo' = <<>>
    BY <2>4 DEF MutexCreate, MutexLockNested, MutexLockFree, MutexUnlockNested, ctlVars
  <2> QED
    BY <1>2, <2>1, <2>2, <2>3, <2>4, Zenon DEF MutexCall
<1>3. CASE TaskCall
  <2>1. ASSUME NEW t \in Tasks, TaskWaitAbort(t)
        PROVE  todo' = <<>> \/ \E it : it.op \notin IpcOps /\ Grown(<<it>>, todo')
    <3>1. \/ todo' = <<>>
          \/ \E p : todo' = <<Item("pri_change", mutex_task[blk_obj[t]], NULL, p)>>
      BY <2>1, Zenon DEF TaskWaitAbort, MutexTaskPriReset, MutexRelease
    <3> QED
      BY <1>1, <3>1
  <2>2. ASSUME NEW t \in Tasks, TaskCancel(t)
        PROVE  \E it : it.op \notin IpcOps /\ Grown(<<it>>, todo')
    <3> DEFINE it == Item("core_sched", NULL, NULL, 0)
    <3>1. \/ todo' = <<>> \o <<it>> \/ todo' = MutexTaskPriReset(t, blk_list') \o <<it>>
      BY <2>2, Zenon DEF TaskCancel
    <3>2. Grown(<<it>>, todo')
      BY <1>1, <3>1, ResetGrows
    <3> QED
      BY <1>1, <3>2
  <2>3. ASSUME NEW t \in Tasks, TaskDel(t)
        PROVE  \E it : it.op \notin IpcOps /\ Grown(<<it>>, todo')
    <3> DEFINE a == Item("mutex_free", t, NULL, 1)
               b == Item("del_end", t, NULL, 0)
    <3>1. todo' = <<a, b>>
      BY <2>3 DEF TaskDel
    <3>3. a.op = "mutex_free" /\ b.op = "del_end"
      BY <1>1
    <3> HIDE DEF a, b
    <3>2. <<a>> \o <<b>> = <<a, b>>
      <4>1. a \in {a, b} /\ b \in {a, b}
        OBVIOUS
      <4> QED
        BY <4>1, TwoElements
    <3>4. Grown(<<b>>, todo')
      BY <3>1, <3>2, <3>3 DEF Grown
    <3> QED
      BY <3>3, <3>4
  <2>4. CASE TaskPriChangeCall
    BY <1>1, <2>4, Zenon DEF TaskPriChangeCall
  <2>5. CASE \/ TaskYield
             \/ \E ticks \in Waits \ {FOREVER} : TaskSleep(ticks)
             \/ \E t \in Tasks, p \in NewPris, autorun \in BOOLEAN : TaskCreate(t, p, autorun)
             \/ \E t \in Tasks : TaskSuspend(t) \/ TaskResume(t)
             \/ \E t \in Tasks, p \in NewPris : TaskPriChangeCheck(t, p)
             \/ \E t \in Tasks, s \in TimeSlices : TaskTimeSliceSet(t, s)
             \/ \E t \in Tasks, policy \in {"KSCHED_FIFO", "KSCHED_RR"} :
                  SchedPolicySet(t, policy)
    BY <2>5 DEF TaskYield, TaskSleep, TaskCreate, TaskSuspend, TaskResume, TaskPriChangeCheck,
       TaskTimeSliceSet, SchedPolicySet, ctlVars
  <2> QED
    BY <1>3, <2>1, <2>2, <2>3, <2>4, <2>5, Zenon DEF TaskCall
<1>4. CASE \/ CoreSched \/ PendStateEndProc \/ PendSV \/ IdleLoop \/ IntrptEnter
           \/ TickEnter \/ IntrptExit \/ TimeSliceUpdate \/ SchedDisable \/ SchedEnable
  BY <1>4 DEF CoreSched, PendStateEndProc, PendSV, IdleLoop, IntrptEnter, TickEnter,
     IntrptExit, TimeSliceUpdate, SchedDisable, SchedEnable, vars, ctlVars
<1>5. CASE TickProc
  <2>1. PICK it : it = Item("tick", NULL, NULL, 0)
    OBVIOUS
  <2>2. todo' = <<it>> /\ it.op = "tick"
    BY <1>1, <1>5, <2>1 DEF TickProc
  <2> QED
    BY <1>1, <2>2
<1>6. CASE Continue
  BY <1>6 DEF Continue, TaskPriChange, MutexLockPend, MutexHandOver, DelWaiters,
     TaskMutexFree, TaskDelEnd, CancelCoreSched, TickExpire, Doing
<1> QED
  BY <1>2, <1>3, <1>4, <1>5, <1>6, Zenon DEF Next

\* A step of the core does not begin the loop of event_set, nor go on with it.
LEMMA CoreLoop ==
    ASSUME IInv, LoopSound, Next
    PROVE  ~Looping(todo) /\ ~Looping(todo')
<1>1. CASE todo = <<>>
  <2>1. CASE todo' = <<>>
    BY <1>1, <2>1, NoWork
  <2>2. ASSUME NEW it, it.op \notin IpcOps, Grown(<<it>>, todo') PROVE ~Looping(todo')
    <3>1. <<it>> \in Seq({it}) /\ ToSet(<<it>>) = {it}
      BY DEF ToSet
    <3>2. \A x \in ToSet(todo') : x \in ToSet(<<it>>) \/ x.op \in {"pri_change", "mutex_free"}
      BY <2>2, <3>1, GrownSet
    <3> QED
      BY <2>2, <3>1, <3>2 DEF Looping, IpcOps
  <2> QED
    BY <1>1, <2>1, <2>2, BeginTodo, NoWork
<1>2. CASE todo # <<>>
  <2>1. Continue
    BY <1>2, OnlyContinue
  <2>2. todo \in Seq(Items)
    BY DEF IInv, TodoSound
  <2>3. Tail(todo) \in Seq(Items) /\ ToSet(Tail(todo)) \subseteq ToSet(todo)
    BY <1>2, <2>2, TailSeq
  <2>4. \A x \in ToSet(todo') : x \in ToSet(todo) \/ x.op \in {"pri_change", "mutex_free"}
    BY <2>1, <2>2, <2>3, ContinueTodo, GrownSet
  <2>5. ASSUME NEW it \in ToSet(todo), it.op = "event_wake" PROVE FALSE
    <3>1. todo = <<it>>
      BY <2>5 DEF LoopSound
    <3>2. Head(todo).op = "event_wake"
      BY <2>5, <3>1
    <3> QED
      BY <2>1, <3>2 DEF Continue, TaskPriChange, MutexLockPend, MutexHandOver, DelWaiters,
         TaskMutexFree, TaskDelEnd, CancelCoreSched, TickExpire, Doing
  <2> QED
    BY <2>4, <2>5 DEF Looping
<1> QED
  BY <1>1, <1>2

\* In a step of the core tasks begin to wait for mutexes that exist only.
LEMMA CoreShrinks ==
    ASSUME IInv, IInv', CoreKind, NEW o \in Objs, o \notin Mutexes \cap alive
    PROVE  ToSet(blk_list'[o]) \subseteq ToSet(blk_list[o])
<1> SUFFICES ASSUME NEW x \in ToSet(blk_list'[o]) PROVE x \in ToSet(blk_list[o])
  OBVIOUS
<1>1. blk_list'[o] \in Seq(Tasks)
  BY DEF IInv, BlkExact
<1>2. x \in Tasks
  BY <1>1, MemberAt
<1>3. task_state'[x] \in Pending /\ blk_obj'[x] = o /\ o # NULL
  BY <1>2, Constants DEF IInv, BlkExact
<1>4. blk_obj \in [Tasks -> Objs \cup {NULL}]
  BY DEF IInv, FieldsOK
<1>5. CASE WaitKept \/ WaitTicks
  BY <1>2, <1>3, <1>5 DEF WaitKept, WaitTicks, waitVars, IInv, BlkExact
<1>6. ASSUME NEW t \in Tasks, WaitEnds(t) PROVE x \in ToSet(blk_list[o])
  BY <1>6, EndShrinks
<1>7. ASSUME NEW t \in Tasks, WaitDeleted(t) PROVE x \in ToSet(blk_list[o])
  BY <1>2, <1>3, <1>7 DEF WaitDeleted, Timed, IInv, BlkExact
<1>8. ASSUME NEW m \in (Mutexes \cap alive) \cup {NULL}, NEW ticks \in Waits,
             WaitBegins(m, ticks)
      PROVE  x \in ToSet(blk_list[o])
  <2>1. active \in Tasks
    BY <1>8 DEF WaitBegins, AppTasks
  <2>2. x # active
    <3>1. CASE m = NULL
      BY <1>3, <1>8, <3>1 DEF WaitBegins, Pending
    <3>2. CASE m # NULL
      BY <1>3, <1>4, <1>8, <2>1, <3>2 DEF WaitBegins
    <3> QED
      BY <3>1, <3>2
  <2>3. task_state[x] \in Pending /\ blk_obj[x] = o
    BY <1>2, <1>3, <1>4, <1>8, <2>1, <2>2 DEF WaitBegins
  <2> QED
    BY <1>2, <2>3 DEF IInv, BlkExact
<1>9. ASSUME NEW t \in Tasks, NEW p \in Pris, WaitPri(t, p) PROVE x \in ToSet(blk_list[o])
  BY <1>2, <1>3, <1>9 DEF WaitPri, IInv, BlkExact
<1>10. ASSUME NEW t \in Tasks, NEW p \in Pris, WaitCreated(t, p) PROVE x \in ToSet(blk_list[o])
  BY <1>2, <1>3, <1>4, <1>10 DEF WaitCreated, Timed, IInv, BlkExact
<1> QED
  BY <1>5, <1>6, <1>7, <1>8, <1>9, <1>10 DEF CoreKind

\* It creates and deletes mutexes only.
LEMMA CoreAlive ==
    ASSUME IInv, Next
    PROVE  \/ alive' = alive
           \/ \E m \in Mutexes : alive' = alive \cup {m}
           \/ \E m \in Mutexes : MutexDel(m) /\ alive' = alive \ {m}
<1>1. CASE MutexCall
  BY <1>1, ZenonT(60) DEF MutexCall, MutexCreate, MutexLockNested, MutexLockFree, MutexLockBusy,
     MutexUnlockNested, MutexUnlock, MutexDel, dataVars
<1>2. CASE TaskCall
  BY <1>2 DEF TaskCall, TaskYield, TaskSleep, TaskPriChangeCall, TaskCreate, TaskSuspend,
     TaskResume, TaskPriChangeCheck, TaskWaitAbort, TaskCancel, TaskDel, TaskTimeSliceSet,
     SchedPolicySet, dataVars
<1>3. CASE \/ CoreSched \/ PendStateEndProc \/ PendSV \/ IdleLoop \/ IntrptEnter
           \/ TickEnter \/ IntrptExit \/ TimeSliceUpdate \/ SchedDisable \/ SchedEnable
           \/ TickProc
  BY <1>3 DEF CoreSched, PendStateEndProc, PendSV, IdleLoop, IntrptEnter, TickEnter,
     IntrptExit, TimeSliceUpdate, SchedDisable, SchedEnable, TickProc, dataVars, vars
<1>4. CASE Continue
  BY <1>4 DEF Continue, TaskPriChange, MutexLockPend, MutexHandOver, DelWaiters,
     TaskMutexFree, TaskDelEnd, CancelCoreSched, TickExpire, dataVars
<1> QED
  BY <1>1, <1>2, <1>3, <1>4 DEF Next

\* The deletion of an object is not over before its last waiter is woken.
LEMMA DelGoesOn ==
    ASSUME IInv, Next, NEW it \in ToSet(todo), it.op = "del_waiters"
    PROVE  it \in ToSet(todo') \/ (blk_list[it.obj] = <<>> /\ UNCHANGED blk_list)
<1>1. todo # <<>> /\ todo \in Seq(Items)
  BY NoWork DEF IInv, TodoSound
<1>2. Continue
  BY <1>1, OnlyContinue
<1>3. it = Head(todo) \/ it \in ToSet(Tail(todo))
  BY <1>1, HeadOrTail
<1>4. CASE it \in ToSet(Tail(todo))
  <2>1. Tail(todo) \in Seq(Items) /\ ToSet(Tail(todo)) \subseteq ToSet(todo)
    BY <1>1, TailSeq
  <2>2. it \in ToSet(todo')
    BY <1>1, <1>2, <1>4, <2>1, ContinueTodo, GrownSet
  <2> QED
    BY <2>2
<1>5. CASE it = Head(todo)
  <2>1. DelWaiters
    BY <1>2, <1>5 DEF Continue, TaskPriChange, MutexLockPend, MutexHandOver, DelWaiters,
       TaskMutexFree, TaskDelEnd, CancelCoreSched, TickExpire, Doing
  <2> QED
    BY <1>5, <2>1 DEF DelWaiters, waitVars
<1> QED
  BY <1>3, <1>4, <1>5

\* So an object that does not exist gets no waiters and loses those it has.
LEMMA CoreObjects ==
    ASSUME IInv, IInv', ObjSound, Next, UNCHANGED obj_type
    PROVE  ObjSound' /\ SettledBut(NULL)
<1>1. CoreKind
  BY NextKind
<1>2. \A x \in Objs : blk_list[x] \in Seq(Tasks) /\ blk_list'[x] \in Seq(Tasks)
  BY DEF IInv, BlkExact
<1>3. Others \cap Mutexes = {} /\ Others \subseteq Objs
  BY KernelAssumption DEF Objs
<1>4. SettledBut(NULL)
  BY <1>1, <1>3, CoreShrinks DEF SettledBut
<1>5. \A o \in Others : o \in alive' <=> o \in alive
  BY <1>3, CoreAlive
<1>6. ASSUME NEW o \in Objs \ alive', o \notin alive
      PROVE  blk_list'[o] = <<>> \/ \E it \in ToSet(todo') : it.op = "del_waiters" /\ it.obj = o
  <2>1. CASE blk_list[o] = <<>>
    <3>1. ToSet(blk_list'[o]) \subseteq ToSet(blk_list[o])
      BY <1>1, <1>6, CoreShrinks
    <3> QED
      BY <1>2, <2>1, <3>1, EmptyList
  <2>2. ASSUME NEW it \in ToSet(todo), it.op = "del_waiters", it.obj = o
        PROVE  \/ blk_list'[o] = <<>>
               \/ \E x \in ToSet(todo') : x.op = "del_waiters" /\ x.obj = o
    BY <2>2, DelGoesOn
  <2> QED
    BY <1>6, <2>1, <2>2 DEF ObjSound
<1>7. ASSUME NEW o \in Objs \ alive', o \in alive
      PROVE  \E it \in ToSet(todo') : it.op = "del_waiters" /\ it.obj = o
  <2>1. o \in Mutexes /\ MutexDel(o)
    BY <1>7, CoreAlive
  <2>2. PICK it : it = Item("del_waiters", NULL, o, 0)
    OBVIOUS
  <2>3. it.op = "del_waiters" /\ it.obj = o
    BY <2>2 DEF Item
  <2>4. <<it>> \in Seq({it}) /\ ToSet(<<it>>) = {it}
    BY DEF ToSet
  <2>5. Grown(<<it>>, todo')
    <3>1. \/ todo' = <<it>>
          \/ \E t, ms : todo' = MutexRelease(t, ms, blk_list) \o <<it>>
      BY <2>1, <2>2, Zenon DEF MutexDel
    <3>2. Grown(<<it>>, <<it>>)
      BY <2>4, GrownSame
    <3> QED
      BY <3>1, <3>2, ResetGrows
  <2>6. ToSet(<<it>>) \subseteq ToSet(todo')
    BY <2>4, <2>5, GrownSet
  <2> QED
    BY <2>3, <2>4, <2>6
<1>8. ObjSound'
  BY <1>5, <1>6, <1>7 DEF ObjSound
<1> QED
  BY <1>4, <1>8

\* A step of the core keeps the invariant.
LEMMA CoreStep ==
    ASSUME "task_suspend" \notin IsrCalls, IpcIInv, Next, QueueCore, EventCore,
           UNCHANGED <<obj_type, count>>
    PROVE  IpcIInv'
<1>1. IInv /\ WaitIInv /\ ObjSound /\ EventSound /\ EventTypes /\ NULL \notin Others
  BY KernelAssumption DEF IpcIInv, WaitIInv, EventSound
<1>2. WaitIInv' /\ IInv'
  BY <1>1, WaitNext DEF WaitIInv
<1>3. ~Looping(todo) /\ ~Looping(todo')
  BY <1>1, CoreLoop DEF IpcIInv
<1>4. ObjSound' /\ SettledBut(NULL)
  BY <1>1, <1>2, CoreObjects
<1>5. UNCHANGED <<cur_num, flags, cur_event_flags>>
  BY DEF QueueCore, EventCore
<1>6. TokenSound' /\ MessageSound'
  BY <1>1, <1>2, <1>4, <1>5, TokenFrame, MessageFrame DEF IpcIInv
<1>7. EventTypes'
  <2>1. pend' = [t \in Tasks |-> IF call'[t] = NULL THEN <<>> ELSE pend[t]]
    BY DEF EventCore
  <2>2. pend' \in [Tasks -> EventGets \cup {<<>>}]
    BY <1>1, <2>1 DEF EventTypes
  <2> QED
    BY <1>1, <1>5, <2>2 DEF EventTypes
<1>8. \A t \in Tasks : task_state'[t] \in Pending => pend'[t] = pend[t]
  BY <1>2, Constants DEF IInv, PendSound, EventCore
<1>9. EventSound'
  BY <1>1, <1>2, <1>3, <1>4, <1>5, <1>7, <1>8, EventFrame
<1>10. LoopSound'
  BY <1>3 DEF LoopSound, Looping
<1> QED
  BY <1>2, <1>4, <1>6, <1>9, <1>10 DEF IpcIInv

-----------------------------------------------------------------------------
(* The theorems.                                                            *)

\* Nobody waits at first.
LEMMA IpcInitInv == IpcInit => IpcIInv
<1> SUFFICES ASSUME IpcInit PROVE IpcIInv
  OBVIOUS
<1>1. Init /\ SemInit /\ QueueInit /\ EventInit /\ obj_type \in [Others -> Kinds]
  BY DEF IpcInit
<1>2. /\ todo = <<>> /\ alive = Objs /\ blk_list = [o \in Objs |-> <<>>]
      /\ Others \subseteq Objs
  BY <1>1 DEF Init, Objs
<1>3. WaitIInv
  BY <1>1, WaitInit
<1>4. ObjSound
  BY <1>1, <1>2 DEF ObjSound, Kinds, NONE
<1>5. TokenSound
  <2>1. SemCounts \cup {0} \subseteq 0..MaxCount
    BY SemAssumption
  <2>2. count \in [Others -> SemCounts \cup {0}]
    BY <1>1 DEF SemInit
  <2>3. count \in [Others -> 0..MaxCount]
    BY <2>1, <2>2
  <2> QED
    BY <1>2, <2>3 DEF TokenSound
<1>6. MessageSound
  BY <1>1, <1>2 DEF MessageSound, QueueInit
<1>7. EventSound /\ LoopSound
  <2>1. EventTypes
    BY <1>1 DEF EventInit, EventTypes
  <2>2. \A e \in Others : ToSet(blk_list[e]) = {}
    BY <1>2 DEF ToSet
  <2> QED
    BY <1>2, <2>1, <2>2, NoWork DEF EventSound, LoopSound, Unmet
<1> QED
  BY <1>3, <1>4, <1>5, <1>6, <1>7 DEF IpcIInv

\* A step that changes nothing.
LEMMA IpcStutter == ASSUME IpcIInv, UNCHANGED ipcVars PROVE IpcIInv'
<1>1. UNCHANGED <<vars, obj_type, count, cur_num, flags, pend, cur_event_flags>>
  BY DEF ipcVars, queueVars, eventVars
<1>2. UNCHANGED <<blk_list, alive, todo, prio, task_state, tick_list, tick_remain>>
  BY <1>1 DEF vars, dataVars, waitVars, ctlVars
<1>3. IInv'
  BY <1>1, StutterInv DEF IpcIInv, WaitIInv
<1>4. WaitIInv'
  BY <1>2, <1>3 DEF IpcIInv, WaitIInv
<1>5. ObjSound' /\ TokenSound' /\ MessageSound'
  BY <1>1, <1>2 DEF IpcIInv, ObjSound, TokenSound, MessageSound, IsQueue, Is
<1>6. EventSound'
  BY <1>1, <1>2 DEF IpcIInv, EventSound, EventTypes, Unmet, Is
<1>7. LoopSound'
  BY <1>1, <1>2 DEF IpcIInv, LoopSound, Is
<1> QED
  BY <1>4, <1>5, <1>6, <1>7 DEF IpcIInv

\* The invariant of the composed specification is inductive: the one about
\* waiting, and that what a task waits for is not there while it waits.
THEOREM IpcInductive ==
    ASSUME "task_suspend" \notin IsrCalls PROVE IpcSpec => []IpcIInv
<1>1. IpcInit => IpcIInv
  BY IpcInitInv
<1>2. IpcIInv /\ [IpcNext]_ipcVars => IpcIInv'
  BY IpcStutter, CoreStep, SemCalls, QueueCalls, EventCalls DEF IpcNext
<1> QED
  BY <1>1, <1>2, PTL DEF IpcSpec

\* With tasks that block on semaphores, queues and event flags as well, every
\* blocked list holds exactly the tasks that pend on its object, the most
\* urgent first.
THEOREM IpcPendListCorrect ==
    ASSUME "task_suspend" \notin IsrCalls PROVE IpcSpec => []PendListExact
<1>1. IpcIInv => PendListExact
  BY WaitConsequences DEF IpcIInv
<1> QED
  BY <1>1, IpcInductive, PTL

\* sem_give, krhino_sem_take and krhino_sem_count_set never leave a token lying
\* while a task waits for it, whatever the timeouts, aborts, cancellations and
\* deletions in between.
THEOREM NoTokenLeft ==
    ASSUME "task_suspend" \notin IsrCalls PROVE IpcSpec => []NoTokenBesideWaiters
<1>1. IpcIInv => NoTokenBesideWaiters
  BY DEF IpcIInv, TokenSound, NoTokenBesideWaiters
<1> QED
  BY <1>1, IpcInductive, PTL

\* msg_send, buf_queue_send and the receives never leave a message lying while a
\* task waits for one.
THEOREM NoMessageLeft ==
    ASSUME "task_suspend" \notin IsrCalls PROVE IpcSpec => []NoMessageBesideWaiters
<1>1. IpcIInv => NoMessageBesideWaiters
  BY DEF IpcIInv, MessageSound, NoMessageBesideWaiters
<1> QED
  BY <1>1, IpcInductive, PTL

\* Between the sections of event_set no task waits for flags that are there,
\* although waiters are served one by one and some have flags cleared.
THEOREM NoWaiterLeft ==
    ASSUME "task_suspend" \notin IsrCalls PROVE IpcSpec => []NoSatisfiedWaiter
<1>1. IpcIInv => NoSatisfiedWaiter
  BY NoWork DEF IpcIInv, EventSound, Unmet, NoSatisfiedWaiter
<1> QED
  BY <1>1, IpcInductive, PTL

\* At the end of the loop of event_set no waiter is left that the flags it was
\* called with would have met, although every waiter it woke was taken off the
\* list that the loop walks.
THEOREM EventSetCorrect ==
    ASSUME "task_suspend" \notin IsrCalls PROVE IpcSpec => []SetServesAll
<1>1. ASSUME IpcIInv PROVE SetServesAll
  <2> SUFFICES ASSUME Doing("event_wake"), Head(todo).task = NULL,
                      NEW t \in ToSet(blk_list[Head(todo).obj])
               PROVE  ~Met(pend[t], cur_event_flags)
    BY DEF SetServesAll
  <2>1. IInv /\ "event_wake" \in IpcOps
    BY <1>1 DEF IpcIInv, WaitIInv, IpcOps
  <2>2. PICK it : /\ it = Head(todo) /\ ToSet(todo) = {it}
                  /\ it.op = "event_wake" /\ it.obj \in Others
    BY <2>1, LoopItem
  <2> DEFINE l == blk_list[it.obj]
  <2>3. Served(l, NULL, pend, cur_event_flags)
    BY <1>1, <2>2 DEF IpcIInv, LoopSound
  <2>4. l \in Seq(Tasks) /\ NULL \notin Tasks /\ t \in ToSet(l)
    BY <2>1, <2>2, KernelAssumption DEF IInv, BlkExact, Objs
  <2> HIDE DEF l
  <2>5. PICK k \in 1..Len(l) + 1 :
           /\ IF k = Len(l) + 1 THEN NULL = NULL ELSE NULL = l[k]
           /\ \A i \in 1..Len(l) : i < k => ~Met(pend[l[i]], cur_event_flags)
    BY <2>3 DEF Served
  <2>6. Len(l) \in Nat /\ \A i \in 1..Len(l) : l[i] \in Tasks
    BY <2>4
  <2>7. k = Len(l) + 1
    BY <2>4, <2>5, <2>6
  <2>8. PICK i \in 1..Len(l) : l[i] = t
    BY <2>4, MemberAt
  <2> QED
    BY <2>5, <2>6, <2>7, <2>8
<1> QED
  BY <1>1, IpcInductive, PTL

\* xxx_del and xxx_dyn_del leave no task behind that waits for the object they
\* deleted: when their section is over nobody does.
THEOREM DeletionCorrect ==
    ASSUME "task_suspend" \notin IsrCalls PROVE IpcSpec => []NoWaiterOnDeadObject
<1>1. IpcIInv => NoWaiterOnDeadObject
  BY NoWork DEF IpcIInv, ObjSound, NoWaiterOnDeadObject
<1> QED
  BY <1>1, IpcInductive, PTL
-----------------------------------------------------------------------------
(* The tokens of the semaphores: who was handed one.                        *)

\* What the step does to task x has nothing to do with tokens.
Still(x) == \A s \in Others : x \in Granted(s)' <=> x \in Granted(s)

\* The task t loses what it was handed: it returns with it, or is told that it
\* was cancelled, or is deleted.
Drops(t) ==
    /\ pc'[t] = "run" \/ task_state'[t] = "K_DELETED" \/ cancel'[t]
    /\ \A s \in Others : t \notin Granted(s)'

\* All that a step of the core may do to the tokens.
NoneGranted ==
    \/ \A x \in Tasks : Still(x)
    \/ \E t \in Tasks : Drops(t) /\ \A x \in Tasks : x # t => Still(x)

\* A task is where it was, as far as the answer of its call goes.
AnswerKept(x) ==
    /\ call'[x] = call[x] /\ cancel'[x] = cancel[x] /\ blk_state'[x] = blk_state[x]
    /\ task_state'[x] \in Pending <=> task_state[x] \in Pending
    /\ pc'[x] \in {"blk", "end"} <=> pc[x] \in {"blk", "end"}

\* A task is in no call that may have been handed a token, or its answer stands.
LEMMA TaskStill ==
    ASSUME NEW x \in Tasks,
           \/ AnswerKept(x)
           \/ call[x] \notin Others /\ call'[x] \notin Others
           \/ pc[x] \notin {"blk", "end"} /\ pc'[x] \notin {"blk", "end"}
    PROVE  Still(x)
<1> SUFFICES ASSUME NEW s \in Others PROVE x \in Granted(s)' <=> x \in Granted(s)
  BY DEF Still
<1>1. CASE AnswerKept(x)
  BY <1>1 DEF AnswerKept, Granted, PendStatus
<1>2. CASE call[x] \notin Others /\ call'[x] \notin Others
  BY <1>2 DEF Granted
<1>3. CASE pc[x] \notin {"blk", "end"} /\ pc'[x] \notin {"blk", "end"}
  BY <1>3 DEF Granted
<1> QED
  BY <1>1, <1>2, <1>3

\* A task that goes on inside its call is in it as before.
LEMMA CallKept ==
    ASSUME IInv, PcKept, NEW x \in Tasks
    PROVE  /\ pc'[x] \in {"blk", "end"} <=> pc[x] \in {"blk", "end"}
           /\ pc[x] \in {"run", "sched"} => pc'[x] \in {"run", "sched"}
<1>1. pc[x] \in {"run", "sched", "blk", "end", "pri"}
  BY DEF IInv, FieldsOK
<1> QED
  BY <1>1 DEF PcKept

\* A step inside the calls.
LEMMA PhaseStill ==
    ASSUME IInv, PhaseKept, UNCHANGED cancel PROVE \A x \in Tasks : Still(x)
<1> SUFFICES ASSUME NEW x \in Tasks PROVE AnswerKept(x)
  BY TaskStill
<1>1. pc'[x] \in {"blk", "end"} <=> pc[x] \in {"blk", "end"}
  BY CallKept DEF PhaseKept
<1> QED
  BY <1>1 DEF AnswerKept, PhaseKept

\* A wait that fails hands out nothing.
LEMMA FailStill ==
    ASSUME MutexIInv, NEW t \in Tasks, WaitFails(t)
    PROVE  /\ \A x \in Tasks : x # t /\ cancel'[x] = cancel[x] => Still(x)
           /\ \A s \in Others : t \notin Granted(s) /\ t \notin Granted(s)'
           /\ Still(t)
<1>1. ASSUME NEW x \in Tasks, x # t, cancel'[x] = cancel[x] PROVE AnswerKept(x)
  <2>1. pc'[x] \in {"blk", "end"} <=> pc[x] \in {"blk", "end"}
    BY CallKept DEF WaitFails, MutexIInv
  <2> QED
    BY <1>1, <2>1 DEF AnswerKept, WaitFails
<1>2. ASSUME NEW s \in Others PROVE t \notin Granted(s) /\ t \notin Granted(s)'
  <2>1. CASE task_state[t] \in Pending
    <3>1. blk_state'[t] # "BLK_FINISH"
      BY <2>1 DEF WaitFails
    <3> QED
      BY <2>1, <3>1 DEF Granted, PendStatus
  <2>2. CASE task_state[t] \notin Pending
    <3>1. task_state[t] \in Sleeping
      BY <2>2 DEF WaitFails, Timed
    <3>2. call[t] = NULL /\ call'[t] = NULL
      BY <3>1 DEF MutexIInv, CallsSound, WaitFails
    <3>3. s # NULL
      BY KernelAssumption
    <3> QED
      BY <3>2, <3>3 DEF Granted
  <2> QED
    BY <2>1, <2>2
<1>3. Still(t)
  BY <1>2 DEF Still
<1> QED
  BY <1>1, <1>2, <1>3, TaskStill

\* The steps of the core that change who waits, or how far a call is.
LEMMA CallsGranted ==
    ASSUME MutexIInv, MutexIInv',
           \/ PendStateEndProc \/ TaskPriChangeCall
           \/ \E t \in Tasks, p \in NewPris : TaskPriChangeCheck(t, p)
           \/ \E t \in Tasks : TaskWaitAbort(t) \/ TaskCancel(t)
    PROVE  NoneGranted
<1>1. IInv /\ IInv' /\ active \in Tasks
  BY DEF MutexIInv, IInv, FieldsOK
<1>2. CASE PendStateEndProc
  <2>1. /\ pc' = [pc EXCEPT ![active] = "run"] /\ call' = [call EXCEPT ![active] = NULL]
        /\ UNCHANGED <<task_state, cancel, blk_state>>
    BY <1>2 DEF PendStateEndProc, tcbVars, waitVars
  <2>2. pc'[active] = "run"
    BY <1>1, <2>1 DEF IInv, FieldsOK
  <2>3. \A x \in Tasks : x # active => AnswerKept(x)
    BY <1>1, <2>1 DEF AnswerKept, IInv, FieldsOK
  <2>4. \A x \in Tasks : x # active => Still(x)
    BY <2>3, TaskStill
  <2>5. Drops(active)
    BY <2>2 DEF Drops, Granted
  <2> QED
    BY <1>1, <2>4, <2>5 DEF NoneGranted
<1>3. CASE TaskPriChangeCall \/ \E t \in Tasks, p \in NewPris : TaskPriChangeCheck(t, p)
  <2>1. PriCall
    BY <1>1, <1>3, PriCallSteps
  <2>2. UNCHANGED cancel
    BY <1>3 DEF TaskPriChangeCall, TaskPriChangeCheck, dataVars, tcbVars
  <2>3. \A x \in Tasks : x # active => AnswerKept(x)
    BY <2>1, <2>2 DEF AnswerKept, PriCall
  <2>4. pc[active] \notin {"blk", "end"} /\ pc'[active] \notin {"blk", "end"}
    BY <2>1 DEF PriCall
  <2>5. \A x \in Tasks : Still(x)
    BY <2>3, <2>4, TaskStill
  <2> QED
    BY <2>5 DEF NoneGranted
<1>4. ASSUME NEW t \in Tasks, TaskWaitAbort(t) PROVE NoneGranted
  <2>1. PhaseKept \/ WaitFails(t)
    BY <1>1, <1>4, AbortSteps
  <2>2. UNCHANGED cancel
    BY <1>4 DEF TaskWaitAbort, tcbVars
  <2>3. \A x \in Tasks : Still(x)
    BY <1>1, <2>1, <2>2, PhaseStill, FailStill
  <2> QED
    BY <2>3 DEF NoneGranted
<1>5. ASSUME NEW t \in Tasks, TaskCancel(t) PROVE NoneGranted
  <2>1. PhaseKept \/ WaitFails(t)
    BY <1>1, <1>5, AbortSteps, SMTT(30)
  <2>2. cancel'[t] /\ \A x \in Tasks : x # t => cancel'[x] = cancel[x]
    BY <1>1, <1>5 DEF TaskCancel, IInv, FieldsOK
  <2>3. \A x \in Tasks : x # t => Still(x)
    <3>1. CASE PhaseKept
      <4>1. \A x \in Tasks : x # t => AnswerKept(x)
        BY <1>1, <2>2, <3>1, CallKept DEF AnswerKept, PhaseKept
      <4> QED
        BY <4>1, TaskStill
    <3>2. CASE WaitFails(t)
      BY <2>2, <3>2, FailStill
    <3> QED
      BY <2>1, <3>1, <3>2
  <2>4. \A s \in Others : t \notin Granted(s)'
    BY <2>2, KernelAssumption DEF Granted, PendStatus
  <2> QED
    BY <2>2, <2>3, <2>4 DEF NoneGranted, Drops
<1> QED
  BY <1>2, <1>3, <1>4, <1>5

\* The calls on mutexes.
LEMMA MutexCallGranted == ASSUME MutexIInv, MutexCall PROVE NoneGranted
<1>1. IInv /\ UNCHANGED <<task_state, cancel, blk_state, call>>
  BY DEF MutexIInv, MutexCall, MutexCreate, MutexLockNested, MutexLockFree, MutexLockBusy,
     MutexUnlockNested, MutexUnlock, MutexDel, dataVars, tcbVars, waitVars, ctlVars
<1>2. PcKept
  <2>1. /\ ExitSched \/ UNCHANGED pc
        /\ \E c : Calling(c)
    BY DEF MutexCall, MutexCreate, MutexLockNested, MutexLockFree, MutexLockBusy,
       MutexUnlockNested, MutexUnlock, MutexDel, ctlVars
  <2>2. pc[active] = "run"
    BY <2>1 DEF Calling
  <2> QED
    BY <1>1, <2>1, <2>2, ExitKeepsPc
<1>3. \A x \in Tasks : AnswerKept(x)
  BY <1>1, <1>2, CallKept DEF AnswerKept
<1> QED
  BY <1>3, TaskStill, SMTT(30) DEF NoneGranted

\* The task on the CPU begins to wait for a mutex, or to sleep.
LEMMA BlockGranted ==
    ASSUME MutexIInv, MutexLockPend \/ \E ticks \in Waits : TaskSleep(ticks)
    PROVE  NoneGranted
<1>1. IInv /\ active \in Tasks /\ Mutexes \cap Others = {} /\ NULL \notin Others
  BY KernelAssumption DEF MutexIInv, IInv, FieldsOK
<1>2. CASE MutexLockPend
  <2>1. /\ Head(todo).obj \in Mutexes /\ pc[active] = "run"
        /\ PendToBlkObj(Head(todo).obj, Head(todo).arg) /\ UNCHANGED cancel
    BY <1>1, <1>2, DoingItem DEF MutexLockPend, WorkItem, ItemSound, tcbVars
  <2>2. call[active] = NULL
    BY <1>1, <2>1 DEF MutexIInv, CallsSound
  <2>3. call'[active] = Head(todo).obj
    BY <1>1, <2>1 DEF PendToBlkObj, IInv, FieldsOK
  <2>4. \A x \in Tasks : x # active => AnswerKept(x)
    BY <1>1, <2>1 DEF PendToBlkObj, AnswerKept, IInv, FieldsOK
  <2>5. \A x \in Tasks : Still(x)
    BY <1>1, <2>1, <2>2, <2>3, <2>4, TaskStill
  <2> QED
    BY <2>5 DEF NoneGranted
<1>3. ASSUME NEW ticks \in Waits, TaskSleep(ticks) PROVE NoneGranted
  <2>1. call[active] = NULL /\ call' = call /\ UNCHANGED cancel
    BY <1>3, CallerMutex DEF TaskSleep, tcbVars
  <2>2. \A x \in Tasks : x # active => AnswerKept(x)
    BY <1>1, <1>3, <2>1 DEF TaskSleep, AnswerKept, IInv, FieldsOK
  <2>3. \A x \in Tasks : Still(x)
    BY <1>1, <2>1, <2>2, TaskStill
  <2> QED
    BY <2>3 DEF NoneGranted
<1> QED
  BY <1>2, <1>3

\* krhino_task_create: the TCB is that of no task that waits or was woken.
LEMMA CreateGranted ==
    ASSUME MutexIInv, NEW t \in Tasks, NEW p \in NewPris, NEW autorun \in BOOLEAN,
           TaskCreate(t, p, autorun)
    PROVE  NoneGranted
<1>1. /\ IInv /\ active \in Tasks /\ pc[active] = "run" /\ NULL \notin Others
      /\ UNCHANGED call /\ ~Created(t)
  BY CallerMutex, KernelAssumption DEF TaskCreate, MutexIInv
<1>2. call[t] = NULL
  BY <1>1 DEF MutexIInv, CallsSound
<1>3. ASSUME NEW x \in Tasks, x # t PROVE AnswerKept(x)
  BY <1>1, <1>3 DEF TaskCreate, AnswerKept, IInv, FieldsOK
<1>4. \A x \in Tasks : Still(x)
  BY <1>1, <1>2, <1>3, TaskStill
<1> QED
  BY <1>4 DEF NoneGranted

\* The waiter that a mutex is handed to has no token.
LEMMA HandGranted ==
    ASSUME MutexIInv, NEW w \in Tasks, task_state[w] \in Pending, blk_obj[w] \in Mutexes,
           PendTaskWakeup(w, "BLK_FINISH"), PcKept, UNCHANGED <<cancel, call>>
    PROVE  NoneGranted
<1>1. IInv
  BY DEF MutexIInv
<1>2. call[w] \notin Others
  BY <1>1, KernelAssumption DEF IInv, PendSound
<1>3. ASSUME NEW x \in Tasks, x # w PROVE AnswerKept(x)
  <2>1. pc'[x] \in {"blk", "end"} <=> pc[x] \in {"blk", "end"}
    BY <1>1, CallKept
  <2> QED
    BY <1>1, <1>3, <2>1 DEF PendTaskWakeup, LeaveWait, AnswerKept, IInv, FieldsOK
<1>4. \A x \in Tasks : Still(x)
  BY <1>2, <1>3, TaskStill
<1> QED
  BY <1>4 DEF NoneGranted

\* A mutex changes hands.
LEMMA MutexGranted == ASSUME MutexIInv, MutexHandOver \/ TaskMutexFree PROVE NoneGranted
<1>1. IInv /\ UNCHANGED <<cancel, call>>
  <2>1. IInv
    BY DEF MutexIInv
  <2>2. UNCHANGED <<cancel, call>>
    BY DEF MutexHandOver, TaskMutexFree, tcbVars
  <2> QED
    BY <2>1, <2>2
<1>2. ASSUME PcKept, UNCHANGED <<task_state, waitVars>> PROVE NoneGranted
  <2>1. PhaseKept
    BY <1>1, <1>2 DEF PhaseKept, Created, waitVars
  <2> QED
    BY <1>1, <2>1, PhaseStill DEF NoneGranted
<1>3. CASE MutexHandOver
  <2> DEFINE m == Head(todo).obj
             w == Head(blk_list[m])
  <2>1. Doing("hand_over")
    BY <1>3 DEF MutexHandOver
  <2>2. /\ Head(todo).op = "hand_over" /\ m \in Mutexes /\ Head(todo) \in Marks(todo)
    <3>1. todo # <<>> /\ Head(todo).op = "hand_over"
      BY <2>1 DEF Doing
    <3> QED
      BY <1>1, <3>1, MarksHead DEF WorkItem, MarkOps
  <2>3. pc[active] = "run"
    BY <2>2 DEF MutexIInv, RestSound, MarkSound
  <2>4. PcKept
    <3>1. ExitSched \/ UNCHANGED pc
      BY <1>3 DEF MutexHandOver
    <3> QED
      BY <1>1, <2>3, <3>1, ExitKeepsPc
  <2>5. CASE blk_list[m] = <<>>
    BY <1>2, <1>3, <2>4, <2>5 DEF MutexHandOver
  <2>6. CASE blk_list[m] # <<>>
    <3>1. PendTaskWakeup(w, "BLK_FINISH")
      BY <1>3, <2>6 DEF MutexHandOver
    <3>2. m \in Objs
      BY <2>2 DEF Objs
    <3>3. w \in Tasks /\ task_state[w] \in Pending /\ blk_obj[w] = m
      BY <1>1, <2>6, <3>2, BlkHead DEF IInv
    <3> QED
      BY <1>1, <2>2, <2>4, <3>1, <3>3, HandGranted
  <2> QED
    BY <2>5, <2>6
<1>4. CASE TaskMutexFree
  <2> DEFINE t == Head(todo).task
             i == Head(todo).arg
             m == mutex_list[t][i]
             w == Head(blk_list[m])
  <2>1. PcKept /\ Doing("mutex_free")
    BY <1>4 DEF TaskMutexFree, PcKept
  <2>2. t \in Tasks /\ i \in Nat \ {0} /\ mutex_list[t] \in Seq(Mutexes)
    BY <1>1, <2>1, DoingItem DEF WorkItem, AppTasks, IInv, FieldsOK
  <2>3. CASE i > Len(mutex_list[t]) \/ (i <= Len(mutex_list[t]) /\ blk_list[m] = <<>>)
    <3>1. UNCHANGED <<task_state, waitVars>>
      <4>1. i > Len(mutex_list[t]) <=> ~(i <= Len(mutex_list[t]))
        BY <2>2
      <4> QED
        BY <1>4, <2>3, <4>1, Zenon DEF TaskMutexFree
    <3> QED
      BY <1>2, <2>1, <3>1
  <2>4. CASE i <= Len(mutex_list[t]) /\ blk_list[m] # <<>>
    <3>1. PendTaskWakeup(w, "BLK_FINISH")
      <4>1. ~(i > Len(mutex_list[t]))
        BY <2>2, <2>4
      <4> QED
        BY <1>4, <2>4, <4>1, Zenon DEF TaskMutexFree
    <3>2. m \in Mutexes /\ m \in Objs
      BY <2>2, <2>4 DEF Objs
    <3>3. w \in Tasks /\ task_state[w] \in Pending /\ blk_obj[w] = m
      BY <1>1, <2>4, <3>2, BlkHead DEF IInv
    <3> QED
      BY <1>1, <2>1, <3>1, <3>2, <3>3, HandGranted
  <2>5. i > Len(mutex_list[t]) \/ i <= Len(mutex_list[t])
    BY <2>2
  <2> QED
    BY <2>3, <2>4, <2>5
<1> QED
  BY <1>3, <1>4

\* The end of krhino_task_del.
LEMMA DeleteGranted == ASSUME MutexIInv, TaskDelEnd PROVE NoneGranted
<1> DEFINE t == Head(todo).task
<1>1. IInv /\ UNCHANGED <<cancel, blk_state, blk_obj>> /\ Doing("del_end")
  <2>1. IInv
    BY DEF MutexIInv
  <2>2. UNCHANGED <<cancel, blk_state, blk_obj>> /\ Doing("del_end")
    BY DEF TaskDelEnd, tcbVars
  <2> QED
    BY <2>1, <2>2
<1>2. t \in Tasks /\ pc[active] = "run" /\ Created(t)
  <2>1. todo # <<>> /\ Head(todo).op = "del_end"
    BY <1>1 DEF Doing
  <2>2. Head(todo) \in Marks(todo) /\ t \in AppTasks
    BY <1>1, <2>1, MarksHead DEF WorkItem, MarkOps
  <2> QED
    BY <2>1, <2>2 DEF MutexIInv, RestSound, MarkSound, AppTasks
<1>3. /\ task_state' = [task_state EXCEPT ![t] = "K_DELETED"]
      /\ call' = [call EXCEPT ![t] = NULL]
      /\ ExitSched
  BY <1>2 DEF TaskDelEnd, Created
<1>4. PcKept
  BY <1>1, <1>2, <1>3, ExitKeepsPc
<1> HIDE DEF t
<1>5. ASSUME NEW x \in Tasks, x # t PROVE AnswerKept(x)
  <2>1. pc'[x] \in {"blk", "end"} <=> pc[x] \in {"blk", "end"}
    BY <1>1, <1>4, CallKept
  <2> QED
    BY <1>1, <1>2, <1>3, <1>5, <2>1 DEF AnswerKept, IInv, FieldsOK
<1>6. Drops(t)
  <2>1. call'[t] = NULL /\ task_state'[t] = "K_DELETED" /\ NULL \notin Others
    BY <1>1, <1>2, <1>3, KernelAssumption DEF IInv, FieldsOK
  <2> QED
    BY <2>1 DEF Drops, Granted
<1> QED
  BY <1>2, <1>5, <1>6, TaskStill DEF NoneGranted

\* Every step of the core.
LEMMA CoreGranted == ASSUME MutexIInv, MutexIInv', Next PROVE NoneGranted
<1>1. IInv /\ IInv'
  BY DEF MutexIInv
<1>2. ASSUME PhaseKept \/ \E t \in Tasks : WaitFails(t), UNCHANGED cancel PROVE NoneGranted
  BY <1>1, <1>2, PhaseStill, FailStill DEF NoneGranted
<1>3. CASE \/ CoreSched \/ PendSV \/ IdleLoop \/ IntrptEnter \/ TickEnter \/ IntrptExit
           \/ TimeSliceUpdate \/ SchedDisable \/ SchedEnable
  <2>1. UNCHANGED cancel
    BY <1>3 DEF CoreSched, PendSV, IdleLoop, IntrptEnter, TickEnter, IntrptExit,
       TimeSliceUpdate, SchedDisable, SchedEnable, vars, dataVars, tcbVars
  <2> QED
    BY <1>1, <1>2, <1>3, <2>1, CpuSteps
<1>4. CASE TickProc \/ TaskPriChange \/ CancelCoreSched
  <2>1. UNCHANGED cancel
    BY <1>4 DEF TickProc, TaskPriChange, CancelCoreSched, dataVars, tcbVars
  <2> QED
    BY <1>1, <1>2, <1>4, <2>1, RoundSteps
<1>5. CASE TickExpire \/ DelWaiters
  <2>1. UNCHANGED cancel
    BY <1>5 DEF TickExpire, DelWaiters, tcbVars
  <2> QED
    BY <1>1, <1>2, <1>5, <2>1, EndSteps
<1>6. CASE Continue
  BY <1>4, <1>5, <1>6, BlockGranted, MutexGranted, DeleteGranted DEF Continue
<1>7. CASE TaskCall
  <2>1. ASSUME NEW t \in Tasks,
               \/ TaskYield \/ TaskSuspend(t) \/ TaskResume(t)
               \/ \E s \in TimeSlices : TaskTimeSliceSet(t, s)
               \/ \E policy \in {"KSCHED_FIFO", "KSCHED_RR"} : SchedPolicySet(t, policy)
        PROVE  NoneGranted
    <3>1. UNCHANGED cancel
      BY <2>1 DEF TaskYield, TaskSuspend, TaskResume, TaskTimeSliceSet, SchedPolicySet, tcbVars
    <3> QED
      BY <1>1, <1>2, <2>1, <3>1, QueueSteps
  <2>2. ASSUME NEW t \in Tasks, TaskDel(t) PROVE NoneGranted
    <3>1. UNCHANGED <<task_state, call, cancel, blk_state, pc>>
      BY <2>2 DEF TaskDel, dataVars, tcbVars, waitVars
    <3>2. \A x \in Tasks : AnswerKept(x)
      BY <3>1 DEF AnswerKept
    <3> QED
      BY <3>2, TaskStill DEF NoneGranted
  <2>3. CASE TaskYield
    BY <2>1, <2>3, KernelAssumption
  <2> QED
    BY <1>7, <2>1, <2>2, <2>3, CallsGranted, BlockGranted, CreateGranted, Zenon DEF TaskCall
<1> QED
  BY <1>3, <1>4, <1>6, <1>7, CallsGranted, MutexCallGranted, Zenon DEF Next
-----------------------------------------------------------------------------
(* The calls on semaphores, queues and event flags: they leave the mutexes  *)
(* alone, and serve a waiter, begin a wait or do neither.                   *)

\* A task that waits for something else than a mutex was not cancelled: it was
\* refused before, or its wait was aborted.
CancelSound ==
    \A t \in Tasks : task_state[t] \in Pending /\ blk_obj[t] \in Others => ~cancel[t]

\* The loops over the waiters of queues and event flags are about no semaphore.
WakeSound ==
    \A it \in ToSet(todo) : it.op \in {"queue_wake", "event_wake"} => obj_type[it.obj] # SEM

\* The invariant that the tokens rely on.
TokenIInv ==
    /\ IpcIInv
    /\ MutexIInv
    /\ CancelSound
    /\ WakeSound

\* What these calls leave alone.
OthersKept ==
    /\ UNCHANGED <<mutexVars, cancel>>
    /\ alive' \cap Mutexes = alive \cap Mutexes
    /\ Marks(todo) = {} /\ Marks(todo') = {}
    /\ \A x \in Tasks : Created(x)' <=> Created(x)

\* Nobody begins or ends to wait.
Quiet == UNCHANGED <<task_state, blk_obj, blk_state, call>> /\ PcKept

\* The task t, which waits for o, has it.
GivenTo(t, o) ==
    /\ task_state[t] \in Pending /\ blk_obj[t] = o
    /\ task_state'[t] \in {"K_RDY", "K_SUSPENDED"} /\ blk_state'[t] = "BLK_FINISH"
    /\ \A x \in Tasks : x # t => /\ task_state'[x] = task_state[x]
                                 /\ blk_state'[x] = blk_state[x]
                                 /\ blk_obj'[x] = blk_obj[x]
    /\ UNCHANGED call /\ PcKept

\* The task on the CPU begins to wait for o.
Starts(o) ==
    /\ task_state[active] = "K_RDY" /\ pc[active] = "run" /\ ~cancel[active]
    /\ task_state'[active] = "K_PEND" /\ pc'[active] = "blk"
    /\ call'[active] = o /\ blk_obj'[active] = o
    /\ \A x \in Tasks : x # active =>
          /\ task_state'[x] = task_state[x] /\ pc'[x] = pc[x]
          /\ call'[x] = call[x] /\ blk_obj'[x] = blk_obj[x]
    /\ UNCHANGED <<active, blk_state>>

\* What such a call does to the mutexes: nothing.
LEMMA OthersLists ==
    ASSUME MutexIInv, OthersKept
    PROVE  /\ ListSound' /\ RestSound' /\ HeldSound'
           /\ \A m \in Mutexes \cap alive' : mutex_task'[m] # NULL => Created(mutex_task[m])'
           /\ UNCHANGED <<mutex_list, mutex_task, owner_nested, held>>
           /\ \A m \in Mutexes : m \in alive' <=> m \in alive
           /\ \A t : ~Dying(t) /\ ~Dying(t)'
<1>1. /\ UNCHANGED <<mutex_list, mutex_task, owner_nested, held>>
      /\ \A m \in Mutexes : m \in alive' <=> m \in alive
      /\ Marks(todo) = {} /\ Marks(todo') = {}
      /\ \A x \in Tasks : Created(x)' <=> Created(x)
  BY DEF OthersKept, mutexVars
<1>2. /\ \A t : ~Dying(t) /\ Left(t) = {}
      /\ \A t, m : Owns(t, m) <=> m \in alive /\ mutex_task[m] = t
  BY <1>1, NoMarks
<1>3. /\ \A t : ~Dying(t)' /\ Left(t)' = {}
      /\ \A t, m : Owns(t, m)' <=> m \in alive' /\ mutex_task'[m] = t
  BY <1>1, NoMarksNext
<1>4. /\ \A t : (Dying(t)' <=> Dying(t)) /\ Left(t)' = Left(t)
      /\ \A t : \A m \in Mutexes : Owns(t, m)' <=> Owns(t, m)
  BY <1>1, <1>2, <1>3
<1>5. ListSound'
  BY <1>1, <1>4 DEF MutexIInv, ListSound
<1>6. HeldSound'
  BY <1>1, <1>4 DEF MutexIInv, HeldSound
<1>7. RestSound'
  BY <1>1 DEF RestSound
<1>8. mutex_task \in [Mutexes -> Tasks \cup {NULL}]
  BY DEF MutexIInv, IInv, FieldsOK
<1>9. \A m \in Mutexes \cap alive' : mutex_task'[m] # NULL => Created(mutex_task[m])'
  BY <1>1, <1>8 DEF MutexIInv, OwnerSound
<1> QED
  BY <1>1, <1>2, <1>3, <1>5, <1>6, <1>7, <1>9

\* A call that begins and ends no wait.
LEMMA QuietOwn ==
    ASSUME MutexIInv, CancelSound, IInv', OthersKept, Quiet
    PROVE  MutexIInv' /\ CancelSound' /\ \A x \in Tasks : Still(x)
<1>1. /\ ListSound' /\ RestSound' /\ HeldSound'
      /\ \A m \in Mutexes \cap alive' : mutex_task'[m] # NULL => Created(mutex_task[m])'
      /\ UNCHANGED <<mutex_list, mutex_task, owner_nested, held>>
      /\ \A m \in Mutexes : m \in alive' <=> m \in alive
      /\ \A t : ~Dying(t) /\ ~Dying(t)'
  BY OthersLists
<1>2. /\ UNCHANGED <<task_state, blk_obj, blk_state, call, cancel>> /\ PcKept
      /\ \A x \in Tasks : Created(x)' <=> Created(x)
  BY DEF Quiet, OthersKept
<1>3. OwnerSound'
  BY <1>1, <1>2 DEF OwnerSound, MutexIInv
<1>4. /\ CallsSound'
      /\ \A x \in Tasks : \A m : InLock(x, m)' <=> InLock(x, m)
  BY <1>2, PlainCalls
<1>5. GrantSound'
  BY <1>1, <1>2, <1>4 DEF GrantSound, MutexIInv
<1>6. CancelSound'
  BY <1>2 DEF CancelSound
<1>7. ASSUME NEW x \in Tasks PROVE AnswerKept(x)
  <2>1. pc'[x] \in {"blk", "end"} <=> pc[x] \in {"blk", "end"}
    BY <1>2, CallKept DEF MutexIInv
  <2> QED
    BY <1>2, <2>1 DEF AnswerKept
<1> QED
  BY <1>1, <1>3, <1>4, <1>5, <1>6, <1>7, TaskStill DEF MutexIInv

\* A call that serves a waiter; a token is handed to it.
LEMMA ServedOwn ==
    ASSUME MutexIInv, CancelSound, IInv', OthersKept, NEW t \in Tasks, NEW o \in Others,
           GivenTo(t, o)
    PROVE  /\ MutexIInv' /\ CancelSound'
           /\ t \notin Granted(o) /\ Granted(o)' = Granted(o) \cup {t}
           /\ \A s \in Others : s # o => Granted(s)' = Granted(s)
<1>1. /\ ListSound' /\ RestSound' /\ HeldSound'
      /\ \A m \in Mutexes \cap alive' : mutex_task'[m] # NULL => Created(mutex_task[m])'
      /\ UNCHANGED <<mutex_list, mutex_task, owner_nested, held>>
      /\ \A m \in Mutexes : m \in alive' <=> m \in alive
      /\ \A x : ~Dying(x) /\ ~Dying(x)'
  BY OthersLists
<1>2. /\ UNCHANGED <<call, cancel>> /\ PcKept
      /\ \A x \in Tasks : Created(x)' <=> Created(x)
      /\ task_state[t] \in Pending /\ blk_obj[t] = o /\ blk_state'[t] = "BLK_FINISH"
      /\ task_state'[t] \notin Pending /\ task_state'[t] \notin Sleeping
      /\ \A x \in Tasks : x # t => /\ task_state'[x] = task_state[x]
                                   /\ blk_state'[x] = blk_state[x]
                                   /\ blk_obj'[x] = blk_obj[x]
  BY DEF GivenTo, OthersKept, Pending, Sleeping
<1>3. \A x \in Tasks : /\ pc'[x] \in {"blk", "end"} <=> pc[x] \in {"blk", "end"}
                       /\ pc[x] \in {"run", "sched"} <=> pc'[x] \in {"run", "sched"}
  <2>1. \A x \in Tasks : pc[x] \in {"run", "sched", "blk", "end", "pri"}
    BY DEF MutexIInv, IInv, FieldsOK
  <2> QED
    BY <1>2, <2>1 DEF PcKept
<1>4. /\ call[t] = o /\ ~cancel[t] /\ pc[t] \in {"blk", "end"}
      /\ Mutexes \cap Others = {} /\ NULL \notin Others
  BY <1>2, KernelAssumption DEF MutexIInv, IInv, PendSound, CancelSound, CallsSound
<1>5. OwnerSound'
  BY <1>1, <1>2 DEF OwnerSound, MutexIInv
<1>6. CallsSound'
  <2>1. CallsSound
    BY DEF MutexIInv
  <2>2. Created(t)
    BY <1>2 DEF Pending, Created
  <2>3. ASSUME NEW x \in Tasks
        PROVE  /\ (pc'[x] \in {"run", "sched"} \/ ~Created(x)' \/ task_state'[x] \in Sleeping)
                  => call'[x] = NULL
               /\ task_state'[x] \in Pending => pc'[x] \in {"blk", "end"}
    BY <1>2, <1>3, <1>4, <2>1, <2>2 DEF CallsSound
  <2> QED
    BY <2>3 DEF CallsSound
<1>7. ASSUME NEW x \in Tasks, NEW m \in Mutexes \cap alive', InLock(x, m)'
      PROVE  /\ held'[x][m] = 0
             /\ mutex_task'[m] = x
                <=> task_state'[x] \notin Pending /\ blk_state'[x] = "BLK_FINISH"
  <2>1. InLock(x, m) /\ m \in alive
    BY <1>1, <1>2, <1>3, <1>7 DEF InLock
  <2>2. x # t
    BY <1>4, <2>1 DEF InLock
  <2> QED
    BY <1>1, <1>2, <2>1, <2>2 DEF MutexIInv, GrantSound
<1>8. GrantSound'
  BY <1>7 DEF GrantSound
<1>9. CancelSound'
  BY <1>2 DEF CancelSound
<1>10. ASSUME NEW x \in Tasks, x # t PROVE Still(x)
  <2>1. AnswerKept(x)
    BY <1>2, <1>3, <1>10 DEF AnswerKept
  <2> QED
    BY <2>1, TaskStill
<1>11. ASSUME NEW s \in Others
       PROVE  t \notin Granted(s) /\ (t \in Granted(s)' <=> s = o)
  <2>1. t \notin Granted(s)
    BY <1>2 DEF Granted
  <2>2. PendStatus(t)' = "BLK_FINISH" /\ call'[t] = o
    BY <1>2, <1>4 DEF PendStatus
  <2>3. pc'[t] \in {"blk", "end"}
    BY <1>3, <1>4
  <2> QED
    BY <1>2, <2>1, <2>2, <2>3 DEF Granted
<1>12. \A s \in Others : Granted(s) \subseteq Tasks /\ Granted(s)' \subseteq Tasks
  BY DEF Granted
<1>13. Granted(o)' = Granted(o) \cup {t}
  BY <1>10, <1>11, <1>12 DEF Still
<1>14. ASSUME NEW s \in Others, s # o PROVE Granted(s)' = Granted(s)
  BY <1>10, <1>11, <1>12, <1>14 DEF Still
<1> QED
  BY <1>1, <1>5, <1>6, <1>8, <1>9, <1>11, <1>13, <1>14 DEF MutexIInv

\* A call that begins to wait.
LEMMA StartsOwn ==
    ASSUME MutexIInv, CancelSound, IInv', OthersKept, NEW o \in Others, Starts(o)
    PROVE  MutexIInv' /\ CancelSound' /\ \A x \in Tasks : Still(x)
<1>1. /\ ListSound' /\ RestSound' /\ HeldSound'
      /\ \A m \in Mutexes \cap alive' : mutex_task'[m] # NULL => Created(mutex_task[m])'
      /\ UNCHANGED <<mutex_list, mutex_task, owner_nested, held>>
      /\ \A m \in Mutexes : m \in alive' <=> m \in alive
      /\ \A x : ~Dying(x) /\ ~Dying(x)'
  BY OthersLists
<1>2. /\ task_state[active] = "K_RDY" /\ pc[active] = "run" /\ ~cancel[active]
      /\ task_state'[active] = "K_PEND" /\ pc'[active] = "blk"
      /\ call'[active] = o /\ blk_obj'[active] = o
      /\ \A x \in Tasks : x # active =>
            /\ task_state'[x] = task_state[x] /\ pc'[x] = pc[x]
            /\ call'[x] = call[x] /\ blk_obj'[x] = blk_obj[x]
      /\ UNCHANGED <<active, blk_state, cancel>>
      /\ \A x \in Tasks : Created(x)' <=> Created(x)
  BY DEF Starts, OthersKept
<1>3. active \in Tasks /\ o \notin Mutexes
  BY KernelAssumption DEF MutexIInv, IInv, FieldsOK
<1>4. OwnerSound'
  BY <1>1, <1>2, <1>3 DEF OwnerSound, MutexIInv
<1>5. CallsSound'
  <2>1. Created(active) /\ task_state'[active] \notin Sleeping
    BY <1>2 DEF Created, Sleeping
  <2> QED
    BY <1>2, <1>3, <2>1 DEF CallsSound, MutexIInv
<1>6. ASSUME NEW x \in Tasks, NEW m \in Mutexes \cap alive', InLock(x, m)'
      PROVE  /\ held'[x][m] = 0
             /\ mutex_task'[m] = x
                <=> task_state'[x] \notin Pending /\ blk_state'[x] = "BLK_FINISH"
  <2>1. x # active
    BY <1>2, <1>3, <1>6 DEF InLock
  <2>2. InLock(x, m) /\ m \in alive
    BY <1>1, <1>2, <1>6, <2>1 DEF InLock
  <2> QED
    BY <1>1, <1>2, <2>1, <2>2 DEF MutexIInv, GrantSound
<1>7. GrantSound'
  BY <1>6 DEF GrantSound
<1>8. CancelSound'
  BY <1>2 DEF CancelSound
<1>9. ASSUME NEW x \in Tasks, x # active PROVE Still(x)
  <2>1. AnswerKept(x)
    BY <1>2, <1>9 DEF AnswerKept
  <2> QED
    BY <2>1, TaskStill
<1>10. Still(active)
  <2>1. task_state'[active] \in Pending
    BY <1>2 DEF Pending
  <2> QED
    BY <1>2, <2>1 DEF Still, Granted
<1> QED
  BY <1>1, <1>4, <1>5, <1>7, <1>8, <1>9, <1>10 DEF MutexIInv
-----------------------------------------------------------------------------
(* What each call on these objects does to the tokens.                      *)

\* A semaphore gets or loses its token in the counter or by a call that counts.
Accounted ==
    \A s \in Others : Is(s, SEM) /\ Is(s, SEM)' =>
       \/ \E n \in SemCounts : SemCountSet(s, n)
       \/ Gives(s) \/ SemTakeCount(s)
       \/ count'[s] = count[s] /\ Granted(s)' = Granted(s)

\* What a call keeps in which nobody is handed a token.
Kept == MutexIInv' /\ CancelSound' /\ WakeSound' /\ \A s \in Others : Granted(s)' = Granted(s)

\* What a call keeps that hands one to a task that waits for o.
Hands(o) ==
    /\ MutexIInv' /\ CancelSound' /\ WakeSound'
    /\ \A s \in Others : s # o => Granted(s)' = Granted(s)
    /\ \E t \in Tasks : t \notin Granted(o) /\ Granted(o)' = Granted(o) \cup {t}

\* Tasks for which nothing happens hold what they held.
LEMMA AllStill ==
    ASSUME \A x \in Tasks : Still(x) PROVE \A s \in Others : Granted(s)' = Granted(s)
<1>1. \A s \in Others : Granted(s) \subseteq Tasks /\ Granted(s)' \subseteq Tasks
  BY DEF Granted
<1>2. \A s \in Others : \A x \in Tasks : x \in Granted(s)' <=> x \in Granted(s)
  BY DEF Still
<1> QED
  BY <1>1, <1>2

\* A call from a task or an interrupt finds no work begun.
LEMMA Entered ==
    ASSUME MutexIInv, NEW c, Calling(c) \/ InIsr(c)
    PROVE  /\ todo = <<>> /\ Marks(todo) = {}
           /\ nested = 0 => pc[active] = "run"
<1>1. CASE Calling(c)
  BY <1>1, MarksFew DEF Calling, InTask
<1>2. CASE InIsr(c)
  <2>1. todo = <<>> /\ nested > 0
    BY <1>2 DEF InIsr
  <2> QED
    BY <2>1, MarksFew
<1> QED
  BY <1>1, <1>2

\* A step after which nobody's wait has begun or ended.
LEMMA QuietCall ==
    ASSUME MutexIInv, CancelSound, IInv', Marks(todo) = {}, Marks(todo') = {},
           nested = 0 => pc[active] = "run", ExitSched \/ UNCHANGED pc,
           alive' \cap Mutexes = alive \cap Mutexes, WakeSound',
           UNCHANGED <<task_state, waitVars, mutexVars, cancel, call>>
    PROVE  Kept
<1>1. UNCHANGED <<blk_obj, blk_state>>
  BY DEF waitVars
<1>2. PcKept
  BY ExitKeepsPc DEF MutexIInv
<1>3. OthersKept
  BY DEF OthersKept, Created
<1>4. Quiet
  BY <1>1, <1>2 DEF Quiet
<1> QED
  BY <1>3, <1>4, QuietOwn, AllStill DEF Kept

\* The first waiter of o is woken, in a call or in a round of a loop.
LEMMA HandsCall ==
    ASSUME MutexIInv, CancelSound, IInv', NEW o \in Others, NEW t \in Tasks,
           task_state[t] \in Pending, blk_obj[t] = o, PendTaskWakeup(t, "BLK_FINISH"),
           Marks(todo) = {}, Marks(todo') = {}, PcKept, WakeSound',
           UNCHANGED <<coreRest, call>>
    PROVE  Hands(o)
<1>1. UNCHANGED <<alive, mutexVars, cancel>>
  BY DEF coreRest, tcbVars
<1>2. /\ task_state \in [Tasks -> TaskStates] /\ blk_state \in [Tasks -> Reasons]
      /\ blk_obj \in [Tasks -> Objs \cup {NULL}]
  BY DEF MutexIInv, IInv, FieldsOK, Reasons
<1>3. /\ task_state' = [task_state EXCEPT
                          ![t] = IF @ \in {"K_PEND", "K_SLEEP"} THEN "K_RDY"
                                 ELSE "K_SUSPENDED"]
      /\ blk_state' = [blk_state EXCEPT ![t] = "BLK_FINISH"]
      /\ blk_obj' = [blk_obj EXCEPT ![t] = NULL]
  BY DEF PendTaskWakeup, LeaveWait
<1>4. /\ task_state'[t] \in {"K_RDY", "K_SUSPENDED"} /\ blk_state'[t] = "BLK_FINISH"
      /\ \A x \in Tasks : x # t => /\ task_state'[x] = task_state[x]
                                   /\ blk_state'[x] = blk_state[x]
                                   /\ blk_obj'[x] = blk_obj[x]
  BY <1>2, <1>3
<1>5. OthersKept
  <2>1. Created(t)' /\ Created(t)
    BY <1>4 DEF Created, Pending
  <2>2. \A x \in Tasks : Created(x)' <=> Created(x)
    BY <1>4, <2>1 DEF Created
  <2> QED
    BY <1>1, <2>2 DEF OthersKept
<1>6. GivenTo(t, o)
  BY <1>4 DEF GivenTo
<1> QED
  BY <1>5, <1>6, ServedOwn DEF Hands

\* The work left after a call is none, or one item about no semaphore.
LEMMA WakeFew ==
    ASSUME \/ todo' = <<>>
           \/ \E it : /\ ToSet(todo') = {it}
                      /\ it.op \in {"queue_wake", "event_wake"} => obj_type'[it.obj] # SEM
           \/ WakeSound /\ UNCHANGED <<todo, obj_type>>
    PROVE  WakeSound'
<1>1. CASE todo' = <<>>
  BY <1>1, NoWork DEF WakeSound
<1>2. CASE \E it : /\ ToSet(todo') = {it}
                   /\ it.op \in {"queue_wake", "event_wake"} => obj_type'[it.obj] # SEM
  BY <1>2 DEF WakeSound
<1>3. CASE WakeSound /\ UNCHANGED <<todo, obj_type>>
  BY <1>3 DEF WakeSound
<1> QED
  BY <1>1, <1>2, <1>3

\* A call that changes the object's own fields only.
LEMMA OwnFields ==
    ASSUME TokenIInv, IInv', NEW c, Calling(c) \/ InIsr(c), UNCHANGED <<vars, obj_type>>
    PROVE  Kept
<1>1. /\ MutexIInv /\ CancelSound /\ todo = <<>> /\ Marks(todo) = {}
      /\ nested = 0 => pc[active] = "run"
  BY Entered DEF TokenIInv
<1>2. UNCHANGED <<todo, pc, alive, task_state, waitVars, mutexVars, cancel, call>>
  BY DEF vars, dataVars, ctlVars, tcbVars
<1>3. WakeSound'
  BY <1>1, <1>2, WakeFew
<1> QED
  BY <1>1, <1>2, <1>3, QuietCall

\* xxx_create.
LEMMA OwnCreate ==
    ASSUME TokenIInv, IInv', NEW c, Calling(c), NEW o \in Others, NEW kind, ObjCreate(o, kind)
    PROVE  Kept
<1>1. /\ MutexIInv /\ CancelSound /\ todo = <<>> /\ Marks(todo) = {}
      /\ nested = 0 => pc[active] = "run"
  BY Entered DEF TokenIInv
<1>2. /\ UNCHANGED <<todo, pc, task_state, waitVars, mutexVars, cancel, call>>
      /\ alive' = alive \cup {o}
  BY DEF ObjCreate, ctlVars, tcbVars
<1>3. alive' \cap Mutexes = alive \cap Mutexes
  BY <1>2, KernelAssumption
<1>4. WakeSound'
  BY <1>1, <1>2, WakeFew
<1> QED
  BY <1>1, <1>2, <1>3, <1>4, QuietCall

\* xxx_del.
LEMMA OwnDel ==
    ASSUME TokenIInv, IInv', NEW c, Calling(c), NEW o \in Others, NEW kind, ObjDel(o, kind)
    PROVE  Kept
<1>1. /\ MutexIInv /\ CancelSound /\ todo = <<>> /\ Marks(todo) = {}
      /\ nested = 0 => pc[active] = "run"
  BY Entered DEF TokenIInv
<1>2. /\ UNCHANGED <<task_state, waitVars, mutexVars, cancel, call>>
      /\ alive' = alive \ {o} /\ ExitSched
  BY DEF ObjDel, tcbVars
<1>3. alive' \cap Mutexes = alive \cap Mutexes
  BY <1>2, KernelAssumption
<1>4. PICK it : it = Item("del_waiters", NULL, o, 0) /\ todo' = <<it>>
  BY DEF ObjDel
<1>5. ToSet(todo') = {it} /\ it.op = "del_waiters"
  BY <1>4, IpcTodo
<1>6. Marks(todo') = {}
  BY <1>5 DEF Marks, MarkOps
<1>7. WakeSound'
  BY <1>5, WakeFew
<1> QED
  BY <1>1, <1>2, <1>3, <1>6, <1>7, QuietCall

\* A loop over the waiters begins.
LEMMA OwnLoop ==
    ASSUME TokenIInv, IInv', NEW c, Calling(c) \/ InIsr(c), NEW o \in Others, NEW op \in IpcOps,
           NEW t \in Tasks \cup {NULL}, ObjLoop(o, op, t), op = "sem_wake" \/ ~Is(o, SEM)
    PROVE  Kept
<1>1. /\ MutexIInv /\ CancelSound /\ todo = <<>> /\ Marks(todo) = {}
      /\ nested = 0 => pc[active] = "run"
  BY Entered DEF TokenIInv
<1>2. /\ UNCHANGED <<alive, task_state, waitVars, mutexVars, cancel, call, obj_type>>
      /\ ExitSched
  BY DEF ObjLoop, dataVars, tcbVars
<1>3. PICK it : it = Item(op, t, o, 0) /\ todo' = <<it>>
  BY DEF ObjLoop
<1>4. ToSet(todo') = {it} /\ it.op = op /\ it.obj = o
  BY <1>3, IpcTodo
<1>5. Marks(todo') = {}
  BY <1>4 DEF Marks, MarkOps, IpcOps
<1>6. WakeSound'
  BY <1>2, <1>4, WakeFew DEF Is
<1> QED
  BY <1>1, <1>2, <1>5, <1>6, QuietCall

\* The first waiter is woken.
LEMMA OwnWake ==
    ASSUME TokenIInv, IInv', NEW c, Calling(c) \/ InIsr(c), NEW o \in Others, ObjWakeFirst(o)
    PROVE  Hands(o)
<1>1. /\ MutexIInv /\ CancelSound /\ IInv /\ todo = <<>> /\ Marks(todo) = {}
      /\ nested = 0 => pc[active] = "run"
  BY Entered DEF TokenIInv, MutexIInv
<1>2. /\ blk_list[o] # <<>> /\ PendTaskWakeup(Head(blk_list[o]), "BLK_FINISH")
      /\ ExitSched /\ UNCHANGED <<coreRest, todo, call, obj_type>>
  BY DEF ObjWakeFirst
<1>3. PcKept
  BY <1>1, <1>2, ExitKeepsPc
<1>4. o \in Objs
  BY DEF Objs
<1>5. PICK t \in Tasks : t = Head(blk_list[o]) /\ task_state[t] \in Pending /\ blk_obj[t] = o
  BY <1>1, <1>2, <1>4, BlkHead DEF IInv
<1>6. WakeSound'
  BY <1>1, <1>2, WakeFew
<1> QED
  BY <1>1, <1>2, <1>3, <1>5, <1>6, HandsCall

\* A round of the loop that wakes them all.
LEMMA OwnRound ==
    ASSUME TokenIInv, IInv', NEW op \in IpcOps, Doing(op), ObjWakeNext(Head(todo).obj)
    PROVE  IF blk_list[Head(todo).obj] = <<>> THEN Kept ELSE Hands(Head(todo).obj)
<1>1. MutexIInv /\ CancelSound /\ WakeSound /\ IInv
  BY DEF TokenIInv, MutexIInv
<1>2. /\ Tail(todo) = <<>> /\ ToSet(todo) = {Head(todo)} /\ Head(todo).op = op
      /\ Head(todo).obj \in Others
  BY <1>1, LoopItem
<1>3. Marks(todo) = {} /\ Marks(<<>>) = {}
  BY <1>2, MarksFew DEF Marks, MarkOps, IpcOps
<1>4. /\ UNCHANGED <<coreRest, pc, call, obj_type, alive, mutexVars, cancel>> /\ PcKept
  BY DEF ObjWakeNext, coreRest, tcbVars, PcKept
<1>5. PICK o \in Others : o = Head(todo).obj
  BY <1>2
<1>6. CASE blk_list[o] = <<>>
  <2>1. todo' = <<>> /\ UNCHANGED <<task_state, waitVars>>
    BY <1>2, <1>5, <1>6 DEF ObjWakeNext
  <2>2. WakeSound' /\ Marks(todo') = {}
    BY <1>3, <2>1, WakeFew
  <2>3. UNCHANGED <<blk_obj, blk_state>>
    BY <2>1 DEF waitVars
  <2>4. OthersKept /\ Quiet
    BY <1>3, <1>4, <2>1, <2>2, <2>3 DEF OthersKept, Quiet, Created
  <2>5. Kept
    BY <1>1, <2>2, <2>4, QuietOwn, AllStill DEF Kept
  <2> QED
    BY <1>5, <1>6, <2>5
<1>7. CASE blk_list[o] # <<>>
  <2>1. PendTaskWakeup(Head(blk_list[o]), "BLK_FINISH") /\ UNCHANGED todo
    BY <1>5, <1>7 DEF ObjWakeNext
  <2>2. o \in Objs
    BY DEF Objs
  <2>3. PICK t \in Tasks : t = Head(blk_list[o]) /\ task_state[t] \in Pending /\ blk_obj[t] = o
    BY <1>1, <1>7, <2>2, BlkHead DEF IInv
  <2>4. WakeSound'
    BY <1>1, <1>4, <2>1, WakeFew
  <2>5. Hands(o)
    BY <1>1, <1>3, <1>4, <2>1, <2>3, <2>4, HandsCall
  <2> QED
    BY <1>5, <1>7, <2>5
<1> QED
  BY <1>6, <1>7

\* A call that has to wait.
LEMMA OwnPend ==
    ASSUME TokenIInv, IInv', NEW c, Calling(c), NEW o \in Others, ~cancel[active], NEW ticks,
           ObjPend(o, ticks)
    PROVE  Kept
<1>1. /\ MutexIInv /\ CancelSound /\ IInv /\ todo = <<>> /\ Marks(todo) = {}
      /\ pc[active] = "run" /\ active \in Tasks /\ task_state[active] = "K_RDY"
  BY Caller, MarksFew DEF TokenIInv, MutexIInv
<1>2. /\ task_state \in [Tasks -> TaskStates] /\ call \in [Tasks -> Objs \cup {NULL} \cup (Tasks \X Pris)]
      /\ blk_obj \in [Tasks -> Objs \cup {NULL}]
      /\ pc \in [Tasks -> {"run", "sched", "blk", "end", "pri"}]
  BY <1>1 DEF IInv, FieldsOK
<1>3. /\ UNCHANGED <<alive, mutexVars, cancel, active, todo, obj_type, blk_state>>
      /\ task_state' = [task_state EXCEPT ![active] = "K_PEND"]
      /\ blk_obj' = [blk_obj EXCEPT ![active] = o]
      /\ pc' = [pc EXCEPT ![active] = "blk"]
      /\ call' = [call EXCEPT ![active] = o]
  BY DEF ObjPend, PendToBlkObj, coreRest, tcbVars, cpuVars
<1>4. /\ task_state'[active] = "K_PEND" /\ pc'[active] = "blk"
      /\ call'[active] = o /\ blk_obj'[active] = o
      /\ \A x \in Tasks : x # active =>
            /\ task_state'[x] = task_state[x] /\ pc'[x] = pc[x]
            /\ call'[x] = call[x] /\ blk_obj'[x] = blk_obj[x]
  BY <1>1, <1>2, <1>3
<1>5. Starts(o)
  BY <1>1, <1>3, <1>4 DEF Starts
<1>6. OthersKept
  <2>1. \A x \in Tasks : Created(x)' <=> Created(x)
    BY <1>1, <1>4 DEF Created
  <2> QED
    BY <1>1, <1>3, <2>1, MarksFew DEF OthersKept
<1>7. WakeSound'
  BY <1>1, <1>3, WakeFew
<1> QED
  BY <1>1, <1>5, <1>6, <1>7, StartsOwn, AllStill DEF Kept
-----------------------------------------------------------------------------
(* Every step accounts for the tokens.                                      *)

\* The rest of the invariant after a step.
Safe == MutexIInv' /\ CancelSound' /\ WakeSound' /\ Accounted

\* A call that hands out no token.
LEMMA KeptSafe ==
    ASSUME Kept, \A s \in Others : Is(s, SEM) /\ Is(s, SEM)' =>
              \/ \E n \in SemCounts : SemCountSet(s, n)
              \/ Gives(s) \/ SemTakeCount(s) \/ count'[s] = count[s]
    PROVE  Safe
BY DEF Kept, Safe, Accounted

\* A call that wakes a waiter for o, which is a give when o is a semaphore.
LEMMA HandsSafe ==
    ASSUME NEW o \in Others, Hands(o), UNCHANGED count, Is(o, SEM) => Gives(o)
    PROVE  Safe
BY DEF Hands, Safe, Accounted

\* The calls on semaphores.
LEMMA SemSafe == ASSUME TokenIInv, IInv', SemCall PROVE Safe
<1>1. IInv /\ ObjSound /\ count \in [Others -> 0..MaxCount] /\ "sem_wake" \in IpcOps
  BY DEF TokenIInv, IpcIInv, WaitIInv, TokenSound, IpcOps
<1>2. ASSUME NEW s \in Others, NEW n \in SemCounts, SemCreate(s, n) PROVE Safe
  <2>1. Calling("sem_create") /\ ObjCreate(s, SEM) /\ count' = [count EXCEPT ![s] = n]
    BY <1>2 DEF SemCreate
  <2>2. Kept
    BY <2>1, OwnCreate
  <2>3. ~Is(s, SEM)
    BY <1>1, <2>1 DEF ObjCreate, ObjSound, Is, SEM, NONE
  <2>4. \A x \in Others : x # s => count'[x] = count[x]
    BY <1>1, <2>1
  <2> QED
    BY <2>2, <2>3, <2>4, KeptSafe
<1>3. ASSUME NEW s \in Others, SemDel(s) PROVE Safe
  <2>1. Calling("sem_del") /\ ObjDel(s, SEM) /\ UNCHANGED count
    BY <1>3 DEF SemDel
  <2> QED
    BY <2>1, OwnDel, KeptSafe
<1>4. ASSUME NEW s \in Others, SemGiveCount(s) \/ SemTakeCount(s) \/ \E n \in SemCounts : SemCountSet(s, n)
      PROVE  Safe
  <2>1. PICK n : count' = [count EXCEPT ![s] = n]
    BY <1>4, Zenon DEF SemGiveCount, SemTakeCount, SemCountSet
  <2>2. PICK c : Calling(c) \/ InIsr(c)
    BY <1>4 DEF SemGiveCount, SemTakeCount, SemCountSet, Giving, Taking
  <2>3. UNCHANGED <<vars, obj_type>>
    BY <1>4 DEF SemGiveCount, SemTakeCount, SemCountSet
  <2>4. Kept
    BY <2>2, <2>3, OwnFields
  <2>5. \A x \in Others : x # s => count'[x] = count[x]
    BY <1>1, <2>1
  <2> QED
    BY <1>4, <2>4, <2>5, KeptSafe DEF Gives
<1>5. ASSUME NEW s \in Others, SemGiveOne(s) PROVE Safe
  <2>1. /\ Calling("sem_give") \/ InIsr("sem_give")
        /\ ObjWakeFirst(s) /\ UNCHANGED count
    BY <1>5 DEF SemGiveOne, Giving
  <2>2. Hands(s) /\ Gives(s)
    BY <1>5, <2>1, OwnWake DEF Gives
  <2> QED
    BY <2>1, <2>2, HandsSafe
<1>6. ASSUME NEW s \in Others, SemGiveAll(s) PROVE Safe
  <2>1. /\ Calling("sem_give_all") \/ InIsr("sem_give_all")
        /\ ObjLoop(s, "sem_wake", NULL) /\ UNCHANGED count
    BY <1>6 DEF SemGiveAll, Giving
  <2>2. Kept
    BY <1>1, <2>1, OwnLoop
  <2> QED
    BY <2>1, <2>2, KeptSafe
<1>7. CASE SemWake
  <2>1. Doing("sem_wake") /\ ObjWakeNext(Head(todo).obj) /\ UNCHANGED count
    BY <1>7 DEF SemWake
  <2>2. PICK o \in Others : o = Head(todo).obj
    BY <1>1, <2>1, LoopItem
  <2>3. IF blk_list[o] = <<>> THEN Kept ELSE Hands(o)
    BY <1>1, <2>1, <2>2, OwnRound
  <2>4. CASE blk_list[o] = <<>>
    BY <2>1, <2>3, <2>4, KeptSafe
  <2>5. CASE blk_list[o] # <<>>
    <3>1. Gives(o)
      BY <1>7, <2>2, <2>5 DEF Gives
    <3> QED
      BY <2>1, <2>3, <2>5, <3>1, HandsSafe
  <2> QED
    BY <2>4, <2>5
<1>8. ASSUME NEW s \in Others, NEW ticks \in Waits, SemTakePend(s, ticks) PROVE Safe
  <2>1. Calling("sem_take") /\ ~cancel[active] /\ ObjPend(s, ticks) /\ UNCHANGED count
    BY <1>8 DEF SemTakePend, Taking
  <2> QED
    BY <2>1, OwnPend, KeptSafe
<1> QED
  BY <1>2, <1>3, <1>4, <1>5, <1>6, <1>7, <1>8, Zenon DEF SemCall

\* The calls on queues.
LEMMA QueueSafe == ASSUME TokenIInv, IInv', QueueCall, UNCHANGED count PROVE Safe
<1>1. IInv /\ WakeSound /\ "queue_wake" \in IpcOps
  BY DEF TokenIInv, IpcIInv, WaitIInv, IpcOps
<1>2. \A q : IsQueue(q) => ~Is(q, SEM)
  BY DEF IsQueue, Is, SEM, QUEUE, BUF_QUEUE
<1>3. ASSUME Kept PROVE Safe
  BY <1>3, KeptSafe
<1>4. ASSUME NEW q \in Others, NEW kind, QueueCreate(q, kind) PROVE Safe
  <2>1. PICK k : Calling("queue_create") /\ ObjCreate(q, k)
    BY <1>4 DEF QueueCreate
  <2> QED
    BY <1>3, <2>1, OwnCreate
<1>5. ASSUME NEW q \in Others, QueueDel(q) PROVE Safe
  <2>1. PICK k : Calling("queue_del") /\ ObjDel(q, k)
    BY <1>5 DEF QueueDel
  <2> QED
    BY <1>3, <2>1, OwnDel
<1>6. ASSUME NEW q \in Others, NEW m, QueueSend(q, m) \/ QueueRecv(q) \/ QueueFlush(q) PROVE Safe
  <2>1. PICK c : Calling(c) \/ InIsr(c)
    BY <1>6 DEF QueueSend, QueueRecv, QueueFlush, Sending, Receiving
  <2>2. UNCHANGED <<vars, obj_type>>
    BY <1>6 DEF QueueSend, QueueRecv, QueueFlush
  <2> QED
    BY <1>3, <2>1, <2>2, OwnFields
<1>7. ASSUME NEW q \in Others, NEW m, QueueSendOne(q, m) PROVE Safe
  <2>1. /\ Calling("queue_send") \/ InIsr("queue_send")
        /\ IsQueue(q) /\ ObjWakeFirst(q)
    BY <1>7 DEF QueueSendOne, Sending
  <2> QED
    BY <1>2, <2>1, OwnWake, HandsSafe
<1>8. ASSUME NEW q \in Others, NEW m, QueueSendAll(q, m) PROVE Safe
  <2>1. /\ Calling("queue_all_send") \/ InIsr("queue_all_send")
        /\ IsQueue(q) /\ ObjLoop(q, "queue_wake", NULL)
    BY <1>8 DEF QueueSendAll, Sending
  <2> QED
    BY <1>1, <1>2, <1>3, <2>1, OwnLoop
<1>9. CASE QueueWake
  <2>1. Doing("queue_wake") /\ ObjWakeNext(Head(todo).obj)
    BY <1>9 DEF QueueWake
  <2>2. PICK o \in Others : o = Head(todo).obj /\ Head(todo) \in ToSet(todo) /\ Head(todo).op = "queue_wake"
    BY <1>1, <2>1, LoopItem
  <2>3. ~Is(o, SEM)
    BY <1>1, <2>2 DEF WakeSound, Is
  <2>4. IF blk_list[o] = <<>> THEN Kept ELSE Hands(o)
    BY <1>1, <2>1, <2>2, OwnRound
  <2> QED
    BY <1>3, <2>3, <2>4, HandsSafe
<1>10. ASSUME NEW q \in Others, NEW ticks \in Waits, QueueRecvPend(q, ticks) PROVE Safe
  <2>1. Calling("queue_recv") /\ ~cancel[active] /\ ObjPend(q, ticks)
    BY <1>10 DEF QueueRecvPend, Receiving, InIsr
  <2> QED
    BY <1>3, <2>1, OwnPend
<1> QED
  BY <1>4, <1>5, <1>6, <1>7, <1>8, <1>9, <1>10, Zenon DEF QueueCall

\* The calls on event flags.
LEMMA EventSafe == ASSUME TokenIInv, IInv', EventCall, UNCHANGED count PROVE Safe
<1>1. /\ IInv /\ WakeSound /\ MutexIInv /\ CancelSound /\ "event_wake" \in IpcOps
      /\ NULL \notin Tasks
  BY KernelAssumption DEF TokenIInv, IpcIInv, WaitIInv, IpcOps
<1>2. ASSUME Kept PROVE Safe
  BY <1>2, KeptSafe
<1>3. ASSUME NEW e \in Others, NEW f, EventCreate(e, f) PROVE Safe
  BY <1>2, <1>3, OwnCreate DEF EventCreate
<1>4. ASSUME NEW e \in Others, EventDel(e) PROVE Safe
  BY <1>2, <1>4, OwnDel DEF EventDel
<1>5. ASSUME NEW e \in Others, NEW a, EventGetNow(e, a) \/ EventSetAnd(e, a) PROVE Safe
  <2>1. PICK c : Calling(c) \/ InIsr(c)
    BY <1>5 DEF EventGetNow, EventSetAnd, Getting, Setting
  <2>2. UNCHANGED <<vars, obj_type>>
    BY <1>5 DEF EventGetNow, EventSetAnd
  <2> QED
    BY <1>2, <2>1, <2>2, OwnFields
<1>6. ASSUME NEW e \in Others, NEW req, NEW ticks \in Waits, EventGetPend(e, req, ticks) PROVE Safe
  BY <1>2, <1>6, OwnPend DEF EventGetPend, Getting
<1>7. ASSUME NEW e \in Others, NEW set, EventSetOr(e, set) PROVE Safe
  <2>1. (Calling("event_set") \/ InIsr("event_set")) /\ ~Is(e, SEM)
    BY <1>7 DEF EventSetOr, Setting, Is, SEM, EVENT
  <2>2. CASE ObjLoop(e, "event_wake", Head(blk_list[e]))
    <3>1. e \in Objs /\ blk_list[e] # <<>>
      BY <2>2 DEF Objs, ObjLoop
    <3>2. Head(blk_list[e]) \in Tasks
      BY <1>1, <3>1, BlkHead DEF IInv
    <3> QED
      BY <1>1, <1>2, <2>1, <2>2, <3>2, OwnLoop
  <2>3. CASE ExitSched /\ UNCHANGED <<dataVars, cpuVars, todo, call, fatal, obj_type>>
    <3>1. todo = <<>> /\ Marks(todo) = {} /\ (nested = 0 => pc[active] = "run")
      BY <1>1, <2>1, Entered
    <3>2. UNCHANGED <<alive, task_state, waitVars, mutexVars, cancel>>
      BY <2>3 DEF dataVars, tcbVars
    <3>3. WakeSound'
      BY <2>3, <3>1, WakeFew
    <3> QED
      BY <1>1, <1>2, <2>3, <3>1, <3>2, <3>3, QuietCall
  <2> QED
    BY <1>7, <2>2, <2>3 DEF EventSetOr
<1>8. CASE EventWake
  <2>1. Doing("event_wake")
    BY <1>8 DEF EventWake
  <2>2. PICK e \in Others, t \in Tasks \cup {NULL} :
           /\ Head(todo).obj = e /\ Head(todo).task = t /\ Tail(todo) = <<>>
           /\ t # NULL => \E k \in 1..Len(blk_list[e]) : t = blk_list[e][k]
    <3>1. PICK e \in Others, t \in Tasks \cup {NULL}, k \in Nat \ {0} :
             /\ Head(todo).obj = e /\ Head(todo).task = t /\ Tail(todo) = <<>>
             /\ k \in 1..Len(blk_list[e]) + 1
             /\ IF k = Len(blk_list[e]) + 1 THEN t = NULL ELSE t = blk_list[e][k] /\ t # NULL
      BY <1>8, LoopRound DEF TokenIInv
    <3>2. blk_list[e] \in Seq(Tasks)
      BY <1>1 DEF IInv, BlkExact, Objs
    <3> QED
      BY <3>1, <3>2
  <2>3. ToSet(todo) = {Head(todo)} /\ Head(todo).op = "event_wake" /\ e \in Objs
    BY <1>1, <2>1, LoopItem DEF Objs
  <2>4. obj_type[e] # SEM
    BY <1>1, <2>2, <2>3 DEF WakeSound
  <2>5. Marks(todo) = {} /\ UNCHANGED <<coreRest, pc, call, obj_type>>
    BY <1>8, <2>3 DEF EventWake, Marks, MarkOps
  <2>6. UNCHANGED <<alive, mutexVars, cancel>> /\ PcKept
    BY <2>5 DEF coreRest, tcbVars, PcKept
  <2>7. CASE t = NULL
    <3>1. todo' = <<>> /\ UNCHANGED <<task_state, waitVars>>
      BY <1>8, <2>2, <2>7 DEF EventWake
    <3>2. WakeSound' /\ Marks(todo') = {} /\ UNCHANGED <<blk_obj, blk_state>>
      BY <3>1, WakeFew, MarksFew DEF waitVars
    <3>3. OthersKept /\ Quiet
      BY <2>5, <2>6, <3>1, <3>2 DEF OthersKept, Quiet, Created
    <3> QED
      BY <1>1, <1>2, <3>2, <3>3, QuietOwn, AllStill DEF Kept
  <2>8. CASE t # NULL
    <3>1. PICK it : it = Item("event_wake", After(e, t), e, 0) /\ todo' = <<it>> \o Tail(todo)
      BY <1>8, <2>2, <2>8 DEF EventWake
    <3>2. it.op = "event_wake" /\ it.obj = e
      BY <3>1 DEF Item
    <3>3. todo' = <<it>> /\ ToSet(todo') = {it}
      <4>1. <<it>> \o <<>> = <<it>>
        OBVIOUS
      <4>2. todo' = <<it>>
        BY <2>2, <3>1, <4>1
      <4> QED
        BY <4>2 DEF ToSet
    <3>4. WakeSound'
      BY <2>4, <2>5, <3>2, <3>3, WakeFew
    <3>5. Marks(todo') = {}
      BY <3>2, <3>3 DEF Marks, MarkOps
    <3>6. CASE UNCHANGED <<task_state, waitVars>>
      <4>1. UNCHANGED <<blk_obj, blk_state>>
        BY <3>6 DEF waitVars
      <4>2. OthersKept /\ Quiet
        BY <2>5, <2>6, <3>5, <3>6, <4>1 DEF OthersKept, Quiet, Created
      <4> QED
        BY <1>1, <1>2, <3>4, <4>2, QuietOwn, AllStill DEF Kept
    <3>7. CASE PendTaskWakeup(t, "BLK_FINISH")
      <4>1. t \in Tasks /\ blk_list[e] \in Seq(Tasks)
        BY <1>1, <2>3, <2>8 DEF IInv, BlkExact
      <4>2. t \in ToSet(blk_list[e])
        BY <2>2, <2>8, <4>1, MemberAt
      <4>3. task_state[t] \in Pending /\ blk_obj[t] = e
        BY <1>1, <2>3, <4>1, <4>2 DEF IInv, BlkExact
      <4>4. Hands(e)
        BY <1>1, <2>5, <2>6, <3>4, <3>5, <3>7, <4>1, <4>3, HandsCall
      <4> QED
        BY <2>4, <4>4, HandsSafe DEF Is
    <3> QED
      BY <1>8, <2>2, <2>8, <3>6, <3>7 DEF EventWake
  <2> QED
    BY <2>7, <2>8
<1> QED
  BY <1>3, <1>4, <1>5, <1>6, <1>7, <1>8, Zenon DEF EventCall
-----------------------------------------------------------------------------
(* The steps of the core, and the sum.                                      *)

\* krhino_task_cancel ends the wait of the task that it marks.
LEMMA CancelNotPending ==
    ASSUME IInv, Next, NEW t \in Tasks, cancel'[t] PROVE cancel[t] \/ task_state'[t] \notin Pending
<1> USE DEF tcbVars
<1>0. cancel \in [Tasks -> BOOLEAN] /\ task_state \in [Tasks -> TaskStates]
  BY DEF IInv, FieldsOK
<1>1. CASE MutexCall
  BY <1>1 DEF MutexCall, MutexCreate, MutexLockNested, MutexLockFree, MutexLockBusy,
     MutexUnlockNested, MutexUnlock, MutexDel, dataVars
<1>2. CASE TaskCall
  <2>1. ASSUME NEW x \in Tasks, NEW p, NEW autorun, TaskCreate(x, p, autorun) PROVE cancel[t]
    BY <1>0, <2>1 DEF TaskCreate
  <2>2. ASSUME NEW x \in Tasks, TaskCancel(x) PROVE cancel[t] \/ task_state'[t] \notin Pending
    <3>1. cancel' = [cancel EXCEPT ![x] = TRUE] /\ WaitAbort(x)
      BY <2>2 DEF TaskCancel
    <3>2. x # t => cancel[t]
      BY <1>0, <3>1
    <3>3. task_state'[x] \notin Pending
      BY <1>0, <3>1 DEF WaitAbort, PendTaskWakeup, Pending, Sleeping
    <3> QED
      BY <3>2, <3>3
  <2> QED
    BY <1>2, <2>1, <2>2 DEF TaskCall, TaskYield, TaskSleep, TaskPriChangeCall, TaskSuspend,
       TaskResume, TaskPriChangeCheck, TaskWaitAbort, TaskDel, TaskTimeSliceSet,
       SchedPolicySet, dataVars
<1>3. CASE \/ CoreSched \/ PendStateEndProc \/ PendSV \/ IdleLoop \/ IntrptEnter
           \/ TickEnter \/ IntrptExit \/ TimeSliceUpdate \/ SchedDisable \/ SchedEnable
           \/ TickProc
  BY <1>3 DEF CoreSched, PendStateEndProc, PendSV, IdleLoop, IntrptEnter, TickEnter,
     IntrptExit, TimeSliceUpdate, SchedDisable, SchedEnable, TickProc, dataVars, vars
<1>4. CASE Continue
  BY <1>4 DEF Continue, TaskPriChange, MutexLockPend, MutexHandOver, DelWaiters,
     TaskMutexFree, TaskDelEnd, CancelCoreSched, TickExpire, dataVars
<1> QED
  BY <1>1, <1>2, <1>3, <1>4 DEF Next

\* A step of the core begins no wait for these objects.
LEMMA CoreCancel == ASSUME IInv, IInv', CancelSound, Next PROVE CancelSound'
<1> SUFFICES ASSUME NEW t \in Tasks, task_state'[t] \in Pending, blk_obj'[t] \in Others
             PROVE  ~cancel'[t]
  BY DEF CancelSound
<1>1. PICK o \in Others : o = blk_obj'[t]
  OBVIOUS
<1>2. o \in Objs /\ o \notin Mutexes
  BY KernelAssumption DEF Objs
<1>3. t \in ToSet(blk_list'[o])
  BY <1>1, <1>2 DEF IInv, BlkExact
<1>4. t \in ToSet(blk_list[o])
  BY <1>2, <1>3, NextKind, CoreShrinks
<1>5. task_state[t] \in Pending /\ blk_obj[t] = o
  BY <1>2, <1>4 DEF IInv, BlkExact
<1> QED
  BY <1>5, CancelNotPending DEF CancelSound

\* Nor a loop over the waiters.
LEMMA CoreWake == ASSUME IInv, WakeSound, Next, UNCHANGED obj_type PROVE WakeSound'
<1> SUFFICES ASSUME NEW it \in ToSet(todo'), it.op \in {"queue_wake", "event_wake"}
             PROVE  it \in ToSet(todo)
  BY DEF WakeSound
<1>1. CASE todo = <<>>
  <2>1. CASE todo' = <<>>
    BY <2>1, NoWork
  <2>2. ASSUME NEW x, x.op \notin IpcOps, Grown(<<x>>, todo') PROVE FALSE
    <3>1. <<x>> \in Seq({x}) /\ ToSet(<<x>>) = {x}
      BY DEF ToSet
    <3> QED
      BY <2>2, <3>1, GrownSet DEF IpcOps
  <2> QED
    BY <1>1, <2>1, <2>2, BeginTodo
<1>2. CASE todo # <<>>
  <2>1. todo \in Seq(Items)
    BY DEF IInv, TodoSound
  <2>2. Tail(todo) \in Seq(Items) /\ ToSet(Tail(todo)) \subseteq ToSet(todo)
    BY <1>2, <2>1, TailSeq
  <2> QED
    BY <1>2, <2>1, <2>2, OnlyContinue, ContinueTodo, GrownSet
<1> QED
  BY <1>1, <1>2

\* The tasks that hold a token are finitely many.
LEMMA GrantedFinite ==
    /\ \A s : IsFiniteSet(Granted(s)) /\ Cardinality(Granted(s)) \in Nat
    /\ \A s : IsFiniteSet(Granted(s)') /\ Cardinality(Granted(s)') \in Nat
<1>1. \A s : Granted(s) \subseteq Tasks /\ Granted(s)' \subseteq Tasks
  BY DEF Granted
<1>2. \A s : IsFiniteSet(Granted(s)) /\ IsFiniteSet(Granted(s)')
  BY <1>1, SemAssumption, FS_Subset
<1> QED
  BY <1>2, FS_CardinalityType

\* What changes the sum, and what does not.
LEMMA TokenSum ==
    ASSUME TokenIInv, IpcIInv', NEW s \in Others
    PROVE  /\ count'[s] = count[s] /\ Granted(s)' = Granted(s) => Tokens(s)' - Tokens(s) = 0
           /\ \A t : t \notin Granted(s) /\ Granted(s)' = Granted(s) \cup {t} /\ count'[s] = count[s]
                        => Tokens(s)' - Tokens(s) = 1
           /\ \A t : t \in Granted(s) /\ Granted(s)' = Granted(s) \ {t} /\ count'[s] = count[s]
                        => Tokens(s)' - Tokens(s) = -1
           /\ \A d \in Int : Granted(s)' = Granted(s) /\ count'[s] = count[s] + d
                        => Tokens(s)' - Tokens(s) = d
<1> DEFINE g == Granted(s)
           h == Granted(s)'
<1>1. /\ IsFiniteSet(g) /\ Cardinality(g) \in Nat
      /\ IsFiniteSet(h) /\ Cardinality(h) \in Nat
  BY GrantedFinite
<1>2. count[s] \in Int /\ count'[s] \in Int
  BY SemAssumption DEF TokenIInv, IpcIInv, TokenSound
<1>3. Tokens(s) = count[s] + Cardinality(g) /\ Tokens(s)' = count'[s] + Cardinality(h)
  BY DEF Tokens
<1> HIDE DEF g, h
<1>4. ASSUME NEW t, t \notin g, h = g \cup {t} PROVE Cardinality(h) = Cardinality(g) + 1
  BY <1>1, <1>4, FS_AddElement
<1>5. ASSUME NEW t, t \in g, h = g \ {t} PROVE Cardinality(h) = Cardinality(g) - 1
  BY <1>1, <1>5, FS_RemoveElement
<1>6. \A d \in Int : h = g /\ count'[s] = count[s] + d => Tokens(s)' - Tokens(s) = d
  BY <1>1, <1>2, <1>3
<1>7. count'[s] = count[s] /\ h = g => Tokens(s)' - Tokens(s) = 0
  BY <1>1, <1>2, <1>3
<1>8. \A t : t \notin g /\ h = g \cup {t} /\ count'[s] = count[s] => Tokens(s)' - Tokens(s) = 1
  <2> SUFFICES ASSUME NEW t, t \notin g, h = g \cup {t}, count'[s] = count[s]
               PROVE  Tokens(s)' - Tokens(s) = 1
    OBVIOUS
  <2>1. Cardinality(h) = Cardinality(g) + 1
    BY <1>4
  <2> QED
    BY <1>1, <1>2, <1>3, <2>1
<1>9. \A t : t \in g /\ h = g \ {t} /\ count'[s] = count[s] => Tokens(s)' - Tokens(s) = -1
  <2> SUFFICES ASSUME NEW t, t \in g, h = g \ {t}, count'[s] = count[s]
               PROVE  Tokens(s)' - Tokens(s) = -1
    OBVIOUS
  <2>1. Cardinality(h) = Cardinality(g) - 1
    BY <1>5
  <2> QED
    BY <1>1, <1>2, <1>3, <2>1
<1> QED
  BY <1>6, <1>7, <1>8, <1>9 DEF g, h

\* A call that changes the counter only.
LEMMA CountOnly ==
    ASSUME UNCHANGED vars PROVE \A s : Granted(s)' = Granted(s)
<1>1. UNCHANGED <<call, task_state, pc, blk_state, cancel>>
  BY DEF vars, dataVars, ctlVars, waitVars, tcbVars
<1>2. \A t \in Tasks : PendStatus(t)' = PendStatus(t)
  BY <1>1 DEF PendStatus
<1> QED
  BY <1>1, <1>2 DEF Granted

\* A give makes one token.
LEMMA GiveMakesOne ==
    ASSUME TokenIInv, IpcIInv', NEW s \in Others, Gives(s)
    PROVE  Tokens(s)' - Tokens(s) = 1
<1>1. /\ IInv /\ IInv' /\ count \in [Others -> 0..MaxCount] /\ MaxCount \in Nat
      /\ "sem_wake" \in IpcOps
  BY SemAssumption DEF TokenIInv, IpcIInv, WaitIInv, TokenSound, IpcOps
<1>2. CASE SemGiveCount(s)
  <2>1. count' = [count EXCEPT ![s] = @ + 1] /\ UNCHANGED vars
    BY <1>2 DEF SemGiveCount
  <2>2. count'[s] = count[s] + 1
    BY <1>1, <2>1
  <2> QED
    BY <2>1, <2>2, CountOnly, TokenSum
<1>3. CASE SemGiveOne(s)
  <2>1. /\ Calling("sem_give") \/ InIsr("sem_give")
        /\ ObjWakeFirst(s) /\ UNCHANGED count
    BY <1>3 DEF SemGiveOne, Giving
  <2>2. Hands(s)
    BY <1>1, <2>1, OwnWake
  <2> QED
    BY <2>1, <2>2, TokenSum DEF Hands
<1>4. CASE SemWake /\ Head(todo).obj = s /\ blk_list[s] # <<>>
  <2>1. Doing("sem_wake") /\ ObjWakeNext(Head(todo).obj) /\ UNCHANGED count
    BY <1>4 DEF SemWake
  <2>2. Hands(s)
    BY <1>1, <1>4, <2>1, OwnRound
  <2> QED
    BY <2>1, <2>2, TokenSum DEF Hands
<1> QED
  BY <1>2, <1>3, <1>4 DEF Gives

\* A take of a token that is there takes one.
LEMMA TakeTakesOne ==
    ASSUME TokenIInv, IpcIInv', NEW s \in Others, SemTakeCount(s)
    PROVE  Tokens(s)' - Tokens(s) = -1
<1>1. count \in [Others -> 0..MaxCount] /\ MaxCount \in Nat
  BY SemAssumption DEF TokenIInv, IpcIInv, TokenSound
<1>2. count' = [count EXCEPT ![s] = @ - 1] /\ UNCHANGED vars
  BY DEF SemTakeCount
<1>3. count'[s] = count[s] + (-1)
  BY <1>1, <1>2
<1> QED
  BY <1>2, <1>3, CountOnly, TokenSum

\* krhino_sem_count_set changes the sum by what it changes the counter.
LEMMA SetCounts ==
    ASSUME TokenIInv, IpcIInv', NEW s \in Others, NEW n \in SemCounts, SemCountSet(s, n)
    PROVE  Tokens(s)' - Tokens(s) = n - count[s]
<1>1. count \in [Others -> 0..MaxCount] /\ MaxCount \in Nat /\ n \in Int
  BY SemAssumption DEF TokenIInv, IpcIInv, TokenSound
<1>2. count' = [count EXCEPT ![s] = n] /\ UNCHANGED vars
  BY DEF SemCountSet
<1>3. n - count[s] \in Int /\ count'[s] = count[s] + (n - count[s])
  BY <1>1, <1>2
<1> QED
  BY <1>2, <1>3, CountOnly, TokenSum

\* So the bookkeeping of a step adds up.
LEMMA Balanced ==
    ASSUME TokenIInv, IpcIInv', NEW s \in Others,
           \/ \E n \in SemCounts : SemCountSet(s, n)
           \/ Gives(s) \/ SemTakeCount(s)
           \/ count'[s] = count[s] /\ Granted(s)' = Granted(s)
           \/ /\ count'[s] = count[s]
              /\ \E t \in Granted(s) :
                    /\ Granted(s)' = Granted(s) \ {t}
                    /\ pc'[t] = "run" \/ task_state'[t] = "K_DELETED" \/ cancel'[t]
    PROVE  Balance(s)
<1> DEFINE change == Tokens(s)' - Tokens(s)
<1>1. Gives(s) => change = 1
  BY GiveMakesOne
<1>2. SemTakeCount(s) => change = -1
  BY TakeTakesOne
<1>3. count'[s] = count[s] /\ Granted(s)' = Granted(s) => change = 0
  BY TokenSum
<1>4. \A t \in Granted(s) : Granted(s)' = Granted(s) \ {t} /\ count'[s] = count[s] => change = -1
  BY TokenSum
<1>5. \A n \in SemCounts : SemCountSet(s, n) => change = n - count[s]
  BY SetCounts
<1> HIDE DEF change
<1>6. \/ \E n \in SemCounts : SemCountSet(s, n) /\ change = n - count[s]
      \/ change = 1 /\ Gives(s)
      \/ change = -1 /\ SemTakeCount(s)
      \/ change = -1 /\ \E t \in Granted(s) :
              pc'[t] = "run" \/ task_state'[t] = "K_DELETED" \/ cancel'[t]
      \/ change = 0 /\ ~Gives(s) /\ ~SemTakeCount(s)
  BY <1>1, <1>2, <1>3, <1>4, <1>5
<1> QED
  BY <1>6 DEF change, Balance

\* A step of the core takes a token only with a holder that returns, is deleted or
\* is cancelled.
LEMMA CoreBalanced ==
    ASSUME TokenIInv, IpcIInv', MutexIInv', Next, UNCHANGED count, NEW s \in Others
    PROVE  \/ count'[s] = count[s] /\ Granted(s)' = Granted(s)
           \/ /\ count'[s] = count[s]
              /\ \E t \in Granted(s) :
                    /\ Granted(s)' = Granted(s) \ {t}
                    /\ pc'[t] = "run" \/ task_state'[t] = "K_DELETED" \/ cancel'[t]
<1>1. NoneGranted
  BY CoreGranted DEF TokenIInv
<1>2. CASE \A x \in Tasks : Still(x)
  BY <1>2, AllStill
<1>3. ASSUME NEW t \in Tasks, Drops(t), \A x \in Tasks : x # t => Still(x)
      PROVE  Granted(s)' = Granted(s) \ {t}
  <2>1. Granted(s) \subseteq Tasks /\ Granted(s)' \subseteq Tasks
    BY DEF Granted
  <2>2. \A x \in Tasks : x # t => (x \in Granted(s)' <=> x \in Granted(s))
    BY <1>3 DEF Still
  <2>3. t \notin Granted(s)'
    BY <1>3 DEF Drops
  <2> QED
    BY <2>1, <2>2, <2>3
<1>4. ASSUME NEW t \in Tasks, Drops(t), \A x \in Tasks : x # t => Still(x)
      PROVE  \/ Granted(s)' = Granted(s)
             \/ \E x \in Granted(s) :
                   /\ Granted(s)' = Granted(s) \ {x}
                   /\ pc'[x] = "run" \/ task_state'[x] = "K_DELETED" \/ cancel'[x]
  <2>1. Granted(s)' = Granted(s) \ {t}
    BY <1>3, <1>4
  <2>2. CASE t \in Granted(s)
    BY <1>4, <2>1, <2>2 DEF Drops
  <2>3. CASE t \notin Granted(s)
    BY <2>1, <2>3
  <2> QED
    BY <2>2, <2>3
<1> QED
  BY <1>1, <1>2, <1>4 DEF NoneGranted

\* A step of the composition keeps the invariant, and the bookkeeping.
LEMMA TokenStep ==
    ASSUME "task_suspend" \notin IsrCalls, "task_redel" \notin Calls, TokenIInv, IpcNext
    PROVE  /\ TokenIInv'
           /\ \A s \in Others : Is(s, SEM) /\ Is(s, SEM)' =>
                \/ \E n \in SemCounts : SemCountSet(s, n)
                \/ Gives(s) \/ SemTakeCount(s)
                \/ count'[s] = count[s] /\ Granted(s)' = Granted(s)
                \/ /\ count'[s] = count[s]
                   /\ \E t \in Granted(s) :
                         /\ Granted(s)' = Granted(s) \ {t}
                         /\ pc'[t] = "run" \/ task_state'[t] = "K_DELETED" \/ cancel'[t]
<1>1. IpcIInv /\ MutexIInv /\ CancelSound /\ WakeSound /\ IInv
  BY DEF TokenIInv, MutexIInv
<1>2. IpcIInv' /\ IInv'
  <2>1. IpcIInv'
    BY <1>1, CoreStep, SemCalls, QueueCalls, EventCalls DEF IpcNext
  <2> QED
    BY <2>1 DEF IpcIInv, WaitIInv
<1>3. CASE Next /\ UNCHANGED <<obj_type, count>>
  <2>1. MutexIInv'
    BY <1>1, <1>3, MutexNext
  <2>2. CancelSound' /\ WakeSound'
    BY <1>1, <1>2, <1>3, CoreCancel, CoreWake
  <2>3. TokenIInv'
    BY <1>2, <2>1, <2>2 DEF TokenIInv
  <2> QED
    BY <1>2, <1>3, <2>1, <2>3, CoreBalanced
<1>4. CASE SemCall \/ (QueueCall /\ UNCHANGED count) \/ (EventCall /\ UNCHANGED count)
  <2>1. Safe
    BY <1>2, <1>4, SemSafe, QueueSafe, EventSafe
  <2>2. TokenIInv'
    BY <1>2, <2>1 DEF Safe, TokenIInv
  <2> QED
    BY <2>1, <2>2 DEF Safe, Accounted
<1> QED
  BY <1>3, <1>4 DEF IpcNext

\* A step that changes nothing.
LEMMA TokenStutter ==
    ASSUME "task_suspend" \notin IsrCalls, "task_redel" \notin Calls, TokenIInv,
           UNCHANGED ipcVars
    PROVE  TokenIInv'
<1>1. UNCHANGED <<vars, obj_type>>
  BY DEF ipcVars
<1>2. IpcIInv'
  BY IpcStutter DEF TokenIInv
<1>3. UNCHANGED <<todo, cancel, task_state, blk_obj>>
  BY <1>1 DEF vars, dataVars, ctlVars, waitVars, tcbVars
<1>4. CancelSound' /\ WakeSound'
  BY <1>1, <1>3 DEF TokenIInv, CancelSound, WakeSound
<1>5. MutexIInv'
  BY <1>1, MutexNext DEF TokenIInv
<1> QED
  BY <1>2, <1>4, <1>5 DEF TokenIInv

\* The invariant holds at first.
LEMMA TokenInit == IpcInit => TokenIInv
<1> SUFFICES ASSUME IpcInit PROVE TokenIInv
  OBVIOUS
<1>1. IpcIInv /\ MutexIInv
  BY IpcInitInv, MutexInit DEF IpcInit
<1>2. todo = <<>> /\ \A t \in Tasks : task_state[t] \notin Pending
  BY DEF IpcInit, Init, Pending
<1>3. CancelSound /\ WakeSound
  BY <1>2, NoWork DEF CancelSound, WakeSound
<1> QED
  BY <1>1, <1>3 DEF TokenIInv
-----------------------------------------------------------------------------
(* The theorems about both the mutexes and the other objects.               *)

\* The invariant of the mutexes and that of the other objects are inductive
\* together: tasks that wait for tokens, messages and flags own mutexes too.
THEOREM TokenInductive ==
    ASSUME "task_suspend" \notin IsrCalls, "task_redel" \notin Calls
    PROVE  IpcSpec => []TokenIInv
<1>1. TokenIInv /\ [IpcNext]_ipcVars => TokenIInv'
  BY TokenStep, TokenStutter
<1> QED
  BY <1>1, TokenInit, PTL DEF IpcSpec

\* krhino_sem_give and krhino_sem_give_all make exactly one token for each give that
\* is accepted or each waiter woken, krhino_sem_take takes exactly one, and
\* nothing else changes how many there are in the counter and in the hands of
\* the woken tasks, except that a holder returns with its token, or is deleted
\* or cancelled, and that krhino_sem_count_set sets the counter.
THEOREM ConservationCorrect ==
    ASSUME "task_suspend" \notin IsrCalls, "task_redel" \notin Calls
    PROVE  IpcSpec => TokensConserved
<1>1. ASSUME TokenIInv, IpcNext, NEW s \in Others, Is(s, SEM), Is(s, SEM)' PROVE Balance(s)
  <2>1. IpcIInv'
    BY <1>1, TokenStep DEF TokenIInv
  <2> QED
    BY <1>1, <2>1, TokenStep, Balanced
<1>2. UNCHANGED ipcVars => UNCHANGED <<vars, obj_type, count>>
  BY DEF ipcVars
<1>3. TokenIInv /\ [IpcNext]_ipcVars
         => [\A s \in Others : Is(s, SEM) /\ Is(s, SEM)' => Balance(s)]_<<vars, obj_type, count>>
  BY <1>1, <1>2
<1> QED
  BY <1>3, TokenInductive, PTL DEF IpcSpec, TokensConserved

\* At most one task owns a mutex whatever else tasks wait for meanwhile.
THEOREM IpcMutualExclusion ==
    ASSUME "task_suspend" \notin IsrCalls, "task_redel" \notin Calls
    PROVE  IpcSpec => []MutualExclusion
<1>1. TokenIInv => MutualExclusion
  BY ExclusionHolds DEF TokenIInv
<1> QED
  BY <1>1, TokenInductive, PTL
=============================================================================

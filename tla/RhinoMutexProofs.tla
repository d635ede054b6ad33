--------------------------- MODULE RhinoMutexProofs ---------------------------
(***************************************************************************)
(* Who owns a mutex: the list of a task, the owner field of a mutex, what  *)
(* tasks were told about their calls and the nested count agree, whatever  *)
(* timeouts, aborts, suspensions and deletions happen meanwhile.           *)
(*                                                                         *)
(* A deleted task that is deleted again takes mutexes that others own by   *)
(* now (task_mutex_free walks its old list), so the theorems are about     *)
(* applications that do not do that.                                       *)
(***************************************************************************)
EXTENDS RhinoKernelProofs

\* The work in progress that the mutexes know of.
MarkOps == {"lock_pend", "hand_over", "mutex_free", "del_end"}

\* The marks in the rest td of a section.
Marks(td) == {it \in ToSet(td) : it.op \in MarkOps}

\* krhino_mutex_unlock has taken the mutex m off the list of its owner, who is
\* still in mutex_task.
GivenBack(m) == \E it \in Marks(todo) : it.op = "hand_over" /\ it.obj = m

\* krhino_task_del is at work on the task t.
Dying(t) == \E it \in Marks(todo) : it.op = "del_end" /\ it.task = t

\* The mutexes of the dying task t that are still to be given away.
Left(t) ==
    {m \in Mutexes : \E it \in Marks(todo) :
        /\ it.op = "mutex_free" /\ it.task = t
        /\ \E i \in it.arg..Len(mutex_list[t]) : mutex_list[t][i] = m}

\* The mutex m exists and is owned by t, who has not given it back.
Owns(t, m) == m \in alive /\ mutex_task[m] = t /\ ~GivenBack(m)

\* The list of a task and the owners of the mutexes agree.
ListSound ==
    \A t \in Tasks : Created(t) =>
       /\ IsInjective(mutex_list[t])
       /\ \A m \in Mutexes : Owns(t, m) <=> m \in IF Dying(t) THEN Left(t)
                                                  ELSE ToSet(mutex_list[t])

\* The owner of a mutex is there, and does not wait for it.
OwnerSound ==
    /\ \A m \in Mutexes \cap alive : mutex_task[m] # NULL => Created(mutex_task[m])
    /\ \A t \in Tasks : task_state[t] \in Pending /\ blk_obj[t] \in Mutexes \cap alive =>
          mutex_task[blk_obj[t]] # t

\* What the rest of a section relies on.
MarkSound(it) ==
    /\ it.op = "lock_pend" => mutex_task[it.obj] # active
    /\ it.op = "hand_over" => /\ it.obj \in alive /\ mutex_task[it.obj] = active
                              /\ pc[active] = "run" /\ held[active][it.obj] = 0
    /\ it.op = "del_end" => pc[active] = "run" /\ Created(it.task)
    /\ it.op = "mutex_free" => Dying(it.task)

\* Every mark finds what it relies on.
RestSound == \A it \in Marks(todo) : MarkSound(it)

\* Who waits, and who names an object in call.
CallsSound ==
    \A t \in Tasks :
       /\ (pc[t] \in {"run", "sched"} \/ ~Created(t) \/ task_state[t] \in Sleeping)
          => call[t] = NULL
       /\ task_state[t] \in Pending => pc[t] \in {"blk", "end"}

\* A task is in a call that waits for the mutex m or has waited for it.
InLock(t, m) == pc[t] \in {"blk", "end"} /\ call[t] = m

\* The wait for a mutex was a success exactly if the mutex is there.
GrantSound ==
    \A t \in Tasks, m \in Mutexes \cap alive : InLock(t, m) /\ ~Dying(t) =>
       /\ held[t][m] = 0
       /\ mutex_task[m] = t <=> task_state[t] \notin Pending /\ blk_state[t] = "BLK_FINISH"

\* Who was told it has a mutex owns it, and owner_nested is not below the
\* number of gets.
HeldSound ==
    \A t \in Tasks, m \in Mutexes :
       /\ held[t][m] > 0 => Owns(t, m) \/ Dying(t)
       /\ Owns(t, m) => owner_nested[m] >= 1 /\ held[t][m] <= owner_nested[m]

\* The invariant about mutexes, on top of IInv.
MutexIInv ==
    /\ IInv
    /\ ListSound
    /\ OwnerSound
    /\ RestSound
    /\ CallsSound
    /\ GrantSound
    /\ HeldSound
-----------------------------------------------------------------------------
(* The work in progress.                                                    *)

\* No work is no mark, and a single piece of work is one or none.
LEMMA MarksFew ==
    /\ Marks(<<>>) = {}
    /\ \A it : Marks(<<it>>) = IF it.op \in MarkOps THEN {it} ELSE {}
<1>1. ToSet(<<>>) = {}
  BY DEF ToSet
<1>2. ASSUME NEW it PROVE ToSet(<<it>>) = {it}
  BY DEF ToSet
<1> QED
  BY <1>1, <1>2 DEF Marks

\* A priority change before other work is no mark.
LEMMA MarksPush ==
    ASSUME NEW r \in PriWork, NEW td \in Seq(Items)
    PROVE  Marks(r \o td) = Marks(td)
<1>1. CASE r = <<>>
  <2>1. r \o td = td
    BY <1>1
  <2> QED
    BY <2>1
<1>2. CASE r # <<>>
  <2>1. PICK o \in AppTasks, n \in AppPris : r = <<Item("pri_change", o, NULL, n)>>
    BY <1>2 DEF PriWork
  <2>2. PICK it : it = Item("pri_change", o, NULL, n)
    OBVIOUS
  <2>3. it \in Items /\ it.op = "pri_change" /\ r = <<it>>
    BY <2>1, <2>2, PriItem
  <2>4. ToSet(<<it>> \o td) = ToSet(td) \cup {it}
    BY <2>3, ConsSet
  <2> QED
    BY <2>3, <2>4 DEF Marks, MarkOps
<1> QED
  BY <1>1, <1>2

\* Alone it is none either.
LEMMA MarksPri ==
    ASSUME NEW r \in PriWork
    PROVE  r \in Seq(Items) /\ Marks(r) = {}
<1>1. CASE r = <<>>
  BY <1>1, MarksFew
<1>2. CASE r # <<>>
  <2>1. PICK o \in AppTasks, n \in AppPris : r = <<Item("pri_change", o, NULL, n)>>
    BY <1>2 DEF PriWork
  <2>2. PICK it : it = Item("pri_change", o, NULL, n)
    OBVIOUS
  <2>3. it \in Items /\ it.op = "pri_change" /\ r = <<it>>
    BY <2>1, <2>2, PriItem
  <2>4. <<it>> \in Seq(Items)
    BY <2>3
  <2> QED
    BY <2>3, <2>4, MarksFew DEF MarkOps
<1> QED
  BY <1>1, <1>2

\* The marks are those of the first item and of what is behind it.
LEMMA MarksHead ==
    ASSUME IInv, todo # <<>>
    PROVE  /\ Marks(todo) = Marks(Tail(todo)) \cup
                            (IF Head(todo).op \in MarkOps THEN {Head(todo)} ELSE {})
           /\ Tail(todo) \in Seq(Items) /\ Head(todo) \in Items /\ WorkItem(Head(todo))
           /\ Head(todo).op \notin {"pri_change", "mutex_free"} => Tail(todo) = <<>>
<1>1. todo \in Seq(Items) /\ WorkList(todo)
  BY DEF IInv, TodoSound
<1>2. /\ Head(todo) \in Items /\ WorkItem(Head(todo)) /\ Head(todo) \in ToSet(todo)
      /\ Tail(todo) \in Seq(Items) /\ ToSet(Tail(todo)) \subseteq ToSet(todo)
      /\ Head(todo).op \notin {"pri_change", "mutex_free"} => Tail(todo) = <<>>
  BY <1>1, WorkHead
<1>3. \A x \in ToSet(todo) : x = Head(todo) \/ x \in ToSet(Tail(todo))
  BY <1>1, HeadOrTail
<1> QED
  BY <1>2, <1>3 DEF Marks

-----------------------------------------------------------------------------
(* Steps that leave the mutexes alone.                                      *)

\* The mutexes stay as they are, and the work in progress as far as they know.
MutexKept ==
    /\ UNCHANGED <<mutexVars, alive>>
    /\ Marks(todo') = Marks(todo)
    /\ Marks(todo) # {} => UNCHANGED <<active, pc>>

\* A task goes on inside the same call, or ends one that has no result.
PcKept ==
    \A x \in Tasks : \/ pc'[x] = pc[x]
                     \/ pc[x] \in {"run", "sched"} /\ pc'[x] \in {"run", "sched"}
                     \/ pc[x] = "blk" /\ pc'[x] = "end"

\* Nobody begins or ends to wait, and nobody is created or deleted.
PhaseKept ==
    /\ UNCHANGED <<call, blk_state, blk_obj>> /\ PcKept
    /\ \A x \in Tasks : /\ task_state'[x] \in Pending <=> task_state[x] \in Pending
                        /\ task_state'[x] \in Sleeping <=> task_state[x] \in Sleeping
                        /\ Created(x)' <=> Created(x)

\* The wait of t ends without success, or its sleep ends.
WaitFails(t) ==
    /\ UNCHANGED call /\ PcKept
    /\ task_state[t] \in Timed /\ task_state'[t] \in {"K_RDY", "K_SUSPENDED"}
    /\ \A x \in Tasks : x # t => /\ task_state'[x] = task_state[x]
                                 /\ blk_state'[x] = blk_state[x]
                                 /\ blk_obj'[x] = blk_obj[x]
    /\ task_state[t] \in Pending => blk_state'[t] # "BLK_FINISH"

\* The task on the CPU goes through krhino_task_pri_change.
PriCall ==
    /\ Marks(todo) = {} /\ UNCHANGED <<task_state, blk_state, blk_obj>>
    /\ \A x \in Tasks : x # active => pc'[x] = pc[x] /\ call'[x] = call[x]
    /\ pc[active] \in {"run", "pri"} /\ pc'[active] \in {"run", "sched", "pri"}
    /\ pc'[active] # "pri" => call'[active] = NULL
    /\ Created(active) /\ task_state[active] \notin Timed

\* What a step that leaves the mutexes alone keeps, whatever it does else.
LEMMA KeptFrame ==
    ASSUME MutexKept
    PROVE  /\ UNCHANGED <<mutex_list, mutex_task, owner_nested, held, alive>>
           /\ \A m : GivenBack(m)' = GivenBack(m)
           /\ \A t : Dying(t)' = Dying(t) /\ Left(t)' = Left(t)
           /\ \A t, m : Owns(t, m)' = Owns(t, m)
<1>1. UNCHANGED <<mutex_list, mutex_task, owner_nested, held, alive>>
  BY DEF MutexKept, mutexVars
<1>2. Marks(todo') = Marks(todo)
  BY DEF MutexKept
<1>3. \A m : GivenBack(m)' = GivenBack(m)
  BY <1>2 DEF GivenBack
<1>4. \A t : Dying(t)' = Dying(t) /\ Left(t)' = Left(t)
  BY <1>1, <1>2 DEF Dying, Left
<1>5. \A t, m : Owns(t, m)' = Owns(t, m)
  BY <1>1, <1>3 DEF Owns
<1> QED
  BY <1>1, <1>3, <1>4, <1>5

\* Such a step keeps the lists and the marks while no task comes or goes.
LEMMA KeptLists ==
    ASSUME MutexIInv, MutexKept, \A x \in Tasks : Created(x)' <=> Created(x)
    PROVE  ListSound' /\ RestSound' /\ HeldSound'
           /\ \A m \in Mutexes \cap alive' : mutex_task'[m] # NULL => Created(mutex_task[m])'
<1>1. /\ UNCHANGED <<mutex_list, mutex_task, owner_nested, held, alive>>
      /\ \A m : GivenBack(m)' = GivenBack(m)
      /\ \A t : Dying(t)' = Dying(t) /\ Left(t)' = Left(t)
      /\ \A t, m : Owns(t, m)' = Owns(t, m)
  BY KeptFrame
<1>2. ListSound'
  BY <1>1 DEF MutexIInv, ListSound
<1>3. HeldSound'
  BY <1>1 DEF MutexIInv, HeldSound
<1>4. ASSUME NEW it \in Marks(todo') PROVE MarkSound(it)'
  <2>1. it \in Marks(todo) /\ MarkSound(it) /\ UNCHANGED <<active, pc>>
    BY <1>4 DEF MutexKept, MutexIInv, RestSound
  <2>2. it.op = "del_end" => it.task \in Tasks
    <3>1. it \in ToSet(todo) /\ todo \in Seq(Items) /\ WorkList(todo)
      BY <2>1 DEF Marks, MutexIInv, IInv, TodoSound
    <3>2. PICK i \in 1..Len(todo) : todo[i] = it
      BY <3>1, MemberAt
    <3>3. WorkItem(it)
      BY <3>1, <3>2 DEF WorkList
    <3> QED
      BY <3>3 DEF WorkItem, AppTasks
  <2> QED
    BY <1>1, <2>1, <2>2 DEF MarkSound
<1>5. \A m \in Mutexes \cap alive' : mutex_task'[m] # NULL => Created(mutex_task[m])'
  <2>1. mutex_task \in [Mutexes -> Tasks \cup {NULL}]
    BY DEF MutexIInv, IInv, FieldsOK
  <2> QED
    BY <1>1, <2>1 DEF MutexIInv, OwnerSound
<1> QED
  BY <1>2, <1>3, <1>4, <1>5 DEF RestSound

\* A step inside the calls.
LEMMA PhaseKeptInv ==
    ASSUME MutexIInv, IInv', MutexKept, PhaseKept
    PROVE  MutexIInv'
<1>1. /\ UNCHANGED <<mutex_list, mutex_task, owner_nested, held, alive>>
      /\ \A t : Dying(t)' = Dying(t)
  BY KeptFrame
<1>2. /\ ListSound' /\ RestSound' /\ HeldSound'
      /\ \A m \in Mutexes \cap alive' : mutex_task'[m] # NULL => Created(mutex_task[m])'
  BY KeptLists DEF PhaseKept
<1>3. OwnerSound'
  BY <1>1, <1>2 DEF OwnerSound, MutexIInv, PhaseKept
<1>4. pc \in [Tasks -> {"run", "sched", "blk", "end", "pri"}]
  BY DEF MutexIInv, IInv, FieldsOK
<1>5. CallsSound'
  BY <1>4 DEF CallsSound, MutexIInv, PhaseKept, PcKept
<1>6. GrantSound'
  BY <1>1, <1>4 DEF GrantSound, InLock, MutexIInv, PhaseKept, PcKept
<1> QED
  BY <1>2, <1>3, <1>5, <1>6 DEF MutexIInv

\* A wait that fails.
LEMMA WaitFailsInv ==
    ASSUME MutexIInv, IInv', MutexKept, NEW t \in Tasks, WaitFails(t)
    PROVE  MutexIInv'
<1>1. /\ UNCHANGED <<mutex_list, mutex_task, owner_nested, held, alive>>
      /\ \A x : Dying(x)' = Dying(x)
  BY KeptFrame
<1>2. \A x \in Tasks : Created(x)' <=> Created(x)
  BY DEF WaitFails, Created, Timed, Pending, Sleeping
<1>3. /\ ListSound' /\ RestSound' /\ HeldSound'
      /\ \A m \in Mutexes \cap alive' : mutex_task'[m] # NULL => Created(mutex_task[m])'
  BY <1>2, KeptLists
<1>4. task_state'[t] \notin Pending /\ task_state'[t] \notin Sleeping
  BY DEF WaitFails, Pending, Sleeping
<1>5. OwnerSound'
  BY <1>1, <1>3, <1>4 DEF OwnerSound, MutexIInv, WaitFails
<1>6. pc \in [Tasks -> {"run", "sched", "blk", "end", "pri"}]
  BY DEF MutexIInv, IInv, FieldsOK
<1>7. CallsSound'
  BY <1>2, <1>4, <1>6 DEF CallsSound, MutexIInv, WaitFails, PcKept
<1>8. ASSUME NEW x \in Tasks, NEW m \in Mutexes \cap alive', InLock(x, m)', ~Dying(x)'
      PROVE  /\ held'[x][m] = 0
             /\ mutex_task'[m] = x <=> task_state'[x] \notin Pending /\ blk_state'[x] = "BLK_FINISH"
  <2>1. InLock(x, m) /\ m \in alive /\ ~Dying(x)
    BY <1>1, <1>6, <1>8 DEF InLock, WaitFails, PcKept
  <2>2. /\ held[x][m] = 0
        /\ mutex_task[m] = x <=> task_state[x] \notin Pending /\ blk_state[x] = "BLK_FINISH"
    BY <2>1 DEF MutexIInv, GrantSound
  <2>3. CASE x # t
    BY <1>1, <2>2, <2>3 DEF WaitFails
  <2>4. CASE x = t
    <3>1. m # NULL
      BY KernelAssumption
    <3>2. task_state[t] \notin Sleeping
      BY <2>1, <2>4, <3>1 DEF InLock, MutexIInv, CallsSound
    <3>3. task_state[t] \in Pending
      BY <3>2 DEF WaitFails, Timed
    <3> QED
      BY <1>1, <1>4, <2>2, <2>4, <3>3 DEF WaitFails
  <2> QED
    BY <2>3, <2>4
<1>9. GrantSound'
  BY <1>8 DEF GrantSound
<1> QED
  BY <1>3, <1>5, <1>7, <1>9 DEF MutexIInv

\* A call of krhino_task_pri_change.
LEMMA PriCallInv ==
    ASSUME MutexIInv, IInv', MutexKept, PriCall
    PROVE  MutexIInv'
<1>1. /\ UNCHANGED <<mutex_list, mutex_task, owner_nested, held, alive>>
      /\ \A x : Dying(x)' = Dying(x)
  BY KeptFrame
<1>2. \A x \in Tasks : Created(x)' <=> Created(x)
  BY DEF PriCall, Created
<1>3. /\ ListSound' /\ RestSound' /\ HeldSound'
      /\ \A m \in Mutexes \cap alive' : mutex_task'[m] # NULL => Created(mutex_task[m])'
  BY <1>2, KeptLists
<1>5. OwnerSound'
  BY <1>1, <1>3 DEF OwnerSound, MutexIInv, PriCall
<1>7. CallsSound'
  BY <1>2 DEF CallsSound, MutexIInv, PriCall, Timed
<1>9. GrantSound'
  BY <1>1 DEF GrantSound, InLock, MutexIInv, PriCall
<1> QED
  BY <1>3, <1>5, <1>7, <1>9 DEF MutexIInv

-----------------------------------------------------------------------------
(* The steps that leave the mutexes alone, one after the other.             *)

\* A step outside sections that begins none.
LEMMA BetweenSections ==
    ASSUME todo = <<>>, todo' = <<>>, UNCHANGED <<mutexVars, alive>>
    PROVE  MutexKept
BY MarksFew DEF MutexKept

\* core_sched is called at the end of a call, or not at all in an interrupt.
LEMMA ExitKeepsPc ==
    ASSUME IInv, nested = 0 => pc[active] = "run", ExitSched \/ UNCHANGED pc
    PROVE  PcKept
<1>1. pc \in [Tasks -> {"run", "sched", "blk", "end", "pri"}] /\ nested \in Nat
  BY DEF IInv, FieldsOK
<1> QED
  BY <1>1 DEF ExitSched, PcKept

\* The CPU, the interrupts and the scheduler lock.
LEMMA CpuSteps ==
    ASSUME IInv, \/ CoreSched \/ PendSV \/ IdleLoop \/ IntrptEnter \/ TickEnter \/ IntrptExit
                 \/ TimeSliceUpdate \/ SchedDisable \/ SchedEnable \/ UNCHANGED vars
    PROVE  MutexKept /\ PhaseKept
<1> USE DEF dataVars, vars, ctlVars, waitVars
<1>1. pc \in [Tasks -> {"run", "sched", "blk", "end", "pri"}]
  BY DEF IInv, FieldsOK
<1>2. CASE CoreSched
  <2>1. /\ todo = <<>> /\ todo' = <<>>
        /\ UNCHANGED <<mutexVars, alive, call, blk_state, blk_obj, task_state>>
    BY <1>2 DEF CoreSched, InTask
  <2>2. PcKept
    BY <1>1, <1>2 DEF CoreSched, PcKept
  <2> QED
    BY <2>1, <2>2, BetweenSections DEF PhaseKept, Created
<1>3. CASE UNCHANGED vars
  BY <1>3 DEF MutexKept, PhaseKept, PcKept, Created, cpuVars
<1>4. CASE SchedEnable
  <2>1. /\ todo = <<>> /\ todo' = <<>> /\ pc[active] = "run"
        /\ UNCHANGED <<mutexVars, alive, call, blk_state, blk_obj, task_state>>
    BY <1>4 DEF SchedEnable, Calling, InTask
  <2>2. PcKept
    BY <1>4, <2>1, ExitKeepsPc DEF SchedEnable
  <2> QED
    BY <2>1, <2>2, BetweenSections DEF PhaseKept, Created
<1>5. CASE \/ PendSV \/ IdleLoop \/ IntrptEnter \/ TickEnter \/ IntrptExit
           \/ TimeSliceUpdate \/ SchedDisable
  <2>1. /\ todo = <<>> /\ todo' = <<>>
        /\ UNCHANGED <<mutexVars, alive, call, blk_state, blk_obj, task_state, pc>>
    BY <1>5 DEF PendSV, IdleLoop, IntrptEnter, TickEnter, IntrptExit, TimeSliceUpdate,
       SchedDisable, Calling, InTask, InTickIsr
  <2>2. MutexKept
    BY <2>1, BetweenSections
  <2> QED
    BY <2>1, <2>2 DEF PhaseKept, PcKept, Created
<1> QED
  BY <1>2, <1>3, <1>4, <1>5

\* The calls that only arrange the ready queue.
LEMMA QueueSteps ==
    ASSUME IInv, NEW t \in Tasks,
           \/ TaskYield \/ TaskSuspend(t) \/ TaskResume(t)
           \/ \E s \in TimeSlices : TaskTimeSliceSet(t, s)
           \/ \E policy \in {"KSCHED_FIFO", "KSCHED_RR"} : SchedPolicySet(t, policy)
    PROVE  MutexKept /\ PhaseKept
<1>1. /\ todo = <<>> /\ todo' = <<>> /\ (nested = 0 => pc[active] = "run")
      /\ UNCHANGED <<mutexVars, alive, call, blk_state, blk_obj>>
      /\ ExitSched \/ UNCHANGED pc
  BY DEF TaskYield, TaskSuspend, TaskResume, TaskTimeSliceSet, SchedPolicySet, Calling,
     InTask, InIsr, ctlVars, waitVars
<1>2. PcKept
  BY <1>1, ExitKeepsPc
<1>3. task_state \in [Tasks -> TaskStates]
  BY DEF IInv, FieldsOK
<1>4. ASSUME NEW x \in Tasks
      PROVE  /\ task_state'[x] \in Pending <=> task_state[x] \in Pending
             /\ task_state'[x] \in Sleeping <=> task_state[x] \in Sleeping
             /\ Created(x)' <=> Created(x)
  <2>1. CASE TaskSuspend(t)
    BY <1>3, <2>1 DEF TaskSuspend, Pending, Sleeping, Created
  <2>2. CASE TaskResume(t)
    BY <1>3, <2>2 DEF TaskResume, Pending, Sleeping, Created
  <2>3. CASE ~TaskSuspend(t) /\ ~TaskResume(t)
    <3>1. UNCHANGED task_state
      BY <2>3 DEF TaskYield, TaskTimeSliceSet, SchedPolicySet
    <3> QED
      BY <3>1 DEF Created
  <2> QED
    BY <2>1, <2>2, <2>3
<1>5. MutexKept
  BY <1>1, BetweenSections
<1> QED
  BY <1>1, <1>2, <1>4, <1>5 DEF PhaseKept

\* krhino_task_pri_change.
LEMMA PriCallSteps ==
    ASSUME IInv, \/ TaskPriChangeCall
                 \/ \E t \in Tasks, p \in NewPris : TaskPriChangeCheck(t, p)
    PROVE  MutexKept /\ PriCall
<1>1. pc \in [Tasks -> {"run", "sched", "blk", "end", "pri"}] /\ active \in Tasks
      /\ call \in [Tasks -> Objs \cup {NULL} \cup (Tasks \X Pris)]
  BY DEF IInv, FieldsOK
<1>2. InTask /\ pc[active] \in {"run", "pri"}
  BY DEF TaskPriChangeCall, TaskPriChangeCheck, Calling
<1>3. task_state[active] = "K_RDY"
  BY <1>2, Runs
<1>4. Created(active) /\ task_state[active] \notin Timed
  BY <1>3 DEF Created, Timed, Pending, Sleeping
<1>5. Marks(todo) = {} /\ todo = <<>>
  BY <1>2, MarksFew DEF InTask
<1>6. CASE TaskPriChangeCall
  <2>1. PICK t, p : /\ todo' = <<Item("pri_change", t, NULL, p)>>
                    /\ pc' = [pc EXCEPT ![active] = "sched"] \/ pc' = [pc EXCEPT ![active] = "run"]
    BY <1>6, Zenon DEF TaskPriChangeCall
  <2>2. /\ call' = [call EXCEPT ![active] = NULL]
        /\ UNCHANGED <<task_state, alive, waitVars, mutexVars>>
    BY <1>6 DEF TaskPriChangeCall
  <2>3. Item("pri_change", t, NULL, p).op = "pri_change"
    BY DEF Item
  <2>4. Marks(todo') = {}
    BY <2>1, <2>3, MarksFew DEF MarkOps
  <2> QED
    BY <1>1, <1>2, <1>4, <1>5, <2>1, <2>2, <2>4 DEF MutexKept, PriCall, waitVars
<1>7. CASE \E t \in Tasks, p \in NewPris : TaskPriChangeCheck(t, p)
  <2>1. PICK t \in Tasks, p \in NewPris : TaskPriChangeCheck(t, p)
    BY <1>7
  <2>2. /\ pc' = [pc EXCEPT ![active] = "pri"] /\ call' = [call EXCEPT ![active] = <<t, p>>]
        /\ UNCHANGED <<task_state, alive, waitVars, mutexVars>> /\ todo' = <<>>
    BY <1>5, <2>1 DEF TaskPriChangeCheck, dataVars
  <2>3. MutexKept
    BY <1>5, <2>2, BetweenSections
  <2> QED
    BY <1>1, <1>2, <1>4, <1>5, <2>2, <2>3 DEF PriCall, waitVars
<1> QED
  BY <1>6, <1>7

\* mutex_task_pri_reset leaves at most a priority change to do.
LEMMA ResetIsPri ==
    ASSUME IInv, IInv', NEW t \in Tasks, task_state[t] \in Pending
    PROVE  MutexTaskPriReset(t, blk_list') \in PriWork
<1>1. BlkExact(blk_list', task_state', blk_obj') /\ task_state'[IdleTask] = "K_RDY"
  BY DEF IInv, IdleSound
<1>2. blk_list' \in [Objs -> Seq(Tasks)]
  BY <1>1 DEF BlkExact
<1>3. \A x \in Objs : IdleTask \notin ToSet(blk_list'[x])
  BY <1>1, IdleNotWaiting
<1> QED
  BY <1>2, <1>3, ResetWork DEF IInv

\* A round of task_pri_change leaves at most another one to do.
LEMMA PriChangeMarks ==
    ASSUME IInv, IInv', TaskPriChange
    PROVE  Marks(todo') = Marks(todo)
<1>1. Doing("pri_change")
  BY DEF TaskPriChange
<1>2. /\ Marks(todo) = Marks(Tail(todo)) /\ Tail(todo) \in Seq(Items)
  BY <1>1, MarksHead DEF Doing, MarkOps
<1> DEFINE t == Head(todo).task
           new == Head(todo).arg
           m == blk_obj[t]
           o == mutex_task[m]
           look == PriLook(b_prio[o], ToSet(mutex_list[o]), blk_list', prio')
           next == IF m \notin Mutexes \cap alive THEN <<>>
                   ELSE IF prio[o] > new THEN <<Item("pri_change", o, NULL, new)>>
                   ELSE IF prio[o] = prio[t] /\ look # prio[o]
                        THEN <<Item("pri_change", o, NULL, look)>>
                   ELSE <<>>
<1>3. todo' = Tail(todo) \/ todo' = next \o Tail(todo)
  BY DEF TaskPriChange
<1>4. next = <<>> \/ \E p : next = <<Item("pri_change", o, NULL, p)>>
  <2> HIDE DEF o, t, m, look, new
  <2> QED
    BY Zenon
<1> HIDE DEF next
<1>5. CASE next = <<>>
  <2>1. <<>> \o Tail(todo) = Tail(todo)
    BY <1>2
  <2> QED
    BY <1>2, <1>3, <1>5, <2>1
<1>6. ASSUME NEW p, next = <<Item("pri_change", o, NULL, p)>>, todo' = next \o Tail(todo)
      PROVE  Marks(todo') = Marks(todo)
  <2>1. PICK it : it = Item("pri_change", o, NULL, p)
    OBVIOUS
  <2>2. it.op = "pri_change" /\ next = <<it>>
    BY <1>6, <2>1 DEF Item
  <2>3. PICK S : S = Items \cup {it}
    OBVIOUS
  <2>4. ToSet(<<it>> \o Tail(todo)) = ToSet(Tail(todo)) \cup {it}
    <3>1. PICK td : td = Tail(todo)
      OBVIOUS
    <3>2. td \in Seq(S) /\ it \in S
      BY <1>2, <2>3, <3>1
    <3>3. ToSet(<<it>> \o td) = ToSet(td) \cup {it}
      BY <3>2, ConsSet
    <3> QED
      BY <3>1, <3>3
  <2> QED
    BY <1>2, <1>6, <2>2, <2>4 DEF Marks, MarkOps
<1> QED
  BY <1>2, <1>3, <1>4, <1>5, <1>6

\* The rounds of sections that do not concern who owns a mutex.
LEMMA RoundSteps ==
    ASSUME IInv, IInv', TaskPriChange \/ CancelCoreSched \/ TickProc
    PROVE  MutexKept /\ PhaseKept
<1>1. CASE TaskPriChange
  <2>1. UNCHANGED <<task_state, alive, blk_obj, blk_state, mutexVars, cpuVars, pc, call>>
    BY <1>1 DEF TaskPriChange
  <2>2. MutexKept
    BY <1>1, <2>1, PriChangeMarks DEF MutexKept, cpuVars
  <2> QED
    BY <2>1, <2>2 DEF PhaseKept, PcKept, Created
<1>2. CASE CancelCoreSched
  <2>1. UNCHANGED <<task_state, alive, blk_obj, blk_state, mutexVars, active, pc, call>>
    BY <1>2 DEF CancelCoreSched, dataVars, waitVars
  <2>2. todo # <<>> /\ Head(todo).op = "core_sched" /\ todo' = Tail(todo)
    BY <1>2 DEF CancelCoreSched, Doing
  <2>3. Marks(todo') = Marks(todo)
    BY <2>2, MarksHead DEF MarkOps
  <2>4. MutexKept
    BY <2>1, <2>3 DEF MutexKept
  <2> QED
    BY <2>1, <2>4 DEF PhaseKept, PcKept, Created
<1>3. CASE TickProc
  <2>1. UNCHANGED <<task_state, alive, blk_obj, blk_state, mutexVars, active, pc, call>>
    BY <1>3 DEF TickProc
  <2>2. PICK it : it = Item("tick", NULL, NULL, 0)
    OBVIOUS
  <2>3. todo = <<>> /\ todo' = <<it>> /\ it.op = "tick"
    BY <1>3, <2>2 DEF TickProc, InTickIsr, Item
  <2>4. Marks(todo') = {} /\ Marks(todo) = {}
    BY <2>3, MarksFew DEF MarkOps
  <2>5. MutexKept
    BY <2>1, <2>4 DEF MutexKept
  <2> QED
    BY <2>1, <2>5 DEF PhaseKept, PcKept, Created
<1> QED
  BY <1>1, <1>2, <1>3

\* A wait ends without success: pend_task_rm, a timeout, the end of a sleep.
LEMMA WakeFails ==
    ASSUME IInv, NEW t \in Tasks, task_state[t] \in Timed, NEW why, PendTaskWakeup(t, why),
           task_state[t] \in Pending => why # "BLK_FINISH", UNCHANGED call, PcKept
    PROVE  WaitFails(t)
<1>1. /\ task_state \in [Tasks -> TaskStates]
      /\ blk_obj \in [Tasks -> Objs \cup {NULL}]
      /\ blk_state \in [Tasks -> {"BLK_FINISH", "BLK_ABORT", "BLK_TIMEOUT", "BLK_DEL"}]
  BY DEF IInv, FieldsOK
<1>2. /\ blk_state' = [blk_state EXCEPT ![t] = why]
      /\ blk_obj' = [blk_obj EXCEPT ![t] = NULL]
  BY DEF PendTaskWakeup, LeaveWait
<1>3. /\ task_state'[t] \in {"K_RDY", "K_SUSPENDED"}
      /\ \A x \in Tasks : x # t => task_state'[x] = task_state[x]
  BY <1>1 DEF PendTaskWakeup
<1> QED
  BY <1>1, <1>2, <1>3 DEF WaitFails

\* A round of tick_list_update, and of the loop over the waiters of a deleted
\* object.
LEMMA EndSteps ==
    ASSUME IInv, IInv', TickExpire \/ DelWaiters
    PROVE  MutexKept /\ (PhaseKept \/ \E t \in Tasks : WaitFails(t))
<1>1. /\ todo # <<>> /\ Head(todo).op \in {"tick", "del_waiters"}
      /\ UNCHANGED <<mutexVars, alive, cpuVars, pc, call>>
  BY DEF TickExpire, DelWaiters, Doing
<1>2. PcKept
  BY <1>1 DEF PcKept
<1>3. Marks(Tail(todo)) = Marks(todo) /\ todo \in Seq(Items)
  BY <1>1, MarksHead DEF MarkOps, IInv, TodoSound
<1>4. Marks(todo') = Marks(todo) => MutexKept
  BY <1>1 DEF MutexKept, cpuVars
<1>5. CASE DelWaiters
  <2> DEFINE o == Head(todo).obj
  <2>1. CASE blk_list[o] = <<>>
    <3>1. UNCHANGED <<task_state, waitVars>> /\ todo' = Tail(todo)
      BY <1>5, <2>1 DEF DelWaiters
    <3> QED
      BY <1>1, <1>2, <1>3, <1>4, <3>1 DEF PhaseKept, Created, waitVars
  <2>2. CASE blk_list[o] # <<>>
    <3>1. PendTaskWakeup(Head(blk_list[o]), "BLK_DEL") /\ todo' = todo
      BY <1>5, <2>2 DEF DelWaiters
    <3>2. o \in Objs
      BY <1>1, <1>5, MarksHead DEF WorkItem, DelWaiters, Doing
    <3>3. PICK w : w = Head(blk_list[o])
      OBVIOUS
    <3>4. w \in Tasks /\ task_state[w] \in Pending
      BY <2>2, <3>2, <3>3, BlkHead DEF IInv
    <3>5. WaitFails(w)
      BY <1>1, <1>2, <3>1, <3>3, <3>4, WakeFails DEF Timed
    <3> QED
      BY <1>4, <3>1, <3>4, <3>5
  <2> QED
    BY <2>1, <2>2
<1>6. CASE TickExpire
  <2> DEFINE t == Head(tick_list)
             due == tick_list # <<>> /\ tick_remain[t] <= 0
  <2>1. CASE ~due
    <3>1. UNCHANGED <<task_state, waitVars>> /\ todo' = Tail(todo)
      BY <1>6, <2>1 DEF TickExpire
    <3> QED
      BY <1>1, <1>2, <1>3, <1>4, <3>1 DEF PhaseKept, Created, waitVars
  <2>2. CASE due
    <3>1. t \in Tasks
      <4>1. tick_list \in Seq(Tasks)
        BY DEF IInv, FieldsOK
      <4> QED
        BY <2>2, <4>1, TailSeq
    <3>2. CASE task_state[t] \in Sleeping
      <4>1. PendTaskWakeup(t, "BLK_FINISH") /\ todo' = todo
        BY <1>6, <2>2, <3>2 DEF TickExpire, Sleeping, Pending
      <4>2. task_state[t] \notin Pending
        BY <3>2 DEF Sleeping, Pending
      <4> HIDE DEF t
      <4>3. WaitFails(t)
        BY <1>1, <1>2, <3>1, <3>2, <4>1, <4>2, WakeFails DEF Timed
      <4> QED
        BY <1>4, <3>1, <4>1, <4>3
    <3>3. CASE task_state[t] \in Pending
      <4>1. PendTaskWakeup(t, "BLK_TIMEOUT") /\ todo' = MutexTaskPriReset(t, blk_list') \o todo
        BY <1>6, <2>2, <3>3 DEF TickExpire, Sleeping, Pending
      <4> HIDE DEF t
      <4>2. Marks(todo') = Marks(todo)
        BY <1>3, <3>1, <3>3, <4>1, ResetIsPri, MarksPush
      <4>3. WaitFails(t)
        BY <1>1, <1>2, <3>1, <3>3, <4>1, WakeFails DEF Timed
      <4> QED
        BY <1>4, <3>1, <4>2, <4>3
    <3>4. task_state[t] \in Sleeping \/ task_state[t] \in Pending
      BY <1>6, <2>2 DEF TickExpire
    <3> QED
      BY <3>2, <3>3, <3>4
  <2> QED
    BY <2>1, <2>2
<1> QED
  BY <1>5, <1>6

\* krhino_task_wait_abort and krhino_task_cancel.
LEMMA AbortSteps ==
    ASSUME IInv, IInv', NEW t \in Tasks, TaskWaitAbort(t) \/ TaskCancel(t)
    PROVE  MutexKept /\ (PhaseKept \/ WaitFails(t))
<1>1. /\ todo = <<>> /\ pc[active] = "run" /\ Created(t) /\ WaitAbort(t)
      /\ ExitSched \/ UNCHANGED pc
      /\ UNCHANGED <<mutexVars, alive, cpuVars, call>>
  BY DEF TaskWaitAbort, TaskCancel, Calling, InTask
<1>2. PcKept
  BY <1>1, ExitKeepsPc
<1>3. Marks(todo') = {}
  <2> DEFINE cs == <<Item("core_sched", NULL, NULL, 0)>>
  <2>1. cs \in Seq(Items) /\ Marks(cs) = {}
    <3>1. PICK it : it = Item("core_sched", NULL, NULL, 0)
      OBVIOUS
    <3>2. it \in Items /\ it.op = "core_sched"
      BY <3>1 DEF Item, Items, Ops
    <3>3. Marks(<<it>>) = {}
      BY <3>2, MarksFew DEF MarkOps
    <3>4. <<it>> \in Seq(Items)
      BY <3>2
    <3> QED
      BY <3>1, <3>3, <3>4
  <2>2. <<>> \in PriWork
    BY DEF PriWork
  <2> HIDE DEF cs
  <2>3. PICK r \in PriWork : todo' = r \/ todo' = r \o cs
    <3>1. CASE task_state[t] \in Pending
      <4>1. MutexTaskPriReset(t, blk_list') \in PriWork
        BY <3>1, ResetIsPri
      <4> QED
        BY <3>1, <4>1 DEF TaskWaitAbort, TaskCancel, cs
    <3>2. CASE task_state[t] \notin Pending
      BY <2>2, <3>2 DEF TaskWaitAbort, TaskCancel, cs
    <3> QED
      BY <3>1, <3>2
  <2>4. Marks(r) = {}
    BY MarksPri
  <2>5. Marks(r \o cs) = {}
    BY <2>1, MarksPush
  <2> QED
    BY <2>3, <2>4, <2>5
<1>4. MutexKept
  BY <1>1, <1>3, MarksFew DEF MutexKept
<1>5. /\ task_state \in [Tasks -> TaskStates]
      /\ blk_obj \in [Tasks -> Objs \cup {NULL}]
      /\ blk_state \in [Tasks -> {"BLK_FINISH", "BLK_ABORT", "BLK_TIMEOUT", "BLK_DEL"}]
  BY DEF IInv, FieldsOK
<1>6. /\ task_state'[t] = "K_RDY"
      /\ \A x \in Tasks : x # t => task_state'[x] = task_state[x]
  BY <1>1, <1>5 DEF WaitAbort
<1>7. CASE task_state[t] \in Timed
  <2>1. LeaveWait(t, "BLK_ABORT")
    BY <1>1, <1>7 DEF WaitAbort, Timed
  <2>2. /\ blk_state' = [blk_state EXCEPT ![t] = "BLK_ABORT"]
        /\ blk_obj' = [blk_obj EXCEPT ![t] = NULL]
    BY <2>1 DEF LeaveWait
  <2>3. WaitFails(t)
    BY <1>1, <1>2, <1>5, <1>6, <1>7, <2>2 DEF WaitFails
  <2> QED
    BY <1>4, <2>3
<1>8. CASE task_state[t] \notin Timed
  <2>1. UNCHANGED waitVars
    BY <1>1, <1>8 DEF WaitAbort, Timed
  <2>2. PhaseKept
    BY <1>1, <1>2, <1>6, <1>8, <2>1 DEF PhaseKept, Created, Timed, Pending, Sleeping, waitVars
  <2> QED
    BY <1>4, <2>2
<1> QED
  BY <1>7, <1>8

-----------------------------------------------------------------------------
(* The steps that change who owns or awaits a mutex.                        *)

\* Without a hand-over and a deletion in progress the owner fields are exact.
LEMMA NoMarks ==
    ASSUME \A it \in Marks(todo) : it.op = "lock_pend"
    PROVE  /\ \A m : ~GivenBack(m)
           /\ \A t : ~Dying(t) /\ Left(t) = {}
           /\ \A t, m : Owns(t, m) <=> m \in alive /\ mutex_task[m] = t
<1>1. \A m : ~GivenBack(m)
  BY DEF GivenBack
<1>2. \A t : ~Dying(t)
  BY DEF Dying
<1>3. \A t : Left(t) = {}
  BY DEF Left
<1> QED
  BY <1>1, <1>2, <1>3 DEF Owns

\* The same after a step.
LEMMA NoMarksNext ==
    ASSUME \A it \in Marks(todo') : it.op = "lock_pend"
    PROVE  /\ \A m : ~GivenBack(m)'
           /\ \A t : ~Dying(t)' /\ Left(t)' = {}
           /\ \A t, m : Owns(t, m)' <=> m \in alive' /\ mutex_task'[m] = t
<1>1. \A m : ~GivenBack(m)'
  BY DEF GivenBack
<1>2. \A t : ~Dying(t)'
  BY DEF Dying
<1>3. \A t : Left(t)' = {}
  BY DEF Left
<1> QED
  BY <1>1, <1>2, <1>3 DEF Owns

\* Nothing is under way at the beginning of a call.
LEMMA CallerMutex ==
    ASSUME MutexIInv, NEW c, Calling(c)
    PROVE  /\ todo = <<>> /\ Marks(todo) = {} /\ nested = 0 /\ pc[active] = "run"
           /\ active \in Tasks /\ active # IdleTask /\ Created(active) /\ call[active] = NULL
           /\ task_state[active] = "K_RDY"
           /\ task_state[active] \notin Pending /\ task_state[active] \notin Sleeping
           /\ \A m : ~GivenBack(m)
           /\ \A t : ~Dying(t) /\ Left(t) = {}
           /\ \A t, m : Owns(t, m) <=> m \in alive /\ mutex_task[m] = t
<1>1. /\ todo = <<>> /\ nested = 0 /\ pc[active] = "run" /\ active # IdleTask
      /\ active \in Tasks /\ task_state[active] = "K_RDY"
  BY Caller DEF MutexIInv
<1>2. Marks(todo) = {}
  BY <1>1, MarksFew
<1>3. /\ Created(active) /\ task_state[active] \notin Pending
      /\ task_state[active] \notin Sleeping
  BY <1>1 DEF Created, Pending, Sleeping
<1>4. call[active] = NULL
  BY <1>1 DEF MutexIInv, CallsSound
<1> QED
  BY <1>1, <1>2, <1>3, <1>4, NoMarks

\* A task has not taken a mutex that it does not own.
LEMMA NotHeld ==
    ASSUME MutexIInv, NEW t \in Tasks, NEW m \in Mutexes, ~Owns(t, m), ~Dying(t)
    PROVE  held[t][m] = 0
<1>1. held[t][m] \in Nat
  BY DEF MutexIInv, IInv, FieldsOK
<1>2. ~(held[t][m] > 0)
  BY DEF MutexIInv, HeldSound
<1> QED
  BY <1>1, <1>2

\* A step with nothing but a wait under way that keeps the mutexes.
LEMMA PlainLists ==
    ASSUME MutexIInv, UNCHANGED <<mutexVars, alive>>,
           \A it \in Marks(todo) : it.op = "lock_pend",
           \A it \in Marks(todo') : it.op = "lock_pend" /\ mutex_task'[it.obj] # active',
           \A x \in Tasks : Created(x)' <=> Created(x)
    PROVE  ListSound' /\ RestSound' /\ HeldSound'
           /\ \A m \in Mutexes \cap alive' : mutex_task'[m] # NULL => Created(mutex_task[m])'
<1>1. UNCHANGED <<mutex_list, mutex_task, owner_nested, held, alive>>
  BY DEF mutexVars
<1>2. /\ \A t : ~Dying(t) /\ Left(t) = {}
      /\ \A t, m : Owns(t, m) <=> m \in alive /\ mutex_task[m] = t
  BY NoMarks
<1>3. /\ \A t : ~Dying(t)' /\ Left(t)' = {}
      /\ \A t, m : Owns(t, m)' <=> m \in alive' /\ mutex_task'[m] = t
  BY NoMarksNext
<1>4. /\ \A t : (Dying(t)' <=> Dying(t)) /\ Left(t)' = Left(t)
      /\ \A t, m : Owns(t, m)' <=> Owns(t, m)
  BY <1>1, <1>2, <1>3
<1>5. ListSound'
  BY <1>1, <1>4 DEF MutexIInv, ListSound
<1>6. HeldSound'
  BY <1>1, <1>4 DEF MutexIInv, HeldSound
<1>7. RestSound'
  BY DEF RestSound, MarkSound
<1>8. mutex_task \in [Mutexes -> Tasks \cup {NULL}]
  BY DEF MutexIInv, IInv, FieldsOK
<1> QED
  BY <1>1, <1>5, <1>6, <1>7, <1>8 DEF MutexIInv, OwnerSound

\* krhino_mutex_lock begins to wait: for a mutex that another task owns.
LEMMA MutexLockPendOwn == ASSUME MutexIInv, IInv', MutexLockPend PROVE MutexIInv'
<1> DEFINE m == Head(todo).obj
<1>1. /\ Doing("lock_pend") /\ todo' = Tail(todo)
      /\ UNCHANGED <<alive, mutexVars, cpuVars>>
      /\ PendToBlkObj(m, Head(todo).arg)
  BY DEF MutexLockPend
<1>2. /\ Marks(todo) = {Head(todo)} /\ Marks(todo') = {} /\ Head(todo).op = "lock_pend"
      /\ m \in Mutexes /\ Head(todo) \in ToSet(todo)
  <2>1. todo # <<>> /\ Head(todo).op = "lock_pend"
    BY <1>1 DEF Doing
  <2>2. Tail(todo) = <<>> /\ WorkItem(Head(todo))
    BY <2>1, MarksHead DEF MutexIInv
  <2>3. Marks(todo) = {Head(todo)}
    BY <2>1, <2>2, MarksHead, MarksFew DEF MutexIInv, MarkOps
  <2> QED
    BY <1>1, <2>1, <2>2, <2>3, MarksFew DEF WorkItem, Marks
<1>3. /\ m \in alive /\ mutex_task[m] # active /\ pc[active] = "run" /\ ~pendsv
      /\ active \in Tasks
  BY <1>2 DEF MutexIInv, IInv, TodoSound, ItemSound, RestSound, MarkSound, FieldsOK
<1>4. task_state[active] = "K_RDY"
  BY <1>3 DEF MutexIInv, IInv, CpuSound
<1>5. /\ UNCHANGED <<mutex_list, mutex_task, owner_nested, held, alive, blk_state, active>>
      /\ \A t : ~Dying(t) /\ ~Dying(t)'
      /\ \A t, x : Owns(t, x) <=> x \in alive /\ mutex_task[x] = t
  BY <1>1, <1>2, NoMarks, NoMarksNext DEF mutexVars, cpuVars, PendToBlkObj
<1>6. /\ \A x \in Tasks : x # active => /\ task_state'[x] = task_state[x]
                                        /\ pc'[x] = pc[x] /\ call'[x] = call[x]
                                        /\ blk_obj'[x] = blk_obj[x]
      /\ task_state'[active] = "K_PEND" /\ pc'[active] = "blk" /\ call'[active] = m
      /\ blk_obj'[active] = m
  BY <1>1, <1>3 DEF PendToBlkObj, MutexIInv, IInv, FieldsOK
<1> HIDE DEF m
<1>7. \A x \in Tasks : Created(x)' <=> Created(x)
  BY <1>4, <1>6 DEF Created
<1>8. /\ ListSound' /\ RestSound' /\ HeldSound'
      /\ \A x \in Mutexes \cap alive' : mutex_task'[x] # NULL => Created(mutex_task[x])'
  BY <1>1, <1>2, <1>7, PlainLists
<1>9. OwnerSound'
  BY <1>3, <1>5, <1>6, <1>8 DEF OwnerSound, MutexIInv
<1>10. CallsSound'
  <2>1. Created(active)
    BY <1>4 DEF Created
  <2> QED
    BY <1>3, <1>6, <1>7, <2>1 DEF CallsSound, MutexIInv, Sleeping
<1>11. ASSUME NEW x \in Tasks, NEW y \in Mutexes \cap alive', InLock(x, y)', ~Dying(x)'
       PROVE  /\ held'[x][y] = 0
              /\ mutex_task'[y] = x
                 <=> task_state'[x] \notin Pending /\ blk_state'[x] = "BLK_FINISH"
  <2>1. CASE x # active
    BY <1>5, <1>6, <1>11, <2>1 DEF InLock, MutexIInv, GrantSound
  <2>2. CASE x = active
    <3>1. y = m
      BY <1>6, <1>11, <2>2 DEF InLock
    <3>3. held[active][m] = 0
      BY <1>2, <1>3, <1>5, NotHeld
    <3> QED
      BY <1>3, <1>5, <1>6, <2>2, <3>1, <3>3 DEF Pending
  <2> QED
    BY <2>1, <2>2
<1>12. GrantSound'
  BY <1>11 DEF GrantSound
<1> QED
  BY <1>8, <1>9, <1>10, <1>12 DEF MutexIInv

\* krhino_task_sleep.
LEMMA TaskSleepOwn ==
    ASSUME MutexIInv, IInv', NEW ticks \in Waits, TaskSleep(ticks) PROVE MutexIInv'
<1>1. /\ Calling("task_sleep") /\ UNCHANGED <<alive, mutexVars, cpuVars, todo, blk_state>>
      /\ UNCHANGED <<call, blk_obj>>
      /\ task_state' = [task_state EXCEPT ![active] = "K_SLEEP"]
      /\ pc' = [pc EXCEPT ![active] = "blk"]
  BY DEF TaskSleep
<1>2. /\ Marks(todo) = {} /\ active \in Tasks /\ Created(active) /\ call[active] = NULL
      /\ task_state[active] = "K_RDY"
      /\ \A t : ~Dying(t)
  BY <1>1, CallerMutex
<1>3. /\ \A x \in Tasks : x # active => task_state'[x] = task_state[x] /\ pc'[x] = pc[x]
      /\ task_state'[active] = "K_SLEEP" /\ pc'[active] = "blk"
  BY <1>1, <1>2 DEF MutexIInv, IInv, FieldsOK
<1>4. \A x \in Tasks : Created(x)' <=> Created(x)
  BY <1>2, <1>3 DEF Created
<1>5. /\ ListSound' /\ RestSound' /\ HeldSound'
      /\ \A x \in Mutexes \cap alive' : mutex_task'[x] # NULL => Created(mutex_task[x])'
  BY <1>1, <1>2, <1>4, PlainLists
<1>6. UNCHANGED <<mutex_task, held>>
  BY <1>1 DEF mutexVars
<1>7. OwnerSound'
  BY <1>1, <1>3, <1>5, <1>6 DEF OwnerSound, MutexIInv, Pending
<1>8. CallsSound'
  BY <1>1, <1>2, <1>3, <1>4 DEF CallsSound, MutexIInv, Pending
<1>9. \A m \in Mutexes : m # NULL
  BY KernelAssumption
<1>10. GrantSound'
  BY <1>1, <1>2, <1>3, <1>6, <1>9 DEF GrantSound, InLock, MutexIInv
<1> QED
  BY <1>5, <1>7, <1>8, <1>10 DEF MutexIInv

\* krhino_mutex_lock leaves the blocking of the caller to do.
LEMMA BusyMarks ==
    ASSUME MutexIInv, NEW m \in Mutexes, NEW ticks \in Waits, MutexLockBusy(m, ticks)
    PROVE  \E it : it.op = "lock_pend" /\ it.obj = m /\ Marks(todo') = {it}
<1>1. Calling("mutex_lock") /\ m \in alive /\ mutex_task[m] \notin {NULL, active}
  BY DEF MutexLockBusy
<1>2. PICK it : it = Item("lock_pend", active, m, ticks)
  OBVIOUS
<1>3. PICK r \in PriWork : todo' = r \o <<it>>
  <2>1. CASE prio[active] < prio[mutex_task[m]]
    <3>1. mutex_task[m] \in AppTasks /\ prio[active] \in AppPris
      BY <1>1, Caller DEF MutexIInv, IInv, PendSound, FieldsOK, AppTasks
    <3>2. PICK r : r = <<Item("pri_change", mutex_task[m], NULL, prio[active])>>
      OBVIOUS
    <3>3. r \in PriWork
      BY <3>1, <3>2 DEF PriWork
    <3>4. todo' = r \o <<it>>
      BY <1>2, <2>1, <3>2, Zenon DEF MutexLockBusy
    <3> QED
      BY <3>3, <3>4
  <2>2. CASE ~(prio[active] < prio[mutex_task[m]])
    BY <1>2, <2>2 DEF MutexLockBusy, PriWork
  <2> QED
    BY <2>1, <2>2
<1>4. it.op = "lock_pend" /\ it.obj = m /\ it \in Items
  <2>1. active \in Tasks /\ ticks \in Int
    BY <1>1, Caller, KernelAssumption DEF MutexIInv, FOREVER
  <2> QED
    BY <1>2, <2>1 DEF Item, Items, Ops, Objs
<1>5. Marks(todo') = {it}
  <2>1. <<it>> \in Seq(Items)
    BY <1>4
  <2>2. Marks(<<it>>) = {it}
    BY <1>4, MarksFew DEF MarkOps
  <2> QED
    BY <1>3, <2>1, <2>2, MarksPush
<1> QED
  BY <1>4, <1>5

\* krhino_mutex_lock of a mutex that another task owns.
LEMMA MutexLockBusyOwn ==
    ASSUME MutexIInv, IInv', NEW m \in Mutexes, NEW ticks \in Waits, MutexLockBusy(m, ticks)
    PROVE  MutexIInv'
<1>1. /\ Calling("mutex_lock") /\ m \in alive /\ mutex_task[m] \notin {NULL, active}
      /\ UNCHANGED <<mutexVars, alive, task_state, blk_state, blk_obj, cpuVars, pc, call>>
  BY DEF MutexLockBusy, dataVars, waitVars
<1>4. PICK it : it.op = "lock_pend" /\ it.obj = m /\ Marks(todo') = {it}
  BY BusyMarks
<1>6. UNCHANGED <<mutex_list, mutex_task, owner_nested, held, active>>
  BY <1>1 DEF mutexVars, cpuVars
<1>7. Marks(todo) = {} /\ \A t : ~Dying(t)
  BY <1>1, CallerMutex
<1>8. \A x \in Tasks : Created(x)' <=> Created(x)
  BY <1>1 DEF Created
<1>9. /\ ListSound' /\ RestSound' /\ HeldSound'
      /\ \A x \in Mutexes \cap alive' : mutex_task'[x] # NULL => Created(mutex_task[x])'
  BY <1>1, <1>4, <1>6, <1>7, <1>8, PlainLists
<1>10. OwnerSound'
  BY <1>1, <1>6, <1>9 DEF OwnerSound, MutexIInv
<1>11. CallsSound'
  BY <1>1, <1>8 DEF CallsSound, MutexIInv
<1>12. GrantSound'
  BY <1>1, <1>6, <1>7 DEF GrantSound, InLock, MutexIInv
<1> QED
  BY <1>9, <1>10, <1>11, <1>12 DEF MutexIInv

\* Who waits stays the same, in a call that begins and ends without marks.
LEMMA PlainCalls ==
    ASSUME MutexIInv, UNCHANGED <<task_state, blk_obj, blk_state, call>>, PcKept
    PROVE  /\ CallsSound'
           /\ \A x \in Tasks : Created(x)' <=> Created(x)
           /\ \A x \in Tasks : \A m : InLock(x, m)' <=> InLock(x, m)
<1>1. pc \in [Tasks -> {"run", "sched", "blk", "end", "pri"}]
  BY DEF MutexIInv, IInv, FieldsOK
<1>2. CallsSound'
  BY <1>1 DEF CallsSound, Created, PcKept, MutexIInv
<1>3. \A x \in Tasks : \A m : InLock(x, m)' <=> InLock(x, m)
  BY <1>1 DEF InLock, PcKept
<1> QED
  BY <1>2, <1>3 DEF Created

\* krhino_mutex_create.
LEMMA MutexCreateOwn ==
    ASSUME MutexIInv, IInv', NEW m \in Mutexes, MutexCreate(m) PROVE MutexIInv'
<1>1. /\ Calling("mutex_create") /\ m \notin alive
      /\ \A t \in Tasks : call[t] # m
      /\ alive' = alive \cup {m}
      /\ mutex_task' = [mutex_task EXCEPT ![m] = NULL]
      /\ owner_nested' = [owner_nested EXCEPT ![m] = 0]
      /\ UNCHANGED <<mutex_list, held, task_state, blk_obj, blk_state, call, todo, pc>>
  BY DEF MutexCreate, waitVars, ctlVars
<1>2. /\ Marks(todo) = {} /\ Marks(todo') = {} /\ \A t : ~Dying(t)
      /\ \A t, x : Owns(t, x) <=> x \in alive /\ mutex_task[x] = t
  BY <1>1, CallerMutex
<1>3. /\ \A t : ~Dying(t)'
      /\ \A t, x : Owns(t, x)' <=> x \in alive' /\ mutex_task'[x] = t
  BY <1>2, NoMarksNext
<1>4. \A x \in Mutexes : /\ x # m => mutex_task'[x] = mutex_task[x]
                                     /\ owner_nested'[x] = owner_nested[x]
                         /\ mutex_task'[m] = NULL
  BY <1>1 DEF MutexIInv, IInv, FieldsOK
<1>5. \A t \in Tasks : t # NULL
  BY KernelAssumption
<1>6. \A t \in Tasks, x \in Mutexes : Owns(t, x)' <=> Owns(t, x)
  BY <1>1, <1>2, <1>3, <1>4, <1>5
<1>7. PcKept
  BY <1>1 DEF PcKept
<1>8. /\ CallsSound'
      /\ \A x \in Tasks : Created(x)' <=> Created(x)
      /\ \A x \in Tasks : \A y : InLock(x, y)' <=> InLock(x, y)
  BY <1>1, <1>7, PlainCalls
<1>9. ListSound'
  BY <1>1, <1>2, <1>3, <1>6, <1>8 DEF MutexIInv, ListSound
<1>10. \A t \in Tasks : task_state[t] \in Pending => blk_obj[t] # m
  BY <1>1 DEF MutexIInv, IInv, PendSound
<1>11. OwnerSound'
  <2>1. mutex_task \in [Mutexes -> Tasks \cup {NULL}]
    BY DEF MutexIInv, IInv, FieldsOK
  <2> QED
    BY <1>1, <1>4, <1>8, <1>10, <2>1 DEF MutexIInv, OwnerSound
<1>12. RestSound'
  BY <1>2 DEF RestSound
<1>13. GrantSound'
  <2>1. ASSUME NEW x \in Tasks, InLock(x, m) PROVE FALSE
    BY <1>1, <2>1 DEF InLock
  <2> QED
    BY <1>1, <1>2, <1>4, <1>8, <2>1 DEF MutexIInv, GrantSound
<1>14. HeldSound'
  <2>1. ASSUME NEW t \in Tasks PROVE ~Owns(t, m)
    BY <1>1, <1>2
  <2> QED
    BY <1>1, <1>2, <1>3, <1>4, <1>6, <2>1 DEF MutexIInv, HeldSound
<1> QED
  BY <1>8, <1>9, <1>11, <1>12, <1>13, <1>14 DEF MutexIInv

\* krhino_mutex_lock and krhino_mutex_unlock by the owner, nested.
LEMMA NestedOwn ==
    ASSUME MutexIInv, IInv', NEW m \in Mutexes, MutexLockNested(m) \/ MutexUnlockNested(m)
    PROVE  MutexIInv'
<1>1. /\ \E c : Calling(c)
      /\ m \in alive /\ mutex_task[m] = active
      /\ UNCHANGED <<mutex_list, mutex_task, alive, task_state, blk_obj, blk_state>>
      /\ UNCHANGED <<call, todo, pc, active>>
  BY DEF MutexLockNested, MutexUnlockNested, waitVars, ctlVars, cpuVars
<1>2. /\ Marks(todo) = {} /\ Marks(todo') = {} /\ \A t : ~Dying(t) /\ Left(t) = {}
      /\ active \in Tasks /\ pc[active] = "run"
      /\ \A t, x : Owns(t, x) <=> x \in alive /\ mutex_task[x] = t
  BY <1>1, CallerMutex
<1>3. /\ \A t : ~Dying(t)' /\ Left(t)' = {}
      /\ \A t, x : Owns(t, x)' <=> x \in alive' /\ mutex_task'[x] = t
  BY <1>2, NoMarksNext
<1>4. \A t, x : Owns(t, x)' <=> Owns(t, x)
  BY <1>1, <1>2, <1>3
<1>5. PcKept
  BY <1>1 DEF PcKept
<1>6. /\ CallsSound'
      /\ \A x \in Tasks : Created(x)' <=> Created(x)
      /\ \A x \in Tasks : \A y : InLock(x, y)' <=> InLock(x, y)
  BY <1>1, <1>5, PlainCalls
<1>7. ListSound'
  BY <1>1, <1>2, <1>3, <1>4, <1>6 DEF MutexIInv, ListSound
<1>8. OwnerSound'
  <2>1. mutex_task \in [Mutexes -> Tasks \cup {NULL}]
    BY DEF MutexIInv, IInv, FieldsOK
  <2> QED
    BY <1>1, <1>6, <2>1 DEF MutexIInv, OwnerSound
<1>9. RestSound'
  BY <1>2 DEF RestSound
<1>10. /\ held \in [Tasks -> [Mutexes -> Nat]] /\ owner_nested \in [Mutexes -> 0..MaxNested]
       /\ MaxNested \in Nat
  BY KernelAssumption DEF MutexIInv, IInv, FieldsOK
<1>11. /\ \A t \in Tasks, x \in Mutexes :
             t # active \/ x # m => held'[t][x] = held[t][x]
       /\ \A x \in Mutexes : x # m => owner_nested'[x] = owner_nested[x]
       /\ \/ /\ held'[active][m] = held[active][m] + 1
             /\ owner_nested'[m] = owner_nested[m] + 1
          \/ /\ held'[active][m] = IF held[active][m] > 0 THEN held[active][m] - 1 ELSE 0
             /\ owner_nested'[m] = owner_nested[m] - 1 /\ owner_nested[m] > 1
  BY <1>2, <1>10 DEF MutexLockNested, MutexUnlockNested
<1>12. GrantSound'
  <2>1. \A x : ~InLock(active, x)
    BY <1>2 DEF InLock
  <2> QED
    BY <1>1, <1>2, <1>6, <1>11, <2>1 DEF MutexIInv, GrantSound
<1>13. HeldSound'
  <2> SUFFICES ASSUME NEW t \in Tasks, NEW x \in Mutexes
               PROVE  /\ held'[t][x] > 0 => Owns(t, x)
                      /\ Owns(t, x) => owner_nested'[x] >= 1 /\ held'[t][x] <= owner_nested'[x]
    BY <1>4 DEF HeldSound
  <2>1. /\ held[t][x] > 0 => Owns(t, x)
        /\ Owns(t, x) => owner_nested[x] >= 1 /\ held[t][x] <= owner_nested[x]
    BY <1>2 DEF MutexIInv, HeldSound
  <2>2. CASE t = active /\ x = m
    <3>1. Owns(t, x) /\ held[t][x] \in Nat /\ owner_nested[x] \in Nat
      BY <1>1, <1>2, <1>10, <2>2
    <3> QED
      BY <1>11, <2>1, <2>2, <3>1
  <2>3. CASE x = m /\ t # active
    <3>1. ~Owns(t, x)
      BY <1>1, <1>2, <2>3
    <3> QED
      BY <1>11, <2>1, <2>3, <3>1
  <2>4. CASE x # m
    BY <1>11, <2>1, <2>4
  <2> QED
    BY <2>2, <2>3, <2>4
<1> QED
  BY <1>6, <1>7, <1>8, <1>9, <1>12, <1>13 DEF MutexIInv

\* krhino_mutex_lock of a free mutex.
LEMMA MutexLockFreeOwn ==
    ASSUME MutexIInv, IInv', NEW m \in Mutexes, MutexLockFree(m) PROVE MutexIInv'
<1>1. /\ Calling("mutex_lock") /\ m \in alive /\ mutex_task[m] = NULL
      /\ mutex_task' = [mutex_task EXCEPT ![m] = active]
      /\ mutex_list' = [mutex_list EXCEPT ![active] = <<m>> \o @]
      /\ owner_nested' = [owner_nested EXCEPT ![m] = 1]
      /\ held' = [held EXCEPT ![active][m] = @ + 1]
      /\ UNCHANGED <<alive, task_state, blk_obj, blk_state, call, todo, pc>>
  BY DEF MutexLockFree, waitVars, ctlVars
<1>2. /\ Marks(todo) = {} /\ Marks(todo') = {} /\ \A t : ~Dying(t)
      /\ active \in Tasks /\ pc[active] = "run" /\ Created(active)
      /\ \A t, x : Owns(t, x) <=> x \in alive /\ mutex_task[x] = t
  BY <1>1, CallerMutex
<1>3. /\ \A t : ~Dying(t)'
      /\ \A t, x : Owns(t, x)' <=> x \in alive' /\ mutex_task'[x] = t
  BY <1>2, NoMarksNext
<1>4. /\ mutex_task \in [Mutexes -> Tasks \cup {NULL}] /\ mutex_list \in [Tasks -> Seq(Mutexes)]
      /\ held \in [Tasks -> [Mutexes -> Nat]] /\ owner_nested \in [Mutexes -> 0..MaxNested]
  BY DEF MutexIInv, IInv, FieldsOK
<1>5. /\ \A x \in Mutexes : mutex_task'[x] = IF x = m THEN active ELSE mutex_task[x]
      /\ \A x \in Mutexes : owner_nested'[x] = IF x = m THEN 1 ELSE owner_nested[x]
      /\ \A t \in Tasks : mutex_list'[t] = IF t = active THEN <<m>> \o mutex_list[t]
                                           ELSE mutex_list[t]
      /\ \A t \in Tasks, x \in Mutexes :
            held'[t][x] = IF t = active /\ x = m THEN held[t][x] + 1 ELSE held[t][x]
  BY <1>1, <1>2, <1>4
<1>6. \A t \in Tasks : t # NULL
  BY KernelAssumption
<1>7. \A t \in Tasks, x \in Mutexes :
         Owns(t, x)' <=> IF x = m THEN t = active ELSE Owns(t, x)
  BY <1>1, <1>2, <1>3, <1>5
<1>8. \A t \in Tasks : ~Owns(t, m)
  BY <1>1, <1>2, <1>6
<1>9. PcKept
  BY <1>1 DEF PcKept
<1>10. /\ CallsSound'
       /\ \A x \in Tasks : Created(x)' <=> Created(x)
       /\ \A x \in Tasks : \A y : InLock(x, y)' <=> InLock(x, y)
  BY <1>1, <1>9, PlainCalls
<1>11. ListSound'
  <2> SUFFICES ASSUME NEW t \in Tasks, Created(t)
               PROVE  /\ IsInjective(mutex_list'[t])
                      /\ \A x \in Mutexes : Owns(t, x)' <=> x \in ToSet(mutex_list'[t])
    BY <1>3, <1>10 DEF ListSound
  <2>1. /\ IsInjective(mutex_list[t])
        /\ \A x \in Mutexes : Owns(t, x) <=> x \in ToSet(mutex_list[t])
    BY <1>2 DEF MutexIInv, ListSound
  <2>2. CASE t # active
    BY <1>5, <1>7, <1>8, <2>1, <2>2
  <2>3. CASE t = active
    <3>1. m \notin ToSet(mutex_list[t]) /\ mutex_list[t] \in Seq(Mutexes)
      BY <1>4, <1>8, <2>1
    <3>2. /\ ToSet(<<m>> \o mutex_list[t]) = ToSet(mutex_list[t]) \cup {m}
          /\ IsInjective(<<m>> \o mutex_list[t])
      BY <2>1, <3>1, ConsSet
    <3> QED
      BY <1>5, <1>7, <2>1, <2>3, <3>2
  <2> QED
    BY <2>2, <2>3
<1>12. \A t \in Tasks : task_state[t] \in Pending => blk_obj[t] # m
  BY <1>1 DEF MutexIInv, IInv, PendSound
<1>13. OwnerSound'
  BY <1>1, <1>2, <1>4, <1>5, <1>10, <1>12 DEF MutexIInv, OwnerSound
<1>14. RestSound'
  BY <1>2 DEF RestSound
<1>15. GrantSound'
  <2>1. \A x : ~InLock(active, x)
    BY <1>2 DEF InLock
  <2> QED
    BY <1>1, <1>2, <1>5, <1>6, <1>10, <2>1 DEF MutexIInv, GrantSound
<1>16. HeldSound'
  <2>1. held[active][m] = 0 /\ \A t \in Tasks : held[t][m] = 0
    BY <1>2, <1>8, NotHeld
  <2>2. \A t \in Tasks, x \in Mutexes :
           /\ held[t][x] > 0 => Owns(t, x)
           /\ Owns(t, x) => owner_nested[x] >= 1 /\ held[t][x] <= owner_nested[x]
    BY <1>2 DEF MutexIInv, HeldSound
  <2> SUFFICES ASSUME NEW t \in Tasks, NEW x \in Mutexes
               PROVE  /\ held'[t][x] > 0 => Owns(t, x)'
                      /\ Owns(t, x)' => owner_nested'[x] >= 1 /\ held'[t][x] <= owner_nested'[x]
    BY DEF HeldSound
  <2>3. CASE x = m
    BY <1>5, <1>7, <2>1, <2>3
  <2>4. CASE x # m
    BY <1>5, <1>7, <2>2, <2>4
  <2> QED
    BY <2>3, <2>4
<1> QED
  BY <1>10, <1>11, <1>13, <1>14, <1>15, <1>16 DEF MutexIInv

\* The last krhino_mutex_unlock leaves the hand-over to do.
LEMMA UnlockMarks ==
    ASSUME MutexIInv, NEW m \in Mutexes, MutexUnlock(m)
    PROVE  \E it : it.op = "hand_over" /\ it.obj = m /\ Marks(todo') = {it}
<1>1. /\ Calling("mutex_unlock")
      /\ mutex_list' = [mutex_list EXCEPT ![active] = RemoveFirst(@, m)]
      /\ todo' = MutexRelease(active, ToSet(mutex_list'[active]), blk_list)
                 \o <<Item("hand_over", active, m, 0)>>
  BY DEF MutexUnlock
<1>2. active \in Tasks /\ active # IdleTask
  BY <1>1, CallerMutex
<1>3. mutex_list \in [Tasks -> Seq(Mutexes)]
  BY DEF MutexIInv, IInv, FieldsOK
<1>4. mutex_list'[active] = RemoveFirst(mutex_list[active], m)
  BY <1>1, <1>2, <1>3
<1>5. PICK it : it = Item("hand_over", active, m, 0)
  OBVIOUS
<1>6. it.op = "hand_over" /\ it.obj = m /\ it \in Items
  BY <1>2, <1>5 DEF Item, Items, Ops, Objs
<1>7. Marks(todo') = {it}
  <2>1. mutex_list'[active] \in Seq(Mutexes)
    BY <1>2, <1>3, <1>4, RemoveFirstSeq
  <2>2. ToSet(mutex_list'[active]) \subseteq Objs
    BY <2>1, MemberAt DEF Objs
  <2>3. /\ blk_list \in [Objs -> Seq(Tasks)]
        /\ \A o \in Objs : IdleTask \notin ToSet(blk_list[o])
    BY WaitersNotIdle DEF MutexIInv
  <2>4. active \in AppTasks
    BY <1>2 DEF AppTasks
  <2>5. MutexRelease(active, ToSet(mutex_list'[active]), blk_list) \in PriWork
    BY <2>2, <2>3, <2>4, ReleaseWork DEF MutexIInv, IInv
  <2>6. <<it>> \in Seq(Items)
    BY <1>6
  <2>7. Marks(<<it>>) = {it}
    BY <1>6, MarksFew DEF MarkOps
  <2> QED
    BY <1>1, <1>5, <2>5, <2>6, <2>7, MarksPush
<1> QED
  BY <1>6, <1>7

\* The last krhino_mutex_unlock: the mutex is off the list of its owner.
LEMMA MutexUnlockOwn ==
    ASSUME MutexIInv, IInv', NEW m \in Mutexes, MutexUnlock(m) PROVE MutexIInv'
<1>1. /\ Calling("mutex_unlock") /\ m \in alive
      /\ mutex_task[m] = active /\ owner_nested[m] = 1
      /\ owner_nested' = [owner_nested EXCEPT ![m] = 0]
      /\ held' = [held EXCEPT ![active][m] = IF @ > 0 THEN @ - 1 ELSE 0]
      /\ mutex_list' = [mutex_list EXCEPT ![active] = RemoveFirst(@, m)]
      /\ UNCHANGED <<alive, task_state, blk_obj, blk_state, mutex_task, pc, call, active>>
  BY DEF MutexUnlock, waitVars, cpuVars
<1>2. /\ Marks(todo) = {} /\ \A t : ~Dying(t)
      /\ active \in Tasks /\ pc[active] = "run" /\ Created(active) /\ active # IdleTask
      /\ \A t, x : Owns(t, x) <=> x \in alive /\ mutex_task[x] = t
  BY <1>1, CallerMutex
<1>3. /\ mutex_task \in [Mutexes -> Tasks \cup {NULL}] /\ mutex_list \in [Tasks -> Seq(Mutexes)]
      /\ held \in [Tasks -> [Mutexes -> Nat]] /\ owner_nested \in [Mutexes -> 0..MaxNested]
  BY DEF MutexIInv, IInv, FieldsOK
<1>4. /\ \A x \in Mutexes : owner_nested'[x] = IF x = m THEN 0 ELSE owner_nested[x]
      /\ \A t \in Tasks : mutex_list'[t] = IF t = active THEN RemoveFirst(mutex_list[t], m)
                                           ELSE mutex_list[t]
      /\ \A t \in Tasks, x \in Mutexes : t # active \/ x # m => held'[t][x] = held[t][x]
      /\ held'[active][m] = IF held[active][m] > 0 THEN held[active][m] - 1 ELSE 0
  BY <1>1, <1>2, <1>3
<1>5. PICK it : it.op = "hand_over" /\ it.obj = m /\ Marks(todo') = {it}
  BY UnlockMarks
<1>8. /\ \A x : GivenBack(x)' <=> x = m
      /\ \A t : ~Dying(t)'
      /\ \A t, x : Owns(t, x)' <=> Owns(t, x) /\ x # m
  <2>1. \A x : GivenBack(x)' <=> x = m
    BY <1>5 DEF GivenBack
  <2>2. \A t : ~Dying(t)'
    BY <1>5 DEF Dying
  <2> QED
    BY <1>1, <1>2, <2>1, <2>2 DEF Owns
<1>9. PcKept
  BY <1>1 DEF PcKept
<1>10. /\ CallsSound'
       /\ \A x \in Tasks : Created(x)' <=> Created(x)
       /\ \A x \in Tasks : \A y : InLock(x, y)' <=> InLock(x, y)
  BY <1>1, <1>9, PlainCalls
<1>11. ListSound'
  <2> SUFFICES ASSUME NEW t \in Tasks, Created(t)
               PROVE  /\ IsInjective(mutex_list'[t])
                      /\ \A x \in Mutexes : Owns(t, x)' <=> x \in ToSet(mutex_list'[t])
    BY <1>8, <1>10 DEF ListSound
  <2>1. /\ IsInjective(mutex_list[t])
        /\ \A x \in Mutexes : Owns(t, x) <=> x \in ToSet(mutex_list[t])
    BY <1>2 DEF MutexIInv, ListSound
  <2>2. CASE t # active
    <3>1. ~Owns(t, m)
      BY <1>1, <1>2, <2>2
    <3> QED
      BY <1>4, <1>8, <2>1, <2>2, <3>1
  <2>3. CASE t = active
    <3>1. /\ IsInjective(RemoveFirst(mutex_list[t], m))
          /\ ToSet(RemoveFirst(mutex_list[t], m)) = ToSet(mutex_list[t]) \ {m}
      BY <1>3, <2>1, RemoveFirstSeq
    <3> QED
      BY <1>4, <1>8, <2>1, <2>3, <3>1
  <2> QED
    BY <2>2, <2>3
<1>12. OwnerSound'
  BY <1>1, <1>3, <1>10 DEF MutexIInv, OwnerSound
<1>13. held'[active][m] = 0
  <2>1. held[active][m] \in Nat /\ held[active][m] <= 1
    <3>1. Owns(active, m)
      BY <1>1, <1>2
    <3>2. held[active][m] <= owner_nested[m]
      BY <1>2, <3>1 DEF MutexIInv, HeldSound
    <3> QED
      BY <1>1, <1>2, <1>3, <3>2
  <2> QED
    BY <1>4, <2>1
<1>14. RestSound'
  <2>1. MarkSound(it)'
    BY <1>1, <1>2, <1>5, <1>13 DEF MarkSound
  <2> QED
    BY <1>5, <2>1 DEF RestSound
<1>15. GrantSound'
  <2>1. \A x : ~InLock(active, x)
    BY <1>2 DEF InLock
  <2> QED
    BY <1>1, <1>2, <1>4, <1>10, <2>1 DEF MutexIInv, GrantSound
<1>16. HeldSound'
  <2>1. \A t \in Tasks, x \in Mutexes :
           /\ held[t][x] > 0 => Owns(t, x)
           /\ Owns(t, x) => owner_nested[x] >= 1 /\ held[t][x] <= owner_nested[x]
    BY <1>2 DEF MutexIInv, HeldSound
  <2> SUFFICES ASSUME NEW t \in Tasks, NEW x \in Mutexes
               PROVE  /\ held'[t][x] > 0 => Owns(t, x)'
                      /\ Owns(t, x)' => owner_nested'[x] >= 1 /\ held'[t][x] <= owner_nested'[x]
    BY DEF HeldSound
  <2>2. CASE x = m /\ t = active
    BY <1>8, <1>13, <2>2
  <2>3. CASE x = m /\ t # active
    <3>1. ~Owns(t, x)
      BY <1>1, <1>2, <2>3
    <3>2. held[t][x] = 0
      BY <1>2, <3>1, NotHeld
    <3> QED
      BY <1>4, <1>8, <2>3, <3>2
  <2>4. CASE x # m
    BY <1>4, <1>8, <2>1, <2>4
  <2> QED
    BY <2>2, <2>3, <2>4
<1> QED
  BY <1>10, <1>11, <1>12, <1>14, <1>15, <1>16 DEF MutexIInv

\* krhino_mutex_del takes the mutex off the list of its owner, and leaves no mark.
LEMMA DelMarks ==
    ASSUME MutexIInv, NEW m \in Mutexes, MutexDel(m)
    PROVE  /\ Marks(todo') = {}
           /\ \A t \in Tasks : mutex_list'[t] = IF t = mutex_task[m]
                                                THEN RemoveFirst(mutex_list[t], m)
                                                ELSE mutex_list[t]
<1> DEFINE o == mutex_task[m]
<1>3. mutex_task \in [Mutexes -> Tasks \cup {NULL}] /\ mutex_list \in [Tasks -> Seq(Mutexes)]
  BY DEF MutexIInv, IInv, FieldsOK
<1>5. \A t \in Tasks : t # NULL
  BY KernelAssumption
<1>6. \A t \in Tasks : mutex_list'[t] = IF t = o THEN RemoveFirst(mutex_list[t], m)
                                        ELSE mutex_list[t]
  <2>1. CASE o = NULL
    <3>1. UNCHANGED mutex_list
      BY <2>1 DEF MutexDel
    <3> QED
      BY <1>5, <2>1, <3>1
  <2>2. CASE o # NULL
    <3>1. mutex_list' = [mutex_list EXCEPT ![o] = RemoveFirst(@, m)]
      BY <2>2 DEF MutexDel
    <3>2. o \in Tasks
      BY <1>3, <2>2
    <3> HIDE DEF o
    <3> QED
      BY <1>3, <3>1, <3>2
  <2> QED
    BY <2>1, <2>2
<1>7. Marks(todo') = {}
  <2>1. PICK it : it = Item("del_waiters", NULL, m, 0)
    OBVIOUS
  <2>2. it \in Items /\ it.op = "del_waiters"
    BY <2>1 DEF Item, Items, Ops, Objs
  <2>3. <<it>> \in Seq(Items)
    BY <2>2
  <2>4. Marks(<<it>>) = {}
    BY <2>2, MarksFew DEF MarkOps
  <2>5. CASE o = NULL
    BY <2>1, <2>4, <2>5 DEF MutexDel
  <2>6. CASE o # NULL
    <3>1. o \in Tasks /\ o # IdleTask
      BY <1>3, <2>6 DEF MutexIInv, IInv, PendSound
    <3>2. mutex_list'[o] \in Seq(Mutexes)
      BY <1>3, <1>6, <3>1, RemoveFirstSeq
    <3>3. ToSet(mutex_list'[o]) \subseteq Objs
      BY <3>2, MemberAt DEF Objs
    <3>4. /\ blk_list \in [Objs -> Seq(Tasks)]
          /\ \A x \in Objs : IdleTask \notin ToSet(blk_list[x])
      BY WaitersNotIdle DEF MutexIInv
    <3>5. todo' = MutexRelease(o, ToSet(mutex_list'[o]), blk_list) \o <<it>>
      BY <2>1, <2>6 DEF MutexDel
    <3> HIDE DEF o
    <3>6. MutexRelease(o, ToSet(mutex_list'[o]), blk_list) \in PriWork
      BY <3>1, <3>3, <3>4, ReleaseWork DEF MutexIInv, IInv, AppTasks
    <3> QED
      BY <2>3, <2>4, <3>5, <3>6, MarksPush
  <2> QED
    BY <2>5, <2>6
<1> QED
  BY <1>6, <1>7

\* krhino_mutex_del.
LEMMA MutexDelOwn ==
    ASSUME MutexIInv, IInv', NEW m \in Mutexes, MutexDel(m) PROVE MutexIInv'
<1> DEFINE o == mutex_task[m]
<1>1. /\ Calling("mutex_del") /\ m \in alive /\ alive' = alive \ {m}
      /\ held' = [t \in Tasks |-> [held[t] EXCEPT ![m] = 0]]
      /\ ExitSched
      /\ UNCHANGED <<task_state, blk_obj, blk_state, mutex_task, owner_nested, call>>
  BY DEF MutexDel, waitVars
<1>2. /\ Marks(todo) = {} /\ \A t : ~Dying(t)
      /\ active \in Tasks /\ pc[active] = "run" /\ todo = <<>>
      /\ \A t, x : Owns(t, x) <=> x \in alive /\ mutex_task[x] = t
  BY <1>1, CallerMutex
<1>3. /\ mutex_task \in [Mutexes -> Tasks \cup {NULL}] /\ mutex_list \in [Tasks -> Seq(Mutexes)]
      /\ held \in [Tasks -> [Mutexes -> Nat]]
  BY DEF MutexIInv, IInv, FieldsOK
<1>4. \A t \in Tasks, x \in Mutexes : held'[t][x] = IF x = m THEN 0 ELSE held[t][x]
  BY <1>1, <1>3
<1>6. /\ Marks(todo') = {}
      /\ \A t \in Tasks : mutex_list'[t] = IF t = o THEN RemoveFirst(mutex_list[t], m)
                                           ELSE mutex_list[t]
  BY DelMarks
<1>8. /\ \A t : ~Dying(t)'
      /\ \A t, x : Owns(t, x)' <=> x \in alive' /\ mutex_task'[x] = t
  BY <1>6, NoMarksNext
<1>9. \A t, x : Owns(t, x)' <=> Owns(t, x) /\ x # m
  BY <1>1, <1>2, <1>8
<1>10. PcKept
  BY <1>1, <1>2, ExitKeepsPc DEF MutexIInv
<1>11. /\ CallsSound'
       /\ \A x \in Tasks : Created(x)' <=> Created(x)
       /\ \A x \in Tasks : \A y : InLock(x, y)' <=> InLock(x, y)
  BY <1>1, <1>10, PlainCalls
<1>12. ListSound'
  <2> SUFFICES ASSUME NEW t \in Tasks, Created(t)
               PROVE  /\ IsInjective(mutex_list'[t])
                      /\ \A x \in Mutexes : Owns(t, x)' <=> x \in ToSet(mutex_list'[t])
    BY <1>8, <1>11 DEF ListSound
  <2>1. /\ IsInjective(mutex_list[t])
        /\ \A x \in Mutexes : Owns(t, x) <=> x \in ToSet(mutex_list[t])
    BY <1>2 DEF MutexIInv, ListSound
  <2>2. CASE t # o
    <3>1. ~Owns(t, m)
      BY <1>2, <2>2
    <3> QED
      BY <1>6, <1>9, <2>1, <2>2, <3>1
  <2>3. CASE t = o
    <3>1. /\ IsInjective(RemoveFirst(mutex_list[t], m))
          /\ ToSet(RemoveFirst(mutex_list[t], m)) = ToSet(mutex_list[t]) \ {m}
      BY <1>3, <2>1, RemoveFirstSeq
    <3> QED
      BY <1>6, <1>9, <2>1, <2>3, <3>1
  <2> QED
    BY <2>2, <2>3
<1>13. OwnerSound'
  BY <1>1, <1>3, <1>11 DEF MutexIInv, OwnerSound
<1>14. RestSound'
  BY <1>6 DEF RestSound
<1>15. GrantSound'
  BY <1>1, <1>2, <1>4, <1>11 DEF MutexIInv, GrantSound
<1>16. HeldSound'
  BY <1>1, <1>2, <1>4, <1>9 DEF MutexIInv, HeldSound
<1> QED
  BY <1>11, <1>12, <1>13, <1>14, <1>15, <1>16 DEF MutexIInv

\* The task returns from its blocking call.
LEMMA PendStateEndProcOwn == ASSUME MutexIInv, IInv', PendStateEndProc PROVE MutexIInv'
<1> DEFINE m == call[active]
           got == m \in Mutexes \cap alive /\ blk_state[active] = "BLK_FINISH"
<1>1. /\ InTask /\ pc[active] = "end"
      /\ pc' = [pc EXCEPT ![active] = "run"]
      /\ call' = [call EXCEPT ![active] = NULL]
      /\ UNCHANGED <<alive, task_state, blk_obj, blk_state, mutex_list, mutex_task>>
      /\ UNCHANGED <<owner_nested, todo>>
  BY DEF PendStateEndProc, waitVars
<1>2. active \in Tasks /\ task_state[active] = "K_RDY" /\ todo = <<>>
  BY <1>1, Runs DEF MutexIInv, InTask
<1>3. Marks(todo) = {} /\ Marks(todo') = {}
  BY <1>1, <1>2, MarksFew
<1>4. /\ \A t : ~Dying(t)
      /\ \A t, x : Owns(t, x) <=> x \in alive /\ mutex_task[x] = t
  BY <1>3, NoMarks
<1>5. /\ \A t : ~Dying(t)'
      /\ \A t, x : Owns(t, x)' <=> x \in alive' /\ mutex_task'[x] = t
  BY <1>3, NoMarksNext
<1>6. \A t, x : Owns(t, x)' <=> Owns(t, x)
  BY <1>1, <1>4, <1>5
<1>7. /\ held \in [Tasks -> [Mutexes -> Nat]]
      /\ pc \in [Tasks -> {"run", "sched", "blk", "end", "pri"}]
      /\ call \in [Tasks -> Objs \cup {NULL} \cup (Tasks \X Pris)]
      /\ mutex_task \in [Mutexes -> Tasks \cup {NULL}]
  BY DEF MutexIInv, IInv, FieldsOK
<1>8. \A t \in Tasks, x \in Mutexes :
         held'[t][x] = IF t = active /\ x = m /\ got THEN held[t][x] + 1 ELSE held[t][x]
  <2>1. held' = IF m \in Mutexes \cap alive /\ PendStatus(active) = "BLK_FINISH"
                THEN [held EXCEPT ![active][m] = @ + 1] ELSE held
    BY DEF PendStateEndProc
  <2>2. m \in Mutexes => PendStatus(active) = blk_state[active]
    BY DEF PendStatus
  <2> HIDE DEF m
  <2>3. held' = IF got THEN [held EXCEPT ![active][m] = @ + 1] ELSE held
    BY <2>1, <2>2
  <2>4. CASE got
    <3>1. held' = [held EXCEPT ![active][m] = @ + 1] /\ m \in Mutexes
      BY <2>3, <2>4
    <3> QED
      BY <1>2, <1>7, <2>4, <3>1
  <2>5. CASE ~got
    BY <2>3, <2>5
  <2> QED
    BY <2>4, <2>5
<1>9. /\ \A x \in Tasks : x # active => pc'[x] = pc[x] /\ call'[x] = call[x]
      /\ pc'[active] = "run" /\ call'[active] = NULL
  BY <1>1, <1>2, <1>7
<1>10. got => mutex_task[m] = active /\ held[active][m] = 0
  <2>1. got => InLock(active, m)
    BY <1>1 DEF InLock
  <2> QED
    BY <1>2, <1>4, <2>1 DEF MutexIInv, GrantSound, Pending
<1> HIDE DEF m, got
<1>11. \A x \in Tasks : Created(x)' <=> Created(x)
  BY <1>1 DEF Created
<1>12. ListSound'
  BY <1>1, <1>4, <1>5, <1>6, <1>11 DEF MutexIInv, ListSound
<1>13. OwnerSound'
  BY <1>1, <1>7, <1>11 DEF MutexIInv, OwnerSound
<1>14. RestSound'
  BY <1>3 DEF RestSound
<1>15. CallsSound'
  BY <1>1, <1>2, <1>9, <1>11 DEF MutexIInv, CallsSound, Pending
<1>16. GrantSound'
  <2>1. \A x \in Tasks : \A y : InLock(x, y)' => x # active /\ InLock(x, y)
    BY <1>9 DEF InLock
  <2> QED
    BY <1>1, <1>4, <1>8, <2>1 DEF MutexIInv, GrantSound
<1>17. HeldSound'
  <2>1. \A t \in Tasks, x \in Mutexes :
           /\ held[t][x] > 0 => Owns(t, x)
           /\ Owns(t, x) => owner_nested[x] >= 1 /\ held[t][x] <= owner_nested[x]
    BY <1>4 DEF MutexIInv, HeldSound
  <2> SUFFICES ASSUME NEW t \in Tasks, NEW x \in Mutexes
               PROVE  /\ held'[t][x] > 0 => Owns(t, x)'
                      /\ Owns(t, x)' => owner_nested'[x] >= 1 /\ held'[t][x] <= owner_nested'[x]
    BY DEF HeldSound
  <2>2. CASE t = active /\ x = m /\ got
    <3>1. Owns(t, x) /\ held'[t][x] = 1
      BY <1>4, <1>8, <1>10, <2>2 DEF got
    <3> QED
      BY <1>1, <1>6, <2>1, <3>1
  <2>3. CASE ~(t = active /\ x = m /\ got)
    BY <1>1, <1>6, <1>8, <2>1, <2>3
  <2> QED
    BY <2>2, <2>3
<1> QED
  BY <1>12, <1>13, <1>14, <1>15, <1>16, <1>17 DEF MutexIInv

\* krhino_task_create: a task begins without mutexes.
LEMMA TaskCreateOwn ==
    ASSUME MutexIInv, IInv', NEW t \in Tasks, NEW p \in NewPris, NEW autorun \in BOOLEAN,
           TaskCreate(t, p, autorun)
    PROVE  MutexIInv'
<1>1. /\ Calling("task_create") /\ ~Created(t)
      /\ task_state' = [task_state EXCEPT ![t] = IF autorun THEN "K_RDY" ELSE "K_SUSPENDED"]
      /\ blk_obj' = [blk_obj EXCEPT ![t] = NULL]
      /\ blk_state' = [blk_state EXCEPT ![t] = "BLK_FINISH"]
      /\ mutex_list' = [mutex_list EXCEPT ![t] = <<>>]
      /\ pc' = [pc EXCEPT ![t] = "run", ![active] = IF autorun THEN "sched" ELSE "run"]
      /\ UNCHANGED <<alive, mutex_task, owner_nested, held, todo, call>>
  BY DEF TaskCreate
<1>2. /\ Marks(todo) = {} /\ \A x : ~Dying(x)
      /\ active \in Tasks /\ pc[active] = "run" /\ Created(active) /\ call[active] = NULL
      /\ \A x, m : Owns(x, m) <=> m \in alive /\ mutex_task[m] = x
  BY <1>1, CallerMutex
<1>3. /\ task_state \in [Tasks -> TaskStates] /\ mutex_list \in [Tasks -> Seq(Mutexes)]
      /\ blk_obj \in [Tasks -> Objs \cup {NULL}]
      /\ blk_state \in [Tasks -> {"BLK_FINISH", "BLK_ABORT", "BLK_TIMEOUT", "BLK_DEL"}]
      /\ pc \in [Tasks -> {"run", "sched", "blk", "end", "pri"}]
      /\ mutex_task \in [Mutexes -> Tasks \cup {NULL}]
  BY DEF MutexIInv, IInv, FieldsOK
<1>4. /\ \A x \in Tasks : x # t => /\ task_state'[x] = task_state[x] /\ blk_obj'[x] = blk_obj[x]
                                   /\ blk_state'[x] = blk_state[x]
                                   /\ mutex_list'[x] = mutex_list[x]
      /\ \A x \in Tasks : x # t /\ x # active => pc'[x] = pc[x]
      /\ task_state'[t] \in {"K_RDY", "K_SUSPENDED"} /\ mutex_list'[t] = <<>>
      /\ pc'[active] \in {"run", "sched"} /\ t # active /\ pc'[t] = "run"
  BY <1>1, <1>2, <1>3
<1>5. /\ call[t] = NULL
      /\ \A x : x \in Mutexes => ~Owns(t, x)
  BY <1>1, <1>2, KernelAssumption DEF MutexIInv, CallsSound, OwnerSound
<1>6. /\ \A x : ~Dying(x)'
      /\ \A x, m : Owns(x, m)' <=> Owns(x, m)
  <2>1. Marks(todo') = {}
    BY <1>1, <1>2
  <2>2. /\ \A x : ~Dying(x)'
        /\ \A x, m : Owns(x, m)' <=> m \in alive' /\ mutex_task'[m] = x
    BY <2>1, NoMarksNext
  <2> QED
    BY <1>1, <1>2, <2>2
<1>7. \A x \in Tasks : x # t => (Created(x)' <=> Created(x))
  BY <1>4 DEF Created
<1>8. task_state'[t] \notin Pending /\ task_state'[t] \notin Sleeping
  BY <1>4 DEF Pending, Sleeping
<1>9. ListSound'
  <2>1. ToSet(<<>>) = {} /\ IsInjective(<<>>)
    BY DEF ToSet, IsInjective
  <2> QED
    BY <1>2, <1>4, <1>5, <1>6, <1>7, <2>1 DEF MutexIInv, ListSound
<1>10. OwnerSound'
  <2>1. \A m \in Mutexes \cap alive : mutex_task[m] # t
    BY <1>2, <1>5
  <2> QED
    BY <1>1, <1>3, <1>4, <1>7, <1>8, <2>1 DEF MutexIInv, OwnerSound
<1>11. RestSound'
  BY <1>1, <1>2 DEF RestSound
<1>12. CallsSound'
  BY <1>1, <1>2, <1>4, <1>5, <1>7, <1>8 DEF MutexIInv, CallsSound, Pending, Sleeping
<1>13. GrantSound'
  <2>1. \A x \in Tasks, m \in Mutexes : InLock(x, m)' => x # t /\ x # active /\ InLock(x, m)
    BY <1>1, <1>4, KernelAssumption DEF InLock
  <2> QED
    BY <1>1, <1>2, <1>4, <2>1 DEF MutexIInv, GrantSound
<1>14. HeldSound'
  BY <1>1, <1>2, <1>6 DEF MutexIInv, HeldSound
<1> QED
  BY <1>9, <1>10, <1>11, <1>12, <1>13, <1>14 DEF MutexIInv

\* krhino_task_del begins: all the mutexes of the task are to be given away.
LEMMA TaskDelOwn ==
    ASSUME "task_redel" \notin Calls, MutexIInv, IInv', NEW t \in Tasks, TaskDel(t)
    PROVE  MutexIInv'
<1>1. /\ Calling("task_del") /\ Created(t)
      /\ todo' = <<Item("mutex_free", t, NULL, 1), Item("del_end", t, NULL, 0)>>
      /\ UNCHANGED <<task_state, blk_obj, blk_state, alive, mutex_list, mutex_task>>
      /\ UNCHANGED <<owner_nested, held, active, pc, call>>
  BY DEF TaskDel, Calling, dataVars, waitVars, mutexVars, cpuVars
<1>2. /\ Marks(todo) = {} /\ \A x : ~Dying(x)
      /\ active \in Tasks /\ pc[active] = "run"
      /\ \A x, m : Owns(x, m) <=> m \in alive /\ mutex_task[m] = x
  BY <1>1, CallerMutex
<1>3. PICK a : a = Item("mutex_free", t, NULL, 1)
  OBVIOUS
<1>4. PICK b : b = Item("del_end", t, NULL, 0)
  OBVIOUS
<1>5. a.op = "mutex_free" /\ a.task = t /\ a.arg = 1 /\ b.op = "del_end" /\ b.task = t
  BY <1>3, <1>4 DEF Item
<1>6. Marks(todo') = {a, b}
  <2>1. todo' = <<a, b>>
    BY <1>1, <1>3, <1>4
  <2>2. ToSet(<<a, b>>) = {a, b}
    BY DEF ToSet
  <2> QED
    BY <1>5, <2>1, <2>2 DEF Marks, MarkOps
<1>7. \A x : ~GivenBack(x)'
  BY <1>5, <1>6 DEF GivenBack
<1>8. \A x : Dying(x)' <=> x = t
  BY <1>5, <1>6 DEF Dying
<1>9. \A x, m : Owns(x, m)' <=> Owns(x, m)
  BY <1>1, <1>2, <1>7 DEF Owns
<1>10. mutex_list[t] \in Seq(Mutexes)
  BY DEF MutexIInv, IInv, FieldsOK
<1>11. \A m \in Mutexes : m \in Left(t)' <=> m \in ToSet(mutex_list[t])
  <2>1. \A m : m \in ToSet(mutex_list[t]) <=> \E i \in 1..Len(mutex_list[t]) : mutex_list[t][i] = m
    BY <1>10, MemberAt
  <2>2. Left(t)' = {m \in Mutexes : \E i \in 1..Len(mutex_list[t]) : mutex_list[t][i] = m}
    BY <1>1, <1>5, <1>6 DEF Left
  <2> QED
    BY <2>1, <2>2
<1>12. PcKept
  BY <1>1 DEF PcKept
<1>13. /\ CallsSound'
       /\ \A x \in Tasks : Created(x)' <=> Created(x)
       /\ \A x \in Tasks : \A y : InLock(x, y)' <=> InLock(x, y)
  BY <1>1, <1>12, PlainCalls
<1>14. ListSound'
  BY <1>1, <1>2, <1>8, <1>9, <1>11, <1>13 DEF MutexIInv, ListSound
<1>15. OwnerSound'
  <2>1. mutex_task \in [Mutexes -> Tasks \cup {NULL}]
    BY DEF MutexIInv, IInv, FieldsOK
  <2> QED
    BY <1>1, <1>13, <2>1 DEF MutexIInv, OwnerSound
<1>16. RestSound'
  <2>1. MarkSound(a)' /\ MarkSound(b)'
    BY <1>1, <1>2, <1>5, <1>8, <1>13 DEF MarkSound
  <2> QED
    BY <1>6, <2>1 DEF RestSound
<1>17. GrantSound'
  BY <1>1, <1>2, <1>13 DEF MutexIInv, GrantSound
<1>18. HeldSound'
  BY <1>1, <1>2, <1>9 DEF MutexIInv, HeldSound
<1> QED
  BY <1>13, <1>14, <1>15, <1>16, <1>17, <1>18 DEF MutexIInv

\* The mutex m leaves its owner: the owner has given it back, or is dying and no
\* longer counts it.
Leaves(m) ==
    /\ \A x \in Tasks : ~Dying(x) => ~Owns(x, m)
    /\ \A x \in Tasks : mutex_task[m] = x => Dying(x) \/ pc[x] = "run"
    /\ \A x : Dying(x)' <=> Dying(x)
    /\ \A x \in Tasks : Dying(x) => \A y \in Mutexes : y \in Left(x)' <=> y \in Left(x) /\ y # m
    /\ UNCHANGED <<alive, held, call>> /\ PcKept

\* The first waiter gets the mutex.
LEMMA GrantOwn ==
    ASSUME MutexIInv, NEW m \in Mutexes, Leaves(m),
           NEW w \in Tasks, task_state[w] \in Pending, blk_obj[w] = m, ~Dying(w),
           PendTaskWakeup(w, "BLK_FINISH"),
           mutex_task' = [mutex_task EXCEPT ![m] = w],
           mutex_list' = [mutex_list EXCEPT ![w] = <<m>> \o @],
           \A x \in Tasks, y \in Mutexes : Owns(x, y)' <=> IF y = m THEN x = w ELSE Owns(x, y),
           owner_nested'[m] \in Nat /\ owner_nested'[m] >= 1,
           \A y \in Mutexes : y # m => owner_nested'[y] = owner_nested[y]
    PROVE  /\ ListSound' /\ OwnerSound' /\ CallsSound' /\ GrantSound' /\ HeldSound'
           /\ \A x \in Tasks : Created(x)' <=> Created(x)
<1>1. /\ task_state \in [Tasks -> TaskStates] /\ mutex_list \in [Tasks -> Seq(Mutexes)]
      /\ blk_obj \in [Tasks -> Objs \cup {NULL}]
      /\ blk_state \in [Tasks -> {"BLK_FINISH", "BLK_ABORT", "BLK_TIMEOUT", "BLK_DEL"}]
      /\ pc \in [Tasks -> {"run", "sched", "blk", "end", "pri"}]
      /\ mutex_task \in [Mutexes -> Tasks \cup {NULL}]
      /\ held \in [Tasks -> [Mutexes -> Nat]]
  BY DEF MutexIInv, IInv, FieldsOK
<1>2. /\ blk_state' = [blk_state EXCEPT ![w] = "BLK_FINISH"]
      /\ blk_obj' = [blk_obj EXCEPT ![w] = NULL]
      /\ task_state'[w] \in {"K_RDY", "K_SUSPENDED"}
      /\ \A x \in Tasks : x # w => task_state'[x] = task_state[x]
  BY <1>1 DEF PendTaskWakeup, LeaveWait
<1>3. /\ \A x \in Tasks : x # w => blk_state'[x] = blk_state[x] /\ blk_obj'[x] = blk_obj[x]
      /\ blk_state'[w] = "BLK_FINISH"
      /\ \A y \in Mutexes : mutex_task'[y] = IF y = m THEN w ELSE mutex_task[y]
      /\ \A x \in Tasks : mutex_list'[x] = IF x = w THEN <<m>> \o mutex_list[x] ELSE mutex_list[x]
  BY <1>1, <1>2
<1>4. /\ task_state'[w] \notin Pending /\ task_state'[w] \notin Sleeping
      /\ Created(w) /\ Created(w)'
  BY <1>2 DEF Pending, Sleeping, Created
<1>5. \A x \in Tasks : Created(x)' <=> Created(x)
  BY <1>2, <1>4 DEF Created
<1>6. call[w] = m /\ pc[w] \in {"blk", "end"} /\ InLock(w, m)
  BY DEF MutexIInv, IInv, PendSound, CallsSound, InLock
<1>7. \A x \in Tasks : \A y : InLock(x, y)' <=> InLock(x, y)
  BY <1>1 DEF InLock, PcKept, Leaves
<1>8. \A x \in Tasks : ~Dying(x) => held[x][m] = 0
  BY NotHeld DEF Leaves
<1>9. ListSound'
  <2> SUFFICES ASSUME NEW x \in Tasks, Created(x)
               PROVE  /\ IsInjective(mutex_list'[x])
                      /\ \A y \in Mutexes : Owns(x, y)' <=> y \in IF Dying(x) THEN Left(x)'
                                                                 ELSE ToSet(mutex_list'[x])
    BY <1>5 DEF ListSound, Leaves
  <2>1. /\ IsInjective(mutex_list[x])
        /\ \A y \in Mutexes : Owns(x, y) <=> y \in IF Dying(x) THEN Left(x)
                                                   ELSE ToSet(mutex_list[x])
    BY DEF MutexIInv, ListSound
  <2>2. CASE x = w
    <3>1. m \notin ToSet(mutex_list[x]) /\ mutex_list[x] \in Seq(Mutexes)
      BY <1>1, <2>1, <2>2 DEF Leaves
    <3>2. /\ ToSet(<<m>> \o mutex_list[x]) = ToSet(mutex_list[x]) \cup {m}
          /\ IsInjective(<<m>> \o mutex_list[x])
      BY <2>1, <3>1, ConsSet
    <3> QED
      BY <1>3, <2>1, <2>2, <3>2
  <2>3. CASE x # w /\ ~Dying(x)
    <3>1. ~Owns(x, m)
      BY <2>3 DEF Leaves
    <3> QED
      BY <1>3, <2>1, <2>3, <3>1
  <2>4. CASE Dying(x)
    BY <1>3, <2>1, <2>4 DEF Leaves
  <2> QED
    BY <2>2, <2>3, <2>4
<1>10. OwnerSound'
  <2>1. \A y \in Mutexes \cap alive' : mutex_task'[y] # NULL => Created(mutex_task[y])'
    BY <1>1, <1>3, <1>4, <1>5 DEF MutexIInv, OwnerSound, Leaves
  <2>2. \A x \in Tasks : task_state'[x] \in Pending /\ blk_obj'[x] \in Mutexes \cap alive' =>
          mutex_task'[blk_obj'[x]] # x
    BY <1>2, <1>3, <1>4 DEF MutexIInv, OwnerSound, Leaves
  <2> QED
    BY <2>1, <2>2 DEF OwnerSound
<1>11. CallsSound'
  BY <1>1, <1>2, <1>4, <1>5, <1>6 DEF MutexIInv, CallsSound, PcKept, Leaves
<1>12. GrantSound'
  <2> SUFFICES ASSUME NEW x \in Tasks, NEW y \in Mutexes \cap alive, InLock(x, y), ~Dying(x)
               PROVE  /\ held[x][y] = 0
                      /\ mutex_task'[y] = x <=> /\ task_state'[x] \notin Pending
                                                /\ blk_state'[x] = "BLK_FINISH"
    BY <1>7 DEF GrantSound, Leaves
  <2>1. /\ held[x][y] = 0
        /\ mutex_task[y] = x <=> task_state[x] \notin Pending /\ blk_state[x] = "BLK_FINISH"
    BY DEF MutexIInv, GrantSound
  <2>2. CASE x = w
    <3>1. y = m
      BY <1>6, <2>2 DEF InLock
    <3> QED
      BY <1>3, <1>4, <2>1, <2>2, <3>1
  <2>3. CASE x # w /\ y = m
    <3>1. mutex_task[m] # x
      BY <2>3 DEF InLock, Leaves
    <3> QED
      BY <1>2, <1>3, <2>1, <2>3, <3>1
  <2>4. CASE x # w /\ y # m
    BY <1>2, <1>3, <2>1, <2>4
  <2> QED
    BY <2>2, <2>3, <2>4
<1>13. HeldSound'
  <2> SUFFICES ASSUME NEW x \in Tasks, NEW y \in Mutexes
               PROVE  /\ held[x][y] > 0 => Owns(x, y)' \/ Dying(x)
                      /\ Owns(x, y)' => owner_nested'[y] >= 1 /\ held[x][y] <= owner_nested'[y]
    BY DEF HeldSound, Leaves
  <2>1. /\ held[x][y] > 0 => Owns(x, y) \/ Dying(x)
        /\ Owns(x, y) => owner_nested[y] >= 1 /\ held[x][y] <= owner_nested[y]
    BY DEF MutexIInv, HeldSound
  <2>2. CASE y # m
    BY <2>1, <2>2
  <2>3. CASE y = m
    BY <1>8, <2>3
  <2> QED
    BY <2>2, <2>3
<1> QED
  BY <1>5, <1>9, <1>10, <1>11, <1>12, <1>13

\* Nobody waits for the mutex: it is free.
LEMMA FreeOwn ==
    ASSUME MutexIInv, NEW m \in Mutexes, Leaves(m),
           mutex_task' = [mutex_task EXCEPT ![m] = NULL],
           UNCHANGED <<task_state, blk_obj, blk_state, mutex_list, owner_nested>>,
           \A x \in Tasks, y \in Mutexes : Owns(x, y)' <=> y # m /\ Owns(x, y)
    PROVE  /\ ListSound' /\ OwnerSound' /\ CallsSound' /\ GrantSound' /\ HeldSound'
           /\ \A x \in Tasks : Created(x)' <=> Created(x)
<1>1. /\ mutex_task \in [Mutexes -> Tasks \cup {NULL}] /\ held \in [Tasks -> [Mutexes -> Nat]]
      /\ pc \in [Tasks -> {"run", "sched", "blk", "end", "pri"}]
  BY DEF MutexIInv, IInv, FieldsOK
<1>2. /\ \A y \in Mutexes : mutex_task'[y] = IF y = m THEN NULL ELSE mutex_task[y]
      /\ \A x \in Tasks : x # NULL
  BY <1>1, KernelAssumption
<1>3. /\ CallsSound'
      /\ \A x \in Tasks : Created(x)' <=> Created(x)
      /\ \A x \in Tasks : \A y : InLock(x, y)' <=> InLock(x, y)
  BY PlainCalls DEF Leaves
<1>4. ListSound'
  <2> SUFFICES ASSUME NEW x \in Tasks, Created(x)
               PROVE  /\ IsInjective(mutex_list[x])
                      /\ \A y \in Mutexes : Owns(x, y)' <=> y \in IF Dying(x) THEN Left(x)'
                                                                 ELSE ToSet(mutex_list[x])
    BY <1>3 DEF ListSound, Leaves
  <2>1. /\ IsInjective(mutex_list[x])
        /\ \A y \in Mutexes : Owns(x, y) <=> y \in IF Dying(x) THEN Left(x)
                                                   ELSE ToSet(mutex_list[x])
    BY DEF MutexIInv, ListSound
  <2> QED
    BY <2>1 DEF Leaves
<1>5. OwnerSound'
  <2>1. \A y \in Mutexes \cap alive' : mutex_task'[y] # NULL => Created(mutex_task[y])'
    BY <1>1, <1>2, <1>3 DEF MutexIInv, OwnerSound, Leaves
  <2>2. \A x \in Tasks : task_state'[x] \in Pending /\ blk_obj'[x] \in Mutexes \cap alive' =>
          mutex_task'[blk_obj'[x]] # x
    BY <1>2 DEF MutexIInv, OwnerSound, Leaves
  <2> QED
    BY <2>1, <2>2 DEF OwnerSound
<1>6. GrantSound'
  <2> SUFFICES ASSUME NEW x \in Tasks, NEW y \in Mutexes \cap alive, InLock(x, y), ~Dying(x)
               PROVE  /\ held[x][y] = 0
                      /\ mutex_task'[y] = x <=> /\ task_state[x] \notin Pending
                                                /\ blk_state[x] = "BLK_FINISH"
    BY <1>3 DEF GrantSound, Leaves
  <2>1. /\ held[x][y] = 0
        /\ mutex_task[y] = x <=> task_state[x] \notin Pending /\ blk_state[x] = "BLK_FINISH"
    BY DEF MutexIInv, GrantSound
  <2>2. y = m => mutex_task[m] # x
    BY DEF InLock, Leaves
  <2> QED
    BY <1>2, <2>1, <2>2
<1>7. HeldSound'
  <2>1. \A x \in Tasks : ~Dying(x) => held[x][m] = 0
    BY NotHeld DEF Leaves
  <2> SUFFICES ASSUME NEW x \in Tasks, NEW y \in Mutexes
               PROVE  /\ held[x][y] > 0 => Owns(x, y)' \/ Dying(x)
                      /\ Owns(x, y)' => owner_nested[y] >= 1 /\ held[x][y] <= owner_nested[y]
    BY DEF HeldSound, Leaves
  <2>2. /\ held[x][y] > 0 => Owns(x, y) \/ Dying(x)
        /\ Owns(x, y) => owner_nested[y] >= 1 /\ held[x][y] <= owner_nested[y]
    BY DEF MutexIInv, HeldSound
  <2> QED
    BY <2>1, <2>2
<1> QED
  BY <1>3, <1>4, <1>5, <1>6, <1>7

\* The end of krhino_mutex_unlock: the mutex is free, or the first waiter has it.
LEMMA MutexHandOverOwn == ASSUME MutexIInv, IInv', MutexHandOver PROVE MutexIInv'
<1>1. /\ Doing("hand_over") /\ todo' = Tail(todo) /\ UNCHANGED <<alive, held, call, active>>
  BY DEF MutexHandOver, cpuVars
<1>2. PICK it : it = Head(todo)
  OBVIOUS
<1>3. /\ it.op = "hand_over" /\ it.obj \in Mutexes /\ Tail(todo) = <<>>
      /\ Marks(todo) = Marks(<<>>) \cup {it}
  BY <1>1, <1>2, MarksHead DEF MutexIInv, WorkItem, Doing, MarkOps
<1>4. Marks(todo) = {it} /\ Marks(todo') = {}
  BY <1>1, <1>3, MarksFew
<1>5. PICK m \in Mutexes : m = it.obj
  BY <1>3
<1>6. m \in alive /\ mutex_task[m] = active /\ pc[active] = "run" /\ active \in Tasks
  BY <1>3, <1>4, <1>5 DEF MutexIInv, RestSound, MarkSound, IInv, FieldsOK
<1>7. /\ \A x : GivenBack(x) <=> x = m
      /\ \A x : ~Dying(x)
      /\ \A x, y : Owns(x, y) <=> y \in alive /\ mutex_task[y] = x /\ y # m
  <2>1. \A x : GivenBack(x) <=> x = m
    BY <1>3, <1>4, <1>5 DEF GivenBack
  <2>2. \A x : ~Dying(x)
    BY <1>3, <1>4 DEF Dying
  <2> QED
    BY <2>1, <2>2 DEF Owns
<1>8. /\ \A x : ~Dying(x)'
      /\ \A x, y : Owns(x, y)' <=> y \in alive' /\ mutex_task'[y] = x
  BY <1>4, NoMarksNext
<1>9. /\ mutex_task \in [Mutexes -> Tasks \cup {NULL}]
      /\ owner_nested \in [Mutexes -> 0..MaxNested] /\ m \in Objs
  BY DEF MutexIInv, IInv, FieldsOK, Objs
<1>10. RestSound'
  BY <1>4 DEF RestSound
<1>11. ExitSched \/ UNCHANGED pc
  BY DEF MutexHandOver
<1>12. PcKept
  BY <1>6, <1>11, ExitKeepsPc DEF MutexIInv
<1>13. Leaves(m)
  BY <1>1, <1>6, <1>7, <1>8, <1>12 DEF Leaves
<1>14. CASE blk_list[m] = <<>>
  <2>1. /\ mutex_task' = [mutex_task EXCEPT ![m] = NULL]
        /\ UNCHANGED <<task_state, blk_obj, blk_state, mutex_list, owner_nested>>
    BY <1>2, <1>5, <1>14 DEF MutexHandOver, waitVars
  <2>2. \A x \in Tasks, y \in Mutexes : Owns(x, y)' <=> y # m /\ Owns(x, y)
    BY <1>1, <1>7, <1>8, <1>9, <2>1, KernelAssumption
  <2> QED
    BY <1>10, <1>13, <2>1, <2>2, FreeOwn DEF MutexIInv
<1>15. CASE blk_list[m] # <<>>
  <2>1. PICK w \in Tasks : /\ w = Head(blk_list[m]) /\ task_state[w] \in Pending
                           /\ blk_obj[w] = m
    BY <1>9, <1>15, BlkHead DEF MutexIInv, IInv
  <2>2. /\ PendTaskWakeup(w, "BLK_FINISH")
        /\ mutex_task' = [mutex_task EXCEPT ![m] = w]
        /\ mutex_list' = [mutex_list EXCEPT ![w] = <<m>> \o @]
        /\ owner_nested' = [owner_nested EXCEPT ![m] = 1]
    BY <1>2, <1>5, <1>15, <2>1 DEF MutexHandOver
  <2>3. /\ owner_nested'[m] \in Nat /\ owner_nested'[m] >= 1
        /\ \A y \in Mutexes : y # m => owner_nested'[y] = owner_nested[y]
    BY <1>9, <2>2
  <2>4. \A x \in Tasks, y \in Mutexes : Owns(x, y)' <=> IF y = m THEN x = w ELSE Owns(x, y)
    BY <1>1, <1>6, <1>7, <1>8, <1>9, <2>2
  <2>5. ~Dying(w)
    BY <1>7
  <2>6. ListSound' /\ OwnerSound' /\ CallsSound' /\ GrantSound' /\ HeldSound'
    BY <1>13, <2>1, <2>2, <2>3, <2>4, <2>5, GrantOwn
  <2> QED
    BY <1>10, <2>6 DEF MutexIInv
<1> QED
  BY <1>14, <1>15

\* A round of task_mutex_free: the next mutex of the dying task is given away.
LEMMA TaskMutexFreeOwn == ASSUME MutexIInv, IInv', TaskMutexFree PROVE MutexIInv'
<1>1. /\ Doing("mutex_free")
      /\ UNCHANGED <<alive, held, call, active, pc, owner_nested>>
  BY DEF TaskMutexFree, cpuVars
<1>2. PICK a : a = Head(todo)
  OBVIOUS
<1>3. /\ a.op = "mutex_free" /\ a.task \in Tasks /\ a.arg \in Nat /\ a.arg >= 1
      /\ Tail(todo) = <<todo[2]>> /\ todo[2].op = "del_end"
  BY <1>1, <1>2, DoingItem DEF MutexIInv, WorkItem, AppTasks
<1>4. PICK b : b = todo[2]
  OBVIOUS
<1>5. b.op = "del_end" /\ Tail(todo) = <<b>> /\ Marks(<<b>>) = {b}
  BY <1>3, <1>4, MarksFew DEF MarkOps
<1>6. Marks(todo) = {a, b}
  BY <1>1, <1>2, <1>3, <1>5, MarksHead DEF MutexIInv, MarkOps, Doing
<1>7. PICK t \in Tasks : t = a.task
  BY <1>3
<1>8. PICK i \in Nat : i = a.arg /\ i >= 1
  BY <1>3
<1>9. b.task = t /\ Created(t) /\ pc[active] = "run"
  <2>1. MarkSound(a) /\ MarkSound(b)
    BY <1>6 DEF MutexIInv, RestSound
  <2>2. Dying(t)
    BY <1>3, <1>7, <2>1 DEF MarkSound
  <2>3. b.task = t
    BY <1>3, <1>6, <2>2 DEF Dying
  <2> QED
    BY <1>5, <2>1, <2>3 DEF MarkSound
<1>10. /\ \A x : Dying(x) <=> x = t
       /\ \A x, y : Owns(x, y) <=> y \in alive /\ mutex_task[y] = x
  <2>1. \A x : ~GivenBack(x)
    BY <1>3, <1>5, <1>6 DEF GivenBack
  <2>2. \A x : Dying(x) <=> x = t
    BY <1>3, <1>5, <1>6, <1>9 DEF Dying
  <2> QED
    BY <2>1, <2>2 DEF Owns
<1>11. /\ mutex_task \in [Mutexes -> Tasks \cup {NULL}] /\ mutex_list \in [Tasks -> Seq(Mutexes)]
       /\ owner_nested \in [Mutexes -> 0..MaxNested] /\ mutex_list[t] \in Seq(Mutexes)
       /\ Len(mutex_list[t]) \in Nat /\ DOMAIN mutex_list[t] = 1..Len(mutex_list[t])
  <2>1. /\ mutex_task \in [Mutexes -> Tasks \cup {NULL}]
        /\ mutex_list \in [Tasks -> Seq(Mutexes)]
        /\ owner_nested \in [Mutexes -> 0..MaxNested]
    BY DEF MutexIInv, IInv, FieldsOK
  <2>2. mutex_list[t] \in Seq(Mutexes)
    BY <2>1
  <2> QED
    BY <2>1, <2>2
<1>12. \A y \in Mutexes : y \in Left(t) <=> \E j \in i..Len(mutex_list[t]) : mutex_list[t][j] = y
  BY <1>3, <1>5, <1>6, <1>7, <1>8 DEF Left
<1>13. /\ IsInjective(mutex_list[t])
       /\ \A y \in Mutexes : Owns(t, y) <=> y \in Left(t)
  BY <1>9, <1>10 DEF MutexIInv, ListSound
<1>14. PcKept
  BY <1>1 DEF PcKept
<1> DEFINE mi == mutex_list[t][i]
           wi == Head(blk_list[mi])
<1>15. \/ /\ i > Len(mutex_list[t])
          /\ todo' = Tail(todo)
          /\ UNCHANGED <<task_state, rq, waitVars, mutex_task, mutex_list>>
       \/ /\ i <= Len(mutex_list[t])
          /\ todo' = <<Item("mutex_free", t, NULL, i + 1)>> \o Tail(todo)
          /\ \/ /\ blk_list[mi] # <<>>
                /\ PendTaskWakeup(wi, "BLK_FINISH")
                /\ mutex_task' = [mutex_task EXCEPT ![mi] = wi]
                /\ mutex_list' = [mutex_list EXCEPT ![wi] = <<mi>> \o @]
             \/ /\ blk_list[mi] = <<>>
                /\ mutex_task' = [mutex_task EXCEPT ![mi] = NULL]
                /\ UNCHANGED <<task_state, rq, waitVars, mutex_list>>
  <2>1. t = Head(todo).task /\ i = Head(todo).arg
    BY <1>2, <1>7, <1>8
  <2> QED
    BY <2>1, Zenon DEF TaskMutexFree
<1>16. i > Len(mutex_list[t]) <=> ~(i <= Len(mutex_list[t]))
  BY <1>11
<1>17. CASE i > Len(mutex_list[t])
  <2>1. /\ todo' = <<b>>
        /\ UNCHANGED <<task_state, blk_obj, blk_state, mutex_task, mutex_list>>
    BY <1>5, <1>15, <1>17, <1>16, Zenon DEF waitVars
  <2>2. Marks(todo') = {b}
    BY <1>5, <2>1
  <2>3. /\ \A x : Dying(x)' <=> x = t
        /\ \A x, y : Owns(x, y)' <=> Owns(x, y)
    <3>1. \A x : ~GivenBack(x)'
      BY <1>5, <2>2 DEF GivenBack
    <3>2. \A x : Dying(x)' <=> x = t
      BY <1>5, <1>9, <2>2 DEF Dying
    <3> QED
      BY <1>1, <1>10, <2>1, <3>1, <3>2 DEF Owns
  <2>4. \A y \in Mutexes : y \in Left(t)' <=> y \in Left(t)
    <3>1. Left(t)' = {}
      BY <1>5, <2>2 DEF Left
    <3>2. \A y \in Mutexes : y \notin Left(t)
      BY <1>11, <1>12, <1>17
    <3> QED
      BY <3>1, <3>2
  <2>5. /\ CallsSound'
        /\ \A x \in Tasks : Created(x)' <=> Created(x)
        /\ \A x \in Tasks : \A y : InLock(x, y)' <=> InLock(x, y)
    BY <1>1, <1>14, <2>1, PlainCalls
  <2>6. ListSound'
    BY <1>10, <2>1, <2>3, <2>4, <2>5 DEF MutexIInv, ListSound
  <2>7. OwnerSound'
    BY <1>1, <1>11, <2>1, <2>5 DEF MutexIInv, OwnerSound
  <2>8. RestSound'
    <3>1. MarkSound(b)'
      BY <1>1, <1>5, <1>9, <2>5 DEF MarkSound
    <3> QED
      BY <2>2, <3>1 DEF RestSound
  <2>9. GrantSound'
    BY <1>1, <1>10, <2>1, <2>3, <2>5 DEF MutexIInv, GrantSound
  <2>10. HeldSound'
    BY <1>1, <1>10, <2>3 DEF MutexIInv, HeldSound
  <2> QED
    BY <2>5, <2>6, <2>7, <2>8, <2>9, <2>10 DEF MutexIInv
<1>18. CASE i <= Len(mutex_list[t])
  <2>1. PICK m \in Mutexes : m = mutex_list[t][i]
    BY <1>8, <1>11, <1>18
  <2>2. m \in alive /\ mutex_task[m] = t /\ m \in Objs /\ Owns(t, m)
    <3>1. m \in Left(t)
      BY <1>8, <1>11, <1>12, <1>18, <2>1
    <3> QED
      BY <1>10, <1>13, <3>1 DEF Objs
  <2>3. PICK a2 : a2 = Item("mutex_free", t, NULL, i + 1)
    OBVIOUS
  <2>4. a2.op = "mutex_free" /\ a2.task = t /\ a2.arg = i + 1
    BY <2>3 DEF Item
  <2>5. Marks(todo') = {a2, b}
    <3>1. todo' = <<a2>> \o <<b>>
      BY <1>5, <1>15, <1>18, <1>16, <2>3, Zenon
    <3>2. <<a2>> \o <<b>> = <<a2, b>>
      <4>1. a2 \in {a2, b} /\ b \in {a2, b}
        OBVIOUS
      <4> QED
        BY <4>1, TwoElements, Zenon
    <3>3. ToSet(<<a2, b>>) = {a2, b}
      BY DEF ToSet
    <3> QED
      BY <1>5, <2>4, <3>1, <3>2, <3>3 DEF Marks, MarkOps
  <2>6. /\ \A x : Dying(x)' <=> x = t
        /\ \A x, y : Owns(x, y)' <=> y \in alive' /\ mutex_task'[y] = x
    <3>1. \A x : ~GivenBack(x)'
      BY <1>5, <2>4, <2>5 DEF GivenBack
    <3>2. \A x : Dying(x)' <=> x = t
      BY <1>5, <1>9, <2>4, <2>5 DEF Dying
    <3> QED
      BY <3>1, <3>2 DEF Owns
  <2>7. ASSUME mutex_list'[t] = mutex_list[t]
        PROVE  \A y \in Mutexes : y \in Left(t)' <=> y \in Left(t) /\ y # m
    <3>1. \A y \in Mutexes : y \in Left(t)'
             <=> \E j \in (i + 1)..Len(mutex_list[t]) : mutex_list[t][j] = y
      BY <1>5, <2>4, <2>5, <2>7 DEF Left
    <3>2. \A j \in 1..Len(mutex_list[t]) : mutex_list[t][j] = m => j = i
      BY <1>8, <1>11, <1>13, <1>18, <2>1, SMTT(30) DEF IsInjective
    <3>3. \A j \in (i + 1)..Len(mutex_list[t]) : mutex_list[t][j] # m
      BY <1>8, <1>11, <3>2
    <3>4. \A j : j \in i..Len(mutex_list[t]) <=> j = i \/ j \in (i + 1)..Len(mutex_list[t])
      BY <1>8, <1>11, <1>18
    <3> QED
      BY <1>12, <2>1, <3>1, <3>3, <3>4
  <2>8. mutex_list'[t] = mutex_list[t] => Leaves(m)
    BY <1>1, <1>10, <1>14, <2>2, <2>6, <2>7 DEF Leaves
  <2>9. \A y \in Mutexes : owner_nested'[y] = owner_nested[y]
    BY <1>1
  <2>10. owner_nested'[m] \in Nat /\ owner_nested'[m] >= 1
    BY <1>11, <2>2, <2>9 DEF MutexIInv, HeldSound
  <2>11. ASSUME \A x \in Tasks : Created(x)' <=> Created(x) PROVE RestSound'
    <3>1. MarkSound(a2)' /\ MarkSound(b)'
      BY <1>1, <1>5, <1>9, <2>4, <2>6, <2>11 DEF MarkSound
    <3> QED
      BY <2>5, <3>1 DEF RestSound
  <2>12. CASE blk_list[m] = <<>>
    <3>1. /\ mutex_task' = [mutex_task EXCEPT ![m] = NULL]
          /\ UNCHANGED <<task_state, blk_obj, blk_state, mutex_list>>
      BY <1>11, <1>18, <1>15, <2>1, <2>12 DEF waitVars
    <3>2. \A x \in Tasks, y \in Mutexes : Owns(x, y)' <=> y # m /\ Owns(x, y)
      BY <1>1, <1>10, <1>11, <2>6, <3>1, KernelAssumption
    <3>3. /\ ListSound' /\ OwnerSound' /\ CallsSound' /\ GrantSound' /\ HeldSound'
          /\ \A x \in Tasks : Created(x)' <=> Created(x)
      BY <1>1, <2>8, <3>1, <3>2, FreeOwn
    <3> QED
      BY <2>11, <3>3 DEF MutexIInv
  <2>13. CASE blk_list[m] # <<>>
    <3>1. PICK w \in Tasks : /\ w = Head(blk_list[m]) /\ task_state[w] \in Pending
                             /\ blk_obj[w] = m
      BY <2>2, <2>13, BlkHead DEF MutexIInv, IInv
    <3>2. /\ PendTaskWakeup(w, "BLK_FINISH")
          /\ mutex_task' = [mutex_task EXCEPT ![m] = w]
          /\ mutex_list' = [mutex_list EXCEPT ![w] = <<m>> \o @]
      BY <1>15, <1>18, <1>16, <2>1, <2>13, <3>1, Zenon
    <3>3. w # t
      BY <2>2, <3>1 DEF MutexIInv, OwnerSound
    <3>4. Leaves(m)
      BY <1>11, <2>8, <3>2, <3>3
    <3>5. \A x \in Tasks, y \in Mutexes : Owns(x, y)' <=> IF y = m THEN x = w ELSE Owns(x, y)
      BY <1>1, <1>10, <1>11, <2>2, <2>6, <3>2
    <3>6. /\ ListSound' /\ OwnerSound' /\ CallsSound' /\ GrantSound' /\ HeldSound'
          /\ \A x \in Tasks : Created(x)' <=> Created(x)
      <4>1. ~Dying(w)
        BY <1>10, <3>3
      <4> QED
        BY <2>9, <2>10, <3>1, <3>2, <3>4, <3>5, <4>1, GrantOwn, ZenonT(60)
    <3> QED
      BY <2>11, <3>6 DEF MutexIInv
  <2> QED
    BY <2>12, <2>13
<1> QED
  BY <1>11, <1>17, <1>18

\* The end of krhino_task_del: the task owns nothing any more.
LEMMA TaskDelEndOwn == ASSUME MutexIInv, IInv', TaskDelEnd PROVE MutexIInv'
<1>1. /\ Doing("del_end")
      /\ UNCHANGED <<alive, blk_obj, blk_state, mutex_list, mutex_task, owner_nested, active>>
  BY DEF TaskDelEnd, cpuVars
<1>2. PICK b : b = Head(todo)
  OBVIOUS
<1>3. /\ b.op = "del_end" /\ b.task \in Tasks /\ Tail(todo) = <<>>
      /\ Marks(todo) = Marks(<<>>) \cup {b}
  BY <1>1, <1>2, MarksHead DEF MutexIInv, WorkItem, Doing, MarkOps, AppTasks
<1>4. Marks(todo) = {b}
  BY <1>3, MarksFew
<1>5. PICK t \in Tasks : t = b.task
  BY <1>3
<1>6. Created(t) /\ pc[active] = "run" /\ active \in Tasks
  BY <1>3, <1>4, <1>5 DEF MutexIInv, RestSound, MarkSound, IInv, FieldsOK
<1>7. /\ \A x : Dying(x) <=> x = t
      /\ \A x, y : Owns(x, y) <=> y \in alive /\ mutex_task[y] = x
      /\ Left(t) = {}
  <2>1. \A x : ~GivenBack(x)
    BY <1>3, <1>4 DEF GivenBack
  <2>2. \A x : Dying(x) <=> x = t
    BY <1>3, <1>4, <1>5 DEF Dying
  <2>3. Left(t) = {}
    BY <1>3, <1>4 DEF Left
  <2> QED
    BY <2>1, <2>2, <2>3 DEF Owns
<1>8. \A y \in Mutexes : ~Owns(t, y)
  BY <1>6, <1>7 DEF MutexIInv, ListSound
<1>9. /\ task_state' = [task_state EXCEPT ![t] = "K_DELETED"]
      /\ todo' = (IF task_state[t] \in Pending THEN MutexTaskPriReset(t, blk_list')
                  ELSE <<>>) \o Tail(todo)
      /\ call' = [call EXCEPT ![t] = NULL]
      /\ held' = [held EXCEPT ![t] = [m \in Mutexes |-> 0]]
      /\ ExitSched
  BY <1>2, <1>5, <1>6 DEF TaskDelEnd, Created
<1>10. Marks(todo') = {}
  <2> DEFINE r == IF task_state[t] \in Pending THEN MutexTaskPriReset(t, blk_list') ELSE <<>>
  <2>1. r \in PriWork
    <3>1. <<>> \in PriWork
      BY DEF PriWork
    <3>2. task_state[t] \in Pending => MutexTaskPriReset(t, blk_list') \in PriWork
      BY ResetIsPri DEF MutexIInv
    <3> QED
      BY <3>1, <3>2, Zenon
  <2>2. todo' = r \o <<>>
    BY <1>3, <1>9, Zenon
  <2> HIDE DEF r
  <2>3. r \in Seq(Items) /\ Marks(r) = {}
    BY <2>1, MarksPri
  <2> QED
    BY <2>2, <2>3
<1>11. /\ \A x : ~Dying(x)'
       /\ \A x, y : Owns(x, y)' <=> y \in alive' /\ mutex_task'[y] = x
  BY <1>10, NoMarksNext
<1>12. \A x, y : Owns(x, y)' <=> Owns(x, y)
  BY <1>1, <1>7, <1>11
<1>13. /\ task_state \in [Tasks -> TaskStates] /\ mutex_task \in [Mutexes -> Tasks \cup {NULL}]
       /\ held \in [Tasks -> [Mutexes -> Nat]]
       /\ call \in [Tasks -> Objs \cup {NULL} \cup (Tasks \X Pris)]
       /\ pc \in [Tasks -> {"run", "sched", "blk", "end", "pri"}]
  BY DEF MutexIInv, IInv, FieldsOK
<1>14. /\ \A x \in Tasks : x # t => task_state'[x] = task_state[x] /\ call'[x] = call[x]
                                    /\ held'[x] = held[x]
       /\ task_state'[t] = "K_DELETED" /\ call'[t] = NULL
       /\ \A y \in Mutexes : held'[t][y] = 0
  BY <1>9, <1>13
<1>15. ~Created(t)' /\ \A x \in Tasks : x # t => (Created(x)' <=> Created(x))
  BY <1>14 DEF Created
<1>16. PcKept
  BY <1>6, <1>9, ExitKeepsPc DEF MutexIInv
<1>17. task_state'[t] \notin Pending /\ task_state'[t] \notin Sleeping
  BY <1>14 DEF Pending, Sleeping
<1>18. ListSound'
  BY <1>1, <1>7, <1>11, <1>12, <1>15 DEF MutexIInv, ListSound
<1>19. OwnerSound'
  <2>1. \A y \in Mutexes \cap alive : mutex_task[y] # t
    BY <1>7, <1>8
  <2> QED
    BY <1>1, <1>13, <1>14, <1>15, <1>17, <2>1 DEF MutexIInv, OwnerSound
<1>20. RestSound'
  BY <1>10 DEF RestSound
<1>21. CallsSound'
  BY <1>13, <1>14, <1>15, <1>16, <1>17 DEF MutexIInv, CallsSound, PcKept
<1>22. GrantSound'
  <2>1. \A x \in Tasks, y \in Mutexes : InLock(x, y)' => x # t /\ InLock(x, y)
    <3>1. \A y \in Mutexes : y # NULL
      BY KernelAssumption
    <3>2. \A x \in Tasks : pc'[x] \in {"blk", "end"} => pc[x] \in {"blk", "end"}
      BY <1>13, <1>16 DEF PcKept
    <3> QED
      BY <1>14, <3>1, <3>2 DEF InLock
  <2> QED
    BY <1>1, <1>7, <1>14, <2>1 DEF MutexIInv, GrantSound
<1>23. HeldSound'
  BY <1>1, <1>7, <1>8, <1>12, <1>14 DEF MutexIInv, HeldSound
<1> QED
  BY <1>18, <1>19, <1>20, <1>21, <1>22, <1>23, SMTT(30) DEF MutexIInv

-----------------------------------------------------------------------------
(* All steps.                                                               *)

\* At the start nobody owns anything.
LEMMA MutexInit == Init => MutexIInv
<1> SUFFICES ASSUME Init PROVE MutexIInv
  OBVIOUS
<1>1. IInv
  BY InitInv
<1>2. /\ todo = <<>> /\ mutex_list = [t \in Tasks |-> <<>>] /\ alive = Objs
      /\ mutex_task = [m \in Mutexes |-> NULL]
      /\ task_state = [t \in Tasks |-> IF t \in Booted THEN "K_RDY" ELSE "K_SEED"]
      /\ pc = [t \in Tasks |-> "run"] /\ call = [t \in Tasks |-> NULL]
      /\ held = [t \in Tasks |-> [m \in Mutexes |-> 0]]
  BY DEF Init
<1>3. Marks(todo) = {}
  BY <1>2, MarksFew
<1>4. /\ \A t : ~Dying(t)
      /\ \A t, m : Owns(t, m) <=> m \in alive /\ mutex_task[m] = t
  BY <1>3, NoMarks
<1>5. \A t \in Tasks, m \in Mutexes : ~Owns(t, m)
  BY <1>2, <1>4, KernelAssumption
<1>6. ListSound
  <2>1. ToSet(<<>>) = {} /\ IsInjective(<<>>)
    BY DEF ToSet, IsInjective
  <2> QED
    BY <1>2, <1>4, <1>5, <2>1 DEF ListSound
<1>7. \A t \in Tasks : task_state[t] \notin Pending
  BY <1>2 DEF Pending
<1>8. OwnerSound
  BY <1>2, <1>7 DEF OwnerSound
<1>9. RestSound
  BY <1>3 DEF RestSound
<1>10. CallsSound
  BY <1>2, <1>7 DEF CallsSound
<1>11. GrantSound
  BY <1>2 DEF GrantSound, InLock
<1>12. HeldSound
  BY <1>2, <1>5 DEF HeldSound
<1> QED
  BY <1>1, <1>6, <1>8, <1>9, <1>10, <1>11, <1>12 DEF MutexIInv

\* Every step keeps the invariant, unless a task that is gone is deleted again.
LEMMA MutexNext ==
    ASSUME "task_suspend" \notin IsrCalls, "task_redel" \notin Calls, MutexIInv, [Next]_vars
    PROVE  MutexIInv'
<1>1. IInv /\ IInv'
  BY NextInv DEF MutexIInv
<1>2. CASE \/ CoreSched \/ PendSV \/ IdleLoop \/ IntrptEnter \/ TickEnter \/ IntrptExit
           \/ TimeSliceUpdate \/ SchedDisable \/ SchedEnable \/ UNCHANGED vars
  BY <1>1, <1>2, CpuSteps, PhaseKeptInv
<1>3. CASE TickProc
  BY <1>1, <1>3, RoundSteps, PhaseKeptInv
<1>4. CASE PendStateEndProc
  BY <1>1, <1>4, PendStateEndProcOwn
<1>5. CASE Continue
  <2>1. CASE TaskPriChange \/ CancelCoreSched
    BY <1>1, <2>1, RoundSteps, PhaseKeptInv
  <2>2. CASE TickExpire \/ DelWaiters
    BY <1>1, <2>2, EndSteps, PhaseKeptInv, WaitFailsInv
  <2>3. CASE MutexLockPend \/ MutexHandOver \/ TaskMutexFree \/ TaskDelEnd
    BY <1>1, <2>3, MutexLockPendOwn, MutexHandOverOwn, TaskMutexFreeOwn, TaskDelEndOwn
  <2> QED
    BY <1>5, <2>1, <2>2, <2>3, Zenon DEF Continue
<1>6. CASE MutexCall
  <2> PICK m \in Mutexes :
         \/ MutexCreate(m)
         \/ MutexLockNested(m)
         \/ MutexLockFree(m)
         \/ \E ticks \in Waits : MutexLockBusy(m, ticks)
         \/ MutexUnlockNested(m)
         \/ MutexUnlock(m)
         \/ MutexDel(m)
    BY <1>6 DEF MutexCall
  <2> QED
    BY <1>1, MutexCreateOwn, NestedOwn, MutexLockFreeOwn, MutexLockBusyOwn, MutexUnlockOwn,
       MutexDelOwn
<1>7. CASE TaskCall
  <2>1. CASE \E ticks \in Waits \ {FOREVER} : TaskSleep(ticks)
    BY <1>1, <2>1, TaskSleepOwn
  <2>2. CASE TaskPriChangeCall \/ \E t \in Tasks, p \in NewPris : TaskPriChangeCheck(t, p)
    BY <1>1, <2>2, PriCallSteps, PriCallInv
  <2>3. ASSUME NEW t \in Tasks, NEW p \in NewPris, NEW autorun \in BOOLEAN,
               TaskCreate(t, p, autorun)
        PROVE  MutexIInv'
    BY <1>1, <2>3, TaskCreateOwn
  <2>4. ASSUME NEW t \in Tasks,
               \/ TaskYield \/ TaskSuspend(t) \/ TaskResume(t)
               \/ \E s \in TimeSlices : TaskTimeSliceSet(t, s)
               \/ \E policy \in {"KSCHED_FIFO", "KSCHED_RR"} : SchedPolicySet(t, policy)
        PROVE  MutexIInv'
    BY <1>1, <2>4, QueueSteps, PhaseKeptInv
  <2>5. ASSUME NEW t \in Tasks, TaskWaitAbort(t) \/ TaskCancel(t) PROVE MutexIInv'
    BY <1>1, <2>5, AbortSteps, PhaseKeptInv, WaitFailsInv
  <2>6. ASSUME NEW t \in Tasks, TaskDel(t) PROVE MutexIInv'
    BY <1>1, <2>6, TaskDelOwn
  <2>7. CASE TaskYield
    BY <2>4, <2>7, KernelAssumption
  <2> QED
    BY <1>7, <2>1, <2>2, <2>3, <2>4, <2>5, <2>6, <2>7, Zenon DEF TaskCall
<1> QED
  BY <1>2, <1>3, <1>4, <1>5, <1>6, <1>7, Zenon DEF Next

\* The invariant holds in every state.
THEOREM MutexInductive ==
    ASSUME "task_suspend" \notin IsrCalls, "task_redel" \notin Calls
    PROVE  Spec => []MutexIInv
<1>1. Init => MutexIInv
  BY MutexInit
<1>2. MutexIInv /\ [Next]_vars => MutexIInv'
  BY MutexNext
<1> QED
  BY <1>1, <1>2, PTL DEF Spec

\* Between critical sections task->mutex_list and mutex->mutex_task agree, the
\* owner of a mutex is a task that is there, and a mutex without an owner has
\* no waiters, so the owner that mutex_task_pri_reset and task_pri_change
\* dereference is never NULL.
THEOREM OwnershipCorrect ==
    ASSUME "task_suspend" \notin IsrCalls, "task_redel" \notin Calls
    PROVE  Spec => []OwnershipExact
<1>1. MutexIInv => OwnershipExact
  <2> SUFFICES ASSUME MutexIInv, todo = <<>>, NEW m \in Mutexes \cap alive
               PROVE  /\ \A t \in Tasks : Created(t) =>
                            /\ m \in ToSet(mutex_list[t]) <=> mutex_task[m] = t
                            /\ IsInjective(mutex_list[t])
                      /\ mutex_task[m] # NULL => Created(mutex_task[m])
                      /\ mutex_task[m] = NULL => blk_list[m] = <<>>
    BY DEF OwnershipExact
  <2>1. /\ \A t : ~Dying(t)
        /\ \A t, x : Owns(t, x) <=> x \in alive /\ mutex_task[x] = t
    BY MarksFew, NoMarks
  <2>2. \A t \in Tasks : Created(t) => /\ m \in ToSet(mutex_list[t]) <=> mutex_task[m] = t
                                       /\ IsInjective(mutex_list[t])
    BY <2>1 DEF MutexIInv, ListSound
  <2>3. mutex_task[m] # NULL => Created(mutex_task[m])
    BY DEF MutexIInv, OwnerSound
  <2>4. ASSUME mutex_task[m] = NULL, blk_list[m] # <<>> PROVE FALSE
    <3>1. m \in Objs
      BY DEF Objs
    <3>2. PICK w \in Tasks : task_state[w] \in Pending /\ blk_obj[w] = m
      BY <2>4, <3>1, BlkHead DEF MutexIInv, IInv
    <3> QED
      BY <2>4, <3>2 DEF MutexIInv, IInv, PendSound
  <2> QED
    BY <2>2, <2>3, <2>4
<1> QED
  BY <1>1, MutexInductive, PTL

\* With that invariant whoever was given a mutex owns it.
LEMMA ExclusionHolds == MutexIInv => MutualExclusion
<1> SUFFICES ASSUME MutexIInv, todo = <<>>, NEW t \in Tasks, NEW m \in Mutexes, held[t][m] > 0
             PROVE  mutex_task[m] = t
  BY DEF MutualExclusion
<1>1. /\ \A x : ~Dying(x)
      /\ \A x, y : Owns(x, y) <=> y \in alive /\ mutex_task[y] = x
  BY MarksFew, NoMarks
<1> QED
  BY <1>1 DEF MutexIInv, HeldSound

\* A task that krhino_mutex_lock told it has the mutex owns it until it gives it
\* back, so two tasks never think they do: no timeout, abort, cancellation,
\* suspension or deletion that comes while the mutex changes hands tells a task
\* the wrong answer.
THEOREM ExclusionCorrect ==
    ASSUME "task_suspend" \notin IsrCalls, "task_redel" \notin Calls
    PROVE  Spec => []MutualExclusion
BY ExclusionHolds, MutexInductive, PTL

-----------------------------------------------------------------------------
(* The nested count.  task_mutex_free hands a mutex on without resetting   *)
(* owner_nested, so the count is exact for applications that do not delete *)
(* tasks.                                                                   *)

\* No krhino_task_del is at work.
NoDeletion == \A it \in Marks(todo) : it.op \in {"lock_pend", "hand_over"}

\* owner_nested is the number of gets, 1 while the first one has not returned.
CountSound ==
    \A t \in Tasks, m \in Mutexes : Owns(t, m) =>
       owner_nested[m] = IF InLock(t, m) THEN 1 ELSE held[t][m]

\* The invariant about the nested count.
CountIInv == MutexIInv /\ NoDeletion /\ CountSound

\* What a step does to a mutex and its owner after the step: nothing, or the
\* count is right.
Counted(t, m) ==
    \/ /\ Owns(t, m) /\ (InLock(t, m)' <=> InLock(t, m))
       /\ owner_nested'[m] = owner_nested[m] /\ held'[t][m] = held[t][m]
    \/ owner_nested'[m] = IF InLock(t, m)' THEN 1 ELSE held'[t][m]

\* A step that counts right keeps the invariant.
LEMMA CountStep ==
    ASSUME CountIInv, MutexIInv', NoDeletion',
           \A t \in Tasks, m \in Mutexes : Owns(t, m)' => Counted(t, m)
    PROVE  CountIInv'
<1>1. CountSound'
  BY DEF CountIInv, CountSound, Counted
<1> QED
  BY <1>1 DEF CountIInv

\* The steps that leave the mutexes alone.
LEMMA KeptCount ==
    ASSUME CountIInv, MutexIInv', MutexKept,
           PhaseKept \/ PriCall \/ \E t \in Tasks : WaitFails(t)
    PROVE  CountIInv'
<1>1. pc \in [Tasks -> {"run", "sched", "blk", "end", "pri"}]
  BY DEF CountIInv, MutexIInv, IInv, FieldsOK
<1>2. \A t \in Tasks : \A m : InLock(t, m)' <=> InLock(t, m)
  <2>1. CASE UNCHANGED call /\ PcKept
    BY <1>1, <2>1 DEF PcKept, InLock
  <2>2. CASE PriCall
    BY <1>1, <2>2 DEF PriCall, InLock
  <2> QED
    BY <2>1, <2>2 DEF PhaseKept, WaitFails
<1>3. /\ UNCHANGED <<owner_nested, held>>
      /\ \A t, m : Owns(t, m)' = Owns(t, m)
  BY KeptFrame
<1>4. NoDeletion'
  BY DEF MutexKept, CountIInv, NoDeletion
<1>5. ASSUME NEW t \in Tasks, NEW m \in Mutexes, Owns(t, m)' PROVE Counted(t, m)
  BY <1>2, <1>3, <1>5 DEF Counted
<1> QED
  BY <1>4, <1>5, CountStep

\* The calls that begin to wait, and krhino_task_create.
LEMMA WaitCount ==
    ASSUME CountIInv, MutexIInv',
           \/ MutexLockPend
           \/ \E ticks \in Waits : TaskSleep(ticks)
           \/ \E m \in Mutexes, ticks \in Waits : MutexLockBusy(m, ticks)
           \/ \E t \in Tasks, p \in NewPris, a \in BOOLEAN : TaskCreate(t, p, a)
    PROVE  CountIInv'
<1>1. /\ pc \in [Tasks -> {"run", "sched", "blk", "end", "pri"}] /\ active \in Tasks
      /\ call \in [Tasks -> Objs \cup {NULL} \cup (Tasks \X Pris)]
  BY DEF CountIInv, MutexIInv, IInv, FieldsOK
<1>2. UNCHANGED <<alive, mutex_task, owner_nested, held>>
  BY DEF MutexLockPend, TaskSleep, MutexLockBusy, TaskCreate, mutexVars, dataVars
<1>3. \A it \in Marks(todo) : it.op = "lock_pend"
  <2>1. CASE MutexLockPend
    <3>1. Doing("lock_pend")
      BY <2>1 DEF MutexLockPend
    <3>2. /\ Marks(todo) = Marks(Tail(todo)) \cup {Head(todo)} /\ Head(todo).op = "lock_pend"
          /\ Tail(todo) = <<>>
      BY <3>1, MarksHead DEF CountIInv, MutexIInv, Doing, MarkOps
    <3> QED
      BY <3>2, MarksFew
  <2>2. CASE \E c : Calling(c)
    BY <2>2, CallerMutex DEF CountIInv
  <2> QED
    BY <2>1, <2>2 DEF TaskSleep, MutexLockBusy, TaskCreate
<1>4. \A it \in Marks(todo') : it.op = "lock_pend"
  <2>1. CASE MutexLockPend
    <3>1. Doing("lock_pend") /\ todo' = Tail(todo)
      BY <2>1 DEF MutexLockPend
    <3>2. Tail(todo) = <<>>
      BY <3>1, MarksHead DEF CountIInv, MutexIInv, Doing
    <3> QED
      BY <3>1, <3>2, MarksFew
  <2>2. ASSUME NEW m \in Mutexes, NEW ticks \in Waits, MutexLockBusy(m, ticks)
        PROVE  \A it \in Marks(todo') : it.op = "lock_pend"
    BY <2>2, BusyMarks DEF CountIInv
  <2>3. CASE UNCHANGED todo
    BY <1>3, <2>3
  <2> QED
    BY <2>1, <2>2, <2>3 DEF TaskSleep, TaskCreate
<1>5. /\ \A t, m : Owns(t, m) <=> m \in alive /\ mutex_task[m] = t
      /\ \A t, m : Owns(t, m)' <=> m \in alive' /\ mutex_task'[m] = t
      /\ NoDeletion'
  BY <1>3, <1>4, NoMarks, NoMarksNext DEF NoDeletion
<1>6. ASSUME NEW t \in Tasks, NEW m \in Mutexes, Owns(t, m)' PROVE Counted(t, m)
  <2>1. Owns(t, m) /\ m \in alive /\ mutex_task[m] = t
    BY <1>2, <1>5, <1>6
  <2>2. InLock(t, m)' <=> InLock(t, m)
    <3>1. CASE MutexLockPend
      <4>1. /\ Doing("lock_pend") /\ PendToBlkObj(Head(todo).obj, Head(todo).arg)
        BY <3>1 DEF MutexLockPend
      <4>2. Head(todo) \in Marks(todo) /\ Head(todo).op = "lock_pend"
        BY <4>1, MarksHead DEF CountIInv, MutexIInv, Doing, MarkOps
      <4>3. mutex_task[Head(todo).obj] # active
        BY <4>2 DEF CountIInv, MutexIInv, RestSound, MarkSound
      <4>4. pc[active] = "run"
        <5>1. Head(todo) \in ToSet(todo)
          BY <4>2 DEF Marks
        <5> QED
          BY <4>2, <5>1 DEF CountIInv, MutexIInv, IInv, TodoSound, ItemSound
      <4>5. CASE t = active
        BY <1>1, <2>1, <4>1, <4>3, <4>4, <4>5 DEF PendToBlkObj, InLock
      <4>6. CASE t # active
        BY <1>1, <4>1, <4>6 DEF PendToBlkObj, InLock
      <4> QED
        BY <4>5, <4>6
    <3>2. CASE \E ticks \in Waits : TaskSleep(ticks)
      <4>1. /\ Calling("task_sleep") /\ pc' = [pc EXCEPT ![active] = "blk"] /\ UNCHANGED call
        BY <3>2 DEF TaskSleep
      <4>2. call[active] = NULL /\ m # NULL
        BY <4>1, CallerMutex, KernelAssumption DEF CountIInv
      <4> QED
        BY <1>1, <4>1, <4>2 DEF InLock
    <3>3. CASE \E x \in Mutexes, ticks \in Waits : MutexLockBusy(x, ticks)
      <4>1. UNCHANGED <<pc, call>>
        BY <3>3 DEF MutexLockBusy
      <4> QED
        BY <4>1, SMTT(30) DEF InLock
    <3>4. ASSUME NEW x \in Tasks, NEW p \in NewPris, NEW a \in BOOLEAN, TaskCreate(x, p, a)
          PROVE  InLock(t, m)' <=> InLock(t, m)
      <4>1. /\ Calling("task_create") /\ ~Created(x) /\ UNCHANGED call
            /\ pc' = [pc EXCEPT ![x] = "run", ![active] = IF a THEN "sched" ELSE "run"]
        BY <3>4 DEF TaskCreate
      <4>2. call[active] = NULL /\ call[x] = NULL /\ m # NULL
        BY <4>1, CallerMutex, KernelAssumption DEF CountIInv, MutexIInv, CallsSound
      <4> QED
        BY <1>1, <4>1, <4>2 DEF InLock
    <3> QED
      BY <3>1, <3>2, <3>3, <3>4
  <2> QED
    BY <1>2, <2>1, <2>2 DEF Counted
<1> QED
  BY <1>5, <1>6, CountStep

\* krhino_mutex_create, krhino_mutex_lock and krhino_mutex_unlock without a wait.
LEMMA TakeCount ==
    ASSUME CountIInv, MutexIInv', NEW m \in Mutexes,
           \/ MutexCreate(m) \/ MutexLockFree(m) \/ MutexLockNested(m) \/ MutexUnlockNested(m)
    PROVE  CountIInv'
<1>1. /\ \E c : Calling(c)
      /\ UNCHANGED <<todo, pc, call, active>>
  BY DEF MutexCreate, MutexLockFree, MutexLockNested, MutexUnlockNested, ctlVars, cpuVars
<1>2. /\ Marks(todo) = {} /\ Marks(todo') = {} /\ active \in Tasks /\ pc[active] = "run"
      /\ \A t : ~Dying(t)
  BY <1>1, CallerMutex DEF CountIInv
<1>3. /\ \A t, x : Owns(t, x) <=> x \in alive /\ mutex_task[x] = t
      /\ \A t, x : Owns(t, x)' <=> x \in alive' /\ mutex_task'[x] = t
      /\ NoDeletion'
  BY <1>2, NoMarks, NoMarksNext DEF NoDeletion
<1>4. /\ \A t \in Tasks : \A x : InLock(t, x)' <=> InLock(t, x)
      /\ \A x : ~InLock(active, x)
  BY <1>1, <1>2 DEF InLock
<1>5. /\ held \in [Tasks -> [Mutexes -> Nat]] /\ owner_nested \in [Mutexes -> 0..MaxNested]
      /\ mutex_task \in [Mutexes -> Tasks \cup {NULL}] /\ MaxNested \in Nat
  BY KernelAssumption DEF CountIInv, MutexIInv, IInv, FieldsOK
<1>6. /\ \A x \in Mutexes : x # m => /\ owner_nested'[x] = owner_nested[x]
                                     /\ mutex_task'[x] = mutex_task[x]
                                     /\ x \in alive' <=> x \in alive
      /\ \A t \in Tasks, x \in Mutexes : x # m => held'[t][x] = held[t][x]
  BY <1>2, <1>5, SMTT(30) DEF MutexCreate, MutexLockFree, MutexLockNested, MutexUnlockNested
<1>7. ASSUME NEW t \in Tasks, NEW x \in Mutexes, x # m, Owns(t, x)' PROVE Counted(t, x)
  BY <1>3, <1>4, <1>6, <1>7 DEF Counted
<1>8. ASSUME NEW t \in Tasks, Owns(t, m)' PROVE Counted(t, m)
  <2>1. CASE MutexCreate(m)
    <3>1. mutex_task'[m] = NULL /\ t # NULL
      BY <1>5, <2>1, KernelAssumption DEF MutexCreate
    <3> QED
      BY <1>3, <1>8, <3>1
  <2>2. CASE MutexLockFree(m)
    <3>1. /\ mutex_task[m] = NULL /\ mutex_task'[m] = active /\ owner_nested'[m] = 1
          /\ held'[active][m] = held[active][m] + 1
      BY <1>2, <1>5, <2>2 DEF MutexLockFree
    <3>2. t = active
      BY <1>3, <1>8, <3>1
    <3>3. ~Owns(active, m)
      BY <1>2, <1>3, <3>1, KernelAssumption
    <3>4. held[active][m] = 0
      BY <1>2, <3>3, NotHeld DEF CountIInv
    <3> QED
      BY <1>4, <3>1, <3>2, <3>4 DEF Counted
  <2>3. CASE MutexLockNested(m) \/ MutexUnlockNested(m)
    <3>1. /\ mutex_task[m] = active /\ mutex_task'[m] = active /\ m \in alive
          /\ \/ /\ owner_nested'[m] = owner_nested[m] + 1
                /\ held'[active][m] = held[active][m] + 1
             \/ /\ owner_nested'[m] = owner_nested[m] - 1 /\ owner_nested[m] > 1
                /\ held'[active][m] = IF held[active][m] > 0 THEN held[active][m] - 1 ELSE 0
      BY <1>2, <1>5, <2>3 DEF MutexLockNested, MutexUnlockNested
    <3>2. t = active /\ Owns(active, m)
      BY <1>3, <1>8, <3>1
    <3>3. owner_nested[m] = held[active][m] /\ held[active][m] \in Nat
      BY <1>2, <1>4, <1>5, <3>2 DEF CountIInv, CountSound
    <3>4. owner_nested'[m] = held'[active][m]
      BY <3>1, <3>3
    <3> QED
      BY <1>4, <3>2, <3>4 DEF Counted
  <2> QED
    BY <2>1, <2>2, <2>3
<1> QED
  BY <1>3, <1>7, <1>8, CountStep

\* krhino_mutex_unlock gives the mutex away.
LEMMA GiveCount ==
    ASSUME CountIInv, MutexIInv', NEW m \in Mutexes, MutexUnlock(m)
    PROVE  CountIInv'
<1>1. /\ Calling("mutex_unlock")
      /\ owner_nested' = [owner_nested EXCEPT ![m] = 0]
      /\ held' = [held EXCEPT ![active][m] = IF @ > 0 THEN @ - 1 ELSE 0]
      /\ UNCHANGED <<alive, mutex_task, pc, call>>
  BY DEF MutexUnlock
<1>2. /\ active \in Tasks
      /\ \A t, x : Owns(t, x) <=> x \in alive /\ mutex_task[x] = t
  BY <1>1, CallerMutex DEF CountIInv
<1>3. PICK it : it.op = "hand_over" /\ it.obj = m /\ Marks(todo') = {it}
  BY UnlockMarks DEF CountIInv
<1>4. NoDeletion' /\ \A t : ~Owns(t, m)'
  BY <1>3 DEF NoDeletion, Owns, GivenBack
<1>5. /\ held \in [Tasks -> [Mutexes -> Nat]] /\ owner_nested \in [Mutexes -> 0..MaxNested]
  BY DEF CountIInv, MutexIInv, IInv, FieldsOK
<1>6. /\ \A x \in Mutexes : x # m => owner_nested'[x] = owner_nested[x]
      /\ \A t \in Tasks, x \in Mutexes : x # m => held'[t][x] = held[t][x]
  BY <1>1, <1>2, <1>5
<1>7. ASSUME NEW t \in Tasks, NEW x \in Mutexes, Owns(t, x)' PROVE Counted(t, x)
  <2>1. x # m
    BY <1>4, <1>7
  <2>2. x \in alive' /\ mutex_task'[x] = t
    BY <1>7 DEF Owns
  <2> QED
    BY <1>1, <1>2, <1>6, <2>1, <2>2 DEF Counted, InLock
<1> QED
  BY <1>4, <1>7, CountStep

\* The end of krhino_mutex_unlock: a new owner has it once.
LEMMA HandCount == ASSUME CountIInv, MutexIInv', MutexHandOver PROVE CountIInv'
<1>1. /\ Doing("hand_over") /\ todo' = Tail(todo) /\ UNCHANGED <<alive, held, call>>
      /\ ExitSched \/ UNCHANGED pc
  BY DEF MutexHandOver
<1>2. PICK it : it = Head(todo)
  OBVIOUS
<1>3. /\ it.op = "hand_over" /\ it.obj \in Mutexes /\ Tail(todo) = <<>>
      /\ Marks(todo) = Marks(<<>>) \cup {it}
  BY <1>1, <1>2, MarksHead DEF CountIInv, MutexIInv, WorkItem, Doing, MarkOps
<1>4. Marks(todo) = {it} /\ Marks(todo') = {}
  BY <1>1, <1>3, MarksFew
<1>5. PICK m \in Mutexes : m = it.obj
  BY <1>3
<1>6. /\ NoDeletion'
      /\ \A t, x : Owns(t, x) <=> x \in alive /\ mutex_task[x] = t /\ x # m
      /\ \A t, x : Owns(t, x)' <=> x \in alive' /\ mutex_task'[x] = t
  <2>1. \A x : GivenBack(x) <=> x = m
    BY <1>3, <1>4, <1>5 DEF GivenBack
  <2> QED
    BY <1>4, <2>1, NoMarksNext DEF NoDeletion, Owns
<1>7. pc[active] = "run" /\ active \in Tasks
  BY <1>3, <1>4 DEF CountIInv, MutexIInv, RestSound, MarkSound, IInv, FieldsOK
<1>8. \A t \in Tasks : \A x : InLock(t, x)' <=> InLock(t, x)
  <2>1. PcKept
    BY <1>1, <1>7, ExitKeepsPc DEF CountIInv, MutexIInv
  <2>2. pc \in [Tasks -> {"run", "sched", "blk", "end", "pri"}]
    BY DEF CountIInv, MutexIInv, IInv, FieldsOK
  <2> QED
    BY <1>1, <2>1, <2>2 DEF InLock, PcKept
<1>9. /\ owner_nested \in [Mutexes -> 0..MaxNested] /\ m \in Objs
      /\ mutex_task \in [Mutexes -> Tasks \cup {NULL}]
  BY DEF CountIInv, MutexIInv, IInv, FieldsOK, Objs
<1>10. CASE blk_list[m] = <<>>
  <2>1. /\ mutex_task' = [mutex_task EXCEPT ![m] = NULL] /\ UNCHANGED owner_nested
    BY <1>2, <1>5, <1>10 DEF MutexHandOver
  <2>2. ASSUME NEW t \in Tasks, NEW x \in Mutexes, Owns(t, x)' PROVE Counted(t, x)
    <3>1. x # m /\ Owns(t, x)
      BY <1>1, <1>6, <1>9, <2>1, <2>2, KernelAssumption
    <3> QED
      BY <1>1, <1>8, <2>1, <3>1 DEF Counted
  <2> QED
    BY <1>6, <2>2, CountStep
<1>11. CASE blk_list[m] # <<>>
  <2>1. PICK w \in Tasks : /\ w = Head(blk_list[m]) /\ task_state[w] \in Pending
                           /\ blk_obj[w] = m
    BY <1>9, <1>11, BlkHead DEF CountIInv, MutexIInv, IInv
  <2>2. /\ mutex_task' = [mutex_task EXCEPT ![m] = w]
        /\ owner_nested' = [owner_nested EXCEPT ![m] = 1]
    BY <1>2, <1>5, <1>11, <2>1 DEF MutexHandOver
  <2>3. InLock(w, m)
    BY <2>1 DEF CountIInv, MutexIInv, IInv, PendSound, CallsSound, InLock
  <2>4. ASSUME NEW t \in Tasks, NEW x \in Mutexes, Owns(t, x)' PROVE Counted(t, x)
    <3>1. CASE x = m
      <4>1. t = w /\ owner_nested'[m] = 1
        BY <1>6, <1>9, <2>2, <2>4, <3>1
      <4> QED
        BY <1>8, <2>3, <3>1, <4>1 DEF Counted
    <3>2. CASE x # m
      <4>1. Owns(t, x) /\ owner_nested'[x] = owner_nested[x]
        BY <1>1, <1>6, <1>9, <2>2, <2>4, <3>2
      <4> QED
        BY <1>1, <1>8, <4>1 DEF Counted
    <3> QED
      BY <3>1, <3>2
  <2> QED
    BY <1>6, <2>4, CountStep
<1> QED
  BY <1>10, <1>11

\* krhino_mutex_del.
LEMMA DelCount ==
    ASSUME CountIInv, MutexIInv', NEW m \in Mutexes, MutexDel(m)
    PROVE  CountIInv'
<1>1. /\ Calling("mutex_del") /\ alive' = alive \ {m}
      /\ held' = [t \in Tasks |-> [held[t] EXCEPT ![m] = 0]]
      /\ UNCHANGED <<mutex_task, owner_nested, call>> /\ ExitSched
  BY DEF MutexDel
<1>2. /\ active \in Tasks /\ pc[active] = "run"
      /\ \A t, x : Owns(t, x) <=> x \in alive /\ mutex_task[x] = t
  BY <1>1, CallerMutex DEF CountIInv
<1>3. /\ NoDeletion'
      /\ \A t, x : Owns(t, x)' <=> x \in alive' /\ mutex_task'[x] = t
  BY DelMarks, NoMarksNext DEF CountIInv, NoDeletion
<1>4. \A t \in Tasks : \A x : InLock(t, x)' <=> InLock(t, x)
  <2>1. PcKept
    BY <1>1, <1>2, ExitKeepsPc DEF CountIInv, MutexIInv
  <2>2. pc \in [Tasks -> {"run", "sched", "blk", "end", "pri"}]
    BY DEF CountIInv, MutexIInv, IInv, FieldsOK
  <2> QED
    BY <1>1, <2>1, <2>2 DEF InLock, PcKept
<1>5. held \in [Tasks -> [Mutexes -> Nat]]
  BY DEF CountIInv, MutexIInv, IInv, FieldsOK
<1>6. ASSUME NEW t \in Tasks, NEW x \in Mutexes, Owns(t, x)' PROVE Counted(t, x)
  <2>1. x # m /\ Owns(t, x)
    BY <1>1, <1>2, <1>3, <1>6
  <2>2. held'[t][x] = held[t][x]
    BY <1>1, <1>5, <2>1
  <2> QED
    BY <1>1, <1>4, <2>1, <2>2 DEF Counted
<1> QED
  BY <1>3, <1>6, CountStep

\* The call that waited returns: what the owner has is the one get.
LEMMA EndCount == ASSUME CountIInv, MutexIInv', PendStateEndProc PROVE CountIInv'
<1>1. /\ InTask /\ pc[active] = "end"
      /\ pc' = [pc EXCEPT ![active] = "run"]
      /\ call' = [call EXCEPT ![active] = NULL]
      /\ held' = IF call[active] \in Mutexes \cap alive /\ PendStatus(active) = "BLK_FINISH"
                 THEN [held EXCEPT ![active][call[active]] = @ + 1] ELSE held
      /\ UNCHANGED <<alive, mutex_task, owner_nested, todo>>
  BY DEF PendStateEndProc
<1>2. active \in Tasks /\ task_state[active] = "K_RDY" /\ todo = <<>>
  BY <1>1, Runs DEF CountIInv, MutexIInv, InTask
<1>3. Marks(todo) = {} /\ Marks(todo') = {}
  BY <1>1, <1>2, MarksFew
<1>4. /\ \A t : ~Dying(t)
      /\ \A t, x : Owns(t, x) <=> x \in alive /\ mutex_task[x] = t
      /\ \A t, x : Owns(t, x)' <=> x \in alive' /\ mutex_task'[x] = t
      /\ NoDeletion'
  BY <1>3, NoMarks, NoMarksNext DEF NoDeletion
<1>5. /\ held \in [Tasks -> [Mutexes -> Nat]]
      /\ pc \in [Tasks -> {"run", "sched", "blk", "end", "pri"}]
      /\ call \in [Tasks -> Objs \cup {NULL} \cup (Tasks \X Pris)]
  BY DEF CountIInv, MutexIInv, IInv, FieldsOK
<1>6. ASSUME NEW t \in Tasks, NEW x \in Mutexes, Owns(t, x)' PROVE Counted(t, x)
  <2>1. Owns(t, x) /\ x \in alive /\ mutex_task[x] = t
    BY <1>1, <1>4, <1>6
  <2>2. CASE t # active
    <3>1. InLock(t, x)' <=> InLock(t, x)
      BY <1>1, <1>2, <1>5, <2>2 DEF InLock
    <3>2. held'[t] = held[t]
      BY <1>1, <1>2, <1>5, <2>2
    <3> QED
      BY <1>1, <2>1, <3>1, <3>2 DEF Counted
  <2>3. CASE t = active /\ call[active] # x
    <3>1. ~InLock(t, x)' /\ ~InLock(t, x)
      BY <1>1, <1>2, <1>5, <2>3 DEF InLock
    <3>2. held'[t][x] = held[t][x]
      BY <1>1, <1>2, <1>5, <2>3
    <3> QED
      BY <1>1, <2>1, <3>1, <3>2 DEF Counted
  <2>4. CASE t = active /\ call[active] = x
    <3>1. InLock(t, x) /\ ~InLock(t, x)'
      BY <1>1, <1>2, <1>5, <2>4 DEF InLock
    <3>2. held[t][x] = 0 /\ blk_state[active] = "BLK_FINISH"
      BY <1>4, <2>1, <2>4, <3>1 DEF CountIInv, MutexIInv, GrantSound
    <3>3. PendStatus(active) = "BLK_FINISH"
      BY <2>4, <3>2 DEF PendStatus
    <3>4. held' = [held EXCEPT ![active][x] = @ + 1]
      BY <1>1, <2>1, <2>4, <3>3
    <3>5. held'[t][x] = 1
      BY <1>2, <1>5, <2>4, <3>2, <3>4
    <3>6. owner_nested[x] = 1
      BY <2>1, <3>1 DEF CountIInv, CountSound
    <3> QED
      BY <1>1, <3>1, <3>5, <3>6 DEF Counted
  <2> QED
    BY <2>2, <2>3, <2>4
<1> QED
  BY <1>4, <1>6, CountStep

\* Every step keeps the count, as long as no task is deleted.
LEMMA CountNext ==
    ASSUME "task_suspend" \notin IsrCalls, {"task_del", "task_redel"} \cap Calls = {},
           CountIInv, [Next]_vars
    PROVE  CountIInv'
<1>1. MutexIInv' /\ IInv /\ IInv'
  BY MutexNext, NextInv DEF CountIInv, MutexIInv
<1>2. CASE \/ CoreSched \/ PendSV \/ IdleLoop \/ IntrptEnter \/ TickEnter \/ IntrptExit
           \/ TimeSliceUpdate \/ SchedDisable \/ SchedEnable \/ UNCHANGED vars
  BY <1>1, <1>2, CpuSteps, KeptCount
<1>3. CASE TickProc
  BY <1>1, <1>3, RoundSteps, KeptCount
<1>4. CASE PendStateEndProc
  BY <1>1, <1>4, EndCount
<1>5. CASE Continue
  <2>1. CASE TaskPriChange \/ CancelCoreSched
    BY <1>1, <2>1, RoundSteps, KeptCount
  <2>2. CASE TickExpire \/ DelWaiters
    BY <1>1, <2>2, EndSteps, KeptCount
  <2>3. CASE MutexLockPend
    BY <1>1, <2>3, WaitCount
  <2>4. CASE MutexHandOver
    BY <1>1, <2>4, HandCount
  <2>5. CASE TaskMutexFree \/ TaskDelEnd
    <3>1. todo # <<>> /\ Head(todo).op \in {"mutex_free", "del_end"}
      BY <2>5 DEF TaskMutexFree, TaskDelEnd, Doing
    <3>2. Head(todo) \in Marks(todo)
      BY <1>1, <3>1, MarksHead DEF MarkOps
    <3> QED
      BY <3>1, <3>2 DEF CountIInv, NoDeletion
  <2> QED
    BY <1>5, <2>1, <2>2, <2>3, <2>4, <2>5, Zenon DEF Continue
<1>6. CASE MutexCall
  <2> PICK m \in Mutexes :
         \/ MutexCreate(m)
         \/ MutexLockNested(m)
         \/ MutexLockFree(m)
         \/ \E ticks \in Waits : MutexLockBusy(m, ticks)
         \/ MutexUnlockNested(m)
         \/ MutexUnlock(m)
         \/ MutexDel(m)
    BY <1>6 DEF MutexCall
  <2> QED
    BY <1>1, TakeCount, WaitCount, GiveCount, DelCount
<1>7. CASE TaskCall
  <2>1. CASE \E ticks \in Waits \ {FOREVER} : TaskSleep(ticks)
    BY <1>1, <2>1, WaitCount
  <2>2. CASE TaskPriChangeCall \/ \E t \in Tasks, p \in NewPris : TaskPriChangeCheck(t, p)
    BY <1>1, <2>2, PriCallSteps, KeptCount
  <2>3. ASSUME NEW t \in Tasks, NEW p \in NewPris, NEW autorun \in BOOLEAN,
               TaskCreate(t, p, autorun)
        PROVE  CountIInv'
    BY <1>1, <2>3, WaitCount
  <2>4. ASSUME NEW t \in Tasks,
               \/ TaskYield \/ TaskSuspend(t) \/ TaskResume(t)
               \/ \E s \in TimeSlices : TaskTimeSliceSet(t, s)
               \/ \E policy \in {"KSCHED_FIFO", "KSCHED_RR"} : SchedPolicySet(t, policy)
        PROVE  CountIInv'
    BY <1>1, <2>4, QueueSteps, KeptCount
  <2>5. ASSUME NEW t \in Tasks, TaskWaitAbort(t) \/ TaskCancel(t) PROVE CountIInv'
    BY <1>1, <2>5, AbortSteps, KeptCount
  <2>6. ASSUME NEW t \in Tasks, TaskDel(t) PROVE CountIInv'
    BY <2>6 DEF TaskDel, Calling
  <2>7. CASE TaskYield
    BY <2>4, <2>7, KernelAssumption
  <2> QED
    BY <1>7, <2>1, <2>2, <2>3, <2>4, <2>5, <2>6, <2>7, Zenon DEF TaskCall
<1> QED
  BY <1>2, <1>3, <1>4, <1>5, <1>6, <1>7, Zenon DEF Next

\* As long as no task is deleted, owner_nested is the number of gets of the
\* owner that have not been given back, so that exactly as many calls of
\* krhino_mutex_unlock free the mutex.
THEOREM NestedCountCorrect ==
    ASSUME "task_suspend" \notin IsrCalls, {"task_del", "task_redel"} \cap Calls = {}
    PROVE  Spec => []NestedCountExact
<1>1. Init => CountIInv
  <2> SUFFICES ASSUME Init PROVE CountIInv
    OBVIOUS
  <2>1. Marks(todo) = {}
    BY MarksFew DEF Init
  <2>2. \A t, m : Owns(t, m) <=> m \in alive /\ mutex_task[m] = t
    BY <2>1, NoMarks
  <2>3. \A t \in Tasks, m \in Mutexes : ~Owns(t, m)
    BY <2>2, KernelAssumption DEF Init
  <2> QED
    BY <2>1, <2>3, MutexInit DEF CountIInv, NoDeletion, CountSound
<1>2. CountIInv /\ [Next]_vars => CountIInv'
  BY CountNext
<1>3. CountIInv => NestedCountExact
  <2> SUFFICES ASSUME CountIInv, todo = <<>>, NEW m \in Mutexes \cap alive, mutex_task[m] # NULL
               PROVE  LET t == mutex_task[m]
                      IN  owner_nested[m] = IF pc[t] \in {"blk", "end"} /\ call[t] = m THEN 1
                                            ELSE held[t][m]
    BY DEF NestedCountExact
  <2>1. PICK t \in Tasks : t = mutex_task[m]
    BY DEF CountIInv, MutexIInv, IInv, FieldsOK
  <2>2. Owns(t, m)
    BY <2>1, MarksFew, NoMarks
  <2> QED
    BY <2>1, <2>2 DEF CountIInv, CountSound, InLock
<1> QED
  BY <1>1, <1>2, <1>3, PTL DEF Spec
=============================================================================

------------------------- MODULE RhinoPriorityProofs -------------------------
(***************************************************************************)
(* Priorities: the priority of a task is the best of its own and of those  *)
(* who wait for its mutexes, along chains of owners, and who computes is   *)
(* of the best: no call forgets to reschedule, PendSV switches to a best   *)
(* task, and no task of a lower priority than a waiter computes while the  *)
(* owner of the mutex could.                                               *)
(*                                                                         *)
(* krhino_task_del gives the mutexes of the task away without a look at    *)
(* the priorities of the new owners, so the theorems are about             *)
(* applications that do not delete tasks.  krhino_intrpt_exit leaves a     *)
(* pending switch as it is, so that a peripheral's interrupt between       *)
(* core_sched and PendSV makes the target out of date: those about who     *)
(* computes are for applications whose only interrupt is the tick, which   *)
(* waits for PendSV.                                                       *)
(***************************************************************************)
EXTENDS RhinoMutexProofs

\* The task x waits for the mutex m.
Waiting(x, m) == task_state[x] \in Pending /\ blk_obj[x] = m

\* The task x is about to wait for m, in krhino_mutex_lock.
Entering(x, m) == x = active /\ \E it \in Marks(todo) : it.op = "lock_pend" /\ it.obj = m

\* The task t owes its priority to x, among others.
Presses(x, t) == \E m \in Mutexes : Owns(t, m) /\ (Waiting(x, m) \/ Entering(x, m))

\* The best of the priority of t itself and of those it owes it to is p.
Fits(t, p) ==
    /\ p <= b_prio[t] /\ \A x \in Tasks : Presses(x, t) => p <= prio[x]
    /\ p = b_prio[t] \/ \E x \in Tasks : Presses(x, t) /\ prio[x] = p

\* The priority of t once the change of priority in progress has reached it.
Aim(t) == IF Doing("pri_change") /\ Head(todo).task = t THEN Head(todo).arg ELSE prio[t]

\* Every task has the priority due to it, or is about to get it.
Inherited == \A t \in Tasks : Created(t) => Fits(t, Aim(t))

\* No change of priority among the work td.
Plain(td) == \A it \in ToSet(td) : it.op # "pri_change"

\* There is one change of priority at a time.  In krhino_mutex_lock it carries
\* the priority of the caller to tasks that have a lower one, and in
\* krhino_mutex_unlock it is about the caller itself.
ChainSound ==
    /\ todo # <<>> => Plain(Tail(todo))
    /\ Doing("pri_change") =>
       \A it \in Marks(todo) :
          /\ it.op = "lock_pend" => /\ Head(todo).arg = prio[active]
                                    /\ Head(todo).arg < prio[Head(todo).task]
          /\ it.op = "hand_over" => /\ Head(todo).task = active
                                    /\ task_state[active] = "K_RDY"

\* The deletions of objects that the work td is about.
Dels(td) == {it \in ToSet(td) : it.op = "del_waiters"}

\* Who waits for a mutex that is gone is about to be woken, and nobody else is.
DeadSound ==
    /\ \A m \in Mutexes \ alive, t \in Tasks : Waiting(t, m) =>
          \E it \in Dels(todo) : it.obj = m
    /\ \A it \in Dels(todo) : it.obj \notin alive

\* The invariant about inheritance.
InheritIInv ==
    /\ WaitIInv
    /\ CountIInv
    /\ ChainSound
    /\ Inherited
    /\ DeadSound
-----------------------------------------------------------------------------
(* What a priority is due to.                                               *)

\* The types that the comparisons need.
LEMMA PriTypes ==
    ASSUME IInv
    PROVE  /\ Pris \subseteq Nat /\ Pris \subseteq Int
           /\ prio \in [Tasks -> Pris] /\ b_prio \in [Tasks -> Pris]
           /\ task_state \in [Tasks -> TaskStates] /\ active \in Tasks
           /\ mutex_list \in [Tasks -> Seq(Mutexes)]
           /\ mutex_task \in [Mutexes -> Tasks \cup {NULL}]
           /\ blk_list \in [Objs -> Seq(Tasks)]
           /\ \A m \in Mutexes : m \in Objs /\ m # NULL
<1>1. Pris \subseteq Nat /\ Pris \subseteq Int
  BY Constants
<1>2. FieldsOK /\ BlkExact(blk_list, task_state, blk_obj)
  BY DEF IInv
<1>3. \A m \in Mutexes : m \in Objs /\ m # NULL
  BY Constants DEF Objs
<1> QED
  BY <1>1, <1>2, <1>3 DEF FieldsOK, BlkExact

\* A priority still fits when those who gave it still do, and newcomers are no
\* better.
LEMMA FitsMove ==
    ASSUME NEW t, NEW p, Fits(t, p), b_prio'[t] = b_prio[t],
           \A x \in Tasks : Presses(x, t)' =>
              (Presses(x, t) /\ prio'[x] = prio[x]) \/ p <= prio'[x],
           \A x \in Tasks : Presses(x, t) /\ prio[x] = p => Presses(x, t)' /\ prio'[x] = p
    PROVE  Fits(t, p)'
BY DEF Fits

\* The priority that a task is to have after a step.
LEMMA FitsAim ==
    ASSUME NEW t, NEW p, p = Aim(t)', Fits(t, p)'
    PROVE  Fits(t, Aim(t))'
BY DEF Fits

\* Who waits for a mutex is on its list.
LEMMA WaitingListed ==
    ASSUME IInv', NEW m \in Mutexes, NEW x \in Tasks
    PROVE  Waiting(x, m)' <=> x \in ToSet(blk_list'[m])
<1>1. m \in Objs
  BY DEF Objs
<1> QED
  BY <1>1 DEF IInv, BlkExact, Waiting

\* The first of a sorted list is the best.
LEMMA HeadBest ==
    ASSUME NEW s \in Seq(Tasks), s # <<>>, NEW pr \in [Tasks -> Int], Ordered(s, pr)
    PROVE  /\ Head(s) \in ToSet(s) /\ Head(s) \in Tasks
           /\ \A x \in ToSet(s) : pr[Head(s)] <= pr[x]
<1>1. 1 \in 1..Len(s) /\ Head(s) = s[1] /\ Head(s) \in ToSet(s) /\ Head(s) \in Tasks
  BY TailSeq
<1>2. ASSUME NEW x \in ToSet(s) PROVE pr[Head(s)] <= pr[x]
  <2>1. PICK i \in 1..Len(s) : s[i] = x
    BY MemberAt
  <2> QED
    BY <1>1, <2>1 DEF Ordered
<1> QED
  BY <1>1, <1>2

\* p is the best of base and of the priorities of all on the lists of ms.
BestOf(p, base, ms, lists, pr) ==
    /\ p \in Nat /\ p <= base
    /\ \A m \in ms : \A x \in ToSet(lists[m]) : p <= pr[x]
    /\ p = base \/ \E m \in ms : \E x \in ToSet(lists[m]) : pr[x] = p

\* mutex_pri_look and mutex_pri_limit find the best of all waiters although
\* they look at the first ones only.
LEMMA LookBest ==
    ASSUME NEW base \in Nat, NEW ms, ms \subseteq Mutexes,
           NEW lists \in [Objs -> Seq(Tasks)], NEW pr \in [Tasks -> Nat], Sorted(lists, pr)
    PROVE  BestOf(PriLook(base, ms, lists, pr), base, ms, lists, pr)
<1> DEFINE p == PriLook(base, ms, lists, pr)
           M == {y \in ms : lists[y] # <<>>}
           S == {base} \cup {pr[Head(lists[m])] : m \in M}
<1>1. \A m \in ms : /\ m \in Objs /\ lists[m] \in Seq(Tasks) /\ Ordered(lists[m], pr)
  BY DEF Objs, Sorted
<1>2. pr \in [Tasks -> Int]
  OBVIOUS
<1>3. ASSUME NEW m \in M
      PROVE  /\ Head(lists[m]) \in ToSet(lists[m]) /\ Head(lists[m]) \in Tasks
             /\ \A x \in ToSet(lists[m]) : pr[Head(lists[m])] <= pr[x]
  BY <1>1, <1>2, HeadBest
<1>4. S \subseteq Nat /\ S # {} /\ base \in S
  BY <1>3
<1>5. p = Min(S)
  BY DEF PriLook
<1> HIDE DEF S, p
<1>6. p \in S /\ \A y \in S : p <= y
  <2>1. Min(S) \in S /\ \A y \in S : Min(S) <= y
    BY <1>4, MinNat
  <2> QED
    BY <1>5, <2>1
<1>7. ASSUME NEW m \in ms, NEW x \in ToSet(lists[m]) PROVE p <= pr[x]
  <2>1. lists[m] # <<>> /\ x \in Tasks
    <3>1. ToSet(<<>>) = {}
      BY DEF ToSet
    <3> QED
      BY <1>1, <1>7, <3>1, MemberAt
  <2>2. m \in M /\ pr[Head(lists[m])] <= pr[x] /\ Head(lists[m]) \in Tasks
    BY <1>3, <2>1
  <2>3. pr[Head(lists[m])] \in S
    BY <2>2 DEF S
  <2>4. p <= pr[Head(lists[m])] /\ p \in Nat /\ pr[x] \in Nat /\ pr[Head(lists[m])] \in Nat
    BY <1>4, <1>6, <2>1, <2>2, <2>3
  <2> QED
    BY <2>2, <2>4
<1>8. p = base \/ \E m \in ms : \E x \in ToSet(lists[m]) : pr[x] = p
  BY <1>3, <1>6 DEF S
<1>9. p \in Nat /\ p <= base
  BY <1>4, <1>6
<1>10. p = PriLook(base, ms, lists, pr)
  BY DEF p
<1> QED
  BY <1>7, <1>8, <1>9, <1>10 DEF BestOf

\* The same after a step.
LEMMA PriTypesNext ==
    ASSUME IInv'
    PROVE  /\ prio' \in [Tasks -> Pris] /\ b_prio' \in [Tasks -> Pris]
           /\ prio' \in [Tasks -> Nat] /\ b_prio' \in [Tasks -> Nat]
           /\ mutex_list' \in [Tasks -> Seq(Mutexes)]
           /\ blk_list' \in [Objs -> Seq(Tasks)]
           /\ active' \in Tasks
<1>1. Pris \subseteq Nat /\ Pris \subseteq Int
  BY Constants
<1>2. FieldsOK' /\ BlkExact(blk_list, task_state, blk_obj)'
  BY DEF IInv
<1>3. /\ prio' \in [Tasks -> Pris] /\ b_prio' \in [Tasks -> Pris]
      /\ mutex_list' \in [Tasks -> Seq(Mutexes)]
      /\ blk_list' \in [Objs -> Seq(Tasks)] /\ active' \in Tasks
  BY <1>2 DEF FieldsOK, BlkExact
<1> QED
  BY <1>1, <1>3

\* What they find is the priority due to the owner of the mutexes in the list.
LEMMA LookFits ==
    ASSUME CountIInv', WaitIInv', NEW o \in Tasks, Created(o)',
           \A it \in Marks(todo') : it.op # "lock_pend",
           NEW p, p = PriLook(b_prio'[o], ToSet(mutex_list'[o]), blk_list', prio')
    PROVE  Fits(o, p)' /\ p \in Nat
<1>1. IInv' /\ ListSound' /\ NoDeletion' /\ Sorted(blk_list', prio')
  BY DEF CountIInv, MutexIInv, WaitIInv
<1>2. /\ prio' \in [Tasks -> Nat] /\ b_prio' \in [Tasks -> Nat]
      /\ mutex_list' \in [Tasks -> Seq(Mutexes)] /\ blk_list' \in [Objs -> Seq(Tasks)]
  BY <1>1, PriTypesNext
<1> DEFINE ms == ToSet(mutex_list'[o])
<1>3. mutex_list'[o] \in Seq(Mutexes) /\ b_prio'[o] \in Nat
  BY <1>2
<1>4. ms \subseteq Mutexes
  BY <1>3, MemberAt
<1>5. ~Dying(o)'
  BY <1>1 DEF NoDeletion, Dying
<1>6. \A m \in Mutexes : Owns(o, m)' <=> m \in ms
  BY <1>1, <1>5 DEF ListSound
<1> HIDE DEF ms
<1>7. /\ p \in Nat /\ p <= b_prio'[o]
      /\ \A m \in ms : \A x \in ToSet(blk_list'[m]) : p <= prio'[x]
      /\ p = b_prio'[o] \/ \E m \in ms : \E x \in ToSet(blk_list'[m]) : prio'[x] = p
  <2>1. PICK base, lists, pr : base = b_prio'[o] /\ lists = blk_list' /\ pr = prio'
    OBVIOUS
  <2>2. p = PriLook(base, ms, lists, pr)
    BY <2>1 DEF ms
  <2>3. /\ base \in Nat /\ lists \in [Objs -> Seq(Tasks)] /\ pr \in [Tasks -> Nat]
        /\ Sorted(lists, pr)
    BY <1>1, <1>2, <1>3, <2>1
  <2>4. BestOf(PriLook(base, ms, lists, pr), base, ms, lists, pr)
    BY <1>4, <2>3, LookBest
  <2>5. BestOf(p, base, ms, lists, pr)
    BY <2>2, <2>4
  <2> QED
    BY <2>1, <2>5 DEF BestOf
<1>8. \A x, m : ~Entering(x, m)'
  BY DEF Entering
<1>9. \A x \in Tasks : Presses(x, o)' <=> \E m \in ms : x \in ToSet(blk_list'[m])
  BY <1>1, <1>4, <1>6, <1>8, WaitingListed DEF Presses
<1>10. \A m \in ms : \A x \in ToSet(blk_list'[m]) : x \in Tasks
  BY <1>2, <1>4, MemberAt DEF Objs
<1>11. /\ \A x \in Tasks : Presses(x, o)' => p <= prio'[x]
       /\ p = b_prio'[o] \/ \E x \in Tasks : Presses(x, o)' /\ prio'[x] = p
  BY <1>7, <1>9, <1>10
<1> QED
  BY <1>7, <1>11 DEF Fits

\* Who presses whom is the same when owners and waiters are.
LEMMA PressesKept ==
    ASSUME MutexKept, \/ PhaseKept \/ UNCHANGED <<task_state, blk_obj>>
    PROVE  /\ \A x \in Tasks : \A t : Presses(x, t)' <=> Presses(x, t)
           /\ \A x \in Tasks : Created(x)' <=> Created(x)
<1>1. \A t, m : Owns(t, m)' <=> Owns(t, m)
  BY KeptFrame
<1>2. \A x \in Tasks : \A m : Waiting(x, m)' <=> Waiting(x, m)
  BY DEF PhaseKept, Waiting
<1>3. \A x, m : Entering(x, m)' <=> Entering(x, m)
  BY DEF MutexKept, Entering
<1>4. \A x \in Tasks : Created(x)' <=> Created(x)
  BY DEF PhaseKept, Created
<1> QED
  BY <1>1, <1>2, <1>3, <1>4 DEF Presses

\* Nothing that the priorities depend on changes.
LEMMA SameInherit ==
    ASSUME InheritIInv, ~Doing("pri_change"), ~Doing("pri_change")', UNCHANGED <<prio, b_prio>>,
           todo' # <<>> => Plain(Tail(todo')),
           \A t \in Tasks : Created(t)' => Created(t),
           \A x \in Tasks, t \in Tasks : Presses(x, t)' <=> Presses(x, t)
    PROVE  ChainSound' /\ Inherited'
<1>1. \A t \in Tasks : Created(t) => Fits(t, prio[t])
  BY DEF InheritIInv, Inherited, Aim
<1>2. ASSUME NEW t \in Tasks, Created(t)' PROVE Fits(t, Aim(t))'
  <2>1. PICK p : p = prio[t]
    OBVIOUS
  <2>2. Fits(t, p)
    BY <1>1, <1>2, <2>1
  <2>3. Fits(t, p)'
    BY <2>2, FitsMove
  <2>4. p = Aim(t)'
    BY <2>1 DEF Aim
  <2> QED
    BY <2>3, <2>4, FitsAim
<1>3. Inherited'
  BY <1>2 DEF Inherited
<1>4. ChainSound'
  BY DEF ChainSound
<1> QED
  BY <1>3, <1>4

-----------------------------------------------------------------------------
(* The work that is left.                                                   *)

\* No work, and a single piece of work.
LEMMA FewWork ==
    /\ Dels(<<>>) = {} /\ Plain(<<>>)
    /\ \A it : /\ Dels(<<it>>) = IF it.op = "del_waiters" THEN {it} ELSE {}
               /\ it.op # "pri_change" => Plain(<<it>>)
               /\ Tail(<<it>>) = <<>> /\ Head(<<it>>) = it /\ <<it>> # <<>>
<1>1. ToSet(<<>>) = {}
  BY DEF ToSet
<1>2. ASSUME NEW it PROVE ToSet(<<it>>) = {it}
  BY DEF ToSet
<1>3. ASSUME NEW it PROVE Tail(<<it>>) = <<>> /\ Head(<<it>>) = it /\ <<it>> # <<>>
  OBVIOUS
<1> QED
  BY <1>1, <1>2, <1>3 DEF Dels, Plain

\* The rest of plain work is plain, and what is behind the first item is.
LEMMA PlainRest ==
    ASSUME NEW td \in Seq(Items), td # <<>>
    PROVE  /\ Plain(td) => Plain(Tail(td)) /\ Head(td).op # "pri_change"
           /\ Plain(Tail(td)) /\ Head(td).op # "pri_change" => Plain(td)
           /\ Head(td).op # "del_waiters" => Dels(Tail(td)) = Dels(td)
<1>1. ToSet(Tail(td)) \subseteq ToSet(td) /\ Head(td) \in ToSet(td)
  BY TailSeq
<1>2. \A x \in ToSet(td) : x = Head(td) \/ x \in ToSet(Tail(td))
  BY HeadOrTail
<1> QED
  BY <1>1, <1>2 DEF Plain, Dels

\* A change of priority is put before plain work.
LEMMA Push ==
    ASSUME NEW r \in PriWork, NEW td \in Seq(Items), Plain(td)
    PROVE  /\ Dels(r \o td) = Dels(td)
           /\ r \o td # <<>> => Plain(Tail(r \o td))
           /\ r = <<>> => r \o td = td
           /\ \A o, p : r = <<Item("pri_change", o, NULL, p)>> =>
                 /\ r \o td # <<>> /\ Head(r \o td).op = "pri_change"
                 /\ Head(r \o td).task = o /\ Head(r \o td).arg = p
<1>1. CASE r = <<>>
  <2>1. r \o td = td
    BY <1>1
  <2>2. \A x : r # <<x>>
    BY <1>1
  <2> QED
    BY <1>1, <2>1, <2>2, PlainRest
<1>2. CASE r # <<>>
  <2>1. PICK o \in AppTasks, n \in AppPris : r = <<Item("pri_change", o, NULL, n)>>
    BY <1>2 DEF PriWork
  <2>2. PICK it : it = Item("pri_change", o, NULL, n)
    OBVIOUS
  <2>3. it \in Items /\ it.op = "pri_change" /\ r = <<it>>
    BY <2>1, <2>2, PriItem
  <2>4. ToSet(<<it>> \o td) = ToSet(td) \cup {it}
    BY <2>3, ConsSet
  <2>5. r \o td # <<>> /\ Head(r \o td) = it /\ Tail(r \o td) = td
    BY <2>3
  <2>6. ASSUME NEW x, NEW y, r = <<Item("pri_change", x, NULL, y)>>
        PROVE  it.task = x /\ it.arg = y
    <3>1. it = Item("pri_change", x, NULL, y)
      BY <2>3, <2>6
    <3> QED
      BY <3>1 DEF Item
  <2> QED
    BY <1>2, <2>3, <2>4, <2>5, <2>6 DEF Dels
<1> QED
  BY <1>1, <1>2

\* The priorities that are due when no change is in progress.
LEMMA AimNow ==
    ASSUME todo # <<>> => Plain(Tail(todo)), todo \in Seq(Items), ~Doing("pri_change")
    PROVE  Plain(todo) /\ \A t : Aim(t) = prio[t]
<1>1. Plain(todo)
  <2>1. CASE todo = <<>>
    BY <2>1, FewWork
  <2>2. CASE todo # <<>>
    BY <2>2, PlainRest DEF Doing
  <2> QED
    BY <2>1, <2>2
<1> QED
  BY <1>1 DEF Aim

\* Who waits for a mutex that is gone is still about to be woken after a step
\* that ends no mutex and no deletion.
LEMMA DeadStep ==
    ASSUME IInv, DeadSound, CoreKind, Dels(todo') = Dels(todo),
           alive' = alive \/ (todo = <<>> /\ alive \subseteq alive')
    PROVE  DeadSound'
<1>1. \A it \in Dels(todo') : it.obj \notin alive'
  BY FewWork DEF DeadSound
<1>2. /\ task_state \in [Tasks -> TaskStates] /\ blk_obj \in [Tasks -> Objs \cup {NULL}]
      /\ active \in Tasks
  BY DEF IInv, FieldsOK
<1>3. ASSUME NEW m \in Mutexes, m \notin alive', NEW t \in Tasks, Waiting(t, m)'
      PROVE  Waiting(t, m) /\ m \notin alive
  <2>1. m \notin alive
    BY <1>3
  <2>2. CASE WaitKept
    BY <1>3, <2>1, <2>2 DEF WaitKept, Waiting, waitVars
  <2>3. ASSUME NEW x \in Tasks, WaitEnds(x) \/ WaitDeleted(x) PROVE Waiting(t, m)
    <3>1. t # x
      BY <1>3, <2>3 DEF WaitEnds, WaitDeleted, Waiting, Timed
    <3>2. blk_obj'[t] = blk_obj[t] /\ task_state'[t] = task_state[t]
      BY <1>2, <2>3, <3>1 DEF WaitEnds, WaitDeleted, LeaveWait
    <3> QED
      BY <1>3, <3>2 DEF Waiting
  <2>4. ASSUME NEW o \in (Mutexes \cap alive) \cup {NULL}, NEW ticks \in Waits, WaitBegins(o, ticks)
        PROVE  Waiting(t, m)
    <3>1. t # active
      BY <1>2, <1>3, <2>1, <2>4 DEF WaitBegins, Waiting, Pending
    <3>2. blk_obj'[t] = blk_obj[t] /\ task_state'[t] = task_state[t]
      BY <1>2, <2>4, <3>1 DEF WaitBegins
    <3> QED
      BY <1>3, <3>2 DEF Waiting
  <2>5. ASSUME NEW x \in Tasks, NEW p \in Pris, WaitPri(x, p) PROVE Waiting(t, m)
    BY <1>3, <2>5 DEF WaitPri, Waiting
  <2>6. ASSUME NEW x \in Tasks, NEW p \in Pris, WaitCreated(x, p) PROVE Waiting(t, m)
    <3>1. t # x
      BY <1>3, <2>6 DEF WaitCreated, Waiting, Timed
    <3>2. blk_obj'[t] = blk_obj[t] /\ task_state'[t] = task_state[t]
      BY <1>2, <2>6, <3>1 DEF WaitCreated
    <3> QED
      BY <1>3, <3>2 DEF Waiting
  <2>7. CASE WaitTicks
    BY <1>3, <2>7 DEF WaitTicks, Waiting
  <2>8. Waiting(t, m)
    BY <2>2, <2>3, <2>4, <2>5, <2>6, <2>7 DEF CoreKind
  <2> QED
    BY <2>1, <2>8
<1> QED
  BY <1>1, <1>3 DEF DeadSound

\* What a step has to show.
Kept == ChainSound' /\ Inherited' /\ Dels(todo') = Dels(todo)

\* What the invariant says, part by part.
LEMMA InheritParts ==
    ASSUME InheritIInv
    PROVE  /\ IInv /\ WaitIInv /\ CountIInv /\ MutexIInv /\ NoDeletion
           /\ ListSound /\ OwnerSound /\ RestSound
           /\ ChainSound /\ Inherited /\ DeadSound
           /\ todo \in Seq(Items) /\ (todo # <<>> => Plain(Tail(todo)))
           /\ ~Doing("pri_change") => Plain(todo) /\ \A t : Aim(t) = prio[t]
           /\ \A x : ~Dying(x)
<1>1. /\ IInv /\ WaitIInv /\ CountIInv /\ MutexIInv /\ NoDeletion
      /\ ListSound /\ OwnerSound /\ RestSound
      /\ ChainSound /\ Inherited /\ DeadSound
  BY DEF InheritIInv, CountIInv, MutexIInv
<1>2. todo \in Seq(Items) /\ (todo # <<>> => Plain(Tail(todo)))
  BY <1>1 DEF IInv, TodoSound, ChainSound
<1>3. \A x : ~Dying(x)
  BY <1>1 DEF NoDeletion, Dying
<1> QED
  BY <1>1, <1>2, <1>3, AimNow

\* The steps of the CPU, of the ready queue, of the ticks and of the first part
\* of krhino_task_pri_change.
LEMMA QuietInherit ==
    ASSUME InheritIInv, MutexKept, PhaseKept \/ UNCHANGED <<task_state, blk_obj>>,
           UNCHANGED <<prio, b_prio>>, ~Doing("pri_change"),
           \/ todo' = todo
           \/ todo # <<>> /\ todo' = Tail(todo) /\ Head(todo).op # "del_waiters"
           \/ /\ todo = <<>>
              /\ \E it : todo' = <<it>> /\ it.op \notin {"pri_change", "del_waiters"}
    PROVE  Kept
<1>1. todo \in Seq(Items) /\ Plain(todo) /\ (todo # <<>> => Plain(Tail(todo)))
  BY InheritParts
<1>2. /\ \A x \in Tasks, t \in Tasks : Presses(x, t)' <=> Presses(x, t)
      /\ \A t \in Tasks : Created(t)' <=> Created(t)
  BY PressesKept
<1>3. CASE todo' = todo
  <2>1. ~Doing("pri_change")'
    BY <1>3 DEF Doing
  <2> QED
    BY <1>1, <1>2, <1>3, <2>1, SameInherit DEF Kept
<1>4. CASE todo # <<>> /\ todo' = Tail(todo) /\ Head(todo).op # "del_waiters"
  <2>1. PICK td : td = Tail(todo)
    OBVIOUS
  <2>2. td \in Seq(Items) /\ Plain(td) /\ Dels(td) = Dels(todo)
    BY <1>1, <1>4, <2>1, TailSeq, PlainRest
  <2>3. td # <<>> => Head(td).op # "pri_change" /\ Plain(Tail(td))
    BY <2>2, PlainRest
  <2>4. todo' = td
    BY <1>4, <2>1
  <2>5. ~Doing("pri_change")' /\ (todo' # <<>> => Plain(Tail(todo')))
    BY <2>3, <2>4 DEF Doing
  <2> QED
    BY <1>2, <2>2, <2>4, <2>5, SameInherit DEF Kept
<1>5. ASSUME todo = <<>>, NEW it, todo' = <<it>>, it.op \notin {"pri_change", "del_waiters"}
      PROVE  Kept
  <2>1. Head(<<it>>) = it /\ Tail(<<it>>) = <<>> /\ Plain(<<>>) /\ Dels(<<it>>) = {} /\ Dels(<<>>) = {}
    BY <1>5, FewWork
  <2>2. ~Doing("pri_change")' /\ (todo' # <<>> => Plain(Tail(todo')))
    BY <1>5, <2>1 DEF Doing
  <2> QED
    BY <1>2, <1>5, <2>1, <2>2, SameInherit DEF Kept
<1> QED
  BY <1>3, <1>4, <1>5

\* The steps of the CPU, and the calls that only change the ready queue.
LEMMA CpuInherit ==
    ASSUME InheritIInv,
           \/ CoreSched \/ PendSV \/ IdleLoop \/ IntrptEnter \/ TickEnter \/ IntrptExit
           \/ TimeSliceUpdate \/ SchedDisable \/ SchedEnable
    PROVE  Kept
<1>1. MutexKept /\ PhaseKept
  BY CpuSteps, InheritParts
<1>2. todo = <<>> /\ todo' = todo /\ UNCHANGED <<prio, b_prio>>
  BY DEF CoreSched, PendSV, IdleLoop, IntrptEnter, TickEnter, IntrptExit, TimeSliceUpdate,
         SchedDisable, SchedEnable, dataVars, ctlVars, vars, InTask, Calling, InTickIsr
<1>3. ~Doing("pri_change")
  BY <1>2 DEF Doing
<1> QED
  BY <1>1, <1>2, <1>3, QuietInherit

\* The same for the calls.
LEMMA QueueInherit ==
    ASSUME InheritIInv, NEW t \in Tasks,
           \/ TaskYield \/ TaskSuspend(t) \/ TaskResume(t)
           \/ \E s \in TimeSlices : TaskTimeSliceSet(t, s)
           \/ \E policy \in {"KSCHED_FIFO", "KSCHED_RR"} : SchedPolicySet(t, policy)
    PROVE  Kept
<1>1. MutexKept /\ PhaseKept
  BY QueueSteps, InheritParts
<1>2. todo = <<>> /\ todo' = todo /\ UNCHANGED <<prio, b_prio>>
  BY DEF TaskYield, TaskSuspend, TaskResume, TaskTimeSliceSet, SchedPolicySet, ctlVars,
         Calling, InTask, InIsr
<1>3. ~Doing("pri_change")
  BY <1>2 DEF Doing
<1> QED
  BY <1>1, <1>2, <1>3, QuietInherit

\* The same for the rounds of sections that are not about mutexes, and for the
\* check before krhino_task_pri_change.
LEMMA RoundInherit ==
    ASSUME InheritIInv, IInv',
           \/ CancelCoreSched \/ TickProc
           \/ \E t \in Tasks, p \in NewPris : TaskPriChangeCheck(t, p)
    PROVE  Kept
<1>1. CASE CancelCoreSched
  <2>1. MutexKept /\ PhaseKept
    BY <1>1, RoundSteps, InheritParts
  <2>2. /\ todo # <<>> /\ todo' = Tail(todo) /\ Head(todo).op = "core_sched"
        /\ UNCHANGED <<prio, b_prio>>
    BY <1>1 DEF CancelCoreSched, Doing, dataVars
  <2>3. ~Doing("pri_change")
    BY <2>2 DEF Doing
  <2> QED
    BY <2>1, <2>2, <2>3, QuietInherit
<1>2. CASE TickProc
  <2>1. MutexKept /\ PhaseKept
    BY <1>2, RoundSteps, InheritParts
  <2>2. PICK it : it = Item("tick", NULL, NULL, 0)
    OBVIOUS
  <2>3. todo = <<>> /\ todo' = <<it>> /\ it.op = "tick" /\ UNCHANGED <<prio, b_prio>>
    BY <1>2, <2>2 DEF TickProc, InTickIsr, Item
  <2>4. ~Doing("pri_change")
    BY <2>3 DEF Doing
  <2> QED
    BY <2>1, <2>3, <2>4, QuietInherit
<1>3. ASSUME NEW t \in Tasks, NEW p \in NewPris, TaskPriChangeCheck(t, p) PROVE Kept
  <2>1. MutexKept
    BY <1>3, PriCallSteps, InheritParts
  <2>2. todo = <<>> /\ todo' = todo /\ UNCHANGED <<prio, b_prio, task_state, blk_obj>>
    BY <1>3 DEF TaskPriChangeCheck, Calling, InTask, dataVars, waitVars
  <2>3. ~Doing("pri_change")
    BY <2>2 DEF Doing
  <2> QED
    BY <2>1, <2>2, <2>3, QuietInherit
<1> QED
  BY <1>1, <1>2, <1>3

\* Who presses whom is the same when nobody gets or gives back a mutex or
\* begins or ends to wait for one.
LEMMA PressesSame ==
    ASSUME UNCHANGED <<mutex_task, alive, blk_obj, todo, active>>,
           \A x \in Tasks : task_state'[x] \in Pending <=> task_state[x] \in Pending
    PROVE  \A x \in Tasks : \A t : Presses(x, t)' <=> Presses(x, t)
<1>1. \A t, m : Owns(t, m)' <=> Owns(t, m)
  BY DEF Owns, GivenBack
<1>2. \A x \in Tasks : \A m : Waiting(x, m)' <=> Waiting(x, m)
  BY DEF Waiting
<1>3. \A x, m : Entering(x, m)' <=> Entering(x, m)
  BY DEF Entering
<1> QED
  BY <1>1, <1>2, <1>3 DEF Presses

\* The calls that change counts, the return from a wait, and a sleep.
LEMMA CountInherit ==
    ASSUME InheritIInv,
           \/ PendStateEndProc
           \/ \E m \in Mutexes : MutexLockNested(m) \/ MutexUnlockNested(m)
           \/ \E ticks \in Waits : TaskSleep(ticks)
    PROVE  Kept
<1>1. /\ todo = <<>> /\ todo' = todo
      /\ UNCHANGED <<prio, b_prio, mutex_task, alive, blk_obj, active>>
  BY DEF PendStateEndProc, MutexLockNested, MutexUnlockNested, TaskSleep, Calling, InTask,
         waitVars, mutexVars, cpuVars, ctlVars
<1>2. \A x \in Tasks : /\ task_state'[x] \in Pending <=> task_state[x] \in Pending
                       /\ Created(x)' => Created(x)
  <2>1. CASE UNCHANGED task_state
    BY <2>1 DEF Created
  <2>2. ASSUME NEW ticks \in Waits, TaskSleep(ticks)
        PROVE  \A x \in Tasks : /\ task_state'[x] \in Pending <=> task_state[x] \in Pending
                                /\ Created(x)' => Created(x)
    <3>1. Calling("task_sleep") /\ task_state' = [task_state EXCEPT ![active] = "K_SLEEP"]
      BY <2>2 DEF TaskSleep
    <3>2. task_state[active] = "K_RDY" /\ active \in Tasks /\ task_state \in [Tasks -> TaskStates]
      BY <3>1, Caller, InheritParts, PriTypes
    <3> QED
      BY <3>1, <3>2 DEF Created, Pending
  <2> QED
    BY <2>1, <2>2 DEF PendStateEndProc, MutexLockNested, MutexUnlockNested
<1>3. \A x \in Tasks : \A t : Presses(x, t)' <=> Presses(x, t)
  BY <1>1, <1>2, PressesSame
<1>4. ~Doing("pri_change") /\ ~Doing("pri_change")'
  BY <1>1 DEF Doing
<1> QED
  BY <1>1, <1>2, <1>3, <1>4, SameInherit DEF Kept

\* A mutex is created, or a free one is taken: nobody waits for it.
LEMMA TakeInherit ==
    ASSUME InheritIInv, NEW m \in Mutexes, MutexCreate(m) \/ MutexLockFree(m)
    PROVE  Kept
<1>1. /\ todo = <<>> /\ todo' = todo
      /\ UNCHANGED <<prio, b_prio, blk_obj, active, task_state>>
  BY DEF MutexCreate, MutexLockFree, Calling, InTask, waitVars, cpuVars, ctlVars
<1>2. mutex_task \in [Mutexes -> Tasks \cup {NULL}] /\ NULL \notin Tasks
  BY InheritParts, PriTypes, Constants
<1>3. /\ \A t, y : Owns(t, y) <=> y \in alive /\ mutex_task[y] = t
      /\ \A t, y : Owns(t, y)' <=> y \in alive' /\ mutex_task'[y] = t
  <2>1. Marks(todo) = {} /\ Marks(todo') = {}
    BY <1>1, MarksFew
  <2> QED
    BY <2>1, NoMarks, NoMarksNext
<1>4. \A x \in Tasks : \A y \in Mutexes : /\ Waiting(x, y)' <=> Waiting(x, y)
                                          /\ ~Entering(x, y)' /\ ~Entering(x, y)
  BY <1>1, MarksFew DEF Waiting, Entering
<1>5. \A t \in Tasks, y \in Mutexes : y # m => (Owns(t, y)' <=> Owns(t, y))
  <2>1. CASE MutexCreate(m)
    BY <1>2, <1>3, <2>1 DEF MutexCreate
  <2>2. CASE MutexLockFree(m)
    BY <1>2, <1>3, <2>2 DEF MutexLockFree
  <2> QED
    BY <2>1, <2>2
<1>6. \A x \in Tasks, t \in Tasks : ~(Owns(t, m) /\ Waiting(x, m)) /\ ~(Owns(t, m)' /\ Waiting(x, m))
  <2>1. CASE MutexCreate(m)
    BY <1>2, <1>3, <2>1 DEF MutexCreate
  <2>2. CASE MutexLockFree(m)
    <3>1. m \in alive /\ mutex_task[m] = NULL
      BY <2>2 DEF MutexLockFree
    <3>2. \A x \in Tasks : ~Waiting(x, m)
      BY <3>1, InheritParts DEF Waiting, IInv, PendSound
    <3> QED
      BY <3>2
  <2> QED
    BY <2>1, <2>2
<1>7. \A x \in Tasks, t \in Tasks : Presses(x, t)' <=> Presses(x, t)
  BY <1>4, <1>5, <1>6 DEF Presses
<1>8. ~Doing("pri_change") /\ ~Doing("pri_change")'
  BY <1>1 DEF Doing
<1>9. \A t \in Tasks : Created(t)' => Created(t)
  BY <1>1 DEF Created
<1> QED
  BY <1>1, <1>7, <1>8, <1>9, SameInherit DEF Kept

\* The caller of krhino_mutex_lock, whose priority the owner has already, waits.
LEMMA PendInherit == ASSUME InheritIInv, MutexLockPend PROVE Kept
<1>1. PICK it : it = Head(todo)
  OBVIOUS
<1>2. /\ todo # <<>> /\ it.op = "lock_pend" /\ it.obj \in Mutexes /\ Tail(todo) = <<>>
      /\ todo \in Seq(Items) /\ Marks(todo) = {it} /\ todo' = Tail(todo)
  <2>1. todo # <<>> /\ it.op = "lock_pend" /\ todo' = Tail(todo)
    BY <1>1 DEF MutexLockPend, Doing
  <2>2. IInv
    BY InheritParts
  <2>3. it.obj \in Mutexes /\ Tail(todo) = <<>> /\ Marks(todo) = Marks(<<>>) \cup {it}
    BY <1>1, <2>1, <2>2, MarksHead DEF WorkItem, MarkOps
  <2> QED
    BY <2>1, <2>3, MarksFew, InheritParts
<1>3. PICK m \in Mutexes : m = it.obj
  BY <1>2
<1>4. /\ task_state' = [task_state EXCEPT ![active] = "K_PEND"]
      /\ blk_obj' = [blk_obj EXCEPT ![active] = m]
      /\ UNCHANGED <<prio, b_prio, alive, mutex_task, active>>
  BY <1>1, <1>3 DEF MutexLockPend, PendToBlkObj, mutexVars, cpuVars
<1>5. /\ active \in Tasks /\ task_state \in [Tasks -> TaskStates]
      /\ blk_obj \in [Tasks -> Objs \cup {NULL}]
  BY InheritParts DEF IInv, FieldsOK
<1>6. task_state[active] = "K_RDY"
  <2>1. ItemSound(it) /\ CpuSound
    <3>1. it \in ToSet(todo)
      BY <1>2 DEF Marks
    <3> QED
      BY <3>1, InheritParts DEF IInv, TodoSound
  <2> QED
    BY <1>2, <2>1 DEF ItemSound, CpuSound
<1>7. Marks(todo') = {} /\ todo' = <<>>
  BY <1>2, MarksFew
<1>8. \A t, y : Owns(t, y)' <=> Owns(t, y)
  BY <1>2, <1>4, <1>7, NoMarks, NoMarksNext
<1>9. \A x \in Tasks : \A y \in Mutexes : /\ Waiting(x, y)' <=> Waiting(x, y) \/ Entering(x, y)
                                          /\ ~Entering(x, y)'
  <2>1. \A x : \A y : Entering(x, y) <=> x = active /\ y = m
    BY <1>2, <1>3 DEF Entering
  <2>2. \A x \in Tasks : x # active => \A y : Waiting(x, y)' <=> Waiting(x, y)
    BY <1>4, <1>5 DEF Waiting
  <2>3. \A y : (Waiting(active, y)' <=> y = m) /\ ~Waiting(active, y)
    BY <1>4, <1>5, <1>6 DEF Waiting, Pending
  <2>4. \A x, y : ~Entering(x, y)'
    BY <1>7 DEF Entering
  <2>5. \A x \in Tasks : \A y \in Mutexes : Waiting(x, y)' <=> Waiting(x, y) \/ Entering(x, y)
    <3> SUFFICES ASSUME NEW x \in Tasks, NEW y \in Mutexes
                 PROVE  Waiting(x, y)' <=> Waiting(x, y) \/ Entering(x, y)
      OBVIOUS
    <3>1. CASE x = active
      BY <1>4, <2>1, <2>3, <3>1 DEF Waiting
    <3>2. CASE x # active
      BY <2>1, <2>2, <3>2
    <3> QED
      BY <3>1, <3>2
  <2> QED
    BY <2>4, <2>5
<1>10. \A x \in Tasks, t \in Tasks : Presses(x, t)' <=> Presses(x, t)
  BY <1>8, <1>9 DEF Presses
<1>11. ~Doing("pri_change") /\ ~Doing("pri_change")'
  BY <1>1, <1>2, <1>7 DEF Doing
<1>12. \A t \in Tasks : Created(t)' => Created(t)
  BY <1>4, <1>5, <1>6 DEF Created
<1>13. Dels(todo') = Dels(todo)
  BY <1>1, <1>2, PlainRest
<1> QED
  BY <1>4, <1>7, <1>10, <1>11, <1>12, <1>13, SameInherit DEF Kept

\* krhino_mutex_unlock frees the mutex, or hands it over to its first waiter:
\* who is the best of all the waiters, so that the others change nothing.
LEMMA HandInherit == ASSUME InheritIInv, IInv', MutexHandOver PROVE Kept
<1>1. PICK it : it = Head(todo)
  OBVIOUS
<1>2. /\ todo # <<>> /\ it.op = "hand_over" /\ it.obj \in Mutexes /\ Tail(todo) = <<>>
      /\ todo \in Seq(Items) /\ Marks(todo) = {it} /\ todo' = Tail(todo)
  <2>1. todo # <<>> /\ it.op = "hand_over" /\ todo' = Tail(todo)
    BY <1>1 DEF MutexHandOver, Doing
  <2>2. IInv
    BY InheritParts
  <2>3. it.obj \in Mutexes /\ Tail(todo) = <<>> /\ Marks(todo) = Marks(<<>>) \cup {it}
    BY <1>1, <2>1, <2>2, MarksHead DEF WorkItem, MarkOps
  <2> QED
    BY <2>1, <2>3, MarksFew, InheritParts
<1>3. PICK m \in Mutexes : m = it.obj
  BY <1>2
<1>4. Marks(todo') = {} /\ todo' = <<>> /\ UNCHANGED <<prio, b_prio, alive, active>>
  BY <1>2, MarksFew DEF MutexHandOver, cpuVars
<1>5. /\ \A x, y : ~Entering(x, y) /\ ~Entering(x, y)'
      /\ \A x, y : Owns(x, y) <=> y \in alive /\ mutex_task[y] = x /\ y # m
      /\ \A x, y : Owns(x, y)' <=> y \in alive' /\ mutex_task'[y] = x
  <2>1. \A x, y : ~Entering(x, y) /\ ~Entering(x, y)'
    BY <1>2, <1>4 DEF Entering
  <2>2. \A y : GivenBack(y) <=> y = m
    BY <1>2, <1>3 DEF GivenBack
  <2> QED
    BY <1>4, <2>1, <2>2, NoMarksNext DEF Owns
<1>6. /\ mutex_task \in [Mutexes -> Tasks \cup {NULL}] /\ NULL \notin Tasks /\ m \in Objs
      /\ task_state \in [Tasks -> TaskStates] /\ blk_obj \in [Tasks -> Objs \cup {NULL}]
      /\ prio \in [Tasks -> Pris] /\ Pris \subseteq Int /\ blk_list \in [Objs -> Seq(Tasks)]
  BY InheritParts, PriTypes, Constants DEF IInv, FieldsOK
<1>7. ~Doing("pri_change") /\ ~Doing("pri_change")' /\ Dels(todo') = Dels(todo)
  BY <1>1, <1>2, <1>4, PlainRest DEF Doing
<1>8. CASE blk_list[m] = <<>>
  <2>1. mutex_task' = [mutex_task EXCEPT ![m] = NULL] /\ UNCHANGED <<task_state, blk_obj>>
    BY <1>1, <1>3, <1>8 DEF MutexHandOver, waitVars
  <2>2. \A x \in Tasks, y \in Mutexes : Owns(x, y)' <=> Owns(x, y)
    BY <1>4, <1>5, <1>6, <2>1
  <2>3. \A x, y : Waiting(x, y)' <=> Waiting(x, y)
    BY <2>1 DEF Waiting
  <2>4. \A x \in Tasks, t \in Tasks : Presses(x, t)' <=> Presses(x, t)
    BY <1>5, <2>2, <2>3 DEF Presses
  <2>5. \A t \in Tasks : Created(t)' => Created(t)
    BY <2>1 DEF Created
  <2> QED
    BY <1>4, <1>7, <2>4, <2>5, SameInherit DEF Kept
<1>9. CASE blk_list[m] # <<>>
  <2>1. PICK w \in Tasks : /\ w = Head(blk_list[m]) /\ task_state[w] \in Pending
                           /\ blk_obj[w] = m
    BY <1>6, <1>9, BlkHead, InheritParts DEF IInv
  <2>2. PendTaskWakeup(w, "BLK_FINISH") /\ mutex_task' = [mutex_task EXCEPT ![m] = w]
    BY <1>1, <1>3, <1>9, <2>1 DEF MutexHandOver
  <2>3. /\ task_state'[w] \in {"K_RDY", "K_SUSPENDED"}
        /\ \A x \in Tasks : x # w => task_state'[x] = task_state[x] /\ blk_obj'[x] = blk_obj[x]
    BY <1>6, <2>2 DEF PendTaskWakeup, LeaveWait
  <2>4. \A x \in Tasks, y \in Mutexes : Owns(x, y)' <=> Owns(x, y) \/ (y = m /\ x = w /\ m \in alive)
    BY <1>4, <1>5, <1>6, <2>2
  <2>5. /\ \A x \in Tasks : x # w => \A y : Waiting(x, y)' <=> Waiting(x, y)
        /\ \A y : ~Waiting(w, y)'
        /\ \A y : Waiting(w, y) => y = m
    <3>1. \A x \in Tasks : x # w => \A y : Waiting(x, y)' <=> Waiting(x, y)
      BY <2>3 DEF Waiting
    <3>2. task_state'[w] \notin Pending
      BY <2>3 DEF Pending
    <3> QED
      BY <2>1, <3>1, <3>2 DEF Waiting
  <2>6. \A t \in Tasks : ~Owns(t, m)
    BY <1>5
  <2>7. \A x \in Tasks, t \in Tasks : t # w => (Presses(x, t)' <=> Presses(x, t))
    <3> SUFFICES ASSUME NEW x \in Tasks, NEW t \in Tasks, t # w
                 PROVE  Presses(x, t)' <=> Presses(x, t)
      OBVIOUS
    <3>1. \A y \in Mutexes : Owns(t, y)' <=> Owns(t, y)
      BY <2>4
    <3>2. \A y \in Mutexes : y # m => (Waiting(x, y)' <=> Waiting(x, y))
      BY <2>5
    <3> QED
      BY <1>5, <2>6, <3>1, <3>2 DEF Presses
  <2>8. \A x \in Tasks : Presses(x, w)' => Presses(x, w) \/ (Waiting(x, m) /\ x # w)
    BY <1>5, <2>4, <2>5 DEF Presses
  <2>9. \A x \in Tasks : Presses(x, w) => Presses(x, w)'
    <3> SUFFICES ASSUME NEW x \in Tasks, Presses(x, w) PROVE Presses(x, w)'
      OBVIOUS
    <3>1. PICK y \in Mutexes : Owns(w, y) /\ Waiting(x, y)
      BY <1>5 DEF Presses
    <3>2. y # m
      BY <2>6, <3>1
    <3>3. Owns(w, y)' /\ Waiting(x, y)'
      BY <2>4, <2>5, <3>1, <3>2
    <3> QED
      BY <3>3 DEF Presses
  <2>10. \A x \in Tasks : Waiting(x, m) => prio[w] <= prio[x]
    <3>1. Ordered(blk_list[m], prio) /\ blk_list[m] \in Seq(Tasks)
      BY <1>6, InheritParts DEF WaitIInv, Sorted
    <3>2. prio \in [Tasks -> Int]
      BY <1>6
    <3>3. \A x \in ToSet(blk_list[m]) : prio[w] <= prio[x]
      BY <1>9, <2>1, <3>1, <3>2, HeadBest
    <3>4. \A x \in Tasks : Waiting(x, m) => x \in ToSet(blk_list[m])
      BY <1>6, InheritParts DEF IInv, BlkExact, Waiting
    <3> QED
      BY <3>3, <3>4
  <2>11. \A t \in Tasks : Created(t)' <=> Created(t)
    BY <2>1, <2>3 DEF Created, Pending
  <2>12. ASSUME NEW t \in Tasks, Created(t)' PROVE Fits(t, Aim(t))'
    <3>1. PICK p : p = prio[t]
      OBVIOUS
    <3>2. Fits(t, p)
      BY <1>7, <2>11, <2>12, <3>1, InheritParts DEF Inherited
    <3>3. p = Aim(t)'
      BY <1>4, <1>7, <3>1 DEF Aim
    <3>4. Fits(t, p)'
      <4>1. CASE t # w
        BY <1>4, <2>7, <3>2, <4>1, FitsMove
      <4>2. CASE t = w
        BY <1>4, <2>8, <2>9, <2>10, <3>1, <3>2, <4>2, FitsMove
      <4> QED
        BY <4>1, <4>2
    <3> QED
      BY <3>3, <3>4, FitsAim
  <2>13. Inherited'
    BY <2>12 DEF Inherited
  <2>14. ChainSound'
    BY <1>4, <1>7 DEF ChainSound
  <2> QED
    BY <1>7, <2>13, <2>14 DEF Kept
<1> QED
  BY <1>8, <1>9

\* A step after which only the priority due to o may have changed, and which
\* goes on to give it to o: mutex_release and krhino_task_pri_change.
LEMMA LookInherit ==
    ASSUME InheritIInv, WaitIInv', CountIInv', ~Doing("pri_change"), UNCHANGED prio,
           NEW o \in Tasks, \A x \in Tasks : x # o => b_prio'[x] = b_prio[x],
           NEW p, p = PriLook(b_prio'[o], ToSet(mutex_list'[o]), blk_list', prio'),
           NEW r \in PriWork,
           \/ r = <<Item("pri_change", o, NULL, p)>>
           \/ r = <<>> /\ p = prio[o],
           NEW td \in Seq(Items), Plain(td), todo' = r \o td,
           \A it \in Marks(todo') :
              /\ it.op # "lock_pend"
              /\ it.op = "hand_over" => o = active' /\ task_state'[o] = "K_RDY",
           \A t \in Tasks : Created(t)' => Created(t),
           \A x \in Tasks, t \in Tasks : t # o => (Presses(x, t)' <=> Presses(x, t))
    PROVE  ChainSound' /\ Inherited' /\ Dels(todo') = Dels(td)
<1>1. /\ Dels(todo') = Dels(td) /\ (todo' # <<>> => Plain(Tail(todo')))
      /\ r = <<>> => todo' = td
      /\ r = <<Item("pri_change", o, NULL, p)>> =>
            /\ todo' # <<>> /\ Head(todo').op = "pri_change"
            /\ Head(todo').task = o /\ Head(todo').arg = p
  BY Push
<1>2. td # <<>> => Head(td).op # "pri_change"
  BY PlainRest
<1>3. ASSUME NEW t \in Tasks PROVE Aim(t)' = IF t = o THEN p ELSE prio[t]
  BY <1>1, <1>2 DEF Aim, Doing
<1>4. ASSUME NEW t \in Tasks, Created(t)' PROVE Fits(t, Aim(t))'
  <2>1. CASE t = o
    <3>1. Fits(o, p)'
      BY <1>4, <2>1, LookFits
    <3> QED
      BY <1>3, <2>1, <3>1, FitsAim
  <2>2. CASE t # o
    <3>1. PICK q : q = prio[t]
      OBVIOUS
    <3>2. Fits(t, q)
      BY <1>4, <3>1, InheritParts DEF Inherited
    <3>3. Fits(t, q)'
      BY <2>2, <3>2, FitsMove
    <3>4. q = Aim(t)'
      BY <1>3, <2>2, <3>1
    <3> QED
      BY <3>3, <3>4, FitsAim
  <2> QED
    BY <2>1, <2>2
<1>5. Inherited'
  BY <1>4 DEF Inherited
<1>6. ChainSound'
  <2>1. CASE r = <<>>
    <3>1. ~Doing("pri_change")'
      BY <1>1, <1>2, <2>1 DEF Doing
    <3> QED
      BY <1>1, <3>1 DEF ChainSound
  <2>2. CASE r = <<Item("pri_change", o, NULL, p)>>
    BY <1>1, <2>2 DEF ChainSound
  <2> QED
    BY <2>1, <2>2
<1> QED
  BY <1>1, <1>5, <1>6

\* The last krhino_mutex_unlock takes the mutex off the list of the caller.
LEMMA UnlockInherit ==
    ASSUME InheritIInv, WaitIInv', CountIInv', NEW m \in Mutexes, MutexUnlock(m)
    PROVE  Kept
<1> DEFINE it == Item("hand_over", active, m, 0)
           p == PriLook(b_prio[active], ToSet(mutex_list'[active]), blk_list, prio)
           r == MutexRelease(active, ToSet(mutex_list'[active]), blk_list)
<1>1. /\ Calling("mutex_unlock") /\ mutex_task[m] = active
      /\ mutex_list' = [mutex_list EXCEPT ![active] = RemoveFirst(@, m)]
      /\ todo' = r \o <<it>>
      /\ UNCHANGED <<prio, b_prio, blk_list, blk_obj, task_state, alive, mutex_task, active>>
  BY DEF MutexUnlock, waitVars, cpuVars
<1>2. /\ active \in AppTasks /\ active \in Tasks /\ task_state[active] = "K_RDY" /\ todo = <<>>
      /\ Marks(todo) = {}
  BY <1>1, CallerMutex, InheritParts DEF AppTasks
<1>3. PICK h : h.op = "hand_over" /\ h.obj = m /\ Marks(todo') = {h}
  BY UnlockMarks, InheritParts
<1>4. r \in PriWork
  <2>1. mutex_list \in [Tasks -> Seq(Mutexes)]
    BY InheritParts, PriTypes
  <2>2. mutex_list'[active] = RemoveFirst(mutex_list[active], m)
    BY <1>1, <1>2, <2>1
  <2>3. ToSet(mutex_list'[active]) \subseteq Objs
    BY <1>2, <2>1, <2>2, ReleasedList
  <2>4. /\ blk_list \in [Objs -> Seq(Tasks)]
        /\ \A x \in Objs : IdleTask \notin ToSet(blk_list[x])
    BY WaitersNotIdle, InheritParts
  <2>5. FieldsOK /\ IdleSound
    BY InheritParts DEF IInv
  <2> QED
    BY <1>2, <2>3, <2>4, <2>5, ReleaseWork
<1>5. r = IF p = prio[active] THEN <<>> ELSE <<Item("pri_change", active, NULL, p)>>
  BY DEF MutexRelease
<1>6. p = PriLook(b_prio'[active], ToSet(mutex_list'[active]), blk_list', prio')
  BY <1>1
<1>7. it.op = "hand_over" /\ it \in Items /\ <<it>> \in Seq(Items)
  BY <1>2 DEF Item, Items, Ops, Objs
<1> HIDE DEF it, r, p
<1>8. Plain(<<it>>) /\ Dels(<<it>>) = {} /\ Dels(todo) = {}
  BY <1>2, <1>7, FewWork
<1>9. \A x \in Tasks, t \in Tasks : t # active => (Presses(x, t)' <=> Presses(x, t))
  <2>1. \A y : GivenBack(y)' <=> y = m
    BY <1>3 DEF GivenBack
  <2>2. \A y : ~GivenBack(y)
    BY <1>2 DEF GivenBack
  <2>3. \A t, y : t # active => (Owns(t, y)' <=> Owns(t, y))
    BY <1>1, <2>1, <2>2 DEF Owns
  <2>4. \A x, y : Waiting(x, y)' <=> Waiting(x, y)
    BY <1>1 DEF Waiting
  <2>5. \A x, y : ~Entering(x, y)' /\ ~Entering(x, y)
    BY <1>2, <1>3 DEF Entering
  <2> QED
    BY <2>3, <2>4, <2>5 DEF Presses
<1>10. ~Doing("pri_change")
  BY <1>2 DEF Doing
<1>11. \A t \in Tasks : Created(t)' => Created(t)
  BY <1>1 DEF Created
<1>12. \A y \in Marks(todo') : /\ y.op # "lock_pend"
                               /\ y.op = "hand_over" => active = active' /\ task_state'[active] = "K_RDY"
  BY <1>1, <1>2, <1>3
<1>13. /\ \A x \in Tasks : x # active => b_prio'[x] = b_prio[x]
       /\ UNCHANGED prio /\ todo' = r \o <<it>>
       /\ r = <<Item("pri_change", active, NULL, p)>> \/ (r = <<>> /\ p = prio[active])
  BY <1>1, <1>5
<1>14. ChainSound' /\ Inherited' /\ Dels(todo') = Dels(<<it>>)
  BY <1>2, <1>4, <1>6, <1>7, <1>8, <1>9, <1>10, <1>11, <1>12, <1>13, LookInherit, Zenon
<1> QED
  BY <1>8, <1>14 DEF Kept

\* krhino_mutex_del: the owner gives back what the waiters gave it.
LEMMA DelInherit ==
    ASSUME InheritIInv, WaitIInv', CountIInv', NEW m \in Mutexes, MutexDel(m)
    PROVE  ChainSound' /\ Inherited' /\ DeadSound'
<1> DEFINE it == Item("del_waiters", NULL, m, 0)
<1>1. /\ Calling("mutex_del") /\ alive' = alive \ {m} /\ m \in alive
      /\ UNCHANGED <<prio, b_prio, blk_list, blk_obj, task_state, mutex_task, active>>
  BY DEF MutexDel, waitVars, cpuVars
<1>2. todo = <<>> /\ Marks(todo) = {} /\ Marks(todo') = {}
  BY <1>1, CallerMutex, DelMarks, InheritParts
<1>3. it.op = "del_waiters" /\ it.obj = m /\ it \in Items /\ <<it>> \in Seq(Items)
  BY DEF Item, Items, Ops, Objs
<1>4. Plain(<<it>>) /\ Dels(<<it>>) = {it} /\ Dels(todo) = {} /\ Tail(<<it>>) = <<>>
      /\ Head(<<it>>) = it /\ <<it>> # <<>> /\ Plain(<<>>)
  BY <1>2, <1>3, FewWork
<1>5. mutex_task \in [Mutexes -> Tasks \cup {NULL}] /\ mutex_list \in [Tasks -> Seq(Mutexes)]
      /\ NULL \notin Tasks
  BY InheritParts, PriTypes, Constants
<1>6. ~Doing("pri_change")
  BY <1>2 DEF Doing
<1>7. \A t \in Tasks : Created(t)' => Created(t)
  BY <1>1 DEF Created
<1>8. \A x \in Tasks, t \in Tasks : t # mutex_task[m] => (Presses(x, t)' <=> Presses(x, t))
  <2>1. /\ \A t, y : Owns(t, y)' <=> y \in alive' /\ mutex_task'[y] = t
        /\ \A t, y : Owns(t, y) <=> y \in alive /\ mutex_task[y] = t
    BY <1>2, NoMarks, NoMarksNext
  <2>2. \A t \in Tasks, y \in Mutexes : t # mutex_task[m] => (Owns(t, y)' <=> Owns(t, y))
    BY <1>1, <2>1
  <2>3. \A x, y : Waiting(x, y)' <=> Waiting(x, y)
    BY <1>1 DEF Waiting
  <2>4. \A x, y : ~Entering(x, y)' /\ ~Entering(x, y)
    BY <1>2 DEF Entering
  <2> QED
    BY <2>2, <2>3, <2>4 DEF Presses
<1>9. ChainSound' /\ Inherited' /\ Dels(todo') = {it}
  <2>1. CASE mutex_task[m] = NULL
    <3>1. todo' = <<it>>
      BY <2>1 DEF MutexDel
    <3> HIDE DEF it
    <3>2. ~Doing("pri_change")' /\ (todo' # <<>> => Plain(Tail(todo')))
      BY <1>3, <1>4, <3>1 DEF Doing
    <3>3. \A x \in Tasks, t \in Tasks : Presses(x, t)' <=> Presses(x, t)
      BY <1>5, <1>8, <2>1
    <3>4. ChainSound' /\ Inherited'
      BY <1>1, <1>6, <1>7, <3>2, <3>3, SameInherit
    <3> QED
      BY <1>4, <3>1, <3>4
  <2>2. CASE mutex_task[m] # NULL
    <3>1. PICK o \in Tasks : o = mutex_task[m]
      BY <1>5, <2>2
    <3>2. o \in AppTasks
      BY <3>1, InheritParts DEF IInv, PendSound, AppTasks
    <3> DEFINE p == PriLook(b_prio[o], ToSet(mutex_list'[o]), blk_list, prio)
               r == MutexRelease(o, ToSet(mutex_list'[o]), blk_list)
    <3>3. mutex_list' = [mutex_list EXCEPT ![o] = RemoveFirst(@, m)] /\ todo' = r \o <<it>>
      BY <2>2, <3>1 DEF MutexDel
    <3>4. r \in PriWork
      <4>1. mutex_list'[o] = RemoveFirst(mutex_list[o], m)
        BY <1>5, <3>3
      <4>2. ToSet(mutex_list'[o]) \subseteq Objs
        BY <1>5, <4>1, ReleasedList
      <4>3. /\ blk_list \in [Objs -> Seq(Tasks)]
            /\ \A x \in Objs : IdleTask \notin ToSet(blk_list[x])
        BY WaitersNotIdle, InheritParts
      <4>4. FieldsOK /\ IdleSound
        BY InheritParts DEF IInv
      <4> QED
        BY <3>2, <4>2, <4>3, <4>4, ReleaseWork
    <3>5. r = IF p = prio[o] THEN <<>> ELSE <<Item("pri_change", o, NULL, p)>>
      BY DEF MutexRelease
    <3>6. p = PriLook(b_prio'[o], ToSet(mutex_list'[o]), blk_list', prio')
      BY <1>1
    <3> HIDE DEF it, r, p
    <3>7. \A x \in Tasks, t \in Tasks : t # o => (Presses(x, t)' <=> Presses(x, t))
      BY <1>8, <3>1
    <3>8. ChainSound' /\ Inherited' /\ Dels(todo') = Dels(<<it>>)
      BY <1>1, <1>2, <1>3, <1>4, <1>6, <1>7, <3>3, <3>4, <3>5, <3>6, <3>7, LookInherit
    <3> QED
      BY <1>4, <3>8
  <2> QED
    BY <2>1, <2>2
<1>10. DeadSound'
  <2> HIDE DEF it
  <2>1. \A y \in Dels(todo') : y.obj \notin alive'
    BY <1>1, <1>3, <1>9
  <2>2. ASSUME NEW y \in Mutexes, y \notin alive', NEW t \in Tasks, Waiting(t, y)'
        PROVE  \E x \in Dels(todo') : x.obj = y
    <3>1. Waiting(t, y)
      BY <1>1, <2>2 DEF Waiting
    <3>2. y \in alive
      BY <1>4, <2>2, <3>1, InheritParts DEF DeadSound
    <3>3. y = m
      BY <1>1, <2>2, <3>2
    <3> QED
      BY <1>3, <1>9, <3>3
  <2> QED
    BY <2>1, <2>2 DEF DeadSound
<1> QED
  BY <1>9, <1>10

\* Who waited for the deleted mutex is woken.
LEMMA WakeAllInherit ==
    ASSUME InheritIInv, IInv', DelWaiters
    PROVE  ChainSound' /\ Inherited' /\ DeadSound'
<1>1. PICK it : it = Head(todo)
  OBVIOUS
<1>2. /\ todo # <<>> /\ it.op = "del_waiters" /\ it.obj \in Objs /\ Tail(todo) = <<>>
      /\ todo \in Seq(Items) /\ UNCHANGED <<prio, b_prio, alive, mutex_task>>
  <2>1. todo # <<>> /\ it.op = "del_waiters" /\ UNCHANGED <<prio, b_prio, alive, mutex_task>>
    BY <1>1 DEF DelWaiters, Doing, mutexVars
  <2>2. it.obj \in Objs /\ Tail(todo) = <<>>
    BY <1>1, <2>1, MarksHead, InheritParts DEF WorkItem
  <2> QED
    BY <2>1, <2>2, InheritParts
<1>3. PICK m \in Objs : m = it.obj
  BY <1>2
<1>4. todo = <<it>> /\ Dels(todo) = {it} /\ Dels(<<>>) = {} /\ Plain(<<>>)
  BY <1>1, <1>2, OneElement, FewWork
<1>5. m \notin alive
  BY <1>3, <1>4, InheritParts DEF DeadSound
<1>6. MutexKept /\ CoreKind
  BY EndSteps, DelWaitersKind, InheritParts
<1>7. ~Doing("pri_change")
  BY <1>1, <1>2 DEF Doing
<1>8. /\ \A t, y : Owns(t, y)' <=> Owns(t, y)
      /\ \A x, y : Entering(x, y)' <=> Entering(x, y)
  BY <1>6, KeptFrame DEF MutexKept, Entering
<1>9. CASE blk_list[m] = <<>>
  <2>1. todo' = <<>> /\ UNCHANGED <<task_state, blk_obj>>
    BY <1>1, <1>2, <1>3, <1>9 DEF DelWaiters, waitVars
  <2>2. ~Doing("pri_change")'
    BY <2>1 DEF Doing
  <2>3. \A x, y : Waiting(x, y)' <=> Waiting(x, y)
    BY <2>1 DEF Waiting
  <2>4. \A x \in Tasks, t \in Tasks : Presses(x, t)' <=> Presses(x, t)
    BY <1>8, <2>3 DEF Presses
  <2>5. \A t \in Tasks : Created(t)' => Created(t)
    BY <2>1 DEF Created
  <2>6. ChainSound' /\ Inherited'
    BY <1>2, <1>7, <2>1, <2>2, <2>4, <2>5, SameInherit
  <2>7. DeadSound'
    <3>1. \A t \in Tasks : ~Waiting(t, m)
      BY <1>9, NoWaiter, InheritParts DEF Waiting
    <3>2. \A y \in Mutexes \ alive, t \in Tasks : ~Waiting(t, y)
      BY <1>3, <1>4, <3>1, InheritParts DEF DeadSound
    <3> QED
      BY <1>2, <1>4, <2>1, <2>3, <3>2 DEF DeadSound
  <2> QED
    BY <2>6, <2>7
<1>10. CASE blk_list[m] # <<>>
  <2>1. PICK w \in Tasks : /\ w = Head(blk_list[m]) /\ task_state[w] \in Pending
                           /\ blk_obj[w] = m
    BY <1>10, BlkHead, InheritParts DEF IInv
  <2>2. PendTaskWakeup(w, "BLK_DEL") /\ todo' = todo
    BY <1>1, <1>3, <1>10, <2>1 DEF DelWaiters
  <2>3. task_state \in [Tasks -> TaskStates] /\ blk_obj \in [Tasks -> Objs \cup {NULL}]
    BY InheritParts DEF IInv, FieldsOK
  <2>4. /\ task_state'[w] \in {"K_RDY", "K_SUSPENDED"}
        /\ \A x \in Tasks : x # w => task_state'[x] = task_state[x] /\ blk_obj'[x] = blk_obj[x]
    BY <2>2, <2>3 DEF PendTaskWakeup, LeaveWait
  <2>5. \A x \in Tasks : \A y : y # m => (Waiting(x, y)' <=> Waiting(x, y))
    BY <2>1, <2>4 DEF Waiting, Pending
  <2>6. \A t : ~Owns(t, m)
    BY <1>5 DEF Owns
  <2>7. \A x \in Tasks, t \in Tasks : Presses(x, t)' <=> Presses(x, t)
    BY <1>8, <2>5, <2>6 DEF Presses
  <2>8. ~Doing("pri_change")' /\ (todo' # <<>> => Plain(Tail(todo')))
    BY <1>2, <1>4, <1>7, <2>2 DEF Doing
  <2>9. \A t \in Tasks : Created(t)' => Created(t)
    BY <2>1, <2>4 DEF Created, Pending
  <2>10. ChainSound' /\ Inherited'
    BY <1>2, <1>7, <2>7, <2>8, <2>9, SameInherit
  <2>11. DeadSound'
    BY <1>2, <1>6, <2>2, DeadStep, InheritParts
  <2> QED
    BY <2>10, <2>11
<1> QED
  BY <1>9, <1>10

\* The wait of t ends without success: mutex_task_pri_reset takes back what t
\* gave to the owner of the mutex.
LEMMA ResetInherit ==
    ASSUME InheritIInv, WaitIInv', CountIInv', MutexKept, Marks(todo) = {},
           ~Doing("pri_change"), UNCHANGED <<prio, b_prio>>,
           NEW t \in Tasks, WaitFails(t), task_state[t] \in Pending,
           NEW td \in Seq(Items), Plain(td), todo' = MutexTaskPriReset(t, blk_list') \o td
    PROVE  ChainSound' /\ Inherited' /\ Dels(todo') = Dels(td)
<1>1. /\ UNCHANGED <<mutex_list, mutex_task, alive>> /\ Marks(todo') = {}
      /\ \A x, y : Owns(x, y)' <=> Owns(x, y)
  BY KeptFrame DEF MutexKept
<1>2. \A x, y : ~Entering(x, y)' /\ ~Entering(x, y)
  BY <1>1 DEF Entering
<1>3. /\ \A x \in Tasks : x # t => \A y : Waiting(x, y)' <=> Waiting(x, y)
      /\ \A y : ~Waiting(t, y)'
      /\ \A y : Waiting(t, y) <=> y = blk_obj[t]
  BY DEF WaitFails, Waiting, Pending
<1>4. \A x \in Tasks : Created(x)' <=> Created(x)
  BY DEF WaitFails, Created, Pending
<1>5. \A x \in Tasks, y \in Tasks :
         Presses(x, y)' <=> Presses(x, y) /\ x # t
  <2>1. \A x \in Tasks, y \in Tasks : x # t => (Presses(x, y)' <=> Presses(x, y))
    BY <1>1, <1>2, <1>3 DEF Presses
  <2>2. \A y \in Tasks : ~Presses(t, y)'
    BY <1>2, <1>3 DEF Presses
  <2> QED
    BY <2>1, <2>2
<1>6. \A y \in Tasks : Presses(t, y) => blk_obj[t] \in Mutexes \cap alive /\ mutex_task[blk_obj[t]] = y
  BY <1>2, <1>3 DEF Presses, Owns
<1>7. MutexTaskPriReset(t, blk_list') \in PriWork
  BY ResetIsPri, InheritParts DEF CountIInv, MutexIInv
<1>8. td # <<>> => Head(td).op # "pri_change" /\ Plain(Tail(td))
  BY PlainRest
<1>9. CASE blk_obj[t] \notin Mutexes \cap alive
  <2>1. MutexTaskPriReset(t, blk_list') = <<>>
    BY <1>9 DEF MutexTaskPriReset
  <2>2. todo' = td
    BY <2>1
  <2>3. \A x \in Tasks, y \in Tasks : Presses(x, y)' <=> Presses(x, y)
    BY <1>5, <1>6, <1>9
  <2>4. ~Doing("pri_change")' /\ (todo' # <<>> => Plain(Tail(todo')))
    BY <1>8, <2>2 DEF Doing
  <2> QED
    BY <1>4, <2>2, <2>3, <2>4, SameInherit
<1>10. CASE blk_obj[t] \in Mutexes \cap alive
  <2>1. PICK o \in Tasks : o = mutex_task[blk_obj[t]]
    BY <1>10, InheritParts, PriTypes DEF IInv, PendSound
  <2>2. \A x \in Tasks, y \in Tasks : y # o => (Presses(x, y)' <=> Presses(x, y))
    BY <1>5, <1>6, <2>1
  <2>3. CASE prio[o] = prio[t]
    <3> DEFINE p == PriLook(b_prio[o], ToSet(mutex_list[o]), blk_list', prio)
               r == MutexRelease(o, ToSet(mutex_list[o]), blk_list')
    <3>1. MutexTaskPriReset(t, blk_list') = r
      BY <1>10, <2>1, <2>3 DEF MutexTaskPriReset
    <3>2. r = IF p = prio[o] THEN <<>> ELSE <<Item("pri_change", o, NULL, p)>>
      BY DEF MutexRelease
    <3>3. p = PriLook(b_prio'[o], ToSet(mutex_list'[o]), blk_list', prio')
      BY <1>1
    <3> HIDE DEF r, p
    <3>4. r \in PriWork /\ todo' = r \o td
      BY <1>7, <3>1
    <3> QED
      BY <1>1, <1>4, <2>2, <3>2, <3>3, <3>4, LookInherit
  <2>4. CASE prio[o] # prio[t]
    <3>1. MutexTaskPriReset(t, blk_list') = <<>>
      BY <1>10, <2>1, <2>4 DEF MutexTaskPriReset
    <3>2. todo' = td
      BY <3>1
    <3>3. ~Doing("pri_change")' /\ (todo' # <<>> => Plain(Tail(todo')))
      BY <1>8, <3>2 DEF Doing
    <3>4. ASSUME NEW y \in Tasks, Created(y)' PROVE Fits(y, Aim(y))'
      <4>1. PICK q : q = prio[y]
        OBVIOUS
      <4>2. Fits(y, q)
        BY <1>4, <3>4, <4>1, InheritParts DEF Inherited
      <4>3. q = Aim(y)'
        BY <3>3, <4>1 DEF Aim
      <4>4. Fits(y, q)'
        <5>1. CASE y # o
          BY <2>2, <4>2, <5>1, FitsMove
        <5>2. CASE y = o
          BY <1>5, <2>4, <4>1, <4>2, <5>2, FitsMove
        <5> QED
          BY <5>1, <5>2
      <4> QED
        BY <4>3, <4>4, FitsAim
    <3>5. Inherited'
      BY <3>4 DEF Inherited
    <3>6. ChainSound'
      BY <3>3 DEF ChainSound
    <3> QED
      BY <3>2, <3>5, <3>6
  <2> QED
    BY <2>3, <2>4
<1> QED
  BY <1>9, <1>10

\* A task that does not wait for an object is woken or made ready.
LEMMA ReadyInherit ==
    ASSUME InheritIInv, MutexKept, NEW t \in Tasks, PhaseKept \/ WaitFails(t),
           task_state[t] \notin Pending, UNCHANGED <<prio, b_prio>>,
           ~Doing("pri_change"), ~Doing("pri_change")', todo' # <<>> => Plain(Tail(todo'))
    PROVE  ChainSound' /\ Inherited'
<1>1. CASE PhaseKept
  <2>1. /\ \A x \in Tasks, y \in Tasks : Presses(x, y)' <=> Presses(x, y)
        /\ \A x \in Tasks : Created(x)' <=> Created(x)
    BY <1>1, PressesKept
  <2> QED
    BY <2>1, SameInherit
<1>2. CASE WaitFails(t)
  <2>1. /\ \A x, y : Owns(x, y)' <=> Owns(x, y)
        /\ \A x, y : Entering(x, y)' <=> Entering(x, y)
    BY KeptFrame DEF MutexKept, Entering
  <2>2. \A x \in Tasks : \A y : Waiting(x, y)' <=> Waiting(x, y)
    BY <1>2 DEF WaitFails, Waiting, Pending
  <2>3. \A x \in Tasks : Created(x)' => Created(x)
    BY <1>2 DEF WaitFails, Created, Timed, Pending, Sleeping
  <2>4. \A x \in Tasks, y \in Tasks : Presses(x, y)' <=> Presses(x, y)
    BY <2>1, <2>2 DEF Presses
  <2> QED
    BY <2>3, <2>4, SameInherit
<1> QED
  BY <1>1, <1>2

\* krhino_task_wait_abort and krhino_task_cancel.
LEMMA AbortInherit ==
    ASSUME InheritIInv, WaitIInv', CountIInv', NEW t \in Tasks,
           TaskWaitAbort(t) \/ TaskCancel(t)
    PROVE  Kept
<1>1. IInv /\ IInv' /\ MutexIInv
  BY InheritParts DEF WaitIInv
<1>2. MutexKept /\ (PhaseKept \/ WaitFails(t))
  BY <1>1, AbortSteps
<1>3. PICK td : /\ todo' = (IF task_state[t] \in Pending THEN MutexTaskPriReset(t, blk_list')
                            ELSE <<>>) \o td
                /\ td \in Seq(Items) /\ Plain(td) /\ Dels(td) = {}
  <2>1. CASE TaskWaitAbort(t)
    <3>1. todo' = IF task_state[t] \in Pending THEN MutexTaskPriReset(t, blk_list') ELSE <<>>
      BY <2>1 DEF TaskWaitAbort
    <3>2. todo' \in Seq(Items)
      BY <1>1 DEF IInv, TodoSound
    <3>3. todo' = todo' \o <<>>
      BY <3>2
    <3>4. <<>> \in Seq(Items) /\ Plain(<<>>) /\ Dels(<<>>) = {}
      BY FewWork
    <3> QED
      BY <3>1, <3>3, <3>4
  <2>2. CASE TaskCancel(t)
    <3>1. PICK it : it = Item("core_sched", NULL, NULL, 0)
      OBVIOUS
    <3>2. it \in Items /\ it.op = "core_sched"
      BY <3>1, PlainItem
    <3>3. <<it>> \in Seq(Items)
      BY <3>2
    <3>4. Plain(<<it>>) /\ Dels(<<it>>) = {}
      BY <3>2, FewWork
    <3> QED
      BY <2>2, <3>1, <3>3, <3>4 DEF TaskCancel
  <2> QED
    BY <2>1, <2>2
<1>4. todo = <<>> /\ UNCHANGED <<prio, b_prio>> /\ WaitAbort(t)
  BY DEF TaskWaitAbort, TaskCancel, Calling, InTask
<1>5. task_state'[t] = "K_RDY" /\ task_state \in [Tasks -> TaskStates]
  <2>1. task_state \in [Tasks -> TaskStates]
    BY <1>1, PriTypes
  <2> QED
    BY <1>4, <2>1 DEF WaitAbort
<1>6. ~Doing("pri_change") /\ Marks(todo) = {} /\ Dels(todo) = {}
  BY <1>4, FewWork, MarksFew DEF Doing
<1>7. CASE task_state[t] \in Pending
  <2>1. WaitFails(t)
    BY <1>2, <1>5, <1>7 DEF PhaseKept, Pending
  <2>2. todo' = MutexTaskPriReset(t, blk_list') \o td
    BY <1>3, <1>7
  <2>3. ChainSound' /\ Inherited' /\ Dels(todo') = Dels(td)
    BY <1>2, <1>3, <1>4, <1>6, <1>7, <2>1, <2>2, ResetInherit
  <2> QED
    BY <1>3, <1>6, <2>3 DEF Kept
<1>8. CASE task_state[t] \notin Pending
  <2>1. todo' = td
    <3>1. todo' = <<>> \o td
      BY <1>3, <1>8
    <3> QED
      BY <1>3, <3>1
  <2>2. td # <<>> => Head(td).op # "pri_change" /\ Plain(Tail(td))
    BY <1>3, PlainRest
  <2>3. ~Doing("pri_change")' /\ (todo' # <<>> => Plain(Tail(todo')))
    BY <2>1, <2>2 DEF Doing
  <2>4. ChainSound' /\ Inherited'
    BY <1>2, <1>4, <1>6, <1>8, <2>3, ReadyInherit
  <2> QED
    BY <1>3, <1>6, <2>1, <2>4 DEF Kept
<1> QED
  BY <1>7, <1>8

\* A timeout, or the end of a sleep.
LEMMA ExpireInherit ==
    ASSUME InheritIInv, WaitIInv', CountIInv', TickExpire
    PROVE  Kept
<1>1. IInv /\ IInv' /\ MutexIInv
  BY InheritParts DEF WaitIInv
<1>2. /\ todo # <<>> /\ Head(todo).op = "tick" /\ todo \in Seq(Items)
      /\ UNCHANGED <<prio, b_prio, mutexVars, alive, cpuVars, pc, call>>
  BY InheritParts DEF TickExpire, Doing
<1>3. Tail(todo) = <<>> /\ Marks(todo) = {} /\ ~Doing("pri_change") /\ Plain(todo)
      /\ Dels(Tail(todo)) = Dels(todo)
  <2>1. Tail(todo) = <<>> /\ Marks(todo) = Marks(<<>>)
    BY <1>1, <1>2, MarksHead DEF MarkOps
  <2>2. ~Doing("pri_change")
    BY <1>2 DEF Doing
  <2> QED
    BY <1>2, <2>1, <2>2, MarksFew, InheritParts, PlainRest
<1>4. MutexKept
  BY <1>1, EndSteps
<1>5. PcKept
  BY <1>2 DEF PcKept
<1> DEFINE t == Head(tick_list)
           due == tick_list # <<>> /\ tick_remain[t] <= 0
<1>6. CASE ~due
  <2>1. UNCHANGED <<task_state, waitVars>> /\ todo' = Tail(todo)
    BY <1>6 DEF TickExpire
  <2>2. UNCHANGED <<task_state, blk_obj>>
    BY <2>1 DEF waitVars
  <2> QED
    BY <1>2, <1>3, <1>4, <2>1, <2>2, QuietInherit
<1>7. CASE due
  <2>1. t \in Tasks
    <3>1. tick_list \in Seq(Tasks)
      BY <1>1 DEF IInv, FieldsOK
    <3> QED
      BY <1>7, <3>1, TailSeq
  <2>2. CASE task_state[t] \in Sleeping
    <3>1. PendTaskWakeup(t, "BLK_FINISH") /\ todo' = todo
      BY <1>7, <2>2 DEF TickExpire, Sleeping, Pending
    <3>2. task_state[t] \notin Pending
      BY <2>2 DEF Sleeping, Pending
    <3> HIDE DEF t
    <3>3. WaitFails(t)
      BY <1>1, <1>2, <1>5, <2>1, <2>2, <3>1, <3>2, WakeFails DEF Timed
    <3>4. ~Doing("pri_change")' /\ (todo' # <<>> => Plain(Tail(todo')))
      BY <1>3, <3>1, InheritParts DEF Doing
    <3>5. ChainSound' /\ Inherited'
      BY <1>2, <1>3, <1>4, <2>1, <3>2, <3>3, <3>4, ReadyInherit
    <3> QED
      BY <3>1, <3>5 DEF Kept
  <2>3. CASE task_state[t] \in Pending
    <3>1. PendTaskWakeup(t, "BLK_TIMEOUT") /\ todo' = MutexTaskPriReset(t, blk_list') \o todo
      BY <1>7, <2>3 DEF TickExpire, Sleeping, Pending
    <3> HIDE DEF t
    <3>2. WaitFails(t)
      BY <1>1, <1>2, <1>5, <2>1, <2>3, <3>1, WakeFails DEF Timed
    <3>3. ChainSound' /\ Inherited' /\ Dels(todo') = Dels(todo)
      BY <1>2, <1>3, <1>4, <2>1, <2>3, <3>1, <3>2, ResetInherit
    <3> QED
      BY <3>3 DEF Kept
  <2>4. task_state[t] \in Sleeping \/ task_state[t] \in Pending
    BY <1>7 DEF TickExpire
  <2> QED
    BY <2>2, <2>3, <2>4
<1> QED
  BY <1>6, <1>7

\* krhino_task_pri_change: the task gets a priority of its own.
LEMMA OwnInherit ==
    ASSUME InheritIInv, WaitIInv', CountIInv', TaskPriChangeCall
    PROVE  Kept
<1>1. IInv /\ IInv' /\ MutexIInv
  BY InheritParts DEF WaitIInv
<1>2. InTask /\ pc[active] = "pri" /\ todo = <<>>
  BY DEF TaskPriChangeCall, InTask
<1>3. call[active] \in AppTasks \X AppPris
  <2>1. active \in Tasks /\ task_state[active] = "K_RDY"
    BY <1>1, <1>2, Runs
  <2> QED
    BY <1>1, <1>2, <2>1 DEF IInv, CallSound, Created
<1>4. PICK o \in AppTasks, n \in AppPris : call[active] = <<o, n>>
  BY <1>3
<1> DEFINE p == PriLook(n, ToSet(mutex_list[o]), blk_list, prio)
           r == <<Item("pri_change", o, NULL, p)>>
<1>5. /\ b_prio' = [b_prio EXCEPT ![o] = n] /\ todo' = r
      /\ UNCHANGED <<prio, task_state, blk_obj, blk_list, mutex_list>>
  BY <1>4 DEF TaskPriChangeCall, waitVars, mutexVars
<1>6. o \in Tasks /\ b_prio \in [Tasks -> Pris]
  BY <1>1, PriTypes DEF AppTasks
<1>7. b_prio'[o] = n /\ \A x \in Tasks : x # o => b_prio'[x] = b_prio[x]
  BY <1>5, <1>6
<1>8. p = PriLook(b_prio'[o], ToSet(mutex_list'[o]), blk_list', prio')
  BY <1>5, <1>7
<1> HIDE DEF p
<1>9. r \in PriWork
  <2>1. p \in AppPris
    <3>1. PICK it : it = Item("pri_change", o, NULL, p)
      OBVIOUS
    <3>2. todo' = <<it>> /\ it.op = "pri_change" /\ it.arg = p
      BY <1>5, <3>1 DEF Item
    <3>3. WorkList(<<it>>)
      BY <1>1, <3>2 DEF IInv, TodoSound
    <3>4. WorkItem(it)
      BY <3>3 DEF WorkList
    <3> QED
      BY <3>2, <3>4 DEF WorkItem
  <2> QED
    BY <2>1 DEF PriWork
<1>10. MutexKept
  BY <1>1, PriCallSteps
<1>11. /\ \A x \in Tasks, y \in Tasks : Presses(x, y)' <=> Presses(x, y)
       /\ \A x \in Tasks : Created(x)' <=> Created(x)
  BY <1>5, <1>10, PressesKept
<1>12. Marks(todo') = {} /\ ~Doing("pri_change") /\ Dels(todo) = {}
  BY <1>2, <1>10, MarksFew, FewWork DEF MutexKept, Doing
<1>13. <<>> \in Seq(Items) /\ Plain(<<>>) /\ Dels(<<>>) = {} /\ todo' = r \o <<>>
  BY <1>5, FewWork
<1> HIDE DEF r
<1>14. r = <<Item("pri_change", o, NULL, p)>>
  BY DEF r
<1>15. ChainSound' /\ Inherited' /\ Dels(todo') = Dels(<<>>)
  BY <1>5, <1>6, <1>7, <1>8, <1>9, <1>11, <1>12, <1>13, <1>14, LookInherit
<1> QED
  BY <1>12, <1>13, <1>15 DEF Kept

\* A task is created: it owns nothing and presses nobody.
LEMMA CreateInherit ==
    ASSUME InheritIInv, NEW t \in Tasks, NEW p \in NewPris, NEW autorun \in BOOLEAN,
           TaskCreate(t, p, autorun)
    PROVE  Kept
<1>1. /\ todo = <<>> /\ todo' = todo /\ ~Created(t)
      /\ task_state' = [task_state EXCEPT ![t] = IF autorun THEN "K_RDY" ELSE "K_SUSPENDED"]
      /\ prio' = [prio EXCEPT ![t] = p] /\ b_prio' = [b_prio EXCEPT ![t] = p]
      /\ blk_obj' = [blk_obj EXCEPT ![t] = NULL]
      /\ UNCHANGED <<alive, mutex_task, active>>
  BY DEF TaskCreate, Calling, InTask, cpuVars
<1>2. /\ task_state \in [Tasks -> TaskStates] /\ prio \in [Tasks -> Pris] /\ b_prio \in [Tasks -> Pris]
      /\ blk_obj \in [Tasks -> Objs \cup {NULL}] /\ Pris \subseteq Int /\ p \in Pris
  BY InheritParts, PriTypes, Constants DEF IInv, FieldsOK
<1>3. /\ prio'[t] = p /\ b_prio'[t] = p /\ task_state'[t] \notin Pending
      /\ \A x \in Tasks : x # t => /\ prio'[x] = prio[x] /\ b_prio'[x] = b_prio[x]
                                   /\ task_state'[x] = task_state[x] /\ blk_obj'[x] = blk_obj[x]
  BY <1>1, <1>2 DEF Pending
<1>4. /\ \A x, y : Owns(x, y)' <=> Owns(x, y)
      /\ \A x, y : ~Entering(x, y)' /\ ~Entering(x, y)
  BY <1>1, MarksFew DEF Owns, GivenBack, Entering
<1>5. /\ \A x \in Tasks : x # t => \A y : Waiting(x, y)' <=> Waiting(x, y)
      /\ \A y : ~Waiting(t, y)' /\ ~Waiting(t, y)
  BY <1>1, <1>3 DEF Waiting, Created, Pending
<1>6. \A y \in Mutexes : ~Owns(t, y)
  BY <1>1, InheritParts, Constants DEF OwnerSound, Owns
<1>7. /\ \A x \in Tasks : ~Presses(x, t)'
      /\ \A y \in Tasks : ~Presses(t, y)' /\ ~Presses(t, y)
      /\ \A x \in Tasks, y \in Tasks : Presses(x, y)' <=> Presses(x, y)
  <2>1. \A x \in Tasks : \A y : Waiting(x, y)' <=> Waiting(x, y)
    BY <1>5
  <2>2. \A x \in Tasks : ~Presses(x, t)'
    BY <1>4, <1>6 DEF Presses
  <2>3. \A y \in Tasks : ~Presses(t, y)' /\ ~Presses(t, y)
    BY <1>4, <1>5 DEF Presses
  <2>4. \A x \in Tasks, y \in Tasks : Presses(x, y)' <=> Presses(x, y)
    BY <1>4, <2>1 DEF Presses
  <2> QED
    BY <2>2, <2>3, <2>4
<1>8. ~Doing("pri_change") /\ ~Doing("pri_change")'
  BY <1>1 DEF Doing
<1>9. ASSUME NEW y \in Tasks, Created(y)' PROVE Fits(y, Aim(y))'
  <2>1. CASE y = t
    <3>1. p = Aim(t)'
      BY <1>3, <1>8 DEF Aim
    <3>2. Fits(t, p)'
      BY <1>2, <1>3, <1>7 DEF Fits
    <3> QED
      BY <2>1, <3>1, <3>2, FitsAim
  <2>2. CASE y # t
    <3>1. PICK q : q = prio[y]
      OBVIOUS
    <3>2. Created(y)
      BY <1>3, <1>9, <2>2 DEF Created
    <3>3. Fits(y, q)
      BY <1>8, <3>1, <3>2, InheritParts DEF Inherited
    <3>4. q = Aim(y)'
      BY <1>3, <1>8, <2>2, <3>1 DEF Aim
    <3>5. \A x \in Tasks : Presses(x, y) => prio'[x] = prio[x]
      BY <1>3, <1>7
    <3>6. Fits(y, q)'
      BY <1>3, <1>7, <2>2, <3>3, <3>5, FitsMove
    <3> QED
      BY <3>4, <3>6, FitsAim
  <2> QED
    BY <2>1, <2>2
<1>10. Inherited'
  BY <1>9 DEF Inherited
<1>11. ChainSound'
  BY <1>1, <1>8 DEF ChainSound
<1> QED
  BY <1>1, <1>10, <1>11 DEF Kept

\* krhino_mutex_lock of a mutex that another task owns.
LEMMA BusyInherit ==
    ASSUME InheritIInv, NEW m \in Mutexes, NEW ticks \in Waits, MutexLockBusy(m, ticks)
    PROVE  Kept
<1> DEFINE it == Item("lock_pend", active, m, ticks)
<1>1. /\ Calling("mutex_lock") /\ m \in alive /\ mutex_task[m] \notin {NULL, active}
      /\ UNCHANGED <<prio, b_prio, task_state, blk_obj, mutex_task, alive, active>>
  BY DEF MutexLockBusy, dataVars, waitVars, mutexVars, cpuVars
<1>2. /\ todo = <<>> /\ Marks(todo) = {} /\ active \in Tasks /\ prio[active] \in AppPris
      /\ active # IdleTask
  BY <1>1, CallerMutex, Caller, InheritParts
<1>3. PICK o \in Tasks : o = mutex_task[m] /\ o # active
  BY <1>1, InheritParts, PriTypes
<1>4. o \in AppTasks
  BY <1>3, InheritParts DEF IInv, PendSound, AppTasks
<1> DEFINE r == IF prio[active] < prio[o] THEN <<Item("pri_change", o, NULL, prio[active])>>
                ELSE <<>>
<1>5. todo' = r \o <<it>>
  BY <1>3 DEF MutexLockBusy
<1>6. it.op = "lock_pend" /\ it.obj = m /\ it \in Items
  BY <1>2, KernelAssumption DEF Item, Items, Ops, Objs, FOREVER
<1>7. <<it>> \in Seq(Items)
  BY <1>6
<1>8. r \in PriWork
  BY <1>2, <1>4 DEF PriWork
<1>9. Plain(<<it>>) /\ Dels(<<it>>) = {} /\ Dels(todo) = {} /\ Marks(<<it>>) = {it}
  BY <1>2, <1>6, FewWork, MarksFew DEF MarkOps
<1>10. PICK p : p = prio[active]
  OBVIOUS
<1>11. /\ p < prio[o] => r = <<Item("pri_change", o, NULL, p)>>
       /\ ~(p < prio[o]) => r = <<>>
  BY <1>10
<1> HIDE DEF r, it
<1>12. /\ Dels(todo') = Dels(todo) /\ (todo' # <<>> => Plain(Tail(todo')))
       /\ r = <<>> => todo' = <<it>>
       /\ r = <<Item("pri_change", o, NULL, p)>> =>
             /\ todo' # <<>> /\ Head(todo').op = "pri_change"
             /\ Head(todo').task = o /\ Head(todo').arg = p
  <2>1. PICK td : td = <<it>>
    OBVIOUS
  <2>2. td \in Seq(Items) /\ Plain(td) /\ todo' = r \o td
    BY <1>5, <1>7, <1>9, <2>1
  <2>3. Dels(todo') = Dels(td) /\ (todo' # <<>> => Plain(Tail(todo')))
    BY <1>8, <2>2, Push
  <2>4. r = <<>> => todo' = td
    BY <1>8, <2>2, Push
  <2>5. r = <<Item("pri_change", o, NULL, p)>> =>
           /\ todo' # <<>> /\ Head(todo').op = "pri_change"
           /\ Head(todo').task = o /\ Head(todo').arg = p
    <3>1. PICK x : x = Item("pri_change", o, NULL, p)
      OBVIOUS
    <3>2. x.op = "pri_change" /\ x.task = o /\ x.arg = p
      BY <3>1 DEF Item
    <3>3. <<x>> \o td # <<>> /\ Head(<<x>> \o td) = x
      BY <2>2
    <3> QED
      BY <2>2, <3>1, <3>2, <3>3
  <2> QED
    BY <1>9, <2>1, <2>3, <2>4, <2>5
<1>13. Marks(todo') = {it}
  BY <1>5, <1>7, <1>8, <1>9, MarksPush
<1>14. \A y \in Tasks : Aim(y)' = IF y = o /\ p < prio[o] THEN p ELSE prio[y]
  <2>1. Head(<<it>>) = it
    BY FewWork
  <2>2. CASE p < prio[o]
    BY <1>1, <1>11, <1>12, <2>2 DEF Aim, Doing
  <2>3. CASE ~(p < prio[o])
    BY <1>1, <1>6, <1>11, <1>12, <2>1, <2>3 DEF Aim, Doing
  <2> QED
    BY <2>2, <2>3
<1>15. \A x \in Tasks, y \in Tasks :
          Presses(x, y)' <=> Presses(x, y) \/ (x = active /\ y = o)
  <2>1. /\ \A y, z : Owns(y, z)' <=> z \in alive' /\ mutex_task'[z] = y
        /\ \A y, z : Owns(y, z) <=> z \in alive /\ mutex_task[z] = y
    BY <1>2, <1>6, <1>13, NoMarks, NoMarksNext
  <2>2. /\ \A x, z : Entering(x, z)' <=> x = active /\ z = m
        /\ \A x, z : ~Entering(x, z)
    BY <1>1, <1>2, <1>6, <1>13 DEF Entering
  <2>3. \A x, z : Waiting(x, z)' <=> Waiting(x, z)
    BY <1>1 DEF Waiting
  <2> QED
    BY <1>1, <1>3, <2>1, <2>2, <2>3 DEF Presses
<1>16. /\ prio \in [Tasks -> Int] /\ b_prio \in [Tasks -> Int] /\ p \in Int
  BY <1>2, <1>10, InheritParts, PriTypes
<1>17. ~Doing("pri_change")
  BY <1>2 DEF Doing
<1>18. ASSUME NEW y \in Tasks, Created(y)' PROVE Fits(y, Aim(y))'
  <2>1. PICK q : q = prio[y]
    OBVIOUS
  <2>2. Fits(y, q)
    BY <1>1, <1>17, <1>18, <2>1, InheritParts DEF Inherited, Created
  <2>3. CASE y = o /\ p < prio[o]
    <3>1. /\ q <= b_prio[o] /\ \A x \in Tasks : Presses(x, o) => q <= prio[x]
      BY <2>2, <2>3 DEF Fits
    <3>2. p <= b_prio[o] /\ \A x \in Tasks : Presses(x, o) => p <= prio[x]
      BY <1>16, <2>1, <2>3, <3>1
    <3>3. p <= b_prio'[o] /\ \A x \in Tasks : Presses(x, o)' => p <= prio'[x]
      BY <1>1, <1>10, <1>15, <1>16, <3>2
    <3>4. Presses(active, o)' /\ prio'[active] = p
      BY <1>1, <1>2, <1>10, <1>15 DEF Presses, Entering
    <3>5. Fits(o, p)'
      BY <1>1, <1>2, <3>3, <3>4 DEF Fits
    <3>6. p = Aim(o)'
      BY <1>14, <2>3
    <3> QED
      BY <2>3, <3>5, <3>6, FitsAim
  <2>4. CASE ~(y = o /\ p < prio[o])
    <3>1. q = Aim(y)'
      BY <1>14, <2>1, <2>4
    <3>2. Fits(y, q)'
      <4>1. y = o => q <= p
        BY <1>16, <2>1, <2>4
      <4>2. \A x \in Tasks : Presses(x, y)' =>
               (Presses(x, y) /\ prio'[x] = prio[x]) \/ q <= prio'[x]
        BY <1>1, <1>10, <1>15, <4>1
      <4>3. \A x \in Tasks : Presses(x, y) /\ prio[x] = q => Presses(x, y)' /\ prio'[x] = q
        BY <1>1, <1>15
      <4> QED
        BY <1>1, <2>2, <4>2, <4>3, FitsMove
    <3> QED
      BY <3>1, <3>2, FitsAim
  <2> QED
    BY <2>3, <2>4
<1>19. Inherited'
  BY <1>18 DEF Inherited
<1>20. ChainSound'
  <2>1. Doing("pri_change")' => Head(todo').task = o /\ Head(todo').arg = p /\ p < prio[o]
    <3>1. Head(<<it>>) = it
      BY FewWork
    <3> QED
      BY <1>6, <1>11, <1>12, <3>1 DEF Doing
  <2> QED
    BY <1>1, <1>6, <1>10, <1>12, <1>13, <2>1 DEF ChainSound
<1> QED
  BY <1>12, <1>19, <1>20 DEF Kept

\* The next round of task_pri_change is put before plain work.
LEMMA PushRound ==
    ASSUME IInv', NEW td \in Seq(Items), Plain(td), NEW o, NEW p,
           todo' = <<Item("pri_change", o, NULL, p)>> \o td
    PROVE  /\ todo' # <<>> /\ Head(todo').op = "pri_change"
           /\ Head(todo').task = o /\ Head(todo').arg = p
           /\ Plain(Tail(todo')) /\ Dels(todo') = Dels(td)
<1>1. PICK x : x = Item("pri_change", o, NULL, p)
  OBVIOUS
<1>2. x.op = "pri_change" /\ x.task = o /\ x.arg = p /\ todo' = <<x>> \o td
  BY <1>1 DEF Item
<1>3. todo' # <<>> /\ Head(todo') = x /\ Tail(todo') = td
  BY <1>2
<1>4. PICK tt : tt = todo'
  OBVIOUS
<1>5. tt \in Seq(Items) /\ tt # <<>> /\ Head(tt).op # "del_waiters" /\ Tail(tt) = td
  BY <1>2, <1>3, <1>4 DEF IInv, TodoSound
<1>6. Dels(td) = Dels(tt)
  BY <1>5, PlainRest
<1> QED
  BY <1>2, <1>3, <1>4, <1>6

\* One round of task_pri_change.  When the task waits for a mutex, the priority
\* due to the owner of that mutex may have changed, and if so the next round is
\* about the owner.
LEMMA ChainInherit ==
    ASSUME InheritIInv, WaitIInv', CountIInv', TaskPriChange
    PROVE  Kept
<1>1. IInv /\ IInv' /\ Doing("pri_change") /\ ChainSound /\ Inherited
      /\ UNCHANGED <<task_state, b_prio, alive, blk_obj, mutexVars, cpuVars>>
  BY InheritParts DEF WaitIInv, TaskPriChange
<1>2. MutexKept /\ PhaseKept
  BY <1>1, RoundSteps
<1>3. /\ \A x \in Tasks : \A y : Presses(x, y)' <=> Presses(x, y)
      /\ \A x \in Tasks : Created(x)' <=> Created(x)
      /\ Marks(todo') = Marks(todo) /\ UNCHANGED <<active, mutex_task, mutex_list>>
  BY <1>1, <1>2, PressesKept DEF MutexKept, cpuVars, mutexVars
<1>4. PICK td : td = Tail(todo)
  OBVIOUS
<1>5. /\ todo # <<>> /\ Head(todo).op = "pri_change" /\ todo \in Seq(Items)
      /\ Head(todo).task \in AppTasks /\ Head(todo).arg \in AppPris
  BY <1>1, DoingItem DEF WorkItem, Doing
<1>6. td \in Seq(Items) /\ Plain(td) /\ Dels(td) = Dels(todo)
  BY <1>4, <1>5, InheritParts, TailSeq, PlainRest
<1>7. PICK t \in AppTasks, new \in AppPris : t = Head(todo).task /\ new = Head(todo).arg
  BY <1>5
<1>8. /\ t \in Tasks /\ prio \in [Tasks -> Int] /\ b_prio \in [Tasks -> Int] /\ new \in Int
      /\ mutex_task \in [Mutexes -> Tasks \cup {NULL}]
  BY <1>1, <1>7, PriTypes, Constants DEF AppTasks
<1>9. \A y \in Tasks : Created(y) => Fits(y, IF y = t THEN new ELSE prio[y])
  BY <1>1, <1>7 DEF Inherited, Aim
<1>10. \A it \in Marks(todo) :
          /\ it.op = "lock_pend" => new = prio[active] /\ new < prio[t]
          /\ it.op = "hand_over" => t = active /\ task_state[t] = "K_RDY"
  BY <1>1, <1>7 DEF ChainSound
<1>11. \A y : ~Entering(t, y)
  BY <1>8, <1>10 DEF Entering
<1>12. todo' = td => /\ ChainSound' /\ Dels(todo') = Dels(todo)
                     /\ \A y : Aim(y)' = prio'[y]
  <2> SUFFICES ASSUME todo' = td PROVE ChainSound' /\ Dels(todo') = Dels(todo)
                                       /\ \A y : Aim(y)' = prio'[y]
    OBVIOUS
  <2>1. td # <<>> => Head(td).op # "pri_change" /\ Plain(Tail(td))
    BY <1>6, PlainRest
  <2>2. ~Doing("pri_change")' /\ (todo' # <<>> => Plain(Tail(todo')))
    BY <2>1 DEF Doing
  <2> QED
    BY <1>6, <2>2 DEF ChainSound, Aim
<1>13. CASE UNCHANGED prio /\ todo' = td /\ (Created(t) => prio[t] = new)
  <2>1. ASSUME NEW y \in Tasks, Created(y)' PROVE Fits(y, Aim(y))'
    <3>1. PICK q : q = prio[y]
      OBVIOUS
    <3>2. Fits(y, q)
      BY <1>3, <1>9, <1>13, <2>1, <3>1
    <3>3. Fits(y, q)'
      BY <1>1, <1>3, <1>13, <3>2, FitsMove
    <3>4. q = Aim(y)'
      BY <1>12, <1>13, <3>1
    <3> QED
      BY <3>3, <3>4, FitsAim
  <2>2. Inherited'
    BY <2>1 DEF Inherited
  <2> QED
    BY <1>12, <1>13, <2>2 DEF Kept
<1>14. ASSUME prio' = [prio EXCEPT ![t] = new]
       PROVE  prio'[t] = new /\ \A x \in Tasks : x # t => prio'[x] = prio[x]
  BY <1>8, <1>14
<1>15. ASSUME prio' = [prio EXCEPT ![t] = new], NEW y \in Tasks, Created(y)', ~Presses(t, y),
              NEW q, q = Aim(y)', q = IF y = t THEN new ELSE prio[y]
       PROVE  Fits(y, Aim(y))'
  <2>1. Fits(y, q)
    BY <1>3, <1>9, <1>15
  <2>2. \A x \in Tasks : Presses(x, y) => prio'[x] = prio[x]
    BY <1>14, <1>15
  <2>3. Fits(y, q)'
    BY <1>1, <1>3, <1>15, <2>1, <2>2, FitsMove
  <2> QED
    BY <1>15, <2>3, FitsAim
<1>16. CASE /\ prio' = [prio EXCEPT ![t] = new] /\ todo' = td
            /\ \A y \in Tasks : ~Presses(t, y)
  <2>1. ASSUME NEW y \in Tasks, Created(y)' PROVE Fits(y, Aim(y))'
    <3>1. PICK q : q = IF y = t THEN new ELSE prio[y]
      OBVIOUS
    <3>2. q = Aim(y)'
      BY <1>12, <1>14, <1>16, <3>1
    <3> QED
      BY <1>15, <1>16, <2>1, <3>1, <3>2
  <2>2. Inherited'
    BY <2>1 DEF Inherited
  <2> QED
    BY <1>12, <1>16, <2>2 DEF Kept
<1>17. task_state[t] \notin Pending => \A y \in Tasks : ~Presses(t, y)
  BY <1>11 DEF Presses, Waiting
<1>18. (task_state[t] \in Pending /\ blk_obj[t] \notin Mutexes \cap alive)
       => \A y \in Tasks : ~Presses(t, y)
  BY <1>11 DEF Presses, Waiting, Owns
<1> DEFINE m == blk_obj[t]
           o == mutex_task[m]
           look == PriLook(b_prio[o], ToSet(mutex_list[o]), blk_list', prio')
           next == IF m \notin Mutexes \cap alive THEN <<>>
                   ELSE IF prio[o] > new THEN <<Item("pri_change", o, NULL, new)>>
                   ELSE IF prio[o] = prio[t] /\ look # prio[o]
                        THEN <<Item("pri_change", o, NULL, look)>>
                   ELSE <<>>
<1>19. \/ UNCHANGED prio /\ todo' = td /\ (Created(t) => prio[t] = new)
       \/ task_state[t] \notin Pending /\ prio' = [prio EXCEPT ![t] = new] /\ todo' = td
       \/ task_state[t] \in Pending /\ prio' = [prio EXCEPT ![t] = new] /\ todo' = next \o td
  BY <1>4, <1>7, Zenon DEF TaskPriChange, Sleeping, Pending
<1>20. CASE /\ task_state[t] \in Pending /\ prio' = [prio EXCEPT ![t] = new]
            /\ todo' = next \o td /\ m \in Mutexes \cap alive
  <2>1. PICK u \in Tasks : u = o /\ u # t
    <3>1. o # NULL /\ o # t
      BY <1>1, <1>8, <1>20, InheritParts DEF IInv, PendSound, OwnerSound
    <3> QED
      BY <1>8, <1>20, <3>1
  <2>2. Presses(t, u) /\ \A y \in Tasks : Presses(t, y) => y = u
    <3>1. ~GivenBack(m)
      BY <1>10, <1>20 DEF GivenBack, Pending
    <3>2. Owns(u, m) /\ Waiting(t, m) /\ \A z : Waiting(t, z) => z = m
      BY <1>20, <2>1, <3>1 DEF Owns, Waiting
    <3> QED
      BY <1>11, <1>20, <2>1, <3>2 DEF Presses, Owns
  <2>3. PICK p : p = PriLook(b_prio'[u], ToSet(mutex_list'[u]), blk_list', prio')
    OBVIOUS
  <2>4. p = look
    BY <1>1, <1>3, <2>1, <2>3
  <2>5. /\ prio[u] > new => next = <<Item("pri_change", u, NULL, new)>>
        /\ ~(prio[u] > new) /\ prio[u] = prio[t] /\ p # prio[u] =>
              next = <<Item("pri_change", u, NULL, p)>>
        /\ ~(prio[u] > new) /\ ~(prio[u] = prio[t] /\ p # prio[u]) => next = <<>>
    BY <1>20, <2>1, <2>4
  <2>6. /\ prio'[t] = new /\ prio'[u] = prio[u] /\ \A x \in Tasks : x # t => prio'[x] = prio[x]
    BY <1>14, <1>20, <2>1
  <2> HIDE DEF next, look, o, m
  \* The priority that the owner is to have, and that it does.
  <2>7. PICK q : q = IF prio[u] > new THEN new ELSE IF prio[u] = prio[t] THEN p ELSE prio[u]
    OBVIOUS
  <2>8. /\ ChainSound' /\ Dels(todo') = Dels(todo)
        /\ \A y \in Tasks : Aim(y)' = IF y = u THEN q ELSE prio'[y]
    <3>1. ASSUME NEW n, next = <<Item("pri_change", u, NULL, n)>>, n = q,
                 \A it \in Marks(todo) : it.op = "lock_pend" => n = new /\ new < prio[u]
          PROVE  /\ ChainSound' /\ Dels(todo') = Dels(todo)
                 /\ \A y \in Tasks : Aim(y)' = IF y = u THEN q ELSE prio'[y]
      <4>1. /\ todo' # <<>> /\ Head(todo').op = "pri_change"
            /\ Head(todo').task = u /\ Head(todo').arg = n
            /\ Plain(Tail(todo')) /\ Dels(todo') = Dels(td)
        BY <1>1, <1>6, <1>20, <3>1, PushRound
      <4>2. \A it \in Marks(todo') : it.op # "hand_over"
        BY <1>3, <1>10, <1>20 DEF Pending
      <4>3. \A it \in Marks(todo') : it.op = "lock_pend" => n = prio'[active] /\ n < prio'[u]
        <5>1. ASSUME NEW it \in Marks(todo'), it.op = "lock_pend"
              PROVE  n = prio'[active] /\ n < prio'[u]
          <6>1. new = prio[active] /\ new < prio[t] /\ n = new /\ new < prio[u]
            BY <1>3, <1>10, <3>1, <5>1
          <6>2. active # t /\ active \in Tasks
            BY <1>1, <1>8, <6>1, PriTypes
          <6> QED
            BY <2>6, <6>1, <6>2
        <5> QED
          BY <5>1
      <4>4. ChainSound'
        BY <1>3, <4>1, <4>2, <4>3 DEF ChainSound
      <4>5. \A y \in Tasks : Aim(y)' = IF y = u THEN q ELSE prio'[y]
        BY <3>1, <4>1 DEF Aim, Doing
      <4> QED
        BY <1>6, <4>1, <4>4, <4>5
    <3>2. CASE prio[u] > new
      BY <1>8, <1>10, <2>5, <2>7, <3>1, <3>2
    <3>3. CASE ~(prio[u] > new) /\ prio[u] = prio[t] /\ p # prio[u]
      <4>1. \A it \in Marks(todo) : it.op # "lock_pend"
        BY <1>8, <1>10, <3>3
      <4> QED
        BY <2>5, <2>7, <3>1, <3>3, <4>1
    <3>4. CASE ~(prio[u] > new) /\ ~(prio[u] = prio[t] /\ p # prio[u])
      <4>1. todo' = td
        <5>1. todo' = <<>> \o td
          BY <1>20, <2>5, <3>4
        <5> QED
          BY <1>6, <5>1
      <4>2. q = prio'[u]
        BY <2>6, <2>7, <3>4
      <4> QED
        BY <1>12, <4>1, <4>2
    <3> QED
      BY <3>2, <3>3, <3>4
  <2>9. Created(u) => Fits(u, q)'
    <3> SUFFICES ASSUME Created(u) PROVE Fits(u, q)'
      OBVIOUS
    <3>1. PICK k : k = prio[u]
      OBVIOUS
    <3>2. Fits(u, k)
      BY <1>9, <2>1, <3>1
    <3>3. /\ k <= b_prio[u] /\ \A x \in Tasks : Presses(x, u) => k <= prio[x]
      BY <3>2 DEF Fits
    <3>4. CASE k > new
      <4>1. q = new /\ new <= b_prio'[u]
        BY <1>1, <1>8, <2>7, <3>1, <3>3, <3>4
      <4>2. \A x \in Tasks : Presses(x, u)' => new <= prio'[x]
        BY <1>3, <1>8, <2>6, <3>1, <3>3, <3>4
      <4>3. Presses(t, u)' /\ prio'[t] = new
        BY <1>3, <1>8, <2>2, <2>6
      <4> QED
        BY <1>8, <4>1, <4>2, <4>3 DEF Fits
    <3>5. CASE ~(k > new) /\ k = prio[t]
      <4>1. q = p
        BY <2>7, <3>1, <3>5
      <4>2. \A it \in Marks(todo') : it.op # "lock_pend"
        BY <1>3, <1>8, <1>10, <3>5
      <4>3. Fits(u, p)'
        BY <1>3, <2>3, <4>2, LookFits
      <4> QED
        BY <4>1, <4>3
    <3>6. CASE ~(k > new) /\ k # prio[t]
      <4>1. q = k /\ k <= new
        BY <1>8, <2>7, <3>1, <3>6
      <4>2. \A x \in Tasks : Presses(x, u)' =>
               (Presses(x, u) /\ prio'[x] = prio[x]) \/ k <= prio'[x]
        BY <1>3, <2>6, <4>1
      <4>3. \A x \in Tasks : Presses(x, u) /\ prio[x] = k => Presses(x, u)' /\ prio'[x] = k
        BY <1>3, <2>6, <3>6
      <4> QED
        BY <1>1, <3>2, <4>1, <4>2, <4>3, FitsMove
    <3> QED
      BY <3>4, <3>5, <3>6
  <2>10. ASSUME NEW y \in Tasks, Created(y)' PROVE Fits(y, Aim(y))'
    <3>1. CASE y = u
      <4>1. q = Aim(u)'
        BY <2>8
      <4> QED
        BY <1>3, <2>9, <2>10, <3>1, <4>1, FitsAim
    <3>2. CASE y # u
      <4>1. PICK k : k = IF y = t THEN new ELSE prio[y]
        OBVIOUS
      <4>2. k = Aim(y)'
        BY <2>6, <2>8, <3>2, <4>1
      <4> QED
        BY <1>15, <1>20, <2>2, <2>10, <3>2, <4>1, <4>2
    <3> QED
      BY <3>1, <3>2
  <2>11. Inherited'
    BY <2>10 DEF Inherited
  <2> QED
    BY <2>8, <2>11 DEF Kept
<1>21. CASE /\ task_state[t] \in Pending /\ prio' = [prio EXCEPT ![t] = new]
            /\ todo' = next \o td /\ m \notin Mutexes \cap alive
  <2>1. next = <<>>
    BY <1>21
  <2>2. todo' = td
    BY <1>6, <1>21, <2>1
  <2> QED
    BY <1>16, <1>18, <1>21, <2>2
<1> QED
  BY <1>13, <1>16, <1>17, <1>19, <1>20, <1>21

-----------------------------------------------------------------------------
(* The theorem about inheritance.                                           *)

\* The invariant holds at first: nobody waits.
LEMMA InheritInit == Init => InheritIInv
<1> SUFFICES ASSUME Init PROVE InheritIInv
  OBVIOUS
<1>1. todo = <<>> /\ b_prio = prio /\ mutex_task = [m \in Mutexes |-> NULL]
  BY DEF Init
<1>2. Marks(todo) = {} /\ Dels(todo) = {} /\ ~Doing("pri_change")
  BY <1>1, MarksFew, FewWork DEF Doing
<1>3. \A t \in Tasks, m \in Mutexes : ~Owns(t, m) /\ ~Waiting(t, m)
  <2>1. \A t, m : Owns(t, m) <=> m \in alive /\ mutex_task[m] = t
    BY <1>2, NoMarks
  <2>2. \A t \in Tasks, m \in Mutexes : ~Waiting(t, m)
    BY DEF Init, Waiting, Pending
  <2> QED
    BY <1>1, <2>1, <2>2, Constants
<1>4. WaitIInv /\ MutexIInv /\ IInv
  BY WaitInit, MutexInit DEF MutexIInv
<1>5. CountIInv
  BY <1>2, <1>3, <1>4 DEF CountIInv, NoDeletion, CountSound
<1>6. ChainSound /\ DeadSound
  BY <1>1, <1>2, <1>3 DEF ChainSound, DeadSound
<1>7. Inherited
  <2>1. ASSUME NEW t \in Tasks PROVE Fits(t, Aim(t))
    <3>1. Aim(t) = b_prio[t] /\ b_prio[t] <= b_prio[t]
      BY <1>1, <1>2, <1>4, PriTypes DEF Aim
    <3>2. \A x \in Tasks : ~Presses(x, t)
      BY <1>3 DEF Presses
    <3> QED
      BY <3>1, <3>2 DEF Fits
  <2> QED
    BY <2>1 DEF Inherited
<1> QED
  BY <1>4, <1>5, <1>6, <1>7 DEF InheritIInv

\* A step that keeps its parts keeps the invariant.
LEMMA KeptInherit ==
    ASSUME InheritIInv, WaitIInv', CountIInv', CoreKind, Kept,
           alive' = alive \/ (todo = <<>> /\ alive \subseteq alive')
    PROVE  InheritIInv'
<1>1. DeadSound'
  BY DeadStep, InheritParts DEF Kept
<1> QED
  BY <1>1 DEF InheritIInv, Kept

\* A stuttering step.
LEMMA StutterInherit == ASSUME InheritIInv, WaitIInv', CountIInv', UNCHANGED vars PROVE InheritIInv'
<1>1. UNCHANGED <<task_state, prio, b_prio, alive, mutex_task, blk_obj, active, todo>>
  BY DEF vars, dataVars, waitVars, mutexVars, cpuVars, ctlVars
<1>2. /\ \A x, y : Waiting(x, y)' <=> Waiting(x, y)
      /\ \A x, y : Owns(x, y)' <=> Owns(x, y)
      /\ \A x, y : Entering(x, y)' <=> Entering(x, y)
      /\ \A x : Created(x)' <=> Created(x)
  BY <1>1 DEF Waiting, Owns, GivenBack, Entering, Created
<1>3. \A x, y : Presses(x, y)' <=> Presses(x, y)
  BY <1>2 DEF Presses
<1>4. ASSUME NEW t \in Tasks, Created(t)' PROVE Fits(t, Aim(t))'
  <2>1. PICK p : p = Aim(t)
    OBVIOUS
  <2>2. p = Aim(t)'
    BY <1>1, <2>1 DEF Aim, Doing
  <2>3. Fits(t, p)
    BY <1>2, <1>4, <2>1 DEF InheritIInv, Inherited
  <2>4. Fits(t, p)'
    BY <1>1, <1>3, <2>3, FitsMove
  <2> QED
    BY <2>2, <2>4, FitsAim
<1>5. Inherited'
  BY <1>4 DEF Inherited
<1>6. ChainSound'
  BY <1>1 DEF InheritIInv, ChainSound, Doing
<1>7. DeadSound'
  BY <1>1, <1>2 DEF InheritIInv, DeadSound
<1> QED
  BY <1>5, <1>6, <1>7 DEF InheritIInv

\* Every step keeps the invariant.
LEMMA InheritNext ==
    ASSUME "task_suspend" \notin IsrCalls, {"task_del", "task_redel"} \cap Calls = {},
           InheritIInv, [Next]_vars
    PROVE  InheritIInv'
<1>1. WaitIInv' /\ CountIInv' /\ IInv' /\ CoreKind
  BY WaitNext, CountNext, NextKind, InheritParts DEF WaitIInv
<1>2. CASE UNCHANGED vars
  BY <1>1, <1>2, StutterInherit
<1>3. CASE \/ CoreSched \/ PendSV \/ IdleLoop \/ IntrptEnter \/ TickEnter \/ IntrptExit
           \/ TimeSliceUpdate \/ SchedDisable \/ SchedEnable
  <2>1. UNCHANGED alive
    BY <1>3 DEF CoreSched, PendSV, IdleLoop, IntrptEnter, TickEnter, IntrptExit,
                TimeSliceUpdate, SchedDisable, SchedEnable, dataVars, vars
  <2> QED
    BY <1>1, <1>3, <2>1, CpuInherit, KeptInherit
<1>4. CASE TickProc
  <2>1. UNCHANGED alive
    BY <1>4 DEF TickProc
  <2> QED
    BY <1>1, <1>4, <2>1, RoundInherit, KeptInherit
<1>5. CASE PendStateEndProc
  <2>1. UNCHANGED alive
    BY <1>5 DEF PendStateEndProc
  <2> QED
    BY <1>1, <1>5, <2>1, CountInherit, KeptInherit
<1>6. CASE Continue
  <2>1. UNCHANGED alive
    BY <1>6 DEF Continue, TaskPriChange, MutexLockPend, MutexHandOver, DelWaiters,
                TaskMutexFree, TaskDelEnd, CancelCoreSched, TickExpire, dataVars
  <2>2. CASE TaskPriChange
    BY <1>1, <2>1, <2>2, ChainInherit, KeptInherit
  <2>3. CASE CancelCoreSched
    BY <1>1, <2>1, <2>3, RoundInherit, KeptInherit
  <2>4. CASE TickExpire
    BY <1>1, <2>1, <2>4, ExpireInherit, KeptInherit
  <2>5. CASE DelWaiters
    BY <1>1, <2>5, WakeAllInherit DEF InheritIInv
  <2>6. CASE MutexLockPend
    BY <1>1, <2>1, <2>6, PendInherit, KeptInherit
  <2>7. CASE MutexHandOver
    BY <1>1, <2>1, <2>7, HandInherit, KeptInherit
  <2>8. CASE TaskMutexFree \/ TaskDelEnd
    <3>1. todo # <<>> /\ Head(todo).op \in {"mutex_free", "del_end"}
      BY <2>8 DEF TaskMutexFree, TaskDelEnd, Doing
    <3>2. Head(todo) \in Marks(todo)
      BY <3>1, MarksHead, InheritParts DEF MarkOps
    <3> QED
      BY <3>1, <3>2, InheritParts DEF NoDeletion
  <2> QED
    BY <1>6, <2>2, <2>3, <2>4, <2>5, <2>6, <2>7, <2>8, ZenonT(60) DEF Continue
<1>7. CASE MutexCall
  <2>1. PICK m \in Mutexes :
           \/ MutexCreate(m)
           \/ MutexLockNested(m)
           \/ MutexLockFree(m)
           \/ \E ticks \in Waits : MutexLockBusy(m, ticks)
           \/ MutexUnlockNested(m)
           \/ MutexUnlock(m)
           \/ MutexDel(m)
    BY <1>7 DEF MutexCall
  <2>2. CASE MutexCreate(m) \/ MutexLockFree(m)
    <3>1. alive' = alive \/ (todo = <<>> /\ alive \subseteq alive')
      BY <2>2 DEF MutexCreate, MutexLockFree, Calling, InTask
    <3> QED
      BY <1>1, <2>2, <3>1, TakeInherit, KeptInherit
  <2>3. CASE MutexLockNested(m) \/ MutexUnlockNested(m)
    <3>1. UNCHANGED alive
      BY <2>3 DEF MutexLockNested, MutexUnlockNested
    <3> QED
      BY <1>1, <2>3, <3>1, CountInherit, KeptInherit
  <2>4. ASSUME NEW ticks \in Waits, MutexLockBusy(m, ticks) PROVE InheritIInv'
    <3>1. UNCHANGED alive
      BY <2>4 DEF MutexLockBusy, dataVars
    <3> QED
      BY <1>1, <2>4, <3>1, BusyInherit, KeptInherit
  <2>5. CASE MutexUnlock(m)
    <3>1. UNCHANGED alive
      BY <2>5 DEF MutexUnlock
    <3> QED
      BY <1>1, <2>5, <3>1, UnlockInherit, KeptInherit
  <2>6. CASE MutexDel(m)
    BY <1>1, <2>6, DelInherit DEF InheritIInv
  <2> QED
    BY <2>1, <2>2, <2>3, <2>4, <2>5, <2>6
<1>8. CASE TaskCall
  <2>1. ASSUME NEW ticks \in Waits, TaskSleep(ticks) PROVE InheritIInv'
    <3>1. UNCHANGED alive
      BY <2>1 DEF TaskSleep
    <3> QED
      BY <1>1, <2>1, <3>1, CountInherit, KeptInherit
  <2>2. CASE TaskPriChangeCall
    <3>1. UNCHANGED alive
      BY <2>2 DEF TaskPriChangeCall
    <3> QED
      BY <1>1, <2>2, <3>1, OwnInherit, KeptInherit
  <2>3. ASSUME NEW t \in Tasks, NEW p \in NewPris, TaskPriChangeCheck(t, p) PROVE InheritIInv'
    <3>1. UNCHANGED alive
      BY <2>3 DEF TaskPriChangeCheck, dataVars
    <3> QED
      BY <1>1, <2>3, <3>1, RoundInherit, KeptInherit
  <2>4. ASSUME NEW t \in Tasks, NEW p \in NewPris, NEW autorun \in BOOLEAN,
               TaskCreate(t, p, autorun)
        PROVE  InheritIInv'
    <3>1. UNCHANGED alive
      BY <2>4 DEF TaskCreate
    <3> QED
      BY <1>1, <2>4, <3>1, CreateInherit, KeptInherit
  <2>5. ASSUME NEW t \in Tasks,
               \/ TaskYield \/ TaskSuspend(t) \/ TaskResume(t)
               \/ \E s \in TimeSlices : TaskTimeSliceSet(t, s)
               \/ \E policy \in {"KSCHED_FIFO", "KSCHED_RR"} : SchedPolicySet(t, policy)
        PROVE  InheritIInv'
    <3>1. UNCHANGED alive
      BY <2>5 DEF TaskYield, TaskSuspend, TaskResume, TaskTimeSliceSet, SchedPolicySet
    <3> QED
      BY <1>1, <2>5, <3>1, QueueInherit, KeptInherit
  <2>6. ASSUME NEW t \in Tasks, TaskWaitAbort(t) \/ TaskCancel(t) PROVE InheritIInv'
    <3>1. UNCHANGED alive
      BY <2>6 DEF TaskWaitAbort, TaskCancel
    <3> QED
      BY <1>1, <2>6, <3>1, AbortInherit, KeptInherit
  <2>7. ASSUME NEW t \in Tasks, TaskDel(t) PROVE InheritIInv'
    BY <2>7 DEF TaskDel, Calling
  <2>8. CASE TaskYield
    BY <2>5, <2>8, KernelAssumption
  <2> QED
    BY <1>8, <2>1, <2>2, <2>3, <2>4, <2>5, <2>6, <2>7, <2>8, Zenon DEF TaskCall
<1> QED
  BY <1>2, <1>3, <1>4, <1>5, <1>6, <1>7, <1>8, Zenon DEF Next

\* Between critical sections the priority of a task is the one due to it.
LEMMA InheritConsequence == InheritIInv => InheritanceExact
<1> SUFFICES ASSUME InheritIInv, todo = <<>>, NEW t \in Tasks, Created(t)
             PROVE  prio[t] = Min({b_prio[t]} \cup
                        {prio[w] : w \in {x \in Tasks :
                            /\ task_state[x] \in Pending
                            /\ blk_obj[x] \in Mutexes /\ mutex_task[blk_obj[x]] = t}})
  BY DEF InheritanceExact
<1> DEFINE W == {x \in Tasks : /\ task_state[x] \in Pending
                               /\ blk_obj[x] \in Mutexes /\ mutex_task[blk_obj[x]] = t}
           S == {b_prio[t]} \cup {prio[w] : w \in W}
<1>1. Marks(todo) = {} /\ Dels(todo) = {} /\ ~Doing("pri_change")
  BY MarksFew, FewWork DEF Doing
<1>2. \A x \in Tasks : x \in W <=> Presses(x, t)
  <2>1. \A m : Owns(t, m) <=> m \in alive /\ mutex_task[m] = t
    BY <1>1, NoMarks
  <2>2. \A x, m : ~Entering(x, m)
    BY <1>1 DEF Entering
  <2>3. \A x \in Tasks, m \in Mutexes : Waiting(x, m) => m \in alive
    BY <1>1, InheritParts DEF DeadSound
  <2> QED
    BY <2>1, <2>2, <2>3 DEF Presses, Waiting
<1>3. Fits(t, prio[t])
  BY <1>1, InheritParts DEF Inherited
<1>4. prio \in [Tasks -> Nat] /\ b_prio \in [Tasks -> Nat]
  BY InheritParts, PriTypes
<1>5. prio[t] \in S /\ \A y \in S : prio[t] <= y
  BY <1>2, <1>3 DEF Fits
<1>6. S \subseteq Nat /\ S # {}
  BY <1>4
<1> HIDE DEF S
<1>7. Min(S) \in S /\ \A y \in S : Min(S) <= y
  BY <1>6, MinNat
<1>8. prio[t] = Min(S)
  <2>1. PICK k : k = Min(S)
    OBVIOUS
  <2>2. k \in S /\ k <= prio[t] /\ prio[t] <= k /\ k \in Nat /\ prio[t] \in Nat
    BY <1>5, <1>6, <1>7, <2>1
  <2> QED
    BY <2>1, <2>2
<1> QED
  BY <1>8 DEF S

\* The invariant about inheritance is one.
THEOREM InheritInductive ==
    ASSUME "task_suspend" \notin IsrCalls, {"task_del", "task_redel"} \cap Calls = {}
    PROVE  Spec => []InheritIInv
<1>1. Init => InheritIInv
  BY InheritInit
<1>2. InheritIInv /\ [Next]_vars => InheritIInv'
  BY InheritNext
<1> QED
  BY <1>1, <1>2, PTL DEF Spec

\* Priority inheritance is exact: whatever tasks lock and unlock, whoever gives
\* up waiting or is made to, whatever priorities are set meanwhile, between
\* critical sections every task has the best of its own priority and of those
\* of the tasks that wait for its mutexes, through chains of any length.
THEOREM InheritanceCorrect ==
    ASSUME "task_suspend" \notin IsrCalls, {"task_del", "task_redel"} \cap Calls = {}
    PROVE  Spec => []InheritanceExact
BY InheritInductive, InheritConsequence, PTL

-----------------------------------------------------------------------------
(* Who is on the CPU.                                                      *)

\* The task t is ready, and no ready task has a better priority.
Best(t) ==
    /\ task_state[t] = "K_RDY"
    /\ \A u \in Tasks : task_state[u] = "K_RDY" => prio[t] <= prio[u]

\* The task on the CPU is on its way into core_sched, or the scheduler is locked.
Settled == sched_lock > 0 \/ pc[active] \in {"sched", "blk"}

\* Somebody waits for the mutex m.
Awaited(m) == \E x \in Tasks : Waiting(x, m)

\* The item it calls core_sched at the end of its section.
Turns(it) ==
    \/ it.op \in {"core_sched", "lock_pend"}
    \/ it.op = "hand_over" /\ Awaited(it.obj)

\* The item it need not: it makes no task ready and changes no priority.
Idles(it) ==
    \/ it.op = "hand_over"
    \/ it.op = "pri_change" /\ ~Created(it.task)

\* A switch waits for nothing but PendSV, and goes to a best task.
SwitchSound == pendsv => todo = <<>> /\ nested = 0 /\ Best(preferred)

\* Who computes is best.
CpuBest == InTask => Settled \/ Best(active)

\* A section of a task ends in core_sched, or there is nothing to reschedule.
SectionSound ==
    /\ todo # <<>> /\ nested = 0 =>
          \/ Settled
          \/ \E it \in ToSet(todo) : Turns(it)
          \/ Best(active) /\ Len(todo) = 1 /\ Idles(Head(todo))
    /\ \A it \in ToSet(todo) : it.op = "core_sched" => nested = 0

\* The three together.
SchedSound == SwitchSound /\ CpuBest /\ SectionSound

\* The invariant about who is on the CPU.
SchedIInv == InheritIInv /\ SchedSound
-----------------------------------------------------------------------------
(* The best task.                                                           *)

\* preferred_cpu_ready_task_get finds a best task.
LEMMA BestPreferred ==
    ASSUME IInv
    PROVE  PreferredTask(rq) \in Tasks /\ Best(PreferredTask(rq))
<1> DEFINE q == rq
           h == q.highest_pri
           b == PreferredTask(q)
<1>1. /\ IdlePri \in Nat /\ Pris = 0..IdlePri
      /\ SoundQueue(q, Tasks, IdlePri) /\ QueueExact(q, task_state, prio)
      /\ prio \in [Tasks -> Pris]
  BY Constants, PriTypes DEF IInv, QueueExact
<1> HIDE DEF q
<1>2. /\ q.list \in [0..IdlePri -> Seq(Tasks)] /\ h \in 0..IdlePri /\ q.list[h] # <<>>
      /\ \A x \in 0..IdlePri : q.list[x] # <<>> => h <= x
  BY <1>1, QueueParts
<1>3. b = Head(q.list[h])
  BY DEF PreferredTask
<1>4. q.list[h] \in Seq(Tasks)
  BY <1>2
<1>5. b \in Tasks /\ b \in ToSet(q.list[h])
  BY <1>2, <1>3, <1>4, TailSeq
<1>6. task_state[b] = "K_RDY" /\ prio[b] = h
  BY <1>1, <1>2, <1>5 DEF QueueExact
<1>7. ASSUME NEW u \in Tasks, task_state[u] = "K_RDY" PROVE h <= prio[u]
  <2>1. prio[u] \in Pris /\ u \in ToSet(q.list[prio[u]])
    BY <1>1, <1>7 DEF QueueExact
  <2>2. q.list[prio[u]] # <<>>
    BY <2>1, FewWork DEF ToSet
  <2> QED
    BY <1>1, <1>2, <2>1, <2>2
<1>8. b \in Tasks /\ Best(b)
  BY <1>5, <1>6, <1>7 DEF Best
<1> QED
  BY <1>8 DEF q

\* A best task is in the first list that holds one.
LEMMA BestListed ==
    ASSUME IInv, NEW t \in Tasks, Best(t)
    PROVE  t \in ToSet(rq.list[FindFirstBit(rq.list)])
<1>1. /\ IdlePri \in Nat /\ Pris = 0..IdlePri
      /\ SoundQueue(rq, Tasks, IdlePri) /\ QueueExact(rq, task_state, prio)
      /\ prio \in [Tasks -> Pris]
  BY Constants, PriTypes DEF IInv, QueueExact
<1>2. PICK h : h = FindFirstBit(rq.list) /\ h = rq.highest_pri
  BY <1>1 DEF SoundQueue
<1>3. /\ rq.list \in [0..IdlePri -> Seq(Tasks)] /\ h \in 0..IdlePri /\ rq.list[h] # <<>>
      /\ \A x \in 0..IdlePri : rq.list[x] # <<>> => h <= x
  BY <1>1, <1>2, QueueParts, ZenonT(60)
<1>4. PICK s : s = rq.list[h]
  OBVIOUS
<1>5. Head(s) \in Tasks /\ Head(s) \in ToSet(s)
  BY <1>3, <1>4, TailSeq
<1>6. task_state[Head(s)] = "K_RDY" /\ prio[Head(s)] = h
  BY <1>1, <1>3, <1>4, <1>5 DEF QueueExact
<1>7. prio[t] <= h /\ task_state[t] = "K_RDY" /\ prio[t] \in Pris
  BY <1>1, <1>5, <1>6 DEF Best
<1>8. t \in ToSet(rq.list[prio[t]])
  BY <1>1, <1>7 DEF QueueExact
<1>9. rq.list[prio[t]] # <<>>
  BY <1>8 DEF ToSet
<1>10. h <= prio[t]
  BY <1>1, <1>3, <1>7, <1>9
<1>11. prio[t] = h
  BY <1>1, <1>3, <1>7, <1>10
<1> QED
  BY <1>2, <1>8, <1>11

\* core_sched and krhino_intrpt_exit switch to a best task or go on with one.
LEMMA ReschedBest ==
    ASSUME IInv, Resched, ~pendsv, UNCHANGED <<task_state, prio, active, sched_lock>>
    PROVE  /\ pendsv' => Best(preferred)'
           /\ ~pendsv' => sched_lock' > 0 \/ Best(active)'
<1>1. PICK b : b = PreferredTask(rq)
  OBVIOUS
<1>2. Best(b)
  BY <1>1, BestPreferred
<1>3. CASE sched_lock > 0 \/ b = active
  <2>1. UNCHANGED <<preferred, pendsv>>
    BY <1>1, <1>3 DEF Resched
  <2> QED
    BY <1>2, <1>3, <2>1 DEF Best
<1>4. CASE ~(sched_lock > 0 \/ b = active)
  <2>1. preferred' = b /\ pendsv' = TRUE
    BY <1>1, <1>4 DEF Resched
  <2> QED
    BY <1>2, <2>1 DEF Best
<1> QED
  BY <1>3, <1>4
-----------------------------------------------------------------------------
(* The ways in which a step keeps the invariant.                            *)

\* The task is on its way into core_sched.
LEMMA SettledStep ==
    ASSUME ~pendsv', Settled', \A it \in ToSet(todo') : it.op = "core_sched" => nested' = 0
    PROVE  SchedSound'
BY DEF SchedSound, SwitchSound, CpuBest, SectionSound

\* An interrupt is active: its end decides.
LEMMA IsrStep ==
    ASSUME ~pendsv', nested' # 0, \A it \in ToSet(todo') : it.op # "core_sched"
    PROVE  SchedSound'
BY DEF SchedSound, SwitchSound, CpuBest, SectionSound, InTask

\* The section goes on to core_sched.
LEMMA TurnStep ==
    ASSUME ~pendsv', NEW it \in ToSet(todo'), Turns(it)',
           \A x \in ToSet(todo') : x.op = "core_sched" => nested' = 0
    PROVE  SchedSound'
<1>1. todo' # <<>>
  BY DEF ToSet
<1> QED
  BY <1>1 DEF SchedSound, SwitchSound, CpuBest, SectionSound, InTask

\* The task on the CPU is best.
LEMMA BestStep ==
    ASSUME ~pendsv', Best(active)',
           \/ todo' = <<>>
           \/ \E it : todo' = <<it>> /\ Idles(it)'
    PROVE  SchedSound'
<1>1. SwitchSound' /\ CpuBest'
  BY DEF SwitchSound, CpuBest
<1>2. CASE todo' = <<>>
  <2>1. ToSet(todo') = {}
    BY <1>2 DEF ToSet
  <2> QED
    BY <1>1, <1>2, <2>1 DEF SchedSound, SectionSound
<1>3. ASSUME NEW it, todo' = <<it>>, Idles(it)' PROVE SchedSound'
  <2>1. ToSet(todo') = {it} /\ Len(todo') = 1 /\ Head(todo') = it
    BY <1>3 DEF ToSet
  <2>2. it.op # "core_sched" /\ Idles(Head(todo))'
    BY <1>3, <2>1 DEF Idles
  <2>3. SectionSound'
    BY <2>1, <2>2 DEF SectionSound
  <2> QED
    BY <1>1, <2>3 DEF SchedSound
<1> QED
  BY <1>2, <1>3

\* A call changes nothing that counts.
LEMMA QuietStep ==
    ASSUME SchedSound, InTask, pc[active] \notin {"sched", "blk"},
           UNCHANGED <<task_state, prio, active, pendsv, todo>>,
           sched_lock' = sched_lock \/ sched_lock' > 0
    PROVE  SchedSound'
<1>1. todo' = <<>> /\ ~pendsv' /\ (sched_lock > 0 \/ Best(active))
  BY DEF InTask, SchedSound, CpuBest, Settled
<1>2. ToSet(todo') = {}
  BY <1>1 DEF ToSet
<1>3. CASE Settled'
  BY <1>1, <1>2, <1>3, SettledStep
<1>4. CASE ~Settled'
  <2>1. Best(active)'
    BY <1>1, <1>4 DEF Settled, Best
  <2> QED
    BY <1>1, <2>1, BestStep
<1> QED
  BY <1>3, <1>4

\* Nothing changes.
LEMMA StutterSched == ASSUME SchedSound, UNCHANGED vars PROVE SchedSound'
BY DEF SchedSound, SwitchSound, CpuBest, SectionSound, Settled, Best, Turns, Idles, Awaited,
       Waiting, Created, InTask, vars, dataVars, waitVars, cpuVars, ctlVars

-----------------------------------------------------------------------------
(* The steps of the CPU.                                                    *)

\* core_sched, PendSV, the idle loop, and the beginning and end of the tick.
LEMMA CpuSched ==
    ASSUME IsrCalls \subseteq {"tick"}, SchedIInv,
           \/ CoreSched \/ PendSV \/ IdleLoop \/ IntrptEnter \/ TickEnter \/ IntrptExit
    PROVE  SchedSound'
<1>1. /\ IInv /\ SwitchSound /\ SchedSound /\ todo = <<>> /\ todo' = todo
      /\ UNCHANGED <<task_state, prio, sched_lock>>
  BY InheritParts DEF SchedIInv, SchedSound, CoreSched, PendSV, IdleLoop, IntrptEnter,
     TickEnter, IntrptExit, InTask, dataVars, ctlVars, vars
<1>2. ToSet(todo') = {}
  BY <1>1 DEF ToSet
<1>3. nested \in Nat
  BY <1>1, Limits DEF IInv, FieldsOK
<1>4. CASE /\ Resched /\ nested' = 0 /\ ~pendsv /\ UNCHANGED active
  <2>1. /\ pendsv' => Best(preferred)'
        /\ ~pendsv' => sched_lock' > 0 \/ Best(active)'
    BY <1>1, <1>4, ReschedBest
  <2>2. SwitchSound' /\ CpuBest'
    BY <1>1, <1>4, <2>1 DEF SwitchSound, CpuBest, Settled, InTask
  <2>3. SectionSound'
    BY <1>1, <1>2 DEF SectionSound
  <2> QED
    BY <2>2, <2>3 DEF SchedSound
<1>5. CASE CoreSched
  BY <1>4, <1>5 DEF CoreSched, InTask
<1>6. CASE PendSV
  <2>1. active' = preferred /\ ~pendsv' /\ Best(preferred) /\ UNCHANGED <<task_state, prio>>
    BY <1>1, <1>6 DEF PendSV, SwitchSound
  <2>2. Best(active)'
    BY <2>1 DEF Best
  <2> QED
    BY <1>1, <2>1, <2>2, BestStep
<1>7. CASE IdleLoop
  BY <1>1, <1>7, StutterSched DEF IdleLoop
<1>8. CASE IntrptEnter
  BY <1>8 DEF IntrptEnter
<1>9. CASE TickEnter
  <2>1. ~pendsv' /\ nested' # 0
    BY <1>9 DEF TickEnter, InTask
  <2> QED
    BY <1>2, <2>1, IsrStep
<1>10. CASE IntrptExit
  <2>1. /\ ~pendsv /\ nested > 0 /\ nested' = nested - 1 /\ UNCHANGED active
        /\ IF nested = 1 THEN Resched ELSE UNCHANGED <<preferred, pendsv>>
    BY <1>1, <1>3, <1>10 DEF IntrptExit, SwitchSound
  <2>2. CASE nested = 1
    BY <1>4, <2>1, <2>2
  <2>3. CASE nested # 1
    <3>1. nested' # 0 /\ ~pendsv'
      BY <1>3, <2>1, <2>3
    <3> QED
      BY <1>2, <3>1, IsrStep
  <2> QED
    BY <2>2, <2>3
<1> QED
  BY <1>5, <1>6, <1>7, <1>8, <1>9, <1>10

\* The two parts of krhino_tick_proc.
LEMMA TickSched ==
    ASSUME SchedIInv, TickProc \/ TimeSliceUpdate
    PROVE  SchedSound'
<1>1. nested = 1 /\ ~pendsv /\ todo = <<>> /\ UNCHANGED <<nested, pendsv>>
  BY DEF SchedIInv, SchedSound, SwitchSound, TickProc, TimeSliceUpdate, InTickIsr
<1>2. \A it \in ToSet(todo') : it.op # "core_sched"
  <2>1. CASE TimeSliceUpdate
    <3>1. todo' = <<>>
      BY <1>1, <2>1 DEF TimeSliceUpdate, ctlVars
    <3> QED
      BY <3>1, SMTT(30) DEF ToSet
  <2>2. CASE TickProc
    <3>1. PICK it : it = Item("tick", NULL, NULL, 0)
      OBVIOUS
    <3>2. it.op = "tick" /\ todo' = <<it>>
      BY <2>2, <3>1 DEF TickProc, Item
    <3> QED
      BY <3>2 DEF ToSet
  <2> QED
    BY <2>1, <2>2
<1> QED
  BY <1>1, <1>2, IsrStep
-----------------------------------------------------------------------------
(* The calls.                                                               *)

\* RHINO_CRITICAL_EXIT_SCHED in a task.
LEMMA ExitSettled ==
    ASSUME IInv, ExitSched, nested = 0, UNCHANGED active
    PROVE  Settled'
<1>1. pc \in [Tasks -> {"run", "sched", "blk", "end", "pri"}] /\ active \in Tasks
  BY DEF IInv, FieldsOK
<1>2. pc' = [pc EXCEPT ![active] = "sched"]
  BY DEF ExitSched
<1> QED
  BY <1>1, <1>2 DEF Settled

\* A call that goes into core_sched.
LEMMA CallSettled ==
    ASSUME SchedIInv, InTask, UNCHANGED cpuVars, Settled'
    PROVE  SchedSound'
<1>1. ~pendsv' /\ nested' = 0
  BY DEF InTask, cpuVars
<1> QED
  BY <1>1, SettledStep

\* The calls that always end in core_sched.
LEMMA SettledCalls ==
    ASSUME IsrCalls \subseteq {"tick"}, SchedIInv, NEW t \in Tasks,
           \/ TaskYield \/ TaskSuspend(t) \/ TaskResume(t) \/ TaskWaitAbort(t)
           \/ \E m \in Mutexes : MutexDel(m)
    PROVE  SchedSound'
<1>1. InTask /\ ExitSched /\ UNCHANGED cpuVars
  BY DEF TaskYield, TaskSuspend, TaskResume, TaskWaitAbort, MutexDel, Calling, InIsr
<1>2. Settled'
  BY <1>1, ExitSettled, InheritParts DEF SchedIInv, InTask, cpuVars
<1> QED
  BY <1>1, <1>2, CallSettled

\* krhino_task_sleep blocks.
LEMMA SleepSched ==
    ASSUME SchedIInv, NEW ticks, TaskSleep(ticks)
    PROVE  SchedSound'
<1>1. InTask /\ UNCHANGED cpuVars /\ pc' = [pc EXCEPT ![active] = "blk"]
  BY DEF TaskSleep, Calling
<1>2. pc \in [Tasks -> {"run", "sched", "blk", "end", "pri"}] /\ active \in Tasks
  BY InheritParts DEF SchedIInv, IInv, FieldsOK
<1>3. Settled'
  BY <1>1, <1>2 DEF Settled, cpuVars
<1> QED
  BY <1>1, <1>3, CallSettled

\* The calls that make no task ready and change no priority.
LEMMA QuietCalls ==
    ASSUME SchedIInv,
           \/ PendStateEndProc
           \/ \E m \in Mutexes : \/ MutexCreate(m) \/ MutexLockNested(m) \/ MutexLockFree(m)
                                 \/ MutexUnlockNested(m)
           \/ \E t \in Tasks : \/ \E s \in TimeSlices : TaskTimeSliceSet(t, s)
                               \/ \E policy \in {"KSCHED_FIFO", "KSCHED_RR"} :
                                     SchedPolicySet(t, policy)
                               \/ \E p \in NewPris : TaskPriChangeCheck(t, p)
    PROVE  SchedSound'
<1>1. /\ InTask /\ pc[active] \in {"run", "end"}
      /\ UNCHANGED <<task_state, prio, active, pendsv, todo, sched_lock>>
  BY DEF PendStateEndProc, MutexCreate, MutexLockNested, MutexLockFree, MutexUnlockNested,
         TaskTimeSliceSet, SchedPolicySet, TaskPriChangeCheck, Calling, InTask, dataVars,
         cpuVars, ctlVars
<1> QED
  BY <1>1, QuietStep DEF SchedIInv

\* krhino_sched_disable, and krhino_sched_enable, which ends in core_sched when
\* the lock is open.
LEMMA LockSched ==
    ASSUME SchedIInv, SchedDisable \/ SchedEnable
    PROVE  SchedSound'
<1>1. IInv /\ sched_lock \in 0..MaxSchedLock /\ MaxSchedLock \in Nat
  <2>1. IInv
    BY InheritParts DEF SchedIInv
  <2> QED
    BY <2>1, Limits DEF IInv, FieldsOK
<1>2. CASE SchedEnable /\ sched_lock = 1
  <2>1. InTask /\ ExitSched /\ UNCHANGED cpuVars
    BY <1>2 DEF SchedEnable, Calling
  <2>2. Settled'
    BY <1>1, <2>1, ExitSettled DEF InTask, cpuVars
  <2> QED
    BY <2>1, <2>2, CallSettled
<1>3. CASE SchedDisable \/ (SchedEnable /\ sched_lock # 1)
  <2>1. /\ InTask /\ pc[active] = "run"
        /\ UNCHANGED <<task_state, prio, active, pendsv, todo>> /\ sched_lock' > 0
    BY <1>1, <1>3 DEF SchedDisable, SchedEnable, Calling, InTask, cpuVars, ctlVars
  <2> QED
    BY <2>1, QuietStep DEF SchedIInv
<1> QED
  BY <1>2, <1>3

\* krhino_task_create: a task that is not to run at once stays suspended.
LEMMA CreateSched ==
    ASSUME SchedIInv, NEW t \in Tasks, NEW p \in NewPris, NEW autorun \in BOOLEAN,
           TaskCreate(t, p, autorun)
    PROVE  SchedSound'
<1>1. /\ InTask /\ pc[active] = "run" /\ ~Created(t)
      /\ pc' = [pc EXCEPT ![t] = "run", ![active] = IF autorun THEN "sched" ELSE "run"]
      /\ task_state' = [task_state EXCEPT ![t] = IF autorun THEN "K_RDY" ELSE "K_SUSPENDED"]
      /\ prio' = [prio EXCEPT ![t] = p]
      /\ UNCHANGED <<cpuVars, todo, sched_lock>>
  BY DEF TaskCreate, Calling
<1>2. /\ pc \in [Tasks -> {"run", "sched", "blk", "end", "pri"}] /\ active \in Tasks
      /\ prio \in [Tasks -> Pris] /\ task_state \in [Tasks -> TaskStates]
  BY InheritParts DEF SchedIInv, IInv, FieldsOK
<1>3. CASE autorun
  <2>1. Settled'
    BY <1>1, <1>2, <1>3 DEF Settled, cpuVars
  <2> QED
    BY <1>1, <2>1, CallSettled
<1>4. CASE sched_lock > 0
  <2>1. Settled'
    BY <1>1, <1>4 DEF Settled
  <2> QED
    BY <1>1, <2>1, CallSettled
<1>5. CASE ~autorun /\ ~(sched_lock > 0)
  <2>1. Best(active)
    BY <1>1, <1>5 DEF SchedIInv, SchedSound, CpuBest, Settled
  <2>2. active # t
    BY <1>1, <2>1 DEF Best, Created
  <2>3. /\ task_state'[active] = task_state[active] /\ prio'[active] = prio[active]
        /\ \A u \in Tasks : task_state'[u] = "K_RDY" => /\ task_state[u] = "K_RDY"
                                                        /\ prio'[u] = prio[u]
    BY <1>1, <1>2, <1>5, <2>2
  <2>4. Best(active)'
    BY <1>1, <2>1, <2>3 DEF Best, cpuVars
  <2>5. todo' = <<>> /\ ~pendsv'
    BY <1>1 DEF InTask, cpuVars
  <2> QED
    BY <2>4, <2>5, BestStep
<1> QED
  BY <1>3, <1>4, <1>5

\* krhino_task_pri_change: there is no core_sched after the error for a task
\* that was deleted since the check, whose priority is left alone.
LEMMA OwnSched == ASSUME SchedIInv, TaskPriChangeCall PROVE SchedSound'
<1>1. PICK t, limit :
         /\ InTask /\ pc[active] = "pri"
         /\ todo' = <<Item("pri_change", t, NULL, limit)>>
         /\ pc' = [pc EXCEPT ![active] = IF Created(t) \/ prio[t] = limit THEN "sched" ELSE "run"]
         /\ UNCHANGED <<task_state, prio, cpuVars, sched_lock>>
  BY DEF TaskPriChangeCall
<1>2. pc \in [Tasks -> {"run", "sched", "blk", "end", "pri"}] /\ active \in Tasks
  BY InheritParts DEF SchedIInv, IInv, FieldsOK
<1>3. CASE Created(t) \/ prio[t] = limit
  <2>1. Settled'
    BY <1>1, <1>2, <1>3 DEF Settled, cpuVars
  <2> QED
    BY <1>1, <2>1, CallSettled
<1>4. CASE sched_lock > 0
  <2>1. Settled'
    BY <1>1, <1>4 DEF Settled
  <2> QED
    BY <1>1, <2>1, CallSettled
<1>5. CASE ~Created(t) /\ ~(sched_lock > 0)
  <2>1. Best(active)
    BY <1>1, <1>5 DEF SchedIInv, SchedSound, CpuBest, Settled
  <2>2. Best(active)' /\ ~pendsv'
    BY <1>1, <2>1 DEF Best, InTask, cpuVars
  <2>3. PICK it : it = Item("pri_change", t, NULL, limit)
    OBVIOUS
  <2>4. todo' = <<it>> /\ it.op = "pri_change" /\ it.task = t
    BY <1>1, <2>3 DEF Item
  <2>5. Idles(it)'
    BY <1>1, <1>5, <2>4 DEF Idles, Created
  <2> QED
    BY <2>2, <2>4, <2>5, BestStep
<1> QED
  BY <1>3, <1>4, <1>5

-----------------------------------------------------------------------------
(* Changes of priority at the beginning of a section.                       *)

\* The work r is a change of priority or nothing.
PriOnly(r) == r = <<>> \/ \E o, p : r = <<Item("pri_change", o, NULL, p)>>

\* mutex_release and mutex_task_pri_reset leave nothing else to do.
LEMMA ResetOnly ==
    /\ \A t, ms, lists : PriOnly(MutexRelease(t, ms, lists))
    /\ \A t, lists : PriOnly(MutexTaskPriReset(t, lists))
<1>1. ASSUME NEW t, NEW ms, NEW lists PROVE PriOnly(MutexRelease(t, ms, lists))
  <2>1. PICK p : p = PriLook(b_prio[t], ms, lists, prio)
    OBVIOUS
  <2>2. MutexRelease(t, ms, lists) = IF p = prio[t] THEN <<>>
                                     ELSE <<Item("pri_change", t, NULL, p)>>
    BY <2>1 DEF MutexRelease
  <2> QED
    BY <2>2, Zenon DEF PriOnly
<1>2. ASSUME NEW t, NEW lists PROVE PriOnly(MutexTaskPriReset(t, lists))
  <2>1. \/ MutexTaskPriReset(t, lists) = <<>>
        \/ \E o, ms : MutexTaskPriReset(t, lists) = MutexRelease(o, ms, lists)
    BY Zenon DEF MutexTaskPriReset
  <2>2. CASE MutexTaskPriReset(t, lists) = <<>>
    BY <2>2, Zenon DEF PriOnly
  <2>3. ASSUME NEW o, NEW ms, MutexTaskPriReset(t, lists) = MutexRelease(o, ms, lists)
        PROVE  PriOnly(MutexTaskPriReset(t, lists))
    BY <1>1, <2>3, Zenon
  <2> QED
    BY <2>1, <2>2, <2>3, Zenon
<1> QED
  BY <1>1, <1>2, Zenon

\* The work behind it is still there.
LEMMA PriOnlyFirst ==
    ASSUME NEW r, PriOnly(r), NEW td \in Seq(Items)
    PROVE  /\ ToSet(td) \subseteq ToSet(r \o td)
           /\ \A x \in ToSet(r \o td) : x \in ToSet(td) \/ x.op = "pri_change"
<1>1. CASE r = <<>>
  <2>1. r \o td = td
    BY <1>1
  <2> QED
    BY <2>1
<1>2. ASSUME NEW o, NEW p, r = <<Item("pri_change", o, NULL, p)>>
      PROVE  /\ ToSet(td) \subseteq ToSet(r \o td)
             /\ \A x \in ToSet(r \o td) : x \in ToSet(td) \/ x.op = "pri_change"
  <2>1. PICK it : it = Item("pri_change", o, NULL, p)
    OBVIOUS
  <2>2. it.op = "pri_change" /\ r = <<it>>
    BY <1>2, <2>1 DEF Item
  <2>3. PICK S : S = Items \cup {it}
    OBVIOUS
  <2>4. td \in Seq(S) /\ it \in S
    BY <2>3
  <2>5. ToSet(<<it>> \o td) = ToSet(td) \cup {it}
    BY <2>4, ConsSet
  <2> QED
    BY <2>2, <2>5
<1> QED
  BY <1>1, <1>2 DEF PriOnly

\* krhino_task_cancel calls core_sched inside its section, krhino_mutex_lock
\* when the caller is on the list.
LEMMA TurnCalls ==
    ASSUME SchedIInv,
           \/ \E t \in Tasks : TaskCancel(t)
           \/ \E m \in Mutexes, ticks \in Waits : MutexLockBusy(m, ticks)
    PROVE  SchedSound'
<1>1. InTask /\ ~pendsv' /\ nested' = 0 /\ active \in Tasks
  <2>1. InTask /\ UNCHANGED cpuVars
    BY DEF TaskCancel, MutexLockBusy, Calling
  <2> QED
    BY <2>1, InheritParts DEF SchedIInv, InTask, cpuVars, IInv, FieldsOK
<1>2. \E r, it : /\ PriOnly(r) /\ it \in Items /\ it.op \in {"core_sched", "lock_pend"}
                 /\ todo' = r \o <<it>>
  <2>1. ASSUME NEW t \in Tasks, TaskCancel(t)
        PROVE  \E r, it : /\ PriOnly(r) /\ it \in Items /\ it.op \in {"core_sched", "lock_pend"}
                          /\ todo' = r \o <<it>>
    <3>1. PICK r : r = (IF task_state[t] \in Pending THEN MutexTaskPriReset(t, blk_list')
                        ELSE <<>>)
      OBVIOUS
    <3>2. PriOnly(r)
      <4>1. PriOnly(<<>>)
        BY Zenon DEF PriOnly
      <4>2. PriOnly(MutexTaskPriReset(t, blk_list'))
        BY ResetOnly, Zenon
      <4> QED
        BY <3>1, <4>1, <4>2, Zenon
    <3>3. PICK it : it = Item("core_sched", NULL, NULL, 0)
      OBVIOUS
    <3>4. it \in Items /\ it.op = "core_sched"
      BY <3>3 DEF Item, Items, Ops
    <3>5. todo' = r \o <<it>>
      BY <2>1, <3>1, <3>3 DEF TaskCancel
    <3> QED
      BY <3>2, <3>4, <3>5
  <2>2. ASSUME NEW m \in Mutexes, NEW ticks \in Waits, MutexLockBusy(m, ticks)
        PROVE  \E r, it : /\ PriOnly(r) /\ it \in Items /\ it.op \in {"core_sched", "lock_pend"}
                          /\ todo' = r \o <<it>>
    <3>1. PICK r : r = (IF prio[active] < prio[mutex_task[m]]
                        THEN <<Item("pri_change", mutex_task[m], NULL, prio[active])>>
                        ELSE <<>>)
      OBVIOUS
    <3>2. PriOnly(r)
      BY <3>1, Zenon DEF PriOnly
    <3>3. PICK it : it = Item("lock_pend", active, m, ticks)
      OBVIOUS
    <3>4. ticks \in Int
      BY KernelAssumption DEF FOREVER
    <3>5. it \in Items /\ it.op = "lock_pend"
      BY <1>1, <3>3, <3>4, SMTT(30) DEF Item, Items, Ops, Objs
    <3>6. todo' = r \o <<it>>
      BY <2>2, <3>1, <3>3 DEF MutexLockBusy
    <3> QED
      BY <3>2, <3>5, <3>6
  <2> QED
    BY <2>1, <2>2
<1>3. PICK r, it : /\ PriOnly(r) /\ it \in Items /\ it.op \in {"core_sched", "lock_pend"}
                   /\ todo' = r \o <<it>>
  BY <1>2
<1>4. <<it>> \in Seq(Items) /\ it \in ToSet(<<it>>)
  BY <1>3 DEF ToSet
<1>5. it \in ToSet(todo')
  BY <1>3, <1>4, PriOnlyFirst
<1>6. Turns(it)'
  BY <1>3 DEF Turns
<1> QED
  BY <1>1, <1>5, <1>6, TurnStep

\* What fits a task is unique.
LEMMA FitsOnce ==
    ASSUME NEW t, NEW p, Fits(t, p), NEW q, Fits(t, q)', b_prio'[t] = b_prio[t],
           UNCHANGED prio, prio \in [Tasks -> Int], p \in Int, q \in Int,
           \A x \in Tasks : Presses(x, t)' <=> Presses(x, t)
    PROVE  p = q
<1>1. /\ p <= b_prio[t] /\ \A x \in Tasks : Presses(x, t) => p <= prio[x]
      /\ p = b_prio[t] \/ \E x \in Tasks : Presses(x, t) /\ prio[x] = p
  BY DEF Fits
<1>2. /\ q <= b_prio[t] /\ \A x \in Tasks : Presses(x, t) => q <= prio[x]
      /\ q = b_prio[t] \/ \E x \in Tasks : Presses(x, t) /\ prio[x] = q
  BY DEF Fits
<1>3. p <= q /\ q <= p
  BY <1>1, <1>2
<1> QED
  BY <1>3

\* The last krhino_mutex_unlock wakes the first waiter and ends in core_sched;
\* when there is none the priority of the caller stays what it is, since nobody
\* gave it anything for this mutex.
LEMMA UnlockSched ==
    ASSUME SchedIInv, InheritIInv', NEW m \in Mutexes, MutexUnlock(m)
    PROVE  SchedSound'
<1>1. /\ Calling("mutex_unlock") /\ mutex_task[m] = active /\ m \in alive
      /\ UNCHANGED <<prio, b_prio, blk_obj, task_state, alive, mutex_task, cpuVars, pc,
                     sched_lock>>
  BY DEF MutexUnlock, waitVars
<1>2. /\ active \in Tasks /\ active' = active /\ Created(active) /\ todo = <<>>
      /\ Marks(todo) = {} /\ InTask /\ pc[active] = "run" /\ ~pendsv' /\ nested' = 0
  BY <1>1, CallerMutex, InheritParts DEF SchedIInv, Calling, InTask, cpuVars
<1>3. PICK h : h.op = "hand_over" /\ h.obj = m /\ Marks(todo') = {h}
  BY UnlockMarks, InheritParts DEF SchedIInv
<1>4. h \in ToSet(todo')
  BY <1>3 DEF Marks
<1>5. \A x, y : Waiting(x, y)' <=> Waiting(x, y)
  BY <1>1 DEF Waiting
<1>6. CASE Awaited(m)
  <2>1. Turns(h)'
    BY <1>3, <1>5, <1>6 DEF Turns, Awaited
  <2> QED
    BY <1>2, <1>4, <2>1, TurnStep
<1>7. CASE sched_lock > 0
  <2>1. Settled'
    BY <1>1, <1>7 DEF Settled
  <2> QED
    BY <1>1, <1>2, <2>1, CallSettled
<1>8. CASE ~Awaited(m) /\ ~(sched_lock > 0)
  <2>1. \A x \in Tasks : Presses(x, active)' <=> Presses(x, active)
    <3>1. \A y : GivenBack(y)' <=> y = m
      BY <1>3 DEF GivenBack
    <3>2. \A y : ~GivenBack(y)
      BY <1>2 DEF GivenBack
    <3>3. \A y : y # m => (Owns(active, y)' <=> Owns(active, y))
      BY <1>1, <1>2, <3>1, <3>2 DEF Owns
    <3>4. \A x, y : ~Entering(x, y)' /\ ~Entering(x, y)
      BY <1>2, <1>3 DEF Entering
    <3>5. \A x \in Tasks : ~Waiting(x, m)
      BY <1>8 DEF Awaited
    <3> QED
      BY <1>2, <1>5, <3>3, <3>4, <3>5 DEF Presses
  <2>2. PICK p : p = PriLook(b_prio[active], ToSet(mutex_list'[active]), blk_list, prio)
    OBVIOUS
  <2>3. PICK it : it = Item("hand_over", active, m, 0)
    OBVIOUS
  <2>4. it.op = "hand_over"
    BY <2>3 DEF Item
  <2>5. todo' = (IF p = prio[active] THEN <<>> ELSE <<Item("pri_change", active, NULL, p)>>)
                \o <<it>>
    BY <2>2, <2>3 DEF MutexUnlock, MutexRelease
  <2>6. prio[active] = p
    <3> SUFFICES ASSUME prio[active] # p PROVE FALSE
      OBVIOUS
    <3>1. PICK c : c = Item("pri_change", active, NULL, p)
      OBVIOUS
    <3>2. c.op = "pri_change" /\ c.task = active /\ c.arg = p /\ todo' = <<c>> \o <<it>>
      BY <2>5, <3>1 DEF Item
    <3>3. Head(todo') = c /\ todo' # <<>>
      BY <3>2
    <3>4. Doing("pri_change")' /\ Head(todo').task = active
      BY <3>2, <3>3 DEF Doing
    <3>5. Aim(active)' = p
      BY <1>2, <3>2, <3>3, <3>4 DEF Aim
    <3>6. Fits(active, Aim(active))'
      <4>1. Created(active)'
        BY <1>1, <1>2 DEF Created
      <4> QED
        BY <1>2, <4>1, InheritParts DEF InheritIInv, Inherited
    <3>7. Fits(active, p)'
      BY <1>2, <3>5, <3>6 DEF Fits
    <3>8. Fits(active, prio[active])
      <4>1. ~Doing("pri_change")
        BY <1>2 DEF Doing
      <4> QED
        BY <1>2, <4>1, InheritParts DEF SchedIInv, Inherited, Aim
    <3>9. prio \in [Tasks -> Int] /\ prio[active] \in Int
      BY <1>2, InheritParts, PriTypes DEF SchedIInv
    <3>10. p \in Int
      <4>1. b_prio' \in [Tasks -> Int] /\ prio' \in [Tasks -> Int]
        BY PriTypesNext, InheritParts DEF InheritIInv, CountIInv, MutexIInv
      <4> QED
        BY <1>1, <1>2, <3>7, <4>1 DEF Fits
    <3>11. PICK t, q : t \in Tasks /\ t = active /\ q = prio[t]
      BY <1>2
    <3>12. /\ Fits(t, q) /\ Fits(t, p)' /\ b_prio'[t] = b_prio[t] /\ q \in Int
           /\ \A x \in Tasks : Presses(x, t)' <=> Presses(x, t)
      BY <1>1, <1>2, <2>1, <3>7, <3>8, <3>9, <3>11 DEF Fits, Presses
    <3>13. q = p
      BY <1>1, <3>9, <3>10, <3>12, FitsOnce
    <3> QED
      BY <3>11, <3>13
  <2>7. todo' = <<it>>
    BY <2>5, <2>6
  <2>8. Best(active)
    BY <1>2, <1>8 DEF SchedIInv, SchedSound, CpuBest, Settled
  <2>9. Best(active)'
    BY <1>1, <1>2, <2>8 DEF Best
  <2>10. Idles(it)'
    BY <2>4 DEF Idles
  <2> QED
    BY <1>2, <2>7, <2>9, <2>10, BestStep
<1> QED
  BY <1>6, <1>7, <1>8

-----------------------------------------------------------------------------
(* The rest of a critical section in progress.                              *)

\* What the invariant says of a section in progress.
LEMMA SectionParts ==
    ASSUME SchedIInv, todo # <<>>
    PROVE  /\ IInv /\ ~pendsv /\ todo \in Seq(Items)
           /\ nested = 0 => \/ Settled
                            \/ \E it \in ToSet(todo) : Turns(it)
                            \/ Best(active) /\ Len(todo) = 1 /\ Idles(Head(todo))
           /\ nested # 0 => \A it \in ToSet(todo) : it.op # "core_sched"
           /\ Tail(todo) = <<>> => ToSet(todo) = {Head(todo)}
<1>1. IInv /\ todo \in Seq(Items) /\ SectionSound /\ ~pendsv
  BY InheritParts DEF SchedIInv, SchedSound, SwitchSound
<1>2. ASSUME Tail(todo) = <<>> PROVE ToSet(todo) = {Head(todo)}
  <2>1. \A x \in ToSet(todo) : x = Head(todo) \/ x \in ToSet(<<>>)
    BY <1>1, <1>2, HeadOrTail
  <2>2. ToSet(<<>>) = {}
    BY DEF ToSet
  <2>3. Head(todo) \in ToSet(todo)
    BY <1>1, TailSeq
  <2> QED
    BY <2>1, <2>2, <2>3
<1> QED
  BY <1>1, <1>2 DEF SectionSound

\* A round of task_pri_change passes the change on, and leaves what comes after.
LEMMA PriChangeRest ==
    ASSUME IInv, TaskPriChange
    PROVE  /\ ToSet(Tail(todo)) \subseteq ToSet(todo')
           /\ \A x \in ToSet(todo') : x \in ToSet(todo) \/ x.op = "pri_change"
<1>1. Doing("pri_change")
  BY DEF TaskPriChange
<1>2. Tail(todo) \in Seq(Items) /\ ToSet(Tail(todo)) \subseteq ToSet(todo)
  BY <1>1, DoingItem, TailSeq
<1> DEFINE t == Head(todo).task
           new == Head(todo).arg
           m == blk_obj[t]
           o == mutex_task[m]
           look == PriLook(b_prio[o], ToSet(mutex_list[o]), blk_list', prio')
           next == IF m \notin Mutexes \cap alive THEN <<>>
                   ELSE IF prio[o] > new THEN <<Item("pri_change", o, NULL, new)>>
                   ELSE IF prio[o] = prio[t] /\ look # prio[o]
                        THEN <<Item("pri_change", o, NULL, look)>>
                   ELSE <<>>
<1>3. todo' = Tail(todo) \/ todo' = next \o Tail(todo)
  BY DEF TaskPriChange
<1>4. PriOnly(next)
  <2> HIDE DEF o, t, m, look, new
  <2> QED
    BY Zenon DEF PriOnly
<1> HIDE DEF next
<1>5. CASE todo' = Tail(todo)
  BY <1>2, <1>5
<1>6. CASE todo' = next \o Tail(todo)
  BY <1>2, <1>4, <1>6, PriOnlyFirst
<1> QED
  BY <1>3, <1>5, <1>6

\* A round of task_pri_change.
LEMMA ChainSched == ASSUME SchedIInv, TaskPriChange PROVE SchedSound'
<1>1. /\ Doing("pri_change") /\ todo # <<>> /\ Head(todo).op = "pri_change"
      /\ UNCHANGED <<task_state, sched_lock, blk_obj, cpuVars, pc>>
  BY DEF TaskPriChange, Doing
<1>2. /\ IInv /\ ~pendsv /\ todo \in Seq(Items)
      /\ nested = 0 => \/ Settled
                       \/ \E it \in ToSet(todo) : Turns(it)
                       \/ Best(active) /\ Len(todo) = 1 /\ Idles(Head(todo))
      /\ nested # 0 => \A it \in ToSet(todo) : it.op # "core_sched"
  BY <1>1, SectionParts
<1>3. /\ ToSet(Tail(todo)) \subseteq ToSet(todo')
      /\ \A x \in ToSet(todo') : x \in ToSet(todo) \/ x.op = "pri_change"
  BY <1>2, PriChangeRest
<1>4. ~pendsv' /\ nested' = nested /\ active' = active
  BY <1>1, <1>2 DEF cpuVars
<1>5. \A x \in ToSet(todo') : x.op = "core_sched" => nested' = 0
  BY <1>2, <1>3, <1>4
<1>6. CASE nested # 0
  <2>1. \A x \in ToSet(todo') : x.op # "core_sched"
    BY <1>4, <1>5, <1>6
  <2> QED
    BY <1>4, <1>6, <2>1, IsrStep
<1>7. CASE Settled
  <2>1. Settled'
    BY <1>1, <1>4, <1>7 DEF Settled
  <2> QED
    BY <1>4, <1>5, <2>1, SettledStep
<1>8. ASSUME NEW it \in ToSet(todo), Turns(it) PROVE SchedSound'
  <2>1. it # Head(todo)
    BY <1>1, <1>8 DEF Turns
  <2>2. it \in ToSet(todo')
    BY <1>1, <1>2, <1>3, <2>1, HeadOrTail
  <2>3. Turns(it)'
    BY <1>1, <1>8 DEF Turns, Awaited, Waiting
  <2> QED
    BY <1>4, <1>5, <2>2, <2>3, TurnStep
<1>9. CASE Best(active) /\ Len(todo) = 1 /\ Idles(Head(todo))
  <2>1. ~Created(Head(todo).task)
    BY <1>1, <1>9 DEF Idles
  <2>2. todo' = Tail(todo) /\ UNCHANGED prio
    BY <2>1 DEF TaskPriChange, Created, Sleeping, Pending
  <2>3. todo' = <<>>
    BY <1>1, <1>2, <1>9, <2>2, TailSeq
  <2>4. Best(active)'
    BY <1>1, <1>4, <1>9, <2>2 DEF Best
  <2> QED
    BY <1>4, <2>3, <2>4, BestStep
<1> QED
  BY <1>2, <1>6, <1>7, <1>8, <1>9

\* The caller of krhino_mutex_lock blocks.
LEMMA PendSched == ASSUME SchedIInv, MutexLockPend PROVE SchedSound'
<1>1. /\ todo # <<>> /\ Doing("lock_pend") /\ todo' = Tail(todo) /\ UNCHANGED cpuVars
      /\ pc' = [pc EXCEPT ![active] = "blk"]
  BY DEF MutexLockPend, Doing, PendToBlkObj
<1>2. IInv /\ ~pendsv
  BY <1>1, SectionParts
<1>3. pc \in [Tasks -> {"run", "sched", "blk", "end", "pri"}] /\ active \in Tasks
  BY <1>2 DEF IInv, FieldsOK
<1>4. Settled' /\ ~pendsv'
  BY <1>1, <1>2, <1>3 DEF Settled, cpuVars
<1>5. todo' = <<>>
  BY <1>1, <1>2, DoingItem
<1>6. ToSet(todo') = {}
  BY <1>5 DEF ToSet
<1> QED
  BY <1>4, <1>6, SettledStep

\* The rest of krhino_mutex_unlock.
LEMMA HandSched == ASSUME SchedIInv, MutexHandOver PROVE SchedSound'
<1>1. PICK m : m = Head(todo).obj
  OBVIOUS
<1>2. /\ todo # <<>> /\ Doing("hand_over") /\ Head(todo).op = "hand_over"
      /\ todo' = Tail(todo) /\ UNCHANGED <<prio, cpuVars, sched_lock>>
  BY DEF MutexHandOver, Doing
<1>3. /\ IInv /\ ~pendsv
      /\ nested = 0 => \/ Settled
                       \/ \E it \in ToSet(todo) : Turns(it)
                       \/ Best(active) /\ Len(todo) = 1 /\ Idles(Head(todo))
      /\ Tail(todo) = <<>> => ToSet(todo) = {Head(todo)}
  BY <1>2, SectionParts
<1>4. Tail(todo) = <<>> /\ m \in Mutexes
  BY <1>1, <1>2, <1>3, DoingItem DEF WorkItem
<1>5. todo' = <<>> /\ ~pendsv' /\ UNCHANGED <<nested, active>>
  BY <1>2, <1>3, <1>4 DEF cpuVars
<1>6. ToSet(todo') = {}
  BY <1>5 DEF ToSet
<1>7. CASE nested # 0
  BY <1>5, <1>6, <1>7, IsrStep
<1>8. CASE nested = 0 /\ blk_list[m] # <<>>
  <2>1. ExitSched
    BY <1>1, <1>8 DEF MutexHandOver
  <2>2. Settled'
    BY <1>3, <1>5, <1>8, <2>1, ExitSettled
  <2> QED
    BY <1>5, <1>6, <2>2, SettledStep
<1>9. CASE nested = 0 /\ blk_list[m] = <<>>
  <2>1. UNCHANGED <<task_state, pc>>
    BY <1>1, <1>9 DEF MutexHandOver
  <2>2. ~Awaited(m)
    <3>1. ToSet(blk_list[m]) = {}
      BY <1>9 DEF ToSet
    <3>2. m \in Objs
      BY <1>4 DEF Objs
    <3> QED
      BY <1>3, <3>1, <3>2 DEF IInv, BlkExact, Awaited, Waiting
  <2>3. CASE Settled
    <3>1. Settled'
      BY <1>2, <1>5, <2>1, <2>3 DEF Settled
    <3> QED
      BY <1>5, <1>6, <3>1, SettledStep
  <2>4. ~ \E it \in ToSet(todo) : Turns(it)
    BY <1>1, <1>2, <1>3, <1>4, <2>2 DEF Turns
  <2>5. CASE Best(active)
    <3>1. Best(active)'
      BY <1>2, <1>5, <2>1, <2>5 DEF Best
    <3> QED
      BY <1>5, <3>1, BestStep
  <2> QED
    BY <1>3, <1>9, <2>3, <2>4, <2>5
<1> QED
  BY <1>7, <1>8, <1>9

\* Rounds of tick_list_update, and of the loop over the waiters of a deleted
\* object, whose caller is on its way into core_sched.
LEMMA RoundSched == ASSUME SchedIInv, TickExpire \/ DelWaiters PROVE SchedSound'
<1>1. /\ todo # <<>> /\ Head(todo).op \in {"tick", "del_waiters"}
      /\ UNCHANGED <<cpuVars, pc, sched_lock>>
      /\ Doing("tick") \/ Doing("del_waiters")
  BY DEF TickExpire, DelWaiters, Doing
<1>2. /\ IInv /\ ~pendsv /\ todo \in Seq(Items)
      /\ nested = 0 => \/ Settled
                       \/ \E it \in ToSet(todo) : Turns(it)
                       \/ Best(active) /\ Len(todo) = 1 /\ Idles(Head(todo))
      /\ Tail(todo) = <<>> => ToSet(todo) = {Head(todo)}
  BY <1>1, SectionParts
<1>3. Tail(todo) = <<>> /\ ToSet(todo) = {Head(todo)}
  BY <1>1, <1>2, DoingItem
<1>4. ~pendsv' /\ UNCHANGED <<nested, active>>
  BY <1>1, <1>2 DEF cpuVars
<1>5. \A x \in ToSet(todo') : x.op # "core_sched"
  <2>1. \/ todo' = Tail(todo) \/ todo' = todo
        \/ \E t, lists : todo' = MutexTaskPriReset(t, lists) \o todo
    BY DEF TickExpire, DelWaiters
  <2>2. ASSUME NEW t, NEW lists, todo' = MutexTaskPriReset(t, lists) \o todo
        PROVE  \A x \in ToSet(todo') : x \in ToSet(todo) \/ x.op = "pri_change"
    <3>1. PICK r : r = MutexTaskPriReset(t, lists)
      OBVIOUS
    <3>2. PriOnly(r)
      BY <3>1, ResetOnly, Zenon
    <3> QED
      BY <1>2, <2>2, <3>1, <3>2, PriOnlyFirst
  <2>3. ToSet(<<>>) = {}
    BY DEF ToSet
  <2> QED
    BY <1>1, <1>3, <2>1, <2>2, <2>3
<1>6. CASE nested # 0
  BY <1>4, <1>5, <1>6, IsrStep
<1>7. CASE nested = 0
  <2>1. ~ \E it \in ToSet(todo) : Turns(it)
    BY <1>1, <1>3 DEF Turns
  <2>2. ~Idles(Head(todo))
    BY <1>1 DEF Idles
  <2>3. Settled'
    BY <1>1, <1>2, <1>4, <1>7, <2>1, <2>2 DEF Settled
  <2> QED
    BY <1>4, <1>5, <2>3, SettledStep
<1> QED
  BY <1>6, <1>7

\* core_sched at the end of krhino_task_cancel.
LEMMA CancelSched == ASSUME SchedIInv, CancelCoreSched PROVE SchedSound'
<1>1. /\ todo # <<>> /\ Doing("core_sched") /\ Head(todo).op = "core_sched"
      /\ todo' = Tail(todo) /\ Resched
      /\ UNCHANGED <<task_state, prio, sched_lock, active, nested>>
  BY DEF CancelCoreSched, Doing, dataVars
<1>2. /\ IInv /\ ~pendsv
      /\ nested # 0 => \A it \in ToSet(todo) : it.op # "core_sched"
      /\ Tail(todo) = <<>> => ToSet(todo) = {Head(todo)}
  BY <1>1, SectionParts
<1>3. todo' = <<>> /\ nested = 0
  BY <1>1, <1>2, DoingItem
<1>4. /\ pendsv' => Best(preferred)'
      /\ ~pendsv' => sched_lock' > 0 \/ Best(active)'
  BY <1>1, <1>2, ReschedBest
<1>5. SwitchSound' /\ CpuBest'
  BY <1>1, <1>3, <1>4 DEF SwitchSound, CpuBest, Settled, InTask
<1>6. ToSet(todo') = {}
  BY <1>3 DEF ToSet
<1>7. SectionSound'
  BY <1>3, <1>6 DEF SectionSound
<1> QED
  BY <1>5, <1>7 DEF SchedSound
-----------------------------------------------------------------------------
(* The invariant and what follows from it.                                  *)

\* krhino_start switches to a best task.
LEMMA SchedInit == Init => SchedIInv
<1> SUFFICES ASSUME Init PROVE SchedIInv
  OBVIOUS
<1>1. InheritIInv /\ IInv
  BY InheritInit, InitInv
<1>2. active = PreferredTask(rq) /\ pendsv = FALSE /\ todo = <<>>
  BY DEF Init
<1>3. Best(active)
  BY <1>1, <1>2, BestPreferred
<1>4. ToSet(todo) = {}
  BY <1>2 DEF ToSet
<1> QED
  BY <1>1, <1>2, <1>3, <1>4 DEF SchedIInv, SchedSound, SwitchSound, CpuBest, SectionSound

\* Every step keeps the invariant.
LEMMA SchedNext ==
    ASSUME IsrCalls \subseteq {"tick"}, {"task_del", "task_redel"} \cap Calls = {},
           SchedIInv, [Next]_vars
    PROVE  SchedIInv'
<1>1. InheritIInv'
  <2>1. "task_suspend" \notin IsrCalls
    OBVIOUS
  <2> QED
    BY <2>1, InheritNext DEF SchedIInv
<1> SUFFICES SchedSound'
  BY <1>1 DEF SchedIInv
<1>2. CASE UNCHANGED vars
  BY <1>2, StutterSched DEF SchedIInv
<1>3. CASE \/ CoreSched \/ PendSV \/ IdleLoop \/ IntrptEnter \/ TickEnter \/ IntrptExit
  BY <1>3, CpuSched
<1>4. CASE TickProc \/ TimeSliceUpdate
  BY <1>4, TickSched
<1>5. CASE SchedDisable \/ SchedEnable
  BY <1>5, LockSched
<1>6. CASE PendStateEndProc
  BY <1>6, QuietCalls
<1>7. CASE Continue
  <2>1. CASE TaskMutexFree \/ TaskDelEnd
    <3>1. todo # <<>> /\ Head(todo).op \in {"mutex_free", "del_end"}
      BY <2>1 DEF TaskMutexFree, TaskDelEnd, Doing
    <3>2. IInv /\ NoDeletion
      BY InheritParts DEF SchedIInv
    <3>3. Head(todo) \in Marks(todo)
      BY <3>1, <3>2, MarksHead DEF MarkOps
    <3> QED
      BY <3>1, <3>2, <3>3 DEF NoDeletion
  <2> QED
    BY <1>7, <2>1, ChainSched, PendSched, HandSched, RoundSched, CancelSched DEF Continue
<1>8. CASE MutexCall
  BY <1>1, <1>8, QuietCalls, TurnCalls, UnlockSched, SettledCalls, KernelAssumption
     DEF MutexCall
<1>9. CASE TaskCall
  <2>1. ASSUME NEW ticks \in Waits, TaskSleep(ticks) PROVE SchedSound'
    BY <2>1, SleepSched
  <2>2. CASE TaskPriChangeCall
    BY <2>2, OwnSched
  <2>3. ASSUME NEW t \in Tasks, NEW p \in NewPris, TaskPriChangeCheck(t, p) PROVE SchedSound'
    BY <2>3, QuietCalls
  <2>4. ASSUME NEW t \in Tasks, NEW p \in NewPris, NEW autorun \in BOOLEAN,
               TaskCreate(t, p, autorun)
        PROVE  SchedSound'
    BY <2>4, CreateSched
  <2>5. ASSUME NEW t \in Tasks,
               \/ TaskYield \/ TaskSuspend(t) \/ TaskResume(t) \/ TaskWaitAbort(t)
        PROVE  SchedSound'
    BY <2>5, SettledCalls
  <2>6. ASSUME NEW t \in Tasks,
               \/ \E s \in TimeSlices : TaskTimeSliceSet(t, s)
               \/ \E policy \in {"KSCHED_FIFO", "KSCHED_RR"} : SchedPolicySet(t, policy)
        PROVE  SchedSound'
    BY <2>6, QuietCalls
  <2>7. ASSUME NEW t \in Tasks, TaskCancel(t) PROVE SchedSound'
    BY <2>7, TurnCalls
  <2>8. ASSUME NEW t \in Tasks, TaskDel(t) PROVE SchedSound'
    BY <2>8 DEF TaskDel, Calling
  <2>9. CASE TaskYield
    BY <2>5, <2>9, KernelAssumption
  <2> QED
    BY <1>9, <2>1, <2>2, <2>3, <2>4, <2>5, <2>6, <2>7, <2>8, <2>9, Zenon DEF TaskCall
<1> QED
  BY <1>2, <1>3, <1>4, <1>5, <1>6, <1>7, <1>8, <1>9, Zenon DEF Next

\* The properties that the invariant is there for.
LEMMA SchedConsequences ==
    SchedIInv => NoMissedReschedule /\ SwitchTargetIsHighest /\ NoPriorityInversion
<1> SUFFICES ASSUME SchedIInv
             PROVE  NoMissedReschedule /\ SwitchTargetIsHighest /\ NoPriorityInversion
  OBVIOUS
<1>1. IInv /\ InheritIInv /\ SwitchSound /\ CpuBest /\ active \in Tasks /\ preferred \in Tasks
  BY InheritParts DEF SchedIInv, SchedSound, IInv, FieldsOK
<1>2. SwitchTargetIsHighest
  BY <1>1, BestListed DEF SwitchSound, SwitchTargetIsHighest
<1>3. Computing /\ sched_lock = 0 => Best(active) /\ todo = <<>>
  BY <1>1 DEF Computing, CpuBest, Settled, InTask
<1>4. NoMissedReschedule
  BY <1>1, <1>3, BestListed DEF NoMissedReschedule
<1>5. ASSUME Computing, sched_lock = 0, NEW w \in Tasks,
             task_state[w] \in Pending, blk_obj[w] \in Mutexes,
             task_state[mutex_task[blk_obj[w]]] = "K_RDY"
      PROVE  prio[active] <= prio[w]
  <2>1. PICK m \in Mutexes : m = blk_obj[w]
    BY <1>5
  <2>2. Marks(todo) = {} /\ Dels(todo) = {} /\ ~Doing("pri_change")
    BY <1>3, <1>5, MarksFew, FewWork DEF Doing
  <2>3. Waiting(w, m) /\ m \in alive
    BY <1>1, <1>5, <2>1, <2>2, InheritParts DEF DeadSound, Waiting
  <2>4. PICK o \in Tasks : o = mutex_task[m]
    <3>1. mutex_task \in [Mutexes -> Tasks \cup {NULL}] /\ PendSound
      BY <1>1 DEF IInv, FieldsOK
    <3> QED
      BY <1>5, <2>1, <2>3, <3>1 DEF PendSound
  <2>5. Owns(o, m)
    BY <2>2, <2>3, <2>4, NoMarks
  <2>6. task_state[o] = "K_RDY"
    BY <1>5, <2>1, <2>4
  <2>7. Fits(o, prio[o])
    BY <1>1, <2>2, <2>6, InheritParts DEF Inherited, Aim, Created
  <2>8. prio[o] <= prio[w]
    BY <2>3, <2>5, <2>7 DEF Fits, Presses
  <2>9. prio[active] <= prio[o]
    BY <1>3, <1>5, <2>6 DEF Best
  <2>10. prio \in [Tasks -> Int]
    BY <1>1, PriTypes
  <2> QED
    BY <1>1, <2>8, <2>9, <2>10
<1>6. NoPriorityInversion
  BY <1>5 DEF NoPriorityInversion
<1> QED
  BY <1>2, <1>4, <1>6

\* The invariant about who is on the CPU is one, for any number of tasks and
\* any calls of tasks but deletion, when the tick is the only interrupt.
THEOREM SchedInductive ==
    ASSUME IsrCalls \subseteq {"tick"}, {"task_del", "task_redel"} \cap Calls = {}
    PROVE  Spec => []SchedIInv
<1>1. Init => SchedIInv
  BY SchedInit
<1>2. SchedIInv /\ [Next]_vars => SchedIInv'
  BY SchedNext
<1> QED
  BY <1>1, <1>2, PTL DEF Spec

\* No call forgets to reschedule, krhino_mutex_unlock without waiters included,
\* which does not call core_sched: a task that computes while the scheduler is
\* not locked is one of the best that are ready.
THEOREM RescheduleCorrect ==
    ASSUME IsrCalls \subseteq {"tick"}, {"task_del", "task_redel"} \cap Calls = {}
    PROVE  Spec => []NoMissedReschedule
BY SchedInductive, SchedConsequences, PTL

\* Without interrupts of peripherals, the task that PendSV switches to is still
\* a best one when it is taken, as the comments on g_preferred_ready_task say.
THEOREM SwitchTargetCorrect ==
    ASSUME IsrCalls \subseteq {"tick"}, {"task_del", "task_redel"} \cap Calls = {}
    PROVE  Spec => []SwitchTargetIsHighest
BY SchedInductive, SchedConsequences, PTL

\* While a task waits for a mutex whose owner is ready, no task of a lower
\* priority than the waiter computes: task_pri_change, mutex_release and
\* core_sched together bound the inversion by the owner's own section.
THEOREM InversionBounded ==
    ASSUME IsrCalls \subseteq {"tick"}, {"task_del", "task_redel"} \cap Calls = {}
    PROVE  Spec => []NoPriorityInversion
BY SchedInductive, SchedConsequences, PTL
=============================================================================

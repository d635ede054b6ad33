-------------------------- MODULE RhinoKernelProofs --------------------------
(***************************************************************************)
(* The kernel core keeps the invariant IInv of module RhinoInductive, for  *)
(* any number of tasks, mutexes and priorities, provided that no interrupt *)
(* handler suspends a task.                                                *)
(*                                                                         *)
(* The second part is about how the tasks wait: the blocked lists are      *)
(* sorted by the priorities the tasks have now, the tick list holds every  *)
(* timeout and is sorted by expiry, and a wait that has ended is not ended *)
(* again.  For waiting, every step is of one of a few kinds (NextKind).    *)
(***************************************************************************)
EXTENDS RhinoInductive, RhinoListsProofs

\* The priorities are 0..IdlePri, and the idle task has the last one alone.
LEMMA Constants ==
    /\ IdlePri \in Nat /\ IdlePri \in Pris /\ Pris = 0..IdlePri
    /\ AppPris \subseteq Pris /\ IdlePri \notin AppPris
    /\ \A p \in Pris : p # IdlePri => p \in AppPris
    /\ IdleTask \in Tasks /\ NULL \notin Tasks /\ NULL \notin Objs
    /\ NewPris \subseteq AppPris
BY KernelAssumption DEF IdlePri, Pris, AppPris, Objs

\* The first item of a section, and what is left after it.
LEMMA WorkHead ==
    ASSUME NEW td \in Seq(Items), WorkList(td), td # <<>>
    PROVE  /\ Head(td) \in Items /\ WorkItem(Head(td)) /\ Head(td) \in ToSet(td)
           /\ Tail(td) \in Seq(Items) /\ WorkList(Tail(td))
           /\ ToSet(Tail(td)) \subseteq ToSet(td)
           /\ Head(td).op \notin {"pri_change", "mutex_free"} => Tail(td) = <<>>
           /\ Head(td).op = "mutex_free" =>
                 Len(td) = 2 /\ Tail(td) = <<td[2]>> /\ td[2].op = "del_end"
<1> DEFINE r == Tail(td)
<1>1. /\ Len(td) \in Nat /\ Len(td) >= 1 /\ 1 \in 1..Len(td)
      /\ Head(td) = td[1] /\ Head(td) \in Items /\ Head(td) \in ToSet(td)
      /\ r \in Seq(Items) /\ Len(r) = Len(td) - 1
      /\ \A i \in 1..Len(r) : r[i] = td[i + 1] /\ i + 1 \in 1..Len(td)
      /\ ToSet(r) \subseteq ToSet(td)
      /\ Len(td) = 1 => r = <<>>
      /\ Len(td) = 2 => r = <<td[2]>>
  BY TailSeq
<1> HIDE DEF r
<1>2. ASSUME NEW i \in 1..Len(td)
      PROVE  /\ WorkItem(td[i])
             /\ i < Len(td) => td[i].op \in {"pri_change", "mutex_free"}
             /\ td[i].op = "mutex_free" => i + 1 = Len(td) /\ td[i + 1].op = "del_end"
  BY DEF WorkList
<1>3. WorkList(r)
  <2> SUFFICES ASSUME NEW i \in 1..Len(r)
               PROVE  /\ WorkItem(r[i])
                      /\ i < Len(r) => r[i].op \in {"pri_change", "mutex_free"}
                      /\ r[i].op = "mutex_free"
                            => i + 1 = Len(r) /\ r[i + 1].op = "del_end"
    BY DEF WorkList
  <2>1. i + 1 \in 1..Len(td) /\ r[i] = td[i + 1]
    BY <1>1
  <2>2. i + 1 = Len(r) => r[i + 1] = td[(i + 1) + 1]
    BY <1>1
  <2> QED
    BY <1>1, <1>2, <2>1, <2>2
<1>4. WorkItem(td[1])
  BY <1>1, <1>2
<1>5. td[1].op \notin {"pri_change", "mutex_free"} => Len(td) = 1
  BY <1>1, <1>2
<1>6. td[1].op = "mutex_free" => Len(td) = 2 /\ td[2].op = "del_end"
  BY <1>1, <1>2
<1> QED
  BY <1>1, <1>3, <1>4, <1>5, <1>6 DEF r

\* At most one priority change, of a task and to a priority that are not idle's.
PriWork ==
    {<<>>} \cup {<<Item("pri_change", o, NULL, n)>> : o \in AppTasks, n \in AppPris}

\* Such a change is an item of work.
LEMMA PriItem ==
    ASSUME NEW o \in AppTasks, NEW n \in AppPris
    PROVE  LET it == Item("pri_change", o, NULL, n)
           IN  it \in Items /\ it.op = "pri_change" /\ WorkItem(it)
<1> DEFINE it == Item("pri_change", o, NULL, n)
<1>1. /\ "pri_change" \in Ops /\ o \in Tasks \cup {NULL}
      /\ NULL \in Objs \cup {NULL} /\ n \in Int
  BY DEF AppTasks, AppPris, Ops
<1>2. it \in Items /\ it.op = "pri_change" /\ it.task = o /\ it.arg = n
  BY <1>1 DEF Item, Items
<1> QED
  BY <1>2 DEF WorkItem

\* It may be put before any other work.
LEMMA WorkPush ==
    ASSUME NEW r \in PriWork, NEW td \in Seq(Items), WorkList(td)
    PROVE  /\ r \o td \in Seq(Items) /\ WorkList(r \o td)
           /\ \A it \in ToSet(r \o td) : it \in ToSet(td) \/ it.op = "pri_change"
<1>1. CASE r = <<>>
  <2>1. r \o td = td
    BY <1>1
  <2> QED
    BY <2>1
<1>2. CASE r # <<>>
  <2>1. PICK o \in AppTasks, n \in AppPris : r = <<Item("pri_change", o, NULL, n)>>
    BY <1>2 DEF PriWork
  <2> DEFINE it == Item("pri_change", o, NULL, n)
             s == <<it>> \o td
  <2>2. it \in Items /\ it.op = "pri_change" /\ WorkItem(it)
    BY PriItem
  <2> HIDE DEF it
  <2>3. /\ s \in Seq(Items) /\ Len(td) \in Nat /\ Len(s) = Len(td) + 1 /\ s[1] = it
        /\ \A i \in 1..Len(s) : i = 1 \/ (i - 1 \in 1..Len(td) /\ s[i] = td[i - 1])
    BY <2>2, ConsSeq
  <2>4. ToSet(s) = ToSet(td) \cup {it}
    BY <2>2, ConsSet
  <2> HIDE DEF s
  <2>5. WorkList(s)
    <3> SUFFICES ASSUME NEW i \in 1..Len(s)
                 PROVE  /\ WorkItem(s[i])
                        /\ i < Len(s) => s[i].op \in {"pri_change", "mutex_free"}
                        /\ s[i].op = "mutex_free"
                              => i + 1 = Len(s) /\ s[i + 1].op = "del_end"
      BY DEF WorkList
    <3>1. CASE i = 1
      BY <2>2, <2>3, <3>1
    <3>2. CASE i # 1
      <4>1. i - 1 \in 1..Len(td) /\ s[i] = td[i - 1]
        BY <2>3, <3>2
      <4>2. i + 1 \in 1..Len(s) => s[i + 1] = td[(i - 1) + 1]
        BY <2>3, <3>2
      <4>3. /\ WorkItem(td[i - 1])
            /\ i - 1 < Len(td) => td[i - 1].op \in {"pri_change", "mutex_free"}
            /\ td[i - 1].op = "mutex_free" =>
                  (i - 1) + 1 = Len(td) /\ td[(i - 1) + 1].op = "del_end"
        BY <4>1 DEF WorkList
      <4> QED
        BY <2>3, <4>1, <4>2, <4>3
    <3> QED
      BY <3>1, <3>2
  <2>6. r \o td = s
    BY <2>1 DEF s, it
  <2> QED
    BY <2>2, <2>3, <2>4, <2>5, <2>6
<1> QED
  BY <1>1, <1>2

\* A task becomes ready, at priority p.
LEMMA QueueAddTail ==
    ASSUME NEW q, NEW st, NEW pr, QueueExact(q, st, pr), NEW st2, NEW pr2,
           NEW t \in Tasks, NEW p \in Pris,
           st[t] # "K_RDY", st2[t] = "K_RDY", pr2[t] = p,
           \A x \in Tasks : x # t => st2[x] = st[x] /\ pr2[x] = pr[x]
    PROVE  QueueExact(ReadyListAddTail(q, t, p), st2, pr2)
<1> DEFINE r == ReadyListAddTail(q, t, p)
<1>1. IdlePri \in Nat /\ Pris = 0..IdlePri /\ p \in 0..IdlePri
  BY Constants
<1>2. SoundQueue(q, Tasks, IdlePri) /\ t \notin ToSet(q.list[p])
  BY DEF QueueExact
<1>3. /\ SoundQueue(r, Tasks, IdlePri)
      /\ Gains(q, r, t, p, IdlePri)
  BY <1>1, <1>2, AddTailSound, Zenon
<1> HIDE DEF r
<1>4. ASSUME NEW y \in Pris, NEW x \in Tasks
      PROVE  x \in ToSet(r.list[y]) <=> st2[x] = "K_RDY" /\ pr2[x] = y
  <2>1. x \in ToSet(q.list[y]) <=> st[x] = "K_RDY" /\ pr[x] = y
    BY DEF QueueExact
  <2>2. CASE y = p
    BY <1>3, <2>1, <2>2 DEF Gains, Loses
  <2>3. CASE y # p
    <3>1. ToSet(r.list[y]) = ToSet(q.list[y])
      BY <1>1, <1>3, <2>3 DEF Gains, Loses
    <3> QED
      BY <2>1, <2>3, <3>1
  <2> QED
    BY <2>2, <2>3
<1> QED
  BY <1>3, <1>4 DEF QueueExact, r

\* A task becomes ready as the head of its list.
LEMMA QueueAddHead ==
    ASSUME NEW q, NEW st, NEW pr, QueueExact(q, st, pr), NEW st2, NEW pr2,
           NEW t \in Tasks, NEW p \in Pris,
           st[t] # "K_RDY", st2[t] = "K_RDY", pr2[t] = p,
           \A x \in Tasks : x # t => st2[x] = st[x] /\ pr2[x] = pr[x]
    PROVE  QueueExact(ReadyListAddHead(q, t, p), st2, pr2)
<1> DEFINE r == ReadyListAddHead(q, t, p)
<1>1. IdlePri \in Nat /\ Pris = 0..IdlePri /\ p \in 0..IdlePri
  BY Constants
<1>2. SoundQueue(q, Tasks, IdlePri) /\ t \notin ToSet(q.list[p])
  BY DEF QueueExact
<1>3. /\ SoundQueue(r, Tasks, IdlePri)
      /\ Gains(q, r, t, p, IdlePri)
  BY <1>1, <1>2, AddHeadSound, Zenon
<1> HIDE DEF r
<1>4. ASSUME NEW y \in Pris, NEW x \in Tasks
      PROVE  x \in ToSet(r.list[y]) <=> st2[x] = "K_RDY" /\ pr2[x] = y
  <2>1. x \in ToSet(q.list[y]) <=> st[x] = "K_RDY" /\ pr[x] = y
    BY DEF QueueExact
  <2>2. CASE y = p
    BY <1>3, <2>1, <2>2 DEF Gains, Loses
  <2>3. CASE y # p
    <3>1. ToSet(r.list[y]) = ToSet(q.list[y])
      BY <1>1, <1>3, <2>3 DEF Gains, Loses
    <3> QED
      BY <2>1, <2>3, <3>1
  <2> QED
    BY <2>2, <2>3
<1> QED
  BY <1>3, <1>4 DEF QueueExact, r

\* A task that is not the idle task stops being ready.
LEMMA QueueRm ==
    ASSUME NEW q, NEW st, NEW pr, QueueExact(q, st, pr), NEW st2, NEW pr2,
           NEW t \in Tasks, pr[t] \in AppPris,
           st[t] = "K_RDY", st2[t] # "K_RDY",
           \A x \in Tasks : x # t => st2[x] = st[x] /\ pr2[x] = pr[x]
    PROVE  QueueExact(ReadyListRm(q, t, pr[t]), st2, pr2)
<1> DEFINE p == pr[t]
           r == ReadyListRm(q, t, p)
<1>1. IdlePri \in Nat /\ Pris = 0..IdlePri /\ p \in 0..IdlePri /\ p # IdlePri
  BY Constants
<1>2. SoundQueue(q, Tasks, IdlePri) /\ t \in ToSet(q.list[p])
  BY <1>1 DEF QueueExact
<1> HIDE DEF p
<1>3. /\ SoundQueue(r, Tasks, IdlePri)
      /\ Loses(q, r, t, p, IdlePri)
  BY <1>1, <1>2, RmSound, Zenon
<1> HIDE DEF r
<1>4. ASSUME NEW y \in Pris, NEW x \in Tasks
      PROVE  x \in ToSet(r.list[y]) <=> st2[x] = "K_RDY" /\ pr2[x] = y
  <2>1. x \in ToSet(q.list[y]) <=> st[x] = "K_RDY" /\ pr[x] = y
    BY DEF QueueExact
  <2>2. CASE y = p
    BY <1>3, <2>1, <2>2 DEF Gains, Loses, p
  <2>3. CASE y # p
    <3>1. ToSet(r.list[y]) = ToSet(q.list[y])
      BY <1>1, <1>3, <2>3 DEF Gains, Loses
    <3> QED
      BY <2>1, <2>3, <3>1 DEF p
  <2> QED
    BY <2>2, <2>3
<1> QED
  BY <1>3, <1>4 DEF QueueExact, r, p

\* The head of a list becomes its tail.
LEMMA QueueRotate ==
    ASSUME NEW q, NEW st, NEW pr, QueueExact(q, st, pr), NEW p \in Pris
    PROVE  QueueExact(ReadyListHeadToTail(q, p), st, pr)
<1> DEFINE r == ReadyListHeadToTail(q, p)
<1>1. IdlePri \in Nat /\ Pris = 0..IdlePri /\ p \in 0..IdlePri
  BY Constants
<1>2. SoundQueue(q, Tasks, IdlePri)
  BY DEF QueueExact
<1>3. /\ SoundQueue(r, Tasks, IdlePri)
      /\ \A y \in 0..IdlePri : ToSet(r.list[y]) = ToSet(q.list[y])
  BY <1>1, <1>2, HeadToTailSound, ZenonT(60)
<1> HIDE DEF r
<1> QED
  BY <1>1, <1>3 DEF QueueExact, r

\* States change, but no task becomes ready or stops being so.
LEMMA QueueSame ==
    ASSUME NEW q, NEW st, NEW pr, QueueExact(q, st, pr), NEW st2, NEW pr2,
           \A x \in Tasks : /\ st2[x] = "K_RDY" <=> st[x] = "K_RDY"
                            /\ st[x] = "K_RDY" => pr2[x] = pr[x]
    PROVE  QueueExact(q, st2, pr2)
BY DEF QueueExact

\* The task core_sched picks is ready.
LEMMA QueuePreferred ==
    ASSUME NEW q, NEW st, NEW pr, QueueExact(q, st, pr)
    PROVE  PreferredTask(q) \in Tasks /\ st[PreferredTask(q)] = "K_RDY"
<1>1. IdlePri \in Nat /\ Pris = 0..IdlePri
  BY Constants
<1>2. SoundQueue(q, Tasks, IdlePri)
  BY DEF QueueExact
<1>3. q.highest_pri \in Pris
  BY <1>1, <1>2, QueueParts
<1>4. PreferredTask(q) \in Tasks /\ PreferredTask(q) \in ToSet(q.list[q.highest_pri])
  BY <1>1, <1>2, PreferredInQueue
<1> QED
  BY <1>3, <1>4 DEF QueueExact

\* A task leaves the object it waits for, if it waits for one.
LEMMA BlkLeave ==
    ASSUME NEW lists, NEW st, NEW bo, BlkExact(lists, st, bo), NEW st2, NEW bo2,
           NEW t \in Tasks, bo[t] \in Objs \cup {NULL},
           st[t] \in Pending => bo[t] \in Objs,
           st2[t] \notin Pending,
           \A x \in Tasks : x # t => st2[x] = st[x] /\ bo2[x] = bo[x]
    PROVE  BlkExact(IF bo[t] = NULL THEN lists
                    ELSE [lists EXCEPT ![bo[t]] = RemoveFirst(@, t)], st2, bo2)
<1> USE DEF BlkExact
<1>1. CASE bo[t] = NULL
  BY <1>1, Constants
<1>2. CASE bo[t] # NULL
  <2> DEFINE b == bo[t]
             s == lists[b]
             r == RemoveFirst(s, t)
             new == [lists EXCEPT ![b] = r]
  <2>1. b \in Objs /\ s \in Seq(Tasks) /\ IsInjective(s)
    BY <1>2
  <2> HIDE DEF s
  <2>2. r \in Seq(Tasks) /\ IsInjective(r) /\ ToSet(r) = ToSet(s) \ {t}
    BY <2>1, RemoveFirstSeq
  <2> HIDE DEF r, b
  <2>3. /\ new \in [Objs -> Seq(Tasks)] /\ new[b] = r
        /\ \A o \in Objs : o # b => new[o] = lists[o]
    BY <2>1, <2>2
  <2> HIDE DEF new
  <2>4. ASSUME NEW o \in Objs
        PROVE  /\ IsInjective(new[o])
               /\ \A x \in Tasks : x \in ToSet(new[o]) <=> st2[x] \in Pending /\ bo2[x] = o
    <3>1. CASE o = b
      <4>1. IsInjective(new[o]) /\ ToSet(new[o]) = ToSet(lists[o]) \ {t}
        BY <2>2, <2>3, <3>1 DEF s
      <4>2. ASSUME NEW x \in Tasks
            PROVE  x \in ToSet(new[o]) <=> st2[x] \in Pending /\ bo2[x] = o
        <5>1. CASE x = t
          BY <4>1, <5>1
        <5>2. CASE x # t
          BY <4>1, <5>2
        <5> QED
          BY <5>1, <5>2
      <4> QED
        BY <4>1, <4>2
    <3>2. CASE o # b
      BY <2>3, <3>2, ZenonT(60) DEF b
    <3> QED
      BY <3>1, <3>2
  <2>5. BlkExact(new, st2, bo2)
    BY <2>3, <2>4
  <2> QED
    BY <1>2, <2>5 DEF new, r, s, b
<1> QED
  BY <1>1, <1>2

\* A task begins to wait for o.
LEMMA BlkEnter ==
    ASSUME NEW lists, NEW st, NEW bo, BlkExact(lists, st, bo), NEW st2, NEW bo2, NEW pr,
           NEW t \in Tasks, NEW o \in Objs,
           st[t] \notin Pending, st2[t] \in Pending, bo2[t] = o,
           \A x \in Tasks : x # t => st2[x] = st[x] /\ bo2[x] = bo[x]
    PROVE  BlkExact([lists EXCEPT ![o] = PendListAdd(@, t, pr)], st2, bo2)
<1> USE DEF BlkExact
<1> DEFINE s == lists[o]
           r == PendListAdd(s, t, pr)
           new == [lists EXCEPT ![o] = r]
<1>1. s \in Seq(Tasks) /\ IsInjective(s) /\ t \notin ToSet(s)
  OBVIOUS
<1> HIDE DEF s
<1>2. r \in Seq(Tasks) /\ IsInjective(r) /\ ToSet(r) = ToSet(s) \cup {t}
  BY <1>1, InsertSeq DEF PendListAdd
<1> HIDE DEF r
<1>3. /\ new \in [Objs -> Seq(Tasks)] /\ new[o] = r
      /\ \A x \in Objs : x # o => new[x] = lists[x]
  BY <1>2
<1> HIDE DEF new
<1>4. ASSUME NEW y \in Objs
      PROVE  /\ IsInjective(new[y])
             /\ \A x \in Tasks : x \in ToSet(new[y]) <=> st2[x] \in Pending /\ bo2[x] = y
  <2>1. CASE y = o
    BY <1>1, <1>2, <1>3, <2>1, SMTT(30) DEF s
  <2>2. CASE y # o
    BY <1>3, <2>2, ZenonT(60)
  <2> QED
    BY <2>1, <2>2
<1>5. BlkExact(new, st2, bo2)
  BY <1>3, <1>4
<1> QED
  BY <1>5 DEF new, r, s

\* A pending task moves to the place its new priority gives it.
LEMMA BlkReorder ==
    ASSUME NEW lists, NEW st, NEW bo, BlkExact(lists, st, bo), NEW pr,
           NEW t \in Tasks, st[t] \in Pending, bo[t] \in Objs
    PROVE  BlkExact([lists EXCEPT ![bo[t]] = PendListReorder(@, t, pr)], st, bo)
<1> USE DEF BlkExact
<1> DEFINE o == bo[t]
           s == lists[o]
           r == PendListReorder(s, t, pr)
           new == [lists EXCEPT ![o] = r]
<1>1. o \in Objs /\ s \in Seq(Tasks) /\ IsInjective(s) /\ t \in ToSet(s)
  OBVIOUS
<1> HIDE DEF s, o
<1>2. r \in Seq(Tasks) /\ IsInjective(r) /\ ToSet(r) = ToSet(s)
  BY <1>1, ReorderSeq
<1> HIDE DEF r
<1>3. /\ new \in [Objs -> Seq(Tasks)] /\ new[o] = r
      /\ \A x \in Objs : x # o => new[x] = lists[x]
  BY <1>1, <1>2
<1> HIDE DEF new
<1>4. ASSUME NEW y \in Objs
      PROVE  /\ IsInjective(new[y])
             /\ \A x \in Tasks : x \in ToSet(new[y]) <=> st[x] \in Pending /\ bo[x] = y
  <2>1. CASE y = o
    BY <1>1, <1>2, <1>3, <2>1 DEF s
  <2>2. CASE y # o
    BY <1>3, <2>2
  <2> QED
    BY <2>1, <2>2
<1>5. BlkExact(new, st, bo)
  BY <1>3, <1>4
<1> QED
  BY <1>5 DEF new, r, s, o

\* No task begins or ends to wait.
LEMMA BlkSame ==
    ASSUME NEW lists, NEW st, NEW bo, BlkExact(lists, st, bo), NEW st2, NEW bo2,
           \A x \in Tasks : /\ st2[x] \in Pending <=> st[x] \in Pending
                            /\ st[x] \in Pending => bo2[x] = bo[x]
    PROVE  BlkExact(lists, st2, bo2)
BY DEF BlkExact

\* The first waiter of an object is a pending task.
LEMMA BlkHead ==
    ASSUME NEW lists, NEW st, NEW bo, BlkExact(lists, st, bo),
           NEW o \in Objs, lists[o] # <<>>
    PROVE  Head(lists[o]) \in Tasks /\ st[Head(lists[o])] \in Pending /\ bo[Head(lists[o])] = o
<1> DEFINE s == lists[o]
<1>1. s \in Seq(Tasks) /\ s # <<>>
  BY DEF BlkExact
<1> HIDE DEF s
<1>2. Head(s) \in Tasks /\ Head(s) \in ToSet(s)
  BY <1>1, TailSeq
<1> QED
  BY <1>2 DEF s, BlkExact

\* One more item of work that ends its section.
LEMMA WorkEnd ==
    ASSUME NEW it \in Items, WorkItem(it), it.op # "mutex_free"
    PROVE  <<it>> \in Seq(Items) /\ WorkList(<<it>>) /\ ToSet(<<it>>) = {it}
<1> DEFINE s == <<it>>
<1>1. s \in Seq(Items) /\ Len(s) = 1 /\ DOMAIN s = 1..1 /\ s[1] = it
  OBVIOUS
<1> HIDE DEF s
<1>2. \A i \in 1..Len(s) : i = 1
  BY <1>1
<1>3. WorkList(s)
  BY <1>1, <1>2 DEF WorkList
<1>4. ToSet(s) = {it}
  BY <1>1 DEF ToSet
<1> QED
  BY <1>1, <1>3, <1>4 DEF s

\* Nothing is left to do.
LEMMA WorkNone == <<>> \in Seq(Items) /\ WorkList(<<>>) /\ ToSet(<<>>) = {}
BY DEF WorkList, ToSet

\* A section begins with the work r and ends with the item it.
LEMMA TodoBegin ==
    ASSUME NEW r \in PriWork, NEW it \in Items, WorkItem(it), it.op # "mutex_free",
           todo' = r \o <<it>>, ItemSound(it)'
    PROVE  TodoSound'
<1>1. <<it>> \in Seq(Items) /\ WorkList(<<it>>) /\ ToSet(<<it>>) = {it}
  BY WorkEnd
<1> DEFINE e == <<it>>
<1> HIDE DEF e
<1>2. e \in Seq(Items) /\ WorkList(e) /\ ToSet(e) = {it} /\ todo' = r \o e
  BY <1>1 DEF e
<1>3. /\ r \o e \in Seq(Items) /\ WorkList(r \o e)
      /\ \A x \in ToSet(r \o e) : x \in ToSet(e) \/ x.op = "pri_change"
  BY <1>2, WorkPush
<1>4. ASSUME NEW x \in ToSet(todo') PROVE ItemSound(x)'
  <2>1. x = it \/ x.op = "pri_change"
    BY <1>2, <1>3
  <2> QED
    BY <2>1 DEF ItemSound
<1> QED
  BY <1>2, <1>3, <1>4 DEF TodoSound

\* A section is the work r.
LEMMA TodoOnly ==
    ASSUME NEW r \in PriWork, todo' = r
    PROVE  TodoSound'
<1>1. /\ <<>> \in Seq(Items) /\ WorkList(<<>>) /\ ToSet(<<>>) = {}
  BY WorkNone
<1>2. /\ r \o <<>> \in Seq(Items) /\ WorkList(r \o <<>>)
      /\ \A x \in ToSet(r \o <<>>) : x \in ToSet(<<>>) \/ x.op = "pri_change"
  BY <1>1, WorkPush
<1>3. r \in Seq(Items)
  <2>1. CASE r = <<>>
    BY <1>1, <2>1
  <2>2. CASE r # <<>>
    <3>1. PICK o \in AppTasks, n \in AppPris : r = <<Item("pri_change", o, NULL, n)>>
      BY <2>2 DEF PriWork
    <3>2. Item("pri_change", o, NULL, n) \in Items
      BY PriItem
    <3> QED
      BY <3>1, <3>2
  <2> QED
    BY <2>1, <2>2
<1>4. r \o <<>> = r
  BY <1>3
<1>5. ASSUME NEW x \in ToSet(todo') PROVE ItemSound(x)'
  BY <1>1, <1>2, <1>4 DEF ItemSound
<1> QED
  BY <1>2, <1>4, <1>5 DEF TodoSound

\* A section goes on: its first item is replaced by the work r, and what is
\* behind the item still has what it relies on.
LEMMA TodoStep ==
    ASSUME TodoSound, todo # <<>>, NEW r \in PriWork, todo' = r \o Tail(todo),
           \A it \in ToSet(Tail(todo)) : ItemSound(it) => ItemSound(it)'
    PROVE  TodoSound'
<1>1. /\ Tail(todo) \in Seq(Items) /\ WorkList(Tail(todo))
      /\ ToSet(Tail(todo)) \subseteq ToSet(todo)
  BY WorkHead DEF TodoSound
<1> DEFINE e == Tail(todo)
<1> HIDE DEF e
<1>2. /\ e \in Seq(Items) /\ WorkList(e) /\ todo' = r \o e
      /\ \A it \in ToSet(e) : ItemSound(it)'
  BY <1>1 DEF e, TodoSound
<1>3. /\ r \o e \in Seq(Items) /\ WorkList(r \o e)
      /\ \A x \in ToSet(r \o e) : x \in ToSet(e) \/ x.op = "pri_change"
  BY <1>2, WorkPush
<1>4. ASSUME NEW x \in ToSet(todo') PROVE ItemSound(x)'
  BY <1>2, <1>3 DEF ItemSound
<1> QED
  BY <1>2, <1>3, <1>4 DEF TodoSound

\* Its first item is done.
LEMMA TodoDone ==
    ASSUME TodoSound, todo # <<>>, todo' = Tail(todo),
           \A it \in ToSet(Tail(todo)) : ItemSound(it) => ItemSound(it)'
    PROVE  TodoSound'
<1>1. /\ Tail(todo) \in Seq(Items) /\ WorkList(Tail(todo))
      /\ ToSet(Tail(todo)) \subseteq ToSet(todo)
  BY WorkHead DEF TodoSound
<1> QED
  BY <1>1 DEF TodoSound

\* The sections of krhino_task_del: task_mutex_free, then the rest.
LEMMA FreeWork ==
    ASSUME NEW a \in Items, a.op = "mutex_free", WorkItem(a),
           NEW b \in Items, b.op = "del_end", WorkItem(b),
           todo' = <<a, b>>, ItemSound(b)'
    PROVE  TodoSound'
<1> DEFINE s == <<a, b>>
<1>1. s \in Seq(Items) /\ Len(s) = 2 /\ DOMAIN s = 1..2 /\ s[1] = a /\ s[2] = b
  OBVIOUS
<1> HIDE DEF s
<1>2. \A i \in 1..Len(s) : i = 1 \/ i = 2
  BY <1>1
<1>3. WorkList(s)
  <2> SUFFICES ASSUME NEW i \in 1..Len(s)
               PROVE  /\ WorkItem(s[i])
                      /\ i < Len(s) => s[i].op \in {"pri_change", "mutex_free"}
                      /\ s[i].op = "mutex_free"
                            => i + 1 = Len(s) /\ s[i + 1].op = "del_end"
    BY DEF WorkList
  <2>1. CASE i = 1
    BY <1>1, <2>1
  <2>2. CASE i = 2
    BY <1>1, <2>2
  <2> QED
    BY <1>2, <2>1, <2>2
<1>4. ToSet(s) = {a, b}
  BY <1>1 DEF ToSet
<1>5. ItemSound(a)'
  BY DEF ItemSound
<1>6. todo' = s
  BY DEF s
<1> QED
  BY <1>1, <1>3, <1>4, <1>5, <1>6 DEF TodoSound

\* No section is in progress, before or after.
LEMMA TodoEmpty == ASSUME todo' = <<>> PROVE TodoSound'
BY WorkNone DEF TodoSound

\* The priority that mutex_pri_look finds is never the idle task's.
LEMMA PriLookBound ==
    ASSUME NEW base \in AppPris, NEW ms, ms \subseteq Objs,
           NEW lists \in [Objs -> Seq(Tasks)], NEW pr,
           \A o \in Objs : IdleTask \notin ToSet(lists[o]),
           \A t \in AppTasks : pr[t] \in AppPris
    PROVE  PriLook(base, ms, lists, pr) \in AppPris
<1> DEFINE waited == {x \in ms : lists[x] # <<>>}
           S == {base} \cup {pr[Head(lists[m])] : m \in waited}
<1>1. ASSUME NEW m \in waited PROVE pr[Head(lists[m])] \in AppPris
  <2>1. m \in Objs /\ lists[m] \in Seq(Tasks) /\ lists[m] # <<>>
    OBVIOUS
  <2>2. Head(lists[m]) \in Tasks /\ Head(lists[m]) \in ToSet(lists[m])
    BY <2>1, TailSeq
  <2> QED
    BY <2>1, <2>2 DEF AppTasks
<1>2. S \subseteq AppPris /\ S # {}
  BY <1>1
<1>3. AppPris \subseteq Nat
  BY Constants DEF AppPris
<1>4. PriLook(base, ms, lists, pr) = Min(S)
  BY DEF PriLook
<1> HIDE DEF S
<1> QED
  BY <1>2, <1>3, <1>4, MinNat

\* The idle task never waits.
LEMMA IdleNotWaiting ==
    ASSUME NEW lists, NEW st, NEW bo, BlkExact(lists, st, bo), st[IdleTask] = "K_RDY"
    PROVE  \A o \in Objs : IdleTask \notin ToSet(lists[o])
BY Constants DEF BlkExact, Pending

\* So it is on no blocked list of the kernel.
LEMMA WaitersNotIdle ==
    ASSUME IInv
    PROVE  /\ blk_list \in [Objs -> Seq(Tasks)]
           /\ \A o \in Objs : IdleTask \notin ToSet(blk_list[o])
<1>1. BlkExact(blk_list, task_state, blk_obj) /\ task_state[IdleTask] = "K_RDY"
  BY DEF IInv, IdleSound
<1>2. blk_list \in [Objs -> Seq(Tasks)]
  BY <1>1 DEF BlkExact
<1> QED
  BY <1>1, <1>2, IdleNotWaiting

\* mutex_release leaves at most a change to a priority that is not idle's.
LEMMA ReleaseWork ==
    ASSUME FieldsOK, IdleSound, NEW o \in AppTasks, NEW ms, ms \subseteq Objs,
           NEW lists \in [Objs -> Seq(Tasks)],
           \A x \in Objs : IdleTask \notin ToSet(lists[x])
    PROVE  MutexRelease(o, ms, lists) \in PriWork
<1> DEFINE new == PriLook(b_prio[o], ms, lists, prio)
<1>1. new \in AppPris
  BY PriLookBound DEF IdleSound
<1> HIDE DEF new
<1>2. MutexRelease(o, ms, lists) \in {<<>>, <<Item("pri_change", o, NULL, new)>>}
  BY DEF MutexRelease, new
<1> QED
  BY <1>1, <1>2 DEF PriWork

\* So does mutex_task_pri_reset of a task that pended.
LEMMA ResetWork ==
    ASSUME FieldsOK, IdleSound, PendSound, NEW t \in Tasks, task_state[t] \in Pending,
           NEW lists \in [Objs -> Seq(Tasks)],
           \A x \in Objs : IdleTask \notin ToSet(lists[x])
    PROVE  MutexTaskPriReset(t, lists) \in PriWork
<1>1. CASE blk_obj[t] \in Mutexes \cap alive
  <2> DEFINE o == mutex_task[blk_obj[t]]
  <2>1. o \in AppTasks
    BY <1>1 DEF FieldsOK, PendSound, AppTasks
  <2>2. ToSet(mutex_list[o]) \subseteq Objs
    <3>1. mutex_list[o] \in Seq(Mutexes)
      BY <2>1 DEF FieldsOK, AppTasks
    <3> QED
      BY <3>1, MemberAt DEF Objs
  <2> HIDE DEF o
  <2>3. MutexRelease(o, ToSet(mutex_list[o]), lists) \in PriWork
    BY <2>1, <2>2, ReleaseWork
  <2> QED
    BY <1>1, <2>3 DEF MutexTaskPriReset, PriWork, o
<1>2. CASE blk_obj[t] \notin Mutexes \cap alive
  BY <1>2 DEF MutexTaskPriReset, PriWork
<1> QED
  BY <1>1, <1>2

\* What the invariant says of the task on the CPU when it computes.
LEMMA Runs ==
    ASSUME IInv, InTask, pc[active] \in {"run", "end", "pri"}
    PROVE  active \in Tasks /\ task_state[active] = "K_RDY"
BY DEF IInv, FieldsOK, CpuSound, InTask

\* The properties that the invariant is there for.
LEMMA Consequences == IInv => TypeOK /\ ReadyQueueExact /\ RunningIsReady /\ SuspendCountSound
<1> SUFFICES ASSUME IInv PROVE TypeOK /\ ReadyQueueExact /\ RunningIsReady /\ SuspendCountSound
  OBVIOUS
<1>1. Pris = 0..IdlePri
  BY Constants
<1>2. TypeOK
  BY <1>1 DEF IInv, TypeOK, QueueExact, SoundQueue, BlkExact, TodoSound
<1>3. ReadyQueueExact
  BY <1>1 DEF IInv, ReadyQueueExact, QueueExact, SoundQueue
<1>4. RunningIsReady
  BY Runs DEF RunningIsReady, Computing
<1> QED
  BY <1>2, <1>3, <1>4 DEF IInv

\* What is booted: every task in one list, once, the idle task alone in its own.
LEMMA BootSound ==
    /\ Boot \in [0..IdlePri -> Seq(Tasks)] /\ Boot[IdlePri] = <<IdleTask>>
    /\ \A p \in Pris : IsInjective(Boot[p])
    /\ \A p, q \in Pris, t \in Tasks : t \in ToSet(Boot[p]) /\ t \in ToSet(Boot[q]) => p = q
    /\ IdleTask \in ToSet(Boot[IdlePri]) /\ ToSet(Boot[IdlePri]) = {IdleTask}
<1>1. /\ Boot \in [Pris -> Seq(Tasks)] /\ Boot[IdlePri] = <<IdleTask>>
      /\ \A p, q \in Pris : \A i \in DOMAIN Boot[p], j \in DOMAIN Boot[q] :
            Boot[p][i] = Boot[q][j] => p = q /\ i = j
  BY KernelAssumption
<1>2. Boot \in [0..IdlePri -> Seq(Tasks)]
  BY <1>1, Constants
<1>3. ASSUME NEW p \in Pris PROVE IsInjective(Boot[p])
  BY <1>1 DEF IsInjective
<1>4. ASSUME NEW p \in Pris, NEW q \in Pris, NEW t \in ToSet(Boot[p]), t \in ToSet(Boot[q])
      PROVE  p = q
  <2>1. PICK i \in DOMAIN Boot[p] : Boot[p][i] = t
    BY DEF ToSet
  <2>2. PICK j \in DOMAIN Boot[q] : Boot[q][j] = t
    BY <1>4 DEF ToSet
  <2>3. \A i1 \in DOMAIN Boot[p], j1 \in DOMAIN Boot[q] : Boot[p][i1] = Boot[q][j1] => p = q
    BY <1>1, Zenon
  <2> QED
    BY <2>1, <2>2, <2>3, Zenon
<1>5. ToSet(<<IdleTask>>) = {IdleTask}
  BY DEF ToSet
<1> QED
  BY <1>1, <1>2, <1>3, <1>4, <1>5

\* The ready queue at krhino_start.
LEMMA InitQueue == ASSUME Init PROVE QueueExact(rq, task_state, prio) /\ IdleSound
<1>1. IdlePri \in Nat /\ Pris = 0..IdlePri /\ IdlePri \in Pris
  BY Constants
<1>2. /\ FindFirstBit(Boot) \in 0..IdlePri
  <2>1. Boot \in [0..IdlePri -> Seq(Tasks)]
    BY BootSound, Zenon
  <2>2. Boot[IdlePri] = <<IdleTask>> /\ <<IdleTask>> # <<>>
    BY BootSound
  <2>3. \E p \in 0..IdlePri : Boot[p] # <<>>
    BY <1>1, <2>2
  <2> QED
    BY <1>1, <2>1, <2>3, FirstBit, Zenon
<1>3. rq.list = Boot /\ rq.highest_pri = FindFirstBit(Boot)
      /\ rq \in [list : [0..IdlePri -> Seq(Tasks)], highest_pri : 0..IdlePri]
  BY <1>2, BootSound DEF Init
<1>4. SoundQueue(rq, Tasks, IdlePri)
  BY <1>1, <1>3, BootSound DEF SoundQueue
<1>5. ASSUME NEW t \in Tasks, NEW p \in Pris, t \in ToSet(Boot[p])
      PROVE  t \in Booted /\ task_state[t] = "K_RDY" /\ prio[t] = p
  <2>1. t \in Booted
    BY <1>5 DEF Booted
  <2>2. (CHOOSE q \in Pris : t \in ToSet(Boot[q])) = p
    BY <1>5, BootSound
  <2> QED
    BY <2>1, <2>2 DEF Init
<1>6. ASSUME NEW t \in Tasks, task_state[t] = "K_RDY"
      PROVE  t \in ToSet(Boot[prio[t]]) /\ prio[t] \in Pris
  <2>1. t \in Booted
    BY <1>6 DEF Init
  <2>2. PICK p \in Pris : t \in ToSet(Boot[p])
    BY <2>1 DEF Booted
  <2> QED
    BY <1>5, <2>2
<1>7. QueueExact(rq, task_state, prio)
  BY <1>3, <1>4, <1>5, <1>6 DEF QueueExact
<1>8. task_state[IdleTask] = "K_RDY" /\ prio[IdleTask] = IdlePri
  BY <1>1, <1>5, BootSound, Constants
<1>9. ASSUME NEW t \in AppTasks PROVE prio[t] \in AppPris /\ b_prio[t] \in AppPris
  <2>1. b_prio[t] = prio[t] /\ t \in Tasks
    BY DEF Init, AppTasks
  <2>2. CASE t \in Booted
    <3>1. task_state[t] = "K_RDY"
      BY <2>1, <2>2 DEF Init
    <3>2. t \in ToSet(Boot[prio[t]]) /\ prio[t] \in Pris
      BY <1>6, <2>1, <3>1
    <3>3. prio[t] # IdlePri
      BY <3>2, BootSound DEF AppTasks
    <3> QED
      BY <2>1, <3>2, <3>3, Constants
  <2>3. CASE t \notin Booted
    <3>1. prio[t] = 0
      BY <2>1, <2>3 DEF Init
    <3>2. 0 \in AppPris
      BY KernelAssumption DEF AppPris, IdlePri
    <3> QED
      BY <2>1, <3>1, <3>2
  <2> QED
    BY <2>2, <2>3
<1> QED
  BY <1>7, <1>8, <1>9 DEF IdleSound

\* The state after krhino_start satisfies the invariant.
LEMMA InitInv == Init => IInv
<1> SUFFICES ASSUME Init PROVE IInv
  OBVIOUS
<1>1. QueueExact(rq, task_state, prio) /\ IdleSound
  BY InitQueue
<1>2. /\ active \in Tasks /\ preferred = active /\ task_state[active] = "K_RDY"
      /\ pendsv = FALSE
  <2>1. PreferredTask(rq) \in Tasks /\ task_state[PreferredTask(rq)] = "K_RDY"
    BY <1>1, QueuePreferred
  <2>2. active = PreferredTask(rq) /\ preferred = active /\ pendsv = FALSE
    BY DEF Init
  <2> QED
    BY <2>1, <2>2
<1>3. prio \in [Tasks -> Pris] /\ b_prio = prio
  <2>1. prio \in [Tasks -> Pris]
    <3>1. ASSUME NEW t \in Tasks PROVE prio[t] \in Pris
      BY <1>1, Constants DEF IdleSound, AppTasks
    <3>2. DOMAIN prio = Tasks /\ prio = [t \in Tasks |-> prio[t]]
      BY DEF Init
    <3> QED
      BY <3>1, <3>2
  <2> QED
    BY <2>1 DEF Init
<1>4. /\ TimeSliceDefault \in Nat /\ MaxSuspend \in Nat /\ MaxNested \in Nat
      /\ MaxSchedLock \in Nat /\ MaxIntrpt \in Nat
  BY KernelAssumption
<1>5. FieldsOK
  <2>1. task_state \in [Tasks -> TaskStates]
    BY DEF Init, TaskStates
  <2>2. /\ tick_list \in Seq(Tasks) /\ mutex_list \in [Tasks -> Seq(Mutexes)]
        /\ call \in [Tasks -> Objs \cup {NULL} \cup (Tasks \X Pris)]
        /\ held \in [Tasks -> [Mutexes -> Nat]]
        /\ pc \in [Tasks -> {"run", "sched", "blk", "end", "pri"}]
    BY DEF Init
  <2>5. cancel \in [Tasks -> BOOLEAN] /\ fatal \in BOOLEAN
    BY Zenon DEF Init
  <2>3. /\ suspend_count \in [Tasks -> 0..MaxSuspend]
        /\ owner_nested \in [Mutexes -> 0..MaxNested]
        /\ sched_lock \in 0..MaxSchedLock /\ nested \in 0..MaxIntrpt
        /\ time_slice \in [Tasks -> Nat] /\ time_total \in [Tasks -> Nat]
        /\ tick_remain \in [Tasks -> Int]
    BY <1>4 DEF Init
  <2>4. /\ blk_obj \in [Tasks -> Objs \cup {NULL}]
        /\ blk_state \in [Tasks -> {"BLK_FINISH", "BLK_ABORT", "BLK_TIMEOUT", "BLK_DEL"}]
        /\ sched_policy \in [Tasks -> {"KSCHED_FIFO", "KSCHED_RR"}]
        /\ alive \subseteq Objs
        /\ mutex_task \in [Mutexes -> Tasks \cup {NULL}]
        /\ tick_isr \in {"no", "tick", "slice", "done"}
    BY DEF Init
  <2> QED
    BY <1>2, <1>3, <2>1, <2>2, <2>3, <2>4, <2>5 DEF FieldsOK
<1>6. BlkExact(blk_list, task_state, blk_obj)
  <2>1. \A t \in Tasks : task_state[t] \notin Pending
    BY DEF Init, Pending
  <2>2. /\ blk_list \in [Objs -> Seq(Tasks)]
        /\ \A o \in Objs : blk_list[o] = <<>>
    BY DEF Init
  <2>3. IsInjective(<<>>) /\ ToSet(<<>>) = {}
    BY DEF IsInjective, ToSet
  <2> QED
    BY <2>1, <2>2, <2>3 DEF BlkExact
<1>7. SuspendCountSound
  BY DEF Init, SuspendCountSound
<1>8. PendSound /\ CallSound
  BY Constants DEF Init, PendSound, CallSound, Pending
<1>9. CpuSound
  BY <1>2 DEF CpuSound
<1>10. TodoSound
  BY WorkNone DEF Init, TodoSound
<1> QED
  BY <1>1, <1>5, <1>6, <1>7, <1>8, <1>9, <1>10 DEF IInv

-----------------------------------------------------------------------------
(* One lemma per action: the invariant holds after it.  A part of the      *)
(* invariant whose variables an action leaves alone is kept (Frames).      *)

\* A part of the invariant whose variables do not change is kept.
LEMMA Frames ==
    ASSUME IInv
    PROVE  /\ UNCHANGED <<rq, task_state, prio>> => QueueExact(rq, task_state, prio)'
           /\ UNCHANGED <<blk_list, task_state, blk_obj>>
              => BlkExact(blk_list, task_state, blk_obj)'
           /\ UNCHANGED <<task_state, suspend_count>> => SuspendCountSound'
           /\ UNCHANGED <<task_state, prio, b_prio>> => IdleSound'
           /\ UNCHANGED <<task_state, blk_obj, call, alive, mutex_task>> => PendSound'
           /\ UNCHANGED <<task_state, pc, call>> => CallSound'
           /\ UNCHANGED <<pendsv, task_state, preferred, active, pc, sched_lock>>
              => CpuSound'
           /\ UNCHANGED <<todo, alive, mutex_task, active, pc, nested, pendsv, sched_lock>>
              => TodoSound'
<1>1. UNCHANGED <<rq, task_state, prio>> => QueueExact(rq, task_state, prio)'
  BY DEF IInv, QueueExact
<1>2. UNCHANGED <<blk_list, task_state, blk_obj>> => BlkExact(blk_list, task_state, blk_obj)'
  BY DEF IInv, BlkExact
<1>3. UNCHANGED <<task_state, suspend_count>> => SuspendCountSound'
  BY DEF IInv, SuspendCountSound
<1>4. UNCHANGED <<task_state, prio, b_prio>> => IdleSound'
  BY DEF IInv, IdleSound
<1>5. UNCHANGED <<task_state, blk_obj, call, alive, mutex_task>> => PendSound'
  BY DEF IInv, PendSound
<1>6. UNCHANGED <<task_state, pc, call>> => CallSound'
  BY DEF IInv, CallSound, Created
<1>7. UNCHANGED <<pendsv, task_state, preferred, active, pc, sched_lock>> => CpuSound'
  BY DEF IInv, CpuSound
<1>8. UNCHANGED <<todo, alive, mutex_task, active, pc, nested, pendsv, sched_lock>> => TodoSound'
  BY DEF IInv, TodoSound, ItemSound
<1> QED
  BY <1>1, <1>2, <1>3, <1>4, <1>5, <1>6, <1>7, <1>8

\* A step that changes nothing.
LEMMA StutterInv == ASSUME IInv, UNCHANGED vars PROVE IInv'
<1> USE DEF vars, dataVars, tcbVars, rrVars, waitVars, mutexVars, cpuVars, ctlVars
<1>1. FieldsOK'
  BY DEF IInv, FieldsOK
<1> QED
  BY <1>1, Frames DEF IInv

\* core_sched and krhino_intrpt_exit: either a ready task keeps the CPU or a
\* switch to a ready task is pending.
LEMMA ReschedSound ==
    ASSUME IInv, Resched, UNCHANGED <<task_state, active, sched_lock>>
    PROVE  /\ preferred' \in Tasks /\ pendsv' \in BOOLEAN
           /\ pendsv' => task_state'[preferred'] = "K_RDY"
           /\ pendsv' \/ task_state'[active'] = "K_RDY"
           /\ sched_lock' = 0 \/ task_state'[active'] = "K_RDY"
<1>1. PreferredTask(rq) \in Tasks /\ task_state[PreferredTask(rq)] = "K_RDY"
  BY QueuePreferred DEF IInv
<1>2. /\ sched_lock \in Nat /\ preferred \in Tasks /\ pendsv \in BOOLEAN
      /\ pendsv => task_state[preferred] = "K_RDY"
      /\ sched_lock = 0 \/ task_state[active] = "K_RDY"
  BY DEF IInv, FieldsOK, CpuSound
<1>3. CASE sched_lock > 0 \/ PreferredTask(rq) = active
  <2>1. UNCHANGED <<preferred, pendsv>>
    BY <1>3 DEF Resched
  <2>2. task_state[active] = "K_RDY"
    BY <1>1, <1>2, <1>3
  <2> QED
    BY <1>2, <2>1, <2>2
<1>4. CASE ~(sched_lock > 0 \/ PreferredTask(rq) = active)
  <2>1. preferred' = PreferredTask(rq) /\ pendsv' = TRUE
    BY <1>4 DEF Resched
  <2> QED
    BY <1>1, <1>2, <2>1
<1> QED
  BY <1>3, <1>4

\* core_sched picks a ready task: the invariant is kept.
LEMMA CoreSchedInv == ASSUME IInv, CoreSched PROVE IInv'
<1> USE DEF dataVars, tcbVars, rrVars, waitVars, mutexVars
<1>1. /\ UNCHANGED <<dataVars, active, nested, tick_isr, todo, call, fatal>>
      /\ Resched /\ InTask /\ pc[active] \in {"sched", "blk"}
      /\ pc' = [pc EXCEPT ![active] = IF @ = "sched" THEN "run" ELSE "end"]
  BY DEF CoreSched
<1>2. /\ preferred' \in Tasks /\ pendsv' \in BOOLEAN
      /\ pendsv' => task_state'[preferred'] = "K_RDY"
      /\ pendsv' \/ task_state'[active'] = "K_RDY"
      /\ sched_lock' = 0 \/ task_state'[active'] = "K_RDY"
  BY <1>1, ReschedSound
<1>3. FieldsOK'
  BY <1>1, <1>2 DEF IInv, FieldsOK
<1>4. CpuSound'
  BY <1>2 DEF CpuSound
<1>5. CallSound'
  BY <1>1 DEF IInv, FieldsOK, CallSound, Created
<1>6. TodoSound'
  BY <1>1, TodoEmpty DEF InTask
<1> QED
  BY <1>1, <1>3, <1>4, <1>5, <1>6, Frames DEF IInv

\* The limits of the counters are natural numbers.
LEMMA Limits ==
    /\ MaxSuspend \in Nat \ {0} /\ MaxNested \in Nat \ {0}
    /\ MaxSchedLock \in Nat \ {0} /\ MaxIntrpt \in Nat \ {0}
    /\ TimeSlices \subseteq Nat /\ TimeSliceDefault \in Nat
BY KernelAssumption

\* A call that pended returns: the invariant is kept.
LEMMA PendStateEndProcInv == ASSUME IInv, PendStateEndProc PROVE IInv'
<1> USE DEF tcbVars, rrVars, waitVars, cpuVars
<1>1. /\ InTask /\ pc[active] = "end"
      /\ pc' = [pc EXCEPT ![active] = "run"] /\ call' = [call EXCEPT ![active] = NULL]
      /\ UNCHANGED <<task_state, prio, b_prio, alive, rq, sched_lock, tcbVars, rrVars,
                     waitVars, mutex_list, mutex_task, owner_nested, cpuVars, todo, fatal>>
  BY DEF PendStateEndProc
<1>2. active \in Tasks /\ task_state[active] = "K_RDY"
  BY <1>1, Runs
<1>3. FieldsOK'
  <2>1. held' \in [Tasks -> [Mutexes -> Nat]]
    <3>1. held \in [Tasks -> [Mutexes -> Nat]]
      BY DEF IInv, FieldsOK
    <3> DEFINE m == call[active]
    <3>2. CASE m \in Mutexes /\ held' = [held EXCEPT ![active][m] = @ + 1]
      <4> HIDE DEF m
      <4> QED
        BY <1>2, <3>1, <3>2
    <3>3. CASE held' = held
      BY <3>1, <3>3
    <3> QED
      BY <3>2, <3>3 DEF PendStateEndProc
  <2> QED
    BY <1>1, <2>1 DEF IInv, FieldsOK
<1>4. PendSound'
  BY <1>1, <1>2 DEF IInv, FieldsOK, PendSound, Pending
<1>5. CpuSound'
  BY <1>1, <1>2 DEF IInv, CpuSound
<1>6. CallSound'
  BY <1>1 DEF IInv, FieldsOK, CallSound, Created
<1>7. TodoSound'
  BY <1>1, TodoEmpty DEF InTask
<1> QED
  BY <1>1, <1>3, <1>4, <1>5, <1>6, <1>7, Frames DEF IInv

\* PendSV_Handler switches to a ready task: the invariant is kept.
LEMMA PendSVInv == ASSUME IInv, PendSV PROVE IInv'
<1> USE DEF dataVars, tcbVars, rrVars, waitVars, mutexVars, ctlVars
<1>1. /\ todo = <<>> /\ pendsv /\ active' = preferred /\ pendsv' = FALSE
      /\ UNCHANGED <<dataVars, preferred, nested, tick_isr, ctlVars>>
  BY DEF PendSV
<1>2. FieldsOK'
  BY <1>1 DEF IInv, FieldsOK
<1>3. CpuSound'
  BY <1>1 DEF IInv, CpuSound
<1>4. TodoSound'
  BY <1>1, TodoEmpty
<1> QED
  BY <1>1, <1>2, <1>3, <1>4, Frames DEF IInv

\* krhino_intrpt_enter: the invariant is kept.
LEMMA IntrptEnterInv == ASSUME IInv, IntrptEnter \/ TickEnter PROVE IInv'
<1> USE DEF dataVars, tcbVars, rrVars, waitVars, mutexVars, ctlVars
<1>1. /\ todo = <<>>
      /\ UNCHANGED <<dataVars, active, preferred, pendsv, ctlVars>>
  BY DEF IntrptEnter, TickEnter, InTask
<1>2. nested' \in 0..MaxIntrpt /\ tick_isr' \in {"no", "tick", "slice", "done"}
  <2>1. nested \in 0..MaxIntrpt /\ tick_isr \in {"no", "tick", "slice", "done"}
    BY DEF IInv, FieldsOK
  <2>2. CASE IntrptEnter
    BY <2>1, <2>2, Limits DEF IntrptEnter
  <2>3. CASE TickEnter
    BY <2>1, <2>3, Limits DEF TickEnter
  <2> QED
    BY <2>2, <2>3
<1>3. FieldsOK'
  BY <1>1, <1>2 DEF IInv, FieldsOK
<1>4. TodoSound'
  BY <1>1, TodoEmpty
<1> QED
  BY <1>1, <1>3, <1>4, Frames DEF IInv

\* krhino_intrpt_exit: the invariant is kept.
LEMMA IntrptExitInv == ASSUME IInv, IntrptExit PROVE IInv'
<1> USE DEF dataVars, tcbVars, rrVars, waitVars, mutexVars, ctlVars
<1>1. /\ todo = <<>> /\ nested > 0 /\ nested' = nested - 1
      /\ UNCHANGED <<dataVars, active, ctlVars>>
      /\ tick_isr' = IF nested = 1 THEN "no" ELSE tick_isr
  BY DEF IntrptExit
<1>4. nested' \in 0..MaxIntrpt /\ tick_isr' \in {"no", "tick", "slice", "done"}
  <2>1. nested \in 0..MaxIntrpt /\ tick_isr \in {"no", "tick", "slice", "done"}
    BY DEF IInv, FieldsOK
  <2> QED
    BY <1>1, <2>1, Limits
<1>2. CASE nested = 1
  <2>1. Resched
    BY <1>2 DEF IntrptExit
  <2>2. /\ preferred' \in Tasks /\ pendsv' \in BOOLEAN
        /\ pendsv' => task_state'[preferred'] = "K_RDY"
        /\ pendsv' \/ task_state'[active'] = "K_RDY"
        /\ sched_lock' = 0 \/ task_state'[active'] = "K_RDY"
    BY <1>1, <2>1, ReschedSound
  <2>3. FieldsOK'
    BY <1>1, <1>4, <2>2 DEF IInv, FieldsOK
  <2>4. CpuSound'
    BY <2>2 DEF CpuSound
  <2>5. TodoSound'
    BY <1>1, TodoEmpty
  <2> QED
    BY <1>1, <2>3, <2>4, <2>5, Frames DEF IInv
<1>3. CASE nested # 1
  <2>1. UNCHANGED <<preferred, pendsv>>
    BY <1>3 DEF IntrptExit
  <2>2. FieldsOK'
    BY <1>1, <1>4, <2>1 DEF IInv, FieldsOK
  <2>3. TodoSound'
    BY <1>1, TodoEmpty
  <2> QED
    BY <1>1, <2>1, <2>2, <2>3, Frames DEF IInv
<1> QED
  BY <1>2, <1>3

\* A last item of work about no task and no mutex.
LEMMA PlainItem ==
    ASSUME NEW op \in {"tick", "core_sched"}
    PROVE  LET it == Item(op, NULL, NULL, 0)
           IN  /\ it \in Items /\ WorkItem(it) /\ it.op = op
               /\ it.op # "mutex_free" /\ ItemSound(it)'
<1> DEFINE it == Item(op, NULL, NULL, 0)
<1>1. op \in Ops /\ NULL \in Tasks \cup {NULL} /\ NULL \in Objs \cup {NULL} /\ 0 \in Int
  BY DEF Ops
<1>2. it \in Items /\ it.op = op
  BY <1>1 DEF Item, Items
<1> HIDE DEF it
<1> QED
  BY <1>2 DEF WorkItem, ItemSound, it

\* krhino_tick_proc: the invariant is kept.
LEMMA TickProcInv == ASSUME IInv, TickProc PROVE IInv'
<1> USE DEF tcbVars, rrVars, mutexVars
<1> DEFINE it == Item("tick", NULL, NULL, 0)
<1>1. /\ todo = <<>> /\ todo' = <<it>> /\ tick_isr' = "slice"
      /\ tick_remain' = [t \in Tasks |-> IF t \in ToSet(tick_list) THEN tick_remain[t] - 1
                                         ELSE tick_remain[t]]
      /\ UNCHANGED <<task_state, prio, b_prio, alive, rq, sched_lock, tcbVars, rrVars,
                     blk_obj, blk_state, blk_list, tick_list, mutexVars, active,
                     preferred, pendsv, nested, pc, call, fatal>>
  BY DEF TickProc, InTickIsr
<1>2. FieldsOK'
  <2>1. tick_remain' \in [Tasks -> Int]
    BY <1>1 DEF IInv, FieldsOK
  <2> QED
    BY <1>1, <2>1 DEF IInv, FieldsOK
<1>3. TodoSound'
  <2>1. it \in Items /\ WorkItem(it) /\ it.op # "mutex_free" /\ ItemSound(it)'
    BY PlainItem
  <2> HIDE DEF it
  <2>2. <<>> \in PriWork /\ todo' = <<>> \o <<it>>
    BY <1>1, <2>1 DEF PriWork
  <2> QED
    BY <2>1, <2>2, TodoBegin
<1> QED
  BY <1>1, <1>2, <1>3, Frames DEF IInv

\* time_slice_update rotates a list and no more: the invariant is kept.
LEMMA TimeSliceUpdateInv == ASSUME IInv, TimeSliceUpdate PROVE IInv'
<1> USE DEF tcbVars, waitVars, mutexVars, ctlVars
<1> DEFINE p == prio[active]
           t == Head(rq.list[p])
<1>1. /\ todo = <<>> /\ tick_isr' = "done"
      /\ UNCHANGED <<task_state, prio, b_prio, alive, sched_lock, tcbVars, time_total,
                     sched_policy, waitVars, mutexVars, active, preferred, pendsv, nested,
                     ctlVars>>
  BY DEF TimeSliceUpdate, InTickIsr
<1>2. p \in Pris
  BY SMTT(30) DEF IInv, FieldsOK
<1>3. QueueExact(rq', task_state', prio') /\ time_slice' \in [Tasks -> Nat]
  <2>1. CASE UNCHANGED <<rq, time_slice>>
    BY <1>1, <2>1 DEF IInv, FieldsOK
  <2>2. CASE /\ time_slice' = [time_slice EXCEPT ![t] = IF @ > 1 THEN @ - 1 ELSE time_total[t]]
             /\ rq' = IF time_slice[t] > 1 THEN rq ELSE ReadyListHeadToTail(rq, p)
    <3>1. QueueExact(ReadyListHeadToTail(rq, p), task_state, prio)
      BY <1>2, QueueRotate DEF IInv
    <3>2. QueueExact(rq', task_state', prio')
      BY <1>1, <2>2, <3>1 DEF IInv
    <3>3. /\ time_slice \in [Tasks -> Nat] /\ time_total \in [Tasks -> Nat]
      BY DEF IInv, FieldsOK
    <3> HIDE DEF t
    <3>4. CASE t \in Tasks
      <4>1. (IF time_slice[t] > 1 THEN time_slice[t] - 1 ELSE time_total[t]) \in Nat
        BY <3>3, <3>4
      <4>2. time_slice' \in [Tasks -> Nat]
        BY <2>2, <3>3, <4>1
      <4> QED
        BY <3>2, <4>2
    <3>5. CASE t \notin Tasks
      <4>1. time_slice' = time_slice
        BY <2>2, <3>3, <3>5
      <4> QED
        BY <3>2, <3>3, <4>1
    <3> QED
      BY <3>4, <3>5
  <2> QED
    BY <2>1, <2>2 DEF TimeSliceUpdate
<1>4. FieldsOK'
  BY <1>1, <1>3 DEF IInv, FieldsOK
<1>5. TodoSound'
  BY <1>1, TodoEmpty
<1> QED
  BY <1>1, <1>3, <1>4, <1>5, Frames DEF IInv

\* krhino_sched_disable: the invariant is kept.
LEMMA SchedDisableInv == ASSUME IInv, SchedDisable PROVE IInv'
<1> USE DEF tcbVars, rrVars, waitVars, mutexVars, cpuVars, ctlVars
<1>1. /\ InTask /\ pc[active] = "run" /\ sched_lock < MaxSchedLock
      /\ sched_lock' = sched_lock + 1
      /\ UNCHANGED <<task_state, prio, b_prio, alive, rq, tcbVars, rrVars, waitVars,
                     mutexVars, cpuVars, ctlVars>>
  BY DEF SchedDisable, Calling
<1>2. active \in Tasks /\ task_state[active] = "K_RDY"
  BY <1>1, Runs
<1>3. FieldsOK'
  <2>1. sched_lock \in 0..MaxSchedLock
    BY DEF IInv, FieldsOK
  <2>2. sched_lock' \in 0..MaxSchedLock
    BY <1>1, <2>1, Limits
  <2> QED
    BY <1>1, <2>2 DEF IInv, FieldsOK
<1>4. CpuSound'
  BY <1>1, <1>2 DEF IInv, CpuSound
<1>5. TodoSound'
  BY <1>1, TodoEmpty DEF InTask
<1> QED
  BY <1>1, <1>3, <1>4, <1>5, Frames DEF IInv

\* The end of a call of the running task, rescheduling or not.
LEMMA ExitSound ==
    ASSUME FieldsOK, CallSound, ExitSched \/ UNCHANGED pc,
           UNCHANGED <<task_state, call>>
    PROVE  /\ pc' \in [Tasks -> {"run", "sched", "blk", "end", "pri"}]
           /\ \A x \in Tasks : pc'[x] = pc[x] \/ (x = active /\ pc'[x] = "sched")
           /\ CallSound'
<1>1. /\ pc' \in [Tasks -> {"run", "sched", "blk", "end", "pri"}]
      /\ \A x \in Tasks : pc'[x] = pc[x] \/ (x = active /\ pc'[x] = "sched")
  BY ZenonT(60) DEF FieldsOK, ExitSched
<1> QED
  BY <1>1 DEF CallSound, Created

\* krhino_sched_enable: the invariant is kept.
LEMMA SchedEnableInv == ASSUME IInv, SchedEnable PROVE IInv'
<1> USE DEF tcbVars, rrVars, waitVars, mutexVars, cpuVars
<1>1. /\ InTask /\ pc[active] = "run" /\ sched_lock > 0
      /\ sched_lock' = sched_lock - 1
      /\ ExitSched \/ UNCHANGED pc
      /\ UNCHANGED <<task_state, prio, b_prio, alive, rq, tcbVars, rrVars, waitVars,
                     mutexVars, cpuVars, todo, call, fatal>>
  BY DEF SchedEnable, Calling
<1>2. active \in Tasks /\ task_state[active] = "K_RDY"
  BY <1>1, Runs
<1>3. /\ pc' \in [Tasks -> {"run", "sched", "blk", "end", "pri"}]
      /\ CallSound'
  BY <1>1, ExitSound DEF IInv
<1>4. FieldsOK'
  <2>1. sched_lock \in 0..MaxSchedLock
    BY DEF IInv, FieldsOK
  <2>2. sched_lock' \in 0..MaxSchedLock
    BY <1>1, <2>1, Limits
  <2> QED
    BY <1>1, <1>3, <2>2 DEF IInv, FieldsOK
<1>5. CpuSound'
  BY <1>1, <1>2 DEF IInv, CpuSound
<1>6. TodoSound'
  BY <1>1, TodoEmpty DEF InTask
<1> QED
  BY <1>1, <1>3, <1>4, <1>5, <1>6, Frames DEF IInv

\* A call finds its task running, ready and not the idle task.
LEMMA Caller ==
    ASSUME IInv, NEW c, Calling(c)
    PROVE  /\ todo = <<>> /\ nested = 0 /\ ~pendsv /\ pc[active] = "run"
           /\ active \in AppTasks /\ active \in Tasks /\ active # IdleTask
           /\ task_state[active] = "K_RDY"
           /\ prio[active] \in AppPris /\ b_prio[active] \in AppPris
BY Runs DEF Calling, InTask, IInv, IdleSound, AppTasks

\* krhino_mutex_create: the invariant is kept.
LEMMA MutexCreateInv == ASSUME IInv, NEW m \in Mutexes, MutexCreate(m) PROVE IInv'
<1> USE DEF tcbVars, rrVars, waitVars, cpuVars, ctlVars
<1>1. /\ todo = <<>> /\ alive' = alive \cup {m} /\ \A t \in Tasks : call[t] # m
      /\ mutex_task' = [mutex_task EXCEPT ![m] = NULL]
      /\ owner_nested' = [owner_nested EXCEPT ![m] = 0]
      /\ UNCHANGED <<task_state, prio, b_prio, rq, sched_lock, tcbVars, rrVars,
                     waitVars, mutex_list, held, cpuVars, ctlVars>>
  BY DEF MutexCreate, Calling, InTask
<1>2. FieldsOK'
  <2>1. owner_nested' \in [Mutexes -> 0..MaxNested]
    BY <1>1, Limits DEF IInv, FieldsOK
  <2>2. alive' \subseteq Objs
    BY <1>1 DEF IInv, FieldsOK, Objs
  <2> QED
    BY <1>1, <2>1, <2>2 DEF IInv, FieldsOK
<1>3. PendSound'
  <2>1. ASSUME NEW t \in Tasks, task_state[t] \in Pending
        PROVE  /\ blk_obj[t] \in Objs /\ call[t] = blk_obj[t] /\ blk_obj[t] # m
               /\ blk_obj[t] \in Mutexes \cap alive => mutex_task[blk_obj[t]] # NULL
    BY <1>1, <2>1 DEF IInv, PendSound
  <2>2. \A x \in Mutexes : /\ mutex_task'[x] = IF x = m THEN NULL ELSE mutex_task[x]
                           /\ mutex_task[x] # IdleTask
    BY <1>1 DEF IInv, FieldsOK, PendSound
  <2>3. IdleTask # NULL
    BY Constants
  <2> QED
    BY <1>1, <2>1, <2>2, <2>3 DEF PendSound
<1>4. TodoSound'
  BY <1>1, TodoEmpty
<1> QED
  BY <1>1, <1>2, <1>3, <1>4, Frames DEF IInv

\* A mutex m changes its owner, to a task that is not the idle task, or to
\* none when no task waits for it.
LEMMA OwnerChange ==
    ASSUME IInv, NEW m \in Mutexes, NEW o \in AppTasks \cup {NULL},
           mutex_task' = [mutex_task EXCEPT ![m] = o],
           UNCHANGED <<task_state, blk_obj, call, alive>>,
           o = NULL => \A t \in Tasks : ~(task_state[t] \in Pending /\ blk_obj[t] = m)
    PROVE  PendSound' /\ mutex_task' \in [Mutexes -> Tasks \cup {NULL}]
<1>1. /\ mutex_task' \in [Mutexes -> Tasks \cup {NULL}]
      /\ \A x \in Mutexes : mutex_task'[x] = IF x = m THEN o ELSE mutex_task[x]
  BY DEF IInv, FieldsOK, AppTasks
<1>2. o # IdleTask
  BY Constants DEF AppTasks
<1> QED
  BY <1>1, <1>2 DEF IInv, PendSound

\* A nested krhino_mutex_lock: the invariant is kept.
LEMMA MutexLockNestedInv == ASSUME IInv, NEW m \in Mutexes, MutexLockNested(m) PROVE IInv'
<1> USE DEF tcbVars, rrVars, waitVars, cpuVars, ctlVars
<1>1. /\ owner_nested[m] < MaxNested
      /\ owner_nested' = [owner_nested EXCEPT ![m] = @ + 1]
      /\ held' = [held EXCEPT ![active][m] = @ + 1]
      /\ UNCHANGED <<task_state, prio, b_prio, alive, rq, sched_lock, tcbVars, rrVars,
                     waitVars, mutex_list, mutex_task, cpuVars, ctlVars>>
  BY DEF MutexLockNested
<1>2. /\ owner_nested \in [Mutexes -> 0..MaxNested] /\ held \in [Tasks -> [Mutexes -> Nat]]
      /\ active \in Tasks
  BY DEF IInv, FieldsOK
<1>3. owner_nested' \in [Mutexes -> 0..MaxNested]
  BY <1>1, <1>2, Limits
<1>4. held' \in [Tasks -> [Mutexes -> Nat]]
  BY <1>1, <1>2
<1>5. FieldsOK'
  BY <1>1, <1>3, <1>4 DEF IInv, FieldsOK
<1> QED
  BY <1>1, <1>5, Frames DEF IInv

\* krhino_mutex_lock of a free mutex: the invariant is kept.
LEMMA MutexLockFreeInv == ASSUME IInv, NEW m \in Mutexes, MutexLockFree(m) PROVE IInv'
<1> USE DEF tcbVars, rrVars, waitVars, cpuVars, ctlVars
<1>1. /\ Calling("mutex_lock")
      /\ mutex_task' = [mutex_task EXCEPT ![m] = active]
      /\ mutex_list' = [mutex_list EXCEPT ![active] = <<m>> \o @]
      /\ owner_nested' = [owner_nested EXCEPT ![m] = 1]
      /\ held' = [held EXCEPT ![active][m] = @ + 1]
      /\ UNCHANGED <<task_state, prio, b_prio, alive, rq, sched_lock, tcbVars, rrVars,
                     waitVars, cpuVars, ctlVars>>
  BY DEF MutexLockFree
<1>2. active \in AppTasks /\ active \in Tasks /\ todo = <<>>
  BY <1>1, Caller
<1>3. PendSound' /\ mutex_task' \in [Mutexes -> Tasks \cup {NULL}]
  <2>1. active \in AppTasks \cup {NULL} /\ active # NULL
    BY <1>2, Constants
  <2> QED
    BY <1>1, <2>1, OwnerChange
<1>4. FieldsOK'
  <2>1. /\ owner_nested \in [Mutexes -> 0..MaxNested] /\ held \in [Tasks -> [Mutexes -> Nat]]
        /\ mutex_list \in [Tasks -> Seq(Mutexes)]
    BY DEF IInv, FieldsOK
  <2>2. owner_nested' \in [Mutexes -> 0..MaxNested]
    BY <1>1, <2>1, Limits
  <2>3. held' \in [Tasks -> [Mutexes -> Nat]]
    BY <1>1, <1>2, <2>1
  <2>4. mutex_list' \in [Tasks -> Seq(Mutexes)]
    BY <1>1, <1>2, <2>1
  <2> QED
    BY <1>1, <1>3, <2>2, <2>3, <2>4 DEF IInv, FieldsOK
<1>5. TodoSound'
  BY <1>1, <1>2, TodoEmpty
<1> QED
  BY <1>1, <1>3, <1>4, <1>5, Frames DEF IInv

\* krhino_mutex_lock of a mutex another task owns: the invariant is kept.
LEMMA MutexLockBusyInv ==
    ASSUME IInv, NEW m \in Mutexes, NEW ticks \in Waits, MutexLockBusy(m, ticks)
    PROVE  IInv'
<1> USE DEF dataVars, tcbVars, rrVars, waitVars, mutexVars, cpuVars
<1> DEFINE o == mutex_task[m]
           it0 == Item("lock_pend", active, m, ticks)
           r0 == IF prio[active] < prio[o] THEN <<Item("pri_change", o, NULL, prio[active])>>
                ELSE <<>>
<1>1. /\ Calling("mutex_lock") /\ o \notin {NULL, active} /\ sched_lock = 0
      /\ m \in alive /\ todo' = r0 \o <<it0>>
      /\ UNCHANGED <<dataVars, cpuVars, pc, call, fatal>>
  BY DEF MutexLockBusy
<1>2. /\ active \in AppTasks /\ active \in Tasks /\ active # IdleTask
      /\ pc[active] = "run" /\ nested = 0 /\ ~pendsv /\ prio[active] \in AppPris
  BY <1>1, Caller
<1>3. o \in AppTasks
  BY <1>1 DEF IInv, FieldsOK, PendSound, AppTasks
<1>4. PICK r \in PriWork : r = r0
  <2>1. r0 \in PriWork
    BY <1>2, <1>3 DEF PriWork
  <2> QED
    BY <2>1, Zenon
<1>5. PICK it \in Items : it = it0 /\ it.op = "lock_pend" /\ it.obj = m /\ it.arg = ticks
  <2>1. /\ "lock_pend" \in Ops /\ active \in Tasks \cup {NULL} /\ m \in Objs \cup {NULL}
        /\ ticks \in Int
    BY <1>2, KernelAssumption DEF Ops, Objs, FOREVER
  <2>2. it0 \in Items /\ it0.op = "lock_pend" /\ it0.obj = m /\ it0.arg = ticks
    BY <2>1 DEF Item, Items
  <2> QED
    BY <2>2, Zenon
<1> HIDE DEF r0, it0
<1>6. WorkItem(it) /\ it.op # "mutex_free"
  BY <1>5 DEF WorkItem
<1>7. ItemSound(it)'
  BY <1>1, <1>2, <1>5 DEF ItemSound
<1>8. TodoSound'
  BY <1>1, <1>4, <1>5, <1>6, <1>7, TodoBegin
<1>9. FieldsOK'
  BY <1>1 DEF IInv, FieldsOK
<1> QED
  BY <1>1, <1>8, <1>9, Frames DEF IInv

\* A nested krhino_mutex_unlock: the invariant is kept.
LEMMA MutexUnlockNestedInv ==
    ASSUME IInv, NEW m \in Mutexes, MutexUnlockNested(m) PROVE IInv'
<1> USE DEF tcbVars, rrVars, waitVars, cpuVars, ctlVars
<1>1. /\ owner_nested[m] > 1
      /\ owner_nested' = [owner_nested EXCEPT ![m] = @ - 1]
      /\ held' = [held EXCEPT ![active][m] = IF @ > 0 THEN @ - 1 ELSE 0]
      /\ UNCHANGED <<task_state, prio, b_prio, alive, rq, sched_lock, tcbVars, rrVars,
                     waitVars, mutex_list, mutex_task, cpuVars, ctlVars>>
  BY DEF MutexUnlockNested
<1>2. /\ owner_nested \in [Mutexes -> 0..MaxNested] /\ held \in [Tasks -> [Mutexes -> Nat]]
      /\ active \in Tasks
  BY DEF IInv, FieldsOK
<1>3. owner_nested' \in [Mutexes -> 0..MaxNested]
  BY <1>1, <1>2, Limits
<1>4. held' \in [Tasks -> [Mutexes -> Nat]]
  BY <1>1, <1>2
<1>5. FieldsOK'
  BY <1>1, <1>3, <1>4 DEF IInv, FieldsOK
<1> QED
  BY <1>1, <1>5, Frames DEF IInv

\* A last item of work about a mutex or another object.
LEMMA ObjectItem ==
    ASSUME NEW op \in {"hand_over", "del_waiters"}, NEW t \in Tasks \cup {NULL},
           NEW o \in Mutexes
    PROVE  LET it == Item(op, t, o, 0)
           IN  /\ it \in Items /\ WorkItem(it) /\ it.op = op /\ it.obj = o
               /\ it.op # "mutex_free" /\ ItemSound(it)'
<1>1. PICK it \in Items : it = Item(op, t, o, 0) /\ it.op = op /\ it.obj = o
  <2>1. op \in Ops /\ o \in Objs \cup {NULL} /\ 0 \in Int
    BY DEF Ops, Objs
  <2>2. Item(op, t, o, 0) \in Items /\ Item(op, t, o, 0).op = op /\ Item(op, t, o, 0).obj = o
    BY <2>1 DEF Item, Items
  <2> QED
    BY <2>2, Zenon
<1>2. o \in Objs
  BY DEF Objs
<1>3. WorkItem(it) /\ it.op # "mutex_free"
  BY <1>1, <1>2 DEF WorkItem
<1>4. ItemSound(it)'
  BY <1>1 DEF ItemSound
<1> QED
  BY <1>1, <1>3, <1>4

\* The mutexes that a task has after mutex_release of m are objects.
LEMMA ReleasedList ==
    ASSUME NEW s \in Seq(Mutexes), NEW m
    PROVE  /\ RemoveFirst(s, m) \in Seq(Mutexes)
           /\ ToSet(RemoveFirst(s, m)) \subseteq Objs
<1> DEFINE r == RemoveFirst(s, m)
<1>1. r \in Seq(Mutexes)
  BY RemoveFirstSeq
<1> HIDE DEF r
<1>2. ToSet(r) \subseteq Objs
  BY <1>1, MemberAt DEF Objs
<1> QED
  BY <1>1, <1>2 DEF r

\* The last krhino_mutex_unlock: the invariant is kept.
LEMMA MutexUnlockInv == ASSUME IInv, NEW m \in Mutexes, MutexUnlock(m) PROVE IInv'
<1> USE DEF tcbVars, rrVars, waitVars, cpuVars
<1> DEFINE ml == RemoveFirst(mutex_list[active], m)
           r0 == MutexRelease(active, ToSet(ml), blk_list)
           it0 == Item("hand_over", active, m, 0)
<1>1. active \in AppTasks /\ active \in Tasks
  BY Caller DEF MutexUnlock
<1>2. /\ owner_nested \in [Mutexes -> 0..MaxNested] /\ held \in [Tasks -> [Mutexes -> Nat]]
      /\ mutex_list \in [Tasks -> Seq(Mutexes)]
  BY DEF IInv, FieldsOK
<1>3. ml \in Seq(Mutexes) /\ ToSet(ml) \subseteq Objs
  <2>1. mutex_list[active] \in Seq(Mutexes)
    BY <1>1, <1>2
  <2> QED
    BY <2>1, ReleasedList
<1>4. /\ owner_nested' = [owner_nested EXCEPT ![m] = 0]
      /\ held' = [held EXCEPT ![active][m] = IF @ > 0 THEN @ - 1 ELSE 0]
      /\ mutex_list' = [mutex_list EXCEPT ![active] = ml] /\ mutex_list'[active] = ml
      /\ UNCHANGED <<task_state, prio, b_prio, alive, rq, sched_lock, tcbVars, rrVars,
                     waitVars, mutex_task, cpuVars, pc, call, fatal>>
  BY <1>1, <1>2 DEF MutexUnlock
<1>5. todo' = r0 \o <<it0>>
  BY <1>4 DEF MutexUnlock
<1> HIDE DEF ml
<1>6. FieldsOK'
  <2>1. owner_nested' \in [Mutexes -> 0..MaxNested]
    BY <1>2, <1>4, Limits
  <2>2. held' \in [Tasks -> [Mutexes -> Nat]]
    BY <1>1, <1>2, <1>4
  <2>3. mutex_list' \in [Tasks -> Seq(Mutexes)]
    BY <1>1, <1>2, <1>3, <1>4
  <2> QED
    BY <1>4, <2>1, <2>2, <2>3 DEF IInv, FieldsOK
<1>7. PICK r \in PriWork : r = r0
  <2>1. /\ blk_list \in [Objs -> Seq(Tasks)]
        /\ \A o \in Objs : IdleTask \notin ToSet(blk_list[o])
    BY WaitersNotIdle
  <2>2. r0 \in PriWork
    BY <1>1, <1>3, <2>1, ReleaseWork DEF IInv
  <2> QED
    BY <2>2, Zenon
<1>8. PICK it \in Items : it = it0 /\ WorkItem(it) /\ it.op # "mutex_free" /\ ItemSound(it)'
  <2>1. /\ it0 \in Items /\ WorkItem(it0) /\ it0.op = "hand_over"
    BY <1>1, ObjectItem
  <2>2. PICK it \in Items : it = it0
    BY <2>1, Zenon
  <2>3. WorkItem(it) /\ it.op = "hand_over"
    BY <2>1, <2>2
  <2>4. ItemSound(it)'
    BY <2>3 DEF ItemSound
  <2> QED
    BY <2>2, <2>3, <2>4
<1> HIDE DEF r0, it0
<1>9. TodoSound'
  BY <1>5, <1>7, <1>8, TodoBegin
<1> QED
  BY <1>4, <1>6, <1>9, Frames DEF IInv

\* A call that changes no state of a task keeps the task on the CPU sound.
LEMMA CallerSound ==
    ASSUME IInv, NEW c, Calling(c), ExitSched \/ UNCHANGED pc,
           UNCHANGED <<task_state, call, active, preferred, pendsv, sched_lock>>
    PROVE  /\ pc' \in [Tasks -> {"run", "sched", "blk", "end", "pri"}]
           /\ CpuSound' /\ CallSound'
<1>1. active \in Tasks /\ task_state[active] = "K_RDY" /\ ~pendsv
  BY Caller
<1>2. pc' \in [Tasks -> {"run", "sched", "blk", "end", "pri"}] /\ CallSound'
  BY ExitSound DEF IInv
<1> QED
  BY <1>1, <1>2 DEF CpuSound

\* krhino_mutex_del: the invariant is kept.
LEMMA MutexDelInv == ASSUME IInv, NEW m \in Mutexes, MutexDel(m) PROVE IInv'
<1> USE DEF tcbVars, rrVars, waitVars, cpuVars
<1> DEFINE o == mutex_task[m]
           ml == RemoveFirst(mutex_list[o], m)
           it == Item("del_waiters", NULL, m, 0)
<1>1. /\ Calling("mutex_del") /\ alive' = alive \ {m} /\ ExitSched
      /\ held' = [t \in Tasks |-> [held[t] EXCEPT ![m] = 0]]
      /\ UNCHANGED <<task_state, prio, b_prio, rq, sched_lock, tcbVars, rrVars,
                     waitVars, mutex_task, owner_nested, cpuVars, call, fatal>>
  BY DEF MutexDel
<1>2. /\ pc' \in [Tasks -> {"run", "sched", "blk", "end", "pri"}]
      /\ CpuSound' /\ CallSound'
  BY <1>1, CallerSound
<1>3. held' \in [Tasks -> [Mutexes -> Nat]] /\ alive' \subseteq Objs
  BY <1>1 DEF IInv, FieldsOK
<1>4. mutex_list \in [Tasks -> Seq(Mutexes)] /\ mutex_task \in [Mutexes -> Tasks \cup {NULL}]
  BY DEF IInv, FieldsOK
<1>5. it \in Items /\ WorkItem(it) /\ it.op # "mutex_free" /\ ItemSound(it)'
  BY ObjectItem
<1>6. mutex_list' \in [Tasks -> Seq(Mutexes)]
      /\ \E r \in PriWork : todo' = r \o <<it>>
  <2>1. CASE o = NULL
    <3>1. <<>> \in PriWork /\ todo' = <<>> \o <<it>> /\ UNCHANGED mutex_list
      BY <1>5, <2>1 DEF MutexDel, PriWork
    <3> QED
      BY <1>4, <3>1
  <2>2. CASE o # NULL
    <3>1. o \in AppTasks /\ o \in Tasks
      BY <1>4, <2>2 DEF IInv, PendSound, AppTasks
    <3>2. mutex_list[o] \in Seq(Mutexes)
      BY <1>4, <3>1
    <3>3. ml \in Seq(Mutexes) /\ ToSet(ml) \subseteq Objs
      BY <3>2, ReleasedList
    <3>4. /\ mutex_list' = [mutex_list EXCEPT ![o] = ml] /\ mutex_list'[o] = ml
          /\ todo' = MutexRelease(o, ToSet(ml), blk_list) \o <<it>>
      BY <1>4, <2>2, <3>1 DEF MutexDel
    <3> HIDE DEF ml, o, it
    <3>5. /\ blk_list \in [Objs -> Seq(Tasks)]
          /\ \A x \in Objs : IdleTask \notin ToSet(blk_list[x])
      BY WaitersNotIdle
    <3>6. MutexRelease(o, ToSet(ml), blk_list) \in PriWork
      BY <3>1, <3>3, <3>5, ReleaseWork DEF IInv
    <3>7. mutex_list' \in [Tasks -> Seq(Mutexes)]
      BY <1>4, <3>3, <3>4
    <3> QED
      BY <3>4, <3>6, <3>7, Zenon
  <2> QED
    BY <2>1, <2>2
<1>7. FieldsOK'
  BY <1>1, <1>2, <1>3, <1>6 DEF IInv, FieldsOK
<1>8. PICK r \in PriWork : todo' = r \o <<it>>
  BY <1>6
<1> HIDE DEF it
<1>9. TodoSound'
  BY <1>5, <1>8, TodoBegin
<1>10. PendSound'
  BY <1>1 DEF IInv, PendSound
<1> QED
  BY <1>1, <1>2, <1>7, <1>9, <1>10, Frames DEF IInv

\* krhino_task_yield: the invariant is kept.
LEMMA TaskYieldInv == ASSUME IInv, TaskYield PROVE IInv'
<1> USE DEF tcbVars, rrVars, waitVars, mutexVars, cpuVars
<1>1. /\ Calling("task_yield") /\ ExitSched
      /\ rq' = ReadyListHeadToTail(rq, prio[active])
      /\ UNCHANGED <<task_state, prio, b_prio, alive, sched_lock, tcbVars, rrVars,
                     waitVars, mutexVars, cpuVars, todo, call, fatal>>
  BY DEF TaskYield
<1>2. /\ pc' \in [Tasks -> {"run", "sched", "blk", "end", "pri"}]
      /\ CpuSound' /\ CallSound'
  BY <1>1, CallerSound
<1>3. QueueExact(rq', task_state', prio')
  <2>1. prio[active] \in Pris
    BY DEF IInv, FieldsOK
  <2>2. QueueExact(ReadyListHeadToTail(rq, prio[active]), task_state, prio)
    BY <2>1, QueueRotate DEF IInv
  <2> QED
    BY <1>1, <2>2
<1>4. FieldsOK'
  BY <1>1, <1>2 DEF IInv, FieldsOK
<1>5. TodoSound'
  BY <1>1, Caller, TodoEmpty
<1> QED
  BY <1>1, <1>2, <1>3, <1>4, <1>5, Frames DEF IInv

\* krhino_task_time_slice_set: the invariant is kept.
LEMMA TaskTimeSliceSetInv ==
    ASSUME IInv, NEW t \in Tasks, NEW s \in TimeSlices, TaskTimeSliceSet(t, s) PROVE IInv'
<1> USE DEF tcbVars, waitVars, mutexVars, cpuVars, ctlVars
<1>1. /\ time_total' = [time_total EXCEPT ![t] = IF s > 0 THEN s ELSE TimeSliceDefault]
      /\ time_slice' = [time_slice EXCEPT ![t] = time_total'[t]]
      /\ UNCHANGED <<task_state, prio, b_prio, alive, rq, sched_lock, tcbVars,
                     sched_policy, waitVars, mutexVars, cpuVars, ctlVars>>
  BY DEF TaskTimeSliceSet
<1>2. /\ time_total \in [Tasks -> Nat] /\ time_slice \in [Tasks -> Nat]
      /\ s \in Nat /\ TimeSliceDefault \in Nat
  BY Limits DEF IInv, FieldsOK
<1>3. time_total' \in [Tasks -> Nat]
  BY <1>1, <1>2
<1>4. time_slice' \in [Tasks -> Nat]
  BY <1>1, <1>2, <1>3
<1>5. FieldsOK'
  BY <1>1, <1>3, <1>4 DEF IInv, FieldsOK
<1> QED
  BY <1>1, <1>5, Frames DEF IInv

\* krhino_sched_policy_set: the invariant is kept.
LEMMA SchedPolicySetInv ==
    ASSUME IInv, NEW t \in Tasks, NEW policy \in {"KSCHED_FIFO", "KSCHED_RR"},
           SchedPolicySet(t, policy)
    PROVE  IInv'
<1> USE DEF tcbVars, waitVars, mutexVars, cpuVars, ctlVars
<1>1. /\ sched_policy' = [sched_policy EXCEPT ![t] = policy]
      /\ UNCHANGED <<task_state, prio, b_prio, alive, rq, sched_lock, tcbVars,
                     time_slice, time_total, waitVars, mutexVars, cpuVars, ctlVars>>
  BY DEF SchedPolicySet
<1>2. FieldsOK'
  BY <1>1 DEF IInv, FieldsOK
<1> QED
  BY <1>1, <1>2, Frames DEF IInv

\* The checks of krhino_task_pri_change: the invariant is kept.
LEMMA TaskPriChangeCheckInv ==
    ASSUME IInv, NEW t \in Tasks, NEW p \in NewPris, TaskPriChangeCheck(t, p) PROVE IInv'
<1> USE DEF dataVars, tcbVars, rrVars, waitVars, mutexVars, cpuVars
<1>1. /\ Calling("task_pri_change") /\ prio[t] < IdlePri
      /\ pc' = [pc EXCEPT ![active] = "pri"]
      /\ call' = [call EXCEPT ![active] = <<t, p>>]
      /\ UNCHANGED <<dataVars, cpuVars, todo, fatal>>
  BY DEF TaskPriChangeCheck
<1>2. active \in Tasks /\ task_state[active] = "K_RDY" /\ todo = <<>>
  BY <1>1, Caller
<1>3. t \in AppTasks /\ p \in AppPris /\ p \in Pris
  <2>1. t # IdleTask
    BY <1>1, Constants DEF IInv, IdleSound
  <2> QED
    BY <2>1, Constants DEF AppTasks
<1>4. FieldsOK'
  <2>1. call' \in [Tasks -> Objs \cup {NULL} \cup (Tasks \X Pris)]
    <3>1. call \in [Tasks -> Objs \cup {NULL} \cup (Tasks \X Pris)]
      BY DEF IInv, FieldsOK
    <3>2. <<t, p>> \in Objs \cup {NULL} \cup (Tasks \X Pris)
      BY <1>3
    <3> QED
      BY <1>1, <1>2, <3>1, <3>2
  <2> QED
    BY <1>1, <2>1 DEF IInv, FieldsOK
<1>5. /\ \A x \in Tasks : x # active => pc'[x] = pc[x] /\ call'[x] = call[x]
      /\ call'[active] = <<t, p>>
  BY <1>1, <1>2 DEF IInv, FieldsOK
<1>6. PendSound'
  BY <1>1, <1>2, <1>5 DEF IInv, PendSound, Pending
<1>7. CallSound'
  BY <1>1, <1>3, <1>5 DEF IInv, CallSound, Created
<1>8. CpuSound'
  BY <1>1, <1>2 DEF IInv, CpuSound
<1>9. TodoSound'
  BY <1>1, <1>2, TodoEmpty
<1> QED
  BY <1>1, <1>4, <1>6, <1>7, <1>8, <1>9, Frames DEF IInv

\* The critical section of krhino_task_pri_change: the invariant is kept.
LEMMA TaskPriChangeCallInv == ASSUME IInv, TaskPriChangeCall PROVE IInv'
<1> USE DEF tcbVars, rrVars, waitVars, mutexVars, cpuVars
<1> DEFINE t == call[active][1]
           p == call[active][2]
           new == PriLook(p, ToSet(mutex_list[t]), blk_list, prio)
<1>1. /\ InTask /\ pc[active] = "pri"
      /\ pc' = [pc EXCEPT ![active] = IF Created(t) \/ prio[t] = new THEN "sched" ELSE "run"]
      /\ b_prio' = [b_prio EXCEPT ![t] = p]
      /\ todo' = <<Item("pri_change", t, NULL, new)>>
      /\ call' = [call EXCEPT ![active] = NULL]
      /\ UNCHANGED <<task_state, prio, alive, rq, sched_lock, tcbVars, rrVars, waitVars,
                     mutexVars, cpuVars, fatal>>
  BY DEF TaskPriChangeCall
<1>2. active \in Tasks /\ task_state[active] = "K_RDY"
  BY <1>1, Runs
<1>3. t \in AppTasks /\ p \in AppPris /\ t \in Tasks /\ p \in Pris
  <2>1. call[active] \in AppTasks \X AppPris
    BY <1>1, <1>2 DEF IInv, CallSound, Created
  <2> QED
    BY <2>1, Constants DEF AppTasks
<1> HIDE DEF t, p
<1>4. new \in AppPris
  <2>1. /\ blk_list \in [Objs -> Seq(Tasks)]
        /\ \A o \in Objs : IdleTask \notin ToSet(blk_list[o])
    BY WaitersNotIdle
  <2>2. ToSet(mutex_list[t]) \subseteq Objs
    <3>1. mutex_list[t] \in Seq(Mutexes)
      BY <1>3 DEF IInv, FieldsOK
    <3> QED
      BY <3>1, MemberAt DEF Objs
  <2>3. \A x \in AppTasks : prio[x] \in AppPris
    BY DEF IInv, IdleSound
  <2> QED
    BY <1>3, <2>1, <2>2, <2>3, PriLookBound
<1> HIDE DEF new
<1>5. PICK r \in PriWork : todo' = r
  <2>1. <<Item("pri_change", t, NULL, new)>> \in PriWork
    BY <1>3, <1>4 DEF PriWork
  <2> QED
    BY <1>1, <2>1, Zenon
<1>6. TodoSound'
  BY <1>5, TodoOnly
<1>7. /\ pc' \in [Tasks -> {"run", "sched", "blk", "end", "pri"}]
      /\ pc'[active] \in {"sched", "run"}
      /\ \A x \in Tasks : x # active => pc'[x] = pc[x]
      /\ \A x \in Tasks : call'[x] = IF x = active THEN NULL ELSE call[x]
  BY <1>1, <1>2 DEF IInv, FieldsOK
<1>8. FieldsOK'
  BY <1>1, <1>2, <1>3, <1>7 DEF IInv, FieldsOK
<1>9. IdleSound'
  BY <1>1, <1>3 DEF IInv, FieldsOK, IdleSound, AppTasks
<1>10. PendSound'
  BY <1>1, <1>2, <1>7 DEF IInv, PendSound, Pending
<1>11. CallSound'
  BY <1>1, <1>7 DEF IInv, CallSound, Created
<1>12. CpuSound'
  BY <1>1, <1>2 DEF IInv, CpuSound
<1> QED
  BY <1>1, <1>6, <1>8, <1>9, <1>10, <1>11, <1>12, Frames DEF IInv

\* The beginning of krhino_task_del: the invariant is kept.
LEMMA TaskDelInv == ASSUME IInv, NEW t \in Tasks, TaskDel(t) PROVE IInv'
<1> USE DEF dataVars, tcbVars, rrVars, waitVars, mutexVars, cpuVars
<1>1. /\ InTask /\ prio[t] # IdlePri /\ ~(t = active /\ sched_lock > 0)
      /\ todo' = <<Item("mutex_free", t, NULL, 1), Item("del_end", t, NULL, 0)>>
      /\ UNCHANGED <<dataVars, cpuVars, pc, call, fatal>>
  BY DEF TaskDel, Calling
<1>2. t \in AppTasks
  BY <1>1 DEF IInv, IdleSound, AppTasks
<1>3. /\ Item("mutex_free", t, NULL, 1) \in Items /\ Item("mutex_free", t, NULL, 1).op = "mutex_free"
      /\ WorkItem(Item("mutex_free", t, NULL, 1))
      /\ Item("del_end", t, NULL, 0) \in Items /\ Item("del_end", t, NULL, 0).op = "del_end"
      /\ Item("del_end", t, NULL, 0).task = t
      /\ WorkItem(Item("del_end", t, NULL, 0))
  <2>1. /\ "mutex_free" \in Ops /\ "del_end" \in Ops /\ t \in Tasks \cup {NULL}
        /\ NULL \in Objs \cup {NULL} /\ 0 \in Int /\ 1 \in Int /\ 1 \in Nat \ {0}
    BY DEF Ops
  <2> QED
    BY <1>2, <2>1 DEF Item, Items, WorkItem
<1>4. PICK a \in Items, b \in Items :
         /\ todo' = <<a, b>> /\ a.op = "mutex_free" /\ WorkItem(a)
         /\ b.op = "del_end" /\ b.task = t /\ WorkItem(b)
  BY <1>1, <1>3
<1>5. TodoSound'
  <2>1. nested' = 0 /\ ~pendsv' /\ (t = active' => sched_lock' = 0)
    <3>1. sched_lock \in 0..MaxSchedLock
      BY DEF IInv, FieldsOK
    <3>2. t = active => sched_lock = 0
      BY <1>1, <3>1, Limits
    <3> QED
      BY <1>1, <3>2 DEF InTask
  <2>2. ItemSound(b)'
    BY <1>4, <2>1 DEF ItemSound
  <2> QED
    BY <1>4, <2>2, FreeWork
<1>6. FieldsOK'
  BY <1>1 DEF IInv, FieldsOK
<1> QED
  BY <1>1, <1>5, <1>6, Frames DEF IInv

\* How a wait may end.
Reasons == {"BLK_FINISH", "BLK_ABORT", "BLK_TIMEOUT", "BLK_DEL"}

\* What the end of a wait leaves of the lists.
LEMMA LeaveSound ==
    ASSUME IInv, NEW t \in Tasks, NEW why \in Reasons, LeaveWait(t, why),
           task_state'[t] \notin Pending,
           \A x \in Tasks : x # t => task_state'[x] = task_state[x]
    PROVE  /\ BlkExact(blk_list', task_state', blk_obj')
           /\ blk_obj' \in [Tasks -> Objs \cup {NULL}] /\ blk_state' \in [Tasks -> Reasons]
           /\ tick_list' \in Seq(Tasks) /\ tick_remain' \in [Tasks -> Int]
           /\ \A x \in Tasks : x # t => blk_obj'[x] = blk_obj[x]
<1>1. /\ blk_obj \in [Tasks -> Objs \cup {NULL}] /\ blk_state \in [Tasks -> Reasons]
      /\ tick_list \in Seq(Tasks) /\ tick_remain \in [Tasks -> Int]
  BY DEF IInv, FieldsOK, Reasons
<1>2. /\ blk_list' = IF blk_obj[t] = NULL THEN blk_list
                     ELSE [blk_list EXCEPT ![blk_obj[t]] = RemoveFirst(@, t)]
      /\ tick_list' = RemoveFirst(tick_list, t)
      /\ tick_remain' = [tick_remain EXCEPT ![t] = 0]
      /\ blk_state' = [blk_state EXCEPT ![t] = why]
      /\ blk_obj' = [blk_obj EXCEPT ![t] = NULL]
  BY DEF LeaveWait
<1>3. /\ blk_obj' \in [Tasks -> Objs \cup {NULL}]
      /\ \A x \in Tasks : x # t => blk_obj'[x] = blk_obj[x]
  BY <1>1, <1>2
<1>4. blk_state' \in [Tasks -> Reasons] /\ tick_remain' \in [Tasks -> Int]
  BY <1>1, <1>2
<1>5. tick_list' \in Seq(Tasks)
  BY <1>1, <1>2, RemoveFirstSeq
<1>6. BlkExact(blk_list', task_state', blk_obj')
  <2>1. blk_obj[t] \in Objs \cup {NULL} /\ (task_state[t] \in Pending => blk_obj[t] \in Objs)
    BY <1>1 DEF IInv, PendSound
  <2>2. BlkExact(blk_list, task_state, blk_obj)
    BY DEF IInv
  <2>3. \A x \in Tasks : x # t => task_state'[x] = task_state[x] /\ blk_obj'[x] = blk_obj[x]
    BY <1>3
  <2>4. BlkExact(IF blk_obj[t] = NULL THEN blk_list
                 ELSE [blk_list EXCEPT ![blk_obj[t]] = RemoveFirst(@, t)],
                 task_state', blk_obj')
    BY <2>1, <2>2, <2>3, BlkLeave
  <2> QED
    BY <1>2, <2>4
<1> QED
  BY <1>3, <1>4, <1>5, <1>6

\* A task t stops waiting, and is ready or suspended now.
Woken(t) ==
    /\ task_state[t] \in Pending \cup Sleeping /\ t \in AppTasks
    /\ task_state'[t] \in {"K_RDY", "K_SUSPENDED"}
    /\ \A x \in Tasks : x # t => task_state'[x] = task_state[x] /\ blk_obj'[x] = blk_obj[x]

\* pend_task_wakeup, pend_task_rm and the expiry of a wait.
LEMMA WakeupSound ==
    ASSUME IInv, NEW t \in Tasks, task_state[t] \in Pending \cup Sleeping,
           NEW why \in Reasons, PendTaskWakeup(t, why),
           UNCHANGED <<prio, b_prio, suspend_count>>
    PROVE  /\ Woken(t)
           /\ task_state' \in [Tasks -> TaskStates]
           /\ QueueExact(rq', task_state', prio')
           /\ BlkExact(blk_list', task_state', blk_obj')
           /\ SuspendCountSound' /\ IdleSound'
           /\ blk_obj' \in [Tasks -> Objs \cup {NULL}] /\ blk_state' \in [Tasks -> Reasons]
           /\ tick_list' \in Seq(Tasks) /\ tick_remain' \in [Tasks -> Int]
<1> DEFINE ready == task_state[t] \in {"K_PEND", "K_SLEEP"}
<1>1. /\ task_state' = [task_state EXCEPT ![t] = IF @ \in {"K_PEND", "K_SLEEP"} THEN "K_RDY"
                                                 ELSE "K_SUSPENDED"]
      /\ rq' = IF ready THEN ReadyListAddTail(rq, t, prio[t]) ELSE rq
      /\ LeaveWait(t, why)
  BY DEF PendTaskWakeup
<1>2. task_state \in [Tasks -> TaskStates] /\ prio[t] \in Pris
  BY DEF IInv, FieldsOK
<1>3. /\ task_state' \in [Tasks -> TaskStates]
      /\ task_state'[t] = IF ready THEN "K_RDY" ELSE "K_SUSPENDED"
      /\ \A x \in Tasks : x # t => task_state'[x] = task_state[x]
  BY <1>1, <1>2 DEF TaskStates
<1>4. t \in AppTasks /\ t # IdleTask /\ task_state[t] # "K_RDY"
  BY DEF IInv, IdleSound, AppTasks, Pending, Sleeping
<1>5. task_state'[t] \notin Pending
  BY <1>3 DEF Pending
<1>6. /\ BlkExact(blk_list', task_state', blk_obj')
      /\ blk_obj' \in [Tasks -> Objs \cup {NULL}] /\ blk_state' \in [Tasks -> Reasons]
      /\ tick_list' \in Seq(Tasks) /\ tick_remain' \in [Tasks -> Int]
      /\ \A x \in Tasks : x # t => blk_obj'[x] = blk_obj[x]
  BY <1>1, <1>3, <1>5, LeaveSound
<1>7. QueueExact(rq', task_state', prio')
  <2>1. QueueExact(rq, task_state, prio)
    BY DEF IInv
  <2>2. CASE ready
    <3>1. task_state'[t] = "K_RDY" /\ rq' = ReadyListAddTail(rq, t, prio[t])
      BY <1>1, <1>3, <2>2
    <3>2. QueueExact(ReadyListAddTail(rq, t, prio[t]), task_state', prio)
      BY <1>2, <1>3, <1>4, <2>1, <3>1, QueueAddTail
    <3> QED
      BY <3>1, <3>2
  <2>3. CASE ~ready
    <3>1. task_state'[t] = "K_SUSPENDED" /\ rq' = rq
      BY <1>1, <1>3, <2>3
    <3>2. QueueExact(rq, task_state', prio)
      BY <1>3, <1>4, <2>1, <3>1, QueueSame
    <3> QED
      BY <3>1, <3>2
  <2> QED
    BY <2>2, <2>3
<1>8. SuspendCountSound'
  BY <1>3 DEF IInv, SuspendCountSound, Pending, Sleeping
<1>9. IdleSound'
  BY <1>3, <1>4, Constants DEF IInv, IdleSound
<1>10. Woken(t)
  BY <1>3, <1>4, <1>6 DEF Woken
<1> QED
  BY <1>3, <1>6, <1>7, <1>8, <1>9, <1>10

\* No other part of the invariant minds a task that is woken.
LEMMA WokenSound ==
    ASSUME IInv, NEW t \in Tasks, Woken(t),
           UNCHANGED <<active, preferred, pendsv, sched_lock, call>>,
           ExitSched \/ UNCHANGED pc
    PROVE  /\ CpuSound' /\ CallSound'
           /\ pc' \in [Tasks -> {"run", "sched", "blk", "end", "pri"}]
           /\ UNCHANGED <<alive, mutex_task>> => PendSound'
<1>1. /\ pc' \in [Tasks -> {"run", "sched", "blk", "end", "pri"}]
      /\ \A x \in Tasks : pc'[x] = pc[x] \/ (x = active /\ pc'[x] = "sched")
  BY DEF IInv, FieldsOK, ExitSched
<1>2. active \in Tasks /\ preferred \in Tasks
  BY DEF IInv, FieldsOK
<1>3. \A x \in Tasks : task_state[x] = "K_RDY" => task_state'[x] = "K_RDY"
  BY DEF Woken, Pending, Sleeping
<1>4. CpuSound'
  BY <1>1, <1>2, <1>3 DEF IInv, CpuSound
<1>5. \A x \in Tasks : Created(x)' => Created(x)
  BY DEF Woken, Created, Pending, Sleeping
<1>6. CallSound'
  BY <1>1, <1>5 DEF IInv, CallSound
<1>7. \A x \in Tasks : task_state'[x] \in Pending
                       => task_state[x] \in Pending /\ blk_obj'[x] = blk_obj[x]
  BY DEF Woken, Pending
<1>8. UNCHANGED <<alive, mutex_task>> => PendSound'
  BY <1>7 DEF IInv, PendSound
<1> QED
  BY <1>1, <1>4, <1>6, <1>8

\* The item of work that is being done.
LEMMA DoingItem ==
    ASSUME IInv, NEW op, Doing(op)
    PROVE  /\ todo \in Seq(Items) /\ todo # <<>> /\ TodoSound
           /\ Head(todo) \in Items /\ Head(todo).op = op /\ WorkItem(Head(todo))
           /\ ItemSound(Head(todo))
           /\ op \notin {"pri_change", "mutex_free"} => Tail(todo) = <<>>
           /\ op = "mutex_free" => /\ Len(todo) = 2 /\ Tail(todo) = <<todo[2]>>
                                   /\ todo[2].op = "del_end"
BY WorkHead DEF Doing, IInv, TodoSound

\* The waiters of a deleted object are woken: the invariant is kept.
LEMMA DelWaitersInv == ASSUME IInv, DelWaiters PROVE IInv'
<1> USE DEF tcbVars, rrVars, waitVars, mutexVars, cpuVars
<1> DEFINE o == Head(todo).obj
<1>1. /\ Doing("del_waiters")
      /\ UNCHANGED <<prio, b_prio, alive, sched_lock, tcbVars, rrVars, mutexVars,
                     cpuVars, pc, call, fatal>>
  BY DEF DelWaiters
<1>2. o \in Objs /\ Tail(todo) = <<>>
  BY <1>1, DoingItem DEF WorkItem
<1>3. CASE blk_list[o] = <<>>
  <2>1. todo' = <<>> /\ UNCHANGED <<task_state, rq, waitVars>>
    BY <1>2, <1>3 DEF DelWaiters
  <2>2. FieldsOK'
    BY <1>1, <2>1 DEF IInv, FieldsOK
  <2> QED
    BY <1>1, <2>1, <2>2, TodoEmpty, Frames DEF IInv
<1>4. CASE blk_list[o] # <<>>
  <2>1. PICK t \in Tasks : t = Head(blk_list[o]) /\ task_state[t] \in Pending
    BY <1>2, <1>4, BlkHead DEF IInv
  <2>2. PendTaskWakeup(t, "BLK_DEL") /\ UNCHANGED todo
    BY <1>4, <2>1 DEF DelWaiters
  <2>3. /\ Woken(t)
        /\ task_state' \in [Tasks -> TaskStates]
        /\ QueueExact(rq', task_state', prio')
        /\ BlkExact(blk_list', task_state', blk_obj')
        /\ SuspendCountSound' /\ IdleSound'
        /\ blk_obj' \in [Tasks -> Objs \cup {NULL}] /\ blk_state' \in [Tasks -> Reasons]
        /\ tick_list' \in Seq(Tasks) /\ tick_remain' \in [Tasks -> Int]
    BY <1>1, <2>1, <2>2, WakeupSound DEF Reasons
  <2>4. CpuSound' /\ CallSound' /\ PendSound'
    BY <1>1, <2>3, WokenSound
  <2>5. FieldsOK'
    BY <1>1, <2>3 DEF IInv, FieldsOK, Reasons
  <2> QED
    BY <1>1, <2>2, <2>3, <2>4, <2>5, Frames DEF IInv
<1> QED
  BY <1>3, <1>4

\* The mutex m passes to the task t, which is woken.
LEMMA OwnerWoken ==
    ASSUME IInv, NEW m \in Mutexes, NEW t \in Tasks, Woken(t),
           mutex_task' = [mutex_task EXCEPT ![m] = t], UNCHANGED <<call, alive>>
    PROVE  PendSound' /\ mutex_task' \in [Mutexes -> Tasks \cup {NULL}]
<1>1. /\ mutex_task' \in [Mutexes -> Tasks \cup {NULL}]
      /\ \A x \in Mutexes : mutex_task'[x] = IF x = m THEN t ELSE mutex_task[x]
  BY DEF IInv, FieldsOK
<1>2. t # IdleTask /\ t # NULL
  BY Constants DEF Woken, AppTasks
<1>3. \A x \in Tasks : task_state'[x] \in Pending
                       => task_state[x] \in Pending /\ blk_obj'[x] = blk_obj[x]
  BY DEF Woken, Pending
<1> QED
  BY <1>1, <1>2, <1>3 DEF IInv, PendSound

\* No task waits for an object whose list is empty.
LEMMA NoWaiter ==
    ASSUME IInv, NEW o \in Objs, blk_list[o] = <<>>
    PROVE  \A t \in Tasks : ~(task_state[t] \in Pending /\ blk_obj[t] = o)
<1>1. ToSet(<<>>) = {}
  BY DEF ToSet
<1> QED
  BY <1>1 DEF IInv, BlkExact

\* The end of krhino_mutex_unlock: the invariant is kept.
LEMMA MutexHandOverInv == ASSUME IInv, MutexHandOver PROVE IInv'
<1> USE DEF tcbVars, rrVars, waitVars, cpuVars
<1>1. /\ Doing("hand_over") /\ todo' = Tail(todo)
      /\ UNCHANGED <<prio, b_prio, alive, sched_lock, tcbVars, rrVars, held, cpuVars,
                     call, fatal>>
  BY DEF MutexHandOver
<1>2. Head(todo).obj \in Mutexes /\ Tail(todo) = <<>>
  BY <1>1, DoingItem DEF WorkItem
<1>3. PICK m \in Mutexes : m = Head(todo).obj
  BY <1>2
<1>4. m \in Objs
  BY DEF Objs
<1>5. TodoSound'
  BY <1>1, <1>2, TodoEmpty
<1>6. /\ owner_nested \in [Mutexes -> 0..MaxNested] /\ mutex_list \in [Tasks -> Seq(Mutexes)]
  BY DEF IInv, FieldsOK
<1>7. CASE blk_list[m] = <<>>
  <2>1. /\ mutex_task' = [mutex_task EXCEPT ![m] = NULL]
        /\ UNCHANGED <<task_state, rq, waitVars, mutex_list, owner_nested, pc>>
    BY <1>3, <1>7 DEF MutexHandOver
  <2>2. PendSound' /\ mutex_task' \in [Mutexes -> Tasks \cup {NULL}]
    <3>1. NULL \in AppTasks \cup {NULL}
      OBVIOUS
    <3>2. \A t \in Tasks : ~(task_state[t] \in Pending /\ blk_obj[t] = m)
      BY <1>4, <1>7, NoWaiter
    <3> QED
      BY <1>1, <2>1, <3>1, <3>2, OwnerChange
  <2>3. FieldsOK'
    BY <1>1, <2>1, <2>2 DEF IInv, FieldsOK
  <2> QED
    BY <1>1, <1>5, <2>1, <2>2, <2>3, Frames DEF IInv
<1>8. CASE blk_list[m] # <<>>
  <2>1. PICK t \in Tasks : t = Head(blk_list[m]) /\ task_state[t] \in Pending
    BY <1>4, <1>8, BlkHead DEF IInv
  <2>2. /\ PendTaskWakeup(t, "BLK_FINISH")
        /\ mutex_task' = [mutex_task EXCEPT ![m] = t]
        /\ mutex_list' = [mutex_list EXCEPT ![t] = <<m>> \o @]
        /\ owner_nested' = [owner_nested EXCEPT ![m] = 1]
        /\ ExitSched
    BY <1>3, <1>8, <2>1 DEF MutexHandOver
  <2>3. /\ Woken(t)
        /\ task_state' \in [Tasks -> TaskStates]
        /\ QueueExact(rq', task_state', prio')
        /\ BlkExact(blk_list', task_state', blk_obj')
        /\ SuspendCountSound' /\ IdleSound'
        /\ blk_obj' \in [Tasks -> Objs \cup {NULL}] /\ blk_state' \in [Tasks -> Reasons]
        /\ tick_list' \in Seq(Tasks) /\ tick_remain' \in [Tasks -> Int]
    BY <1>1, <2>1, <2>2, WakeupSound DEF Reasons
  <2>4. /\ CpuSound' /\ CallSound'
        /\ pc' \in [Tasks -> {"run", "sched", "blk", "end", "pri"}]
    BY <1>1, <2>2, <2>3, WokenSound
  <2>5. PendSound' /\ mutex_task' \in [Mutexes -> Tasks \cup {NULL}]
    BY <1>1, <2>2, <2>3, OwnerWoken
  <2>6. FieldsOK'
    <3>1. owner_nested' \in [Mutexes -> 0..MaxNested]
      BY <1>6, <2>2, Limits
    <3>2. mutex_list' \in [Tasks -> Seq(Mutexes)]
      BY <1>6, <2>2
    <3> QED
      BY <1>1, <2>3, <2>4, <2>5, <3>1, <3>2 DEF IInv, FieldsOK, Reasons
  <2> QED
    BY <1>5, <2>3, <2>4, <2>5, <2>6 DEF IInv
<1> QED
  BY <1>7, <1>8

\* core_sched inside the section of krhino_task_cancel: the invariant is kept.
LEMMA CancelCoreSchedInv == ASSUME IInv, CancelCoreSched PROVE IInv'
<1> USE DEF dataVars, tcbVars, rrVars, waitVars, mutexVars
<1>1. /\ Doing("core_sched") /\ todo' = Tail(todo) /\ Resched
      /\ UNCHANGED <<dataVars, active, nested, tick_isr, pc, call, fatal>>
  BY DEF CancelCoreSched
<1>2. /\ preferred' \in Tasks /\ pendsv' \in BOOLEAN
      /\ pendsv' => task_state'[preferred'] = "K_RDY"
      /\ pendsv' \/ task_state'[active'] = "K_RDY"
      /\ sched_lock' = 0 \/ task_state'[active'] = "K_RDY"
  BY <1>1, ReschedSound
<1>3. FieldsOK'
  BY <1>1, <1>2 DEF IInv, FieldsOK
<1>4. CpuSound'
  BY <1>2 DEF CpuSound
<1>5. TodoSound'
  BY <1>1, DoingItem, TodoEmpty
<1> QED
  BY <1>1, <1>3, <1>4, <1>5, Frames DEF IInv

\* A round of task_mutex_free: the invariant is kept.
LEMMA TaskMutexFreeInv == ASSUME IInv, TaskMutexFree PROVE IInv'
<1> USE DEF tcbVars, rrVars, waitVars, cpuVars
<1> DEFINE t == Head(todo).task
           i == Head(todo).arg
           mi == mutex_list[t][i]
<1>1. /\ Doing("mutex_free")
      /\ UNCHANGED <<prio, b_prio, alive, sched_lock, tcbVars, rrVars, owner_nested,
                     held, cpuVars, pc, call, fatal>>
  BY DEF TaskMutexFree
<1>2. /\ t \in AppTasks /\ t \in Tasks /\ i \in Nat \ {0}
      /\ Tail(todo) = <<todo[2]>> /\ todo[2].op = "del_end" /\ Len(todo) = 2
      /\ todo \in Seq(Items) /\ todo # <<>> /\ TodoSound
  BY <1>1, DoingItem DEF WorkItem, AppTasks
<1>3. mutex_list \in [Tasks -> Seq(Mutexes)] /\ mutex_list[t] \in Seq(Mutexes)
  BY <1>2 DEF IInv, FieldsOK
<1>4. PICK b \in Items : /\ b = todo[2] /\ b.op = "del_end" /\ WorkItem(b) /\ ItemSound(b)
                         /\ Tail(todo) = <<b>>
  <2>1. 2 \in 1..Len(todo)
    BY <1>2
  <2>2. todo[2] \in Items /\ todo[2] \in ToSet(todo)
    BY <1>2, <2>1, MemberAt
  <2>3. WorkItem(todo[2])
    BY <1>2, <2>1 DEF TodoSound, WorkList
  <2>4. ItemSound(todo[2])
    BY <1>2, <2>2 DEF TodoSound
  <2> QED
    BY <1>2, <2>2, <2>3, <2>4
<1>5. ItemSound(b)'
  BY <1>1, <1>4 DEF ItemSound
<1>6. CASE /\ todo' = Tail(todo)
           /\ UNCHANGED <<task_state, rq, waitVars, mutex_task, mutex_list>>
  <2>1. FieldsOK'
    BY <1>1, <1>6 DEF IInv, FieldsOK
  <2>2. TodoSound'
    <3>1. <<>> \in PriWork /\ todo' = <<>> \o <<b>>
      BY <1>4, <1>6 DEF PriWork
    <3> QED
      BY <1>4, <1>5, <3>1, TodoBegin
  <2> QED
    BY <1>1, <1>6, <2>1, <2>2, Frames DEF IInv
<1>7. CASE /\ i <= Len(mutex_list[t])
           /\ todo' = <<Item("mutex_free", t, NULL, i + 1)>> \o Tail(todo)
           /\ \/ /\ blk_list[mi] # <<>>
                 /\ PendTaskWakeup(Head(blk_list[mi]), "BLK_FINISH")
                 /\ mutex_task' = [mutex_task EXCEPT ![mi] = Head(blk_list[mi])]
                 /\ mutex_list' = [mutex_list EXCEPT ![Head(blk_list[mi])] = <<mi>> \o @]
              \/ /\ blk_list[mi] = <<>>
                 /\ mutex_task' = [mutex_task EXCEPT ![mi] = NULL]
                 /\ UNCHANGED <<task_state, rq, waitVars, mutex_list>>
  <2>1. PICK m \in Mutexes : m = mi
    <3> DEFINE s == mutex_list[t]
    <3>1. s \in Seq(Mutexes) /\ i \in Nat \ {0} /\ i <= Len(s)
      BY <1>2, <1>3, <1>7, Zenon
    <3> HIDE DEF s, i
    <3>2. i \in 1..Len(s)
      <4>1. Len(s) \in Nat
        BY <3>1
      <4> QED
        BY <3>1, <4>1
    <3>3. s[i] \in Mutexes
      BY <3>1, <3>2
    <3> QED
      BY <3>3 DEF s
  <2>2. m \in Objs
    BY DEF Objs
  <2> HIDE DEF mi
  <2>3. todo' = <<Item("mutex_free", t, NULL, i + 1)>> \o <<b>>
    BY <1>4, <1>7
  <2>4. TodoSound'
    <3>1. /\ "mutex_free" \in Ops /\ t \in Tasks \cup {NULL}
          /\ NULL \in Objs \cup {NULL} /\ i + 1 \in Int /\ i + 1 \in Nat \ {0}
      BY <1>2 DEF Ops
    <3>2. /\ Item("mutex_free", t, NULL, i + 1) \in Items
          /\ Item("mutex_free", t, NULL, i + 1).op = "mutex_free"
          /\ WorkItem(Item("mutex_free", t, NULL, i + 1))
      BY <1>2, <3>1 DEF Item, Items, WorkItem
    <3>3. PICK a \in Items : /\ a = Item("mutex_free", t, NULL, i + 1)
                             /\ a.op = "mutex_free" /\ WorkItem(a)
      BY <3>2, Zenon
    <3>4. todo' = <<a>> \o <<b>>
      BY <2>3, <3>3, Zenon
    <3>5. todo' = <<a, b>>
      BY <3>4, TwoElements, Zenon
    <3> QED
      BY <1>4, <1>5, <3>3, <3>5, FreeWork
  <2>5. CASE blk_list[m] # <<>>
    <3>1. PICK w \in Tasks : w = Head(blk_list[m]) /\ task_state[w] \in Pending
      BY <2>2, <2>5, BlkHead, SMTT(30) DEF IInv
    <3>2. /\ PendTaskWakeup(w, "BLK_FINISH")
          /\ mutex_task' = [mutex_task EXCEPT ![m] = w]
          /\ mutex_list' = [mutex_list EXCEPT ![w] = <<m>> \o @]
      BY <1>7, <2>1, <2>5, <3>1
    <3>3. /\ Woken(w)
          /\ task_state' \in [Tasks -> TaskStates]
          /\ QueueExact(rq', task_state', prio')
          /\ BlkExact(blk_list', task_state', blk_obj')
          /\ SuspendCountSound' /\ IdleSound'
          /\ blk_obj' \in [Tasks -> Objs \cup {NULL}] /\ blk_state' \in [Tasks -> Reasons]
          /\ tick_list' \in Seq(Tasks) /\ tick_remain' \in [Tasks -> Int]
      BY <1>1, <3>1, <3>2, WakeupSound DEF Reasons
    <3>4. CpuSound' /\ CallSound'
      BY <1>1, <3>3, WokenSound
    <3>5. PendSound' /\ mutex_task' \in [Mutexes -> Tasks \cup {NULL}]
      BY <1>1, <3>2, <3>3, OwnerWoken
    <3>6. FieldsOK'
      <4>1. mutex_list' \in [Tasks -> Seq(Mutexes)]
        BY <1>3, <3>2
      <4> QED
        BY <1>1, <3>3, <3>5, <4>1 DEF IInv, FieldsOK, Reasons
    <3> QED
      BY <2>4, <3>3, <3>4, <3>5, <3>6 DEF IInv
  <2>6. CASE blk_list[m] = <<>>
    <3>1. /\ mutex_task' = [mutex_task EXCEPT ![m] = NULL]
          /\ UNCHANGED <<task_state, rq, waitVars, mutex_list>>
      BY <1>7, <2>1, <2>6
    <3>2. PendSound' /\ mutex_task' \in [Mutexes -> Tasks \cup {NULL}]
      <4>1. NULL \in AppTasks \cup {NULL}
        OBVIOUS
      <4>2. \A x \in Tasks : ~(task_state[x] \in Pending /\ blk_obj[x] = m)
        BY <2>2, <2>6, NoWaiter
      <4> QED
        BY <1>1, <3>1, <4>1, <4>2, OwnerChange
    <3>3. FieldsOK'
      BY <1>1, <3>1, <3>2 DEF IInv, FieldsOK
    <3> QED
      BY <1>1, <2>4, <3>1, <3>2, <3>3, Frames DEF IInv
  <2> QED
    BY <2>5, <2>6
<1> QED
  BY <1>6, <1>7 DEF TaskMutexFree

\* A round of tick_list_update: the invariant is kept.
LEMMA TickExpireInv == ASSUME IInv, TickExpire PROVE IInv'
<1> USE DEF tcbVars, rrVars, waitVars, mutexVars, cpuVars
<1>1. /\ Doing("tick")
      /\ UNCHANGED <<prio, b_prio, alive, sched_lock, tcbVars, rrVars, mutexVars,
                     cpuVars, pc, call, fatal>>
  BY DEF TickExpire
<1>2. /\ todo # <<>> /\ Tail(todo) = <<>> /\ TodoSound
      /\ Head(todo) \in Items /\ Head(todo).op = "tick" /\ todo \in Seq(Items)
  BY <1>1, DoingItem
<1>3. CASE todo' = Tail(todo) /\ UNCHANGED <<task_state, rq, waitVars>>
  <2>1. FieldsOK'
    BY <1>1, <1>3 DEF IInv, FieldsOK
  <2>2. TodoSound'
    BY <1>2, <1>3, TodoEmpty
  <2> QED
    BY <1>1, <1>3, <2>1, <2>2, Frames DEF IInv
<1>4. ASSUME NEW t \in Tasks, task_state[t] \in Pending \cup Sleeping, NEW why \in Reasons,
             PendTaskWakeup(t, why),
             \/ UNCHANGED todo
             \/ task_state[t] \in Pending /\ todo' = MutexTaskPriReset(t, blk_list') \o todo
      PROVE  IInv'
  <2>1. /\ Woken(t)
        /\ task_state' \in [Tasks -> TaskStates]
        /\ QueueExact(rq', task_state', prio')
        /\ BlkExact(blk_list', task_state', blk_obj')
        /\ SuspendCountSound' /\ IdleSound'
        /\ blk_obj' \in [Tasks -> Objs \cup {NULL}] /\ blk_state' \in [Tasks -> Reasons]
        /\ tick_list' \in Seq(Tasks) /\ tick_remain' \in [Tasks -> Int]
    BY <1>1, <1>4, WakeupSound
  <2>2. CpuSound' /\ CallSound' /\ PendSound'
    BY <1>1, <2>1, WokenSound
  <2>3. FieldsOK'
    BY <1>1, <2>1 DEF IInv, FieldsOK, Reasons
  <2>4. TodoSound'
    <3>1. CASE UNCHANGED todo
      BY <1>1, <3>1, Frames
    <3>2. CASE task_state[t] \in Pending /\ todo' = MutexTaskPriReset(t, blk_list') \o todo
      <4>1. /\ blk_list' \in [Objs -> Seq(Tasks)]
            /\ \A x \in Objs : IdleTask \notin ToSet(blk_list'[x])
        <5>1. BlkExact(blk_list', task_state', blk_obj') /\ task_state'[IdleTask] = "K_RDY"
          BY <2>1 DEF IdleSound
        <5>2. blk_list' \in [Objs -> Seq(Tasks)]
          BY <5>1 DEF BlkExact
        <5> QED
          BY <5>1, <5>2, IdleNotWaiting
      <4>2. MutexTaskPriReset(t, blk_list') \in PriWork
        BY <3>2, <4>1, ResetWork DEF IInv
      <4>3. PICK r \in PriWork : todo' = r \o todo
        BY <3>2, <4>2, Zenon
      <4>4. PICK it \in Items : todo = <<it>> /\ it.op = "tick"
        <5>1. todo = <<Head(todo)>>
          BY <1>2, OneElement
        <5> QED
          BY <1>2, <5>1, Zenon
      <4>5. WorkItem(it) /\ it.op # "mutex_free" /\ ItemSound(it)'
        BY <4>4 DEF WorkItem, ItemSound
      <4>6. todo' = r \o <<it>>
        BY <4>3, <4>4
      <4> QED
        BY <4>5, <4>6, TodoBegin
    <3> QED
      BY <1>4, <3>1, <3>2
  <2> QED
    BY <1>1, <2>1, <2>2, <2>3, <2>4 DEF IInv
<1>5. CASE tick_list # <<>>
  <2>1. PICK t \in Tasks : t = Head(tick_list)
    <3>1. tick_list \in Seq(Tasks)
      BY DEF IInv, FieldsOK
    <3>2. Head(tick_list) \in Tasks
      BY <1>5, <3>1, TailSeq
    <3> QED
      BY <3>2
  <2>2. CASE task_state[t] \in Sleeping /\ PendTaskWakeup(t, "BLK_FINISH") /\ UNCHANGED todo
    BY <1>4, <2>2 DEF Reasons
  <2>3. CASE /\ task_state[t] \in Pending /\ PendTaskWakeup(t, "BLK_TIMEOUT")
             /\ todo' = MutexTaskPriReset(t, blk_list') \o todo
    BY <1>4, <2>3 DEF Reasons
  <2> QED
    BY <1>3, <2>1, <2>2, <2>3 DEF TickExpire
<1> QED
  BY <1>3, <1>5 DEF TickExpire

\* tick_list_insert.
LEMMA TickInsertSound ==
    ASSUME IInv, NEW t \in Tasks, NEW ticks \in Int, TickListInsert(t, ticks)
    PROVE  tick_list' \in Seq(Tasks) /\ tick_remain' \in [Tasks -> Int]
<1>1. tick_list \in Seq(Tasks) /\ tick_remain \in [Tasks -> Int]
  BY DEF IInv, FieldsOK
<1>2. tick_remain' \in [Tasks -> Int]
  BY <1>1 DEF TickListInsert
<1>3. TickListPriInsert(tick_list, t, tick_remain') \in Seq(Tasks)
  BY <1>1, InsertSeq DEF TickListPriInsert
<1> QED
  BY <1>1, <1>2, <1>3 DEF TickListInsert

\* The task on the CPU begins to wait or to sleep, and goes on to core_sched.
LEMMA BlockSound ==
    ASSUME IInv, active \in AppTasks, task_state[active] = "K_RDY",
           sched_lock = 0, ~pendsv, NEW s \in {"K_PEND", "K_SLEEP"},
           task_state' = [task_state EXCEPT ![active] = s],
           rq' = ReadyListRm(rq, active, prio[active]),
           pc' = [pc EXCEPT ![active] = "blk"],
           \A x \in Tasks : x # active => call'[x] = call[x],
           UNCHANGED <<prio, b_prio, suspend_count, active, preferred, pendsv, sched_lock>>
    PROVE  /\ task_state' \in [Tasks -> TaskStates] /\ task_state'[active] = s
           /\ \A x \in Tasks : x # active => task_state'[x] = task_state[x]
           /\ pc' \in [Tasks -> {"run", "sched", "blk", "end", "pri"}]
           /\ QueueExact(rq', task_state', prio')
           /\ SuspendCountSound' /\ IdleSound' /\ CpuSound' /\ CallSound'
<1>1. /\ active \in Tasks /\ active # IdleTask /\ prio[active] \in AppPris
  BY DEF AppTasks, IInv, IdleSound
<1>2. /\ task_state' \in [Tasks -> TaskStates] /\ task_state'[active] = s
      /\ \A x \in Tasks : x # active => task_state'[x] = task_state[x]
  BY <1>1 DEF IInv, FieldsOK, TaskStates
<1>3. /\ pc' \in [Tasks -> {"run", "sched", "blk", "end", "pri"}] /\ pc'[active] = "blk"
      /\ \A x \in Tasks : x # active => pc'[x] = pc[x]
  BY <1>1 DEF IInv, FieldsOK
<1>4. QueueExact(rq', task_state', prio')
  <2>1. QueueExact(rq, task_state, prio) /\ task_state'[active] # "K_RDY"
    BY <1>2 DEF IInv
  <2>2. QueueExact(ReadyListRm(rq, active, prio[active]), task_state', prio)
    BY <1>1, <1>2, <2>1, QueueRm
  <2> QED
    BY <2>2
<1>5. SuspendCountSound'
  BY <1>2 DEF IInv, SuspendCountSound
<1>6. IdleSound'
  BY <1>1, <1>2, Constants DEF IInv, IdleSound
<1>7. CpuSound'
  BY <1>3 DEF CpuSound
<1>8. CallSound'
  BY <1>2, <1>3 DEF IInv, CallSound, Created
<1> QED
  BY <1>2, <1>3, <1>4, <1>5, <1>6, <1>7, <1>8

\* pend_to_blk_obj in krhino_mutex_lock: the invariant is kept.
LEMMA MutexLockPendInv == ASSUME IInv, MutexLockPend PROVE IInv'
<1> USE DEF tcbVars, rrVars, mutexVars, cpuVars
<1> DEFINE it == Head(todo)
<1>1. /\ Doing("lock_pend") /\ PendToBlkObj(it.obj, it.arg) /\ todo' = Tail(todo)
      /\ UNCHANGED <<prio, b_prio, alive, sched_lock, tcbVars, rrVars, mutexVars,
                     cpuVars, fatal>>
  BY DEF MutexLockPend
<1>2. /\ it \in Items /\ it.op = "lock_pend" /\ it.obj \in Mutexes /\ Tail(todo) = <<>>
      /\ mutex_task[it.obj] # NULL /\ active # IdleTask /\ pc[active] = "run"
      /\ nested = 0 /\ ~pendsv /\ sched_lock = 0
  BY <1>1, DoingItem DEF WorkItem, ItemSound
<1>3. it.arg \in Int
  BY <1>2 DEF Items
<1> HIDE DEF it
<1>4. PICK o \in Mutexes, n \in Int :
         /\ o = it.obj /\ n = it.arg /\ PendToBlkObj(o, n) /\ mutex_task[o] # NULL
  BY <1>1, <1>2, <1>3
<1>5. o \in Objs
  BY DEF Objs
<1>6. active \in AppTasks /\ active \in Tasks /\ task_state[active] = "K_RDY"
  BY <1>2 DEF IInv, FieldsOK, CpuSound, AppTasks
<1>7. /\ task_state' = [task_state EXCEPT ![active] = "K_PEND"]
      /\ rq' = ReadyListRm(rq, active, prio[active])
      /\ blk_list' = [blk_list EXCEPT ![o] = PendListAdd(@, active, prio)]
      /\ blk_obj' = [blk_obj EXCEPT ![active] = o]
      /\ TickListInsert(active, n)
      /\ pc' = [pc EXCEPT ![active] = "blk"]
      /\ call' = [call EXCEPT ![active] = o]
      /\ UNCHANGED blk_state
  BY <1>4 DEF PendToBlkObj
<1>8. /\ call' \in [Tasks -> Objs \cup {NULL} \cup (Tasks \X Pris)]
      /\ \A x \in Tasks : call'[x] = IF x = active THEN o ELSE call[x]
  <2>1. call \in [Tasks -> Objs \cup {NULL} \cup (Tasks \X Pris)]
    BY DEF IInv, FieldsOK
  <2> QED
    BY <1>5, <1>6, <1>7, <2>1
<1>9. /\ task_state' \in [Tasks -> TaskStates] /\ task_state'[active] = "K_PEND"
      /\ \A x \in Tasks : x # active => task_state'[x] = task_state[x]
      /\ pc' \in [Tasks -> {"run", "sched", "blk", "end", "pri"}]
      /\ QueueExact(rq', task_state', prio')
      /\ SuspendCountSound' /\ IdleSound' /\ CpuSound' /\ CallSound'
  BY <1>1, <1>2, <1>6, <1>7, <1>8, BlockSound
<1>10. /\ blk_obj' \in [Tasks -> Objs \cup {NULL}]
       /\ \A x \in Tasks : blk_obj'[x] = IF x = active THEN o ELSE blk_obj[x]
  BY <1>5, <1>6, <1>7 DEF IInv, FieldsOK
<1>11. BlkExact(blk_list', task_state', blk_obj')
  <2>1. /\ BlkExact(blk_list, task_state, blk_obj)
        /\ task_state[active] \notin Pending /\ task_state'[active] \in Pending
        /\ \A x \in Tasks : x # active => task_state'[x] = task_state[x] /\ blk_obj'[x] = blk_obj[x]
        /\ blk_obj'[active] = o
    BY <1>6, <1>9, <1>10 DEF IInv, Pending
  <2>2. BlkExact([blk_list EXCEPT ![o] = PendListAdd(@, active, prio)], task_state', blk_obj')
    BY <1>5, <1>6, <2>1, BlkEnter
  <2> QED
    BY <1>7, <2>2
<1>12. tick_list' \in Seq(Tasks) /\ tick_remain' \in [Tasks -> Int]
  BY <1>6, <1>7, TickInsertSound
<1>13. FieldsOK'
  BY <1>1, <1>7, <1>8, <1>9, <1>10, <1>12 DEF IInv, FieldsOK
<1>14. PendSound'
  BY <1>1, <1>4, <1>5, <1>8, <1>9, <1>10 DEF IInv, PendSound
<1>15. TodoSound'
  BY <1>1, <1>2, TodoEmpty
<1> QED
  BY <1>9, <1>11, <1>13, <1>14, <1>15 DEF IInv

\* krhino_task_sleep: the invariant is kept.
LEMMA TaskSleepInv ==
    ASSUME IInv, NEW ticks \in Waits, TaskSleep(ticks) PROVE IInv'
<1> USE DEF tcbVars, rrVars, mutexVars, cpuVars
<1>1. /\ Calling("task_sleep") /\ sched_lock = 0
      /\ task_state' = [task_state EXCEPT ![active] = "K_SLEEP"]
      /\ TickListInsert(active, ticks)
      /\ rq' = ReadyListRm(rq, active, prio[active])
      /\ pc' = [pc EXCEPT ![active] = "blk"]
      /\ UNCHANGED <<prio, b_prio, alive, sched_lock, tcbVars, rrVars, blk_obj,
                     blk_state, blk_list, mutexVars, cpuVars, todo, call, fatal>>
  BY DEF TaskSleep
<1>2. /\ active \in AppTasks /\ active \in Tasks /\ task_state[active] = "K_RDY"
      /\ ~pendsv /\ todo = <<>>
  BY <1>1, Caller
<1>3. /\ task_state' \in [Tasks -> TaskStates] /\ task_state'[active] = "K_SLEEP"
      /\ \A x \in Tasks : x # active => task_state'[x] = task_state[x]
      /\ pc' \in [Tasks -> {"run", "sched", "blk", "end", "pri"}]
      /\ QueueExact(rq', task_state', prio')
      /\ SuspendCountSound' /\ IdleSound' /\ CpuSound' /\ CallSound'
  BY <1>1, <1>2, BlockSound
<1>4. \A x \in Tasks : task_state'[x] \in Pending <=> task_state[x] \in Pending
  BY <1>2, <1>3 DEF Pending
<1>5. BlkExact(blk_list', task_state', blk_obj')
  <2>1. BlkExact(blk_list, task_state, blk_obj)
    BY DEF IInv
  <2>2. BlkExact(blk_list, task_state', blk_obj)
    BY <1>4, <2>1, BlkSame
  <2> QED
    BY <1>1, <2>2
<1>6. tick_list' \in Seq(Tasks) /\ tick_remain' \in [Tasks -> Int]
  <2>1. ticks \in Int
    BY KernelAssumption DEF FOREVER
  <2> QED
    BY <1>1, <1>2, <2>1, TickInsertSound
<1>7. FieldsOK'
  BY <1>1, <1>3, <1>6 DEF IInv, FieldsOK
<1>8. PendSound'
  BY <1>1, <1>4 DEF IInv, PendSound
<1>9. TodoSound'
  BY <1>1, <1>2, TodoEmpty
<1> QED
  BY <1>3, <1>5, <1>7, <1>8, <1>9 DEF IInv

\* krhino_task_create: the invariant is kept.
LEMMA TaskCreateInv ==
    ASSUME IInv, NEW t \in Tasks, NEW p \in NewPris, NEW autorun \in BOOLEAN,
           TaskCreate(t, p, autorun)
    PROVE  IInv'
<1> USE DEF cpuVars
<1> DEFINE st == IF autorun THEN "K_RDY" ELSE "K_SUSPENDED"
<1>1. /\ Calling("task_create") /\ ~Created(t)
      /\ task_state' = [task_state EXCEPT ![t] = st]
      /\ suspend_count' = [suspend_count EXCEPT ![t] = IF autorun THEN 0 ELSE 1]
      /\ prio' = [prio EXCEPT ![t] = p] /\ b_prio' = [b_prio EXCEPT ![t] = p]
      /\ cancel' = [cancel EXCEPT ![t] = FALSE]
      /\ time_total' = [time_total EXCEPT ![t] = TimeSliceDefault]
      /\ time_slice' = [time_slice EXCEPT ![t] = TimeSliceDefault]
      /\ sched_policy' = [sched_policy EXCEPT ![t] = "KSCHED_RR"]
      /\ blk_obj' = [blk_obj EXCEPT ![t] = NULL]
      /\ blk_state' = [blk_state EXCEPT ![t] = "BLK_FINISH"]
      /\ mutex_list' = [mutex_list EXCEPT ![t] = <<>>]
      /\ rq' = IF autorun THEN ReadyListAddTail(rq, t, p) ELSE rq
      /\ pc' = [pc EXCEPT ![t] = "run", ![active] = IF autorun THEN "sched" ELSE "run"]
      /\ UNCHANGED <<alive, sched_lock, blk_list, tick_list, tick_remain, mutex_task,
                     owner_nested, held, cpuVars, todo, call, fatal>>
  BY DEF TaskCreate
<1>2. active \in Tasks /\ task_state[active] = "K_RDY" /\ ~pendsv /\ todo = <<>>
  BY <1>1, Caller
<1>3. /\ t # active /\ t # IdleTask /\ t \in AppTasks /\ p \in AppPris /\ p \in Pris
      /\ task_state[t] \notin Pending /\ task_state[t] # "K_RDY"
  BY <1>1, <1>2, Constants DEF IInv, IdleSound, Created, Pending, AppTasks
<1>4. /\ task_state' \in [Tasks -> TaskStates]
      /\ \A x \in Tasks : task_state'[x] = IF x = t THEN st ELSE task_state[x]
  BY <1>1 DEF IInv, FieldsOK, TaskStates
<1>5. /\ prio' \in [Tasks -> Pris] /\ b_prio' \in [Tasks -> Pris]
      /\ \A x \in Tasks : /\ prio'[x] = IF x = t THEN p ELSE prio[x]
                          /\ b_prio'[x] = IF x = t THEN p ELSE b_prio[x]
  BY <1>1, <1>3 DEF IInv, FieldsOK
<1>6. /\ suspend_count' \in [Tasks -> 0..MaxSuspend]
      /\ \A x \in Tasks : suspend_count'[x] = IF x = t THEN IF autorun THEN 0 ELSE 1
                                              ELSE suspend_count[x]
  <2>1. suspend_count \in [Tasks -> 0..MaxSuspend]
    BY DEF IInv, FieldsOK
  <2> QED
    BY <1>1, <2>1, Limits
<1>7. /\ pc' \in [Tasks -> {"run", "sched", "blk", "end", "pri"}]
      /\ pc'[t] = "run" /\ pc'[active] \in {"sched", "run"}
      /\ \A x \in Tasks \ {t, active} : pc'[x] = pc[x]
  BY <1>1, <1>2, <1>3 DEF IInv, FieldsOK
<1>8. /\ blk_obj' \in [Tasks -> Objs \cup {NULL}]
      /\ \A x \in Tasks : x # t => blk_obj'[x] = blk_obj[x]
  BY <1>1 DEF IInv, FieldsOK
<1>9. FieldsOK'
  <2>1. mutex_list' \in [Tasks -> Seq(Mutexes)]
    BY <1>1 DEF IInv, FieldsOK
  <2>2. time_slice' \in [Tasks -> Nat] /\ time_total' \in [Tasks -> Nat]
    BY <1>1, Limits DEF IInv, FieldsOK
  <2>3. /\ cancel' \in [Tasks -> BOOLEAN] /\ sched_policy' \in [Tasks -> {"KSCHED_FIFO", "KSCHED_RR"}]
        /\ blk_state' \in [Tasks -> {"BLK_FINISH", "BLK_ABORT", "BLK_TIMEOUT", "BLK_DEL"}]
    BY <1>1 DEF IInv, FieldsOK
  <2> QED
    BY <1>1, <1>4, <1>5, <1>6, <1>7, <1>8, <2>1, <2>2, <2>3 DEF IInv, FieldsOK
<1>10. QueueExact(rq', task_state', prio')
  <2>1. QueueExact(rq, task_state, prio)
    BY DEF IInv
  <2>2. CASE autorun
    <3>1. task_state'[t] = "K_RDY" /\ prio'[t] = p /\ rq' = ReadyListAddTail(rq, t, p)
      BY <1>1, <1>4, <1>5, <2>2
    <3>2. QueueExact(ReadyListAddTail(rq, t, p), task_state', prio')
      BY <1>3, <1>4, <1>5, <2>1, <3>1, QueueAddTail
    <3> QED
      BY <3>1, <3>2
  <2>3. CASE ~autorun
    <3>1. task_state'[t] = "K_SUSPENDED" /\ rq' = rq
      BY <1>1, <1>4, <2>3
    <3>2. QueueExact(rq, task_state', prio')
      BY <1>3, <1>4, <1>5, <2>1, <3>1, QueueSame
    <3> QED
      BY <3>1, <3>2
  <2> QED
    BY <2>2, <2>3
<1>11. \A x \in Tasks : /\ task_state'[x] \in Pending <=> task_state[x] \in Pending
                        /\ task_state[x] \in Pending => blk_obj'[x] = blk_obj[x]
  BY <1>3, <1>4, <1>8 DEF Pending
<1>12. BlkExact(blk_list', task_state', blk_obj')
  <2>1. BlkExact(blk_list, task_state, blk_obj)
    BY DEF IInv
  <2>2. BlkExact(blk_list, task_state', blk_obj')
    BY <1>11, <2>1, BlkSame
  <2> QED
    BY <1>1, <2>2
<1>13. SuspendCountSound'
  BY <1>4, <1>6, Limits DEF IInv, SuspendCountSound
<1>14. IdleSound'
  BY <1>3, <1>4, <1>5, Constants DEF IInv, IdleSound, AppTasks
<1>15. CpuSound'
  BY <1>1, <1>2, <1>3, <1>4 DEF CpuSound
<1>16. PendSound'
  BY <1>1, <1>11 DEF IInv, PendSound
<1>17. CallSound'
  BY <1>1, <1>4, <1>7 DEF IInv, CallSound, Created
<1>18. TodoSound'
  BY <1>1, <1>2, TodoEmpty
<1> QED
  BY <1>9, <1>10, <1>12, <1>13, <1>14, <1>15, <1>16, <1>17, <1>18 DEF IInv

\* The states of a suspended task.
Suspensions == {"K_SUSPENDED", "K_SLEEP_SUSPENDED", "K_PEND_SUSPENDED"}

\* krhino_task_suspend, from a task: the invariant is kept.
LEMMA TaskSuspendInv ==
    ASSUME "task_suspend" \notin IsrCalls, IInv, NEW t \in Tasks, TaskSuspend(t)
    PROVE  IInv'
<1> USE DEF rrVars, waitVars, mutexVars, cpuVars
<1>1. /\ Calling("task_suspend") /\ Created(t) /\ prio[t] # IdlePri
      /\ ~(t = active /\ sched_lock > 0) /\ ExitSched
      /\ UNCHANGED <<prio, b_prio, alive, sched_lock, cancel, rrVars, waitVars,
                     mutexVars, cpuVars, todo, call, fatal>>
  BY DEF TaskSuspend, InIsr
<1>2. active \in Tasks /\ task_state[active] = "K_RDY" /\ ~pendsv /\ todo = <<>> /\ nested = 0
  BY <1>1, Caller
<1>3. t # IdleTask /\ t \in AppTasks /\ prio[t] \in AppPris
  BY <1>1 DEF IInv, IdleSound, AppTasks
<1>4. /\ pc' \in [Tasks -> {"run", "sched", "blk", "end", "pri"}] /\ pc'[active] = "sched"
      /\ \A x \in Tasks : x # active => pc'[x] = pc[x]
  BY <1>1, <1>2 DEF IInv, FieldsOK, ExitSched
<1>5. t = active => sched_lock = 0
  <2>1. sched_lock \in 0..MaxSchedLock
    BY DEF IInv, FieldsOK
  <2> QED
    BY <1>1, <2>1, Limits
<1>6. /\ task_state \in [Tasks -> TaskStates] /\ suspend_count \in [Tasks -> 0..MaxSuspend]
      /\ QueueExact(rq, task_state, prio) /\ BlkExact(blk_list, task_state, blk_obj)
  BY DEF IInv, FieldsOK
<1>7. ASSUME task_state' \in [Tasks -> TaskStates],
             task_state'[t] \in Suspensions,
             task_state'[t] \in Pending <=> task_state[t] \in Pending,
             \A x \in Tasks : x # t => task_state'[x] = task_state[x],
             suspend_count' \in [Tasks -> 0..MaxSuspend],
             suspend_count'[t] \in 1..MaxSuspend,
             \A x \in Tasks : x # t => suspend_count'[x] = suspend_count[x],
             QueueExact(rq', task_state', prio')
      PROVE  IInv'
  <2>1. FieldsOK'
    BY <1>1, <1>4, <1>7 DEF IInv, FieldsOK
  <2>2. \A x \in Tasks : task_state'[x] \in Pending <=> task_state[x] \in Pending
    BY <1>7
  <2>3. BlkExact(blk_list', task_state', blk_obj')
    <3>1. BlkExact(blk_list, task_state', blk_obj)
      BY <1>6, <2>2, BlkSame
    <3> QED
      BY <1>1, <3>1
  <2>4. SuspendCountSound'
    BY <1>7 DEF IInv, SuspendCountSound
  <2>5. IdleSound'
    BY <1>1, <1>3, <1>7, Constants DEF IInv, IdleSound
  <2>6. CpuSound'
    BY <1>1, <1>2, <1>4, <1>5, <1>7 DEF CpuSound
  <2>7. PendSound'
    BY <1>1, <2>2 DEF IInv, PendSound
  <2>8. CallSound'
    BY <1>1, <1>4, <1>7 DEF IInv, CallSound, Created
  <2>9. TodoSound'
    BY <1>1, <1>2, TodoEmpty
  <2> QED
    BY <1>7, <2>1, <2>3, <2>4, <2>5, <2>6, <2>7, <2>8, <2>9 DEF IInv
<1>8. CASE task_state[t] \in {"K_RDY", "K_SLEEP", "K_PEND"}
  <2> DEFINE s == CASE task_state[t] = "K_RDY"   -> "K_SUSPENDED"
                    [] task_state[t] = "K_SLEEP" -> "K_SLEEP_SUSPENDED"
                    [] task_state[t] = "K_PEND"  -> "K_PEND_SUSPENDED"
  <2>1. /\ suspend_count' = [suspend_count EXCEPT ![t] = 1]
        /\ task_state' = [task_state EXCEPT ![t] = s]
        /\ rq' = IF task_state[t] = "K_RDY" THEN ReadyListRm(rq, t, prio[t]) ELSE rq
    BY <1>6, <1>8 DEF TaskSuspend
  <2>2. /\ task_state[t] = "K_RDY" => s = "K_SUSPENDED"
        /\ task_state[t] = "K_SLEEP" => s = "K_SLEEP_SUSPENDED"
        /\ task_state[t] = "K_PEND" => s = "K_PEND_SUSPENDED"
    OBVIOUS
  <2> HIDE DEF s
  <2>3. s \in Suspensions /\ (s \in Pending <=> task_state[t] \in Pending) /\ s # "K_RDY"
    BY <1>8, <2>2 DEF Suspensions, Pending
  <2>4. /\ task_state' \in [Tasks -> TaskStates] /\ task_state'[t] = s
        /\ \A x \in Tasks : x # t => task_state'[x] = task_state[x]
    BY <1>6, <2>1, <2>3 DEF Suspensions, TaskStates
  <2>5. /\ suspend_count' \in [Tasks -> 0..MaxSuspend] /\ suspend_count'[t] \in 1..MaxSuspend
        /\ \A x \in Tasks : x # t => suspend_count'[x] = suspend_count[x]
    BY <1>6, <2>1, Limits
  <2>6. QueueExact(rq', task_state', prio')
    <3>1. CASE task_state[t] = "K_RDY"
      <4>1. QueueExact(ReadyListRm(rq, t, prio[t]), task_state', prio)
        BY <1>3, <1>6, <2>3, <2>4, <3>1, QueueRm
      <4> QED
        BY <1>1, <2>1, <3>1, <4>1
    <3>2. CASE task_state[t] # "K_RDY"
      <4>1. QueueExact(rq, task_state', prio)
        BY <1>6, <2>3, <2>4, <3>2, QueueSame
      <4> QED
        BY <1>1, <2>1, <3>2, <4>1
    <3> QED
      BY <3>1, <3>2
  <2> QED
    BY <1>7, <2>3, <2>4, <2>5, <2>6
<1>9. CASE task_state[t] \notin {"K_RDY", "K_SLEEP", "K_PEND"}
  <2>1. /\ suspend_count[t] < MaxSuspend
        /\ suspend_count' = [suspend_count EXCEPT ![t] = @ + 1]
        /\ UNCHANGED <<task_state, rq>>
    BY <1>9 DEF TaskSuspend
  <2>2. task_state[t] \in Suspensions
    BY <1>1, <1>6, <1>9 DEF Suspensions, TaskStates, Created
  <2>3. /\ suspend_count' \in [Tasks -> 0..MaxSuspend] /\ suspend_count'[t] \in 1..MaxSuspend
        /\ \A x \in Tasks : x # t => suspend_count'[x] = suspend_count[x]
    BY <1>6, <2>1, Limits
  <2> QED
    BY <1>1, <1>6, <1>7, <2>1, <2>2, <2>3
<1> QED
  BY <1>8, <1>9

\* krhino_task_resume, from a task or an interrupt: the invariant is kept.
LEMMA TaskResumeInv == ASSUME IInv, NEW t \in Tasks, TaskResume(t) PROVE IInv'
<1> USE DEF rrVars, waitVars, mutexVars, cpuVars
<1> DEFINE s == IF ~LastResume(t) THEN task_state[t]
                ELSE CASE task_state[t] = "K_SUSPENDED"       -> "K_RDY"
                       [] task_state[t] = "K_SLEEP_SUSPENDED" -> "K_SLEEP"
                       [] task_state[t] = "K_PEND_SUSPENDED"  -> "K_PEND"
           ready == LastResume(t) /\ task_state[t] = "K_SUSPENDED"
<1>1. /\ todo = <<>> /\ ExitSched
      /\ task_state[t] \in Suspensions
      /\ suspend_count' = [suspend_count EXCEPT ![t] = @ - 1]
      /\ rq' = IF ready THEN ReadyListAddTail(rq, t, prio[t]) ELSE rq
      /\ UNCHANGED <<prio, b_prio, alive, sched_lock, cancel, rrVars, waitVars,
                     mutexVars, cpuVars, todo, call, fatal>>
  BY DEF TaskResume, Calling, InTask, InIsr, Suspensions
<1>2. /\ task_state \in [Tasks -> TaskStates] /\ suspend_count \in [Tasks -> 0..MaxSuspend]
      /\ QueueExact(rq, task_state, prio) /\ BlkExact(blk_list, task_state, blk_obj)
      /\ prio[t] \in Pris /\ active \in Tasks /\ preferred \in Tasks
  BY DEF IInv, FieldsOK
<1>3. task_state' = [task_state EXCEPT ![t] = s]
  BY <1>2 DEF TaskResume
<1>4. /\ ~LastResume(t) => s = task_state[t]
      /\ LastResume(t) /\ task_state[t] = "K_SUSPENDED" => s = "K_RDY"
      /\ LastResume(t) /\ task_state[t] = "K_SLEEP_SUSPENDED" => s = "K_SLEEP"
      /\ LastResume(t) /\ task_state[t] = "K_PEND_SUSPENDED" => s = "K_PEND"
  OBVIOUS
<1> HIDE DEF s
<1>5. /\ s \in TaskStates /\ (s \in Pending <=> task_state[t] \in Pending)
      /\ s = "K_RDY" <=> ready
      /\ s \in Suspensions <=> ~LastResume(t)
      /\ task_state[t] # "K_RDY" /\ s \notin {"K_SEED", "K_DELETED"}
      /\ task_state[t] \notin {"K_SEED", "K_DELETED"}
  BY <1>1, <1>4 DEF Suspensions, Pending, TaskStates
<1>6. /\ task_state' \in [Tasks -> TaskStates] /\ task_state'[t] = s
      /\ \A x \in Tasks : x # t => task_state'[x] = task_state[x]
  BY <1>2, <1>3, <1>5
<1>7. /\ suspend_count' \in [Tasks -> 0..MaxSuspend]
      /\ \A x \in Tasks : x # t => suspend_count'[x] = suspend_count[x]
      /\ ~LastResume(t) => suspend_count'[t] \in 1..MaxSuspend
  <2>1. suspend_count[t] \in 1..MaxSuspend
    BY <1>1 DEF IInv, SuspendCountSound, Suspensions
  <2>2. suspend_count[t] - 1 \in 0..MaxSuspend
    BY <2>1, Limits
  <2>3. ~LastResume(t) => suspend_count[t] - 1 \in 1..MaxSuspend
    BY <2>1, Limits DEF LastResume
  <2> QED
    BY <1>1, <1>2, <2>2, <2>3
<1>8. /\ pc' \in [Tasks -> {"run", "sched", "blk", "end", "pri"}]
      /\ \A x \in Tasks : pc'[x] = pc[x] \/ (x = active /\ pc'[x] = "sched")
  BY <1>1 DEF IInv, FieldsOK, ExitSched
<1>9. FieldsOK'
  BY <1>1, <1>6, <1>7, <1>8 DEF IInv, FieldsOK
<1>10. QueueExact(rq', task_state', prio')
  <2>1. CASE ready
    <3>1. QueueExact(ReadyListAddTail(rq, t, prio[t]), task_state', prio)
      BY <1>2, <1>5, <1>6, <2>1, QueueAddTail
    <3> QED
      BY <1>1, <2>1, <3>1
  <2>2. CASE ~ready
    <3>1. QueueExact(rq, task_state', prio)
      BY <1>2, <1>5, <1>6, <2>2, QueueSame
    <3> QED
      BY <1>1, <2>2, <3>1
  <2> QED
    BY <2>1, <2>2
<1>11. \A x \in Tasks : task_state'[x] \in Pending <=> task_state[x] \in Pending
  BY <1>5, <1>6
<1>12. BlkExact(blk_list', task_state', blk_obj')
  <2>1. BlkExact(blk_list, task_state', blk_obj)
    BY <1>2, <1>11, BlkSame
  <2> QED
    BY <1>1, <2>1
<1>13. SuspendCountSound'
  BY <1>5, <1>6, <1>7 DEF IInv, SuspendCountSound, Suspensions
<1>14. IdleSound'
  BY <1>1, <1>5, <1>6, Constants DEF IInv, IdleSound
<1>15. CpuSound'
  <2>1. \A x \in Tasks : task_state[x] = "K_RDY" => task_state'[x] = "K_RDY"
    BY <1>5, <1>6
  <2> QED
    BY <1>1, <1>2, <1>8, <2>1 DEF IInv, CpuSound
<1>16. PendSound'
  BY <1>1, <1>11 DEF IInv, PendSound
<1>17. CallSound'
  BY <1>1, <1>5, <1>6, <1>8 DEF IInv, CallSound, Created
<1>18. TodoSound'
  BY <1>1, TodoEmpty
<1> QED
  BY <1>9, <1>10, <1>12, <1>13, <1>14, <1>15, <1>16, <1>17, <1>18 DEF IInv

\* krhino_task_wait_abort makes a task ready, whatever it waited for.
LEMMA AbortSound ==
    ASSUME IInv, NEW t \in Tasks, Created(t), WaitAbort(t),
           UNCHANGED <<prio, b_prio, suspend_count>>
    PROVE  /\ task_state' \in [Tasks -> TaskStates] /\ task_state'[t] = "K_RDY"
           /\ \A x \in Tasks : x # t => /\ task_state'[x] = task_state[x]
                                        /\ blk_obj'[x] = blk_obj[x]
           /\ QueueExact(rq', task_state', prio')
           /\ BlkExact(blk_list', task_state', blk_obj')
           /\ SuspendCountSound' /\ IdleSound'
           /\ blk_obj' \in [Tasks -> Objs \cup {NULL}] /\ blk_state' \in [Tasks -> Reasons]
           /\ tick_list' \in Seq(Tasks) /\ tick_remain' \in [Tasks -> Int]
<1> USE DEF waitVars
<1>1. /\ task_state' = [task_state EXCEPT ![t] = "K_RDY"]
      /\ rq' = IF task_state[t] = "K_RDY" THEN rq ELSE ReadyListAddTail(rq, t, prio[t])
      /\ \/ LeaveWait(t, "BLK_ABORT")
         \/ task_state[t] \notin Pending /\ UNCHANGED waitVars
  BY DEF WaitAbort
<1>2. /\ task_state \in [Tasks -> TaskStates] /\ prio[t] \in Pris
      /\ QueueExact(rq, task_state, prio) /\ BlkExact(blk_list, task_state, blk_obj)
      /\ blk_obj \in [Tasks -> Objs \cup {NULL}] /\ blk_state \in [Tasks -> Reasons]
      /\ tick_list \in Seq(Tasks) /\ tick_remain \in [Tasks -> Int]
  BY DEF IInv, FieldsOK, Reasons
<1>3. /\ task_state' \in [Tasks -> TaskStates] /\ task_state'[t] = "K_RDY"
      /\ \A x \in Tasks : x # t => task_state'[x] = task_state[x]
      /\ task_state'[t] \notin Pending
  BY <1>1, <1>2 DEF TaskStates, Pending
<1>4. QueueExact(rq', task_state', prio')
  <2>1. CASE task_state[t] = "K_RDY"
    <3>1. QueueExact(rq, task_state', prio)
      BY <1>2, <1>3, <2>1, QueueSame
    <3> QED
      BY <1>1, <2>1, <3>1
  <2>2. CASE task_state[t] # "K_RDY"
    <3>1. QueueExact(ReadyListAddTail(rq, t, prio[t]), task_state', prio)
      BY <1>2, <1>3, <2>2, QueueAddTail
    <3> QED
      BY <1>1, <2>2, <3>1
  <2> QED
    BY <2>1, <2>2
<1>5. /\ BlkExact(blk_list', task_state', blk_obj')
      /\ blk_obj' \in [Tasks -> Objs \cup {NULL}] /\ blk_state' \in [Tasks -> Reasons]
      /\ tick_list' \in Seq(Tasks) /\ tick_remain' \in [Tasks -> Int]
      /\ \A x \in Tasks : x # t => blk_obj'[x] = blk_obj[x]
  <2>1. CASE LeaveWait(t, "BLK_ABORT")
    <3>1. "BLK_ABORT" \in Reasons
      BY DEF Reasons
    <3> QED
      BY <1>3, <2>1, <3>1, LeaveSound
  <2>2. CASE task_state[t] \notin Pending /\ UNCHANGED waitVars
    <3>1. \A x \in Tasks : task_state'[x] \in Pending <=> task_state[x] \in Pending
      BY <1>3, <2>2
    <3>2. BlkExact(blk_list, task_state', blk_obj)
      BY <1>2, <3>1, BlkSame
    <3> QED
      BY <1>2, <2>2, <3>2
  <2> QED
    BY <1>1, <2>1, <2>2
<1>6. SuspendCountSound'
  BY <1>3 DEF IInv, SuspendCountSound
<1>7. IdleSound'
  BY <1>3, Constants DEF IInv, IdleSound
<1> QED
  BY <1>3, <1>4, <1>5, <1>6, <1>7

\* The priority change that krhino_task_wait_abort may leave to be done.
LEMMA AbortWork ==
    ASSUME IInv, NEW t \in Tasks, BlkExact(blk_list', task_state', blk_obj'), IdleSound'
    PROVE  (IF task_state[t] \in Pending THEN MutexTaskPriReset(t, blk_list') ELSE <<>>)
           \in PriWork
<1>1. task_state'[IdleTask] = "K_RDY"
  BY DEF IdleSound
<1>2. blk_list' \in [Objs -> Seq(Tasks)]
  BY DEF BlkExact
<1>3. \A x \in Objs : IdleTask \notin ToSet(blk_list'[x])
  BY <1>1, IdleNotWaiting
<1>4. CASE task_state[t] \in Pending
  <2>1. MutexTaskPriReset(t, blk_list') \in PriWork
    BY <1>2, <1>3, <1>4, ResetWork DEF IInv
  <2> QED
    BY <1>4, <2>1
<1>5. CASE task_state[t] \notin Pending
  BY <1>5 DEF PriWork
<1> QED
  BY <1>4, <1>5

\* No other part of the invariant minds a task that is made ready.
LEMMA ReadySound ==
    ASSUME IInv, NEW t \in Tasks, Created(t), task_state'[t] = "K_RDY",
           \A x \in Tasks : x # t => task_state'[x] = task_state[x] /\ blk_obj'[x] = blk_obj[x],
           ExitSched \/ UNCHANGED pc,
           UNCHANGED <<active, preferred, pendsv, sched_lock, call, alive, mutex_task>>
    PROVE  /\ CpuSound' /\ CallSound' /\ PendSound'
           /\ pc' \in [Tasks -> {"run", "sched", "blk", "end", "pri"}]
<1>1. /\ pc' \in [Tasks -> {"run", "sched", "blk", "end", "pri"}]
      /\ \A x \in Tasks : pc'[x] = pc[x] \/ (x = active /\ pc'[x] = "sched")
  BY DEF IInv, FieldsOK, ExitSched
<1>2. active \in Tasks /\ preferred \in Tasks
  BY DEF IInv, FieldsOK
<1>3. \A x \in Tasks : task_state[x] = "K_RDY" => task_state'[x] = "K_RDY"
  OBVIOUS
<1>4. CpuSound'
  BY <1>1, <1>2, <1>3 DEF IInv, CpuSound
<1>5. CallSound'
  BY <1>1 DEF IInv, CallSound, Created
<1>6. \A x \in Tasks : task_state'[x] \in Pending
                       => task_state[x] \in Pending /\ blk_obj'[x] = blk_obj[x]
  BY DEF Pending
<1>7. PendSound'
  BY <1>6 DEF IInv, PendSound
<1> QED
  BY <1>1, <1>4, <1>5, <1>7

\* krhino_task_wait_abort: the invariant is kept.
LEMMA TaskWaitAbortInv == ASSUME IInv, NEW t \in Tasks, TaskWaitAbort(t) PROVE IInv'
<1> USE DEF tcbVars, rrVars, mutexVars, cpuVars
<1> DEFINE w == IF task_state[t] \in Pending THEN MutexTaskPriReset(t, blk_list') ELSE <<>>
<1>1. /\ Created(t) /\ WaitAbort(t) /\ todo' = w /\ ExitSched
      /\ UNCHANGED <<prio, b_prio, alive, sched_lock, tcbVars, rrVars, mutexVars,
                     cpuVars, call, fatal>>
  BY DEF TaskWaitAbort
<1>2. /\ task_state' \in [Tasks -> TaskStates] /\ task_state'[t] = "K_RDY"
      /\ \A x \in Tasks : x # t => /\ task_state'[x] = task_state[x]
                                   /\ blk_obj'[x] = blk_obj[x]
      /\ QueueExact(rq', task_state', prio')
      /\ BlkExact(blk_list', task_state', blk_obj')
      /\ SuspendCountSound' /\ IdleSound'
      /\ blk_obj' \in [Tasks -> Objs \cup {NULL}] /\ blk_state' \in [Tasks -> Reasons]
      /\ tick_list' \in Seq(Tasks) /\ tick_remain' \in [Tasks -> Int]
  BY <1>1, AbortSound
<1>3. /\ CpuSound' /\ CallSound' /\ PendSound'
      /\ pc' \in [Tasks -> {"run", "sched", "blk", "end", "pri"}]
  BY <1>1, <1>2, ReadySound
<1>4. TodoSound'
  <2>1. w \in PriWork
    BY <1>2, AbortWork
  <2> HIDE DEF w
  <2>2. PICK r \in PriWork : todo' = r
    BY <1>1, <2>1, Zenon
  <2> QED
    BY <2>2, TodoOnly
<1>5. FieldsOK'
  BY <1>1, <1>2, <1>3 DEF IInv, FieldsOK, Reasons
<1> QED
  BY <1>2, <1>3, <1>4, <1>5 DEF IInv

\* krhino_task_cancel: the invariant is kept.
LEMMA TaskCancelInv == ASSUME IInv, NEW t \in Tasks, TaskCancel(t) PROVE IInv'
<1> USE DEF rrVars, mutexVars, cpuVars
<1> DEFINE w == IF task_state[t] \in Pending THEN MutexTaskPriReset(t, blk_list') ELSE <<>>
           e == Item("core_sched", NULL, NULL, 0)
<1>1. /\ Created(t) /\ WaitAbort(t) /\ todo' = w \o <<e>>
      /\ cancel' = [cancel EXCEPT ![t] = TRUE]
      /\ UNCHANGED <<prio, b_prio, alive, sched_lock, suspend_count, rrVars, mutexVars,
                     cpuVars, pc, call, fatal>>
  BY DEF TaskCancel
<1>2. /\ task_state' \in [Tasks -> TaskStates] /\ task_state'[t] = "K_RDY"
      /\ \A x \in Tasks : x # t => /\ task_state'[x] = task_state[x]
                                   /\ blk_obj'[x] = blk_obj[x]
      /\ QueueExact(rq', task_state', prio')
      /\ BlkExact(blk_list', task_state', blk_obj')
      /\ SuspendCountSound' /\ IdleSound'
      /\ blk_obj' \in [Tasks -> Objs \cup {NULL}] /\ blk_state' \in [Tasks -> Reasons]
      /\ tick_list' \in Seq(Tasks) /\ tick_remain' \in [Tasks -> Int]
  BY <1>1, AbortSound
<1>3. /\ CpuSound' /\ CallSound' /\ PendSound'
  BY <1>1, <1>2, ReadySound
<1>4. TodoSound'
  <2>1. w \in PriWork
    BY <1>2, AbortWork
  <2>2. e \in Items /\ WorkItem(e) /\ e.op # "mutex_free" /\ ItemSound(e)'
    BY PlainItem
  <2> HIDE DEF w, e
  <2>3. PICK r \in PriWork : r = w
    BY <2>1, Zenon
  <2>4. PICK it \in Items : it = e /\ WorkItem(it) /\ it.op # "mutex_free" /\ ItemSound(it)'
    BY <2>2
  <2>5. todo' = r \o <<it>>
    BY <1>1, <2>3, <2>4, Zenon
  <2> QED
    BY <2>4, <2>5, TodoBegin
<1>5. FieldsOK'
  <2>1. cancel' \in [Tasks -> BOOLEAN]
    BY <1>1 DEF IInv, FieldsOK
  <2> QED
    BY <1>1, <1>2, <2>1 DEF IInv, FieldsOK, Reasons
<1> QED
  BY <1>2, <1>3, <1>4, <1>5 DEF IInv

\* The end of krhino_task_del: the invariant is kept.
LEMMA TaskDelEndInv == ASSUME IInv, TaskDelEnd PROVE IInv'
<1> USE DEF tcbVars, rrVars, cpuVars
<1>1. /\ Doing("del_end")
      /\ UNCHANGED <<prio, b_prio, alive, sched_lock, tcbVars, rrVars, blk_obj, blk_state,
                     mutex_list, mutex_task, owner_nested, cpuVars, fatal>>
  BY DEF TaskDelEnd
<1>2. /\ Head(todo).task \in AppTasks /\ Tail(todo) = <<>> /\ todo # <<>> /\ TodoSound
      /\ nested = 0 /\ ~pendsv /\ (Head(todo).task = active => sched_lock = 0)
  BY <1>1, DoingItem DEF WorkItem, ItemSound
<1>3. PICK t \in AppTasks : t = Head(todo).task
  BY <1>2
<1>4. t \in Tasks /\ t # IdleTask /\ prio[t] \in AppPris /\ active \in Tasks
  BY DEF AppTasks, IInv, FieldsOK, IdleSound
<1>5. CASE task_state[t] = "K_DELETED"
  <2>1. /\ todo' = <<>>
        /\ UNCHANGED <<task_state, rq, blk_list, tick_list, tick_remain, pc, call, held>>
    BY <1>2, <1>3, <1>5 DEF TaskDelEnd
  <2>2. FieldsOK'
    BY <1>1, <2>1 DEF IInv, FieldsOK
  <2> QED
    BY <1>1, <2>1, <2>2, TodoEmpty, Frames DEF IInv
<1>6. CASE task_state[t] # "K_DELETED"
  <2> DEFINE w == IF task_state[t] \in Pending THEN MutexTaskPriReset(t, blk_list') ELSE <<>>
  <2>1. /\ task_state' = [task_state EXCEPT ![t] = "K_DELETED"]
        /\ rq' = IF task_state[t] = "K_RDY" THEN ReadyListRm(rq, t, prio[t]) ELSE rq
        /\ blk_list' = IF task_state[t] \in Pending
                       THEN [blk_list EXCEPT ![blk_obj[t]] = RemoveFirst(@, t)]
                       ELSE blk_list
        /\ tick_list' = RemoveFirst(tick_list, t)
        /\ tick_remain' = [tick_remain EXCEPT ![t] = 0]
        /\ todo' = w \o Tail(todo)
        /\ call' = [call EXCEPT ![t] = NULL]
        /\ held' = [held EXCEPT ![t] = [m \in Mutexes |-> 0]]
        /\ ExitSched
    BY <1>3, <1>6 DEF TaskDelEnd
  <2> HIDE DEF w
  <2>2. /\ task_state' \in [Tasks -> TaskStates] /\ task_state'[t] = "K_DELETED"
        /\ \A x \in Tasks : x # t => task_state'[x] = task_state[x]
        /\ task_state'[t] \notin Pending
    BY <1>4, <2>1 DEF IInv, FieldsOK, TaskStates, Pending
  <2>3. /\ pc' \in [Tasks -> {"run", "sched", "blk", "end", "pri"}] /\ pc'[active] = "sched"
        /\ \A x \in Tasks : x # active => pc'[x] = pc[x]
    BY <1>2, <1>4, <2>1 DEF IInv, FieldsOK, ExitSched
  <2>4. /\ call' \in [Tasks -> Objs \cup {NULL} \cup (Tasks \X Pris)]
        /\ \A x \in Tasks : x # t => call'[x] = call[x]
    <3>1. call \in [Tasks -> Objs \cup {NULL} \cup (Tasks \X Pris)]
      BY DEF IInv, FieldsOK
    <3> QED
      BY <2>1, <3>1
  <2>5. QueueExact(rq', task_state', prio')
    <3>1. QueueExact(rq, task_state, prio)
      BY DEF IInv
    <3>2. CASE task_state[t] = "K_RDY"
      <4>1. QueueExact(ReadyListRm(rq, t, prio[t]), task_state', prio)
        BY <1>4, <2>2, <3>1, <3>2, QueueRm
      <4> QED
        BY <1>1, <2>1, <3>2, <4>1
    <3>3. CASE task_state[t] # "K_RDY"
      <4>1. QueueExact(rq, task_state', prio)
        BY <2>2, <3>1, <3>3, QueueSame
      <4> QED
        BY <1>1, <2>1, <3>3, <4>1
    <3> QED
      BY <3>2, <3>3
  <2>6. BlkExact(blk_list', task_state', blk_obj')
    <3>1. BlkExact(blk_list, task_state, blk_obj) /\ blk_obj[t] \in Objs \cup {NULL}
      BY <1>4 DEF IInv, FieldsOK
    <3>2. CASE task_state[t] \in Pending
      <4>1. blk_obj[t] \in Objs /\ blk_obj[t] # NULL
        BY <1>4, <3>2, Constants DEF IInv, PendSound
      <4>2. BlkExact(IF blk_obj[t] = NULL THEN blk_list
                     ELSE [blk_list EXCEPT ![blk_obj[t]] = RemoveFirst(@, t)],
                     task_state', blk_obj)
        BY <1>4, <2>2, <3>1, <4>1, BlkLeave
      <4> QED
        BY <1>1, <2>1, <3>2, <4>1, <4>2
    <3>3. CASE task_state[t] \notin Pending
      <4>1. \A x \in Tasks : task_state'[x] \in Pending <=> task_state[x] \in Pending
        BY <2>2, <3>3
      <4>2. BlkExact(blk_list, task_state', blk_obj)
        BY <3>1, <4>1, BlkSame
      <4> QED
        BY <1>1, <2>1, <3>3, <4>2
    <3> QED
      BY <3>2, <3>3
  <2>7. SuspendCountSound'
    BY <1>1, <2>2 DEF IInv, SuspendCountSound
  <2>8. IdleSound'
    BY <1>1, <1>4, <2>2, Constants DEF IInv, IdleSound
  <2>9. CpuSound'
    BY <1>1, <1>2, <1>3, <1>4, <2>2, <2>3 DEF IInv, CpuSound
  <2>10. PendSound'
    BY <1>1, <2>2, <2>4 DEF IInv, PendSound
  <2>11. CallSound'
    BY <2>2, <2>3, <2>4 DEF IInv, CallSound, Created
  <2>12. FieldsOK'
    <3>1. tick_list' \in Seq(Tasks)
      BY <2>1, RemoveFirstSeq DEF IInv, FieldsOK
    <3>2. tick_remain \in [Tasks -> Int] /\ held \in [Tasks -> [Mutexes -> Nat]]
      BY DEF IInv, FieldsOK
    <3>3. tick_remain' \in [Tasks -> Int]
      <4>1. tick_remain' = [tick_remain EXCEPT ![t] = 0]
        BY <2>1
      <4>2. tick_remain \in [Tasks -> Int] /\ t \in Tasks
        BY <1>4, <3>2
      <4> QED
        BY <4>1, <4>2
    <3>4. [m \in Mutexes |-> 0] \in [Mutexes -> Nat]
      OBVIOUS
    <3>5. held' \in [Tasks -> [Mutexes -> Nat]]
      BY <2>1, <3>2, <3>4
    <3> QED
      BY <1>1, <2>2, <2>3, <2>4, <3>1, <3>3, <3>5 DEF IInv, FieldsOK
  <2>13. TodoSound'
    <3>1. w \in PriWork
      BY <1>4, <2>6, <2>8, AbortWork DEF w
    <3>2. PICK r \in PriWork : todo' = r \o Tail(todo)
      BY <2>1, <3>1, Zenon
    <3>3. \A it \in ToSet(Tail(todo)) : ItemSound(it) => ItemSound(it)'
      BY <1>2, WorkNone
    <3> QED
      BY <1>2, <3>2, <3>3, TodoStep
  <2> QED
    BY <2>5, <2>6, <2>7, <2>8, <2>9, <2>10, <2>11, <2>12, <2>13 DEF IInv
<1> QED
  BY <1>5, <1>6, SMTT(30)

\* What a change of priority leaves alone.
LEMMA PriSound ==
    ASSUME IInv, NEW t \in AppTasks, NEW new \in AppPris,
           prio' = [prio EXCEPT ![t] = new], fatal' \in BOOLEAN,
           QueueExact(rq', task_state', prio'), BlkExact(blk_list', task_state', blk_obj'),
           TodoSound',
           UNCHANGED <<task_state, b_prio, alive, sched_lock, tcbVars, rrVars, blk_obj,
                       blk_state, tick_list, tick_remain, mutexVars, cpuVars, pc, call>>
    PROVE  IInv'
<1> USE DEF tcbVars, rrVars, mutexVars, cpuVars
<1>1. /\ prio' \in [Tasks -> Pris]
      /\ \A x \in Tasks : prio'[x] = IF x = t THEN new ELSE prio[x]
  BY Constants DEF IInv, FieldsOK, AppTasks
<1>2. FieldsOK'
  BY <1>1 DEF IInv, FieldsOK
<1>3. IdleSound'
  BY <1>1, Constants DEF IInv, IdleSound, AppTasks
<1> QED
  BY <1>2, <1>3, Frames DEF IInv

\* A round of task_pri_change: the invariant is kept.
LEMMA TaskPriChangeInv == ASSUME IInv, TaskPriChange PROVE IInv'
<1> USE DEF tcbVars, rrVars, mutexVars, cpuVars
<1>1. /\ Doing("pri_change")
      /\ UNCHANGED <<task_state, b_prio, alive, sched_lock, tcbVars, rrVars, blk_obj,
                     blk_state, tick_list, tick_remain, mutexVars, cpuVars, pc, call>>
  BY DEF TaskPriChange
<1>2. /\ Head(todo).task \in AppTasks /\ Head(todo).arg \in AppPris
      /\ todo # <<>> /\ TodoSound
  BY <1>1, DoingItem DEF WorkItem
<1>3. PICK t \in AppTasks, new \in AppPris : t = Head(todo).task /\ new = Head(todo).arg
  BY <1>2
<1>4. /\ t \in Tasks /\ t # IdleTask /\ prio[t] \in AppPris /\ new \in Pris
      /\ prio \in [Tasks -> Pris] /\ task_state \in [Tasks -> TaskStates] /\ fatal \in BOOLEAN
      /\ QueueExact(rq, task_state, prio) /\ BlkExact(blk_list, task_state, blk_obj)
  BY Constants DEF AppTasks, IInv, FieldsOK, IdleSound
<1>5. \A it \in ToSet(Tail(todo)) : ItemSound(it) => ItemSound(it)'
  BY <1>1 DEF ItemSound
<1>6. todo' = Tail(todo) => TodoSound'
  BY <1>2, <1>5, TodoDone
<1>7. prio' = [prio EXCEPT ![t] = new] =>
         prio'[t] = new /\ \A x \in Tasks : x # t => prio'[x] = prio[x]
  BY <1>4
<1> DEFINE m == blk_obj[t]
           o == mutex_task[m]
           look == PriLook(b_prio[o], ToSet(mutex_list[o]), blk_list', prio')
           next == IF m \notin Mutexes \cap alive THEN <<>>
                   ELSE IF prio[o] > new THEN <<Item("pri_change", o, NULL, new)>>
                   ELSE IF prio[o] = prio[t] /\ look # prio[o]
                        THEN <<Item("pri_change", o, NULL, look)>>
                   ELSE <<>>
<1>8. CASE /\ todo' = Tail(todo) /\ UNCHANGED <<prio, rq, blk_list>> /\ fatal' \in BOOLEAN
  <2>1. FieldsOK'
    BY <1>1, <1>8 DEF IInv, FieldsOK
  <2> QED
    BY <1>1, <1>6, <1>8, <2>1, Frames DEF IInv
<1>9. CASE /\ task_state[t] = "K_RDY" /\ prio' = [prio EXCEPT ![t] = new]
           /\ rq' = LET q == ReadyListRm(rq, t, prio[t])
                    IN  IF t = active THEN ReadyListAddHead(q, t, new)
                                      ELSE ReadyListAddTail(q, t, new)
           /\ todo' = Tail(todo) /\ UNCHANGED <<blk_list, fatal>>
  <2> DEFINE q == ReadyListRm(rq, t, prio[t])
             st == [task_state EXCEPT ![t] = "K_SUSPENDED"]
  <2>1. st[t] = "K_SUSPENDED" /\ st[t] # "K_RDY" /\ \A x \in Tasks : x # t => st[x] = task_state[x]
    BY <1>4
  <2>2. task_state'[t] = "K_RDY" /\ \A x \in Tasks : x # t => task_state'[x] = st[x]
    BY <1>1, <1>9, <2>1
  <2> HIDE DEF st
  <2>3. QueueExact(q, st, prio)
    BY <1>4, <1>9, <2>1, QueueRm
  <2>4. rq' = IF t = active THEN ReadyListAddHead(q, t, new) ELSE ReadyListAddTail(q, t, new)
    BY <1>9
  <2> HIDE DEF q
  <2>5. QueueExact(ReadyListAddHead(q, t, new), task_state', prio')
    BY <1>4, <1>7, <1>9, <2>1, <2>2, <2>3, QueueAddHead
  <2>6. QueueExact(ReadyListAddTail(q, t, new), task_state', prio')
    BY <1>4, <1>7, <1>9, <2>1, <2>2, <2>3, QueueAddTail
  <2>7. QueueExact(rq', task_state', prio')
    BY <2>4, <2>5, <2>6
  <2>8. BlkExact(blk_list', task_state', blk_obj')
    BY <1>1, <1>4, <1>9
  <2> QED
    BY <1>1, <1>4, <1>6, <1>9, <2>7, <2>8, PriSound
<1>10. CASE /\ task_state[t] \in Sleeping \cup {"K_SUSPENDED"}
            /\ prio' = [prio EXCEPT ![t] = new]
            /\ todo' = Tail(todo) /\ UNCHANGED <<rq, blk_list, fatal>>
  <2>1. QueueExact(rq, task_state, prio')
    BY <1>4, <1>7, <1>10, QueueSame DEF Sleeping
  <2>2. QueueExact(rq', task_state', prio') /\ BlkExact(blk_list', task_state', blk_obj')
    BY <1>1, <1>4, <1>10, <2>1
  <2> QED
    BY <1>1, <1>4, <1>6, <1>10, <2>2, PriSound
<1>11. CASE /\ task_state[t] \in Pending
            /\ prio' = [prio EXCEPT ![t] = new]
            /\ blk_list' = [blk_list EXCEPT ![m] = PendListReorder(@, t, prio')]
            /\ todo' = next \o Tail(todo) /\ UNCHANGED <<rq, fatal>>
  <2>1. QueueExact(rq', task_state', prio')
    <3>1. QueueExact(rq, task_state, prio')
      BY <1>4, <1>7, <1>11, QueueSame DEF Pending
    <3> QED
      BY <1>1, <1>11, <3>1
  <2>2. m \in Objs /\ (m \in Mutexes \cap alive => o \in AppTasks)
    <3>1. mutex_task \in [Mutexes -> Tasks \cup {NULL}]
      BY DEF IInv, FieldsOK
    <3>2. PendSound
      BY DEF IInv
    <3> QED
      BY <1>4, <1>11, <3>1, <3>2 DEF PendSound, AppTasks
  <2>3. BlkExact(blk_list', task_state', blk_obj')
    <3>1. BlkExact([blk_list EXCEPT ![m] = PendListReorder(@, t, prio')], task_state, blk_obj)
      BY <1>4, <1>11, <2>2, BlkReorder
    <3> QED
      BY <1>1, <1>11, <3>1
  <2>4. m \in Mutexes \cap alive => look \in AppPris
    <3> SUFFICES ASSUME m \in Mutexes \cap alive PROVE look \in AppPris
      OBVIOUS
    <3>1. o \in AppTasks /\ o \in Tasks /\ b_prio[o] \in AppPris
      BY <2>2 DEF IInv, IdleSound, AppTasks
    <3>2. ToSet(mutex_list[o]) \subseteq Objs
      <4>1. mutex_list[o] \in Seq(Mutexes)
        BY <3>1 DEF IInv, FieldsOK
      <4> QED
        BY <4>1, MemberAt DEF Objs
    <3>3. blk_list' \in [Objs -> Seq(Tasks)] /\ task_state'[IdleTask] = "K_RDY"
      BY <1>1, <2>3 DEF BlkExact, IInv, IdleSound
    <3>4. \A x \in Objs : IdleTask \notin ToSet(blk_list'[x])
      BY <2>3, <3>3, IdleNotWaiting
    <3>5. \A x \in AppTasks : prio'[x] \in AppPris
      BY <1>7, <1>11 DEF IInv, IdleSound, AppTasks
    <3> HIDE DEF o
    <3> QED
      BY <3>1, <3>2, <3>3, <3>4, <3>5, PriLookBound
  <2> HIDE DEF look, o
  <2>5. next \in PriWork
    BY <2>2, <2>4 DEF PriWork
  <2> HIDE DEF next
  <2>6. PICK r \in PriWork : todo' = r \o Tail(todo)
    BY <1>11, <2>5, Zenon
  <2>7. TodoSound'
    BY <1>2, <1>5, <2>6, TodoStep
  <2> QED
    BY <1>1, <1>4, <1>11, <2>1, <2>3, <2>7, PriSound
<1> QED
  BY <1>3, <1>4, <1>8, <1>9, <1>10, <1>11 DEF TaskPriChange

\* The steps of a critical section in progress keep the invariant ...
LEMMA ContinueInv == ASSUME IInv, Continue PROVE IInv'
BY TaskPriChangeInv, MutexLockPendInv, MutexHandOverInv, DelWaitersInv, TaskMutexFreeInv,
   TaskDelEndInv, CancelCoreSchedInv, TickExpireInv DEF Continue

\* ... so do the calls on mutexes ...
LEMMA MutexCallInv == ASSUME IInv, MutexCall PROVE IInv'
<1> PICK m \in Mutexes :
       \/ MutexCreate(m)
       \/ MutexLockNested(m)
       \/ MutexLockFree(m)
       \/ \E ticks \in Waits : MutexLockBusy(m, ticks)
       \/ MutexUnlockNested(m)
       \/ MutexUnlock(m)
       \/ MutexDel(m)
  BY DEF MutexCall
<1> QED
  BY MutexCreateInv, MutexLockNestedInv, MutexLockFreeInv, MutexLockBusyInv,
     MutexUnlockNestedInv, MutexUnlockInv, MutexDelInv

\* ... and those on tasks.
LEMMA TaskCallInv ==
    ASSUME "task_suspend" \notin IsrCalls, IInv, TaskCall PROVE IInv'
<1>1. CASE TaskYield
  BY <1>1, TaskYieldInv
<1>2. CASE \E ticks \in Waits \ {FOREVER} : TaskSleep(ticks)
  BY <1>2, TaskSleepInv
<1>3. CASE TaskPriChangeCall
  BY <1>3, TaskPriChangeCallInv
<1>4. ASSUME NEW t \in Tasks, NEW p \in NewPris, NEW autorun \in BOOLEAN,
             TaskCreate(t, p, autorun)
      PROVE  IInv'
  BY <1>4, TaskCreateInv
<1>5. ASSUME NEW t \in Tasks, TaskSuspend(t) PROVE IInv'
  BY <1>5, TaskSuspendInv
<1>6. ASSUME NEW t \in Tasks, TaskResume(t) PROVE IInv'
  BY <1>6, TaskResumeInv
<1>7. ASSUME NEW t \in Tasks, NEW p \in NewPris, TaskPriChangeCheck(t, p) PROVE IInv'
  BY <1>7, TaskPriChangeCheckInv
<1>8. ASSUME NEW t \in Tasks, TaskWaitAbort(t) \/ TaskCancel(t) \/ TaskDel(t) PROVE IInv'
  BY <1>8, TaskWaitAbortInv, TaskCancelInv, TaskDelInv
<1>9. ASSUME NEW t \in Tasks, NEW s \in TimeSlices, TaskTimeSliceSet(t, s) PROVE IInv'
  BY <1>9, TaskTimeSliceSetInv
<1>10. ASSUME NEW t \in Tasks, NEW policy \in {"KSCHED_FIFO", "KSCHED_RR"},
              SchedPolicySet(t, policy)
       PROVE  IInv'
  BY <1>10, SchedPolicySetInv
<1> QED
  BY <1>1, <1>2, <1>3, <1>4, <1>5, <1>6, <1>7, <1>8, <1>9, <1>10, Zenon DEF TaskCall

\* Every step of the kernel keeps the invariant.
LEMMA NextInv ==
    ASSUME "task_suspend" \notin IsrCalls, IInv, [Next]_vars PROVE IInv'
<1>1. CASE UNCHANGED vars
  BY <1>1, StutterInv
<1>2. CASE IdleLoop
  BY <1>2, StutterInv DEF IdleLoop
<1>3. CASE Continue \/ MutexCall \/ TaskCall
  BY <1>3, ContinueInv, MutexCallInv, TaskCallInv
<1>4. CASE CoreSched \/ PendStateEndProc \/ PendSV
  BY <1>4, CoreSchedInv, PendStateEndProcInv, PendSVInv
<1>5. CASE IntrptEnter \/ TickEnter \/ IntrptExit
  BY <1>5, IntrptEnterInv, IntrptExitInv
<1>6. CASE TickProc \/ TimeSliceUpdate \/ SchedDisable \/ SchedEnable
  BY <1>6, TickProcInv, TimeSliceUpdateInv, SchedDisableInv, SchedEnableInv
<1> QED
  BY <1>1, <1>2, <1>3, <1>4, <1>5, <1>6, Zenon DEF Next

\* The invariant holds in every state, provided that interrupt handlers do not
\* suspend tasks: such a handler can suspend the task that a pending switch is
\* about to start, and krhino_intrpt_exit leaves a pending switch as it is.
THEOREM Inductive ==
    ASSUME "task_suspend" \notin IsrCalls PROVE Spec => []IInv
<1>1. Init => IInv
  BY InitInv
<1>2. IInv /\ [Next]_vars => IInv'
  BY NextInv
<1> QED
  BY <1>1, <1>2, PTL DEF Spec

\* Every variable of the kernel keeps its type: in particular the counters
\* suspend_count, owner_nested and g_sched_lock never pass the values that
\* their C types hold, whatever calls, ticks and interrupts come.
THEOREM TypeCorrect ==
    ASSUME "task_suspend" \notin IsrCalls PROVE Spec => []TypeOK
<1>1. IInv => TypeOK
  BY Consequences
<1> QED
  BY <1>1, Inductive, PTL

\* ready_list_add*, ready_list_rm and ready_list_head_to_tail are called so
\* that the ready queue holds exactly the ready tasks, each once and in the list
\* of its priority, and g_ready_queue.highest_pri is always right.
THEOREM ReadyQueueCorrect ==
    ASSUME "task_suspend" \notin IsrCalls PROVE Spec => []ReadyQueueExact
<1>1. IInv => ReadyQueueExact
  BY Consequences
<1> QED
  BY <1>1, Inductive, PTL

\* A task that pended, slept, was suspended or deleted does not go on computing:
\* every path that takes the CPU from a task goes through core_sched.
THEOREM RunningCorrect ==
    ASSUME "task_suspend" \notin IsrCalls PROVE Spec => []RunningIsReady
<1>1. IInv => RunningIsReady
  BY Consequences
<1> QED
  BY <1>1, Inductive, PTL

\* task_resume never takes a suspension from a task that has none, although
\* krhino_task_wait_abort makes a suspended task ready without clearing its count.
THEOREM SuspendCountCorrect ==
    ASSUME "task_suspend" \notin IsrCalls PROVE Spec => []SuspendCountSound
<1>1. IInv => SuspendCountSound
  BY Consequences
<1> QED
  BY <1>1, Inductive, PTL
-----------------------------------------------------------------------------
(* How the tasks wait.                                                      *)

\* The states in which a task may be on the tick list.
Timed == Sleeping \cup Pending

\* Nobody begins or ends to wait.
WaitKept ==
    /\ UNCHANGED <<waitVars, prio>>
    /\ \A x \in Tasks : /\ task_state'[x] \in Pending <=> task_state[x] \in Pending
                        /\ task_state'[x] \in Sleeping <=> task_state[x] \in Sleeping

\* The wait or the sleep of t ends, and t is told why.
WaitEnds(t) ==
    /\ task_state[t] \in Timed /\ task_state'[t] \notin Timed
    /\ \A x \in Tasks : x # t => task_state'[x] = task_state[x]
    /\ \E why : LeaveWait(t, why)
    /\ UNCHANGED prio

\* The task t is deleted.
WaitDeleted(t) ==
    /\ task_state'[t] \notin Timed
    /\ \A x \in Tasks : x # t => task_state'[x] = task_state[x]
    /\ blk_list' = IF task_state[t] \in Pending
                   THEN [blk_list EXCEPT ![blk_obj[t]] = RemoveFirst(@, t)]
                   ELSE blk_list
    /\ tick_list' = RemoveFirst(tick_list, t)
    /\ tick_remain' = [tick_remain EXCEPT ![t] = 0]
    /\ UNCHANGED <<blk_obj, blk_state, prio>>

\* The running task begins to wait for o or, when that is NULL, to sleep.
WaitBegins(o, ticks) ==
    /\ active \in AppTasks /\ task_state[active] = "K_RDY" /\ pc[active] = "run"
    /\ task_state'[active] = IF o = NULL THEN "K_SLEEP" ELSE "K_PEND"
    /\ \A x \in Tasks : x # active => task_state'[x] = task_state[x]
    /\ blk_list' = IF o = NULL THEN blk_list
                   ELSE [blk_list EXCEPT ![o] = PendListAdd(@, active, prio)]
    /\ blk_obj' = IF o = NULL THEN blk_obj ELSE [blk_obj EXCEPT ![active] = o]
    /\ TickListInsert(active, ticks) /\ (o = NULL => ticks # FOREVER)
    /\ UNCHANGED <<blk_state, prio>>

\* The priority of t changes while nobody's wait does.
WaitPri(t, p) ==
    /\ prio' = [prio EXCEPT ![t] = p]
    /\ blk_list' = IF task_state[t] \in Pending
                   THEN [blk_list EXCEPT ![blk_obj[t]] = PendListReorder(@, t, prio')]
                   ELSE blk_list
    /\ UNCHANGED <<task_state, blk_obj, blk_state, tick_list, tick_remain>>

\* The task t is created.
WaitCreated(t, p) ==
    /\ task_state[t] \notin Timed /\ task_state'[t] \notin Timed
    /\ \A x \in Tasks : x # t => task_state'[x] = task_state[x]
    /\ prio' = [prio EXCEPT ![t] = p]
    /\ blk_obj' = [blk_obj EXCEPT ![t] = NULL]
    /\ blk_state' = [blk_state EXCEPT ![t] = "BLK_FINISH"]
    /\ pc'[t] = "run"
    /\ UNCHANGED <<blk_list, tick_list, tick_remain>>

\* Time moves on for all the tasks on the tick list.
WaitTicks ==
    /\ todo' = <<Item("tick", NULL, NULL, 0)>>
    /\ tick_remain' = [t \in Tasks |-> IF t \in ToSet(tick_list) THEN tick_remain[t] - 1
                                       ELSE tick_remain[t]]
    /\ UNCHANGED <<task_state, blk_obj, blk_state, blk_list, tick_list, prio>>

\* The kinds of the steps of the kernel core, where tasks block on mutexes that
\* exist, and of all the steps.
CoreKind ==
    \/ WaitKept
    \/ \E t \in Tasks : WaitEnds(t)
    \/ \E t \in Tasks : WaitDeleted(t)
    \/ \E o \in (Mutexes \cap alive) \cup {NULL}, ticks \in Waits : WaitBegins(o, ticks)
    \/ \E t \in Tasks, p \in Pris : WaitPri(t, p)
    \/ \E t \in Tasks, p \in Pris : WaitCreated(t, p)
    \/ WaitTicks

\* The kinds of all the steps, of those on other objects too.
Kind == CoreKind \/ \E o \in Objs, ticks \in Waits : WaitBegins(o, ticks)
-----------------------------------------------------------------------------
(* The steps and their kinds.                                               *)

\* Steps that have nothing to do with waiting.
LEMMA QuietKind == ASSUME UNCHANGED <<waitVars, prio, task_state>> PROVE WaitKept
BY DEF WaitKept

\* The actions that begin and end no wait.
LEMMA QuietSteps ==
    ASSUME \/ CoreSched \/ PendStateEndProc \/ PendSV \/ IdleLoop \/ IntrptEnter \/ TickEnter
           \/ IntrptExit \/ TimeSliceUpdate \/ SchedDisable \/ SchedEnable \/ CancelCoreSched
           \/ MutexCall \/ TaskYield \/ TaskPriChangeCall
           \/ \E t \in Tasks : TaskDel(t)
           \/ \E t \in Tasks, p \in NewPris : TaskPriChangeCheck(t, p)
           \/ \E t \in Tasks, s \in TimeSlices : TaskTimeSliceSet(t, s)
           \/ \E t \in Tasks, policy \in {"KSCHED_FIFO", "KSCHED_RR"} : SchedPolicySet(t, policy)
    PROVE  WaitKept
<1> USE DEF dataVars, vars
<1>1. CASE \/ CoreSched \/ PendStateEndProc \/ PendSV \/ IdleLoop \/ IntrptEnter \/ TickEnter
           \/ IntrptExit \/ TimeSliceUpdate \/ SchedDisable \/ SchedEnable \/ CancelCoreSched
  BY <1>1, QuietKind DEF CoreSched, PendStateEndProc, PendSV, IdleLoop, IntrptEnter,
     TickEnter, IntrptExit, TimeSliceUpdate, SchedDisable, SchedEnable, CancelCoreSched
<1>2. CASE MutexCall
  <2>1. UNCHANGED <<waitVars, prio, task_state>>
    BY <1>2 DEF MutexCall, MutexCreate, MutexLockNested, MutexLockFree, MutexLockBusy,
       MutexUnlockNested, MutexUnlock, MutexDel
  <2> QED
    BY <2>1, QuietKind
<1>3. CASE TaskYield \/ TaskPriChangeCall
  BY <1>3, QuietKind DEF TaskYield, TaskPriChangeCall
<1>4. CASE \/ \E t \in Tasks : TaskDel(t)
           \/ \E t \in Tasks, p \in NewPris : TaskPriChangeCheck(t, p)
           \/ \E t \in Tasks, s \in TimeSlices : TaskTimeSliceSet(t, s)
           \/ \E t \in Tasks, policy \in {"KSCHED_FIFO", "KSCHED_RR"} :
                SchedPolicySet(t, policy)
  <2>1. UNCHANGED <<waitVars, prio, task_state>>
    BY <1>4 DEF TaskDel, TaskPriChangeCheck, TaskTimeSliceSet, SchedPolicySet
  <2> QED
    BY <2>1, QuietKind
<1> QED
  BY <1>1, <1>2, <1>3, <1>4, SMTT(30)

\* pend_task_wakeup, pend_task_rm and the expiry of a wait end it.
LEMMA WakeKind ==
    ASSUME IInv, NEW t \in Tasks, task_state[t] \in Timed, NEW why, PendTaskWakeup(t, why),
           UNCHANGED prio
    PROVE  WaitEnds(t)
<1>1. LeaveWait(t, why)
  BY DEF PendTaskWakeup
<1>2. task_state \in [Tasks -> TaskStates]
  BY DEF IInv, FieldsOK
<1>3. /\ task_state'[t] \in {"K_RDY", "K_SUSPENDED"}
      /\ \A x \in Tasks : x # t => task_state'[x] = task_state[x]
  BY <1>2 DEF PendTaskWakeup
<1> QED
  BY <1>1, <1>3 DEF WaitEnds, Timed, Sleeping, Pending

\* The first waiter of an object is woken.
LEMMA WakeFirstKind ==
    ASSUME IInv, NEW o \in Objs, blk_list[o] # <<>>, NEW why,
           PendTaskWakeup(Head(blk_list[o]), why), UNCHANGED prio
    PROVE  \E t \in Tasks : WaitEnds(t)
<1>1. Head(blk_list[o]) \in Tasks /\ task_state[Head(blk_list[o])] \in Timed
  BY BlkHead DEF IInv, Timed
<1> QED
  BY <1>1, WakeKind

\* The loop over the waiters of a deleted object.
LEMMA DelWaitersKind == ASSUME IInv, DelWaiters PROVE CoreKind
<1> DEFINE o == Head(todo).obj
<1>1. Doing("del_waiters") /\ UNCHANGED prio
  BY DEF DelWaiters
<1>2. o \in Objs
  BY <1>1, DoingItem DEF WorkItem
<1>3. CASE blk_list[o] = <<>>
  BY <1>1, <1>3, QuietKind DEF DelWaiters, CoreKind
<1>4. CASE blk_list[o] # <<>>
  <2>1. PendTaskWakeup(Head(blk_list[o]), "BLK_DEL")
    BY <1>4 DEF DelWaiters
  <2> QED
    BY <1>1, <1>2, <1>4, <2>1, WakeFirstKind DEF CoreKind
<1> QED
  BY <1>3, <1>4

\* The end of krhino_mutex_unlock.
LEMMA MutexHandOverKind == ASSUME IInv, MutexHandOver PROVE CoreKind
<1> DEFINE m == Head(todo).obj
<1>1. Doing("hand_over") /\ UNCHANGED prio
  BY DEF MutexHandOver
<1>2. m \in Objs
  BY <1>1, DoingItem DEF WorkItem, Objs
<1>3. CASE blk_list[m] = <<>>
  BY <1>1, <1>3, QuietKind DEF MutexHandOver, CoreKind
<1>4. CASE blk_list[m] # <<>>
  <2>1. PendTaskWakeup(Head(blk_list[m]), "BLK_FINISH")
    BY <1>4 DEF MutexHandOver
  <2> QED
    BY <1>1, <1>2, <1>4, <2>1, WakeFirstKind DEF CoreKind
<1> QED
  BY <1>3, <1>4

\* A round of task_mutex_free.
LEMMA TaskMutexFreeKind == ASSUME IInv, TaskMutexFree PROVE CoreKind
<1> DEFINE t == Head(todo).task
           i == Head(todo).arg
           m == mutex_list[t][i]
<1>1. Doing("mutex_free") /\ UNCHANGED prio
  BY DEF TaskMutexFree
<1>2. t \in Tasks /\ i \in Nat \ {0}
  BY <1>1, DoingItem DEF WorkItem, AppTasks
<1>3. mutex_list[t] \in Seq(Mutexes)
  BY <1>2 DEF IInv, FieldsOK
<1>4. CASE i > Len(mutex_list[t])
  <2>1. ~(i <= Len(mutex_list[t]))
    BY <1>2, <1>3, <1>4
  <2>2. UNCHANGED <<task_state, waitVars>>
    BY <2>1, Zenon DEF TaskMutexFree
  <2> QED
    BY <1>1, <2>2, QuietKind DEF CoreKind
<1>5. CASE ~(i > Len(mutex_list[t]))
  <2>1. m \in Objs
    BY <1>2, <1>3, <1>5 DEF Objs
  <2>2. CASE blk_list[m] = <<>>
    <3>1. UNCHANGED <<task_state, waitVars>>
      BY <1>2, <1>3, <1>5, <2>2, SMTT(30) DEF TaskMutexFree
    <3> QED
      BY <1>1, <3>1, QuietKind DEF CoreKind
  <2>3. CASE blk_list[m] # <<>>
    <3>1. PendTaskWakeup(Head(blk_list[m]), "BLK_FINISH")
      BY <1>2, <1>3, <1>5, <2>3 DEF TaskMutexFree
    <3> QED
      BY <1>1, <2>1, <2>3, <3>1, WakeFirstKind DEF CoreKind
  <2> QED
    BY <2>2, <2>3
<1> QED
  BY <1>4, <1>5

\* A round of tick_list_update.
LEMMA TickExpireKind == ASSUME IInv, TickExpire PROVE CoreKind
<1> DEFINE t == Head(tick_list)
           due == tick_list # <<>> /\ tick_remain[t] <= 0
<1>1. UNCHANGED prio
  BY DEF TickExpire
<1>2. CASE ~due
  <2>1. UNCHANGED <<task_state, waitVars>>
    BY <1>2 DEF TickExpire
  <2> QED
    BY <1>1, <2>1, QuietKind DEF CoreKind
<1>3. CASE due
  <2>1. tick_list \in Seq(Tasks) /\ tick_list # <<>>
    BY <1>3 DEF IInv, FieldsOK
  <2>2. t \in Tasks
    BY <2>1, TailSeq
  <2>3. /\ task_state[t] \in Timed
        /\ \E why : PendTaskWakeup(t, why)
    BY <1>3 DEF TickExpire, Timed
  <2> QED
    BY <1>1, <2>2, <2>3, WakeKind DEF CoreKind
<1> QED
  BY <1>2, <1>3

\* krhino_task_wait_abort and krhino_task_cancel.
LEMMA AbortKind ==
    ASSUME IInv, NEW t \in Tasks, Created(t), WaitAbort(t), UNCHANGED prio
    PROVE  CoreKind
<1>1. task_state \in [Tasks -> TaskStates]
  BY DEF IInv, FieldsOK
<1>2. /\ task_state'[t] = "K_RDY"
      /\ \A x \in Tasks : x # t => task_state'[x] = task_state[x]
  BY <1>1 DEF WaitAbort
<1>3. CASE task_state[t] \in Sleeping \cup Pending
  <2>1. LeaveWait(t, "BLK_ABORT")
    BY <1>3 DEF WaitAbort
  <2>2. WaitEnds(t)
    BY <1>2, <1>3, <2>1 DEF WaitEnds, Timed, Sleeping, Pending
  <2> QED
    BY <2>2 DEF CoreKind
<1>4. CASE task_state[t] \notin Sleeping \cup Pending
  <2>1. UNCHANGED waitVars
    BY <1>4 DEF WaitAbort
  <2>2. WaitKept
    BY <1>2, <1>4, <2>1 DEF WaitKept, Sleeping, Pending
  <2> QED
    BY <2>2 DEF CoreKind
<1> QED
  BY <1>3, <1>4

\* krhino_task_suspend and krhino_task_resume: a suspended task goes on waiting.
LEMMA SuspendKind ==
    ASSUME IInv, NEW t \in Tasks, TaskSuspend(t) \/ TaskResume(t)
    PROVE  CoreKind
<1>1. task_state \in [Tasks -> TaskStates]
  BY DEF IInv, FieldsOK
<1>2. UNCHANGED <<prio, waitVars>>
  BY DEF TaskSuspend, TaskResume
<1>3. /\ task_state'[t] \in Pending <=> task_state[t] \in Pending
      /\ task_state'[t] \in Sleeping <=> task_state[t] \in Sleeping
      /\ \A x \in Tasks : x # t => task_state'[x] = task_state[x]
  <2>1. CASE TaskSuspend(t)
    BY <1>1, <2>1 DEF TaskSuspend, Pending, Sleeping
  <2>2. CASE TaskResume(t)
    BY <1>1, <2>2 DEF TaskResume, Pending, Sleeping
  <2> QED
    BY <2>1, <2>2
<1>4. WaitKept
  BY <1>2, <1>3 DEF WaitKept
<1> QED
  BY <1>4 DEF CoreKind

\* pend_to_blk_obj: the running task begins to wait for o.
LEMMA PendKind ==
    ASSUME IInv, NEW o \in Objs, NEW ticks \in Waits, PendToBlkObj(o, ticks), UNCHANGED prio,
           active \in AppTasks, task_state[active] = "K_RDY", pc[active] = "run"
    PROVE  WaitBegins(o, ticks)
<1>1. o # NULL /\ active \in Tasks /\ task_state \in [Tasks -> TaskStates]
  BY Constants DEF IInv, FieldsOK, AppTasks
<1>2. /\ task_state'[active] = "K_PEND"
      /\ \A x \in Tasks : x # active => task_state'[x] = task_state[x]
  BY <1>1 DEF PendToBlkObj
<1> QED
  BY <1>1, <1>2 DEF PendToBlkObj, WaitBegins

\* It is called by krhino_mutex_lock.
LEMMA MutexLockPendKind == ASSUME IInv, MutexLockPend PROVE CoreKind
<1> DEFINE it == Head(todo)
<1>1. Doing("lock_pend") /\ PendToBlkObj(it.obj, it.arg) /\ UNCHANGED prio
  BY DEF MutexLockPend
<1>2. /\ it \in Items /\ it.op = "lock_pend" /\ it.obj \in Mutexes \cap alive
      /\ it.arg \in Waits /\ active # IdleTask /\ pc[active] = "run" /\ ~pendsv
  BY <1>1, DoingItem DEF WorkItem, ItemSound
<1> HIDE DEF it
<1>3. PICK o \in Mutexes \cap alive, n \in Waits : PendToBlkObj(o, n)
  BY <1>1, <1>2
<1>4. o \in Objs
  BY DEF Objs
<1>5. active \in AppTasks /\ task_state[active] = "K_RDY"
  BY <1>2 DEF IInv, FieldsOK, CpuSound, AppTasks
<1> QED
  BY <1>1, <1>2, <1>3, <1>4, <1>5, PendKind DEF CoreKind

\* krhino_task_sleep.
LEMMA TaskSleepKind ==
    ASSUME IInv, NEW ticks \in Waits, ticks # FOREVER, TaskSleep(ticks)
    PROVE  CoreKind
<1>1. /\ active \in AppTasks /\ active \in Tasks /\ task_state[active] = "K_RDY"
      /\ pc[active] = "run"
  BY Caller DEF TaskSleep
<1>2. task_state \in [Tasks -> TaskStates]
  BY DEF IInv, FieldsOK
<1>3. /\ task_state'[active] = "K_SLEEP"
      /\ \A x \in Tasks : x # active => task_state'[x] = task_state[x]
  BY <1>1, <1>2 DEF TaskSleep
<1>4. WaitBegins(NULL, ticks)
  BY <1>1, <1>3 DEF TaskSleep, WaitBegins
<1> QED
  BY <1>4 DEF CoreKind

\* A round of task_pri_change.
LEMMA TaskPriChangeKind == ASSUME IInv, TaskPriChange PROVE CoreKind
<1> DEFINE t == Head(todo).task
           new == Head(todo).arg
<1>1. /\ Doing("pri_change")
      /\ UNCHANGED <<task_state, blk_obj, blk_state, tick_list, tick_remain>>
  BY DEF TaskPriChange
<1>2. t \in Tasks /\ new \in Pris
  BY <1>1, DoingItem, Constants DEF WorkItem, AppTasks
<1>3. CASE prio[t] = new \/ ~Created(t)
  <2>1. UNCHANGED <<prio, blk_list>>
    BY <1>3 DEF TaskPriChange, Created, Pending, Sleeping
  <2>2. WaitKept
    BY <1>1, <2>1 DEF WaitKept, waitVars
  <2> QED
    BY <2>2 DEF CoreKind
<1>4. CASE prio[t] # new /\ Created(t)
  <2>1. WaitPri(t, new)
    BY <1>1, <1>4 DEF TaskPriChange, WaitPri, Pending, Sleeping
  <2> QED
    BY <1>2, <2>1 DEF CoreKind
<1> QED
  BY <1>3, <1>4

\* krhino_task_create.
LEMMA TaskCreateKind ==
    ASSUME IInv, NEW t \in Tasks, NEW p \in NewPris, NEW autorun \in BOOLEAN,
           TaskCreate(t, p, autorun)
    PROVE  CoreKind
<1>1. /\ task_state[active] = "K_RDY" /\ active \in Tasks
  BY Caller DEF TaskCreate
<1>2. t # active /\ task_state[t] \notin Timed
  BY <1>1 DEF TaskCreate, Created, Timed, Pending, Sleeping
<1>3. task_state \in [Tasks -> TaskStates] /\ p \in Pris
  BY Constants DEF IInv, FieldsOK
<1>4. /\ task_state'[t] \in {"K_RDY", "K_SUSPENDED"}
      /\ \A x \in Tasks : x # t => task_state'[x] = task_state[x]
  BY <1>3 DEF TaskCreate
<1>5. pc'[t] = "run"
  <2>1. pc \in [Tasks -> {"run", "sched", "blk", "end", "pri"}]
    BY DEF IInv, FieldsOK
  <2> QED
    BY <1>1, <1>2, <2>1 DEF TaskCreate
<1>6. WaitCreated(t, p)
  BY <1>2, <1>4, <1>5 DEF TaskCreate, WaitCreated, Timed, Pending, Sleeping
<1> QED
  BY <1>3, <1>6 DEF CoreKind

\* The end of krhino_task_del.
LEMMA TaskDelEndKind == ASSUME IInv, TaskDelEnd PROVE CoreKind
<1> DEFINE t == Head(todo).task
<1>1. Doing("del_end") /\ UNCHANGED <<prio, blk_obj, blk_state>>
  BY DEF TaskDelEnd
<1>2. t \in Tasks
  BY <1>1, DoingItem DEF WorkItem, AppTasks
<1>3. task_state \in [Tasks -> TaskStates]
  BY DEF IInv, FieldsOK
<1>4. CASE task_state[t] = "K_DELETED"
  <2>1. UNCHANGED <<task_state, prio, waitVars>>
    BY <1>1, <1>4 DEF TaskDelEnd, waitVars
  <2> QED
    BY <2>1, QuietKind DEF CoreKind
<1>5. CASE task_state[t] # "K_DELETED"
  <2>1. /\ task_state'[t] = "K_DELETED"
        /\ \A x \in Tasks : x # t => task_state'[x] = task_state[x]
    BY <1>2, <1>3, <1>5 DEF TaskDelEnd
  <2>2. WaitDeleted(t)
    BY <1>1, <1>5, <2>1 DEF TaskDelEnd, WaitDeleted, Timed, Sleeping, Pending
  <2> QED
    BY <1>2, <2>2, SMTT(30) DEF CoreKind
<1> QED
  BY <1>4, <1>5, SMTT(30)

\* Every step of the kernel core is of one of the kinds.
LEMMA NextKind == ASSUME IInv, [Next]_vars PROVE CoreKind
<1>1. CASE UNCHANGED vars
  BY <1>1, QuietKind DEF vars, dataVars, CoreKind
<1>2. CASE Continue
  BY <1>2, TaskPriChangeKind, MutexLockPendKind, MutexHandOverKind, DelWaitersKind,
     TaskMutexFreeKind, TaskDelEndKind, TickExpireKind, QuietSteps DEF Continue, CoreKind
<1>3. CASE TickProc
  BY <1>3 DEF TickProc, WaitTicks, CoreKind
<1>4. CASE TaskCall
  <2>1. ASSUME NEW t \in Tasks, NEW p \in NewPris, NEW autorun \in BOOLEAN,
               TaskCreate(t, p, autorun)
        PROVE  CoreKind
    BY <2>1, TaskCreateKind
  <2>2. ASSUME NEW t \in Tasks, TaskSuspend(t) \/ TaskResume(t) PROVE CoreKind
    BY <2>2, SuspendKind
  <2>3. ASSUME NEW t \in Tasks, TaskWaitAbort(t) \/ TaskCancel(t) PROVE CoreKind
    BY <2>3, AbortKind DEF TaskWaitAbort, TaskCancel
  <2>4. ASSUME NEW ticks \in Waits \ {FOREVER}, TaskSleep(ticks) PROVE CoreKind
    BY <2>4, TaskSleepKind
  <2>5. CASE \/ TaskYield \/ TaskPriChangeCall
             \/ \E t \in Tasks : TaskDel(t)
             \/ \E t \in Tasks, p \in NewPris : TaskPriChangeCheck(t, p)
             \/ \E t \in Tasks, s \in TimeSlices : TaskTimeSliceSet(t, s)
             \/ \E t \in Tasks, policy \in {"KSCHED_FIFO", "KSCHED_RR"} :
                  SchedPolicySet(t, policy)
    BY <2>5, QuietSteps DEF CoreKind
  <2> QED
    BY <1>4, <2>1, <2>2, <2>3, <2>4, <2>5, Zenon DEF TaskCall
<1>5. CASE \/ CoreSched \/ PendStateEndProc \/ PendSV \/ IdleLoop \/ IntrptEnter
           \/ TickEnter \/ IntrptExit \/ TimeSliceUpdate \/ SchedDisable \/ SchedEnable
           \/ MutexCall
  BY <1>5, QuietSteps DEF CoreKind
<1> QED
  BY <1>1, <1>2, <1>3, <1>4, <1>5, Zenon DEF Next
-----------------------------------------------------------------------------
(* The blocked lists are sorted.                                            *)

Sorted(lists, pr) == \A o \in Objs : Ordered(lists[o], pr)

\* The keys that the order is about do not change.
LEMMA OrderedSame ==
    ASSUME NEW S, NEW s \in Seq(S), NEW key, NEW key2, Ordered(s, key),
           \A e \in ToSet(s) : key2[e] = key[e]
    PROVE  Ordered(s, key2)
BY MemberAt DEF Ordered

\* A list whose order was kept or is kept anew, among lists that are sorted.
LEMMA SortedOne ==
    ASSUME NEW lists \in [Objs -> Seq(Tasks)],
           NEW pr \in [Tasks -> Pris], Sorted(lists, pr),
           NEW o \in Objs, NEW s \in Seq(Tasks),
           NEW pr2 \in [Tasks -> Pris], Ordered(s, pr2),
           \A x \in Objs, e \in Tasks :
              x # o /\ e \in ToSet(lists[x]) => pr2[e] = pr[e]
    PROVE  Sorted([lists EXCEPT ![o] = s], pr2)
<1> DEFINE new == [lists EXCEPT ![o] = s]
<1>1. ASSUME NEW x \in Objs PROVE Ordered(new[x], pr2)
  <2>1. CASE x = o
    BY <2>1
  <2>2. CASE x # o
    <3>1. new[x] = lists[x] /\ lists[x] \in Seq(Tasks) /\ Ordered(lists[x], pr)
      BY <2>2 DEF Sorted
    <3>2. \A e \in ToSet(lists[x]) : pr2[e] = pr[e]
      BY <2>2, <3>1, MemberAt
    <3> QED
      BY <3>1, <3>2, OrderedSame
  <2> QED
    BY <2>1, <2>2
<1> QED
  BY <1>1 DEF Sorted

\* A task leaves a list or enters it at its place.
LEMMA SortedLeave ==
    ASSUME NEW lists \in [Objs -> Seq(Tasks)], NEW pr \in [Tasks -> Pris],
           Sorted(lists, pr), NEW o \in Objs, NEW t
    PROVE  Sorted([lists EXCEPT ![o] = RemoveFirst(@, t)], pr)
<1> DEFINE r == RemoveFirst(lists[o], t)
<1>1. pr \in [Tasks -> Int] /\ lists[o] \in Seq(Tasks) /\ Ordered(lists[o], pr)
  BY Constants DEF Sorted
<1>2. r \in Seq(Tasks)
  BY <1>1, RemoveFirstSeq
<1>3. Ordered(r, pr)
  BY <1>1, RemoveOrdered
<1> HIDE DEF r
<1>4. Sorted([lists EXCEPT ![o] = r], pr)
  BY <1>2, <1>3, SortedOne
<1> QED
  BY <1>4 DEF r

\* A task that enters a blocked list leaves all of them sorted.
LEMMA SortedEnter ==
    ASSUME NEW lists \in [Objs -> Seq(Tasks)], NEW pr \in [Tasks -> Pris],
           Sorted(lists, pr), NEW o \in Objs, NEW t \in Tasks
    PROVE  Sorted([lists EXCEPT ![o] = PendListAdd(@, t, pr)], pr)
<1> DEFINE r == PendListAdd(lists[o], t, pr)
<1>1. pr \in [Tasks -> Int] /\ lists[o] \in Seq(Tasks) /\ Ordered(lists[o], pr)
  BY Constants DEF Sorted
<1>2. r \in Seq(Tasks)
  BY <1>1, InsertSeq DEF PendListAdd
<1>3. Ordered(r, pr)
  BY <1>1, InsertMinOrdered DEF PendListAdd, InsertPos
<1> HIDE DEF r
<1>4. Sorted([lists EXCEPT ![o] = r], pr)
  BY <1>2, <1>3, SortedOne
<1> QED
  BY <1>4 DEF r

\* A task whose priority changes is moved in the list it is on.
LEMMA OrderedMove ==
    ASSUME NEW s \in Seq(Tasks), IsInjective(s), NEW t \in Tasks,
           NEW pr \in [Tasks -> Pris], Ordered(s, pr),
           NEW pr2 \in [Tasks -> Pris], \A x \in Tasks : x # t => pr2[x] = pr[x]
    PROVE  /\ PendListReorder(s, t, pr2) \in Seq(Tasks)
           /\ Ordered(PendListReorder(s, t, pr2), pr2)
<1> DEFINE u == RemoveFirst(s, t)
           r == PendListAdd(u, t, pr2)
<1>1. pr \in [Tasks -> Int] /\ pr2 \in [Tasks -> Int]
  BY Constants
<1>2. u \in Seq(Tasks) /\ ToSet(u) = ToSet(s) \ {t}
  BY RemoveFirstSeq
<1>3. Ordered(u, pr)
  BY <1>1, RemoveOrdered
<1> HIDE DEF u
<1>4. \A e \in ToSet(u) : pr2[e] = pr[e]
  BY <1>2, MemberAt
<1>5. Ordered(u, pr2)
  BY <1>2, <1>3, <1>4, OrderedSame
<1>6. r \in Seq(Tasks)
  BY <1>2, InsertSeq DEF PendListAdd
<1>7. Ordered(r, pr2)
  BY <1>1, <1>2, <1>5, InsertMinOrdered DEF PendListAdd, InsertPos
<1> QED
  BY <1>6, <1>7 DEF u, PendListReorder

\* The priority of a task that waits for nothing matters to no list.
LEMMA SortedElse ==
    ASSUME NEW lists, NEW st, NEW bo, BlkExact(lists, st, bo), NEW pr, Sorted(lists, pr),
           NEW t \in Tasks, st[t] \notin Pending,
           NEW pr2, \A x \in Tasks : x # t => pr2[x] = pr[x]
    PROVE  Sorted(lists, pr2)
<1> SUFFICES ASSUME NEW o \in Objs PROVE Ordered(lists[o], pr2)
  BY DEF Sorted
<1>1. lists[o] \in Seq(Tasks) /\ Ordered(lists[o], pr)
  BY DEF BlkExact, Sorted
<1>2. \A e \in ToSet(lists[o]) : pr2[e] = pr[e]
  BY <1>1, MemberAt DEF BlkExact
<1> QED
  BY <1>1, <1>2, OrderedSame

\* Every kind of step keeps the blocked lists sorted.
LEMMA KindSorted ==
    ASSUME IInv, Kind, Sorted(blk_list, prio)
    PROVE  Sorted(blk_list', prio')
<1>1. /\ BlkExact(blk_list, task_state, blk_obj) /\ blk_list \in [Objs -> Seq(Tasks)]
      /\ prio \in [Tasks -> Pris] /\ blk_obj \in [Tasks -> Objs \cup {NULL}]
      /\ \A t \in Tasks : task_state[t] \in Pending => blk_obj[t] \in Objs
  BY DEF IInv, FieldsOK, BlkExact, PendSound
<1>2. CASE WaitKept \/ WaitTicks
  BY <1>2 DEF WaitKept, WaitTicks, waitVars, Sorted
<1>3. ASSUME NEW t \in Tasks, WaitEnds(t) PROVE Sorted(blk_list', prio')
  <2>1. /\ blk_list' = IF blk_obj[t] = NULL THEN blk_list
                       ELSE [blk_list EXCEPT ![blk_obj[t]] = RemoveFirst(@, t)]
        /\ prio' = prio
    BY <1>3 DEF WaitEnds, LeaveWait
  <2>2. CASE blk_obj[t] = NULL
    BY <2>1, <2>2
  <2>3. CASE blk_obj[t] # NULL
    <3>1. blk_obj[t] \in Objs
      BY <1>1, <2>3
    <3>2. Sorted([blk_list EXCEPT ![blk_obj[t]] = RemoveFirst(@, t)], prio)
      BY <1>1, <3>1, SortedLeave
    <3> QED
      BY <2>1, <2>3, <3>2
  <2> QED
    BY <2>2, <2>3
<1>4. ASSUME NEW t \in Tasks, WaitDeleted(t) PROVE Sorted(blk_list', prio')
  <2>1. CASE task_state[t] \in Pending
    <3>1. Sorted([blk_list EXCEPT ![blk_obj[t]] = RemoveFirst(@, t)], prio)
      BY <1>1, <2>1, SortedLeave
    <3> QED
      BY <1>4, <2>1, <3>1 DEF WaitDeleted
  <2>2. CASE task_state[t] \notin Pending
    BY <1>4, <2>2 DEF WaitDeleted
  <2> QED
    BY <2>1, <2>2
<1>5. ASSUME NEW o \in Objs \cup {NULL}, NEW ticks \in Waits, WaitBegins(o, ticks)
      PROVE  Sorted(blk_list', prio')
  <2>1. CASE o = NULL
    BY <1>5, <2>1 DEF WaitBegins
  <2>2. CASE o # NULL
    <3>1. active \in Tasks
      BY <1>5 DEF WaitBegins, AppTasks
    <3>2. Sorted([blk_list EXCEPT ![o] = PendListAdd(@, active, prio)], prio)
      BY <1>1, <2>2, <3>1, SortedEnter
    <3> QED
      BY <1>5, <2>2, <3>2 DEF WaitBegins
  <2> QED
    BY <2>1, <2>2
<1>6. ASSUME NEW t \in Tasks, NEW p \in Pris, WaitPri(t, p) PROVE Sorted(blk_list', prio')
  <2>1. prio' \in [Tasks -> Pris] /\ \A x \in Tasks : x # t => prio'[x] = prio[x]
    BY <1>1, <1>6 DEF WaitPri
  <2>2. CASE task_state[t] \in Pending
    <3>1. PICK pr \in [Tasks -> Pris] : pr = prio'
      BY <2>1
    <3>2. PICK o \in Objs : o = blk_obj[t]
      BY <1>1, <2>2
    <3> DEFINE r == PendListReorder(blk_list[o], t, pr)
    <3>3. /\ blk_list[o] \in Seq(Tasks) /\ IsInjective(blk_list[o])
          /\ Ordered(blk_list[o], prio)
          /\ \A x \in Objs : x # o => t \notin ToSet(blk_list[x])
      BY <1>1, <3>2 DEF BlkExact, Sorted
    <3>4. \A x \in Tasks : x # t => pr[x] = prio[x]
      BY <2>1, <3>1
    <3>5. r \in Seq(Tasks) /\ Ordered(r, pr)
      BY <1>1, <3>3, <3>4, OrderedMove
    <3> HIDE DEF r
    <3>6. \A x \in Objs, e \in Tasks :
             x # o /\ e \in ToSet(blk_list[x]) => pr[e] = prio[e]
      BY <3>3, <3>4
    <3>7. Sorted([blk_list EXCEPT ![o] = r], pr)
      BY <1>1, <3>5, <3>6, SortedOne, ZenonT(60)
    <3> QED
      BY <1>6, <2>2, <3>1, <3>2, <3>7 DEF WaitPri, r
  <2>3. CASE task_state[t] \notin Pending
    <3>1. Sorted(blk_list, prio')
      BY <1>1, <2>1, <2>3, SortedElse
    <3> QED
      BY <1>6, <2>3, <3>1 DEF WaitPri
  <2> QED
    BY <2>2, <2>3
<1>7. ASSUME NEW t \in Tasks, NEW p \in Pris, WaitCreated(t, p)
      PROVE  Sorted(blk_list', prio')
  <2>1. task_state[t] \notin Pending /\ \A x \in Tasks : x # t => prio'[x] = prio[x]
    BY <1>1, <1>7 DEF WaitCreated, Timed
  <2>2. Sorted(blk_list, prio')
    BY <1>1, <2>1, SortedElse
  <2> QED
    BY <1>7, <2>2 DEF WaitCreated
<1> QED
  BY <1>2, <1>3, <1>4, <1>5, <1>6, <1>7 DEF Kind, CoreKind, Objs
-----------------------------------------------------------------------------
(* The tick list.                                                           *)

\* The tick list s fits the states st of the tasks and is sorted by the ticks
\* that remain.
TickExact(s, st, remain) ==
    /\ IsInjective(s)
    /\ \A t \in ToSet(s) : st[t] \in Timed
    /\ \A t \in Tasks : st[t] \in Sleeping => t \in ToSet(s)
    /\ Ordered(s, remain)

\* Nothing on it is due.
Ahead(s, remain) == \A t \in ToSet(s) : remain[t] > 0

\* A task that stops waiting leaves the list.
LEMMA TickLeave ==
    ASSUME IInv, TickExact(tick_list, task_state, tick_remain), NEW t \in Tasks,
           task_state'[t] \notin Timed,
           \A x \in Tasks : x # t => task_state'[x] = task_state[x],
           tick_list' = RemoveFirst(tick_list, t),
           tick_remain' = [tick_remain EXCEPT ![t] = 0]
    PROVE  /\ TickExact(tick_list', task_state', tick_remain')
           /\ Ahead(tick_list, tick_remain) => Ahead(tick_list', tick_remain')
<1>1. tick_list \in Seq(Tasks) /\ tick_remain \in [Tasks -> Int]
  BY DEF IInv, FieldsOK
<1>2. IsInjective(tick_list) /\ Ordered(tick_list, tick_remain)
  BY DEF TickExact
<1>3. /\ tick_list' \in Seq(Tasks) /\ IsInjective(tick_list')
      /\ ToSet(tick_list') = ToSet(tick_list) \ {t}
  BY <1>1, <1>2, RemoveFirstSeq
<1>4. Ordered(tick_list', tick_remain)
  BY <1>1, <1>2, RemoveOrdered
<1>5. ToSet(tick_list) \subseteq Tasks
  BY <1>1, MemberAt
<1>6. \A e \in ToSet(tick_list') : tick_remain'[e] = tick_remain[e]
  BY <1>1, <1>3, <1>5
<1>7. Ordered(tick_list', tick_remain')
  BY <1>3, <1>4, <1>6, OrderedSame
<1>8. TickExact(tick_list', task_state', tick_remain')
  BY <1>3, <1>5, <1>7 DEF TickExact, Timed
<1> QED
  BY <1>3, <1>6, <1>8 DEF Ahead

\* A task that begins to wait with a timeout enters it at its place.
LEMMA TickEnterList ==
    ASSUME IInv, TickExact(tick_list, task_state, tick_remain),
           NEW o \in Objs \cup {NULL}, NEW ticks \in Waits, WaitBegins(o, ticks)
    PROVE  /\ TickExact(tick_list', task_state', tick_remain')
           /\ Ahead(tick_list, tick_remain) => Ahead(tick_list', tick_remain')
<1>1. /\ tick_list \in Seq(Tasks) /\ tick_remain \in [Tasks -> Int]
      /\ active \in Tasks /\ ToSet(tick_list) \subseteq Tasks
  BY MemberAt DEF IInv, FieldsOK
<1>2. IsInjective(tick_list) /\ Ordered(tick_list, tick_remain)
  BY DEF TickExact
<1>3. /\ task_state[active] \notin Timed /\ task_state'[active] \in Timed
      /\ \A x \in Tasks : x # active => task_state'[x] = task_state[x]
      /\ task_state'[active] \in Sleeping => ticks # FOREVER
  BY DEF WaitBegins, Timed, Sleeping, Pending
<1>4. active \notin ToSet(tick_list)
  BY <1>3 DEF TickExact
<1>5. ticks = FOREVER \/ ticks \in Nat \ {0}
  BY KernelAssumption
<1>6. /\ tick_remain' = [tick_remain EXCEPT ![active] = IF ticks = FOREVER THEN 0 ELSE ticks]
      /\ tick_list' = IF ticks = FOREVER THEN tick_list
                      ELSE TickListPriInsert(tick_list, active, tick_remain')
  BY DEF WaitBegins, TickListInsert
<1>7. /\ tick_remain' \in [Tasks -> Int]
      /\ \A e \in ToSet(tick_list) : tick_remain'[e] = tick_remain[e]
      /\ ticks # FOREVER => tick_remain'[active] > 0
  BY <1>1, <1>4, <1>5, <1>6
<1>8. Ordered(tick_list, tick_remain')
  BY <1>1, <1>2, <1>7, OrderedSame
<1>9. CASE ticks = FOREVER
  <2>1. tick_list' = tick_list
    BY <1>6, <1>9
  <2>2. TickExact(tick_list', task_state', tick_remain')
    BY <1>1, <1>2, <1>3, <1>8, <1>9, <2>1 DEF TickExact
  <2> QED
    BY <1>7, <2>1, <2>2 DEF Ahead
<1>10. CASE ticks # FOREVER
  <2>1. PICK remain \in [Tasks -> Int] : remain = tick_remain'
    BY <1>7
  <2> DEFINE r == TickListPriInsert(tick_list, active, remain)
  <2>2. /\ r \in Seq(Tasks) /\ ToSet(r) = ToSet(tick_list) \cup {active} /\ IsInjective(r)
    BY <1>1, <1>2, <1>4, InsertSeq DEF TickListPriInsert
  <2>3. Ordered(tick_list, remain)
    BY <1>8, <2>1
  <2>4. Ordered(r, remain)
    BY <1>1, <2>3, InsertMinOrdered DEF TickListPriInsert, InsertPos
  <2>5. tick_list' = r
    BY <1>6, <1>10, <2>1
  <2> HIDE DEF r
  <2>6. TickExact(tick_list', task_state', tick_remain')
    BY <1>1, <1>3, <2>1, <2>2, <2>4, <2>5 DEF TickExact, Timed
  <2> QED
    BY <1>7, <1>10, <2>2, <2>5, <2>6 DEF Ahead
<1> QED
  BY <1>9, <1>10

\* A tick brings all the expiries nearer alike.
LEMMA TickAll ==
    ASSUME IInv, TickExact(tick_list, task_state, tick_remain), WaitTicks
    PROVE  TickExact(tick_list', task_state', tick_remain')
<1>1. tick_list \in Seq(Tasks) /\ tick_remain \in [Tasks -> Int]
  BY DEF IInv, FieldsOK
<1>2. \A i \in 1..Len(tick_list) : /\ tick_list[i] \in ToSet(tick_list)
                                   /\ tick_list[i] \in Tasks
  BY <1>1, MemberAt
<1>3. /\ tick_list' = tick_list /\ task_state' = task_state
      /\ \A x \in Tasks : x \in ToSet(tick_list) => tick_remain'[x] = tick_remain[x] - 1
  BY DEF WaitTicks
<1>4. ASSUME NEW i \in 1..Len(tick_list), NEW j \in 1..Len(tick_list), i < j
      PROVE  tick_remain'[tick_list[i]] <= tick_remain'[tick_list[j]]
  <2>1. PICK a \in Tasks, b \in Tasks : a = tick_list[i] /\ b = tick_list[j]
    BY <1>2
  <2>2. tick_remain[a] <= tick_remain[b] /\ tick_remain[a] \in Int /\ tick_remain[b] \in Int
    BY <1>1, <1>4, <2>1 DEF TickExact, Ordered
  <2>3. tick_remain'[a] = tick_remain[a] - 1 /\ tick_remain'[b] = tick_remain[b] - 1
    BY <1>2, <1>3, <2>1
  <2> QED
    BY <2>1, <2>2, <2>3
<1>5. Ordered(tick_list', tick_remain')
  BY <1>3, <1>4 DEF Ordered
<1> QED
  BY <1>3, <1>5 DEF TickExact

\* Every kind of step keeps the tick list exact, and only a tick brings an
\* expiry nearer.
LEMMA KindTick ==
    ASSUME IInv, Kind, TickExact(tick_list, task_state, tick_remain)
    PROVE  /\ TickExact(tick_list', task_state', tick_remain')
           /\ Ahead(tick_list, tick_remain)
              => Ahead(tick_list', tick_remain') \/ WaitTicks
<1>1. CASE WaitKept
  <2>1. \A t \in ToSet(tick_list) : t \in Tasks
    BY MemberAt DEF IInv, FieldsOK
  <2> QED
    BY <1>1, <2>1 DEF WaitKept, waitVars, TickExact, Ahead, Timed
<1>2. ASSUME NEW t \in Tasks, WaitEnds(t) \/ WaitDeleted(t)
      PROVE  /\ TickExact(tick_list', task_state', tick_remain')
             /\ Ahead(tick_list, tick_remain) => Ahead(tick_list', tick_remain')
  <2>1. /\ task_state'[t] \notin Timed
        /\ \A x \in Tasks : x # t => task_state'[x] = task_state[x]
        /\ tick_list' = RemoveFirst(tick_list, t)
        /\ tick_remain' = [tick_remain EXCEPT ![t] = 0]
    BY <1>2 DEF WaitEnds, WaitDeleted, LeaveWait
  <2> QED
    BY <2>1, TickLeave
<1>3. ASSUME NEW o \in Objs \cup {NULL}, NEW ticks \in Waits, WaitBegins(o, ticks)
      PROVE  /\ TickExact(tick_list', task_state', tick_remain')
             /\ Ahead(tick_list, tick_remain) => Ahead(tick_list', tick_remain')
  BY <1>3, TickEnterList
<1>4. ASSUME NEW t \in Tasks, NEW p \in Pris, WaitPri(t, p)
      PROVE  /\ TickExact(tick_list', task_state', tick_remain')
             /\ Ahead(tick_list, tick_remain) => Ahead(tick_list', tick_remain')
  BY <1>4 DEF WaitPri, TickExact, Ahead
<1>5. ASSUME NEW t \in Tasks, NEW p \in Pris, WaitCreated(t, p)
      PROVE  /\ TickExact(tick_list', task_state', tick_remain')
             /\ Ahead(tick_list, tick_remain) => Ahead(tick_list', tick_remain')
  <2>1. \A x \in ToSet(tick_list) : x \in Tasks
    BY MemberAt DEF IInv, FieldsOK
  <2> QED
    BY <1>5, <2>1 DEF WaitCreated, TickExact, Ahead, Timed
<1>6. CASE WaitTicks
  BY <1>6, TickAll
<1> QED
  BY <1>1, <1>2, <1>3, <1>4, <1>5, <1>6 DEF Kind, CoreKind, Objs

\* The rounds of tick_list_update are not over.
Ticking(td) == \E it \in ToSet(td) : it.op = "tick"

\* A section in progress is not interrupted.
LEMMA OnlyContinue == ASSUME todo # <<>>, Next PROVE Continue
<1>1. CASE MutexCall
  BY <1>1 DEF MutexCall, MutexCreate, MutexLockNested, MutexLockFree, MutexLockBusy,
     MutexUnlockNested, MutexUnlock, MutexDel, Calling, InTask
<1>2. CASE TaskCall
  BY <1>2 DEF TaskCall, TaskYield, TaskSleep, TaskPriChangeCall, TaskCreate, TaskSuspend,
     TaskResume, TaskPriChangeCheck, TaskWaitAbort, TaskCancel, TaskDel, TaskTimeSliceSet,
     SchedPolicySet, Calling, InTask, InIsr
<1>3. CASE \/ CoreSched \/ PendStateEndProc \/ PendSV \/ IdleLoop \/ IntrptEnter
           \/ TickEnter \/ IntrptExit \/ TimeSliceUpdate \/ SchedDisable \/ SchedEnable
           \/ TickProc
  BY <1>3 DEF CoreSched, PendStateEndProc, PendSV, IdleLoop, IntrptEnter, TickEnter,
     IntrptExit, TimeSliceUpdate, SchedDisable, SchedEnable, TickProc, Calling, InTask,
     InTickIsr
<1> QED
  BY <1>1, <1>2, <1>3 DEF Next

\* Work that is put before the rest of a section takes nothing from it.
LEMMA PushKeeps ==
    ASSUME NEW S, NEW td \in Seq(S), NEW r, r = <<>> \/ \E x : r = <<x>>
    PROVE  ToSet(td) \subseteq ToSet(r \o td)
<1>1. CASE r = <<>>
  <2>1. r \o td = td
    BY <1>1
  <2> QED
    BY <2>1
<1>2. ASSUME NEW x, r = <<x>> PROVE ToSet(td) \subseteq ToSet(r \o td)
  <2>1. td \in Seq(S \cup {x})
    OBVIOUS
  <2>2. ToSet(<<x>> \o td) = ToSet(td) \cup {x}
    BY <2>1, ConsSet
  <2> QED
    BY <1>2, <2>2
<1> QED
  BY <1>1, <1>2

\* The items of a section are its first one and those behind it.
LEMMA HeadOrTail ==
    ASSUME NEW td \in Seq(Items), td # <<>>
    PROVE  \A x \in ToSet(td) : x = Head(td) \/ x \in ToSet(Tail(td))
<1> SUFFICES ASSUME NEW x \in ToSet(td), x # Head(td) PROVE x \in ToSet(Tail(td))
  OBVIOUS
<1>1. PICK i \in 1..Len(td) : td[i] = x
  BY MemberAt
<1> DEFINE r == Tail(td)
           j == i - 1
<1>2. i # 1 /\ j \in 1..Len(r) /\ r[j] = td[j + 1] /\ j + 1 = i
  BY <1>1, TailSeq
<1>3. r \in Seq(Items)
  BY TailSeq
<1>4. r[j] = x
  BY <1>1, <1>2
<1>5. r[j] \in ToSet(r)
  <2> HIDE DEF r, j
  <2> QED
    BY <1>2, <1>3, MemberAt
<1> QED
  BY <1>4, <1>5

\* The loop over the tick list ends when the first entry is not due, and then
\* none is.
LEMMA TickLoop ==
    ASSUME IInv, TickExact(tick_list, task_state, tick_remain), Continue,
           Ticking(todo), ~Ticking(todo')
    PROVE  Ahead(tick_list, tick_remain)
<1>1. todo # <<>> /\ todo \in Seq(Items) /\ WorkList(todo)
  <2>1. ToSet(<<>>) = {}
    BY DEF ToSet
  <2> QED
    BY <2>1 DEF Ticking, IInv, TodoSound
<1>2. PICK it \in ToSet(todo) : it.op = "tick"
  BY DEF Ticking
<1>3. it = Head(todo) \/ it \in ToSet(Tail(todo))
  BY <1>1, HeadOrTail
<1>4. Tail(todo) \in Seq(Items)
  BY <1>1, TailSeq
<1>5. ToSet(<<>>) = {}
  BY DEF ToSet
<1>6. it \in ToSet(Tail(todo)) => Head(todo).op = "pri_change"
  <2>1. ASSUME Head(todo).op = "mutex_free" PROVE it \notin ToSet(Tail(todo))
    <3>1. Tail(todo) = <<todo[2]>> /\ todo[2].op = "del_end"
      BY <1>1, <2>1, WorkHead
    <3>2. ToSet(<<todo[2]>>) = {todo[2]}
      BY DEF ToSet
    <3> QED
      BY <1>2, <3>1, <3>2
  <2>2. Head(todo).op \notin {"pri_change", "mutex_free"} => Tail(todo) = <<>>
    BY <1>1, WorkHead
  <2> QED
    BY <1>5, <2>1, <2>2
<1>7. ASSUME Doing("pri_change"), TaskPriChange PROVE FALSE
  <2>1. it \in ToSet(Tail(todo))
    BY <1>2, <1>3, <1>7 DEF Doing
  <2>2. PICK r : /\ todo' = Tail(todo) \/ todo' = r \o Tail(todo)
                 /\ r = <<>> \/ \E x : r = <<x>>
    BY <1>7, Zenon DEF TaskPriChange
  <2>3. it \in ToSet(todo')
    BY <1>4, <2>1, <2>2, PushKeeps
  <2> QED
    BY <1>2, <2>3 DEF Ticking
<1>8. TickExpire
  BY <1>2, <1>3, <1>6, <1>7 DEF Continue, Doing, TaskPriChange, MutexLockPend, MutexHandOver,
     DelWaiters, TaskMutexFree, TaskDelEnd, CancelCoreSched
<1> DEFINE t == Head(tick_list)
           due == tick_list # <<>> /\ tick_remain[t] <= 0
<1>9. CASE due
  <2>1. PICK r : /\ todo' = todo \/ todo' = r \o todo
                 /\ r = <<>> \/ \E x : r = <<x>>
    BY <1>8, <1>9, Zenon DEF TickExpire, MutexTaskPriReset, MutexRelease
  <2>2. it \in ToSet(todo')
    BY <1>1, <2>1, PushKeeps
  <2> QED
    BY <1>2, <2>2 DEF Ticking
<1>10. CASE ~due
  <2>1. tick_list \in Seq(Tasks) /\ tick_remain \in [Tasks -> Int]
    BY DEF IInv, FieldsOK
  <2>2. ASSUME NEW x \in ToSet(tick_list) PROVE tick_remain[x] > 0
    <3>1. PICK i \in 1..Len(tick_list) : tick_list[i] = x
      BY <2>1, MemberAt
    <3>2. tick_list # <<>>
      BY <2>1, <3>1
    <3>3. /\ 1 \in 1..Len(tick_list) /\ t = tick_list[1] /\ t \in Tasks
          /\ x \in Tasks
      BY <2>1, <3>1, <3>2, TailSeq
    <3>4. i = 1 \/ tick_remain[tick_list[1]] <= tick_remain[tick_list[i]]
      BY <3>1, <3>3 DEF TickExact, Ordered
    <3>5. tick_remain[t] > 0 /\ tick_remain[t] \in Int /\ tick_remain[x] \in Int
      BY <1>10, <2>1, <3>2, <3>3
    <3> QED
      BY <3>1, <3>3, <3>4, <3>5
  <2> QED
    BY <2>2 DEF Ahead
<1> QED
  BY <1>9, <1>10
-----------------------------------------------------------------------------
(* The theorems.                                                            *)

\* The invariant about waiting, on top of IInv.
WaitIInv ==
    /\ IInv
    /\ Sorted(blk_list, prio)
    /\ TickExact(tick_list, task_state, tick_remain)
    /\ Ticking(todo) \/ Ahead(tick_list, tick_remain)

\* It holds at first: nobody waits.
LEMMA WaitInit == Init => WaitIInv
<1> SUFFICES ASSUME Init PROVE WaitIInv
  OBVIOUS
<1>1. IInv
  BY InitInv
<1>2. Sorted(blk_list, prio)
  BY DEF Init, Sorted, Ordered
<1>3. /\ tick_list = <<>> /\ ToSet(<<>>) = {} /\ IsInjective(<<>>)
      /\ Ordered(<<>>, tick_remain)
  BY DEF Init, ToSet, IsInjective, Ordered
<1>4. \A t \in Tasks : task_state[t] \notin Sleeping
  BY DEF Init, Sleeping
<1> QED
  BY <1>1, <1>2, <1>3, <1>4 DEF WaitIInv, TickExact, Ahead

\* A step that is of one of the kinds and whose section goes on as those of the
\* kernel core do keeps it.
LEMMA WaitStep ==
    ASSUME WaitIInv, IInv', Kind,
           Ticking(todo) => Ticking(todo') \/ Ahead(tick_list, tick_remain)
    PROVE  WaitIInv'
<1>1. /\ IInv /\ Sorted(blk_list, prio) /\ TickExact(tick_list, task_state, tick_remain)
      /\ Ticking(todo) \/ Ahead(tick_list, tick_remain)
  BY DEF WaitIInv
<1>2. Sorted(blk_list', prio')
  BY <1>1, KindSorted
<1>3. /\ TickExact(tick_list', task_state', tick_remain')
      /\ Ahead(tick_list, tick_remain) => Ahead(tick_list', tick_remain') \/ WaitTicks
  BY <1>1, KindTick
<1>4. WaitTicks => Ticking(todo')
  <2> DEFINE it == Item("tick", NULL, NULL, 0)
  <2>1. it \in ToSet(<<it>>) /\ it.op = "tick"
    BY DEF ToSet, Item
  <2> QED
    BY <2>1 DEF WaitTicks, Ticking
<1>5. Ticking(todo') \/ Ahead(tick_list', tick_remain')
  BY <1>1, <1>3, <1>4
<1> QED
  BY <1>2, <1>3, <1>5 DEF WaitIInv

\* The steps of the kernel core do.
LEMMA WaitNext ==
    ASSUME "task_suspend" \notin IsrCalls, WaitIInv, [Next]_vars PROVE WaitIInv'
<1>1. IInv /\ TickExact(tick_list, task_state, tick_remain)
  BY DEF WaitIInv
<1>2. IInv' /\ Kind
  BY <1>1, NextInv, NextKind DEF Kind
<1>3. ASSUME Ticking(todo), ~Ticking(todo') PROVE Ahead(tick_list, tick_remain)
  <2>1. todo # <<>>
    BY <1>3 DEF Ticking, ToSet
  <2>2. todo' # todo
    BY <1>3
  <2>3. Continue
    BY <2>1, <2>2, OnlyContinue DEF vars, ctlVars
  <2> QED
    BY <1>1, <1>3, <2>3, TickLoop
<1> QED
  BY <1>2, <1>3, WaitStep

\* What the invariant says of the lists.
LEMMA WaitConsequences == WaitIInv => PendListExact /\ TickListExact
<1> SUFFICES ASSUME WaitIInv PROVE PendListExact /\ TickListExact
  OBVIOUS
<1>1. /\ blk_list \in [Objs -> Seq(Tasks)] /\ BlkExact(blk_list, task_state, blk_obj)
      /\ tick_list \in Seq(Tasks)
  BY DEF WaitIInv, IInv, FieldsOK, BlkExact
<1>2. PendListExact
  <2> SUFFICES ASSUME NEW o \in Objs
               PROVE  /\ IsInjective(blk_list[o])
                      /\ \A t \in Tasks : t \in ToSet(blk_list[o])
                                           <=> task_state[t] \in Pending /\ blk_obj[t] = o
                      /\ \A i, j \in DOMAIN blk_list[o] :
                            i < j => prio[blk_list[o][i]] <= prio[blk_list[o][j]]
    BY DEF PendListExact
  <2>1. DOMAIN blk_list[o] = 1..Len(blk_list[o])
    BY <1>1
  <2> QED
    BY <1>1, <2>1 DEF BlkExact, WaitIInv, Sorted, Ordered
<1>3. TickListExact
  <2>1. DOMAIN tick_list = 1..Len(tick_list)
    BY <1>1
  <2>2. todo = <<>> => ~Ticking(todo)
    BY DEF Ticking, ToSet
  <2>3. \A t \in ToSet(tick_list) : task_state[t] \in Sleeping \cup Pending
    BY DEF WaitIInv, TickExact, Timed
  <2> QED
    BY <2>1, <2>2, <2>3 DEF WaitIInv, TickExact, Ahead, Ordered, TickListExact
<1> QED
  BY <1>2, <1>3

\* The invariant about waiting holds in every state.
THEOREM WaitInductive ==
    ASSUME "task_suspend" \notin IsrCalls PROVE Spec => []WaitIInv
<1>1. Init => WaitIInv
  BY WaitInit
<1>2. WaitIInv /\ [Next]_vars => WaitIInv'
  BY WaitNext
<1> QED
  BY <1>1, <1>2, PTL DEF Spec

\* pend_list_add, pend_list_reorder and pend_list_rm are called so that every
\* blocked list holds exactly the tasks that pend on its object, sorted by the
\* priorities they have now, in the middle of a chain of inherited priority
\* changes too: the task that is woken first is the right one.
THEOREM PendListCorrect ==
    ASSUME "task_suspend" \notin IsrCalls PROVE Spec => []PendListExact
<1>1. WaitIInv => PendListExact
  BY WaitConsequences
<1> QED
  BY <1>1, WaitInductive, PTL

\* No timeout is lost: every sleeping task is on g_tick_head, only tasks that
\* wait are, the list is sorted by expiry although tick_list_update stops at
\* the first entry that is not due, and nothing on it is overdue.
THEOREM TickListCorrect ==
    ASSUME "task_suspend" \notin IsrCalls PROVE Spec => []TickListExact
<1>1. WaitIInv => TickListExact
  BY WaitConsequences
<1> QED
  BY <1>1, WaitInductive, PTL

\* What every kind of step does to the answer of a wait that has ended.
LEMMA KindAnswer ==
    ASSUME IInv, Kind, NEW t \in Tasks, pc[t] \in {"blk", "end"}, pc'[t] \in {"blk", "end"},
           task_state[t] \notin Timed
    PROVE  blk_state'[t] = blk_state[t] /\ task_state'[t] \notin Timed
<1>1. blk_state \in [Tasks -> Reasons]
  BY DEF IInv, FieldsOK, Reasons
<1>2. CASE WaitKept \/ WaitTicks
  BY <1>2 DEF WaitKept, WaitTicks, waitVars, Timed
<1>3. ASSUME NEW x \in Tasks, WaitEnds(x)
      PROVE  blk_state'[t] = blk_state[t] /\ task_state'[t] \notin Timed
  <2>1. x # t
    BY <1>3 DEF WaitEnds
  <2> QED
    BY <1>1, <1>3, <2>1 DEF WaitEnds, LeaveWait
<1>4. ASSUME NEW x \in Tasks, WaitDeleted(x)
      PROVE  blk_state'[t] = blk_state[t] /\ task_state'[t] \notin Timed
  BY <1>4 DEF WaitDeleted
<1>5. ASSUME NEW o \in Objs \cup {NULL}, NEW ticks \in Waits, WaitBegins(o, ticks)
      PROVE  blk_state'[t] = blk_state[t] /\ task_state'[t] \notin Timed
  BY <1>5 DEF WaitBegins
<1>6. ASSUME NEW x \in Tasks, NEW p \in Pris, WaitPri(x, p)
      PROVE  blk_state'[t] = blk_state[t] /\ task_state'[t] \notin Timed
  BY <1>6 DEF WaitPri
<1>7. ASSUME NEW x \in Tasks, NEW p \in Pris, WaitCreated(x, p)
      PROVE  blk_state'[t] = blk_state[t] /\ task_state'[t] \notin Timed
  BY <1>1, <1>7 DEF WaitCreated
<1> QED
  BY <1>2, <1>3, <1>4, <1>5, <1>6, <1>7 DEF Kind, CoreKind, Objs

\* A wait is ended once: from the moment the waker, the tick or the aborter has
\* told a task how its wait ended until the task has returned from its call,
\* no later step gives another answer or makes the task wait again.
THEOREM OneAnswerCorrect ==
    ASSUME "task_suspend" \notin IsrCalls PROVE Spec => OneAnswerPerWait
<1>1. ASSUME IInv, [Next]_vars
      PROVE  \A t \in Tasks :
               (/\ pc[t] \in {"blk", "end"} /\ pc'[t] \in {"blk", "end"}
                /\ task_state[t] \notin Pending \cup Sleeping)
               => /\ blk_state'[t] = blk_state[t]
                  /\ task_state'[t] \notin Pending \cup Sleeping
  BY <1>1, NextKind, KindAnswer DEF Timed, Kind
<1> QED
  BY <1>1, Inductive, PTL DEF Spec, OneAnswerPerWait
=============================================================================

--------------------------- MODULE RhinoWorkProofs ---------------------------
(***************************************************************************)
(* The software timers and the work queue keep their lists, their tokens   *)
(* and the promise of krhino_work_cancel, for any number of timers, works, *)
(* commands in the queue and callers between their section and their give. *)
(***************************************************************************)
EXTENDS RhinoWork, RhinoListsProofs

\* What a command may carry as an argument, and the commands there are: those
\* of the application and those that the calls for the works give.
Args == {NULL, Wq} \cup {c.u : c \in Cmds}

\* The commands of the application, and those for works.
Commands ==
    Cmds \cup {Cmd(n, t, 0, u) :
                  n \in {"TIMER_CMD_START", "TIMER_CMD_STOP", "TIMER_ARG_CHG_AUTO"},
                  t \in Timers, u \in {NULL, Wq}}

\* What is known of a timer.
TimerRecords ==
    [alive : BOOLEAN, active : BOOLEAN, first : 1..MaxTicks, round : 0..MaxTicks,
     arg : Args, due : Int]

\* The timers with their list.
States == [timer : [Timers -> TimerRecords], list : Seq(Timers)]

\* The timers and their list agree.
SoundTimers(st) ==
    /\ st \in States
    /\ IsInjective(st.list)
    /\ \A t \in Timers : t \in ToSet(st.list) <=> st.timer[t].active
    /\ \A t \in Timers : st.timer[t].active => st.timer[t].alive

\* timer_task: the command it is about to carry out is one, and the timer at
\* which timer_cb_proc stands is in the list, before, in and after the callback.
TimerTaskSound ==
    /\ lag \in Nat
    /\ tpc \in {"recv", "wait", "got", "timeout", "cmd", "loop", "cb", "rearm", "cb_give"}
    /\ queue \in Seq(Commands)
    /\ tpc \in {"got", "cmd"} => cmd \in Commands
    /\ tpc = "cb" => q \in ToSet(timer_list) \cup {NULL}
    /\ tpc \in {"rearm", "cb_give"} => q \in ToSet(timer_list)

\* The types of the variables of the work queue.
WorkTypeOK ==
    /\ work_list \in Seq(Works) /\ work_current \in Works \cup {NULL}
    /\ sem \in Nat /\ gives \in Nat /\ wpc \in {"take", "got", "run"}
    /\ work_exit \in [Works -> {0, 1}] /\ DOMAIN wq = Works /\ cancels \subseteq Works
    /\ cancelled \in [Works -> BOOLEAN]

\* A work without delay that has no queue is neither queued nor running: what
\* krhino_work_cancel concludes from work->wq without a lock is true.
NoQueueNoWork == \A k \in Works \ Delayed : wq[k] = NULL => Idle(k)

\* The invariant of the timer task and the work queue.
WorkIInv ==
    /\ SoundTimers(Now)
    /\ TimerTaskSound
    /\ WorkTypeOK
    /\ TokensMatchWorks
    /\ QueuedOnce
    /\ NoQueueNoWork
    /\ CancelHolds
-----------------------------------------------------------------------------
(* What the operations on the list of timers return.                        *)

\* The time that remains for each timer.
DueOf(st) == [t \in Timers |-> st.timer[t].due]

\* The list is sorted and no timer in it is overdue.
InOrder(st) ==
    /\ Ordered(st.list, DueOf(st))
    /\ \A t \in ToSet(st.list) : st.timer[t].due >= 0

\* The parts of a state of the timers have their types.
LEMMA StateParts ==
    ASSUME NEW st \in States
    PROVE  /\ st.timer \in [Timers -> TimerRecords] /\ st.list \in Seq(Timers)
           /\ \A t \in ToSet(st.list) : t \in Timers
           /\ DueOf(st) \in [Timers -> Int]
           /\ st = [timer |-> st.timer, list |-> st.list]
<1>1. st.timer \in [Timers -> TimerRecords] /\ st.list \in Seq(Timers)
  BY DEF States
<1>2. \A t \in ToSet(st.list) : t \in Timers
  BY <1>1, MemberAt
<1>3. ASSUME NEW t \in Timers PROVE st.timer[t].due \in Int
  <2>1. st.timer[t] \in TimerRecords
    BY <1>1
  <2> QED
    BY <2>1 DEF TimerRecords
<1>4. st = [timer |-> st.timer, list |-> st.list]
  BY DEF States
<1> QED
  BY <1>1, <1>2, <1>3, <1>4 DEF DueOf

\* timer_state and match are set together.
LEMMA RecordSet ==
    ASSUME NEW x \in TimerRecords, NEW b \in BOOLEAN, NEW d \in Int
    PROVE  LET e == [x EXCEPT !.active = b, !.due = d]
           IN  /\ e \in TimerRecords
               /\ e.active = b /\ e.due = d /\ e.alive = x.alive
BY DEF TimerRecords

\* A timer that is not in the list is armed.
LEMMA ArmSound ==
    ASSUME NEW st, SoundTimers(st), NEW t \in Timers, NEW val \in 1..MaxTicks,
           st.timer[t].alive, ~st.timer[t].active
    PROVE  LET r == Arm(st, t, val)
           IN  /\ SoundTimers(r)
               /\ ToSet(r.list) = ToSet(st.list) \cup {t}
               /\ InOrder(st) => InOrder(r)
<1> DEFINE s == st.list
           P == {i \in 1..Len(s) : st.timer[s[i]].due > val \/ st.timer[s[i]].due < 0}
           k == Min(P \cup {Len(s) + 1})
           new == [st.timer EXCEPT ![t].active = TRUE, ![t].due = val]
           ins == InsertAt(s, k, t)
           r == Arm(st, t, val)
<1>1. /\ st \in States /\ st.timer \in [Timers -> TimerRecords] /\ s \in Seq(Timers)
      /\ DueOf(st) \in [Timers -> Int] /\ \A u \in ToSet(s) : u \in Timers
  BY StateParts DEF SoundTimers
<1>2. val \in Int /\ val >= 0
  BY TimerAssumption
<1>3. r = [timer |-> new, list |-> ins]
  BY DEF Arm, TimerListPriInsert
<1>4. P \in SUBSET (1..Len(s))
  OBVIOUS
<1> HIDE DEF P
<1>5. k \in 1..Len(s) + 1
  BY <1>1, <1>4, InsertPosFirst
<1>6. t \notin ToSet(s)
  BY DEF SoundTimers
<1> HIDE DEF k
<1>7. /\ ins \in Seq(Timers)
      /\ ToSet(ins) = ToSet(s) \cup {t}
      /\ IsInjective(ins)
  BY <1>1, <1>5, <1>6, InsertAtSeq DEF SoundTimers
<1>8. /\ new \in [Timers -> TimerRecords]
      /\ new[t].active /\ new[t].due = val /\ new[t].alive = st.timer[t].alive
      /\ \A u \in Timers : u # t => new[u] = st.timer[u]
  <2>1. [st.timer[t] EXCEPT !.active = TRUE, !.due = val] \in TimerRecords
    BY <1>1, <1>2 DEF TimerRecords
  <2>2. new = [st.timer EXCEPT ![t] = [st.timer[t] EXCEPT !.active = TRUE, !.due = val]]
    BY <1>1
  <2>3. st.timer[t] \in TimerRecords
    BY <1>1
  <2>4. /\ [st.timer[t] EXCEPT !.active = TRUE, !.due = val].active
        /\ [st.timer[t] EXCEPT !.active = TRUE, !.due = val].due = val
        /\ [st.timer[t] EXCEPT !.active = TRUE, !.due = val].alive = st.timer[t].alive
    BY <2>3 DEF TimerRecords
  <2> QED
    BY <1>1, <2>1, <2>2, <2>4
<1> HIDE DEF new, ins
<1>9. SoundTimers(r)
  <2>1. r \in States
    BY <1>3, <1>7, <1>8 DEF States
  <2>2. \A u \in Timers : u \in ToSet(ins) <=> new[u].active
    BY <1>7, <1>8 DEF SoundTimers
  <2>3. \A u \in Timers : new[u].active => new[u].alive
    BY <1>8 DEF SoundTimers
  <2> QED
    BY <1>3, <1>7, <2>1, <2>2, <2>3 DEF SoundTimers
<1>10. ASSUME InOrder(st) PROVE InOrder(r)
  <2> DEFINE key == [DueOf(st) EXCEPT ![t] = val]
             Q == {i \in 1..Len(s) : key[s[i]] > key[t]}
  <2>1. key \in [Timers -> Int] /\ key[t] = val
    BY <1>1, <1>2
  <2>2. ASSUME NEW i \in 1..Len(s)
        PROVE  s[i] \in Timers /\ s[i] # t /\ key[s[i]] = st.timer[s[i]].due
    <3>1. s[i] \in ToSet(s)
      BY <1>1, MemberAt
    <3>2. s[i] \in Timers /\ s[i] # t
      BY <1>1, <1>6, <3>1
    <3> QED
      BY <1>1, <3>2 DEF DueOf
  <2>3. Ordered(s, key)
    <3> SUFFICES ASSUME NEW i \in 1..Len(s), NEW j \in 1..Len(s), i < j
                 PROVE  key[s[i]] <= key[s[j]]
      BY DEF Ordered
    <3>1. DueOf(st)[s[i]] <= DueOf(st)[s[j]]
      BY <1>10 DEF InOrder, Ordered
    <3>2. DueOf(st)[s[i]] = st.timer[s[i]].due /\ DueOf(st)[s[j]] = st.timer[s[j]].due
      BY <2>2 DEF DueOf
    <3>3. key[s[i]] = st.timer[s[i]].due /\ key[s[j]] = st.timer[s[j]].due
      BY <2>2
    <3> QED
      BY <3>1, <3>2, <3>3
  <2>4. P = Q
    <3>1. ASSUME NEW i \in 1..Len(s) PROVE ~(st.timer[s[i]].due < 0)
      <4>1. s[i] \in ToSet(s) /\ s[i] \in Timers
        BY <1>1, <2>2, MemberAt
      <4>2. st.timer[s[i]].due >= 0
        BY <1>10, <4>1 DEF InOrder
      <4>3. st.timer[s[i]].due \in Int
        BY <1>1, <4>1 DEF TimerRecords
      <4> QED
        BY <4>2, <4>3
    <3> QED
      BY <2>1, <2>2, <3>1 DEF P
  <2>5. Ordered(InsertAt(s, Min(Q \cup {Len(s) + 1}), t), key)
    <3> HIDE DEF key
    <3> QED
      BY <1>1, <2>1, <2>3, InsertMinOrdered
  <2>6. Ordered(ins, key)
    BY <2>4, <2>5 DEF ins, k
  <2>7. key = DueOf(r)
    <3>1. ASSUME NEW u \in Timers PROVE key[u] = DueOf(r)[u]
      <4>1. DueOf(r)[u] = new[u].due
        BY <1>3 DEF DueOf
      <4>2. DueOf(st)[u] = st.timer[u].due
        BY DEF DueOf
      <4> QED
        BY <1>1, <1>8, <4>1, <4>2
    <3>2. DueOf(r) \in [Timers -> Int]
      BY <1>9, StateParts DEF SoundTimers
    <3> HIDE DEF key
    <3> QED
      BY <2>1, <3>1, <3>2
  <2>8. \A u \in ToSet(ins) : new[u].due >= 0
    BY <1>1, <1>2, <1>7, <1>8, <1>10 DEF InOrder
  <2> QED
    BY <1>3, <2>6, <2>7, <2>8 DEF InOrder
<1> QED
  BY <1>3, <1>7, <1>9, <1>10

\* A timer of the list is disarmed.
LEMMA DisarmSound ==
    ASSUME NEW st, SoundTimers(st), NEW t \in Timers
    PROVE  LET r == Disarm(st, t)
           IN  /\ SoundTimers(r) /\ ~r.timer[t].active
               /\ r.timer[t].alive = st.timer[t].alive
               /\ ToSet(r.list) = ToSet(st.list) \ {t}
               /\ InOrder(st) => InOrder(r)
<1> DEFINE s == st.list
           new == [st.timer EXCEPT ![t].active = FALSE, ![t].due = 0]
           rm == RemoveFirst(s, t)
           r == Disarm(st, t)
<1>1. /\ st \in States /\ st.timer \in [Timers -> TimerRecords] /\ s \in Seq(Timers)
      /\ DueOf(st) \in [Timers -> Int] /\ \A u \in ToSet(s) : u \in Timers
  BY StateParts DEF SoundTimers
<1>2. r = [timer |-> new, list |-> rm]
  BY DEF Disarm
<1>3. /\ rm \in Seq(Timers) /\ IsInjective(rm)
      /\ ToSet(rm) = ToSet(s) \ {t}
  BY <1>1, RemoveFirstSeq DEF SoundTimers
<1>4. /\ new \in [Timers -> TimerRecords]
      /\ ~new[t].active /\ new[t].due = 0 /\ new[t].alive = st.timer[t].alive
      /\ \A u \in Timers : u # t => new[u] = st.timer[u]
  <2> DEFINE e == [st.timer[t] EXCEPT !.active = FALSE, !.due = 0]
  <2>1. st.timer[t] \in TimerRecords
    BY <1>1
  <2>2. /\ e \in TimerRecords /\ e.active = FALSE /\ e.due = 0
        /\ e.alive = st.timer[t].alive
    <3>1. FALSE \in BOOLEAN /\ 0 \in Int
      OBVIOUS
    <3> QED
      BY <2>1, <3>1, RecordSet, ZenonT(60)
  <2>3. new = [st.timer EXCEPT ![t] = e]
    BY <1>1
  <2> QED
    BY <1>1, <2>2, <2>3
<1> HIDE DEF new, rm
<1>5. SoundTimers(r)
  <2>1. r \in States
    BY <1>2, <1>3, <1>4 DEF States
  <2>2. \A u \in Timers : u \in ToSet(rm) <=> new[u].active
    BY <1>3, <1>4 DEF SoundTimers
  <2>3. \A u \in Timers : new[u].active => new[u].alive
    BY <1>4 DEF SoundTimers
  <2> QED
    BY <1>2, <1>3, <2>1, <2>2, <2>3 DEF SoundTimers
<1>6. ASSUME InOrder(st) PROVE InOrder(r)
  <2>1. Ordered(rm, DueOf(st))
    BY <1>1, <1>6, RemoveOrdered DEF InOrder, rm
  <2>2. \A i \in 1..Len(rm) : rm[i] \in Timers /\ DueOf(r)[rm[i]] = DueOf(st)[rm[i]]
    <3> SUFFICES ASSUME NEW i \in 1..Len(rm)
                 PROVE  rm[i] \in Timers /\ DueOf(r)[rm[i]] = DueOf(st)[rm[i]]
      OBVIOUS
    <3>1. rm[i] \in ToSet(rm) /\ rm[i] \in Timers
      BY <1>3, MemberAt
    <3>2. new[rm[i]] = st.timer[rm[i]]
      BY <1>3, <1>4, <3>1
    <3> QED
      BY <1>2, <3>1, <3>2 DEF DueOf
  <2>3. Ordered(rm, DueOf(r))
    BY <2>1, <2>2 DEF Ordered
  <2>4. \A u \in ToSet(rm) : new[u].due >= 0
    BY <1>1, <1>3, <1>4, <1>6 DEF InOrder
  <2> QED
    BY <1>2, <2>3, <2>4 DEF InOrder
<1> QED
  BY <1>2, <1>3, <1>4, <1>5, <1>6

\* A timer that is not active is changed, but not armed.
LEMMA ChangeSound ==
    ASSUME NEW st, SoundTimers(st), NEW t \in Timers, ~st.timer[t].active,
           NEW e \in TimerRecords, ~e.active
    PROVE  LET r == [st EXCEPT !.timer[t] = e]
           IN  /\ SoundTimers(r) /\ ~r.timer[t].active
               /\ r.list = st.list /\ r.timer = [st.timer EXCEPT ![t] = e]
               /\ InOrder(st) => InOrder(r)
<1> DEFINE r == [st EXCEPT !.timer[t] = e]
           new == [st.timer EXCEPT ![t] = e]
<1>1. /\ st \in States /\ st.timer \in [Timers -> TimerRecords] /\ st.list \in Seq(Timers)
      /\ DueOf(st) \in [Timers -> Int] /\ \A u \in ToSet(st.list) : u \in Timers
  BY StateParts DEF SoundTimers
<1>2. r.list = st.list /\ r.timer = new /\ r \in States
  BY <1>1 DEF States
<1>3. new[t] = e /\ \A u \in Timers : u # t => new[u] = st.timer[u]
  BY <1>1
<1> HIDE DEF r, new
<1>4. SoundTimers(r)
  BY <1>2, <1>3 DEF SoundTimers
<1>5. t \notin ToSet(st.list)
  BY DEF SoundTimers
<1>6. ASSUME InOrder(st) PROVE InOrder(r)
  <2>1. \A i \in 1..Len(st.list) :
           st.list[i] \in Timers /\ DueOf(r)[st.list[i]] = DueOf(st)[st.list[i]]
    <3> SUFFICES ASSUME NEW i \in 1..Len(st.list)
                 PROVE  /\ st.list[i] \in Timers
                        /\ DueOf(r)[st.list[i]] = DueOf(st)[st.list[i]]
      OBVIOUS
    <3>1. st.list[i] \in ToSet(st.list) /\ st.list[i] \in Timers
      BY <1>1, MemberAt
    <3>2. new[st.list[i]] = st.timer[st.list[i]]
      BY <1>3, <1>5, <3>1
    <3> QED
      BY <1>2, <3>1, <3>2 DEF DueOf
  <2>2. Ordered(r.list, DueOf(r))
    BY <1>2, <1>6, <2>1 DEF Ordered, InOrder
  <2>3. \A u \in ToSet(r.list) : r.timer[u].due >= 0
    BY <1>1, <1>2, <1>3, <1>5, <1>6 DEF InOrder
  <2> QED
    BY <2>2, <2>3 DEF InOrder
<1> QED
  BY <1>2, <1>3, <1>4, <1>6 DEF r, new

\* What cmd_proc may do.
LEMMA CmdProcCases ==
    ASSUME NEW st, NEW c, NEW num
    PROVE  LET t == c.timer
               r == CmdProc(st, c, num)
               off == st.timer[t].alive /\ ~st.timer[t].active
           IN  \/ r = Arm(st, t, st.timer[t].first) /\ off
               \/ r = Disarm(st, t)
               \/ /\ r = [st EXCEPT !.timer[t].first = c.first, !.timer[t].round = c.u]
                  /\ off /\ num = "TIMER_CMD_CHG"
               \/ r = [st EXCEPT !.timer[t].arg = c.u] /\ off
               \/ r = [st EXCEPT !.timer[t] = NoTimer] /\ off
               \/ r = st
BY DEF CmdProc

\* What the assumptions say of periods, timers and commands.
LEMMA Constants ==
    /\ MaxTicks \in Nat /\ MaxTicks >= 1 /\ 1 \in 1..MaxTicks
    /\ NULL \notin Timers /\ NULL \in Args /\ Wq \in Args
    /\ NoTimer \in TimerRecords /\ NoTimer.active = FALSE
    /\ \A p \in Periods : NewTimer(p) \in TimerRecords /\ NewTimer(p).active = FALSE
    /\ \A c \in Commands :
          /\ c.timer \in Timers /\ c.u \in Args
          /\ c.num = "TIMER_CMD_CHG" => c.first \in 1..MaxTicks /\ c.u \in 0..MaxTicks
<1>1. /\ MaxTicks \in Nat /\ MaxTicks >= 1 /\ 1 \in 1..MaxTicks
      /\ 0 \in 0..MaxTicks /\ NULL \notin Timers
  BY TimerAssumption
<1>2. NULL \in Args /\ Wq \in Args
  BY DEF Args
<1>3. ASSUME NEW x \in 1..MaxTicks, NEW y \in 0..MaxTicks, NEW b \in BOOLEAN
      PROVE  /\ [alive |-> b, active |-> FALSE, first |-> x, round |-> y,
                 arg |-> NULL, due |-> 0] \in TimerRecords
  <2>1. FALSE \in BOOLEAN /\ 0 \in Int
    OBVIOUS
  <2> QED
    BY <1>2, <2>1, Zenon DEF TimerRecords
<1>4. ASSUME NEW p \in Periods
      PROVE  NewTimer(p) \in TimerRecords /\ NewTimer(p).active = FALSE
  <2>1. p[1] \in 1..MaxTicks /\ p[2] \in 0..MaxTicks
    BY TimerAssumption
  <2>2. TRUE \in BOOLEAN
    OBVIOUS
  <2> QED
    BY <1>3, <2>1, <2>2, Zenon DEF NewTimer
<1>5. NoTimer \in TimerRecords /\ NoTimer.active = FALSE
  <2> DEFINE x == NewTimer(<<1, 0>>)
  <2>1. x \in TimerRecords /\ x.active = FALSE
    <3>1. TRUE \in BOOLEAN /\ <<1, 0>>[1] = 1 /\ <<1, 0>>[2] = 0
      OBVIOUS
    <3> QED
      BY <1>1, <1>3, <3>1, Zenon DEF NewTimer
  <2>2. ASSUME NEW b \in BOOLEAN
        PROVE  [x EXCEPT !.alive = b] \in TimerRecords /\ [x EXCEPT !.alive = b].active = x.active
    <3> HIDE DEF x
    <3> QED
      BY <2>1 DEF TimerRecords
  <2>3. FALSE \in BOOLEAN
    OBVIOUS
  <2> QED
    BY <2>1, <2>2, <2>3, Zenon DEF NoTimer
<1>6. ASSUME NEW c \in Commands
      PROVE  /\ c.timer \in Timers /\ c.u \in Args
             /\ c.num = "TIMER_CMD_CHG" => c.first \in 1..MaxTicks /\ c.u \in 0..MaxTicks
  <2>1. CASE c \in Cmds
    BY <2>1, TimerAssumption DEF Args
  <2>2. CASE c \notin Cmds
    <3>1. PICK n \in {"TIMER_CMD_START", "TIMER_CMD_STOP", "TIMER_ARG_CHG_AUTO"},
               t \in Timers, u \in {NULL, Wq} : c = Cmd(n, t, 0, u)
      BY <2>2 DEF Commands
    <3>2. c.num = n /\ c.timer = t /\ c.u = u
      BY <3>1 DEF Cmd
    <3> QED
      BY <1>2, <3>1, <3>2
  <2> QED
    BY <2>1, <2>2
<1> QED
  BY <1>1, <1>2, <1>4, <1>5, <1>6

\* cmd_proc keeps the timers and their list sound, and the order of the list
\* when no timer is overdue.
LEMMA CmdProcSound ==
    ASSUME NEW st, SoundTimers(st), NEW c \in Commands, NEW num,
           num = "TIMER_CMD_CHG" => c.num = num
    PROVE  LET r == CmdProc(st, c, num)
           IN  SoundTimers(r) /\ (InOrder(st) => InOrder(r))
<1> DEFINE t == c.timer
           x == st.timer[t]
           r == CmdProc(st, c, num)
           off == st.timer[t].alive /\ ~st.timer[t].active
<1>1. /\ t \in Timers /\ c.u \in Args
      /\ num = "TIMER_CMD_CHG" => c.first \in 1..MaxTicks /\ c.u \in 0..MaxTicks
  BY Constants
<1>2. /\ st \in States /\ st.timer \in [Timers -> TimerRecords]
      /\ st = [timer |-> st.timer, list |-> st.list]
  BY StateParts DEF SoundTimers
<1>3. x \in TimerRecords
  BY <1>1, <1>2
<1>4. CASE r = Arm(st, t, st.timer[t].first) /\ off
  <2>1. st.timer[t].first \in 1..MaxTicks
    BY <1>3 DEF TimerRecords
  <2> QED
    BY <1>1, <1>4, <2>1, ArmSound
<1>5. CASE r = Disarm(st, t)
  BY <1>1, <1>5, DisarmSound
<1>6. CASE /\ r = [st EXCEPT !.timer[t].first = c.first, !.timer[t].round = c.u]
           /\ off /\ num = "TIMER_CMD_CHG"
  <2> DEFINE e == [x EXCEPT !.first = c.first, !.round = c.u]
  <2>1. e \in TimerRecords /\ e.active = x.active
    BY <1>1, <1>3, <1>6 DEF TimerRecords
  <2>2. r = [st EXCEPT !.timer[t] = e]
    BY <1>1, <1>2, <1>6 DEF States
  <2> HIDE DEF e, r
  <2> QED
    BY <1>1, <1>6, <2>1, <2>2, ChangeSound DEF r
<1>7. CASE r = [st EXCEPT !.timer[t].arg = c.u] /\ off
  <2> DEFINE e == [x EXCEPT !.arg = c.u]
  <2>1. e \in TimerRecords /\ e.active = x.active
    BY <1>1, <1>3, <1>7 DEF TimerRecords
  <2>2. r = [st EXCEPT !.timer[t] = e]
    BY <1>1, <1>2, <1>7 DEF States
  <2>3. ~x.active /\ ~e.active
    BY <1>7, <2>1
  <2> HIDE DEF e
  <2>4. SoundTimers(r) /\ (InOrder(st) => InOrder(r))
    <3> HIDE DEF r, t
    <3> QED
      BY <1>1, <2>1, <2>2, <2>3, ChangeSound
  <2> QED
    BY <2>4
<1>8. CASE r = [st EXCEPT !.timer[t] = NoTimer] /\ off
  BY <1>1, <1>8, Constants, ChangeSound
<1>9. CASE r = st
  BY <1>9
<1> QED
  BY <1>4, <1>5, <1>6, <1>7, <1>8, <1>9, CmdProcCases

\* timer_cmd_proc, whatever the command.
LEMMA TimerCmdProcSound ==
    ASSUME NEW st, SoundTimers(st), NEW c \in Commands
    PROVE  LET r == TimerCmdProc(st, c)
           IN  SoundTimers(r) /\ (InOrder(st) => InOrder(r))
<1>1. CASE c.num # "TIMER_ARG_CHG_AUTO"
  BY <1>1, CmdProcSound DEF TimerCmdProc
<1>2. CASE c.num = "TIMER_ARG_CHG_AUTO"
  <2> DEFINE a == CmdProc(st, c, "TIMER_CMD_STOP")
             b == CmdProc(a, c, "TIMER_ARG_CHG")
             d == CmdProc(b, c, "TIMER_CMD_START")
  <2>1. TimerCmdProc(st, c) = d
    BY <1>2 DEF TimerCmdProc
  <2>2. SoundTimers(a) /\ (InOrder(st) => InOrder(a))
    BY CmdProcSound
  <2> HIDE DEF a
  <2>3. SoundTimers(b) /\ (InOrder(a) => InOrder(b))
    BY <2>2, CmdProcSound
  <2> HIDE DEF b
  <2>4. SoundTimers(d) /\ (InOrder(b) => InOrder(d))
    BY <2>3, CmdProcSound
  <2> QED
    BY <2>1, <2>2, <2>3, <2>4
<1> QED
  BY <1>1, <1>2
-----------------------------------------------------------------------------
(* The steps of timer_task and the calls, as far as the timers go.          *)

\* The timers are sound after the step, and the list is in order if it was and
\* no timer was overdue.
TimersKept ==
    /\ SoundTimers(Now)'
    /\ InOrder(Now) => Ordered(timer_list, DueOf(Now))'

\* A step that touches no timer.
LEMMA UnchangedKept ==
    ASSUME SoundTimers(Now), UNCHANGED <<timer, timer_list>>
    PROVE  TimersKept
<1>1. Now' = Now
  BY DEF Now
<1>2. Now.list = timer_list
  BY DEF Now
<1> QED
  BY <1>1, <1>2 DEF TimersKept, SoundTimers, InOrder, DueOf, States

\* A step that makes st the state of the timers.
LEMMA BecomeKept ==
    ASSUME NEW st, SoundTimers(st), InOrder(Now) => InOrder(st), Become(st)
    PROVE  TimersKept
<1>1. Now' = st
  BY StateParts DEF Now, Become, SoundTimers
<1>2. timer_list' = st.list
  BY DEF Become
<1>3. SoundTimers(Now)' <=> SoundTimers(Now')
  BY DEF SoundTimers, States
<1>4. DueOf(Now)' = DueOf(Now')
  BY DEF DueOf
<1> QED
  BY <1>1, <1>2, <1>3, <1>4 DEF TimersKept, InOrder, Ordered

\* Max of two numbers.
LEMMA MaxTwo ==
    ASSUME NEW a \in Int, NEW b \in Int
    PROVE  /\ Max({a, b}) \in Int
           /\ Max({a, b}) = IF a >= b THEN a ELSE b
<1>1. \E x \in {a, b} : \A y \in {a, b} : x >= y
  <2>1. CASE a >= b
    BY <2>1
  <2>2. CASE b >= a
    BY <2>2
  <2> QED
    BY <2>1, <2>2
<1>2. Max({a, b}) \in {a, b} /\ \A y \in {a, b} : Max({a, b}) >= y
  BY <1>1 DEF Max
<1> QED
  BY <1>2

\* g_timer_count moves on by the same amount for every timer of the list.
LEMMA SyncKept ==
    ASSUME SoundTimers(Now), lag \in Nat, Sync, timer_list' = timer_list
    PROVE  TimersKept /\ lag' \in Nat
<1> DEFINE left(t) == IF timer[t].due - lag >= -1 THEN timer[t].due - lag ELSE -1
<1>1. /\ timer \in [Timers -> TimerRecords] /\ timer_list \in Seq(Timers)
      /\ DueOf(Now) \in [Timers -> Int]
      /\ \A t \in ToSet(timer_list) : t \in Timers
  BY StateParts DEF Now, SoundTimers
<1>2. ASSUME NEW t \in Timers PROVE timer[t].due \in Int /\ left(t) \in Int
  BY <1>1 DEF TimerRecords
<1>3. ASSUME NEW t \in Timers, ~timer[t].active PROVE timer'[t] = timer[t]
  BY <1>3 DEF Sync
<1>4. ASSUME NEW t \in Timers, timer[t].active
      PROVE  timer'[t] = [timer[t] EXCEPT !.due = left(t)]
  <2>1. timer'[t] = [timer[t] EXCEPT !.due = Max({@ - lag, -1})]
    BY <1>4 DEF Sync
  <2>2. Max({timer[t].due - lag, -1}) = left(t)
    BY <1>2, MaxTwo
  <2>3. timer[t] \in TimerRecords
    BY <1>1
  <2> QED
    BY <2>1, <2>2, <2>3 DEF TimerRecords
<1>5. ASSUME NEW t \in Timers
      PROVE  /\ timer'[t] \in TimerRecords
             /\ timer'[t].active = timer[t].active /\ timer'[t].alive = timer[t].alive
             /\ timer[t].active => timer'[t].due = left(t)
  <2>1. timer[t] \in TimerRecords
    BY <1>1
  <2>2. ASSUME NEW d \in Int
        PROVE  LET e == [timer[t] EXCEPT !.due = d]
               IN  e \in TimerRecords /\ e.active = timer[t].active
                   /\ e.alive = timer[t].alive /\ e.due = d
    BY <2>1 DEF TimerRecords
  <2>3. left(t) \in Int
    BY <1>2
  <2> HIDE DEF left
  <2>4. CASE timer[t].active
    BY <1>4, <2>2, <2>3, <2>4, Zenon
  <2>5. CASE ~timer[t].active
    BY <1>3, <2>1, <2>5
  <2> QED
    BY <2>4, <2>5
<1>6. timer' \in [Timers -> TimerRecords]
  <2>1. timer' = [t \in Timers |-> timer'[t]]
    BY DEF Sync
  <2> QED
    BY <1>5, <2>1
<1>7. SoundTimers(Now)'
  <2>1. Now' \in [timer : [Timers -> TimerRecords], list : Seq(Timers)]
    BY <1>1, <1>6 DEF Now
  <2>2. /\ IsInjective(timer_list)
        /\ \A t \in Timers : t \in ToSet(timer_list) <=> timer[t].active
        /\ \A t \in Timers : timer[t].active => timer[t].alive
    BY DEF Now, SoundTimers
  <2>3. /\ IsInjective(timer_list)'
        /\ \A t \in Timers : t \in ToSet(timer_list') <=> timer'[t].active
        /\ \A t \in Timers : timer'[t].active => timer'[t].alive
    BY <1>5, <2>2
  <2> QED
    BY <2>1, <2>3 DEF Now, SoundTimers, States
<1>8. ASSUME InOrder(Now) PROVE Ordered(timer_list, DueOf(Now))'
  <2> SUFFICES ASSUME NEW i \in 1..Len(timer_list), NEW j \in 1..Len(timer_list), i < j
               PROVE  DueOf(Now)'[timer_list[i]] <= DueOf(Now)'[timer_list[j]]
    BY DEF Ordered
  <2> DEFINE a == timer_list[i]
             b == timer_list[j]
  <2>1. /\ a \in Timers /\ b \in Timers /\ a \in ToSet(timer_list) /\ b \in ToSet(timer_list)
    BY <1>1, MemberAt
  <2>2. timer[a].active /\ timer[b].active
    BY <2>1 DEF Now, SoundTimers
  <2>3. DueOf(Now)[a] <= DueOf(Now)[b]
    BY <1>8 DEF InOrder, Ordered, Now
  <2>4. timer[a].due <= timer[b].due
    BY <2>1, <2>3 DEF DueOf, Now
  <2>5. timer'[a].due = left(a) /\ timer'[b].due = left(b)
    BY <1>5, <2>1, <2>2
  <2>6. DueOf(Now)'[a] = timer'[a].due /\ DueOf(Now)'[b] = timer'[b].due
    BY <2>1 DEF DueOf, Now
  <2>7. left(a) <= left(b)
    BY <1>2, <2>1, <2>4, SMTT(30)
  <2> QED
    BY <2>5, <2>6, <2>7
<1> QED
  BY <1>7, <1>8 DEF TimersKept, Sync

\* The place behind t is another one of the list.
LEMMA NextOfSound ==
    ASSUME NEW S, NEW s \in Seq(S), IsInjective(s), NEW t \in ToSet(s)
    PROVE  NextOf(s, t) \in (ToSet(s) \ {t}) \cup {NULL}
<1> DEFINE i == CHOOSE k \in 1..Len(s) : s[k] = t
<1>1. \E k \in 1..Len(s) : s[k] = t
  BY MemberAt
<1>2. i \in 1..Len(s) /\ s[i] = t
  BY <1>1
<1>3. NextOf(s, t) = IF i = Len(s) THEN NULL ELSE s[i + 1]
  BY DEF NextOf
<1> HIDE DEF i
<1>4. ASSUME i # Len(s) PROVE s[i + 1] \in ToSet(s) \ {t}
  <2>1. i + 1 \in 1..Len(s) /\ i + 1 # i
    BY <1>2, <1>4
  <2>2. s[i + 1] \in ToSet(s)
    BY <2>1, MemberAt
  <2>3. s[i + 1] # s[i]
    BY <1>2, <2>1 DEF IsInjective
  <2> QED
    BY <1>2, <2>2, <2>3
<1> QED
  BY <1>3, <1>4

\* krhino_buf_queue_send puts a command into the queue or hands it over.
LEMMA SendSound ==
    ASSUME TimerTaskSound, NEW c \in Commands, Send(c),
           UNCHANGED <<timer_list, q, lag>>
    PROVE  TimerTaskSound' /\ (tpc' = "cb_give" <=> tpc = "cb_give")
<1>1. CASE tpc = "wait"
  BY <1>1 DEF Send, TimerTaskSound
<1>2. CASE tpc # "wait"
  <2>1. queue' = Append(queue, c) /\ UNCHANGED <<cmd, tpc>>
    BY <1>2 DEF Send
  <2>2. queue' \in Seq(Commands)
    BY <2>1 DEF TimerTaskSound
  <2> QED
    BY <2>1, <2>2 DEF TimerTaskSound
<1> QED
  BY <1>1, <1>2

\* A call that puts a command into the queue.
LEMMA CommandSound ==
    ASSUME SoundTimers(Now), TimerTaskSound, NEW c \in Commands, TimerCommand(c)
    PROVE  TimersKept /\ TimerTaskSound' /\ (tpc' = "cb_give" <=> tpc = "cb_give")
BY SendSound, UnchangedKept DEF TimerCommand

\* The calls of the application.
LEMMA TimerCallSound ==
    ASSUME SoundTimers(Now), TimerTaskSound, TimerCall
    PROVE  TimersKept /\ TimerTaskSound' /\ (tpc' = "cb_give" <=> tpc = "cb_give")
<1>1. ASSUME NEW c \in Cmds, TimerCommand(c)
      PROVE  TimersKept /\ TimerTaskSound' /\ (tpc' = "cb_give" <=> tpc = "cb_give")
  BY <1>1, CommandSound DEF Commands
<1>2. ASSUME NEW t \in Timers, NEW p \in Periods, NEW auto_run \in BOOLEAN,
             TimerCreate(t, p, auto_run)
      PROVE  TimersKept /\ TimerTaskSound' /\ (tpc' = "cb_give" <=> tpc = "cb_give")
  <2> DEFINE e == NewTimer(p)
             r == [Now EXCEPT !.timer[t] = e]
  <2>1. e \in TimerRecords /\ e.active = FALSE
    BY Constants
  <2>2. ~timer[t].active /\ Now.timer = timer /\ Now.list = timer_list
    BY <1>2 DEF TimerCreate, SoundTimers, Now
  <2>3. /\ SoundTimers(r) /\ r.list = Now.list /\ r.timer = [Now.timer EXCEPT ![t] = e]
        /\ InOrder(Now) => InOrder(r)
    <3>1. ~e.active /\ ~Now.timer[t].active
      BY <2>1, <2>2
    <3> HIDE DEF e
    <3> QED
      BY <2>1, <3>1, ChangeSound, SMTT(30)
  <2>4. Become(r)
    <3>1. timer' = [timer EXCEPT ![t] = e] /\ timer_list' = timer_list
      BY <1>2 DEF TimerCreate
    <3> QED
      BY <2>2, <2>3, <3>1 DEF Become
  <2>5. TimersKept
    <3> HIDE DEF r
    <3> QED
      BY <2>3, <2>4, BecomeKept
  <2>6. UNCHANGED <<timer_list, q, lag>>
    BY <1>2 DEF TimerCreate
  <2>7. CASE Send(Cmd("TIMER_CMD_START", t, 0, NULL))
    <3>1. Cmd("TIMER_CMD_START", t, 0, NULL) \in Commands
      BY DEF Commands
    <3> QED
      BY <2>5, <2>6, <2>7, <3>1, SendSound
  <2>8. CASE UNCHANGED <<queue, cmd, tpc>>
    BY <2>5, <2>6, <2>8 DEF TimerTaskSound
  <2> QED
    BY <1>2, <2>7, <2>8 DEF TimerCreate
<1> QED
  BY <1>1, <1>2 DEF TimerCall

\* The tick interrupt.
LEMMA TickSound ==
    ASSUME SoundTimers(Now), TimerTaskSound, Tick
    PROVE  TimersKept /\ TimerTaskSound' /\ (tpc' = "cb_give" <=> tpc = "cb_give")
<1>1. TimersKept
  BY UnchangedKept DEF Tick
<1>2. lag' \in Nat
  <2>1. {lag + 1, MaxTicks + 1} \subseteq Nat
    BY Constants DEF TimerTaskSound
  <2>2. Min({lag + 1, MaxTicks + 1}) \in {lag + 1, MaxTicks + 1}
    BY <2>1, MinNat, Zenon
  <2> QED
    BY <2>1, <2>2 DEF Tick
<1>3. tpc' = tpc \/ (tpc = "wait" /\ tpc' = "timeout")
  BY DEF Tick
<1> QED
  BY <1>1, <1>2, <1>3 DEF Tick, TimerTaskSound

\* The first timer of the list, if there is one.
LEMMA FirstSound ==
    ASSUME NEW S, NEW s \in Seq(S)
    PROVE  First(s) \in ToSet(s) \cup {NULL}
BY TailSeq DEF First

\* timer_task asks the queue for a command.
LEMMA TimerRecvSound ==
    ASSUME SoundTimers(Now), TimerTaskSound, TimerRecv
    PROVE  TimersKept /\ TimerTaskSound' /\ tpc # "cb_give" /\ tpc' # "cb_give"
<1>1. TimersKept
  BY UnchangedKept DEF TimerRecv
<1>2. CASE queue # <<>>
  <2>1. Head(queue) \in Commands /\ Tail(queue) \in Seq(Commands)
    BY <1>2, TailSeq DEF TimerTaskSound
  <2> QED
    BY <1>1, <1>2, <2>1 DEF TimerRecv, TimerTaskSound
<1>3. CASE queue = <<>>
  BY <1>1, <1>3 DEF TimerRecv, TimerTaskSound
<1> QED
  BY <1>2, <1>3

\* g_timer_count becomes the present tick, before a command or after a timeout.
LEMMA TimerTickEndSound ==
    ASSUME SoundTimers(Now), TimerTaskSound, TimerTickEnd
    PROVE  TimersKept /\ TimerTaskSound' /\ tpc # "cb_give" /\ tpc' # "cb_give"
<1>1. TimersKept /\ lag' \in Nat
  BY SyncKept DEF TimerTickEnd, TimerTaskSound
<1>2. First(timer_list) \in ToSet(timer_list) \cup {NULL}
  BY FirstSound, StateParts DEF SoundTimers, Now
<1> QED
  BY <1>1, <1>2 DEF TimerTickEnd, TimerTaskSound

\* timer_task carries out a command.
LEMMA TimerCmdSound ==
    ASSUME SoundTimers(Now), TimerTaskSound, TimerCmd
    PROVE  TimersKept /\ TimerTaskSound' /\ tpc # "cb_give" /\ tpc' # "cb_give"
<1> DEFINE r == TimerCmdProc(Now, cmd)
<1>1. cmd \in Commands
  BY DEF TimerCmd, TimerTaskSound
<1>2. SoundTimers(r) /\ (InOrder(Now) => InOrder(r))
  BY <1>1, TimerCmdProcSound
<1>3. Become(r)
  BY DEF TimerCmd
<1> HIDE DEF r
<1>4. TimersKept
  BY <1>2, <1>3, BecomeKept
<1>5. First(timer_list') \in ToSet(timer_list') \cup {NULL}
  <2>1. timer_list' \in Seq(Timers)
    BY <1>2, <1>3, StateParts DEF Become, SoundTimers
  <2> QED
    BY <2>1, FirstSound
<1> QED
  BY <1>4, <1>5 DEF TimerCmd, TimerTaskSound

\* timer_task computes how long to wait for the next command.
LEMMA TimerLoopSound ==
    ASSUME SoundTimers(Now), TimerTaskSound, TimerLoop
    PROVE  TimersKept /\ TimerTaskSound' /\ tpc # "cb_give" /\ tpc' # "cb_give"
<1>1. timer_list' = timer_list /\ UNCHANGED <<queue, cmd>> /\ tpc = "loop"
  BY DEF TimerLoop
<1>2. CASE tpc' = "recv" /\ UNCHANGED <<timer, lag, q>>
  BY <1>1, <1>2, UnchangedKept DEF TimerTaskSound
<1>3. CASE timer_list # <<>> /\ Sync /\ tpc' = "cb" /\ q' = Head(timer_list)
  <2>1. TimersKept /\ lag' \in Nat
    BY <1>1, <1>3, SyncKept DEF TimerTaskSound
  <2>2. Head(timer_list) \in ToSet(timer_list)
    BY <1>3, TailSeq, StateParts DEF SoundTimers, Now
  <2> QED
    BY <1>1, <1>3, <2>1, <2>2 DEF TimerTaskSound
<1> QED
  BY <1>2, <1>3 DEF TimerLoop

\* timer_cb_proc finds no further timer due.
LEMMA TimerCbEndSound ==
    ASSUME SoundTimers(Now), TimerTaskSound, TimerCbEnd
    PROVE  TimersKept /\ TimerTaskSound' /\ tpc # "cb_give" /\ tpc' # "cb_give"
BY UnchangedKept DEF TimerCbEnd, TimerTaskSound

\* timer_cb_proc calls the callback of a timer.
LEMMA TimerCbSound ==
    ASSUME SoundTimers(Now), TimerTaskSound, NEW t, TimerCb(t)
    PROVE  TimersKept /\ TimerTaskSound' /\ tpc # "cb_give" /\ tpc' # "cb_give"
BY UnchangedKept DEF TimerCb, Due, TimerTaskSound

\* The timer whose callback ran is taken out and, with a period, armed again:
\* the list is walked on from a place that it still has.
LEMMA TimerRearmSound ==
    ASSUME SoundTimers(Now), TimerTaskSound, TimerRearm
    PROVE  TimersKept /\ TimerTaskSound' /\ tpc # "cb_give" /\ tpc' # "cb_give"
<1> DEFINE off == Disarm(Now, q)
           on == Arm(off, q, timer[q].round)
<1>1. /\ timer \in [Timers -> TimerRecords] /\ timer_list \in Seq(Timers)
      /\ \A t \in ToSet(timer_list) : t \in Timers
      /\ Now.timer = timer /\ Now.list = timer_list /\ IsInjective(timer_list)
  BY StateParts DEF SoundTimers, Now
<1>2. tpc = "rearm" /\ q \in ToSet(timer_list) /\ q \in Timers
  BY <1>1 DEF TimerRearm, TimerTaskSound
<1>3. timer[q].alive /\ timer[q].round \in 0..MaxTicks
  <2>1. timer[q] \in TimerRecords
    BY <1>1, <1>2
  <2> QED
    BY <1>1, <1>2, <2>1 DEF SoundTimers, TimerRecords
<1>4. /\ SoundTimers(off) /\ ~off.timer[q].active /\ off.timer[q].alive
      /\ ToSet(off.list) = ToSet(timer_list) \ {q}
      /\ InOrder(Now) => InOrder(off)
  BY <1>1, <1>2, <1>3, DisarmSound
<1> HIDE DEF off
<1>5. CASE timer[q].round > 0 /\ Become(on) /\ q' = NextOf(timer_list', q)
  <2>1. timer[q].round \in 1..MaxTicks
    BY <1>3, <1>5, Constants
  <2>2. /\ SoundTimers(on) /\ ToSet(on.list) = ToSet(off.list) \cup {q}
        /\ InOrder(off) => InOrder(on)
    BY <1>2, <1>4, <2>1, ArmSound
  <2> HIDE DEF on
  <2>3. TimersKept
    BY <1>4, <1>5, <2>2, BecomeKept
  <2>4. timer_list' = on.list /\ timer_list' \in Seq(Timers) /\ IsInjective(timer_list')
    BY <1>5, <2>2, StateParts DEF Become, SoundTimers
  <2>5. q' \in ToSet(timer_list') \cup {NULL}
    <3>1. q \in ToSet(timer_list')
      BY <2>2, <2>4
    <3>2. NextOf(timer_list', q) \in (ToSet(timer_list') \ {q}) \cup {NULL}
      BY <2>4, <3>1, NextOfSound
    <3> QED
      BY <1>5, <3>2
  <2> QED
    BY <1>2, <2>3, <2>5 DEF TimerRearm, TimerTaskSound
<1>6. CASE Become(off) /\ q' = NextOf(timer_list, q)
  <2>1. TimersKept
    BY <1>4, <1>6, BecomeKept
  <2>2. NextOf(timer_list, q) \in (ToSet(timer_list) \ {q}) \cup {NULL}
    BY <1>1, <1>2, NextOfSound
  <2>3. timer_list' = off.list
    BY <1>6 DEF Become
  <2>4. q' \in ToSet(timer_list') \cup {NULL}
    BY <1>4, <1>6, <2>2, <2>3
  <2> QED
    BY <1>2, <2>1, <2>4 DEF TimerRearm, TimerTaskSound
<1> QED
  BY <1>5, <1>6 DEF TimerRearm, off, on

\* All the steps of timer_task.
LEMMA TimerTaskStepSound ==
    ASSUME SoundTimers(Now), TimerTaskSound, TimerTask
    PROVE  TimersKept /\ TimerTaskSound' /\ tpc # "cb_give" /\ tpc' # "cb_give"
BY TimerRecvSound, TimerTickEndSound, TimerCmdSound, TimerLoopSound, TimerCbEndSound,
   TimerRearmSound DEF TimerTask
-----------------------------------------------------------------------------
(* The work queue.                                                          *)

\* The invariant of the work queue.
WorkSound == WorkTypeOK /\ TokensMatchWorks /\ QueuedOnce /\ NoQueueNoWork /\ CancelHolds

\* A step that leaves the work queue alone and does not touch a give.
LEMMA WorkUnchanged ==
    ASSUME WorkSound, UNCHANGED workVars, tpc' = "cb_give" <=> tpc = "cb_give"
    PROVE  WorkSound'
BY DEF WorkSound, workVars, WorkTypeOK, TokensMatchWorks, QueuedOnce, NoQueueNoWork,
       CancelHolds, Idle

\* The section that puts a work into the list, of krhino_work_run or of
\* work_timer_cb; the give is still to come.
LEMMA EnqueueSound ==
    ASSUME WorkSound, NEW k \in Works, Idle(k), NEW w, Enqueue(k, w),
           k \notin Delayed => w # NULL,
           UNCHANGED <<work_current, sem, wpc, cancels>>,
           \/ /\ gives' = gives + 1 /\ tpc' = tpc
              /\ cancelled' = [cancelled EXCEPT ![k] = FALSE]
           \/ /\ gives' = gives /\ tpc # "cb_give" /\ tpc' = "cb_give"
              /\ cancelled' = cancelled /\ k \in Delayed
    PROVE  WorkSound'
<1>1. /\ work_list \in Seq(Works) /\ sem \in Nat /\ gives \in Nat
      /\ work_exit \in [Works -> {0, 1}] /\ cancelled \in [Works -> BOOLEAN]
      /\ DOMAIN wq = Works
  BY DEF WorkSound, WorkTypeOK
<1>2. k \notin ToSet(work_list) /\ work_current # k /\ work_exit[k] = 0
  BY DEF WorkSound, QueuedOnce, Idle
<1>3. /\ work_list' \in Seq(Works) /\ Len(work_list') = Len(work_list) + 1
      /\ ToSet(work_list') = ToSet(work_list) \cup {k} /\ IsInjective(work_list')
  BY <1>1, <1>2, AppendSet DEF Enqueue, WorkSound, QueuedOnce
<1>4. /\ work_exit' \in [Works -> {0, 1}] /\ work_exit'[k] = 1
      /\ \A l \in Works : l # k => work_exit'[l] = work_exit[l]
  BY <1>1 DEF Enqueue
<1>5. /\ DOMAIN wq' = Works /\ wq'[k] = w
      /\ \A l \in Works : l # k => wq'[l] = wq[l]
  BY <1>1 DEF Enqueue
<1>6. cancelled' \in [Works -> BOOLEAN]
  BY <1>1
<1>7. \A l \in Works : (l # k \/ k \in Delayed) /\ cancelled'[l] => cancelled[l]
  BY <1>1
<1>8. k \in Delayed \/ ~cancelled'[k]
  BY <1>1
<1>9. WorkTypeOK'
  BY <1>1, <1>3, <1>4, <1>5, <1>6 DEF WorkSound, WorkTypeOK
<1>10. TokensMatchWorks'
  BY <1>1, <1>3 DEF WorkSound, WorkTypeOK, TokensMatchWorks
<1>11. QueuedOnce'
  BY <1>3, <1>4 DEF WorkSound, QueuedOnce
<1>12. NoQueueNoWork'
  BY <1>4, <1>5 DEF WorkSound, NoQueueNoWork, Idle
<1>13. CancelHolds'
  BY <1>2, <1>4, <1>7, <1>8 DEF WorkSound, CancelHolds
<1> QED
  BY <1>9, <1>10, <1>11, <1>12, <1>13 DEF WorkSound

\* Every delayed work has a timer, and the timer leads back to it.
LEMMA WorkOfTimer ==
    ASSUME NEW t \in WorkTimers
    PROVE  WorkOf(t) \in Delayed /\ WorkOf(t) \in Works
<1>1. \E k \in Delayed : TimerOf[k] = t
  BY DEF WorkTimers
<1>2. WorkOf(t) \in Delayed
  BY <1>1 DEF WorkOf
<1> QED
  BY <1>2, WorkAssumption

\* krhino_work_run up to the end of its critical section.
LEMMA WorkRunSound ==
    ASSUME WorkSound, NEW k \in Works, WorkRun(k)
    PROVE  WorkSound'
<1>1. Wq # NULL
  BY WorkAssumption
<1>2. /\ Idle(k) /\ Enqueue(k, Wq) /\ UNCHANGED <<work_current, sem, wpc, cancels>>
      /\ gives' = gives + 1 /\ cancelled' = [cancelled EXCEPT ![k] = FALSE]
      /\ tpc' = tpc
  BY DEF WorkRun, timerVars
<1> QED
  BY <1>1, <1>2, EnqueueSound

\* work_timer_cb up to the end of its critical section.
LEMMA WorkTimerCbSound ==
    ASSUME SoundTimers(Now), TimerTaskSound, WorkSound, WorkTimerCb
    PROVE  TimersKept /\ TimerTaskSound' /\ WorkSound'
<1> DEFINE k == WorkOf(q)
<1>1. Due /\ q \in WorkTimers /\ UNCHANGED <<timer, timer_list, queue, cmd, wait, q, lag>>
  BY DEF WorkTimerCb
<1>2. k \in Delayed /\ k \in Works
  BY <1>1, WorkOfTimer
<1>3. tpc' \in {"rearm", "cb_give"}
  BY DEF WorkTimerCb
<1>4. TimersKept /\ TimerTaskSound'
  BY <1>1, <1>3, UnchangedKept DEF TimerTaskSound, Due
<1>5. CASE tpc' = "rearm" /\ UNCHANGED <<work_list, work_exit, wq>>
  <2>1. UNCHANGED workVars
    BY <1>5 DEF WorkTimerCb, workVars
  <2> QED
    BY <1>1, <1>4, <1>5, <2>1, WorkUnchanged DEF Due
<1>6. CASE Idle(k) /\ Enqueue(k, timer[q].arg) /\ tpc' = "cb_give"
  <2>1. UNCHANGED <<work_current, sem, wpc, cancels, gives, cancelled>>
    BY DEF WorkTimerCb
  <2>2. tpc # "cb_give"
    BY <1>1 DEF Due
  <2> HIDE DEF k
  <2> QED
    BY <1>2, <1>4, <1>6, <2>1, <2>2, EnqueueSound
<1> QED
  BY <1>5, <1>6 DEF WorkTimerCb

\* The give after a section: one of the tokens to come is there.
LEMMA GivesSound ==
    ASSUME WorkSound, TimerTaskSound,
           \/ WorkGive
           \/ WorkTimerGive
    PROVE  WorkSound'
<1>1. WorkTypeOK' /\ QueuedOnce' /\ NoQueueNoWork' /\ CancelHolds'
  BY DEF WorkSound, WorkGive, WorkTimerGive, WorkTypeOK, QueuedOnce, NoQueueNoWork,
         CancelHolds, Idle
<1>2. TokensMatchWorks'
  BY DEF WorkSound, WorkGive, WorkTimerGive, WorkTypeOK, TokensMatchWorks, timerVars
<1> QED
  BY <1>1, <1>2 DEF WorkSound

\* work_timer_cb gives the semaphore: the timers are as they were.
LEMMA WorkTimerGiveSound ==
    ASSUME SoundTimers(Now), TimerTaskSound, WorkTimerGive
    PROVE  TimersKept /\ TimerTaskSound'
BY UnchangedKept DEF WorkTimerGive, TimerTaskSound

\* The worker: a token that it took stands for a work that is in the list.
LEMMA WorkerStepSound ==
    ASSUME WorkSound, WorkerStep, tpc' = tpc
    PROVE  WorkSound'
<1>1. CASE WorkerTake
  <2>1. WorkTypeOK' /\ QueuedOnce' /\ NoQueueNoWork' /\ CancelHolds'
    BY <1>1 DEF WorkSound, WorkerTake, WorkTypeOK, QueuedOnce, NoQueueNoWork,
                CancelHolds, Idle
  <2>2. TokensMatchWorks'
    BY <1>1 DEF WorkSound, WorkerTake, WorkTypeOK, TokensMatchWorks
  <2> QED
    BY <2>1, <2>2 DEF WorkSound
<1>2. CASE WorkerStart
  <2> DEFINE h == Head(work_list)
  <2>1. /\ work_list \in Seq(Works) /\ work_list # <<>> /\ IsInjective(work_list)
        /\ work_exit \in [Works -> {0, 1}]
    BY <1>2 DEF WorkSound, WorkTypeOK, QueuedOnce, WorkerStart
  <2>2. /\ h \in Works /\ h \in ToSet(work_list) /\ h = work_list[1]
        /\ Tail(work_list) \in Seq(Works) /\ Len(Tail(work_list)) = Len(work_list) - 1
        /\ Len(work_list) \in Nat
        /\ \A i \in 1..Len(Tail(work_list)) :
              Tail(work_list)[i] = work_list[i + 1] /\ i + 1 \in 1..Len(work_list)
    BY <2>1, TailSeq
  <2>3. IsInjective(Tail(work_list)) /\ ToSet(Tail(work_list)) = ToSet(work_list) \ {h}
    BY <2>1, TailInjective
  <2> HIDE DEF h
  <2>4. /\ work_list' = Tail(work_list) /\ work_current' = h /\ wpc = "got" /\ wpc' = "run"
        /\ work_exit' = [work_exit EXCEPT ![h] = 0]
        /\ UNCHANGED <<sem, wq, gives, cancels, cancelled>>
    BY <1>2 DEF WorkerStart, h
  <2>5. WorkTypeOK'
    BY <2>1, <2>2, <2>4 DEF WorkSound, WorkTypeOK
  <2>6. TokensMatchWorks'
    BY <2>2, <2>4 DEF WorkSound, WorkTypeOK, TokensMatchWorks
  <2>7. QueuedOnce'
    BY <2>1, <2>2, <2>3, <2>4 DEF WorkSound, QueuedOnce
  <2>8. work_exit[h] = 1
    BY <2>2 DEF WorkSound, QueuedOnce
  <2>9. NoQueueNoWork'
    <3> SUFFICES ASSUME NEW l \in Works \ Delayed, wq[l] = NULL
                 PROVE  work_current' # l /\ work_exit'[l] = 0
      BY <2>4 DEF NoQueueNoWork, Idle
    <3>1. work_exit[l] = 0
      BY DEF WorkSound, NoQueueNoWork, Idle
    <3> QED
      BY <2>1, <2>2, <2>4, <2>8, <3>1
  <2>10. CancelHolds'
    <3> SUFFICES ASSUME NEW l \in Works \ Delayed, cancelled[l]
                 PROVE  work_current' # l /\ work_exit'[l] = 0
      BY <2>4 DEF CancelHolds
    <3>1. work_exit[l] = 0
      BY DEF WorkSound, CancelHolds
    <3> QED
      BY <2>1, <2>2, <2>4, <2>8, <3>1
  <2> QED
    BY <2>5, <2>6, <2>7, <2>9, <2>10 DEF WorkSound
<1>3. CASE WorkerDone
  <2>1. WorkTypeOK' /\ TokensMatchWorks' /\ QueuedOnce'
    BY <1>3 DEF WorkSound, WorkerDone, WorkTypeOK, TokensMatchWorks, QueuedOnce
  <2>2. NoQueueNoWork' /\ CancelHolds'
    BY <1>3, WorkAssumption DEF WorkSound, WorkerDone, NoQueueNoWork, CancelHolds, Idle
  <2> QED
    BY <2>1, <2>2 DEF WorkSound
<1> QED
  BY <1>1, <1>2, <1>3 DEF WorkerStep

\* krhino_work_run of a delayed work only gives a command.
LEMMA WorkRunDelayedSound ==
    ASSUME SoundTimers(Now), TimerTaskSound, WorkSound, NEW k \in Works, WorkRunDelayed(k)
    PROVE  TimersKept /\ TimerTaskSound' /\ WorkSound'
<1> DEFINE c == Cmd("TIMER_ARG_CHG_AUTO", TimerOf[k], 0, Wq)
<1>1. k \in Delayed /\ TimerCommand(c) /\ cancelled' = [cancelled EXCEPT ![k] = FALSE]
      /\ UNCHANGED <<work_list, work_current, sem, work_exit, wq, wpc, gives, cancels>>
  BY DEF WorkRunDelayed
<1>2. c \in Commands
  BY <1>1, WorkAssumption, TimerAssumption DEF Commands, WorkTimers
<1>3. TimersKept /\ TimerTaskSound' /\ (tpc' = "cb_give" <=> tpc = "cb_give")
  BY <1>1, <1>2, CommandSound
<1>4. cancelled' \in [Works -> BOOLEAN] /\ \A l \in Works \ Delayed : cancelled'[l] = cancelled[l]
  BY <1>1 DEF WorkSound, WorkTypeOK
<1>5. WorkTypeOK' /\ QueuedOnce' /\ NoQueueNoWork' /\ CancelHolds'
  BY <1>1, <1>4 DEF WorkSound, WorkTypeOK, QueuedOnce, NoQueueNoWork, CancelHolds, Idle
<1>6. TokensMatchWorks'
  BY <1>1, <1>3 DEF WorkSound, TokensMatchWorks
<1> QED
  BY <1>3, <1>5, <1>6 DEF WorkSound

\* krhino_work_cancel: it reports success only for a work that is idle.
LEMMA WorkCancelSound ==
    ASSUME SoundTimers(Now), TimerTaskSound, WorkSound, NEW k \in Works, WorkCancel(k)
    PROVE  TimersKept /\ TimerTaskSound' /\ WorkSound'
<1>1. UNCHANGED <<work_list, work_current, sem, work_exit, wq, wpc, gives>>
  BY DEF WorkCancel
<1>2. TimersKept /\ TimerTaskSound' /\ (tpc' = "cb_give" <=> tpc = "cb_give")
  <2>1. CASE UNCHANGED timerVars
    BY <2>1, UnchangedKept DEF timerVars, TimerTaskSound
  <2>2. CASE k \in Delayed /\ TimerCommand(Cmd("TIMER_CMD_STOP", TimerOf[k], 0, NULL))
    <3>1. Cmd("TIMER_CMD_STOP", TimerOf[k], 0, NULL) \in Commands
      BY <2>2, WorkAssumption, TimerAssumption DEF Commands, WorkTimers
    <3> QED
      BY <2>2, <3>1, CommandSound
  <2> QED
    BY <2>1, <2>2 DEF WorkCancel
<1>3. /\ cancels' \subseteq Works /\ cancelled' \in [Works -> BOOLEAN]
      /\ \A l \in Works : l # k => cancelled'[l] = cancelled[l]
  BY DEF WorkCancel, WorkSound, WorkTypeOK
<1>4. cancelled'[k] => cancelled[k] \/ wq[k] = NULL
  BY DEF WorkCancel
<1>5. WorkTypeOK' /\ QueuedOnce' /\ NoQueueNoWork'
  BY <1>1, <1>3 DEF WorkSound, WorkTypeOK, QueuedOnce, NoQueueNoWork, Idle
<1>6. TokensMatchWorks'
  BY <1>1, <1>2 DEF WorkSound, TokensMatchWorks
<1>7. CancelHolds'
  BY <1>1, <1>3, <1>4 DEF WorkSound, CancelHolds, NoQueueNoWork, Idle
<1> QED
  BY <1>2, <1>5, <1>6, <1>7 DEF WorkSound

\* The critical section of krhino_work_cancel, entered with what it read before.
LEMMA WorkCancelEndSound ==
    ASSUME WorkSound, NEW k \in Works, WorkCancelEnd(k)
    PROVE  WorkSound'
<1>1. /\ UNCHANGED <<work_list, work_current, sem, work_exit, wpc, gives>> /\ tpc' = tpc
      /\ cancels' \subseteq Works
  BY DEF WorkCancelEnd, timerVars, WorkSound, WorkTypeOK
<1>2. CASE Idle(k)
  <2>1. wq' = [wq EXCEPT ![k] = NULL] /\ cancelled' = [cancelled EXCEPT ![k] = TRUE]
    BY <1>2 DEF WorkCancelEnd
  <2>2. /\ DOMAIN wq' = Works /\ cancelled' \in [Works -> BOOLEAN]
        /\ \A l \in Works : l # k => wq'[l] = wq[l] /\ cancelled'[l] = cancelled[l]
    BY <2>1 DEF WorkSound, WorkTypeOK
  <2>3. WorkTypeOK' /\ QueuedOnce' /\ TokensMatchWorks'
    BY <1>1, <2>2 DEF WorkSound, WorkTypeOK, QueuedOnce, TokensMatchWorks
  <2>4. NoQueueNoWork' /\ CancelHolds'
    BY <1>1, <1>2, <2>2 DEF WorkSound, NoQueueNoWork, CancelHolds, Idle
  <2> QED
    BY <2>3, <2>4 DEF WorkSound
<1>3. CASE ~Idle(k)
  BY <1>1, <1>3 DEF WorkCancelEnd, WorkSound, WorkTypeOK, TokensMatchWorks, QueuedOnce,
                    NoQueueNoWork, CancelHolds, Idle
<1> QED
  BY <1>2, <1>3
-----------------------------------------------------------------------------
\* What one step of the timers and the work queue keeps.
LEMMA WorkNextSound ==
    ASSUME WorkIInv, [WorkNext]_allVars
    PROVE  WorkIInv' /\ TimersKept
<1>1. SoundTimers(Now) /\ TimerTaskSound /\ WorkSound
  BY DEF WorkIInv, WorkSound
<1> SUFFICES TimersKept /\ TimerTaskSound' /\ WorkSound'
  BY DEF WorkIInv, WorkSound, TimersKept
<1>2. ASSUME UNCHANGED timerVars PROVE TimersKept /\ TimerTaskSound' /\ tpc' = tpc
  BY <1>1, <1>2, UnchangedKept DEF timerVars, TimerTaskSound
<1>3. CASE TimerTaskStep
  <2>1. CASE TimerTask /\ UNCHANGED workVars
    BY <1>1, <2>1, TimerTaskStepSound, WorkUnchanged
  <2>2. CASE (\E t \in Timers \ WorkTimers : TimerCb(t)) /\ UNCHANGED workVars
    BY <1>1, <2>2, TimerCbSound, WorkUnchanged
  <2>3. CASE WorkTimerCb
    BY <1>1, <2>3, WorkTimerCbSound
  <2>4. CASE WorkTimerGive
    BY <1>1, <2>4, WorkTimerGiveSound, GivesSound
  <2> QED
    BY <1>3, <2>1, <2>2, <2>3, <2>4 DEF TimerTaskStep
<1>4. CASE WorkerStep
  <2>1. UNCHANGED timerVars
    BY <1>4 DEF WorkerStep, WorkerTake, WorkerStart, WorkerDone
  <2> QED
    BY <1>1, <1>2, <1>4, <2>1, WorkerStepSound
<1>5. CASE WorkGive
  <2>1. UNCHANGED timerVars
    BY <1>5 DEF WorkGive
  <2> QED
    BY <1>1, <1>2, <1>5, <2>1, GivesSound
<1>6. CASE Tick /\ UNCHANGED workVars
  BY <1>1, <1>6, TickSound, WorkUnchanged
<1>7. CASE TimerCall /\ UNCHANGED workVars
  BY <1>1, <1>7, TimerCallSound, WorkUnchanged
<1>8. ASSUME NEW k \in Works, WorkRun(k) PROVE TimersKept /\ TimerTaskSound' /\ WorkSound'
  <2>1. UNCHANGED timerVars
    BY <1>8 DEF WorkRun
  <2> QED
    BY <1>1, <1>2, <1>8, <2>1, WorkRunSound
<1>9. ASSUME NEW k \in Works, WorkCancelEnd(k)
      PROVE  TimersKept /\ TimerTaskSound' /\ WorkSound'
  <2>1. UNCHANGED timerVars
    BY <1>9 DEF WorkCancelEnd
  <2> QED
    BY <1>1, <1>2, <1>9, <2>1, WorkCancelEndSound
<1>10. ASSUME NEW k \in Works, WorkRunDelayed(k) \/ WorkCancel(k)
       PROVE  TimersKept /\ TimerTaskSound' /\ WorkSound'
  BY <1>1, <1>10, WorkRunDelayedSound, WorkCancelSound
<1>11. CASE UNCHANGED allVars
  <2>1. UNCHANGED timerVars /\ UNCHANGED workVars
    BY <1>11 DEF allVars
  <2> QED
    BY <1>1, <1>2, <2>1, WorkUnchanged
<1> QED
  BY <1>3, <1>4, <1>5, <1>6, <1>7, <1>8, <1>9, <1>10, <1>11 DEF WorkNext

\* The invariant holds at the start.
LEMMA WorkInitSound == WorkInit => WorkIInv
<1> SUFFICES ASSUME WorkInit PROVE WorkIInv
  OBVIOUS
<1>1. /\ timer_list = <<>> /\ queue = <<>> /\ tpc = "recv" /\ lag = 0
      /\ work_list = <<>> /\ work_current = NULL /\ sem = 0 /\ gives = 0 /\ wpc = "take"
      /\ work_exit = [k \in Works |-> 0] /\ wq = [k \in Works |-> NULL] /\ cancels = {}
      /\ cancelled = [k \in Works |-> FALSE]
  BY DEF WorkInit, TimerInit
<1>2. ASSUME NEW S
      PROVE  LET e == <<>> IN e \in Seq(S) /\ IsInjective(e) /\ ToSet(e) = {} /\ Len(e) = 0
  BY DEF IsInjective, ToSet
<1>3. /\ timer \in [Timers -> TimerRecords]
      /\ \A t \in Timers : timer[t].active = FALSE
  <2>1. timer \in [Timers -> {NewTimer(p) : p \in Periods} \cup {NoTimer}]
    BY DEF WorkInit, TimerInit
  <2>2. \A e \in {NewTimer(p) : p \in Periods} \cup {NoTimer} :
           e \in TimerRecords /\ e.active = FALSE
    BY Constants
  <2> QED
    BY <2>1, <2>2
<1>4. SoundTimers(Now)
  <2>1. Now.list = timer_list /\ Now.timer = timer /\ Now \in States
    BY <1>1, <1>2, <1>3 DEF Now, States
  <2> QED
    BY <1>1, <1>2, <1>3, <2>1 DEF SoundTimers
<1>5. TimerTaskSound
  BY <1>1 DEF TimerTaskSound
<1>6. WorkTypeOK
  BY <1>1, <1>2 DEF WorkTypeOK
<1>7. TokensMatchWorks
  BY <1>1, <1>2 DEF TokensMatchWorks
<1>8. QueuedOnce
  BY <1>1, <1>2 DEF QueuedOnce
<1>9. NoQueueNoWork /\ CancelHolds
  BY <1>1, WorkAssumption DEF NoQueueNoWork, CancelHolds, Idle
<1> QED
  BY <1>4, <1>5, <1>6, <1>7, <1>8, <1>9 DEF WorkIInv

\* In every reachable state of the timers and the work queue the inductive
\* invariant holds: the timer at which timer_cb_proc stands is in the list
\* although callbacks and commands come in between, and a work that has no
\* queue is idle, which krhino_work_cancel relies on without a lock.
THEOREM WorkInductive == WorkSpec => []WorkIInv
<1>1. WorkIInv /\ [WorkNext]_allVars => WorkIInv'
  BY WorkNextSound
<1> QED
  BY <1>1, WorkInitSound, PTL DEF WorkSpec

\* The active timers are in the list of k_timer.c, each once, and they exist, in
\* whatever order commands, expiries and creations come.
THEOREM TimerListCorrect == WorkSpec => []TimerListExact
<1>1. WorkIInv => TimerListExact
  BY DEF WorkIInv, SoundTimers, Now, TimerListExact
<1> QED
  BY <1>1, WorkInductive, PTL

\* timer_list_pri_insert, the removals and the advance of g_timer_count keep the
\* list of timers sorted, unless a timer in it is overdue when they happen.
THEOREM TimerOrderCorrect == WorkSpec => OrderKept
<1>1. ASSUME SoundTimers(Now)
      PROVE  /\ Sorted <=> Ordered(timer_list, DueOf(Now))
             /\ Sorted /\ (\A t \in ToSet(timer_list) : timer[t].due >= 0) => InOrder(Now)
  <2>1. /\ \A i \in 1..Len(timer_list) : timer_list[i] \in Timers
        /\ Now.list = timer_list /\ Now.timer = timer
    BY <1>1, StateParts, MemberAt DEF SoundTimers, Now
  <2>2. \A t \in Timers : DueOf(Now)[t] = timer[t].due
    BY <2>1 DEF DueOf
  <2> QED
    BY <2>1, <2>2 DEF Sorted, Ordered, InOrder
<1>2. SoundTimers(Now)' => (Ordered(timer_list, DueOf(Now))' => Sorted')
  <2> SUFFICES ASSUME SoundTimers(Now)', Ordered(timer_list, DueOf(Now))'
               PROVE  Sorted'
    OBVIOUS
  <2>1. /\ \A i \in 1..Len(timer_list') : timer_list'[i] \in Timers
        /\ Now.list' = timer_list' /\ Now.timer' = timer'
    BY MemberAt DEF SoundTimers, Now, States
  <2>2. \A t \in Timers : DueOf(Now)'[t] = timer'[t].due
    BY <2>1 DEF DueOf
  <2> QED
    BY <2>1, <2>2 DEF Sorted, Ordered
<1>3. WorkIInv /\ [WorkNext]_allVars
         => [Sorted /\ (\A t \in ToSet(timer_list) : timer[t].due >= 0) => Sorted']_timerVars
  BY <1>1, <1>2, WorkNextSound DEF WorkIInv, TimersKept
<1> QED
  BY <1>3, WorkInductive, PTL DEF WorkSpec, OrderKept

\* The worker that took a token finds a work in the list: the tokens given, taken
\* and still to be given match the works, whoever runs between a section and
\* its give.
THEOREM TokensCorrect == WorkSpec => []TokensMatchWorks
<1>1. WorkIInv => TokensMatchWorks
  BY DEF WorkIInv
<1> QED
  BY <1>1, WorkInductive, PTL

\* work->work_exit says whether the work is in the list, where it is once at most.
THEOREM QueuedOnceCorrect == WorkSpec => []QueuedOnce
<1>1. WorkIInv => QueuedOnce
  BY DEF WorkIInv
<1> QED
  BY <1>1, WorkInductive, PTL

\* A work without delay for which krhino_work_cancel returned success does not run
\* before it is run again.
THEOREM CancelCorrect == WorkSpec => []CancelHolds
<1>1. WorkIInv => CancelHolds
  BY DEF WorkIInv
<1> QED
  BY <1>1, WorkInductive, PTL
=============================================================================

------------------------------- MODULE RhinoSem -------------------------------
(***************************************************************************)
(* Counting semaphores (k_sem.c; the task semaphores of k_task_sem.c pass  *)
(* task->task_sem_obj to the same functions): tasks take, tasks and        *)
(* interrupts give.                                                        *)
(***************************************************************************)
EXTENDS RhinoObj

CONSTANTS
    SemCounts,  \* the counts passed to krhino_sem_create and krhino_sem_count_set
    MaxCount    \* (sem_count_t)-1

\* (The tasks that were handed a token are counted.)
ASSUME SemAssumption ==
    MaxCount \in Nat /\ SemCounts \subseteq 0..MaxCount /\ IsFiniteSet(Tasks)

VARIABLE count      \* peak_count is for debug only

SEM == "RHINO_SEM_OBJ_TYPE"

\* The semaphores that exist when the system starts.
SemInit == count \in {f \in [Others -> SemCounts \cup {0}] :
                        \A o \in Others : ~Is(o, SEM) => f[o] = 0}

SemCreate(s, n) ==
    /\ Calling("sem_create")
    /\ ObjCreate(s, SEM)
    /\ count' = [count EXCEPT ![s] = n]

SemDel(s) ==
    /\ Calling("sem_del")
    /\ ObjDel(s, SEM)
    /\ UNCHANGED count

Giving(c, s) == (Calling(c) \/ InIsr(c)) /\ Is(s, SEM)

\* sem_give (one or all) while no task waits: RHINO_SEM_OVF at the largest count.
SemGiveCount(s) ==
    /\ Giving("sem_give", s) \/ Giving("sem_give_all", s)
    /\ blk_list[s] = <<>> /\ count[s] < MaxCount
    /\ count' = [count EXCEPT ![s] = @ + 1]
    /\ UNCHANGED <<vars, obj_type>>

\* Mutant: the token is handed to a waiter and counted as well.
SemGiveOne_CountsToo(s) ==
    /\ Giving("sem_give", s) /\ count[s] < MaxCount
    /\ ObjWakeFirst(s)
    /\ count' = [count EXCEPT ![s] = @ + 1]

\* krhino_sem_give while tasks wait: the first one has the token.
SemGiveOne(s) ==
    /\ Giving("sem_give", s)
    /\ ObjWakeFirst(s)
    /\ UNCHANGED count

\* krhino_sem_give_all while tasks wait.
SemGiveAll(s) ==
    /\ Giving("sem_give_all", s)
    /\ ObjLoop(s, "sem_wake", NULL)
    /\ UNCHANGED count

SemWake ==
    /\ Doing("sem_wake")
    /\ ObjWakeNext(Head(todo).obj)
    /\ UNCHANGED count

Taking(s) == Calling("sem_take") /\ Is(s, SEM) /\ ~cancel[active]

\* krhino_sem_take of a token that is there.
SemTakeCount(s) ==
    /\ Taking(s) /\ count[s] > 0
    /\ count' = [count EXCEPT ![s] = @ - 1]
    /\ UNCHANGED <<vars, obj_type>>

\* krhino_sem_take that has to wait.
SemTakePend(s, ticks) ==
    /\ Taking(s) /\ count[s] = 0
    /\ ObjPend(s, ticks)
    /\ UNCHANGED count

\* Mutant: the count is set although tasks wait.
SemCountSet_NoCheck(s, n) ==
    /\ Calling("sem_count_set") /\ Is(s, SEM)
    /\ count' = [count EXCEPT ![s] = n]
    /\ UNCHANGED <<vars, obj_type>>

\* krhino_sem_count_set: RHINO_SEM_TASK_WAITING while tasks wait.
SemCountSet(s, n) ==
    /\ Calling("sem_count_set") /\ Is(s, SEM)
    /\ count[s] > 0 \/ blk_list[s] = <<>>
    /\ count' = [count EXCEPT ![s] = n]
    /\ UNCHANGED <<vars, obj_type>>

SemCall ==
    \/ SemWake
    \/ \E s \in Others :
        \/ \E n \in SemCounts : SemCreate(s, n)
        \/ SemDel(s)
        \/ SemGiveCount(s)
        \/ SemGiveOne(s)
        \/ SemGiveAll(s)
        \/ SemTakeCount(s)
        \/ \E ticks \in Waits : SemTakePend(s, ticks)
        \/ \E n \in SemCounts : SemCountSet(s, n)
-----------------------------------------------------------------------------
\* A token is never left lying while a task waits for it, whatever gives,
\* timeouts, aborts, cancellations and krhino_sem_count_set do meanwhile.
NoTokenBesideWaiters ==
    todo = <<>> => \A s \in Others : Is(s, SEM) /\ count[s] > 0 => blk_list[s] = <<>>

\* The tasks that were handed a token of s and have not returned with it yet.
Granted(s) ==
    {t \in Tasks : /\ call[t] = s /\ task_state[t] \notin Pending
                   /\ pc[t] \in {"blk", "end"} /\ PendStatus(t) = "BLK_FINISH"}

Tokens(s) == count[s] + Cardinality(Granted(s))

\* A give that is not refused, or one round of krhino_sem_give_all.
Gives(s) ==
    \/ SemGiveCount(s)
    \/ SemGiveOne(s)
    \/ SemWake /\ Head(todo).obj = s /\ blk_list[s] # <<>>

\* How the tokens of s may change in a step.
Balance(s) ==
    LET change == Tokens(s)' - Tokens(s)
    IN  \/ \E n \in SemCounts : SemCountSet(s, n) /\ change = n - count[s]
        \/ change = 1 /\ Gives(s)
        \/ change = -1 /\ SemTakeCount(s)
        \/ change = -1 /\ \E t \in Granted(s) :
                pc'[t] = "run" \/ task_state'[t] = "K_DELETED" \/ cancel'[t]
        \/ change = 0 /\ ~Gives(s) /\ ~SemTakeCount(s)

\* Tokens are neither lost nor forged: every give makes one token, also while
\* it wakes a waiter, and a token goes only to a krhino_sem_take that succeeds,
\* or with a holder that is deleted or cancelled (it is told
\* RHINO_TASK_CANCELED); timeouts and aborted waits in between do not matter.
TokensConserved ==
    [][\A s \in Others : Is(s, SEM) /\ Is(s, SEM)' => Balance(s)]_<<vars, obj_type, count>>
=============================================================================

# Verification of the rhino kernel and the key-value store

TLA+ specifications of the kernel of AliOS Things 3.0.0 (`kernel/rhino`) and of its
key-value store on flash (`kernel/fs/kv`), their TLC runs, and proofs checked by TLAPS.
Line numbers refer to `src/kernel/rhino/`, those of `kv*.c` and `kv*.h` to
`src/kernel/fs/kv/`, unless another path is given. `PROJECT.json` holds the table of runs, the map from
definitions to source lines, the hazards, the findings and the theorems.

## 1. The system and its parts

AliOS Things is an operating system for microcontrollers. Everything in the repository
runs on the rhino kernel; the kernel is where tasks, interrupts, timeouts and shared
objects meet, and where an error is hardest to see in a test. The rest (cloud
clients, network adaptation, file systems, shell, drivers) is library code above it.

| part | state | operations | hard behaviours |
|---|---|---|---|
| ready queue, scheduler (`k_sched.c`) | `g_ready_queue` (a circular list per priority, bitmap, cached `highest_pri`), `g_sched_lock`, time slices | add, remove, rotate, `core_sched`, `sched_disable/enable`, `time_slice_update` | a stale cache; a reschedule forgotten or too early |
| tasks (`k_task.c`) | TCB: state, priority, base priority, suspension count, cancel flag | create, sleep, yield, suspend, resume, `pri_change`, `wait_abort`, `cancel`, `del` | any state can be met by any call; checks outside critical sections |
| blocking (`k_pend.c`) | `blk_list` of an object, `blk_obj`, `blk_state` of a task | block, wake, remove, reorder, the answer of a wait | several events compete to end one wait |
| ticks (`k_tick.c`, `k_time.c`) | `g_tick_head`, sorted by expiry | insert, remove, expire | timeouts of tasks that were suspended or re-prioritised |
| mutexes (`k_mutex.c`) | owner, nesting count, list of owned mutexes of a task | create, lock, unlock, delete | priority inheritance along chains of owners |
| semaphores (`k_sem.c`, `k_task_sem.c`) | count | create, give one or all, take, set, delete | tokens lost or left beside waiters |
| queues (`k_queue.c`, `k_buf_queue.c`, `k_ringbuf.c`) | a ring of blocks or of records with a length, the number of messages, `task->msg` | create, send, send to all, receive, flush, delete | wrap-around; a message that overtakes; a wait that ends as the message comes |
| event flags (`k_event.c`) | flags, the request of a waiting task | create, set, clear, get (all or any, with or without clearing), delete | one set serves several waiters, who clear flags for each other |
| software timers (`k_timer.c`) | sorted list of active timers, command queue, `g_timer_count` | create, start, stop, change, delete; the timer task | commands and expiries cross; the timer task is late |
| work queues (`k_workqueue.c`) | list of works, semaphore, the running work | run, delayed run, cancel; the worker | list and semaphore are updated in separate steps; cancel races with the timer |
| interrupts, switch (`k_sys.c`, `platform/arch/arm/armv7m`) | `g_intrpt_nested_level`, `g_active_task`, `g_preferred_ready_task`, the pending bit of PendSV | enter, exit, PendSV, SysTick | the switch happens later than it was decided |
| key-value store (`kernel/fs/kv/kv.c`) | on flash: blocks with a state, items with a state, a crc and the place of the item they replace; in memory: a cache of it, the write position, garbage-collection flags | set, get, delete, delete by prefix, collect, start | power failure between any two writes, in the recovery too; setters that wait for the collection |
| heap and block pools, deferred freeing, statistics, multi-CPU build, file system, network, cloud, security, drivers | | | not modelled, reasons in section 8 and `PROJECT.json` |

The parts interact through shared structures only: a call takes effect inside a
critical section (interrupts off), moves tasks between the ready queue, the blocked
list of an object and the tick list, and then reschedules. Two facts of the
code give the interleavings that the model must have:

* `RHINO_CRITICAL_EXIT_SCHED` (`include/k_critical.h:34`) turns interrupts **on** and
  then calls `core_sched`. Between the two, an interrupt may run while the task on the
  CPU is already blocked, suspended or deleted.
* `cpu_task_switch` and `cpu_intrpt_switch` only set PendSV pending
  (`port_s.S:60-77`). Peripheral interrupts go first; SysTick has the same, lowest,
  priority as PendSV, and a pending PendSV goes before it.

What makes each part correct is stated in section 4.

## 2. Modules

| module | models |
|---|---|
| `RhinoLists` | ready queue, blocked list and tick list as pure operators |
| `RhinoKernel` | the core: tasks, scheduler, ticks, blocking, mutexes, interrupts (`Spec`) |
| `RhinoProperties` | invariants, action properties, fairness, liveness |
| `RhinoInductive` | the inductive invariant `IInv` of the core |
| `RhinoListsProofs` | lemmas on sequences, the ready queue and sorted lists |
| `RhinoKernelProofs`, `RhinoMutexProofs` | theorems about the core: `IInv` and waiting; who owns a mutex |
| `RhinoPriorityProofs` | theorems about the core: priority inheritance and who is on the CPU |
| `RhinoIpcProofs`, `RhinoWorkProofs` | theorems about the composition with semaphores, queues and event flags; about timers and works |
| `RhinoQueueProofs` | lemmas on the ring buffer; the composition implements `RhinoFifo` |
| `RhinoObj` | what semaphores, queues and event flags share: type, creation, deletion, blocking and waking |
| `RhinoSem`, `RhinoQueue`, `RhinoEvent` | the three kinds of object on the core, with their properties |
| `RhinoRing` | the ring buffer as pure operators on its bytes |
| `RhinoFifo` | the abstract specification of a queue; `RhinoQueue` gives the mapping |
| `RhinoIpc` | the composition: core, semaphores, queues and event flags (`IpcSpec`) |
| `RhinoTimer`, `RhinoWork` | the timer task; the work queue on top of it (`WorkSpec`) |
| `KvStore`, `KvProofs` | the key-value store with power failures; theorems about it |
| `MCRhino`, `MCIpc`, `MCWork`, `MCKv` | the small instances the `.cfg` files choose from |

`RhinoIpc` extends the core: a step is a step of the core that leaves the objects alone, or a
call on an object, which uses the core's operators for blocking and waking. The same memory may be
a semaphore, then deleted, and created as a queue once no call is inside it any more.

`RhinoTimer` and `RhinoWork` do not carry the core with them. They use the queue and the semaphore by what
the runs on `RhinoIpc` show of them, and let the scheduler do anything: the timer task, the worker and
the callers may be delayed for any number of ticks between any two steps. `KvStore` uses a mutex and a semaphore in the same
way.

### State

The variables have the names of the C fields and globals. Choices of representation:

* a ready list is a sequence whose head is `cur_list_item[prio]`; the bitmap is not kept
  apart, since it is written together with `cur_list_item`; `highest_pri` is, because it
  is a cache;
* `tick_remain` is `tick_match - g_tick_count`, so time needs no bound;
* `mutex_list[t]` is the chain through `mutex->mutex_list`, last taken first;
* `alive` is the set of objects with their `obj_type`;
* `pc[t]` says where a task is between two critical sections: `run` (its own code),
  `sched` (about to call `core_sched` and return), `blk` (the same, having blocked), `end`
  (back from `core_sched`, `pend_state_end_proc` comes next), `pri` (between the checks of
  `krhino_task_pri_change` and its critical section); `call[t]` is the object it waits for;
* `tick_isr` is where the tick handler is: its two critical sections (`tick_list_update`
  and `time_slice_update`) are two steps, other interrupts may come between them;
* `held[t][m]` is a history variable: the successful gets of `m` that `t` was told of and has
  not given back. `MutualExclusion` compares it with the kernel's own idea of the owner;
* `obj_type` is the type of an object that is not a mutex; a queue's `ring` is its memory, byte by byte, with
  `head`, `tail` and `freesize`; a byte that was taken out becomes `FREE` and a write beyond the end would widen the
  domain, so that slips of the arithmetic are visible. A message of a `kqueue_t`, a pointer, is one cell;
* `got` is the message that a receive returned in the last step, and `msg` what a waiting task was handed: the
  two are what `RhinoFifo` sees besides the contents;
* a flag word is a set; `cur_event_flags`, the local variable of `event_set`, lives across the steps of its loop;
* timers: `due` is `match - g_timer_count` and `lag` the ticks since `g_timer_count` was set. Values beyond the largest
  period act alike, so an overdue timer is at -1;
* work queue: `gives` counts callers that left their critical section and have not given the semaphore yet, `cancels` the
  cancellations between the read of `work->wq` and the critical section, `cancelled` is a history variable;
* key-value store: `flash` is what survives; `info`, `write_pos`, `clean_blk_nums` are the cache; `todo` holds the flash
  writes the holder of the lock has yet to do, so that each write is a step; `legal[k]` (history) are the values a key may
  have: one after a call returned, two while it runs or when the power failed in it; `lossy` (history) marks a
  power failure in the window of section 6. The power may also fail within the write of an item: its header is there, its crc is wrong.

### Actions

One action per call or handler. A critical section without a loop is one step. A section with
a loop (`task_pri_change` along owners, waking all waiters of a deleted object, freeing all
mutexes of a deleted task, expiring ticks) is a first step that puts the rest into `todo`, and
one step per round of the loop; nothing else is enabled while `todo` is not empty, so the section
is still atomic for everyone else. This keeps recursion out of the model, which the prover needs,
and lets the invariants that hold only between sections say so (`todo = <<>> => ...`).

A call that returns an error before it changes anything is a stuttering step and has no action:
its condition is the guard of the action. Calls with `RHINO_NO_WAIT` change nothing when they
cannot succeed. `k_err_proc` in `krhino_mutex_lock` at the largest nesting count stops the
system by its comment; the guard ends there.

Not represented: names, stacks, hooks, traces, statistics and the object lists of `g_kobj_list`.
Application rules taken for granted: a call is given a task that was created (only `task_redel`
passes a deleted one), and an object's memory is not reused while a call is still inside it.

## 3. Runs

Each run chooses the calls that its question needs (`Calls`, `IsrCalls`); all runs include the
scheduler and, where it matters, the tick. An idle task is always there.

| run | instance | states | shows |
|---|---|---|---|
| `mutexes` | 3 tasks, 3 priorities, 2 mutexes deleted and created again, waits for ever or 1 tick | 2 730 000 | inheritance and ownership exact, mutual exclusion, no inversion |
| `reprio` | the same without deletion, priorities changed at any time | 67 000 | inheritance exact, blocked lists exact and sorted |
| `waits` | 2 tasks, 1 mutex, nested gets, suspend, resume, abort, cancel | 1 200 000 | types, tick list, reschedule, counts, one answer per wait |
| `tasks` | 2 tasks, of equal priority at first, deleted (twice), created, re-prioritised; sleeps of 1 and 2 ticks; interrupts nested twice that resume tasks, time slices, yield, scheduler lock | 1 410 000 | running task is ready, ready queue and tick list exact |
| `live` | 2 equal tasks, 1 mutex, fairness, slices of 2 ticks | 12 000 | timed waits end, equal tasks share the CPU |
| `ipc` | 2 tasks, 1 object of any kind, in turn; 1 token or 2 messages, a ring of 6 bytes, 2 flags; gives, sends, receives and sets from interrupts; timeouts of 1 tick, cancellation | 1 170 000 | semaphores, queues (with the refinement), event flags |
| `timer` | an application's timer (once or periodic, 1 or 2 ticks) and the timer of a delayed work, a command queue of one place, fairness | 196 000 | list exact and in order, active timers fire, queued works run |
| `work` | 2 works without delay and a delayed one, 2 callers between section and give | 584 000 | tokens match works, queued once, cancel holds |
| `kv` | 2 tasks, 2 keys, 2 values, blocks of 2 items, any number of power failures | 1 120 000 | no loss and no revival, one item per key, cache exact |
| `stale_switch`, `nested_after_del`, `kv_power_loss` | 1 or 2 tasks | | the findings of section 6 |

Why the bounds are enough for the cases meant: three tasks and two mutexes give a chain of
two owners (the middle task owns one mutex and waits for the other), two waiters on one mutex, and
deadlocks of two; one and two ticks give an entry that expires, one that does not, and insertion
before and behind another; counters of largest value 1 or 2 (`MaxSuspend`, `MaxNested`, `MaxSchedLock`,
`MaxCount`) make overflow checks bite; two interrupt levels give an interrupt inside the tick handler.
With records of 3 and 4 bytes (2 of them the length) in a ring of 6, the length and the data
are split at every place where they can be, and the ring gets exactly full. Two tasks give two waiters with different
requests on one event. A command queue of one place makes calls fail while the timer task is late. A block of two
items fills after two writes, so that collections follow each other quickly and the recovery meets them at every stage; two blocks are what every
build has (`KV_CONFIG_TOTAL_SIZE` and `KV_CONFIG_BLOCK_SIZE_BITS` are set nowhere, kv_conf.h:9-28). An instance of
three items per block (4.7 million states) was checked as well and shows the same.

Bounds of the model that are not in the code: `MaxGives` (callers in `krhino_work_run` at once), `MaxSem` (tokens in
`gc_sem`) and `MaxPosts` (collections that have ended and not posted yet). Time is relative, and the other counters are limited by
the code itself. Symmetry is used in `kv` and `kv_power_loss` only, for keys and values, which are compared and nothing else; tasks
differ in priority. Deadlock is checked in every run: the idle task, the tick or a power failure always has a step.

## 4. Properties

* `TypeOK`: types, counters within their C types.
* `ReadyQueueExact`: the ready queue holds exactly the `K_RDY` tasks, once, at their present priority;
  `highest_pri` is right.
* `PendListExact`: a blocked list holds exactly the tasks that pend on the object, sorted by the
  priorities of the moment.
* `TickListExact`: who is on the tick list, sorted; nothing overdue between ticks.
* `OwnershipExact`, `MutualExclusion`, `NestedCountExact`: the kernel's owner, the task's list of
  mutexes, what the tasks were told and the nesting count agree.
* `InheritanceExact`: a task's priority is the best of its own and those of all tasks that wait for its
  mutexes. `NoPriorityInversion`: what this is for.
* `NoMissedReschedule`, `SwitchTargetIsHighest`, `RunningIsReady`: who is on the CPU.
* `SuspendCountSound`: no resume takes what is not there.
* `OneAnswerPerWait`: what a step may never do.
* `TimedWaitEnds`, `EqualsShareCpu`: progress.
* `NoTokenBesideWaiters`, `NoMessageBesideWaiters`, `NoSatisfiedWaiter`: nobody sleeps beside what he waits for.
  `NoWaiterOnDeadObject`: nobody waits for what is gone.
* `TokensConserved`: every give makes one token, in the counter or in the hand of the waiter it wakes; every other change
  of the number of tokens is a take that succeeds, a set of the count, or the
  loss of a token with its holder, who was deleted or told that he is cancelled.
* `SetServesAll`: `event_set` serves every waiter that its flags satisfied when it was called.
* `RingSound`: no byte outside, `freesize` accounts for every byte.
* `ImplementsFifo`: `IpcSpec` implements `RhinoFifo`. The channel is what a reader finds who decodes the ring from
  `head` on, the box of a process is the message it was handed while waiting. So every receive returns the oldest
  message, whole; a message goes past the queue only when the queue is empty; and it is lost only with a receiver that is cancelled or
  deleted, or in a flush or deletion.
* `TimerListExact`, `OrderKept`, `ActiveTimerFires`: the list of timers, its order, and that every active timer gets
  its turn.
* `TokensMatchWorks`, `QueuedOnce`, `QueuedWorkRuns`, `CancelHolds`: the worker finds a work for every token, no work is
  twice in the list, a queued one runs, a cancelled one (without delay) does not.
* `NoLossNoRevival`, `OneLiveItem`, `CacheExact`, `PowerFailSafe`: after any number of power failures a key has the value of
  the last call that succeeded, or of one that was interrupted; never an older one; the cache is right. `PowerFailSafe` is
  the promise of the documentation and fails in one window (section 6), which `NoLossNoRevival` excepts.

`InheritanceExact` is checked without task deletion: `task_mutex_free` does not adjust the
priority of the new owner, so the property is not claimed there. `SwitchTargetIsHighest` holds while only
the tick interrupts (`waits`), and fails with other interrupts (section 6).

Every property of a passing run has a mutant in `PROJECT.json`: a definition (`X_Suffix`, next to
`X`) with a plausible slip under which TLC finds the property violated.

## 5. Fairness

`FairSpec` assumes: a critical section, once begun, ends, interrupt handlers end and a pending PendSV is
taken (weak fairness of `Continue`, `TickProc`, `TimeSliceUpdate`, `IntrptExit`, `PendSV`: straight-line
code, and hardware); SysTick keeps coming although sections and handlers mask it again and again (strong
fairness of `TickEnter`: the hardware keeps the tick pending); a task on the CPU that is inside a kernel call
gets on with it although ticks interrupt it (strong fairness of `CoreSched` and `PendStateEndProc`: an
instruction stream that is interrupted infinitely often still advances). No task is obliged to make or to
finish anything of its own: a task may hold a mutex for ever, and `TimedWaitEnds` holds all the same.

`WorkSpec` assumes weak fairness of the timer task, of the worker and of a call that has begun, and of the tick: both tasks
get the CPU again and again unless the application starves them, works and callbacks are taken to end, and nobody is
obliged to make a call. `ActiveTimerFires` needs nothing else; it excepts a program that goes on restarting
timers with `krhino_timer_arg_change_auto` (section 6).

`KvStore` has no fairness: no liveness is claimed of it, for the reason given in section 6.

## 6. Findings

Three runs show behaviour of the code that differs from what its comments or documents say.

* `stale_switch` (`k_sys.c:178`): `krhino_intrpt_exit` returns early when the best task is the one on the CPU,
  and leaves a switch that `core_sched` requested before. PendSV then starts a task that is
  not the best ready one, contrary to the comments on `g_preferred_ready_task`.
* `nested_after_del` (`k_task.c:682`): the mutex of a deleted task goes to its waiter with the nesting count of
  the dead owner.
* `kv_power_loss` (`kv.c:304`): an item keeps the `origin_off` of the update that made it, while collections move it between
  the two blocks. After two of them it can lie at exactly that place. The next collection copies it, and the copy now
  names its own source as the item it replaces. If the power fails before the source block is formatted, the recovery deletes the
  source on behalf of the copy, then finds the copy in a block that is still marked clean, and formats that. The key is gone.

Other things met while modelling, which no run is about:

* `krhino_task_del` of a deleted task calls `task_mutex_free` before it looks at the state (`k_task.c:739`, `krhino_task_dyn_del` looks
  first), and the `mutex_list` of a deleted task is never emptied: it frees mutexes that others own by now.
* `krhino_task_pri_change` tests for a deleted task outside its critical section (`k_task.c:571`): the priority of a task that is
  deleted in between is changed all the same, and the call ends in `k_err_proc`.
* `timer_list_pri_insert` compares unsigned (`k_timer.c:23`): a timer that is armed while another is overdue goes in front of it, so the
  list is not always sorted by the remaining time as the comment at `k_timer.c:267` says. The overdue timer waits until the one
  in front has fired; restarting timers in front of it again and again keeps it waiting.
* `krhino_timer_del` and `krhino_timer_change` return success for an active timer and do nothing (`k_timer.c:294`, `318`). A timer
  that is created again in memory whose DEL is still in the queue is deleted by it.
* A delayed work: `krhino_work_cancel` stops the timer only if the work was never queued (`work->wq == NULL`, `k_workqueue.c:247`);
  the timer may have fired before the STOP is read; and a STOP that finds the queue full is dropped while the call returns success. In
  all three the work runs after it was cancelled, so `CancelHolds` is about works without delay.
  `work_timer_cb` drops a delayed request silently while the work is queued or running (`k_workqueue.c:124-132`). A work that is run on two
  work queues may run on both at once: each looks at its own `work_current`.
* `buf_queue_dyn_create` ignores `type` (`k_buf_queue.c:115`), so a dynamic queue of fixed blocks is one of records. A queue of fixed
  blocks copies `blk_size` bytes of every message, also of a shorter one. A receive in an interrupt is refused when the interrupted
  task is cancelled.
* The key-value store reads and writes `gc_trigger` and `gc_waiter` outside the lock (`kv.c:874-875`, `708`), and `kv_trigger_gc` resets
  `gc_waiter` (`kv.c:63`). A setter that sees the trigger just before the collection ends, or whose count is reset, waits for a
  token that nobody gives; `krhino_sem_give_all` with nobody waiting leaves a single token. So a set may wait until the next collection or for ever. With three blocks or
  more, the search in `kv_calc_position` (`kv.c:184`) takes the reserved block as well, and its exit test is passed over when it wraps to
  block 0; no build has more than two.

## 7. Proofs

TLAPS proves the following for every number of tasks, objects, priorities, timers, works, keys, values and places in a block, every
set of calls and every limit of the counters.

| module | theorem | statement |
|---|---|---|
| `RhinoKernelProofs` | `Inductive` | `Spec => []IInv` |
| | `TypeCorrect` | `Spec => []TypeOK` |
| | `ReadyQueueCorrect` | `Spec => []ReadyQueueExact` |
| | `RunningCorrect` | `Spec => []RunningIsReady` |
| | `SuspendCountCorrect` | `Spec => []SuspendCountSound` |
| | `WaitInductive` | `Spec => []WaitIInv` |
| | `PendListCorrect` | `Spec => []PendListExact` |
| | `TickListCorrect` | `Spec => []TickListExact` |
| | `OneAnswerCorrect` | `Spec => OneAnswerPerWait` (an action property) |
| `RhinoMutexProofs` | `MutexInductive` | `Spec => []MutexIInv` |
| | `OwnershipCorrect` | `Spec => []OwnershipExact` |
| | `ExclusionCorrect` | `Spec => []MutualExclusion` |
| | `NestedCountCorrect` | `Spec => []NestedCountExact` |
| `RhinoPriorityProofs` | `InheritInductive` | `Spec => []InheritIInv` |
| | `InheritanceCorrect` | `Spec => []InheritanceExact` |
| | `SchedInductive` | `Spec => []SchedIInv` |
| | `RescheduleCorrect` | `Spec => []NoMissedReschedule` |
| | `SwitchTargetCorrect` | `Spec => []SwitchTargetIsHighest` |
| | `InversionBounded` | `Spec => []NoPriorityInversion` |
| `RhinoIpcProofs` | `IpcInductive` | `IpcSpec => []IpcIInv` |
| | `IpcPendListCorrect` | `IpcSpec => []PendListExact` |
| | `NoTokenLeft` | `IpcSpec => []NoTokenBesideWaiters` |
| | `NoMessageLeft` | `IpcSpec => []NoMessageBesideWaiters` |
| | `NoWaiterLeft` | `IpcSpec => []NoSatisfiedWaiter` |
| | `EventSetCorrect` | `IpcSpec => []SetServesAll` |
| | `DeletionCorrect` | `IpcSpec => []NoWaiterOnDeadObject` |
| | `TokenInductive` | `IpcSpec => []TokenIInv` |
| | `ConservationCorrect` | `IpcSpec => TokensConserved` (an action property) |
| | `IpcMutualExclusion` | `IpcSpec => []MutualExclusion` |
| `RhinoQueueProofs` | `QueueInductive` | `IpcSpec => []QueueIInv` |
| | `RingCorrect` | `IpcSpec => []RingSound` |
| | `FifoCorrect` | `IpcSpec => ImplementsFifo` (a refinement) |
| `RhinoWorkProofs` | `WorkInductive` | `WorkSpec => []WorkIInv` |
| | `TimerListCorrect` | `WorkSpec => []TimerListExact` |
| | `TimerOrderCorrect` | `WorkSpec => OrderKept` (an action property) |
| | `TokensCorrect` | `WorkSpec => []TokensMatchWorks` |
| | `QueuedOnceCorrect` | `WorkSpec => []QueuedOnce` |
| | `CancelCorrect` | `WorkSpec => []CancelHolds` |
| `KvProofs` | `KvInductive` | `Spec => []KvIInv` (`Spec` of `KvStore`) |
| | `CacheCorrect` | `Spec => []CacheExact` |
| | `OneItemCorrect` | `Spec => []OneLiveItem` |
| | `NoLossCorrect` | `Spec => []NoLossNoRevival` |

### Assumptions

On the constants:

* `KernelAssumption`: a well-formed boot configuration with the idle task alone at the lowest priority; applications do
  not create tasks at that priority, which `task_create` refuses;
* `SemAssumption`: initial counts fit the counter, and there are finitely many tasks (the tokens on their way to a task are counted);
* `RingAssumption`, `QueueAssumption`: a message is a non-empty sequence of bytes, a pointer one cell, and a message for fixed blocks fills its
  block; a queue has room for a message and a buffer for a byte; a length up to that of the buffer fits the `RING_BUF_LEN` bytes that store it. The creations and the
  sends refuse a size or number of 0 (`k_queue.c:25`, `k_buf_queue.c:20`, `:24`, `:236`), and `RING_BUF_LEN` is `sizeof(size_t)`;
* `EventAssumption`: a request or a set of flags comes with one of the four options, which
  `krhino_event_get` and `krhino_event_set` check;
* `TimerAssumption`, `WorkAssumption`: commands name timers, `TIMER_CMD_CHG` carries periods that
  `krhino_timer_change` has checked, each delayed work has a timer of its own;
* `KvAssumption`: a block has room for an item, the bounds of the model are positive, the prefix selects some of the keys, and what stands for nothing (no value, no item, no holder of
  the lock) is none of the things themselves. The number of blocks, two, is a definition, as it is in every build.

On the applications, as hypotheses of the theorems about tasks:

* `"task_suspend" \notin IsrCalls`: interrupt handlers do not suspend tasks. It is needed. Without it a handler may suspend
  the task that a pending PendSV is about to start; `krhino_intrpt_exit` does not always look again (the early return of
  section 6), and a suspended task runs;
* `"task_redel" \notin Calls` in `RhinoMutexProofs`, from `TokenInductive` on in `RhinoIpcProofs`, and in `FifoCorrect`: a deleted task is not deleted again. It is needed: the second
  `task_mutex_free` walks the old list of the task and takes mutexes that others own by now (section 6);
* no `task_del` in `NestedCountCorrect`: the mutex of a deleted task keeps the count of the dead owner, which
  is the finding `nested_after_del`;
* no `task_del` and `task_redel` in `RhinoPriorityProofs`: `task_mutex_free` hands mutexes over without a look at
  the priorities of their new owners, so inheritance is not exact then (section 4);
* `IsrCalls \subseteq {"tick"}` in the theorems from `SchedInductive` on: the tick is the only interrupt. It is needed for `SwitchTargetIsHighest` by the
  finding `stale_switch`. The task that a stale switch starts computes without being the best, so it is needed for `NoMissedReschedule` and
  `NoPriorityInversion` as well. The theorems about inheritance and all the others allow interrupts.

### The core: `IInv`

The four properties of `RhinoKernelProofs` are not inductive. Whether `ready_list_rm` keeps the queue exact depends on the
task being in it; that depends on where the section came from; that depends on who may be on the CPU. `IInv`
(`RhinoInductive`) collects what the code relies on without testing:

* `QueueExact` - the ready queue fits states and priorities (`ReadyQueueExact` with the types the lemmas need);
* `BlkExact` - the blocked lists fit states and `blk_obj`, so that the head that is woken really pends;
* `SuspendCountSound`;
* `IdleSound` - the idle task is ready at the lowest priority and alone there, so a search of the bitmap never fails;
* `CpuSound` - the target of a pending switch is ready, and the task on the CPU is ready unless a switch is
  pending or it is on its way into `core_sched`; with the scheduler locked it is ready in any case;
* `PendSound` - a pending task pends on what its call names, and a live mutex that is waited for has an owner
  (`task_pri_change` and `mutex_task_pri_reset` dereference it);
* `CallSound` - what passed the checks of `krhino_task_pri_change` still is neither the idle task nor its priority;
* `TodoSound` - the shape of the rest of a critical section, and what each part of it relies on.

`RhinoListsProofs` has the facts about sequences and the ready queue (adding, removing, rotating and
searching keep `SoundQueue`, and which tasks the lists hold afterwards) and about insertion into sorted lists;
`RhinoKernelProofs` has frame lemmas, lemmas on `todo`, one lemma per action, and the theorems.

### Waiting: `WaitIInv`

`WaitIInv` adds to `IInv` that every blocked list is sorted by the priorities of the moment, that the tick list holds the
sleeping tasks and no others than waiting ones, sorted, and that nothing in it is overdue except in the round of
`tick_list_update` that is about to expire it. For waiting, the forty actions are of seven kinds (`Kind`): no wait begins or ends; a wait ends;
a task that waits is deleted; a wait begins; a priority changes and the list is reordered; a task is created; time
moves on. Each action is shown to be of a kind, and the invariant is proved once for the kinds. `RhinoIpcProofs` uses the same
proof for waits on other objects. `OneAnswerPerWait` follows from `IInv` step by step: who ends a wait finds the task
waiting, and nobody looks at a task again whose wait is over.

### Owners of mutexes: `MutexIInv`

That `mutex_list` and `mutex_task` agree is true between critical sections only. `MutexIInv` says it of every state, with the *marks* of
the work in progress: a mutex whose `hand_over` is still to come has left the list of its owner but not its
`mutex_task`; of a dying task (`del_end` to come) the mutexes at and behind the position of the `mutex_free` loop are
left. `OwnerSound`: an owner exists and does not wait for its own mutex. `GrantSound`: the wait of a task for a mutex was a success exactly if
the task owns the mutex by now - whichever of hand-over, timeout, abort, suspension and deletion came first. `HeldSound`: who was
told that it has a mutex owns it; this gives `MutualExclusion`. `CountIInv` adds that the count is the number of gets that were not given back, 1 while
the first one has not returned.

### Priority inheritance: `InheritIInv`

`InheritanceExact` is about the moments between critical sections, while `task_pri_change` walks along a chain of owners round by round.
`Inherited` says it of every state: each task has the priority due to it, its `Aim`, which for the target of the change in progress is the
priority it is about to get, and who is on the way into a wait in `krhino_mutex_lock` counts as a waiter. The rest makes this
inductive. `ChainSound`: there is one change at a time, at the head of the rest of the section; in `krhino_mutex_lock` it only raises, up to
the caller's priority; in `krhino_mutex_unlock` it concerns the caller alone. `DeadSound`: who waits for a deleted mutex is about to be
woken. It matters because `krhino_mutex_del` takes the mutex off its owner's list first and wakes the waiters afterwards.
From `WaitIInv` comes that blocked lists are sorted, so that `mutex_pri_look`, which reads only the first waiter of each mutex, finds the
best of all (`LookFits`); from `CountIInv` that a task which waits for a mutex has an owner to inform.

That the chain ends is not in the theorem: a cycle of owners is a deadlock of the application; within a section the change either stops
at a task whose priority is right or goes on to the next owner, and the invariant holds along the way.

### Who is on the CPU: `SchedIInv`

`SchedIInv` adds to `InheritIInv` three facts. `SwitchSound`: a pending switch waits for nothing but PendSV, and its target is a best
ready task. `CpuBest`: who computes is a best task, or is on its way into `core_sched`, or has locked the scheduler. `SectionSound`: the section of a
task either ends in `core_sched` or makes no task ready and changes no priority.

The hard case of the last one is `krhino_mutex_unlock` without waiters, which returns without `core_sched` but may lower the
priority of the caller first (`mutex_release`). That is right only because of inheritance: with no waiter on the mutex, the priority that `mutex_release` finds
is the one the caller has. `UnlockSched` derives this from `Inherited` before and after the step: both priorities fit the same
waiters, and only one does (`FitsOnce`). `NoPriorityInversion` follows from the two invariants: the owner has at least the waiter's priority and is
ready, and who computes is best.

### Objects on the core: `IpcIInv`

The calls on the three kinds of objects have a few forms, those of `RhinoObj` (create, delete, block, wake, and a call that changes the
object alone). A form says what happens to the lists of waiters (`SettledBut`): the object that is named aside, no list gets new
waiters. With that, the conjuncts about the objects are proved call by call: `TokenSound`, `MessageSound`, `EventSound`. In the
loop of `event_set` the last one is broken for a while; `LoopSound` says what holds there: no waiter before
the position of the loop is met by the flags the loop was called with, although the loop removes tasks from the list it walks and a served
waiter may clear flags. `SetServesAll` is `LoopSound` at the end of the list.

### Tokens in flight: `TokenIInv`

A token is in the counter, or in the hand of a task that was woken with it and has not returned from `krhino_sem_take` yet (`Granted`).
The hand is not written down anywhere in the kernel: that the wait of a task on a semaphore ended with `BLK_FINISH` is all there is. So
`TokensConserved` has to show that no step but a give ends a wait this way, and that a task keeps the answer until it returns.
`TokenIInv` is `IpcIInv` and `MutexIInv`, which says the same of mutexes - whose hand-overs also end waits with
`BLK_FINISH` -, and two facts. `CancelSound`: who waits for a semaphore, queue or event was not cancelled, so that a task that is handed a token will not leave without it unnoticed.
`WakeSound`: the loops of broadcasting sends and of `event_set` are about no semaphore, so that they hand out messages and flags, never tokens.

Each step of the composition is then one of three: no hand changes (`Still`, `Kept`); one waiter of one object is served
(`Hands`); one task returns with what it has, is deleted or is cancelled (`Drops`). The steps of the core, which know nothing of
semaphores, are shown to be of the first or the last kind (`CoreGranted`), the calls on the objects of the first or the second; `Balanced` adds the counter. The sum of counter and hands is finite because tasks are.

### Messages: `QueueIInv` and `FifoIInv`

The first half of `RhinoQueueProofs` is about the ring buffer alone. A ring is read as a line of bytes that begins at `head`: `At(r, p)` is
the place of its p-th byte, whatever `head` is and whether it stands at the end of the memory or at 0. A push appends to that line
(`Added`) and a pop takes from its front (`Removed`), also when `ringbuf_push` and `ringbuf_pop` split the bytes, and the length they store
comes back as it was. So a ring holds a sequence of messages (`Holds`) when its line is their records one behind the other and
`freesize` is the rest; and a reader who follows the stored lengths, as `Contents` does, finds just these messages
(`ContentsAre`). Where an induction is needed, over the bytes of a length or the records in a ring, it is over a set of naturals by least elements
(`NatInd`), as the library's theorems cannot be used.

`QueueIInv` is `IpcIInv` and `QueueSound`: the ring of every queue holds as many messages as `cur_num` says. `RingSound` follows.

`FifoIInv` adds what is true of a message between the sender that hands it over and the receiver that returns with it. `MsgSound`: only a task inside a receive
has one, and every waiter that `krhino_queue_all_send` is about to wake has it already. As with tokens, the step that ends the wait with `BLK_FINISH` is
all that says a task was handed its message, so `FifoIInv` contains `TokenIInv`, whose `CancelSound` is needed again. Its
`MessageSound` says that a queue with waiters is empty between critical sections, which makes it right that a message for a waiter goes past the queue. Each step
then leaves messages alone (`Undisturbed`), changes one queue (`OnQueue`), serves one waiter of an empty queue (`Serves`), or
ends a receive with its message; each is a step of `RhinoFifo` or a stutter (`FifoMove`).

### Timers and works: `WorkIInv`

The list of timers fits the states of the timers (`SoundTimers`); the position at which `timer_cb_proc` stands is in the list before,
in and after the callback (`TimerTaskSound`), although the callback may make any call; tokens, gives on their way and the state of the worker account
for the works in the list; `NoQueueNoWork`: what `krhino_work_cancel` concludes from `work->wq` without a lock is
true of works without delay. `OrderKept` is proved for steps that start with no timer overdue in the list, as it is stated.

### The key-value store: `KvIInv`

The three properties of `KvStore` are about the moments when the store is open and its lock free. What makes them true is the order of the writes, and
the power may fail between any two. `KvIInv` says for every state what the flash, the cache and the writes
that are left (`todo`) look like together, by the holder of the lock:

* a task, or nobody: `CallShape`. The other block is clean; the writes left are an item for the place behind the last, and deletions with their mark. Two
  items with a key are there only while the deletion of the one that the other names as its origin is still to come. `Values`: a key that must
  have a value has an item that will not go, or the write of one comes first; this is why `kv_item_update` stores the new item
  before it deletes the old one. `Outcome`: what the call is to make so will be so when its writes are done;
* the collection: before the erase (`Copying`) all items are in the source, the target has the first of them and `todo` lists the rest, in
  order; after it (`Copied`) they are in the target, which is still marked clean; or there is nothing to do;
* the start: `BootShape`. What it finds is either `Single`, all items in one block, possibly with a pair of an old and a new item and one
  whose crc is wrong, or `Double`, an interrupted collection whose target has some copies. In `Double` the target is the block that is marked clean and has items, so
  that the recovery formats it (`BootRead`, `Unfit`), and the deletions on behalf of copies in it hit the source only in the
  window of section 6 (`Copies`, where `lossy` is set). In `Single` the traversal deletes one of each pair when it has passed the newer one (`BootTwins`).

A power failure turns the first two into the third (`CrashShape`): a call leaves `Single`; `Copying` leaves `Double`, or `Single` if nothing was copied yet; `Copied`
leaves `Single` whether the source has its new header or not. A failure in the recovery leaves `Single` or `Double` again (`CrashBoot`). The recovery ends in
`CallShape` of the block that has the items (`BootEndShape`). The writes of each holder have lemmas of their own (`CallWriteShape`, `GcWriteShape`,
`BootWriteShape`), so that each write is one proof step, as it is one step of the model. `CacheExact`, `OneLiveItem` and
`NoLossNoRevival` are then read off `CallShape` with `todo` empty (`QuietFacts`), with `OpenSearch` for what `kv_item_search` finds.

The bound `MaxPosts` and the blocking of setters play no part in the invariant: the
theorems are about safety, and the lost wake-ups of section 6 do not touch the flash.

### Only model-checked

* Liveness (`TimedWaitEnds`, `EqualsShareCpu`, `ActiveTimerFires`, `QueuedWorkRuns`): out of the prover's reach for good.
* `PowerFailSafe` of `KvStore` is false (section 6); `NoLossCorrect` is what holds instead.

## 8. Not modelled, and plan

Not modelled:

* the heap (`k_mm.c`), which works on headers inside the memory it manages, and the block pools;
* the life of the memory of dynamic objects: `krhino_*_dyn_del` and the deferred freeing of `k_dyn_mem_proc.c`. The dynamic calls
  differ from the static ones in nothing else;
* the multi-CPU build, tickless sleep, hooks, traces, statistics, stack checks;
* in the key-value store: items of different lengths, errors of the flash and of `malloc`, a power failure within an erase (an erase
  is complete or did not begin), more than two blocks, `kv_deinit`, encryption, shell;
* the layers above: file system, network, cloud clients, security, drivers and boards. They are protocols with peers outside the
  repository, wrappers, or vendor code; `PROJECT.json` lists them with the reasons.

The modules are written to be proved about: no recursive operators, one action per operation, assumptions named. Every safety property
that a run checks and that the code keeps has a theorem. What would extend the model: block pools, and the dynamic deletion of objects
together with the task that frees them.

SPECIFICATION Spec
CONSTANTS
    NULL = NULL
    idle = idle
    a = a
    b = b
    c = c
    m1 = m1
    m2 = m2
    IdleTask = idle
    Tasks = {idle, a, b}
    Mutexes = {m1}
    Others = {}
    PriMax = 3
    Boot <- BootEqual
    Waits <- OneOrTwo
    NewPris = {0, 1}
    Calls = {"task_sleep", "task_suspend", "task_resume", "task_yield", "task_pri_change", "task_del", "task_redel", "task_create", "sched_disable", "sched_enable", "sched_policy_set", "task_time_slice_set"}
    IsrCalls = {"tick", "task_resume"}
    TimeSlices = {0}
    TimeSliceDefault = 1
    MaxSuspend = 1
    MaxNested = 2
    MaxSchedLock = 1
    MaxIntrpt = 2
INVARIANT RunningIsReady
INVARIANT ReadyQueueExact
INVARIANT TickListExact

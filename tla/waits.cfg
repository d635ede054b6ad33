SPECIFICATION Spec
CONSTANTS
    NULL = NULL
    idle = idle
    a = a
    b = b
    c = c
    m1 = m1
    m2 = m2
    IdleTask = idle
    Tasks = {idle, a, b}
    Mutexes = {m1}
    Others = {}
    PriMax = 3
    Boot <- BootPair
    Waits <- ForeverOrOne
    NewPris = {1}
    Calls = {"mutex_lock", "mutex_unlock", "task_sleep", "task_suspend", "task_resume", "task_wait_abort", "task_cancel"}
    IsrCalls = {"tick"}
    TimeSlices = {0}
    TimeSliceDefault = 1
    MaxSuspend = 2
    MaxNested = 2
    MaxSchedLock = 1
    MaxIntrpt = 1
INVARIANT TypeOK
INVARIANT TickListExact
INVARIANT NoMissedReschedule
INVARIANT SuspendCountSound
INVARIANT SwitchTargetIsHighest
INVARIANT NestedCountExact
PROPERTY OneAnswerPerWait

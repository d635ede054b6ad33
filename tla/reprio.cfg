SPECIFICATION Spec
CONSTANTS
    NULL = NULL
    idle = idle
    a = a
    b = b
    c = c
    m1 = m1
    m2 = m2
    IdleTask = idle
    Tasks = {idle, a, b, c}
    Mutexes = {m1, m2}
    Others = {}
    PriMax = 4
    Boot <- BootChain
    Waits <- Forever
    NewPris = {0, 2}
    Calls = {"mutex_lock", "mutex_unlock", "task_pri_change"}
    IsrCalls = {}
    TimeSlices = {0}
    TimeSliceDefault = 1
    MaxSuspend = 2
    MaxNested = 1
    MaxSchedLock = 1
    MaxIntrpt = 1
INVARIANT InheritanceExact
INVARIANT PendListExact

SPECIFICATION Spec
CONSTANTS
    NULL = NULL
    idle = idle
    a = a
    b = b
    c = c
    m1 = m1
    m2 = m2
    IdleTask = idle
    Tasks = {idle, a, b, c}
    Mutexes = {m1, m2}
    Others = {}
    PriMax = 4
    Boot <- BootChain
    Waits <- ForeverOrOne
    NewPris = {0}
    Calls = {"mutex_lock", "mutex_unlock", "task_sleep", "mutex_del", "mutex_create"}
    IsrCalls = {"tick"}
    TimeSlices = {0}
    TimeSliceDefault = 1
    MaxSuspend = 2
    MaxNested = 1
    MaxSchedLock = 1
    MaxIntrpt = 1
INVARIANT OwnershipExact
INVARIANT InheritanceExact
INVARIANT MutualExclusion
INVARIANT NoPriorityInversion

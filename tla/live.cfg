SPECIFICATION FairSpec
CONSTANTS
    NULL = NULL
    idle = idle
    a = a
    b = b
    c = c
    m1 = m1
    m2 = m2
    IdleTask = idle
    Tasks = {idle, a, b}
    Mutexes = {m1}
    Others = {}
    PriMax = 3
    Boot <- BootEqual
    Waits <- One
    NewPris = {0}
    Calls = {"mutex_lock", "mutex_unlock", "task_sleep", "task_suspend", "task_resume"}
    IsrCalls = {"tick"}
    TimeSlices = {0}
    TimeSliceDefault = 2
    MaxSuspend = 1
    MaxNested = 1
    MaxSchedLock = 1
    MaxIntrpt = 1
PROPERTY TimedWaitEnds
PROPERTY EqualsShareCpu

SPECIFICATION Spec
CONSTANTS
    NULL = NULL
    idle = idle
    a = a
    b = b
    c = c
    m1 = m1
    m2 = m2
    IdleTask = idle
    Tasks = {idle, a, b}
    Mutexes = {m1}
    Others = {}
    PriMax = 3
    Boot <- BootPair
    Waits <- One
    NewPris = {1}
    Calls = {"task_suspend"}
    IsrCalls = {"task_resume"}
    TimeSlices = {0}
    TimeSliceDefault = 1
    MaxSuspend = 1
    MaxNested = 2
    MaxSchedLock = 1
    MaxIntrpt = 1
INVARIANT SwitchTargetIsHighest

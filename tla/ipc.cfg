SPECIFICATION IpcSpec
CONSTANTS
    NULL = NULL
    idle = idle
    a = a
    b = b
    c = c
    m1 = m1
    m2 = m2
    o1 = o1
    IdleTask = idle
    Tasks = {idle, a, b}
    Mutexes = {}
    Others = {o1}
    PriMax = 3
    Boot <- BootPair
    Waits <- One
    NewPris = {0}
    Calls = {"sem_take", "sem_give", "sem_give_all", "sem_count_set", "sem_del", "sem_create", "queue_send", "queue_all_send", "queue_recv", "queue_flush", "queue_create", "queue_del", "event_get", "event_set", "event_create", "event_del", "task_cancel"}
    IsrCalls = {"tick", "sem_give", "queue_send", "queue_recv", "event_set"}
    TimeSlices = {0}
    TimeSliceDefault = 1
    MaxSuspend = 1
    MaxNested = 2
    MaxSchedLock = 1
    MaxIntrpt = 1
    SemCounts = {0, 1}
    MaxCount = 1
    RingBufLen = 2
    PtrMsgs <- OneByte
    FixMsgs <- TwoBytes
    DynMsgs <- Mixed
    MsgNum = 2
    DynSize = 6
    QueueKinds = {"PTR", "FIX", "DYN"}
    Flags = {1, 2}
    EventGets <- Gets
    EventSets <- Sets
INVARIANT NoTokenBesideWaiters
INVARIANT NoWaiterOnDeadObject
INVARIANT PendListExact
INVARIANT NoMessageBesideWaiters
INVARIANT RingSound
INVARIANT NoSatisfiedWaiter
INVARIANT SetServesAll
PROPERTY TokensConserved
PROPERTY ImplementsFifo

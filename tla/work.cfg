SPECIFICATION WorkSpec
CONSTANTS
    NULL = NULL
    t1 = t1
    tw = tw
    now = now
    soon = soon
    later = later
    Wq = Wq
    Timers = {tw}
    DynTimers = {tw}
    Running = {tw}
    MaxTicks = 1
    Periods <- OnceOnly
    MsgNum = 1
    Cmds <- NoCmds
    Works = {now, soon, later}
    TimerOf <- OneDelayed
    MaxGives = 2
INVARIANT TokensMatchWorks
INVARIANT QueuedOnce
INVARIANT CancelHolds

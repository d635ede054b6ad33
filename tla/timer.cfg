SPECIFICATION WorkSpec
CONSTANTS
    NULL = NULL
    t1 = t1
    tw = tw
    now = now
    soon = soon
    later = later
    Wq = Wq
    Timers = {t1, tw}
    DynTimers = {tw}
    Running = {t1, tw}
    MaxTicks = 2
    Periods <- OnceAndRound
    MsgNum = 1
    Cmds <- AppCmds
    Works = {later}
    TimerOf <- OneDelayed
    MaxGives = 1
INVARIANT TimerListExact
PROPERTY OrderKept
PROPERTY ActiveTimerFires
PROPERTY QueuedWorkRuns

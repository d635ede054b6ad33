------------------------------- MODULE MCWork -------------------------------
(* Small instances of the timers and the work queue.                         *)
EXTENDS RhinoWork, TLC

CONSTANTS t1, tw, now, soon, later

OneDelayed == (later :> tw)

\* One tick or two, once or again and again.
OnceAndRound == {<<1, 0>>, <<2, 1>>}
OnceOnly == {<<1, 0>>}

\* The commands for the application's timer; the timer of the delayed work is
\* stopped and restarted by the calls for the work.
AppCmds ==
    {Cmd("TIMER_CMD_START", t1, 0, NULL), Cmd("TIMER_CMD_DEL", t1, 0, NULL),
     Cmd("TIMER_CMD_CHG", t1, 1, 0)}
NoCmds == {}
=============================================================================

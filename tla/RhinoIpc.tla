------------------------------ MODULE RhinoIpc ------------------------------
(***************************************************************************)
(* The kernel core with all the objects that tasks and interrupts          *)
(* communicate through: semaphores, queues and event flags.                *)
(***************************************************************************)
EXTENDS RhinoSem, RhinoQueue, RhinoEvent

ipcVars == <<vars, obj_type, count, queueVars, eventVars>>

IpcInit ==
    /\ Init
    /\ obj_type \in [Others -> Kinds]
    /\ SemInit
    /\ QueueInit
    /\ EventInit

IpcNext ==
    \/ Next /\ QueueCore /\ EventCore /\ UNCHANGED <<obj_type, count>>
    \/ SemCall /\ UNCHANGED <<queueVars, eventVars>>
    \/ QueueCall /\ UNCHANGED <<count, eventVars>>
    \/ EventCall /\ UNCHANGED <<count, queueVars>>

IpcSpec == IpcInit /\ [][IpcNext]_ipcVars
=============================================================================

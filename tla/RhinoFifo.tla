------------------------------ MODULE RhinoFifo ------------------------------
(***************************************************************************)
(* What the message queues and buffer queues of the kernel promise: first  *)
(* in, first out, nothing lost, forged or torn.  A message goes into the   *)
(* channel, or, only while the channel is empty, straight to a process     *)
(* that waits, which returns with it later.                                *)
(***************************************************************************)
EXTENDS Naturals, Sequences

CONSTANTS Chans, Procs, Msgs, NoMsg, Capacity

VARIABLES
    chan,   \* the messages in each channel
    box,    \* the message a process was handed and has not returned with yet
    got     \* the message that a receive just returned, or NoMsg

fifoVars == <<chan, box, got>>

FifoInit ==
    /\ chan = [c \in Chans |-> <<>>]
    /\ box = [p \in Procs |-> NoMsg]
    /\ got = NoMsg

Send(c, m) ==
    /\ Len(chan[c]) < Capacity
    /\ chan' = [chan EXCEPT ![c] = Append(@, m)]
    /\ got' = NoMsg
    /\ UNCHANGED box

HandOver(c, p, m) ==
    /\ chan[c] = <<>> /\ box[p] = NoMsg
    /\ box' = [box EXCEPT ![p] = m]
    /\ got' = NoMsg
    /\ UNCHANGED chan

Recv(c) ==
    /\ chan[c] # <<>>
    /\ got' = Head(chan[c])
    /\ chan' = [chan EXCEPT ![c] = Tail(@)]
    /\ UNCHANGED box

Return(p) ==
    /\ box[p] # NoMsg
    /\ got' = box[p]
    /\ box' = [box EXCEPT ![p] = NoMsg]
    /\ UNCHANGED chan

\* The process is cancelled or deleted before it returns.
Lose(p) ==
    /\ box[p] # NoMsg
    /\ box' = [box EXCEPT ![p] = NoMsg]
    /\ got' = NoMsg
    /\ UNCHANGED chan

\* The channel is flushed or deleted.
Clear(c) ==
    /\ chan' = [chan EXCEPT ![c] = <<>>]
    /\ got' = NoMsg
    /\ UNCHANGED box

\* The receiver goes on.
Quiet ==
    /\ got' = NoMsg
    /\ UNCHANGED <<chan, box>>

FifoNext ==
    \/ Quiet
    \/ \E c \in Chans :
          \/ \E m \in Msgs : Send(c, m) \/ \E p \in Procs : HandOver(c, p, m)
          \/ Recv(c)
          \/ Clear(c)
    \/ \E p \in Procs : Return(p) \/ Lose(p)

FifoSpec == FifoInit /\ [][FifoNext]_fifoVars
=============================================================================

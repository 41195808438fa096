----------------------------- MODULE FrameFifo ------------------------------
(***************************************************************************)
(* What a receive ring promises: the frames the hardware accepts go up in  *)
(* their order, each once or not at all, and nothing else goes up.         *)
(***************************************************************************)
EXTENDS Naturals, Sequences

CONSTANTS
    Frames,
    ROOM       \* frames the queue can hold

VARIABLES
    queue,     \* frames accepted and not yet handled
    passed     \* the frame that went up last

fifoVars == <<queue, passed>>

FifoInit == queue = <<>>

Accept(f) ==
    /\ Len(queue) < ROOM
    /\ queue' = Append(queue, f)
    /\ UNCHANGED passed

PassUp ==
    /\ queue # <<>>
    /\ passed' = Head(queue)
    /\ queue' = Tail(queue)

Discard ==
    /\ queue # <<>>
    /\ queue' = Tail(queue)
    /\ UNCHANGED passed

Empty ==
    /\ queue' = <<>>
    /\ UNCHANGED passed

FifoNext == (\E f \in Frames : Accept(f)) \/ PassUp \/ Discard \/ Empty

FifoSpec == FifoInit /\ [][FifoNext]_fifoVars
=============================================================================

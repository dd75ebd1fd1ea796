----------------------------- MODULE FrameQueue -----------------------------
(***************************************************************************)
(* What the Ethernet driver promises for reception: the frames it hands    *)
(* over are those that came from the wire, each once, in their order and   *)
(* unchanged, as far as there was room for them and until a restart.       *)
(***************************************************************************)
EXTENDS Sequences

CONSTANTS
    Frames,         \* the frames that may come
    HandedOver(_)   \* what the caller gets of a frame

VARIABLES
    queue,      \* the frames that wait, oldest first
    handed      \* what was handed over

Init == queue = <<>> /\ handed = <<>>

Arrive == \E f \in Frames : queue' = Append(queue, f) /\ UNCHANGED handed

Take ==
    /\ queue # <<>>
    /\ handed' = HandedOver(Head(queue))
    /\ queue' = Tail(queue)

\* The caller is done with what was handed over.
Forget == handed' = <<>> /\ UNCHANGED queue

\* The waiting frames are lost.
Restart == queue' = <<>> /\ UNCHANGED handed

Next == Arrive \/ Take \/ Forget \/ Restart

Spec == Init /\ [][Next]_<<queue, handed>>

=============================================================================

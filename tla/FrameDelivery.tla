--------------------------- MODULE FrameDelivery ---------------------------
(***************************************************************************)
(* What the CAN receive pipeline promises from the controller to the       *)
(* handlers: a frame carries the instant of its reception; it is refused,  *)
(* and counted, only when as many as the ring holds wait to be handled;    *)
(* one that is not refused is handled, once, unchanged, and in the order   *)
(* of reception.  How many copies are made on the way, and when the ISR    *)
(* and the task run, does not show.                                        *)
(*                                                                         *)
(* CanPipeline implements this specification.                              *)
(***************************************************************************)
EXTENDS Naturals, Sequences

CONSTANTS
    Capacity,   \* frames the ring holds; one more can be in the task's hand
    Frames      \* the frames the controller can receive

VARIABLES
    now,        \* real time
    entering,   \* the frame with the ISR, or none: a sequence
    waiting,    \* the frames accepted and not yet handled
    refused,    \* number of frames refused
    handled     \* the frames handled, oldest first

deliveryVars == <<now, entering, waiting, refused, handled>>

Init ==
    /\ now = 0
    /\ entering = <<>> /\ waiting = <<>> /\ handled = <<>>
    /\ refused = 0

TimePasses ==
    /\ now' = now + 1
    /\ UNCHANGED <<entering, waiting, refused, handled>>

Receive(f) ==
    /\ entering = <<>>
    /\ f.at = now
    /\ entering' = <<f>>
    /\ UNCHANGED <<now, waiting, refused, handled>>

Accept ==
    /\ entering # <<>>
    /\ Len(waiting) <= Capacity
    /\ waiting' = Append(waiting, Head(entering))
    /\ entering' = <<>>
    /\ UNCHANGED <<now, refused, handled>>

Refuse ==
    /\ entering # <<>>
    /\ Len(waiting) >= Capacity
    /\ refused' = refused + 1
    /\ entering' = <<>>
    /\ UNCHANGED <<now, waiting, handled>>

Handle ==
    /\ waiting # <<>>
    /\ handled' = Append(handled, Head(waiting))
    /\ waiting' = Tail(waiting)
    /\ UNCHANGED <<now, entering, refused>>

Next == TimePasses \/ Accept \/ Refuse \/ Handle \/ \E f \in Frames : Receive(f)

Spec == Init /\ [][Next]_deliveryVars
=============================================================================

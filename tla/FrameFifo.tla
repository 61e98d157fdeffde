----------------------------- MODULE FrameFifo -----------------------------
(***************************************************************************)
(* What the ISR-to-task hand-off of the CAN receive pipeline promises: a   *)
(* bounded first-in first-out queue.  A frame offered to a full queue is   *)
(* dropped and counted; every accepted frame is handed out once, in order  *)
(* and unchanged.                                                          *)
(*                                                                         *)
(* CanRing implements this specification with two indices and an array.    *)
(***************************************************************************)
EXTENDS Naturals, Sequences

CONSTANTS
    Capacity,   \* most frames the queue holds
    Frames,     \* the frames that can be offered
    NoFrame     \* "nothing handed out yet"

VARIABLES
    queue,      \* frames accepted and not yet handed out
    dropped,    \* number of frames refused because the queue was full
    delivered   \* the frame handed out last

vars == <<queue, dropped, delivered>>

Init ==
    /\ queue = <<>>
    /\ dropped = 0
    /\ delivered = NoFrame

Accept(f) ==
    /\ Len(queue) < Capacity
    /\ queue' = Append(queue, f)
    /\ UNCHANGED <<dropped, delivered>>

Refuse ==
    /\ Len(queue) = Capacity
    /\ dropped' = dropped + 1
    /\ UNCHANGED <<queue, delivered>>

Deliver ==
    /\ queue # <<>>
    /\ delivered' = Head(queue)
    /\ queue' = Tail(queue)
    /\ UNCHANGED dropped

Next == Refuse \/ Deliver \/ \E f \in Frames : Accept(f)

Spec == Init /\ [][Next]_vars
=============================================================================

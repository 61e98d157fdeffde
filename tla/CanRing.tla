------------------------------ MODULE CanRing ------------------------------
(***************************************************************************)
(* The single-producer single-consumer ring of challenge_03_can_message_-  *)
(* handler.c: can_rx_ring_push runs in the receive ISR, can_rx_ring_pop in *)
(* the processing task, and nothing but the order of their memory accesses *)
(* protects the buffer ("no mutex needed").                                *)
(*                                                                         *)
(* Every access one side makes to memory the other side writes is a step   *)
(* of its own, so the ISR can preempt the task between any two of them.    *)
(* The steps of a push may interleave with those of a pop as well: a       *)
(* push on a single core is the special case in which they are contiguous. *)
(*                                                                         *)
(* A CanFrame is a struct that takes several stores to copy.  A slot is    *)
(* modelled as two halves, each naming the frame it was stored from; a     *)
(* slot whose halves differ holds a torn frame.                            *)
(***************************************************************************)
EXTENDS Naturals, Sequences

CONSTANTS
    Size,       \* CAN_RX_RING_SIZE
    Frames,     \* the frames the controller can receive
    NoFrame     \* the all-zero content left by memset

ASSUME SizeAssumption == Size \in Nat \ {0, 1}

VARIABLES
    buf,        \* ring->buf
    head,       \* ring->head, written by the task only
    tail,       \* ring->tail, written by the ISR only
    overflow,   \* ring->overflow_count
    isrPc,      \* where the ISR is in can_rx_ring_push
    isrFrame,   \* its argument *frame
    isrTail,    \* its local tail
    popPc,      \* where the task is in can_rx_ring_pop
    popHead,    \* its local head
    out,        \* the caller's *out while it is being copied
    returned    \* the frame the last successful pop returned

ringVars == <<buf, head, tail, overflow, isrPc, isrFrame, isrTail,
              popPc, popHead, out, returned>>

Slots == 0 .. Size - 1
Halves == Frames \cup {NoFrame}
Slot == [lo : Halves, hi : Halves]
Empty == [lo |-> NoFrame, hi |-> NoFrame]

(* (i + 1u) & CAN_RX_RING_MASK: Size is a power of two in the code, and    *)
(* both indices always stay below it.                                      *)
Succ(i) == (i + 1) % Size

(* can_rx_ring_init *)
Init ==
    /\ buf = [s \in Slots |-> Empty]
    /\ head = 0
    /\ tail = 0
    /\ overflow = 0
    /\ isrPc = "idle"
    /\ isrFrame = NoFrame
    /\ isrTail = 0
    /\ popPc = "idle"
    /\ popHead = 0
    /\ out = Empty
    /\ returned = Empty

-----------------------------------------------------------------------------
(* can_rx_ring_push, in the ISR.                                           *)

PushBegin(f) ==
    /\ isrPc = "idle"
    /\ isrPc' = "check"
    /\ isrFrame' = f
    /\ isrTail' = tail
    /\ UNCHANGED <<buf, head, tail, overflow, popPc, popHead, out, returned>>

(* Seeded fault: the early return on a full ring is missing.               *)
PushFullProceeds ==
    /\ isrPc = "check"
    /\ Succ(isrTail) = head
    /\ overflow' = overflow + 1
    /\ isrPc' = "lo"
    /\ UNCHANGED <<buf, head, tail, isrFrame, isrTail,
                   popPc, popHead, out, returned>>

(* The one load of head decides; overflow_count is private to the ISR.     *)
PushFull ==
    /\ isrPc = "check"
    /\ Succ(isrTail) = head
    /\ overflow' = overflow + 1
    /\ isrPc' = "idle"
    /\ UNCHANGED <<buf, head, tail, isrFrame, isrTail,
                   popPc, popHead, out, returned>>

PushRoom ==
    /\ isrPc = "check"
    /\ Succ(isrTail) # head
    /\ isrPc' = "lo"
    /\ UNCHANGED <<buf, head, tail, overflow, isrFrame, isrTail,
                   popPc, popHead, out, returned>>

(* Seeded fault: tail is stored before the frame is complete, as a         *)
(* compiler may order a plain store after a volatile one.                  *)
PushStoreLoPublishes ==
    /\ isrPc = "lo"
    /\ buf' = [buf EXCEPT ![isrTail].lo = isrFrame]
    /\ tail' = Succ(isrTail)
    /\ isrPc' = "hi"
    /\ UNCHANGED <<head, overflow, isrFrame, isrTail,
                   popPc, popHead, out, returned>>

PushStoreLo ==
    /\ isrPc = "lo"
    /\ buf' = [buf EXCEPT ![isrTail].lo = isrFrame]
    /\ isrPc' = "hi"
    /\ UNCHANGED <<head, tail, overflow, isrFrame, isrTail,
                   popPc, popHead, out, returned>>

PushStoreHi ==
    /\ isrPc = "hi"
    /\ buf' = [buf EXCEPT ![isrTail].hi = isrFrame]
    /\ isrPc' = "publish"
    /\ UNCHANGED <<head, tail, overflow, isrFrame, isrTail,
                   popPc, popHead, out, returned>>

PushPublish ==
    /\ isrPc = "publish"
    /\ tail' = Succ(isrTail)
    /\ isrPc' = "idle"
    /\ UNCHANGED <<buf, head, overflow, isrFrame, isrTail,
                   popPc, popHead, out, returned>>

PushStep ==
    PushFull \/ PushRoom \/ PushStoreLo \/ PushStoreHi \/ PushPublish

-----------------------------------------------------------------------------
(* can_rx_ring_pop, in the task.                                           *)

PopBegin ==
    /\ popPc = "idle"
    /\ popPc' = "check"
    /\ popHead' = head
    /\ UNCHANGED <<buf, head, tail, overflow, isrPc, isrFrame, isrTail,
                   out, returned>>

PopEmpty ==
    /\ popPc = "check"
    /\ popHead = tail
    /\ popPc' = "idle"
    /\ UNCHANGED <<buf, head, tail, overflow, isrPc, isrFrame, isrTail,
                   popHead, out, returned>>

PopNonEmpty ==
    /\ popPc = "check"
    /\ popHead # tail
    /\ popPc' = "lo"
    /\ UNCHANGED <<buf, head, tail, overflow, isrPc, isrFrame, isrTail,
                   popHead, out, returned>>

PopCopyLo ==
    /\ popPc = "lo"
    /\ out' = [out EXCEPT !.lo = buf[popHead].lo]
    /\ popPc' = "hi"
    /\ UNCHANGED <<buf, head, tail, overflow, isrPc, isrFrame, isrTail,
                   popHead, returned>>

PopCopyHi ==
    /\ popPc = "hi"
    /\ out' = [out EXCEPT !.hi = buf[popHead].hi]
    /\ popPc' = "advance"
    /\ UNCHANGED <<buf, head, tail, overflow, isrPc, isrFrame, isrTail,
                   popHead, returned>>

PopAdvance ==
    /\ popPc = "advance"
    /\ head' = Succ(head)
    /\ returned' = out
    /\ popPc' = "idle"
    /\ UNCHANGED <<buf, tail, overflow, isrPc, isrFrame, isrTail,
                   popHead, out>>

PopStep ==
    PopEmpty \/ PopNonEmpty \/ PopCopyLo \/ PopCopyHi \/ PopAdvance

-----------------------------------------------------------------------------
Next ==
    \/ \E f \in Frames : PushBegin(f)
    \/ PushStep
    \/ PopBegin
    \/ PopStep

Spec == Init /\ [][Next]_ringVars

-----------------------------------------------------------------------------
(* can_rx_ring_count *)
Count == IF tail >= head THEN tail - head ELSE Size - head + tail

(* The slots from head up to, not including, tail.                         *)
Occupied(s) ==
    IF head <= tail THEN head <= s /\ s < tail ELSE head <= s \/ s < tail

TypeOK ==
    /\ buf \in [Slots -> Slot]
    /\ head \in Slots
    /\ tail \in Slots
    /\ overflow \in Nat
    /\ isrPc \in {"idle", "check", "lo", "hi", "publish"}
    /\ isrFrame \in Halves
    /\ isrTail \in Slots
    /\ popPc \in {"idle", "check", "lo", "hi", "advance"}
    /\ popHead \in Slots
    /\ out \in Slot
    /\ returned \in Slot

(* A frame is never torn: every slot between head and tail holds one whole *)
(* frame even while the other side is half way through a copy.             *)
WholeFrames ==
    \A s \in Slots : Occupied(s) => buf[s].lo = buf[s].hi /\ buf[s].lo \in Frames

(* While the task copies a slot out, the ISR is never storing into it      *)
(* ("only one producer and one consumer - no mutex needed").               *)
NoSlotRace ==
    ~ /\ isrPc \in {"lo", "hi", "publish"}
      /\ popPc \in {"lo", "hi", "advance"}
      /\ isrTail = popHead

(* One slot always stays free, the price of telling full from empty with   *)
(* two indices: the test harness expects SIZE - 1 pushes to succeed.  A    *)
(* push that found room keeps it until it publishes.                       *)
KeepsOneSlotFree ==
    /\ Count <= Size - 1
    /\ isrPc \in {"lo", "hi", "publish"} => Count < Size - 1

-----------------------------------------------------------------------------
(* The strengthening that makes the invariants above inductive: the local  *)
(* copies of the indices are current, and what was stored or copied so far *)
(* is what the other half will agree with.                                 *)
Locals ==
    /\ isrPc # "idle" => isrTail = tail /\ isrFrame \in Frames
    /\ popPc # "idle" => popHead = head
    /\ isrPc \in {"lo", "hi", "publish"} => Succ(tail) # head
    /\ popPc \in {"lo", "hi", "advance"} => head # tail

HalfDone ==
    /\ isrPc \in {"hi", "publish"} => buf[tail].lo = isrFrame
    /\ isrPc = "publish" => buf[tail].hi = isrFrame
    /\ popPc \in {"hi", "advance"} => out.lo = buf[head].lo
    /\ popPc = "advance" => out.hi = buf[head].hi

RingInv == TypeOK /\ WholeFrames /\ Locals /\ HalfDone

-----------------------------------------------------------------------------
(* The abstract queue: the frames of the occupied slots, oldest first.     *)
NthSlot(i) == IF head + i <= Size THEN head + i - 1 ELSE head + i - 1 - Size
Queue == [i \in 1 .. Count |-> buf[NthSlot(i)].lo]

Fifo == INSTANCE FrameFifo WITH
            Capacity <- Size - 1, queue <- Queue,
            dropped <- overflow, delivered <- returned.hi

(* Through all interleavings of its loads and stores the ring behaves as   *)
(* the bounded FIFO of FrameFifo: no frame is lost, duplicated, reordered  *)
(* or altered, and a frame is refused only when SIZE - 1 are queued.       *)
ImplementsFifo == Fifo!Spec
=============================================================================

--------------------------- MODULE CanRing_proofs ---------------------------
(***************************************************************************)
(* Proofs, for every ring size and every set of frames, that the           *)
(* invariants of CanRing hold and that it implements FrameFifo.            *)
(***************************************************************************)
EXTENDS CanRing, SequenceTheorems, TLAPS

(* The masked increment stays below the size and only ever wraps to 0.     *)
LEMMA SuccIs ==
    ASSUME NEW i \in Slots
    PROVE  /\ Succ(i) = IF i = Size - 1 THEN 0 ELSE i + 1
           /\ Succ(i) \in Slots
  BY SizeAssumption DEF Slots, Succ

(* The ring starts in a state that satisfies the inductive invariant.      *)
LEMMA InitRingInv == Init => RingInv
  BY SizeAssumption
     DEF Init, RingInv, TypeOK, WholeFrames, Locals, HalfDone, Slots, Slot,
         Halves, Empty, Occupied

(* The steps of a push preserve the inductive invariant: only the free     *)
(* slot at tail is written, and tail moves when that slot is whole.        *)
LEMMA PushKeepsRingInv ==
    ASSUME RingInv, PushStep \/ \E f \in Frames : PushBegin(f)
    PROVE  RingInv'
  <1> USE SizeAssumption, SuccIs
      DEF RingInv, TypeOK, WholeFrames, Locals, HalfDone, Slots, Slot,
          Halves, Occupied
  <1>1. ASSUME NEW f \in Frames, PushBegin(f) PROVE RingInv'
    BY <1>1 DEF PushBegin
  <1>2. CASE PushFull
    BY <1>2 DEF PushFull
  <1>3. CASE PushRoom
    BY <1>3 DEF PushRoom
  <1>4. CASE PushStoreLo
    <2> USE <1>4 DEF PushStoreLo
    <2>1. /\ ~ Occupied(tail)
          /\ \A s \in Slots : s # tail => buf'[s] = buf[s]
          /\ buf'[tail] = [buf[tail] EXCEPT !.lo = isrFrame]
      OBVIOUS
    <2>2. TypeOK'
      <3>1. buf' \in [Slots -> Slot]
        OBVIOUS
      <3> QED BY <3>1
    <2>3. WholeFrames'
      BY <2>1
    <2>4. Locals'
      OBVIOUS
    <2>5. HalfDone'
      BY <2>1
    <2> QED BY <2>2, <2>3, <2>4, <2>5
  <1>5. CASE PushStoreHi
    <2> USE <1>5 DEF PushStoreHi
    <2>1. /\ ~ Occupied(tail)
          /\ \A s \in Slots : s # tail => buf'[s] = buf[s]
          /\ buf'[tail] = [buf[tail] EXCEPT !.hi = isrFrame]
      OBVIOUS
    <2>2. TypeOK'
      <3>1. buf' \in [Slots -> Slot]
        OBVIOUS
      <3> QED BY <3>1
    <2>3. WholeFrames'
      BY <2>1
    <2>4. Locals'
      OBVIOUS
    <2>5. HalfDone'
      BY <2>1
    <2> QED BY <2>2, <2>3, <2>4, <2>5
  <1>6. CASE PushPublish
    <2> USE <1>6 DEF PushPublish
    <2>1. tail' = IF tail = Size - 1 THEN 0 ELSE tail + 1
      OBVIOUS
    <2>2. tail' # head /\ tail' \in Slots
      OBVIOUS
    <2>3. \A s \in Slots : Occupied(s)' <=> Occupied(s) \/ s = tail
      BY <2>1, <2>2
    <2>4. WholeFrames'
      <3> SUFFICES ASSUME NEW s \in Slots, Occupied(s)'
                   PROVE  buf[s].lo = buf[s].hi /\ buf[s].lo \in Frames
        OBVIOUS
      <3>1. Occupied(s) \/ s = tail
        BY <2>3
      <3> QED BY <3>1
    <2>5. TypeOK'
      BY <2>2
    <2>6. Locals' /\ HalfDone'
      BY <2>2
    <2> QED BY <2>4, <2>5, <2>6
  <1> QED BY <1>1, <1>2, <1>3, <1>4, <1>5, <1>6 DEF PushStep

(* The steps of a pop preserve it: the slot at head is copied while it is  *)
(* occupied, and head moves when the copy is complete.                     *)
LEMMA PopKeepsRingInv ==
    ASSUME RingInv, PopStep \/ PopBegin
    PROVE  RingInv'
  <1> USE SizeAssumption, SuccIs
      DEF RingInv, TypeOK, WholeFrames, Locals, HalfDone, Slots, Slot,
          Halves, Occupied
  <1>1. CASE PopBegin
    BY <1>1 DEF PopBegin
  <1>2. CASE PopEmpty
    BY <1>2 DEF PopEmpty
  <1>3. CASE PopNonEmpty
    BY <1>3 DEF PopNonEmpty
  <1>4. CASE PopCopyLo
    BY <1>4 DEF PopCopyLo
  <1>5. CASE PopCopyHi
    BY <1>5 DEF PopCopyHi
  <1>6. CASE PopAdvance
    <2> USE <1>6 DEF PopAdvance
    <2>1. /\ head' = IF head = Size - 1 THEN 0 ELSE head + 1
          /\ head' \in Slots
      OBVIOUS
    <2>2. \A s \in Slots : Occupied(s)' => Occupied(s)
      BY <2>1
    <2>3. WholeFrames'
      <3> SUFFICES ASSUME NEW s \in Slots, Occupied(s)'
                   PROVE  buf[s].lo = buf[s].hi /\ buf[s].lo \in Frames
        OBVIOUS
      <3>1. Occupied(s)
        BY <2>2
      <3> QED BY <3>1
    <2>4. TypeOK'
      BY <2>1
    <2>5. isrPc \in {"lo", "hi", "publish"} => Succ(tail) # head'
      BY <2>1
    <2>6. Locals' /\ HalfDone'
      BY <2>5
    <2> QED BY <2>3, <2>4, <2>6
  <1> QED BY <1>1, <1>2, <1>3, <1>4, <1>5, <1>6 DEF PopStep

(* A step that changes nothing preserves it.                               *)
LEMMA StutterKeepsRingInv ==
    ASSUME RingInv, UNCHANGED ringVars
    PROVE  RingInv'
  BY DEF ringVars, RingInv, TypeOK, WholeFrames, Locals, HalfDone, Occupied

(* The inductive invariant of the ring holds in every reachable state.     *)
THEOREM RingInvariant == Spec => []RingInv
  <1>1. RingInv /\ [Next]_ringVars => RingInv'
    BY PushKeepsRingInv, PopKeepsRingInv, StutterKeepsRingInv DEF Next
  <1> QED BY <1>1, InitRingInv, PTL DEF Spec

(* No slot between head and tail ever holds a torn frame.                  *)
THEOREM FramesStayWhole == Spec => []WholeFrames
  <1>1. RingInv => WholeFrames
    BY DEF RingInv
  <1> QED BY <1>1, RingInvariant, PTL

(* The ISR never stores into the slot the task is copying out.             *)
THEOREM RaceFree == Spec => []NoSlotRace
  <1>1. RingInv => NoSlotRace
    BY DEF RingInv, TypeOK, Locals, NoSlotRace
  <1> QED BY <1>1, RingInvariant, PTL

(* At most SIZE - 1 frames are queued, and a push that found room still    *)
(* has its slot when it publishes.                                         *)
THEOREM OneSlotFree == Spec => []KeepsOneSlotFree
  <1>1. RingInv => KeepsOneSlotFree
    BY SizeAssumption, SuccIs
       DEF RingInv, TypeOK, Locals, KeepsOneSlotFree, Count, Slots
  <1> QED BY <1>1, RingInvariant, PTL

-----------------------------------------------------------------------------
(* The number of queued frames, the slots they are in, and the fact that   *)
(* the abstract queue is a sequence of frames.                             *)
LEMMA QueueFacts ==
    ASSUME RingInv
    PROVE  /\ Count \in 0 .. Size - 1
           /\ \A i \in 1 .. Count : NthSlot(i) \in Slots /\ Occupied(NthSlot(i))
           /\ Queue \in Seq(Frames)
           /\ Len(Queue) = Count
           /\ \A i \in 1 .. Count : Queue[i] = buf[NthSlot(i)].lo
  <1>1. head \in Slots /\ tail \in Slots
    BY DEF RingInv, TypeOK
  <1>2. Count \in 0 .. Size - 1
    BY <1>1, SizeAssumption DEF Count, Slots
  <1>3. \A i \in 1 .. Count : NthSlot(i) \in Slots /\ Occupied(NthSlot(i))
    BY <1>1, SizeAssumption DEF Count, Slots, NthSlot, Occupied
  <1>4. \A i \in 1 .. Count : buf[NthSlot(i)].lo \in Frames
    BY <1>3 DEF RingInv, WholeFrames
  <1>5. Queue = [i \in 1 .. Count |-> buf[NthSlot(i)].lo]
    BY DEF Queue
  <1>6. Queue \in Seq(Frames) /\ Len(Queue) = Count
    BY <1>2, <1>4, <1>5
  <1>7. \A i \in 1 .. Count : Queue[i] = buf[NthSlot(i)].lo
    BY <1>5
  <1> QED BY <1>2, <1>3, <1>6, <1>7

(* A step that keeps both indices and every occupied slot keeps the queue. *)
LEMMA SameQueue ==
    ASSUME RingInv,
           head' = head, tail' = tail,
           \A s \in Slots : Occupied(s) => buf'[s] = buf[s]
    PROVE  Queue' = Queue
  <1>1. Count' = Count
    BY DEF Count
  <1>2. \A i \in 1 .. Count : buf'[NthSlot(i)].lo = buf[NthSlot(i)].lo
    BY QueueFacts
  <1>3. \A i \in 1 .. Count : NthSlot(i)' = NthSlot(i)
    BY DEF NthSlot
  <1> QED BY <1>1, <1>2, <1>3 DEF Queue

(* How the steps of the ring change the number of queued frames.           *)
LEMMA CountChanges ==
    ASSUME RingInv
    PROVE  /\ Count \in Nat
           /\ PushPublish => Count' = Count + 1
           /\ PopAdvance => Count' = Count - 1
           /\ head' = head /\ tail' = tail => Count' = Count
  <1> head \in Slots /\ tail \in Slots
    BY DEF RingInv, TypeOK
  <1>1. Count \in Nat
    BY QueueFacts, SizeAssumption
  <1>2. ASSUME PushPublish PROVE Count' = Count + 1
    <2>1. head' = head /\ tail' = Succ(tail) /\ Succ(tail) # head
      BY <1>2 DEF PushPublish, RingInv, Locals
    <2> QED BY <2>1, SuccIs, SizeAssumption DEF Count, Slots
  <1>3. ASSUME PopAdvance PROVE Count' = Count - 1
    <2>1. head' = Succ(head) /\ tail' = tail /\ head # tail
      BY <1>3 DEF PopAdvance, RingInv, Locals
    <2> QED BY <2>1, SuccIs, SizeAssumption DEF Count, Slots
  <1>4. head' = head /\ tail' = tail => Count' = Count
    BY DEF Count
  <1> QED BY <1>1, <1>2, <1>3, <1>4

(* Publishing appends the frame the ISR stored.                            *)
LEMMA PublishAppends ==
    ASSUME RingInv, PushPublish
    PROVE  /\ Len(Queue) < Size - 1
           /\ Queue' = Append(Queue, isrFrame)
  <1>1. /\ head \in Slots /\ tail \in Slots
        /\ Succ(tail) # head
        /\ isrTail = tail
        /\ buf[tail].lo = isrFrame
        /\ head' = head /\ tail' = Succ(tail) /\ buf' = buf
    BY DEF PushPublish, RingInv, TypeOK, Locals, HalfDone
  <1>2. Succ(tail) = IF tail = Size - 1 THEN 0 ELSE tail + 1
    BY <1>1, SuccIs
  <1>3. Count < Size - 1 /\ Count' = Count + 1
    BY <1>1, <1>2, SizeAssumption DEF Count, Slots
  <1>4. NthSlot(Count + 1) = tail
    BY <1>1, <1>2, SizeAssumption DEF Count, Slots, NthSlot
  <1>5. \A i \in 1 .. Count + 1 : NthSlot(i)' = NthSlot(i)
    BY <1>1 DEF NthSlot
  <1>6. Queue' = [i \in 1 .. Count + 1 |-> buf[NthSlot(i)].lo]
    BY <1>1, <1>3, <1>5 DEF Queue
  <1>7. Append(Queue, isrFrame) = [i \in 1 .. Count + 1 |-> buf[NthSlot(i)].lo]
    <2> DEFINE longer == [i \in 1 .. Count + 1 |-> buf[NthSlot(i)].lo]
    <2>1. /\ Queue \in Seq(Frames) /\ Len(Queue) = Count /\ Count \in Nat
          /\ \A i \in 1 .. Count : Queue[i] = buf[NthSlot(i)].lo
      BY QueueFacts
    <2>2. isrFrame \in Frames
      BY DEF PushPublish, RingInv, Locals
    <2>3. /\ Append(Queue, isrFrame) \in Seq(Frames)
          /\ Len(Append(Queue, isrFrame)) = Count + 1
          /\ \A i \in 1 .. Count : Append(Queue, isrFrame)[i] = Queue[i]
          /\ Append(Queue, isrFrame)[Count + 1] = isrFrame
      BY <2>1, <2>2, AppendProperties
    <2>4. \A i \in 1 .. Count + 1 : longer[i] = Append(Queue, isrFrame)[i]
      BY <1>1, <1>4, <2>1, <2>3
    <2>5. longer \in Seq(Frames) /\ Len(longer) = Count + 1
      BY <1>1, <1>4, <2>1, <2>2
    <2> QED BY <2>1, <2>3, <2>4, <2>5, SeqEqual
  <1> QED BY <1>3, <1>6, <1>7, QueueFacts

(* Advancing removes the frame that was copied out, the oldest one.        *)
LEMMA AdvanceRemoves ==
    ASSUME RingInv, PopAdvance
    PROVE  /\ Queue # <<>>
           /\ returned'.hi = Head(Queue)
           /\ Queue' = Tail(Queue)
  <1>1. /\ head \in Slots /\ tail \in Slots /\ head # tail
        /\ out.hi = buf[head].hi
        /\ head' = Succ(head) /\ tail' = tail /\ buf' = buf /\ returned' = out
    BY DEF PopAdvance, RingInv, TypeOK, Locals, HalfDone
  <1>2. Succ(head) = IF head = Size - 1 THEN 0 ELSE head + 1
    BY <1>1, SuccIs
  <1>3. Count > 0 /\ Count' = Count - 1
    BY <1>1, <1>2, SizeAssumption DEF Count, Slots
  <1>4. NthSlot(1) = head
    BY <1>1, SizeAssumption DEF NthSlot, Slots
  <1>5. \A i \in 1 .. Count - 1 : NthSlot(i)' = NthSlot(i + 1)
    BY <1>1, <1>2, <1>3, QueueFacts, SizeAssumption DEF NthSlot, Slots
  <1>6. Queue' = [i \in 1 .. Count - 1 |-> buf[NthSlot(i + 1)].lo]
    BY <1>1, <1>3, <1>5 DEF Queue
  <1>7. Tail(Queue) = [i \in 1 .. Count - 1 |-> buf[NthSlot(i + 1)].lo]
    <2> DEFINE shorter == [i \in 1 .. Count - 1 |-> buf[NthSlot(i + 1)].lo]
    <2>1. /\ Queue \in Seq(Frames) /\ Len(Queue) = Count
          /\ Count \in Nat /\ Count > 0
          /\ \A i \in 1 .. Count : Queue[i] = buf[NthSlot(i)].lo
      BY <1>3, QueueFacts
    <2>2. Queue # <<>>
      BY <2>1
    <2>3. /\ Tail(Queue) \in Seq(Frames)
          /\ Len(Tail(Queue)) = Count - 1
          /\ \A i \in 1 .. Count - 1 : Tail(Queue)[i] = Queue[i + 1]
      BY <2>1, <2>2, HeadTailProperties
    <2>4. \A i \in 1 .. Count - 1 : shorter[i] = Tail(Queue)[i]
      BY <2>1, <2>3
    <2>5. shorter \in Seq(Frames) /\ Len(shorter) = Count - 1
      <3>1. \A i \in 1 .. Count - 1 : shorter[i] \in Frames
        BY <2>3, <2>4
      <3> QED BY <2>1, <3>1
    <2> QED BY <2>3, <2>4, <2>5, SeqEqual
  <1>8. buf[head].lo = buf[head].hi
    BY <1>3, <1>4, QueueFacts DEF RingInv, WholeFrames
  <1>9. Queue # <<>> /\ Head(Queue) = buf[head].lo
    BY <1>3, <1>4, QueueFacts
  <1> QED BY <1>1, <1>6, <1>7, <1>8, <1>9

(* A push that finds the ring full finds SIZE - 1 frames in it.            *)
LEMMA FullWhenRefused ==
    ASSUME RingInv, PushFull
    PROVE  Len(Queue) = Size - 1
  <1>1. Succ(tail) = head /\ head \in Slots /\ tail \in Slots
    BY DEF PushFull, RingInv, TypeOK, Locals
  <1>2. Count = Size - 1
    BY <1>1, SuccIs, SizeAssumption DEF Count, Slots
  <1> QED BY <1>2, QueueFacts

(* Every step of the ring is a step of the bounded FIFO or leaves the      *)
(* abstract queue, the drop count and the frame delivered last alone.      *)
LEMMA StepRefines ==
    ASSUME RingInv, [Next]_ringVars
    PROVE  [Fifo!Next]_(Fifo!vars)
  <1> DEFINE Same == Queue' = Queue /\ overflow' = overflow /\ returned' = returned
  <1>1. Same => [Fifo!Next]_(Fifo!vars)
    BY DEF Fifo!vars
  <1>2. ASSUME NEW f \in Frames, PushBegin(f) PROVE Same
    BY <1>2, SameQueue DEF PushBegin
  <1>3. CASE PushFull
    <2>1. Queue' = Queue
      BY <1>3, SameQueue DEF PushFull
    <2>2. Fifo!Refuse
      BY <1>3, <2>1, FullWhenRefused DEF PushFull, Fifo!Refuse
    <2> QED BY <2>2 DEF Fifo!Next
  <1>4. CASE PushRoom
    BY <1>4, <1>1, SameQueue DEF PushRoom
  <1>5. CASE PushStoreLo \/ PushStoreHi
    <2>1. ~ Occupied(isrTail) /\ isrTail \in Slots /\ buf \in [Slots -> Slot]
      BY <1>5 DEF PushStoreLo, PushStoreHi, RingInv, TypeOK, Locals, Occupied, Slots
    <2>2. \A s \in Slots : Occupied(s) => buf'[s] = buf[s]
      BY <1>5, <2>1 DEF PushStoreLo, PushStoreHi
    <2>3. Same
      BY <1>5, <2>2, SameQueue DEF PushStoreLo, PushStoreHi
    <2> QED BY <2>3, <1>1
  <1>6. CASE PushPublish
    <2>1. isrFrame \in Frames
      BY <1>6 DEF PushPublish, RingInv, Locals
    <2>2. Fifo!Accept(isrFrame)
      BY <1>6, PublishAppends DEF PushPublish, Fifo!Accept
    <2> QED BY <2>1, <2>2 DEF Fifo!Next
  <1>7. CASE PopBegin \/ PopEmpty \/ PopNonEmpty \/ PopCopyLo \/ PopCopyHi
    BY <1>7, <1>1, SameQueue
       DEF PopBegin, PopEmpty, PopNonEmpty, PopCopyLo, PopCopyHi
  <1>8. CASE PopAdvance
    <2>1. Fifo!Deliver
      BY <1>8, AdvanceRemoves DEF PopAdvance, Fifo!Deliver
    <2> QED BY <2>1 DEF Fifo!Next
  <1>9. CASE UNCHANGED ringVars
    BY <1>9, <1>1, SameQueue DEF ringVars
  <1> QED
    BY <1>1, <1>2, <1>3, <1>4, <1>5, <1>6, <1>7, <1>8, <1>9
       DEF Next, PushStep, PopStep

(* The ring implements the bounded FIFO of capacity SIZE - 1 for every     *)
(* size, every set of frames and every interleaving of ISR and task.       *)
THEOREM RingImplementsFifo == Spec => ImplementsFifo
  <1>1. Init => Fifo!Init
    <2> SUFFICES ASSUME Init PROVE Fifo!Init
      OBVIOUS
    <2>1. Count = 0
      BY DEF Init, Count
    <2>2. Queue = <<>>
      BY <2>1 DEF Queue
    <2> QED BY <2>2 DEF Init, Empty, Fifo!Init
  <1>2. RingInv /\ [Next]_ringVars => [Fifo!Next]_(Fifo!vars)
    BY StepRefines
  <1> QED BY <1>1, <1>2, RingInvariant, PTL DEF Spec, ImplementsFifo, Fifo!Spec

-----------------------------------------------------------------------------
(* Only publishing and advancing change the queue,                         *)
LEMMA QueueOtherwise ==
    ASSUME RingInv, [Next]_ringVars, ~ PushPublish, ~ PopAdvance
    PROVE  Queue' = Queue
  <1>1. head' = head /\ tail' = tail
    BY DEF Next, PushBegin, PushStep, PushFull, PushRoom, PushStoreLo, PushStoreHi,
           PopBegin, PopStep, PopEmpty, PopNonEmpty, PopCopyLo, PopCopyHi, ringVars
  <1>2. CASE PushStoreLo \/ PushStoreHi
    <2>1. tail \in Slots /\ ~ Occupied(tail) /\ isrTail = tail /\ buf = [s \in Slots |-> buf[s]]
      BY <1>2 DEF RingInv, TypeOK, Locals, Occupied, PushStoreLo, PushStoreHi, Slots
    <2>2. \A s \in Slots : s # tail => buf'[s] = buf[s]
      BY <1>2, <2>1 DEF PushStoreLo, PushStoreHi
    <2> QED
      BY <1>1, <2>1, <2>2, SameQueue
  <1>3. CASE buf' = buf
    BY <1>1, <1>3, SameQueue
  <1> QED
    BY <1>2, <1>3
    DEF Next, PushBegin, PushStep, PushFull, PushRoom, PushPublish, PopAdvance,
        PopBegin, PopStep, PopEmpty, PopNonEmpty, PopCopyLo, PopCopyHi, ringVars

(* and the frame that advancing returns is whole.                          *)
LEMMA AdvanceReturnsWhole ==
    ASSUME RingInv, PopAdvance
    PROVE  returned'.lo = returned'.hi
  <1>1. /\ head \in Slots /\ tail \in Slots /\ head # tail /\ returned' = out
        /\ out.lo = buf[head].lo /\ out.hi = buf[head].hi
    BY DEF PopAdvance, RingInv, TypeOK, Locals, HalfDone
  <1>2. Occupied(head)
    BY <1>1 DEF Occupied, Slots
  <1> QED
    BY <1>1, <1>2 DEF RingInv, WholeFrames
=============================================================================

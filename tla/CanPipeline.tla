---------------------------- MODULE CanPipeline ----------------------------
(***************************************************************************)
(* The CAN receive pipeline: the receive ISR enqueues frames in CanRing,   *)
(* the processing task drains the ring (can_pipeline_process) and hands    *)
(* every frame first to the statistics and then to the dispatcher.         *)
(* Between two drains it may register handlers and query timeouts.         *)
(*                                                                         *)
(* The ISR preempts the task between any two accesses to the ring.  The    *)
(* statistics and the dispatch table belong to the task alone, so one      *)
(* update of each is one step.                                             *)
(***************************************************************************)
EXTENDS CanStats, CanDispatcher

CONSTANTS
    Size,           \* CAN_RX_RING_SIZE
    Kinds,          \* the [id, ide] pairs on the bus
    Filters,        \* the filters handlers may be registered with
    Timeout,        \* timeout_ms of the timeout queries
    MaxTime,        \* bound: last instant of real time
    MaxArrivals,    \* bound: frames the controller receives
    NoFrame

ASSUME PipelineAssumption ==
    /\ Size \in Nat \ {0, 1}
    /\ TickMod \in Nat \ {0}
    /\ MaxTime \in Nat
    /\ MaxArrivals \in Nat
    /\ Kinds \subseteq [id : SUBSET Nat, ide : BOOLEAN]

VARIABLES
    buf, head, tail, overflow, isrPc, isrFrame, isrTail,
    popPc, popHead, out, returned,      \* the ring (CanRing)
    task,           \* where the task is in can_pipeline_process
    stats,          \* pipe->stats
    disp,           \* pipe->dispatcher
    now,            \* real time in milliseconds; the tick is now % TickMod
    arrived,        \* number of frames the controller received
    log             \* the frames processed so far, oldest first

(* A frame with the instant it was received; timestamp_ms is that instant  *)
(* as the tick shows it.                                                   *)
Frame == [id : {k.id : k \in Kinds}, ide : BOOLEAN, at : 0 .. MaxTime]
Timestamp(f) == f.at % TickMod

Ring == INSTANCE CanRing WITH Frames <- Frame

appVars == <<stats, disp, now, arrived, log>>
ringVars == <<buf, head, tail, overflow, isrPc, isrFrame, isrTail,
              popPc, popHead, out, returned>>
vars == <<ringVars, task, appVars>>

(* can_pipeline_init *)
Init ==
    /\ Ring!Init
    /\ task = "app"
    /\ stats = NoStats
    /\ disp = NoHandlers
    /\ now = 0
    /\ arrived = 0
    /\ log = <<>>

Tick ==
    /\ now < MaxTime
    /\ now' = now + 1
    /\ UNCHANGED <<ringVars, task, stats, disp, arrived, log>>

(* can_pipeline_isr_enqueue, with the reception timestamp *)
IsrEnqueue ==
    /\ arrived < MaxArrivals
    /\ \E k \in Kinds : Ring!PushBegin([id |-> k.id, ide |-> k.ide, at |-> now])
    /\ arrived' = arrived + 1
    /\ UNCHANGED <<task, stats, disp, now, log>>

IsrStep == Ring!PushStep /\ UNCHANGED <<task, appVars>>

(* The main loop of the task calls can_pipeline_process.                   *)
CallProcess ==
    /\ task = "app"
    /\ task' = "pop"
    /\ UNCHANGED <<ringVars, appVars>>

(* One access of can_rx_ring_pop inside the drain loop: an empty ring ends *)
(* the loop, a frame goes on to the statistics.                            *)
PopAccess ==
    /\ task = "pop"
    /\ \/ /\ Ring!PopBegin \/ Ring!PopNonEmpty \/ Ring!PopCopyLo \/ Ring!PopCopyHi
          /\ task' = "pop"
       \/ Ring!PopEmpty /\ task' = "app"
       \/ Ring!PopAdvance /\ task' = "update"
    /\ UNCHANGED appVars

(* Seeded fault: a frame gets its time when it is handled.                 *)
InHandStamped == [id |-> returned.lo.id, ide |-> returned.lo.ide, at |-> now]

(* The frame in hand: its words were copied at two different instants.     *)
InHand == [id |-> returned.lo.id, ide |-> returned.lo.ide, at |-> returned.hi.at]

(* Seeded fault: a frame the statistics have no entry for is not           *)
(* dispatched either.                                                      *)
UpdateStatsSkips ==
    /\ task = "update"
    /\ stats' = Update(stats, InHand.id, Timestamp(InHand))
    /\ task' = IF stats'.overflow = stats.overflow THEN "dispatch" ELSE "pop"
    /\ UNCHANGED <<ringVars, disp, now, arrived, log>>

UpdateStats ==
    /\ task = "update"
    /\ task' = "dispatch"
    /\ stats' = Update(stats, InHand.id, Timestamp(InHand))
    /\ UNCHANGED <<ringVars, disp, now, arrived, log>>

DispatchFrame ==
    /\ task = "dispatch"
    /\ task' = "pop"
    /\ disp' = Dispatch(disp, InHand)
    /\ log' = Append(log, InHand)
    /\ UNCHANGED <<ringVars, stats, now, arrived>>

(* The application registers a handler between two drains.                 *)
RegisterHandler ==
    /\ task = "app"
    /\ \E f \in Filters : disp' = Register(disp, f, Len(log))
    /\ UNCHANGED <<ringVars, task, stats, now, arrived, log>>

Drain == CallProcess \/ PopAccess \/ UpdateStats \/ DispatchFrame

Next ==
    \/ Tick
    \/ IsrEnqueue
    \/ IsrStep
    \/ Drain
    \/ RegisterHandler

Spec == Init /\ [][Next]_vars

(* The ISR runs to completion; the task keeps running its loop.            *)
FairSpec == Spec /\ WF_vars(IsrStep) /\ WF_vars(Drain)

-----------------------------------------------------------------------------
(* No frame disappears between the controller and the handlers: every one  *)
(* received is counted as dropped, waits in the ring, is being enqueued,   *)
(* is in the task's hand, or has been counted by the statistics.           *)
EveryFrameAccounted ==
    arrived = overflow + Ring!Count + (IF isrPc = "idle" THEN 0 ELSE 1)
                + (IF task = "update" THEN 1 ELSE 0) + stats.total

(* Positions in the log of the frames with a given id number.              *)
SeenOf(id) == {i \in DOMAIN log : log[i].id = id}

(* The real gaps between consecutive logged frames of an id number.        *)
Gaps(id) ==
    LET follows(i, j) == i < j /\ \A m \in SeenOf(id) : ~ (i < m /\ m < j)
        pairs == {p \in SeenOf(id) \X SeenOf(id) : follows(p[1], p[2])}
    IN  {log[p[2]].at - log[p[1]].at : p \in pairs}

(* Between two frames the statistics describe what was dispatched: all of  *)
(* it, the frames of the ids that never got an entry (an id that found the *)
(* table full is not admitted later), and for each entry every frame of    *)
(* its id; min_gap_ms and max_gap_ms are the least and the greatest gap    *)
(* between two of them, as long as no gap reaches the range of the tick.   *)
StatisticsMatchTraffic ==
    task # "dispatch" =>
        /\ stats.total = Len(log)
        /\ stats.overflow = Cardinality({n \in DOMAIN log : EntriesOf(stats, log[n].id) = {}})
        /\ \A i \in DOMAIN stats.entries :
             LET e == stats.entries[i]
                 gaps == Gaps(e.id)
             IN  /\ e.frames = Cardinality(SeenOf(e.id))
                 /\ gaps # {} /\ (\A g \in gaps : g < TickMod)
                      => e.min = Min(gaps) /\ e.max = Max(gaps)

(* Each handler saw exactly the frames its filter accepts, from its        *)
(* registration on, and a frame is unmatched when no handler registered at *)
(* that time accepts it.                                                   *)
HandlersSawTheirFrames ==
    /\ \A i \in DOMAIN disp.entries :
         LET e == disp.entries[i]
         IN  e.matches = Cardinality({n \in e.since + 1 .. Len(log) :
                                        Matches(e.filter, log[n])})
    /\ disp.unmatched = Cardinality({n \in DOMAIN log :
            \A i \in DOMAIN disp.entries :
                disp.entries[i].since < n => ~ Matches(disp.entries[i].filter, log[n])})

(* A timeout query between two drains is right about the frames processed  *)
(* so far: it says "expired" exactly when the last frame of the id is      *)
(* older than the timeout, unless the silence has outlived the range of    *)
(* the tick or the id never got an entry.  A frame still in the ring does  *)
(* not count yet.                                                          *)
TimeoutVerdictSound ==
    task = "app" =>
        \A id \in {k.id : k \in Kinds} :
            LET expired == TimedOut(stats, id, now % TickMod, Timeout)
                age == now - log[Max(SeenOf(id))].at
                tracked == EntriesOf(stats, id) # {}
            IN  /\ SeenOf(id) = {} => ~ expired
                /\ SeenOf(id) # {} /\ tracked /\ age < TickMod
                     => (expired <=> age > Timeout)

(* The frames accepted and not yet handled: the one in the task's hand and *)
(* those in the ring; and the frame the ISR has.                           *)
Waiting == (IF task \in {"update", "dispatch"} THEN <<InHand>> ELSE <<>>) \o Ring!Queue
Entering == IF isrPc = "idle" THEN <<>> ELSE <<isrFrame>>

Delivery == INSTANCE FrameDelivery WITH
                Capacity <- Size - 1, Frames <- Frame, entering <- Entering,
                waiting <- Waiting, refused <- overflow, handled <- log

(* From the controller to the handlers nothing is lost, repeated, altered  *)
(* or overtaken on the way through the ring, the copy the task takes, the  *)
(* statistics and the dispatcher; a frame carries the time of its          *)
(* reception, and is refused only when SIZE - 1 others wait.               *)
ImplementsDelivery == Delivery!Spec

(* Every frame the ring accepted is eventually dispatched, whatever the    *)
(* ISR does meanwhile.                                                     *)
AcceptedFramesAreProcessed ==
    \A n \in 1 .. MaxArrivals :
        (arrived - overflow >= n /\ isrPc = "idle") ~> (Len(log) >= n)
=============================================================================

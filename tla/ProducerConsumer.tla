-------------------------- MODULE ProducerConsumer --------------------------
(***************************************************************************)
(* challenge_01_producer_consumer.c: one producer task per ADC channel     *)
(* posts samples to a FreeRTOS queue, the consumer task filters them, and  *)
(* a statistics task looks at the queue and the overflow counters.         *)
(*                                                                         *)
(* The scheduler runs a ready task; when it is strict, one of the highest  *)
(* priority (the preemptive FreeRTOS scheduler), otherwise any ready task  *)
(* (whatever a port, a time slice or a blocking printf does).              *)
(* A task can be preempted between any two of its steps, and ticks pass    *)
(* while it runs.  Delays are kept as the ticks that remain, so that no    *)
(* absolute time is needed; due[c] is negative while producer c is late.   *)
(***************************************************************************)
EXTENDS MovingAverage, FiniteSets

CONSTANTS
    Channels,           \* NUM_CHANNELS channels, one producer each
    Baseline,           \* usBaseValue of a channel
    Noise,              \* greatest noise in a reading of a channel
    AdcMax,             \* 4095
    Depth,              \* QUEUE_DEPTH
    SamplePeriod,       \* SAMPLE_PERIOD_MS
    ConsumerTimeout,    \* CONSUMER_TIMEOUT_MS
    StatsPeriod,        \* STATS_PERIOD_MS
    CounterMod,         \* number of values of a uint32_t counter
    MaxLate,            \* bound: a producer runs at most this many ticks late
    Schedulings         \* TRUE: preemptive priority scheduling

ASSUME ConstantsAssumption ==
    /\ "consumer" \notin Channels /\ "stats" \notin Channels
    /\ Baseline \in [Channels -> 0 .. AdcMax]
    /\ AdcMax \in 0 .. HalfMod - 1 /\ Noise \in [Channels -> Nat]
    /\ Depth \in Nat \ {0}
    /\ {SamplePeriod, ConsumerTimeout, StatsPeriod} \subseteq Nat \ {0}
    /\ CounterMod \in Nat \ {0}
    /\ MaxLate \in Nat
    /\ Schedulings \subseteq BOOLEAN

VARIABLES
    strict,     \* whether the scheduler heeds priorities
    queue,      \* xQueue
    overflows,  \* auOverflows
    due,        \* ticks until a producer's next sample time
    prod,       \* a producer: its place, and its sample
    cons,       \* the consumer: its place, ticks to its timeout, its sample
    filters,    \* axState
    stat,       \* ticks the statistics task waits
    excess,     \* (history) samples taken less samples filtered, as a counter
    recent      \* (history) the last Window readings filtered, in order

vars == <<strict, queue, overflows, due, prod, cons, filters, stat, excess, recent>>

NoSample == <<>>    \* a sample is a pair, its channel and its reading
Latest(readings) ==
    SubSeq(readings, IF Len(readings) > Window THEN 2 ELSE 1, Len(readings))
Bump(counter) == (counter + 1) % CounterMod
Drop(counter) == (counter + CounterMod - 1) % CounterMod

(* main: the tasks are created and the scheduler starts.                   *)
Init ==
    /\ strict \in Schedulings
    /\ queue = <<>>
    /\ overflows = [c \in Channels |-> 0]
    /\ due = [c \in Channels |-> SamplePeriod]
    /\ prod = [c \in Channels |-> [pc |-> "delayed", sample |-> NoSample]]
    /\ cons = [pc |-> "receive", left |-> 0, sample |-> NoSample]
    /\ filters = [c \in Channels |-> NewFilter]
    /\ stat = StatsPeriod
    /\ excess = [c \in Channels |-> 0]
    /\ recent = [c \in Channels |-> <<>>]

-----------------------------------------------------------------------------
(* The scheduler.                                                          *)

Tasks == Channels \cup {"consumer", "stats"}

(* Seeded fault: the consumer is given the lowest priority.                *)
PriorityConsumerLast(t) == IF t = "consumer" THEN 1 ELSE 2

(* PRIORITY_CONSUMER, PRIORITY_PRODUCER, PRIORITY_STATS *)
Priority(t) == CASE t = "consumer" -> 3 [] t \in Channels -> 2 [] OTHER -> 1

(* A task blocked on a delay or on the queue is ready once its time has    *)
(* come; the consumer also as soon as the queue holds a sample.            *)
Ready(t) ==
    CASE t = "consumer" -> cons.pc = "blocked" => queue # <<>> \/ cons.left = 0
      [] t = "stats"    -> stat = 0
      [] OTHER          -> prod[t].pc = "delayed" => due[t] <= 0

CanRun(t) ==
    /\ Ready(t)
    /\ strict => \A u \in Tasks : Ready(u) => Priority(u) <= Priority(t)

CountDown(n) == IF n > 0 THEN n - 1 ELSE 0

(* One tick of the system clock.                                           *)
Tick ==
    /\ \A c \in Channels : due[c] > - MaxLate
    /\ due' = [c \in Channels |-> due[c] - 1]
    /\ cons' = [cons EXCEPT !.left = CountDown(@)]
    /\ stat' = CountDown(stat)
    /\ UNCHANGED <<strict, queue, overflows, prod, filters, excess, recent>>

-----------------------------------------------------------------------------
(* producer_task *)

(* adc_read: the baseline and some noise, clamped to the range of the ADC  *)
AdcRead(c, noise) ==
    LET raw == Baseline[c] + noise
    IN IF raw < 0 THEN 0 ELSE IF raw > AdcMax THEN AdcMax ELSE raw

(* vTaskDelayUntil returns; the ADC is read.                               *)
TakeSample(c) ==
    /\ CanRun(c)
    /\ prod[c].pc = "delayed"
    /\ \E noise \in - Noise[c] .. Noise[c] :
            prod' = [prod EXCEPT ![c] = [pc |-> "send", sample |-> <<c, AdcRead(c, noise)>>]]
    /\ excess' = [excess EXCEPT ![c] = Bump(@)]
    /\ UNCHANGED <<strict, queue, overflows, due, cons, filters, stat, recent>>

(* The next call of vTaskDelayUntil: the wake time moves on by one period, *)
(* from the last wake time and not from now.                               *)
DelayUntil(c) ==
    /\ prod' = [prod EXCEPT ![c] = [pc |-> "delayed", sample |-> NoSample]]
    /\ due' = [due EXCEPT ![c] = @ + SamplePeriod]

(* xQueueSend with a timeout of 0 *)
SendSample(c) ==
    /\ CanRun(c)
    /\ prod[c].pc = "send"
    /\ Len(queue) < Depth
    /\ queue' = Append(queue, prod[c].sample)
    /\ DelayUntil(c)
    /\ UNCHANGED <<strict, overflows, cons, filters, stat, excess, recent>>

(* Seeded fault: a sample that is discarded is not counted.                *)
FindQueueFullSilently(c) ==
    /\ CanRun(c)
    /\ prod[c].pc = "send"
    /\ Len(queue) = Depth
    /\ DelayUntil(c)
    /\ UNCHANGED <<strict, queue, overflows, cons, filters, stat, excess, recent>>

FindQueueFull(c) ==
    /\ CanRun(c)
    /\ prod[c].pc = "send"
    /\ Len(queue) = Depth
    /\ prod' = [prod EXCEPT ![c] = [pc |-> "count", sample |-> NoSample]]
    /\ UNCHANGED <<strict, queue, overflows, due, cons, filters, stat, excess, recent>>

CountOverflow(c) ==
    /\ CanRun(c)
    /\ prod[c].pc = "count"
    /\ overflows' = [overflows EXCEPT ![c] = Bump(@)]
    /\ DelayUntil(c)
    /\ UNCHANGED <<strict, queue, cons, filters, stat, excess, recent>>

-----------------------------------------------------------------------------
(* consumer_task *)

(* xQueueReceive returns a sample, at once or after having blocked.        *)
ReceiveSample ==
    /\ CanRun("consumer")
    /\ cons.pc \in {"receive", "blocked"}
    /\ queue # <<>>
    /\ cons' = [pc |-> "filter", left |-> 0, sample |-> Head(queue)]
    /\ queue' = Tail(queue)
    /\ UNCHANGED <<strict, overflows, due, prod, filters, stat, excess, recent>>

(* Seeded fault: the consumer polls instead of blocking.                   *)
PollEmpty ==
    /\ CanRun("consumer")
    /\ cons.pc = "receive"
    /\ queue = <<>>
    /\ cons' = [cons EXCEPT !.left = 0]
    /\ UNCHANGED <<strict, queue, overflows, due, prod, filters, stat, excess, recent>>

BlockOnEmpty ==
    /\ CanRun("consumer")
    /\ cons.pc = "receive"
    /\ queue = <<>>
    /\ cons' = [pc |-> "blocked", left |-> ConsumerTimeout, sample |-> NoSample]
    /\ UNCHANGED <<strict, queue, overflows, due, prod, filters, stat, excess, recent>>

(* xQueueReceive times out: "nothing to do - loop and wait again".         *)
ReceiveTimesOut ==
    /\ CanRun("consumer")
    /\ cons.pc = "blocked"
    /\ queue = <<>>
    /\ cons' = [cons EXCEPT !.pc = "receive"]
    /\ UNCHANGED <<strict, queue, overflows, due, prod, filters, stat, excess, recent>>

(* The sample is filtered by its channel's filter and printed.  Only       *)
(* producers send, so the channel is known.                                *)
FilterSample ==
    /\ CanRun("consumer")
    /\ cons.pc = "filter"
    /\ LET c == cons.sample[1]
           reading == cons.sample[2]
       IN /\ filters' = [filters EXCEPT ![c] = FilterUpdate(@, reading)]
          /\ recent' = [recent EXCEPT ![c] = Latest(Append(@, reading))]
          /\ excess' = [excess EXCEPT ![c] = Drop(@)]
    /\ cons' = [pc |-> "receive", left |-> 0, sample |-> NoSample]
    /\ UNCHANGED <<strict, queue, overflows, due, prod, stat>>

-----------------------------------------------------------------------------
(* stats_task prints the occupancy of the queue and the counters.          *)
PrintStats ==
    /\ CanRun("stats")
    /\ stat' = StatsPeriod
    /\ UNCHANGED <<strict, queue, overflows, due, prod, cons, filters, excess, recent>>

-----------------------------------------------------------------------------
Producer(c) ==
    TakeSample(c) \/ SendSample(c) \/ FindQueueFull(c) \/ CountOverflow(c)
Consumer == ReceiveSample \/ BlockOnEmpty \/ ReceiveTimesOut \/ FilterSample

Next == Tick \/ Consumer \/ PrintStats \/ \E c \in Channels : Producer(c)

Spec == Init /\ [][Next]_vars

(* Time passes, and a task the scheduler keeps eligible makes progress.    *)
FairSpec ==
    /\ Spec
    /\ WF_vars(Tick)
    /\ WF_vars(Consumer)
    /\ \A c \in Channels : WF_vars(Producer(c))

-----------------------------------------------------------------------------
(* The samples of a channel that are in its producer's hand, in the queue   *)
(* and in the consumer's hand.                                             *)
Held(c) == IF prod[c].pc = "delayed" THEN 0 ELSE 1
Queued(c) == Cardinality({i \in 1 .. Len(queue) : queue[i][1] = c})
InHand(c) == IF cons.pc = "filter" /\ cons.sample[1] = c THEN 1 ELSE 0

(* Every sample taken is filtered, or counted as an overflow of its own    *)
(* channel, or still on its way.  Holds modulo the width of the counters.  *)
SamplesAccounted ==
    \A c \in Channels :
        excess[c] = (overflows[c] + (Held(c) + Queued(c) + InHand(c))) % CounterMod

(* "Whenever a producer puts an item in the queue, the consumer is         *)
(* preempted-in immediately": at the priorities of the code the queue      *)
(* never holds two samples and nothing is ever discarded.                  *)
ConsumerKeepsUp ==
    strict =>
        Len(queue) <= 1 /\ \A c \in Channels : overflows[c] = 0

(* However samples of the channels mix in the queue and whatever is        *)
(* discarded, what filter_update computes for a channel is the integer     *)
(* mean of the last Window of its own samples it was given, and while the  *)
(* window is not full, of all of them.                                     *)
FilterAveragesRecent ==
    \A c \in Channels : recent[c] # <<>> =>
        filters[c].out = Sum(recent[c]) \div Len(recent[c])

(* The comment on filter_update: it "returns the input value unchanged     *)
(* until the window is full".                                              *)
InputUntilWindowFull ==
    \A c \in Channels : Len(recent[c]) \in 1 .. Window - 1 =>
        filters[c].out = recent[c][Len(recent[c])]

(* At the priorities of the code sampling never stops: the consumer lets   *)
(* the producers run by blocking on the empty queue.                       *)
SamplingContinues == \A c \in Channels : strict => []<>(prod[c].pc = "send")
=============================================================================

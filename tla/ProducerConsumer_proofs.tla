----------------------- MODULE ProducerConsumer_proofs -----------------------
(***************************************************************************)
(* Proofs about the sampling application, for every set of channels, every *)
(* queue length and period, every width of the counters and any noise: no  *)
(* sample is lost without being counted, with strict priorities none is    *)
(* lost at all, and a filter returns the mean it promises.                 *)
(*                                                                         *)
(* The parts: counting the samples of a channel in the queue, counters     *)
(* modulo their width, the conjuncts about the queue, sums, the circular   *)
(* window, and the invariant.                                              *)
(***************************************************************************)
EXTENDS ProducerConsumer, NatRecursion, FiniteSetTheorems, SequenceTheorems, TLAPS

(* The readings of the 12-bit converter.                                   *)
Readings == 0 .. AdcMax

(* What the queue carries: a channel and a reading.                        *)
Samples == Channels \X Readings

(* Where channel c has samples in the sequence q.                          *)
Positions(q, c) == {i \in 1 .. Len(q) : q[i][1] = c}

(* A sequence has a finite number of samples of a channel.                 *)
LEMMA PositionsFinite ==
    ASSUME NEW q \in Seq(Samples), NEW c
    PROVE  /\ IsFiniteSet(Positions(q, c))
           /\ Cardinality(Positions(q, c)) \in Nat
  <1>1. IsFiniteSet(1 .. Len(q))
    BY FS_Interval
  <1>2. Positions(q, c) \in SUBSET (1 .. Len(q))
    BY DEF Positions
  <1> QED
    BY <1>1, <1>2, FS_Subset, FS_CardinalityType

(* xQueueSend adds one sample to the count of its channel and none to the  *)
(* others.                                                                 *)
LEMMA PositionsOfAppend ==
    ASSUME NEW q \in Seq(Samples), NEW s \in Samples, NEW c
    PROVE  Cardinality(Positions(Append(q, s), c))
             = Cardinality(Positions(q, c)) + (IF s[1] = c THEN 1 ELSE 0)
  <1> DEFINE r == Append(q, s)
             n == Len(q) + 1
  <1>1. /\ Len(r) = n
        /\ \A i \in 1 .. Len(q) : r[i] = q[i]
        /\ r[n] = s
    BY AppendProperties
  <1>2. Len(q) \in Nat
    OBVIOUS
  <1>3. 1 .. n = 1 .. Len(q) \cup {n} /\ n \notin 1 .. Len(q)
    BY <1>2
  <1>4. CASE s[1] = c
    <2>1. Positions(r, c) = Positions(q, c) \cup {n} /\ n \notin Positions(q, c)
      BY <1>1, <1>3, <1>4 DEF Positions
    <2>2. IsFiniteSet(Positions(q, c))
      BY PositionsFinite
    <2> HIDE DEF r, n
    <2>3. Cardinality(Positions(q, c) \cup {n}) = Cardinality(Positions(q, c)) + 1
      BY <2>1, <2>2, FS_AddElement
    <2> QED
      BY <1>4, <2>1, <2>3 DEF r
  <1>5. CASE s[1] # c
    <2>1. Positions(r, c) = Positions(q, c)
      BY <1>1, <1>3, <1>5 DEF Positions
    <2> QED
      BY <2>1, <1>5, PositionsFinite
  <1> QED
    BY <1>4, <1>5

(* xQueueReceive takes one sample from the count of the channel it was of, *)
(* and none from the others: the positions that are left are those of the  *)
(* tail, moved by one.                                                     *)
LEMMA PositionsOfTail ==
    ASSUME NEW q \in Seq(Samples), q # <<>>, NEW c
    PROVE  Cardinality(Positions(q, c))
             = Cardinality(Positions(Tail(q), c)) + (IF Head(q)[1] = c THEN 1 ELSE 0)
  <1> DEFINE r == Tail(q)
             rest == Positions(q, c) \ {1}
             shift == [i \in Positions(r, c) |-> i + 1]
  <1>1. /\ r \in Seq(Samples)
        /\ Len(r) = Len(q) - 1
        /\ \A i \in 1 .. Len(r) : r[i] = q[i + 1]
    BY HeadTailProperties
  <1>2. Len(q) \in Nat /\ Len(q) >= 1 /\ Head(q) = q[1]
    BY EmptySeq
  <1>3. \A i \in Positions(r, c) : i \in Nat /\ i + 1 \in rest
    BY <1>1, <1>2 DEF Positions
  <1>4. \A j \in rest : j \in Nat /\ j - 1 \in Positions(r, c) /\ (j - 1) + 1 = j
    BY <1>1, <1>2 DEF Positions
  <1>5. shift \in Bijection(Positions(r, c), rest)
    <2>1. shift \in [Positions(r, c) -> rest]
      BY <1>3
    <2>2. \A i, j \in Positions(r, c) : shift[i] = shift[j] => i = j
      BY <1>3
    <2>3. \A j \in rest : \E i \in Positions(r, c) : shift[i] = j
      BY <1>4
    <2>4. DOMAIN shift = Positions(r, c)
      OBVIOUS
    <2> HIDE DEF shift
    <2>5. IsInjective(shift)
      BY <2>2, <2>4, Zenon DEF IsInjective
    <2>6. shift \in Injection(Positions(r, c), rest)
      BY <2>1, <2>5 DEF Injection
    <2>7. shift \in Surjection(Positions(r, c), rest)
      BY <2>1, <2>3 DEF Surjection
    <2> QED
      BY <2>6, <2>7 DEF Bijection
  <1>6. Cardinality(rest) = Cardinality(Positions(r, c))
    <2>1. ExistsBijection(Positions(r, c), rest)
      BY <1>5 DEF ExistsBijection
    <2>2. IsFiniteSet(Positions(r, c))
      BY <1>1, PositionsFinite
    <2> HIDE DEF r, rest
    <2> QED
      BY <2>1, <2>2, FS_Bijection
  <1>7. Cardinality(rest) = IF 1 \in Positions(q, c) THEN Cardinality(Positions(q, c)) - 1
                                                    ELSE Cardinality(Positions(q, c))
    BY PositionsFinite, FS_RemoveElement
  <1>8. 1 \in Positions(q, c) <=> Head(q)[1] = c
    BY <1>2 DEF Positions
  <1> QED
    BY <1>1, <1>6, <1>7, <1>8, PositionsFinite

(* What determines a remainder.                                            *)
LEMMA Remainder ==
    ASSUME NEW q \in Nat, NEW r \in 0 .. CounterMod - 1, NEW n \in Nat,
           n = q * CounterMod + r
    PROVE  n % CounterMod = r
  BY ConstantsAssumption

(* Counting up in CounterMod agrees with counting up in Nat ...            *)
LEMMA BumpOfSum ==
    ASSUME NEW n \in Nat
    PROVE  Bump(n % CounterMod) = (n + 1) % CounterMod
  <1> DEFINE M == CounterMod
             r == n % M
  <1>0. M \in Nat \ {0}
    BY ConstantsAssumption
  <1>1. PICK q \in Nat : n = q * M + r
    BY <1>0
  <1>2. r \in 0 .. M - 1
    BY <1>0
  <1>3. Bump(r) = (r + 1) % M
    BY DEF Bump
  <1>4. q * M \in Int /\ (q + 1) * M = q * M + M
    BY <1>0
  <1> HIDE DEF r
  <1>5. CASE r + 1 < M
    <2>1. /\ r + 1 \in 0 .. M - 1 /\ n + 1 \in Nat
          /\ n + 1 = q * M + (r + 1)
      BY <1>0, <1>1, <1>2, <1>4, <1>5
    <2>2. (n + 1) % M = r + 1
      BY <2>1, Remainder
    <2>3. (r + 1) % M = r + 1
      BY <1>0, <1>2, <1>5
    <2> QED
      BY <1>3, <2>2, <2>3 DEF r
  <1>6. CASE r + 1 = M
    <2>1. /\ 0 \in 0 .. M - 1 /\ n + 1 \in Nat /\ q + 1 \in Nat
          /\ n + 1 = (q + 1) * M + 0
      BY <1>0, <1>1, <1>2, <1>4, <1>6
    <2>2. (n + 1) % M = 0
      BY <2>1, Remainder
    <2>3. M % M = 0
      BY <1>0
    <2> QED
      BY <1>3, <1>6, <2>2, <2>3 DEF r
  <1> QED
    BY <1>0, <1>2, <1>5, <1>6

(* ... counting down takes it back ...                                     *)
LEMMA DropOfSum ==
    ASSUME NEW n \in Nat
    PROVE  Drop((n + 1) % CounterMod) = n % CounterMod
  <1> DEFINE M == CounterMod
             r == n % M
  <1>0. M \in Nat \ {0}
    BY ConstantsAssumption
  <1>1. r \in 0 .. M - 1
    BY <1>0
  <1>2. (n + 1) % M = (r + 1) % M
    BY BumpOfSum DEF Bump
  <1>3. CASE r + 1 < M
    <2>1. (r + 1) % M = r + 1
      BY <1>0, <1>1, <1>3
    <2>2. (r + M) % M = r
      BY <1>0, <1>1
    <2> QED
      BY <1>0, <1>1, <1>2, <2>1, <2>2 DEF Drop
  <1>4. CASE r + 1 = M
    <2>1. M % M = 0
      BY <1>0
    <2>2. (0 + M - 1) % M = M - 1
      BY <1>0
    <2> QED
      BY <1>0, <1>1, <1>2, <1>4, <2>1, <2>2 DEF Drop
  <1> QED
    BY <1>0, <1>1, <1>3, <1>4

(* ... a whole turn of the counter is not seen ...                         *)
LEMMA WholeTurns ==
    ASSUME NEW n \in Nat
    PROVE  (n + CounterMod) % CounterMod = n % CounterMod
  <1> DEFINE M == CounterMod
             r == n % M
  <1>0. M \in Nat \ {0}
    BY ConstantsAssumption
  <1>1. PICK q \in Nat : n = q * M + r
    BY <1>0
  <1>2. r \in 0 .. M - 1
    BY <1>0
  <1>3. q * M \in Int /\ (q + 1) * M = q * M + M
    BY <1>0
  <1> HIDE DEF r
  <1>4. /\ n + M \in Nat /\ q + 1 \in Nat
        /\ n + M = (q + 1) * M + r
    BY <1>0, <1>1, <1>2, <1>3
  <1>5. (n + M) % M = r
    BY <1>2, <1>4, Remainder
  <1> QED
    BY <1>5 DEF r

(* ... and one more in a counter is one less in the rest of the sum.       *)
LEMMA BumpOfPart ==
    ASSUME NEW a \in 0 .. CounterMod - 1, NEW b \in Nat
    PROVE  (Bump(a) + b) % CounterMod = (a + (b + 1)) % CounterMod
  <1>0. CounterMod \in Nat \ {0}
    BY ConstantsAssumption
  <1>1. CASE a + 1 < CounterMod
    <2>1. Bump(a) = a + 1
      BY <1>0, <1>1 DEF Bump
    <2>2. Bump(a) + b = a + (b + 1)
      BY <1>0, <2>1
    <2> QED
      BY <2>2
  <1>2. CASE a + 1 = CounterMod
    <2>1. CounterMod % CounterMod = 0
      BY <1>0
    <2>2. Bump(a) = 0
      BY <2>1, <1>2 DEF Bump
    <2>3. a + (b + 1) = b + CounterMod /\ Bump(a) + b = b
      BY <1>0, <1>2, <2>2
    <2> QED
      BY <2>3, WholeTurns
  <1> QED
    BY <1>0, <1>1, <1>2

(* The statistics counters, one per channel.                               *)
Counters == [Channels -> 0 .. CounterMod - 1]

(* A producer that has a sample to send has one of its own channel.        *)
ProducersWellFormed ==
    /\ prod = [c \in Channels |-> [pc |-> prod[c].pc, sample |-> prod[c].sample]]
    /\ \A c \in Channels :
        /\ prod[c].pc \in {"delayed", "send", "count"}
        /\ prod[c].pc = "send" => prod[c].sample \in Samples /\ prod[c].sample[1] = c

(* The consumer filters a sample that was in the queue.                    *)
ConsumerWellFormed ==
    /\ cons = [pc |-> cons.pc, left |-> cons.left, sample |-> cons.sample]
    /\ cons.pc \in {"receive", "blocked", "filter"}
    /\ cons.pc = "filter" => cons.sample \in Samples

(* The types of the variables; those of the filters come with what they    *)
(* hold, in FiltersInv.                                                    *)
TypeInv ==
    /\ strict \in BOOLEAN
    /\ queue \in Seq(Samples)
    /\ overflows \in Counters
    /\ excess \in Counters
    /\ ProducersWellFormed
    /\ ConsumerWellFormed

(* What strict priorities give: the consumer, which has the highest, is    *)
(* back at the queue before a producer runs again, so the queue never      *)
(* holds more than the one sample just sent and no producer ever finds it  *)
(* full.                                                                   *)
KeepsUpInv ==
    strict => /\ Len(queue) <= 1
              /\ queue # <<>> => cons.pc # "filter"
              /\ \A c \in Channels : prod[c].pc # "count" /\ overflows[c] = 0

(* The types hold at the start.                                            *)
LEMMA TypeInvInit == Init => TypeInv
  BY ConstantsAssumption DEF Init, TypeInv, Counters, ProducersWellFormed, ConsumerWellFormed

(* adc_read clamps its result to the converter's range whatever the noise. *)
LEMMA AdcInRange ==
    ASSUME NEW c \in Channels, NEW noise \in - Noise[c] .. Noise[c]
    PROVE  <<c, AdcRead(c, noise)>> \in Samples
  <1>1. Noise[c] \in Nat /\ Baseline[c] \in 0 .. AdcMax /\ AdcMax \in Nat
    BY ConstantsAssumption, WidthAssumption
  <1>2. AdcRead(c, noise) \in 0 .. AdcMax
    BY <1>1 DEF AdcRead
  <1> QED
    BY <1>2 DEF Samples, Readings

(* A counter stays a counter.                                              *)
LEMMA BumpInRange ==
    ASSUME NEW n \in 0 .. CounterMod - 1
    PROVE  Bump(n) \in 0 .. CounterMod - 1 /\ Drop(n) \in 0 .. CounterMod - 1
  BY ConstantsAssumption DEF Bump, Drop

(* vTaskDelayUntil leaves the producer with no sample.                     *)
LEMMA AfterDelayUntil ==
    ASSUME ProducersWellFormed, NEW c \in Channels, DelayUntil(c)
    PROVE  ProducersWellFormed'
  <1>1. prod' = [prod EXCEPT ![c] = [pc |-> "delayed", sample |-> NoSample]]
    BY DEF DelayUntil
  <1> QED
    BY <1>1 DEF ProducersWellFormed

(* Every step of a task keeps the types.                                   *)
LEMMA TypeInvStep == TypeInv /\ [Next]_vars => TypeInv'
  <1> SUFFICES ASSUME TypeInv, [Next]_vars PROVE TypeInv'
    OBVIOUS
  <1> USE DEF TypeInv, ProducersWellFormed, ConsumerWellFormed
  <1>1. CASE Tick
    BY <1>1 DEF Tick
  <1>2. CASE ReceiveSample
    <2>1. Head(queue) \in Samples /\ Tail(queue) \in Seq(Samples)
      BY <1>2, HeadTailProperties DEF ReceiveSample
    <2> QED
      BY <1>2, <2>1 DEF ReceiveSample
  <1>3. CASE BlockOnEmpty
    BY <1>3 DEF BlockOnEmpty
  <1>4. CASE ReceiveTimesOut
    BY <1>4 DEF ReceiveTimesOut
  <1>5. CASE FilterSample
    <2>1. excess' \in Counters
      BY <1>5, BumpInRange DEF FilterSample, Counters, Samples
    <2> QED
      BY <1>5, <2>1 DEF FilterSample
  <1>6. CASE PrintStats
    BY <1>6 DEF PrintStats
  <1>7. ASSUME NEW c \in Channels, TakeSample(c) PROVE TypeInv'
    <2>1. excess' \in Counters
      BY <1>7, BumpInRange DEF TakeSample, Counters
    <2>2. PICK noise \in - Noise[c] .. Noise[c] :
            prod' = [prod EXCEPT ![c] = [pc |-> "send", sample |-> <<c, AdcRead(c, noise)>>]]
      BY <1>7 DEF TakeSample
    <2>3. <<c, AdcRead(c, noise)>> \in Samples /\ <<c, AdcRead(c, noise)>>[1] = c
      BY AdcInRange
    <2>4. ProducersWellFormed'
      BY <2>2, <2>3
    <2> QED
      BY <1>7, <2>1, <2>4 DEF TakeSample
  <1>8. ASSUME NEW c \in Channels, SendSample(c) PROVE TypeInv'
    <2>1. queue' \in Seq(Samples)
      <3>1. queue \in Seq(Samples) /\ prod[c].sample \in Samples
        BY <1>8 DEF SendSample
      <3>2. queue' = Append(queue, prod[c].sample)
        BY <1>8 DEF SendSample
      <3> QED
        BY <3>1, <3>2, AppendProperties
    <2>2. ProducersWellFormed'
      BY <1>8, AfterDelayUntil DEF SendSample
    <2>3. ConsumerWellFormed'
      BY <1>8 DEF SendSample
    <2> QED
      BY <1>8, <2>1, <2>2, <2>3 DEF SendSample
  <1>9. ASSUME NEW c \in Channels, FindQueueFull(c) PROVE TypeInv'
    BY <1>9 DEF FindQueueFull
  <1>10. ASSUME NEW c \in Channels, CountOverflow(c) PROVE TypeInv'
    <2>1. overflows' \in Counters
      BY <1>10, BumpInRange DEF CountOverflow, Counters
    <2> QED
      BY <1>10, <2>1 DEF CountOverflow, DelayUntil
  <1>11. CASE UNCHANGED vars
    BY <1>11 DEF vars
  <1> QED
    BY <1>1, <1>2, <1>3, <1>4, <1>5, <1>6, <1>7, <1>8, <1>9, <1>10, <1>11
    DEF Next, Consumer, Producer

(* When priorities are strict a producer runs only while the consumer      *)
(* waits on an empty queue.                                                *)
LEMMA StrictProducerMeansDrained ==
    ASSUME NEW c \in Channels, CanRun(c), strict, ConsumerWellFormed
    PROVE  cons.pc = "blocked" /\ queue = <<>>
  <1>1. /\ "consumer" \in Tasks /\ c \in Tasks
        /\ c # "consumer" /\ Priority("consumer") = 3 /\ Priority(c) = 2
    BY ConstantsAssumption DEF Tasks, Priority
  <1>2. ~ Ready("consumer")
    BY <1>1 DEF CanRun
  <1> QED
    BY <1>2 DEF Ready, ConsumerWellFormed

(* The queue is empty at the start.                                        *)
LEMMA KeepsUpInit == Init => KeepsUpInv
  BY DEF Init, KeepsUpInv

(* A send finds the queue empty, so it never fails; a receive empties it,  *)
(* and no producer runs until the consumer has filtered what it took and   *)
(* blocked again.                                                          *)
LEMMA KeepsUpStep == TypeInv /\ KeepsUpInv /\ [Next]_vars => KeepsUpInv'
  <1> SUFFICES ASSUME TypeInv, KeepsUpInv, [Next]_vars, strict' PROVE KeepsUpInv'
    BY DEF KeepsUpInv
  <1> USE DEF TypeInv, KeepsUpInv, ProducersWellFormed, ConsumerWellFormed
  <1>0. strict
    BY DEF Next, Consumer, Producer, Tick, ReceiveSample, BlockOnEmpty, ReceiveTimesOut,
           FilterSample, PrintStats, TakeSample, SendSample, FindQueueFull, CountOverflow, vars
  <1>1. CASE Tick
    BY <1>1 DEF Tick
  <1>2. CASE ReceiveSample
    <2>1. Len(queue') = Len(queue) - 1 /\ queue' \in Seq(Samples)
      BY <1>2, HeadTailProperties DEF ReceiveSample
    <2>2. queue' = <<>>
      BY <1>0, <2>1, EmptySeq
    <2> QED
      BY <1>0, <1>2, <2>2 DEF ReceiveSample
  <1>3. CASE BlockOnEmpty
    BY <1>0, <1>3 DEF BlockOnEmpty
  <1>4. CASE ReceiveTimesOut
    BY <1>0, <1>4 DEF ReceiveTimesOut
  <1>5. CASE FilterSample
    BY <1>0, <1>5 DEF FilterSample
  <1>6. CASE PrintStats
    BY <1>6 DEF PrintStats
  <1>7. ASSUME NEW c \in Channels, TakeSample(c) PROVE KeepsUpInv'
    <2>1. \A d \in Channels : prod'[d].pc # "count"
      BY <1>0, <1>7 DEF TakeSample
    <2> QED
      BY <1>0, <1>7, <2>1 DEF TakeSample
  <1>8. ASSUME NEW c \in Channels, SendSample(c) PROVE KeepsUpInv'
    <2>1. cons.pc = "blocked" /\ queue = <<>>
      BY <1>0, <1>8, StrictProducerMeansDrained DEF SendSample
    <2>2. Len(queue') = 1
      BY <1>8, <2>1 DEF SendSample
    <2>3. \A d \in Channels : prod'[d].pc # "count"
      BY <1>0, <1>8 DEF SendSample, DelayUntil
    <2> QED
      BY <1>0, <1>8, <2>1, <2>2, <2>3 DEF SendSample
  <1>9. ASSUME NEW c \in Channels, FindQueueFull(c) PROVE KeepsUpInv'
    <2>1. Len(queue) = 0
      BY <1>0, <1>9, StrictProducerMeansDrained DEF FindQueueFull
    <2> QED
      BY <1>9, <2>1, ConstantsAssumption DEF FindQueueFull
  <1>10. ASSUME NEW c \in Channels, CountOverflow(c) PROVE KeepsUpInv'
    BY <1>0, <1>10 DEF CountOverflow
  <1>11. CASE UNCHANGED vars
    BY <1>11 DEF vars
  <1> QED
    BY <1>1, <1>2, <1>3, <1>4, <1>5, <1>6, <1>7, <1>8, <1>9, <1>10, <1>11
    DEF Next, Consumer, Producer

(* SamplesAccounted, of one channel.                                       *)
Accounted(c) == excess[c] = (overflows[c] + (Held(c) + Queued(c) + InHand(c))) % CounterMod

(* The terms of the sum are numbers.                                       *)
LEMMA QueuedInNat ==
    ASSUME TypeInv, NEW c \in Channels
    PROVE  /\ Queued(c) \in Nat /\ Held(c) \in {0, 1} /\ InHand(c) \in {0, 1}
           /\ overflows[c] \in 0 .. CounterMod - 1 /\ overflows[c] \in Nat
  <1>1. Queued(c) \in Nat
    BY PositionsFinite DEF TypeInv, Queued, Positions
  <1> QED
    BY <1>1, ConstantsAssumption DEF TypeInv, Counters, Held, InHand

(* Nothing has been taken, sent or filtered at the start.                  *)
LEMMA AccountedInit == Init => SamplesAccounted
  <1> SUFFICES ASSUME Init, NEW c \in Channels PROVE Accounted(c)
    BY DEF SamplesAccounted, Accounted
  <1>1. Positions(<<>>, c) = {}
    BY DEF Positions
  <1>2. Queued(c) = 0
    BY <1>1, FS_EmptySet DEF Init, Queued, Positions
  <1> QED
    BY <1>2, ConstantsAssumption DEF Init, Accounted, Held, InHand

(* Each step moves a sample of its channel from one term of the sum to the *)
(* next - taken, queued, in the consumer's hand, filtered or counted lost  *)
(* - and changes no other channel's terms. The counters may wrap any       *)
(* number of times.                                                        *)
LEMMA AccountedStep == TypeInv /\ SamplesAccounted /\ [Next]_vars => SamplesAccounted'
  <1> SUFFICES ASSUME TypeInv, SamplesAccounted, [Next]_vars, NEW d \in Channels
               PROVE  Accounted(d)'
    BY DEF SamplesAccounted, Accounted
  <1> DEFINE onItsWay == Held(d) + Queued(d) + InHand(d)
  <1>a. /\ Queued(d) \in Nat /\ Held(d) \in {0, 1} /\ InHand(d) \in {0, 1}
        /\ overflows[d] \in 0 .. CounterMod - 1 /\ overflows[d] \in Nat
        /\ onItsWay \in Nat
    BY QueuedInNat
  <1>b. excess[d] = (overflows[d] + onItsWay) % CounterMod
    BY DEF SamplesAccounted
  <1>c. ASSUME UNCHANGED <<queue, overflows, prod, excess>>, InHand(d)' = InHand(d)
        PROVE  Accounted(d)'
    BY <1>b, <1>c DEF Accounted, Held, Queued
  <1> HIDE DEF onItsWay
  <1>1. CASE Tick
    <2>1. InHand(d)' = InHand(d)
      BY <1>1 DEF Tick, InHand, TypeInv, ConsumerWellFormed
    <2> QED
      BY <1>1, <1>c, <2>1 DEF Tick
  <1>2. CASE ReceiveSample
    <2>1. Queued(d) = Queued(d)' + (IF Head(queue)[1] = d THEN 1 ELSE 0)
      <3>1. queue \in Seq(Samples) /\ queue # <<>> /\ queue' = Tail(queue)
        BY <1>2 DEF ReceiveSample, TypeInv
      <3>2. Queued(d) = Cardinality(Positions(queue, d))
        BY DEF Queued, Positions
      <3>3. Queued(d)' = Cardinality(Positions(Tail(queue), d))
        BY <3>1 DEF Queued, Positions
      <3> QED
        BY <3>1, <3>2, <3>3, PositionsOfTail
    <2>2. InHand(d) = 0 /\ InHand(d)' = (IF Head(queue)[1] = d THEN 1 ELSE 0)
      BY <1>2 DEF ReceiveSample, InHand
    <2>3. Queued(d)' \in Nat
      <3>1. queue' \in Seq(Samples)
        BY <1>2, HeadTailProperties DEF ReceiveSample, TypeInv
      <3> QED
        BY <3>1, PositionsFinite DEF Queued, Positions
    <2>4. Queued(d)' + InHand(d)' = Queued(d) + InHand(d)
      BY <2>1, <2>2, <2>3
    <2>5. Held(d)' = Held(d)
      BY <1>2 DEF ReceiveSample, Held
    <2>6. (Held(d) + Queued(d) + InHand(d))' = onItsWay
      BY <1>a, <2>2, <2>3, <2>4, <2>5 DEF onItsWay
    <2> QED
      BY <1>2, <1>b, <2>6 DEF Accounted, ReceiveSample
  <1>3. CASE BlockOnEmpty
    BY <1>3, <1>c DEF BlockOnEmpty, InHand
  <1>4. CASE ReceiveTimesOut
    <2>1. InHand(d)' = InHand(d)
      BY <1>4 DEF ReceiveTimesOut, InHand, TypeInv, ConsumerWellFormed
    <2> QED
      BY <1>4, <1>c, <2>1 DEF ReceiveTimesOut
  <1>5. CASE FilterSample
    <2>1. Held(d)' = Held(d) /\ Queued(d)' = Queued(d) /\ overflows' = overflows /\ InHand(d)' = 0
      BY <1>5 DEF FilterSample, Held, Queued, InHand
    <2>2. CASE cons.sample[1] = d
      <3>1. excess'[d] = Drop(excess[d]) /\ InHand(d) = 1
        BY <1>5, <2>2 DEF FilterSample, InHand, TypeInv, Counters
      <3>2. PICK n \in Nat : /\ overflows[d] + onItsWay = n + 1
                             /\ overflows[d] + (Held(d) + Queued(d) + 0) = n
        BY <1>a, <3>1 DEF onItsWay
      <3>3. excess'[d] = n % CounterMod
        BY <1>b, <3>1, <3>2, DropOfSum
      <3> QED
        BY <2>1, <3>2, <3>3 DEF Accounted
    <2>3. CASE cons.sample[1] # d
      <3>1. excess'[d] = excess[d] /\ InHand(d) = 0
        BY <1>5, <2>3 DEF FilterSample, InHand, TypeInv, Counters
      <3> QED
        BY <1>b, <2>1, <3>1 DEF Accounted, onItsWay
    <2> QED
      BY <2>2, <2>3
  <1>6. CASE PrintStats
    BY <1>6, <1>c DEF PrintStats, InHand
  <1>7. ASSUME NEW c \in Channels, TakeSample(c) PROVE Accounted(d)'
    <2>1. Queued(d)' = Queued(d) /\ InHand(d)' = InHand(d) /\ overflows' = overflows
      BY <1>7 DEF TakeSample, Queued, InHand
    <2>2. CASE c = d
      <3>1. excess'[d] = Bump(excess[d]) /\ Held(d) = 0 /\ Held(d)' = 1
        BY <1>7, <2>2 DEF TakeSample, Held, TypeInv, Counters, ProducersWellFormed
      <3>2. (overflows[d] + onItsWay) + 1 = overflows[d] + (1 + Queued(d) + InHand(d))
        BY <1>a, <3>1 DEF onItsWay
      <3>3. excess'[d] = ((overflows[d] + onItsWay) + 1) % CounterMod
        BY <1>a, <1>b, <3>1, BumpOfSum
      <3> QED
        BY <2>1, <3>1, <3>2, <3>3 DEF Accounted
    <2>3. CASE c # d
      <3>1. excess'[d] = excess[d] /\ Held(d)' = Held(d)
        BY <1>7, <2>3 DEF TakeSample, Held, TypeInv, Counters, ProducersWellFormed
      <3> QED
        BY <1>b, <2>1, <3>1 DEF Accounted, onItsWay
    <2> QED
      BY <2>2, <2>3
  <1>8. ASSUME NEW c \in Channels, SendSample(c) PROVE Accounted(d)'
    <2>1. excess' = excess /\ overflows' = overflows /\ InHand(d)' = InHand(d)
      BY <1>8 DEF SendSample, InHand
    <2>2. Queued(d)' = Queued(d) + (IF c = d THEN 1 ELSE 0)
      <3>1. /\ queue \in Seq(Samples) /\ queue' = Append(queue, prod[c].sample)
            /\ prod[c].sample \in Samples /\ prod[c].sample[1] = c
        BY <1>8 DEF SendSample, TypeInv, ProducersWellFormed
      <3>2. Queued(d) = Cardinality(Positions(queue, d))
        BY DEF Queued, Positions
      <3>3. Queued(d)' = Cardinality(Positions(Append(queue, prod[c].sample), d))
        BY <3>1 DEF Queued, Positions
      <3> QED
        BY <3>1, <3>2, <3>3, PositionsOfAppend
    <2>3. Held(d) = Held(d)' + (IF c = d THEN 1 ELSE 0) /\ Held(d)' \in {0, 1}
      BY <1>8 DEF SendSample, DelayUntil, Held, TypeInv, ProducersWellFormed
    <2>4. (Held(d) + Queued(d) + InHand(d))' = onItsWay
      BY <1>a, <2>1, <2>2, <2>3 DEF onItsWay
    <2> QED
      BY <1>b, <2>1, <2>4 DEF Accounted
  <1>9. ASSUME NEW c \in Channels, FindQueueFull(c) PROVE Accounted(d)'
    <2>1. Held(d)' = Held(d) /\ Queued(d)' = Queued(d) /\ InHand(d)' = InHand(d)
      BY <1>9 DEF FindQueueFull, Held, Queued, InHand, TypeInv, ProducersWellFormed
    <2> QED
      BY <1>9, <1>b, <2>1 DEF FindQueueFull, Accounted, onItsWay
  <1>10. ASSUME NEW c \in Channels, CountOverflow(c) PROVE Accounted(d)'
    <2>1. Queued(d)' = Queued(d) /\ InHand(d)' = InHand(d) /\ excess' = excess
      BY <1>10 DEF CountOverflow, Queued, InHand
    <2>2. CASE c = d
      <3>1. overflows'[d] = Bump(overflows[d]) /\ Held(d) = 1 /\ Held(d)' = 0
        BY <1>10, <2>2
        DEF CountOverflow, DelayUntil, Held, TypeInv, Counters, ProducersWellFormed
      <3>2. PICK n \in Nat : n = 0 + Queued(d) + InHand(d) /\ onItsWay = n + 1
        BY <1>a, <3>1 DEF onItsWay
      <3>3. (Bump(overflows[d]) + n) % CounterMod = (overflows[d] + (n + 1)) % CounterMod
        BY <1>a, BumpOfPart
      <3> QED
        BY <1>b, <2>1, <3>1, <3>2, <3>3 DEF Accounted
    <2>3. CASE c # d
      <3>1. overflows'[d] = overflows[d] /\ Held(d)' = Held(d)
        BY <1>10, <2>3
        DEF CountOverflow, DelayUntil, Held, TypeInv, Counters, ProducersWellFormed
      <3> QED
        BY <1>b, <2>1, <3>1 DEF Accounted, onItsWay
    <2> QED
      BY <2>2, <2>3
  <1>11. CASE UNCHANGED vars
    BY <1>11, <1>c DEF vars, InHand
  <1> QED
    BY <1>1, <1>2, <1>3, <1>4, <1>5, <1>6, <1>7, <1>8, <1>9, <1>10, <1>11
    DEF Next, Consumer, Producer

(* -- Sums ---------------------------------------------------------------- *)

(* The partial sums are what their equations say: they start at 0 and each *)
(* adds one entry.                                                         *)
LEMMA PartialSumsRecur ==
    ASSUME NEW w \in Seq(Nat)
    PROVE  /\ PartialSums(w) \in [0 .. Len(w) -> Nat]
           /\ PartialSums(w)[0] = 0
           /\ \A i \in 1 .. Len(w) : PartialSums(w)[i] = PartialSums(w)[i - 1] + w[i]
  <1> DEFINE n == Len(w)
             step == [i \in 1 .. n |-> [t \in Nat |-> t + w[i]]]
             Sums(s) == s = [i \in 0 .. n |-> IF i = 0 THEN 0 ELSE s[i - 1] + w[i]]
  <1>1. n \in Nat /\ step \in [1 .. n -> [Nat -> Nat]]
    OBVIOUS
  <1>2. PICK f \in [0 .. n -> Nat] : Recurs(f, 0, step, n)
    <2> HIDE DEF step, n
    <2>1. 0 \in Nat
      OBVIOUS
    <2> QED
      BY <1>1, <2>1, RecursionExists
  <1>3. Sums(f)
    <2>1. \A i \in 1 .. n : f[i] = f[i - 1] + w[i]
      <3>1. ASSUME NEW i \in 1 .. n PROVE f[i] = f[i - 1] + w[i]
        <4>1. f[i] = step[i][f[i - 1]]
          BY <1>2 DEF Recurs
        <4>2. i - 1 \in 0 .. n
          BY <1>1
        <4>3. f[i - 1] \in Nat
          BY <4>2
        <4> QED
          BY <4>1, <4>3
      <3> QED
        BY <3>1
    <2> QED
      BY <1>2, <2>1 DEF Recurs
  <1>4. PartialSums(w) = CHOOSE s : Sums(s)
    BY DEF PartialSums
  <1>5. Sums(PartialSums(w))
    <2> HIDE DEF Sums
    <2> QED
      BY <1>3, <1>4
  <1>6. /\ DOMAIN PartialSums(w) = 0 .. n
        /\ PartialSums(w)[0] = 0
        /\ \A i \in 1 .. n : PartialSums(w)[i] = PartialSums(w)[i - 1] + w[i]
    <2> DEFINE p == PartialSums(w)
    <2>1. p = [i \in 0 .. n |-> IF i = 0 THEN 0 ELSE p[i - 1] + w[i]]
      BY <1>5
    <2> HIDE DEF p
    <2>2. DOMAIN p = 0 .. n /\ p[0] = 0 /\ \A i \in 1 .. n : p[i] = p[i - 1] + w[i]
      BY <1>1, <2>1
    <2> QED
      BY <2>2 DEF p
  <1>7. \A i \in 0 .. n : PartialSums(w)[i] \in Nat
    <2> DEFINE T == {i \in 0 .. n : PartialSums(w)[i] \in Nat}
    <2>1. 0 \in T
      BY <1>1, <1>6
    <2>2. ASSUME NEW i \in 1 .. n, PartialSums(w)[i - 1] \in Nat PROVE PartialSums(w)[i] \in Nat
      <3>1. w[i] \in Nat
        OBVIOUS
      <3> QED
        BY <1>6, <2>2, <3>1
    <2>3. \A i \in 1 .. n : i - 1 \in T => i \in T
      BY <2>2
    <2> HIDE DEF T
    <2>4. \A i \in 0 .. n : i \in T
      BY <1>1, <2>1, <2>3, InductUpto
    <2> QED
      BY <2>4 DEF T
  <1>8. PartialSums(w) = [i \in 0 .. n |-> PartialSums(w)[i]]
    BY <1>5, <1>6
  <1> QED
    BY <1>6, <1>7, <1>8

(* A sum of naturals is a natural.                                         *)
LEMMA SumIsNat ==
    ASSUME NEW w \in Seq(Nat)
    PROVE  Sum(w) \in Nat
  <1>1. Len(w) \in 0 .. Len(w)
    OBVIOUS
  <1> QED
    BY <1>1, PartialSumsRecur DEF Sum

(* A sum with one more entry.                                              *)
LEMMA SumOfAppend ==
    ASSUME NEW w \in Seq(Nat), NEW x \in Nat
    PROVE  Sum(Append(w, x)) = Sum(w) + x
  <1> DEFINE v == Append(w, x)
             n == Len(w)
             f == PartialSums(w)
             g == PartialSums(v)
  <1>1. /\ v \in Seq(Nat) /\ Len(v) = n + 1 /\ v[n + 1] = x
        /\ \A i \in 1 .. n : v[i] = w[i]
        /\ n \in Nat
    BY AppendProperties
  <1>2. /\ f[0] = 0 /\ \A i \in 1 .. n : f[i] = f[i - 1] + w[i]
        /\ g[0] = 0 /\ \A i \in 1 .. n + 1 : g[i] = g[i - 1] + v[i]
    <2> HIDE DEF v
    <2> QED
      BY <1>1, PartialSumsRecur
  <1> HIDE DEF f, g, v, n
  <1>3. \A i \in 0 .. n : g[i] = f[i]
    <2> DEFINE T == {i \in 0 .. n : g[i] = f[i]}
    <2>1. 0 \in T
      BY <1>1, <1>2
    <2>2. \A i \in 1 .. n : i - 1 \in T => i \in T
      BY <1>1, <1>2
    <2>3. \A i \in 0 .. n : i \in T
      <3> HIDE DEF T
      <3> QED
        BY <1>1, <2>1, <2>2, InductUpto
    <2> QED
      BY <2>3
  <1>4. g[n + 1] = g[n] + x /\ g[n] = f[n]
    BY <1>1, <1>2, <1>3
  <1> QED
    BY <1>1, <1>4 DEF Sum, f, g, v, n

(* A sum without its first entry.                                          *)
LEMMA SumOfTail ==
    ASSUME NEW w \in Seq(Nat), w # <<>>
    PROVE  Sum(w) = w[1] + Sum(Tail(w))
  <1> DEFINE v == Tail(w)
             n == Len(v)
             f == PartialSums(w)
             g == PartialSums(v)
             T == {i \in 0 .. n : f[i + 1] = w[1] + g[i]}
  <1>1. /\ v \in Seq(Nat) /\ Len(w) = n + 1 /\ n \in Nat
        /\ \A i \in 1 .. n : v[i] = w[i + 1]
    BY HeadTailProperties, EmptySeq
  <1>2. /\ f[0] = 0 /\ \A i \in 1 .. n + 1 : f[i] = f[i - 1] + w[i]
        /\ g \in [0 .. n -> Nat]
        /\ g[0] = 0 /\ \A i \in 1 .. n : g[i] = g[i - 1] + v[i]
    <2> HIDE DEF v
    <2> QED
      BY <1>1, PartialSumsRecur
  <1>3. \A i \in 1 .. n + 1 : w[i] \in Nat
    BY <1>1
  <1> HIDE DEF f, g, v, n
  <1>4. 0 \in T
    <2>1. 1 \in 1 .. n + 1 /\ 1 - 1 = 0
      BY <1>1
    <2>2. f[1] = 0 + w[1]
      BY <1>2, <2>1
    <2> QED
      BY <1>1, <1>2, <1>3, <2>1, <2>2
  <1>5. ASSUME NEW i \in 1 .. n, i - 1 \in T PROVE i \in T
    <2>1. i + 1 \in 1 .. n + 1 /\ (i + 1) - 1 = i /\ (i - 1) + 1 = i
          /\ 1 \in 1 .. n + 1 /\ i - 1 \in 0 .. n
      BY <1>1
    <2>2. f[i + 1] = f[i] + w[i + 1]
      BY <1>2, <2>1
    <2>3. f[i] = w[1] + g[i - 1] /\ g[i] = g[i - 1] + w[i + 1]
      BY <1>1, <1>2, <1>5, <2>1
    <2>4. w[1] \in Nat /\ w[i + 1] \in Nat /\ g[i - 1] \in Nat
      BY <1>2, <1>3, <2>1
    <2> QED
      BY <1>1, <2>2, <2>3, <2>4
  <1>6. \A i \in 0 .. n : i \in T
    <2> HIDE DEF T
    <2>1. \A i \in 1 .. n : i - 1 \in T => i \in T
      BY <1>5
    <2> QED
      BY <1>1, <1>4, <2>1, InductUpto
  <1>7. f[n + 1] = w[1] + g[n]
    BY <1>1, <1>6
  <1> QED
    BY <1>1, <1>7 DEF Sum, f, g, v, n

(* The sum after one entry was overwritten, as filter_update overwrites    *)
(* the oldest of a full window.                                            *)
LEMMA SumOfReplaced ==
    ASSUME NEW w \in Seq(Nat), NEW j \in 1 .. Len(w), NEW x \in Nat
    PROVE  Sum([w EXCEPT ![j] = x]) = Sum(w) + (x - w[j])
  <1> DEFINE v == [w EXCEPT ![j] = x]
             n == Len(w)
             f == PartialSums(w)
             g == PartialSums(v)
             d == x - w[j]
             T == {i \in 0 .. n : g[i] = IF i < j THEN f[i] ELSE f[i] + d}
  <1>1. /\ v \in Seq(Nat) /\ Len(v) = n /\ n \in Nat
        /\ \A i \in 1 .. n : i # j => v[i] = w[i]
        /\ v[j] = x
    OBVIOUS
  <1>2. /\ f \in [0 .. n -> Nat] /\ f[0] = 0 /\ \A i \in 1 .. n : f[i] = f[i - 1] + w[i]
        /\ g \in [0 .. n -> Nat] /\ g[0] = 0 /\ \A i \in 1 .. n : g[i] = g[i - 1] + v[i]
    <2> HIDE DEF v
    <2> QED
      BY <1>1, PartialSumsRecur
  <1>3. /\ \A i \in 1 .. n : w[i] \in Nat
        /\ j \in 1 .. n /\ d \in Int /\ w[j] + d = x
    BY <1>1
  <1> HIDE DEF f, g, v, n, d
  <1>4. 0 \in T
    BY <1>1, <1>2, <1>3
  <1>5. ASSUME NEW i \in 1 .. n, i - 1 \in T PROVE i \in T
    <2>1. i - 1 \in 0 .. n /\ i \in 0 .. n
      BY <1>1
    <2>2. g[i - 1] \in Nat /\ f[i - 1] \in Nat /\ w[i] \in Nat
      BY <1>2, <1>3, <2>1
    <2>3. f[i] = f[i - 1] + w[i] /\ g[i] = g[i - 1] + v[i]
      BY <1>2
    <2>4. g[i - 1] = IF i - 1 < j THEN f[i - 1] ELSE f[i - 1] + d
      BY <1>5
    <2>5. CASE i = j
      <3>1. f[i] = f[i - 1] + w[j] /\ g[i] = f[i - 1] + x /\ ~ (i < j)
        BY <1>1, <1>3, <2>1, <2>3, <2>4, <2>5
      <3>2. g[i] = f[i] + d
        BY <1>3, <2>2, <3>1
      <3> QED
        BY <2>1, <3>1, <3>2
    <2>6. CASE i < j
      <3>1. i - 1 < j /\ i # j
        BY <1>3, <2>6
      <3>2. g[i - 1] = f[i - 1] /\ v[i] = w[i]
        BY <1>1, <2>4, <3>1
      <3> QED
        BY <2>1, <2>3, <2>6, <3>2
    <2>7. CASE i > j
      <3>1. ~ (i - 1 < j) /\ ~ (i < j) /\ i # j
        BY <1>3, <2>7
      <3>2. g[i - 1] = f[i - 1] + d /\ g[i] = g[i - 1] + w[i]
        BY <1>1, <2>3, <2>4, <3>1
      <3>3. g[i] = f[i] + d
        BY <1>3, <2>2, <2>3, <3>2
      <3> QED
        BY <2>1, <3>1, <3>3
    <2> QED
      BY <1>3, <2>1, <2>5, <2>6, <2>7
  <1>6. \A i \in 0 .. n : i \in T
    <2> HIDE DEF T
    <2>1. \A i \in 1 .. n : i - 1 \in T => i \in T
      BY <1>5
    <2> QED
      BY <1>1, <1>4, <2>1, InductUpto
  <1>7. n \in T /\ ~ (n < j)
    BY <1>1, <1>3, <1>6
  <1>8. g[n] = f[n] + d
    BY <1>7
  <1> QED
    BY <1>1, <1>8 DEF Sum, f, g, v, n, d

(* A sum of entries that are at most m.                                    *)
LEMMA SumBounded ==
    ASSUME NEW w \in Seq(Nat), NEW m \in Nat, \A i \in 1 .. Len(w) : w[i] <= m
    PROVE  Sum(w) <= Len(w) * m
  <1> DEFINE n == Len(w)
             f == PartialSums(w)
             T == {i \in 0 .. n : f[i] <= i * m}
  <1>1. n \in Nat /\ \A i \in 1 .. n : w[i] \in Nat /\ w[i] <= m
    OBVIOUS
  <1>2. f \in [0 .. n -> Nat] /\ f[0] = 0 /\ \A i \in 1 .. n : f[i] = f[i - 1] + w[i]
    BY PartialSumsRecur
  <1> HIDE DEF f, n
  <1>3. 0 \in T
    BY <1>1, <1>2
  <1>4. ASSUME NEW i \in 1 .. n, i - 1 \in T PROVE i \in T
    <2>1. i - 1 \in 0 .. n /\ i \in 0 .. n /\ f[i - 1] \in Nat /\ w[i] \in Nat /\ w[i] <= m
      BY <1>1, <1>2
    <2>2. f[i] = f[i - 1] + w[i]
      BY <1>2
    <2>3. (i - 1) * m \in Nat /\ (i - 1) * m + m = i * m
      <3>1. i - 1 \in Nat /\ i \in Nat
        OBVIOUS
      <3> QED
        BY <3>1
    <2>4. f[i - 1] <= (i - 1) * m
      BY <1>4
    <2>5. i * m \in Nat /\ f[i] <= i * m
      BY <2>1, <2>2, <2>3, <2>4
    <2> QED
      BY <2>1, <2>5
  <1>5. \A i \in 0 .. n : i \in T
    <2> HIDE DEF T
    <2>1. \A i \in 1 .. n : i - 1 \in T => i \in T
      BY <1>4
    <2> QED
      BY <1>1, <1>3, <2>1, InductUpto
  <1>6. n \in T
    BY <1>1, <1>5
  <1>7. f[n] <= n * m
    BY <1>6
  <1> QED
    BY <1>7 DEF Sum, f, n

(* -- The moving average ------------------------------------------------- *)

(* The entries of a window that hold readings, oldest first while it fills. *)
Entries(win, count) == [i \in 1 .. count |-> win[i - 1]]

(* Where the i-th oldest reading of a full window is.                      *)
Place(idx, i) == IF idx + i - 1 < Window THEN idx + i - 1 ELSE idx + i - 1 - Window

(* The shape of an entry of axState.                                       *)
FilterType(f) ==
    /\ f = [win |-> f.win, idx |-> f.idx, count |-> f.count, out |-> f.out]
    /\ f.win \in [0 .. Window - 1 -> Readings]
    /\ f.idx \in 0 .. Window - 1
    /\ f.count \in 0 .. Window

(* The circular window f holds exactly the readings r, which came in this  *)
(* order, and its output is their mean.                                    *)
Holds(f, r) ==
    /\ FilterType(f)
    /\ r \in Seq(Readings)
    /\ Len(r) = f.count
    /\ f.count < Window => /\ f.idx = f.count
                           /\ \A i \in 1 .. f.count : r[i] = f.win[i - 1]
    /\ f.count = Window => \A i \in 1 .. Window : r[i] = f.win[Place(f.idx, i)]
    /\ Sum(Entries(f.win, f.count)) = Sum(r)
    /\ f.count > 0 => f.out = Sum(r) \div f.count

(* A sequence of readings is a sequence of naturals.                       *)
LEMMA ReadingsAreNat == Seq(Readings) \subseteq Seq(Nat)
  BY ConstantsAssumption, WidthAssumption, SeqMonotonic DEF Readings

(* The uint32_t sum does not wrap and the cast to uint16_t cuts nothing    *)
(* off: the window has no more entries than there are uint16_t values.     *)
LEMMA AverageIsExact ==
    ASSUME NEW w \in Seq(Readings), Len(w) \in 1 .. Window
    PROVE  ((Sum(w) % WordMod) \div Len(w)) % HalfMod = Sum(w) \div Len(w)
  <1> DEFINE n == Len(w)
             t == Sum(w)
             m == HalfMod - 1
  <1>1. /\ HalfMod \in Nat /\ m \in Nat /\ WordMod = HalfMod * HalfMod
        /\ AdcMax <= m /\ AdcMax \in Nat /\ n \in Nat /\ 1 <= n /\ n <= HalfMod
    BY WidthAssumption, WindowAssumption, ConstantsAssumption
  <1>2. w \in Seq(Nat) /\ \A i \in 1 .. n : w[i] <= m
    <2>1. \A i \in 1 .. n : w[i] \in Readings
      OBVIOUS
    <2>2. Readings \subseteq Nat
      BY DEF Readings
    <2>3. w \in Seq(Nat)
      BY <2>2, ReadingsAreNat
    <2> QED
      BY <1>1, <2>1, <2>3 DEF Readings
  <1>3. t \in Nat /\ t <= n * m
    BY <1>1, <1>2, SumIsNat, SumBounded
  <1> HIDE DEF n, t
  <1>4. t < WordMod
    <2>1. n * m <= HalfMod * m
      BY <1>1
    <2>2. HalfMod * m = HalfMod * HalfMod - HalfMod
      BY <1>1
    <2>3. n * m \in Nat /\ HalfMod * HalfMod \in Nat
      BY <1>1
    <2> QED
      BY <1>1, <1>3, <2>1, <2>2, <2>3
  <1>5. t % WordMod = t
    BY <1>1, <1>3, <1>4
  <1>6. t \div n \in Nat /\ t \div n <= m
    <2> DEFINE q == t \div n
    <2>1. q \in Nat /\ q * n <= t
      BY <1>1, <1>3
    <2> HIDE DEF q
    <2>2. q * n <= n * m
      BY <1>1, <1>3, <2>1
    <2>3. CASE q > m
      <3>1. q * n >= (m + 1) * n
        BY <1>1, <2>1, <2>3
      <3>2. (m + 1) * n = n * m + n
        BY <1>1
      <3> QED
        BY <1>1, <2>1, <2>2, <3>1, <3>2
    <2> QED
      BY <1>1, <2>1, <2>3 DEF q
  <1>7. (t \div n) % HalfMod = t \div n
    BY <1>1, <1>6
  <1> QED
    BY <1>5, <1>7 DEF n, t

(* The write index and the counter after one sample.                       *)
LEMMA NextPlaces ==
    ASSUME NEW f, FilterType(f), NEW x \in Readings
    PROVE  LET g == FilterUpdate(f, x)
           IN  /\ g = [win |-> g.win, idx |-> g.idx, count |-> g.count, out |-> g.out]
               /\ g.win \in [0 .. Window - 1 -> Readings]
               /\ \A i \in 0 .. Window - 1 : g.win[i] = (IF i = f.idx THEN x ELSE f.win[i])
               /\ g.idx = (IF f.idx + 1 = Window THEN 0 ELSE f.idx + 1)
               /\ g.count = (IF f.count < Window THEN f.count + 1 ELSE Window)
               /\ g.out = Average(g.win, g.count)
  <1>1. Window \in Nat /\ Window > 0
    BY WindowAssumption, WidthAssumption
  <1>2. (f.idx + 1) % Window = IF f.idx + 1 = Window THEN 0 ELSE f.idx + 1
    <2>1. f.idx \in 0 .. Window - 1
      BY DEF FilterType
    <2>2. CASE f.idx + 1 = Window
      <3>1. Window % Window = 0
        BY <1>1
      <3> QED
        BY <2>2, <3>1
    <2>3. CASE f.idx + 1 # Window
      BY <1>1, <2>1, <2>3
    <2> QED
      BY <2>2, <2>3
  <1>3. Filled(f.count) = IF f.count < Window THEN f.count + 1 ELSE Window
    BY <1>1 DEF Filled, FilterType
  <1> QED
    BY <1>1, <1>2, <1>3 DEF FilterUpdate, FilterType

(* The entries of a window are readings.                                   *)
LEMMA EntriesType ==
    ASSUME NEW win \in [0 .. Window - 1 -> Readings], NEW count \in 0 .. Window
    PROVE  /\ Entries(win, count) \in Seq(Readings)
           /\ Entries(win, count) \in Seq(Nat)
           /\ Len(Entries(win, count)) = count
           /\ \A i \in 1 .. count : Entries(win, count)[i] = win[i - 1]
  <1>1. Window \in Nat
    BY WindowAssumption, WidthAssumption
  <1>2. Entries(win, count) \in [1 .. count -> Readings]
    BY <1>1 DEF Entries
  <1>3. count \in Nat
    BY <1>1
  <1>4. Entries(win, count) \in Seq(Readings) /\ Len(Entries(win, count)) = count
    BY <1>2, <1>3
  <1> QED
    BY <1>4, ReadingsAreNat DEF Entries

(* While the window fills, a reading is one more entry ...                 *)
LEMMA FillingStep ==
    ASSUME NEW f, NEW r, Holds(f, r), f.count < Window, NEW x \in Readings
    PROVE  Holds(FilterUpdate(f, x), Append(r, x))
  <1> DEFINE g == FilterUpdate(f, x)
             n == f.count
             s == Append(r, x)
             v == Entries(f.win, n)
             w == Entries(g.win, g.count)
  <1>0. Window \in Nat /\ Window > 0 /\ n \in 0 .. Window - 1 /\ f.idx = n
    BY WindowAssumption, WidthAssumption DEF Holds, FilterType
  <1>1. /\ g = [win |-> g.win, idx |-> g.idx, count |-> g.count, out |-> g.out]
        /\ g.win \in [0 .. Window - 1 -> Readings]
        /\ \A i \in 0 .. Window - 1 : g.win[i] = (IF i = n THEN x ELSE f.win[i])
        /\ g.idx = (IF n + 1 = Window THEN 0 ELSE n + 1)
        /\ g.count = n + 1
        /\ g.out = Average(g.win, n + 1)
    BY <1>0, NextPlaces DEF Holds
  <1>2. /\ r \in Seq(Readings) /\ r \in Seq(Nat) /\ Len(r) = n
        /\ \A i \in 1 .. n : r[i] = f.win[i - 1]
        /\ Sum(v) = Sum(r) /\ x \in Nat
    BY ReadingsAreNat DEF Holds, Readings
  <1>3. /\ s \in Seq(Readings) /\ Len(s) = n + 1 /\ s[n + 1] = x
        /\ \A i \in 1 .. n : s[i] = r[i]
    BY <1>2, AppendProperties
  <1>4. /\ v \in Seq(Nat) /\ Len(v) = n /\ \A i \in 1 .. n : v[i] = f.win[i - 1]
        /\ w \in Seq(Readings) /\ w \in Seq(Nat)
        /\ Len(w) = n + 1 /\ \A i \in 1 .. n + 1 : w[i] = g.win[i - 1]
    <2>1. f.win \in [0 .. Window - 1 -> Readings] /\ n \in 0 .. Window
          /\ g.count \in 0 .. Window
      BY <1>0, <1>1 DEF Holds, FilterType
    <2>2. /\ v \in Seq(Nat) /\ Len(v) = n /\ \A i \in 1 .. n : v[i] = f.win[i - 1]
      BY <2>1, EntriesType
    <2> HIDE DEF g
    <2>3. /\ w \in Seq(Readings) /\ w \in Seq(Nat) /\ Len(w) = g.count
          /\ \A i \in 1 .. g.count : w[i] = g.win[i - 1]
      BY <1>1, <2>1, EntriesType
    <2> QED
      BY <1>1, <2>2, <2>3
  <1> HIDE DEF g, n, s, v, w
  <1>5. w = Append(v, x)
    <2>1. \A i \in 1 .. n + 1 : w[i] = Append(v, x)[i]
      <3>1. /\ Len(Append(v, x)) = n + 1 /\ Append(v, x)[n + 1] = x
            /\ \A i \in 1 .. n : Append(v, x)[i] = v[i]
        BY <1>2, <1>4, AppendProperties
      <3>2. ASSUME NEW i \in 1 .. n PROVE w[i] = Append(v, x)[i]
        <4>1. i - 1 \in 0 .. Window - 1 /\ i - 1 # n /\ i \in 1 .. n + 1
          BY <1>0
        <4> QED
          BY <1>1, <1>4, <3>1, <4>1
      <3>3. w[n + 1] = x
        <4>1. n + 1 \in 1 .. n + 1 /\ (n + 1) - 1 = n /\ n \in 0 .. Window - 1
          BY <1>0
        <4> QED
          BY <1>1, <1>4, <4>1
      <3> QED
        BY <1>0, <3>1, <3>2, <3>3
    <2>2. Append(v, x) \in Seq(Nat) /\ Len(Append(v, x)) = n + 1
      BY <1>2, <1>4, AppendProperties
    <2> QED
      BY <1>4, <2>1, <2>2, SeqEqual
  <1>6. Sum(w) = Sum(s)
    <2>1. Sum(w) = Sum(v) + x
      BY <1>2, <1>4, <1>5, SumOfAppend
    <2>2. Sum(s) = Sum(r) + x
      BY <1>2, SumOfAppend DEF s
    <2> QED
      BY <1>2, <2>1, <2>2
  <1>7. g.out = Sum(s) \div (n + 1)
    <2>1. ((Sum(w) % WordMod) \div Len(w)) % HalfMod = Sum(w) \div Len(w)
      <3>1. Len(w) \in 1 .. Window
        BY <1>0, <1>4
      <3> QED
        BY <1>4, <3>1, AverageIsExact
    <2>2. g.out = ((Sum(w) % WordMod) \div (n + 1)) % HalfMod
      BY <1>1 DEF w, Entries, Average
    <2> QED
      BY <1>4, <1>6, <2>1, <2>2
  <1>8. FilterType(g)
    BY <1>0, <1>1 DEF FilterType
  <1>9. ASSUME n + 1 < Window
        PROVE  g.idx = n + 1 /\ \A i \in 1 .. n + 1 : s[i] = g.win[i - 1]
    <2>1. ASSUME NEW i \in 1 .. n + 1 PROVE s[i] = g.win[i - 1]
      <3>1. i - 1 \in 0 .. Window - 1
        BY <1>0
      <3>2. CASE i = n + 1
        BY <1>0, <1>1, <1>3, <3>1, <3>2
      <3>3. CASE i # n + 1
        <4>1. i \in 1 .. n /\ i - 1 # n
          BY <1>0, <3>3
        <4> QED
          BY <1>1, <1>2, <1>3, <3>1, <4>1
      <3> QED
        BY <3>2, <3>3
    <2> QED
      BY <1>0, <1>1, <1>9, <2>1
  <1>10. ASSUME n + 1 = Window, NEW i \in 1 .. Window
         PROVE  s[i] = g.win[Place(g.idx, i)]
    <2>1. Place(g.idx, i) = i - 1 /\ i - 1 \in 0 .. Window - 1
      BY <1>0, <1>1, <1>10 DEF Place
    <2>2. CASE i = n + 1
      BY <1>0, <1>1, <1>3, <2>1, <2>2
    <2>3. CASE i # n + 1
      <3>1. i \in 1 .. n /\ i - 1 # n
        BY <1>0, <1>10, <2>3
      <3> QED
        BY <1>1, <1>2, <1>3, <2>1, <3>1
    <2> QED
      BY <2>2, <2>3
  <1>11. Sum(Entries(g.win, g.count)) = Sum(s)
    BY <1>6 DEF w
  <1>12. Holds(g, s)
    BY <1>0, <1>1, <1>3, <1>7, <1>8, <1>9, <1>10, <1>11 DEF Holds
  <1> QED
    BY <1>12 DEF g, s

(* ... and from then on it takes the place of the oldest.                  *)
LEMMA FullStep ==
    ASSUME NEW f, NEW r, Holds(f, r), f.count = Window, NEW x \in Readings
    PROVE  Holds(FilterUpdate(f, x), Append(Tail(r), x))
  <1> DEFINE g == FilterUpdate(f, x)
             k == f.idx
             s == Append(Tail(r), x)
             v == Entries(f.win, Window)
             w == Entries(g.win, g.count)
  <1>0. Window \in Nat /\ Window > 0 /\ k \in 0 .. Window - 1
    BY WindowAssumption, WidthAssumption DEF Holds, FilterType
  <1>1. /\ g = [win |-> g.win, idx |-> g.idx, count |-> g.count, out |-> g.out]
        /\ g.win \in [0 .. Window - 1 -> Readings]
        /\ \A i \in 0 .. Window - 1 : g.win[i] = (IF i = k THEN x ELSE f.win[i])
        /\ g.idx = (IF k + 1 = Window THEN 0 ELSE k + 1)
        /\ g.count = Window
        /\ g.out = Average(g.win, Window)
    BY <1>0, NextPlaces DEF Holds
  <1>2. /\ r \in Seq(Readings) /\ r \in Seq(Nat) /\ Len(r) = Window
        /\ \A i \in 1 .. Window : r[i] = f.win[Place(k, i)]
        /\ Sum(v) = Sum(r) /\ x \in Nat
    BY <1>0, ReadingsAreNat DEF Holds, Readings
  <1>3. /\ Tail(r) \in Seq(Readings) /\ Tail(r) \in Seq(Nat) /\ r # <<>>
        /\ s \in Seq(Readings) /\ Len(s) = Window /\ s[Window] = x
        /\ \A i \in 1 .. Window - 1 : s[i] = r[i + 1]
    <2>1. r # <<>>
      BY <1>0, <1>2, EmptySeq
    <2>2. /\ Tail(r) \in Seq(Readings) /\ Len(Tail(r)) = Window - 1
          /\ \A i \in 1 .. Window - 1 : Tail(r)[i] = r[i + 1]
      BY <1>2, <2>1, HeadTailProperties
    <2>3. /\ s \in Seq(Readings) /\ Len(s) = (Window - 1) + 1 /\ s[(Window - 1) + 1] = x
          /\ \A i \in 1 .. Window - 1 : s[i] = Tail(r)[i]
      BY <2>2, AppendProperties
    <2>4. (Window - 1) + 1 = Window
      BY <1>0
    <2> QED
      BY <2>1, <2>2, <2>3, <2>4, ReadingsAreNat
  <1>4. /\ v \in Seq(Nat) /\ Len(v) = Window /\ \A i \in 1 .. Window : v[i] = f.win[i - 1]
        /\ w \in Seq(Readings) /\ w \in Seq(Nat)
        /\ Len(w) = Window /\ \A i \in 1 .. Window : w[i] = g.win[i - 1]
    <2>1. f.win \in [0 .. Window - 1 -> Readings] /\ Window \in 0 .. Window
          /\ g.count \in 0 .. Window
      BY <1>0, <1>1 DEF Holds, FilterType
    <2>2. v \in Seq(Nat) /\ Len(v) = Window /\ \A i \in 1 .. Window : v[i] = f.win[i - 1]
      BY <2>1, EntriesType
    <2> HIDE DEF g
    <2>3. /\ w \in Seq(Readings) /\ w \in Seq(Nat) /\ Len(w) = g.count
          /\ \A i \in 1 .. g.count : w[i] = g.win[i - 1]
      BY <1>1, <2>1, EntriesType
    <2> QED
      BY <1>1, <2>2, <2>3
  <1> HIDE DEF g, k, s, v, w
  <1>5. w = [v EXCEPT ![k + 1] = x]
    <2> DEFINE u == [v EXCEPT ![k + 1] = x]
    <2>1. /\ u \in Seq(Nat) /\ Len(u) = Window
          /\ \A i \in 1 .. Window : u[i] = (IF i = k + 1 THEN x ELSE v[i])
      <3>1. k + 1 \in 1 .. Window
        BY <1>0
      <3> QED
        BY <1>2, <1>4, <3>1
    <2> HIDE DEF u
    <2>2. ASSUME NEW i \in 1 .. Window PROVE w[i] = u[i]
      <3>1. i - 1 \in 0 .. Window - 1 /\ (i - 1 = k <=> i = k + 1)
        BY <1>0
      <3> QED
        BY <1>1, <1>4, <2>1, <3>1
    <2>3. w = u
      BY <1>4, <2>1, <2>2, SeqEqual
    <2> QED
      BY <2>3 DEF u
  <1>6. Sum(w) = Sum(s)
    <2>1. k + 1 \in 1 .. Len(v) /\ 1 \in 1 .. Window
      BY <1>0, <1>4
    <2>2. Sum(w) = Sum(v) + (x - v[k + 1])
      BY <1>2, <1>4, <1>5, <2>1, SumOfReplaced
    <2>3. r[1] = v[k + 1]
      <3>1. Place(k, 1) = k /\ (k + 1) - 1 = k /\ k + 1 \in 1 .. Window
        BY <1>0 DEF Place
      <3>2. r[1] = f.win[k]
        BY <1>2, <2>1, <3>1
      <3>3. v[k + 1] = f.win[(k + 1) - 1]
        BY <1>4, <3>1
      <3> QED
        BY <3>1, <3>2, <3>3
    <2>4. Sum(r) = r[1] + Sum(Tail(r)) /\ Sum(s) = Sum(Tail(r)) + x
      BY <1>2, <1>3, SumOfTail, SumOfAppend DEF s
    <2>5. Sum(r) \in Nat /\ Sum(Tail(r)) \in Nat
      BY <1>2, <1>3, SumIsNat
    <2>6. r[1] \in Nat
      BY <1>2, <2>1
    <2> QED
      BY <1>2, <2>2, <2>3, <2>4, <2>5, <2>6
  <1>7. g.out = Sum(s) \div Window
    <2>1. ((Sum(w) % WordMod) \div Len(w)) % HalfMod = Sum(w) \div Len(w)
      <3>1. Len(w) \in 1 .. Window
        BY <1>0, <1>4
      <3> QED
        BY <1>4, <3>1, AverageIsExact
    <2>2. g.out = ((Sum(w) % WordMod) \div Window) % HalfMod
      BY <1>1 DEF w, Entries, Average
    <2> QED
      BY <1>4, <1>6, <2>1, <2>2
  <1>8. FilterType(g)
    BY <1>0, <1>1 DEF FilterType
  <1>9. ASSUME NEW i \in 1 .. Window
        PROVE  s[i] = g.win[Place(g.idx, i)]
    <2>1. CASE i = Window
      <3>1. Place(g.idx, i) = k /\ k \in 0 .. Window - 1
        BY <1>0, <1>1, <2>1 DEF Place
      <3> QED
        BY <1>1, <1>3, <2>1, <3>1
    <2>2. CASE i # Window
      <3>1. i \in 1 .. Window - 1 /\ i + 1 \in 1 .. Window
        BY <1>0, <2>2
      <3>2. /\ Place(g.idx, i) = Place(k, i + 1)
            /\ Place(k, i + 1) \in 0 .. Window - 1 /\ Place(k, i + 1) # k
        <4>1. CASE k + 1 = Window
          BY <1>0, <1>1, <3>1, <4>1 DEF Place
        <4>2. CASE k + 1 # Window
          <5>1. g.idx = k + 1
            BY <1>1, <4>2
          <5>2. (k + 1) + i - 1 = k + (i + 1) - 1
            BY <1>0
          <5> QED
            BY <1>0, <3>1, <4>2, <5>1, <5>2 DEF Place
        <4> QED
          BY <4>1, <4>2
      <3> QED
        BY <1>1, <1>2, <1>3, <3>1, <3>2
    <2> QED
      BY <2>1, <2>2
  <1>10. Sum(Entries(g.win, g.count)) = Sum(s)
    BY <1>6 DEF w
  <1>11. Holds(g, s)
    BY <1>0, <1>1, <1>3, <1>7, <1>8, <1>9, <1>10 DEF Holds
  <1> QED
    BY <1>11 DEF g, s

(* filter_update keeps the window in step with the last readings.          *)
LEMMA FilterUpdateHolds ==
    ASSUME NEW f, NEW r, Holds(f, r), NEW x \in Readings
    PROVE  Holds(FilterUpdate(f, x), Latest(Append(r, x)))
  <1> DEFINE s == Append(r, x)
  <1>0. Window \in Nat /\ Window > 0
    BY WindowAssumption, WidthAssumption
  <1>1. r \in Seq(Readings) /\ Len(r) = f.count /\ f.count \in 0 .. Window
    BY DEF Holds, FilterType
  <1>2. s \in Seq(Readings) /\ Len(s) = Len(r) + 1
    BY <1>1, AppendProperties
  <1>3. CASE f.count < Window
    <2>1. Latest(s) = SubSeq(s, 1, Len(s))
      BY <1>0, <1>1, <1>2, <1>3 DEF Latest
    <2>2. SubSeq(s, 1, Len(s)) = s
      BY <1>2, SubSeqFull
    <2> QED
      BY <1>3, <2>1, <2>2, FillingStep
  <1>4. CASE f.count = Window
    <2>1. Latest(s) = SubSeq(s, 2, Len(s))
      BY <1>0, <1>1, <1>2, <1>4 DEF Latest
    <2>2. SubSeq(s, 2, Len(s)) = Tail(s)
      BY <1>2, TailIsSubSeq
    <2>3. Tail(s) = Append(Tail(r), x)
      BY <1>0, <1>1, <1>4, HeadTailAppend, EmptySeq
    <2> QED
      BY <1>4, <2>1, <2>2, <2>3, FullStep
  <1> QED
    BY <1>0, <1>1, <1>3, <1>4

(* -- The invariant ------------------------------------------------------- *)

(* Every channel's filter holds that channel's last readings.              *)
FiltersInv ==
    /\ DOMAIN filters = Channels /\ DOMAIN recent = Channels
    /\ \A c \in Channels : Holds(filters[c], recent[c])

(* axState is zeroed and nothing has been filtered.                        *)
LEMMA FiltersInit == Init => FiltersInv
  <1> SUFFICES ASSUME Init, NEW c \in Channels PROVE Holds(filters[c], recent[c])
    BY DEF Init, FiltersInv
  <1>1. filters[c] = NewFilter /\ recent[c] = <<>>
    BY DEF Init
  <1>2. Window \in Nat /\ Window > 0 /\ 0 \in Readings
    BY WindowAssumption, WidthAssumption, ConstantsAssumption DEF Readings
  <1>3. FilterType(NewFilter)
    BY <1>2 DEF NewFilter, FilterType
  <1>4. Entries(NewFilter.win, NewFilter.count) = <<>> /\ NewFilter.count = 0
        /\ NewFilter.idx = 0
    BY DEF NewFilter, Entries
  <1>5. <<>> \in Seq(Readings) /\ Len(<<>>) = 0
    OBVIOUS
  <1>6. Holds(NewFilter, <<>>)
    BY <1>2, <1>3, <1>4, <1>5 DEF Holds
  <1> QED
    BY <1>1, <1>6

(* Only FilterSample touches a filter, and only the one of the channel the *)
(* sample came from: samples of other channels in between do not matter.   *)
LEMMA FiltersStep == TypeInv /\ FiltersInv /\ [Next]_vars => FiltersInv'
  <1> SUFFICES ASSUME TypeInv, FiltersInv, [Next]_vars PROVE FiltersInv'
    OBVIOUS
  <1>1. CASE FilterSample
    <2> DEFINE c == cons.sample[1]
               x == cons.sample[2]
    <2>1. c \in Channels /\ x \in Readings
      BY <1>1 DEF FilterSample, TypeInv, ConsumerWellFormed, Samples
    <2>2. /\ filters' = [filters EXCEPT ![c] = FilterUpdate(filters[c], x)]
          /\ recent' = [recent EXCEPT ![c] = Latest(Append(recent[c], x))]
      BY <1>1 DEF FilterSample
    <2> HIDE DEF c, x
    <2>3. ASSUME NEW d \in Channels PROVE Holds(filters'[d], recent'[d])
      <3>1. CASE d = c
        <4>1. /\ filters'[d] = FilterUpdate(filters[d], x)
              /\ recent'[d] = Latest(Append(recent[d], x))
          BY <2>2, <3>1 DEF FiltersInv
        <4>2. Holds(filters[d], recent[d])
          BY DEF FiltersInv
        <4> QED
          BY <2>1, <4>1, <4>2, FilterUpdateHolds
      <3>2. CASE d # c
        <4>1. filters'[d] = filters[d] /\ recent'[d] = recent[d]
          BY <2>2, <3>2 DEF FiltersInv
        <4> QED
          BY <4>1 DEF FiltersInv
      <3> QED
        BY <3>1, <3>2
    <2>4. DOMAIN filters' = Channels /\ DOMAIN recent' = Channels
      BY <2>2 DEF FiltersInv
    <2> QED
      BY <2>3, <2>4 DEF FiltersInv
  <1>2. CASE ~ FilterSample
    <2>1. UNCHANGED <<filters, recent>>
      BY <1>2 DEF Next, Consumer, Producer, Tick, ReceiveSample, BlockOnEmpty, ReceiveTimesOut,
                  PrintStats, TakeSample, SendSample, FindQueueFull, CountOverflow, vars
    <2> QED
      BY <2>1 DEF FiltersInv
  <1> QED
    BY <1>1, <1>2

(* The inductive invariant: the conjuncts need each other only through the *)
(* types.                                                                  *)
PipelineInv == TypeInv /\ KeepsUpInv /\ SamplesAccounted /\ FiltersInv

(* The invariant holds in every reachable state, for all channels, queue   *)
(* lengths, periods and counter widths.                                    *)
THEOREM PipelineAlwaysSound == Spec => []PipelineInv
  <1>1. Init => PipelineInv
    BY TypeInvInit, KeepsUpInit, AccountedInit, FiltersInit DEF PipelineInv
  <1>2. PipelineInv /\ [Next]_vars => PipelineInv'
    BY TypeInvStep, KeepsUpStep, AccountedStep, FiltersStep DEF PipelineInv
  <1> QED
    BY <1>1, <1>2, PTL DEF Spec

(* SamplesAccounted: samples taken, less those filtered, are exactly the   *)
(* samples lost to a full queue and those on their way, channel by channel *)
(* and modulo the counters' width; stats_print's two counters never        *)
(* disagree by a sample that was lost without being counted.               *)
THEOREM EverySampleAccounted == Spec => []SamplesAccounted
  <1>1. PipelineInv => SamplesAccounted
    BY DEF PipelineInv
  <1> QED
    BY <1>1, PipelineAlwaysSound, PTL

(* ConsumerKeepsUp: with FreeRTOS's strict priorities, the consumer's      *)
(* above the producers', no send ever fails and the queue holds one sample *)
(* at most.                                                                *)
THEOREM PriorityKeepsQueueShort == Spec => []ConsumerKeepsUp
  <1>1. PipelineInv => ConsumerKeepsUp
    BY DEF PipelineInv, KeepsUpInv, ConsumerKeepsUp
  <1> QED
    BY <1>1, PipelineAlwaysSound, PTL

(* FilterAveragesRecent: whatever the order in which the channels' samples *)
(* reach the consumer and however many are discarded, a filter returns the *)
(* exact integer mean of the last Window readings it was given; the        *)
(* circular buffer and its sum, the wrap of the index, the first turns and *)
(* the two casts included.                                                 *)
THEOREM FiltersAverage == Spec => []FilterAveragesRecent
  <1>1. PipelineInv => FilterAveragesRecent
    <2> SUFFICES ASSUME PipelineInv, NEW c \in Channels, recent[c] # <<>>
                 PROVE  filters[c].out = Sum(recent[c]) \div Len(recent[c])
      BY DEF FilterAveragesRecent
    <2>1. Holds(filters[c], recent[c])
      BY DEF PipelineInv, FiltersInv
    <2>2. filters[c].count > 0 /\ Len(recent[c]) = filters[c].count
      BY <2>1, EmptySeq DEF Holds, FilterType
    <2> QED
      BY <2>1, <2>2 DEF Holds
  <1> QED
    BY <1>1, PipelineAlwaysSound, PTL
=============================================================================

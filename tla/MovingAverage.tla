---------------------------- MODULE MovingAverage ----------------------------
(***************************************************************************)
(* filter_update of challenge_01_producer_consumer.c: the consumer's       *)
(* moving average of the samples of a channel.                             *)
(***************************************************************************)
EXTENDS MachineWords, Sequences

CONSTANT Window     \* FILTER_WINDOW

ASSUME WindowAssumption == Window \in 1 .. HalfMod     \* ucCount is a uint8_t

(* axState[channel], zeroed                                                *)
NewFilter == [win |-> [i \in 0 .. Window - 1 |-> 0], idx |-> 0, count |-> 0, out |-> 0]

(* The sum of a sequence, entry after entry.                               *)
PartialSums(w) == LET s[i \in 0 .. Len(w)] == IF i = 0 THEN 0 ELSE s[i - 1] + w[i] IN s
Sum(w) == PartialSums(w)[Len(w)]

(* "Average the valid entries": a uint32_t sum, cast to uint16_t.          *)
Average(win, count) ==
    ((Sum([i \in 1 .. count |-> win[i - 1]]) % WordMod) \div count) % HalfMod

(* Seeded fault: the window counts as full one sample too early.           *)
FilledEarly(count) == IF count < Window - 1 THEN count + 1 ELSE count
(* ucCount                                                                 *)
Filled(count) == IF count < Window THEN count + 1 ELSE count

FilterUpdate(f, sample) ==
    LET win == [f.win EXCEPT ![f.idx] = sample]
        count == Filled(f.count)
    IN [win |-> win, idx |-> (f.idx + 1) % Window, count |-> count,
        out |-> Average(win, count)]
=============================================================================

----------------------------- MODULE Rtos_proofs -----------------------------
(***************************************************************************)
(* Proofs about two of the FreeRTOS programs, one part for each.           *)
(*                                                                         *)
(* The software watchdog: no false alarm and no missed one, for every      *)
(* number of tasks, every period and limit, every width of the tick count  *)
(* and every lateness.                                                     *)
(*                                                                         *)
(* The priority inversion demonstration: with the mutex H waits for L's    *)
(* critical section and nothing else, for all durations, and a boost ends  *)
(* with the ownership it was given for.                                    *)
(***************************************************************************)
EXTENDS WatchdogTask, PriorityInversion, FiniteSetTheorems, TLAPS

(* -- The watchdog -------------------------------------------------------- *)

Ticks == 0 .. TickMod - 1
Ages == 0 .. TickMod

TypeInv ==
    /\ time \in Ticks
    /\ last \in [Tasks -> Ticks]
    /\ at \in [Tasks -> {"delayed", "stamp", "store"}]
    /\ due \in [Tasks -> Int]
    /\ stamp \in [Tasks -> Ticks]
    /\ age \in [Tasks -> Ages]
    /\ wdgAt \in {"init", "delayed", "check", "spin"}
    /\ wdgDue \in Int
    /\ now \in Ticks
    /\ entry \in Tasks
    /\ unfed \in Nat
    /\ silence \in [Tasks -> Ages]

(* The watchdog spins exactly when it has reported a task, and that task   *)
(* really was silent.                                                      *)
ReportInv ==
    /\ wdgAt = "spin" <=> failed # NoFailure
    /\ failed # NoFailure => failed.id \in Tasks /\ silence[failed.id] > Limit[failed.id]

(* What the table says of the age of a check-in is its real age, and so is *)
(* what a task that is about to store a stamp will make it say.            *)
TableIsTrue(i) ==
    /\ IF wdgAt = "init" THEN silence[i] = 0 /\ at[i] = "delayed"
                         ELSE Elapsed(last[i], time) = silence[i]
    /\ at[i] = "store" => Elapsed(stamp[i], time) = age[i] /\ age[i] <= silence[i]

(* The ticks since the round in progress read its "now".                   *)
InRound == Elapsed(now, time)

(* The watchdog's own timing: it is never later than its bound, a round in *)
(* progress began at its wake time or after, and the round before fed the  *)
(* hardware watchdog.                                                      *)
WatchdogOnTime ==
    /\ - WatchdogLate <= wdgDue
    /\ wdgAt = "init" => wdgDue = WatchdogPeriod
    /\ wdgAt = "check" => InRound <= - wdgDue
    /\ unfed <= WatchdogPeriod - wdgDue

(* An entry that the round has inspected was within its limit when the     *)
(* round began; one that it has not, was so a period before.               *)
Inspected(i) ==
    /\ wdgAt = "delayed" => silence[i] <= Limit[i] + WatchdogPeriod - wdgDue
    /\ wdgAt = "check" =>
        /\ InRound <= silence[i]
        /\ IF i < entry THEN silence[i] <= Limit[i] + InRound
                        ELSE silence[i] <= Limit[i] + WatchdogPeriod - wdgDue

(* Until a task is reported.                                               *)
TimingInv ==
    wdgAt # "spin" =>
        /\ WatchdogOnTime
        /\ \A i \in Tasks : TableIsTrue(i) /\ Inspected(i)

WatchdogInv == TypeInv /\ ReportInv /\ TimingInv
-----------------------------------------------------------------------------
(* The constants' types, and the tasks as an interval.                     *)
LEMMA Constants ==
    /\ TickMod \in Nat \ {0} /\ WatchdogPeriod \in Nat \ {0} /\ HwLimit \in Nat
    /\ WatchdogLate \in Nat /\ WatchdogPeriod + WatchdogLate < HwLimit
    /\ LastTask \in Nat /\ Tasks = 0 .. LastTask
    /\ \A i \in Tasks : /\ Limit[i] \in Nat \ {0} /\ CheckinPeriod[i] \in Nat \ {0}
                         /\ Limit[i] + WatchdogPeriod + WatchdogLate + 1 < TickMod
  <1>1. Cardinality(Tasks) \in Nat /\ Cardinality(Tasks) # 0
    BY ConstantsAssumption, FS_CardinalityType, FS_EmptySet
  <1>2. /\ TickMod \in Nat \ {0} /\ WatchdogPeriod \in Nat \ {0} /\ HwLimit \in Nat
        /\ WatchdogLate \in Nat /\ WatchdogPeriod + WatchdogLate < HwLimit
    BY ConstantsAssumption
  <1>3. LastTask \in Nat /\ Tasks = 0 .. LastTask
    <2>1. Tasks = 0 .. Cardinality(Tasks) - 1
      BY ConstantsAssumption
    <2> QED BY <1>1, <2>1 DEF LastTask
  <1>4. ASSUME NEW i \in Tasks
        PROVE  /\ Limit[i] \in Nat \ {0} /\ CheckinPeriod[i] \in Nat \ {0}
               /\ Limit[i] + WatchdogPeriod + WatchdogLate + 1 < TickMod
    BY ConstantsAssumption
  <1> QED BY <1>2, <1>3, <1>4

(* How long a task has been silent is a number, as its limit is.           *)
LEMMA SilenceIsNat ==
    ASSUME TypeInv, NEW i \in Tasks
    PROVE  silence[i] \in Nat /\ Limit[i] \in Nat
  <1>1. silence[i] \in 0 .. TickMod
    BY DEF TypeInv, Ages
  <1> QED BY <1>1, Constants

(* The unsigned subtraction of two tick counts: the count wraps at most    *)
(* once between them.                                                      *)
LEMMA ElapsedByCases ==
    ASSUME NEW a \in Ticks, NEW b \in Ticks
    PROVE  Elapsed(a, b) = IF a <= b THEN b - a ELSE b + TickMod - a
  <1>1. TickMod \in Nat \ {0}
    BY Constants
  <1>2. ASSUME NEW n \in Nat, n < 2 * TickMod
        PROVE  n % TickMod = IF n < TickMod THEN n ELSE n - TickMod
    BY <1>1, <1>2
  <1> QED BY <1>1, <1>2 DEF Ticks, Elapsed

(* Elapsed times are tick counts, and those that share an end can be       *)
(* subtracted.                                                             *)
LEMMA ElapsedFacts ==
    ASSUME NEW a \in Ticks, NEW b \in Ticks
    PROVE  /\ Elapsed(a, b) \in Ticks
           /\ Elapsed(b, b) = 0
           /\ \A c \in Ticks : Elapsed(b, c) <= Elapsed(a, c) =>
                                Elapsed(a, b) = Elapsed(a, c) - Elapsed(b, c)
  <1>1. TickMod \in Nat \ {0}
    BY Constants
  <1>2. Elapsed(a, b) \in Ticks /\ Elapsed(b, b) = 0
    BY <1>1, ElapsedByCases DEF Ticks
  <1>3. ASSUME NEW c \in Ticks, Elapsed(b, c) <= Elapsed(a, c)
        PROVE  Elapsed(a, b) = Elapsed(a, c) - Elapsed(b, c)
    <2>1. Elapsed(a, b) = IF a <= b THEN b - a ELSE b + TickMod - a
      BY ElapsedByCases
    <2>2. Elapsed(a, c) = IF a <= c THEN c - a ELSE c + TickMod - a
      BY ElapsedByCases
    <2>3. Elapsed(b, c) = IF b <= c THEN c - b ELSE c + TickMod - b
      BY ElapsedByCases
    <2> QED BY <1>1, <1>3, <2>1, <2>2, <2>3 DEF Ticks
  <1> QED BY <1>2, <1>3

(* One more tick makes an elapsed time longer by one, unless it would      *)
(* wrap.                                                                   *)
LEMMA ElapsedTick ==
    ASSUME NEW a \in Ticks, NEW b \in Ticks, Elapsed(a, b) < TickMod - 1
    PROVE  (b + 1) % TickMod \in Ticks /\ Elapsed(a, (b + 1) % TickMod) = Elapsed(a, b) + 1
  <1>1. TickMod \in Nat \ {0}
    BY Constants
  <1>2. (b + 1) % TickMod = IF b + 1 = TickMod THEN 0 ELSE b + 1
    BY <1>1 DEF Ticks
  <1> QED BY <1>1, <1>2, ElapsedByCases DEF Ticks

-----------------------------------------------------------------------------
(* What the steps store stays in range.                                    *)
LEMMA Ranges ==
    /\ 0 \in Ticks /\ 0 \in Ages /\ 0 \in Tasks
    /\ \A n \in Ages : Older(n) \in Ages
    /\ \A n \in Ticks : n \in Ages /\ (n + 1) % TickMod \in Ticks
    /\ CheckinPeriod \in [Tasks -> Int] /\ WatchdogPeriod \in Int
    /\ entry \in Tasks /\ entry < LastTask => entry + 1 \in Tasks
  <1>1. /\ TickMod \in Nat \ {0} /\ LastTask \in Nat /\ Tasks = 0 .. LastTask
        /\ WatchdogPeriod \in Int
    BY Constants
  <1>2. CheckinPeriod \in [Tasks -> Int]
    BY ConstantsAssumption
  <1> QED BY <1>1, <1>2 DEF Ticks, Ages, Older

(* The reset state has its types.                                          *)
LEMMA TypeInvInit == Init => TypeInv
  <1> SUFFICES ASSUME Init PROVE TypeInv
    OBVIOUS
  <1>1. time \in Ticks
    BY DEF Init, Ticks
  <1> QED BY <1>1, Ranges DEF Init, TypeInv, AllTasks

(* Every step preserves the types.                                         *)
LEMMA TypeInvStep == TypeInv /\ [Next]_vars => TypeInv'
  <1> SUFFICES ASSUME TypeInv, [Next]_vars PROVE TypeInv'
    OBVIOUS
  <1> USE DEF TypeInv, AllTasks, taskVars, wdgVars
  <1>1. CASE Tick
    BY <1>1, Ranges DEF Tick, GoesUnfed
  <1>2. CASE HardwareReset
    BY <1>2, Ranges DEF HardwareReset
  <1>3. CASE InitTable
    BY <1>3 DEF InitTable
  <1>4. CASE StartRound
    BY <1>4, Ranges DEF StartRound
  <1>5. CASE EntryHealthy
    BY <1>5, Ranges DEF EntryHealthy, NextEntry, SleepAgain, Feed
  <1>6. CASE EntryOverdue
    BY <1>6 DEF EntryOverdue
  <1>7. ASSUME NEW i \in Tasks, Wake(i) PROVE TypeInv'
    <2>1. due' \in [Tasks -> Int] /\ at' \in [Tasks -> {"delayed", "stamp", "store"}]
      BY <1>7, Ranges DEF Wake
    <2> QED BY <1>7, <2>1 DEF Wake
  <1>8. ASSUME NEW i \in Tasks, TakeStamp(i) PROVE TypeInv'
    BY <1>8, Ranges DEF TakeStamp
  <1>9. ASSUME NEW i \in Tasks, StoreStamp(i) PROVE TypeInv'
    <2>1. last' \in [Tasks -> Ticks] /\ silence' \in [Tasks -> Ages] /\ age' \in [Tasks -> Ages]
      BY <1>9, Ranges DEF StoreStamp
    <2>2. due' \in [Tasks -> Int]
      <3>1. due[i] + CheckinPeriod[i] \in Int
        BY Ranges
      <3> QED BY <1>9, <3>1 DEF StoreStamp
    <2>3. at' \in [Tasks -> {"delayed", "stamp", "store"}]
      BY <1>9 DEF StoreStamp
    <2> QED BY <1>9, <2>1, <2>2, <2>3 DEF StoreStamp
  <1>10. CASE UNCHANGED vars
    BY <1>10 DEF vars
  <1> QED
    BY <1>1, <1>2, <1>3, <1>4, <1>5, <1>6, <1>7, <1>8, <1>9, <1>10 DEF Next, Watchdog, Monitored
-----------------------------------------------------------------------------
(* Before a report no check-in grows older than its limit, one period and  *)
(* the lateness of the watchdog; so no age reaches a wrap of the tick      *)
(* count.                                                                  *)
LEMMA SilenceBounded ==
    ASSUME TypeInv, TimingInv, wdgAt # "spin", NEW i \in Tasks
    PROVE  silence[i] <= Limit[i] + WatchdogPeriod + WatchdogLate /\ silence[i] < TickMod - 1
  <1> DEFINE d == InRound
  <1>1. /\ WatchdogPeriod \in Nat /\ WatchdogLate \in Nat /\ TickMod \in Nat
        /\ Limit[i] \in Nat /\ Limit[i] + WatchdogPeriod + WatchdogLate + 1 < TickMod
    BY Constants
  <1>2. d \in Nat /\ silence[i] \in Nat /\ wdgDue \in Int
    <2>1. InRound \in Ticks
      BY ElapsedFacts DEF TypeInv, InRound
    <2> QED BY <2>1, <1>1 DEF TypeInv, Ages, Ticks
  <1>3. /\ - WatchdogLate <= wdgDue
        /\ wdgAt = "check" => d <= - wdgDue
        /\ wdgAt = "init" => silence[i] = 0
        /\ wdgAt = "delayed" => silence[i] <= Limit[i] + WatchdogPeriod - wdgDue
        /\ wdgAt = "check" => \/ silence[i] <= Limit[i] + d
                              \/ silence[i] <= Limit[i] + WatchdogPeriod - wdgDue
    BY DEF TimingInv, WatchdogOnTime, TableIsTrue, Inspected
  <1> HIDE DEF d
  <1> QED BY <1>1, <1>2, <1>3 DEF TypeInv

(* At reset nobody has been reported and the watchdog has not started.     *)
LEMMA WatchdogInvInit == Init => WatchdogInv
  <1> SUFFICES ASSUME Init PROVE ReportInv /\ TimingInv
    BY TypeInvInit DEF WatchdogInv
  <1>1. ReportInv
    BY DEF Init, ReportInv
  <1>2. WatchdogOnTime
    BY Constants DEF Init, WatchdogOnTime
  <1>3. ASSUME NEW i \in Tasks PROVE TableIsTrue(i) /\ Inspected(i)
    BY DEF Init, TableIsTrue, Inspected, AllTasks
  <1> QED BY <1>1, <1>2, <1>3 DEF TimingInv

(* A tick makes every age, the round in progress, the lateness of the      *)
(* watchdog and the starving of the hardware watchdog one older together.  *)
LEMMA TickTiming == WatchdogInv /\ Tick /\ wdgAt # "spin" => TimingInv'
  <1> SUFFICES ASSUME WatchdogInv, Tick, wdgAt # "spin" PROVE TimingInv'
    OBVIOUS
  <1>1. /\ wdgAt' = wdgAt /\ wdgAt # "init" /\ wdgDue > - WatchdogLate
        /\ wdgDue' = wdgDue - 1 /\ unfed' = unfed + 1
        /\ time' = (time + 1) % TickMod
        /\ UNCHANGED <<last, at, stamp, now, entry>>
    BY DEF Tick, GoesUnfed
  <1>2. /\ wdgDue \in Int /\ unfed \in Nat /\ WatchdogLate \in Nat /\ WatchdogPeriod \in Nat
        /\ TickMod \in Nat /\ WatchdogLate + 1 < TickMod
    <2>1. wdgDue \in Int /\ unfed \in Nat /\ entry \in Tasks
      BY DEF WatchdogInv, TypeInv
    <2>2. /\ WatchdogLate \in Nat /\ WatchdogPeriod \in Nat /\ TickMod \in Nat
          /\ Limit[entry] \in Nat /\ Limit[entry] + WatchdogPeriod + WatchdogLate + 1 < TickMod
      BY <2>1, Constants
    <2> QED BY <2>1, <2>2
  <1>3. WatchdogOnTime /\ \A i \in Tasks : TableIsTrue(i) /\ Inspected(i)
    BY DEF WatchdogInv, TimingInv
  <1>4. InRound \in Nat /\ (wdgAt = "check" => InRound' = InRound + 1)
    <2>1. time \in Ticks /\ now \in Ticks
      BY DEF WatchdogInv, TypeInv
    <2>2. InRound \in Ticks
      BY <2>1, ElapsedFacts DEF InRound
    <2>3. CASE wdgAt = "check"
      <3>1. InRound < TickMod - 1
        BY <1>1, <1>2, <1>3, <2>2, <2>3 DEF WatchdogOnTime, Ticks
      <3> QED BY <3>1, <2>1, <2>2, <1>1, ElapsedTick DEF InRound, Ticks
    <2> QED BY <2>2, <2>3 DEF Ticks
  <1>5. WatchdogOnTime'
    BY <1>1, <1>2, <1>3, <1>4 DEF WatchdogOnTime
  <1>6. ASSUME NEW i \in Tasks PROVE TableIsTrue(i)' /\ Inspected(i)'
    <2>1. /\ time \in Ticks /\ last[i] \in Ticks /\ stamp[i] \in Ticks
          /\ silence[i] \in Nat /\ age[i] \in Nat /\ Limit[i] \in Nat
          /\ entry \in Int /\ i \in Int
      BY Constants DEF WatchdogInv, TypeInv, Ages
    <2>2. silence[i] < TickMod - 1
      BY SilenceBounded DEF WatchdogInv
    <2>3. silence'[i] = silence[i] + 1
      BY <1>2, <2>1, <2>2 DEF Tick, GoesUnfed, Older
    <2>4. Elapsed(last[i], time) = silence[i] /\ Elapsed(last[i], time') = silence[i] + 1
      BY <1>1, <1>3, <2>1, <2>2, ElapsedTick DEF TableIsTrue
    <2>5. CASE at[i] = "store"
      <3>1. Elapsed(stamp[i], time) = age[i] /\ age[i] <= silence[i]
        BY <1>3, <2>5 DEF TableIsTrue
      <3>2. age'[i] = age[i] + 1
        BY <1>2, <2>1, <2>2, <3>1 DEF Tick, GoesUnfed, Older
      <3>3. Elapsed(stamp[i], time') = age[i] + 1
        BY <1>1, <1>2, <2>1, <2>2, <3>1, ElapsedTick
      <3> QED BY <1>1, <1>3, <1>2, <1>4, <2>1, <2>3, <2>4, <3>1, <3>2, <3>3 DEF TableIsTrue, Inspected
    <2>6. CASE at[i] # "store"
      BY <1>1, <1>3, <1>2, <1>4, <2>1, <2>3, <2>4, <2>6 DEF TableIsTrue, Inspected
    <2> QED BY <2>5, <2>6
  <1> QED BY <1>5, <1>6 DEF TimingInv
(* Every step preserves it.  An entry is inspected by the age it had when  *)
(* the round began; a check-in that completes can only make an entry       *)
(* younger; the end of a round moves the wake time of the watchdog by a    *)
(* period, and every entry has by then been seen within its limit.         *)
LEMMA WatchdogInvStep == WatchdogInv /\ [Next]_vars => WatchdogInv'
  <1> SUFFICES ASSUME WatchdogInv, [Next]_vars PROVE ReportInv' /\ TimingInv'
    BY TypeInvStep DEF WatchdogInv
  <1> USE DEF WatchdogInv
  <1>1. CASE Tick
    <2>1. CASE wdgAt = "spin"
      <3>1. ASSUME NEW i \in Tasks PROVE silence[i] > Limit[i] => silence'[i] > Limit[i]
        <4>1. silence[i] \in Ages /\ Limit[i] \in Nat /\ Limit[i] < TickMod /\ TickMod \in Nat
          BY Constants DEF TypeInv
        <4> QED BY <1>1, <4>1 DEF Tick, GoesUnfed, Older, Ages
      <3> QED BY <1>1, <2>1, <3>1 DEF Tick, GoesUnfed, ReportInv, TimingInv
    <2>2. CASE wdgAt # "spin"
      BY <1>1, <2>2, TickTiming DEF Tick, GoesUnfed, ReportInv
    <2> QED BY <2>1, <2>2
  <1>2. CASE HardwareReset
    <2>1. ReportInv' /\ wdgAt' = "init" /\ WatchdogOnTime'
      BY <1>2, Constants DEF HardwareReset, ReportInv, WatchdogOnTime
    <2>2. ASSUME NEW i \in Tasks PROVE TableIsTrue(i)' /\ Inspected(i)'
      BY <1>2 DEF HardwareReset, TableIsTrue, Inspected, AllTasks
    <2> QED BY <2>1, <2>2 DEF TimingInv
  <1>3. CASE InitTable
    <2>1. ReportInv' /\ wdgAt' = "delayed" /\ WatchdogOnTime'
      BY <1>3 DEF InitTable, ReportInv, TimingInv, WatchdogOnTime
    <2>2. ASSUME NEW i \in Tasks PROVE TableIsTrue(i)' /\ Inspected(i)'
      <3>1. /\ last'[i] = time /\ silence[i] = 0 /\ at[i] = "delayed"
            /\ wdgDue = WatchdogPeriod
        BY <1>3 DEF InitTable, AllTasks, TimingInv, WatchdogOnTime, TableIsTrue
      <3>2. Elapsed(time, time) = 0
        BY ElapsedFacts DEF TypeInv
      <3>3. 0 <= Limit[i] + WatchdogPeriod - WatchdogPeriod
        BY Constants
      <3> QED BY <1>3, <3>1, <3>2, <3>3, <2>1 DEF InitTable, TableIsTrue, Inspected, taskVars
    <2> QED BY <2>1, <2>2 DEF TimingInv
  <1>4. CASE StartRound
    <2>1. wdgAt = "delayed" /\ wdgAt' = "check" /\ now' = time /\ entry' = 0 /\ wdgDue <= 0
          /\ UNCHANGED <<time, last, at, stamp, age, wdgDue, failed, unfed, silence>>
      BY <1>4 DEF StartRound, taskVars
    <2>2. InRound' = 0 /\ wdgDue \in Int
      BY <2>1, ElapsedFacts DEF TypeInv, InRound
    <2>3. ReportInv' /\ WatchdogOnTime'
      BY <2>1, <2>2 DEF ReportInv, TimingInv, WatchdogOnTime
    <2>4. ASSUME NEW i \in Tasks PROVE TableIsTrue(i)' /\ Inspected(i)'
      <3>1. silence[i] \in Nat /\ ~ (i < 0)
        BY Constants DEF TypeInv, Ages
      <3> QED BY <2>1, <2>2, <3>1 DEF TimingInv, TableIsTrue, Inspected
    <2> QED BY <2>3, <2>4 DEF TimingInv
  <1>5. CASE EntryHealthy
    <2>1. /\ wdgAt = "check" /\ ~ Overdue(entry)
          /\ UNCHANGED <<time, last, at, stamp, age, now, failed, silence>>
      BY <1>5 DEF EntryHealthy, taskVars
    <2>2. /\ wdgDue \in Int /\ WatchdogPeriod \in Nat /\ unfed \in Nat /\ InRound \in Nat
          /\ entry \in Int /\ WatchdogLate \in Nat
      <3>1. InRound \in Ticks
        BY ElapsedFacts DEF TypeInv, InRound
      <3> QED BY <3>1, Constants DEF TypeInv, Ticks
    <2>3. WatchdogOnTime /\ \A i \in Tasks : TableIsTrue(i) /\ Inspected(i)
      BY <2>1 DEF TimingInv
    <2>4. silence[entry] <= Limit[entry] + InRound
      <3>1. Elapsed(last[entry], time) = silence[entry] /\ InRound <= silence[entry]
        BY <2>1, <2>3 DEF TypeInv, TableIsTrue, Inspected
      <3>2. last[entry] \in Ticks /\ now \in Ticks /\ time \in Ticks
        BY DEF TypeInv
      <3>3. Elapsed(last[entry], now) = silence[entry] - InRound
        BY <3>1, <3>2, ElapsedFacts DEF InRound
      <3>4. silence[entry] \in Nat /\ Limit[entry] \in Nat
        BY SilenceIsNat DEF TypeInv
      <3> QED BY <2>1, <2>2, <3>3, <3>4 DEF Overdue
    <2>5. InRound' = InRound
      BY <2>1 DEF InRound
    <2>6. CASE entry < LastTask
      <3>1. UNCHANGED <<wdgAt, wdgDue, unfed>> /\ entry' = entry + 1
        BY <1>5, <2>6 DEF EntryHealthy, NextEntry
      <3>2. ReportInv' /\ WatchdogOnTime'
        BY <2>1, <2>3, <2>5, <3>1 DEF ReportInv, WatchdogOnTime
      <3>3. ASSUME NEW i \in Tasks PROVE TableIsTrue(i)' /\ Inspected(i)'
        <4>1. i \in Int /\ (i < entry + 1 => i < entry \/ i = entry)
          BY <2>2, Constants
        <4> QED BY <2>1, <2>2, <2>3, <2>4, <2>5, <3>1, <4>1 DEF TableIsTrue, Inspected
      <3> QED BY <3>2, <3>3 DEF TimingInv
    <2>7. CASE ~ (entry < LastTask)
      <3>1. wdgAt' = "delayed" /\ wdgDue' = wdgDue + WatchdogPeriod /\ unfed' = 0
        BY <1>5, <2>7 DEF EntryHealthy, SleepAgain, Feed
      <3>2. ReportInv' /\ WatchdogOnTime'
        BY <2>1, <2>2, <2>3, <3>1 DEF ReportInv, WatchdogOnTime
      <3>3. ASSUME NEW i \in Tasks PROVE TableIsTrue(i)' /\ Inspected(i)'
        <4>1. silence[i] <= Limit[i] + InRound
          <5>1. i < entry \/ i = entry
            <6>1. i \in 0 .. LastTask /\ entry \in 0 .. LastTask /\ LastTask \in Int
              BY Constants DEF TypeInv
            <6> QED BY <6>1, <2>7
          <5> QED BY <5>1, <2>1, <2>3, <2>4 DEF Inspected
        <4>2. silence[i] \in Nat /\ Limit[i] \in Nat /\ InRound <= - wdgDue
          <5>1. silence[i] \in Nat /\ Limit[i] \in Nat
            BY SilenceIsNat
          <5>2. InRound <= - wdgDue
            BY <2>1, <2>3 DEF WatchdogOnTime
          <5> QED BY <5>1, <5>2
        <4>3. silence[i] <= Limit[i] + WatchdogPeriod - (wdgDue + WatchdogPeriod)
          BY <4>1, <4>2, <2>2
        <4> QED BY <2>1, <2>3, <3>1, <4>3 DEF TableIsTrue, Inspected
      <3> QED BY <3>2, <3>3 DEF TimingInv
    <2> QED BY <2>6, <2>7
  <1>6. CASE EntryOverdue
    <2>1. /\ wdgAt = "check" /\ wdgAt' = "spin" /\ silence' = silence
          /\ failed' = [id |-> entry, elapsed |-> Elapsed(last[entry], now)]
          /\ Elapsed(last[entry], now) > Limit[entry]
      BY <1>6 DEF EntryOverdue, OnTaskFailure, Overdue
    <2>2. silence[entry] > Limit[entry]
      <3>1. Elapsed(last[entry], time) = silence[entry] /\ InRound <= silence[entry]
        BY <2>1 DEF TypeInv, TimingInv, TableIsTrue, Inspected
      <3>2. last[entry] \in Ticks /\ now \in Ticks /\ time \in Ticks
        BY DEF TypeInv
      <3>3. Elapsed(last[entry], now) = silence[entry] - InRound
        BY <3>1, <3>2, ElapsedFacts DEF InRound
      <3>4. InRound \in Ticks
        BY <3>2, ElapsedFacts DEF InRound
      <3>5. silence[entry] \in Nat /\ Limit[entry] \in Nat /\ InRound \in Nat
        <4>1. silence[entry] \in Nat /\ Limit[entry] \in Nat
          BY SilenceIsNat DEF TypeInv
        <4> QED BY <3>4, <4>1, Constants DEF Ticks
      <3> QED BY <2>1, <3>3, <3>5
    <2>3. failed' # NoFailure
      BY <2>1, Constants DEF NoFailure, TypeInv
    <2> QED BY <2>1, <2>2, <2>3 DEF ReportInv, TimingInv, TypeInv
  <1>7. ASSUME NEW i \in Tasks, Monitored(i) PROVE ReportInv' /\ TimingInv'
    <2>1. /\ wdgAt = "delayed"
          /\ UNCHANGED <<time, wdgAt, wdgDue, now, entry, failed, unfed>>
      BY <1>7 DEF Monitored, Wake, TakeStamp, StoreStamp, TaskCanRun, WatchdogReady, wdgVars
    <2>2. ReportInv'
      BY <2>1 DEF ReportInv
    <2>3. WatchdogOnTime'
      BY <2>1 DEF TimingInv, WatchdogOnTime, InRound
    <2>4. ASSUME NEW j \in Tasks PROVE TableIsTrue(j)' /\ Inspected(j)'
      <3>1. TableIsTrue(j) /\ Inspected(j)
        BY <2>1 DEF TimingInv
      <3>2. CASE Wake(i)
        <4>1. UNCHANGED <<last, stamp, age, silence>> /\ (at'[j] = "store" => at[j] = "store")
          BY <3>2 DEF Wake, TypeInv
        <4> QED BY <2>1, <3>1, <4>1 DEF TableIsTrue, Inspected
      <3>3. CASE TakeStamp(i)
        <4>1. UNCHANGED <<last, silence>>
          BY <3>3 DEF TakeStamp
        <4>2. CASE j = i
          <5>1. stamp'[j] = time /\ age'[j] = 0
            BY <3>3, <4>2 DEF TakeStamp, TypeInv
          <5>2. Elapsed(time, time) = 0 /\ 0 <= silence[j]
            BY ElapsedFacts DEF TypeInv, Ages
          <5> QED BY <2>1, <3>1, <4>1, <5>1, <5>2 DEF TableIsTrue, Inspected
        <4>3. CASE j # i
          <5>1. at'[j] = at[j] /\ stamp'[j] = stamp[j] /\ age'[j] = age[j]
            BY <3>3, <4>3 DEF TakeStamp, TypeInv
          <5> QED BY <2>1, <3>1, <4>1, <5>1 DEF TableIsTrue, Inspected
        <4> QED BY <4>2, <4>3
      <3>4. CASE StoreStamp(i)
        <4>1. CASE j = i
          <5>1. at[j] = "store" /\ last'[j] = stamp[j] /\ silence'[j] = age[j] /\ at'[j] = "delayed"
            BY <3>4, <4>1 DEF StoreStamp, TypeInv
          <5>2. /\ silence[j] \in Nat /\ age[j] \in Nat /\ Limit[j] \in Nat
                /\ WatchdogPeriod \in Nat /\ wdgDue \in Int
            BY Constants DEF TypeInv, Ages
          <5> QED BY <2>1, <3>1, <5>1, <5>2 DEF TableIsTrue, Inspected
        <4>2. CASE j # i
          <5>1. /\ at'[j] = at[j] /\ stamp'[j] = stamp[j] /\ age'[j] = age[j]
                /\ last'[j] = last[j] /\ silence'[j] = silence[j]
            BY <3>4, <4>2 DEF StoreStamp, TypeInv
          <5> QED BY <2>1, <3>1, <5>1 DEF TableIsTrue, Inspected
        <4> QED BY <4>1, <4>2
      <3> QED BY <1>7, <3>2, <3>3, <3>4 DEF Monitored
    <2> QED BY <2>2, <2>3, <2>4 DEF TimingInv
  <1>8. CASE UNCHANGED vars
    <2>1. /\ UNCHANGED <<time, last, at, stamp, age, wdgAt, wdgDue, now, entry, failed>>
          /\ UNCHANGED <<unfed, silence>>
      BY <1>8 DEF vars, taskVars, wdgVars
    <2> QED BY <2>1 DEF ReportInv, TimingInv, WatchdogOnTime, InRound, TableIsTrue, Inspected
  <1> QED BY <1>1, <1>2, <1>3, <1>4, <1>5, <1>6, <1>7, <1>8 DEF Next, Watchdog

(* A task that the watchdog reports really has not checked in for longer   *)
(* than its limit, whatever the phase of the tick count and the            *)
(* interleaving of check-ins with the watchdog's reads.                    *)
THEOREM NoFalseAlarm == Spec => []ReportedMeansSilent
  <1>1. WatchdogInv => ReportedMeansSilent
    BY DEF WatchdogInv, ReportInv, ReportedMeansSilent
  <1> QED BY WatchdogInvInit, WatchdogInvStep, <1>1, PTL DEF Spec

(* Whatever its limit, no task stays unreported longer than that limit,    *)
(* one watchdog period and the lateness of the watchdog.                   *)
THEOREM DetectionAlwaysTimely == Spec => []DetectionIsTimely
  <1>1. WatchdogInv => DetectionIsTimely
    BY SilenceBounded DEF WatchdogInv, ReportInv, DetectionIsTimely
  <1> QED BY WatchdogInvInit, WatchdogInvStep, <1>1, PTL DEF Spec

(* The hardware watchdog, if its timeout exceeds the period and the        *)
(* lateness of the software watchdog, expires only after a report.         *)
THEOREM HealthyIsNeverReset == Spec => []ResetOnlyAfterReport
  <1>1. WatchdogInv => ResetOnlyAfterReport
    <2> SUFFICES ASSUME WatchdogInv, failed = NoFailure PROVE unfed # HwLimit
      BY DEF ResetOnlyAfterReport
    <2>1. unfed <= WatchdogPeriod - wdgDue /\ - WatchdogLate <= wdgDue
      BY DEF WatchdogInv, ReportInv, TimingInv, WatchdogOnTime
    <2> QED BY <2>1, Constants DEF WatchdogInv, TypeInv
  <1> QED BY WatchdogInvInit, WatchdogInvStep, <1>1, PTL DEF Spec

(* -- The priority inversion demonstration -------------------------------- *)

(* Where each task can be.                                                 *)
Places == [L |-> {"take", "blocked", "spin", "give", "deleted"},
           M |-> {"start", "delayed", "spin", "deleted"},
           H |-> {"start", "delayed", "take", "blocked", "spin", "give",
                  "complete", "deleted"},
           monitor |-> {"start", "delayed", "deleted"}]

DemoTypeInv ==
    /\ mutex \in BOOLEAN
    /\ ticks \in Nat /\ readyTick \in Nat /\ doneTick \in Nat
    /\ jitter \in Nat /\ jitter <= MaxJitter
    /\ until \in [DemoTasks -> Nat]
    /\ DOMAIN pc = DemoTasks
    /\ \A t \in DemoTasks : pc[t] \in Places[t]

(* The owner is the task between xSemaphoreTake and xSemaphoreGive.        *)
Ownership ==
    /\ owner \in {"none", "L", "H"}
    /\ \A t \in {"L", "H"} : owner = t <=> pc[t] \in {"spin", "give"}

(* Only L is ever raised, to H's priority, exactly while it keeps a mutex  *)
(* that H waits for.                                                       *)
Boost ==
    /\ DOMAIN eff = DemoTasks
    /\ eff["M"] = 3 /\ eff["H"] = 4 /\ eff["monitor"] = 1
    /\ eff["L"] = IF mutex /\ owner = "L" /\ pc["H"] = "blocked" THEN 4 ELSE 1

(* The inductive invariant, but for time.                                  *)
TypeAndOwnership == DemoTypeInv /\ Ownership /\ Boost

(* The demonstration starts that way.                                      *)
LEMMA Initially ==
    ASSUME DemoInit
    PROVE  TypeAndOwnership
  <1>1. \A t \in DemoTasks : pc[t] \in Places[t]
    BY DEF DemoInit, DemoTasks, Places
  <1>2. DemoTypeInv
    BY <1>1, DemoAssumption DEF DemoInit, DemoTypeInv
  <1>3. Ownership
    BY DEF DemoInit, InitialOwner, Ownership, DemoTasks
  <1>4. Boost
    BY DEF DemoInit, InitialOwner, Boost, DemoTasks, Base
  <1> QED
    BY <1>2, <1>3, <1>4 DEF TypeAndOwnership

(* The scheduler: a ready task of highest priority runs.  While H is ready *)
(* it is H, while L has the boost it is L.                                 *)
LEMMA WhoRuns ==
    ASSUME TypeAndOwnership, NEW t \in DemoTasks, CanRun(t)
    PROVE  /\ Ready("H") => t = "H"
           /\ eff["L"] = 4 /\ Ready("L") => t = "L"
  <1>1. /\ Ready("H") => eff["H"] <= eff[t]
        /\ Ready("L") => eff["L"] <= eff[t]
        /\ Ready(t)
    BY DEF CanRun, DemoTasks
  <1>2. eff["L"] = 4 => ~ Ready("H")
    BY DEF TypeAndOwnership, Boost, Ownership, Ready
  <1>3. t \in {"L", "M", "H", "monitor"}
    BY DEF DemoTasks
  <1>4. eff["M"] = 3 /\ eff["H"] = 4 /\ eff["monitor"] = 1 /\ eff["L"] \in {1, 4}
    BY DEF TypeAndOwnership, Boost
  <1> QED
    BY <1>1, <1>2, <1>3, <1>4

(* A task that stays where it is, or goes elsewhere.                       *)
LEMMA GoesTo ==
    ASSUME TypeAndOwnership, NEW t \in DemoTasks, NEW place, Goto(t, place),
           place \in Places[t]
    PROVE  /\ DOMAIN pc' = DemoTasks
           /\ pc'[t] = place
           /\ \A u \in DemoTasks : u # t => pc'[u] = pc[u]
           /\ \A u \in DemoTasks : pc'[u] \in Places[u]
  BY DEF Goto, TypeAndOwnership, DemoTypeInv

(* Every step keeps it: taking and giving the resource change the owner    *)
(* with its place, blocking gives the boost and giving takes it back.      *)
LEMMA OwnershipStep ==
    ASSUME TypeAndOwnership, [DemoNext]_demoVars
    PROVE  TypeAndOwnership'
  <1>0. \A t \in {"L", "H"} : owner = t <=> pc[t] \in {"spin", "give"}
    BY DEF TypeAndOwnership, Ownership
  <1>n. /\ HoldTicks \in Nat /\ MWorkTicks \in Nat /\ HWorkTicks \in Nat
        /\ ReadyDelay \in Nat /\ MonitorDelay \in Nat /\ MaxJitter \in Nat
    BY DemoAssumption
  <1>u. ticks \in Nat /\ \A t \in DemoTasks, d \in Nat : [until EXCEPT ![t] = ticks + d] \in [DemoTasks -> Nat]
    BY DEF TypeAndOwnership, DemoTypeInv
  <1>1. CASE ClockTicks
    <2>1. /\ UNCHANGED <<mutex, pc, until, eff, owner, readyTick, doneTick, report>>
          /\ ticks' = ticks + 1
          /\ jitter' = jitter \/ (jitter < MaxJitter /\ jitter' = jitter + 1)
      BY <1>1 DEF ClockTicks
    <2>2. DemoTypeInv'
      BY <1>n, <2>1 DEF TypeAndOwnership, DemoTypeInv
    <2> QED
      BY <2>1, <2>2 DEF TypeAndOwnership, Ownership, Boost
  <1>2. ASSUME NEW t \in {"M", "H", "monitor"}, Delay(t) PROVE TypeAndOwnership'
    <2>1. t \in DemoTasks /\ "delayed" \in Places[t] /\ Goto(t, "delayed") /\ pc[t] = "start"
      BY <1>2 DEF DemoTasks, Places, Delay
    <2>2. /\ UNCHANGED <<mutex, ticks, eff, owner, readyTick, doneTick, report, jitter>>
          /\ until' \in [DemoTasks -> Nat]
      BY <1>2, <1>n, <1>u, <2>1 DEF Delay
    <2>3. DemoTypeInv'
      BY <2>1, <2>2, GoesTo DEF TypeAndOwnership, DemoTypeInv
    <2>4. Ownership' /\ Boost'
      BY <1>0, <2>1, <2>2, GoesTo DEF TypeAndOwnership, Ownership, Boost, DemoTasks
    <2> QED
      BY <2>3, <2>4 DEF TypeAndOwnership
  <1>3. ASSUME NEW t \in {"L", "H"}, Take(t) PROVE TypeAndOwnership'
    <2>1. t \in DemoTasks /\ "spin" \in Places[t] /\ Goto(t, "spin") /\ owner = "none" /\ owner' = t
      BY <1>3 DEF DemoTasks, Places, Take
    <2>2. /\ UNCHANGED <<mutex, ticks, eff, readyTick, doneTick, report, jitter>>
          /\ until' \in [DemoTasks -> Nat]
      BY <1>3, <1>n, <1>u, <2>1 DEF Take
    <2>3. DemoTypeInv'
      BY <2>1, <2>2, GoesTo DEF TypeAndOwnership, DemoTypeInv
    <2>4. Ownership'
      BY <1>0, <2>1, GoesTo DEF Ownership, DemoTasks
    <2>5. Boost'
      <3>1. t = "L" => pc["H"] # "blocked"
        <4>1. t = "L" => ~ Ready("H")
          BY <1>3, <2>1, WhoRuns DEF Take
        <4> QED
          BY <2>1, <4>1 DEF Ready
      <3> QED
        BY <2>1, <2>2, <3>1, GoesTo DEF TypeAndOwnership, Boost, DemoTasks
    <2> QED
      BY <2>3, <2>4, <2>5 DEF TypeAndOwnership
  <1>4. ASSUME NEW t \in {"L", "H"}, Block(t) PROVE TypeAndOwnership'
    <2>1. /\ t \in DemoTasks /\ "blocked" \in Places[t] /\ Goto(t, "blocked") /\ owner # "none"
          /\ pc[t] = "take"
      BY <1>4 DEF DemoTasks, Places, Block
    <2>2. UNCHANGED <<mutex, ticks, until, owner, readyTick, doneTick, report, jitter>>
      BY <1>4 DEF Block
    <2>3. DemoTypeInv'
      BY <2>1, <2>2, GoesTo DEF TypeAndOwnership, DemoTypeInv
    <2>4. Ownership'
      BY <1>0, <2>1, <2>2, GoesTo DEF TypeAndOwnership, Ownership, DemoTasks
    <2>5. Boost'
      <3>1. owner = IF t = "L" THEN "H" ELSE "L"
        BY <1>0, <2>1 DEF TypeAndOwnership, Ownership
      <3>2. eff["L"] = 1 /\ eff["H"] = 4 /\ DOMAIN eff = DemoTasks
        BY <1>0, <2>1, <3>1 DEF TypeAndOwnership, Boost
      <3>3. eff' = IF mutex /\ t = "H" THEN [eff EXCEPT !["L"] = 4] ELSE eff
        <4>1. CASE t = "L"
          BY <1>4, <3>1, <3>2, <4>1 DEF Block
        <4>2. CASE t = "H"
          <5>1. owner = "L" /\ "L" \in DemoTasks
            BY <3>1, <4>2 DEF DemoTasks
          <5>2. eff' = IF mutex THEN [eff EXCEPT !["L"] = 4] ELSE eff
            <6>1. eff' = IF mutex /\ owner \in DemoTasks /\ eff[owner] < eff[t]
                          THEN [eff EXCEPT ![owner] = eff[t]] ELSE eff
              BY <1>4 DEF Block
            <6>2. owner \in DemoTasks /\ eff[owner] < eff[t] /\ eff[t] = 4
              BY <3>2, <4>2, <5>1
            <6> QED
              BY <5>1, <6>1, <6>2
          <5> QED
            BY <4>2, <5>2
        <4> QED
          BY <4>1, <4>2
      <3>4. pc'["H"] = IF t = "H" THEN "blocked" ELSE pc["H"]
        BY <2>1, GoesTo DEF DemoTasks
      <3> QED
        BY <2>1, <2>2, <3>1, <3>2, <3>3, <3>4 DEF TypeAndOwnership, Boost, DemoTasks
    <2> QED
      BY <2>3, <2>4, <2>5 DEF TypeAndOwnership
  <1>5. ASSUME NEW t \in {"L", "H"}, Give(t) PROVE TypeAndOwnership'
    <2> DEFINE place == IF t = "H" THEN "complete" ELSE "deleted"
    <2>1. /\ t \in DemoTasks /\ place \in Places[t] /\ Goto(t, place) /\ owner = t
          /\ owner' = "none"
      BY <1>0, <1>5 DEF DemoTasks, Places, Give
    <2>2. /\ UNCHANGED <<mutex, ticks, until, readyTick, doneTick, report, jitter>>
          /\ eff' = [eff EXCEPT ![t] = Base(t)]
      BY <1>5 DEF Give
    <2>3. DemoTypeInv'
      BY <2>1, <2>2, GoesTo DEF TypeAndOwnership, DemoTypeInv
    <2>4. Ownership'
      BY <1>0, <2>1, <2>2, GoesTo DEF TypeAndOwnership, Ownership, DemoTasks
    <2>5. Boost'
      BY <2>1, <2>2 DEF TypeAndOwnership, Boost, DemoTasks, Base
    <2> QED
      BY <2>3, <2>4, <2>5 DEF TypeAndOwnership
  <1>6. ASSUME NEW t \in {"L", "M", "H"}, SpinEnds(t) PROVE TypeAndOwnership'
    <2> DEFINE place == IF t = "M" THEN "deleted" ELSE "give"
    <2>1. t \in DemoTasks /\ place \in Places[t] /\ Goto(t, place) /\ pc[t] = "spin"
      BY <1>6 DEF DemoTasks, Places, SpinEnds
    <2>2. UNCHANGED <<mutex, ticks, until, eff, owner, readyTick, doneTick, report, jitter>>
      BY <1>6 DEF SpinEnds
    <2>3. DemoTypeInv'
      BY <2>1, <2>2, GoesTo DEF TypeAndOwnership, DemoTypeInv
    <2>4. Ownership' /\ Boost'
      BY <1>0, <2>1, <2>2, GoesTo DEF TypeAndOwnership, Ownership, Boost, DemoTasks
    <2> QED
      BY <2>3, <2>4 DEF TypeAndOwnership
  <1>7. CASE MediumWakes
    <2>1. "M" \in DemoTasks /\ "spin" \in Places["M"] /\ Goto("M", "spin")
      BY <1>7 DEF DemoTasks, Places, MediumWakes
    <2>2. /\ UNCHANGED <<mutex, ticks, eff, owner, readyTick, doneTick, report, jitter>>
          /\ until' \in [DemoTasks -> Nat]
      BY <1>7, <1>n, <1>u, <2>1 DEF MediumWakes
    <2>3. DemoTypeInv'
      BY <2>1, <2>2, GoesTo DEF TypeAndOwnership, DemoTypeInv
    <2>4. Ownership' /\ Boost'
      BY <1>0, <2>1, <2>2, GoesTo DEF TypeAndOwnership, Ownership, Boost, DemoTasks
    <2> QED
      BY <2>3, <2>4 DEF TypeAndOwnership
  <1>8. CASE HighWakes \/ HighCompletes
    <2>1. PICK p \in {"take", "deleted"} :
              /\ Goto("H", p) /\ p \in Places["H"] /\ "H" \in DemoTasks
              /\ pc["H"] \in {"delayed", "complete"}
      BY <1>8 DEF DemoTasks, Places, HighWakes, HighCompletes
    <2>2. /\ UNCHANGED <<mutex, ticks, until, eff, owner, jitter>>
          /\ readyTick' \in Nat /\ doneTick' \in Nat
      BY <1>8 DEF HighWakes, HighCompletes, TypeAndOwnership, DemoTypeInv
    <2>3. DemoTypeInv'
      BY <2>1, <2>2, GoesTo DEF TypeAndOwnership, DemoTypeInv
    <2>4. Ownership' /\ Boost'
      BY <1>0, <2>1, <2>2, GoesTo DEF TypeAndOwnership, Ownership, Boost, DemoTasks
    <2> QED
      BY <2>3, <2>4 DEF TypeAndOwnership
  <1>9. CASE MonitorReports
    <2>1. "monitor" \in DemoTasks /\ "deleted" \in Places["monitor"] /\ Goto("monitor", "deleted")
      BY <1>9 DEF DemoTasks, Places, MonitorReports
    <2>2. UNCHANGED <<mutex, ticks, until, eff, owner, readyTick, doneTick, jitter>>
      BY <1>9 DEF MonitorReports
    <2>3. DemoTypeInv'
      BY <2>1, <2>2, GoesTo DEF TypeAndOwnership, DemoTypeInv
    <2>4. Ownership' /\ Boost'
      BY <1>0, <2>1, <2>2, GoesTo DEF TypeAndOwnership, Ownership, Boost, DemoTasks
    <2> QED
      BY <2>3, <2>4 DEF TypeAndOwnership
  <1>10. CASE UNCHANGED demoVars
    BY <1>10 DEF demoVars, TypeAndOwnership, DemoTypeInv, Ownership, Boost
  <1> QED
    BY <1>1, <1>2, <1>3, <1>4, <1>5, <1>6, <1>7, <1>8, <1>9, <1>10 DEF DemoNext, Step

-----------------------------------------------------------------------------
(* With the mutex, the ticks H has waited so far are jitter, and, once it  *)
(* waits for the mutex, what is left of L's critical section; and, once it *)
(* has the mutex, its own work.                                            *)
Timing ==
    /\ pc["H"] = "take" => ticks <= readyTick + jitter
    /\ pc["L"] = "spin" => until["L"] <= ticks + HoldTicks
    /\ pc["H"] = "blocked" =>
        /\ ticks <= readyTick + jitter + HoldTicks
        /\ pc["L"] = "spin" => until["L"] <= readyTick + jitter + HoldTicks
    /\ pc["H"] \in {"spin", "give", "complete"} =>
        ticks <= readyTick + jitter + HoldTicks + HWorkTicks
    /\ pc["H"] = "spin" => until["H"] <= readyTick + jitter + HoldTicks + HWorkTicks
    /\ pc["H"] = "deleted" => doneTick <= readyTick + jitter + HoldTicks + HWorkTicks

(* While H is on its way, a tick that is not jitter passes in H's own work *)
(* or, while H waits, in L's critical section: M, though ready, never runs *)
(* ahead of L.                                                             *)
LEMMA OnlyCriticalSectionsSpin ==
    ASSUME TypeAndOwnership, mutex, ClockTicks,
           pc["H"] \in {"take", "blocked", "spin", "give", "complete"}
    PROVE  \/ jitter' = jitter + 1
           \/ /\ jitter' = jitter /\ pc["H"] = "spin" /\ ticks < until["H"]
           \/ /\ jitter' = jitter /\ pc["H"] = "blocked" /\ pc["L"] = "spin"
              /\ ticks < until["L"]
  <1>1. "L" \in DemoTasks /\ "H" \in DemoTasks
    BY DEF DemoTasks
  <1>2. Ready("H") \/ (pc["H"] = "blocked" /\ owner = "L" /\ Ready("L") /\ eff["L"] = 4)
    BY DEF Ready, TypeAndOwnership, Ownership, Boost
  <1>3. CASE jitter' = jitter
    <2>1. \E t \in DemoTasks : CanRun(t) /\ Spinning(t)
      <3>1. \E t \in DemoTasks : Ready(t)
        BY <1>1, <1>2
      <3>2. jitter \in Nat
        BY DEF TypeAndOwnership, DemoTypeInv
      <3> QED
        BY <1>3, <3>1, <3>2 DEF ClockTicks
    <2>2. PICK t \in DemoTasks : CanRun(t) /\ Spinning(t)
      BY <2>1
    <2>3. pc[t] = "spin" /\ ticks < until[t]
      BY <2>2 DEF Spinning
    <2>4. t = "H" \/ (t = "L" /\ pc["H"] = "blocked")
      BY <1>2, <2>2, WhoRuns
    <2> QED
      BY <1>3, <2>3, <2>4
  <1>4. CASE jitter' # jitter
    BY <1>4 DEF ClockTicks
  <1> QED
    BY <1>3, <1>4

(* Every step keeps the account of H's time: a tick adds to the jitter or  *)
(* uses up a critical section, and blocking, taking, ending the spin and   *)
(* completing move H from one bound to the next.                           *)
LEMMA TimingStep ==
    ASSUME TypeAndOwnership, TypeAndOwnership', mutex, Timing, [DemoNext]_demoVars
    PROVE  Timing'
  <1>n. /\ HoldTicks \in Nat /\ HWorkTicks \in Nat
        /\ ticks \in Nat /\ jitter \in Nat /\ readyTick \in Nat /\ doneTick \in Nat
        /\ until["L"] \in Nat /\ until["H"] \in Nat
        /\ DOMAIN until = DemoTasks /\ "L" \in DemoTasks /\ "H" \in DemoTasks /\ "M" \in DemoTasks
        /\ "monitor" \in DemoTasks /\ DOMAIN pc = DemoTasks
    BY DemoAssumption DEF TypeAndOwnership, DemoTypeInv, DemoTasks
  <1>o. \A t \in {"L", "H"} : owner = t <=> pc[t] \in {"spin", "give"}
    BY DEF TypeAndOwnership, Ownership
  <1>1. CASE ClockTicks
    <2>1. /\ UNCHANGED <<mutex, pc, until, eff, owner, readyTick, doneTick, report>>
          /\ ticks' = ticks + 1 /\ (jitter' = jitter \/ jitter' = jitter + 1)
      BY <1>1 DEF ClockTicks
    <2>2. pc["H"] \in {"take", "blocked", "spin", "give", "complete"} =>
           \/ jitter' = jitter + 1
           \/ /\ jitter' = jitter /\ pc["H"] = "spin" /\ ticks < until["H"]
           \/ /\ jitter' = jitter /\ pc["H"] = "blocked" /\ pc["L"] = "spin"
              /\ ticks < until["L"]
      BY <1>1, OnlyCriticalSectionsSpin
    <2> QED
      BY <1>n, <2>1, <2>2 DEF Timing
  <1>2. ASSUME NEW t \in {"M", "H", "monitor"}, Delay(t) PROVE Timing'
    <2>1. /\ UNCHANGED <<ticks, readyTick, doneTick, jitter>>
          /\ until'["L"] = until["L"] /\ pc'["L"] = pc["L"]
          /\ (pc'["H"] = pc["H"] /\ until'["H"] = until["H"]) \/ pc'["H"] = "delayed"
      BY <1>2, <1>n DEF Delay, Goto
    <2> QED
      BY <2>1 DEF Timing
  <1>3. CASE Take("H")
    <2>1. /\ UNCHANGED <<ticks, readyTick, doneTick, jitter>>
          /\ pc["H"] \in {"take", "blocked"} /\ owner = "none"
          /\ until'["L"] = until["L"] /\ pc'["L"] = pc["L"]
          /\ pc'["H"] = "spin" /\ until'["H"] = ticks + HWorkTicks
      BY <1>3, <1>n DEF Take, Goto
    <2> QED
      BY <1>n, <2>1 DEF Timing
  <1>4. CASE Take("L")
    <2>1. /\ UNCHANGED <<ticks, readyTick, doneTick, jitter>>
          /\ until'["H"] = until["H"] /\ pc'["H"] = pc["H"]
          /\ pc'["L"] = "spin" /\ until'["L"] = ticks + HoldTicks
          /\ CanRun("L") /\ owner = "none"
      BY <1>4, <1>n DEF Take, Goto
    <2>2. pc["H"] # "blocked"
      <3>1. ~ Ready("H")
        BY <1>n, <2>1, WhoRuns
      <3> QED
        BY <2>1, <3>1 DEF Ready
    <2> QED
      BY <1>n, <2>1, <2>2 DEF Timing
  <1>5. ASSUME NEW t \in {"L", "H"}, Block(t) PROVE Timing'
    <2>1. /\ UNCHANGED <<ticks, until, readyTick, doneTick, jitter>>
          /\ \/ t = "L" /\ pc'["L"] = "blocked" /\ pc'["H"] = pc["H"]
             \/ t = "H" /\ pc["H"] = "take" /\ pc'["H"] = "blocked" /\ pc'["L"] = pc["L"]
      BY <1>5, <1>n DEF Block, Goto
    <2> QED
      BY <1>n, <2>1 DEF Timing
  <1>6. ASSUME NEW t \in {"L", "H"}, Give(t) PROVE Timing'
    <2>1. /\ UNCHANGED <<ticks, until, readyTick, doneTick, jitter>>
          /\ \/ t = "L" /\ pc'["L"] = "deleted" /\ pc'["H"] = pc["H"]
             \/ t = "H" /\ pc["H"] = "give" /\ pc'["H"] = "complete" /\ pc'["L"] = pc["L"]
      BY <1>6, <1>n DEF Give, Goto
    <2> QED
      BY <1>n, <2>1 DEF Timing
  <1>7. ASSUME NEW t \in {"L", "M", "H"}, SpinEnds(t) PROVE Timing'
    <2>1. /\ UNCHANGED <<ticks, until, readyTick, doneTick, jitter>>
          /\ \/ t = "L" /\ pc'["L"] = "give" /\ pc'["H"] = pc["H"]
             \/ t = "H" /\ pc["H"] = "spin" /\ pc'["H"] = "give" /\ pc'["L"] = pc["L"]
             \/ t = "M" /\ pc'["L"] = pc["L"] /\ pc'["H"] = pc["H"]
      BY <1>7, <1>n DEF SpinEnds, Goto
    <2> QED
      BY <1>n, <2>1 DEF Timing
  <1>8. CASE MediumWakes
    <2>1. /\ UNCHANGED <<ticks, readyTick, doneTick, jitter>>
          /\ until'["L"] = until["L"] /\ until'["H"] = until["H"]
          /\ pc'["L"] = pc["L"] /\ pc'["H"] = pc["H"]
      BY <1>8, <1>n DEF MediumWakes, Goto
    <2> QED
      BY <2>1 DEF Timing
  <1>9. CASE HighWakes
    <2>1. /\ UNCHANGED <<ticks, until, doneTick, jitter>> /\ readyTick' = ticks
          /\ pc'["L"] = pc["L"] /\ pc'["H"] = "take"
      BY <1>9, <1>n DEF HighWakes, Goto
    <2> QED
      BY <1>n, <2>1 DEF Timing
  <1>10. CASE HighCompletes
    <2>1. /\ UNCHANGED <<ticks, until, readyTick, jitter>> /\ doneTick' = ticks
          /\ pc["H"] = "complete" /\ pc'["L"] = pc["L"] /\ pc'["H"] = "deleted"
      BY <1>10, <1>n DEF HighCompletes, Goto
    <2> QED
      BY <1>n, <2>1 DEF Timing
  <1>11. CASE MonitorReports
    <2>1. /\ UNCHANGED <<ticks, until, readyTick, doneTick, jitter>>
          /\ pc'["L"] = pc["L"] /\ pc'["H"] = pc["H"]
      BY <1>11, <1>n DEF MonitorReports, Goto
    <2> QED
      BY <2>1 DEF Timing
  <1>12. CASE UNCHANGED demoVars
    BY <1>12 DEF demoVars, Timing
  <1> QED
    BY <1>1, <1>2, <1>3, <1>4, <1>5, <1>6, <1>7, <1>8, <1>9, <1>10, <1>11, <1>12
    DEF DemoNext, Step

(* BlockedOnlyByCriticalSection: with the mutex H completes within what is *)
(* left of L's critical section, its own work and the jitter, for all      *)
(* durations; however long M works makes no difference.                    *)
THEOREM MutexBoundsTheWait == DemoSpec => []BlockedOnlyByCriticalSection
  <1> DEFINE Inv == TypeAndOwnership /\ (mutex => Timing)
  <1>1. DemoInit => Inv
    BY Initially DEF DemoInit, Timing, DemoTasks
  <1>2. Inv /\ [DemoNext]_demoVars => Inv'
    <2> SUFFICES ASSUME Inv, [DemoNext]_demoVars PROVE Inv'
      OBVIOUS
    <2>1. TypeAndOwnership'
      BY OwnershipStep
    <2>2. mutex' = mutex
      BY DEF DemoNext, Step, ClockTicks, Delay, Take, Block, Give, SpinEnds, MediumWakes, HighWakes,
             HighCompletes, MonitorReports, demoVars
    <2>3. mutex => Timing'
      BY <2>1, TimingStep
    <2> QED
      BY <2>1, <2>2, <2>3
  <1>3. Inv => BlockedOnlyByCriticalSection
    BY DemoAssumption
    DEF TypeAndOwnership, DemoTypeInv, Timing, BlockedOnlyByCriticalSection, Latency
  <1> QED
    BY <1>1, <1>2, <1>3, PTL DEF DemoSpec
=============================================================================

---------------------------- MODULE WatchdogTask ----------------------------
(***************************************************************************)
(* challenge_03_watchdog_task.c: monitored tasks record the tick of their  *)
(* last check-in in a table; the watchdog task inspects the table once per *)
(* period and feeds the hardware watchdog only if nobody is overdue, else  *)
(* it disables interrupts and spins until the hardware resets the MCU.     *)
(*                                                                         *)
(* A check-in reads the tick count and stores it in two steps, and the     *)
(* watchdog reads its "now" once and the entries one after the other.  The *)
(* watchdog has the highest priority: while it is ready no monitored task  *)
(* takes a step.  The monitored tasks have one priority and are time       *)
(* sliced.  Delays are kept as the ticks that remain (negative when late). *)
(***************************************************************************)
EXTENDS Integers, FiniteSets

CONSTANTS
    Tasks,          \* the monitored tasks, numbered from 0
    CheckinPeriod,  \* uCheckinPeriodMs of each task
    Limit,          \* xTimeoutTicks of each task
    WatchdogPeriod, \* WATCHDOG_PERIOD_MS
    HwLimit,        \* ticks without a feed after which the hardware resets
    HangIds,        \* {SIMULATE_HANG_TASK_ID}, or {} when it is not defined
    HangTrigger,    \* HANG_TRIGGER_MS
    TickMod,        \* number of values of a TickType_t
    MaxLate,        \* bound: a monitored task runs at most this late
    WatchdogLate    \* bound: the watchdog is done this long after its wake time

ASSUME ConstantsAssumption ==
    /\ IsFiniteSet(Tasks)
    /\ Tasks # {} /\ Tasks = 0 .. Cardinality(Tasks) - 1
    /\ CheckinPeriod \in [Tasks -> Nat \ {0}]
    /\ Limit \in [Tasks -> Nat \ {0}]
    /\ {WatchdogPeriod, HwLimit, TickMod} \subseteq Nat \ {0}
    /\ {HangTrigger, MaxLate, WatchdogLate} \subseteq Nat
    /\ HangIds \subseteq Tasks
    /\ WatchdogPeriod + WatchdogLate < HwLimit  \* "a timeout > WATCHDOG_PERIOD_MS"
    /\ \A i \in Tasks : Limit[i] + WatchdogPeriod + WatchdogLate + 1 < TickMod

VARIABLES
    time,           \* xTickCount
    uptime,         \* ticks since the tasks started, up to HangTrigger
    last,           \* xWatchdogTable[i].xLastCheckin
    at, due,        \* of each monitored task: its place, ticks to its wake time
    stamp, age,     \* the tick it has read but not stored, and its real age
    hung,           \* the tasks whose xHangSimulated is set
    wdgAt, wdgDue,  \* the watchdog task: its place, ticks to its wake time
    now, entry,     \* its xNow and i
    failed,         \* the task reported to on_task_failure, and after how long
    unfed,          \* ticks since hardware_wdg_feed
    silence         \* the real age of the check-in recorded in last[i]

taskVars == <<at, due, stamp, age>>
wdgVars == <<wdgAt, wdgDue, now, entry>>
vars == <<time, uptime, last, taskVars, hung, wdgVars, failed, unfed, silence>>

NoFailure == [id |-> -1, elapsed |-> 0]
Elapsed(from, to) == (to + TickMod - from) % TickMod
LastTask == Cardinality(Tasks) - 1
AllTasks(value) == [i \in Tasks |-> value]

(* Reset state: main has created the tasks, no one has run.                *)
Init ==
    /\ time \in 0 .. TickMod - 1
    /\ uptime = 0
    /\ last = AllTasks(0) /\ silence = AllTasks(0)
    /\ at = AllTasks("delayed") /\ due = CheckinPeriod
    /\ stamp = AllTasks(0) /\ age = AllTasks(0)
    /\ hung = {}
    /\ wdgAt = "init" /\ wdgDue = WatchdogPeriod /\ now = 0 /\ entry = 0
    /\ failed = NoFailure
    /\ unfed = 0

-----------------------------------------------------------------------------
(* Scheduling.                                                             *)

WatchdogReady == wdgAt = "delayed" => wdgDue <= 0

TaskCanRun(i) ==
    /\ ~ WatchdogReady
    /\ at[i] = "delayed" => due[i] <= 0

Older(n) == IF n < TickMod THEN n + 1 ELSE n

(* Seeded fault: the spin loop feeds the hardware watchdog.                *)
GoesUnfedFedInSpin == unfed' = IF wdgAt = "spin" THEN 0 ELSE unfed + 1

(* The loops of the program do not feed the hardware watchdog.             *)
GoesUnfed == unfed' = unfed + 1

(* A millisecond passes.  Interrupts being disabled stops the tick count   *)
(* but not the hardware watchdog.                                          *)
Tick ==
    /\ unfed < HwLimit
    /\ GoesUnfed
    /\ silence' = [i \in Tasks |-> Older(silence[i])]
    /\ IF wdgAt = "spin"
       THEN UNCHANGED <<time, uptime, due, age, wdgDue>>
       ELSE /\ wdgAt # "init"
            /\ wdgDue > - WatchdogLate
            /\ \A i \in Tasks : due[i] > - MaxLate
            /\ time' = (time + 1) % TickMod
            /\ uptime' = IF uptime < HangTrigger THEN uptime + 1 ELSE uptime
            /\ due' = [i \in Tasks |-> due[i] - 1]
            /\ age' = [i \in Tasks |-> Older(age[i])]
            /\ wdgDue' = wdgDue - 1
    /\ UNCHANGED <<last, at, stamp, hung, wdgAt, now, entry, failed>>

(* The hardware watchdog expires: the MCU starts over.                     *)
HardwareReset ==
    /\ unfed = HwLimit
    /\ time' = 0
    /\ uptime' = 0
    /\ last' = AllTasks(0) /\ silence' = AllTasks(0)
    /\ at' = AllTasks("delayed") /\ due' = CheckinPeriod
    /\ stamp' = AllTasks(0) /\ age' = AllTasks(0)
    /\ hung' = {}
    /\ wdgAt' = "init" /\ wdgDue' = WatchdogPeriod /\ now' = 0 /\ entry' = 0
    /\ failed' = NoFailure
    /\ unfed' = 0

-----------------------------------------------------------------------------
(* monitored_task *)

(* vTaskDelayUntil returns.  From HANG_TRIGGER_MS on, the task that is to  *)
(* hang goes straight back to sleep.                                       *)
Wake(i) ==
    /\ TaskCanRun(i)
    /\ at[i] = "delayed"
    /\ hung' = IF i \in HangIds /\ uptime >= HangTrigger THEN hung \cup {i} ELSE hung
    /\ IF i \in hung'
       THEN due' = [due EXCEPT ![i] = @ + CheckinPeriod[i]] /\ at' = at
       ELSE at' = [at EXCEPT ![i] = "stamp"] /\ due' = due
    /\ UNCHANGED <<time, uptime, last, stamp, age, wdgVars, failed, unfed, silence>>

(* watchdog_checkin: xTaskGetTickCount returns ...                         *)
TakeStamp(i) ==
    /\ TaskCanRun(i)
    /\ at[i] = "stamp"
    /\ at' = [at EXCEPT ![i] = "store"]
    /\ stamp' = [stamp EXCEPT ![i] = time]
    /\ age' = [age EXCEPT ![i] = 0]
    /\ UNCHANGED <<time, uptime, last, due, hung, wdgVars, failed, unfed, silence>>

(* ... and its result is stored; the task sleeps until its next period.    *)
StoreStamp(i) ==
    /\ TaskCanRun(i)
    /\ at[i] = "store"
    /\ last' = [last EXCEPT ![i] = stamp[i]]
    /\ silence' = [silence EXCEPT ![i] = age[i]]
    /\ at' = [at EXCEPT ![i] = "delayed"]
    /\ due' = [due EXCEPT ![i] = @ + CheckinPeriod[i]]
    /\ age' = [age EXCEPT ![i] = 0]
    /\ UNCHANGED <<time, uptime, stamp, hung, wdgVars, failed, unfed>>

-----------------------------------------------------------------------------
(* watchdog_task *)

(* "Initialise all check-in timestamps to now" *)
InitTable ==
    /\ wdgAt = "init"
    /\ last' = AllTasks(time)
    /\ wdgAt' = "delayed"
    /\ UNCHANGED <<time, uptime, taskVars, hung, wdgDue, now, entry, failed, unfed, silence>>

StartRound ==
    /\ wdgAt = "delayed"
    /\ wdgDue <= 0
    /\ wdgAt' = "check" /\ now' = time /\ entry' = 0
    /\ UNCHANGED <<time, uptime, last, taskVars, hung, wdgDue, failed, unfed, silence>>

(* Seeded fault: a task exactly at its limit counts as overdue.            *)
OverdueAtLimit(i) == Elapsed(last[i], now) >= Limit[i]

(* Seeded fault: signed comparison, a wrapped tick count looks negative.   *)
OverdueSigned(i) == now - last[i] > Limit[i]

Overdue(i) == Elapsed(last[i], now) > Limit[i]

(* hardware_wdg_feed                                                       *)
Feed == unfed' = 0

(* The loop over the entries goes on, or the round ends.                   *)
NextEntry == entry' = entry + 1 /\ UNCHANGED <<wdgAt, wdgDue>>
SleepAgain == wdgAt' = "delayed" /\ wdgDue' = wdgDue + WatchdogPeriod /\ entry' = entry

(* Seeded fault: the hardware watchdog is not fed.                         *)
EntryHealthyUnfed ==
    /\ wdgAt = "check"
    /\ ~ Overdue(entry)
    /\ IF entry < LastTask THEN NextEntry ELSE SleepAgain
    /\ UNCHANGED <<time, uptime, last, taskVars, hung, now, failed, unfed, silence>>

(* Entry entry is in order; after the last one the hardware watchdog is    *)
(* fed and the watchdog sleeps until its next period.                      *)
EntryHealthy ==
    /\ wdgAt = "check"
    /\ ~ Overdue(entry)
    /\ IF entry < LastTask THEN NextEntry /\ unfed' = unfed ELSE SleepAgain /\ Feed
    /\ UNCHANGED <<time, uptime, last, taskVars, hung, now, failed, silence>>

(* on_task_failure reports, and returns pdFALSE: it never recovers.        *)
OnTaskFailure(i, elapsed) == failed' = [id |-> i, elapsed |-> elapsed]

(* "Cannot recover": interrupts off, spin, no feed.                        *)
EntryOverdue ==
    /\ wdgAt = "check"
    /\ Overdue(entry)
    /\ OnTaskFailure(entry, Elapsed(last[entry], now))
    /\ wdgAt' = "spin"
    /\ UNCHANGED <<time, uptime, last, taskVars, hung, wdgDue, now, entry, unfed, silence>>

-----------------------------------------------------------------------------
Monitored(i) == Wake(i) \/ TakeStamp(i) \/ StoreStamp(i)
Watchdog == InitTable \/ StartRound \/ EntryHealthy \/ EntryOverdue

Next ==
    \/ Tick
    \/ HardwareReset
    \/ Watchdog
    \/ \E i \in Tasks : Monitored(i)

Spec == Init /\ [][Next]_vars

(* Time passes, the hardware fires, and a task that may run does.          *)
FairSpec ==
    /\ Spec
    /\ WF_vars(Tick)
    /\ WF_vars(HardwareReset)
    /\ WF_vars(Watchdog)
    /\ \A i \in Tasks : WF_vars(Monitored(i))

-----------------------------------------------------------------------------
(* No false alarm: a task is reported only if its last recorded check-in   *)
(* really is older than its limit, across a wrap of the tick count and     *)
(* whatever the interleaving of its two steps with the watchdog's reads.   *)
(* (A task preempted between reading and storing the tick has not checked  *)
(* in: it can be reported although it is alive.)                           *)
ReportedMeansSilent ==
    failed # NoFailure => silence[failed.id] > Limit[failed.id]

(* Timely detection: no task stays unreported longer than its limit, one   *)
(* watchdog period and the lateness of the watchdog, whether or not its    *)
(* limit is a multiple of that period.                                     *)
DetectionIsTimely ==
    failed = NoFailure =>
        \A i \in Tasks : silence[i] <= Limit[i] + WatchdogPeriod + WatchdogLate

(* The hardware watchdog never expires under a healthy system: it is       *)
(* starved only on purpose.                                                *)
ResetOnlyAfterReport == unfed = HwLimit => failed # NoFailure

(* A hung task always ends in a reset of the MCU, which clears the hang.   *)
HangLeadsToReset == \A i \in HangIds : (i \in hung) ~> (i \notin hung)
=============================================================================

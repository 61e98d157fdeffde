---------------------------- MODULE SysTickDelay ----------------------------
(***************************************************************************)
(* The millisecond tick of challenge_03_timer_interrupt.c: systick_init,   *)
(* SysTick_Handler, systick_get_ms and systick_delay_ms.  The down-counter *)
(* is external: it counts CPU cycles, requests the exception when it       *)
(* reaches zero and reloads LOAD one cycle later.  The handler runs within *)
(* a tick of its request and the busy-wait loop reads the counter at least *)
(* once every MaxLate cycles.                                              *)
(***************************************************************************)
EXTENDS Integers

CONSTANTS
    Kilo,       \* 1000
    LoadMod,    \* 2^24
    TickMod,    \* 2^32, the range of g_tick_ms
    CpuHz,      \* cpu_hz arguments
    Delays,     \* ms arguments
    MaxLate,    \* cycles between two reads of the loop
    MaxStarts,  \* bound: calls of systick_init
    Horizon     \* bound: the histories of a delay stop counting here

ASSUME SysTickAssumption ==
    /\ {Kilo, LoadMod, TickMod, MaxLate} \subseteq Nat \ {0}
    /\ {MaxStarts, Horizon} \subseteq Nat
    /\ CpuHz \subseteq Nat
    /\ Delays \subseteq 0 .. TickMod - 1

VARIABLES
    load, val, running,     \* SysTick->LOAD, VAL, CTRL
    exception,  \* the exception is pending
    tick,       \* g_tick_ms
    place,      \* "idle", or "wait" in the loop of systick_delay_ms
    ms, start,  \* its argument (0: no delay since systick_init) and local
    late,       \* cycles since the loop last read the counter
    elapsed,    \* (history) cycles since the call
    ticks,      \* (history) ticks counted since the call
    starts

tickVars == <<load, val, running, exception, tick>>
sysTickVars == <<load, val, running, exception, tick, place, ms, start, late,
                 elapsed, ticks, starts>>

(* g_tick_ms starts anywhere, so that it wraps during a delay.             *)
DelayInit ==
    /\ load = 0 /\ val = 0 /\ running = FALSE /\ exception = FALSE
    /\ tick \in 0 .. TickMod - 1
    /\ place = "idle" /\ ms = 0 /\ start = 0
    /\ late = 0 /\ elapsed = 0 /\ ticks = 0
    /\ starts = 0

(* systick_init                                                            *)
InitSysTick(cpu) ==
    /\ place = "idle"
    /\ starts < MaxStarts
    /\ starts' = starts + 1
    /\ LET reload == cpu \div Kilo - 1
       IN IF cpu >= Kilo /\ reload < LoadMod
          THEN val' = 0 /\ load' = reload /\ running' = TRUE
          ELSE UNCHANGED <<val, load, running>>
    /\ ms' = 0
    /\ UNCHANGED <<exception, tick, place, start, late, elapsed, ticks>>

Bump(n) == IF n < Horizon THEN n + 1 ELSE n

(* One cycle of the processor clock.                                       *)
Cycle ==
    /\ running
    /\ val = 1 => ~ exception
    /\ val' = IF val = 0 THEN load ELSE val - 1
    /\ exception' = (exception \/ val = 1)
    /\ IF place = "wait"
       THEN late < MaxLate /\ late' = late + 1 /\ elapsed' = Bump(elapsed)
       ELSE UNCHANGED <<late, elapsed>>
    /\ UNCHANGED <<load, running, tick, place, ms, start, ticks, starts>>

SysTick_Handler ==
    /\ exception
    /\ exception' = FALSE
    /\ tick' = (tick + 1) % TickMod
    /\ ticks' = IF place = "wait" THEN Bump(ticks) ELSE ticks
    /\ UNCHANGED <<load, val, running, place, ms, start, late, elapsed,
                   starts>>

CallDelay(n) ==
    /\ place = "idle"
    /\ running
    /\ place' = "wait"
    /\ ms' = n
    /\ start' = tick
    /\ late' = 0
    /\ elapsed' = 0
    /\ ticks' = 0
    /\ UNCHANGED <<tickVars, starts>>

(* Seeded fault: the end of the delay is a uint32_t point in time.         *)
StillWaitingUntil == tick < (start + ms) % TickMod
(* Seeded fault: <= instead of <.                                          *)
StillWaitingInclusive == (tick - start) % TickMod <= ms
(* Seeded fault: without volatile, the counter is read only once.          *)
StillWaitingCached == (start - start) % TickMod < ms
(* (systick_get_ms() - start) < ms                                         *)
StillWaiting == (tick - start) % TickMod < ms

Poll ==
    /\ place = "wait"
    /\ late' = 0
    /\ place' = IF StillWaiting THEN "wait" ELSE "idle"
    /\ UNCHANGED <<ms, start, elapsed, ticks, starts, tickVars>>

DelayNext ==
    \/ \E cpu \in CpuHz : InitSysTick(cpu)
    \/ Cycle
    \/ SysTick_Handler
    \/ \E n \in Delays : CallDelay(n)
    \/ Poll

DelaySpec == DelayInit /\ [][DelayNext]_sysTickVars

(* The clock runs, the exception is taken and the loop executes.           *)
FairDelaySpec ==
    /\ DelaySpec
    /\ WF_sysTickVars(Cycle)
    /\ WF_sysTickVars(SysTick_Handler)
    /\ WF_sysTickVars(Poll)
-----------------------------------------------------------------------------
Period == load + 1
Returned == place = "idle" /\ ms > 0

(* A delay spans the ticks it was asked for, also when g_tick_ms wraps     *)
(* while it lasts.                                                         *)
DelayCoversTicks == Returned => ticks >= ms

(* The loop leaves in time: a delay lasts at most its ticks, the latency   *)
(* of the handler and that of one read; SysTick must tick, see below.      *)
DelayIsNotLate ==
    Returned /\ load # 0 => elapsed <= (ms + 1) * Period + MaxLate

(* A delay ends, from any value of the tick and in any phase, unless the   *)
(* reload value is 0: systick_init accepts a cpu_hz from 1000 to 1999,     *)
(* with which SysTick never ticks.                                         *)
DelayReturns == place = "wait" /\ load # 0 ~> place = "idle"
=============================================================================

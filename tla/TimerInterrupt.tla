--------------------------- MODULE TimerInterrupt ---------------------------
(***************************************************************************)
(* tim2_init and TIM2_IRQHandler of challenge_03_timer_interrupt.c.  Every *)
(* register access is a step: the counter may overflow and the handler may *)
(* preempt tim2_init between any two of them.                              *)
(*                                                                         *)
(* The timer and the NVIC are external, modelled as far as the code relies *)
(* on them: an overflow of the running counter sets UIF, and so does UG    *)
(* while URS is clear; UIF with UIE set makes the interrupt pending; an    *)
(* enabled pending interrupt is taken once, and is pending again after the *)
(* handler if UIF is set.                                                  *)
(***************************************************************************)
EXTENDS TimerPeriod

CONSTANTS
    TimClk,         \* tim_clk_hz of the board
    InitRates,      \* target_hz arguments of tim2_init
    Clocks, Rates,  \* arguments of timer_calc_period on its own
    MaxInits,       \* bound: calls of tim2_init
    MaxOverflows    \* bound: counter overflows

ASSUME TimerAssumption ==
    /\ Clocks \subseteq Nat /\ TimClk \in Nat
    /\ \A clk \in Clocks \cup {TimClk} : clk + clk \div 2 < WordMod
                                                \* no clock is near 2^32 Hz
    /\ Rates \cup InitRates \subseteq 0 .. WordMod - 1
    /\ {MaxInits, MaxOverflows} \subseteq Nat

VARIABLES
    cen, urs,       \* CR1
    uie,            \* DIER
    uif,            \* SR
    psc, arr,       \* PSC and ARR; with ARPE clear ARR has no buffer
    pscActive,      \* the prescaler in use
    fresh,          \* the counter has not advanced since it was reset
    pending, enabled, prioritised,  \* NVIC: ISPR, ISER, IPR written
    pc,             \* the next access of tim2_init
    asked, period,  \* a call of timer_calc_period, and its result
    isr,            \* the next access of TIM2_IRQHandler
    inits,
    overflows,      \* (history) overflows of the counter
    merged,         \* (history) overflows that found UIF already set
    served          \* (history) overflows the handler acted on

periodVars == <<psc, arr, pscActive>>
timVars == <<cen, urs, uie, uif, periodVars, fresh>>
nvicVars == <<pending, enabled, prioritised>>
callVars == <<asked, period, inits>>
histVars == <<overflows, merged, served>>
vars == <<timVars, nvicVars, callVars, histVars, pc, isr>>

Init ==
    /\ cen = FALSE /\ urs = FALSE /\ uie = FALSE /\ uif = FALSE
    /\ psc = 0 /\ arr = HalfMod - 1 /\ pscActive = 0 /\ fresh = TRUE
    /\ pending = FALSE /\ enabled = FALSE /\ prioritised = FALSE
    /\ pc = "return" /\ isr = "none"
    /\ asked = <<>> /\ period = <<>> /\ inits = 0
    /\ overflows = 0 /\ merged = 0 /\ served = 0
-----------------------------------------------------------------------------
(* The counter advances, and starts again after ARR: an update event.      *)
Count ==
    /\ cen /\ fresh
    /\ fresh' = FALSE
    /\ UNCHANGED <<cen, urs, uie, uif, periodVars, nvicVars, callVars,
                   histVars, pc, isr>>

Overflow ==
    /\ cen
    /\ overflows < MaxOverflows
    /\ overflows' = overflows + 1
    /\ merged' = IF uif THEN merged + 1 ELSE merged
    /\ uif' = TRUE
    /\ pending' = (pending \/ uie)
    /\ pscActive' = psc
    /\ fresh' = TRUE
    /\ UNCHANGED <<cen, urs, uie, psc, arr, enabled, prioritised, served,
                   callVars, pc, isr>>
-----------------------------------------------------------------------------
(* timer_calc_period on its own; asked for before the timer is used, as it *)
(* touches nothing.                                                        *)
Calculate(clk, target) ==
    /\ inits = 0 /\ asked = <<>>
    /\ asked' = <<clk, target>>
    /\ period' = CalcPeriod(clk, target)
    /\ UNCHANGED <<inits, timVars, nvicVars, histVars, pc, isr>>

(* tim2_init.  A call timer_calc_period refuses changes nothing; main code *)
(* does not run while the handler does.                                    *)
InitCall(target) ==
    /\ pc = "return" /\ isr = "none"
    /\ inits < MaxInits
    /\ inits' = inits + 1
    /\ LET out == CalcPeriod(TimClk, target)
       IN IF out.rc = 0
          THEN asked' = <<TimClk, target>> /\ period' = out /\ pc' = "callback"
          ELSE UNCHANGED <<asked, period, pc>>
    /\ UNCHANGED <<isr, timVars, nvicVars, histVars>>

InitAt(here, next) ==
    /\ pc = here /\ isr = "none"
    /\ pc' = next
    /\ UNCHANGED <<isr, callVars, histVars>>

(* g_tim2_callback = callback, seen by the handler at once.                *)
SetCallback ==
    /\ InitAt("callback", "stop")
    /\ UNCHANGED <<timVars, nvicVars>>

StopTimer ==
    /\ InitAt("stop", "psc")
    /\ cen' = FALSE
    /\ urs' = FALSE
    /\ UNCHANGED <<uie, uif, periodVars, fresh, nvicVars>>

(* PSC is buffered; ARR is not, as ARPE is clear.                          *)
SetPrescaler ==
    /\ InitAt("psc", "arr")
    /\ psc' = period.psc
    /\ UNCHANGED <<cen, urs, uie, uif, arr, pscActive, fresh, nvicVars>>

SetReload ==
    /\ InitAt("arr", "ug")
    /\ arr' = period.arr
    /\ UNCHANGED <<cen, urs, uie, uif, psc, pscActive, fresh, nvicVars>>

(* Seeded fault: no update event is generated.                             *)
GenerateUpdateOmitted ==
    /\ InitAt("ug", "clear")
    /\ UNCHANGED <<timVars, nvicVars>>

GenerateUpdate ==
    /\ InitAt("ug", "clear")
    /\ uif' = (uif \/ ~ urs)
    /\ pending' = (pending \/ (uie /\ ~ urs))
    /\ pscActive' = psc
    /\ fresh' = TRUE
    /\ UNCHANGED <<cen, urs, uie, psc, arr, enabled, prioritised>>

(* Seeded fault: the flag that UG has set is left alone.                   *)
ClearFlagOmitted ==
    /\ InitAt("clear", "uie")
    /\ UNCHANGED <<timVars, nvicVars>>

ClearFlag ==
    /\ InitAt("clear", "uie")
    /\ uif' = FALSE
    /\ UNCHANGED <<cen, urs, uie, periodVars, fresh, nvicVars>>

EnableUpdateInterrupt ==
    /\ InitAt("uie", "priority")
    /\ uie' = TRUE
    /\ pending' = (pending \/ uif)
    /\ UNCHANGED <<cen, urs, uif, periodVars, fresh, enabled, prioritised>>

(* nvic_set_priority                                                       *)
SetPriority ==
    /\ InitAt("priority", "enable")
    /\ prioritised' = TRUE
    /\ UNCHANGED <<pending, enabled, timVars>>

(* Seeded fault: the interrupt is not enabled in the NVIC.                 *)
EnableIrqOmitted ==
    /\ InitAt("enable", "start")
    /\ UNCHANGED <<timVars, nvicVars>>

(* nvic_enable_irq                                                         *)
EnableIrq ==
    /\ InitAt("enable", "start")
    /\ enabled' = TRUE
    /\ UNCHANGED <<pending, prioritised, timVars>>

StartTimer ==
    /\ InitAt("start", "return")
    /\ cen' = TRUE
    /\ urs' = TRUE
    /\ UNCHANGED <<uie, uif, periodVars, fresh, nvicVars>>
-----------------------------------------------------------------------------
(* The processor takes the interrupt.                                      *)
HandlerEnter ==
    /\ isr = "none"
    /\ pending /\ enabled
    /\ pending' = FALSE
    /\ isr' = "check"
    /\ UNCHANGED <<enabled, prioritised, timVars, callVars, histVars, pc>>

HandlerReturns ==
    /\ isr' = "none"
    /\ pending' = (pending \/ (uif /\ uie))

(* The SR read: a handler that finds UIF clear returns.                    *)
HandlerCheck ==
    /\ isr = "check"
    /\ IF uif THEN isr' = "clear" /\ pending' = pending ELSE HandlerReturns
    /\ UNCHANGED <<enabled, prioritised, timVars, callVars, histVars, pc>>

HandlerClear ==
    /\ isr = "clear"
    /\ uif' = FALSE
    /\ isr' = "callback"
    /\ UNCHANGED <<cen, urs, uie, periodVars, fresh, nvicVars, callVars, histVars, pc>>

(* Seeded fault: UIF is cleared (again) at the bottom of the handler.      *)
HandlerCallbackClears ==
    /\ isr = "callback"
    /\ served' = served + 1
    /\ uif' = FALSE
    /\ isr' = "none"
    /\ UNCHANGED <<cen, urs, uie, periodVars, fresh, nvicVars, callVars,
                   overflows, merged, pc>>

(* g_tim2_callback is called, unless it is NULL.                           *)
HandlerCallback ==
    /\ isr = "callback"
    /\ served' = served + 1
    /\ HandlerReturns
    /\ UNCHANGED <<enabled, prioritised, timVars, callVars, overflows, merged, pc>>
-----------------------------------------------------------------------------
InitStep ==
    \/ SetCallback \/ StopTimer \/ SetPrescaler \/ SetReload \/ GenerateUpdate
    \/ ClearFlag \/ EnableUpdateInterrupt \/ SetPriority \/ EnableIrq \/ StartTimer

Handler == HandlerEnter \/ HandlerCheck \/ HandlerClear \/ HandlerCallback

Next ==
    \/ Count
    \/ Overflow
    \/ \E clk \in Clocks, target \in Rates : Calculate(clk, target)
    \/ \E target \in InitRates : InitCall(target)
    \/ InitStep
    \/ Handler

Spec == Init /\ [][Next]_vars

(* Main code runs whenever the handler does not, and the processor takes   *)
(* and executes the handler.                                               *)
FairSpec == Spec /\ WF_vars(InitStep) /\ WF_vars(Handler)
-----------------------------------------------------------------------------
One(condition) == IF condition THEN 1 ELSE 0

(* tim2_init called again while the timer runs raises UIF by UG with the   *)
(* interrupt still enabled, and clears the flag of an overflow not served. *)
Reinits == IF inits > 1 THEN inits - 1 ELSE 0

(* No overflow is lost, unless it found the flag of an earlier one still   *)
(* set, except for one at each re-initialisation: each was served, or is   *)
(* marked by UIF, or is in the handler's hands.  "Clearing at the top      *)
(* preserves any re-assertion."                                            *)
NoOverflowLost ==
    overflows <= served + merged + One(isr = "callback")
                    + One(uif /\ pc # "clear") + Reinits

(* The handler acts on overflows of the counter only, except once for each *)
(* re-initialisation: no "spurious first interrupt".                       *)
NoSpuriousCallback == served + One(isr = "callback") <= overflows + Reinits

Distance(a, b) == IF a < b THEN b - a ELSE a - b

(* timer_calc_period accepts a rate exactly when the clock can produce it. *)
(* What it then returns fits the 16-bit registers, and the period that is  *)
(* set differs from the one that was asked for by less than the prescaler  *)
(* and half a clock, the resolution there is.  The tests try a few clocks. *)
PeriodIsClose ==
    asked # <<>> =>
        LET clk == asked[1]
            target == asked[2]
        IN IF target = 0 \/ clk = 0 \/ target > clk THEN period.rc = -1
           ELSE /\ period.rc = 0
                /\ {period.psc, period.arr} \subseteq 0 .. HalfMod - 1
                /\ 2 * Distance((period.psc + 1) * (period.arr + 1) * target, clk)
                        <= target * (2 * period.psc + 1)

(* From the moment the counter is started it runs with the prescaler and   *)
(* reload of the last accepted tim2_init, and starts with a whole period:  *)
(* "Without this, the values only take effect after the first overflow."   *)
(* The handler never runs at the default priority.                         *)
RunsAsConfigured ==
    /\ pc = "start" \/ (pc = "return" /\ cen)
            => pscActive = period.psc /\ arr = period.arr
    /\ pc = "start" => fresh
    /\ isr # "none" => prioritised

(* UIF does not stay set while the timer runs.                             *)
OverflowsAreServed == cen /\ uif ~> ~ uif
=============================================================================

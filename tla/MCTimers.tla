------------------------------ MODULE MCTimers ------------------------------
(***************************************************************************)
(* Two uses of a hardware timer: a program that is driven by the TIM2      *)
(* interrupt, or one that waits by SysTick.  The board runs one of them.   *)
(***************************************************************************)
EXTENDS TimerInterrupt, SysTickDelay

VARIABLE program

timersVars == <<program, vars, sysTickVars>>

TimersInit ==
    /\ Init /\ DelayInit
    /\ program \in {"interrupt", "delay"}
    /\ program = "interrupt" => tick = 0

Running(p, step, others) == program = p /\ step /\ UNCHANGED <<program, others>>

RunInterrupt == Running("interrupt", Next, sysTickVars)
RunDelay == Running("delay", DelayNext, vars)

TimersNext == RunInterrupt \/ RunDelay

(* The fairness of the two programs, each for when it is the one that runs. *)
FairTimersSpec ==
    /\ TimersInit /\ [][TimersNext]_timersVars
    /\ WF_vars(program = "interrupt" /\ InitStep)
    /\ WF_vars(program = "interrupt" /\ Handler)
    /\ WF_sysTickVars(program = "delay" /\ Cycle)
    /\ WF_sysTickVars(program = "delay" /\ SysTick_Handler)
    /\ WF_sysTickVars(program = "delay" /\ Poll)
=============================================================================

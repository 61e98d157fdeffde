---------------------------- MODULE TimerPeriod ----------------------------
(***************************************************************************)
(* timer_calc_period of challenge_03_timer_interrupt.c: the prescaler and  *)
(* auto-reload values for a timer that shall overflow target times a       *)
(* second when its input clock is clk.                                     *)
(***************************************************************************)
EXTENDS MachineWords

CONSTANT Milli      \* 1000, millihertz in a hertz

(* total = round(tim_clk_hz / target_hz)                                   *)
Total(clk, target) == ((clk + target \div 2) % WordMod) \div target

(* "target_hz is zero or unachievable"                                     *)
Achievable(clk, target) ==
    clk # 0 /\ target # 0 /\ target <= clk /\ Total(clk, target) # 0

(* Seeded fault: the prescaler is rounded down.                            *)
PscPlus1Down(total) == IF total < HalfMod THEN 1 ELSE total \div HalfMod
PscPlus1(total) == ((total + HalfMod - 1) % WordMod) \div HalfMod

(* The return value and *out.                                              *)
CalcPeriod(clk, target) ==
    IF ~ Achievable(clk, target) THEN [rc |-> -1]
    ELSE LET total == Total(clk, target)
             p == PscPlus1(total)
             a == total \div p
         IN [rc |-> 0, psc |-> p - 1, arr |-> a - 1,
             mHz |-> ((clk * Milli) \div (p * a)) % WordMod]
=============================================================================

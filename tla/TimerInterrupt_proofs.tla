----------------------- MODULE TimerInterrupt_proofs -----------------------
(***************************************************************************)
(* Proofs about challenge_03_timer_interrupt.c: tim2_init and its          *)
(* interrupt handler, for every word size, clock and rate and any number   *)
(* of calls and overflows; and the SysTick delay, for every width of its   *)
(* counters and every delay they can hold.                                 *)
(***************************************************************************)
EXTENDS TimerInterrupt, SysTickDelay, TLAPS

(* The places of tim2_init before and after the update event, and those at *)
(* which the counter is stopped.                                           *)
BeforeUpdate == {"callback", "stop", "psc", "arr", "ug"}
AfterUpdate == {"clear", "uie", "priority", "enable", "start"}
Stopped == {"psc", "arr", "ug"} \cup AfterUpdate

(* Nothing has happened before the first call has started the counter, and *)
(* nothing is enabled before it has enabled the interrupt.                 *)
FirstInit ==
    /\ inits = 0 => pc = "return"
    /\ inits = 0 \/ (inits = 1 /\ pc # "return") => ~ cen
    /\ inits = 0 \/ (inits = 1 /\ pc \in BeforeUpdate) => ~ uif
    /\ inits = 0 \/ (inits = 1 /\ pc \notin {"return", "start"}) => ~ enabled

TypeInv ==
    /\ pc \in {"return"} \cup BeforeUpdate \cup AfterUpdate
    /\ isr \in {"none", "check", "clear", "callback"}
    /\ cen \in BOOLEAN /\ uif \in BOOLEAN /\ enabled \in BOOLEAN
    /\ inits \in Nat /\ overflows \in Nat /\ merged \in Nat /\ served \in Nat

(* What the handler relies on while it runs.                               *)
HandlerInv ==
    /\ isr # "none" => enabled
    /\ isr = "clear" => uif

StateInv == TypeInv /\ FirstInit /\ HandlerInv /\ (pc \in Stopped => ~ cen)

(* At reset the timer is stopped and nothing has happened.                 *)
LEMMA StateInvInit == Init => StateInv
  <1> SUFFICES ASSUME Init PROVE StateInv
    OBVIOUS
  <1> USE DEF Init, BeforeUpdate, AfterUpdate, Stopped
  <1>1. TypeInv
    BY DEF TypeInv
  <1>2. FirstInit
    BY DEF FirstInit
  <1>3. HandlerInv
    BY DEF HandlerInv
  <1>4. pc \in Stopped => ~ cen
    OBVIOUS
  <1> QED BY <1>1, <1>2, <1>3, <1>4 DEF StateInv

(* Every access of tim2_init and of the handler, and every tick of the     *)
(* counter, preserves it.                                                  *)
LEMMA StateInvStep == StateInv /\ [Next]_vars => StateInv'
  <1> SUFFICES ASSUME StateInv, [Next]_vars PROVE StateInv'
    OBVIOUS
  <1> USE DEF StateInv, TypeInv, FirstInit, HandlerInv, BeforeUpdate, AfterUpdate, Stopped,
              timVars, nvicVars, callVars, histVars, periodVars
  <1>1. CASE SetCallback
    BY <1>1 DEF SetCallback, InitAt
  <1>2. CASE StopTimer
    BY <1>2 DEF StopTimer, InitAt
  <1>3. CASE SetPrescaler \/ SetReload
    BY <1>3 DEF SetPrescaler, SetReload, InitAt
  <1>4. CASE GenerateUpdate
    <2>1. uif' <=> uif \/ ~ urs
      BY <1>4, Zenon DEF GenerateUpdate
    <2>2. uif' \in BOOLEAN
      BY <1>4, Zenon DEF GenerateUpdate
    <2> QED BY <1>4, <2>1, <2>2 DEF GenerateUpdate, InitAt
  <1>5. CASE ClearFlag
    BY <1>5 DEF ClearFlag, InitAt
  <1>6. CASE EnableUpdateInterrupt
    BY <1>6 DEF EnableUpdateInterrupt, InitAt
  <1>7. CASE SetPriority
    BY <1>7 DEF SetPriority, InitAt
  <1>8. CASE EnableIrq
    BY <1>8 DEF EnableIrq, InitAt
  <1>9. CASE StartTimer
    BY <1>9 DEF StartTimer, InitAt
  <1>10. CASE HandlerEnter
    BY <1>10 DEF HandlerEnter
  <1>11. CASE HandlerCheck
    BY <1>11 DEF HandlerCheck, HandlerReturns
  <1>12. CASE HandlerClear
    BY <1>12 DEF HandlerClear
  <1>13. CASE HandlerCallback
    BY <1>13 DEF HandlerCallback, HandlerReturns
  <1>14. CASE Count
    BY <1>14 DEF Count
  <1>15. CASE Overflow
    BY <1>15 DEF Overflow
  <1>16. ASSUME NEW clk \in Clocks, NEW target \in Rates, Calculate(clk, target) PROVE StateInv'
    BY <1>16 DEF Calculate
  <1>17. ASSUME NEW target \in InitRates, InitCall(target) PROVE StateInv'
    BY <1>17 DEF InitCall
  <1>18. CASE UNCHANGED vars
    BY <1>18 DEF vars
  <1> QED
    BY <1>1, <1>2, <1>3, <1>4, <1>5, <1>6, <1>7, <1>8, <1>9, <1>10, <1>11, <1>12, <1>13,
       <1>14, <1>15, <1>16, <1>17, <1>18 DEF Next, InitStep, Handler
-----------------------------------------------------------------------------
(* Every call after the first has a credit of one, which it keeps until UG  *)
(* may have raised the flag that it then clears.                           *)
Credit == One(inits > 1 /\ pc \in BeforeUpdate)

OverflowsAccounted ==
    overflows + Credit <= served + merged + One(isr = "callback")
                             + One(uif /\ pc # "clear") + Reinits

CallbacksAccounted ==
    served + One(isr = "callback") + One(uif /\ ~ (pc = "clear" /\ inits = 1)) + Credit
        <= overflows + Reinits

Accounts == StateInv /\ OverflowsAccounted /\ CallbacksAccounted

(* No overflow and no callback is there to account for.                    *)
LEMMA AccountsInit == Init => Accounts
  BY StateInvInit DEF Init, Accounts, OverflowsAccounted, CallbacksAccounted,
     Credit, One, Reinits, BeforeUpdate

(* An overflow adds to what is flagged or merged, the handler moves a      *)
(* flagged one to its own hands and then to the served ones, and UG and    *)
(* the clearing of its flag are paid for by the credit of the call.        *)
LEMMA AccountsStep == Accounts /\ [Next]_vars => Accounts'
  <1> SUFFICES ASSUME Accounts, [Next]_vars
               PROVE  OverflowsAccounted' /\ CallbacksAccounted'
    BY StateInvStep DEF Accounts
  <1> USE DEF Accounts, StateInv, TypeInv, FirstInit, HandlerInv, BeforeUpdate, AfterUpdate,
              Stopped, OverflowsAccounted, CallbacksAccounted, Credit, One, Reinits,
              timVars, nvicVars, callVars, histVars, periodVars
  <1>1. CASE SetCallback
    BY <1>1 DEF SetCallback, InitAt
  <1>2. CASE StopTimer
    BY <1>2 DEF StopTimer, InitAt
  <1>3. CASE SetPrescaler \/ SetReload
    BY <1>3 DEF SetPrescaler, SetReload, InitAt
  <1>4. CASE GenerateUpdate
    <2>1. uif' <=> uif \/ ~ urs
      BY <1>4, Zenon DEF GenerateUpdate
    <2> QED BY <1>4, <2>1 DEF GenerateUpdate, InitAt
  <1>5. CASE ClearFlag
    BY <1>5 DEF ClearFlag, InitAt
  <1>6. CASE EnableUpdateInterrupt
    BY <1>6 DEF EnableUpdateInterrupt, InitAt
  <1>7. CASE SetPriority
    BY <1>7 DEF SetPriority, InitAt
  <1>8. CASE EnableIrq
    BY <1>8 DEF EnableIrq, InitAt
  <1>9. CASE StartTimer
    BY <1>9 DEF StartTimer, InitAt
  <1>10. CASE HandlerEnter
    BY <1>10 DEF HandlerEnter
  <1>11. CASE HandlerCheck
    BY <1>11 DEF HandlerCheck, HandlerReturns
  <1>12. CASE HandlerClear
    BY <1>12 DEF HandlerClear
  <1>13. CASE HandlerCallback
    BY <1>13 DEF HandlerCallback, HandlerReturns
  <1>14. CASE Count
    BY <1>14 DEF Count
  <1>15. CASE Overflow
    BY <1>15 DEF Overflow
  <1>16. ASSUME NEW clk \in Clocks, NEW target \in Rates, Calculate(clk, target)
         PROVE  OverflowsAccounted' /\ CallbacksAccounted'
    BY <1>16 DEF Calculate
  <1>17. ASSUME NEW target \in InitRates, InitCall(target)
         PROVE  OverflowsAccounted' /\ CallbacksAccounted'
    BY <1>17 DEF InitCall
  <1>18. CASE UNCHANGED vars
    BY <1>18 DEF vars
  <1> QED
    BY <1>1, <1>2, <1>3, <1>4, <1>5, <1>6, <1>7, <1>8, <1>9, <1>10, <1>11, <1>12, <1>13,
       <1>14, <1>15, <1>16, <1>17, <1>18 DEF Next, InitStep, Handler

(* No overflow of the counter is lost, however tim2_init, the handler and  *)
(* the counter interleave: every one is served, merged into a pending one, *)
(* flagged, in the handler's hands, or the one that a re-initialisation    *)
(* may drop.                                                               *)
THEOREM OverflowsNotLost == Spec => []NoOverflowLost
  <1>1. Accounts => NoOverflowLost
    BY DEF Accounts, StateInv, TypeInv, OverflowsAccounted, NoOverflowLost, Credit, One, Reinits
  <1> QED BY AccountsInit, AccountsStep, <1>1, PTL DEF Spec

(* The handler acts at most once for every overflow and once for every re- *)
(* initialisation; after the first tim2_init there is no spurious          *)
(* interrupt.                                                              *)
THEOREM CallbacksNotSpurious == Spec => []NoSpuriousCallback
  <1>1. Accounts => NoSpuriousCallback
    BY DEF Accounts, StateInv, TypeInv, CallbacksAccounted, NoSpuriousCallback, Credit, One, Reinits
  <1> QED BY AccountsInit, AccountsStep, <1>1, PTL DEF Spec
-----------------------------------------------------------------------------
(* The timer runs, or is about to, with the period of the last accepted    *)
(* call, both in the registers and in use.                                 *)
Loaded == psc = period.psc /\ arr = period.arr

ConfigInv ==
    /\ pc = "arr" => psc = period.psc
    /\ pc = "ug" => Loaded
    /\ pc \in AfterUpdate => Loaded /\ pscActive = psc /\ fresh
    /\ pc = "return" /\ cen => Loaded /\ pscActive = psc
    /\ enabled \/ pc \in {"enable", "start"} => prioritised

ConfigStateInv == StateInv /\ ConfigInv

(* Nothing is loaded before the first call, and nothing runs.              *)
LEMMA ConfigInit == Init => ConfigStateInv
  BY StateInvInit DEF Init, ConfigStateInv, ConfigInv, Loaded, AfterUpdate

(* Every access preserves it: PSC and ARR change only while the counter is *)
(* stopped, and UG loads them before it is started.                        *)
LEMMA ConfigStep == ConfigStateInv /\ [Next]_vars => ConfigStateInv'
  <1> SUFFICES ASSUME ConfigStateInv, [Next]_vars PROVE ConfigInv'
    BY StateInvStep DEF ConfigStateInv
  <1> USE DEF ConfigStateInv, ConfigInv, Loaded, StateInv, TypeInv, FirstInit, HandlerInv,
              BeforeUpdate, AfterUpdate, Stopped,
              timVars, nvicVars, callVars, histVars, periodVars
  <1>1. CASE SetCallback
    BY <1>1 DEF SetCallback, InitAt
  <1>2. CASE StopTimer
    BY <1>2 DEF StopTimer, InitAt
  <1>3. CASE SetPrescaler \/ SetReload
    BY <1>3 DEF SetPrescaler, SetReload, InitAt
  <1>4. CASE GenerateUpdate
    BY <1>4 DEF GenerateUpdate, InitAt
  <1>5. CASE ClearFlag
    BY <1>5 DEF ClearFlag, InitAt
  <1>6. CASE EnableUpdateInterrupt
    BY <1>6 DEF EnableUpdateInterrupt, InitAt
  <1>7. CASE SetPriority
    BY <1>7 DEF SetPriority, InitAt
  <1>8. CASE EnableIrq
    BY <1>8 DEF EnableIrq, InitAt
  <1>9. CASE StartTimer
    BY <1>9 DEF StartTimer, InitAt
  <1>10. CASE HandlerEnter
    BY <1>10 DEF HandlerEnter
  <1>11. CASE HandlerCheck
    BY <1>11 DEF HandlerCheck, HandlerReturns
  <1>12. CASE HandlerClear
    BY <1>12 DEF HandlerClear
  <1>13. CASE HandlerCallback
    BY <1>13 DEF HandlerCallback, HandlerReturns
  <1>14. CASE Count
    BY <1>14 DEF Count
  <1>15. CASE Overflow
    BY <1>15 DEF Overflow
  <1>16. ASSUME NEW clk \in Clocks, NEW target \in Rates, Calculate(clk, target)
         PROVE  ConfigInv'
    BY <1>16 DEF Calculate
  <1>17. ASSUME NEW target \in InitRates, InitCall(target)
         PROVE  ConfigInv'
    BY <1>17 DEF InitCall
  <1>18. CASE UNCHANGED vars
    BY <1>18 DEF vars
  <1> QED
    BY <1>1, <1>2, <1>3, <1>4, <1>5, <1>6, <1>7, <1>8, <1>9, <1>10, <1>11, <1>12, <1>13,
       <1>14, <1>15, <1>16, <1>17, <1>18 DEF Next, InitStep, Handler

(* The counter is started with, and keeps, the prescaler and reload of the *)
(* last accepted tim2_init, starts with a whole period, and its handler    *)
(* never runs at the default priority.                                     *)
THEOREM TimerRunsAsConfigured == Spec => []RunsAsConfigured
  <1>1. ConfigStateInv => RunsAsConfigured
    BY DEF ConfigStateInv, ConfigInv, Loaded, StateInv, TypeInv, HandlerInv, AfterUpdate, RunsAsConfigured
  <1> QED BY ConfigInit, ConfigStep, <1>1, PTL DEF Spec
-----------------------------------------------------------------------------
(* Division of naturals, and the products the period is bounded with.      *)
(* The quotient of naturals.                                               *)
LEMMA DivisionBounds ==
    ASSUME NEW n \in Nat, NEW d \in Nat, d # 0
    PROVE  n \div d \in Nat /\ d * (n \div d) <= n /\ n < d * (n \div d) + d
  BY SMT

(* A value below the modulus does not wrap.                                *)
LEMMA SmallModulus ==
    ASSUME NEW n \in Nat, NEW d \in Nat, n < d
    PROVE  n % d = n
  BY SMT

(* Cancelling a common factor.                                             *)
LEMMA FactorBound ==
    ASSUME NEW m \in Nat, NEW n \in Nat, NEW k \in Nat, m * k < n * k
    PROVE  m < n
  BY SMT

(* The arithmetic of timer_calc_period for a rate that the clock can       *)
(* produce: nothing wraps, both register values fit, and the two roundings *)
(* together stay within the prescaler and half a clock of the exact        *)
(* period.                                                                 *)
LEMMA PeriodWhenAchievable ==
    ASSUME NEW clk \in Nat, NEW target \in Nat \ {0}, clk # 0, target <= clk,
           clk + clk \div 2 < WordMod
    PROVE  LET out == CalcPeriod(clk, target)
           IN /\ out.rc = 0
              /\ {out.psc, out.arr} \subseteq 0 .. HalfMod - 1
              /\ 2 * Distance((out.psc + 1) * (out.arr + 1) * target, clk)
                   <= target * (2 * out.psc + 1)
  <1> DEFINE total == Total(clk, target)
             p == PscPlus1(total)
             a == total \div p
  <1>1. HalfMod \in Nat /\ HalfMod # 0 /\ WordMod = HalfMod * HalfMod /\ WordMod \in Nat
    BY WidthAssumption
  <1>2. clk + target \div 2 \in Nat /\ clk + target \div 2 < WordMod
    BY <1>1
  <1>3. total = (clk + target \div 2) \div target
    BY <1>1, <1>2, SmallModulus DEF Total
  <1>4. total \in Nat /\ target * total <= clk + target \div 2
        /\ clk + target \div 2 < target * total + target
    BY <1>2, <1>3, DivisionBounds
  <1> HIDE DEF total
  <1>5. total # 0
    BY <1>4
  <1>6. total <= clk
    <2>1. target * total < target * clk + target
      BY <1>4
    <2> QED BY <2>1, <1>4
  <1>7. total + HalfMod - 1 \in Nat /\ total + HalfMod - 1 < WordMod
    <2>1. 3 * clk <= 2 * WordMod - 1
      BY <1>1
    <2>2. 3 * HalfMod <= HalfMod * HalfMod + 2
      BY <1>1
    <2> QED BY <2>1, <2>2, <1>1, <1>4, <1>6
  <1>8. p = (total + HalfMod - 1) \div HalfMod
    BY <1>1, <1>7, SmallModulus DEF PscPlus1
  <1>9. p \in Nat /\ HalfMod * p <= total + HalfMod - 1
        /\ total + HalfMod - 1 < HalfMod * p + HalfMod
    BY <1>1, <1>7, <1>8, DivisionBounds
  <1> HIDE DEF p
  <1>10. p # 0
    BY <1>1, <1>5, <1>4, <1>9
  <1>11. p < HalfMod
    BY <1>1, <1>7, <1>9, FactorBound
  <1>12. a \in Nat /\ p * a <= total /\ total < p * a + p
    BY <1>4, <1>9, <1>10, DivisionBounds
  <1> HIDE DEF a
  <1>13. p <= total
    BY <1>1, <1>4, <1>5, <1>9
  <1>14. a # 0
    BY <1>4, <1>9, <1>12, <1>13
  <1>15. a <= HalfMod
    <2>1. p * a <= HalfMod * p
      BY <1>1, <1>4, <1>9, <1>12
    <2> QED BY <2>1, <1>1, <1>9, <1>10, <1>12
  <1>16. p * a * target <= total * target /\ total * target < (p * a + p) * target
    BY <1>4, <1>9, <1>12
  <1>17. 2 * Distance(p * a * target, clk) <= target * (2 * (p - 1) + 1)
    BY <1>16, <1>4, <1>9, <1>10, <1>12 DEF Distance
  <1>18. CalcPeriod(clk, target) =
            [rc |-> 0, psc |-> p - 1, arr |-> a - 1,
             mHz |-> ((clk * Milli) \div (p * a)) % WordMod]
    BY <1>5 DEF CalcPeriod, Achievable, total, p, a
  <1> QED BY <1>18, <1>17, <1>1, <1>9, <1>10, <1>11, <1>12, <1>14, <1>15

(* What timer_calc_period last answered is its result for what it was      *)
(* asked.                                                                  *)
AnswerInv ==
    asked # <<>> =>
        \E clk \in Clocks \cup {TimClk}, target \in Rates \cup InitRates :
            asked = <<clk, target>> /\ period = CalcPeriod(clk, target)

(* Nothing has been asked.                                                 *)
LEMMA AnswerInit == Init => AnswerInv
  BY DEF Init, AnswerInv

(* A call that is accepted, and a calculation on its own, record what was  *)
(* asked with its result; nothing else touches either.                     *)
LEMMA AnswerStep == AnswerInv /\ [Next]_vars => AnswerInv'
  <1> SUFFICES ASSUME AnswerInv, [Next]_vars PROVE AnswerInv'
    OBVIOUS
  <1>1. ASSUME UNCHANGED <<asked, period>> PROVE AnswerInv'
    BY <1>1 DEF AnswerInv
  <1>2. CASE InitStep
    BY <1>1, <1>2 DEF InitStep, InitAt, SetCallback, StopTimer, SetPrescaler, SetReload,
       GenerateUpdate, ClearFlag, EnableUpdateInterrupt, SetPriority, EnableIrq, StartTimer, callVars
  <1>3. CASE Handler
    BY <1>1, <1>3 DEF Handler, HandlerEnter, HandlerCheck, HandlerClear, HandlerCallback, callVars
  <1>4. CASE Count \/ Overflow
    BY <1>1, <1>4 DEF Count, Overflow, callVars
  <1>5. ASSUME NEW clk \in Clocks, NEW target \in Rates, Calculate(clk, target)
        PROVE  AnswerInv'
    BY <1>5 DEF Calculate, AnswerInv
  <1>6. ASSUME NEW target \in InitRates, InitCall(target) PROVE AnswerInv'
    BY <1>6, <1>1 DEF InitCall, AnswerInv
  <1>7. CASE UNCHANGED vars
    BY <1>1, <1>7 DEF vars, callVars
  <1> QED BY <1>2, <1>3, <1>4, <1>5, <1>6, <1>7 DEF Next

(* For every word size, clock and rate, timer_calc_period refuses exactly  *)
(* the rates that the clock cannot produce, and otherwise returns a period *)
(* as close as the prescaler allows.                                       *)
THEOREM PeriodAlwaysClose == Spec => []PeriodIsClose
  <1>1. AnswerInv => PeriodIsClose
    <2> SUFFICES ASSUME NEW clk \in Clocks \cup {TimClk}, NEW target \in Rates \cup InitRates,
                        asked = <<clk, target>>, period = CalcPeriod(clk, target)
                 PROVE  PeriodIsClose
      BY DEF AnswerInv, PeriodIsClose
    <2>1. /\ asked[1] = clk /\ asked[2] = target
          /\ clk \in Nat /\ target \in Nat /\ clk + clk \div 2 < WordMod
      BY TimerAssumption
    <2>2. CASE target = 0 \/ clk = 0 \/ target > clk
      <3>1. period = [rc |-> -1]
        BY <2>1, <2>2 DEF CalcPeriod, Achievable
      <3> QED BY <2>1, <2>2, <3>1 DEF PeriodIsClose
    <2>3. CASE ~ (target = 0 \/ clk = 0 \/ target > clk)
      <3>1. target \in Nat \ {0} /\ clk # 0 /\ target <= clk
        BY <2>1, <2>3
      <3> QED BY <2>1, <2>3, <3>1, PeriodWhenAchievable DEF PeriodIsClose
    <2> QED BY <2>2, <2>3
  <1> QED BY AnswerInit, AnswerStep, <1>1, PTL DEF Spec

-----------------------------------------------------------------------------
(* systick_delay_ms, of the same file.                                     *)

(* The tick counter does not run round once more between two reads of the  *)
(* loop, and the histories do not stop counting during a delay.            *)
DelaysInRange ==
    \A n \in Delays : n + MaxLate < TickMod /\ n + MaxLate < Horizon

Requested == IF exception THEN 1 ELSE 0

(* Cycles to the next request of the exception.                            *)
ToNext == IF val = 0 THEN load + 1 ELSE val

DelayTypes ==
    /\ load \in Nat /\ val \in 0 .. load
    /\ running \in BOOLEAN /\ exception \in BOOLEAN
    /\ tick \in 0 .. TickMod - 1 /\ start \in 0 .. TickMod - 1
    /\ place \in {"idle", "wait"}
    /\ ms \in {0} \cup Delays
    /\ late \in 0 .. MaxLate
    /\ elapsed \in Nat /\ ticks \in Nat

(* While the loop waits: the tick counter has advanced by the ticks        *)
(* counted; each of them came at least once in a period; and at the last   *)
(* read of the loop the delay was not over.                                *)
WaitInv ==
    place = "wait" /\ ms > 0 =>
        /\ tick = (start + ticks) % TickMod
        /\ ticks + Requested <= ms + late
        /\ load # 0 =>
            /\ elapsed + ToNext <= (load + 1) * (ticks + Requested + 1)
            /\ elapsed <= (load + 1) * (ms + 1) + late

DelayInv ==
    /\ DelayTypes
    /\ WaitInv
    /\ DelayCoversTicks
    /\ DelayIsNotLate

(* The constants of the delay, as SysTickDelay assumes them.               *)
DelayConstants ==
    /\ Kilo \in Nat \ {0} /\ LoadMod \in Nat /\ MaxLate \in Nat \ {0}
    /\ TickMod \in Nat \ {0} /\ Horizon \in Nat
    /\ CpuHz \subseteq Nat
    /\ Delays \subseteq 0 .. TickMod - 1
    /\ DelaysInRange

LEMMA ConstantsInRange == DelaysInRange => DelayConstants
  BY SysTickAssumption DEF DelayConstants

LEMMA DelayInvInit ==
    ASSUME DelayConstants, DelayInit
    PROVE  DelayInv
  <1>1. DelayTypes
    <2>1. 0 \in 0 .. TickMod - 1 /\ 0 \in 0 .. MaxLate
      BY DEF DelayConstants
    <2>2. /\ load = 0 /\ val = 0 /\ running = FALSE /\ exception = FALSE
          /\ tick \in 0 .. TickMod - 1 /\ start = 0
          /\ place = "idle" /\ ms = 0 /\ late = 0 /\ elapsed = 0 /\ ticks = 0
      BY DEF DelayInit
    <2>3. val \in 0 .. load
      BY <2>2
    <2> QED BY <2>1, <2>2, <2>3 DEF DelayTypes
  <1>2. place = "idle" /\ ms = 0
    BY DEF DelayInit
  <1>3. WaitInv
    BY <1>2 DEF WaitInv
  <1>4. DelayCoversTicks /\ DelayIsNotLate
    BY <1>2 DEF DelayCoversTicks, DelayIsNotLate, Returned
  <1> QED BY <1>1, <1>3, <1>4 DEF DelayInv

(* The unsigned difference of the tick counter to where it was, as long as *)
(* it has not run round.                                                   *)
LEMMA TicksSince ==
    ASSUME DelayConstants, NEW a \in 0 .. TickMod - 1, NEW n \in 0 .. TickMod - 1
    PROVE  /\ (((a + n) % TickMod) - a) % TickMod = n
           /\ (((a + n) % TickMod) + 1) % TickMod = (a + (n + 1)) % TickMod
           /\ (a + n) % TickMod \in 0 .. TickMod - 1
  <1> DEFINE s == (a + n) % TickMod
  <1>1. TickMod \in Nat \ {0} /\ a \in Nat /\ n \in Nat /\ a < TickMod /\ n < TickMod
    BY DEF DelayConstants
  <1>2. s = IF a + n < TickMod THEN a + n ELSE a + n - TickMod
    BY <1>1
  <1>3. (s - a) % TickMod = n
    BY <1>1, <1>2
  <1>4. (s + 1) % TickMod = (a + (n + 1)) % TickMod
    BY <1>1, <1>2
  <1>5. s \in 0 .. TickMod - 1
    BY <1>1, <1>2
  <1> QED BY <1>3, <1>4, <1>5

LEMMA DelayInvStep ==
    ASSUME DelayConstants, DelayInv, [DelayNext]_(sysTickVars)
    PROVE  DelayInv'
  <1> USE DEF DelayInv
  <1>1. ASSUME NEW cpu \in CpuHz, InitSysTick(cpu)
        PROVE  DelayInv'
    <2>1. /\ place = "idle" /\ place' = "idle" /\ ms' = 0
          /\ UNCHANGED <<exception, tick, start, late, elapsed, ticks>>
      BY <1>1 DEF InitSysTick
    <2>2. load' \in Nat /\ val' \in 0 .. load' /\ running' \in BOOLEAN
      <3>1. CASE cpu >= Kilo /\ cpu \div Kilo - 1 < LoadMod
        <4>1. cpu \div Kilo - 1 \in Nat
          BY <3>1 DEF DelayConstants
        <4> QED BY <1>1, <3>1, <4>1 DEF InitSysTick
      <3>2. CASE ~ (cpu >= Kilo /\ cpu \div Kilo - 1 < LoadMod)
        BY <1>1, <3>2 DEF InitSysTick, DelayTypes
      <3> QED BY <3>1, <3>2
    <2> QED BY <2>1, <2>2 DEF DelayTypes, WaitInv, DelayCoversTicks,
                              DelayIsNotLate, Returned
  <1>2. CASE Cycle
    <2>1. /\ val = 1 => ~ exception
          /\ val' = IF val = 0 THEN load ELSE val - 1
          /\ exception' = (exception \/ val = 1)
          /\ place = "wait" =>
                late < MaxLate /\ late' = late + 1
                /\ elapsed' = IF elapsed < Horizon THEN elapsed + 1 ELSE elapsed
          /\ place # "wait" => UNCHANGED <<late, elapsed>>
          /\ UNCHANGED <<load, running, tick, place, ms, start, ticks>>
      BY <1>2 DEF Cycle, Bump
    <2>2. /\ load \in Nat /\ val \in 0 .. load /\ exception \in BOOLEAN
          /\ ms \in Nat /\ ticks \in Nat /\ elapsed \in Nat /\ late \in 0 .. MaxLate
          /\ MaxLate \in Nat
      BY DEF DelayTypes, DelayConstants
    <2>3. exception' \in BOOLEAN /\ val' \in 0 .. load
      BY <2>1, <2>2
    <2>4. late' \in 0 .. MaxLate /\ elapsed' \in Nat
      BY <2>1, <2>2 DEF DelayConstants
    <2>5. DelayTypes'
      BY <2>1, <2>3, <2>4 DEF DelayTypes
    <2>6. ASSUME place = "wait", ms > 0
          PROVE  WaitInv'
      <3>1. late' = late + 1 /\ elapsed' <= elapsed + 1 /\ elapsed' \in Nat
        BY <2>1, <2>2, <2>6
      <3>2. CASE val = 1
        <4>1. Requested = 0 /\ Requested' = 1 /\ ToNext = 1
          <5>1. ~ exception /\ exception'
            BY <2>1, <3>2
          <5> QED BY <3>2, <5>1 DEF Requested, ToNext
        <4>2. ticks + Requested' <= ms + late'
          BY <2>2, <2>6, <3>1, <4>1 DEF WaitInv
        <4>3. ToNext' = load + 1
          BY <2>1, <2>2, <3>2 DEF ToNext
        <4>4. ASSUME load # 0
              PROVE  elapsed' + ToNext' <= (load + 1) * (ticks + Requested' + 1)
          <5>1. elapsed + 1 <= (load + 1) * (ticks + 1)
            BY <2>2, <2>6, <4>1, <4>4 DEF WaitInv
          <5>2. (load + 1) * (ticks + 1 + 1) = (load + 1) * (ticks + 1) + (load + 1)
            BY <2>2
          <5>3. (load + 1) * (ticks + 1) \in Nat
            BY <2>2
          <5>4. elapsed' <= (load + 1) * (ticks + 1)
            BY <2>2, <3>1, <5>1, <5>3
          <5>5. elapsed' + ToNext' <= (load + 1) * (ticks + 1) + (load + 1)
            <6>1. \A b \in Nat, e, n \in Nat : e <= b => e + n <= b + n
              OBVIOUS
            <6>2. load + 1 \in Nat /\ elapsed' \in Nat
              BY <2>2, <3>1
            <6>3. elapsed' + (load + 1) <= (load + 1) * (ticks + 1) + (load + 1)
              BY <5>3, <5>4, <6>1, <6>2, Zenon
            <6> QED BY <4>3, <6>3, Zenon
          <5> QED BY <4>1, <5>2, <5>5
        <4> QED BY <2>1, <2>2, <2>6, <3>1, <4>2, <4>4 DEF WaitInv
      <3>3. CASE val # 1
        <4>1. Requested' = Requested /\ Requested \in Nat
          BY <2>1, <2>2, <3>3 DEF Requested
        <4>2. ASSUME load # 0 PROVE ToNext' = ToNext - 1 /\ ToNext \in Nat
          BY <2>1, <2>2, <3>3, <4>2 DEF ToNext
        <4>3. ticks + Requested' <= ms + late'
          BY <2>2, <2>6, <3>1, <4>1 DEF WaitInv
        <4>4. ASSUME load # 0
              PROVE  elapsed' + ToNext' <= (load + 1) * (ticks + Requested' + 1)
          <5>1. elapsed + ToNext <= (load + 1) * (ticks + Requested + 1)
            BY <2>6, <4>4 DEF WaitInv
          <5>2. elapsed' + ToNext' <= elapsed + ToNext
            BY <2>2, <3>1, <4>2, <4>4
          <5>3. (load + 1) * (ticks + Requested + 1) \in Nat
            BY <2>2, <4>1
          <5> QED BY <2>2, <3>1, <4>1, <4>2, <4>4, <5>1, <5>2, <5>3
        <4> QED BY <2>1, <2>2, <2>6, <3>1, <4>3, <4>4 DEF WaitInv
      <3> QED BY <3>2, <3>3
    <2>7. WaitInv'
      BY <2>1, <2>6 DEF WaitInv
    <2>8. DelayCoversTicks' /\ DelayIsNotLate'
      BY <2>1 DEF DelayCoversTicks, DelayIsNotLate, Returned, Period
    <2> QED BY <2>5, <2>7, <2>8
  <1>3. CASE SysTick_Handler
    <2>1. /\ exception /\ exception' = FALSE /\ tick' = (tick + 1) % TickMod
          /\ place = "wait" => ticks' = IF ticks < Horizon THEN ticks + 1 ELSE ticks
          /\ place # "wait" => ticks' = ticks
          /\ UNCHANGED <<load, val, running, place, ms, start, late, elapsed>>
      BY <1>3 DEF SysTick_Handler, Bump
    <2>2. /\ TickMod \in Nat \ {0} /\ tick \in 0 .. TickMod - 1 /\ ticks \in Nat
          /\ start \in 0 .. TickMod - 1 /\ late \in 0 .. MaxLate /\ Horizon \in Nat
      BY DEF DelayTypes, DelayConstants
    <2>3. tick' \in 0 .. TickMod - 1 /\ ticks' \in Nat
      BY <2>1, <2>2
    <2>4. DelayTypes'
      BY <2>1, <2>3 DEF DelayTypes
    <2>5. ASSUME place = "wait", ms > 0
          PROVE  WaitInv'
      <3>1. Requested = 1 /\ Requested' = 0 /\ ToNext' = ToNext
        BY <2>1 DEF Requested, ToNext
      <3>2. /\ ms \in Delays /\ ms \in Nat
            /\ ms + MaxLate < TickMod /\ ms + MaxLate < Horizon
        BY <2>5 DEF DelayTypes, DelayConstants, DelaysInRange
      <3>3. ticks + 1 <= ms + late /\ MaxLate \in Nat
        BY <2>5, <3>1 DEF WaitInv, DelayConstants
      <3>4. ticks \in 0 .. TickMod - 1 /\ ticks' = ticks + 1
        BY <2>1, <2>2, <2>5, <3>2, <3>3
      <3>5. tick' = (start + ticks') % TickMod
        <4>1. tick = (start + ticks) % TickMod
          BY <2>5 DEF WaitInv
        <4>2. (((start + ticks) % TickMod) + 1) % TickMod = (start + (ticks + 1)) % TickMod
          BY <2>2, <3>4, TicksSince
        <4> QED BY <2>1, <3>4, <4>1, <4>2
      <3>6. ticks' + Requested' + 1 = ticks + Requested + 1
        BY <2>2, <3>1, <3>4
      <3>7. ticks' + Requested' <= ms' + late'
        BY <2>1, <2>2, <3>1, <3>2, <3>3, <3>4
      <3> QED BY <2>1, <2>5, <3>1, <3>5, <3>6, <3>7 DEF WaitInv
    <2>6. WaitInv'
      BY <2>1, <2>5 DEF WaitInv
    <2>7. DelayCoversTicks' /\ DelayIsNotLate'
      BY <2>1 DEF DelayCoversTicks, DelayIsNotLate, Returned, Period
    <2> QED BY <2>4, <2>6, <2>7
  <1>4. ASSUME NEW n \in Delays, CallDelay(n)
        PROVE  DelayInv'
    <2>1. /\ place' = "wait" /\ ms' = n /\ start' = tick /\ late' = 0
          /\ elapsed' = 0 /\ ticks' = 0
          /\ UNCHANGED <<load, val, running, exception, tick>>
      BY <1>4 DEF CallDelay, tickVars
    <2>2. DelayTypes'
      BY <2>1 DEF DelayTypes, DelayConstants
    <2>3. WaitInv'
      <3>1. /\ TickMod \in Nat \ {0} /\ tick \in 0 .. TickMod - 1 /\ n \in Nat
            /\ load \in Nat /\ val \in 0 .. load /\ exception \in BOOLEAN
        BY DEF DelayTypes, DelayConstants
      <3>2. tick = (tick + 0) % TickMod
        BY <3>1
      <3>3. Requested \in {0, 1} /\ ToNext \in 1 .. load + 1
        BY <3>1 DEF Requested, ToNext
      <3>4. load + 1 <= (load + 1) * (Requested + 1) /\ 0 <= (load + 1) * (n + 1)
        BY <3>1, <3>3
      <3>5. Requested' = Requested /\ ToNext' = ToNext
        BY <2>1 DEF Requested, ToNext
      <3> QED BY <2>1, <3>1, <3>2, <3>3, <3>4, <3>5 DEF WaitInv
    <2> QED BY <2>1, <2>2, <2>3
            DEF DelayCoversTicks, DelayIsNotLate, Returned
  <1>5. CASE Poll
    <2>1. /\ place = "wait" /\ late' = 0
          /\ place' = IF (tick - start) % TickMod < ms THEN "wait" ELSE "idle"
          /\ UNCHANGED <<ms, start, elapsed, ticks, load, val, running, exception, tick>>
      BY <1>5 DEF Poll, StillWaiting, tickVars
    <2>2. /\ TickMod \in Nat \ {0} /\ MaxLate \in Nat /\ ticks \in Nat /\ elapsed \in Nat
          /\ start \in 0 .. TickMod - 1 /\ late \in 0 .. MaxLate
          /\ load \in Nat /\ val \in 0 .. load /\ ms \in Nat
      BY DEF DelayTypes, DelayConstants
    <2>3. DelayTypes'
      BY <2>1, <2>2 DEF DelayTypes
    <2>4. CASE ms = 0
      BY <2>1, <2>3, <2>4 DEF WaitInv, DelayCoversTicks, DelayIsNotLate,
                              Returned
    <2>5. CASE ms > 0
      <3>1. ms \in Delays /\ ms + MaxLate < TickMod
        BY <2>5 DEF DelayTypes, DelayConstants, DelaysInRange
      <3>2. Requested \in {0, 1} /\ Requested' = Requested /\ ToNext' = ToNext
        BY <2>1 DEF Requested, ToNext
      <3>3. ToNext \in Nat
        BY <2>2 DEF ToNext
      <3>4. ticks \in 0 .. TickMod - 1
        <4>1. ticks + Requested <= ms + late
          BY <2>1, <2>5 DEF WaitInv
        <4> QED BY <2>2, <3>1, <3>2, <4>1
      <3>5. (tick - start) % TickMod = ticks
        <4>1. tick = (start + ticks) % TickMod
          BY <2>1, <2>5 DEF WaitInv
        <4>2. (((start + ticks) % TickMod) - start) % TickMod = ticks
          BY <2>2, <3>4, TicksSince
        <4> QED BY <4>1, <4>2
      <3>6. CASE ticks < ms
        <4>1. place' = "wait"
          BY <2>1, <3>5, <3>6
        <4>2. ticks + Requested <= ms
          BY <2>2, <3>2, <3>6
        <4>3. ASSUME load # 0
              PROVE  elapsed <= (load + 1) * (ms + 1)
          <5>1. elapsed + ToNext <= (load + 1) * (ticks + Requested + 1)
            BY <2>1, <2>5, <4>3 DEF WaitInv
          <5>2. (load + 1) * (ticks + Requested + 1) <= (load + 1) * (ms + 1)
            BY <2>2, <3>2, <4>2
          <5>3. /\ (load + 1) * (ticks + Requested + 1) \in Nat
                /\ (load + 1) * (ms + 1) \in Nat
            BY <2>2, <3>2
          <5> QED BY <2>2, <3>3, <5>1, <5>2, <5>3
        <4>4. (load + 1) * (ms + 1) + 0 = (load + 1) * (ms + 1)
          BY <2>2
        <4>5. WaitInv'
          BY <2>1, <2>2, <2>5, <3>2, <4>2, <4>3, <4>4 DEF WaitInv
        <4> QED BY <2>3, <4>1, <4>5
                DEF DelayCoversTicks, DelayIsNotLate, Returned
      <3>7. CASE ~ (ticks < ms)
        <4>1. place' = "idle" /\ ticks >= ms
          BY <2>1, <2>2, <3>5, <3>7
        <4>2. ASSUME load # 0
              PROVE  elapsed <= (ms + 1) * (load + 1) + MaxLate
          <5>1. elapsed <= (load + 1) * (ms + 1) + late
            BY <2>1, <2>5, <4>2 DEF WaitInv
          <5>2. (load + 1) * (ms + 1) = (ms + 1) * (load + 1) /\ (ms + 1) * (load + 1) \in Nat
            BY <2>2
          <5> QED BY <2>2, <5>1, <5>2
        <4>3. WaitInv'
          BY <4>1 DEF WaitInv
        <4>4. DelayCoversTicks' /\ DelayIsNotLate'
          BY <2>1, <4>1, <4>2
             DEF DelayCoversTicks, DelayIsNotLate, Period
        <4> QED BY <2>3, <4>3, <4>4
      <3> QED BY <3>6, <3>7
    <2> QED BY <2>2, <2>4, <2>5
  <1>6. CASE UNCHANGED sysTickVars
    BY <1>6 DEF sysTickVars, DelayTypes, WaitInv, Requested, ToNext,
                DelayCoversTicks, DelayIsNotLate, Returned, Period
  <1> QED BY <1>1, <1>2, <1>3, <1>4, <1>5, <1>6 DEF DelayNext

(* A delay lasts as many ticks as it was asked for, from every value of    *)
(* the tick counter, for every clock and width of the counters, provided   *)
(* the counter does not run round within a read of the loop.               *)
THEOREM DelayLastsItsTicks ==
    ASSUME DelaysInRange
    PROVE  DelaySpec => []DelayCoversTicks
  <1>1. DelayInv => DelayCoversTicks
    BY DEF DelayInv
  <1>2. DelayConstants
    BY ConstantsInRange
  <1> QED BY DelayInvInit, DelayInvStep, <1>1, <1>2, PTL DEF DelaySpec

(* It is over by the time it is due, plus the latency of the handler and   *)
(* of one read, unless the reload value is 0.                              *)
THEOREM DelayEndsInTime ==
    ASSUME DelaysInRange
    PROVE  DelaySpec => []DelayIsNotLate
  <1>1. DelayInv => DelayIsNotLate
    BY DEF DelayInv
  <1>2. DelayConstants
    BY ConstantsInRange
  <1> QED BY DelayInvInit, DelayInvStep, <1>1, <1>2, PTL DEF DelaySpec
=============================================================================

------------------------------- MODULE MCRtos -------------------------------
(***************************************************************************)
(* The watchdog and the priority inversion demonstration are two programs  *)
(* for the same kernel: the board runs the one it was flashed with.  The   *)
(* watchdog has two monitored tasks, one of which hangs; one limit is a    *)
(* multiple of the watchdog's period, the other is not.                    *)
(***************************************************************************)
EXTENDS WatchdogTask, PriorityInversion

MCTasks == 0 .. 1
MCPeriods == [i \in MCTasks |-> i + 1]
MCLimits == [i \in MCTasks |-> i + 3]

VARIABLE program

rtosVars == <<program, vars, demoVars>>

RtosInit ==
    /\ Init /\ DemoInit
    /\ \/ program = "watchdog" /\ mutex
       \/ program = "demo" /\ time = 0

Running(p, step, others) == program = p /\ step /\ UNCHANGED <<program, others>>

RunWatchdog == Running("watchdog", Next, demoVars)
RunDemo == Running("demo", DemoNext, vars)

(* The demonstration may stop, as it does when its tasks have deleted      *)
(* themselves, see DemoFinishes; the watchdog may not.                     *)
DemoRests == program = "demo" /\ UNCHANGED rtosVars

RtosNext == RunWatchdog \/ RunDemo \/ DemoRests

(* The fairness of the two programs, each for when it is the one that runs. *)
FairRtosSpec ==
    /\ RtosInit /\ [][RtosNext]_rtosVars
    /\ WF_vars(program = "watchdog" /\ Tick)
    /\ WF_vars(program = "watchdog" /\ HardwareReset)
    /\ WF_vars(program = "watchdog" /\ Watchdog)
    /\ \A i \in Tasks : WF_vars(program = "watchdog" /\ Monitored(i))
    /\ WF_demoVars(program = "demo" /\ ClockTicks)
    /\ WF_demoVars(program = "demo" /\ Step)

(* All tasks of the demonstration finish, with the mutex and with the      *)
(* semaphore: the inversion delays H but starves nobody for ever.          *)
DemoFinishes == program = "demo" => AllFinish
=============================================================================

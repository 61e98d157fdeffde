------------------------- MODULE PriorityInversion -------------------------
(***************************************************************************)
(* challenge_02_priority_inversion_fix.c: a low, a medium and a high       *)
(* priority task on the preemptive FreeRTOS scheduler.  L and H share a    *)
(* resource guarded by a binary semaphore (the broken version) or by a     *)
(* mutex with priority inheritance (the fixed one).                        *)
(*                                                                         *)
(* busy_spin_ms spins until a tick count is reached: the clock runs on     *)
(* while the spinning task is preempted.  Code other than the spins takes  *)
(* no ticks, except for at most MaxJitter ticks spread anywhere over the   *)
(* run (the printf calls, interrupts).                                     *)
(***************************************************************************)
EXTENDS Naturals

CONSTANTS
    Versions,       \* TRUE: mutex, FALSE: binary semaphore (USE_BROKEN_VERSION)
    HoldTicks,      \* L_RESOURCE_HOLD_MS
    MWorkTicks,     \* M_WORK_MS
    HWorkTicks,     \* the 2 ms of H's critical section
    ReadyDelay,     \* H_READY_DELAY_MS
    MonitorDelay,   \* the 200 ms monitor_task waits
    MaxJitter       \* bound: ticks spent outside the spins

ASSUME DemoAssumption ==
    /\ Versions \subseteq BOOLEAN
    /\ {HoldTicks, MWorkTicks, HWorkTicks, ReadyDelay,
        MonitorDelay, MaxJitter} \subseteq Nat

VARIABLES
    mutex,      \* the resource is guarded by a mutex
    ticks,      \* xTickCount
    pc,         \* where each task is
    until,      \* the tick a task sleeps or spins until
    eff,        \* effective priority of each task
    owner,      \* the task holding xSharedResource, or "none"
    readyTick,  \* xH_Ready_Tick
    doneTick,   \* xH_Complete_Tick
    report,     \* what monitor_task printed
    jitter      \* ticks of jitter used up

demoVars == <<mutex, ticks, pc, until, eff, owner, readyTick, doneTick, report, jitter>>

DemoTasks == {"L", "M", "H", "monitor"}

(* PRIORITY_HIGH, PRIORITY_MED, PRIORITY_LOW *)
Base(t) == CASE t = "H" -> 4 [] t = "M" -> 3 [] OTHER -> 1

(* Seeded fault: the binary semaphore is created empty and not given.      *)
InitialOwnerNoGive == "nobody"

(* main: the mutex starts available, the binary semaphore is given once.   *)
InitialOwner == "none"

DemoInit ==
    /\ mutex \in Versions
    /\ ticks = 0
    /\ pc = [t \in DemoTasks |-> IF t = "L" THEN "take" ELSE "start"]
    /\ until = [t \in DemoTasks |-> 0]
    /\ eff = [t \in DemoTasks |-> Base(t)]
    /\ owner = InitialOwner
    /\ readyTick = 0
    /\ doneTick = 0
    /\ report = "none"
    /\ jitter = 0

-----------------------------------------------------------------------------
Ready(t) ==
    /\ pc[t] # "deleted"
    /\ pc[t] = "delayed" => ticks >= until[t]
    /\ pc[t] = "blocked" => owner = "none"

CanRun(t) == Ready(t) /\ \A u \in DemoTasks : Ready(u) => eff[u] <= eff[t]

Spinning(t) == pc[t] = "spin" /\ ticks < until[t]

(* A tick passes while the running task spins or all tasks sleep, or eats  *)
(* into the jitter.  Once no task can ever run again the clock stops, to   *)
(* keep the states finite.                                                 *)
ClockTicks ==
    /\ \E t \in DemoTasks : Ready(t) \/ pc[t] = "delayed"
    /\ ticks' = ticks + 1
    /\ IF (\E t \in DemoTasks : CanRun(t) /\ Spinning(t)) \/ ~ \E t \in DemoTasks : Ready(t)
       THEN jitter' = jitter
       ELSE jitter < MaxJitter /\ jitter' = jitter + 1
    /\ UNCHANGED <<mutex, pc, until, eff, owner, readyTick, doneTick, report>>

Goto(t, place) == pc' = [pc EXCEPT ![t] = place]

-----------------------------------------------------------------------------
(* The first statement of M, H and the monitor is a vTaskDelay.            *)
Delay(t) ==
    /\ CanRun(t)
    /\ pc[t] = "start"
    /\ Goto(t, "delayed")
    /\ until' = [until EXCEPT ![t] =
                    ticks + IF t = "monitor" THEN MonitorDelay ELSE ReadyDelay]
    /\ UNCHANGED <<mutex, ticks, eff, owner, readyTick, doneTick, report, jitter>>

(* xSemaphoreTake of a free resource, at once or after having blocked; L   *)
(* and H then start their busy_spin_ms.                                    *)
Take(t) ==
    /\ CanRun(t)
    /\ pc[t] \in {"take", "blocked"}
    /\ owner = "none"
    /\ owner' = t
    /\ Goto(t, "spin")
    /\ until' = [until EXCEPT ![t] = ticks + IF t = "L" THEN HoldTicks ELSE HWorkTicks]
    /\ UNCHANGED <<mutex, ticks, eff, readyTick, doneTick, report, jitter>>

(* Seeded fault: main creates a binary semaphore in the fixed version too, *)
(* and the owner of one inherits nothing.                                  *)
BlockOnSemaphore(t) ==
    /\ CanRun(t)
    /\ pc[t] = "take"
    /\ owner # "none"
    /\ Goto(t, "blocked")
    /\ UNCHANGED <<mutex, ticks, until, eff, owner, readyTick, doneTick, report, jitter>>

(* xSemaphoreTake of a resource in use blocks with portMAX_DELAY; a mutex  *)
(* raises its owner to the priority of the task that waits.                *)
Block(t) ==
    /\ CanRun(t)
    /\ pc[t] = "take"
    /\ owner # "none"
    /\ Goto(t, "blocked")
    /\ eff' = IF mutex /\ owner \in DemoTasks /\ eff[owner] < eff[t]
              THEN [eff EXCEPT ![owner] = eff[t]]
              ELSE eff
    /\ UNCHANGED <<mutex, ticks, until, owner, readyTick, doneTick, report, jitter>>

(* busy_spin_ms returns; L and H go on to give the resource back.          *)
SpinEnds(t) ==
    /\ CanRun(t)
    /\ pc[t] = "spin"
    /\ ticks >= until[t]
    /\ Goto(t, IF t = "M" THEN "deleted" ELSE "give")
    /\ UNCHANGED <<mutex, ticks, until, eff, owner, readyTick, doneTick, report, jitter>>

(* xSemaphoreGive: the waiting task becomes ready, the giver falls back to *)
(* its own priority.                                                       *)
Give(t) ==
    /\ CanRun(t)
    /\ pc[t] = "give"
    /\ owner' = "none"
    /\ eff' = [eff EXCEPT ![t] = Base(t)]
    /\ Goto(t, IF t = "H" THEN "complete" ELSE "deleted")
    /\ UNCHANGED <<mutex, ticks, until, readyTick, doneTick, report, jitter>>

(* M wakes up and starts its 30 ms of work.                                *)
MediumWakes ==
    /\ CanRun("M")
    /\ pc["M"] = "delayed"
    /\ Goto("M", "spin")
    /\ until' = [until EXCEPT !["M"] = ticks + MWorkTicks]
    /\ UNCHANGED <<mutex, ticks, eff, owner, readyTick, doneTick, report, jitter>>

(* H wakes up and takes its first timestamp.                               *)
HighWakes ==
    /\ CanRun("H")
    /\ pc["H"] = "delayed"
    /\ Goto("H", "take")
    /\ readyTick' = ticks
    /\ UNCHANGED <<mutex, ticks, until, eff, owner, doneTick, report, jitter>>

(* H takes its second timestamp and deletes itself.                        *)
HighCompletes ==
    /\ CanRun("H")
    /\ pc["H"] = "complete"
    /\ Goto("H", "deleted")
    /\ doneTick' = ticks
    /\ UNCHANGED <<mutex, ticks, until, eff, owner, readyTick, report, jitter>>

(* The summary of monitor_task.                                            *)
MonitorReports ==
    /\ CanRun("monitor")
    /\ pc["monitor"] = "delayed"
    /\ Goto("monitor", "deleted")
    /\ report' = IF doneTick > readyTick THEN "latency" ELSE "did not complete"
    /\ UNCHANGED <<mutex, ticks, until, eff, owner, readyTick, doneTick, jitter>>

-----------------------------------------------------------------------------
Step ==
    \/ \E t \in {"M", "H", "monitor"} : Delay(t)
    \/ \E t \in {"L", "H"} : Take(t) \/ Block(t) \/ Give(t)
    \/ \E t \in {"L", "M", "H"} : SpinEnds(t)
    \/ MediumWakes
    \/ HighWakes
    \/ HighCompletes
    \/ MonitorReports

DemoNext == ClockTicks \/ Step

DemoSpec == DemoInit /\ [][DemoNext]_demoVars

(* The clock ticks, and the processor executes the task the scheduler      *)
(* selects.                                                                *)
FairDemoSpec == DemoSpec /\ WF_demoVars(ClockTicks) /\ WF_demoVars(Step)

-----------------------------------------------------------------------------
Latency == doneTick - readyTick

(* With a mutex H is held up by L's critical section alone: it completes   *)
(* within what is left of it, its own work and the jitter.                 *)
BlockedOnlyByCriticalSection ==
    mutex /\ pc["H"] = "deleted" =>
        Latency <= HoldTicks + HWorkTicks + MaxJitter

(* All tasks finish, with the mutex and with the semaphore: the inversion  *)
(* delays H but starves nobody for ever.                                   *)
AllFinish == <>(\A t \in DemoTasks : pc[t] = "deleted")
=============================================================================

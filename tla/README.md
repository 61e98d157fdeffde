# Formal models of the embedded-systems challenge programs

The repository is a collection of embedded-systems interview material. Its
chapters and quizzes are prose; the programs are the *coding challenges*, nine
C files: register drivers for an STM32 (GPIO, UART, timer, SysTick, I2C, SPI
flash), a CAN receive pipeline and three FreeRTOS applications. These TLA+
modules model the programs, TLC checks them on small instances, and TLAPS
proves the central facts for every instance.

Source files are named below by a short form:

| short | file under `src/` |
|-------|-------------------|
| CAN   | `03_communication_protocols/coding_challenges/challenge_03_can_message_handler.c` |
| SPI   | `03_communication_protocols/coding_challenges/challenge_02_spi_flash_driver.c` |
| I2C   | `03_communication_protocols/coding_challenges/challenge_01_i2c_sensor_driver.c` |
| GPIO, UART, TIM | `01_bare_metal_fundamentals/coding_challenges/challenge_01_gpio_driver.c`, `challenge_02_uart_polling.c`, `challenge_03_timer_interrupt.c` |
| RT1, RT2, RT3 | `02_rtos/coding_challenges/challenge_01_producer_consumer.c`, `challenge_02_priority_inversion_fix.c`, `challenge_03_watchdog_task.c` |

## 1. Inventory

| component | state | operations | who runs it | what is hard | what makes it correct |
|---|---|---|---|---|---|
| CAN ring (CAN) | buffer, `head`, `tail`, overflow count | push, pop, count | push in the receive ISR, pop in a task | lock-free interleaving, full/empty with two indices | frames stay whole and in order; none lost silently |
| CAN pipeline (CAN) | ring, per-id statistics, dispatch table | ISR enqueue, drain loop, register, timeout query | ISR, task, application | table limits, tick wrap, registration under traffic | every frame is accounted for; statistics and handlers agree with the traffic |
| Producer/consumer (RT1) | queue, overflow counters, filter windows, next wake times | two producers, consumer, statistics task | FreeRTOS scheduler | scheduling, full queue, late tasks, circular window | samples are filtered or counted; averages are of the right samples; the consumer keeps up |
| Priority inversion (RT2) | mutex or semaphore, effective priorities | tasks L, M, H, monitor | FreeRTOS scheduler | inheritance, timing | H waits for the critical section only |
| Watchdog (RT3) | table of check-ins, hardware watchdog | monitored tasks, watchdog task, reset | FreeRTOS scheduler, hardware | wrap of the tick, stale reads, restart | a hang is reported in time and resets; nothing else does |
| SPI flash (SPI) | chip memory, WEL, BUSY, handle | init, read, page program, write, erases | one caller | partial failure, chip still busy, restart | success means done; damage is confined |
| TIM2 (TIM) | timer and NVIC registers, callback | period calculation, init, interrupt handler | main code and ISR | register order, buffered prescaler, flags set while being cleared | the period asked for, in effect from the start; no interrupt lost, none invented |
| SysTick (TIM) | tick count, counter | init, handler, delay | main code and ISR | wrap of the tick | a delay lasts as long as asked, and ends |
| GPIO (GPIO) | configuration registers, ODR | configure, set, clear, write, toggle, read | main code and ISRs | read-modify-write | pins do not disturb each other |
| UART (UART) | status flags, data and shift registers | init with divider, put byte, string and numbers, wait, receive | one caller and the line | hardware running on, errors between two reads | bytes sent in order, none silently lost; conversions exact |
| TMP102 (I2C) | sensor registers, driver struct | init, read, thresholds, shutdown | one caller, the bus, the sensor | partial update, failing read-modify-write, sign and format | readings exact; a failure changes nothing it should not |
| tests, stubs | | | host | | exercised code is modelled, tests are read as statements of intent |

The components do not call each other; each file is a program. Inside a
program the interaction is by shared memory (ring indices, flags, registers),
by the FreeRTOS queue, mutex and delays, or by bus transfers.

## 2. Modules

| module | models | correspondence |
|---|---|---|
| `FrameFifo` | (abstract) a bounded FIFO that refuses when full | what CAN promises of its ring; `CanRing` implements it |
| `FrameDelivery` | (abstract) frames refused for want of room or handled once, in order | what CAN promises from the controller to the handlers; `CanPipeline` implements it |
| `CanRing` | CAN `can_rx_ring_*` | one step for each access to `buf`, `head`, `tail` by either side; a frame is copied in two halves so that tearing is visible |
| `CanStats`, `CanDispatcher` | CAN statistics, filters, dispatch | functions on the state of the table |
| `CanPipeline` | CAN `can_pipeline_*` | `CanRing` extended with the drain loop and the application |
| `MovingAverage`, `ProducerConsumer` | RT1 `filter_update`; the ADC, the tasks | one step between two FreeRTOS calls; a sample is its channel and reading; the kernel queue is external |
| `PriorityInversion` | RT2 tasks | the ready task of highest effective priority steps; time advances in ticks |
| `WatchdogTask` | RT3 tasks and the hardware watchdog | each table access a step; the first start is at any tick value, so that the tick wraps early; a hardware reset starts again at 0 |
| `SpiFlash` | SPI driver and its chip | one step for each chip-select cycle; a stub chip as in the file, and a W25Q that stays busy |
| `TimerPeriod`, `TimerInterrupt` | TIM `timer_calc_period`; `tim2_init`, `TIM2_IRQHandler` | one step for each register access, with the values that were computed; a counter that advances and overflows at any time, with a buffered prescaler |
| `SysTickDelay` | TIM SysTick part | the counter runs cycle by cycle; the loop reads it between |
| `GpioDriver` | GPIO driver | one step for each register access, main code preempted by an ISR |
| `UartFormat`, `UartPolling` | UART divider and digit loops; the driver | one step for each access of SR or DR, strings and numbers sent byte by byte; shift register and line are external |
| `Tmp102` | I2C driver, HAL and sensor | one step for each HAL transaction, which may fail before or after the sensor took the write; the sensor converts between them |
| `MachineWords` | the two word sizes | parameters, scaled in the runs |
| `MC*` | constants too large for a `.cfg`, the bound of `CanRing`, and the programs of one run side by side (`MCRtos`, `MCTimers`, `MCDrivers`) | section 3 |
| `NatRecursion` | induction and recursion over the naturals | lemmas about sets and functions, for the proofs about loops |
| `*_proofs` | theorems and proofs | one module for each component; `TimerInterrupt_proofs` covers `SysTickDelay` too, `Rtos_proofs` the watchdog and the priority inversion, `Drivers_proofs` the GPIO, UART and TMP102 drivers. Modules proved about together share no name, hence `UartInit`, `SensorInit`, `DelayInit`, `DemoInit` |

A few definitions carry a comment *Seeded fault*. They are wrong versions of a
definition, outside every specification, that show for each property a mistake
it would notice: `PushFullProceeds` for instance stores a frame although the
ring is full, and `ImplementsFifo` fails.

### Abstractions and assumptions

- Control is kept, data is reduced to what the properties tell apart. Widths
  are scaled: `TickMod`, `CounterMod`, `WordMod`, `HalfMod`, `LoadMod` stand
  for 2^32, 2^16 and 2^24, so that wraps happen inside the run.
- NULL-pointer and invalid-argument checks that leave all state unchanged are
  left out, as are defensive branches no state reaches (an unknown channel in
  RT1) and counters only printed.
- CAN: the frame copy is ordered before the store of the volatile index, as
  the comment at CAN:97-98 requires. A compiler need not keep plain stores
  before volatile ones; the seeded fault `PushStoreLoPublishes` shows the
  consequence. Interleavings finer than a single core allows are included.
- RT1: the window is no longer than a sum of 16-bit samples in 32 bits allows
  (`WindowAssumption`; the program's count is a `uint8_t`). A producer is at most `MaxLate` ticks late for its sample. RT3: a
  monitored task is at most `MaxLate` ticks late, the watchdog done at most
  `WatchdogLate` ticks after its wake time. Without such a bound no statement
  about time is true of either program.
- RT3: check-in counts and the field `xEnabled`, always true, are left out.
- SPI: a transfer is one step; the chip sees a whole chip-select cycle, an
  error may cut it before the chip acts. The chip may be larger than its
  24-bit addresses reach (`BusMod`), as `w25q_init` allows; a call may name any
  address. What is promised of a call's target is a precondition in the
  properties, `Addressable`: its bytes are among those 24 bits can name. The
  stub's memory is an array of the test program: a call whose `addr + len`
  wraps would run past its end and is left to the real chip (`WithinArray`).
- GPIO: the driver masks nothing, and neither does the model: the ISR comes
  between any two accesses of main code. Interrupts masked inside the ISR
  would change nothing, as nothing interrupts it.
- UART: `uart_init` is called with the transmitter idle, as the header of
  `uart_wait_tc` recommends, and is one step: while UE is clear the USART
  receives and sends nothing. A character of a plain string has no value; the
  digits of a number have one. The buffers have a place for every digit of a
  32-bit number, as the ones of the program do (`RoomAssumption`).
- TIM, UART: the clock values are far from 2^32 (`TimerAssumption`,
  `UartAssumption`); the rounding addition then does not wrap. The counter of
  TIM2 has three positions, reset, advanced and overflowing: the length of the
  period is in PSC and ARR.
- The pure calculations `timer_calc_period` and `uart_calc_brr` can also be
  called on their own, for a range of clocks and rates, before the driver is
  used (`Calculate`); afterwards they would only repeat states.
- I2C: the sensor holds its registers as the stub of the file does; that it
  converts, and in which format, is external. A write that fails may have been
  taken. The driver never sets `extended_mode`: `SetMode` is the application
  telling it the format. Bits the sensor changes by itself (alert, conversion
  ready) are left out.

## 3. Runs

| run | question | instance |
|---|---|---|
| `CanRing` | does the lock-free ring behave as a bounded FIFO? | size 4, 3 frames, 2 refusals |
| `CanPipeline` | is every frame refused for want of room or handled once, in order, and do counts, statistics, timeouts and handlers agree? | size 2, 1 statistics id, 2 handlers, tick modulo 3, 3 ms, 3 arrivals |
| `SamplingPipeline` | are samples accounted for and averaged, does the consumer keep up? | queue of 2, window of 2, readings 0..1 and 2, period 2, lateness 1, counters modulo 2, strict and lax scheduling |
| `Rtos` | the watchdog: is a hang reported in time, and only a hang, and does it reset? or the demonstration: how long does H wait with the mutex, and do all tasks end? | 2 tasks with periods 1, 2 and limits 3, 4; tick modulo 9; the times of the program (20, 30, 2, 5, 200 ms), 3 ticks of jitter, mutex and semaphore |
| `Flash` | does success mean done, what does a failure leave? | pages of 2, sector 4, block 8, a chip of 8 on a bus of 16, words modulo 32; both chips, addresses 0, 5 and 30, 1 bus error, 1 restart, 3 calls |
| `Timers` | TIM2: is the period right, in effect at the start, and each overflow served exactly when it should be? or SysTick: does a delay cover its ticks, not much more, and end? | 16- and 32-bit words scaled to 4 and 8 bits, 22 clocks, 26 rates, 3 initialisations at two accepted rates and a refused one, 5 overflows; 2 counts per millisecond, clocks refused and accepted at both ends, tick modulo 6, delays 0..3 |
| `Drivers` | GPIO: do main code and ISR disturb each other's outputs, and what can a configuration lose? or UART: is a byte lost or out of order, silently or not; are divider and numerals right? or TMP102: what does a reading mean, what do failures leave in the sensor? | pins 0, 7 in AFR low, 8 in AFR high, ISR on pin 7, 2 calls each; words scaled to 4 and 8 bits, 22 clocks, 16 rates, 4 numbers in both bases, timeouts 0, 2, forever, 3 bytes received, 3 sent, 3 receive calls; a wrong and a right address, 4 temperatures, the limits at both ends of `int8_t`, both formats, 4 calls, 1 failure, 1 restart |

`Rtos`, `Timers` and `Drivers` are one run for several programs, chosen by the
variable `program`: the programs share nothing, so only the one that was
flashed takes steps (`MCRtos`, `MCTimers`, `MCDrivers`), and its fairness is
asked for only then. The behaviours are those of the programs run apart.

The runs that are *violated*, each a finding of section 5:

| run | claim that does not hold | instance |
|---|---|---|
| `FlashRetry` | a call that returns 0 has done what it was called for | the W25Q chip, 1 bus error, 3 calls |
| `FlashRange` | a range outside the chip is refused | as `Flash` |
| `FlashLarge` | on any chip `w25q_init` accepts, a successful call inside it worked on its target | a chip of 32 on a bus of 16 |
| `FilterWarmUp` | the filter returns its input until the window is full | as `SamplingPipeline`, window of 3 |
| `GpioToggle` | a toggle writes back what it read | pins as in `Drivers`, 3 calls each |

Why the bounds are enough:

- `CanRing`: with size 4 both indices wrap several times (nothing bounds the
  number of frames), the ring fills, refuses and drains in every offset. Only
  the overflow counter is bounded, and no guard reads it. Three frames tell a
  duplicate or a swap apart.
- `CanPipeline`: the smallest tables that can be both filled and exceeded: one
  statistics entry for two ids, a handler that registers late, a tick that
  wraps within the time of the run.
- `SamplingPipeline`: a queue of 2 fills under the lax scheduler; counters are
  compared modulo 2 so that they may run for ever. The window of 2 fills,
  wraps, and loses samples in between; the baseline 0 with noise 1 reaches the
  clamp.
- `Rtos`: one limit is a multiple of the watchdog's period, the other is
  not, and the tick wraps between a check-in and the check. The durations of the demonstration
  are those of the program; the jitter may be spread over it in any way.
- `Flash`: a buffer of 4 crosses up to two page boundaries from address 5 and
  is refused or not by its length; from 30 `addr + len` wraps for some lengths
  and is out of range for the others. A call may follow a failure while the
  chip is still busy, or one that wrapped.
- `Timers`: three initialisations cover the first one and two of a
  running timer, to the same and to another rate; five overflows cover one at
  every point of an initialisation and of a handler. The clocks and rates
  include both sides of each step of the prescaler and of the end of the
  range.
- `Drivers`, UART: 0, a number with an inner zero, one with a trailing zero and
  the largest; three bytes are the longest numeral and fill wire, shift and
  data register. A third byte arriving overruns twice.
- `Drivers`, TMP102: four calls allow a failed or cut-off call between two others of
  any kind; 2400 sixteenths need the extended format, 2047 is the largest
  without, -880 is negative.
- `Drivers`, GPIO: the ISR comes in every gap of main's calls; its pin shares the
  AFR register with one main pin and not with the other; two calls configure a
  pin twice, or configure it and drive or toggle it.

Deadlock checking is off where the number of calls is bounded. A program that
may come to rest in `Rtos` or `Drivers` (all tasks of RT2 delete themselves)
has a stuttering step, so that a deadlock of the others is still seen.

What the properties say is written above each definition. They are aimed at
the hazards listed in `PROJECT.json`; each passing run states only what
several steps are needed to break.

### Fairness

- An ISR that was entered runs to completion: weak fairness of its steps.
- Tasks of FreeRTOS run when ready: weak fairness of each task's action and of
  the tick. Where the scheduler is strict the action itself is guarded by
  "nothing of higher priority is ready", so fairness promises no more than the
  scheduler does.
- A driver's own loop keeps running (`Driver`, `InitStep`, `Drain`, the `Poll`
  of a delay); a UART shift register finishes; the SysTick counter counts and
  its exception is taken, as nothing masks it. Arrivals, errors, restarts, registrations and new
  calls are never fair.
- Weak fairness is enough everywhere: no liveness property relies on an action
  that is enabled only now and then.

## 4. Proofs

TLAPS checks these for every value of the constants that meets the assumption
of the module (`SizeAssumption`, `PipelineAssumption`, `FlashAssumption` and so
on: types, and what the comments beside them take from the code). A theorem
that needs more states it as a hypothesis; there is one, `DelaysInRange`,
explained below. Every safety
property of the passing runs is proved, and with them both refinements; the
list of theorems is in `PROJECT.json`. The bounds on calls, errors and arrivals are constants, so a
theorem says the same of any number of them.

**CAN**

- *Ring* (`CanRing_proofs`). `WholeFrames` and `NoSlotRace` are not
  inductive: that the ISR may write the slot at `tail` follows only from its
  having seen room *and* from `head` having moved forward since. `RingInv` adds
  `Locals` (the local copies of the indices are current, a push past its check
  still has room, a pop past its check still has a frame) and `HalfDone` (what
  is stored or copied so far agrees with the frame). The proof has one step
  per action: the task never moves `tail` and only enlarges the room, the ISR
  never moves `head` and only adds frames. `RaceFree`, `FramesStayWhole` and
  `OneSlotFree` (`Count <= Size - 1`) follow.
- *Refinement* (`RingImplementsFifo`). `Queue` is the contents of the
  occupied slots from `head`. A publishing store of `tail` maps to an append,
  an advance of `head` to a removal that returns the oldest frame, a refusal
  to a refusal at `Size - 1` frames; all other steps stutter. The case split
  on whether the occupied slots wrap is in two lemmas on `NthSlot` and `Count`.
- *Pipeline* (`CanPipeline_proofs`). `PipelineUsesRing`: each step of the
  pipeline is a step of the ring or leaves it alone, so the ring's invariant
  holds inside it. `NoFrameUnaccounted` is inductive once the ring's invariant
  says how a push or a pop changes `Count`. No run repeats it: what it counts
  follows from `ImplementsDelivery` and `StatisticsMatchTraffic`.
- *Handlers* (`HandlersAreCalled`). The dispatch loop increments counters; the
  property speaks of the set of logged frames a filter accepts. `HandlersInv`
  carries that set over an append to the log, and a lemma says it grows by one
  exactly when the filter matches.
- *Statistics and timeouts* (`StatisticsAreTrue`, `TimeoutIsSilence`). The
  least and greatest gap are only right if frames are counted in order of
  reception: `TrafficInv` says that the log, the frame in hand, the queue and
  the frame the ISR stores are sorted by time, in this order. `StatsSound`
  describes the table by the frames it has counted: one entry for each
  identifier, with that identifier's number, last time and extreme gaps. The
  tick is real time modulo `TickMod`; an elapsed time is exact while the real
  one is less than a turn of the tick, a condition in the properties.

- *Delivery* (`PipelineDelivers`). The frames that wait are the one in the
  task's hand, if it has one, and the ring's queue behind it. The publishing
  store of `tail` is an acceptance, a refusal of the push one of the delivery
  (the ring then holds `Size - 1` frames, `FullWhenRefused`), the dispatch
  hands over the oldest. The advance of `head` does not show: the frame moves
  from the queue to the hand. `RingInv` gives that it is the queue's head and
  whole, `TrafficInv` that what is in hand is a frame.

**Recursion** (`NatRecursion`). The sums of the filter, the powers and the digit
loops are recursive functions over an interval. The induction theorems of the
library take an operator as a parameter, which the provers cannot instantiate;
here induction is stated about sets (`InductUpto`), from the least element of
a set of naturals, and `RecursionExists` says that a function with the
equations of the recursion exists, so that a definition by recursion has them.

**Timers** (`TimerInterrupt_proofs`)

- `OverflowsNotLost`, `CallbacksNotSpurious`. Each overflow is served, merged,
  flagged, in the handler's hands, or the one credit a re-initialisation gives
  (`OverflowsAccounted`, `CallbacksAccounted`). It rests on what is still off
  before the first call is complete (`FirstInit`), on the handler having been
  entered through an enabled interrupt (`HandlerInv`), and on the counter being
  stopped from the second step of `tim2_init` to the last.
- `TimerRunsAsConfigured` adds which registers hold the calculated values at
  each place of `tim2_init`. `PeriodAlwaysClose` is arithmetic: the quotients of
  `timer_calc_period` for every word size, none of them within reach of a wrap
  by `TimerAssumption`.
- `DelayLastsItsTicks`, `DelayEndsInTime`. `WaitInv`: the tick has advanced by
  the ticks counted, each of them came at least once in a period, and at the
  last read the delay was not over. Hypothesis `DelaysInRange`: a delay plus the
  latency of one read is less than a turn of the tick counter (2^32 ms, past
  which the difference starts over), and less than the bound at which the histories stop.

**RTOS applications**

- *Watchdog* (`Rtos_proofs`). `NoFalseAlarm`, `DetectionAlwaysTimely`,
  `HealthyIsNeverReset`. The unsigned difference of two ticks is a real age
  only while the age is less than a turn, and the age is bounded only because
  the watchdog looks often enough: the two facts are proved together
  (`TableIsTrue`, `Inspected`). An entry already inspected in a round was within
  its limit when the round began, one not yet inspected a period before.
  `WatchdogOnTime` bounds the time since the hardware watchdog was fed.
  The assumptions of the module used are that every limit, the period and
  the lateness together stay below a turn of the tick, and that the hardware
  timeout exceeds the period and the lateness.
- *Producer/consumer* (`ProducerConsumer_proofs`). `EverySampleAccounted`
  counts samples in the queue by channel: lemmas say what sending and receiving
  do to that count. `PriorityKeepsQueueShort` is inductive with "a nonempty
  queue finds the consumer outside the filter" (`KeepsUpInv`).
  `FiltersAverage`: while the window fills it holds the samples in order from
  0, once it is full the oldest is at `idx`, wherever that is (`FiltersInv`);
  `Holds` keeps the sum of the window equal to that of the last samples:
  overwriting the oldest changes the one as dropping the first and appending
  the new one changes the other. The 32-bit sum does not wrap and the mean fits
  16 bits, by `WindowAssumption` and the word sizes.
- *Priority inversion* (`Rtos_proofs`). `MutexBoundsTheWait` rests on
  `TypeAndOwnership` (L is raised exactly when it owns the mutex and H is
  blocked) and `Timing`: while H waits, only the spins of
  L's critical section and of H can let time pass (`OnlyCriticalSectionsSpin`),
  so the time since H became ready is at most the jitter, the rest of the
  critical section and its own work, for all durations.

**Drivers**

- *Flash* (`SpiFlash_proofs`). `CallsStayInTarget`, `FailedCallsLeavePrefix`,
  `SuccessfulCallsAreDone`. `FlashInv`: at each place of a call that found the
  chip idle, memory is what the call found with exactly the bytes done so far
  programmed, or with its region erased wholly or not at all, and the write
  enable latch is set at every command (`ProgressInv`). Needs the arithmetic of aligned units
  (`Quotient`, `Remainder`) and that programming chunk after chunk is programming
  the concatenation. Chips larger than
  the bus addresses and calls whose `addr + len` wraps are included: such a call
  may do anything to the memory, and only its own target is unknown. What is
  said of a call asks that its bytes are `Addressable`; then the sum does not
  wrap, and a bus address selects, among others, the byte that was meant
  (on a larger chip the addresses below 2^24 are the ones it reaches).
- *GPIO* (`Drivers_proofs`). `OutputsIndependent`: BSRR is written and ODR
  never is; `OutputInv` records what a toggle has read of its own pin.
  `ConfigurationsStick`: main code's read value of a register is current
  for every pin of its own, and for those of the ISR except in the fields the
  ISR has written since (`ConfigureSound`, with the history `overtaken`); the
  ISR's is current for all, as main code does not run. No hypothesis on
  masking: what a race can cost is in the property.
- *UART* (`Drivers_proofs`). `BytesSentInOrder`: wire, shift register and data
  register hold consecutive bytes (`TransmitInv`); TXE, read before each write,
  is why none is overwritten. `LossIsReported`: a byte is lost only while ORE is
  set, and ORE stays until a read of SR has seen it (`ReceiveInv`).
  `ConversionsExact`: after k rounds a digit loop has produced a string that
  denotes any value below base^k (`LoopsConvert`, by induction over the places);
  the padded loop has k digits, the other none that leads with 0. The buffers
  suffice by `RoomAssumption`. The divider is the closest quotient
  (`QuotientIsClosest`), and rounding does not wrap by `UartAssumption`.
- *TMP102* (`Drivers_proofs`). `SensorInv` relates the registers to what was
  converted, asked and found: `TemperatureInv` (the temperature register is in
  the format of the configuration register, which the driver never changes),
  `ThresholdInv` (between its two writes the sensor has the new lower and the
  old upper threshold), `ShutdownInv` (between read and write the configuration
  is what was read). Words are real 16-bit words here: `SignedWord`,
  `ThresholdWord`, `TemperatureWord` and `ShutdownBit` are the arithmetic.

Only model-checked is liveness (`AcceptedFramesAreProcessed`,
`EveryCallReturns`, `DemoFinishes`, `SamplingContinues`, `OverflowsAreServed`,
`DelayReturns`, `CallsReturn`, `HangLeadsToReset`): fairness and ENABLED are out
of the prover's reach.

## 5. Findings

Each is a violated run; the lines quoted are in `PROJECT.json`. The properties
of the passing runs state what does hold.

- `FlashRetry`: `w25q_page_program` and the erases send WRITE_ENABLE without
  first waiting for BUSY (SPI:255), while `w25q_read` waits (SPI:196). After a
  call that failed with the chip still busy, the chip ignores both WRITE_ENABLE
  and the command; its latch is still set from before, so the check of WEL
  passes, the poll sees the end of the *old* operation, and the call returns 0
  although nothing was programmed. SPI:246 says "Returns 0 on success.".
  What holds is `IdleSuccessMeansDone`: success means done when the chip was
  idle at the call.
- `FlashRange`: the range checks (SPI:194, 251, 292) add in 32 bits; near 2^32
  the sum wraps and a range "out of range" is accepted.
- `FlashLarge`: chips of up to 128 MB are accepted (SPI:177) and driven with
  24-bit addresses (SPI:17, 199): beyond 16 MB a call returns 0 having worked
  elsewhere. With `FlashRange` this is why `ConfinedToTarget` and the other
  properties of `Flash` speak of `Addressable` calls.
- `FilterWarmUp`: RT1:117 says the filter returns the input until the window is
  full; the code averages the samples it has (RT1:129-134), which is what
  `FilterAveragesRecent` states.
- `GpioToggle`: GPIO:227-229 says that toggle writes ODR back and must not be
  used from main code and an ISR; the code writes BSRR (GPIO:236-242), which is
  why `OutputsAreIndependent` holds for distinct pins.

## 6. Observations

Met while modelling; no run of its own states them. The first six say why a
property of a passing run is no stronger.

- GPIO:171-172 asks an ISR to disable interrupts around its call of
  `gpio_configure`. The race is the other way round: main code is interrupted
  between reading and writing a register and undoes what the ISR configured; it
  is main code that has to mask. `OnlyOvertakenFieldsAreLost` says exactly what
  can be lost, and that main code itself never loses anything.
- Initialising a running timer calls the callback once for UG (TIM:309, with UIE
  still set and URS cleared at TIM:298), the "spurious first interrupt" of
  TIM:312-314; it may also drop one overflow. `NoOverflowLost` and
  `NoSpuriousCallback` bound both to one for each re-initialisation.
- For `cpu_hz` from 1000 to 1999 `systick_init` succeeds with a reload of 0
  (TIM:411), with which SysTick does not tick, and a delay does not end.
  `DelayReturns` holds for every other reload.
- TIM:474 promises at least `ms`; a delay starts inside a tick and may be shorter
  by up to one (TIM:483-484). `DelayCoversTicks` states the exact bound.
- At a low rate the divider exceeds the 16 bits of BRR (UART:172-175, 204), and
  `uart_init` returns UART_OK. `ConversionsAreExact` is about the quotient
  `uart_calc_brr` returns; the baud rate of the run fits.
- The header of RT2 expects 55 ms and a missed deadline of the semaphore version
  (RT2:33, 50); `busy_spin_ms` (RT2:103-104) counts ticks that pass while
  preempted, so spins overlap, H waits about 32 ms and meets it. The inversion is
  there, H waits for M, but the demonstration does not show a miss.
- CAN: statistics are kept by the number of the id alone (CAN:286, CAN:248-249),
  so a standard and an extended id of one number share an entry.
- RT3:69-70 asks limits to be multiples of the watchdog period; detection is
  bounded without it. The report after 350 ms in RT3:50 is later than the
  code can be, limit plus period, about 250 ms.
- TIM:211 gives a reload of 65522; the code computes 84000000/1282 = 65522 and
  stores 65521. TIM:267 narrows what TIM:264 computed wide.
- TIM:295 sets the callback before the timer is stopped: an overflow of the old
  period can call the new callback.
- I2C:230 mentions a `one_shot` argument; `tmp102_set_shutdown` (I2C:232) has
  none. A reading in shutdown returns the last conversion, with no error:
  `ReadingIsExact` says "converted last".
- I2C:145 clears `extended_mode` and no function sets it, so a sensor found in
  extended mode is read off by a factor of two unless the application sets the
  field; the thresholds are always in the 12-bit format (I2C:216-219).

## 7. Not modelled, and plan

| step | content |
|---|---|
| done | ring, pipeline and the two abstract specifications; RTOS applications with the filter; flash; timers with their periods; GPIO; UART with divider and formatting; TMP102; a proof of every safety property and of both refinements |
| later | more abstract specifications with their refinements: the flash calls as atomic writes and erases that may stop part way, the watchdog as a timer for each task |

Left out for good: the chapters, worked problems and quizzes (prose and
listings that are not built), the compiled test binaries, and the test
harnesses apart from their stubs.

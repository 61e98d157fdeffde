-------------------------- MODULE Drivers_proofs --------------------------
(***************************************************************************)
(* Proofs about the three register drivers.                                *)
(*   GPIO: two contexts never disturb each other's outputs, and of each    *)
(*     other's configurations only the fields the ISR writes between the   *)
(*     two halves of main's read-modify-write, for every set of pins and   *)
(*     every split.                                                        *)
(*   UART: bytes go out in order and none that arrived is lost silently,   *)
(*     for every speed of the line; the strings of numbers denote them and *)
(*     the divider is the closest one, for every word size, number, clock  *)
(*     and baud rate.                                                      *)
(*   TMP102: what readings, thresholds and the shutdown bit are after      *)
(*     every failure and restart, for every temperature and limit.         *)
(* The three modules share no name, so that all can be extended here.      *)
(***************************************************************************)
EXTENDS GpioDriver, UartPolling, Tmp102, NatRecursion, SequenceTheorems, TLAPS

(* A toggle in progress works on a pin of its own context, and what it     *)
(* read of that pin is still what the output register holds.               *)
ToggleCurrent(c) ==
    job[c].op = "toggle" =>
        /\ job[c].pin \in PinsOf(c)
        /\ job[c].pin \in job[c].seen <=> job[c].pin \in odr

(* Each context has one job.                                               *)
JobsWellFormed ==
    job = [c \in Contexts |->
            Job(job[c].op, job[c].pin, job[c].cfg, job[c].todo, job[c].read, job[c].seen)]

OutputInv ==
    /\ JobsWellFormed
    /\ OutputsAreIndependent
    /\ \A c \in Contexts : ToggleCurrent(c)

(* No pin belongs to both contexts.                                        *)
LEMMA ContextsShareNoPin ==
    ASSUME NEW c \in Contexts, NEW d \in Contexts, c # d
    PROVE  PinsOf(c) \cap PinsOf(d) = {}
  BY DEF Contexts, PinsOf

(* At reset nothing is driven and no toggle is in progress.                *)
LEMMA OutputInvInit == Init => OutputInv
  BY DEF Init, OutputInv, JobsWellFormed, OutputsAreIndependent, ToggleCurrent,
         Idle, Job, Contexts

(* Every access of either context preserves it: a BSRR write touches the   *)
(* pin it names alone.                                                     *)
LEMMA OutputInvStep == OutputInv /\ [Next]_vars => OutputInv'
  <1> SUFFICES ASSUME OutputInv, [Next]_vars PROVE OutputInv'
    OBVIOUS
  <1> USE DEF OutputInv, JobsWellFormed, OutputsAreIndependent, ToggleCurrent, Job
  <1>1. ASSUME NEW c \in Contexts, ReadField(c) PROVE OutputInv'
    BY <1>1 DEF ReadField
  <1>2. ASSUME NEW c \in Contexts, WriteField(c) PROVE OutputInv'
    BY <1>2 DEF WriteField
  <1>3. ASSUME NEW c \in Contexts, ConfigureReturn(c) PROVE OutputInv'
    BY <1>3 DEF ConfigureReturn, Idle
  <1>4. ASSUME NEW c \in Contexts, ToggleWrite(c) PROVE OutputInv'
    BY <1>4, ContextsShareNoPin DEF ToggleWrite, Idle, Bsrr, Flip
  <1>5. ASSUME NEW c \in Contexts, NEW p \in PinsOf(c), NEW cfg \in Configs,
               ConfigureCall(c, p, cfg)
        PROVE  OutputInv'
    BY <1>5 DEF ConfigureCall, Idle
  <1>6. ASSUME NEW c \in Contexts, NEW p \in PinsOf(c), NEW level \in BOOLEAN,
               Drive(c, p, level)
        PROVE  OutputInv'
    BY <1>6, ContextsShareNoPin DEF Drive, Bsrr, Start, Busy
  <1>7. ASSUME NEW c \in Contexts, NEW p \in PinsOf(c), ToggleRead(c, p)
        PROVE  OutputInv'
    BY <1>7 DEF ToggleRead, Idle
  <1>8. CASE UNCHANGED vars
    BY <1>8 DEF vars
  <1> QED BY <1>1, <1>2, <1>3, <1>4, <1>5, <1>6, <1>7, <1>8 DEF Next

(* gpio_set, gpio_clear and gpio_toggle on different pins of one port      *)
(* never disturb each other, however an ISR preempts them.                 *)
THEOREM OutputsIndependent == Spec => []OutputsAreIndependent
  <1>1. OutputInv => OutputsAreIndependent
    BY DEF OutputInv
  <1> QED BY OutputInvInit, OutputInvStep, <1>1, PTL DEF Spec

(* Context c is in gpio_configure.                                         *)
Configuring(c) == job[c].op = "configure"

(* The field of pin q in register r was lost to a race.                    *)
Lost(r, q) == q \in IsrPins /\ <<r, q>> \in overtaken

(* Every configuration register has a field for every pin.                 *)
RegistersWellFormed ==
    reg = [r \in Registers |-> [p \in Pins |-> reg[r][p]]]

(* gpio_configure in progress: the registers of its plan that it has left  *)
(* to write are a list, those it no longer has to write hold the field it  *)
(* was asked for, and what it read of the next one is still there, except  *)
(* for what the ISR wrote since main read it.                              *)
ConfigureSound(c) ==
    Configuring(c) =>
        /\ job[c].pin \in PinsOf(c)
        /\ job[c].cfg \in Configs
        /\ job[c].todo \in Seq(Registers)
        /\ job[c].read =>
              /\ job[c].todo # <<>>
              /\ job[c].seen = [q \in Pins |-> job[c].seen[q]]
              /\ \A q \in Pins : \/ job[c].seen[q] = reg[Head(job[c].todo)][q]
                                 \/ c = "main" /\ Lost(Head(job[c].todo), q)
        /\ \A r \in Elements(Plan(job[c].pin, job[c].cfg)) :
              r \in Elements(job[c].todo) \/ reg[r][job[c].pin] = Field(r, job[c].cfg)

(* The inductive invariant of the configuration.                           *)
ConfigInv ==
    /\ JobsWellFormed
    /\ lastCfg = [p \in Pins |-> lastCfg[p]]
    /\ RegistersWellFormed
    /\ \A c \in Contexts : ConfigureSound(c)
    /\ OnlyOvertakenFieldsAreLost

(* The registers gpio_configure writes, in order: four, and the alternate  *)
(* function register only when the mode asks for it.                       *)
LEMMA PlanIsSequence ==
    ASSUME NEW p, NEW cfg
    PROVE  Plan(p, cfg) \in Seq(Registers)
  <1>1. <<"MODER", "OTYPER", "OSPEEDR", "PUPDR">> \in Seq(Registers)
    BY DEF Registers
  <1>2. <<>> \in Seq(Registers)
    OBVIOUS
  <1>3. <<AfrOf(p)>> \in Seq(Registers)
    BY DEF AfrOf, Registers
  <1> QED
    BY <1>1, <1>2, <1>3 DEF Plan

(* What is left after the first register is written.                       *)
LEMMA ElementsOfTail ==
    ASSUME NEW s \in Seq(Registers), s # <<>>
    PROVE  /\ Head(s) \in Registers
           /\ Tail(s) \in Seq(Registers)
           /\ \A r \in Elements(s) : r = Head(s) \/ r \in Elements(Tail(s))
  <1>1. /\ Head(s) \in Registers /\ Tail(s) \in Seq(Registers)
        /\ Head(s) = s[1] /\ Len(Tail(s)) = Len(s) - 1 /\ Len(s) \in Nat
        /\ \A i \in 1 .. Len(Tail(s)) : Tail(s)[i] = s[i + 1]
    OBVIOUS
  <1>2. ASSUME NEW i \in 1 .. Len(s), i # 1
        PROVE  s[i] \in Elements(Tail(s))
    <2>1. i - 1 \in 1 .. Len(Tail(s)) /\ (i - 1) + 1 = i
      BY <1>1, <1>2
    <2> QED
      BY <1>1, <2>1 DEF Elements
  <1> QED
    BY <1>1, <1>2 DEF Elements

(* The property, a pin and a register at a time.                           *)
FieldSound(r, q) == reg[r][q] = Asked(r, q) \/ Lost(r, q)

LEMMA PropertyByPin ==
    OnlyOvertakenFieldsAreLost <=>
        \A q \in Pins : (\A c \in Contexts : ~ (Configuring(c) /\ job[c].pin = q)) =>
            \A r \in Settled(q) : FieldSound(r, q)
  BY DEF OnlyOvertakenFieldsAreLost, BeingConfigured, Configuring, FieldSound, Lost

(* The fields a configuration determines are fields of registers.          *)
LEMMA SettledAreRegisters ==
    ASSUME NEW q
    PROVE  Settled(q) \subseteq Registers
  BY PlanIsSequence DEF Settled, Elements

(* At reset nothing is being configured and no pin has been.               *)
LEMMA ConfigInvInit == Init => ConfigInv
  <1> SUFFICES ASSUME Init PROVE ConfigInv
    OBVIOUS
  <1>1. JobsWellFormed /\ RegistersWellFormed /\ lastCfg = [p \in Pins |-> lastCfg[p]]
    BY DEF Init, JobsWellFormed, RegistersWellFormed, Idle, Job, Contexts
  <1>2. \A c \in Contexts : ConfigureSound(c)
    BY DEF Init, ConfigureSound, Configuring, Idle, Job, Contexts
  <1>3. \A q \in Pins, r \in Registers : reg[r][q] = Asked(r, q)
    BY DEF Init, Asked
  <1>4. OnlyOvertakenFieldsAreLost
    BY <1>3, SettledAreRegisters DEF OnlyOvertakenFieldsAreLost
  <1> QED
    BY <1>1, <1>2, <1>4 DEF ConfigInv

(* Every access preserves it. A write back of a register that was read     *)
(* changes the field of one pin alone, but for the fields the ISR wrote    *)
(* since: nothing interrupts the ISR, and only the ISR interrupts main.    *)
LEMMA ConfigInvStep == ConfigInv /\ [Next]_vars => ConfigInv'
  <1> SUFFICES ASSUME ConfigInv, [Next]_vars PROVE ConfigInv'
    OBVIOUS
  <1>s. /\ JobsWellFormed /\ lastCfg = [p \in Pins |-> lastCfg[p]] /\ RegistersWellFormed
        /\ OnlyOvertakenFieldsAreLost
        /\ \A c \in Contexts : ConfigureSound(c)
        /\ Contexts = {"main", "isr"}
    BY DEF ConfigInv, Contexts
  <1>a. ASSUME MayRun("main") PROVE ~ Configuring("isr")
    BY <1>a DEF MayRun, Configuring, Busy
  <1>p. \A c \in Contexts : PinsOf(c) \subseteq Pins
    BY <1>s, GpioAssumption DEF PinsOf
  <1>u. ASSUME NEW d \in Contexts, job'[d] = job[d], UNCHANGED <<reg, overtaken>>
        PROVE  ConfigureSound(d)'
    BY <1>s, <1>u DEF ConfigureSound, Configuring, Lost
  <1>n. ASSUME NEW d \in Contexts, ~ Configuring(d)'
        PROVE  ConfigureSound(d)'
    BY <1>n DEF ConfigureSound
  <1>b. ASSUME NEW c \in Contexts, JobsWellFormed', UNCHANGED <<reg, lastCfg, overtaken>>,
               \A d \in Contexts : d # c => job'[d] = job[d],
               ~ Configuring(c), ~ Configuring(c)'
        PROVE  ConfigInv'
    <2>1. \A d \in Contexts : Configuring(d)' => Configuring(d) /\ job'[d] = job[d]
      BY <1>b DEF Configuring
    <2>2. \A d \in Contexts : ConfigureSound(d)'
      BY <1>b, <1>n, <1>u, <2>1
    <2>3. OnlyOvertakenFieldsAreLost'
      BY <1>b, <1>s DEF OnlyOvertakenFieldsAreLost, BeingConfigured, Configuring, Settled, Asked
    <2> QED
      BY <1>b, <1>s, <2>2, <2>3 DEF ConfigInv, RegistersWellFormed
  <1>k. ASSUME UNCHANGED <<reg, job, lastCfg, overtaken>> PROVE ConfigInv'
    <2>1. JobsWellFormed' /\ RegistersWellFormed' /\ lastCfg' = [p \in Pins |-> lastCfg'[p]]
      BY <1>k, <1>s DEF JobsWellFormed, RegistersWellFormed
    <2>2. \A c \in Contexts : ConfigureSound(c)'
      BY <1>k, <1>s DEF ConfigureSound, Configuring, Lost
    <2>3. OnlyOvertakenFieldsAreLost'
      BY <1>k, <1>s DEF OnlyOvertakenFieldsAreLost, BeingConfigured, Settled, Asked
    <2> QED
      BY <2>1, <2>2, <2>3 DEF ConfigInv
  <1>1. ASSUME NEW c \in Contexts, ReadField(c) PROVE ConfigInv'
    <2>1. /\ Configuring(c) /\ job[c].todo # <<>> /\ UNCHANGED <<reg, lastCfg, overtaken>>
          /\ job' = [job EXCEPT ![c] = Job("configure", job[c].pin, job[c].cfg, job[c].todo, TRUE,
                                           reg[Head(job[c].todo)])]
      BY <1>1, <1>s DEF ReadField, Configuring, JobsWellFormed
    <2>2. /\ JobsWellFormed' /\ \A d \in Contexts : d # c => job'[d] = job[d]
          /\ job'[c].op = "configure" /\ job'[c].pin = job[c].pin /\ job'[c].cfg = job[c].cfg
          /\ job'[c].todo = job[c].todo /\ job'[c].seen = reg[Head(job[c].todo)]
      BY <1>s, <2>1 DEF JobsWellFormed, Job
    <2>4. ConfigureSound(c)'
      <3>1. /\ job[c].pin \in PinsOf(c) /\ job[c].cfg \in Configs /\ job[c].todo \in Seq(Registers)
            /\ \A r \in Elements(Plan(job[c].pin, job[c].cfg)) :
                  r \in Elements(job[c].todo) \/ reg[r][job[c].pin] = Field(r, job[c].cfg)
        BY <1>s, <2>1 DEF ConfigureSound
      <3>2. Head(job[c].todo) \in Registers
        BY <2>1, <3>1, ElementsOfTail
      <3>3. reg[Head(job[c].todo)] = [q \in Pins |-> reg[Head(job[c].todo)][q]]
        BY <1>s, <3>2 DEF RegistersWellFormed
      <3> QED
        BY <2>1, <2>2, <3>1, <3>3 DEF ConfigureSound
    <2>5. ASSUME NEW d \in Contexts, d # c PROVE ConfigureSound(d)'
      BY <1>u, <2>1, <2>2, <2>5
    <2>6. OnlyOvertakenFieldsAreLost'
      <3>1. job'[c].op = job[c].op /\ job'[c].pin = job[c].pin
        BY <2>1, <2>2 DEF Configuring
      <3>2. \A d \in Contexts : job'[d].op = job[d].op /\ job'[d].pin = job[d].pin
        BY <2>2, <3>1
      <3>3. UNCHANGED <<reg, lastCfg, overtaken>>
        BY <2>1
      <3> QED
        BY <1>s, <3>2, <3>3 DEF OnlyOvertakenFieldsAreLost, BeingConfigured, Settled, Asked
    <2> QED
      BY <1>s, <2>1, <2>2, <2>4, <2>5, <2>6 DEF ConfigInv, RegistersWellFormed
  <1>2. ASSUME NEW c \in Contexts, WriteField(c) PROVE ConfigInv'
    <2> DEFINE p == job[c].pin
               r == Head(job[c].todo)
               x == Field(r, job[c].cfg)
    <2>1. /\ Configuring(c) /\ MayRun(c) /\ job[c].read /\ UNCHANGED lastCfg
          /\ reg' = [reg EXCEPT ![r] = [job[c].seen EXCEPT ![p] = x]]
          /\ Overtakes(c, r)
          /\ job' = [job EXCEPT ![c] = Job("configure", p, job[c].cfg, Tail(job[c].todo), FALSE, 0)]
      BY <1>2, <1>s DEF WriteField, Configuring, JobsWellFormed
    <2>2. /\ p \in PinsOf(c) /\ p \in Pins /\ job[c].cfg \in Configs
          /\ job[c].todo \in Seq(Registers) /\ job[c].todo # <<>>
          /\ job[c].seen = [q \in Pins |-> job[c].seen[q]]
          /\ \A q \in Pins : job[c].seen[q] = reg[r][q] \/ (c = "main" /\ Lost(r, q))
      BY <1>s, <1>p, <2>1 DEF ConfigureSound
    <2>3. /\ r \in Registers /\ Tail(job[c].todo) \in Seq(Registers)
          /\ \A t \in Elements(job[c].todo) : t = r \/ t \in Elements(Tail(job[c].todo))
      BY <2>2, ElementsOfTail
    <2>4. /\ JobsWellFormed' /\ \A d \in Contexts : d # c => job'[d] = job[d]
          /\ job'[c].op = "configure" /\ job'[c].pin = p /\ job'[c].cfg = job[c].cfg
          /\ job'[c].todo = Tail(job[c].todo) /\ job'[c].read = FALSE
      BY <1>s, <2>1 DEF JobsWellFormed, Job
    <2>o. overtaken' = IF c = "isr" /\ MainHolds(r) THEN overtaken \cup {<<r, p>>}
                                                    ELSE overtaken \ {<<r, p>>}
      BY <2>1 DEF Overtakes
    <2> HIDE DEF p, r, x
    <2>5. /\ RegistersWellFormed'
          /\ reg'[r][p] = x
          /\ \A t \in Registers, q \in Pins : t # r => reg'[t][q] = reg[t][q]
          /\ \A q \in Pins : q # p => reg'[r][q] = reg[r][q] \/ (c = "main" /\ Lost(r, q))
      <3>1. reg' = [reg EXCEPT ![r] = [[q \in Pins |-> job[c].seen[q]] EXCEPT ![p] = x]]
        BY <2>1, <2>2
      <3> DEFINE s(q) == job[c].seen[q]
      <3>2. \A q \in Pins : s(q) = reg[r][q] \/ (c = "main" /\ Lost(r, q))
        BY <2>2
      <3>3. reg' = [reg EXCEPT ![r] = [[q \in Pins |-> s(q)] EXCEPT ![p] = x]]
        BY <3>1
      <3> HIDE DEF s
      <3>4. reg = [t \in Registers |-> [q \in Pins |-> reg[t][q]]]
        BY <1>s DEF RegistersWellFormed
      <3>5. reg' = [t \in Registers |-> [q \in Pins |->
                      IF t = r THEN IF q = p THEN x ELSE s(q) ELSE reg[t][q]]]
        BY <2>2, <2>3, <3>3, <3>4
      <3>6. RegistersWellFormed'
        BY <3>5 DEF RegistersWellFormed
      <3>7. \A t \in Registers, q \in Pins :
               reg'[t][q] = IF t = r THEN IF q = p THEN x ELSE s(q) ELSE reg[t][q]
        BY <3>5
      <3> QED
        BY <2>2, <2>3, <3>2, <3>6, <3>7
    <2>6. \A t, q : Lost(t, q) /\ q # p => Lost(t, q)'
      BY <2>o DEF Lost
    <2>7. ConfigureSound(c)'
      <3>1. \A t \in Elements(Plan(p, job[c].cfg)) :
               t \in Registers /\ (t \in Elements(job[c].todo) \/ reg[t][p] = Field(t, job[c].cfg))
        <4>1. \A t \in Elements(Plan(p, job[c].cfg)) : t \in Registers
          BY PlanIsSequence DEF Elements
        <4>2. \A t \in Elements(Plan(p, job[c].cfg)) :
                 t \in Elements(job[c].todo) \/ reg[t][p] = Field(t, job[c].cfg)
          BY <1>s, <2>1 DEF ConfigureSound, p
        <4> QED
          BY <4>1, <4>2
      <3>2. \A t \in Elements(Plan(p, job[c].cfg)) :
               t \in Elements(Tail(job[c].todo)) \/ reg'[t][p] = Field(t, job[c].cfg)
        BY <2>2, <2>3, <2>5, <3>1 DEF x
      <3> QED
        BY <2>2, <2>3, <2>4, <3>2 DEF ConfigureSound
    <2>8. ASSUME NEW d \in Contexts, d # c PROVE ConfigureSound(d)'
      <3> SUFFICES ASSUME Configuring(d) PROVE ConfigureSound(d)'
        BY <2>4, <2>8 DEF ConfigureSound, Configuring
      <3>1. c = "isr" /\ d = "main"
        BY <1>a, <1>s, <2>1, <2>8
      <3>2. job'[d] = job[d] /\ job[d].pin \in PinsOf(d) /\ job[d].pin # p /\ p \in IsrPins
        BY <1>s, <2>2, <2>4, <3>1 DEF ConfigureSound, PinsOf
      <3>3. \A t \in Registers, q \in Pins : t # r \/ q # p => reg'[t][q] = reg[t][q]
        BY <2>5, <3>1
      <3>4. \A t \in Elements(Plan(job[d].pin, job[d].cfg)) : t \in Registers
        BY PlanIsSequence DEF Elements
      <3>5. \A t \in Elements(Plan(job[d].pin, job[d].cfg)) :
               t \in Elements(job[d].todo) \/ reg'[t][job[d].pin] = Field(t, job[d].cfg)
        BY <1>s, <1>p, <3>2, <3>3, <3>4 DEF ConfigureSound
      <3>6. ASSUME job[d].read
            PROVE  \A q \in Pins :
                      \/ job[d].seen[q] = reg'[Head(job[d].todo)][q]
                      \/ q \in IsrPins /\ <<Head(job[d].todo), q>> \in overtaken'
        <4> DEFINE h == Head(job[d].todo)
        <4>1. /\ h \in Registers
              /\ \A q \in Pins : job[d].seen[q] = reg[h][q] \/ Lost(h, q)
          BY <1>s, <3>6, ElementsOfTail DEF ConfigureSound
        <4>2. h = r => <<h, p>> \in overtaken'
          BY <2>o, <3>1, <3>6 DEF MainHolds, Configuring
        <4> HIDE DEF h
        <4>3. \A q : Lost(h, q) /\ (h # r \/ q # p) => q \in IsrPins /\ <<h, q>> \in overtaken'
          BY <2>o DEF Lost
        <4>4. ASSUME NEW q \in Pins
              PROVE  \/ job[d].seen[q] = reg'[h][q]
                     \/ q \in IsrPins /\ <<h, q>> \in overtaken'
          <5>1. CASE h = r /\ q = p
            BY <3>2, <4>2, <5>1
          <5>2. CASE h # r \/ q # p
            <6>1. reg'[h][q] = reg[h][q]
              BY <3>3, <4>1, <5>2
            <6> QED
              BY <4>1, <4>3, <5>2, <6>1
          <5> QED
            BY <5>1, <5>2
        <4> QED
          BY <4>4 DEF h
      <3> QED
        BY <1>s, <3>1, <3>2, <3>5, <3>6 DEF ConfigureSound, Lost
    <2>9. OnlyOvertakenFieldsAreLost'
      <3> SUFFICES ASSUME NEW q \in Pins,
                          \A d \in Contexts : ~ (Configuring(d)' /\ job'[d].pin = q),
                          NEW t \in Settled(q)'
                   PROVE  FieldSound(t, q)'
        BY DEF OnlyOvertakenFieldsAreLost, BeingConfigured, Configuring, FieldSound, Lost
      <3>1. q # p /\ \A d \in Contexts : ~ (Configuring(d) /\ job[d].pin = q)
        BY <2>1, <2>4 DEF Configuring, p
      <3>2. t \in Settled(q) /\ Asked(t, q)' = Asked(t, q)
        BY <2>1 DEF Settled, Asked
      <3>3. t \in Registers /\ FieldSound(t, q)
        BY <1>s, <3>1, <3>2, PropertyByPin, SettledAreRegisters
      <3>4. Lost(t, q) => Lost(t, q)'
        BY <2>6, <3>1
      <3>5. reg'[t][q] = reg[t][q] \/ Lost(t, q)
        BY <2>5, <3>1, <3>3
      <3> QED
        BY <3>2, <3>3, <3>4, <3>5 DEF FieldSound
    <2> QED
      BY <1>s, <2>1, <2>4, <2>5, <2>7, <2>8, <2>9 DEF ConfigInv
  <1>3. ASSUME NEW c \in Contexts, ConfigureReturn(c) PROVE ConfigInv'
    <2> DEFINE p == job[c].pin
    <2>1. /\ Configuring(c) /\ job[c].todo = <<>> /\ UNCHANGED <<reg, overtaken>>
          /\ lastCfg' = [lastCfg EXCEPT ![p] = job[c].cfg]
          /\ job' = [job EXCEPT ![c] = Job("none", 0, NoConfig, <<>>, FALSE, 0)]
      BY <1>3 DEF ConfigureReturn, Configuring, Idle
    <2>2. /\ JobsWellFormed' /\ \A d \in Contexts : d # c => job'[d] = job[d]
          /\ job'[c].op = "none"
      BY <1>s, <2>1 DEF JobsWellFormed, Job
    <2>4. p \in Pins /\ job[c].cfg \in Configs
      BY <1>s, <1>p, <2>1 DEF ConfigureSound
    <2>5. \A t \in Elements(Plan(p, job[c].cfg)) : reg[t][p] = Field(t, job[c].cfg)
      <3>1. Elements(job[c].todo) = {}
        BY <2>1 DEF Elements
      <3> QED
        BY <1>s, <2>1, <3>1 DEF ConfigureSound
    <2>6. lastCfg' = [q \in Pins |-> lastCfg'[q]] /\ lastCfg'[p] = job[c].cfg
          /\ \A q \in Pins : q # p => lastCfg'[q] = lastCfg[q]
      BY <1>s, <2>1, <2>4
    <2>7. \A d \in Contexts : Configuring(d) /\ job[d].pin # p => Configuring(d)' /\ job'[d] = job[d]
      BY <2>2 DEF Configuring
    <2> HIDE DEF p
    <2>8. OnlyOvertakenFieldsAreLost'
      <3> SUFFICES ASSUME NEW q \in Pins,
                          \A d \in Contexts : ~ (Configuring(d)' /\ job'[d].pin = q),
                          NEW t \in Settled(q)'
                   PROVE  FieldSound(t, q)'
        BY DEF OnlyOvertakenFieldsAreLost, BeingConfigured, Configuring, FieldSound, Lost
      <3>1. CASE q = p
        BY <2>1, <2>4, <2>5, <2>6, <3>1, GpioAssumption DEF Settled, Asked, FieldSound
      <3>2. CASE q # p
        <4>1. \A d \in Contexts : ~ (Configuring(d) /\ job[d].pin = q)
          BY <2>7, <3>2
        <4>2. t \in Settled(q) /\ Asked(t, q)' = Asked(t, q)
          BY <2>6, <3>2 DEF Settled, Asked
        <4>3. FieldSound(t, q)
          BY <1>s, <4>1, <4>2, PropertyByPin
        <4> QED
          BY <2>1, <4>2, <4>3 DEF FieldSound, Lost
      <3> QED
        BY <3>1, <3>2
    <2> QED
      <3>1. ASSUME NEW d \in Contexts PROVE ConfigureSound(d)'
        <4>1. d = c => ~ Configuring(d)'
          BY <2>2 DEF Configuring
        <4> QED
          BY <1>n, <1>u, <2>1, <2>2, <4>1
      <3>2. RegistersWellFormed'
        BY <1>s, <2>1 DEF RegistersWellFormed
      <3> QED
        BY <2>2, <2>6, <2>8, <3>1, <3>2 DEF ConfigInv
  <1>4. ASSUME NEW c \in Contexts, ToggleWrite(c) PROVE ConfigInv'
    <2>1. /\ job[c].op = "toggle" /\ UNCHANGED <<reg, lastCfg, overtaken>>
          /\ job' = [job EXCEPT ![c] = Job("none", 0, NoConfig, <<>>, FALSE, 0)]
      BY <1>4 DEF ToggleWrite, Idle
    <2>2. /\ JobsWellFormed' /\ \A d \in Contexts : d # c => job'[d] = job[d]
          /\ job'[c].op = "none"
      BY <1>s, <2>1 DEF JobsWellFormed, Job
    <2> QED
      BY <1>b, <2>1, <2>2 DEF Configuring
  <1>5. ASSUME NEW c \in Contexts, NEW p \in PinsOf(c), NEW cfg \in Configs,
               ConfigureCall(c, p, cfg)
        PROVE  ConfigInv'
    <2>1. /\ ~ Busy(c) /\ UNCHANGED <<reg, lastCfg, overtaken>>
          /\ job' = [job EXCEPT ![c] = Job("configure", p, cfg, Plan(p, cfg), FALSE, 0)]
      BY <1>5 DEF ConfigureCall, Start
    <2>2. /\ JobsWellFormed' /\ \A d \in Contexts : d # c => job'[d] = job[d]
          /\ job'[c].op = "configure" /\ job'[c].pin = p /\ job'[c].cfg = cfg
          /\ job'[c].todo = Plan(p, cfg) /\ job'[c].read = FALSE
      BY <1>s, <2>1 DEF JobsWellFormed, Job
    <2>4. ~ Configuring(c)
      BY <2>1 DEF Busy, Configuring
    <2>7. ConfigureSound(c)'
      BY <2>2, PlanIsSequence DEF ConfigureSound, PinsOf
    <2>8. \A d \in Contexts : d # c => ConfigureSound(d)'
      BY <1>u, <2>1, <2>2
    <2>9. OnlyOvertakenFieldsAreLost'
      <3>1. \A q : BeingConfigured(q) => BeingConfigured(q)'
        BY <2>2, <2>4 DEF BeingConfigured, Configuring
      <3>2. \A q : Settled(q)' = Settled(q)
        BY <2>1 DEF Settled
      <3>3. \A r, q : Asked(r, q)' = Asked(r, q)
        BY <2>1 DEF Asked
      <3> QED
        BY <1>s, <2>1, <3>1, <3>2, <3>3 DEF OnlyOvertakenFieldsAreLost
    <2> QED
      BY <1>s, <2>1, <2>2, <2>7, <2>8, <2>9 DEF ConfigInv, RegistersWellFormed
  <1>6. ASSUME NEW c \in Contexts, NEW p \in PinsOf(c), NEW level \in BOOLEAN,
               Drive(c, p, level)
        PROVE  ConfigInv'
    <2>1. UNCHANGED <<reg, job, lastCfg, overtaken>>
      BY <1>6 DEF Drive
    <2> QED
      BY <2>1, <1>k
  <1>7. ASSUME NEW c \in Contexts, NEW p \in PinsOf(c), ToggleRead(c, p)
        PROVE  ConfigInv'
    <2>1. /\ ~ Busy(c) /\ UNCHANGED <<reg, lastCfg, overtaken>>
          /\ job' = [job EXCEPT ![c] = Job("toggle", p, NoConfig, <<>>, TRUE, odr)]
      BY <1>7 DEF ToggleRead, Start
    <2>2. /\ JobsWellFormed' /\ \A d \in Contexts : d # c => job'[d] = job[d]
          /\ job'[c].op = "toggle"
      BY <1>s, <2>1 DEF JobsWellFormed, Job
    <2> QED
      BY <1>b, <2>1, <2>2 DEF Configuring, Busy
  <1>8. CASE UNCHANGED vars
    <2>1. UNCHANGED <<reg, job, lastCfg, overtaken>>
      BY <1>8 DEF vars
    <2> QED
      BY <2>1, <1>k
  <1> QED BY <1>1, <1>2, <1>3, <1>4, <1>5, <1>6, <1>7, <1>8 DEF Next

(* OnlyOvertakenFieldsAreLost, whatever is called when and from where: a   *)
(* pin of main code keeps every field it was given; a pin of the ISR loses *)
(* at most the fields the ISR wrote while main was between the read and    *)
(* the write of the same register.                                         *)
THEOREM ConfigurationsStick == Spec => []OnlyOvertakenFieldsAreLost
  <1>1. ConfigInv => OnlyOvertakenFieldsAreLost
    BY DEF ConfigInv
  <1> QED BY ConfigInvInit, ConfigInvStep, <1>1, PTL DEF Spec

-----------------------------------------------------------------------------
(* uart_tx_string and uart_wait_tc: where the bytes written to DR are.     *)

Occupied(register) == IF register = 0 THEN 0 ELSE 1

(* The wire has carried the first bytes in order; the next one is in the   *)
(* shift register, or none, and the one after it in the data register;     *)
(* and nothing is written between uart_wait_tc and what the caller does    *)
(* after it.                                                               *)
TransmitInv ==
    /\ wire \in Seq(Nat)
    /\ \A i \in 1 .. Len(wire) : wire[i] = i
    /\ shift \in {0, Len(wire) + 1}
    /\ tdr \in {0, Len(wire) + Occupied(shift) + 1}
    /\ sent = Len(wire) + Occupied(shift) + Occupied(tdr)
    /\ pc = "sent" => TC

LEMMA TransmitInit == UartInit => TransmitInv
  <1> SUFFICES ASSUME UartInit PROVE TransmitInv
    OBVIOUS
  <1>1. wire = <<>> /\ shift = 0 /\ tdr = 0 /\ sent = 0 /\ pc = "off"
    BY DEF UartInit
  <1> QED BY <1>1 DEF TransmitInv, Occupied

LEMMA TransmitStep == TransmitInv /\ [UartNext]_uartVars => TransmitInv'
  <1> SUFFICES ASSUME TransmitInv, [UartNext]_uartVars PROVE TransmitInv'
    OBVIOUS
  <1>1. ASSUME UNCHANGED txVars, sent' = sent, pc' = "sent" => pc = "sent" \/ TC
        PROVE  TransmitInv'
    <2>1. UNCHANGED <<tdr, shift, wire>>
      BY <1>1 DEF txVars
    <2> QED BY <1>1, <2>1 DEF TransmitInv, Occupied, TC
  <1>2. CASE ByteArrives
    BY <1>1, <1>2 DEF ByteArrives
  <1>3. CASE ShiftRegisterLoads
    <2>1. shift = 0 /\ tdr # 0 /\ shift' = tdr /\ tdr' = 0 /\ UNCHANGED <<wire, pc, sent>>
      BY <1>3 DEF ShiftRegisterLoads
    <2>2. tdr = Len(wire) + 1 /\ sent = Len(wire) + 1 /\ pc # "sent"
      BY <2>1 DEF TransmitInv, Occupied, TC
    <2> QED BY <2>1, <2>2 DEF TransmitInv, Occupied
  <1>4. CASE ByteLeaves
    <2>1. shift # 0 /\ wire' = Append(wire, shift) /\ shift' = 0 /\ UNCHANGED <<tdr, pc, sent>>
      BY <1>4 DEF ByteLeaves
    <2>2. /\ wire \in Seq(Nat) /\ shift = Len(wire) + 1 /\ shift \in Nat
          /\ tdr \in {0, Len(wire) + 2} /\ sent = Len(wire) + 1 + Occupied(tdr)
          /\ pc # "sent"
      BY <2>1 DEF TransmitInv, Occupied, TC
    <2>3. wire' \in Seq(Nat) /\ Len(wire') = Len(wire) + 1
      BY <2>1, <2>2
    <2>4. \A i \in 1 .. Len(wire') : wire'[i] = i
      BY <2>1, <2>2, <2>3 DEF TransmitInv
    <2>5. Occupied(tdr)' = Occupied(tdr) /\ Occupied(shift)' = 0
      BY <2>1 DEF Occupied
    <2>6. Occupied(tdr) \in Nat /\ Len(wire) \in Nat
      BY <2>2 DEF Occupied
    <2> QED BY <2>1, <2>2, <2>3, <2>4, <2>5, <2>6 DEF TransmitInv
  <1>5. CASE TxByte
    <2>1. /\ tdr = 0 /\ tdr' = sent + 1 /\ sent' = sent + 1 /\ pc = "tx"
          /\ UNCHANGED <<shift, wire, pc>>
      BY <1>5 DEF TxByte, MayWrite, TXE
    <2>2. /\ wire \in Seq(Nat) /\ Len(wire) \in Nat /\ Occupied(shift) \in Nat
          /\ sent = Len(wire) + Occupied(shift) /\ shift \in {0, Len(wire) + 1}
      BY <2>1 DEF TransmitInv, Occupied
    <2>3. Occupied(shift)' = Occupied(shift) /\ Occupied(tdr)' = 1
      BY <2>1, <2>2 DEF Occupied
    <2> QED BY <2>1, <2>2, <2>3 DEF TransmitInv
  <1>6. CASE TxStringReturns \/ AfterWaitTc
    BY <1>1, <1>6 DEF TxStringReturns, AfterWaitTc
  <1>7. CASE WaitTcReturns
    BY <1>1, <1>7 DEF WaitTcReturns, WaitOver
  <1>8. CASE RxPoll \/ RxReadSr \/ RxReadDr
    BY <1>1, <1>8 DEF RxPoll, RxReadSr, RxReadDr
  <1>9. ASSUME NEW t, CallInit(t) PROVE TransmitInv'
    BY <1>1, <1>9 DEF CallInit
  <1>10. ASSUME NEW clk, NEW baud, Calculate(clk, baud) PROVE TransmitInv'
    BY <1>1, <1>10 DEF Calculate
  <1>11. ASSUME NEW t, TxString(t) PROVE TransmitInv'
    BY <1>1, <1>11 DEF TxString
  <1>12. CASE WaitTcCall \/ RxCall
    BY <1>1, <1>12 DEF WaitTcCall, RxCall
  <1>13. CASE UNCHANGED uartVars
    BY <1>1, <1>13 DEF uartVars
  <1> QED
    BY <1>2, <1>3, <1>4, <1>5, <1>6, <1>7, <1>8, <1>9, <1>10, <1>11, <1>12, <1>13
       DEF UartNext, Usart, Driver, TxPlain, TxUint32, TxHex32

(* Whatever the speed of the line, every byte goes out once and in order,  *)
(* and when uart_wait_tc has returned all of them have.                    *)
THEOREM BytesSentInOrder == UartSpec => []SentInOrder
  <1>1. TransmitInv => SentInOrder
    <2> SUFFICES ASSUME TransmitInv PROVE SentInOrder
      OBVIOUS
    <2> DEFINE first == InFlight(shift)
               second == InFlight(tdr)
    <2>1. /\ wire \in Seq(Nat) /\ Len(wire) \in Nat
          /\ first \in Seq(Nat) /\ Len(first) = Occupied(shift)
          /\ \A i \in 1 .. Len(first) : first[i] = Len(wire) + i
          /\ second \in Seq(Nat) /\ Len(second) = Occupied(tdr)
          /\ \A i \in 1 .. Len(second) : second[i] = Len(wire) + Len(first) + i
      BY DEF TransmitInv, InFlight, Occupied
    <2> HIDE DEF first, second
    <2>2. /\ wire \o first \in Seq(Nat) /\ Len(wire \o first) = Len(wire) + Len(first)
          /\ \A i \in 1 .. Len(wire) + Len(first) : (wire \o first)[i] = i
      <3>1. /\ wire \o first \in Seq(Nat) /\ Len(wire \o first) = Len(wire) + Len(first)
            /\ \A i \in 1 .. Len(wire) + Len(first) :
                  (wire \o first)[i] =
                      IF i <= Len(wire) THEN wire[i] ELSE first[i - Len(wire)]
        BY <2>1, ConcatProperties
      <3>2. \A i \in 1 .. Len(wire) : wire[i] = i
        BY DEF TransmitInv
      <3>3. Len(first) \in Nat
        BY <2>1
      <3> QED BY <2>1, <3>1, <3>2, <3>3
    <2> DEFINE all == wire \o first
    <2> HIDE DEF all
    <2>3. /\ all \in Seq(Nat) /\ Len(all) = Len(wire) + Len(first)
          /\ \A i \in 1 .. Len(all) : all[i] = i
      BY <2>2 DEF all
    <2>4. /\ all \o second \in Seq(Nat) /\ Len(all \o second) = Len(all) + Len(second)
          /\ \A i \in 1 .. Len(all) + Len(second) : (all \o second)[i] = i
      <3>1. /\ all \o second \in Seq(Nat) /\ Len(all \o second) = Len(all) + Len(second)
            /\ \A i \in 1 .. Len(all) + Len(second) :
                  (all \o second)[i] =
                      IF i <= Len(all) THEN all[i] ELSE second[i - Len(all)]
        BY <2>1, <2>3, ConcatProperties
      <3>2. ASSUME NEW i \in 1 .. Len(all) + Len(second)
            PROVE  (all \o second)[i] = i
        <4>1. Len(all) \in Nat /\ Len(second) \in Nat
          BY <2>1, <2>3, LenProperties
        <4>2. CASE i <= Len(all)
          BY <2>3, <3>1, <4>1, <4>2
        <4>3. CASE ~ (i <= Len(all))
          <5>1. i - Len(all) \in 1 .. Len(second)
            BY <4>1, <4>3
          <5>2. second[i - Len(all)] = Len(all) + (i - Len(all))
            BY <2>1, <2>3, <5>1
          <5> QED BY <3>1, <4>1, <4>3, <5>2
        <4> QED BY <4>2, <4>3
      <3> QED BY <3>1, <3>2
    <2>5. sent = Len(all) + Len(second) /\ sent \in Nat
      BY <2>1, <2>3 DEF TransmitInv
    <2>6. all \o second = [i \in 1 .. sent |-> i]
      <3> DEFINE numbers == [i \in 1 .. sent |-> i]
      <3>1. numbers \in Seq(Nat) /\ Len(numbers) = sent
        BY <2>5
      <3>2. \A i \in 1 .. Len(all \o second) : (all \o second)[i] = numbers[i]
        BY <2>4, <2>5
      <3> HIDE DEF numbers
      <3>3. all \o second = numbers
        BY <2>4, <2>5, <3>1, <3>2, SeqEqual
      <3> QED BY <3>3 DEF numbers
    <2>7. ASSUME pc = "sent" PROVE Len(wire) = sent
      BY <2>1, <2>7 DEF TransmitInv, TC, Occupied
    <2> QED BY <2>6, <2>7 DEF SentInOrder, first, second, all
  <1> QED BY TransmitInit, TransmitStep, <1>1, PTL DEF UartSpec
-----------------------------------------------------------------------------
(* uart_rx_byte: what the flags say about the bytes that have arrived.     *)

(* Without an overrun or an error not yet followed up, the byte in DR, or  *)
(* the next one to arrive, is the one that is expected; without an overrun *)
(* nothing arrived after the byte in DR.  An overrun that happens after    *)
(* the read of SR stays for the next call.                                 *)
ReceiveInv ==
    /\ {arrived, rdr, next} \subseteq Nat
    /\ warned \in BOOLEAN /\ silent \in BOOLEAN
    /\ pc \in {"sr", "dr"} => "RXNE" \in flags
    /\ "RXNE" \in flags /\ "ORE" \notin flags => rdr = arrived
    /\ "RXNE" \in flags /\ "ORE" \notin flags /\ ~ warned => rdr = next
    /\ "RXNE" \notin flags /\ "ORE" \notin flags /\ ~ warned => next = arrived + 1
    /\ pc = "dr" /\ "ORE" \notin sr /\ ~ warned => rdr = next
    /\ ~ silent

LEMMA ReceiveInit == UartInit => ReceiveInv
  <1> SUFFICES ASSUME UartInit PROVE ReceiveInv
    OBVIOUS
  <1>1. /\ flags = {} /\ rdr = 0 /\ arrived = 0 /\ pc = "off"
        /\ next = 1 /\ warned = FALSE /\ silent = FALSE
    BY DEF UartInit
  <1>2. warned \in BOOLEAN /\ silent \in BOOLEAN /\ ~ silent
    BY <1>1
  <1>3. "RXNE" \notin flags /\ pc \notin {"sr", "dr"}
    BY <1>1
  <1>4. {arrived, rdr, next} \subseteq Nat /\ next = arrived + 1
    BY <1>1
  <1> QED BY <1>2, <1>3, <1>4 DEF ReceiveInv

LEMMA ReceiveStep == ReceiveInv /\ [UartNext]_uartVars => ReceiveInv'
  <1> SUFFICES ASSUME ReceiveInv, [UartNext]_uartVars PROVE ReceiveInv'
    OBVIOUS
  <1>1. ASSUME UNCHANGED rxVars, UNCHANGED <<next, warned, silent>>,
               pc' \notin {"sr", "dr"}
        PROVE  ReceiveInv'
    BY <1>1 DEF ReceiveInv, rxVars
  <1>2. ASSUME UNCHANGED <<rxVars, pc, sr, next, warned, silent>>
        PROVE  ReceiveInv'
    BY <1>2 DEF ReceiveInv, rxVars
  <1>3. CASE ByteArrives
    <2>1. arrived' = arrived + 1 /\ UNCHANGED <<pc, sr, next, warned, silent>>
      BY <1>3 DEF ByteArrives, rxHist
    <2>2. CASE "RXNE" \in flags
      <3>1. flags' = flags \cup {"ORE"} /\ rdr' = rdr
        BY <1>3, <2>2 DEF ByteArrives
      <3> QED BY <2>1, <2>2, <3>1 DEF ReceiveInv
    <2>3. CASE "RXNE" \notin flags
      <3>1. PICK errs \in SUBSET {"FE", "NF"} : flags' = flags \cup {"RXNE"} \cup errs
        BY <1>3, <2>3 DEF ByteArrives
      <3>2. rdr' = arrived + 1 /\ "RXNE" \in flags' /\ ("ORE" \in flags' <=> "ORE" \in flags)
        BY <1>3, <2>3, <3>1 DEF ByteArrives
      <3> QED BY <2>1, <2>3, <3>2 DEF ReceiveInv
    <2> QED BY <2>2, <2>3
  <1>4. CASE ShiftRegisterLoads \/ ByteLeaves \/ TxByte
    BY <1>2, <1>4 DEF ShiftRegisterLoads, ByteLeaves, TxByte, rxHist
  <1>5. CASE TxStringReturns \/ WaitTcReturns \/ AfterWaitTc \/ WaitTcCall \/ RxCall
    BY <1>1, <1>5 DEF TxStringReturns, WaitTcReturns, AfterWaitTc, WaitTcCall, RxCall, rxHist
  <1>6. CASE RxPoll
    <2>1. UNCHANGED <<rxVars, sr, next, warned, silent>> /\ pc = "rx"
          /\ \/ pc' = "sr" /\ "RXNE" \in flags
             \/ pc' \in {"idle", "rx"}
      BY <1>6 DEF RxPoll, rxHist
    <2> QED BY <2>1 DEF ReceiveInv, rxVars
  <1>7. CASE RxReadSr
    <2>1. /\ UNCHANGED <<rxVars, next, warned, silent>>
          /\ pc = "sr" /\ pc' = "dr" /\ sr' = flags
      BY <1>7 DEF RxReadSr, rxHist
    <2> QED BY <2>1 DEF ReceiveInv, rxVars
  <1>8. CASE RxReadDr
    <2>1. /\ pc = "dr" /\ pc' = "idle" /\ flags' = flags \ (sr \cup {"RXNE"})
          /\ next' = rdr + 1 /\ UNCHANGED <<rdr, arrived>>
          /\ warned' = (RxErrors # {})
          /\ silent' = (silent \/ (RxErrors = {} /\ rdr # next /\ ~ warned))
      BY <1>8 DEF RxReadDr
    <2>2. warned' \in BOOLEAN /\ silent' \in BOOLEAN
      BY <2>1, Zenon
    <2>3. ASSUME RxErrors = {} PROVE "ORE" \notin sr
      BY <2>3 DEF RxErrors
    <2>4. ~ silent'
      <3>1. ~ (RxErrors = {} /\ rdr # next /\ ~ warned)
        BY <2>1, <2>3 DEF ReceiveInv
      <3> QED BY <2>1, <3>1 DEF ReceiveInv
    <2>5. ASSUME "ORE" \notin flags', ~ warned' PROVE next' = arrived' + 1
      <3>1. RxErrors = {}
        BY <2>1, <2>5
      <3>2. "ORE" \notin flags /\ "RXNE" \in flags
        BY <2>1, <2>3, <2>5, <3>1 DEF ReceiveInv
      <3> QED BY <2>1, <3>2 DEF ReceiveInv
    <2>6. "RXNE" \notin flags'
      BY <2>1
    <2> QED BY <2>1, <2>2, <2>4, <2>5, <2>6 DEF ReceiveInv
  <1>9. ASSUME NEW t, CallInit(t) PROVE ReceiveInv'
    BY <1>1, <1>9 DEF CallInit, rxHist
  <1>10. ASSUME NEW clk, NEW baud, Calculate(clk, baud) PROVE ReceiveInv'
    BY <1>2, <1>10 DEF Calculate, rxHist
  <1>11. ASSUME NEW t, TxString(t) PROVE ReceiveInv'
    BY <1>1, <1>11 DEF TxString, rxHist
  <1>12. CASE UNCHANGED uartVars
    BY <1>2, <1>12 DEF uartVars, rxHist
  <1> QED
    BY <1>3, <1>4, <1>5, <1>6, <1>7, <1>8, <1>9, <1>10, <1>11, <1>12
       DEF UartNext, Usart, Driver, TxPlain, TxUint32, TxHex32

(* However many bytes arrive between the accesses of uart_rx_byte, none is *)
(* lost between two that are returned with UART_OK.                        *)
THEOREM LossIsReported == UartSpec => []NoSilentLoss
  <1>1. ReceiveInv => NoSilentLoss
    BY DEF ReceiveInv, NoSilentLoss
  <1> QED BY ReceiveInit, ReceiveStep, <1>1, PTL DEF UartSpec
-----------------------------------------------------------------------------
(* uart_tx_uint32, uart_tx_hex32 and uart_calc_brr: what they compute.     *)

(* What the loops over k places are for: digits that denote the value, all *)
(* of them or without a leading zero.                                      *)
Converted(digits, base, value, k, padded) ==
    /\ digits \in Seq(Nat)
    /\ Numeral(digits, base) = value
    /\ padded => Len(digits) = k
    /\ ~ padded /\ value > 0 => Len(digits) > 0 /\ digits[1] # 0

(* The powers of a base, each from the one before it.                      *)
LEMMA PowersRecurs ==
    ASSUME NEW base \in Nat, NEW n \in Nat
    PROVE  /\ Powers(base, n) \in [0 .. n -> Nat]
           /\ Powers(base, n)[0] = 1
           /\ \A i \in 1 .. n : Powers(base, n)[i] = base * Powers(base, n)[i - 1]
  <1> DEFINE step == [i \in 1 .. n |-> [p \in Nat |-> base * p]]
             Eq(p) == p = [i \in 0 .. n |-> IF i = 0 THEN 1 ELSE base * p[i - 1]]
             P == Powers(base, n)
  <1>1. PICK f \in [0 .. n -> Nat] : Recurs(f, 1, step, n)
    <2>1. step \in [1 .. n -> [Nat -> Nat]] /\ 1 \in Nat
      OBVIOUS
    <2> HIDE DEF step
    <2> QED BY <2>1, RecursionExists
  <1>2. \A i \in 1 .. n : f[i] = base * f[i - 1]
    <2>1. ASSUME NEW i \in 1 .. n PROVE f[i] = base * f[i - 1]
      <3>1. f[i - 1] \in Nat /\ i \in 1 .. n
        OBVIOUS
      <3>2. f[i] = step[i][f[i - 1]]
        BY <1>1 DEF Recurs
      <3> QED BY <3>1, <3>2
    <2> QED BY <2>1
  <1>3. Eq(f)
    BY <1>1, <1>2 DEF Recurs
  <1>4. Eq(P)
    <2>1. P = CHOOSE p : Eq(p)
      BY DEF Powers
    <2> HIDE DEF Eq, P
    <2> QED BY <1>3, <2>1
  <1> HIDE DEF P
  <1>5. P[0] = 1 /\ \A i \in 1 .. n : P[i] = base * P[i - 1]
    BY <1>4
  <1>6. \A i \in 0 .. n : P[i] \in Nat
    <2> DEFINE T == {i \in 0 .. n : P[i] \in Nat}
    <2>1. 0 \in T /\ \A i \in 1 .. n : i - 1 \in T => i \in T
      BY <1>5
    <2> HIDE DEF T
    <2>2. \A i \in 0 .. n : i \in T
      BY <2>1, InductUpto
    <2> QED BY <2>2 DEF T
  <1>7. P \in [0 .. n -> Nat]
    BY <1>4, <1>6
  <1> QED BY <1>5, <1>7 DEF P

(* A power does not depend on how far the powers are computed.             *)
LEMMA PowerRecurs ==
    ASSUME NEW base \in Nat, NEW n \in Nat
    PROVE  /\ Power(base, n) \in Nat /\ Power(base, 0) = 1
           /\ n > 0 => Power(base, n) = base * Power(base, n - 1)
  <1> DEFINE f == Powers(base, n)
             g == Powers(base, n - 1)
  <1>0. Power(base, 0) = 1
    BY PowersRecurs DEF Power
  <1>1. /\ f \in [0 .. n -> Nat] /\ f[0] = 1
        /\ \A i \in 1 .. n : f[i] = base * f[i - 1]
    BY PowersRecurs
  <1>2. CASE n > 0
    <2>1. /\ g[0] = 1
          /\ \A i \in 1 .. n - 1 : g[i] = base * g[i - 1]
      <3>1. n - 1 \in Nat
        BY <1>2
      <3> QED BY <3>1, PowersRecurs
    <2> HIDE DEF f, g
    <2> DEFINE T == {i \in 0 .. n - 1 : g[i] = f[i]}
    <2>2. 0 \in T
      BY <1>1, <1>2, <2>1
    <2>3. ASSUME NEW i \in 1 .. n - 1, i - 1 \in T PROVE i \in T
      <3>1. i \in 1 .. n /\ i \in 0 .. n - 1
        BY <1>2
      <3>2. f[i] = base * f[i - 1] /\ g[i] = base * g[i - 1]
        BY <1>1, <2>1, <3>1
      <3>3. g[i - 1] = f[i - 1]
        BY <2>3
      <3> QED BY <3>1, <3>2, <3>3
    <2>4. n - 1 \in Nat /\ \A i \in 1 .. n - 1 : i - 1 \in T => i \in T
      BY <1>2, <2>3
    <2>5. \A i \in 0 .. n - 1 : i \in T
      <3> HIDE DEF T
      <3> QED BY <2>2, <2>4, InductUpto
    <2>6. g[n - 1] = f[n - 1] /\ f[n] = base * f[n - 1]
      BY <1>1, <1>2, <2>5
    <2>7. f[n] \in Nat
      BY <1>1
    <2> QED BY <1>0, <2>6, <2>7 DEF Power, f, g
  <1>3. CASE ~ (n > 0)
    BY <1>0, <1>3
  <1> QED BY <1>2, <1>3

(* The values of the beginnings of a string of digits.                     *)
LEMMA ValuesRecurs ==
    ASSUME NEW w \in Seq(Nat), NEW base \in Nat
    PROVE  /\ Values(w, base) \in [0 .. Len(w) -> Nat]
           /\ Values(w, base)[0] = 0
           /\ \A i \in 1 .. Len(w) : Values(w, base)[i] = Values(w, base)[i - 1] * base + w[i]
  <1> DEFINE n == Len(w)
             step == [i \in 1 .. n |-> [p \in Nat |-> p * base + w[i]]]
             Eq(p) == p = [i \in 0 .. n |-> IF i = 0 THEN 0 ELSE p[i - 1] * base + w[i]]
             P == Values(w, base)
  <1>a. n \in Nat /\ \A i \in 1 .. n : w[i] \in Nat
    OBVIOUS
  <1>b. \A a, b, c \in Nat : a * b + c \in Nat
    OBVIOUS
  <1>1. PICK f \in [0 .. n -> Nat] : Recurs(f, 0, step, n)
    <2>1. step \in [1 .. n -> [Nat -> Nat]] /\ 0 \in Nat
      BY <1>a, <1>b
    <2> HIDE DEF step, n
    <2> QED BY <1>a, <2>1, RecursionExists
  <1>2. \A i \in 1 .. n : f[i] = f[i - 1] * base + w[i]
    <2>1. ASSUME NEW i \in 1 .. n PROVE f[i] = f[i - 1] * base + w[i]
      <3>0. i - 1 \in 0 .. n
        BY <1>a
      <3>1. f[i - 1] \in Nat /\ i \in 1 .. n
        BY <3>0
      <3>2. f[i] = step[i][f[i - 1]]
        BY <1>1 DEF Recurs
      <3> QED BY <3>1, <3>2
    <2> QED BY <2>1
  <1>3. Eq(f)
    BY <1>1, <1>2 DEF Recurs
  <1>4. Eq(P)
    <2>1. P = CHOOSE p : Eq(p)
      BY DEF Values
    <2> HIDE DEF Eq, P
    <2> QED BY <1>3, <2>1
  <1> HIDE DEF P, n
  <1>5. P[0] = 0 /\ \A i \in 1 .. n : P[i] = P[i - 1] * base + w[i]
    BY <1>4, <1>a
  <1>6. \A i \in 0 .. n : P[i] \in Nat
    <2> DEFINE T == {i \in 0 .. n : P[i] \in Nat}
    <2>1. 0 \in T
      BY <1>5, <1>a
    <2>2. ASSUME NEW i \in 1 .. n, i - 1 \in T PROVE i \in T
      <3>1. P[i] = P[i - 1] * base + w[i] /\ P[i - 1] \in Nat /\ w[i] \in Nat
        BY <1>5, <1>a, <2>2
      <3>2. P[i - 1] * base + w[i] \in Nat
        BY <1>b, <3>1, Zenon
      <3>3. P[i] \in Nat
        BY <3>1, <3>2, Zenon
      <3>4. i \in 0 .. n
        BY <1>a
      <3> QED BY <3>3, <3>4
    <2>3. \A i \in 0 .. n : i \in T
      <3>1. \A i \in 1 .. n : i - 1 \in T => i \in T
        BY <2>2
      <3> HIDE DEF T
      <3> QED BY <1>a, <2>1, <3>1, InductUpto
    <2> QED BY <2>3 DEF T
  <1>7. P \in [0 .. n -> Nat]
    BY <1>4, <1>6
  <1> QED BY <1>5, <1>7 DEF P, n

(* A digit more: the value so far moves up by one place.                   *)
LEMMA NumeralOfAppend ==
    ASSUME NEW w \in Seq(Nat), NEW x \in Nat, NEW base \in Nat
    PROVE  /\ Numeral(Append(w, x), base) = Numeral(w, base) * base + x
           /\ Numeral(w, base) \in Nat
  <1> DEFINE v == Append(w, x)
             n == Len(w)
             f == Values(w, base)
             g == Values(v, base)
             T == {i \in 0 .. n : g[i] = f[i]}
  <1>1. /\ v \in Seq(Nat) /\ Len(v) = n + 1 /\ v[n + 1] = x
        /\ \A i \in 1 .. n : v[i] = w[i]
        /\ n \in Nat
    BY AppendProperties
  <1>2. /\ f \in [0 .. n -> Nat]
        /\ f[0] = 0 /\ \A i \in 1 .. n : f[i] = f[i - 1] * base + w[i]
        /\ g[0] = 0 /\ \A i \in 1 .. n + 1 : g[i] = g[i - 1] * base + v[i]
    <2>1. /\ f \in [0 .. n -> Nat] /\ f[0] = 0
          /\ \A i \in 1 .. n : f[i] = f[i - 1] * base + w[i]
      BY ValuesRecurs
    <2> HIDE DEF v
    <2>2. g[0] = 0 /\ \A i \in 1 .. Len(v) : g[i] = g[i - 1] * base + v[i]
      BY <1>1, ValuesRecurs
    <2> QED BY <1>1, <2>1, <2>2
  <1> HIDE DEF f, g, v, n
  <1>3. \A i \in 0 .. n : i \in T
    <2>1. 0 \in T
      BY <1>1, <1>2
    <2>2. ASSUME NEW i \in 1 .. n, i - 1 \in T PROVE i \in T
      <3>1. i \in 1 .. n + 1 /\ i \in 0 .. n /\ v[i] = w[i]
        BY <1>1
      <3>2. g[i] = g[i - 1] * base + w[i] /\ f[i] = f[i - 1] * base + w[i]
        BY <1>2, <3>1
      <3> QED BY <2>2, <3>1, <3>2
    <2>3. \A i \in 1 .. n : i - 1 \in T => i \in T
      BY <2>2
    <2> HIDE DEF T
    <2> QED BY <1>1, <2>1, <2>3, InductUpto
  <1>4. g[n + 1] = g[n] * base + x /\ g[n] = f[n] /\ f[n] \in Nat
    <2>1. n \in 0 .. n /\ n + 1 \in 1 .. n + 1 /\ (n + 1) - 1 = n
      BY <1>1
    <2>2. n \in T /\ f[n] \in Nat
      BY <1>2, <1>3, <2>1
    <2>3. g[n + 1] = g[(n + 1) - 1] * base + v[n + 1]
      BY <1>2, <2>1
    <2> QED
      BY <1>1, <2>1, <2>2, <2>3
  <1> QED BY <1>1, <1>4 DEF Numeral, f, g, v, n

(* What a loop over some number of places computes.                        *)
Conversions == [Nat -> Seq(Nat)]

(* The loop over k places: nothing without a place, otherwise the loop     *)
(* over one place less and a digit more.                                   *)
LoopEquations(D, base, places, padded) ==
    /\ \A k \in 0 .. places : D[k] \in Conversions
    /\ \A value \in Nat : D[0][value] = <<>>
    /\ \A k \in 1 .. places, value \in Nat :
         D[k][value] = IF padded \/ value > 0
                       THEN Append(D[k - 1][value \div base], value % base)
                       ELSE <<>>

LEMMA DigitLoopsRecur ==
    ASSUME NEW base \in Nat \ {0}, NEW places \in Nat, NEW padded \in BOOLEAN
    PROVE  LoopEquations(DigitLoops(base, places, padded), base, places, padded)
  <1> DEFINE body(g) == [value \in Nat |-> IF padded \/ value > 0
                                           THEN Append(g[value \div base], value % base)
                                           ELSE <<>>]
             step == [k \in 1 .. places |-> [g \in Conversions |-> body(g)]]
             none == [value \in Nat |-> <<>>]
             pass(f, k) == [value \in Nat |->
                              IF k > 0 /\ (padded \/ value > 0)
                              THEN Append(f[k - 1][value \div base], value % base)
                              ELSE <<>>]
             Eq(f) == f = [k \in 0 .. places |-> pass(f, k)]
             D == DigitLoops(base, places, padded)
  <1>1. \A value \in Nat : value \div base \in Nat /\ value % base \in Nat
    OBVIOUS
  <1>2. none \in Conversions
    BY DEF Conversions
  <1>3. ASSUME NEW g \in Conversions PROVE body(g) \in Conversions
    <2>1. \A value \in Nat : Append(g[value \div base], value % base) \in Seq(Nat)
      BY <1>1, AppendProperties DEF Conversions
    <2>2. <<>> \in Seq(Nat)
      OBVIOUS
    <2>3. \A value \in Nat : body(g)[value] \in Seq(Nat)
      BY <2>1, <2>2
    <2> QED BY <2>3 DEF Conversions
  <1>4. /\ \A f : pass(f, 0) = none
        /\ \A f : \A k \in 1 .. places : pass(f, k) = body(f[k - 1])
    OBVIOUS
  <1> HIDE DEF pass, body, none
  <1>5. PICK f \in [0 .. places -> Conversions] : Recurs(f, none, step, places)
    <2>1. step \in [1 .. places -> [Conversions -> Conversions]]
      BY <1>3
    <2> HIDE DEF step
    <2> QED BY <1>2, <2>1, RecursionExists
  <1>6. Eq(f)
    <2>1. ASSUME NEW k \in 0 .. places PROVE f[k] = pass(f, k)
      <3>1. CASE k = 0
        BY <1>4, <1>5, <3>1 DEF Recurs
      <3>2. CASE k # 0
        <4>1. k \in 1 .. places /\ k - 1 \in 0 .. places
          BY <3>2
        <4>2. f[k] = step[k][f[k - 1]] /\ f[k - 1] \in Conversions
          BY <1>5, <4>1 DEF Recurs
        <4>3. f[k] = body(f[k - 1])
          BY <4>1, <4>2
        <4> QED BY <1>4, <4>1, <4>3
      <3> QED BY <3>1, <3>2
    <2>2. f = [k \in 0 .. places |-> f[k]]
      OBVIOUS
    <2> QED BY <2>1, <2>2
  <1>7. Eq(D)
    <2>1. D = CHOOSE g : Eq(g)
      BY DEF DigitLoops, pass
    <2> HIDE DEF Eq
    <2> QED BY <1>6, <2>1
  <1> HIDE DEF D
  <1>8. /\ D[0] = none
        /\ \A k \in 1 .. places : D[k] = body(D[k - 1])
    <2>1. \A k \in 0 .. places : D[k] = pass(D, k)
      BY <1>7
    <2>2. D[0] = none
      BY <1>4, <2>1
    <2>3. ASSUME NEW k \in 1 .. places PROVE D[k] = body(D[k - 1])
      BY <1>4, <2>1
    <2> QED BY <2>2, <2>3
  <1>9. \A k \in 0 .. places : D[k] \in Conversions
    <2> DEFINE T == {k \in 0 .. places : D[k] \in Conversions}
    <2>1. 0 \in T
      BY <1>2, <1>8
    <2>2. \A k \in 1 .. places : k - 1 \in T => k \in T
      BY <1>3, <1>8
    <2>3. \A k \in 0 .. places : k \in T
      <3> HIDE DEF T
      <3> QED BY <2>1, <2>2, InductUpto
    <2> QED BY <2>3
  <1>10. ASSUME NEW k \in 1 .. places, NEW value \in Nat
         PROVE  D[k][value] = IF padded \/ value > 0
                              THEN Append(D[k - 1][value \div base], value % base)
                              ELSE <<>>
    <2>1. D[k] = body(D[k - 1])
      BY <1>8
    <2> QED BY <2>1 DEF body
  <1>11. \A value \in Nat : D[0][value] = <<>>
    BY <1>8 DEF none
  <1>12. LoopEquations(D, base, places, padded)
    BY <1>9, <1>10, <1>11 DEF LoopEquations
  <1> QED BY <1>12 DEF D

(* By induction on the places: a number that fits in them is converted.    *)
LEMMA LoopsConvert ==
    ASSUME NEW base \in Nat, base > 1, NEW places \in Nat, NEW padded \in BOOLEAN,
           NEW k \in 0 .. places, NEW value \in Nat, value < Power(base, k)
    PROVE  Converted(DigitLoops(base, places, padded)[k][value], base, value, k, padded)
  <1> DEFINE D == DigitLoops(base, places, padded)
             Good(j, v) == Converted(D[j][v], base, v, j, padded)
             T == {j \in 0 .. places : \A v \in Nat : v < Power(base, j) => Good(j, v)}
  <1>1. /\ \A j \in 0 .. places : D[j] \in Conversions
        /\ \A v \in Nat : D[0][v] = <<>>
        /\ \A j \in 1 .. places, v \in Nat :
             D[j][v] = IF padded \/ v > 0
                       THEN Append(D[j - 1][v \div base], v % base)
                       ELSE <<>>
    <2>1. base \in Nat \ {0}
      OBVIOUS
    <2>2. LoopEquations(D, base, places, padded)
      BY <2>1, DigitLoopsRecur, Zenon
    <2> HIDE DEF D
    <2> QED BY <2>2 DEF LoopEquations
  <1> HIDE DEF D
  <1>2. <<>> \in Seq(Nat) /\ Len(<<>>) = 0 /\ Numeral(<<>>, base) = 0
    <2>1. <<>> \in Seq(Nat) /\ Len(<<>>) = 0
      OBVIOUS
    <2>2. Values(<<>>, base)[0] = 0
      BY <2>1, ValuesRecurs
    <2> QED BY <2>1, <2>2 DEF Numeral
  <1>3. 0 \in T
    <2>1. ASSUME NEW v \in Nat, v < Power(base, 0) PROVE Good(0, v)
      <3>1. v = 0
        BY <2>1, PowerRecurs
      <3>2. D[0][v] = <<>>
        BY <1>1
      <3>3. Numeral(D[0][v], base) = v
        BY <1>2, <3>1, <3>2, Zenon
      <3> QED BY <1>2, <3>1, <3>2, <3>3 DEF Converted
    <2> HIDE DEF Good
    <2> QED BY <2>1
  <1>4. ASSUME NEW j \in 1 .. places, j - 1 \in T PROVE j \in T
    <2>1. ASSUME NEW v \in Nat, v < Power(base, j) PROVE Good(j, v)
      <3> DEFINE q == v \div base
                 r == v % base
                 s == D[j - 1][q]
      <3>1. q \in Nat /\ r \in Nat /\ v = q * base + r
        OBVIOUS
      <3>2. q < Power(base, j - 1)
        <4>1. j \in Nat /\ j > 0 /\ j - 1 \in Nat
          OBVIOUS
        <4>2. Power(base, j) = base * Power(base, j - 1) /\ Power(base, j - 1) \in Nat
          BY <4>1, PowerRecurs
        <4>3. q * base <= v
          BY <3>1
        <4> HIDE DEF q
        <4>4. \A a, b, c, d \in Nat : a * d <= b /\ b < d * c => a < c
          <5> SUFFICES ASSUME NEW a \in Nat, NEW b \in Nat, NEW c \in Nat, NEW d \in Nat,
                              a * d <= b, b < d * c, c <= a
                       PROVE  FALSE
            OBVIOUS
          <5>1. c * d <= a * d
            OBVIOUS
          <5> QED BY <5>1
        <4> QED BY <2>1, <3>1, <4>2, <4>3, <4>4
      <3>3. Good(j - 1, q)
        BY <1>4, <3>1, <3>2
      <3>4. CASE padded \/ v > 0
        <4>1. D[j][v] = Append(s, r)
          BY <1>1, <3>4
        <4>2. s \in Seq(Nat) /\ Numeral(s, base) = q
          BY <3>3 DEF Converted
        <4>3. Numeral(Append(s, r), base) = v
          <5> HIDE DEF q, r, s
          <5>1. Numeral(Append(s, r), base) = Numeral(s, base) * base + r
            BY <3>1, <4>2, NumeralOfAppend
          <5> QED BY <3>1, <4>2, <5>1
        <4>4. /\ Append(s, r) \in Seq(Nat) /\ Len(Append(s, r)) = Len(s) + 1
              /\ Len(s) > 0 => Append(s, r)[1] = s[1]
              /\ Len(s) = 0 => Append(s, r)[1] = r
          <5> HIDE DEF q, r, s
          <5> QED BY <3>1, <4>2, AppendProperties
        <4>5. padded => Len(Append(s, r)) = j
          BY <3>3, <4>4 DEF Converted
        <4>6. ASSUME ~ padded, v > 0 PROVE Append(s, r)[1] # 0
          <5>1. CASE q > 0
            BY <3>3, <4>4, <4>6, <5>1 DEF Converted
          <5>2. CASE q = 0
            <6>1. r = v /\ s = <<>>
              <7>1. r = v
                BY <3>1, <5>2
              <7>2. ASSUME j - 1 = 0 PROVE s = <<>>
                BY <1>1, <3>1, <7>2
              <7>3. ASSUME j - 1 # 0 PROVE s = <<>>
                <8>1. j - 1 \in 1 .. places /\ ~ (q > 0)
                  BY <5>2, <7>3
                <8> HIDE DEF q
                <8>2. D[j - 1][q] = <<>>
                  BY <1>1, <3>1, <4>6, <8>1
                <8> QED BY <8>2
              <7>4. s = <<>>
                BY <7>2, <7>3
              <7> QED BY <7>1, <7>4
            <6> QED BY <4>4, <4>6, <6>1
          <5> QED BY <3>1, <5>1, <5>2
        <4>7. Len(Append(s, r)) > 0
          BY <4>2, <4>4
        <4> QED BY <4>1, <4>3, <4>4, <4>5, <4>6, <4>7 DEF Converted
      <3>5. CASE ~ (padded \/ v > 0)
        <4>1. v = 0 /\ ~ padded
          BY <3>5
        <4>2. D[j][v] = <<>>
          BY <1>1, <3>5
        <4>3. ~ (v > 0)
          BY <4>1
        <4> QED BY <1>2, <4>1, <4>2, <4>3, Zenon DEF Converted
      <3> QED BY <3>4, <3>5
    <2> HIDE DEF Good
    <2> QED BY <2>1
  <1>5. \A j \in 0 .. places : j \in T
    <2> HIDE DEF T
    <2>1. \A j \in 1 .. places : j - 1 \in T => j \in T
      BY <1>4
    <2> QED BY <1>3, <2>1, InductUpto
  <1>6. Good(k, value)
    BY <1>5
  <1> QED BY <1>6 DEF D

(* The two loops there are.                                                *)
LEMMA PaddedLoopsConvert ==
    ASSUME NEW base \in Nat, base > 1, NEW places \in Nat,
           NEW value \in Nat, value < Power(base, places)
    PROVE  Converted(DigitLoops(base, places, TRUE)[places][value], base, value, places, TRUE)
  <1> DEFINE padded == TRUE
  <1>1. places \in 0 .. places /\ padded \in BOOLEAN
    OBVIOUS
  <1> HIDE DEF padded
  <1>2. Converted(DigitLoops(base, places, padded)[places][value], base, value, places, padded)
    BY <1>1, LoopsConvert, Zenon
  <1> QED BY <1>2 DEF padded

LEMMA PlainLoopsConvert ==
    ASSUME NEW base \in Nat, base > 1, NEW places \in Nat,
           NEW value \in Nat, value < Power(base, places)
    PROVE  Converted(DigitLoops(base, places, FALSE)[places][value], base, value, places, FALSE)
  <1> DEFINE padded == FALSE
  <1>1. places \in 0 .. places /\ padded \in BOOLEAN
    OBVIOUS
  <1> HIDE DEF padded
  <1>2. Converted(DigitLoops(base, places, padded)[places][value], base, value, places, padded)
    BY <1>1, LoopsConvert, Zenon
  <1> QED BY <1>2 DEF padded

(* A uint32_t is a natural number below WordMod.                           *)
LEMMA WordModIsNat == WordMod \in Nat
  <1>1. \A n \in Nat : n * n \in Nat
    OBVIOUS
  <1> QED BY <1>1, WidthAssumption

(* uart_tx_uint32 and uart_tx_hex32: the buffers have room for every       *)
(* uint32_t, so the string denotes the number; without a leading zero the  *)
(* one, with all its digits the other.                                     *)
LEMMA DecimalConverts ==
    ASSUME NEW v \in Numbers
    PROVE  /\ Numeral(Decimal(v), 10) = v /\ Len(Decimal(v)) > 0
           /\ v # 0 => Head(Decimal(v)) # 0
  <1>1. v \in Nat /\ Decimals \in Nat /\ v < Power(10, Decimals)
    <2>1. Decimals \in Nat /\ WordMod \in Nat /\ Power(10, Decimals) \in Nat
      BY WordModIsNat, RoomAssumption, PowerRecurs
    <2>2. v \in Nat /\ v < WordMod
      BY UartAssumption, <2>1
    <2> QED BY <2>1, <2>2, RoomAssumption
  <1>2. CASE v = 0
    <2>1. Decimal(v) = Append(<<>>, 0) /\ <<>> \in Seq(Nat) /\ 0 \in Nat
      BY <1>2 DEF Decimal
    <2>2. Numeral(<<>>, 10) = 0
      <3>1. <<>> \in Seq(Nat) /\ Len(<<>>) = 0 /\ 10 \in Nat
        OBVIOUS
      <3>2. Values(<<>>, 10)[0] = 0
        BY <3>1, ValuesRecurs
      <3> QED BY <3>1, <3>2 DEF Numeral
    <2>3. Numeral(Decimal(v), 10) = 0
      <3>1. Numeral(Append(<<>>, 0), 10) = Numeral(<<>>, 10) * 10 + 0
        BY <2>1, NumeralOfAppend
      <3> QED BY <2>1, <2>2, <3>1
    <2>4. Len(Decimal(v)) = 1
      BY <1>2 DEF Decimal
    <2> QED BY <1>2, <2>3, <2>4
  <1>3. CASE v # 0
    <2> DEFINE digits == DigitLoops(10, Decimals, FALSE)[Decimals][v]
    <2>1. Decimal(v) = digits
      BY <1>3 DEF Decimal
    <2>2. 10 \in Nat /\ 10 > 1
      OBVIOUS
    <2>3. Converted(digits, 10, v, Decimals, FALSE)
      BY <1>1, <2>2, PlainLoopsConvert, Zenon
    <2> HIDE DEF digits
    <2>4. Numeral(digits, 10) = v /\ Len(digits) > 0 /\ digits[1] # 0 /\ digits \in Seq(Nat)
      BY <1>1, <1>3, <2>3 DEF Converted
    <2> QED BY <2>1, <2>4
  <1> QED BY <1>2, <1>3

LEMMA HexConverts ==
    ASSUME NEW v \in Numbers
    PROVE  Numeral(Hex(v), 16) = v /\ Len(Hex(v)) = HexDigits
  <1>1. v \in Nat /\ HexDigits \in Nat /\ v < Power(16, HexDigits)
    <2>1. HexDigits \in Nat /\ WordMod \in Nat /\ Power(16, HexDigits) \in Nat
      BY WordModIsNat, RoomAssumption, PowerRecurs
    <2>2. v \in Nat /\ v < WordMod
      BY UartAssumption, <2>1
    <2> QED BY <2>1, <2>2, RoomAssumption
  <1>2. 16 \in Nat /\ 16 > 1
    OBVIOUS
  <1>3. Converted(Hex(v), 16, v, HexDigits, TRUE)
    BY <1>1, <1>2, PaddedLoopsConvert, Zenon DEF Hex
  <1> QED BY <1>3 DEF Converted

(* The definitions of quotient and remainder, with names for both.         *)
LEMMA DivMod ==
    ASSUME NEW n \in Nat, NEW d \in Nat, d > 0, NEW q, q = n \div d, NEW r, r = n % d
    PROVE  q \in Nat /\ r \in Nat /\ r < d /\ n = q * d + r
  <1>1. q \in Nat /\ r \in Nat /\ r < d
    OBVIOUS
  <1>2. n % d = n - (n \div d) * d
    OBVIOUS
  <1>3. r = n - q * d
    BY <1>2
  <1> QED BY <1>1, <1>3

(* A quotient to whose dividend half the divisor is added is the closest.  *)
LEMMA QuotientIsClosest ==
    ASSUME NEW clk \in Nat, NEW baud \in Nat, baud > 0,
           NEW half \in Nat, 2 * half <= baud, baud <= 2 * half + 1,
           NEW q, q = (clk + half) \div baud
    PROVE  q \in Nat /\ q <= clk + half /\ 2 * Distance(q * baud, clk) <= baud
  <1> DEFINE n == clk + half
             r == n % baud
             p == q * baud
  <1>1. n \in Nat /\ q = n \div baud /\ r = n % baud
    OBVIOUS
  <1>2. q \in Nat /\ r \in Nat /\ r < baud /\ n = q * baud + r
    <2> HIDE DEF n, r
    <2> QED BY <1>1, DivMod
  <1>3. p \in Nat /\ q <= p /\ clk + half = p + r
    <2> HIDE DEF r
    <2> QED BY <1>2
  <1> HIDE DEF p, r
  <1>4. 2 * Distance(p, clk) <= baud
    BY <1>2, <1>3 DEF Distance
  <1> QED BY <1>2, <1>3, <1>4 DEF p

(* Mantissa and fraction make up the divider.                              *)
LEMMA BrrOfDivider ==
    ASSUME NEW clk, NEW baud, NEW q \in Nat, q < WordMod, DivScaled(clk, baud) = q
    PROVE  CalcBrr(clk, baud) = q
  <1> DEFINE m == q \div 16
             s == q % 16
             n == m * 16
  <1>1. CalcBrr(clk, baud) = (n % WordMod) + s
    BY DEF CalcBrr
  <1>2. m = q \div 16 /\ s = q % 16
    OBVIOUS
  <1> HIDE DEF m, s
  <1>3. m \in Nat /\ s \in Nat /\ q = m * 16 + s
    BY <1>2, DivMod
  <1>4. n \in Nat /\ n + s = q
    BY <1>3
  <1> HIDE DEF n
  <1>5. n % WordMod = n
    BY <1>3, <1>4, WordModIsNat
  <1> QED BY <1>1, <1>4, <1>5

(* uart_calc_brr: the sum does not wrap, the mantissa keeps all its bits,  *)
(* and the half that is added before the division rounds it.               *)
LEMMA DividerIsClosest ==
    ASSUME NEW clk \in Nat, NEW baud \in Nat, baud > 0, clk + baud \div 2 < WordMod
    PROVE  2 * Distance(CalcBrr(clk, baud) * baud, clk) <= baud
  <1> DEFINE half == baud \div 2
             q == (clk + half) \div baud
  <1>1. half \in Nat /\ 2 * half <= baud /\ baud <= 2 * half + 1 /\ clk + half < WordMod
    OBVIOUS
  <1>2. q \in Nat /\ q <= clk + half /\ 2 * Distance(q * baud, clk) <= baud
    BY <1>1, QuotientIsClosest
  <1>3. WordMod \in Nat
    BY WordModIsNat
  <1>4. ASSUME NEW n \in Nat, n < WordMod PROVE n % WordMod = n
    BY <1>3, <1>4
  <1>5. DivScaled(clk, baud) = q
    <2>1. (clk + half) % WordMod = clk + half
      <3> HIDE DEF half
      <3>1. clk + half \in Nat
        BY <1>1
      <3> QED BY <1>1, <1>4, <3>1
    <2> QED BY <2>1 DEF DivScaled
  <1> HIDE DEF q, half
  <1>6. CalcBrr(clk, baud) = q
    <2>1. q < WordMod
      BY <1>1, <1>2, <1>3
    <2> QED BY <1>2, <1>5, <2>1, BrrOfDivider
  <1> QED BY <1>2, <1>6

(* ConversionsAreExact, of the text and of the divider.                    *)
TextIsExact(t) ==
    /\ t.base # 1 => Numeral(t.chars, t.base) = t.value
    /\ t.base = 10 => Len(t.chars) > 0 /\ (t.value # 0 => Head(t.chars) # 0)
    /\ t.base = 16 => Len(t.chars) = HexDigits

DividerIsExact(d) == d # <<>> => 2 * Distance(d[3] * d[2], d[1]) <= d[2]

(* The property is inductive: only a call that sends a number changes the  *)
(* text, and only uart_init and uart_calc_brr yield a divider.             *)
LEMMA ConversionsInit == UartInit => ConversionsAreExact
  BY DEF UartInit, ConversionsAreExact, NoText

LEMMA ConversionsStep ==
    ConversionsAreExact /\ [UartNext]_uartVars => ConversionsAreExact'
  <1> SUFFICES ASSUME ConversionsAreExact, [UartNext]_uartVars PROVE ConversionsAreExact'
    OBVIOUS
  <1>1. ASSUME text' = text \/ TextIsExact(text'), divider' = divider \/ DividerIsExact(divider')
        PROVE  ConversionsAreExact'
    BY <1>1 DEF ConversionsAreExact, TextIsExact, DividerIsExact
  <1>2. CASE ByteArrives \/ ShiftRegisterLoads \/ ByteLeaves \/ TxByte \/ UNCHANGED uartVars
    BY <1>1, <1>2 DEF ByteArrives, ShiftRegisterLoads, ByteLeaves, TxByte, handle, uartVars
  <1>3. CASE WaitTcReturns \/ AfterWaitTc \/ RxPoll \/ RxReadSr \/ RxReadDr \/ WaitTcCall \/ RxCall
    BY <1>1, <1>3 DEF WaitTcReturns, AfterWaitTc, RxPoll, RxReadSr, RxReadDr, WaitTcCall,
                      RxCall, handle
  <1>4. TextIsExact(NoText) /\ \A n : TextIsExact([NoText EXCEPT !.chars = n])
    BY DEF TextIsExact, NoText
  <1>5. CASE TxStringReturns
    BY <1>1, <1>4, <1>5 DEF TxStringReturns, handle
  <1>6. ASSUME NEW t, TxString(t), TextIsExact(t) PROVE ConversionsAreExact'
    BY <1>1, <1>6 DEF TxString, handle
  <1>7. ASSUME NEW n, TxPlain(n) PROVE ConversionsAreExact'
    BY <1>4, <1>6, <1>7 DEF TxPlain
  <1>8. ASSUME NEW v \in Numbers, TxUint32(v) PROVE ConversionsAreExact'
    <2>1. TextIsExact([base |-> 10, value |-> v, chars |-> Decimal(v)])
      BY DecimalConverts DEF TextIsExact
    <2> QED BY <1>6, <1>8, <2>1 DEF TxUint32
  <1>9. ASSUME NEW v \in Numbers, TxHex32(v) PROVE ConversionsAreExact'
    <2>1. TextIsExact([base |-> 16, value |-> v, chars |-> Hex(v)])
      BY HexConverts DEF TextIsExact
    <2> QED BY <1>6, <1>9, <2>1 DEF TxHex32
  <1>10. ASSUME NEW clk \in Clocks \cup {SysClk}, NEW baud \in Bauds \cup {Baud}
         PROVE  DividerIsExact(<<clk, baud, CalcBrr(clk, baud)>>)
    <2>1. clk \in Nat /\ baud \in Nat /\ baud > 0 /\ clk + baud \div 2 < WordMod
      BY UartAssumption
    <2> QED BY <2>1, DividerIsClosest DEF DividerIsExact
  <1>11. ASSUME NEW t, CallInit(t) PROVE ConversionsAreExact'
    BY <1>1, <1>10, <1>11 DEF CallInit
  <1>12. ASSUME NEW clk \in Clocks, NEW baud \in Bauds, Calculate(clk, baud)
         PROVE  ConversionsAreExact'
    BY <1>1, <1>10, <1>12 DEF Calculate
  <1> QED
    BY <1>2, <1>3, <1>5, <1>7, <1>8, <1>9, <1>11, <1>12 DEF UartNext, Usart, Driver

(* For every number, clock and baud rate the string sent denotes the       *)
(* number and the divider in BRR is the closest there is: no conversion    *)
(* wraps or runs out of room.                                              *)
THEOREM ConversionsExact == UartSpec => []ConversionsAreExact
  BY ConversionsInit, ConversionsStep, PTL DEF UartSpec
-----------------------------------------------------------------------------
(* The TMP102: 16-bit words, and the conversions the driver makes.         *)

Word == {n \in Nat : n < 65536}
RegisterFile == [TEMP : Word, CONFIG : Word, TLOW : Word, THIGH : Word]

(* What is sent byte by byte arrives.                                      *)
LEMMA WordTravels == \A w \in Word : FromBytes(ToBytes(w)) = w
  BY DEF FromBytes, ToBytes, Unsigned16, Word

(* An int16_t that fits survives being stored in a register.               *)
LEMMA SignedWord ==
    ASSUME NEW n \in Int, -32768 <= n, n < 32768
    PROVE  Unsigned16(n) \in Word /\ Signed16(Unsigned16(n)) = n
  <1>1. CASE n >= 0
    <2>1. Unsigned16(n) = n
      BY <1>1 DEF Unsigned16
    <2> QED BY <1>1, <2>1 DEF Signed16, Word
  <1>2. CASE n < 0
    <2>1. Unsigned16(n) = n + 65536
      BY <1>2 DEF Unsigned16
    <2> QED BY <1>2, <2>1 DEF Signed16, Word
  <1> QED BY <1>1, <1>2

(* A threshold comes out of its register as it went in, in sixteenths.    *)
LEMMA ThresholdWord ==
    ASSUME NEW d \in Int, -128 <= d, d <= 127
    PROVE  LimitRegister(d) \in Word /\ Signed16(LimitRegister(d)) \div 16 = 16 * d
  <1>1. LimitRegister(d) = Unsigned16(d * 256)
    <2>1. CASE d >= 0
      <3>1. Unsigned16(d * 16) = d * 16
        BY <2>1 DEF Unsigned16
      <3>2. (d * 16) * 16 = d * 256
        OBVIOUS
      <3> QED BY <3>1, <3>2 DEF LimitRegister
    <2>2. CASE d < 0
      <3>1. Unsigned16(d * 16) = d * 16 + 65536
        BY <2>2 DEF Unsigned16
      <3>2. (d * 16 + 65536) * 16 = d * 256 + 16 * 65536
        OBVIOUS
      <3>3. (d * 256 + 16 * 65536) % 65536 = (d * 256) % 65536
        <4>1. d * 256 = (-1) * 65536 + (d * 256 + 65536) /\ d * 256 + 65536 \in Nat /\ d * 256 + 65536 < 65536
          BY <2>2
        <4>2. (d * 256) % 65536 = d * 256 + 65536
          BY <4>1
        <4>3. (d * 256 + 16 * 65536) % 65536 = d * 256 + 65536
          BY <4>1
        <4> QED BY <4>2, <4>3
      <3> QED BY <3>1, <3>2, <3>3 DEF LimitRegister, Unsigned16
    <2> QED BY <2>1, <2>2
  <1>2. Signed16(LimitRegister(d)) = d * 256 /\ LimitRegister(d) \in Word
    <2>1. d * 256 \in Int /\ -32768 <= d * 256 /\ d * 256 < 32768
      OBVIOUS
    <2> QED BY <1>1, <2>1, SignedWord
  <1>3. (d * 256) \div 16 = 16 * d
    OBVIOUS
  <1> QED BY <1>2, <1>3

(* A temperature is read back in the format it was written in.            *)
LEMMA TemperatureWord ==
    ASSUME NEW t \in Int, -4096 <= t, t < 4096, NEW conf,
           BitSet(conf, CfgEM) \/ (-2048 <= t /\ t < 2048)
    PROVE  /\ TempRegister(t, conf) \in Word
           /\ Raw(TempRegister(t, conf), BitSet(conf, CfgEM)) = t
  <1>1. CASE BitSet(conf, CfgEM)
    <2>1. t * 8 \in Int /\ -32768 <= t * 8 /\ t * 8 < 32768 /\ (t * 8) \div 8 = t
      OBVIOUS
    <2>2. Unsigned16(t * 8) \in Word /\ Signed16(Unsigned16(t * 8)) = t * 8
      BY <2>1, SignedWord
    <2> QED BY <1>1, <2>1, <2>2 DEF TempRegister, Raw
  <1>2. CASE ~ BitSet(conf, CfgEM)
    <2>1. t * 16 \in Int /\ -32768 <= t * 16 /\ t * 16 < 32768 /\ (t * 16) \div 16 = t
      BY <1>2
    <2>2. Unsigned16(t * 16) \in Word /\ Signed16(Unsigned16(t * 16)) = t * 16
      BY <2>1, SignedWord
    <2> QED BY <1>2, <2>1, <2>2 DEF TempRegister, Raw
  <1> QED BY <1>1, <1>2

(* Changing the shutdown bit leaves the format bit alone.                 *)
LEMMA ShutdownBit ==
    ASSUME NEW w \in Word
    PROVE  /\ With(w, CfgSD) \in Word
           /\ Without(w, CfgSD) \in Word
           /\ BitSet(With(w, CfgSD), CfgEM) <=> BitSet(w, CfgEM)
           /\ BitSet(Without(w, CfgSD), CfgEM) <=> BitSet(w, CfgEM)
  <1>1. w \in Int /\ 0 <= w /\ w <= 65535
    BY DEF Word
  <1>2. (w \div 256) % 2 # 1 => w + 256 <= 65535
    BY <1>1
  <1>3. (w \div 256) % 2 = 1 => w - 256 >= 0
    BY <1>1
  <1>4. (w + 256) \div 16 = (w \div 16) + 16 /\ (w - 256) \div 16 = (w \div 16) - 16
    BY <1>1
  <1>5. ((w \div 16) + 16) % 2 = (w \div 16) % 2 /\ ((w \div 16) - 16) % 2 = (w \div 16) % 2
    BY <1>1
  <1>6. With(w, CfgSD) \in Word /\ Without(w, CfgSD) \in Word
    BY <1>1, <1>2, <1>3 DEF With, Without, BitSet, Word, CfgSD
  <1>7. BitSet(w + 256, CfgEM) <=> BitSet(w, CfgEM)
    BY <1>4, <1>5 DEF BitSet, CfgEM
  <1>8. BitSet(w - 256, CfgEM) <=> BitSet(w, CfgEM)
    BY <1>4, <1>5 DEF BitSet, CfgEM
  <1> QED BY <1>6, <1>7, <1>8 DEF With, Without, CfgSD
(* What one write does to the registers.                                   *)
LEMMA TakesLow ==
    ASSUME regs \in RegisterFile, NEW v \in Word
    PROVE  LET r == Written("TLOW", v)
           IN /\ r \in RegisterFile /\ r.TLOW = v
              /\ r.THIGH = regs.THIGH /\ r.CONFIG = regs.CONFIG /\ r.TEMP = regs.TEMP
  BY WordTravels DEF Written, RegisterFile

LEMMA TakesHigh ==
    ASSUME regs \in RegisterFile, NEW v \in Word
    PROVE  LET r == Written("THIGH", v)
           IN /\ r \in RegisterFile /\ r.THIGH = v
              /\ r.TLOW = regs.TLOW /\ r.CONFIG = regs.CONFIG /\ r.TEMP = regs.TEMP
  BY WordTravels DEF Written, RegisterFile

LEMMA TakesConfig ==
    ASSUME regs \in RegisterFile, NEW v \in Word
    PROVE  LET r == Written("CONFIG", v)
           IN /\ r \in RegisterFile /\ r.CONFIG = v
              /\ r.TLOW = regs.TLOW /\ r.THIGH = regs.THIGH /\ r.TEMP = regs.TEMP
  BY WordTravels DEF Written, RegisterFile

LEMMA LimitsAreInt8 ==
    ASSUME NEW d \in Limits
    PROVE  d \in Int /\ -128 <= d /\ d <= 127
  <1>1. Limits \subseteq -128 .. 127
    BY SensorAssumption
  <1>2. d \in -128 .. 127
    BY <1>1
  <1> QED BY <1>2

(* The register shows the temperature converted last, in the format of the *)
(* configuration; the driver never changes that format.                    *)
TemperatureInv ==
    /\ regs \in RegisterFile /\ before \in RegisterFile
    /\ temperature \in Int
    /\ Raw(regs.TEMP, BitSet(regs.CONFIG, CfgEM)) = temperature

(* Between the two writes of tmp102_set_alert_thresholds the sensor has    *)
(* the new lower threshold and the old upper one.                          *)
ThresholdInv ==
    /\ stage \in {"off", "idle", "high", "config"}
    /\ call.kind = "thresholds" => call.low \in Limits /\ call.high \in Limits
    /\ stage = "high" =>
          /\ call.kind = "thresholds"
          /\ Degrees16(regs) = <<16 * call.low, Degrees16(before)[2]>>
    /\ ThresholdsHold

(* Between the read and the write of tmp102_set_shutdown the configuration *)
(* is what was read.                                                       *)
ShutdownInv ==
    /\ stage = "config" =>
          call.kind = "shutdown" /\ config = regs.CONFIG /\ config = before.CONFIG
    /\ ConfigurationHolds

SensorInv == TemperatureInv /\ ReadingIsExact /\ ThresholdInv /\ ShutdownInv

LEMMA SensorInvInit == SensorInit => SensorInv
  <1> SUFFICES ASSUME SensorInit PROVE SensorInv
    OBVIOUS
  <1>1. PICK conf \in PowerUpConfigs :
            regs = [TEMP |-> 0, CONFIG |-> conf, TLOW |-> 75 * 256, THIGH |-> 80 * 256]
    BY DEF SensorInit
  <1>2. conf \in Word /\ 0 \in Word /\ 75 * 256 \in Word /\ 80 * 256 \in Word
    <2>1. conf \in Nat /\ conf < 65536
      BY SensorAssumption
    <2> QED BY <2>1 DEF Word
  <1>3. regs \in RegisterFile /\ before = regs /\ temperature = 0
    BY <1>1, <1>2 DEF SensorInit, RegisterFile
  <1>4. Raw(0, TRUE) = 0 /\ Raw(0, FALSE) = 0
    BY DEF Raw, Signed16
  <1>5. Raw(regs.TEMP, BitSet(regs.CONFIG, CfgEM)) = temperature
    BY <1>1, <1>3, <1>4 DEF Raw, Signed16
  <1>6. stage = "off" /\ call.kind = "none"
    BY DEF SensorInit
  <1> QED BY <1>3, <1>5, <1>6
          DEF SensorInv, TemperatureInv, ThresholdInv, ShutdownInv, ReadingIsExact,
              ThresholdsHold, ConfigurationHolds, Done

(* A step that leaves the driver where it is.                              *)
LEMMA NoDriverStep ==
    ASSUME SensorInv, UNCHANGED <<call, before, got, measured>>,
           UNCHANGED <<stage, config, ret>> \/ stage' = "off",
           regs'.CONFIG = regs.CONFIG, regs'.TLOW = regs.TLOW, regs'.THIGH = regs.THIGH
    PROVE  ReadingIsExact' /\ ThresholdInv' /\ ShutdownInv'
  <1>1. Degrees16(regs)' = Degrees16(regs) /\ Degrees16(before)' = Degrees16(before)
    BY DEF Degrees16
  <1>2. \A k : Done(k)' => Done(k)
    BY DEF Done
  <1>3. ReadingIsExact'
    BY <1>2 DEF SensorInv, ReadingIsExact
  <1>4. ThresholdsHold'
    BY <1>1, <1>2 DEF SensorInv, ThresholdInv, ThresholdsHold
  <1>5. ConfigurationHolds'
    BY <1>2 DEF SensorInv, ShutdownInv, ConfigurationHolds
  <1>6. ThresholdInv'
    BY <1>1, <1>4 DEF SensorInv, ThresholdInv
  <1> QED BY <1>3, <1>5, <1>6 DEF SensorInv, ShutdownInv

(* A call that leaves the registers alone.                                 *)
LEMMA CallOnly ==
    ASSUME SensorInv, UNCHANGED <<regs, temperature>>, before' = regs, stage' = "idle",
           call'.kind \in {"init", "read", "shutdown"},
           call'.kind = "shutdown" => ret' = "error"
    PROVE  TemperatureInv' /\ ThresholdInv' /\ ShutdownInv'
  <1>1. Degrees16(regs)' = Degrees16(before)'
    BY DEF Degrees16
  <1>2. ThresholdInv'
    BY <1>1 DEF ThresholdInv, ThresholdsHold
  <1>3. ShutdownInv'
    BY DEF ShutdownInv, ConfigurationHolds, Done
  <1>4. TemperatureInv'
    BY DEF SensorInv, TemperatureInv
  <1> QED BY <1>2, <1>3, <1>4

(* A write of the configuration with another shutdown bit.                 *)
LEMMA FormatStays ==
    ASSUME TemperatureInv, UNCHANGED <<temperature, before>>, NEW w,
           w = With(regs.CONFIG, CfgSD) \/ w = Without(regs.CONFIG, CfgSD),
           regs' = Written("CONFIG", w)
    PROVE  TemperatureInv' /\ regs'.CONFIG = w
           /\ regs'.TLOW = regs.TLOW /\ regs'.THIGH = regs.THIGH
  <1>1. regs \in RegisterFile /\ regs.CONFIG \in Word
    BY DEF TemperatureInv, RegisterFile
  <1>2. w \in Word /\ (BitSet(w, CfgEM) <=> BitSet(regs.CONFIG, CfgEM))
    BY <1>1, ShutdownBit
  <1>3. /\ regs' \in RegisterFile /\ regs'.CONFIG = w /\ regs'.TEMP = regs.TEMP
        /\ regs'.TLOW = regs.TLOW /\ regs'.THIGH = regs.THIGH
    BY <1>1, <1>2, TakesConfig
  <1>4. Raw(regs.TEMP, BitSet(w, CfgEM)) = Raw(regs.TEMP, BitSet(regs.CONFIG, CfgEM))
    BY <1>2 DEF Raw
  <1> QED BY <1>3, <1>4 DEF TemperatureInv

(* A write of a threshold register.                                        *)
LEMMA ThresholdWrite ==
    ASSUME TemperatureInv, UNCHANGED temperature, before' \in RegisterFile, NEW d \in Limits
    PROVE  /\ regs' = Written("TLOW", LimitRegister(d)) =>
                  /\ TemperatureInv' /\ regs'.CONFIG = regs.CONFIG
                  /\ Degrees16(regs') = <<16 * d, Degrees16(regs)[2]>>
           /\ regs' = Written("THIGH", LimitRegister(d)) =>
                  /\ TemperatureInv' /\ regs'.CONFIG = regs.CONFIG
                  /\ Degrees16(regs') = <<Degrees16(regs)[1], 16 * d>>
  <1>1. regs \in RegisterFile
    BY DEF TemperatureInv
  <1>2. LimitRegister(d) \in Word /\ Signed16(LimitRegister(d)) \div 16 = 16 * d
    BY LimitsAreInt8, ThresholdWord
  <1>3. ASSUME regs' = Written("TLOW", LimitRegister(d))
        PROVE  /\ TemperatureInv' /\ regs'.CONFIG = regs.CONFIG
               /\ Degrees16(regs') = <<16 * d, Degrees16(regs)[2]>>
    <2>1. /\ regs' \in RegisterFile /\ regs'.TLOW = LimitRegister(d)
          /\ regs'.THIGH = regs.THIGH /\ regs'.CONFIG = regs.CONFIG /\ regs'.TEMP = regs.TEMP
      BY <1>1, <1>2, <1>3, TakesLow
    <2> QED BY <1>2, <2>1 DEF TemperatureInv, Degrees16
  <1>4. ASSUME regs' = Written("THIGH", LimitRegister(d))
        PROVE  /\ TemperatureInv' /\ regs'.CONFIG = regs.CONFIG
               /\ Degrees16(regs') = <<Degrees16(regs)[1], 16 * d>>
    <2>1. /\ regs' \in RegisterFile /\ regs'.THIGH = LimitRegister(d)
          /\ regs'.TLOW = regs.TLOW /\ regs'.CONFIG = regs.CONFIG /\ regs'.TEMP = regs.TEMP
      BY <1>1, <1>2, <1>4, TakesHigh
    <2> QED BY <1>2, <2>1 DEF TemperatureInv, Degrees16
  <1> QED BY <1>3, <1>4

LEMMA SensorInvStep == SensorInv /\ [SensorNext]_sensorVars => SensorInv'
  <1> SUFFICES ASSUME SensorInv, [SensorNext]_sensorVars PROVE SensorInv'
    OBVIOUS
  <1>0. regs \in RegisterFile /\ before \in RegisterFile
    BY DEF SensorInv, TemperatureInv
  <1>1. ASSUME NEW t \in Temperatures, Convert(t) PROVE SensorInv'
    <2>1. /\ t \in -2048 .. 2047 \/ BitSet(regs.CONFIG, CfgEM)
          /\ temperature' = t
          /\ regs' = [regs EXCEPT !.TEMP = TempRegister(t, regs.CONFIG)]
          /\ UNCHANGED <<call, before, got, measured, stage, config, ret>>
      BY <1>1 DEF Convert
    <2>2. t \in Int /\ -4096 <= t /\ t < 4096
      BY SensorAssumption
    <2>3. /\ TempRegister(t, regs.CONFIG) \in Word
          /\ Raw(TempRegister(t, regs.CONFIG), BitSet(regs.CONFIG, CfgEM)) = t
      <3>1. t \in -2048 .. 2047 => -2048 <= t /\ t < 2048
        OBVIOUS
      <3>2. BitSet(regs.CONFIG, CfgEM) \/ (-2048 <= t /\ t < 2048)
        BY <2>1, <3>1
      <3> QED BY <2>2, <3>2, TemperatureWord
    <2>4. /\ regs' \in RegisterFile /\ regs'.TEMP = TempRegister(t, regs.CONFIG)
          /\ regs'.CONFIG = regs.CONFIG /\ regs'.TLOW = regs.TLOW /\ regs'.THIGH = regs.THIGH
      BY <1>0, <2>1, <2>3 DEF RegisterFile
    <2>5. TemperatureInv'
      BY <1>0, <2>1, <2>2, <2>3, <2>4 DEF TemperatureInv
    <2> QED BY <2>1, <2>4, <2>5, NoDriverStep DEF SensorInv
  <1>2. ASSUME Restart \/ SetMode \/ UNCHANGED sensorVars PROVE SensorInv'
    <2>1. /\ UNCHANGED <<regs, temperature, call, before, got, measured>>
          /\ UNCHANGED <<stage, config, ret>> \/ stage' = "off"
      BY <1>2 DEF Restart, SetMode, sensorVars, readVars
    <2>2. TemperatureInv'
      BY <2>1 DEF SensorInv, TemperatureInv
    <2> QED BY <2>1, <2>2, NoDriverStep DEF SensorInv
  <1>3. ASSUME NEW addr, Initialise(addr) PROVE SensorInv'
    <2>1. /\ UNCHANGED <<regs, temperature>> /\ before' = regs /\ stage' = "idle"
          /\ call' = [kind |-> "init"]
      BY <1>3 DEF Initialise, Call, Return, readVars
    <2>2. call'.kind = "init"
      BY <2>1
    <2>3. TemperatureInv' /\ ThresholdInv' /\ ShutdownInv'
      BY <2>1, <2>2, CallOnly
    <2> QED BY <2>2, <2>3 DEF SensorInv, ReadingIsExact, Done
  <1>4. CASE ReadCelsius
    <2>1. /\ UNCHANGED <<regs, temperature>> /\ before' = regs /\ stage' = "idle"
          /\ call' = [kind |-> "read", extended |-> dev.extended]
      BY <1>4 DEF ReadCelsius, Call, Return
    <2>2. call'.kind = "read" /\ call'.extended = dev.extended
      BY <2>1
    <2>3. TemperatureInv' /\ ThresholdInv' /\ ShutdownInv'
      BY <2>1, <2>2, CallOnly
    <2>4. ReadingIsExact'
      <3>1. \/ got' = Raw(ReadReg("TEMP"), dev.extended) /\ measured' = temperature
            \/ ret' = "error"
        BY <1>4 DEF ReadCelsius, Return
      <3>2. ReadReg("TEMP") = regs.TEMP
        BY <1>0, WordTravels DEF ReadReg, RegisterFile
      <3> QED BY <2>1, <2>2, <3>1, <3>2
              DEF ReadingIsExact, Done, SensorInv, TemperatureInv
    <2> QED BY <2>3, <2>4 DEF SensorInv
  <1>5. ASSUME NEW low \in Limits, NEW high \in Limits, SetLow(low, high)
        PROVE  SensorInv'
    <2>1. /\ call' = [kind |-> "thresholds", low |-> low, high |-> high]
          /\ before' = regs /\ UNCHANGED <<temperature, config>>
          /\ \/ regs' = Written("TLOW", LimitRegister(low)) /\ stage' = "high"
             \/ /\ regs' = regs \/ regs' = Written("TLOW", LimitRegister(low))
                /\ stage' = "idle" /\ ret' = "error"
      BY <1>5 DEF SetLow, Call, WriteSucceeds, WriteFails, Return, readVars
    <2>2. call'.kind = "thresholds" /\ call'.low = low /\ call'.high = high
      BY <2>1
    <2>3. /\ TemperatureInv' /\ regs'.CONFIG = regs.CONFIG
          /\ Degrees16(regs') \in {Degrees16(regs), <<16 * low, Degrees16(regs)[2]>>}
          /\ stage' = "high" => Degrees16(regs') = <<16 * low, Degrees16(regs)[2]>>
      <3>1. CASE regs' = regs /\ stage' = "idle"
        <4>1. TemperatureInv'
          BY <1>0, <2>1, <3>1 DEF SensorInv, TemperatureInv
        <4>2. Degrees16(regs') = Degrees16(regs) /\ regs'.CONFIG = regs.CONFIG
          BY <3>1
        <4> QED BY <3>1, <4>1, <4>2
      <3>2. CASE regs' = Written("TLOW", LimitRegister(low))
        <4>1. before' \in RegisterFile
          BY <1>0, <2>1
        <4> QED BY <2>1, <3>2, <4>1, ThresholdWrite DEF SensorInv
      <3> QED BY <2>1, <3>1, <3>2
    <2>a. Degrees16(before)' = Degrees16(regs) /\ Degrees16(regs)' = Degrees16(regs')
      BY <2>1 DEF Degrees16
    <2>4. ThresholdInv'
      BY <2>1, <2>2, <2>3, <2>a DEF ThresholdInv, ThresholdsHold, Done
    <2>5. ShutdownInv' /\ ReadingIsExact'
      BY <2>1, <2>2, <2>3 DEF ShutdownInv, ConfigurationHolds, ReadingIsExact, Done
    <2> QED BY <2>3, <2>4, <2>5 DEF SensorInv
  <1>6. CASE SetHigh
    <2>1. /\ stage = "high" /\ UNCHANGED <<call, before, temperature, got, measured>>
          /\ stage' = "idle"
          /\ \/ regs' = Written("THIGH", LimitRegister(call.high))
             \/ regs' = regs /\ ret' = "error"
      BY <1>6 DEF SetHigh, WriteSucceeds, WriteFails, Return, readVars
    <2>2. /\ call.kind = "thresholds" /\ call.low \in Limits /\ call.high \in Limits
          /\ Degrees16(regs) = <<16 * call.low, Degrees16(before)[2]>>
          /\ regs.CONFIG = before.CONFIG
      BY <2>1 DEF SensorInv, ThresholdInv, ShutdownInv, ConfigurationHolds
    <2>3. /\ TemperatureInv' /\ regs'.CONFIG = regs.CONFIG
          /\ Degrees16(regs') \in {Degrees16(regs), <<16 * call.low, 16 * call.high>>}
          /\ ret' = "ok" => Degrees16(regs') = <<16 * call.low, 16 * call.high>>
      <3>1. CASE regs' = regs /\ ret' = "error"
        BY <1>0, <2>1, <3>1 DEF SensorInv, TemperatureInv
      <3>2. CASE regs' = Written("THIGH", LimitRegister(call.high))
        <4>1. Degrees16(regs)[1] = 16 * call.low
          BY <2>2
        <4>2. before' \in RegisterFile
          BY <1>0, <2>1
        <4> QED BY <2>1, <2>2, <3>2, <4>1, <4>2, ThresholdWrite DEF SensorInv
      <3> QED BY <2>1, <3>1, <3>2
    <2>4. Degrees16(before)' = Degrees16(before) /\ Degrees16(regs)' = Degrees16(regs')
      BY <2>1 DEF Degrees16
    <2>5. ThresholdInv'
      BY <2>1, <2>2, <2>3, <2>4 DEF ThresholdInv, ThresholdsHold, Done
    <2>6. ShutdownInv' /\ ReadingIsExact'
      BY <2>1, <2>2, <2>3 DEF ShutdownInv, ConfigurationHolds, ReadingIsExact, Done
    <2> QED BY <2>3, <2>5, <2>6 DEF SensorInv
  <1>7. ASSUME NEW shutdown \in BOOLEAN, ReadConfig(shutdown) PROVE SensorInv'
    <2>1. /\ call' = [kind |-> "shutdown", shutdown |-> shutdown]
          /\ before' = regs /\ UNCHANGED <<regs, temperature>>
          /\ \/ config' = ReadReg("CONFIG") /\ stage' = "config"
             \/ stage' = "idle" /\ ret' = "error"
      BY <1>7 DEF ReadConfig, Call, Return, readVars
    <2>2. call'.kind = "shutdown"
      BY <2>1
    <2>3. CASE stage' = "idle" /\ ret' = "error"
      <3>1. TemperatureInv' /\ ThresholdInv' /\ ShutdownInv'
        BY <2>1, <2>2, <2>3, CallOnly
      <3> QED BY <2>2, <3>1 DEF SensorInv, ReadingIsExact, Done
    <2>4. CASE config' = ReadReg("CONFIG") /\ stage' = "config"
      <3>1. ReadReg("CONFIG") = regs.CONFIG
        BY <1>0, WordTravels DEF ReadReg, RegisterFile
      <3>2. TemperatureInv'
        BY <1>0, <2>1 DEF SensorInv, TemperatureInv
      <3>3. Degrees16(regs)' = Degrees16(before)'
        BY <2>1 DEF Degrees16
      <3>4. ThresholdInv'
        BY <2>2, <2>4, <3>3 DEF ThresholdInv, ThresholdsHold
      <3>5. ShutdownInv' /\ ReadingIsExact'
        BY <2>1, <2>2, <2>4, <3>1 DEF ShutdownInv, ConfigurationHolds, ReadingIsExact, Done
      <3> QED BY <3>2, <3>4, <3>5 DEF SensorInv
    <2> QED BY <2>1, <2>3, <2>4
  <1>8. CASE WriteConfig
    <2> DEFINE value == IF call.shutdown THEN With(config, CfgSD) ELSE Without(config, CfgSD)
    <2>1. /\ stage = "config" /\ UNCHANGED <<call, before, temperature>>
          /\ stage' = "idle"
          /\ regs' = Written("CONFIG", value) \/ (regs' = regs /\ ret' = "error")
      BY <1>8 DEF WriteConfig, WriteSucceeds, WriteFails, Return, readVars
    <2>2. /\ call.kind = "shutdown" /\ config = regs.CONFIG /\ config = before.CONFIG
          /\ Degrees16(regs) = Degrees16(before)
      BY <2>1 DEF SensorInv, ShutdownInv, ThresholdInv, ThresholdsHold
    <2>3. value = With(regs.CONFIG, CfgSD) \/ value = Without(regs.CONFIG, CfgSD)
      BY <2>2
    <2>4. /\ TemperatureInv' /\ regs'.CONFIG \in {config, value}
          /\ ret' = "ok" => regs'.CONFIG = value
          /\ regs'.TLOW = regs.TLOW /\ regs'.THIGH = regs.THIGH
      <3> HIDE DEF value
      <3>1. CASE regs' = Written("CONFIG", value)
        BY <2>1, <2>3, <3>1, FormatStays DEF SensorInv
      <3>2. CASE regs' = regs /\ ret' = "error"
        BY <1>0, <2>1, <2>2, <3>2 DEF SensorInv, TemperatureInv
      <3> QED BY <2>1, <3>1, <3>2
    <2>5. Degrees16(regs)' = Degrees16(before)'
      BY <2>1, <2>2, <2>4 DEF Degrees16
    <2>6. ThresholdInv'
      BY <2>1, <2>2, <2>5 DEF ThresholdInv, ThresholdsHold
    <2>7. ShutdownInv' /\ ReadingIsExact'
      BY <2>1, <2>2, <2>4 DEF ShutdownInv, ConfigurationHolds, ReadingIsExact, Done
    <2> QED BY <2>4, <2>6, <2>7 DEF SensorInv
  <1> QED BY <1>1, <1>2, <1>3, <1>4, <1>5, <1>6, <1>7, <1>8 DEF SensorNext

LEMMA SensorInvHolds == SensorSpec => []SensorInv
  BY SensorInvInit, SensorInvStep, PTL DEF SensorSpec

(* Every reading that returns 0 is the temperature converted last, to the  *)
(* sixteenth of a degree and with its sign, for every temperature the      *)
(* sensor can show, if the driver knows the format.                        *)
THEOREM ReadingsAreExact == SensorSpec => []ReadingIsExact
  BY SensorInvHolds, PTL DEF SensorInv

(* For all limits of an int8_t, any failures and restarts: both thresholds *)
(* are set if 0 is returned, and the lower one first.                      *)
THEOREM ThresholdsAlwaysHold == SensorSpec => []ThresholdsHold
  BY SensorInvHolds, PTL DEF SensorInv, ThresholdInv

(* For every configuration at power-up, any failures and restarts:         *)
(* tmp102_set_shutdown changes the shutdown bit and nothing else.          *)
THEOREM ConfigurationAlwaysHolds == SensorSpec => []ConfigurationHolds
  BY SensorInvHolds, PTL DEF SensorInv, ShutdownInv
=============================================================================

----------------------------- MODULE GpioDriver -----------------------------
(***************************************************************************)
(* challenge_01_gpio_driver.c: one GPIO port used from main code and from  *)
(* an ISR.  A volatile read and a volatile write are steps of their own,   *)
(* so an ISR can run between the two halves of a read-modify-write.  Main  *)
(* code does not run while the ISR does; nothing in the file disables      *)
(* interrupts, and an ISR that does so around its call changes nothing,    *)
(* since main code is already held up.                                     *)
(***************************************************************************)
EXTENDS Naturals, Sequences

CONSTANTS
    LowPins, HighPins,  \* pins in use with their AF field in AFR[0] / AFR[1]
    IsrPins,            \* the pins the ISR works on; main has the others
    Configs,            \* [mode, otype, speed, pupd, af] records
    AF,                 \* the mode value GPIO_MODE_AF
    NoConfig,           \* a pin was never configured
    Reset,              \* the value of every field after reset
    MaxCalls            \* bound: calls of each context

Pins == LowPins \cup HighPins

ASSUME GpioAssumption ==
    /\ LowPins \cap HighPins = {}
    /\ IsrPins \subseteq Pins
    /\ NoConfig \notin Configs
    /\ MaxCalls \in Nat

Contexts == {"main", "isr"}
Registers == {"MODER", "OTYPER", "OSPEEDR", "PUPDR", "AFR0", "AFR1"}

VARIABLES
    reg,        \* the configuration registers, a field for each pin
    odr,        \* the pins whose ODR bit is set
    job,        \* what each context is executing
    calls,      \* calls each context has made
    lastCfg,    \* (history) the configuration each pin was given last
    overtaken,  \* (history) <<register, pin>> of the ISR's writes that fell
                \* between the read and the write of a call of main
    want        \* (history) the pins the completed calls drive high

vars == <<reg, odr, job, calls, lastCfg, overtaken, want>>

(* todo: register accesses gpio_configure still has to make; seen: the     *)
(* value the last read returned.                                           *)
Job(op, pin, cfg, todo, read, seen) ==
    [op |-> op, pin |-> pin, cfg |-> cfg, todo |-> todo, read |-> read, seen |-> seen]
Idle == Job("none", 0, NoConfig, <<>>, FALSE, 0)

Init ==
    /\ reg = [r \in Registers |-> [p \in Pins |-> Reset]]
    /\ odr = {}
    /\ job = [c \in Contexts |-> Idle]
    /\ calls = [c \in Contexts |-> 0]
    /\ lastCfg = [p \in Pins |-> NoConfig]
    /\ overtaken = {}
    /\ want = {}

PinsOf(c) == IF c = "isr" THEN IsrPins ELSE Pins \ IsrPins
Busy(c) == job[c].op # "none"
MayRun(c) == c = "main" => ~ Busy("isr")

Start(c) ==
    /\ MayRun(c)
    /\ ~ Busy(c)
    /\ calls[c] < MaxCalls
    /\ calls' = [calls EXCEPT ![c] = @ + 1]
-----------------------------------------------------------------------------
AfrOf(p) == IF p \in LowPins THEN "AFR0" ELSE "AFR1"

(* The fields gpio_configure writes, in order.                             *)
Plan(p, cfg) ==
    <<"MODER", "OTYPER", "OSPEEDR", "PUPDR">>
        \o IF cfg.mode = AF THEN <<AfrOf(p)>> ELSE <<>>

Field(r, cfg) == CASE r = "MODER"   -> cfg.mode
                   [] r = "OTYPER"  -> cfg.otype
                   [] r = "OSPEEDR" -> cfg.speed
                   [] r = "PUPDR"   -> cfg.pupd
                   [] OTHER         -> cfg.af

ConfigureCall(c, p, cfg) ==
    /\ Start(c)
    /\ job' = [job EXCEPT ![c] = Job("configure", p, cfg, Plan(p, cfg), FALSE, 0)]
    /\ UNCHANGED <<reg, odr, lastCfg, overtaken, want>>

(* gpio_set_field_2bit, gpio_set_field_1bit and the AFR update: the read.  *)
ReadField(c) ==
    /\ MayRun(c)
    /\ job[c].op = "configure"
    /\ ~ job[c].read /\ job[c].todo # <<>>
    /\ job' = [job EXCEPT ![c] = Job("configure", @.pin, @.cfg, @.todo, TRUE,
                                     reg[Head(@.todo)])]
    /\ UNCHANGED <<reg, odr, calls, lastCfg, overtaken, want>>

(* Main code is between the read and the write of register r.              *)
MainHolds(r) == job["main"].read /\ job["main"].op = "configure"
                                 /\ Head(job["main"].todo) = r

(* The write of a field by the ISR either falls into such a gap or is good;*)
(* the history is of no effect on the rest.                                *)
Overtakes(c, r) ==
    overtaken' = IF c = "isr" /\ MainHolds(r)
                 THEN overtaken \cup {<<r, job[c].pin>>}
                 ELSE overtaken \ {<<r, job[c].pin>>}

(* Seeded fault: the field is shifted into place but the rest of the       *)
(* register is not kept: "=" for "|=".                                     *)
WriteFieldOnly(c) ==
    /\ MayRun(c)
    /\ job[c].op = "configure"
    /\ job[c].read
    /\ LET r == Head(job[c].todo)
       IN /\ reg' = [reg EXCEPT ![r] = [q \in Pins |->
                         IF q = job[c].pin THEN Field(r, job[c].cfg) ELSE 0]]
          /\ Overtakes(c, r)
    /\ job' = [job EXCEPT ![c] = Job("configure", @.pin, @.cfg, Tail(@.todo), FALSE, 0)]
    /\ UNCHANGED <<odr, calls, lastCfg, want>>

(* The same: the write of the whole register.                              *)
WriteField(c) ==
    /\ MayRun(c)
    /\ job[c].op = "configure"
    /\ job[c].read
    /\ LET r == Head(job[c].todo)
       IN /\ reg' = [reg EXCEPT ![r] = [job[c].seen EXCEPT ![job[c].pin] =
                                                       Field(r, job[c].cfg)]]
          /\ Overtakes(c, r)
    /\ job' = [job EXCEPT ![c] = Job("configure", @.pin, @.cfg, Tail(@.todo), FALSE, 0)]
    /\ UNCHANGED <<odr, calls, lastCfg, want>>

ConfigureReturn(c) ==
    /\ MayRun(c)
    /\ job[c].op = "configure" /\ job[c].todo = <<>>
    /\ lastCfg' = [lastCfg EXCEPT ![job[c].pin] = job[c].cfg]
    /\ job' = [job EXCEPT ![c] = Idle]
    /\ UNCHANGED <<reg, odr, calls, overtaken, want>>
-----------------------------------------------------------------------------
(* A write to BSRR: the set half wins over the reset half.                 *)
Bsrr(set, clear) == odr' = (odr \ clear) \cup set

(* gpio_set and gpio_clear, also reached through gpio_write.               *)
Drive(c, p, level) ==
    /\ Start(c)
    /\ IF level THEN Bsrr({p}, {}) ELSE Bsrr({}, {p})
    /\ want' = IF level THEN want \cup {p} ELSE want \ {p}
    /\ UNCHANGED <<reg, job, lastCfg, overtaken>>

(* gpio_toggle: the read of ODR ...                                        *)
ToggleRead(c, p) ==
    /\ Start(c)
    /\ job' = [job EXCEPT ![c] = Job("toggle", p, NoConfig, <<>>, TRUE, odr)]
    /\ UNCHANGED <<reg, odr, lastCfg, overtaken, want>>

Flip(set, p) == IF p \in set THEN set \ {p} ELSE set \cup {p}

(* Seeded fault: the toggle writes back the ODR value it read, flipped.    *)
ToggleWriteOdr(c) ==
    /\ MayRun(c)
    /\ job[c].op = "toggle"
    /\ odr' = Flip(job[c].seen, job[c].pin)
    /\ want' = Flip(want, job[c].pin)
    /\ job' = [job EXCEPT ![c] = Idle]
    /\ UNCHANGED <<reg, calls, lastCfg, overtaken>>

(* ... and the write of BSRR.                                              *)
ToggleWrite(c) ==
    /\ MayRun(c)
    /\ job[c].op = "toggle"
    /\ LET p == job[c].pin
       IN /\ IF p \in job[c].seen THEN Bsrr({}, {p}) ELSE Bsrr({p}, {})
          /\ want' = Flip(want, p)
    /\ job' = [job EXCEPT ![c] = Idle]
    /\ UNCHANGED <<reg, calls, lastCfg, overtaken>>
-----------------------------------------------------------------------------
Next == \E c \in Contexts :
    \/ ReadField(c) \/ WriteField(c) \/ ConfigureReturn(c) \/ ToggleWrite(c)
    \/ \E p \in PinsOf(c) :
        \/ \E cfg \in Configs : ConfigureCall(c, p, cfg)
        \/ \E level \in BOOLEAN : Drive(c, p, level)
        \/ ToggleRead(c, p)

Spec == Init /\ [][Next]_vars
-----------------------------------------------------------------------------
Elements(seq) == {seq[i] : i \in 1 .. Len(seq)}

(* A call of gpio_configure for pin p is in progress.                      *)
BeingConfigured(p) == \E c \in Contexts : job[c].op = "configure" /\ job[c].pin = p

(* The fields of pin p that a configuration determines, and their values.  *)
Settled(p) == IF lastCfg[p] = NoConfig THEN Registers ELSE Elements(Plan(p, lastCfg[p]))
Asked(r, p) == IF lastCfg[p] = NoConfig THEN Reset ELSE Field(r, lastCfg[p])

(* A pin has, in every register, what its last gpio_configure asked for,   *)
(* and its reset value if there was none, whatever was configured on other *)
(* pins in between, by whom and interleaved how - but for a field the ISR  *)
(* wrote between main's read and write of that register.  So the pins of   *)
(* main code always keep their configuration, and a race costs a pin of    *)
(* the ISR that one field.                                                 *)
OnlyOvertakenFieldsAreLost ==
    \A p \in Pins : ~ BeingConfigured(p) =>
        \A r \in Settled(p) :
            reg[r][p] = Asked(r, p) \/ (p \in IsrPins /\ <<r, p>> \in overtaken)

(* The output latch is what the completed calls made it: main code and an  *)
(* ISR that drive different pins of a port never disturb each other, not   *)
(* even with gpio_toggle, which is "NOT atomic".                           *)
OutputsAreIndependent == odr = want

(* A toggle leaves in ODR the value it read with one bit flipped: "It      *)
(* reads ODR, flips one bit, and writes back", which is why it must not be *)
(* used "from both main code and an ISR for the same port".                *)
ToggleWritesBack ==
    [][\A c \in Contexts : job[c].op = "toggle" /\ job'[c].op = "none" =>
            odr' = Flip(job[c].seen, job[c].pin)]_vars
=============================================================================

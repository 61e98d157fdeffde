------------------------------- MODULE Tmp102 -------------------------------
(***************************************************************************)
(* challenge_01_i2c_sensor_driver.c: the TMP102 driver, its HAL and the    *)
(* sensor.  One HAL transaction is one step; between two of them the       *)
(* sensor may convert and the microcontroller may restart, which the       *)
(* sensor does not notice.                                                 *)
(*                                                                         *)
(* The sensor keeps its registers as the stub of the file does; that it    *)
(* converts, and in which format, is external.  A transaction may fail     *)
(* (NACK, timeout), a write also after the sensor has taken it.            *)
(***************************************************************************)
EXTENDS Integers

CONSTANTS
    SensorAddr,     \* the address the sensor answers to
    Addresses,      \* addr arguments of tmp102_init
    Temperatures,   \* what the sensor measures, in 1/16 degrees
    Limits,         \* t_low_c and t_high_c arguments
    PowerUpConfigs, \* what the configuration register may hold at power-up
    MaxSensorCalls, MaxErrors, MaxRestarts      \* bounds

ASSUME SensorAssumption ==
    /\ SensorAddr \in Addresses
    /\ \A t \in Temperatures : t \in Int /\ -4096 <= t /\ t < 4096
    /\ 0 \in Temperatures
    /\ Limits \subseteq -128 .. 127
    /\ \A conf \in PowerUpConfigs : conf \in Nat /\ conf < 65536
    /\ {MaxSensorCalls, MaxErrors, MaxRestarts} \subseteq Nat

VARIABLES
    regs,           \* the sensor's registers
    temperature,    \* (external) the temperature it converted last
    dev,            \* the driver struct
    stage,          \* the next transaction of the call in progress
    call,           \* the call in progress, or the last one
    config,         \* tmp102_set_shutdown's local variable
    ret,            \* what the last call returned
    got, measured,  \* *celsius_x16_out; (history) the temperature at that time
    before,         \* (history) the registers when the call was made
    sensorCalls, errors, restarts

sensorVars == <<regs, temperature, dev, stage, call, config, ret, got,
                measured, before, sensorCalls, errors, restarts>>
readVars == <<temperature, got, measured>>

CfgSD == 256        \* 1 << 8, shutdown
CfgEM == 16         \* 1 << 4, extended mode
BitSet(word, mask) == (word \div mask) % 2 = 1
With(word, mask) == IF BitSet(word, mask) THEN word ELSE word + mask
Without(word, mask) == IF BitSet(word, mask) THEN word - mask ELSE word

(* (uint16_t) and (int16_t)                                                *)
Unsigned16(n) == n % 65536
Signed16(word) == IF word < 32768 THEN word ELSE word - 65536

(* A register travels most significant byte first.                         *)
ToBytes(word) == <<word \div 256, word % 256>>
FromBytes(buf) == Unsigned16(buf[1] * 256) + buf[2]

(* The sensor left-justifies a temperature in its register.                *)
TempRegister(t, conf) == Unsigned16(t * (IF BitSet(conf, CfgEM) THEN 8 ELSE 16))

NoDevice == [addr |-> 0, extended |-> FALSE]

SensorInit ==
    /\ \E conf \in PowerUpConfigs :
            regs = [TEMP |-> 0, CONFIG |-> conf,
                    TLOW |-> 75 * 256, THIGH |-> 80 * 256]
    /\ temperature = 0
    /\ dev = NoDevice
    /\ stage = "off"
    /\ call = [kind |-> "none"]
    /\ config = 0
    /\ ret = "none"
    /\ got = 0 /\ measured = 0
    /\ before = regs
    /\ sensorCalls = 0 /\ errors = 0 /\ restarts = 0
-----------------------------------------------------------------------------
(* The sensor converts, unless it is shut down.  Below 128 degrees the     *)
(* format does not matter, above only the extended one has the range.      *)
Convert(t) ==
    /\ ~ BitSet(regs.CONFIG, CfgSD)
    /\ (t \in -2048 .. 2047 \/ BitSet(regs.CONFIG, CfgEM))
    /\ temperature' = t
    /\ regs' = [regs EXCEPT !.TEMP = TempRegister(t, regs.CONFIG)]
    /\ UNCHANGED <<dev, stage, call, config, ret, got, measured, before,
                   sensorCalls, errors, restarts>>

(* The power supply of the microcontroller fails.                          *)
Restart ==
    /\ restarts < MaxRestarts
    /\ restarts' = restarts + 1
    /\ dev' = NoDevice
    /\ stage' = "off"
    /\ config' = 0
    /\ ret' = "none"
    /\ UNCHANGED <<regs, readVars, call, before, sensorCalls, errors>>
-----------------------------------------------------------------------------
(* The HAL.  Nobody answers at another address.                            *)
Success(addr) == addr = SensorAddr /\ UNCHANGED errors

Failure(addr) ==
    \/ addr # SensorAddr /\ UNCHANGED errors
    \/ addr = SensorAddr /\ errors < MaxErrors /\ errors' = errors + 1

Return(r) == stage' = "idle" /\ ret' = r

(* tmp102_write_reg16: what the register holds if the sensor takes it, and *)
(* whether it does.                                                        *)
Written(reg, value) == [regs EXCEPT ![reg] = FromBytes(ToBytes(value))]

WriteSucceeds(reg, value) ==
    /\ Success(dev.addr)
    /\ regs' = Written(reg, value)

WriteFails(reg, value) ==
    /\ Failure(dev.addr)
    /\ \/ regs' = regs
       \/ dev.addr = SensorAddr /\ regs' = Written(reg, value)

(* tmp102_read_reg16, after a success.                                     *)
ReadReg(reg) == FromBytes(ToBytes(regs[reg]))
-----------------------------------------------------------------------------
(* The driver.                                                             *)
Call(c) ==
    /\ sensorCalls < MaxSensorCalls
    /\ sensorCalls' = sensorCalls + 1
    /\ call' = c
    /\ before' = regs

(* tmp102_init                                                             *)
Initialise(addr) ==
    /\ stage \in {"off", "idle"}
    /\ Call([kind |-> "init"])
    /\ dev' = [addr |-> addr, extended |-> FALSE]
    /\ \/ Success(addr) /\ Return("ok")
       \/ Failure(addr) /\ Return("error")
    /\ UNCHANGED <<regs, readVars, config, restarts>>

(* The application tells the driver which mode the sensor is in: the       *)
(* driver itself never does.                                               *)
SetMode ==
    /\ stage = "idle"
    /\ dev' = [dev EXCEPT !.extended = BitSet(regs.CONFIG, CfgEM)]
    /\ UNCHANGED <<regs, readVars, stage, call, config, ret, before,
                   sensorCalls, errors, restarts>>

(* Seeded fault: the register is shifted as an unsigned number.            *)
RawUnsigned(word, extended) == IF extended THEN word \div 8 ELSE word \div 16
(* tmp102_read_raw                                                         *)
Raw(word, extended) ==
    IF extended THEN Signed16(word) \div 8 ELSE Signed16(word) \div 16

(* tmp102_read_celsius_x16                                                 *)
ReadCelsius ==
    /\ stage = "idle"
    /\ Call([kind |-> "read", extended |-> dev.extended])
    /\ \/ /\ Success(dev.addr)
          /\ got' = Raw(ReadReg("TEMP"), dev.extended)
          /\ measured' = temperature
          /\ Return("ok")
       \/ /\ Failure(dev.addr)
          /\ UNCHANGED <<got, measured>>
          /\ Return("error")
    /\ UNCHANGED <<regs, temperature, dev, config, restarts>>

(* "Convert integer degrees to 12-bit register format"                     *)
LimitRegister(degrees) == Unsigned16(Unsigned16(degrees * 16) * 16)

(* Seeded fault: the upper threshold is written whatever became of the     *)
(* lower one.                                                              *)
SetLowUnchecked(low, high) ==
    /\ stage = "idle"
    /\ Call([kind |-> "thresholds", low |-> low, high |-> high])
    /\ (WriteSucceeds("TLOW", LimitRegister(low)) \/ WriteFails("TLOW", LimitRegister(low)))
    /\ stage' = "high"
    /\ UNCHANGED <<readVars, dev, config, ret, restarts>>

(* tmp102_set_alert_thresholds                                             *)
SetLow(low, high) ==
    /\ stage = "idle"
    /\ Call([kind |-> "thresholds", low |-> low, high |-> high])
    /\ \/ /\ WriteSucceeds("TLOW", LimitRegister(low))
          /\ stage' = "high" /\ UNCHANGED ret
       \/ /\ WriteFails("TLOW", LimitRegister(low))
          /\ Return("error")
    /\ UNCHANGED <<readVars, dev, config, restarts>>

SetHigh ==
    /\ stage = "high"
    /\ \/ WriteSucceeds("THIGH", LimitRegister(call.high)) /\ Return("ok")
       \/ WriteFails("THIGH", LimitRegister(call.high)) /\ Return("error")
    /\ UNCHANGED <<readVars, dev, call, config, before, sensorCalls, restarts>>

(* Seeded fault: the error of the read is not looked at.                   *)
ReadConfigUnchecked(shutdown) ==
    /\ stage = "idle"
    /\ Call([kind |-> "shutdown", shutdown |-> shutdown])
    /\ \/ Success(dev.addr) /\ config' = ReadReg("CONFIG")
       \/ Failure(dev.addr) /\ config' = 0
    /\ stage' = "config"
    /\ UNCHANGED <<regs, readVars, dev, ret, restarts>>

(* tmp102_set_shutdown, a read-modify-write                                *)
ReadConfig(shutdown) ==
    /\ stage = "idle"
    /\ Call([kind |-> "shutdown", shutdown |-> shutdown])
    /\ \/ /\ Success(dev.addr)
          /\ config' = ReadReg("CONFIG")
          /\ stage' = "config" /\ UNCHANGED ret
       \/ /\ Failure(dev.addr)
          /\ UNCHANGED config
          /\ Return("error")
    /\ UNCHANGED <<regs, readVars, dev, restarts>>

WriteConfig ==
    /\ stage = "config"
    /\ LET value == IF call.shutdown THEN With(config, CfgSD)
                                     ELSE Without(config, CfgSD)
       IN \/ WriteSucceeds("CONFIG", value) /\ Return("ok")
          \/ WriteFails("CONFIG", value) /\ Return("error")
    /\ UNCHANGED <<readVars, dev, call, config, before, sensorCalls, restarts>>

SensorNext ==
    \/ \E t \in Temperatures : Convert(t)
    \/ Restart
    \/ \E addr \in Addresses : Initialise(addr)
    \/ SetMode
    \/ ReadCelsius
    \/ \E low, high \in Limits : SetLow(low, high)
    \/ SetHigh
    \/ \E shutdown \in BOOLEAN : ReadConfig(shutdown)
    \/ WriteConfig

SensorSpec == SensorInit /\ [][SensorNext]_sensorVars
-----------------------------------------------------------------------------
Done(kind) == stage = "idle" /\ ret = "ok" /\ call.kind = kind

(* A reading that returns 0 is the temperature the sensor converted last,  *)
(* with its sign, if the driver knows the mode the sensor is in; in the    *)
(* wrong mode it would be off by a factor of two.  A conversion between    *)
(* two transactions or a restart does not change that.                     *)
ReadingIsExact ==
    Done("read") /\ call.extended = BitSet(before.CONFIG, CfgEM) => got = measured

(* The thresholds in 1/16 degrees, as a 12-bit register holds them.        *)
Degrees16(r) == <<Signed16(r.TLOW) \div 16, Signed16(r.THIGH) \div 16>>

(* tmp102_set_alert_thresholds sets both thresholds if it returns 0.  Cut  *)
(* short by an error or a restart it may leave the new lower one with the  *)
(* old upper one, never the reverse.  Nothing else changes them.           *)
ThresholdsHold ==
    LET old == Degrees16(before)
        new == <<16 * call.low, 16 * call.high>>
    IN IF call.kind # "thresholds" THEN Degrees16(regs) = old
       ELSE /\ Degrees16(regs) \in {old, <<new[1], old[2]>>, new}
            /\ Done("thresholds") => Degrees16(regs) = new

(* tmp102_set_shutdown changes the shutdown bit of the configuration and   *)
(* nothing else, also if the read or the write fails or the                *)
(* microcontroller restarts between them, and has set it if it returns 0.  *)
ConfigurationHolds ==
    LET old == before.CONFIG
        new == IF call.shutdown THEN With(old, CfgSD) ELSE Without(old, CfgSD)
    IN IF call.kind # "shutdown" THEN regs.CONFIG = old
       ELSE /\ regs.CONFIG \in {old, new}
            /\ Done("shutdown") => regs.CONFIG = new
=============================================================================

----------------------------- MODULE MCDrivers ------------------------------
(***************************************************************************)
(* The three drivers of the bare-metal and protocol chapters, each with    *)
(* its hardware.  They share nothing: the board runs a program with one of *)
(* them.                                                                   *)
(***************************************************************************)
EXTENDS MCGpioDriver, UartPolling, Tmp102

(* The ends of the temperature ranges and of the limits, both signs, and   *)
(* the configuration of the stub, also in extended mode.                   *)
MCTemperatures == {-880, 0, 2047, 2400}
MCLimits == {-128, 127}
MCSensorConfigs == {24736, 24736 + CfgEM}     \* 0x60A0

VARIABLE program

driversVars == <<program, vars, uartVars, sensorVars>>

DriversInit ==
    /\ Init /\ UartInit /\ SensorInit
    /\ \/ program = "sensor"
       \/ program \in {"gpio", "uart"} /\ ~ BitSet(regs.CONFIG, CfgEM)

Running(p, step, others) == program = p /\ step /\ UNCHANGED <<program, others>>

RunGpio == Running("gpio", Next, <<uartVars, sensorVars>>)
RunUart == Running("uart", UartNext, <<vars, sensorVars>>)
RunSensor == Running("sensor", SensorNext, <<vars, uartVars>>)

(* Main code and the ISR have made their calls, or the program with the    *)
(* sensor does nothing more.                                               *)
Rests == program \in {"gpio", "sensor"} /\ UNCHANGED driversVars

DriversNext == RunGpio \/ RunUart \/ RunSensor \/ Rests

(* The transmitter shifts and the UART driver executes, when it is the one *)
(* that runs; nothing is assumed of the others.                            *)
FairDriversSpec ==
    /\ DriversInit /\ [][DriversNext]_driversVars
    /\ WF_uartVars(program = "uart" /\ ShiftRegisterLoads)
    /\ WF_uartVars(program = "uart" /\ ByteLeaves)
    /\ WF_uartVars(program = "uart" /\ Driver)
=============================================================================

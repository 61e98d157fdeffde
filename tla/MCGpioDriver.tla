---------------------------- MODULE MCGpioDriver ----------------------------
(***************************************************************************)
(* Two configurations, an output and an alternate function, that differ in *)
(* every field.                                                            *)
(***************************************************************************)
EXTENDS GpioDriver

MCPinConfigs == {[mode |-> 1, otype |-> 1, speed |-> 3, pupd |-> 1, af |-> 0],
                 [mode |-> 2, otype |-> 0, speed |-> 2, pupd |-> 2, af |-> 7]}
=============================================================================

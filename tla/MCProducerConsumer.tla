------------------------- MODULE MCProducerConsumer -------------------------
(***************************************************************************)
(* Two channels: the readings of one vary, and are clamped at 0; those of  *)
(* the other do not.                                                       *)
(***************************************************************************)
EXTENDS ProducerConsumer

CONSTANTS ch0, ch1

MCChannels == {ch0, ch1}
MCBaseline == [c \in MCChannels |-> IF c = ch0 THEN 0 ELSE 2]
MCNoise == [c \in MCChannels |-> IF c = ch0 THEN 1 ELSE 0]
=============================================================================

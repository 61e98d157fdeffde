---------------------------- MODULE MachineWords ----------------------------
(***************************************************************************)
(* The widths of the integers the drivers compute with.  They are          *)
(* parameters, so that small words can be checked exhaustively; all the    *)
(* code assumes of them is that a word holds the square of a half word.    *)
(***************************************************************************)
EXTENDS Integers

CONSTANTS
    HalfMod,        \* 2^16, the number of uint16_t values
    WordMod         \* 2^32, the number of uint32_t values

ASSUME WidthAssumption ==
    /\ HalfMod \in Nat \ {0}
    /\ WordMod = HalfMod * HalfMod
=============================================================================

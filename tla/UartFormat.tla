----------------------------- MODULE UartFormat -----------------------------
(***************************************************************************)
(* The conversions of challenge_02_uart_polling.c: uart_calc_brr, and the  *)
(* digit loops of uart_tx_uint32 and uart_tx_hex32.  The loops fill a      *)
(* buffer from its end; here a loop yields the digits it has put there,    *)
(* numbers instead of characters.                                          *)
(***************************************************************************)
EXTENDS MachineWords, Sequences

CONSTANTS
    Decimals,       \* 10, the digits there is room for in uart_tx_uint32
    HexDigits       \* 8

Powers(base, n) == LET p[i \in 0 .. n] == IF i = 0 THEN 1 ELSE base * p[i - 1] IN p
Power(base, n) == Powers(base, n)[n]

(* The buffers have room for every uint32_t.                               *)
ASSUME RoomAssumption ==
    /\ {Decimals, HexDigits} \subseteq Nat
    /\ WordMod <= Power(10, Decimals) /\ WordMod <= Power(16, HexDigits)

(* Sixteen times the divider: "rounded (not truncated) for accuracy".      *)
DivScaled(clk, baud) == ((clk + baud \div 2) % WordMod) \div baud

(* uart_calc_brr: mantissa << 4 | fraction                                 *)
CalcBrr(clk, baud) ==
    LET div == DivScaled(clk, baud)
    IN (((div \div 16) * 16) % WordMod) + (div % 16)

(* The loops over a buffer of so many places, from its end: uart_tx_hex32  *)
(* writes every place (padded), uart_tx_uint32 while value > 0.            *)
DigitLoops(base, places, padded) ==
    LET loop[k \in 0 .. places] ==
            [value \in Nat |->
                IF k > 0 /\ (padded \/ value > 0)
                THEN Append(loop[k - 1][value \div base], value % base)
                ELSE <<>>]
    IN loop

(* Seeded fault: the value 0 has no case of its own.                       *)
DecimalNoZero(value) == DigitLoops(10, Decimals, FALSE)[Decimals][value]
Decimal(value) ==
    IF value = 0 THEN <<0>> ELSE DigitLoops(10, Decimals, FALSE)[Decimals][value]

Hex(value) == DigitLoops(16, HexDigits, TRUE)[HexDigits][value]
=============================================================================

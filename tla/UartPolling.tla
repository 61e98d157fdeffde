---------------------------- MODULE UartPolling ----------------------------
(***************************************************************************)
(* challenge_02_uart_polling.c: the polled USART driver.  Every access to  *)
(* SR or DR is a step; bytes arrive on the line and leave the shift        *)
(* register between any two of them.                                       *)
(*                                                                         *)
(* The USART is external.  A byte that arrives while RXNE is set is lost   *)
(* and sets ORE; a read of DR clears RXNE and the error flags that the     *)
(* last read of SR saw; a write to DR clears TXE and TC.  Bytes are        *)
(* numbered in the order in which they arrive and are sent.                *)
(***************************************************************************)
EXTENDS UartFormat

CONSTANTS
    SysClk, Baud,   \* the clock and baud rate uart_init is called with
    Clocks, Bauds,  \* arguments of uart_calc_brr on its own
    Numbers,        \* arguments of uart_tx_uint32 and uart_tx_hex32
    Timeouts,       \* rx_timeout arguments of uart_init
    Forever,        \* UINT32_MAX: no timeout
    MaxReceived,    \* bound: bytes arriving on the line
    MaxSent,        \* bound: bytes sent
    MaxString,      \* bound: length of a string
    MaxRx           \* bound: calls of uart_rx_byte

ASSUME UartAssumption ==
    /\ Clocks \cup {SysClk} \subseteq Nat
    /\ Bauds \cup {Baud} \subseteq 1 .. WordMod - 1
    /\ \A clk \in Clocks \cup {SysClk}, baud \in Bauds \cup {Baud} :
            clk + baud \div 2 < WordMod          \* no clock is near 2^32 Hz
    /\ Numbers \subseteq 0 .. WordMod - 1
    /\ Timeouts \subseteq Nat
    /\ {Forever, MaxReceived, MaxSent, MaxString, MaxRx} \subseteq Nat

VARIABLES
    flags,      \* the receive half of SR: a subset of {"RXNE", "ORE", "FE", "NF"}
    rdr,        \* the byte in the receive data register
    arrived,    \* bytes that have arrived on the line
    tdr, shift, \* bytes in the transmit data and shift registers (0: empty)
    wire,       \* bytes that left the shift register
    divider,    \* <<clk, baud, what uart_calc_brr returned for them>>: BRR
    rxTimeout,  \* h->rx_timeout
    pc,         \* where the driver is
    timeout,    \* local variable of uart_rx_byte
    sr,         \* local variable of uart_rx_byte
    text,       \* the string being sent, and the number it shows in a base
    left,       \* bytes of the string that are still to be sent
    sent,       \* (history) bytes written to DR
    rxCalls,    \* calls of uart_rx_byte
    next,       \* (history) the byte that should be received next
    warned,     \* (history) the last byte received came with an error
    silent      \* (history) a byte was skipped without an error

rxVars == <<flags, rdr, arrived>>
txVars == <<tdr, shift, wire>>
handle == <<divider, rxTimeout>>
rxHist == <<rxCalls, next, warned, silent>>
uartVars == <<rxVars, txVars, handle, pc, timeout, sr, text, left, sent, rxHist>>

NoText == [base |-> 1, value |-> 0, chars |-> <<>>]

UartInit ==
    /\ flags = {} /\ rdr = 0 /\ arrived = 0
    /\ tdr = 0 /\ shift = 0 /\ wire = <<>>
    /\ divider = <<>> /\ rxTimeout = 0
    /\ pc = "off" /\ timeout = 0 /\ sr = {}
    /\ text = NoText /\ left = 0
    /\ sent = 0
    /\ rxCalls = 0 /\ next = 1 /\ warned = FALSE /\ silent = FALSE
-----------------------------------------------------------------------------
(* The USART.                                                              *)
TXE == tdr = 0
TC == tdr = 0 /\ shift = 0

ByteArrives ==
    /\ pc # "off"
    /\ arrived < MaxReceived
    /\ arrived' = arrived + 1
    /\ IF "RXNE" \in flags
       THEN flags' = flags \cup {"ORE"} /\ rdr' = rdr
       ELSE /\ \E errors \in SUBSET {"FE", "NF"} : flags' = flags \cup {"RXNE"} \cup errors
            /\ rdr' = arrived + 1
    /\ UNCHANGED <<handle, pc, timeout, sr, text, left, sent, txVars, rxHist>>

ShiftRegisterLoads ==
    /\ shift = 0 /\ tdr # 0
    /\ shift' = tdr
    /\ tdr' = 0
    /\ UNCHANGED <<wire, handle, pc, timeout, sr, text, left, sent, rxVars, rxHist>>

ByteLeaves ==
    /\ shift # 0
    /\ wire' = Append(wire, shift)
    /\ shift' = 0
    /\ UNCHANGED <<tdr, handle, pc, timeout, sr, text, left, sent, rxVars, rxHist>>
-----------------------------------------------------------------------------
(* uart_init.  It clears UE, so a caller that re-initialises waits for TC  *)
(* first, as the header of uart_wait_tc asks.  While UE is clear the USART *)
(* receives nothing, as before the first call, and the transmitter is      *)
(* idle: no step of the hardware comes between the register accesses.      *)
CallInit(t) ==
    /\ pc \in {"off", "idle"}
    /\ TC
    /\ divider' = <<SysClk, Baud, CalcBrr(SysClk, Baud)>>
    /\ rxTimeout' = t
    /\ pc' = "idle"
    /\ UNCHANGED <<timeout, sr, text, left, sent, rxVars, txVars, rxHist>>

(* uart_calc_brr on its own; asked for before uart_init, as it touches     *)
(* nothing.                                                                *)
Calculate(clk, baud) ==
    /\ pc = "off" /\ divider = <<>>
    /\ divider' = <<clk, baud, CalcBrr(clk, baud)>>
    /\ UNCHANGED <<rxTimeout, pc, timeout, sr, text, left, sent, rxVars, txVars, rxHist>>

(* uart_tx_string; a byte on its own is a string of length one.            *)
TxString(t) ==
    /\ pc = "idle"
    /\ sent + Len(t.chars) <= MaxSent
    /\ text' = t
    /\ left' = Len(t.chars)
    /\ pc' = "tx"
    /\ UNCHANGED <<handle, timeout, sr, sent, rxVars, txVars, rxHist>>

TxPlain(n) == TxString([NoText EXCEPT !.chars = [i \in 1 .. n |-> "c"]])

(* uart_tx_uint32 and uart_tx_hex32 fill a buffer and send it.             *)
TxUint32(v) == TxString([base |-> 10, value |-> v, chars |-> Decimal(v)])
TxHex32(v) == TxString([base |-> 16, value |-> v, chars |-> Hex(v)])

TxStringReturns ==
    /\ pc = "tx" /\ left = 0
    /\ pc' = "idle"
    /\ text' = NoText
    /\ UNCHANGED <<handle, timeout, sr, left, sent, rxVars, txVars, rxHist>>

(* The loop on TXE in uart_tx_byte ends.                                   *)
MayWrite == TXE

TxByte ==
    /\ pc = "tx" /\ left > 0
    /\ MayWrite
    /\ tdr' = sent + 1
    /\ sent' = sent + 1
    /\ left' = left - 1
    /\ UNCHANGED <<shift, wire, text, handle, pc, timeout, sr, rxVars, rxHist>>

WaitTcCall ==
    /\ pc = "idle"
    /\ pc' = "tc"
    /\ UNCHANGED <<handle, timeout, sr, text, left, sent, rxVars, txVars, rxHist>>

(* Seeded fault: TXE is taken for TC.                                      *)
WaitOverOnTxe == TXE
WaitOver == TC

WaitTcReturns ==
    /\ pc = "tc"
    /\ WaitOver
    /\ pc' = "sent"
    /\ UNCHANGED <<handle, timeout, sr, text, left, sent, rxVars, txVars, rxHist>>

(* The caller goes on after uart_wait_tc.                                  *)
AfterWaitTc ==
    /\ pc = "sent"
    /\ pc' = "idle"
    /\ UNCHANGED <<handle, timeout, sr, text, left, sent, rxVars, txVars, rxHist>>
-----------------------------------------------------------------------------
RxCall ==
    /\ pc = "idle"
    /\ rxCalls < MaxRx
    /\ rxCalls' = rxCalls + 1
    /\ pc' = "rx"
    /\ timeout' = rxTimeout
    /\ UNCHANGED <<handle, sr, text, left, sent, next, warned, silent, rxVars, txVars>>

(* Seeded fault: the countdown is left out.                                *)
CountdownOmitted(t) == t
Countdown(t) == IF t = Forever THEN t ELSE t - 1

(* One iteration of the loop on RXNE.                                      *)
RxPoll ==
    /\ pc = "rx"
    /\ IF "RXNE" \in flags THEN pc' = "sr" /\ timeout' = timeout
       ELSE IF timeout = 0 THEN pc' = "idle" /\ timeout' = timeout
            ELSE pc' = pc /\ timeout' = Countdown(timeout)
    /\ UNCHANGED <<handle, sr, text, left, sent, rxVars, txVars, rxHist>>

RxReadSr ==
    /\ pc = "sr"
    /\ sr' = flags
    /\ pc' = "dr"
    /\ UNCHANGED <<handle, timeout, text, left, sent, rxVars, txVars, rxHist>>

(* Seeded fault: the overrun flag is not looked at.                        *)
RxErrorsNoOverrun == sr \cap {"FE", "NF"}
(* UART_ERR_FRAME, UART_ERR_OVERRUN, UART_ERR_NOISE                        *)
RxErrors == sr \cap {"FE", "ORE", "NF"}

(* The read of DR, and the return.                                         *)
RxReadDr ==
    /\ pc = "dr"
    /\ flags' = flags \ (sr \cup {"RXNE"})
    /\ pc' = "idle"
    /\ sr' = {}
    /\ next' = rdr + 1
    /\ warned' = (RxErrors # {})
    /\ silent' = (silent \/ (RxErrors = {} /\ rdr # next /\ ~ warned))
    /\ UNCHANGED <<rdr, arrived, handle, timeout, text, left, sent, rxCalls, txVars>>
-----------------------------------------------------------------------------
Usart == ByteArrives \/ ShiftRegisterLoads \/ ByteLeaves

Driver ==
    \/ TxByte \/ TxStringReturns \/ WaitTcReturns \/ AfterWaitTc
    \/ RxPoll \/ RxReadSr \/ RxReadDr

UartNext ==
    \/ Usart
    \/ Driver
    \/ \E t \in Timeouts : CallInit(t)
    \/ \E clk \in Clocks, baud \in Bauds : Calculate(clk, baud)
    \/ \E n \in 1 .. MaxString : TxPlain(n)
    \/ \E v \in Numbers : TxUint32(v) \/ TxHex32(v)
    \/ WaitTcCall
    \/ RxCall

UartSpec == UartInit /\ [][UartNext]_uartVars

(* The transmitter shifts, the driver executes; nobody has to send to us.  *)
FairUartSpec ==
    /\ UartSpec
    /\ WF_uartVars(ShiftRegisterLoads) /\ WF_uartVars(ByteLeaves)
    /\ WF_uartVars(Driver)
-----------------------------------------------------------------------------
InFlight(b) == IF b = 0 THEN <<>> ELSE <<b>>

(* Every byte goes onto the wire once and in order, none is overwritten in *)
(* the data register, and when uart_wait_tc returns every bit has left the *)
(* shift register: a driver that takes TXE for TC or writes too early      *)
(* loses a byte only at some speeds.                                       *)
SentInOrder ==
    /\ wire \o InFlight(shift) \o InFlight(tdr) = [i \in 1 .. sent |-> i]
    /\ pc = "sent" => Len(wire) = sent

(* The number that a string of digits denotes.                             *)
Values(digits, base) ==
    LET v[i \in 0 .. Len(digits)] == IF i = 0 THEN 0 ELSE v[i - 1] * base + digits[i]
    IN v
Numeral(digits, base) == Values(digits, base)[Len(digits)]
Distance(a, b) == IF a < b THEN b - a ELSE a - b

(* What is computed is what it is for: the string of a number denotes it,  *)
(* a decimal one without leading zeros, a hexadecimal one with all its     *)
(* digits, also of the largest value there is room for; the divider in BRR *)
(* is the closest there is to the baud rate.                               *)
ConversionsAreExact ==
    /\ text.base # 1 => Numeral(text.chars, text.base) = text.value
    /\ text.base = 10 => Len(text.chars) > 0
                         /\ (text.value # 0 => Head(text.chars) # 0)
    /\ text.base = 16 => Len(text.chars) = HexDigits
    /\ divider # <<>> =>
        2 * Distance(divider[3] * divider[2], divider[1]) <= divider[2]

(* A byte lost on the line never goes unnoticed: when a byte is returned   *)
(* with UART_OK the one before it was returned, or returned an error.      *)
NoSilentLoss == ~ silent

(* Every call returns: a receive by its timeout, a transmit because the    *)
(* shift register empties.                                                 *)
CallsReturn ==
    pc \in {"tx", "tc", "rx", "sr", "dr"} /\ rxTimeout # Forever
        ~> pc \in {"idle", "sent"}
=============================================================================

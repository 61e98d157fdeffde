------------------------------ MODULE SpiFlash ------------------------------
(***************************************************************************)
(* challenge_02_spi_flash_driver.c: the W25Qxx driver and the chip it      *)
(* talks to.  One chip-select cycle is one step; between two of them the   *)
(* chip may finish a program or erase operation, and the microcontroller   *)
(* may restart.                                                            *)
(*                                                                         *)
(* Two chips can be connected: the "stub" of the file, which finishes at   *)
(* once and does not look at its write-enable latch, and a "w25q", which   *)
(* is external: it stays BUSY for a while, obeys nothing but the status    *)
(* command while it does, needs WEL for a program or an erase and clears   *)
(* WEL when the operation is complete.  The SPI transfers of the stub      *)
(* never fail, those to the w25q may.                                      *)
(***************************************************************************)
EXTENDS Naturals, Sequences

CONSTANTS
    PageSize, SectorSize, BlockSize,    \* FLASH_PAGE_SIZE etc.
    Capacity,       \* bytes in the chip: w25q_init takes up to 2^27
    BusMod,         \* 2^24: an address travels as three bytes
    WordMod,        \* 2^32
    Bits,           \* the bits of a byte
    MaxLen,         \* bound: longest len argument
    CallAddrs,      \* bound: addr arguments
    ProgramPolls, ErasePolls, ReadPolls,
                    \* status reads before flash_wait_not_busy gives up
    BusyTimes,      \* status reads an operation of the chip outlasts
    Never,          \* the busy time of an operation that does not end
    Chips,          \* which chips may be connected
    MaxErrors, MaxRestarts, MaxCalls    \* bounds on what happens in a run

ASSUME FlashAssumption ==
    /\ {PageSize, SectorSize, BlockSize, BusMod, WordMod} \subseteq Nat \ {0}
    /\ {Capacity, MaxLen, ProgramPolls, ErasePolls, ReadPolls, Never,
        MaxErrors, MaxRestarts, MaxCalls} \subseteq Nat
    /\ SectorSize % PageSize = 0 /\ BlockSize % SectorSize = 0
    /\ Capacity % BlockSize = 0 /\ BusMod % BlockSize = 0
    /\ WordMod % BusMod = 0 /\ BusMod < WordMod /\ Capacity < WordMod
    /\ BusyTimes \subseteq Nat
    /\ CallAddrs \subseteq 0 .. WordMod - 1
    /\ Chips \subseteq {"stub", "w25q"}

VARIABLES
    chip,       \* the chip that is connected
    mem,        \* its memory; a byte is the set of its bits that are 1
    wel,        \* its write enable latch
    busy,       \* status reads its current operation will still outlast
    capacity,   \* dev->capacity_bytes
    pc,         \* where the driver is
    call,       \* the arguments of the call in progress, or of the last one
    offset,     \* w25q_write's offset
    polls,      \* iterations left in flash_wait_not_busy
    ret,        \* what the last call returned
    got,        \* what w25q_read stored in the caller's buffer
    before,     \* (history) the memory when the call was made
    idleBefore, \* (history) whether the chip was idle then
    budget      \* errors, restarts and calls that may still happen

chipVars == <<chip, mem, wel, busy>>
callVars == <<capacity, call, before, idleBefore>>
vars == <<chip, mem, wel, busy, capacity, pc, call, offset, polls, ret, got,
          before, idleBefore, budget>>

Addresses == 0 .. Capacity - 1
Erased == Bits
NoCall == [kind |-> "none", addr |-> 0, len |-> 0, data |-> <<>>]
AlignDown(a, size) == a - (a % size)
Min(a, b) == IF a < b THEN a ELSE b

Init ==
    /\ chip \in Chips
    /\ mem = [a \in Addresses |-> Erased]
    /\ wel = FALSE
    /\ busy = 0
    /\ capacity = 0
    /\ pc = "off"
    /\ call = NoCall
    /\ offset = 0
    /\ polls = 0
    /\ ret = "none"
    /\ got = <<>>
    /\ before = mem
    /\ idleBefore = TRUE
    /\ budget = [errors |-> MaxErrors, restarts |-> MaxRestarts, calls |-> MaxCalls]
-----------------------------------------------------------------------------
(* The chip.                                                               *)

(* The array location an address sent over the bus selects.                *)
Cell(a) == (a % BusMod) % Capacity

(* Where the i-th byte of a program command at a goes: the address counter *)
(* of a w25q stays in its page.                                            *)
ProgramCell(a, i) ==
    IF chip = "stub" THEN Cell(a + i - 1)
    ELSE AlignDown(Cell(a), PageSize) + ((a + i - 1) % PageSize)

(* m after the first n bytes of data were programmed at a: bits are only   *)
(* ever cleared.                                                           *)
Programmed(m, a, data, n) ==
    [x \in Addresses |->
        IF \E i \in 1 .. n : ProgramCell(a, i) = x
        THEN m[x] \cap data[CHOOSE i \in 1 .. n : ProgramCell(a, i) = x]
        ELSE m[x]]

(* m with the size-aligned region of cell a erased.                        *)
ErasedAt(m, a, size) ==
    [x \in Addresses |-> IF AlignDown(x, size) = AlignDown(Cell(a), size)
                         THEN Erased ELSE m[x]]

Obeys == chip = "stub" \/ busy = 0

(* The chip carries out a program or erase command with result m.          *)
Commit(m) ==
    IF chip = "stub" THEN mem' = m /\ wel' = FALSE /\ busy' = 0
    ELSE IF busy = 0 /\ wel
         THEN /\ mem' = m
              /\ busy' \in BusyTimes
              /\ wel' = (busy' # 0)
         ELSE UNCHANGED <<mem, wel, busy>>

(* Time passes for the chip while a status register is read.               *)
StatusRead ==
    /\ busy' = IF busy \in {0, Never} THEN busy ELSE busy - 1
    /\ wel' = (wel /\ busy # 1)

(* The operation in progress ends while the driver is not called.          *)
ChipFinishes ==
    /\ pc \in {"off", "idle"}
    /\ busy \notin {0, Never}
    /\ busy' = 0
    /\ wel' = FALSE
    /\ UNCHANGED <<chip, mem, pc, offset, polls, ret, got, budget, callVars>>
-----------------------------------------------------------------------------
(* The driver.                                                             *)
Return(r) ==
    /\ pc' = "idle"
    /\ ret' = r

(* A SPI transfer returns nonzero.                                         *)
TransferFails ==
    /\ chip = "w25q"
    /\ budget.errors > 0
    /\ budget' = [budget EXCEPT !.errors = @ - 1]

(* w25q_init.  A busy chip does not answer the ID command.                 *)
Initialise ==
    /\ pc \in {"off", "idle"}
    /\ budget.calls > 0
    /\ call' = NoCall
    /\ before' = mem
    /\ idleBefore' = (busy = 0)
    /\ got' = <<>>
    /\ \/ /\ budget' = [budget EXCEPT !.calls = @ - 1]
          /\ IF Obeys THEN capacity' = Capacity /\ Return("ok")
                      ELSE capacity' = 0 /\ Return("error")
       \/ TransferFails /\ capacity' = 0 /\ Return("error")
    /\ UNCHANGED <<chip, mem, wel, busy, offset, polls>>

InRange(a, n) == (a + n) % WordMod <= capacity

(* Seeded fault: the page boundary is not checked.                         *)
ValidUnpaged(c) ==
    CASE c.kind = "read"  -> c.len > 0 /\ InRange(c.addr, c.len)
      [] c.kind = "write" -> c.len > 0 /\ InRange(c.addr, c.len)
      [] c.kind = "page"  -> c.len \in 1 .. PageSize /\ InRange(c.addr, c.len)
      [] c.kind = "sector" -> AlignDown(c.addr, SectorSize) < capacity
      [] c.kind = "block"  -> AlignDown(c.addr, BlockSize) < capacity

(* The checks at the head of each function.                                *)
Valid(c) ==
    CASE c.kind = "read"  -> c.len > 0 /\ InRange(c.addr, c.len)
      [] c.kind = "write" -> c.len > 0 /\ InRange(c.addr, c.len)
      [] c.kind = "page"  -> /\ c.len \in 1 .. PageSize
                             /\ InRange(c.addr, c.len)
                             /\ (c.addr % PageSize) + c.len <= PageSize
      [] c.kind = "sector" -> AlignDown(c.addr, SectorSize) < capacity
      [] c.kind = "block"  -> AlignDown(c.addr, BlockSize) < capacity

Bytes == SUBSET Bits
ProgramCalls(n) ==
    [kind : {"write", "page"}, addr : CallAddrs, len : {n}, data : [1 .. n -> Bytes]]
ReadCalls == [kind : {"read"}, addr : CallAddrs, len : 0 .. MaxLen, data : {<<>>}]
EraseCalls == [kind : {"sector", "block"}, addr : CallAddrs, len : {0}, data : {<<>>}]
Calls == (UNION {ProgramCalls(n) : n \in 0 .. MaxLen}) \cup ReadCalls \cup EraseCalls

Entry(kind) == CASE kind = "read"  -> "poll"
                 [] kind = "write" -> "chunk"
                 [] OTHER          -> "wren"

(* The memory of the stub is an array of the test program: the tests make  *)
(* no call that runs past its end, and one whose addr + len wraps would.   *)
WithinArray(c) == c.addr + c.len < WordMod

Call(c) ==
    /\ pc = "idle"
    /\ budget.calls > 0
    /\ chip = "stub" => WithinArray(c)
    /\ budget' = [budget EXCEPT !.calls = @ - 1]
    /\ call' = c
    /\ before' = mem
    /\ idleBefore' = (busy = 0)
    /\ offset' = 0
    /\ polls' = ReadPolls
    /\ got' = <<>>
    /\ IF Valid(c) THEN pc' = Entry(c.kind) /\ ret' = "none"
                   ELSE Return("error")
    /\ UNCHANGED <<capacity, chipVars>>

(* The chunk that w25q_write (or a page program call) is at.               *)
At == (call.addr + offset) % WordMod
(* Seeded fault: w25q_write does not split at page boundaries.             *)
ChunkLenUnsplit == IF call.kind = "page" THEN call.len ELSE call.len - offset
ChunkLen == IF call.kind = "page" THEN call.len
            ELSE Min(call.len - offset, PageSize - (At % PageSize))
ChunkData == SubSeq(call.data, offset + 1, offset + ChunkLen)

(* The loop of w25q_write: leave it, or enter w25q_page_program, which     *)
(* checks the range of the chunk again.                                    *)
NextChunk ==
    /\ pc = "chunk"
    /\ IF offset = call.len THEN Return("ok")
       ELSE IF InRange(At, ChunkLen) THEN pc' = "wren" /\ ret' = ret
                                     ELSE Return("error")
    /\ UNCHANGED <<offset, polls, got, budget, chipVars, callVars>>
-----------------------------------------------------------------------------
(* w25q_write_enable: the command, then the status that must show WEL.     *)
WriteEnable ==
    /\ pc = "wren"
    /\ \/ /\ pc' = "verify"
          /\ wel' = (wel \/ Obeys)
          /\ UNCHANGED <<ret, budget>>
       \/ /\ TransferFails
          /\ wel' \in {wel, wel \/ Obeys}
          /\ Return("error")
    /\ UNCHANGED <<chip, mem, busy, offset, polls, got, callVars>>

VerifyEnabled ==
    /\ pc = "verify"
    /\ StatusRead
    /\ \/ /\ IF wel THEN pc' = "command" /\ ret' = ret ELSE Return("error")
          /\ UNCHANGED budget
       \/ TransferFails /\ Return("error")
    /\ UNCHANGED <<chip, mem, offset, polls, got, callVars>>

(* The PAGE_PROGRAM command.  After a failed transfer the chip has some    *)
(* prefix of the data, and programs it.                                    *)
ProgramPage ==
    /\ pc = "command"
    /\ call.kind \in {"write", "page"}
    /\ \/ /\ Commit(Programmed(mem, At, ChunkData, ChunkLen))
          /\ pc' = "poll"
          /\ polls' = ProgramPolls
          /\ UNCHANGED <<ret, budget>>
       \/ /\ TransferFails
          /\ Return("error")
          /\ UNCHANGED polls
          /\ \/ UNCHANGED <<mem, wel, busy>>
             \/ \E n \in 1 .. ChunkLen : Commit(Programmed(mem, At, ChunkData, n))
    /\ UNCHANGED <<chip, offset, got, callVars>>

(* Seeded fault: the sector function sends the block command.              *)
EraseSizeSwapped == BlockSize
EraseSize == IF call.kind = "sector" THEN SectorSize ELSE BlockSize

(* w25q_erase_sector_4k and w25q_erase_block_64k.                          *)
EraseRegion ==
    /\ pc = "command"
    /\ call.kind \in {"sector", "block"}
    /\ LET after == ErasedAt(mem, AlignDown(call.addr, EraseSize), EraseSize)
       IN \/ /\ Commit(after)
             /\ pc' = "poll"
             /\ UNCHANGED <<ret, budget>>
          \/ /\ TransferFails
             /\ Return("error")
             /\ Commit(after) \/ UNCHANGED <<mem, wel, busy>>
    /\ polls' = ErasePolls
    /\ UNCHANGED <<chip, offset, got, callVars>>

StillBusy == busy > 0

(* Seeded fault: the wait has no time limit.                               *)
PollsLeftUnlimited == polls
PollsLeft == polls - 1

(* One iteration of flash_wait_not_busy, and what the caller does next.    *)
Poll ==
    /\ pc = "poll"
    /\ \/ /\ polls = 0
          /\ Return("error")
          /\ UNCHANGED <<offset, polls, wel, busy, budget>>
       \/ /\ polls > 0
          /\ StatusRead
          /\ TransferFails
          /\ Return("error")
          /\ UNCHANGED <<offset, polls>>
       \/ /\ polls > 0
          /\ StatusRead
          /\ UNCHANGED budget
          /\ IF StillBusy
             THEN /\ polls' = PollsLeft
                  /\ UNCHANGED <<pc, ret, offset>>
             ELSE /\ polls' = polls
                  /\ CASE call.kind = "read"  -> /\ pc' = "data"
                                                 /\ UNCHANGED <<ret, offset>>
                       [] call.kind = "write" -> /\ pc' = "chunk"
                                                 /\ offset' = offset + ChunkLen
                                                 /\ ret' = ret
                       [] OTHER               -> Return("ok") /\ offset' = offset
    /\ UNCHANGED <<chip, mem, got, callVars>>

(* READ_DATA.                                                              *)
ReadData ==
    /\ pc = "data"
    /\ \/ /\ got' = [i \in 1 .. call.len |-> mem[Cell(call.addr + i - 1)]]
          /\ Return("ok")
          /\ UNCHANGED budget
       \/ TransferFails /\ Return("error") /\ UNCHANGED got
    /\ UNCHANGED <<offset, polls, chipVars, callVars>>

(* The microcontroller restarts; the chip keeps its power.                 *)
Restart ==
    /\ pc # "off"
    /\ budget.restarts > 0
    /\ budget' = [budget EXCEPT !.restarts = @ - 1]
    /\ pc' = "off"
    /\ capacity' = 0
    /\ ret' = "none"
    /\ got' = <<>>
    /\ UNCHANGED <<offset, polls, call, before, idleBefore, chipVars>>
-----------------------------------------------------------------------------
Driver ==
    \/ NextChunk \/ WriteEnable \/ VerifyEnabled
    \/ ProgramPage \/ EraseRegion \/ Poll \/ ReadData

Next ==
    \/ Initialise
    \/ \E c \in Calls : Call(c)
    \/ Driver
    \/ ChipFinishes
    \/ Restart

Spec == Init /\ [][Next]_vars

(* A call that was made is executed.                                       *)
FairSpec == Spec /\ WF_vars(Driver)
-----------------------------------------------------------------------------
(* The memory at the call, with the first n bytes of data programmed in    *)
(* place, and with the region erased.                                      *)
Stored(n) ==
    [x \in Addresses |->
        LET i == x - call.addr + 1
        IN IF x >= call.addr /\ i <= n THEN before[x] \cap call.data[i]
                                       ELSE before[x]]

Region == LET size == IF call.kind = "sector" THEN SectorSize ELSE BlockSize
          IN {x \in Addresses : AlignDown(x, size) = AlignDown(call.addr, size)}

Cleared == [x \in Addresses |-> IF x \in Region THEN Erased ELSE before[x]]

(* A call that returns 0 did what it was called for: the bytes written are *)
(* in place (bits only cleared), the region is erased, the buffer holds    *)
(* what the memory holds, and the chip is left idle with its write enable  *)
(* latch clear.  "read back matches written data"                          *)
SuccessMeansDone ==
    pc = "idle" /\ ret = "ok" =>
        CASE call.kind \in {"write", "page"} -> mem = Stored(call.len) /\ busy = 0 /\ ~ wel
          [] call.kind \in {"sector", "block"} -> mem = Cleared /\ busy = 0 /\ ~ wel
          [] call.kind = "read" ->
                /\ mem = before
                /\ \A i \in 1 .. call.len :
                    call.addr + i - 1 \in Addresses /\ got[i] = mem[call.addr + i - 1]
          [] OTHER -> mem = before

(* The bytes of the call are among those a 24-bit address can name, so     *)
(* that addr + len does not wrap either.                                   *)
Addressable == call.addr < BusMod /\ call.addr + call.len <= BusMod

(* The same of the addressable calls made while the chip is idle: all of   *)
(* them, unless an earlier call failed and left the chip at work.          *)
IdleSuccessMeansDone == idleBefore /\ Addressable => SuccessMeansDone

(* When the chip was idle at an addressable call then at every moment, and *)
(* after a failed transfer or a restart, a write has stored a prefix of    *)
(* its data and touched nothing else, and an erase has erased its region   *)
(* or nothing.                                                             *)
FailureLeavesPrefix ==
    idleBefore /\ Addressable =>
        CASE call.kind \in {"write", "page"} -> \E n \in 0 .. call.len : mem = Stored(n)
          [] call.kind \in {"sector", "block"} -> mem \in {before, Cleared}
          [] OTHER -> mem = before

(* Failed transfers, a chip that stays busy, retries on a busy chip: no    *)
(* addressable call changes a byte outside its target, nor does any read.  *)
ConfinedToTarget ==
    Addressable \/ call.kind = "read" =>
        \A a \in Addresses : mem[a] # before[a] =>
            \/ /\ call.kind \in {"write", "page"}
               /\ a \in call.addr .. call.addr + call.len - 1
            \/ call.kind \in {"sector", "block"} /\ a \in Region

(* A call that returns 0, or has so far passed its checks, lies inside the *)
(* chip: the others are "out of range".                                    *)
OutOfRangeIsRefused ==
    (pc \notin {"off", "idle"} \/ ret = "ok")
        /\ call.kind \in {"read", "write", "page"} => call.addr + call.len <= capacity

(* A call on an idle chip that lies inside the chip and returns 0 did what *)
(* it was called for: "writes 'len' bytes to 'addr'", "Returns 0 on        *)
(* success", on every chip w25q_init recognises.                           *)
InRangeSuccessMeansDone ==
    idleBefore /\ call.addr + call.len <= Capacity => SuccessMeansDone

(* Every call returns, even when the chip never leaves BUSY.               *)
EveryCallReturns == pc \notin {"off", "idle"} ~> pc \in {"off", "idle"}
=============================================================================

--------------------------- MODULE SpiFlash_proofs ---------------------------
(***************************************************************************)
(* Proofs about the W25Qxx driver and its chip, for every geometry of the  *)
(* chip (sizes that divide each other; a chip larger than the 24-bit bus   *)
(* reaches too), every set of calls (those whose addr + len wraps too),    *)
(* chips that are slow, stuck or busy with the operation of an earlier     *)
(* call, and any number of failed transfers and restarts. What is shown of *)
(* the memory is shown of each call the bus can address, Addressable.      *)
(*                                                                         *)
(* Three parts: arithmetic of aligned units, what each command does to the *)
(* memory, and the invariant, one lemma for each of its conjuncts.         *)
(***************************************************************************)
EXTENDS SpiFlash, SequenceTheorems, TLAPS

(* The call in progress programs,                                          *)
Programs == call.kind \in {"write", "page"}

(* or erases,                                                              *)
Erases == call.kind \in {"sector", "block"}

(* and has not returned.                                                   *)
Active == pc \notin {"off", "idle"}

(* The types of the variables. A call is one of those the callers may      *)
(* make: what its bytes are and how many.                                  *)
TypeInv ==
    /\ chip \in {"stub", "w25q"}
    /\ mem = [a \in Addresses |-> mem[a]]
    /\ before = [a \in Addresses |-> before[a]]
    /\ wel \in BOOLEAN
    /\ busy \in Nat
    /\ capacity \in {0, Capacity}
    /\ pc \in {"off", "idle", "chunk", "wren", "verify", "command", "poll", "data"}
    /\ call \in Calls \cup {NoCall}
    /\ offset \in Nat
    /\ idleBefore \in BOOLEAN

(* A call in progress passed the checks at the head of its function on an  *)
(* initialised chip, and the driver is at a step of that kind of call with *)
(* something left to do.                                                   *)
CallInv ==
    Active =>
        /\ call \in Calls
        /\ Valid(call)
        /\ Addressable => capacity = Capacity
        /\ call.kind = "page" => offset = 0
        /\ call.kind = "write" => offset <= call.len
        /\ pc = "chunk" => call.kind = "write"
        /\ pc \in {"wren", "verify", "command"} => Programs \/ Erases
        /\ pc = "data" => call.kind = "read"
        /\ Programs /\ pc # "chunk" => offset < call.len

(* How many bytes the chip has programmed: the chunk that is being waited  *)
(* for is already in place.                                                *)
Done == IF pc = "poll" THEN offset + ChunkLen ELSE offset

(* When the chip was idle at the call: it is idle again and its latch set  *)
(* at the moment of every command, and when it is idle after a command its *)
(* latch is clear; and if the bus can address the call, its memory is the  *)
(* one at the call with exactly the bytes done programmed.                 *)
ProgressInv ==
    Active /\ idleBefore =>
        /\ pc \in {"chunk", "wren", "verify", "command"} => busy = 0
        /\ pc = "command" => wel
        /\ pc = "chunk" /\ offset > 0 => ~ wel
        /\ pc = "poll" /\ call.kind # "read" /\ busy = 0 => ~ wel
        /\ Programs /\ Addressable => mem = Stored(Done)
        /\ Erases /\ Addressable => mem = IF pc = "poll" THEN Cleared ELSE before
        /\ call.kind = "read" => mem = before

(* The inductive invariant.                                                *)
FlashInv ==
    /\ TypeInv /\ CallInv /\ ProgressInv
    /\ ConfinedToTarget /\ FailureLeavesPrefix /\ IdleSuccessMeansDone

(* The constants that describe the chip.                                   *)
LEMMA GeometryTypes ==
    /\ PageSize \in Nat \ {0} /\ SectorSize \in Nat \ {0} /\ BlockSize \in Nat \ {0}
    /\ BusMod \in Nat \ {0} /\ WordMod \in Nat \ {0} /\ Capacity \in Nat
    /\ BusMod < WordMod /\ MaxLen \in Nat
    /\ CallAddrs \subseteq 0 .. WordMod - 1
  <1>1. /\ PageSize \in Nat \ {0} /\ SectorSize \in Nat \ {0} /\ BlockSize \in Nat \ {0}
        /\ BusMod \in Nat \ {0} /\ WordMod \in Nat \ {0}
    BY FlashAssumption
  <1>2. Capacity \in Nat /\ MaxLen \in Nat
    BY FlashAssumption
  <1> QED
    BY <1>1, <1>2, FlashAssumption

(* Division with remainder,                                                *)
LEMMA Quotient ==
    ASSUME NEW n \in Nat, NEW d \in Nat, d > 0
    PROVE  \E q \in Nat : n = q * d + (n % d)
  BY SMTT(20)

(* and what determines the remainder.                                      *)
LEMMA Remainder ==
    ASSUME NEW n \in Nat, NEW d \in Nat \ {0}, NEW q \in Nat, NEW r \in 0 .. d - 1,
           n = q * d + r
    PROVE  n % d = r
  OBVIOUS

(* Moving by i inside an aligned unit of size d moves the offset in the    *)
(* unit by i and stays in the unit.                                        *)
LEMMA WithinUnit ==
    ASSUME NEW a \in Nat, NEW d \in Nat \ {0}, NEW i \in Nat, (a % d) + i < d
    PROVE  /\ (a + i) % d = (a % d) + i
           /\ AlignDown(a, d) + ((a + i) % d) = a + i
  <1> DEFINE r == a % d
  <1>0. d > 0
    OBVIOUS
  <1>1. PICK q \in Nat : a = q * d + r
    BY <1>0, Quotient
  <1>2. r \in 0 .. d - 1 /\ r + i < d
    OBVIOUS
  <1>3. AlignDown(a, d) = a - r
    BY DEF AlignDown
  <1> HIDE DEF r
  <1>4. q * d \in Int
    OBVIOUS
  <1>5. a + i \in Nat /\ r + i \in 0 .. d - 1 /\ a + i = q * d + (r + i)
    BY <1>1, <1>2, <1>4
  <1>6. (a + i) % d = r + i
    BY <1>5, Remainder
  <1>7. (a - r) + (r + i) = a + i
    BY <1>2
  <1> QED
    BY <1>3, <1>6, <1>7 DEF r

(* Aligning down gives an aligned address, not above the one given.        *)
LEMMA AlignedDown ==
    ASSUME NEW a \in Nat, NEW d \in Nat \ {0}
    PROVE  /\ AlignDown(a, d) \in Nat
           /\ AlignDown(a, d) <= a
           /\ AlignDown(AlignDown(a, d), d) = AlignDown(a, d)
  <1> DEFINE r == a % d
             b == a - r
  <1>0. d > 0
    OBVIOUS
  <1>1. PICK q \in Nat : a = q * d + r
    BY <1>0, Quotient
  <1>2. r \in 0 .. d - 1
    OBVIOUS
  <1>3. AlignDown(a, d) = b
    BY DEF AlignDown
  <1>4. AlignDown(b, d) = b - (b % d)
    BY DEF AlignDown
  <1> HIDE DEF r
  <1>5. q * d \in Nat
    OBVIOUS
  <1>6. b \in Nat /\ b = q * d + 0 /\ b <= a
    BY <1>1, <1>2, <1>5
  <1> HIDE DEF b
  <1>7. b % d = 0
    BY <1>6, Remainder
  <1> QED
    BY <1>3, <1>4, <1>6, <1>7

(* An address of the chip below 2^24 goes over the bus unchanged.          *)
LEMMA CellIsAddress ==
    ASSUME NEW a \in Addresses, a < BusMod
    PROVE  Cell(a) = a
  <1>1. a \in Nat /\ a < Capacity /\ a < BusMod
    BY GeometryTypes DEF Addresses
  <1>2. a % BusMod = a /\ a % Capacity = a
    BY <1>1, GeometryTypes
  <1> QED
    BY <1>2 DEF Cell

(* The arguments of a call.                                                *)
LEMMA CallTypes ==
    ASSUME NEW c \in Calls
    PROVE  /\ c.kind \in {"read", "write", "page", "sector", "block"}
           /\ c.addr \in CallAddrs /\ c.addr \in Nat /\ c.addr < WordMod
           /\ c.len \in 0 .. MaxLen /\ c.len \in Nat
           /\ c.kind \in {"write", "page"} => c.data \in [1 .. c.len -> Bytes]
  <1>2. (\E n \in 0 .. MaxLen : c \in ProgramCalls(n)) \/ c \in ReadCalls \/ c \in EraseCalls
    BY DEF Calls
  <1>3. /\ c.kind \in {"read", "write", "page", "sector", "block"}
        /\ c.addr \in CallAddrs /\ c.len \in 0 .. MaxLen
        /\ c.kind \in {"write", "page"} => c.data \in [1 .. c.len -> Bytes]
    <2>1. CASE \E n \in 0 .. MaxLen : c \in ProgramCalls(n)
      BY <2>1 DEF ProgramCalls
    <2>2. CASE c \in ReadCalls
      BY <2>2 DEF ReadCalls
    <2>3. CASE c \in EraseCalls
      <3>1. 0 \in 0 .. MaxLen
        BY GeometryTypes
      <3> QED
        BY <2>3, <3>1 DEF EraseCalls
    <2> QED
      BY <1>2, <2>1, <2>2, <2>3
  <1>4. c.addr \in 0 .. WordMod - 1
    BY <1>3, GeometryTypes
  <1> QED
    BY <1>3, <1>4, GeometryTypes

(* A call that passes the range check, and that the bus can address,       *)
(* really lies inside the chip.                                            *)
LEMMA RangeIsReal ==
    ASSUME capacity \in {0, Capacity}, NEW c \in Calls, c.len > 0,
           c.addr + c.len <= BusMod, InRange(c.addr, c.len)
    PROVE  capacity = Capacity /\ c.addr + c.len <= Capacity
  <1>2. c.addr + c.len \in Nat /\ c.addr + c.len < WordMod /\ c.addr + c.len > 0
    BY CallTypes, GeometryTypes
  <1>3. (c.addr + c.len) % WordMod = c.addr + c.len
    BY <1>2, GeometryTypes
  <1> QED
    BY <1>2, <1>3, GeometryTypes DEF InRange

(* A chunk is about to be programmed, or is being programmed.              *)
Programming == Active /\ Programs /\ offset < call.len

(* The chunk w25q_write is at lies inside the data that is left and inside *)
(* one page.                                                               *)
LEMMA ChunkBounds ==
    ASSUME TypeInv, CallInv, Programming
    PROVE  /\ call.addr \in Nat /\ call.len \in Nat /\ offset \in Nat
           /\ call.data \in [1 .. call.len -> Bytes]
           /\ At \in Nat /\ ChunkLen \in Nat /\ 1 <= ChunkLen
           /\ (At % PageSize) + ChunkLen <= PageSize
           /\ offset + ChunkLen <= call.len
  <1>1. /\ call \in Calls /\ Valid(call) /\ offset \in Nat
        /\ call.kind \in {"write", "page"} /\ offset < call.len
    BY DEF TypeInv, CallInv, Programming, Programs
  <1>2. /\ call.addr \in Nat /\ call.len \in Nat /\ call.addr < WordMod
        /\ call.data \in [1 .. call.len -> Bytes]
    BY <1>1, CallTypes
  <1>3. At \in Nat
    <2>1. call.addr + offset \in Nat /\ WordMod \in Nat \ {0}
      BY <1>1, <1>2, GeometryTypes
    <2> QED
      BY <2>1 DEF At
  <1>4. CASE call.kind = "page"
    <2>1. offset = 0 /\ ChunkLen = call.len
      BY <1>4 DEF Programming, CallInv, ChunkLen
    <2>2. call.len > 0 /\ (call.addr % PageSize) + call.len <= PageSize
      BY <1>1, <1>2, <1>4, GeometryTypes DEF Valid
    <2>3. At = call.addr
      BY <1>2, <2>1, GeometryTypes DEF At
    <2> QED
      BY <1>1, <1>2, <1>3, <2>1, <2>2, <2>3
  <1>5. CASE call.kind = "write"
    <2>1. ChunkLen = Min(call.len - offset, PageSize - (At % PageSize))
      BY <1>5 DEF ChunkLen
    <2>2. At % PageSize \in 0 .. PageSize - 1
      BY <1>3, GeometryTypes
    <2>3. ChunkLen \in Nat /\ 1 <= ChunkLen
          /\ ChunkLen <= call.len - offset /\ ChunkLen <= PageSize - (At % PageSize)
      BY <1>1, <1>2, <2>1, <2>2, GeometryTypes DEF Min
    <2>4. /\ (At % PageSize) + ChunkLen <= PageSize
          /\ offset + ChunkLen <= call.len
      BY <1>1, <1>2, <2>2, <2>3, GeometryTypes
    <2> QED
      BY <1>1, <1>2, <1>3, <2>3, <2>4
  <1> QED
    BY <1>1, <1>4, <1>5

(* When the bus can address the call, the call lies inside the chip and    *)
(* the chunk starts where it should.                                       *)
LEMMA ChunkFits ==
    ASSUME TypeInv, CallInv, Programming, Addressable
    PROVE  /\ call.addr + call.len <= Capacity /\ call.addr + call.len <= BusMod
           /\ At = call.addr + offset
  <1>1. /\ call \in Calls /\ Valid(call) /\ capacity \in {0, Capacity}
        /\ call.kind \in {"write", "page"} /\ offset < call.len
    BY DEF TypeInv, CallInv, Programming, Programs
  <1>2. call.addr \in Nat /\ call.len \in Nat /\ offset \in Nat
    BY ChunkBounds
  <1>3. call.len > 0 /\ InRange(call.addr, call.len)
    <2>1. CASE call.kind = "write"
      BY <1>1, <2>1 DEF Valid
    <2>2. CASE call.kind = "page"
      <3>1. call.len \in 1 .. PageSize /\ InRange(call.addr, call.len)
        BY <1>1, <2>2 DEF Valid
      <3> QED
        BY <1>2, <3>1, GeometryTypes
    <2> QED
      BY <1>1, <2>1, <2>2
  <1>4. call.addr + call.len <= BusMod
    BY DEF Addressable
  <1>5. call.addr + call.len <= Capacity
    BY <1>1, <1>3, <1>4, RangeIsReal
  <1>6. call.addr + offset \in Nat /\ call.addr + offset < WordMod
    BY <1>1, <1>2, <1>4, GeometryTypes
  <1>7. At = call.addr + offset
    BY <1>6, GeometryTypes DEF At
  <1> QED
    BY <1>4, <1>5, <1>7

(* Each byte of the chunk goes to the address the caller means, on either  *)
(* chip: the page wrap of the w25q never shows, because the chunk does not *)
(* leave its page.                                                         *)
LEMMA ProgramCellIs ==
    ASSUME TypeInv, CallInv, Programming, Addressable, NEW i \in 1 .. ChunkLen
    PROVE  ProgramCell(At, i) = At + i - 1
  <1>1. /\ call.addr \in Nat /\ call.len \in Nat /\ offset \in Nat
        /\ call.addr + call.len <= Capacity /\ call.addr + call.len <= BusMod
        /\ At = call.addr + offset
        /\ ChunkLen \in Nat /\ 1 <= ChunkLen /\ (At % PageSize) + ChunkLen <= PageSize
        /\ offset + ChunkLen <= call.len
    BY ChunkBounds, ChunkFits
  <1>2. /\ At \in Nat /\ At \in Addresses /\ At + i - 1 \in Addresses
        /\ At < BusMod /\ At + i - 1 < BusMod
        /\ i - 1 \in Nat /\ At + (i - 1) = At + i - 1
    BY <1>1, GeometryTypes DEF Addresses
  <1>3. Cell(At) = At /\ Cell(At + i - 1) = At + i - 1
    BY <1>2, CellIsAddress
  <1>4. (At % PageSize) + (i - 1) < PageSize
    <2>1. At % PageSize \in Nat
      BY <1>2, GeometryTypes
    <2> QED
      BY <1>1, <2>1, GeometryTypes
  <1>5. AlignDown(At, PageSize) + ((At + (i - 1)) % PageSize) = At + (i - 1)
    BY <1>2, <1>4, GeometryTypes, WithinUnit
  <1> QED
    BY <1>2, <1>3, <1>5 DEF ProgramCell

(* A command that carries the first n bytes of the chunk clears the bits   *)
(* of those n bytes and nothing else.                                      *)
LEMMA ProgrammedIs ==
    ASSUME TypeInv, CallInv, Programming, Addressable, NEW n \in 1 .. ChunkLen, NEW m
    PROVE  Programmed(m, At, ChunkData, n)
             = [x \in Addresses |-> IF At <= x /\ x < At + n
                                    THEN m[x] \cap call.data[x - call.addr + 1] ELSE m[x]]
  <1>1. /\ call.addr \in Nat /\ call.len \in Nat /\ offset \in Nat
        /\ call.data \in [1 .. call.len -> Bytes]
        /\ At = call.addr + offset
        /\ ChunkLen \in Nat /\ offset + ChunkLen <= call.len
    BY ChunkBounds, ChunkFits
  <1>2. At \in Nat /\ n \in Nat /\ 1 <= n /\ n <= ChunkLen
    BY <1>1
  <1>3. ASSUME NEW i \in 1 .. n PROVE ProgramCell(At, i) = At + i - 1
    BY <1>1, <1>2, ProgramCellIs
  <1>4. ASSUME NEW i \in 1 .. ChunkLen PROVE ChunkData[i] = call.data[offset + i]
    <2>1. \A j \in offset + 1 .. offset + ChunkLen : call.data[j] \in Bytes
      <3> SUFFICES ASSUME NEW j \in offset + 1 .. offset + ChunkLen PROVE j \in 1 .. call.len
        BY <1>1
      <3> QED
        BY <1>1
    <2>2. offset + 1 \in Int /\ offset + ChunkLen \in Int
          /\ (offset + ChunkLen) - (offset + 1) + 1 = ChunkLen
          /\ (offset + 1) + i - 1 = offset + i
      BY <1>1
    <2>3. \A j \in 1 .. (offset + ChunkLen) - (offset + 1) + 1 :
             SubSeq(call.data, offset + 1, offset + ChunkLen)[j] = call.data[(offset + 1) + j - 1]
      BY <2>1, <2>2, SubSeqProperties
    <2> QED
      BY <2>2, <2>3 DEF ChunkData
  <1> SUFFICES ASSUME NEW x \in Addresses
               PROVE  Programmed(m, At, ChunkData, n)[x]
                        = IF At <= x /\ x < At + n
                          THEN m[x] \cap call.data[x - call.addr + 1] ELSE m[x]
    BY Zenon DEF Programmed
  <1>5. x \in Nat
    BY DEF Addresses
  <1>6. CASE At <= x /\ x < At + n
    <2> DEFINE k == x - At + 1
    <2>1. k \in 1 .. n /\ k \in 1 .. ChunkLen /\ At + k - 1 = x
      <3>1. At \in Nat /\ n \in Nat /\ n <= ChunkLen /\ ChunkLen \in Nat
        BY <1>1, <1>2
      <3>2. k \in 1 .. n /\ At + k - 1 = x
        BY <1>5, <1>6, <3>1
      <3> HIDE DEF k
      <3> QED
        BY <3>1, <3>2
    <2>a. offset + k = x - call.addr + 1
      BY <1>1, <1>5
    <2>2. \A i \in 1 .. n : ProgramCell(At, i) = x <=> i = k
      BY <1>2, <1>3, <1>5, <2>1
    <2> HIDE DEF k
    <2>3. (CHOOSE i \in 1 .. n : ProgramCell(At, i) = x) = k
      BY <2>1, <2>2
    <2>4. \E i \in 1 .. n : ProgramCell(At, i) = x
      BY <2>1, <2>2
    <2>5. ChunkData[k] = call.data[x - call.addr + 1]
      BY <1>4, <2>1, <2>a
    <2> QED
      BY <1>6, <2>3, <2>4, <2>5, Zenon DEF Programmed
  <1>7. CASE ~ (At <= x /\ x < At + n)
    <2>1. ~ \E i \in 1 .. n : ProgramCell(At, i) = x
      BY <1>2, <1>3, <1>5, <1>7
    <2> QED
      BY <1>7, <2>1, Zenon DEF Programmed
  <1> QED
    BY <1>6, <1>7

(* An erase command erases the region the caller named, though it sends an *)
(* address aligned down, if the bus can address it.                        *)
LEMMA ErasedIs ==
    ASSUME TypeInv, CallInv, Active, Erases, Addressable
    PROVE  ErasedAt(mem, AlignDown(call.addr, EraseSize), EraseSize)
             = [x \in Addresses |-> IF x \in Region THEN Erased ELSE mem[x]]
  <1>1. /\ call \in Calls /\ Valid(call) /\ capacity = Capacity
        /\ call.kind \in {"sector", "block"}
    BY DEF CallInv, Erases
  <1>2. call.addr \in Nat /\ EraseSize \in Nat \ {0}
    BY <1>1, CallTypes, GeometryTypes DEF EraseSize
  <1> DEFINE start == AlignDown(call.addr, EraseSize)
  <1>3. start \in Nat /\ AlignDown(start, EraseSize) = start /\ start < BusMod
    <2>1. start \in Nat /\ AlignDown(start, EraseSize) = start /\ start <= call.addr
      BY <1>2, AlignedDown
    <2> QED
      BY <1>2, <2>1, GeometryTypes DEF Addressable
  <1>4. start < Capacity
    BY <1>1 DEF Valid, EraseSize
  <1>5. Cell(start) = start
    BY <1>3, <1>4, GeometryTypes, CellIsAddress DEF Addresses
  <1>6. Region = {x \in Addresses : AlignDown(x, EraseSize) = start}
    BY DEF Region, EraseSize
  <1> HIDE DEF start
  <1>7. ErasedAt(mem, start, EraseSize)
          = [x \in Addresses |-> IF AlignDown(x, EraseSize) = start THEN Erased ELSE mem[x]]
    BY <1>3, <1>5, Zenon DEF ErasedAt
  <1> QED
    BY <1>6, <1>7 DEF start

(* A function on the addresses of the chip.                                *)
IsMemory(m) == m = [a \in Addresses |-> m[a]]

(* The chip carries out a command or ignores it, and it never ignores one  *)
(* when it is idle with the latch set.                                     *)
LEMMA AfterCommit ==
    ASSUME TypeInv, NEW m, IsMemory(m), Commit(m)
    PROVE  /\ IsMemory(mem') /\ busy' \in Nat /\ wel' \in BOOLEAN
           /\ mem' = m \/ mem' = mem
           /\ wel /\ busy = 0 => mem' = m /\ (busy' = 0 => ~ wel')
  <1>1. CASE chip = "stub"
    <2>1. mem' = m /\ wel' = FALSE /\ busy' = 0
      BY <1>1 DEF Commit
    <2>2. IsMemory(mem')
      BY <2>1, Zenon
    <2> QED
      BY <2>1, <2>2
  <1>2. CASE chip # "stub" /\ busy = 0 /\ wel
    <2>1. mem' = m /\ busy' \in BusyTimes /\ wel' = (busy' # 0)
      BY <1>2 DEF Commit
    <2>2. busy' \in Nat
      BY <2>1, FlashAssumption
    <2>3. wel' \in BOOLEAN /\ (wel' <=> busy' # 0)
      BY <2>1, Zenon
    <2> QED
      BY <2>1, <2>2, <2>3 DEF IsMemory
  <1>3. CASE chip # "stub" /\ ~ (busy = 0 /\ wel)
    BY <1>3 DEF Commit, TypeInv, IsMemory
  <1> QED
    BY <1>1, <1>2, <1>3

(* Reading the status register changes no byte; the chip may finish, and   *)
(* then its latch is clear.                                                *)
LEMMA AfterStatusRead ==
    ASSUME TypeInv, StatusRead
    PROVE  /\ busy' \in Nat /\ wel' \in BOOLEAN
           /\ busy = 0 => busy' = 0 /\ (wel' <=> wel)
           /\ (busy = 0 => ~ wel) => (busy' = 0 => ~ wel')
  <1>1. wel' \in BOOLEAN /\ (wel' <=> wel /\ busy # 1)
    BY Zenon DEF StatusRead
  <1>2. busy' = IF busy \in {0, Never} THEN busy ELSE busy - 1
    BY DEF StatusRead
  <1> QED
    BY <1>1, <1>2 DEF TypeInv

(* The types hold at power-up.                                             *)
LEMMA TypeInvInit == Init => TypeInv
  <1> SUFFICES ASSUME Init PROVE TypeInv
    OBVIOUS
  <1>1. chip \in {"stub", "w25q"}
    BY FlashAssumption DEF Init
  <1>2. mem = [a \in Addresses |-> mem[a]] /\ before = [a \in Addresses |-> before[a]]
    BY DEF Init
  <1> QED
    BY <1>1, <1>2 DEF Init, TypeInv

(* Every chip-select cycle, a chip that finishes, and a restart keep the   *)
(* types.                                                                  *)
LEMMA TypeInvStep ==
    ASSUME TypeInv, CallInv, [Next]_vars
    PROVE  TypeInv'
  <1>t. /\ chip \in {"stub", "w25q"} /\ IsMemory(mem) /\ IsMemory(before)
        /\ wel \in BOOLEAN /\ busy \in Nat /\ capacity \in {0, Capacity}
        /\ call \in Calls \cup {NoCall} /\ offset \in Nat /\ idleBefore \in BOOLEAN
    BY DEF TypeInv, IsMemory
  <1> DEFINE Places == {"off", "idle", "chunk", "wren", "verify", "command", "poll", "data"}
  <1>q. ASSUME /\ UNCHANGED <<chip, capacity, call, before, idleBefore>>
               /\ IsMemory(mem') /\ wel' \in BOOLEAN /\ busy' \in Nat
               /\ offset' \in Nat /\ pc' \in Places
        PROVE  TypeInv'
    BY <1>t, <1>q DEF TypeInv, IsMemory
  <1>u. ASSUME UNCHANGED chipVars
        PROVE  UNCHANGED chip /\ IsMemory(mem') /\ wel' \in BOOLEAN /\ busy' \in Nat
    BY <1>t, <1>u DEF chipVars, IsMemory
  <1>1. CASE Initialise
    <2>1. idleBefore' \in BOOLEAN
      BY <1>1, Zenon DEF Initialise
    <2>2. call' = NoCall /\ before' = mem /\ pc' = "idle" /\ capacity' \in {0, Capacity}
          /\ UNCHANGED <<chip, mem, wel, busy, offset>>
      BY <1>1 DEF Initialise, Return
    <2> QED
      BY <1>t, <2>1, <2>2 DEF TypeInv, IsMemory
  <1>2. ASSUME NEW c \in Calls, Call(c) PROVE TypeInv'
    <2>1. idleBefore' \in BOOLEAN
      BY <1>2, Zenon DEF Call
    <2>2. pc' \in {"idle", "poll", "chunk", "wren"}
      BY <1>2 DEF Call, Return, Entry
    <2>3. call' = c /\ before' = mem /\ offset' = 0
          /\ UNCHANGED <<chip, mem, wel, busy, capacity>>
      BY <1>2 DEF Call, chipVars
    <2> QED
      BY <1>t, <2>1, <2>2, <2>3 DEF TypeInv, IsMemory
  <1>3. CASE NextChunk
    BY <1>3, <1>q, <1>u, <1>t DEF NextChunk, Return, callVars, chipVars
  <1>4. CASE WriteEnable
    <2>1. wel' \in BOOLEAN
      <3>1. CASE wel' = (wel \/ Obeys)
        BY <3>1, Zenon
      <3>2. CASE wel' = wel
        BY <3>2, <1>t
      <3> QED
        BY <1>4, <3>1, <3>2 DEF WriteEnable
    <2>2. IsMemory(mem') /\ busy' \in Nat /\ offset' \in Nat /\ pc' \in Places
          /\ UNCHANGED <<chip, capacity, call, before, idleBefore>>
      BY <1>4, <1>t DEF WriteEnable, Return, callVars, IsMemory
    <2> QED
      BY <1>q, <2>1, <2>2
  <1>5. CASE VerifyEnabled
    <2>1. busy' \in Nat /\ wel' \in BOOLEAN
      BY <1>5, AfterStatusRead DEF VerifyEnabled
    <2> QED
      BY <1>5, <1>q, <1>t, <2>1 DEF VerifyEnabled, Return, callVars, IsMemory
  <1>6. CASE ProgramPage
    <2>1. \A n : IsMemory(Programmed(mem, At, ChunkData, n))
      BY DEF Programmed, IsMemory
    <2>2. IsMemory(mem') /\ busy' \in Nat /\ wel' \in BOOLEAN
      BY <1>6, <1>t, <2>1, AfterCommit DEF ProgramPage, IsMemory
    <2> QED
      BY <1>6, <1>q, <1>t, <2>2 DEF ProgramPage, Return, callVars
  <1>7. CASE EraseRegion
    <2>1. \A a, size : IsMemory(ErasedAt(mem, a, size))
      BY DEF ErasedAt, IsMemory
    <2>2. IsMemory(mem') /\ busy' \in Nat /\ wel' \in BOOLEAN
      BY <1>7, <1>t, <2>1, AfterCommit DEF EraseRegion, IsMemory
    <2> QED
      BY <1>7, <1>q, <1>t, <2>2 DEF EraseRegion, Return, callVars
  <1>8. CASE Poll
    <2>1. busy' \in Nat /\ wel' \in BOOLEAN
      BY <1>8, <1>t, AfterStatusRead DEF Poll
    <2>2. offset' \in Nat
      <3>1. CASE offset' = offset
        BY <3>1, <1>t
      <3>2. CASE call.kind = "write" /\ offset' = offset + ChunkLen
        <4>1. Programming
          BY <1>8, <3>2 DEF Poll, Programming, Programs, Active, CallInv
        <4> QED
          BY <3>2, <4>1, <1>t, ChunkBounds
      <3> QED
        BY <1>8, <3>1, <3>2 DEF Poll
    <2>3. pc' \in Places
      BY <1>8 DEF Poll, Return
    <2> QED
      BY <1>8, <1>q, <1>t, <2>1, <2>2, <2>3 DEF Poll, callVars, IsMemory
  <1>9. CASE ReadData
    BY <1>9, <1>q, <1>u, <1>t DEF ReadData, Return, callVars
  <1>10. CASE ChipFinishes
    BY <1>10, <1>t DEF ChipFinishes, callVars, TypeInv, IsMemory
  <1>11. CASE Restart
    BY <1>11, <1>t DEF Restart, chipVars, TypeInv, IsMemory
  <1>12. CASE UNCHANGED vars
    BY <1>12 DEF vars, TypeInv
  <1> QED
    BY <1>1, <1>2, <1>3, <1>4, <1>5, <1>6, <1>7, <1>8, <1>9, <1>10, <1>11, <1>12
    DEF Next, Driver

(* They keep the call's arguments checked and its loop inside the data: in *)
(* particular the chunk that follows a chunk starts at most at the end of  *)
(* the data.                                                               *)
LEMMA CallInvStep ==
    ASSUME TypeInv, CallInv, [Next]_vars
    PROVE  CallInv'
  <1>t. capacity \in {0, Capacity} /\ offset \in Nat
    BY DEF TypeInv
  <1>a. ASSUME ~ Active' PROVE CallInv'
    BY <1>a DEF CallInv
  <1>b. ASSUME UNCHANGED <<capacity, call, offset, pc>> PROVE CallInv'
    BY <1>b DEF CallInv, Active, Programs, Erases, Valid, InRange, Addressable
  <1>c. ASSUME Active, UNCHANGED <<capacity, call>>
        PROVE  /\ call' \in Calls /\ (Addressable' => capacity' = Capacity) /\ Valid(call)'
               /\ call.kind \in {"read", "write", "page", "sector", "block"}
    BY <1>c, CallTypes DEF CallInv, Valid, InRange, Addressable
  <1>1. CASE Initialise
    BY <1>1, <1>a DEF Initialise, Return, Active
  <1>2. ASSUME NEW c \in Calls, Call(c), Active' PROVE CallInv'
    <2>1. /\ Valid(c) /\ pc' = Entry(c.kind) /\ call' = c /\ offset' = 0
          /\ UNCHANGED capacity
      BY <1>2 DEF Call, Return, Active
    <2>2. /\ c.kind \in {"read", "write", "page", "sector", "block"}
          /\ c.addr \in Nat /\ c.len \in Nat
      BY CallTypes
    <2>3. c.kind \in {"read", "write", "page"} => c.len > 0 /\ InRange(c.addr, c.len)
      <3>1. c.kind = "page" => c.len \in 1 .. PageSize /\ InRange(c.addr, c.len)
        BY <2>1 DEF Valid
      <3>2. c.kind = "page" => c.len > 0
        BY <3>1, <2>2, GeometryTypes
      <3> QED
        BY <2>1, <3>1, <3>2 DEF Valid
    <2>4. c.addr + c.len <= BusMod => capacity = Capacity
      <3>1. CASE c.kind \in {"read", "write", "page"}
        BY <1>t, <2>3, <3>1, RangeIsReal
      <3>2. CASE c.kind \in {"sector", "block"}
        <4>1. /\ AlignDown(c.addr, SectorSize) \in Nat
              /\ AlignDown(c.addr, BlockSize) \in Nat
          BY <2>2, GeometryTypes, AlignedDown
        <4>2. \/ AlignDown(c.addr, SectorSize) < capacity
              \/ AlignDown(c.addr, BlockSize) < capacity
          BY <2>1, <3>2 DEF Valid
        <4> QED
          BY <1>t, <4>1, <4>2
      <3> QED
        BY <2>2, <3>1, <3>2
    <2>5. Valid(call)'
      BY <2>1 DEF Valid, InRange
    <2>6. /\ c.kind = "read" => pc' = "poll"
          /\ c.kind = "write" => pc' = "chunk"
          /\ c.kind \in {"page", "sector", "block"} => pc' = "wren"
      BY <2>1, <2>2 DEF Entry
    <2> QED
      BY <2>1, <2>2, <2>3, <2>4, <2>5, <2>6 DEF CallInv, Programs, Erases, Addressable
  <1>3. CASE NextChunk /\ Active'
    <2>1. /\ UNCHANGED <<capacity, call, offset>> /\ Active /\ pc = "chunk" /\ pc' = "wren"
          /\ offset # call.len
      BY <1>3 DEF NextChunk, Return, Active, callVars
    <2>2. call \in Calls /\ call.kind = "write" /\ offset <= call.len /\ call.len \in Nat
      BY <2>1, CallTypes DEF CallInv
    <2>3. offset < call.len
      BY <2>1, <2>2, <1>t
    <2> QED
      BY <1>c, <2>1, <2>2, <2>3 DEF CallInv, Programs, Erases
  <1>4. CASE WriteEnable /\ Active'
    <2>1. /\ UNCHANGED <<capacity, call, offset>> /\ Active /\ pc = "wren" /\ pc' = "verify"
      BY <1>4 DEF WriteEnable, Return, Active, callVars
    <2> QED
      BY <1>c, <2>1 DEF CallInv, Programs, Erases
  <1>5. CASE VerifyEnabled /\ Active'
    <2>1. /\ UNCHANGED <<capacity, call, offset>> /\ Active /\ pc = "verify" /\ pc' = "command"
      BY <1>5 DEF VerifyEnabled, Return, Active, callVars
    <2> QED
      BY <1>c, <2>1 DEF CallInv, Programs, Erases
  <1>6. CASE (ProgramPage \/ EraseRegion) /\ Active'
    <2>1. /\ UNCHANGED <<capacity, call, offset>> /\ Active /\ pc = "command" /\ pc' = "poll"
      BY <1>6 DEF ProgramPage, EraseRegion, Return, Active, callVars
    <2> QED
      BY <1>c, <2>1 DEF CallInv, Programs, Erases
  <1>7. CASE Poll /\ Active'
    <2>1. /\ UNCHANGED <<capacity, call>> /\ Active /\ pc = "poll"
          /\ \/ pc' = pc /\ offset' = offset
             \/ call.kind = "read" /\ pc' = "data" /\ offset' = offset
             \/ call.kind = "write" /\ pc' = "chunk" /\ offset' = offset + ChunkLen
      BY <1>7 DEF Poll, Return, Active, callVars
    <2>2. CASE pc' = pc /\ offset' = offset
      BY <1>b, <2>1, <2>2
    <2>3. CASE call.kind = "read" /\ pc' = "data" /\ offset' = offset
      BY <1>c, <2>1, <2>3 DEF CallInv, Programs, Erases
    <2>4. CASE call.kind = "write" /\ pc' = "chunk" /\ offset' = offset + ChunkLen
      <3>1. Programming
        BY <2>1, <2>4 DEF CallInv, Programming, Programs
      <3>2. offset' <= call.len
        BY <2>4, <3>1, ChunkBounds
      <3> QED
        BY <1>c, <2>1, <2>4, <3>2 DEF CallInv, Programs, Erases
    <2> QED
      BY <2>1, <2>2, <2>3, <2>4
  <1>8. CASE ReadData
    BY <1>8, <1>a DEF ReadData, Return, Active
  <1>9. CASE ChipFinishes
    BY <1>9, <1>a DEF ChipFinishes, Active
  <1>10. CASE Restart
    BY <1>10, <1>a DEF Restart, Active
  <1>11. CASE UNCHANGED vars
    BY <1>11, <1>b DEF vars
  <1> QED
    BY <1>a, <1>1, <1>2, <1>3, <1>4, <1>5, <1>6, <1>7, <1>8, <1>9, <1>10, <1>11
    DEF Next, Driver

(* A command changes memory only inside the target of the call, and a new  *)
(* call takes the memory as it is for its beginning.                       *)
LEMMA ConfinedStep ==
    ASSUME TypeInv, CallInv, ConfinedToTarget, [Next]_vars
    PROVE  ConfinedToTarget'
  <1>a. ASSUME UNCHANGED <<mem, call, before>> PROVE ConfinedToTarget'
    BY <1>a DEF ConfinedToTarget, Region, Addressable
  <1>b. ASSUME before' = mem, mem' = mem PROVE ConfinedToTarget'
    BY <1>b DEF ConfinedToTarget
  <1>1. CASE Initialise
    BY <1>1, <1>b DEF Initialise
  <1>2. ASSUME NEW c \in Calls, Call(c) PROVE ConfinedToTarget'
    BY <1>2, <1>b DEF Call, chipVars
  <1>c. ASSUME UNCHANGED call, Programs \/ Erases, ~ Addressable PROVE ConfinedToTarget'
    BY <1>c DEF ConfinedToTarget, Programs, Erases, Addressable
  <1>3. CASE ProgramPage /\ Addressable
    <2>1. UNCHANGED <<call, before, Addressable>> /\ Programming
      BY <1>3 DEF Addressable, ProgramPage, callVars, Programming, Programs, Active, CallInv
    <2>2. /\ call.addr \in Nat /\ call.len \in Nat /\ offset \in Nat
          /\ At = call.addr + offset
          /\ ChunkLen \in Nat /\ 1 <= ChunkLen /\ offset + ChunkLen <= call.len
      BY <1>3, <2>1, ChunkBounds, ChunkFits
    <2>3. CASE mem' = mem
      BY <1>a, <2>1, <2>3
    <2>4. ASSUME NEW n \in 1 .. ChunkLen, mem' = Programmed(mem, At, ChunkData, n)
          PROVE  ConfinedToTarget'
      <3> SUFFICES ASSUME NEW a \in Addresses, mem'[a] # mem[a]
                   PROVE  a \in call.addr .. call.addr + call.len - 1
        BY <1>3, <2>1 DEF ConfinedToTarget, Programming, Programs, Region
      <3>1. At <= a /\ a < At + n
        BY <1>3, <2>1, <2>4, ProgrammedIs
      <3> QED
        BY <2>2, <3>1 DEF Addresses
    <2>5. ASSUME NEW n \in 1 .. ChunkLen, Commit(Programmed(mem, At, ChunkData, n))
          PROVE  ConfinedToTarget'
      <3>1. IsMemory(Programmed(mem, At, ChunkData, n))
        BY DEF IsMemory, Programmed
      <3> QED
        BY <2>3, <2>4, <2>5, <3>1, AfterCommit
    <2>6. ChunkLen \in 1 .. ChunkLen
      BY <2>2
    <2> QED
      BY <1>3, <2>3, <2>5, <2>6 DEF ProgramPage
  <1>4. CASE EraseRegion /\ Addressable
    <2>1. UNCHANGED <<call, before>> /\ Active /\ Erases
      BY <1>4 DEF EraseRegion, callVars, Erases, Active
    <2>2. CASE mem' = mem
      BY <1>a, <2>1, <2>2
    <2> DEFINE after == ErasedAt(mem, AlignDown(call.addr, EraseSize), EraseSize)
    <2>3. CASE mem' = after
      BY <1>4, <2>1, <2>3, ErasedIs DEF ConfinedToTarget, Region, Erases
    <2>4. IsMemory(after)
      BY DEF IsMemory, ErasedAt
    <2>5. mem' = mem \/ mem' = after
      <3> HIDE DEF after
      <3>1. CASE Commit(after)
        BY <2>4, <3>1, AfterCommit
      <3>2. CASE UNCHANGED <<mem, wel, busy>>
        BY <3>2
      <3> QED
        BY <1>4, <3>1, <3>2 DEF EraseRegion, after
    <2> QED
      BY <2>2, <2>3, <2>5
  <1>5. CASE NextChunk \/ WriteEnable \/ VerifyEnabled \/ Poll \/ ReadData
             \/ ChipFinishes \/ Restart \/ UNCHANGED vars
    BY <1>5, <1>a DEF NextChunk, WriteEnable, VerifyEnabled, Poll, ReadData, ChipFinishes,
                      Restart, vars, callVars, chipVars
  <1>6. CASE (ProgramPage \/ EraseRegion) /\ ~ Addressable
    BY <1>6, <1>c DEF ProgramPage, EraseRegion, callVars, Programs, Erases
  <1> QED
    BY <1>1, <1>2, <1>3, <1>4, <1>5, <1>6 DEF Next, Driver

(* Programming n more bytes after the first offset bytes makes it the      *)
(* first offset + n.                                                       *)
LEMMA StoredStep ==
    ASSUME TypeInv, CallInv, Programming, Addressable, NEW n \in 1 .. ChunkLen,
           mem = Stored(offset)
    PROVE  Programmed(mem, At, ChunkData, n) = Stored(offset + n)
  <1>1. /\ call.addr \in Nat /\ call.len \in Nat /\ offset \in Nat
        /\ At = call.addr + offset /\ n \in Nat
    BY ChunkBounds, ChunkFits
  <1> DEFINE at(k, x) == x >= call.addr /\ x - call.addr + 1 <= k
             byte(x) == call.data[x - call.addr + 1]
  <1>2. \A k : Stored(k) = [x \in Addresses |-> IF at(k, x) THEN before[x] \cap byte(x)
                                                            ELSE before[x]]
    BY Zenon DEF Stored
  <1>3. Programmed(mem, At, ChunkData, n)
          = [x \in Addresses |-> IF At <= x /\ x < At + n THEN mem[x] \cap byte(x) ELSE mem[x]]
    BY ProgrammedIs
  <1>4. \A x \in Addresses : /\ at(offset + n, x) <=> at(offset, x) \/ (At <= x /\ x < At + n)
                             /\ At <= x => ~ at(offset, x)
    BY <1>1 DEF Addresses
  <1> HIDE DEF at, byte
  <1>5. \A x \in Addresses : mem[x] = IF at(offset, x) THEN before[x] \cap byte(x) ELSE before[x]
    BY <1>2
  <1>6. \A x \in Addresses :
            (IF At <= x /\ x < At + n THEN mem[x] \cap byte(x) ELSE mem[x])
              = (IF at(offset + n, x) THEN before[x] \cap byte(x) ELSE before[x])
    <2> SUFFICES ASSUME NEW x \in Addresses
                 PROVE  (IF At <= x /\ x < At + n THEN mem[x] \cap byte(x) ELSE mem[x])
                          = (IF at(offset + n, x) THEN before[x] \cap byte(x) ELSE before[x])
      OBVIOUS
    <2>1. CASE At <= x /\ x < At + n
      <3>1. at(offset + n, x) /\ mem[x] = before[x]
        BY <1>4, <1>5, <2>1, Zenon
      <3> QED
        BY <2>1, <3>1, Zenon
    <2>2. CASE ~ (At <= x /\ x < At + n)
      <3>1. at(offset + n, x) <=> at(offset, x)
        BY <1>4, <2>2, Zenon
      <3> QED
        BY <1>5, <2>2, <3>1, Zenon
    <2> QED
      BY <2>1, <2>2
  <1> QED
    BY <1>2, <1>3, <1>6

(* Progress: a command finds the chip idle with its latch set, since the   *)
(* driver read WEL back after setting it and had waited for the chip       *)
(* before; so the command is carried out, and the loop counts what the     *)
(* chip did.                                                               *)
LEMMA ProgressStep ==
    ASSUME TypeInv, CallInv, CallInv', ProgressInv, [Next]_vars
    PROVE  ProgressInv'
  <1>t. /\ offset \in Nat /\ wel \in BOOLEAN /\ busy \in Nat
    BY DEF TypeInv
  <1>a. ASSUME ~ Active' PROVE ProgressInv'
    BY <1>a DEF ProgressInv
  <1>b. ASSUME UNCHANGED <<call, before, offset, mem>>
        PROVE  /\ UNCHANGED <<Programs, Erases, Addressable, Cleared, ChunkLen>>
               /\ \A n : Stored(n)' = Stored(n)
    BY <1>b DEF Programs, Erases, Addressable, Cleared, Region, ChunkLen, At, Stored
  <1>1. CASE Initialise
    BY <1>1, <1>a DEF Initialise, Return, Active
  <1>2. ASSUME NEW c \in Calls, Call(c), Active', idleBefore' PROVE ProgressInv'
    <2>1. /\ pc' = Entry(c.kind) /\ call' = c /\ offset' = 0 /\ before' = mem
          /\ UNCHANGED <<mem, wel, busy>>
      BY <1>2 DEF Call, Return, Active, chipVars
    <2>2. idleBefore' = (busy = 0)
      BY <1>2 DEF Call
    <2>3. busy = 0
      BY <1>2, <2>2, Zenon
    <2>4. c.kind \in {"read", "write", "page", "sector", "block"} /\ c.addr \in Nat
      BY CallTypes
    <2>5. /\ c.kind = "read" => pc' = "poll"
          /\ c.kind = "write" => pc' = "chunk"
          /\ c.kind \in {"page", "sector", "block"} => pc' = "wren"
      BY <2>1, <2>4 DEF Entry
    <2>6. Stored(0)' = mem
      <3>1. \A x \in Addresses : ~ (x >= c.addr /\ x - c.addr + 1 <= 0)
        BY <2>4 DEF Addresses
      <3>2. Stored(0)' = [x \in Addresses |-> mem[x]]
        BY <2>1, <3>1 DEF Stored
      <3> QED
        BY <3>2 DEF TypeInv
    <2>7. Programs' => mem' = Stored(Done)'
      <3>1. Programs' => Done' = 0
        BY <2>1, <2>5 DEF Done, Programs
      <3> QED
        BY <2>1, <2>6, <3>1 DEF Stored
    <2>8. Erases' => mem' = before' /\ pc' = "wren"
      BY <2>1, <2>5 DEF Erases
    <2> QED
      BY <2>1, <2>3, <2>4, <2>5, <2>7, <2>8 DEF ProgressInv, Erases
  <1>3. CASE NextChunk /\ Active' /\ idleBefore
    <2>1. /\ UNCHANGED <<call, before, offset, mem, wel, busy>> /\ Active /\ pc = "chunk"
          /\ pc' = "wren"
      BY <1>3 DEF NextChunk, Return, Active, callVars, chipVars
    <2> QED
      BY <1>3, <1>b, <2>1 DEF ProgressInv, Done
  <1>4. CASE WriteEnable /\ Active' /\ idleBefore
    <2>1. /\ UNCHANGED <<call, before, offset, mem, busy>> /\ Active /\ pc = "wren"
          /\ pc' = "verify"
      BY <1>4 DEF WriteEnable, Return, Active, callVars
    <2> QED
      BY <1>4, <1>b, <2>1 DEF ProgressInv, Done
  <1>5. CASE VerifyEnabled /\ Active' /\ idleBefore
    <2>1. /\ UNCHANGED <<call, before, offset, mem>> /\ Active /\ pc = "verify"
          /\ pc' = "command" /\ wel /\ StatusRead
      BY <1>5 DEF VerifyEnabled, Return, Active, callVars
    <2>2. busy = 0
      BY <1>5, <2>1 DEF ProgressInv
    <2>3. busy' = 0 /\ wel'
      BY <2>1, <2>2, AfterStatusRead
    <2> QED
      BY <1>5, <1>b, <2>1, <2>3 DEF ProgressInv, Done
  <1>6. CASE ProgramPage /\ Active' /\ idleBefore
    <2>1. /\ UNCHANGED <<call, before, offset>> /\ Active /\ pc = "command" /\ pc' = "poll"
          /\ Commit(Programmed(mem, At, ChunkData, ChunkLen)) /\ Programs
      BY <1>6 DEF ProgramPage, Return, Active, callVars, Programs
    <2>2. busy = 0 /\ wel /\ (Addressable => mem = Stored(offset))
      BY <1>6, <2>1 DEF ProgressInv, Done
    <2>3. Programming
      BY <2>1 DEF Programming, CallInv
    <2>4. ChunkLen \in 1 .. ChunkLen
      BY <2>3, ChunkBounds
    <2>5. Addressable =>
             Programmed(mem, At, ChunkData, ChunkLen) = Stored(offset + ChunkLen)
      BY <2>2, <2>3, <2>4, StoredStep
    <2>6. IsMemory(Programmed(mem, At, ChunkData, ChunkLen))
      BY DEF IsMemory, Programmed
    <2>7. /\ mem' = Programmed(mem, At, ChunkData, ChunkLen)
          /\ busy' = 0 => ~ wel'
      BY <2>1, <2>2, <2>6, AfterCommit
    <2>8. /\ UNCHANGED <<Programs, Erases, Addressable, ChunkLen>>
          /\ Stored(offset + ChunkLen)' = Stored(offset + ChunkLen)
      BY <2>1 DEF Programs, Erases, Addressable, ChunkLen, At, Stored
    <2>9. Done' = offset + ChunkLen
      BY <2>1, <2>8 DEF Done
    <2>10. Addressable => mem' = Stored(Done)'
      BY <2>1, <2>5, <2>7, <2>8, <2>9 DEF Stored
    <2> QED
      BY <2>1, <2>7, <2>8, <2>10 DEF ProgressInv, Programs, Erases
  <1>7. CASE EraseRegion /\ Active' /\ idleBefore
    <2> DEFINE after == ErasedAt(mem, AlignDown(call.addr, EraseSize), EraseSize)
    <2>1. /\ UNCHANGED <<call, before, offset>> /\ Active /\ pc = "command" /\ pc' = "poll"
          /\ Commit(after) /\ Erases
      BY <1>7 DEF EraseRegion, Return, Active, callVars, Erases
    <2>2. busy = 0 /\ wel /\ (Addressable => mem = before)
      BY <1>7, <2>1 DEF ProgressInv
    <2>3. Addressable => after = Cleared
      <3>1. CASE Addressable
        BY <2>1, <2>2, <3>1, ErasedIs, Zenon DEF Cleared
      <3> QED
        BY <3>1
    <2>4. IsMemory(after)
      BY DEF IsMemory, ErasedAt
    <2> HIDE DEF after
    <2>5. mem' = after /\ (busy' = 0 => ~ wel')
      BY <2>1, <2>2, <2>4, AfterCommit
    <2>6. UNCHANGED <<Programs, Erases, Addressable, Cleared>>
      BY <2>1 DEF Programs, Erases, Addressable, Cleared, Region
    <2> QED
      BY <2>1, <2>3, <2>5, <2>6 DEF ProgressInv, Programs, Erases
  <1>8. CASE Poll /\ Active' /\ idleBefore
    <2>1. /\ UNCHANGED <<call, before, mem>> /\ Active /\ pc = "poll" /\ StatusRead
          /\ \/ pc' = pc /\ offset' = offset
             \/ call.kind = "read" /\ pc' = "data" /\ offset' = offset
             \/ /\ call.kind = "write" /\ pc' = "chunk" /\ offset' = offset + ChunkLen
                /\ ~ StillBusy
      BY <1>8 DEF Poll, Return, Active, callVars
    <2>2. (busy = 0 => ~ wel) => (busy' = 0 => ~ wel')
      BY <2>1, AfterStatusRead
    <2>3. CASE offset' = offset /\ pc' \in {"poll", "data"}
      BY <1>8, <1>b, <2>1, <2>2, <2>3 DEF ProgressInv, Done, Programs, Erases, Addressable
    <2>4. CASE call.kind = "write" /\ pc' = "chunk" /\ offset' = offset + ChunkLen /\ ~ StillBusy
      <3>1. busy = 0
        BY <1>t, <2>4 DEF StillBusy
      <3>2. busy' = 0 /\ ~ wel'
        BY <1>8, <2>1, <2>2, <2>4, <3>1, AfterStatusRead DEF ProgressInv
      <3>3. Addressable => mem = Stored(offset + ChunkLen)
        BY <1>8, <2>1, <2>4 DEF ProgressInv, Programs, Done
      <3>4. Addressable => mem' = Stored(Done)'
        BY <2>1, <2>4, <3>3 DEF Stored, Done
      <3>5. UNCHANGED Addressable
        BY <2>1 DEF Addressable
      <3> QED
        BY <2>1, <2>4, <3>2, <3>4, <3>5 DEF ProgressInv, Programs, Erases
    <2> QED
      BY <2>1, <2>3, <2>4
  <1>9. CASE ReadData \/ ChipFinishes \/ Restart
    BY <1>9, <1>a DEF ReadData, ChipFinishes, Restart, Return, Active
  <1>10. CASE UNCHANGED vars
    BY <1>10, <1>b DEF vars, ProgressInv, Active, Done
  <1>11. CASE ~ idleBefore'
    BY <1>11 DEF ProgressInv
  <1>12. CASE Driver
    <2>1. UNCHANGED idleBefore
      BY <1>12 DEF Driver, NextChunk, WriteEnable, VerifyEnabled, ProgramPage, EraseRegion,
                   Poll, ReadData, callVars
    <2> QED
      BY <1>12, <2>1, <1>a, <1>3, <1>4, <1>5, <1>6, <1>7, <1>8, <1>9, <1>11 DEF Driver
  <1> QED
    BY <1>a, <1>1, <1>2, <1>9, <1>10, <1>11, <1>12 DEF Next

(* A transfer that fails, a wait that gives up and a restart leave what    *)
(* was done so far: some prefix of the data, or all of the region or       *)
(* nothing of it.                                                          *)
LEMMA FailureStep ==
    ASSUME TypeInv, CallInv, ProgressInv, FailureLeavesPrefix, [Next]_vars
    PROVE  FailureLeavesPrefix'
  <1>a. ASSUME UNCHANGED <<call, before, mem, idleBefore>> PROVE FailureLeavesPrefix'
    <2>1. \A n : Stored(n)' = Stored(n)
      BY <1>a DEF Stored
    <2>2. UNCHANGED Cleared
      BY <1>a DEF Cleared, Region
    <2> QED
      BY <1>a, <2>1, <2>2 DEF FailureLeavesPrefix, Addressable
  <1>1. CASE Initialise
    BY <1>1 DEF Initialise, FailureLeavesPrefix, NoCall
  <1>2. ASSUME NEW c \in Calls, Call(c) PROVE FailureLeavesPrefix'
    <2>1. call' = c /\ before' = mem /\ mem' = mem
      BY <1>2 DEF Call, chipVars
    <2>2. c.addr \in Nat /\ c.len \in Nat
      BY CallTypes
    <2>3. mem' = Stored(0)'
      <3>1. \A x \in Addresses : ~ (x >= c.addr /\ x - c.addr + 1 <= 0)
        BY <2>2 DEF Addresses
      <3>2. Stored(0)' = [x \in Addresses |-> mem[x]]
        BY <2>1, <3>1 DEF Stored
      <3> QED
        BY <2>1, <3>2 DEF TypeInv
    <2>4. 0 \in 0 .. call'.len
      BY <2>1, <2>2
    <2> QED
      BY <2>1, <2>3, <2>4 DEF FailureLeavesPrefix
  <1>3. CASE ProgramPage /\ idleBefore /\ Addressable
    <2>1. UNCHANGED <<call, before, idleBefore, offset>> /\ pc = "command" /\ Active /\ Programs
      BY <1>3 DEF ProgramPage, callVars, Active, Programs
    <2>2. Programming
      BY <2>1 DEF Programming, CallInv
    <2>3. mem = Stored(offset)
      BY <1>3, <2>1 DEF ProgressInv, Done
    <2>4. /\ offset \in Nat /\ call.len \in Nat
          /\ ChunkLen \in Nat /\ 1 <= ChunkLen /\ offset + ChunkLen <= call.len
      BY <2>2, ChunkBounds
    <2>5. CASE mem' = mem
      BY <1>a, <2>1, <2>5
    <2>6. ASSUME NEW n \in 1 .. ChunkLen, mem' = Programmed(mem, At, ChunkData, n)
          PROVE  FailureLeavesPrefix'
      <3>1. mem' = Stored(offset + n)
        BY <1>3, <2>2, <2>3, <2>6, StoredStep
      <3>2. mem' = Stored(offset + n)'
        BY <2>1, <3>1 DEF Stored
      <3>3. offset + n \in 0 .. call'.len
        BY <2>1, <2>4
      <3> DEFINE k == offset + n
      <3>4. k \in 0 .. call'.len /\ mem' = Stored(k)'
        BY <2>1, <3>2, <3>3
      <3>5. call'.kind \in {"write", "page"}
        BY <2>1 DEF Programs
      <3> QED
        BY <2>1, <2>4, <3>4, <3>5 DEF FailureLeavesPrefix, Stored
    <2>7. ASSUME NEW n \in 1 .. ChunkLen, Commit(Programmed(mem, At, ChunkData, n))
          PROVE  FailureLeavesPrefix'
      <3>1. IsMemory(Programmed(mem, At, ChunkData, n))
        BY DEF IsMemory, Programmed
      <3> QED
        BY <2>5, <2>6, <2>7, <3>1, AfterCommit
    <2>8. ChunkLen \in 1 .. ChunkLen
      BY <2>4
    <2> QED
      BY <1>3, <2>5, <2>7, <2>8 DEF ProgramPage
  <1>4. CASE EraseRegion /\ idleBefore /\ Addressable
    <2> DEFINE after == ErasedAt(mem, AlignDown(call.addr, EraseSize), EraseSize)
    <2>1. UNCHANGED <<call, before, idleBefore>> /\ pc = "command" /\ Active /\ Erases
      BY <1>4 DEF EraseRegion, callVars, Active, Erases
    <2>2. mem = before
      BY <1>4, <2>1 DEF ProgressInv
    <2>3. after = Cleared
      BY <1>4, <2>1, <2>2, ErasedIs, Zenon DEF Cleared
    <2>4. IsMemory(after)
      BY DEF IsMemory, ErasedAt
    <2>5. mem' \in {mem, after}
      <3> HIDE DEF after
      <3>1. CASE Commit(after)
        BY <2>4, <3>1, AfterCommit
      <3>2. CASE UNCHANGED <<mem, wel, busy>>
        BY <3>2
      <3> QED
        BY <1>4, <3>1, <3>2 DEF EraseRegion, after
    <2>6. UNCHANGED Cleared
      BY <2>1 DEF Cleared, Region
    <2> HIDE DEF after
    <2> QED
      BY <2>1, <2>2, <2>3, <2>5, <2>6 DEF FailureLeavesPrefix, Erases
  <1>5. CASE (ProgramPage \/ EraseRegion) /\ ~ (idleBefore /\ Addressable)
    BY <1>5 DEF ProgramPage, EraseRegion, callVars, FailureLeavesPrefix, Addressable
  <1>6. CASE \/ NextChunk \/ WriteEnable \/ VerifyEnabled \/ Poll \/ ReadData
             \/ ChipFinishes \/ Restart \/ UNCHANGED vars
    BY <1>6, <1>a DEF NextChunk, WriteEnable, VerifyEnabled, Poll, ReadData, ChipFinishes,
                      Restart, vars, callVars, chipVars
  <1> QED
    BY <1>1, <1>2, <1>3, <1>4, <1>5, <1>6 DEF Next, Driver

(* w25q_write returns 0 from its loop only when offset has reached len,    *)
(* and the others from their wait only when the chip has become idle.      *)
LEMMA SuccessStep ==
    ASSUME TypeInv, CallInv, ProgressInv, IdleSuccessMeansDone, [Next]_vars
    PROVE  IdleSuccessMeansDone'
  <1>t. busy \in Nat /\ offset \in Nat
    BY DEF TypeInv
  <1>a. ASSUME UNCHANGED <<call, before, mem>>
        PROVE  UNCHANGED Cleared /\ \A n : Stored(n)' = Stored(n)
    BY <1>a DEF Stored, Cleared, Region
  <1>b. ASSUME ~ (pc' = "idle" /\ ret' = "ok" /\ idleBefore' /\ Addressable') PROVE IdleSuccessMeansDone'
    BY <1>b DEF IdleSuccessMeansDone, SuccessMeansDone
  <1>1. CASE Initialise
    BY <1>1 DEF Initialise, NoCall, IdleSuccessMeansDone, SuccessMeansDone
  <1>2. ASSUME NEW c \in Calls, Call(c) PROVE IdleSuccessMeansDone'
    <2>1. pc' = "idle" => ret' = "error"
      <3>1. c.kind \in {"read", "write", "page", "sector", "block"}
        BY CallTypes
      <3> QED
        BY <1>2, <3>1 DEF Call, Return, Entry
    <2> QED
      BY <1>b, <2>1
  <1>3. CASE NextChunk /\ pc' = "idle" /\ ret' = "ok" /\ idleBefore' /\ Addressable'
    <2>1. /\ pc = "chunk" /\ Active /\ idleBefore /\ offset = call.len
          /\ UNCHANGED <<call, before, mem, wel, busy>> /\ Addressable
      BY <1>3 DEF Addressable, NextChunk, Return, Active, callVars, chipVars
    <2>2. call.kind = "write" /\ call \in Calls /\ Valid(call)
      BY <2>1 DEF CallInv
    <2>3. call.len > 0
      BY <2>2 DEF Valid
    <2>4. mem = Stored(call.len) /\ busy = 0 /\ ~ wel
      BY <2>1, <2>2, <2>3 DEF ProgressInv, Programs, Done
    <2>5. mem' = Stored(call.len)'
      BY <2>1, <2>4 DEF Stored
    <2> QED
      BY <2>1, <2>2, <2>4, <2>5 DEF IdleSuccessMeansDone, SuccessMeansDone
  <1>4. CASE Poll /\ pc' = "idle" /\ ret' = "ok" /\ idleBefore' /\ Addressable'
    <2>1. /\ pc = "poll" /\ Active /\ idleBefore /\ StatusRead /\ ~ StillBusy
          /\ call.kind \notin {"read", "write"} /\ UNCHANGED <<call, before, mem>> /\ Addressable
      BY <1>4 DEF Addressable, Poll, Return, Active, callVars
    <2>2. busy = 0 /\ ~ wel
      BY <1>t, <2>1 DEF StillBusy, ProgressInv
    <2>3. busy' = 0 /\ ~ wel'
      BY <2>1, <2>2, AfterStatusRead
    <2>4. call.kind \in {"page", "sector", "block"}
      BY <2>1, CallTypes DEF CallInv
    <2>5. CASE call.kind = "page"
      <3>1. offset = 0 /\ ChunkLen = call.len /\ call.len \in Nat
        BY <2>1, <2>5, CallTypes DEF CallInv, ChunkLen
      <3>2. Done = call.len
        BY <2>1, <3>1 DEF Done
      <3>3. mem = Stored(call.len)
        BY <2>1, <2>5, <3>2 DEF ProgressInv, Programs
      <3>4. mem' = Stored(call.len)'
        BY <2>1, <3>3 DEF Stored
      <3> QED
        BY <2>1, <2>3, <2>5, <3>4 DEF IdleSuccessMeansDone, SuccessMeansDone
    <2>6. CASE call.kind \in {"sector", "block"}
      <3>1. mem = Cleared
        BY <2>1, <2>6 DEF ProgressInv, Erases
      <3> QED
        BY <1>a, <2>1, <2>3, <2>6, <3>1 DEF IdleSuccessMeansDone, SuccessMeansDone
    <2> QED
      BY <2>4, <2>5, <2>6
  <1>5. CASE ReadData /\ pc' = "idle" /\ ret' = "ok" /\ idleBefore' /\ Addressable'
    <2>1. /\ pc = "data" /\ Active /\ idleBefore /\ UNCHANGED <<call, before, mem>> /\ Addressable
          /\ got' = [i \in 1 .. call.len |-> mem[Cell(call.addr + i - 1)]]
      BY <1>5 DEF Addressable, ReadData, Return, Active, callVars, chipVars
    <2>2. call.kind = "read" /\ call \in Calls /\ Valid(call) /\ capacity \in {0, Capacity}
      BY <2>1 DEF CallInv, TypeInv
    <2>3. /\ call.addr \in Nat /\ call.len \in Nat
          /\ call.addr + call.len <= Capacity /\ call.addr + call.len <= BusMod
      BY <2>1, <2>2, CallTypes, RangeIsReal DEF Valid, Addressable
    <2>4. mem = before
      BY <2>1, <2>2 DEF ProgressInv
    <2>5. ASSUME NEW i \in 1 .. call.len
          PROVE  call.addr + i - 1 \in Addresses /\ got'[i] = mem[call.addr + i - 1]
      <3>1. call.addr + i - 1 \in Addresses /\ call.addr + i - 1 < BusMod
        BY <2>3, GeometryTypes DEF Addresses
      <3> QED
        BY <2>1, <3>1, CellIsAddress
    <2> QED
      BY <2>1, <2>2, <2>4, <2>5 DEF IdleSuccessMeansDone, SuccessMeansDone
  <1>6. CASE ChipFinishes /\ pc' = "idle" /\ ret' = "ok" /\ idleBefore' /\ Addressable'
    <2>1. /\ busy # 0 /\ pc = "idle" /\ ret = "ok" /\ idleBefore
          /\ UNCHANGED <<call, before, mem, got>> /\ Addressable
      BY <1>6 DEF Addressable, ChipFinishes, callVars
    <2>2. call.kind \notin {"write", "page", "sector", "block"}
      BY <2>1 DEF IdleSuccessMeansDone, SuccessMeansDone
    <2> QED
      BY <2>1, <2>2 DEF IdleSuccessMeansDone, SuccessMeansDone
  <1>7. CASE WriteEnable \/ VerifyEnabled \/ ProgramPage \/ EraseRegion \/ Restart
    BY <1>7, <1>b DEF WriteEnable, VerifyEnabled, ProgramPage, EraseRegion, Restart, Return
  <1>8. CASE UNCHANGED vars
    BY <1>8, <1>a DEF vars, IdleSuccessMeansDone, SuccessMeansDone, Addressable
  <1> QED
    BY <1>b, <1>1, <1>2, <1>3, <1>4, <1>5, <1>6, <1>7, <1>8 DEF Next, Driver

(* Power-up: the driver is not initialised and no call was made.           *)
LEMMA FlashInvInit == Init => FlashInv
  <1> SUFFICES ASSUME Init PROVE FlashInv
    OBVIOUS
  <1>1. CallInv /\ ProgressInv
    BY DEF Init, CallInv, ProgressInv, Active
  <1>2. ConfinedToTarget /\ FailureLeavesPrefix /\ IdleSuccessMeansDone
    BY DEF Init, NoCall, ConfinedToTarget, FailureLeavesPrefix, IdleSuccessMeansDone,
           SuccessMeansDone
  <1> QED
    BY <1>1, <1>2, TypeInvInit DEF FlashInv

(* The invariant is inductive.                                             *)
LEMMA FlashInvStep == FlashInv /\ [Next]_vars => FlashInv'
  <1> SUFFICES ASSUME FlashInv, [Next]_vars PROVE FlashInv'
    OBVIOUS
  <1>1. /\ TypeInv /\ CallInv /\ ProgressInv
        /\ ConfinedToTarget /\ FailureLeavesPrefix /\ IdleSuccessMeansDone
    BY DEF FlashInv
  <1>2. TypeInv'
    BY <1>1, TypeInvStep
  <1>3. CallInv'
    BY <1>1, CallInvStep
  <1>4. ProgressInv'
    BY <1>1, <1>3, ProgressStep
  <1>5. ConfinedToTarget'
    BY <1>1, ConfinedStep
  <1>6. FailureLeavesPrefix'
    BY <1>1, FailureStep
  <1>7. IdleSuccessMeansDone'
    BY <1>1, SuccessStep
  <1> QED
    BY <1>2, <1>3, <1>4, <1>5, <1>6, <1>7 DEF FlashInv

(* The invariant holds in every reachable state, for every geometry of the *)
(* chip, every set of calls, and any number of failed transfers, restarts, *)
(* slow and stuck operations.                                              *)
THEOREM FlashInvHolds == Spec => []FlashInv
  BY FlashInvInit, FlashInvStep, PTL DEF Spec

(* ConfinedToTarget: no call the bus can address, successful or failed,    *)
(* changes a byte outside its target, even when the chip was still busy    *)
(* with the operation of an earlier call.                                  *)
THEOREM CallsStayInTarget == Spec => []ConfinedToTarget
  <1>1. FlashInv => ConfinedToTarget
    BY DEF FlashInv
  <1> QED
    BY <1>1, FlashInvHolds, PTL

(* FailureLeavesPrefix: at every moment of a call that found the chip idle *)
(* and that the bus can address, memory is that of the call with a prefix  *)
(* of the data programmed, or with the region erased whole or not at all.  *)
THEOREM FailedCallsLeavePrefix == Spec => []FailureLeavesPrefix
  <1>1. FlashInv => FailureLeavesPrefix
    BY DEF FlashInv
  <1> QED
    BY <1>1, FlashInvHolds, PTL

(* IdleSuccessMeansDone: 0 returned by w25q_write, w25q_page_program, the  *)
(* erase functions and w25q_read, of a call that found the chip idle and   *)
(* that the bus can address, means that what was asked for was done and,   *)
(* of the first four, that the chip is idle again with its latch clear.    *)
THEOREM SuccessfulCallsAreDone == Spec => []IdleSuccessMeansDone
  <1>1. FlashInv => IdleSuccessMeansDone
    BY DEF FlashInv
  <1> QED
    BY <1>1, FlashInvHolds, PTL
=============================================================================

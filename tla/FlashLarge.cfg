SPECIFICATION Spec
CONSTANTS
    PageSize = 2
    SectorSize = 4
    BlockSize = 8
    Capacity = 32
    BusMod = 16
    WordMod = 64
    Bits = {0}
    MaxLen = 4
    CallAddrs = {0, 3, 16, 19}
    ProgramPolls = 3
    ErasePolls = 3
    ReadPolls = 4
    BusyTimes = {0, 2, 9}
    Never = 9
    Chips = {"w25q"}
    MaxErrors = 1
    MaxRestarts = 1
    MaxCalls = 3
INVARIANT
    InRangeSuccessMeansDone
CHECK_DEADLOCK FALSE

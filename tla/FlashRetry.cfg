SPECIFICATION Spec
CONSTANTS
    PageSize = 2
    SectorSize = 4
    BlockSize = 8
    Capacity = 8
    BusMod = 16
    WordMod = 32
    Bits = {0}
    MaxLen = 4
    CallAddrs = {0, 1, 2, 3, 6, 7, 8}
    ProgramPolls = 3
    ErasePolls = 3
    ReadPolls = 4
    BusyTimes = {0, 2}
    Never = 9
    Chips = {"w25q"}
    MaxErrors = 1
    MaxRestarts = 0
    MaxCalls = 3
INVARIANT
    SuccessMeansDone
CHECK_DEADLOCK FALSE

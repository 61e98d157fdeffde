SPECIFICATION FairSpec
CONSTANTS
    PageSize = 2
    SectorSize = 4
    BlockSize = 8
    Capacity = 8
    BusMod = 16
    WordMod = 32
    Bits = {0}
    MaxLen = 4
    CallAddrs = {0, 5, 30}
    ProgramPolls = 3
    ErasePolls = 3
    ReadPolls = 4
    BusyTimes = {0, 2, 9}
    Never = 9
    Chips = {"stub", "w25q"}
    MaxErrors = 1
    MaxRestarts = 1
    MaxCalls = 3
INVARIANTS
    IdleSuccessMeansDone
    FailureLeavesPrefix
    ConfinedToTarget
PROPERTY
    EveryCallReturns
CHECK_DEADLOCK FALSE

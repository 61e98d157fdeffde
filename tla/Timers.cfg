SPECIFICATION FairTimersSpec
CONSTANTS
    HalfMod = 16
    WordMod = 256
    Milli = 10
    TimClk = 160
    InitRates = {0, 5, 10}
    Clocks = {0, 1, 2, 3, 5, 7, 10, 15, 16, 17, 31, 33, 47, 48, 64, 65, 100, 119, 120, 150, 160, 170}
    Rates = {0, 1, 2, 3, 4, 5, 6, 7, 8, 9, 10, 13, 15, 16, 17, 20, 31, 32, 50, 64, 99, 100, 110, 119, 120, 255}
    MaxInits = 3
    MaxOverflows = 5
    Kilo = 2
    LoadMod = 4
    TickMod = 6
    CpuHz = {1, 2, 4, 7, 20}
    Delays = {0, 1, 2, 3}
    MaxLate = 1
    MaxStarts = 2
    Horizon = 20
INVARIANTS
    NoOverflowLost
    NoSpuriousCallback
    PeriodIsClose
    RunsAsConfigured
    DelayCoversTicks
    
PROPERTIES
    OverflowsAreServed
    DelayReturns
CHECK_DEADLOCK FALSE

SPECIFICATION FairRtosSpec
CONSTANTS
    Tasks <- MCTasks
    CheckinPeriod <- MCPeriods
    Limit <- MCLimits
    WatchdogPeriod = 2
    HwLimit = 5
    HangIds = {1}
    HangTrigger = 3
    TickMod = 9
    MaxLate = 3
    WatchdogLate = 1
    Versions = {TRUE, FALSE}
    HoldTicks = 20
    MWorkTicks = 30
    HWorkTicks = 2
    ReadyDelay = 5
    MonitorDelay = 200
    MaxJitter = 3
INVARIANTS
    BlockedOnlyByCriticalSection
    ReportedMeansSilent
    DetectionIsTimely
    ResetOnlyAfterReport
PROPERTY
    HangLeadsToReset
    DemoFinishes

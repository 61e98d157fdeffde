SPECIFICATION FairDriversSpec
CONSTANTS
    LowPins = {0, 7}
    HighPins = {8}
    IsrPins = {7}
    Configs <- MCPinConfigs
    AF = 2
    NoConfig = NoConfig
    Reset = 0
    MaxCalls = 2
    HalfMod = 16
    WordMod = 256
    Decimals = 3
    HexDigits = 2
    SysClk = 160
    Baud = 12
    Clocks = {0, 1, 2, 3, 5, 7, 10, 15, 16, 17, 31, 33, 47, 48, 64, 65, 100, 119, 120, 150, 160, 170}
    Bauds = {1, 2, 3, 4, 5, 6, 7, 8, 9, 10, 12, 15, 20, 33, 50, 100}
    Numbers = {0, 10, 109, 255}
    Timeouts = {0, 2, 9}
    Forever = 9
    MaxReceived = 3
    MaxSent = 3
    MaxString = 3
    MaxRx = 3
    SensorAddr = 72
    Addresses = {72, 85}
    Temperatures <- MCTemperatures
    Limits <- MCLimits
    PowerUpConfigs <- MCSensorConfigs
    MaxSensorCalls = 4
    MaxErrors = 1
    MaxRestarts = 1
INVARIANTS
    OnlyOvertakenFieldsAreLost
    OutputsAreIndependent
    SentInOrder
    NoSilentLoss
    ConversionsAreExact
    ReadingIsExact
    ThresholdsHold
    ConfigurationHolds
PROPERTY
    CallsReturn

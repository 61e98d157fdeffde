SPECIFICATION Spec
CONSTANTS
    LowPins = {0, 7}
    HighPins = {8}
    IsrPins = {7}
    Configs <- MCPinConfigs
    AF = 2
    NoConfig = NoConfig
    Reset = 0
    MaxCalls = 3
PROPERTY
    ToggleWritesBack
CHECK_DEADLOCK FALSE

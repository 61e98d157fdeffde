SPECIFICATION FairSpec
CONSTANTS
    HalfMod = 16
    WordMod = 256
    Window = 2
    ch0 = ch0
    ch1 = ch1
    Channels <- MCChannels
    Baseline <- MCBaseline
    Noise <- MCNoise
    AdcMax = 3
    Depth = 2
    SamplePeriod = 2
    ConsumerTimeout = 1
    StatsPeriod = 1
    CounterMod = 2
    MaxLate = 1
    Schedulings = {TRUE, FALSE}
INVARIANTS
    SamplesAccounted
    ConsumerKeepsUp
    FilterAveragesRecent
PROPERTY
    SamplingContinues

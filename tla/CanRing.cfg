SPECIFICATION MCSpec
CONSTANTS
    Size = 4
    Frames = {f1, f2, f3}
    NoFrame = NoFrame
    MaxOverflow = 2
INVARIANTS
    WholeFrames
    NoSlotRace
PROPERTY
    ImplementsFifo

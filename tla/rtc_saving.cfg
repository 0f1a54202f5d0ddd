\* The difference between the clocks, against the comment of its record.
CONSTANTS
    r1 = r1
    r2 = r2
    Recs <- TwoRecs
    Kinds <- OnlyRTC
    Links <- SmallLinks
    Sources <- SmallSources
    Drivers <- SomeDrivers
    Environments <- SmallEnvironments
    Horizon = 2
    MaxSuspend = 0
    DWord = 1024
    Word = 256
    MB = 4
    StrMax = 5
    ValSize = 6
    LsiSize = 8
    MaskBits = 24
    LongMax = 10000000
    Chars = {"x", "."}
SPECIFICATION Spec
INVARIANT ExactClock

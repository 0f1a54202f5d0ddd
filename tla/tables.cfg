\* One table of each kind, two records, up to three updates.
CONSTANTS
    r1 = r1
    r2 = r2
    Recs <- TwoRecs
    Kinds <- AllKinds
    Links <- SmallLinks
    Sources <- SmallSources
    Drivers <- SomeDrivers
    Environments <- SmallEnvironments
    Horizon = 3
    MaxSuspend = 2
    DWord = 1024
    Word = 256
    MB = 4
    StrMax = 5
    ValSize = 6
    LsiSize = 8
    MaskBits = 24
    LongMax = 10000000
    Chars = {"x", "."}
SPECIFICATION Spec
SYMMETRY Symmetry
INVARIANTS
    SharedTable ShownIsPublished ParamMarked ColumnsMatch ColumnsNumbered
    ReferenceGuessed SpaceWithin HottestShown SensorsApart DropsCountedOnce
    PathWhole CapsNamed ServerStatsLate
PROPERTIES RatesTrue

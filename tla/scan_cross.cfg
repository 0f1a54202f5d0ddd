\* Two tables, each read in the lock set of the other's SCAN record, and one that
\* publishes from replies.
CONSTANTS
    s1 = s1
    s2 = s2
    c1 = c1
    c2 = c2
    c3 = c3
    t1 = t1
    t2 = t2
    t3 = t3
    l1 = l1
    l2 = l2
    p1 = p1
    p2 = p2
    x = x
    Threads <- TwoThreads
    Worker = worker
    Tables <- ThreeTables
    Async <- OnlyT3
    Params <- OneParam
    ScanRecs <- TwoScans
    Chains <- ThreeChains
    Reads <- CrossReads
    TableOf <- CrossTable
    LockSets <- TwoLocks
    LockOf <- CrossLock
    None = none
    MaxScans = 2
    MaxReplies = 1
SPECIFICATION Spec
SYMMETRY Symmetry
INVARIANTS TypeOK NoCycle Settled OneJobEach

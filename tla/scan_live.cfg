\* One SCAN record, and a table that publishes from replies, read in its lock set.
CONSTANTS
    s1 = s1
    s2 = s2
    c1 = c1
    c2 = c2
    c3 = c3
    t1 = t1
    t2 = t2
    t3 = t3
    l1 = l1
    l2 = l2
    p1 = p1
    p2 = p2
    x = x
    Threads <- TwoThreads
    Worker = worker
    Tables <- TwoTables
    Async <- OnlyT2
    Params <- OneParam
    ScanRecs <- OneScan
    Chains <- TwoChains
    Reads <- OneReads
    TableOf <- OneTable
    LockSets <- TwoLocks
    LockOf <- OneLock
    None = none
    MaxScans = 3
    MaxReplies = 1
SPECIFICATION FairSpec
PROPERTIES ScanServed ScanReturns

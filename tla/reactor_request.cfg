\* request() from any thread, as its declaration allows.
CONSTANTS
    main = main
    c1 = c1
    c2 = c2
    worker = worker
    j1 = j1
    j2 = j2
    j3 = j3
    o1 = o1
    o2 = o2
    none = none
    Clients <- ThreeClients
    Main <- main
    Worker <- worker
    Jobs <- NoJobs
    Ops <- OneOp
    None <- none
    SeqMod = 3
    ReadMax = 16
    MaxStarts = 1
    ReadyMax = 2
    RxMax = 1
    Requesters <- ThreeClients
    SendMayBlock = FALSE
    PollMayFail = FALSE
SPECIFICATION Spec
SYMMETRY Symmetry
INVARIANTS NoLostWakeup

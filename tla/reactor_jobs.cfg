\* Three client threads, three jobs, no netlink: wake-ups, drops and shutdown.
CONSTANTS
    main = main
    c1 = c1
    c2 = c2
    worker = worker
    j1 = j1
    j2 = j2
    j3 = j3
    o1 = o1
    o2 = o2
    none = none
    Clients <- ThreeClients
    Main <- main
    Worker <- worker
    Jobs <- ThreeJobs
    Ops <- NoOps
    None <- none
    SeqMod = 1
    ReadMax = 16
    MaxStarts = 2
    ReadyMax = 2
    RxMax = 0
    Requesters <- NoClients
    SendMayBlock = FALSE
    PollMayFail = FALSE
SPECIFICATION Spec
SYMMETRY Symmetry
INVARIANTS TypeOK NoLostWakeup DropSafe StopDrains PipeShallow
PROPERTY ImplementsExecutor

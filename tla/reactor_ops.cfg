\* Two client threads, a job and two netlink operations over three sequence
\* numbers, so that numbers wrap round while operations are outstanding;
\* sendto() may block and poll() may fail.
CONSTANTS
    main = main
    c1 = c1
    c2 = c2
    worker = worker
    j1 = j1
    j2 = j2
    j3 = j3
    o1 = o1
    o2 = o2
    none = none
    Clients <- TwoClients
    Main <- main
    Worker <- worker
    Jobs <- OneJob
    Ops <- TwoOps
    None <- none
    SeqMod = 3
    ReadMax = 16
    MaxStarts = 1
    ReadyMax = 2
    RxMax = 1
    Requesters <- NoClients
    SendMayBlock = TRUE
    PollMayFail = TRUE
SPECIFICATION Spec
SYMMETRY Symmetry
INVARIANTS NoLostWakeup DropSafe HandlersExact

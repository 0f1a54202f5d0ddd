\* A sendto() that would block, against "try again later...".
CONSTANTS
    main = main
    c1 = c1
    c2 = c2
    worker = worker
    j1 = j1
    j2 = j2
    j3 = j3
    o1 = o1
    o2 = o2
    none = none
    Clients <- TwoClients
    Main <- main
    Worker <- worker
    Jobs <- OneJob
    Ops <- OneOp
    None <- none
    SeqMod = 2
    ReadMax = 16
    MaxStarts = 1
    ReadyMax = 2
    RxMax = 2
    Requesters <- NoClients
    SendMayBlock = TRUE
    PollMayFail = FALSE
SPECIFICATION Spec
SYMMETRY Symmetry
INVARIANTS SurvivesBlockedSend

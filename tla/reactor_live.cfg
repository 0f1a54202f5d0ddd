\* One job and one operation under fairness: everything accepted is served,
\* every drop and every stop returns.
CONSTANTS
    main = main
    c1 = c1
    c2 = c2
    worker = worker
    j1 = j1
    j2 = j2
    j3 = j3
    o1 = o1
    o2 = o2
    none = none
    Clients <- TwoClients
    Main <- main
    Worker <- worker
    Jobs <- OneJob
    Ops <- OneOp
    None <- none
    SeqMod = 2
    ReadMax = 16
    MaxStarts = 1
    ReadyMax = 2
    RxMax = 1
    Requesters <- NoClients
    SendMayBlock = FALSE
    PollMayFail = FALSE
SPECIFICATION FairSpec
PROPERTIES JobServed DropReturns StopReturns RequestSent

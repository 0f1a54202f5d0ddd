\* One interface table among others: losses, lateness, an interface that comes and goes.
CONSTANTS
    q1 = q1
    q2 = q2
    none = none
    others = others
    Queries <- TwoQueries
    None <- none
    Others <- others
    RxMax = 4
    Late = 1
    MaxVer = 2
SPECIFICATION FairSpec
PROPERTIES AnswersCurrent QueryEnds Converges BacklogDrains

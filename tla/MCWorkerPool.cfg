SPECIFICATION FairSpec
CONSTANTS
    Requests = {r1, r2, r3}
    Conns = 1
    Threads = 2
INVARIANTS
    TypeOK
    NothingLeaks
    NoHoldAndWait
    StallNeedsCrowd
    MessageMailHoldsNothing
PROPERTIES
    EveryRequestEnds

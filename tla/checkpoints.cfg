SPECIFICATION FairSpec
CONSTANTS
    c1 = c1
    c2 = c2
    Clients = {c1, c2}
    Second = 2
    Timeouts = {0, 1}
    Extensions = {1}
    Ops = {"create", "destroy", "adjust", "rollback"}
    MaxId = 2
    MaxLeft = 4
INVARIANTS
    TypeOK
    EndsOnce
    ListedHasObject
    TimeoutWatched
PROPERTIES
    OnlyLateMakersLeaveGhosts
    ImplementsLife
    TimeoutEnds
CHECK_DEADLOCK FALSE

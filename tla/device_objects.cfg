SPECIFICATION FairSpec
CONSTANTS
    lan = lan
    ppp0 = ppp0
    neighbour = neighbour
    Gone = Gone
    Names = {lan, ppp0}
    PppNames = {ppp0}
    Networks = {neighbour}
    CanBe <- MCCanBe
    MaxChanges = 2
INVARIANTS
    ObjectsFollowRecords
    ToldIsThere
PROPERTIES
    
    Mirrors

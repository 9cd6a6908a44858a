SPECIFICATION FairSpec
CONSTANTS
    eth0 = eth0
    follower = follower
    poller = poller
    Nobody = Nobody
    Syncers = {poller, follower}
    Poller = poller
    Wired = {eth0}
    Wlans = {}
    Networks = {}
    Changes = {"link"}
    MaxChanges = 2
    MaxPath = 6
INVARIANTS
    NoGhostDevice
PROPERTIES
    NoNewOrphan
    Converges

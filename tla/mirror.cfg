SPECIFICATION FairSpec
CONSTANTS
    eth0 = eth0
    home = home
    poller = poller
    wlan0 = wlan0
    Nobody = Nobody
    Syncers = {poller}
    Poller = poller
    Wired = {eth0}
    Wlans = {wlan0}
    Networks = {home}
    Changes = {"link", "known", "join", "outage", "edit", "delete"}
    MaxChanges = 2
    MaxPath = 6
INVARIANTS
    TypeOK
PROPERTIES
    ObjectsTrue

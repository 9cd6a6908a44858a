SPECIFICATION RollbackSpec
CONSTANTS
    wlan0 = wlan0
    eth0 = eth0
    wired = wired
    wireless = wireless
    tunnel = tunnel
    c1 = c1
    Nowhere = Nowhere
    NoOne = NoOne
    Clients = {c1}
    Syncing = FALSE
    Ifaces = {wlan0, eth0}
    Wlans = {wlan0}
    Profiles = {wired, wireless}
    BoundTo <- MCBoundTo
    Tails <- MCTails
    KindOf <- MCKindOf
    Source <- MCSource
    Ops = {"activate", "addAndActivate", "deactivate", "delete", "sleep"}
    Failures = FALSE
    MaxChanges = 0
INVARIANTS
    RollbackTypeOK
    OfflineIsInactive
    RollsBack

    
    

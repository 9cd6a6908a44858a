SPECIFICATION FairSpec
CONSTANTS
    wlan0 = wlan0
    vwlan0 = vwlan0
    wired = wired
    wireless = wireless
    tunnel = tunnel
    c1 = c1
    c2 = c2
    Nowhere = Nowhere
    NoOne = NoOne
    Clients = {c1, c2}
    Syncing = TRUE
    Ifaces = {wlan0}
    Wlans = {wlan0}
    Profiles = {wired, wireless}
    Tails <- MCTails
    KindOf <- MCKindOf
    Source <- MCSource
    Ops = {"activate", "deactivate"}
    Failures = FALSE
    MaxChanges = 0
PROPERTIES
    NoNewOrphan
    Heals

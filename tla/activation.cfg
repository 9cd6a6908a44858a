SPECIFICATION Spec
CONSTANTS
    wlan0 = wlan0
    vwlan0 = vwlan0
    wired = wired
    wireless = wireless
    tunnel = tunnel
    c1 = c1
    Nowhere = Nowhere
    NoOne = NoOne
    Clients = {c1}
    Syncing = FALSE
    Ifaces = {wlan0, vwlan0}
    Wlans = {wlan0}
    Profiles = {wired, wireless, tunnel}
    Tails <- MCTails
    KindOf <- MCKindOf
    Source <- MCSource
    Ops = {"activate", "addAndActivate", "deactivate", "disconnect", "delete", "networking", "sleep", "wireless"}
    Failures = TRUE
    MaxChanges = 1
INVARIANTS
    ClearedWhenTold
    RecordShown
PROPERTIES
    NothingActiveOffline
    SuccessIsTold

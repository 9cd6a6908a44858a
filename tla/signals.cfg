SPECIFICATION FairSpec
CONSTANTS
    c1 = c1
    c2 = c2
    Poller = Poller
    User = User
    Nothing = Nothing
    wlan = wlan
    Clients = {c1, c2}
    Polling = TRUE
    Links = {wlan}
    Ops = {"addAndActivate", "edit", "delete", "reload", "hostname", "deviceDelete", "checkpoint", "rollback"}
    MaxChanges = 2
INVARIANTS
    NoneMissed
PROPERTIES
    OnlyLateTellersMislead
    ToldInTheEnd

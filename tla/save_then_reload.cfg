SPECIFICATION Spec
CONSTANTS
    u1 = u1
    ub = ub
    home = home
    eth0 = eth0
    pass = pass
    wlan0 = wlan0
    NoUuid = NoUuid
    NoSsid = NoSsid
    NoBody = NoBody
    NoFile = NoFile
    WifiIface = wlan0
    Clients = {c1}
    Uuids = {u1, ub}
    Ssids = {home}
    Bodies = {pass, eth0}
    Stems = {eth0}
    Startup <- MCStartup
    Profiles <- MCImports
    Ops = {"save", "reload", "admin"}
    MaxPath = 3
    MaxVersion = 6
INVARIANTS
    SavedIsDiscoverable
CHECK_DEADLOCK FALSE

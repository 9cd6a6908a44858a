SPECIFICATION Spec
CONSTANTS
    u1 = u1
    ub = ub
    home = home
    eth0 = eth0
    pass = pass
    wlan0 = wlan0
    NoUuid = NoUuid
    NoSsid = NoSsid
    NoBody = NoBody
    NoFile = NoFile
    WifiIface = wlan0
    Clients = {c1}
    Uuids = {u1, ub}
    Ssids = {home}
    Bodies = {pass, eth0}
    Stems = {eth0}
    Startup <- NoStartup
    Profiles <- MCEdits
    Ops = {"add", "update", "updateUnsaved", "update2", "save", "clearSecrets", "delete", "load", "reload", "reapply", "autoconnect", "deviceDelete", "restart"}
    MaxPath = 2
    MaxVersion = 4
INVARIANTS
    TypeOK
PROPERTIES
    OnlySharersTakeFiles
    ReloadMirrorsFiles
CHECK_DEADLOCK FALSE

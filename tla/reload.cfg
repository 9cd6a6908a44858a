SPECIFICATION Spec
CONSTANTS
    u1 = u1
    ub = ub
    home = home
    eth0 = eth0
    pass = pass
    wlan0 = wlan0
    NoUuid = NoUuid
    NoSsid = NoSsid
    NoBody = NoBody
    NoFile = NoFile
    WifiIface = wlan0
    c1 = c1
    c2 = c2
    Clients = {c1, c2}
    Uuids = {u1, ub}
    Ssids = {home}
    Bodies = {pass}
    Stems = {eth0}
    Startup <- NoStartup
    Profiles <- MCWifiProfiles
    Ops = {"add", "update2", "save", "delete", "reload", "deviceDelete", "admin"}
    MaxPath = 2
    MaxVersion = 3
SYMMETRY ClientSymmetry
INVARIANTS
    PathsUnique
    NoHiddenProfile
PROPERTIES
    VersionBumped
    PathsRetired
    OnlyLateAddsLeaveGhosts
CHECK_DEADLOCK FALSE

---------------------------- MODULE DeviceObjects ----------------------------
(***************************************************************************)
(* The D-Bus interfaces of devices: which ones a link of some kind gets    *)
(* (device/specialized.rs, systemd_networkd/link.rs), their registration   *)
(* and removal by the second part of a synchronisation, the objects for    *)
(* addresses and leases, access points and Wi-Fi P2P peers, and what the   *)
(* signals say of all these (lib.rs).  Module BackendSync has the same     *)
(* part with a device as a whole, and with two tasks that synchronise;     *)
(* here there is one.                                                      *)
(***************************************************************************)
EXTENDS FiniteSets, Naturals

CONSTANTS
    Names,      \* interface names, each standing for its object path
    PppNames,   \* those that start with "ppp"
    CanBe,      \* what networkd may say of the link of each name
    Networks,   \* networks that a station may see
    Gone,       \* no link, no record, no name
    MaxChanges  \* bound: how often the links change

\* networkd's Kind and Type
Kinds == {"Bareudp", "Bond", "Bridge", "Dummy", "Geneve", "Gre", "Gretap", "Hsr", "Ip6gre",
          "Ip6gretap", "Ip6tnl", "Ipip", "Ipvlan", "Lowpan", "Macsec", "Macvlan", "Sit",
          "Tap", "Team", "Tun", "Unknown", "Veth", "Vlan", "Vrf", "Vxlan", "Wireguard"}
Types == {"Bluetooth", "Ether", "Infiniband", "Loopback", "None", "Ppp", "Unknown", "Wlan",
          "Wpan", "Wwan"}
\* Objects for the addresses and leases of a link
Configs == {"IP4Config", "IP6Config", "DHCP4Config", "DHCP6Config"}

\* p2p: the wireless interface type is p2p-device; nets: networks that the station
\* sees.  An iwd network belongs to one station, so a pair of a name and a network
\* stands for the path of an access point, and for that of a peer.
Link == [kind: Kinds, type: Types, p2p: BOOLEAN, configs: SUBSET Configs,
         nets: SUBSET Networks]
Peers(l) == IF l.p2p THEN l.nets ELSE {}

ASSUME DeviceConstants ==
    /\ PppNames \subseteq Names
    /\ Gone \notin Link /\ Gone \notin Names
    /\ CanBe \in [Names -> SUBSET Link]
    /\ \A n \in Names : \A l \in CanBe[n] : l.p2p \/ l.nets # {} => l.type = "Wlan"
    /\ MaxChanges \in Nat

VARIABLES
    links,       \* what networkd and iwd say of each link
    changes,     \* how often that changed
    records,     \* RuntimeState.devices: the link as it was registered, or Gone
    interfaces,  \* interfaces on the object of each name
    configs,     \* config objects of each name
    peers,       \* WifiP2PPeer objects of each name
    points,      \* AccessPointRecords, and their objects, of each name
    lists,       \* WirelessDeviceRecord.access_points of each name, if there is one
    told,        \* what the signals say of them
    morphed,     \* names under which a recorded device has changed its kind
    task         \* the synchronisation

world == <<links, changes>>
objects == <<interfaces, configs, peers>>
wireless == <<points, lists>>
vars == <<world, records, objects, wireless, told, morphed, task>>

-----------------------------------------------------------------------------
(* Interfaces.  An interface is named for its kind or type.                *)

Tunnels == {"Geneve", "Gre", "Gretap", "Ip6gre", "Ip6gretap", "Ip6tnl", "Ipip", "Sit"}
\* Kinds without an interface of their own; Tap shares Tun's.
Plain == {"Bareudp", "Unknown"}

KindInterfaces(kind) ==
    CASE kind \in Tunnels -> {"IPTunnel"}
      [] kind \in {"Tap", "Tun"} -> {"Tun"}
      [] kind \in Plain -> {}
      [] OTHER -> {kind}

\* Types with an interface of their own besides the main ones
TypeInterfaces(kind, type) ==
    CASE type \in {"Bluetooth", "Infiniband", "Wwan", "Wpan"} -> {type}
      [] type \in {"Unknown", "None"} /\ kind = "Unknown" -> {"Generic"}
      [] OTHER -> {}

MainInterfaces(type) == {type} \cap {"Loopback", "Ether", "Wlan"}
PppInterfaces == {"Device.Ppp", "PPP"}

IsPpp(n, l) == n \in PppNames \/ l.type = "Ppp"

\* device_interface_names: the names that InterfacesAdded and -Removed list; the type
\* ppp is enough to list the PPP interfaces.
Listed(l, ppp) ==
    {"Device", "Statistics"} \cup MainInterfaces(l.type)
    \cup KindInterfaces(l.kind) \cup TypeInterfaces(l.kind, l.type)
    \cup (IF l.p2p THEN {"WifiP2P"} ELSE {})
    \cup (IF ppp \/ l.type = "Ppp" THEN PppInterfaces ELSE {})

\* sync_device_object and register_device_aux_interfaces
Registered(n, l) ==
    {"Device", "Statistics"} \cup MainInterfaces(l.type)
    \cup KindInterfaces(l.kind) \cup TypeInterfaces(l.kind, l.type)
    \cup (IF l.type = "Wlan" /\ l.p2p THEN {"WifiP2P"} ELSE {})
    \cup (IF IsPpp(n, l) THEN PppInterfaces ELSE {})

\* unregister_device_objects and unregister_device_aux_interfaces: what they try to
\* remove of a device that was registered as l.  Only the name counts for PPP.
Unregistered(n, l) ==
    {"Device", "Statistics"} \cup MainInterfaces(l.type)
    \cup KindInterfaces(l.kind) \cup TypeInterfaces(l.kind, l.type)
    \cup (IF l.type = "Wlan" THEN {"WifiP2P"} ELSE {})
    \cup (IF n \in PppNames THEN PppInterfaces ELSE {})

-----------------------------------------------------------------------------
Present == {n \in Names : links[n] # Gone}
Known == {n \in Names : records[n] # Gone}
Nothing == [n \in Names |-> {}]
NoLink == [n \in Names |-> Gone]
\* ordered: what GetOrderedNetworks answered for the stations; seen: the links, with
\* those of the networks that iwd described; was: the record that was removed of the
\* device at hand
Asleep == [pc |-> "idle", seen |-> NoLink, ordered |-> Nothing, todo |-> {},
           item |-> Gone, was |-> Gone]

\* start_service registers the links that are there.
Init ==
    /\ links \in [Names -> UNION {CanBe[n] : n \in Names} \cup {Gone}]
    /\ \A n \in Present : links[n] \in CanBe[n]
    /\ changes = 0
    /\ records = links
    /\ interfaces = [n \in Names |-> IF n \in Present THEN Registered(n, links[n]) ELSE {}]
    /\ configs = [n \in Names |-> IF n \in Present THEN links[n].configs ELSE {}]
    /\ peers = [n \in Names |-> IF n \in Present THEN Peers(links[n]) ELSE {}]
    /\ points = [n \in Names |-> IF n \in Present THEN links[n].nets ELSE {}]
    /\ lists = points
    /\ told = [interfaces |-> interfaces, configs |-> configs, peers |-> peers,
               points |-> points, listed |-> points]
    /\ morphed = {}
    /\ task = Asleep

At(pc) == task.pc = pc
Goto(pc) == task' = [task EXCEPT !.pc = pc]
Seen == task.seen[task.item]
Record == records[task.item]

\* A link comes, goes or changes; another one may take over its name.
Change ==
    /\ changes < MaxChanges
    /\ changes' = changes + 1
    /\ \E n \in Names : \E l \in CanBe[n] \cup {Gone} : links' = [links EXCEPT ![n] = l]
    /\ UNCHANGED <<records, objects, wireless, told, morphed, task>>

\* networkd describes its links, and iwd its devices, stations and networks.
Ask ==
    /\ At("idle")
    /\ task' = [Asleep EXCEPT !.pc = "ask", !.seen = links]
    /\ UNCHANGED <<world, records, objects, wireless, told, morphed>>

\* Each station that was described is asked for its networks.  What it lists by then
\* need not be what was described before; a station that is gone lists nothing.
AskStations ==
    LET described(n) == IF task.seen[n] = Gone THEN FALSE ELSE task.seen[n].type = "Wlan"
        nets(n) == IF described(n) /\ n \in Present THEN links[n].nets ELSE {}
        both(n) == IF task.seen[n] = Gone THEN Gone
                   ELSE [task.seen[n] EXCEPT !.nets = @ \cap nets(n)]
    IN  /\ At("ask")
        /\ task' = [task EXCEPT !.pc = "points",
                                !.ordered = [n \in Names |-> nets(n)],
                                !.seen = [n \in Names |-> both(n)]]
        /\ UNCHANGED <<world, records, objects, wireless, told, morphed>>

-----------------------------------------------------------------------------
(* Access points                                                           *)

Described(n) == IF task.seen[n] = Gone THEN {} ELSE task.seen[n].nets

\* A record and an object for each network that was listed and described
PutPoints ==
    /\ At("points")
    /\ points' = [n \in Names |-> points[n] \cup Described(n)]
    /\ told' = [told EXCEPT
           !.points = [n \in Names |-> @[n] \cup (Described(n) \ points[n])],
           !.listed = [n \in Names |-> @[n] \cup (Described(n) \ points[n])]]
    /\ Goto("dropPoints")
    /\ UNCHANGED <<world, records, objects, lists, morphed>>

\* Mutant: AccessPointRemoved is sent for what the station lists now.
DropPointsOfStation ==
    /\ At("dropPoints")
    /\ points' = [n \in Names |-> points[n] \cap Described(n)]
    /\ told' = [told EXCEPT
           !.points = [n \in Names |-> @[n] \ (points[n] \ Described(n))],
           !.listed = [n \in Names |-> @[n] \ ((points[n] \ Described(n)) \cap task.ordered[n])]]
    /\ task' = [task EXCEPT !.pc = "drop",
                            !.todo = {n \in Known : task.seen[n] = Gone}]
    /\ UNCHANGED <<world, records, objects, lists, morphed>>

\* Mutant: devices that vanished are left alone.
DropPointsOnly ==
    /\ At("dropPoints")
    /\ points' = [n \in Names |-> points[n] \cap Described(n)]
    /\ told' = [told EXCEPT
           !.points = [n \in Names |-> @[n] \ (points[n] \ Described(n))],
           !.listed = [n \in Names |-> @[n] \ ((points[n] \ Described(n)) \cap lists[n])]]
    /\ Goto("drop")
    /\ UNCHANGED <<world, records, objects, lists, morphed>>

\* The others go; their device is told if it still lists them.
DropPoints ==
    /\ At("dropPoints")
    /\ points' = [n \in Names |-> points[n] \cap Described(n)]
    /\ told' = [told EXCEPT
           !.points = [n \in Names |-> @[n] \ (points[n] \ Described(n))],
           !.listed = [n \in Names |-> @[n] \ ((points[n] \ Described(n)) \cap lists[n])]]
    /\ task' = [task EXCEPT !.pc = "drop",
                            !.todo = {n \in Known : task.seen[n] = Gone}]
    /\ UNCHANGED <<world, records, objects, lists, morphed>>

-----------------------------------------------------------------------------
(* Devices whose link is gone                                              *)

\* remove_device; InterfacesRemoved will list what follows from the record.
Drop ==
    /\ At("drop")
    /\ \/ /\ task.todo = {}
          /\ task' = [task EXCEPT !.pc = "sync",
                                  !.todo = {n \in Names : task.seen[n] # Gone}]
          /\ UNCHANGED <<records, told>>
       \/ \E n \in task.todo :
              /\ task' = [task EXCEPT !.pc = "undo", !.todo = @ \ {n}, !.item = n,
                                      !.was = records[n]]
              /\ records' = [records EXCEPT ![n] = Gone]
              /\ told' = [told EXCEPT !.peers[n] = @ \ Peers(records[n])]
    /\ UNCHANGED <<world, objects, wireless, morphed>>

\* unregister_device_objects, remove_wireless_device
Undo ==
    /\ At("undo")
    /\ interfaces' = [interfaces EXCEPT ![task.item] = @ \ Unregistered(task.item, task.was)]
    /\ configs' = [configs EXCEPT ![task.item] = @ \ task.was.configs]
    /\ peers' = [peers EXCEPT ![task.item] = @ \ Peers(task.was)]
    /\ lists' = [lists EXCEPT ![task.item] = {}]
    /\ Goto("tell")
    /\ UNCHANGED <<world, records, points, told, morphed>>

Tell ==
    /\ At("tell")
    /\ told' = [told EXCEPT !.configs[task.item] = @ \ task.was.configs,
                            !.interfaces[task.item] = @ \ Listed(task.was, IsPpp(task.item, task.was))]
    /\ task' = [task EXCEPT !.pc = "drop", !.was = Gone]
    /\ UNCHANGED <<world, records, objects, wireless, morphed>>

-----------------------------------------------------------------------------
(* sync_device_object for every link of the answer                         *)

\* Mutant: what is taken off the bus follows from the link as it is now.
HideNew ==
    /\ At("sync")
    /\ \/ task.todo = {} /\ task' = Asleep /\ UNCHANGED objects
       \/ \E n \in task.todo :
              /\ task' = [task EXCEPT !.pc = "configs", !.todo = @ \ {n}, !.item = n]
              /\ IF n \notin Known THEN UNCHANGED objects
                 ELSE /\ interfaces' = [interfaces EXCEPT
                                           ![n] = @ \ Unregistered(n, task.seen[n])]
                      /\ configs' = [configs EXCEPT ![n] = @ \ records[n].configs]
                      /\ peers' = [peers EXCEPT ![n] = @ \ Peers(records[n])]
    /\ UNCHANGED <<world, records, wireless, told, morphed>>

\* A device that is known is taken off the bus first, as it was registered: until
\* it is back, its clients find no object.
Hide ==
    /\ At("sync")
    /\ \/ task.todo = {} /\ task' = Asleep /\ UNCHANGED objects
       \/ \E n \in task.todo :
              /\ task' = [task EXCEPT !.pc = "configs", !.todo = @ \ {n}, !.item = n]
              /\ IF n \notin Known THEN UNCHANGED objects
                 ELSE /\ interfaces' = [interfaces EXCEPT
                                           ![n] = @ \ Unregistered(n, records[n])]
                      /\ configs' = [configs EXCEPT ![n] = @ \ records[n].configs]
                      /\ peers' = [peers EXCEPT ![n] = @ \ Peers(records[n])]
    /\ UNCHANGED <<world, records, wireless, told, morphed>>

OldConfigs == IF task.item \in Known THEN Record.configs ELSE {}

\* Mutant: only objects that appear are announced.
ShowConfigsNew ==
    /\ At("configs")
    /\ configs' = [configs EXCEPT ![task.item] = @ \cup Seen.configs]
    /\ told' = [told EXCEPT !.configs[task.item] = @ \cup (Seen.configs \ OldConfigs)]
    /\ Goto("show")
    /\ UNCHANGED <<world, records, interfaces, peers, wireless, morphed>>

\* register_ip4_config and its three likes; only changes are announced.
ShowConfigs ==
    /\ At("configs")
    /\ configs' = [configs EXCEPT ![task.item] = @ \cup Seen.configs]
    /\ told' = [told EXCEPT !.configs[task.item] =
                    (@ \ (OldConfigs \ Seen.configs)) \cup (Seen.configs \ OldConfigs)]
    /\ Goto("show")
    /\ UNCHANGED <<world, records, interfaces, peers, wireless, morphed>>

\* Types whose links keep the wireless record of another link of their name
Uncleared == {"Ether", "Loopback"}

\* Device, the interfaces of its kind and type, the peers of a P2P device; a wireless
\* one lists all networks of its station, described or not.  What a link listed as a
\* wireless one is not cleared if it is a wired or loopback link by now.
Show ==
    /\ At("show")
    /\ interfaces' = [interfaces EXCEPT ![task.item] = @ \cup Registered(task.item, Seen)]
    /\ peers' = [peers EXCEPT ![task.item] = @ \cup Peers(Seen)]
    /\ lists' = [lists EXCEPT ![task.item] =
                     CASE Seen.type = "Wlan" -> task.ordered[task.item]
                       [] Seen.type \in Uncleared -> @
                       [] OTHER -> {}]
    /\ Goto("upsert")
    /\ UNCHANGED <<world, records, configs, points, told, morphed>>

\* InterfacesAdded is sent for a device that is new; changes of peers are sent only
\* while the device is a P2P one.
Upsert ==
    LET n == task.item
        new == n \notin Known
        old == IF new THEN {} ELSE Peers(Record) IN
    /\ At("upsert")
    /\ records' = [records EXCEPT ![n] = Seen]
    /\ told' = [told EXCEPT !.interfaces[n] = IF new THEN @ \cup Listed(Seen, n \in PppNames)
                                              ELSE @,
                            !.peers[n] = IF Seen.p2p THEN (@ \ (old \ Seen.nets))
                                                          \cup (Seen.nets \ old)
                                         ELSE @]
    /\ morphed' = IF ~new /\ Listed(Record, FALSE) # Listed(Seen, FALSE) THEN morphed \cup {n}
                  ELSE morphed
    /\ Goto("sync")
    /\ UNCHANGED <<world, objects, wireless>>

Step == AskStations \/ PutPoints \/ DropPoints
        \/ Drop \/ Undo \/ Tell \/ Hide \/ ShowConfigs \/ Show \/ Upsert
Next == Change \/ Ask \/ Step

Spec == Init /\ [][Next]_vars
\* The task sleeps and starts again.
FairSpec == Spec /\ WF_vars(Ask \/ Step)

-----------------------------------------------------------------------------
AllInterfaces == UNION {{"Device", "Statistics", "IPTunnel", "Tun", "Generic", "WifiP2P"},
                        Kinds \ (Tunnels \cup Plain \cup {"Tap"}),
                        Types \ {"None", "Unknown", "Ppp"}, PppInterfaces}

\* The links, the records, the objects and the task have the types of the code.
TypeOK ==
    /\ links \in [Names -> Link \cup {Gone}] /\ changes \in 0..MaxChanges
    /\ records \in [Names -> Link \cup {Gone}]
    /\ interfaces \in [Names -> SUBSET AllInterfaces]
    /\ configs \in [Names -> SUBSET Configs] /\ peers \in [Names -> SUBSET Networks]
    /\ points \in [Names -> SUBSET Networks] /\ lists \in [Names -> SUBSET Networks]
    /\ told \in [interfaces: [Names -> SUBSET AllInterfaces],
                 configs: [Names -> SUBSET Configs], peers: [Names -> SUBSET Networks],
                 points: [Names -> SUBSET Networks], listed: [Names -> SUBSET Networks]]
    /\ morphed \subseteq Names
    /\ task.pc \in {"idle", "ask", "points", "dropPoints", "drop", "undo", "tell", "sync", "configs", "show", "upsert"}
    /\ task.todo \subseteq Names /\ task.item \in Names \cup {Gone}

Resting == At("idle")

\* Between synchronisations every object has exactly what its record says: whatever
\* a link was when it was registered, nothing of that stays behind when it vanishes
\* or another kind of link takes over its name.  The exception is a link of type
\* ppp with another name, which leaves its PPP interfaces for ever.
ObjectsFollowRecords ==
    Resting => \A n \in Names :
        LET expected == IF n \in Known THEN Registered(n, records[n]) ELSE {} IN
        /\ configs[n] = (IF n \in Known THEN records[n].configs ELSE {})
        /\ peers[n] = (IF n \in Known THEN Peers(records[n]) ELSE {})
        /\ expected \subseteq interfaces[n]
        /\ interfaces[n] \ expected \subseteq IF n \in PppNames THEN {} ELSE PppInterfaces

\* What the signals said is then there, and what they did not say is not, but for
\* those interfaces.  A link that changes its kind under one name is not announced
\* again, so of such names nothing is claimed.
ToldIsThere ==
    Resting =>
        /\ told.configs = configs
        /\ \A n \in Names \ morphed :
               /\ told.peers[n] = peers[n]
               /\ told.interfaces[n] \subseteq interfaces[n]
               /\ interfaces[n] \ told.interfaces[n] \subseteq PppInterfaces

\* When a synchronisation ends, each wireless device lists the access points that have
\* an object, and those signalled for it are the same.  It lists one without an
\* object only if iwd's two answers differed; a wired or loopback link may still list
\* what was there under its name.
PointsListed ==
    [][At("sync") /\ At("idle")' => \A n \in Names :
           /\ points[n] \subseteq lists[n]
           /\ \/ lists[n] \ points[n] = task.ordered[n] \ Described(n)
              \/ n \in Known /\ records[n].type \in Uncleared
           /\ told.points[n] = points[n] /\ told.listed[n] = points[n]]_vars

\* The links that are there, and no others, are recorded when they come to rest.
Mirrors ==
    <>[](/\ records = links
         /\ \A n \in Present : links[n].type = "Wlan" => lists[n] = links[n].nets)
=============================================================================

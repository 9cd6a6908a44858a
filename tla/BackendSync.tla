---------------------------- MODULE BackendSync ----------------------------
(***************************************************************************)
(* sync_backends (lib.rs): the tables and the D-Bus objects follow what    *)
(* systemd-networkd and iwd answer.  It runs in several tasks at once: a   *)
(* poller, a follower of the backends' signals, and every ReloadConnec-    *)
(* tions.  Each asks both backends first, one after the other, and then    *)
(* works through its answers while the world, the callers and the other    *)
(* syncs go on.                                                            *)
(*                                                                         *)
(* The tables hold here what stems from the backends: a sync leaves        *)
(* profiles of other origin alone.  Links that have no profile (loopback)  *)
(* and access points are left out.                                         *)
(***************************************************************************)
EXTENDS Integers, FiniteSets

CONSTANTS
    Syncers,     \* tasks that run sync_backends
    Poller,      \* the one that starts again every few seconds
    Wired,       \* links that are not Wi-Fi
    Wlans,       \* Wi-Fi links
    Networks,    \* networks iwd may know
    Nobody,      \* no network, and no link
    Changes,     \* what may change in this instance
    MaxChanges,  \* bound: number of changes
    MaxPath      \* bound: number of settings paths handed out

ChangeKinds == {"link", "known", "join", "outage", "edit", "delete"}

ASSUME SyncConstants ==
    /\ Poller \in Syncers
    /\ Wired \cap Wlans = {} /\ Networks \cap (Wired \cup Wlans) = {}
    /\ Nobody \notin Wired \cup Wlans \cup Networks
    /\ Changes \subseteq ChangeKinds
    /\ MaxChanges \in Nat /\ MaxPath \in Nat
    /\ IsFiniteSet(Wired \cup Networks) /\ Cardinality(Wired \cup Networks) <= MaxPath

Links == Wired \cup Wlans
Paths == 1..MaxPath

\* A backend's profile has the uuid deterministic_uuid makes of its source: of a
\* wired link's name or of a network's path.
Sources == Wired \cup Networks

LinkStates == {"absent", "down", "up"}

\* links: what networkd says of each link, up if link_is_active.
\* known, joined: iwd's known networks and the one each station is connected to.
World == [links: [Links -> LinkStates],
          known: SUBSET Networks,
          joined: [Wlans -> Networks \cup {Nobody}]]

VARIABLES
    world,            \* the backends
    iwdUp,            \* whether a request to iwd is answered
    changes,          \* number of changes so far
    connections,      \* RuntimeState.connections: path -> profile
    nextPath,         \* RuntimeState.next_settings_id
    devices,          \* links in RuntimeState.devices
    actives,          \* RuntimeState.active_connections: link -> path of its profile
    settingsObjects,  \* paths of the SettingsConnection objects
    deviceObjects,    \* links with a Device object
    activeObjects,    \* ActiveConnection objects: link -> the profile it shows
    deleting,         \* paths whose Delete has removed the record, not yet the object
    syncs             \* the tasks

tables == <<connections, nextPath, devices, actives>>
objects == <<settingsObjects, deviceObjects, activeObjects>>
environment == <<world, iwdUp, changes, deleting>>
vars == <<environment, tables, objects, syncs>>

-----------------------------------------------------------------------------
Listed == DOMAIN connections
Present(links) == {l \in Links : links[l] # "absent"}
Up(links) == {l \in Links : links[l] = "up"}
OfSource(u) == {p \in Listed : connections[p].uuid = u}

\* Mutant: Wi-Fi links are not left out.
WantedAll(links, known) == known \cup Present(links)

\* The sources a pair of answers wants a profile for: desired_backend_uuids.
Wanted(links, known) == known \cup (Present(links) \cap Wired)

\* Whose profile is active on link l
ActiveSource(l, joined) == IF l \in Wlans THEN joined[l] ELSE l

Drop(f, x) == [y \in DOMAIN f \ {x} |-> f[y]]
Put(f, x, v) == [y \in DOMAIN f \cup {x} |-> IF y = x THEN v ELSE f[y]]

NoLinks == [l \in Links |-> "absent"]
NoStation == [w \in Wlans |-> Nobody]

\* The local variables of sync_backends.  todo: what the loop the task is in has
\* not been through; item, path: the element in hand; the answers;
\* desired: desired_active, link -> path of the profile, 0 where there is none.
Asleep == [pc |-> "idle", todo |-> {}, item |-> Nobody, path |-> 0, links |-> NoLinks,
           known |-> {}, joined |-> NoStation, desired |-> [l \in Links |-> 0]]

Consistent(w) ==
    \A l \in Wlans : /\ w.joined[l] \in w.known \cup {Nobody}
                     /\ w.links[l] = "absent" => w.joined[l] = Nobody

\* start_service_with_runtime.  It registers an object for the connection of each
\* link that is up, of no profile (0) if a Wi-Fi link has joined no network, and
\* enters none of them into the table: the first sync does.
Init ==
    /\ world \in {w \in World : Consistent(w)}
    /\ iwdUp = TRUE
    /\ changes = 0
    /\ LET wanted == Wanted(world.links, world.known)
           n == Cardinality(wanted)
       IN \E source \in [1..n -> wanted] :
              /\ \A u \in wanted : \E p \in 1..n : source[p] = u
              /\ connections = [p \in 1..n |-> [uuid |-> source[p], body |-> "backend"]]
              /\ nextPath = n + 1
              /\ activeObjects = [l \in Up(world.links) |->
                     LET u == ActiveSource(l, world.joined) IN
                     IF u = Nobody THEN 0 ELSE CHOOSE p \in 1..n : source[p] = u]
    /\ devices = Present(world.links)
    /\ settingsObjects = Listed
    /\ deviceObjects = devices
    /\ actives = [l \in {} |-> 0]
    /\ deleting = {}
    /\ syncs = [s \in Syncers |-> Asleep]

-----------------------------------------------------------------------------
(* The world and the callers                                               *)

May(kind) == kind \in Changes /\ changes < MaxChanges /\ changes' = changes + 1

ChangeLink ==
    /\ May("link")
    /\ \E l \in Links, state \in LinkStates :
           /\ state # world.links[l]
           /\ world' = [world EXCEPT
                  !.links[l] = state,
                  !.joined = [w \in Wlans |-> IF w = l /\ state = "absent"
                                              THEN Nobody ELSE world.joined[w]]]
    /\ UNCHANGED <<iwdUp, deleting, tables, objects, syncs>>

ChangeKnown ==
    /\ May("known")
    /\ \E n \in Networks :
           world' = IF n \in world.known
                    THEN [world EXCEPT
                          !.known = @ \ {n},
                          !.joined = [w \in Wlans |-> IF world.joined[w] = n THEN Nobody
                                                      ELSE world.joined[w]]]
                    ELSE [world EXCEPT !.known = @ \cup {n}]
    /\ UNCHANGED <<iwdUp, deleting, tables, objects, syncs>>

ChangeJoined ==
    /\ May("join")
    /\ \E w \in Wlans, n \in world.known \cup {Nobody} :
           /\ world.links[w] # "absent" /\ world.joined[w] # n
           /\ world' = [world EXCEPT !.joined[w] = n]
    /\ UNCHANGED <<iwdUp, deleting, tables, objects, syncs>>

\* iwd stops or starts to answer in time; its connections are not affected.
ChangeOutage ==
    /\ May("outage")
    /\ iwdUp' = ~iwdUp
    /\ UNCHANGED <<world, deleting, tables, objects, syncs>>

\* The profiles a caller can reach: their methods are those of their objects.
Reachable == Listed \cap settingsObjects

\* The table's step of an Update (module ProfileStore)
Edit ==
    /\ May("edit")
    /\ \E p \in Reachable : connections' = [connections EXCEPT ![p].body = "edited"]
    /\ UNCHANGED <<world, iwdUp, deleting, nextPath, devices, actives, objects, syncs>>

\* The steps of a Delete (module ProfileStore) after its file is gone
Delete ==
    /\ May("delete")
    /\ \E p \in Reachable : connections' = Drop(connections, p) /\ deleting' = deleting \cup {p}
    /\ UNCHANGED <<world, iwdUp, nextPath, devices, actives, objects, syncs>>

DeleteObject ==
    /\ \E p \in deleting : deleting' = deleting \ {p} /\ settingsObjects' = settingsObjects \ {p}
    /\ UNCHANGED <<world, iwdUp, changes, tables, deviceObjects, activeObjects, syncs>>

Disturbance == ChangeLink \/ ChangeKnown \/ ChangeJoined \/ ChangeOutage \/ Edit \/ Delete

-----------------------------------------------------------------------------
(* sync_backends                                                           *)

At(s, pc) == syncs[s].pc = pc
Goto(s, pc) == syncs' = [syncs EXCEPT ![s].pc = pc]

\* The loop task s was in is over; the next one goes through todo.
Loop(s, pc, todo) ==
    /\ syncs[s].todo = {}
    /\ syncs' = [syncs EXCEPT ![s].pc = pc, ![s].todo = todo]

\* An iteration for x begins, or is all done if pc is the loop's own.
Iterate(s, pc, x) ==
    syncs' = [syncs EXCEPT ![s].pc = pc, ![s].todo = @ \ {x}, ![s].item = x]
IterateOver(s, pc, p) ==
    syncs' = [syncs EXCEPT ![s].pc = pc, ![s].todo = @ \ {p}, ![s].path = p]

\* Manager::request lists the links, then describes one after the other; a link
\* that is gone by then fails it.
Ask(s) ==
    /\ At(s, "idle")
    /\ Loop(s, "describe", Present(world.links))
    /\ UNCHANGED <<environment, tables, objects>>

Describe(s) ==
    /\ At(s, "describe")
    /\ \E l \in syncs[s].todo :
           syncs' = IF world.links[l] = "absent" THEN [syncs EXCEPT ![s] = Asleep]
                    ELSE [syncs EXCEPT ![s].todo = @ \ {l}, ![s].links[l] = world.links[l]]
    /\ UNCHANGED <<environment, tables, objects>>

\* IwdState::request(..).await.unwrap_or_default(): no answer is an empty one.
AskIwd(s) ==
    /\ At(s, "describe") /\ syncs[s].todo = {}
    /\ LET known == IF iwdUp THEN world.known ELSE {}
           joined == IF iwdUp THEN world.joined ELSE NoStation
       IN syncs' = [syncs EXCEPT ![s].pc = "profiles", ![s].known = known,
                                 ![s].joined = joined,
                                 ![s].todo = Wanted(syncs[s].links, known)]
    /\ UNCHANGED <<environment, tables, objects>>

\* connection_by_uuid, and next_connection_path if there is none
Lookup(s) ==
    /\ At(s, "profiles")
    /\ \E u \in syncs[s].todo :
           \/ \E p \in OfSource(u) :
                  /\ syncs' = [syncs EXCEPT ![s].pc = "update", ![s].todo = @ \ {u},
                                            ![s].item = u, ![s].path = p]
                  /\ UNCHANGED nextPath
           \/ /\ OfSource(u) = {}
              /\ nextPath \in Paths /\ nextPath' = nextPath + 1
              /\ syncs' = [syncs EXCEPT ![s].pc = "insert", ![s].todo = @ \ {u},
                                        ![s].item = u, ![s].path = nextPath]
    /\ UNCHANGED <<environment, connections, devices, actives, objects>>

\* The settings are those of the backend again.
Update(s) ==
    /\ At(s, "update")
    /\ connections' = IF syncs[s].path \in Listed
                      THEN [connections EXCEPT ![syncs[s].path].body = "backend"]
                      ELSE connections
    /\ Goto(s, "profiles")
    /\ UNCHANGED <<environment, nextPath, devices, actives, objects>>

Insert(s) ==
    /\ At(s, "insert")
    /\ connections' = Put(connections, syncs[s].path, [uuid |-> syncs[s].item, body |-> "backend"])
    /\ Goto(s, "export")
    /\ UNCHANGED <<environment, nextPath, devices, actives, objects>>

Export(s) ==
    /\ At(s, "export")
    /\ settingsObjects' = settingsObjects \cup {syncs[s].path}
    /\ Goto(s, "profiles")
    /\ UNCHANGED <<environment, tables, deviceObjects, activeObjects>>

\* stale_backend
ListStale(s) ==
    /\ At(s, "profiles")
    /\ Loop(s, "stale", {p \in Listed :
                connections[p].uuid \notin Wanted(syncs[s].links, syncs[s].known)})
    /\ UNCHANGED <<environment, tables, objects>>

RemoveStale(s) ==
    /\ At(s, "stale")
    /\ \E p \in syncs[s].todo :
           connections' = Drop(connections, p) /\ IterateOver(s, "unexport", p)
    /\ UNCHANGED <<environment, nextPath, devices, actives, objects>>

Unexport(s) ==
    /\ At(s, "unexport")
    /\ settingsObjects' = settingsObjects \ {syncs[s].path}
    /\ Goto(s, "stale")
    /\ UNCHANGED <<environment, tables, deviceObjects, activeObjects>>

-----------------------------------------------------------------------------
(* Its second part: devices                                                *)

ListGone(s) ==
    /\ At(s, "stale")
    /\ Loop(s, "gone", devices \ Present(syncs[s].links))
    /\ UNCHANGED <<environment, tables, objects>>

\* Mutant: the object stays if the record is removed.
RemoveRecordOnly(s) ==
    /\ At(s, "gone")
    /\ \E l \in syncs[s].todo : devices' = devices \ {l} /\ Iterate(s, "gone", l)
    /\ UNCHANGED <<environment, connections, nextPath, actives, objects>>

\* Whoever removes the record unregisters the objects.
RemoveDevice(s) ==
    /\ At(s, "gone")
    /\ \E l \in syncs[s].todo :
           /\ devices' = devices \ {l}
           /\ Iterate(s, IF l \in devices THEN "unregister" ELSE "gone", l)
    /\ UNCHANGED <<environment, connections, nextPath, actives, objects>>

Unregister(s) ==
    /\ At(s, "unregister")
    /\ deviceObjects' = deviceObjects \ {syncs[s].item}
    /\ Goto(s, "gone")
    /\ UNCHANGED <<environment, tables, settingsObjects, activeObjects>>

ListLinks(s) ==
    /\ At(s, "gone")
    /\ Loop(s, "devices", Present(syncs[s].links))
    /\ UNCHANGED <<environment, tables, objects>>

\* Mutant: a device that has a record is left alone.
ExistingLeft(s) ==
    /\ At(s, "devices")
    /\ \E l \in syncs[s].todo :
           Iterate(s, IF l \in devices THEN "devices" ELSE "register", l)
    /\ UNCHANGED <<environment, tables, objects>>

\* sync_device_object for each link: it looks for the record, takes the old
\* objects away if there is one, registers new ones and writes the record.
Existing(s) ==
    /\ At(s, "devices")
    /\ \E l \in syncs[s].todo :
           Iterate(s, IF l \in devices THEN "refresh" ELSE "register", l)
    /\ UNCHANGED <<environment, tables, objects>>

Refresh(s) ==
    /\ At(s, "refresh")
    /\ deviceObjects' = deviceObjects \ {syncs[s].item}
    /\ Goto(s, "register")
    /\ UNCHANGED <<environment, tables, settingsObjects, activeObjects>>

Register(s) ==
    /\ At(s, "register")
    /\ deviceObjects' = deviceObjects \cup {syncs[s].item}
    /\ Goto(s, "upsert")
    /\ UNCHANGED <<environment, tables, settingsObjects, activeObjects>>

Upsert(s) ==
    /\ At(s, "upsert")
    /\ devices' = devices \cup {syncs[s].item}
    /\ Goto(s, "devices")
    /\ UNCHANGED <<environment, connections, nextPath, actives, objects>>

-----------------------------------------------------------------------------
(* Its third part: active connections                                      *)

Desired(s) == {l \in Links : syncs[s].desired[l] # 0}

\* desired_active: each link that is up and whose profile is found
ListActive(s) ==
    /\ At(s, "devices")
    /\ Loop(s, "desire", Up(syncs[s].links))
    /\ UNCHANGED <<environment, tables, objects>>

Desire(s) ==
    /\ At(s, "desire")
    /\ \E l \in syncs[s].todo :
           LET found == OfSource(ActiveSource(l, syncs[s].joined)) IN
           \E p \in IF found = {} THEN {0} ELSE found :
               syncs' = [syncs EXCEPT ![s].todo = @ \ {l}, ![s].desired[l] = p]
    /\ UNCHANGED <<environment, tables, objects>>

ListUndesired(s) ==
    /\ At(s, "desire")
    /\ Loop(s, "drop", DOMAIN actives \ Desired(s))
    /\ UNCHANGED <<environment, tables, objects>>

\* Mutant: the object stays if the record is removed.
DropRecordOnly(s) ==
    /\ At(s, "drop")
    /\ \E l \in syncs[s].todo : actives' = Drop(actives, l) /\ Iterate(s, "drop", l)
    /\ UNCHANGED <<environment, connections, nextPath, devices, objects>>

DropActive(s) ==
    /\ At(s, "drop")
    /\ \E l \in syncs[s].todo : actives' = Drop(actives, l) /\ Iterate(s, "dropObject", l)
    /\ UNCHANGED <<environment, connections, nextPath, devices, objects>>

DropObject(s) ==
    /\ At(s, "dropObject")
    /\ activeObjects' = Drop(activeObjects, syncs[s].item)
    /\ Goto(s, "drop")
    /\ UNCHANGED <<environment, tables, settingsObjects, deviceObjects>>

ListDesired(s) ==
    /\ At(s, "drop")
    /\ Loop(s, "revive", Desired(s))
    /\ UNCHANGED <<environment, tables, objects>>

\* Mutant: the old object is not taken away first.
HideNothing(s) ==
    /\ At(s, "revive")
    /\ \E l \in syncs[s].todo : Iterate(s, "show", l)
    /\ UNCHANGED <<environment, tables, objects>>

Hide(s) ==
    /\ At(s, "revive")
    /\ \E l \in syncs[s].todo : activeObjects' = Drop(activeObjects, l) /\ Iterate(s, "show", l)
    /\ UNCHANGED <<environment, tables, settingsObjects, deviceObjects>>

\* ObjectServer::at keeps an object that is already there.
Show(s) ==
    /\ At(s, "show")
    /\ LET l == syncs[s].item IN
       activeObjects' = IF l \in DOMAIN activeObjects THEN activeObjects
                        ELSE Put(activeObjects, l, syncs[s].desired[l])
    /\ Goto(s, "record")
    /\ UNCHANGED <<environment, tables, settingsObjects, deviceObjects>>

RecordActive(s) ==
    /\ At(s, "record")
    /\ actives' = Put(actives, syncs[s].item, syncs[s].desired[syncs[s].item])
    /\ Goto(s, "revive")
    /\ UNCHANGED <<environment, connections, nextPath, devices, objects>>

Finish(s) ==
    /\ At(s, "revive") /\ syncs[s].todo = {}
    /\ syncs' = [syncs EXCEPT ![s] = Asleep]
    /\ UNCHANGED <<environment, tables, objects>>

-----------------------------------------------------------------------------
Profiles(s) == \/ Lookup(s) \/ Update(s) \/ Insert(s) \/ Export(s)
               \/ ListStale(s) \/ RemoveStale(s) \/ Unexport(s)
Devices(s) == \/ ListGone(s) \/ RemoveDevice(s) \/ Unregister(s) \/ ListLinks(s)
              \/ Existing(s) \/ Refresh(s) \/ Register(s) \/ Upsert(s)
Actives(s) == \/ ListActive(s) \/ Desire(s) \/ ListUndesired(s) \/ DropActive(s)
              \/ DropObject(s) \/ ListDesired(s) \/ Hide(s) \/ Show(s)
              \/ RecordActive(s) \/ Finish(s)

\* A step of a sync that has begun
Step(s) == Describe(s) \/ AskIwd(s) \/ Profiles(s) \/ Devices(s) \/ Actives(s)

Next == Disturbance \/ DeleteObject \/ \E s \in Syncers : Ask(s) \/ Step(s)

Spec == Init /\ [][Next]_vars

\* The poller sleeps and starts again, and every task that has begun goes on.
Fairness == /\ WF_vars(Ask(Poller))
            /\ \A s \in Syncers : WF_vars(Step(s))
            /\ WF_vars(DeleteObject)
FairSpec == Spec /\ Fairness

-----------------------------------------------------------------------------
Pcs == {"idle", "describe", "profiles", "update", "insert", "export", "stale", "unexport",
        "gone", "unregister", "devices", "refresh", "register", "upsert",
        "desire", "drop", "dropObject", "revive", "show", "record"}

Profile == [uuid: Sources, body: {"backend", "edited"}]

\* f maps some elements of X into S.
Maps(f, X, S) == DOMAIN f \subseteq X /\ \A x \in DOMAIN f : f[x] \in S

Task == [pc: Pcs,
         todo: SUBSET (Sources \cup Paths \cup Links),
         item: Sources \cup Links \cup {Nobody},
         path: Paths \cup {0},
         links: [Links -> LinkStates],
         known: SUBSET Networks,
         joined: [Wlans -> Networks \cup {Nobody}],
         desired: [Links -> Paths \cup {0}]]

WorldOK == /\ world \in World /\ iwdUp \in BOOLEAN
           /\ changes \in 0..MaxChanges /\ deleting \subseteq Paths
TablesOK == /\ Maps(connections, Paths, Profile)
            /\ nextPath \in 1..(MaxPath + 1)
            /\ devices \subseteq Links
            /\ Maps(actives, Links, Paths)
ObjectsOK == /\ settingsObjects \subseteq Paths /\ deviceObjects \subseteq Links
             /\ Maps(activeObjects, Links, Paths \cup {0})

\* The tables, the objects and the tasks have the types of the code.
TypeOK == WorldOK /\ TablesOK /\ ObjectsOK /\ syncs \in [Syncers -> Task]

\* Task s is at one of pcs for x.
For(s, pcs, x) == syncs[s].pc \in pcs /\ syncs[s].item = x

\* Every Device object has its record, or a task is about to write the record or
\* to remove the object: whatever the order in which syncs on old and new answers
\* take their steps, no object stays behind.
NoGhostDevice ==
    \A l \in deviceObjects :
        l \in devices \/ \E s \in Syncers : For(s, {"unregister", "upsert"}, l)

\* ActiveConnection objects that have no record and no task to see to it.  The
\* service starts with some.
Orphans ==
    {l \in DOMAIN activeObjects :
        l \notin DOMAIN actives /\ ~\E s \in Syncers : For(s, {"dropObject", "record"}, l)}

\* No order of the steps of syncs makes an orphan of an ActiveConnection object.
NoNewOrphan == [][Orphans' \subseteq Orphans]_vars

-----------------------------------------------------------------------------
\* What a sync that began now would hear
Heard == IF iwdUp THEN [known |-> world.known, joined |-> world.joined]
         ELSE [known |-> {}, joined |-> NoStation]
HeardActive(l) == world.links[l] = "up" /\ ActiveSource(l, Heard.joined) # Nobody

\* The tables are those of the backends, and every record has its object unless
\* a sync is just replacing it.
Mirrored ==
    /\ devices = Present(world.links)
    /\ {connections[p].uuid : p \in Listed} = Wanted(world.links, Heard.known)
    /\ DOMAIN actives = {l \in Links : HeardActive(l)}
    /\ \A l \in DOMAIN actives :
           /\ actives[l] \in OfSource(ActiveSource(l, Heard.joined))
           /\ \/ l \in DOMAIN activeObjects
              \/ \E s \in Syncers : For(s, {"show"}, l)
    /\ \A l \in devices : l \in deviceObjects \/ \E s \in Syncers : For(s, {"register"}, l)
    /\ Listed \subseteq settingsObjects

\* Once the backends and the callers come to rest, the tables and objects become
\* a mirror of the backends and stay one, whatever old answers were in use.
Converges == <>[][~Disturbance]_vars => <>[]Mirrored

\* With one task that synchronises, each ActiveConnection object of the mirror also
\* shows the profile of its record, whatever was left from the start of the service.
ObjectsTrue ==
    <>[][~Disturbance]_vars =>
        <>[](/\ Mirrored
             /\ \A l \in DOMAIN activeObjects \cap DOMAIN actives : activeObjects[l] = actives[l])
=============================================================================

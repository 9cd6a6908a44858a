----------------------------- MODULE Activation -----------------------------
(***************************************************************************)
(* Activation: the methods of the root object that activate and deactivate *)
(* connections, its switches (networking, sleep, Wi-Fi), Disconnect of a   *)
(* device, the table of active connections, their D-Bus objects and the    *)
(* root's announcements (network_manager/mod.rs, device/mod.rs,            *)
(* runtime.rs), together with the part of a synchronisation that works on  *)
(* the same table (lib.rs; module BackendSync has all of it).              *)
(*                                                                         *)
(* A profile stands for the record of one connection, an interface for its *)
(* device path and for the path of its active connection.  A record of the *)
(* table keeps the path and the type of its profile, so does its object.   *)
(***************************************************************************)
EXTENDS Integers, FiniteSets

CONSTANTS
    Clients,    \* callers; each has at most one call in flight
    Syncing,    \* sync_enabled of the configuration
    Ifaces,     \* names of the network links
    Wlans,      \* those that iwd has a station for
    Tails,      \* pairs <<i, j>> where the name of j ends with the name of i
    Profiles,   \* profiles that are or may come to be in the table
    KindOf,     \* connection.type of each profile
    Source,     \* the profile that the synchronisation derives from each link
    Nowhere,    \* no interface
    NoOne,      \* no profile
    Ops,        \* methods the clients of this instance call
    Failures,   \* whether a backend may refuse
    MaxChanges  \* bound: how often a link goes up or down by itself

OpNames == {"activate", "addAndActivate", "deactivate", "disconnect", "delete",
            "networking", "sleep", "wireless"}
Switches == {"networking", "sleep", "wireless"}
Kinds == {"wifi", "ethernet", "other"}

ASSUME ActivationConstants ==
    /\ Syncing \in BOOLEAN /\ Failures \in BOOLEAN
    /\ Wlans \subseteq Ifaces
    /\ Tails \subseteq Ifaces \X Ifaces /\ \A i \in Ifaces : <<i, i>> \in Tails
    /\ KindOf \in [Profiles -> Kinds] /\ Source \in [Ifaces -> Profiles]
    /\ Nowhere \notin Ifaces /\ NoOne \notin Profiles
    /\ Ops \subseteq OpNames
    /\ MaxChanges \in Nat

VARIABLES
    up,        \* links that their backend reports to be in use
    changes,   \* how often a link changed by itself
    profiles,  \* RuntimeState.connections
    actives,   \* RuntimeState.active_connections: interface -> profile
    exported,  \* ActiveConnection objects: interface -> the profile it shows
    switches,  \* networking_enabled, sleeping and wireless_enabled
    told,      \* what the last signals said of the root's properties
    calls,     \* the tasks that answer the clients
    sync       \* the task that synchronises with the backends

world == <<up, changes>>
tables == <<profiles, actives, switches>>
vars == <<world, tables, exported, told, calls, sync>>

-----------------------------------------------------------------------------
Actives == DOMAIN actives
Put(f, i, p) == [j \in DOMAIN f \cup {i} |-> IF j = i THEN p ELSE f[j]]
Drop(f, i) == [j \in DOMAIN f \ {i} |-> f[j]]
\* ObjectServer::at keeps an object that is already there.
Export(f, i, p) == IF i \in DOMAIN f THEN f ELSE Put(f, i, p)

Online == switches.networking /\ ~switches.sleeping

\* state_from_runtime
State == IF switches.sleeping THEN 10
         ELSE IF ~switches.networking \/ Actives = {} THEN 20 ELSE 70

\* What emit_root_runtime_changes says, as far as it depends on this state
Facts == [active |-> Actives, state |-> State,
          networking |-> switches.networking, wireless |-> switches.wireless]

\* Whether a profile of kind k may be activated
Permitted(k) == Online /\ (k = "wifi" => switches.wireless)

\* The kinds of connection that a switch, once it is off, clears
Cleared(op) == IF op = "wireless" THEN {"wifi"} ELSE {"wifi", "ethernet"}

\* active_connection_for_interface: the first record with a device path that
\* ends with the name; which one is first is left open.
Named(d) == {i \in Actives : <<d, i>> \in Tails}

\* iface: path of the active connection; dev: the link the backend is asked
\* about; profile: of the record that was read; todo: paths still to clear.
NoFacts == [active |-> {}, state |-> 0, networking |-> FALSE, wireless |-> FALSE]
Idle == [pc |-> "idle", op |-> "none", iface |-> Nowhere, dev |-> Nowhere,
         profile |-> NoOne, todo |-> {}, facts |-> NoFacts]
Asleep == [pc |-> "idle", seen |-> {}, desired |-> {}, todo |-> {}, item |-> Nowhere,
           active |-> {}]

\* start_service exports the links that are in use without recording them (module
\* BackendSync); the root's properties are those of the empty table.
Init ==
    /\ up \in SUBSET Ifaces
    /\ changes = 0
    /\ profiles \in {P \in SUBSET Profiles : \A i \in Ifaces : Source[i] \in P}
    /\ actives = [i \in {} |-> NoOne]
    /\ exported = [i \in up |-> Source[i]]
    /\ switches = [networking |-> TRUE, sleeping |-> FALSE, wireless |-> TRUE]
    /\ told = [active |-> {}, state |-> 20, networking |-> TRUE, wireless |-> TRUE]
    /\ calls = [c \in Clients |-> Idle]
    /\ sync = Asleep

At(c, pc) == calls[c].pc = pc
MayCall(c, op) == op \in Ops /\ At(c, "idle")
Goto(c, pc) == calls' = [calls EXCEPT ![c].pc = pc]
Return(c) == calls' = [calls EXCEPT ![c] = Idle]
Begin(c, op, pc, i, d, p) ==
    calls' = [calls EXCEPT ![c] = [Idle EXCEPT !.pc = pc, !.op = op, !.iface = i,
                                               !.dev = d, !.profile = p]]
Of(c) == calls[c].iface
Kind(c) == KindOf[calls[c].profile]

-----------------------------------------------------------------------------
(* ActivateConnection and AddAndActivateConnection(2)                      *)

\* The record is looked up first; a path that is unknown is refused at once.
Activate(c) ==
    /\ MayCall(c, "activate")
    /\ \E p \in profiles, i \in Ifaces : Begin(c, "activate", "check", i, i, p)
    /\ UNCHANGED <<world, tables, exported, told, sync>>

\* add_runtime_connection (module ProfileStore has its steps), then the above.
AddAndActivate(c) ==
    /\ MayCall(c, "addAndActivate")
    /\ \E p \in Profiles \ profiles, i \in Ifaces :
           /\ profiles' = profiles \cup {p}
           /\ Begin(c, "addAndActivate", "check", i, i, p)
    /\ UNCHANGED <<world, actives, switches, exported, told, sync>>

\* Mutant: only the networking switch is looked at.
CheckNetworking(c) ==
    /\ At(c, "check")
    /\ IF switches.networking THEN Goto(c, "connect") ELSE Return(c)
    /\ UNCHANGED <<world, tables, exported, told, sync>>

\* A profile that was added stays when its activation is refused.
Check(c) ==
    /\ At(c, "check")
    /\ IF Permitted(Kind(c)) THEN Goto(c, "connect") ELSE Return(c)
    /\ UNCHANGED <<world, tables, exported, told, sync>>

\* activate_wifi_connection needs a station, activate_wired_connection a link.
\* The link may have no carrier, and a wlan that is up is not associated yet.
Connect(c) ==
    /\ At(c, "connect")
    /\ \/ /\ Kind(c) = "wifi" => Of(c) \in Wlans
          /\ up' \in IF Kind(c) # "wifi" /\ Of(c) \in Wlans THEN {up}
                     ELSE {up, up \cup {Of(c)}}
          /\ Goto(c, "unexport")
       \/ /\ Failures \/ (Kind(c) = "wifi" /\ Of(c) \notin Wlans)
          /\ Return(c) /\ UNCHANGED up
    /\ UNCHANGED <<changes, tables, exported, told, sync>>

\* Mutant: the old object is not taken away first.
UnexportNothing(c) ==
    /\ At(c, "unexport")
    /\ Goto(c, "export")
    /\ UNCHANGED <<world, tables, exported, told, sync>>

Unexport(c) ==
    /\ At(c, "unexport")
    /\ exported' = Drop(exported, Of(c))
    /\ Goto(c, "export")
    /\ UNCHANGED <<world, tables, told, sync>>

ExportActive(c) ==
    /\ At(c, "export")
    /\ exported' = Export(exported, Of(c), calls[c].profile)
    /\ Goto(c, "record")
    /\ UNCHANGED <<world, tables, told, sync>>

\* add_active_connection
Record(c) ==
    /\ At(c, "record")
    /\ actives' = Put(actives, Of(c), calls[c].profile)
    /\ Goto(c, "read")
    /\ UNCHANGED <<world, profiles, switches, exported, told, sync>>

-----------------------------------------------------------------------------
(* DeactivateConnection, Device.Disconnect (also by Managed = false, which *)
(* ignores its result) and the switches                                    *)

Deactivate(c) ==
    /\ MayCall(c, "deactivate")
    /\ \E i \in Actives : Begin(c, "deactivate", "down", i, i, actives[i])
    /\ UNCHANGED <<world, tables, exported, told, sync>>

\* A device without an active connection is left as it is.
Disconnect(c) ==
    /\ MayCall(c, "disconnect")
    /\ \E d \in Ifaces : \E i \in Named(d) : Begin(c, "disconnect", "look", i, d, NoOne)
    /\ UNCHANGED <<world, tables, exported, told, sync>>

\* Enable, Sleep and WirelessEnabled.  The switch is set before anything else.
Switch(c) ==
    \E on \in BOOLEAN :
        /\ \/ /\ MayCall(c, "networking") /\ switches' = [switches EXCEPT !.networking = on]
              /\ Begin(c, "networking", IF on THEN "read" ELSE "list", Nowhere, Nowhere, NoOne)
           \/ /\ MayCall(c, "sleep") /\ switches' = [switches EXCEPT !.sleeping = ~on]
              /\ Begin(c, "sleep", IF on THEN "read" ELSE "list", Nowhere, Nowhere, NoOne)
           \/ /\ MayCall(c, "wireless") /\ switches' = [switches EXCEPT !.wireless = on]
              /\ Begin(c, "wireless", IF on THEN "read" ELSE "list", Nowhere, Nowhere, NoOne)
        /\ UNCHANGED <<world, profiles, actives, exported, told, sync>>

\* clear_active_connections_of_types
List(c) ==
    /\ At(c, "list")
    /\ calls' = [calls EXCEPT ![c].pc = "sweep", ![c].todo = Actives]
    /\ UNCHANGED <<world, tables, exported, told, sync>>

Sweep(c) ==
    /\ At(c, "sweep")
    /\ \/ calls[c].todo = {} /\ Goto(c, "read")
       \/ \E i \in calls[c].todo :
              calls' = [calls EXCEPT ![c].pc = "look", ![c].todo = @ \ {i},
                                     ![c].iface = i, ![c].dev = i]
    /\ UNCHANGED <<world, tables, exported, told, sync>>

\* Mutant: a path of another kind ends the sweep.
LookEnds(c) ==
    /\ At(c, "look")
    /\ IF Of(c) \notin Actives THEN Goto(c, "unrecord")
       ELSE LET p == actives[Of(c)] IN
            IF calls[c].op \in Switches /\ KindOf[p] \notin Cleared(calls[c].op)
            THEN Goto(c, "read")
            ELSE calls' = [calls EXCEPT ![c].pc = "down", ![c].profile = p]
    /\ UNCHANGED <<world, tables, exported, told, sync>>

\* A record that is gone by now needs no backend; a sweep skips other kinds.
Look(c) ==
    /\ At(c, "look")
    /\ IF Of(c) \notin Actives THEN Goto(c, "unrecord")
       ELSE LET p == actives[Of(c)] IN
            IF calls[c].op \in Switches /\ KindOf[p] \notin Cleared(calls[c].op)
            THEN Goto(c, "sweep")
            ELSE calls' = [calls EXCEPT ![c].pc = "down", ![c].profile = p]
    /\ UNCHANGED <<world, tables, exported, told, sync>>

\* Disconnect asks no backend about other kinds.  An error ends the call, a
\* sweep too.
Down(c) ==
    /\ At(c, "down")
    /\ \/ /\ up' = IF calls[c].op = "disconnect" /\ Kind(c) = "other" THEN up
                   ELSE up \ {calls[c].dev}
          /\ Goto(c, "unrecord")
       \/ Failures /\ Return(c) /\ UNCHANGED up
    /\ UNCHANGED <<changes, tables, exported, told, sync>>

Unrecord(c) ==
    /\ At(c, "unrecord")
    /\ actives' = Drop(actives, Of(c))
    /\ Goto(c, "unpublish")
    /\ UNCHANGED <<world, profiles, switches, exported, told, sync>>

\* Mutant: Disconnect leaves the announcement to others.
UnpublishQuiet(c) ==
    /\ At(c, "unpublish")
    /\ exported' = Drop(exported, Of(c))
    /\ CASE calls[c].op \in Switches -> Goto(c, "sweep")
         [] calls[c].op = "disconnect" -> Return(c)
         [] OTHER -> Goto(c, "read")
    /\ UNCHANGED <<world, tables, told, sync>>

\* Only DeactivateConnection minds if there is no object.
Unpublish(c) ==
    /\ At(c, "unpublish")
    /\ exported' = Drop(exported, Of(c))
    /\ CASE calls[c].op \in Switches -> Goto(c, "sweep")
         [] calls[c].op = "deactivate" /\ Of(c) \notin DOMAIN exported -> Return(c)
         [] OTHER -> Goto(c, "read")
    /\ UNCHANGED <<world, tables, told, sync>>

-----------------------------------------------------------------------------
(* The root's announcement that ends every successful call, in two steps:  *)
(* the properties are read, then the signal is sent.  AddAndActivate does  *)
(* it twice.                                                               *)

Read(c) ==
    /\ At(c, "read")
    /\ calls' = [calls EXCEPT ![c].pc = "send", ![c].facts = Facts]
    /\ UNCHANGED <<world, tables, exported, told, sync>>

Send(c) ==
    /\ At(c, "send")
    /\ told' = calls[c].facts
    /\ IF calls[c].op = "addAndActivate"
       THEN calls' = [calls EXCEPT ![c].pc = "read", ![c].op = "activate"]
       ELSE Return(c)
    /\ UNCHANGED <<world, tables, exported, sync>>

\* Settings.Connection.Delete; nothing is deactivated.
Delete(c) ==
    /\ MayCall(c, "delete")
    /\ \E p \in profiles : profiles' = profiles \ {p}
    /\ UNCHANGED <<world, actives, switches, exported, told, calls, sync>>

-----------------------------------------------------------------------------
(* A synchronisation                                                       *)

SyncAt(pc) == sync.pc = pc

SyncAsk ==
    /\ Syncing /\ SyncAt("idle")
    /\ sync' = [sync EXCEPT !.pc = "plan", !.seen = up]
    /\ UNCHANGED <<world, tables, exported, told, calls>>

\* The profiles of the links come first; what is desired follows from the old
\* answers of the backends.  The switches are not looked at.
SyncPlan ==
    /\ SyncAt("plan")
    /\ profiles' = profiles \cup {Source[i] : i \in Ifaces}
    /\ sync' = [sync EXCEPT !.pc = "drop", !.desired = sync.seen, !.todo = Actives \ sync.seen]
    /\ UNCHANGED <<world, actives, switches, exported, told, calls>>

SyncDrop ==
    /\ SyncAt("drop")
    /\ \/ /\ sync.todo = {}
          /\ sync' = [sync EXCEPT !.pc = "put", !.todo = sync.desired]
          /\ UNCHANGED actives
       \/ \E i \in sync.todo :
              /\ actives' = Drop(actives, i)
              /\ sync' = [sync EXCEPT !.pc = "dropObject", !.todo = @ \ {i}, !.item = i]
    /\ UNCHANGED <<world, profiles, switches, exported, told, calls>>

\* Mutant: the object stays if the record is removed.
SyncKeepObject ==
    /\ SyncAt("dropObject")
    /\ sync' = [sync EXCEPT !.pc = "drop"]
    /\ UNCHANGED <<world, tables, exported, told, calls>>

SyncDropObject ==
    /\ SyncAt("dropObject")
    /\ exported' = Drop(exported, sync.item)
    /\ sync' = [sync EXCEPT !.pc = "drop"]
    /\ UNCHANGED <<world, tables, told, calls>>

\* Mutant: an object that is there is kept.
SyncHideNothing ==
    /\ SyncAt("put")
    /\ \/ sync.todo = {} /\ sync' = [sync EXCEPT !.pc = "read"]
       \/ \E i \in sync.todo :
              sync' = [sync EXCEPT !.pc = "show", !.todo = @ \ {i}, !.item = i]
    /\ UNCHANGED <<world, tables, exported, told, calls>>

SyncHide ==
    /\ SyncAt("put")
    /\ \/ sync.todo = {} /\ sync' = [sync EXCEPT !.pc = "read"] /\ UNCHANGED exported
       \/ \E i \in sync.todo :
              /\ exported' = Drop(exported, i)
              /\ sync' = [sync EXCEPT !.pc = "show", !.todo = @ \ {i}, !.item = i]
    /\ UNCHANGED <<world, tables, told, calls>>

SyncShow ==
    /\ SyncAt("show")
    /\ exported' = Export(exported, sync.item, Source[sync.item])
    /\ sync' = [sync EXCEPT !.pc = "record"]
    /\ UNCHANGED <<world, tables, told, calls>>

SyncRecord ==
    /\ SyncAt("record")
    /\ actives' = Put(actives, sync.item, Source[sync.item])
    /\ sync' = [sync EXCEPT !.pc = "put"]
    /\ UNCHANGED <<world, profiles, switches, exported, told, calls>>

SyncRead ==
    /\ SyncAt("read")
    /\ sync' = [sync EXCEPT !.pc = "send", !.active = Actives]
    /\ UNCHANGED <<world, tables, exported, told, calls>>

\* The State and the PrimaryConnection that follow from it are not sent.
SyncSend ==
    /\ SyncAt("send")
    /\ told' = [told EXCEPT !.active = sync.active]
    /\ sync' = Asleep
    /\ UNCHANGED <<world, tables, exported, calls>>

\* A cable, an access point, or somebody else's command
Change ==
    /\ changes < MaxChanges
    /\ changes' = changes + 1
    /\ \E i \in Ifaces : up' = IF i \in up THEN up \ {i} ELSE up \cup {i}
    /\ UNCHANGED <<tables, exported, told, calls, sync>>

-----------------------------------------------------------------------------
Request(c) == \/ Activate(c) \/ AddAndActivate(c) \/ Deactivate(c) \/ Disconnect(c)
              \/ Switch(c) \/ Delete(c)
Step(c) == \/ Check(c) \/ Connect(c) \/ Unexport(c) \/ ExportActive(c) \/ Record(c)
           \/ List(c) \/ Sweep(c) \/ Look(c) \/ Down(c) \/ Unrecord(c) \/ Unpublish(c)
           \/ Read(c) \/ Send(c)
SyncStep == \/ SyncAsk \/ SyncPlan \/ SyncDrop \/ SyncDropObject \/ SyncHide
            \/ SyncShow \/ SyncRecord \/ SyncRead \/ SyncSend

Next == (\E c \in Clients : Request(c) \/ Step(c)) \/ SyncStep \/ Change

Spec == Init /\ [][Next]_vars

\* Every task that has begun goes on, and the synchronisation starts again and
\* again.
Fairness == (\A c \in Clients : WF_vars(Step(c))) /\ WF_vars(SyncStep)
FairSpec == Spec /\ Fairness

-----------------------------------------------------------------------------
Pcs == {"idle", "check", "connect", "unexport", "export", "record", "list", "sweep",
        "look", "down", "unrecord", "unpublish", "read", "send"}
SyncPcs == {"idle", "plan", "drop", "dropObject", "put", "show", "record", "read", "send"}
Report == [active: SUBSET Ifaces, state: {0, 10, 20, 70}, networking: BOOLEAN,
           wireless: BOOLEAN]
Call == [pc: Pcs, op: OpNames \cup {"none"}, iface: Ifaces \cup {Nowhere},
         dev: Ifaces \cup {Nowhere}, profile: Profiles \cup {NoOne},
         todo: SUBSET Ifaces, facts: Report]
Pass == [pc: SyncPcs, seen: SUBSET Ifaces, desired: SUBSET Ifaces, todo: SUBSET Ifaces,
         item: Ifaces \cup {Nowhere}, active: SUBSET Ifaces]
IsTable(f) == DOMAIN f \subseteq Ifaces /\ f \in [DOMAIN f -> Profiles]

\* The tables, the switches and the tasks have the types of the code.
TypeOK ==
    /\ up \subseteq Ifaces /\ changes \in 0..MaxChanges
    /\ profiles \subseteq Profiles
    /\ IsTable(actives) /\ IsTable(exported)
    /\ switches \in [networking: BOOLEAN, sleeping: BOOLEAN, wireless: BOOLEAN]
    /\ told \in Report /\ told.state # 0
    /\ calls \in [Clients -> Call] /\ sync \in Pass

\* Some task is about to give interface i a record or to remove its object.
Between(i) ==
    \/ \E c \in Clients : calls[c].pc \in {"record", "unpublish"} /\ Of(c) = i
    \/ sync.pc \in {"record", "dropObject"} /\ sync.item = i

\* An ActiveConnection object that no record stands behind
Orphan(i) == i \in DOMAIN exported /\ i \notin Actives /\ ~Between(i)

\* However calls and synchronisations interleave, none of them leaves an object
\* without a record behind (those of the first synchronisation are there from
\* the start).
NoNewOrphan == [][\A i \in Ifaces : Orphan(i)' => Orphan(i)]_vars

Off(op) == CASE op = "networking" -> ~switches.networking
             [] op = "sleep" -> switches.sleeping
             [] op = "wireless" -> ~switches.wireless

\* A call that switched something off and says so has deactivated everything the
\* switch clears: with one caller and no synchronisation, a backend's refusal is
\* the only way to leave something active, and then nothing is announced.
ClearedWhenTold ==
    \A c \in Clients :
        /\ calls[c].op \in Switches /\ calls[c].pc \in {"read", "send"}
        /\ Off(calls[c].op)
        => \A i \in Actives : KindOf[actives[i]] \notin Cleared(calls[c].op)

\* The switches are checked before the backend is waited for; with one caller
\* nothing becomes active while they are off.
NothingActiveOffline ==
    [][\A i \in Ifaces : i \notin Actives /\ i \in Actives' => Permitted(KindOf[actives'[i]])]_vars

Resting == \A c \in Clients : At(c, "idle")

\* Between the calls of one caller each record has an object, which shows it, be it
\* that the object was there before, from the start or from another profile.
RecordShown ==
    Resting => \A i \in Actives : i \in DOMAIN exported /\ exported[i] = actives[i]

\* A call of one caller that succeeds leaves the announced properties true; an
\* error announces nothing, whatever was done before.
SuccessIsTold ==
    [][\A c \in Clients :
           calls[c].pc \notin {"idle", "check", "connect", "down"} /\ At(c, "idle")'
           => told' = Facts']_vars

\* The tables are what the backends say, and so is what was announced.  Every
\* pass takes each object off the bus for a moment and puts it there again.
Settled ==
    /\ actives = [i \in up |-> Source[i]]
    /\ \A i \in Actives : \/ i \in DOMAIN exported /\ exported[i] = actives[i]
                          \/ SyncAt("show") /\ sync.item = i
    /\ told.active = Actives

\* Once the clients and the links come to rest, the synchronisation repairs what
\* their races left: records without objects, objects that show another profile,
\* announcements that crossed.
Heals == <>[][FALSE]_<<up, calls>> => <>[]Settled
=============================================================================

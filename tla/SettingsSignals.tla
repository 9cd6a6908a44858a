--------------------------- MODULE SettingsSignals ---------------------------
(***************************************************************************)
(* SettingsSignals: what the clients are told about the list of profiles,  *)
(* by the PropertiesChanged of Settings and by the InterfacesAdded and     *)
(* InterfacesRemoved of the object manager (settings.rs,                   *)
(* settings_connection.rs, network_manager/mod.rs, device/mod.rs, lib.rs). *)
(*                                                                         *)
(* Every handler tells after it has done, in steps of its own, so the      *)
(* signals of two tasks may cross.  Module ProfileStore has the files and  *)
(* the contents of the profiles, module BackendSync the rest of a          *)
(* synchronisation; here a profile is a path and the backend source, if    *)
(* any, that it comes from.                                                *)
(***************************************************************************)
EXTENDS Integers, FiniteSets

CONSTANTS
    Clients,    \* callers; each has at most one call in flight
    Poller,     \* the task of the polling loop
    Polling,    \* sync_enabled of the configuration
    Links,      \* known networks and links, each the source of a profile
    User,       \* no source: the profile of a client or of a file
    Nothing,    \* no checkpoint
    Ops,        \* methods the clients of this instance call
    MaxChanges  \* bound: how many calls begin and how often a link changes

OpNames == {"add", "addAndActivate", "edit", "delete", "load", "reload", "hostname",
            "deviceDelete", "checkpoint", "rollback"}
Tasks == Clients \cup {Poller}

ASSUME SignalsConstants ==
    /\ Poller \notin Clients /\ Polling \in BOOLEAN
    /\ IsFiniteSet(Links) /\ User \notin Links
    /\ Ops \subseteq OpNames
    /\ MaxChanges \in Nat

VARIABLES
    present,   \* what the backends report
    changes,   \* calls that have begun and changes of links so far
    table,     \* RuntimeState.connections: path -> source
    nextPath,  \* RuntimeState.next_settings_id
    exported,  \* paths of the SettingsConnection objects
    saved,     \* the profiles of the last checkpoint
    told,      \* Connections of the last PropertiesChanged
    known,     \* the objects of a client that follows the object manager
    withdrawn, \* history: paths that were taken off the bus while not on it
    tasks      \* the callers' tasks and the polling loop

environment == <<present, changes>>
vars == <<environment, table, nextPath, exported, saved, told, known, withdrawn,
          tasks>>

-----------------------------------------------------------------------------
Listed == DOMAIN table
Put(f, p, x) == [q \in DOMAIN f \cup {p} |-> IF q = p THEN x ELSE f[q]]
Without(f, p) == [q \in DOMAIN f \ {p} |-> f[q]]
SourcesOf(p) == {q \in Listed : table[q] = p}

\* path, source: of the profile in hand; todo: paths left to remove; seen: what
\* the backends answered; links: those left to look at; list: the Connections
\* that were read for the next PropertiesChanged.
Idle == [op |-> "none", pc |-> "idle", path |-> 0, source |-> User, todo |-> {},
         seen |-> {}, links |-> {}, list |-> {}]

\* start_service exports and records a profile for everything the backends report.
Init ==
    /\ present \in SUBSET Links
    /\ changes = 0
    /\ nextPath = 1 + Cardinality(present)
    /\ table \in {t \in [1..Cardinality(present) -> present] :
                      \A l \in present : \E p \in DOMAIN t : t[p] = l}
    /\ exported = Listed
    /\ saved = Nothing
    /\ told = Listed
    /\ known = Listed
    /\ withdrawn = {}
    /\ tasks = [t \in Tasks |-> Idle]

At(t, pc) == tasks[t].pc = pc
Op(t) == tasks[t].op
Path(t) == tasks[t].path
Goto(t, pc) == tasks' = [tasks EXCEPT ![t].pc = pc]
\* The profile in hand is done with.
Done(t, pc) == tasks' = [tasks EXCEPT ![t].pc = pc, ![t].path = 0, ![t].source = User]
Return(t) == tasks' = [tasks EXCEPT ![t] = Idle]

MayCall(c, op) == /\ op \in Ops /\ At(c, "idle")
                  /\ changes < MaxChanges /\ changes' = changes + 1
Begin(c, op, pc, p) ==
    tasks' = [tasks EXCEPT ![c] = [Idle EXCEPT !.op = op, !.pc = pc, !.path = p]]

-----------------------------------------------------------------------------
(* The calls.  What they do with files, and whether they fail there, is    *)
(* left to ProfileStore: a call that ends early has told nothing.          *)

\* AddConnection(2), AddConnectionUnsaved and AddAndActivateConnection(2)
Add(c) ==
    /\ \E op \in {"add", "addAndActivate"} : MayCall(c, op) /\ Begin(c, op, "insert", nextPath)
    /\ nextPath' = nextPath + 1
    /\ UNCHANGED <<present, table, exported, withdrawn, saved, told, known>>

\* Update, UpdateUnsaved, Update2, Save, ClearSecrets, Reapply, Autoconnect
Edit(c) ==
    /\ MayCall(c, "edit")
    /\ \E p \in exported \cap Listed : Begin(c, "edit", "apply", p)
    /\ UNCHANGED <<present, table, nextPath, exported, withdrawn, saved, told, known>>

Delete(c) ==
    /\ MayCall(c, "delete")
    /\ \E p \in exported \cap Listed : Begin(c, "delete", "remove", p)
    /\ UNCHANGED <<present, table, nextPath, exported, withdrawn, saved, told, known>>

\* Device.Delete, once the link is gone: the profiles of its interface go too.  It
\* announces none of it.
DeviceDelete(c) ==
    /\ MayCall(c, "deviceDelete")
    /\ \E S \in SUBSET Listed :
           tasks' = [tasks EXCEPT ![c] = [Idle EXCEPT !.op = "deviceDelete", !.pc = "sweep",
                                                      !.todo = S]]
    /\ UNCHANGED <<present, table, nextPath, exported, withdrawn, saved, told, known>>

\* LoadConnections, and ReloadConnections, of at most one file that matters: it is
\* new, or the profile is there, or nothing can be read.
Load(c) ==
    /\ \E op \in {"load", "reload"} :
           /\ MayCall(c, op)
           /\ \/ Begin(c, op, "insert", nextPath) /\ nextPath' = nextPath + 1
              \/ /\ \E p \in SourcesOf(User) : Begin(c, op, "apply", p)
                 /\ UNCHANGED nextPath
              \/ Begin(c, op, "list", 0) /\ UNCHANGED nextPath
    /\ UNCHANGED <<present, table, exported, withdrawn, saved, told, known>>

\* The hostname is announced together with the list.
SaveHostname(c) ==
    /\ MayCall(c, "hostname")
    /\ Begin(c, "hostname", "list", 0)
    /\ UNCHANGED <<present, table, nextPath, exported, withdrawn, saved, told, known>>

\* The profiles of the devices that the checkpoint names
Checkpoint(c) ==
    /\ MayCall(c, "checkpoint")
    /\ \E S \in SUBSET Listed : saved' = [p \in S |-> table[p]]
    /\ UNCHANGED <<present, table, nextPath, exported, withdrawn, told, known, tasks>>

\* Nothing of Settings is announced, and no object comes or goes.
Rollback(c) ==
    /\ MayCall(c, "rollback")
    /\ saved # Nothing
    /\ table' = saved
    /\ saved' = Nothing
    /\ UNCHANGED <<present, nextPath, exported, withdrawn, told, known, tasks>>

-----------------------------------------------------------------------------
(* Adding a profile: of a call or of a synchronisation                     *)

Insert(t) ==
    /\ At(t, "insert")
    /\ table' = Put(table, Path(t), tasks[t].source)
    /\ Goto(t, "export")
    /\ UNCHANGED <<environment, nextPath, exported, withdrawn, saved, told, known>>

Export(t) ==
    /\ At(t, "export")
    /\ exported' = exported \cup {Path(t)}
    /\ Goto(t, "tellAdded")
    /\ UNCHANGED <<environment, table, nextPath, withdrawn, saved, told, known>>

\* Mutant: the profiles of files are not announced.
TellAddedOfClients(t) ==
    /\ At(t, "tellAdded")
    /\ known' = IF Op(t) \in {"load", "reload"} THEN known ELSE known \cup {Path(t)}
    /\ CASE Op(t) = "addAndActivate" -> Done(t, "activate")
         [] Op(t) = "sync" -> Done(t, "links")
         [] OTHER -> Done(t, "list")
    /\ UNCHANGED <<environment, table, nextPath, exported, withdrawn, saved, told>>

\* emit_object_added
TellAdded(t) ==
    /\ At(t, "tellAdded")
    /\ known' = known \cup {Path(t)}
    /\ CASE Op(t) = "addAndActivate" -> Done(t, "activate")
         [] Op(t) = "sync" -> Done(t, "links")
         [] OTHER -> Done(t, "list")
    /\ UNCHANGED <<environment, table, nextPath, exported, withdrawn, saved, told>>

\* An activation that fails leaves the new profile, and the list unannounced.
Activate(t) ==
    /\ At(t, "activate")
    /\ Goto(t, "list") \/ Return(t)
    /\ UNCHANGED <<environment, table, nextPath, exported, withdrawn, saved, told, known>>

\* An import of a profile that has gone meanwhile goes on.
Apply(t) ==
    /\ At(t, "apply")
    /\ IF Op(t) = "edit" /\ Path(t) \notin Listed THEN Return(t) ELSE Done(t, "list")
    /\ UNCHANGED <<environment, table, nextPath, exported, withdrawn, saved, told, known>>

-----------------------------------------------------------------------------
(* Removing a profile.  Only Delete minds if record or object have gone.   *)

Remove(t) ==
    /\ At(t, "remove")
    /\ table' = Without(table, Path(t))
    /\ IF Op(t) = "delete" /\ Path(t) \notin Listed THEN Return(t) ELSE Goto(t, "unexport")
    /\ UNCHANGED <<environment, nextPath, exported, withdrawn, saved, told, known>>

Unexport(t) ==
    /\ At(t, "unexport")
    /\ exported' = exported \ {Path(t)}
    /\ withdrawn' = withdrawn \cup ({Path(t)} \ exported)
    /\ CASE Op(t) = "delete" /\ Path(t) \notin exported -> Return(t)
         [] Op(t) = "deviceDelete" -> Done(t, "sweep")
         [] OTHER -> Goto(t, "tellRemoved")
    /\ UNCHANGED <<environment, table, nextPath, saved, told, known>>

\* Mutant: removed profiles of the backends are not announced.
TellRemovedOfUsers(t) ==
    /\ At(t, "tellRemoved")
    /\ known' = IF Op(t) = "sync" THEN known ELSE known \ {Path(t)}
    /\ Done(t, IF Op(t) = "delete" THEN "list" ELSE "sweep")
    /\ UNCHANGED <<environment, table, nextPath, exported, withdrawn, saved, told>>

\* emit_object_removed
TellRemoved(t) ==
    /\ At(t, "tellRemoved")
    /\ known' = known \ {Path(t)}
    /\ Done(t, IF Op(t) = "delete" THEN "list" ELSE "sweep")
    /\ UNCHANGED <<environment, table, nextPath, exported, withdrawn, saved, told>>

\* prune_missing_user_connections: of the files found, some profiles have none.
Prune(t) ==
    /\ At(t, "prune")
    /\ \E S \in SUBSET SourcesOf(User) :
           tasks' = [tasks EXCEPT ![t].pc = "sweep", ![t].todo = S]
    /\ UNCHANGED <<environment, table, nextPath, exported, withdrawn, saved, told, known>>

Sweep(t) ==
    /\ At(t, "sweep")
    /\ \/ /\ tasks[t].todo = {}
          /\ CASE Op(t) = "reload" -> Goto(t, "ask")
               [] Op(t) = "deviceDelete" -> Return(t)
               [] OTHER -> Goto(t, "list")
       \/ \E p \in tasks[t].todo :
              tasks' = [tasks EXCEPT ![t].pc = "remove", ![t].path = p, ![t].todo = @ \ {p}]
    /\ UNCHANGED <<environment, table, nextPath, exported, withdrawn, saved, told, known>>

-----------------------------------------------------------------------------
(* A synchronisation: of the polling loop, or at the end of a reload       *)

Ask(t) ==
    /\ \/ t = Poller /\ Polling /\ At(t, "idle")
       \/ At(t, "ask")
    /\ tasks' = [tasks EXCEPT ![t] = [Idle EXCEPT !.op = "sync", !.pc = "links",
                                                  !.seen = present, !.links = present]]
    /\ UNCHANGED <<environment, table, nextPath, exported, withdrawn, saved, told, known>>

\* ReloadConnections returns false.
AskFails(t) ==
    /\ At(t, "ask")
    /\ Return(t)
    /\ UNCHANGED <<environment, table, nextPath, exported, withdrawn, saved, told, known>>

Sync(t) ==
    /\ At(t, "links")
    /\ \/ /\ tasks[t].links = {}
          /\ tasks' = [tasks EXCEPT ![t].pc = "sweep", ![t].seen = {},
                 ![t].todo = {p \in Listed : table[p] \in Links \ tasks[t].seen}]
          /\ UNCHANGED nextPath
       \/ \E l \in tasks[t].links :
              IF SourcesOf(l) # {}
              THEN /\ tasks' = [tasks EXCEPT ![t].links = @ \ {l}]
                   /\ UNCHANGED nextPath
              ELSE /\ tasks' = [tasks EXCEPT ![t].links = @ \ {l}, ![t].pc = "insert",
                                             ![t].path = nextPath, ![t].source = l]
                   /\ nextPath' = nextPath + 1
    /\ UNCHANGED <<environment, table, exported, withdrawn, saved, told, known>>

-----------------------------------------------------------------------------
(* emit_settings_changed: the list is read, then the signal is sent        *)

List(t) ==
    /\ At(t, "list")
    /\ tasks' = [tasks EXCEPT ![t].pc = "send", ![t].list = Listed]
    /\ UNCHANGED <<environment, table, nextPath, exported, withdrawn, saved, told, known>>

\* Mutant: a synchronisation does not announce the list.
SendOfCalls(t) ==
    /\ At(t, "send")
    /\ told' = IF Op(t) = "sync" THEN told ELSE tasks[t].list
    /\ \/ Return(t)
       \/ /\ Op(t) = "reload"
          /\ tasks' = [tasks EXCEPT ![t] = [Idle EXCEPT !.op = "reload", !.pc = "prune"]]
    /\ UNCHANGED <<environment, table, nextPath, exported, withdrawn, saved, known>>

\* A reload whose imports have all succeeded goes on.
Send(t) ==
    /\ At(t, "send")
    /\ told' = tasks[t].list
    /\ \/ Return(t)
       \/ /\ Op(t) = "reload"
          /\ tasks' = [tasks EXCEPT ![t] = [Idle EXCEPT !.op = "reload", !.pc = "prune"]]
    /\ UNCHANGED <<environment, table, nextPath, exported, withdrawn, saved, known>>

Change ==
    /\ changes < MaxChanges /\ changes' = changes + 1
    /\ \E l \in Links : present' = IF l \in present THEN present \ {l} ELSE present \cup {l}
    /\ UNCHANGED <<table, nextPath, exported, withdrawn, saved, told, known, tasks>>

-----------------------------------------------------------------------------
Request(c) == \/ Add(c) \/ Edit(c) \/ Delete(c) \/ DeviceDelete(c) \/ Load(c)
              \/ SaveHostname(c) \/ Checkpoint(c) \/ Rollback(c)
Step(t) == \/ Insert(t) \/ Export(t) \/ TellAdded(t) \/ Activate(t) \/ Apply(t)
           \/ Remove(t) \/ Unexport(t) \/ TellRemoved(t) \/ Prune(t) \/ Sweep(t)
           \/ Ask(t) \/ AskFails(t) \/ Sync(t) \/ List(t) \/ Send(t)

Next == (\E c \in Clients : Request(c)) \/ (\E t \in Tasks : Step(t)) \/ Change

Spec == Init /\ [][Next]_vars

\* Every task that has begun goes on, and the polling loop begins again.
FairSpec == Spec /\ \A t \in Tasks : WF_vars(Step(t))

-----------------------------------------------------------------------------
Pcs == {"idle", "insert", "export", "tellAdded", "activate", "apply", "remove", "unexport",
        "tellRemoved", "prune", "sweep", "ask", "links", "list", "send"}
IsTable(f) == DOMAIN f \subseteq 1..(nextPath - 1) /\ \A p \in DOMAIN f : f[p] \in Links \cup {User}

\* The variables have the types of the code, and no path is in use before
\* next_connection_path has given it out.
TypeOK ==
    /\ present \subseteq Links /\ changes \in 0..MaxChanges /\ nextPath \in Nat \ {0}
    /\ IsTable(table) /\ (saved = Nothing \/ IsTable(saved))
    /\ \A S \in {exported, told, known, withdrawn} : S \subseteq 1..(nextPath - 1)
    /\ \A t \in Tasks :
           /\ tasks[t].pc \in Pcs /\ tasks[t].op \in OpNames \cup {"none", "sync"}
           /\ tasks[t].path \in 0..(nextPath - 1) /\ tasks[t].source \in Links \cup {User}
           /\ tasks[t].todo \cup tasks[t].list \subseteq 1..(nextPath - 1)
           /\ tasks[t].seen \cup tasks[t].links \subseteq Links

\* An InterfacesAdded is never lost to a race: a registered object is known to the
\* clients, or whoever registered it is about to announce it.  The exception is an
\* object that somebody took away before it was there: a reload or a synchronisation
\* finds a profile in the table before the task that adds it has registered it, and
\* announces its end last.
NoneMissed ==
    \A p \in exported :
        \/ p \in known \cup withdrawn
        \/ \E t \in Tasks : At(t, "tellAdded") /\ Path(t) = p

\* An object that the clients take for real and that nobody will take back
Phantom(p) == /\ p \in known \ exported
              /\ ~\E t \in Tasks : At(t, "tellRemoved") /\ Path(t) = p

\* Two things only leave the clients with an object that does not exist: the silent
\* Device.Delete, and an announcement that was overtaken, by somebody who took the
\* object away first; the profile may be back by then, if a rollback restored it.
OnlyLateTellersMislead ==
    [][\A p \in known' : Phantom(p)' /\ ~Phantom(p)
           => \E t \in Tasks :
                  /\ Path(t) = p
                  /\ \/ At(t, "tellAdded") /\ p \notin exported
                     \/ At(t, "unexport") /\ Op(t) = "deviceDelete"]_vars

\* Signals of two tasks may cross and leave an older list announced, and a
\* rollback announces none: once calls and links come to rest, polling makes up
\* for all of it.
ToldInTheEnd == <>[][FALSE]_changes => <>[](told = Listed)
=============================================================================

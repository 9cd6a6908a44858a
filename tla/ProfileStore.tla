--------------------------- MODULE ProfileStore ---------------------------
(***************************************************************************)
(* The settings store of nm-dbus-proxy-rs: the connection table of         *)
(* `Runtime`, the profile files of iwd and systemd-networkd, the           *)
(* SettingsConnection objects on the bus, and the D-Bus methods that move  *)
(* profiles between the three (settings.rs, settings_connection.rs,        *)
(* persistence.rs and the profile part of device/mod.rs).                  *)
(*                                                                         *)
(* zbus runs each method call as a task of its own, so a handler is a      *)
(* sequence of steps: one step per acquisition of the Runtime mutex, per   *)
(* file operation and per object-server call.  calls[c] is the task that   *)
(* answers the call of client c.  A handler that returns an error simply   *)
(* ends: nothing it did is undone.                                         *)
(***************************************************************************)
EXTENDS Integers, FiniteSets

CONSTANTS
    Clients,      \* callers; each has at most one call in flight
    Uuids,        \* connection.uuid values chosen by clients and backends
    NoUuid,       \* the settings of an Update carry no connection.uuid
    Ssids, NoSsid,
    Bodies,       \* what a file carries and the importer reads back: the
                  \* passphrase of a Wi-Fi profile, Name= of a networkd one
    NoBody,       \* no passphrase (an open network), no interface name
    Stems,        \* names of files that an administrator wrote
    NoFile,       \* the empty `filename` of a profile that is on no disk
    WifiIface,    \* the interface of every Wi-Fi profile
    Startup,      \* profiles of the backends when the service starts
    Profiles,     \* settings that clients submit
    Ops,          \* methods the clients of this instance call
    MaxPath,      \* bound: no call allocates a settings path above it
    MaxVersion    \* bound: no call begins once VersionId has reached it

Kinds == {"wifi", "wired", "netdev"}
Exts == {"psk", "open", "network", "netdev"}

-----------------------------------------------------------------------------
(* Names.  A file is <<stem, extension>>; the extension tells the directory. *)

PlainFiles == (Ssids \cup Uuids \cup Stems) \X Exts

ImportedUuid(f) == <<"imported", f>>
ImportedUuids == { ImportedUuid(f) : f \in PlainFiles }

\* The uuid of an imported profile contains the path of its file, slashes
\* included, so a networkd file named after it lies in a subdirectory, which
\* the (flat) directory listing does not show.
NestedFiles == ImportedUuids \X {"network", "netdev"}
Files == PlainFiles \cup NestedFiles

Settings == [uuid: Uuids \cup ImportedUuids \cup {NoUuid}, kind: Kinds,
             ssid: Ssids \cup Uuids \cup Stems \cup {NoSsid},
             body: Bodies \cup {NoBody}]

Record == [path: Nat, uuid: Uuids \cup ImportedUuids, kind: Kinds,
           ssid: Ssids \cup Uuids \cup Stems \cup {NoSsid},
           body: Bodies \cup {NoBody}, origin: {"user", "backend"},
           unsaved: BOOLEAN, filename: Files \cup {NoFile}]

MethodNames == {"add", "update", "updateUnsaved", "update2", "save",
                "clearSecrets", "delete", "load", "reload", "reapply",
                "autoconnect", "deviceDelete", "restart", "admin"}

ASSUME ConstantsAssumption ==
    /\ NoFile \notin Files
    /\ MaxPath \in Nat /\ MaxVersion \in Nat
    /\ Ops \subseteq MethodNames
    /\ Profiles \subseteq { s \in Settings : s.uuid \notin ImportedUuids }
    /\ Startup \subseteq Record /\ \A r \in Startup : r.origin = "backend"
    /\ \A r, s \in Startup : r.path = s.path => r = s
    /\ \E n \in 0..MaxPath : { r.path : r \in Startup } = 1..n

FileOf(r) ==
    CASE r.kind = "wifi"   -> <<r.ssid, IF r.body = NoBody THEN "open" ELSE "psk">>
      [] r.kind = "wired"  -> <<r.uuid, "network">>
      [] r.kind = "netdev" -> <<r.uuid, "netdev">>

\* persist_connection refuses a Wi-Fi profile without an SSID and a netdev
\* without an interface name
Writable(r) == /\ r.kind = "wifi" => r.ssid # NoSsid
               /\ r.kind = "netdev" => r.body # NoBody

InterfaceOf(r) == IF r.kind = "wifi" THEN WifiIface ELSE r.body

\* A networkd .netdev file is not told apart from an iwd file.
Imported(f, body) ==
    [path     |-> 0,
     uuid     |-> ImportedUuid(f),
     kind     |-> IF f[2] = "network" THEN "wired" ELSE "wifi",
     ssid     |-> IF f[2] = "network" THEN NoSsid ELSE f[1],
     body     |-> IF f[2] = "netdev" THEN NoBody ELSE body,
     origin   |-> "user",
     unsaved  |-> FALSE,
     filename |-> f]

\* Mutant: settings without a uuid are taken over as they are.
TakesSettingsWhole(r, s) ==
    [r EXCEPT !.uuid = s.uuid, !.kind = s.kind, !.ssid = s.ssid, !.body = s.body]

WithSettings(r, s) ==
    [r EXCEPT !.uuid = IF s.uuid = NoUuid THEN r.uuid ELSE s.uuid,
              !.kind = s.kind, !.ssid = s.ssid, !.body = s.body]

-----------------------------------------------------------------------------
VARIABLES
    connections,     \* RuntimeState.connections
    nextSettingsId,  \* RuntimeState.next_settings_id
    versionId,       \* RuntimeState.version_id
    exported,        \* paths of the registered SettingsConnection objects
    files,           \* profile files on disk: name -> body
    calls            \* the tasks

vars == <<connections, nextSettingsId, versionId, exported, files, calls>>

Blank == [path |-> 0, uuid |-> NoUuid, kind |-> "wired", ssid |-> NoSsid,
          body |-> NoBody, origin |-> "user", unsaved |-> TRUE,
          filename |-> NoFile]

\* rec: the record the task is building or works on; old: the file name it
\* read; ver: the version-id it was asked to check (0: none); todo, found:
\* files left to import and all files discovered; stale: paths of the records
\* left to visit; ok: no import has failed
Idle == [op |-> "none", pc |-> "idle", rec |-> Blank, old |-> NoFile, ver |-> 0,
         todo |-> {}, found |-> {}, stale |-> {}, ok |-> TRUE]

PathsOf(cs) == { r.path : r \in cs }
Lookup(p) == CHOOSE r \in connections : r.path = p
NextIdAfter(cs) == IF cs = {} THEN 1
                   ELSE 1 + (CHOOSE p \in PathsOf(cs) : \A q \in PathsOf(cs) : q <= p)

Init ==
    /\ connections = Startup
    /\ nextSettingsId = NextIdAfter(Startup)
    /\ versionId = 1
    /\ exported = PathsOf(Startup)
    /\ files \in { [f \in S |-> NoBody] : S \in { {}, Stems \X {"network"} } }
    /\ calls = [c \in Clients |-> Idle]

-----------------------------------------------------------------------------
(* Steps shared by several handlers                                        *)

MayCall(c, op) == op \in Ops /\ calls[c].pc = "idle" /\ versionId < MaxVersion
At(c, pc) == calls[c].pc = pc
Goto(c, pc) == calls' = [calls EXCEPT ![c].pc = pc]
Return(c) == calls' = [calls EXCEPT ![c] = Idle]

\* Mutant: the next path is one above those in the table.
AllocateAfterTable(p) == /\ p <= MaxPath
                         /\ p = NextIdAfter(connections)
                         /\ nextSettingsId' = p + 1

Allocate(p) == /\ nextSettingsId <= MaxPath
               /\ p = nextSettingsId
               /\ nextSettingsId' = nextSettingsId + 1

Replace(p, r) == /\ connections' = { IF q.path = p THEN r ELSE q : q \in connections }
                 /\ versionId' = versionId + 1

\* Mutant: removing a record does not count as a change.
RemoveQuietly(p) ==
    /\ connections' = { q \in connections : q.path # p }
    /\ UNCHANGED versionId

RemoveRecord(p) ==
    /\ connections' = { q \in connections : q.path # p }
    /\ versionId' = IF p \in PathsOf(connections) THEN versionId + 1 ELSE versionId

WithoutFile(f) == [g \in DOMAIN files \ {f} |-> files[g]]
WithFile(f, body) == [g \in DOMAIN files \cup {f} |-> IF g = f THEN body ELSE files[g]]

\* pc of the first step of persist_prepared_connection
PersistStep(r) == IF r.unsaved THEN "apply" ELSE "write"

\* Mutant: the file of before is removed even when it is the one just written.
WriteFileThenUnlink(c) ==
    /\ At(c, "write")
    /\ Writable(calls[c].rec)
    /\ LET call == calls[c]
           f == FileOf(call.rec)
       IN  /\ files' = WithFile(f, call.rec.body)
           /\ calls' = [calls EXCEPT
                  ![c].rec.filename = f,
                  ![c].pc = CASE call.op = "add" -> "insert"
                              [] call.op # "add" /\ call.old = NoFile -> "apply"
                              [] OTHER -> "unlinkOld"]
    /\ UNCHANGED <<connections, nextSettingsId, versionId, exported>>

\* persist_connection succeeds: the file is there and the record names it.
\* Afterwards a new profile is inserted; an edited one first loses the file it
\* had under another name.
WriteFile(c) ==
    /\ At(c, "write")
    /\ Writable(calls[c].rec)
    /\ LET call == calls[c]
           f == FileOf(call.rec)
       IN  /\ files' = WithFile(f, call.rec.body)
           /\ calls' = [calls EXCEPT
                  ![c].rec.filename = f,
                  ![c].pc = CASE call.op = "add" -> "insert"
                              [] call.op # "add" /\ call.old \in {NoFile, f} -> "apply"
                              [] OTHER -> "unlinkOld"]
    /\ UNCHANGED <<connections, nextSettingsId, versionId, exported>>

\* persist_connection fails: before it opened the file, or in the middle of
\* fs::write, which truncates first.
WriteFails(c) ==
    /\ At(c, "write")
    /\ \/ UNCHANGED files
       \/ Writable(calls[c].rec) /\ files' = WithFile(FileOf(calls[c].rec), NoBody)
    /\ Return(c)
    /\ UNCHANGED <<connections, nextSettingsId, versionId, exported>>

UnlinkOld(c) ==
    /\ At(c, "unlinkOld")
    /\ \/ files' = WithoutFile(calls[c].old) /\ Goto(c, "apply")
       \/ calls[c].old \in DOMAIN files /\ UNCHANGED files /\ Return(c)
    /\ UNCHANGED <<connections, nextSettingsId, versionId, exported>>

\* apply_runtime_connection: the whole record read at the start of the call is
\* written back, or the call fails because the record is gone.
Apply(c) ==
    /\ At(c, "apply")
    /\ LET r == calls[c].rec IN
       \/ /\ r.path \in PathsOf(connections)
          /\ Replace(r.path, r)
          /\ IF calls[c].op = "autoconnect" THEN Goto(c, "nextAuto") ELSE Return(c)
       \/ /\ r.path \notin PathsOf(connections)
          /\ Return(c)
          /\ UNCHANGED <<connections, versionId>>
    /\ UNCHANGED <<nextSettingsId, exported, files>>

\* Mutant: only a profile that a client added gets an object.
InsertWithoutExport(c) ==
    /\ At(c, "insert")
    /\ connections' = connections \cup {calls[c].rec}
    /\ versionId' = versionId + 1
    /\ Goto(c, IF calls[c].op = "add" THEN "export" ELSE "import")
    /\ UNCHANGED <<nextSettingsId, exported, files>>

Insert(c) ==
    /\ At(c, "insert")
    /\ connections' = connections \cup {calls[c].rec}
    /\ versionId' = versionId + 1
    /\ Goto(c, "export")
    /\ UNCHANGED <<nextSettingsId, exported, files>>

Export(c) ==
    /\ At(c, "export")
    /\ exported' = exported \cup {calls[c].rec.path}
    /\ IF calls[c].op = "add" THEN Return(c) ELSE Goto(c, "import")
    /\ UNCHANGED <<connections, nextSettingsId, versionId, files>>

-----------------------------------------------------------------------------
(* AddConnection, AddConnectionUnsaved, AddConnection2                     *)

\* The path is taken before anything can fail.  Whether the uuid is already in
\* use is not asked.
AddConnection(c) ==
    /\ MayCall(c, "add")
    /\ \E s \in { t \in Profiles : t.uuid # NoUuid }, unsaved \in BOOLEAN, p \in 1..MaxPath :
           /\ Allocate(p)
           /\ calls' = [calls EXCEPT ![c] = [Idle EXCEPT
                  !.op = "add",
                  !.pc = IF unsaved THEN "insert" ELSE "write",
                  !.rec = [WithSettings(Blank, s) EXCEPT !.path = p, !.unsaved = unsaved]]]
    /\ UNCHANGED <<connections, versionId, exported, files>>

-----------------------------------------------------------------------------
(* The methods of a SettingsConnection that edit its profile.  The bus only *)
(* routes a call to a registered object; the first lock reads the record.   *)

StartEdit(c, op, p, r, ver) ==
    calls' = [calls EXCEPT ![c] = [Idle EXCEPT
        !.op = op, !.pc = IF ver = 0 THEN PersistStep(r) ELSE "check", !.rec = r,
        !.old = Lookup(p).filename, !.ver = ver]]

Editable == exported \cap PathsOf(connections)

Update(c) ==
    /\ MayCall(c, "update")
    /\ \E p \in Editable, s \in Profiles :
           StartEdit(c, "update", p, WithSettings(Lookup(p), s), 0)
    /\ UNCHANGED <<connections, nextSettingsId, versionId, exported, files>>

UpdateUnsaved(c) ==
    /\ MayCall(c, "updateUnsaved")
    /\ \E p \in Editable, s \in Profiles :
           StartEdit(c, "updateUnsaved", p,
                     [WithSettings(Lookup(p), s) EXCEPT !.unsaved = TRUE], 0)
    /\ UNCHANGED <<connections, nextSettingsId, versionId, exported, files>>

\* flags: to disk, in memory, or neither.  The caller may name the version-id it
\* knows; an older one would be refused at once.
Update2(c) ==
    /\ MayCall(c, "update2")
    /\ \E p \in Editable, s \in Profiles, ver \in {0, versionId} :
       \E unsaved \in BOOLEAN :
           StartEdit(c, "update2", p,
                     [WithSettings(Lookup(p), s) EXCEPT !.unsaved = unsaved], ver)
    /\ UNCHANGED <<connections, nextSettingsId, versionId, exported, files>>

\* The version-id is read after the record, under a lock of its own.
CheckVersion(c) ==
    /\ At(c, "check")
    /\ IF calls[c].ver = versionId THEN Goto(c, PersistStep(calls[c].rec)) ELSE Return(c)
    /\ UNCHANGED <<connections, nextSettingsId, versionId, exported, files>>

Save(c) ==
    /\ MayCall(c, "save")
    /\ \E p \in Editable :
           StartEdit(c, "save", p, [Lookup(p) EXCEPT !.unsaved = FALSE], 0)
    /\ UNCHANGED <<connections, nextSettingsId, versionId, exported, files>>

\* Drops 802-11-wireless-security, and with it the passphrase.
ClearSecrets(c) ==
    /\ MayCall(c, "clearSecrets")
    /\ \E p \in Editable :
           LET r == Lookup(p)
           IN  StartEdit(c, "clearSecrets", p,
                   [r EXCEPT !.body = IF r.kind = "wifi" THEN NoBody ELSE r.body], 0)
    /\ UNCHANGED <<connections, nextSettingsId, versionId, exported, files>>

-----------------------------------------------------------------------------
(* Delete                                                                  *)

Delete(c) ==
    /\ MayCall(c, "delete")
    /\ \E p \in Editable :
           calls' = [calls EXCEPT ![c] = [Idle EXCEPT
               !.op = "delete", !.pc = "unlink", !.rec = Lookup(p)]]
    /\ UNCHANGED <<connections, nextSettingsId, versionId, exported, files>>

DeleteFile(c) ==
    /\ At(c, "unlink")
    /\ LET f == calls[c].rec.filename IN
       \/ files' = WithoutFile(f) /\ Goto(c, "remove")
       \/ f \in DOMAIN files /\ UNCHANGED files /\ Return(c)
    /\ UNCHANGED <<connections, nextSettingsId, versionId, exported>>

\* Mutant: the object stays when the record goes.
DeleteRecordOnly(c) ==
    /\ At(c, "remove")
    /\ RemoveRecord(calls[c].rec.path)
    /\ Return(c)
    /\ UNCHANGED <<nextSettingsId, exported, files>>

DeleteRecord(c) ==
    /\ At(c, "remove")
    /\ LET p == calls[c].rec.path IN
       /\ RemoveRecord(p)
       /\ IF p \in PathsOf(connections) THEN Goto(c, "unexport") ELSE Return(c)
    /\ UNCHANGED <<nextSettingsId, exported, files>>

Unexport(c) ==
    /\ At(c, "unexport")
    /\ exported' = exported \ {calls[c].rec.path}
    /\ IF calls[c].op = "delete" THEN Return(c) ELSE Goto(c, "nextStale")
    /\ UNCHANGED <<connections, nextSettingsId, versionId, files>>

-----------------------------------------------------------------------------
(* LoadConnections and ReloadConnections                                   *)

StartImport(c, op, fs) ==
    calls' = [calls EXCEPT ![c] = [Idle EXCEPT
        !.op = op, !.pc = "import", !.todo = fs, !.found = fs]]

Discovered == DOMAIN files \cap PlainFiles

\* bound: an import begins only while there is a path for each of its files
Room == nextSettingsId + Cardinality(Discovered) <= MaxPath + 1

LoadConnections(c) ==
    /\ MayCall(c, "load") /\ Room
    /\ \E fs \in {Discovered} \cup { {f} : f \in Discovered } : StartImport(c, "load", fs)
    /\ UNCHANGED <<connections, nextSettingsId, versionId, exported, files>>

ReloadConnections(c) ==
    /\ MayCall(c, "reload") /\ Room
    /\ StartImport(c, "reload", Discovered)
    /\ UNCHANGED <<connections, nextSettingsId, versionId, exported, files>>

\* load_connection_from_path fails if the file is gone or cannot be read or parsed
ImportFile(c) ==
    /\ At(c, "import")
    /\ \E f \in calls[c].todo :
           LET left == [calls[c] EXCEPT !.todo = @ \ {f}] IN
           \/ /\ f \in DOMAIN files
              /\ calls' = [calls EXCEPT ![c] =
                     [left EXCEPT !.rec = Imported(f, files[f]), !.pc = "lookup"]]
           \/ calls' = [calls EXCEPT ![c] = [left EXCEPT !.ok = FALSE]]
    /\ UNCHANGED <<connections, nextSettingsId, versionId, exported, files>>

\* connection_by_uuid: a profile that was imported from this file before keeps
\* its path, any other gets the next one
ImportLookup(c) ==
    /\ At(c, "lookup")
    /\ LET same == { r \in connections : r.uuid = calls[c].rec.uuid } IN
       \/ /\ \E r \in same :
                calls' = [calls EXCEPT ![c].rec.path = r.path, ![c].pc = "overwrite"]
          /\ UNCHANGED nextSettingsId
       \/ /\ same = {}
          /\ \E p \in 1..MaxPath :
                Allocate(p) /\ calls' = [calls EXCEPT ![c].rec.path = p, ![c].pc = "insert"]
    /\ UNCHANGED <<connections, versionId, exported, files>>

\* Mutant: a record that is gone since the lookup is inserted again.
ImportUpsert(c) ==
    /\ At(c, "overwrite")
    /\ LET r == calls[c].rec IN
       connections' = { q \in connections : q.path # r.path } \cup {r}
    /\ versionId' = versionId + 1
    /\ Goto(c, "import")
    /\ UNCHANGED <<nextSettingsId, exported, files>>

ImportOverwrite(c) ==
    /\ At(c, "overwrite")
    /\ LET r == calls[c].rec IN
       IF r.path \in PathsOf(connections) THEN Replace(r.path, r)
                                          ELSE UNCHANGED <<connections, versionId>>
    /\ Goto(c, "import")
    /\ UNCHANGED <<nextSettingsId, exported, files>>

\* Mutant: the profiles that are only in memory are pruned, not the saved ones.
ImportDonePruneUnsaved(c) ==
    /\ At(c, "import")
    /\ calls[c].todo = {}
    /\ IF calls[c].op = "reload" /\ calls[c].ok
       THEN calls' = [calls EXCEPT
                ![c].stale = PathsOf({ r \in connections :
                    /\ r.origin = "user" /\ r.unsaved
                    /\ r.filename \notin calls[c].found \cup {NoFile} }),
                ![c].pc = "nextStale"]
       ELSE Return(c)
    /\ UNCHANGED <<connections, nextSettingsId, versionId, exported, files>>

\* prune_missing_user_connections selects, from the list of files made when
\* the call began, the profiles whose file is missing
ImportDone(c) ==
    /\ At(c, "import")
    /\ calls[c].todo = {}
    /\ IF calls[c].op = "reload" /\ calls[c].ok
       THEN calls' = [calls EXCEPT
                ![c].stale = PathsOf({ r \in connections :
                    /\ r.origin = "user" /\ ~r.unsaved
                    /\ r.filename \notin calls[c].found \cup {NoFile} }),
                ![c].pc = "nextStale"]
       ELSE Return(c)
    /\ UNCHANGED <<connections, nextSettingsId, versionId, exported, files>>

\* The loop over the selected paths, also that of Device.Delete.  What follows
\* it in ReloadConnections, sync_backends, is not part of this module.
RemoveStale(c) ==
    /\ At(c, "nextStale")
    /\ \E p \in calls[c].stale :
           /\ RemoveRecord(p)
           /\ calls' = [calls EXCEPT ![c].stale = @ \ {p}, ![c].rec.path = p,
                                     ![c].pc = "unexport"]
    /\ UNCHANGED <<nextSettingsId, exported, files>>

StaleDone(c) ==
    /\ At(c, "nextStale")
    /\ calls[c].stale = {}
    /\ Return(c)
    /\ UNCHANGED <<connections, nextSettingsId, versionId, exported, files>>

-----------------------------------------------------------------------------
(* The methods of a Device that change profiles (device/mod.rs)            *)

\* The record changes first; the file follows, if it can be written.
Reapply(c) ==
    /\ MayCall(c, "reapply")
    /\ \E p \in PathsOf(connections), s \in Profiles :
           /\ Replace(p, WithSettings(Lookup(p), s))
           /\ calls' = [calls EXCEPT ![c] = [Idle EXCEPT
                  !.op = "reapply", !.pc = "reread", !.rec.path = p]]
    /\ UNCHANGED <<nextSettingsId, exported, files>>

\* persist_runtime_connection reads the record again
Reread(c) ==
    /\ At(c, "reread")
    /\ LET p == calls[c].rec.path IN
       \/ /\ p \in PathsOf(connections)
          /\ calls' = [calls EXCEPT ![c].rec = Lookup(p), ![c].old = Lookup(p).filename,
                                    ![c].pc = PersistStep(Lookup(p))]
       \/ p \notin PathsOf(connections) /\ Return(c)
    /\ UNCHANGED <<connections, nextSettingsId, versionId, exported, files>>

\* NoBody stands for no interface and for Name=*: no device has it
Interfaces == { InterfaceOf(r) : r \in connections } \ {NoBody}
PathsForInterface(i) == PathsOf({ r \in connections : InterfaceOf(r) = i })

SetAutoconnect(c) ==
    /\ MayCall(c, "autoconnect")
    /\ \E i \in Interfaces :
           calls' = [calls EXCEPT ![c] = [Idle EXCEPT
               !.op = "autoconnect", !.pc = "nextAuto", !.stale = PathsForInterface(i)]]
    /\ UNCHANGED <<connections, nextSettingsId, versionId, exported, files>>

\* connection.autoconnect is no part of this model's records: what shows is
\* that the table changed
SetNextAutoconnect(c) ==
    /\ At(c, "nextAuto")
    /\ \E p \in calls[c].stale :
           /\ versionId' = IF p \in PathsOf(connections) THEN versionId + 1 ELSE versionId
           /\ calls' = [calls EXCEPT ![c].stale = @ \ {p}, ![c].rec.path = p,
                                     ![c].pc = "reread"]
    /\ UNCHANGED <<connections, nextSettingsId, exported, files>>

AutoconnectDone(c) ==
    /\ At(c, "nextAuto")
    /\ calls[c].stale = {}
    /\ Return(c)
    /\ UNCHANGED <<connections, nextSettingsId, versionId, exported, files>>

\* Once the link is gone its profiles are dropped, their files are not.
DeleteDevice(c) ==
    /\ MayCall(c, "deviceDelete")
    /\ \E i \in Interfaces :
           calls' = [calls EXCEPT ![c] = [Idle EXCEPT
               !.op = "deviceDelete", !.pc = "nextStale", !.stale = PathsForInterface(i)]]
    /\ UNCHANGED <<connections, nextSettingsId, versionId, exported, files>>

-----------------------------------------------------------------------------
(* The environment                                                         *)

\* The administrator, or iwd, writes or removes a file.
EditFiles ==
    /\ "admin" \in Ops
    /\ \/ \E f \in Stems \X {"network"}, body \in Bodies \cup {NoBody} :
              files' = WithFile(f, body)
       \/ \E f \in Discovered : files' = WithoutFile(f)
    /\ UNCHANGED <<connections, nextSettingsId, versionId, exported, calls>>

\* The service dies and starts again: only the files survive.
Restart ==
    /\ "restart" \in Ops
    /\ connections' = Startup
    /\ nextSettingsId' = NextIdAfter(Startup)
    /\ versionId' = 1
    /\ exported' = PathsOf(Startup)
    /\ calls' = [c \in Clients |-> Idle]
    /\ UNCHANGED files

-----------------------------------------------------------------------------
\* What a client may ask for
Request(c) ==
    \/ AddConnection(c)
    \/ Update(c) \/ UpdateUnsaved(c) \/ Update2(c) \/ Save(c) \/ ClearSecrets(c)
    \/ Delete(c)
    \/ LoadConnections(c) \/ ReloadConnections(c)
    \/ Reapply(c) \/ SetAutoconnect(c) \/ DeleteDevice(c)

\* What the task of a call does next
Step(c) ==
    \/ WriteFile(c) \/ WriteFails(c) \/ UnlinkOld(c) \/ Apply(c)
    \/ Insert(c) \/ Export(c) \/ CheckVersion(c)
    \/ DeleteFile(c) \/ DeleteRecord(c) \/ Unexport(c)
    \/ ImportFile(c) \/ ImportLookup(c) \/ ImportOverwrite(c) \/ ImportDone(c)
    \/ RemoveStale(c) \/ StaleDone(c)
    \/ Reread(c) \/ SetNextAutoconnect(c) \/ AutoconnectDone(c)

Next ==
    \/ \E c \in Clients : Request(c) \/ Step(c)
    \/ EditFiles
    \/ Restart

Spec == Init /\ [][Next]_vars

-----------------------------------------------------------------------------
Pcs == {"idle", "check", "write", "unlinkOld", "apply", "insert", "export", "unlink",
        "remove", "unexport", "import", "lookup", "overwrite", "nextStale",
        "reread", "nextAuto"}

Call == [op: MethodNames \cup {"none"}, pc: Pcs,
         rec: Record \cup [path: Nat, uuid: {NoUuid}, kind: Kinds, ssid: {NoSsid},
                           body: {NoBody}, origin: {"user"}, unsaved: BOOLEAN,
                           filename: {NoFile}],
         old: Files \cup {NoFile}, ver: Nat, todo: SUBSET PlainFiles,
         found: SUBSET PlainFiles, stale: SUBSET Nat, ok: BOOLEAN]

\* The table, the counters, the objects and every task have the types of the code.
TypeOK ==
    /\ connections \subseteq Record
    /\ nextSettingsId \in Nat \ {0}
    /\ versionId \in Nat \ {0}
    /\ exported \subseteq Nat
    /\ DOMAIN files \subseteq Files
    /\ \A f \in DOMAIN files : files[f] \in Bodies \cup {NoBody}
    /\ calls \in [Clients -> Call]

\* A settings path names one profile: no two records share one, every path in
\* use was handed out by next_connection_path, and no two tasks hold the same
\* new path (runtime.rs next_connection_path, add_connection).
PathsUnique ==
    /\ \A r, s \in connections : r.path = s.path => r = s
    /\ \A r \in connections : r.path < nextSettingsId
    /\ \A c \in Clients : calls[c].rec.path < nextSettingsId

\* Every profile in the table is reachable: it has its SettingsConnection
\* object, unless the task that inserted it is about to register it.
NoHiddenProfile ==
    \A r \in connections :
        r.path \in exported \/ \E c \in Clients : At(c, "export") /\ calls[c].rec.path = r.path

\* An object whose profile is gone, and which nobody is about to unregister
Ghost(p) ==
    /\ p \in exported /\ p \notin PathsOf(connections)
    /\ \A c \in Clients : At(c, "unexport") => calls[c].rec.path # p

\* Objects outlive their profiles in one way only: a profile is removed before
\* the task that added it has registered its object.
OnlyLateAddsLeaveGhosts ==
    [][\A p \in 1..(nextSettingsId - 1) : ~Ghost(p) /\ Ghost(p)' =>
          \E c \in Clients : calls[c].rec.path = p /\ Export(c)]_vars

Saved(r) == r.origin = "user" /\ ~r.unsaved /\ r.filename # NoFile
Unbacked(r) == Saved(r) /\ r.filename \notin DOMAIN files

\* The file that the task of c is about to unlink
Doomed(c) == CASE At(c, "unlink") -> calls[c].rec.filename
               [] At(c, "unlinkOld") -> calls[c].old
               [] OTHER -> NoFile

\* However far a call has come, whatever failed before and even if the service dies, a
\* saved profile has its file.  With one caller, and nobody else at the files, it can
\* only lose it to a call on another profile with the same file name (the same SSID or
\* the same uuid), to its own Delete, or when the file it is renamed to is written.
OnlySharersTakeFiles ==
    [][\A r \in connections' : Unbacked(r)' =>
           \/ \E q \in connections : q.path = r.path /\ Unbacked(q)
           \/ \E c \in Clients :
                  /\ Doomed(c) = r.filename
                  /\ \/ calls[c].rec.path # r.path
                     \/ calls[c].op = "delete"
                     \/ calls[c].rec.filename \in DOMAIN files']_vars

\* VersionId rises with every change of the table, so that a client that reads
\* the same VersionId twice has seen the same table (Update2 relies on it).
VersionBumped == [][connections' # connections => versionId' > versionId \/ Restart]_vars

\* The task of c has taken a path for a profile and not yet inserted it.
Pending(c) == At(c, "insert") \/ (At(c, "write") /\ calls[c].op = "add")

\* A path that was handed out and names nothing, now or soon
Retired(p) == /\ 0 < p /\ p < nextSettingsId
              /\ p \notin PathsOf(connections)
              /\ \A c \in Clients : Pending(c) => calls[c].rec.path # p

\* A path that a profile has left, or that a failed call took, is never used
\* again: a client that still holds it gets an error, not another profile.
PathsRetired ==
    [][\A p \in 1..(nextSettingsId - 1) : Retired(p) => Retired(p)' \/ Restart]_vars

\* When ReloadConnections is done, saved profiles and the files it discovered
\* are the same: every file has its profile and every saved profile its file.
ReloadMirrorsFiles ==
    [][\A c \in Clients : calls[c].op = "reload" /\ StaleDone(c) =>
          { r.filename : r \in { q \in connections : Saved(q) } } = calls[c].found]_vars

\* The file of a saved profile is one that ReloadConnections discovers: no
\* edit or save of a profile makes the next reload drop it.
SavedIsDiscoverable ==
    \A r \in connections : Saved(r) => r.filename \in PlainFiles
===========================================================================

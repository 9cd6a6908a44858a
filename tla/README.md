# A TLA+ verification of nm-dbus-proxy-rs

`nm-dbus-proxy` offers the D-Bus interface of NetworkManager on top of
systemd-networkd and iwd.  This directory models the part of it that keeps
state: what the methods of that interface do to the tables in memory, to the
profile files on disk and to the objects on the bus, when several callers, the
backends and the service's own tasks do so at the same time.

Paths below are relative to `src/src/` of the repository.

## 1. The system

### How it runs

One process.  Everything it knows is in `RuntimeState` (`runtime.rs`), behind one
`std::sync::Mutex`: every method of `Runtime` takes the lock, does its work and
releases it (`with_state`), so **each `Runtime` method is atomic and nothing
longer is**.  zbus answers every method call in a task of its own on tokio's
multi-threaded scheduler.  A handler is therefore a sequence of steps between
its locks, its file operations, its object-server calls and its calls to the
backends, and the steps of any two handlers interleave.  A handler that fails
returns an error and undoes nothing.

Besides the callers there are: a task that polls the backends every five
seconds, a task that follows their signals (both end in `sync_backends`,
`lib.rs`), and one timer task per checkpoint with a timeout.

### Parts

| part | state | operations | interacts with |
|---|---|---|---|
| Connection table and Settings API (`runtime.rs`, `network_manager/settings.rs`, `settings_connection.rs`) | `connections`, `next_settings_id`, `version_id`; the exported SettingsConnection objects | AddConnection(2, Unsaved), Update(2, Unsaved), Save, ClearSecrets, Delete, LoadConnections, ReloadConnections | files (writes them, then the table), bus (table, then objects and signals), sync |
| Profile files (`persistence.rs`) | the `.psk`, `.open`, `.network`, `.netdev` files | persist, delete, discover, load, snapshot, restore | Settings, devices, checkpoints, the administrator, iwd |
| Device methods (`network_manager/device/mod.rs`) | `device_managed` | Reapply, Autoconnect, Delete, Disconnect, Managed | table, files, activation |
| Checkpoints (`network_manager/mod.rs`, `checkpoint.rs`) | `checkpoints`, `next_checkpoint_id`, Checkpoint objects, timers | create, destroy, adjust, rollback, timeout | table, files, active connections |
| Activation (`network_manager/mod.rs`) | `active_connections`, ActiveConnection objects | Activate, AddAndActivate, Deactivate | iwd, networkd, global switches, sync |
| Global switches (`network_manager/mod.rs`) | `networking_enabled`, `sleeping`, `wireless_enabled` | Enable, Sleep, set WirelessEnabled | activation |
| Backend synchronisation (`lib.rs`) | all tables that mirror the backends | `sync_backends` | everything |
| Secret agents (`network_manager/agent_manager.rs`) | `registered_agents` | Register, Unregister, GetSecrets | settings, activation |
| Device interfaces (`device/specialized.rs`, `lib.rs`) | `devices`; which interfaces an object has, configuration and P2P peer objects | `sync_device_object`, `unregister_device_objects` | sync |
| Access points (`access_point.rs`, `device/wireless.rs`, `lib.rs`) | `access_points`, `wireless_devices`, AccessPoint objects | `sync_backends`, RequestScan | iwd, sync |
| Object paths (`lib.rs`) | none | `object_path_segment` | all |
| Stubs, I/O, start-up (`vpn_*.rs`, `ppp.rs`, `iwd.rs`, `systemd_networkd/`, `main.rs`, `config.rs`, `enums.rs`) | none of their own | constant answers, D-Bus clients | - |

### What is hard about it, and what would make it correct

* **Three copies of the profiles.** Table, files and objects are changed one
  after the other.  Every profile must be reachable on the bus, no object may
  outlive its profile, a saved profile must have its file, and a reload must end
  with both sides equal.
* **Names.** Object paths are handed out by counters and kept by clients: they
  must be unique and never be used again.  File names are computed from uuid or
  SSID: they must be found again.
* **Versions.** `VersionId` must rise with every change, or a client's cached
  list is stale without its knowing.
* **Checkpoints** are ended by three parties (destroy, rollback, timer); exactly
  one must win, and a checkpoint with a timeout must end although it can be
  extended at any time.
  What it saved of tables, files and switches must belong together when it is
  restored.
* **Synchronisation** works on answers that may be old by the time they are used.
* **Activations** wait for a backend between a check and the record it allows, and
  share their table with the switches, with Disconnect and with the
  synchronisation.  No object may be left without its record, and a call that
  succeeds must leave the announced properties true.
* **Signals** are sent after the change, in steps of their own.  A client that
  follows them must not miss an object for good, nor keep one that is gone.
* **Agents** may send a second call before the first is answered, and leave the bus
  without a word, while calls of others wait for them.
* **Devices** are taken off the bus and put back in every round, from a record of
  what they were: a link that vanishes, or changes its kind, must take all of its
  interfaces with it.

`PROJECT.json` lists each of these at the line where it bites, under `hazards`.

## 2. Plan

| module | models | status |
|---|---|---|
| `ProfileStore` | settings, files, objects | built, checked, proved about |
| `Checkpoints` | life of checkpoints, timers | built, checked, proved about |
| `CheckpointLife` | what callers may rely on of a checkpoint (abstract) | built, implemented by `Checkpoints` (checked and proved) |
| `BackendSync` | start-up, concurrent `sync_backends` on old answers, convergence | built, checked, proved about |
| `Activation` | activate, deactivate, disconnect, the switches, and a synchronisation against them | built, checked, proved about |
| `Rollback` (extends `Activation`) | what a checkpoint saves and a rollback restores: tables, files, links, objects | built, checked, proved about |
| `DeviceObjects` | interfaces of devices, configuration objects, peers, access points, and their signals | built, checked, proved about |
| `SettingsSignals` | what clients are told about the list of profiles | built, checked, proved about |
| `SecretAgents` | the table of agents, and the calls that wait for one | built, checked, proved about |

`Rollback` composes the activations of `Activation` with checkpoints, tables and
files; `SettingsSignals` composes the Settings calls with the synchronisation.  The
other modules share no state in the model; each lists under "Left out" what it
leaves to which of the others.

The theorems about a module `M` are in `MProofs`; those about `CheckpointLife` are
in `CheckpointsProofs`.  Left for later: an abstract specification of the Settings
API, refined by `ProfileStore`.

## 3. ProfileStore

### Correspondence

| TLA+ | code |
|---|---|
| `connections`, `nextSettingsId`, `versionId` | the fields of `RuntimeState` |
| `exported` | paths of the SettingsConnection objects in zbus's object server |
| `files` | a partial function from file names to what is read back from the file |
| `calls[c]` | the task of caller `c`: the method, the step it is at (`pc`), and its local variables |
| `Request(c)` | a method is called; its first lock is part of the action |
| `Step(c)` | the task's next lock, file operation or object-server call |
| `EditFiles`, `Restart` | the administrator or iwd; the service dies and starts again |

A record keeps the fields the properties tell apart: path, uuid, kind (what
`connection.type` is to `persistence.rs`), SSID, `body` (a Wi-Fi passphrase or a
networkd `Name=`: what the importer reads back), origin, `unsaved`, `filename`.
A file name is a pair of stem and extension.  `Imported` models
`load_connection_from_path`, including that it reads a `.netdev` file as a Wi-Fi
network and that the uuid it makes contains slashes, so that a file named after
such a uuid lies in a subdirectory (`NestedFiles`) which discovery does not list.
Writing may fail before or in the middle of `fs::write`, unlinking may fail,
importing may fail.  Update2 reads the record and then the version under two
locks, hence `CheckVersion`.  The profiles of the start are those of the backends
(`lib.rs:183`, `lib.rs:212`), hence the origin that `ConstantsAssumption` gives them;
`NoFile` stands for an absent file name and is none.

Left out: the wording of files, signals (module SettingsSignals), secret agents
(module SecretAgents), the `sync_backends` that ends ReloadConnections (modules
BackendSync, SettingsSignals), and the settings groups nobody reads.

### Runs

| run | instance | shows |
|---|---|---|
| `durable` | one caller of every method, three profiles to submit, an administrator's file from before the start, failing files, restarts | types; a saved profile loses its file only to a profile with the same file name (`OnlySharersTakeFiles`); after a successful reload the saved profiles are exactly the discovered files (`ReloadMirrorsFiles`) |
| `reload` | two callers that add, update, save, delete, reload and delete devices, an administrator at the files | paths are unique though imports race (`PathsUnique`); no hidden profile; versions; retired paths; one way only to leave an object without its profile (`OnlyLateAddsLeaveGhosts`) |
| `save_then_reload` | *violation*: one caller edits an imported wired profile | the next reload drops it |

`OnlySharersTakeFiles` is claimed for one caller and no administrator: a second
caller may delete the file that the first one is about to record, and an
administrator any file.  What is left is what the code must get right alone:
failing writes and unlinks, renames, restarts, and two profiles that share a file
(same SSID, or same uuid), where deleting or renaming one takes the file of the
other.  An object can be left without its profile: a reload, or a
Delete of the device, removes a profile between its insertion and the
registration of its object.  `OnlyLateAddsLeaveGhosts` is the action property that
nothing else does it.  Two Update2 calls that name one version-id can both
succeed in the model, as in the code; no document promises more.

### Bounds

`MaxPath` bounds the paths handed out, `MaxVersion` the version at which no new
call begins.  Two paths and three versions let two callers complete two changes and
race in a third, which covers every pair of handlers at every pair of steps; a third
caller adds no new pair.  One caller has four versions, for an import, an edit that
renames the file, and a reload after it.  Two uuids, one SSID with and without a
passphrase, a netdev and one stem give profiles that keep, change and share file
names.  Because the bounds end every behaviour, the runs say `CHECK_DEADLOCK FALSE`.

## 4. Checkpoints

### Correspondence

| TLA+ | code |
|---|---|
| `nextId`, `checkpoints` | `next_checkpoint_id`, `checkpoints` of `RuntimeState` |
| `objects` | registered Checkpoint objects |
| `timers[k]` | the task that `spawn_checkpoint_timeout` starts for checkpoint `k` |
| `calls[c]` | the task of caller `c` |
| `Create`, `Add`, `Register`, `Arm` | the steps of `checkpoint_create` between its awaits |
| `Destroy`, `Rollback`, `Take`, `Unregister`, `Restore`, `UnregisterAgain` | `checkpoint_destroy`, `checkpoint_rollback` and `rollback_checkpoint` |
| `Adjust` | `checkpoint_adjust_rollback_timeout` |
| `Wake`, `TimerTake`, `TimerUnregister`, `TimerRestore` | the timer's loop and its call of `rollback_checkpoint` |
| `Tick` | time passes |

Time is relative: each deadline and each sleep is the number of ticks left, and
`Tick` takes one from each.  `Second` ticks make a second, so timers, which look
once a second, may be out of phase with deadlines; `RollbackTimeout` rounds up to
seconds as the code does.  Any task may be late, so the model contains the timer
that acts on a deadline which was extended a moment ago.

### Runs

| run | instance | shows |
|---|---|---|
| `checkpoints` | two callers, two checkpoints, timeouts 0 and 1 s, two ticks a second, extensions, fairness | a checkpoint is taken once (`EndsOnce`), has its object (`ListedHasObject`), is never without a timer if it had a timeout (`TimeoutWatched`); a timeout ends it unless clients extend it for ever (`TimeoutEnds`); one way only to leave its object behind (`OnlyLateMakersLeaveGhosts`); it lives the life of `CheckpointLife` (`ImplementsLife`) |

A checkpoint's object can be left behind: whoever takes the checkpoint between
its listing and the registration of its object finds nothing to remove.
`OnlyLateMakersLeaveGhosts` says that the overtaken maker is the only one to
leave it.

### The abstract specification

`CheckpointLife` knows no tables, objects, timers or tasks: a checkpoint is being
made, open, being ended, over.  `Checkpoints` implements it under the mapping
`Life`: an id is *making* while its maker has not listed it, *open* while it is in
the table, *ending* while a caller or its timer works on what it took.  The
refinement says in one formula what the single invariants say in parts: ids are
never given out again, no phase is skipped, and two tasks never end one
checkpoint, for `End` and `Finish` of one id happen once.

`MaxLeft` bounds how far away a deadline may be moved, `MaxId` the number of
checkpoints; two of each actor and of checkpoints give every pair that can race
for one checkpoint, and a second one that must not be mistaken for the first.

## 5. BackendSync

### Correspondence

| TLA+ | code |
|---|---|
| `world`, `iwdUp` | what systemd-networkd and iwd would answer, and whether iwd answers |
| `connections`, `nextPath`, `devices`, `actives` | the fields of `RuntimeState` |
| `settingsObjects`, `deviceObjects`, `activeObjects` | SettingsConnection, Device and ActiveConnection objects |
| `syncs[s]` | a task in `sync_backends`: where it is, and its local variables |
| `Init` | `start_service_with_runtime` |
| `Ask`, `Describe`, `AskIwd` | `Manager::request`, link by link, then `IwdState::request` |
| `Lookup` ... `Unexport` | the profiles of networks and links; removal of stale ones |
| `ListGone` ... `Upsert` | devices that are gone; `sync_device_object` for the others |
| `ListActive` ... `Finish` | `desired_active`, removal and renewal of active connections |
| `Edit`, `Delete`, `DeleteObject` | the table's and the object's step of Update and Delete |

A link is named by itself, a path by its number; the uuid of a backend's profile
is the link or network it is made from.  Each lock and each object-server call is
a step; what the code computes without either belongs to the step before.  Loops
take their elements in any order, which includes the order of the code, and a
lookup that matches several profiles takes any of them.  The tables hold only
profiles that stem from a backend, for `sync_backends` leaves the others alone.

Left out: access points, peers and configuration objects (module DeviceObjects),
activations by a caller (module Activation), loopback links (no profile, no active
connection), signals, a start of the service while iwd does not answer, and a
round that ends early because the object server fails.

### Runs

| run | instance | shows |
|---|---|---|
| `mirror` | the poller, one wired and one Wi-Fi link, one network; two changes of links, networks or stations, of iwd's answering, or edits and deletes by a caller | types; once all is at rest, tables and objects become a mirror of the world and stay so, and objects show what the table says (`ObjectsTrue`) |
| `mirror_race` | poller and follower, one link, two changes | no Device object stays behind (`NoGhostDevice`), no ActiveConnection object loses its record (`NoNewOrphan`), and everything converges (`Converges`), in spite of rounds on old answers |

`ObjectsTrue` is claimed for one sync at a time.  With two, both may look up the
profile of a new link before either has added it, and the link has two until it
goes.  `Mirrored`, the state that must
be reached, therefore counts sources, not profiles; it says nothing of the
objects the service starts with, which are in no table and stay if their link goes
down before the first round, and nothing of what a caller
wrote into a backend's profile, which the next round undoes (`Update`).

`MaxChanges` is 2: the second change falls between any two steps of the rounds
that answer the first one, so a round on an answer that has become wrong runs
against one on the right answer, in every order.  `MaxPath` is never reached in
the passing runs: no `Lookup` is held back by it, or `Converges` would fail.

`Converges` and `ObjectsTrue` speak of behaviours in which the
disturbances end (`<>[][~Disturbance]_vars`).  With `MaxChanges` they always end;
the premise is there so that the formulas mean the same without that bound.

## 6. Activation

### Correspondence

| TLA+ | code |
|---|---|
| `up` | links that their backend reports to be in use |
| `profiles`, `actives`, `switches` | `connections`, `active_connections`, the three switches of `RuntimeState` |
| `exported` | ActiveConnection objects, with the profile each one shows |
| `told` | what the last PropertiesChanged of the root said |
| `calls[c]` | the task of caller `c`: method, step, and its local variables |
| `Activate`, `Check`, `Connect`, `Unexport`, `ExportActive`, `Record` | `activate_connection` between its awaits |
| `AddAndActivate` | the same after `add_runtime_connection`; the announcement is made twice |
| `Deactivate`, `Disconnect` | `deactivate_connection`, `Device::disconnect_` (also by Managed = false) |
| `Switch`, `List`, `Sweep`, `Look`, `Down`, `Unrecord`, `Unpublish` | Enable, Sleep, WirelessEnabled and `clear_active_connections_of_types` |
| `Read`, `Send` | `emit_root_runtime_changes`: the properties are read, the signal is sent |
| `SyncAsk` ... `SyncSend` | the part of `sync_backends` that works on active connections |

A profile stands for its record and an interface for its paths.  `Tails` says
which names end with which, because `active_connection_for_interface` compares
with `ends_with`: `Disconnect` of `wlan0` may find the connection of `vwlan0`.
`ObjectServer::at` keeps an object that is there, hence `Export`.  The service
starts with objects of the links that are in use and with an empty table.

Left out: the VPN stub, the `State` and other properties of an active connection,
the ActiveConnection signal of the device, the connectivity probe, secret agents.

### Runs

| run | instance | shows |
|---|---|---|
| `activation` | one caller of all eight methods, backends that refuse, a wlan and a wired link whose name ends with the wlan's, one change of a link | a switch that is announced off has cleared what it clears (`ClearedWhenTold`); every record has an object that shows it (`RecordShown`); nothing becomes active offline (`NothingActiveOffline`); a successful call leaves the announcement true (`SuccessIsTold`) |
| `activation_race` | two callers that activate and deactivate one link, and a synchronisation | no step leaves an object without a record (`NoNewOrphan`); once the callers rest, the synchronisation repairs what they left (`Heals`) |

The four properties of run `activation` are claimed for one caller, for with two
each of them is false in the code: a Sleep falls between the check of
ActivateConnection and its record, a second activation puts its object between
two steps of the first, and announcements cross.  `activation_race` says what
holds all the same.  `Settled`, which must be reached, leaves out `State`:
the signal of a synchronisation does not carry it (`lib.rs:2045`).

Two callers and one link make every pair of steps on one path race; the second
link of `activation` is there for the names, the third kind of profile (a tunnel,
which the switches do not clear) for `Look`.

## 7. Rollback

| TLA+ | code |
|---|---|
| `files`, `shown` | profile files under the backends' directories; SettingsConnection objects |
| `checkpoint` | `CheckpointSnapshot` of the checkpoint that is listed |
| `CheckpointCreate`, `ListCheckpoint` | `checkpoint_snapshot`, then `snapshot_connection_files` |
| `CheckpointRollback` ... `Announce` | `rollback_checkpoint`, by a caller or by the timer |
| `Others`, `FollowTable` | the steps of module Activation, with the file and the object of a profile that is added or deleted |

Run `rollback`: one caller, a wired profile of a user and a wireless one of iwd,
two links, files that cannot be restored.  It shows that networking that is off
or asleep has nothing active, whether a call or a rollback set the switches
(`OfflineIsInactive`); that a rollback which does not fail restores the saved
active connections and their objects and takes the other links down
(`RollsBack`); that a profile is parted from its file only by a rollback that
fails in its files (`OnlyFailureLosesFiles`); and that no other step parts objects
and tables (`OnlyRollbackParts`), which a rollback does, for it replaces the table
and leaves the objects.

There is one checkpoint at a time and no call overlaps with it: the life of
several, with all their races, is module Checkpoints.  The Wi-Fi switch is not
part of a snapshot, so `OfflineIsInactive` speaks of the other two.  The hostname
and the managed flags are left out.

## 8. DeviceObjects

| TLA+ | code |
|---|---|
| `links` | what systemd-networkd and iwd say of each name |
| `records`, `points`, `lists` | `devices`, `access_points`, `wireless_devices` of `RuntimeState` |
| `interfaces`, `configs`, `peers` | objects on the bus |
| `told` | what InterfacesAdded/-Removed, PeerAdded/-Removed, AccessPointAdded/-Removed said |
| `Listed`, `Registered`, `Unregistered` | `device_interface_names`; `register_device_aux_interfaces`; `unregister_device_aux_interfaces` with `unregister_device_objects` |
| `Ask`, `AskStations` | `Manager::request` and `State::request`, which asks iwd twice |
| `PutPoints`, `DropPoints` | access points |
| `Drop`, `Undo`, `Tell` | devices whose link is gone |
| `Hide`, `ShowConfigs`, `Show`, `Upsert` | `sync_device_object` and what follows it |

The three tables of interfaces are written out kind by kind, because the hazard is
that they differ: what a device lists, what it registers and what it removes are
three lists in the code.  They do differ in one place, which the properties name:
the PPP interfaces are registered by name or type and removed by name only.

Run `device_objects`: a link that may be of many kinds, of every type, with and
without addresses and leases, wireless or P2P with and without a network, and a
`ppp0` that comes and goes; two changes at any time.  Objects are exactly what the
records say (`ObjectsFollowRecords`); what the signals said is there
(`ToldIsThere`; of a name whose link changed its kind nothing is claimed, for that
is not announced); wireless devices list the access points that exist, unless
iwd's two answers differed (`PointsListed`); and the records become those of the
links (`Mirrors`).  Two changes let any link be followed by any other while a round
is under way and a round on an old answer be followed by one on the new; a second
network or a third name adds no interaction, for the loops treat each on its own.

## 9. SettingsSignals

| TLA+ | code |
|---|---|
| `table`, `nextPath`, `exported` | profiles by path with the backend's source, if any; `next_settings_id`; SettingsConnection objects |
| `saved` | the profiles in the last checkpoint |
| `told` | `Connections` in the last PropertiesChanged of Settings |
| `known` | what a client that follows InterfacesAdded and InterfacesRemoved takes for real |
| `withdrawn` | the paths that were taken off the bus while not on it; history for the properties, no part of the service |
| `tasks[t]` | the task of caller `t`, or the polling loop |
| `Add`, `Edit`, `Delete`, `DeviceDelete`, `Load`, `SaveHostname`, `Checkpoint`, `Rollback` | a call begins |
| `Insert`, `Export`, `TellAdded`; `Remove`, `Unexport`, `TellRemoved` | the steps of adding and of removing one profile, by a call or a synchronisation |
| `Ask`, `Sync`, `Sweep` | the part of `sync_backends` that adds and removes profiles |
| `List`, `Send` | `emit_settings_changed`: the list is read under the lock, the signal is sent later |

| run | instance | shows |
|---|---|---|
| `signals` | two callers, the polling loop, one network, two changes | a registered object is known to the clients, or about to be announced, or was taken away before it was there (`NoneMissed`); clients are left with an object that does not exist only by Device.Delete, which announces nothing, or by an announcement that was overtaken by whoever took the object away (`OnlyLateTellersMislead`); lists that crossed, and the rollback's silence, are made up for by polling (`ToldInTheEnd`) |

`DeviceDelete` and `Checkpoint` take any set of profiles, for which ones belong to
a device is not this module's question; a file that is loaded is new, or known, or
unreadable.  Failures in files are those of ProfileStore: such a call ends before
it has told anything.

Two changes are the smallest number with a race, and each pair of handlers is
among them, in every order and against rounds of the polling loop; a checkpoint and
a rollback are two calls.  AddConnection takes the steps of AddAndActivate without
`Activate`, and LoadConnections those of a reload's first half, so the run's `Ops`
leave them out.

The exceptions in `NoneMissed` and `OnlyLateTellersMislead` came from the proofs.
Stated without them the two hold for two changes and are false for four: (a) a
reload prunes a profile that is inserted and not yet registered, a rollback puts it
back into the table, the object is registered and announced, and the reload's
InterfacesRemoved comes last: an object with its profile is there, and no client
knows it; (b) AddConnection is about to announce, Delete removes the profile and its
object and says so, a rollback restores the profile, and then the late
InterfacesAdded arrives: the clients know an object that does not exist, of a
profile that is in the list.  TLC shows both with four changes.

## 10. SecretAgents

| TLA+ | code |
|---|---|
| `agents` | `registered_agents`, as the sequence of senders |
| `tasks[r]` | a task that answers Register, RegisterWithCapabilities or Unregister |
| `calls[c]` | a handler that asks an agent: GetSecrets, Save, ClearSecrets, Delete, the activation of a Wi-Fi profile |
| `Enter`, `Leave` | `add_registered_agent`, `remove_registered_agent` |
| `Add`, `TakeOut`, `PutBack` | RegisterWithCapabilities, which calls Register and then replaces the entry under two locks |
| `Quit` | an agent leaves the bus, which nobody watches for |
| `Answered`, `Refused` | the agent answers; the bus answers for one that has left |
| `believed` | what an agent concludes from the answers; no part of the service |

Run `agents`: two agents, two tasks, one call that needs an agent, five calls of
agents.  An agent whose call overlapped no other call of its own is in the table,
or out of it, as it was told (`TableAsTold`), although taking it out and putting it
back leaves a gap that a request in between falls into.  A call that needs an agent
waits for ever only for one that is on the bus and does not answer
(`DeadAgentsRefuse`); it has no timeout in the code.  Five calls are two overlapping
registrations of one agent, and one after them, while the other enters and leaves.

Left out: the answer of the agent, which only GetSecrets uses; the identifier and
the capabilities, which nothing reads.

## 11. Fairness

In `Checkpoints`, weak fairness of every step of a task that has begun (`Step`,
`Timer`): tokio
runs every task that is ready, and the file, bus and object-server calls a step
stands for return, with success or failure.  `Tick` is fair because time passes.
No fairness for requests.  `ProfileStore` states none, for its properties are about
safety.

In `BackendSync` every sync that has begun goes on, and the poller starts again
after each round (`Ask(Poller)`), as its `loop` does.  The follower's `Ask` is not
fair: a signal may be lost, or never come.

In `Activation` every call that has begun goes on (`Step`), and so does the
synchronisation, which begins again after each round (`SyncStep`); requests and
links are not fair.  `Heals` speaks of behaviours in which both come to rest.  In
`DeviceObjects` the one task goes on and begins again.  `Rollback` states no
fairness, for its properties are about safety.

In `SettingsSignals` every task that has begun goes on, and the polling loop
begins again; requests and links are not fair, and `ToldInTheEnd` speaks of
behaviours in which they come to rest.  In `SecretAgents` the service's tasks go
on and the bus answers for agents that have left, as D-Bus does; agents are not
fair.

## 12. Proofs

The eight `*Proofs` modules are checked by TLAPS.  Their theorems state every
invariant and every safety action property of the runs, for every number of
callers and syncs, every set of profiles, files, links, networks and agents, and
every bound.

### What is assumed

The modules name their assumptions, and TLC evaluates them in every run:
`ConstantsAssumption`, `CheckpointConstants`, `SyncConstants`,
`ActivationConstants`, `RollbackConstants`, `SignalsConstants`, `DeviceConstants`,
`AgentsConstants`.  They say that constants have their types; that the startup
profiles come from the backends and have distinct paths numbered from 1, which is
how `start_service_with_runtime` numbers them; that a name ends with itself; and
that there are finitely many links and networks where a sync numbers them.

Some properties are claims about a caller that is alone, and so are the theorems:

* `OneCaller` of `ProfileStoreProofs`: at most one client, and no administrator;
  `OneCaller` of `ActivationProofs`: at most one client, and no synchronisation.
  Sections 3 and 6 say why each claim is false without it.
* `~Failures`, in two theorems of `RollbackProofs`: backends do not refuse, as in
  run `rollback`.  A backend that refuses leaves a link up, or an active connection
  in the table, behind a rollback and behind a Sleep.

### The arguments

* **ProfileStore.** `TypeOK` becomes inductive with `WholeRecords`: a task about
  to write or insert holds a whole record, since `Blank` is not one.  `PathsUnique`
  and `NoHiddenProfile` become inductive together in `StoreInv`: two tasks that
  have taken a path for a new profile never hold the same one, nor one that is in
  the table, and an object is removed only after its record is gone for good,
  which again needs that paths are not used twice.  `PathsRetired` and
  `VersionBumped` are action properties proved from the same invariant, and so is
  `OnlyLateAddsLeaveGhosts`, by cases on who takes a record out.
  `OnlySharersTakeFiles` and `ReloadMirrorsFiles` need `AloneInv`: what the caller
  is about to put into the table has its file (`Backed`), and a reload has a saved
  profile for each file it has been through, imported from it, and then keeps these
  and no others (`Mirroring`).
* **Checkpoints.** `EndsOnce`, `ListedHasObject` and `TimeoutWatched` hold because
  a checkpoint has one maker, nobody can take it before the maker lists it, and it
  has no timer before the maker is done; `LifeInv` adds that (`IdsKnown`,
  `OneMaker`, `NoEarlyTimer`, `Untouched`, `MakerKnows`).
* **CheckpointLife.** `CheckpointsImplementLife` maps every step to a step of the
  abstract life or to a stutter, one lemma per phase (`MakeStep` to `FinishStep`).
  That needs the same invariants: an id that leaves *making* has no second maker
  (`OneMaker`), and one that enters *ending* has nobody else ending it
  (`EndsOnce`).  `GhostsOnlyFromLateMakers` follows from them by cases: every other
  step that takes a checkpoint goes on to remove its object, or comes before its
  maker is done.
* **BackendSync.** `TypeOK` becomes inductive with `Fits`: what a loop has left,
  and the element in hand, are of the loop's kind (sources, paths or links), and
  what is left of the last loop has a profile.  `NoGhostDevice` and `NoNewOrphan`
  follow one argument for all interleavings: a record and its object change in
  two steps of one task, that task is in between for the object, and a step
  moves no other task (`Alone`), so whatever the others do cannot take the object
  out of care.
* **Activation.** `TypeOK` becomes inductive with `Fits`: which local variables a
  task has set at each step.  `NoNewOrphan` needs nothing more, for any number of
  callers and with the synchronisation.  The four properties of run `activation`
  follow from `CallerInv`: what a switch has not cleared yet is in the list it
  works through (`Swept`); a kind that was permitted at the check still is
  (`Allowed`); every record is shown, unless the caller is between the two steps
  that show and record it (`Shown`, `InHand`); and what is about to be sent is
  what is true.
* **Rollback.** It has the types of Activation and its own.  `OnlyFailureLosesFiles`
  and `OnlyRollbackParts` need `Taken`: a snapshot is of tables and files that go
  together, and a rollback that comes to the tables has written the files.
  `RollsBack` needs, step by step, which objects and links a rollback has already
  brought back (`Progress`, `Lowered`).  `OfflineIsInactive` needs that every
  snapshot is itself of a state in which what is offline is inactive (`Covered`),
  and, of the steps in between, the `CallerOK` of Activation (`AloneInv`).
* **DeviceObjects.** Everything that belongs to a name follows the link on record,
  or, while the name is in hand, the link of before or of after; `ObjectLink`,
  `ConfigLink` and `ToldLink` say which at each step.  `DeviceInv` says that objects
  (`Belong`), signals (`Said`) and access points (`PointsOK`) of each name are those
  of that link.  The lemmas `LeftBehind` and following compare the three tables of
  interfaces, kind by kind.
* **SettingsSignals.** `TypeOK` becomes inductive with `Within`: paths in hand were
  given out.  `NoneMissed` becomes so in `RaceInv`: a path is registered by the one
  task that was given it (`RegisteredOnce`), and whoever is about to announce its
  end has taken it away for good or came too early (`GoneForGood`).
  `OnlyLateTellersMislead` follows by cases.
* **SecretAgents.** `TableAsTold` becomes inductive with two facts: no sender is in
  the table twice (`NoTwice`), and an agent that was told where it stands has no
  call under way, one that waits has a single one (`Alone`).  `AllButFacts` says
  what `retain` leaves in the table.  It is an induction over the table's length,
  which the library's induction theorems cannot give here; `LeastNatural`, that a
  set of naturals which is not empty has a least element, is proved from the
  pigeonhole principle instead.  `AllBut` is a recursive function for its sake.

Only model-checked, for it is out of TLAPS's reach: liveness (`TimeoutEnds`,
`ObjectsTrue`, `Converges`, `Heals`, `Mirrors`, `ToldInTheEnd`,
`DeadAgentsRefuse`).  `TypeOK` of `Activation`, `DeviceObjects` and
`SettingsSignals` is proved and no run lists it.
`CheckpointStaysEnded` is proved and no run checks it: `ImplementsLife`, which
implies it, is checked instead.

### Not modelled

* Object paths: a pure function on strings, which would have to be modelled
  character by character.
* The signals NewConnection, ConnectionRemoved, Updated and Removed, which are sent
  beside those of SettingsSignals; signals of devices other than those above; the
  values that GetSecrets returns; the connectivity
  probe; the hostname; global DNS configuration, logging, statistics; the text of
  files; decoding of the backends' answers.
* A service bus that fails: every `?` after an object-server call or a signal ends
  its handler there; the models take these calls to succeed, except where zbus
  reports a missing object.

## 13. Findings

The *violation* run `save_then_reload`; `PROJECT.json` quotes, under `findings`, what
the repository says and what the run shows.  More behaviours that no document of the
repository speaks about are left in the models as they are in the code, most of them
listed under `hazards`: an answered extension of a checkpoint may be lost to its
timer; a checkpoint created without a timeout never ends by itself although a
timeout is set later; ActiveConnection objects of the start are in no table; a
rollback drops the profiles of other devices from the table, and announces
nothing of Settings; the list and the `VersionId` of one signal are read under two
locks; every round of the polling loop raises `VersionId`, changed or not; a ppp
link with another name leaves its PPP interfaces behind; Device.Delete sends no
signal about the profiles it removes; one request that iwd does not answer empties
the tables of all Wi-Fi profiles, whose paths are new when it answers again
(`AskIwd`); the entry of an agent that has left the bus stays, and, as the last one,
keeps those before it from being asked.

## 14. Running

    tlc -config durable.cfg MCProfileStore.tla
    tlc -config checkpoints.cfg MCCheckpoints.tla
    tlc -config mirror.cfg MCBackendSync.tla
    tlc -config activation.cfg MCActivation.tla
    tlc -config rollback.cfg MCRollback.tla
    tlc -config device_objects.cfg MCDeviceObjects.tla
    tlc -config signals.cfg MCSettingsSignals.tla
    tlc -config agents.cfg MCSecretAgents.tla
    tlapm ProfileStoreProofs.tla
    tlapm CheckpointsProofs.tla
    tlapm BackendSyncProofs.tla
    tlapm ActivationProofs.tla
    tlapm RollbackProofs.tla
    tlapm DeviceObjectsProofs.tla
    tlapm SettingsSignalsProofs.tla
    tlapm SecretAgentsProofs.tla

Each run takes seconds to two minutes, the proofs a few minutes.  Operators whose
comment begins with "Mutant:" are faulty versions of the definition that follows
them; no specification uses them, they exist to show that the properties notice.

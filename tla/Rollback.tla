------------------------------ MODULE Rollback ------------------------------
(***************************************************************************)
(* What a checkpoint saves and what CheckpointRollback, or the timer of    *)
(* the checkpoint, restores: the tables of module Activation, the profile  *)
(* files and the links (checkpoint_create and rollback_checkpoint in       *)
(* network_manager/mod.rs, the snapshot in runtime.rs, the files in        *)
(* persistence.rs).  The life of a checkpoint is module Checkpoints; here  *)
(* there is one at a time, and one caller: a rollback and the calls of     *)
(* module Activation do not overlap.                                       *)
(***************************************************************************)
EXTENDS Activation

CONSTANTS
    BoundTo    \* interface-name of each profile, Nowhere if it has none

ASSUME RollbackConstants == BoundTo \in [Profiles -> Ifaces \cup {Nowhere}]

VARIABLES
    files,       \* profiles with a file under the directories of the backends
    shown,       \* registered SettingsConnection objects
    checkpoint,  \* the snapshot of the checkpoint that is listed, if any
    roll         \* the task of CheckpointCreate or of a rollback

stores == <<files, shown>>
allVars == <<vars, stores, checkpoint, roll>>

\* The synchronisation derives profiles from links; only the others are files.
Kept == Profiles \ {Source[i] : i \in Ifaces}

Empty == [i \in {} |-> NoOne]
NoSnapshot == [taken |-> FALSE, profiles |-> {}, actives |-> Empty, networking |-> FALSE,
               sleeping |-> FALSE, files |-> {}]
NoRoll == [pc |-> "idle", snap |-> NoSnapshot, current |-> Empty, todo |-> {}]

RollbackInit ==
    /\ Init
    /\ files = profiles \cap Kept
    /\ shown = profiles
    /\ checkpoint = NoSnapshot
    /\ roll = NoRoll

RollAt(pc) == roll.pc = pc
RollGoto(pc) == roll' = [roll EXCEPT !.pc = pc]
MayBegin == RollAt("idle") /\ Resting

-----------------------------------------------------------------------------
(* CheckpointCreate                                                        *)

\* checkpoint_snapshot for the devices D: their active connections, and the
\* profiles that name one of them.  The Wi-Fi switch is not part of it.
Snapshot(D) ==
    [taken |-> TRUE,
     profiles |-> {p \in profiles : BoundTo[p] \in D},
     actives |-> [i \in Actives \cap D |-> actives[i]],
     networking |-> switches.networking,
     sleeping |-> switches.sleeping,
     files |-> {}]

CheckpointCreate ==
    /\ MayBegin /\ ~checkpoint.taken
    /\ \E D \in SUBSET Ifaces \ {{}} :
           roll' = [NoRoll EXCEPT !.pc = "snapshot", !.snap = Snapshot(D)]
    /\ UNCHANGED <<vars, stores, checkpoint>>

\* The files are read when the tables have been copied, all of them.
ListCheckpoint ==
    /\ RollAt("snapshot")
    /\ checkpoint' = [roll.snap EXCEPT !.files = files]
    /\ roll' = NoRoll
    /\ UNCHANGED <<vars, stores>>

-----------------------------------------------------------------------------
(* rollback_checkpoint                                                     *)

\* The active connections are read first, then the checkpoint is taken.
CheckpointRollback ==
    /\ MayBegin /\ checkpoint.taken
    /\ roll' = [pc |-> "files", snap |-> checkpoint, current |-> actives, todo |-> {}]
    /\ checkpoint' = NoSnapshot
    /\ UNCHANGED <<vars, stores>>

SetsBetween(low, high) == {F \in SUBSET high : low \subseteq F}

\* Mutant: only the directories are cleaned up.
RestoreFewer ==
    /\ RollAt("files")
    /\ files' \in SetsBetween(files \cap roll.snap.files, files)
    /\ RollGoto("restore") \/ roll' = NoRoll
    /\ UNCHANGED <<vars, shown, checkpoint>>

\* restore_connection_files removes what the checkpoint does not have, whether or
\* not that succeeds, and writes what it has; the first error ends the rollback, and
\* the checkpoint is gone.
RestoreFiles ==
    /\ RollAt("files")
    /\ files' \in SetsBetween(files \cap roll.snap.files, files \cup roll.snap.files)
    /\ (roll.snap.files \subseteq files' /\ RollGoto("restore")) \/ roll' = NoRoll
    /\ UNCHANGED <<vars, shown, checkpoint>>

\* Mutant: a device that sleeps stays asleep.
RestoreTables ==
    /\ RollAt("restore")
    /\ profiles' = roll.snap.profiles /\ actives' = roll.snap.actives
    /\ switches' = [switches EXCEPT !.networking = roll.snap.networking]
    /\ roll' = [roll EXCEPT !.pc = "deactivate",
                            !.todo = DOMAIN roll.current \ DOMAIN roll.snap.actives]
    /\ UNCHANGED <<world, exported, told, calls, sync, stores, checkpoint>>

\* restore_checkpoint_snapshot, under one lock.  The profiles of other devices
\* are gone from the table, all objects stay.
Restore ==
    /\ RollAt("restore")
    /\ profiles' = roll.snap.profiles /\ actives' = roll.snap.actives
    /\ switches' = [switches EXCEPT !.networking = roll.snap.networking,
                                    !.sleeping = roll.snap.sleeping]
    /\ roll' = [roll EXCEPT !.pc = "deactivate",
                            !.todo = DOMAIN roll.current \ DOMAIN roll.snap.actives]
    /\ UNCHANGED <<world, exported, told, calls, sync, stores, checkpoint>>

\* Links that were active and are not to be; a refusal is ignored.
TakeDown ==
    /\ RollAt("deactivate")
    /\ \/ /\ roll.todo = {}
          /\ roll' = [roll EXCEPT !.pc = "activate",
                                  !.todo = DOMAIN roll.snap.actives \ DOMAIN roll.current]
          /\ UNCHANGED up
       \/ \E i \in roll.todo :
              /\ roll' = [roll EXCEPT !.todo = @ \ {i}]
              /\ up' \in {up \ {i}} \cup (IF Failures THEN {up} ELSE {})
    /\ UNCHANGED <<changes, tables, exported, told, calls, sync, stores, checkpoint>>

\* Links that are to be active and were not, whatever their profile was; neither
\* the switches nor the result matter, only that the profile is in the table.
BringUp ==
    /\ RollAt("activate")
    /\ \/ /\ roll.todo = {}
          /\ roll' = [roll EXCEPT !.pc = "hide", !.todo = Actives]
          /\ UNCHANGED up
       \/ \E i \in roll.todo :
              /\ roll' = [roll EXCEPT !.todo = @ \ {i}]
              /\ up' \in IF roll.snap.actives[i] \in profiles THEN {up, up \cup {i}} ELSE {up}
    /\ UNCHANGED <<changes, tables, exported, told, calls, sync, stores, checkpoint>>

\* Mutant: the objects are not taken away before they are shown again.
HideNone ==
    /\ RollAt("hide")
    /\ roll' = [roll EXCEPT !.pc = "show", !.todo = Actives]
    /\ UNCHANGED <<vars, stores, checkpoint>>

\* The objects of the restored records are replaced.
Hide ==
    /\ RollAt("hide")
    /\ \/ /\ roll.todo = {} /\ UNCHANGED exported
          /\ roll' = [roll EXCEPT !.pc = "show", !.todo = Actives]
       \/ \E i \in roll.todo :
              exported' = Drop(exported, i) /\ roll' = [roll EXCEPT !.todo = @ \ {i}]
    /\ UNCHANGED <<world, tables, told, calls, sync, stores, checkpoint>>

Show ==
    /\ RollAt("show")
    /\ \/ roll.todo = {} /\ RollGoto("read") /\ UNCHANGED exported
       \/ \E i \in roll.todo :
              /\ exported' = IF i \in Actives THEN Export(exported, i, actives[i]) ELSE exported
              /\ roll' = [roll EXCEPT !.todo = @ \ {i}]
    /\ UNCHANGED <<world, tables, told, calls, sync, stores, checkpoint>>

\* emit_root_runtime_changes, its two halves in one step
Announce ==
    /\ RollAt("read")
    /\ told' = Facts
    /\ roll' = NoRoll
    /\ UNCHANGED <<world, tables, exported, calls, sync, stores, checkpoint>>

RollStep == \/ ListCheckpoint \/ RestoreFiles \/ Restore \/ TakeDown \/ BringUp
            \/ Hide \/ Show \/ Announce
RollTask == CheckpointCreate \/ CheckpointRollback \/ RollStep

-----------------------------------------------------------------------------
\* Mutant: what is added gets a file, whoever adds it.
FollowAll ==
    /\ shown' = (shown \cup (profiles' \ profiles)) \ (profiles \ profiles')
    /\ files' = (files \cup (profiles' \ profiles)) \ (profiles \ profiles')

\* Mutant: Delete forgets the D-Bus object.
TableOnly ==
    /\ shown' = shown \cup (profiles' \ profiles)
    /\ files' = IF profiles' \subseteq profiles THEN files \ (profiles \ profiles')
                ELSE files \cup ((profiles' \ profiles) \cap Kept)

\* A profile that is added gets an object, and a file unless it belongs to a link;
\* one that is deleted loses both (modules ProfileStore and BackendSync).
FollowTable ==
    /\ shown' = (shown \cup (profiles' \ profiles)) \ (profiles \ profiles')
    /\ files' = IF profiles' \subseteq profiles THEN files \ (profiles \ profiles')
                ELSE files \cup ((profiles' \ profiles) \cap Kept)

\* The steps of module Activation, between checkpoint calls
Others ==
    /\ RollAt("idle")
    /\ \/ \E c \in Clients : Request(c) \/ Step(c)
       \/ SyncStep
       \/ Change
    /\ FollowTable
    /\ UNCHANGED <<checkpoint, roll>>

RollbackNext == RollTask \/ Others

RollbackSpec == RollbackInit /\ [][RollbackNext]_allVars

-----------------------------------------------------------------------------
RollPcs == {"idle", "snapshot", "files", "restore", "deactivate", "activate", "hide",
            "show", "read"}
IsSnapshot(s) == /\ s.taken \in BOOLEAN /\ s.networking \in BOOLEAN /\ s.sleeping \in BOOLEAN
                 /\ s.profiles \subseteq Profiles /\ s.files \subseteq Profiles
                 /\ IsTable(s.actives)

\* The state of Activation and that of a rollback have the types of the code.
RollbackTypeOK ==
    /\ TypeOK
    /\ files \subseteq Kept /\ shown \subseteq Profiles
    /\ IsSnapshot(checkpoint)
    /\ roll.pc \in RollPcs /\ IsSnapshot(roll.snap) /\ IsTable(roll.current)
    /\ roll.todo \subseteq Ifaces

Clearing == \E c \in Clients : calls[c].op \in {"networking", "sleep"}

\* With one caller and backends that never refuse, networking that is off or asleep
\* has no active connection of a kind it clears, be the switches set by a call or
\* by a rollback: what a checkpoint saved of the switches and of the active
\* connections belongs together.
OfflineIsInactive ==
    ~Online /\ ~Clearing => \A i \in Actives : KindOf[actives[i]] = "other"

\* A rollback that did not fail ends with the saved connections active, each shown
\* by its object, and with the links down that are not part of it.
RollsBack ==
    RollAt("read") =>
        /\ actives = roll.snap.actives
        /\ \A i \in Actives : i \in DOMAIN exported /\ exported[i] = actives[i]
        /\ \A i \in DOMAIN roll.current \ Actives : i \notin up

Lost(table, stored) == (table \cap Kept) \ stored # {}

\* A profile of the table, or of a checkpoint, has no file that goes with it.
Loss == \/ ~RollAt("restore") /\ Lost(profiles, files)
        \/ Lost(checkpoint.profiles, checkpoint.files)
        \/ ~RollAt("snapshot") /\ Lost(roll.snap.profiles, roll.snap.files)

\* Table and files are saved one after the other and restored in the reverse order;
\* with one caller they stay together, but for a rollback that fails in its files.
OnlyFailureLosesFiles == [][Loss' => Loss \/ (RollAt("files") /\ roll' = NoRoll)]_allVars

\* Only a rollback parts the objects from the tables: it is the one step that
\* leaves an active connection's object without its record, or a profile's.
OnlyRollbackParts ==
    [][~RollAt("restore") =>
           /\ \A i \in Ifaces : Orphan(i)' => Orphan(i)
           /\ shown' \ profiles' \subseteq shown \ profiles]_allVars
=============================================================================

--------------------------- MODULE RollbackProofs ---------------------------
(* What holds of Rollback for any callers, links, profiles and bounds.     *)
EXTENDS Rollback, ActivationProofs

(***************************************************************************)
(* Types.  RollbackTypeOK becomes inductive with TypeInv, and with a       *)
(* snapshot that has the files of such profiles only as have files.        *)
(***************************************************************************)
Tables == UNION {[D -> Profiles] : D \in SUBSET Ifaces}
Saved == [taken: BOOLEAN, profiles: SUBSET Profiles, actives: Tables, networking: BOOLEAN,
          sleeping: BOOLEAN, files: SUBSET Kept]
Roll == [pc: RollPcs, snap: Saved, current: Tables, todo: SUBSET Ifaces]

StoresOK == files \subseteq Kept /\ shown \subseteq Profiles
RollOK == roll \in Roll /\ checkpoint \in Saved
RollTypeInv == TypeInv /\ StoresOK /\ RollOK

LEMMA TablesAre == \A f : IsTable(f) => f \in Tables
  BY DEF IsTable, Tables

LEMMA TableIs == ASSUME NEW f \in Tables PROVE IsTable(f) /\ DOMAIN f \subseteq Ifaces
<1>1. PICK D \in SUBSET Ifaces : f \in [D -> Profiles]
  BY DEF Tables
<1>2. DOMAIN f = D
  BY <1>1
<1> QED
  BY <1>1, <1>2 DEF IsTable

LEMMA EmptyTable == Empty \in Tables /\ DOMAIN Empty = {}
<1>1. Empty \in [{} -> Profiles] /\ DOMAIN Empty = {}
  BY DEF Empty
<1> QED
  BY <1>1 DEF Tables

LEMMA SnapshotType ==
    ASSUME TablesOK, NEW D \in SUBSET Ifaces PROVE Snapshot(D) \in Saved
<1>1. [i \in Actives \cap D |-> actives[i]] \in [Actives \cap D -> Profiles]
  BY DEF TablesOK, IsTable, Actives
<1>2. [i \in Actives \cap D |-> actives[i]] \in Tables
  BY <1>1 DEF Tables
<1> QED
  BY <1>2 DEF Snapshot, Saved, TablesOK

LEMMA NoRollType ==
    /\ NoSnapshot \in Saved /\ NoRoll \in Roll /\ NoRoll.pc = "idle"
    /\ NoRoll.snap = NoSnapshot /\ NoSnapshot.profiles = {} /\ NoSnapshot.actives = Empty
<1>1. NoSnapshot \in Saved
  BY EmptyTable DEF NoSnapshot, Saved
<1> QED
  BY <1>1, EmptyTable DEF NoRoll, NoSnapshot, Roll, RollPcs

LEMMA RollInitTypes == RollbackInit => RollTypeInv
<1> SUFFICES ASSUME RollbackInit PROVE RollTypeInv
  OBVIOUS
<1>1. TypeInv
  BY InitTypes DEF RollbackInit
<1>2. StoresOK
  BY <1>1 DEF RollbackInit, StoresOK, TypeInv, TablesOK
<1> QED
  BY <1>1, <1>2, NoRollType DEF RollbackInit, RollTypeInv, RollOK

\* What a step of a rollback leaves alone keeps its types.
LEMMA RollLeavesAlone ==
    ASSUME RollTypeInv
    PROVE  /\ UNCHANGED world => LinksOK'
           /\ UNCHANGED tables => TablesOK'
           /\ UNCHANGED <<exported, told>> => ObjectsOK'
           /\ UNCHANGED calls => CallsOK'
           /\ UNCHANGED sync => SyncOK'
           /\ UNCHANGED vars => TypeInv'
           /\ UNCHANGED stores => StoresOK'
           /\ UNCHANGED <<checkpoint, roll>> => RollOK'
  BY LeftAlone DEF RollTypeInv, vars, TypeInv, stores, StoresOK, RollOK

LEMMA CheckpointTypes ==
    ASSUME RollTypeInv, CheckpointCreate \/ ListCheckpoint \/ CheckpointRollback \/ RestoreFiles
    PROVE  RollTypeInv'
<1>0. TablesOK /\ StoresOK /\ RollOK /\ roll.snap \in Saved
  BY DEF RollTypeInv, TypeInv, RollOK, Roll
<1>v. TypeInv'
  BY RollLeavesAlone DEF CheckpointCreate, ListCheckpoint, CheckpointRollback, RestoreFiles
<1> USE DEF RollPcs
<1>1. CASE CheckpointCreate
  <2>1. PICK D \in SUBSET Ifaces : roll' = [NoRoll EXCEPT !.pc = "snapshot", !.snap = Snapshot(D)]
    BY <1>1 DEF CheckpointCreate
  <2>2. RollOK'
    BY <1>0, <1>1, <2>1, NoRollType, SnapshotType DEF CheckpointCreate, RollOK, Roll
  <2> QED
    BY <1>1, <1>v, <2>2, RollLeavesAlone DEF CheckpointCreate, RollTypeInv
<1>2. CASE ListCheckpoint
  <2>1. checkpoint' \in Saved
    BY <1>0, <1>2 DEF ListCheckpoint, Saved, StoresOK
  <2> QED
    BY <1>2, <1>v, <2>1, NoRollType, RollLeavesAlone DEF ListCheckpoint, RollTypeInv, RollOK
<1>3. CASE CheckpointRollback
  <2>1. actives \in Tables
    BY <1>0, TablesAre DEF TablesOK
  <2>2. roll' \in Roll
    BY <1>0, <1>3, <2>1 DEF CheckpointRollback, RollOK, Roll
  <2> QED
    BY <1>3, <1>v, <2>2, NoRollType, RollLeavesAlone DEF CheckpointRollback, RollTypeInv, RollOK
<1>4. CASE RestoreFiles
  <2>1. files' \subseteq Kept
    BY <1>0, <1>4 DEF RestoreFiles, SetsBetween, StoresOK, Saved
  <2>2. roll' \in Roll
    BY <1>0, <1>4, NoRollType DEF RestoreFiles, RollGoto, RollOK, Roll
  <2> QED
    BY <1>0, <1>4, <1>v, <2>1, <2>2 DEF RestoreFiles, RollTypeInv, RollOK, StoresOK
<1> QED
  BY <1>1, <1>2, <1>3, <1>4

LEMMA RestoreTypes ==
    ASSUME RollTypeInv, Restore \/ TakeDown \/ BringUp \/ Hide \/ Show \/ Announce
    PROVE  RollTypeInv'
<1>0. /\ TypeInv /\ TablesOK /\ LinksOK /\ ObjectsOK /\ StoresOK /\ RollOK /\ roll \in Roll
      /\ roll.snap \in Saved /\ roll.todo \subseteq Ifaces /\ Actives \subseteq Ifaces
  BY DEF RollTypeInv, TypeInv, RollOK, Roll, TablesOK, IsTable, Actives
<1>s. /\ IsTable(roll.snap.actives) /\ DOMAIN roll.snap.actives \subseteq Ifaces
      /\ DOMAIN roll.current \subseteq Ifaces
  BY <1>0, TableIs DEF Roll, Saved
<1>o. CallsOK' /\ SyncOK' /\ StoresOK' /\ checkpoint' \in Saved
  BY <1>0, RollLeavesAlone DEF Restore, TakeDown, BringUp, Hide, Show, Announce, RollOK
<1> USE DEF RollPcs
<1>1. CASE Restore
  <2>1. TablesOK'
    BY <1>0, <1>1, <1>s DEF Restore, TablesOK, Saved
  <2>2. roll' \in Roll
    BY <1>0, <1>1, <1>s DEF Restore, Roll
  <2> QED
    BY <1>1, <1>o, <2>1, <2>2, RollLeavesAlone DEF Restore, TypeInv, RollTypeInv, RollOK
<1>2. CASE TakeDown
  <2>1. LinksOK'
    BY <1>0, <1>2 DEF TakeDown, LinksOK
  <2>2. roll' \in Roll
    BY <1>0, <1>2, <1>s DEF TakeDown, Roll
  <2> QED
    BY <1>2, <1>o, <2>1, <2>2, RollLeavesAlone DEF TakeDown, TypeInv, RollTypeInv, RollOK
<1>3. CASE BringUp
  <2>1. LinksOK'
    BY <1>0, <1>3 DEF BringUp, LinksOK
  <2>2. roll' \in Roll
    BY <1>0, <1>3, <1>s DEF BringUp, Roll
  <2> QED
    BY <1>3, <1>o, <2>1, <2>2, RollLeavesAlone DEF BringUp, TypeInv, RollTypeInv, RollOK
<1>4. CASE Hide
  <2>1. UNCHANGED exported \/ \E i \in roll.todo : exported' = Drop(exported, i)
    BY <1>4 DEF Hide
  <2>2. IsTable(exported')
    BY <1>0, <2>1, DropTable DEF ObjectsOK
  <2>3. ObjectsOK'
    BY <1>0, <1>4, <2>2 DEF Hide, ObjectsOK
  <2>4. roll' \in Roll
    BY <1>0, <1>4 DEF Hide, Roll
  <2> QED
    BY <1>4, <1>o, <2>3, <2>4, RollLeavesAlone DEF Hide, TypeInv, RollTypeInv, RollOK
<1>5. CASE Show
  <2>1. \/ UNCHANGED exported
        \/ \E i \in Actives : exported' = Export(exported, i, actives[i])
    BY <1>5 DEF Show
  <2>2. \A i \in Actives : actives[i] \in Profiles
    BY <1>0 DEF TablesOK, IsTable, Actives
  <2>3. IsTable(exported')
    BY <1>0, <2>1, <2>2, PutTable DEF ObjectsOK
  <2>4. ObjectsOK'
    BY <1>0, <1>5, <2>3 DEF Show, ObjectsOK
  <2>5. roll' \in Roll
    BY <1>0, <1>5 DEF Show, RollGoto, Roll
  <2> QED
    BY <1>5, <1>o, <2>4, <2>5, RollLeavesAlone DEF Show, TypeInv, RollTypeInv, RollOK
<1>6. CASE Announce
  <2>1. ObjectsOK'
    BY <1>0, <1>6, FactsType DEF Announce, ObjectsOK
  <2> QED
    BY <1>6, <1>o, <2>1, NoRollType, RollLeavesAlone DEF Announce, TypeInv, RollTypeInv, RollOK
<1> QED
  BY <1>1, <1>2, <1>3, <1>4, <1>5, <1>6

LEMMA RollStepTypes == RollTypeInv /\ [RollbackNext]_allVars => RollTypeInv'
<1> SUFFICES ASSUME RollTypeInv, [RollbackNext]_allVars PROVE RollTypeInv'
  OBVIOUS
<1>1. CASE UNCHANGED allVars
  BY <1>1, RollLeavesAlone DEF allVars, RollTypeInv
<1>2. CASE RollTask
  BY <1>2, CheckpointTypes, RestoreTypes DEF RollTask, RollStep
<1>3. CASE Others
  <2>1. TypeInv'
    BY <1>3, StepTypes DEF Others, RollTypeInv, Next
  <2>2. StoresOK'
    BY <1>3, <2>1 DEF Others, FollowTable, RollTypeInv, StoresOK, TypeInv, TablesOK
  <2> QED
    BY <1>3, <2>1, <2>2, RollLeavesAlone DEF Others, RollTypeInv
<1> QED
  BY <1>1, <1>2, <1>3 DEF RollbackNext

LEMMA RollTypeInvariant == RollbackSpec => []RollTypeInv
  BY RollInitTypes, RollStepTypes, PTL DEF RollbackSpec

\* RollbackTypeOK whatever is called, saved and restored, and whatever fails.
THEOREM RollbackTypesCorrect == RollbackSpec => []RollbackTypeOK
<1>1. RollTypeInv => RollbackTypeOK
  <2> SUFFICES ASSUME RollTypeInv PROVE RollbackTypeOK
    OBVIOUS
  <2>1. TypeOK
    BY DEF RollTypeInv, TypeInv, TypeOK, LinksOK, TablesOK, ObjectsOK, CallsOK, SyncOK
  <2>2. \A s \in Saved : IsSnapshot(s)
    BY TableIs DEF Saved, IsSnapshot, Kept
  <2> QED
    BY <2>1, <2>2, TableIs DEF RollTypeInv, StoresOK, RollOK, Roll, RollbackTypeOK
<1> QED
  BY <1>1, RollTypeInvariant, PTL

-----------------------------------------------------------------------------
(***************************************************************************)
(* Files and objects.  No step but Restore parts the objects from the      *)
(* tables.  The files stay with the tables because a snapshot is taken     *)
(* from tables and files that go together, and a rollback that comes to    *)
(* the tables has written the files (Taken).                               *)
(***************************************************************************)
Taken ==
    /\ roll.pc = "snapshot" => roll.snap.profiles \subseteq profiles
    /\ roll.pc = "restore" => roll.snap.files \subseteq files

LEMMA TakenStep == RollTypeInv /\ Taken /\ [RollbackNext]_allVars => Taken'
<1> SUFFICES ASSUME RollTypeInv, Taken, [RollbackNext]_allVars PROVE Taken'
  OBVIOUS
<1>0. roll \in Roll
  BY DEF RollTypeInv, RollOK
<1>e. NoRoll.pc = "idle"
  BY NoRollType
<1> USE DEF Taken
<1>1. CASE CheckpointCreate
  <2>1. PICK D \in SUBSET Ifaces : roll' = [NoRoll EXCEPT !.pc = "snapshot", !.snap = Snapshot(D)]
    BY <1>1 DEF CheckpointCreate
  <2>2. roll'.pc = "snapshot" /\ roll'.snap.profiles \subseteq profiles
    BY <2>1 DEF NoRoll, Snapshot
  <2> QED
    BY <1>1, <2>2 DEF CheckpointCreate, vars, tables
<1>2. CASE RestoreFiles
  <2>1. \/ roll'.pc = "restore" /\ roll'.snap = roll.snap /\ roll.snap.files \subseteq files'
        \/ roll'.pc = "idle"
    BY <1>0, <1>2, <1>e DEF RestoreFiles, RollGoto, Roll
  <2> QED
    BY <2>1
<1>3. CASE ListCheckpoint \/ CheckpointRollback \/ Announce
  <2>1. roll'.pc \in {"idle", "files"}
    BY <1>3, <1>e DEF ListCheckpoint, CheckpointRollback, Announce
  <2> QED
    BY <2>1
<1>4. CASE Restore \/ TakeDown \/ BringUp \/ Hide \/ Show
  <2>1. roll'.pc \in {"deactivate", "activate", "hide", "show", "read"}
    BY <1>0, <1>4 DEF Restore, TakeDown, BringUp, Hide, Show, RollGoto, RollAt, Roll
  <2> QED
    BY <2>1
<1>5. CASE Others
  BY <1>5 DEF Others, RollAt
<1>6. CASE UNCHANGED allVars
  BY <1>6 DEF allVars, vars, tables, stores
<1> QED
  BY <1>1, <1>2, <1>3, <1>4, <1>5, <1>6 DEF RollbackNext, RollTask, RollStep

LEMMA TakenInvariant == RollbackSpec => [](RollTypeInv /\ Taken)
<1>1. RollbackInit => Taken
  BY NoRollType DEF RollbackInit, Taken
<1> QED
  BY <1>1, RollInitTypes, RollStepTypes, TakenStep, PTL DEF RollbackSpec

LossStep == Loss' => Loss \/ (RollAt("files") /\ roll' = NoRoll)

LEMMA StepLosesNoFile == RollTypeInv /\ Taken /\ RollbackNext => LossStep
<1> SUFFICES ASSUME RollTypeInv, Taken, RollbackNext PROVE LossStep
  OBVIOUS
<1>0. roll \in Roll /\ checkpoint \in Saved
  BY DEF RollTypeInv, RollOK
<1>e. NoRoll.pc = "idle" /\ NoRoll.snap.profiles = {} /\ NoSnapshot.profiles = {}
  BY NoRollType
<1> USE DEF LossStep, Loss, Lost, RollAt
<1>1. CASE CheckpointCreate
  <2>1. roll'.pc = "snapshot" /\ roll.pc = "idle"
    BY <1>1 DEF CheckpointCreate, NoRoll, MayBegin
  <2> QED
    BY <1>1, <2>1 DEF CheckpointCreate, vars, tables, stores
<1>2. CASE ListCheckpoint
  <2>1. /\ checkpoint'.profiles = roll.snap.profiles /\ checkpoint'.files = files
        /\ roll' = NoRoll /\ roll.pc = "snapshot" /\ UNCHANGED <<profiles, files>>
    BY <1>0, <1>2 DEF ListCheckpoint, Roll, Saved, vars, tables, stores
  <2>2. roll.snap.profiles \subseteq profiles
    BY <2>1 DEF Taken
  <2> QED
    BY <1>e, <2>1, <2>2
<1>3. CASE CheckpointRollback
  <2>1. /\ checkpoint' = NoSnapshot /\ roll'.snap = checkpoint /\ roll.pc = "idle"
        /\ UNCHANGED <<profiles, files>>
    BY <1>3 DEF CheckpointRollback, MayBegin, vars, tables, stores
  <2> QED
    BY <1>e, <2>1
<1>4. CASE RestoreFiles
  <2>1. CASE roll' = NoRoll
    BY <1>4, <2>1 DEF RestoreFiles
  <2>2. CASE RollGoto("restore")
    <3>1. roll'.pc = "restore" /\ roll'.snap = roll.snap /\ roll.pc = "files"
      BY <1>0, <1>4, <2>2 DEF RestoreFiles, RollGoto, Roll
    <3> QED
      BY <1>4, <3>1 DEF RestoreFiles
  <2> QED
    BY <1>4, <2>1, <2>2 DEF RestoreFiles
<1>5. CASE Restore
  <2>1. /\ profiles' = roll.snap.profiles /\ roll'.snap = roll.snap /\ roll.pc = "restore"
        /\ UNCHANGED <<files, checkpoint>>
    BY <1>0, <1>5 DEF Restore, Roll, stores
  <2>2. roll.snap.files \subseteq files
    BY <2>1 DEF Taken
  <2> QED
    BY <2>1, <2>2
<1>6. CASE TakeDown \/ BringUp \/ Hide \/ Show
  <2>1. /\ roll'.snap = roll.snap /\ roll.pc \notin {"restore", "snapshot"}
        /\ UNCHANGED <<profiles, files, checkpoint>>
    BY <1>0, <1>6 DEF TakeDown, BringUp, Hide, Show, RollGoto, Roll, stores, tables
  <2> QED
    BY <2>1
<1>7. CASE Announce
  <2>1. roll.pc = "read" /\ roll' = NoRoll /\ UNCHANGED <<profiles, files, checkpoint>>
    BY <1>7 DEF Announce, stores, tables
  <2> QED
    BY <1>e, <2>1
<1>8. CASE Others
  \* What is added gets its file, and nothing that stays loses it.
  <2>1. roll.pc = "idle" /\ UNCHANGED <<checkpoint, roll>> /\ FollowTable
    BY <1>8 DEF Others
  <2>2. (profiles' \cap Kept) \ files' \subseteq (profiles \cap Kept) \ files
    BY <2>1 DEF FollowTable
  <2> QED
    BY <2>1, <2>2
<1> QED
  BY <1>1, <1>2, <1>3, <1>4, <1>5, <1>6, <1>7, <1>8 DEF RollbackNext, RollTask, RollStep

\* Of OnlyFailureLosesFiles: a profile in the table, or in a checkpoint, keeps its file
\* but for a rollback that fails in its files, however many callers there are.
THEOREM FilesStayWithTables == RollbackSpec => OnlyFailureLosesFiles
<1>1. RollTypeInv /\ Taken /\ [RollbackNext]_allVars => [LossStep]_allVars
  BY StepLosesNoFile
<1> QED
  BY <1>1, TakenInvariant, PTL DEF RollbackSpec, OnlyFailureLosesFiles, LossStep

\* Of OnlyRollbackParts: but for the step that restores the tables, no step leaves an
\* object without its record, be it of an active connection or of a profile.
THEOREM ObjectsStayWithTables == RollbackSpec => OnlyRollbackParts
<1> DEFINE Parts == /\ NoOrphanMade
                    /\ shown' \ profiles' \subseteq shown \ profiles
<1>1. RollTypeInv /\ [RollbackNext]_allVars => [~RollAt("restore") => Parts]_allVars
  <2> SUFFICES ASSUME RollTypeInv, RollbackNext, ~RollAt("restore") PROVE Parts
    OBVIOUS
  <2>1. CASE RollTask
    <3>1. UNCHANGED <<actives, calls, sync, profiles, shown>>
      BY <2>1 DEF RollTask, CheckpointCreate, CheckpointRollback, RollStep, ListCheckpoint, RestoreFiles, Restore,
         TakeDown, BringUp, Hide, Show, Announce, vars, tables, stores
    <3>2. DOMAIN exported' \subseteq DOMAIN exported \cup Actives
      <4>1. CASE Hide
        BY <4>1 DEF Hide, Drop
      <4>2. CASE Show
        <5>1. ASSUME NEW i \in Actives, NEW p
              PROVE  DOMAIN Export(exported, i, p) \subseteq DOMAIN exported \cup Actives
          BY <5>1 DEF Export, Put
        <5> QED
          BY <4>2, <5>1 DEF Show
      <4>3. CASE ~Hide /\ ~Show
        BY <2>1, <4>3 DEF RollTask, CheckpointCreate, CheckpointRollback, RollStep, ListCheckpoint,
           RestoreFiles, Restore, TakeDown, BringUp, Announce, vars
      <4> QED
        BY <4>1, <4>2, <4>3
    <3> QED
      BY <3>1, <3>2 DEF NoOrphanMade, Orphan, Between, Of, Actives
  <2>2. CASE Others
    <3>1. shown' \ profiles' \subseteq shown \ profiles
      BY <2>2 DEF Others, FollowTable
    <3>2. ASSUME Change PROVE NoOrphanMade
      BY <3>2, Zenon DEF Change, tables, NoOrphanMade, Orphan, Between, Of, Actives
    <3> QED
      BY <2>2, <3>1, <3>2, CallsMakeNoOrphan, SyncMakesNoOrphan DEF Others, RollTypeInv, TypeInv
  <2> QED
    BY <2>1, <2>2 DEF RollbackNext
<1> QED
  BY <1>1, RollTypeInvariant, PTL DEF RollbackSpec, OnlyRollbackParts, NoOrphanMade

-----------------------------------------------------------------------------
(***************************************************************************)
(* A rollback is alone.  What its steps have done so far, no other step    *)
(* can disturb.                                                            *)
(***************************************************************************)
Restored == {"deactivate", "activate", "hide", "show", "read"}
Stays(i) == i \notin DOMAIN roll.current \ DOMAIN roll.snap.actives
Progress ==
    /\ roll.pc \in Restored => actives = roll.snap.actives
    /\ roll.pc = "hide" => \A i \in Actives \ roll.todo : i \notin DOMAIN exported
    /\ roll.pc = "show" => \A i \in Actives :
           IF i \in roll.todo THEN i \notin DOMAIN exported ELSE Shows(i)
    /\ roll.pc = "read" => \A i \in Actives : Shows(i)
Lowered ==
    /\ roll.pc = "deactivate" => \A i \in up : Stays(i) \/ i \in roll.todo
    /\ roll.pc \in Restored \ {"deactivate"} => \A i \in up : Stays(i)
    /\ roll.pc = "activate" => roll.todo \subseteq DOMAIN roll.snap.actives

LEMMA RestoreMoves ==
    ASSUME RollTypeInv, Restore
    PROVE  /\ roll.pc = "restore" /\ roll'.pc = "deactivate"
           /\ UNCHANGED <<roll.snap, roll.current, checkpoint>>
           /\ roll'.todo = DOMAIN roll.current \ DOMAIN roll.snap.actives
           /\ actives' = roll.snap.actives
           /\ switches'.networking = roll.snap.networking
           /\ switches'.sleeping = roll.snap.sleeping
<1>1. roll \in Roll /\ TablesOK
  BY DEF RollTypeInv, TypeInv, RollOK
<1>2. roll.pc = "restore" /\ actives' = roll.snap.actives /\ UNCHANGED checkpoint
  BY DEF Restore, RollAt
<1>3. /\ roll'.pc = "deactivate" /\ UNCHANGED <<roll.snap, roll.current>>
      /\ roll'.todo = DOMAIN roll.current \ DOMAIN roll.snap.actives
  BY <1>1 DEF Restore, Roll
<1>4. /\ switches'.networking = roll.snap.networking
      /\ switches'.sleeping = roll.snap.sleeping
  BY <1>1 DEF Restore, TablesOK
<1> QED
  BY <1>2, <1>3, <1>4

\* The other steps of a rollback leave the part that follows its Restore.
LEMMA OtherMoves ==
    ASSUME RollTypeInv,
           CheckpointCreate \/ ListCheckpoint \/ CheckpointRollback \/ RestoreFiles \/ Announce
    PROVE  roll'.pc \notin Restored
<1>0. roll \in Roll
  BY DEF RollTypeInv, RollOK
<1>1. CASE CheckpointCreate
  <2>1. PICK D \in SUBSET Ifaces : roll' = [NoRoll EXCEPT !.pc = "snapshot", !.snap = Snapshot(D)]
    BY <1>1 DEF CheckpointCreate
  <2>2. roll'.pc = "snapshot"
    BY <2>1, NoRollType DEF Roll
  <2> QED
    BY <2>2 DEF Restored
<1>2. CASE ListCheckpoint \/ Announce
  BY <1>2, NoRollType DEF ListCheckpoint, Announce, Restored
<1>3. CASE CheckpointRollback
  BY <1>3 DEF CheckpointRollback, Restored
<1>4. CASE RestoreFiles
  BY <1>0, <1>4, NoRollType DEF RestoreFiles, RollGoto, Roll, Restored
<1> QED
  BY <1>1, <1>2, <1>3, <1>4

LEMMA ProgressStep ==
    ASSUME RollTypeInv, Progress, RollbackNext PROVE Progress'
<1>0. roll \in Roll /\ Actives \in SUBSET Ifaces
  BY DEF RollTypeInv, RollOK, TypeInv, TablesOK, IsTable, Actives
<1> USE DEF Progress, Restored, Shows, Actives
<1>1. CASE roll'.pc = "idle" \/ roll'.pc \notin Restored
  BY <1>1
<1>2. CASE Restore
  BY <1>2, RestoreMoves
<1>3. CASE TakeDown \/ BringUp
  <2>1. UNCHANGED <<actives, roll.snap>> /\ roll.pc \in {"deactivate", "activate"}
        /\ roll'.pc \in {"deactivate", "activate", "hide"}
        /\ (roll'.pc = "hide" => roll'.todo = Actives)
    BY <1>0, <1>3 DEF TakeDown, BringUp, RollAt, tables, Roll
  <2> QED
    BY <2>1
<1>4. CASE Hide
  <2>1. UNCHANGED actives /\ roll.pc = "hide"
    BY <1>4 DEF Hide, tables, RollAt
  <2>2. CASE roll.todo = {} /\ UNCHANGED exported
              /\ roll' = [roll EXCEPT !.pc = "show", !.todo = Actives]
    BY <1>0, <2>1, <2>2 DEF Roll
  <2>3. ASSUME NEW i \in roll.todo, exported' = Drop(exported, i),
               roll' = [roll EXCEPT !.todo = @ \ {i}]
        PROVE  Progress'
    BY <1>0, <2>1, <2>3 DEF Roll, Drop
  <2> QED
    BY <1>4, <2>2, <2>3 DEF Hide
<1>5. CASE Show
  <2>1. UNCHANGED actives /\ roll.pc = "show"
    BY <1>5 DEF Show, tables, RollAt
  <2>2. CASE roll.todo = {} /\ RollGoto("read") /\ UNCHANGED exported
    BY <1>0, <2>1, <2>2 DEF Roll, RollGoto
  <2>3. ASSUME NEW i \in roll.todo,
               exported' = IF i \in Actives THEN Export(exported, i, actives[i]) ELSE exported,
               roll' = [roll EXCEPT !.todo = @ \ {i}]
        PROVE  Progress'
    BY <1>0, <2>1, <2>3 DEF Roll, Export, Put
  <2> QED
    BY <1>5, <2>2, <2>3 DEF Show
<1>6. CASE Others
  BY <1>1, <1>6 DEF Others, RollAt
<1>7. CASE CheckpointCreate \/ ListCheckpoint \/ CheckpointRollback \/ RestoreFiles \/ Announce
  BY <1>1, <1>7, OtherMoves
<1> QED
  BY <1>2, <1>3, <1>4, <1>5, <1>6, <1>7 DEF RollbackNext, RollTask, RollStep

\* Links may stay up only if a backend refuses.
LEMMA LoweredStep ==
    ASSUME RollTypeInv, Lowered, RollbackNext, ~Failures PROVE Lowered'
<1>0. roll \in Roll /\ Actives \in SUBSET Ifaces
  BY DEF RollTypeInv, RollOK, TypeInv, TablesOK, IsTable, Actives
<1> USE DEF Lowered, Restored, Stays
<1>1. CASE roll'.pc \notin Restored
  BY <1>1
<1>2. CASE Restore
  <2>1. UNCHANGED up
    BY <1>2 DEF Restore, world
  <2> QED
    BY <1>2, <2>1, RestoreMoves
<1>3. CASE TakeDown
  <2>1. roll.pc = "deactivate"
    BY <1>3 DEF TakeDown, RollAt
  <2>2. ASSUME roll.todo = {}, UNCHANGED up,
               roll' = [roll EXCEPT !.pc = "activate",
                                    !.todo = DOMAIN roll.snap.actives \ DOMAIN roll.current]
        PROVE  Lowered'
    <3>1. DOMAIN roll.snap.actives \subseteq Ifaces
      BY <1>0, TableIs DEF Roll, Saved
    <3> QED
      BY <1>0, <2>1, <2>2, <3>1 DEF Roll
  <2>3. ASSUME NEW i \in roll.todo, roll' = [roll EXCEPT !.todo = @ \ {i}], up' = up \ {i}
        PROVE  Lowered'
    BY <1>0, <2>1, <2>3 DEF Roll
  <2> QED
    BY <1>3, <2>2, <2>3 DEF TakeDown
<1>4. CASE BringUp
  <2>1. roll.pc = "activate"
    BY <1>4 DEF BringUp, RollAt
  <2>2. ASSUME roll.todo = {}, UNCHANGED up, roll' = [roll EXCEPT !.pc = "hide", !.todo = Actives]
        PROVE  Lowered'
    BY <1>0, <2>1, <2>2 DEF Roll
  <2>3. ASSUME NEW i \in roll.todo, roll' = [roll EXCEPT !.todo = @ \ {i}],
               up' \subseteq up \cup {i}
        PROVE  Lowered'
    BY <1>0, <2>1, <2>3 DEF Roll
  <2> QED
    BY <1>4, <2>2, <2>3 DEF BringUp
<1>5. CASE Hide \/ Show
  <2>1. /\ UNCHANGED <<up, roll.snap, roll.current>> /\ roll.pc \in {"hide", "show"}
        /\ roll'.pc \in {"hide", "show", "read"}
    BY <1>0, <1>5 DEF Hide, Show, RollGoto, RollAt, Roll, world
  <2> QED
    BY <2>1
<1>6. CASE Others
  BY <1>1, <1>6 DEF Others, RollAt
<1>7. CASE CheckpointCreate \/ ListCheckpoint \/ CheckpointRollback \/ RestoreFiles \/ Announce
  BY <1>1, <1>7, OtherMoves
<1> QED
  BY <1>2, <1>3, <1>4, <1>5, <1>6, <1>7 DEF RollbackNext, RollTask, RollStep

\* Of RollsBack: if backends never refuse, a rollback that comes to its announcement
\* has restored the active connections, shows each, and left no other link up.
THEOREM RollbackRestores == ASSUME ~Failures PROVE RollbackSpec => []RollsBack
<1>1. RollbackInit => Progress /\ Lowered
  BY DEF RollbackInit, NoRoll, Progress, Lowered, Restored
<1>2. RollTypeInv /\ Progress /\ Lowered /\ [RollbackNext]_allVars => (Progress /\ Lowered)'
  <2>1. CASE UNCHANGED allVars
    BY <2>1 DEF allVars, vars, world, tables, Progress, Lowered, Shows, Stays, Actives
  <2> QED
    BY <2>1, ProgressStep, LoweredStep
<1>3. Progress /\ Lowered => RollsBack
  BY DEF Progress, Lowered, Restored, Stays, Shows, RollsBack, RollAt, Actives
<1> QED
  BY <1>1, <1>2, <1>3, RollTypeInvariant, PTL DEF RollbackSpec

-----------------------------------------------------------------------------
(***************************************************************************)
(* With one caller nobody calls while a rollback is under way, and what    *)
(* holds of a call (CallerInv) holds but while objects are being replaced. *)
(* Networking that is off, now or in a snapshot, has nothing active, or a  *)
(* sweep that will end with that is under way.                             *)
(***************************************************************************)
Inactive(f) == \A i \in DOMAIN f : KindOf[f[i]] = "other"
EndingBy(c) == /\ calls[c].op \in {"networking", "sleep"}
               /\ calls[c].pc \in Sweeping \cup Deactivating
ClearBy(c) == Online \/ Inactive(actives) \/ EndingBy(c)
WasOnline(s) == s.networking /\ ~s.sleeping
CoveredIn(s) == WasOnline(s) \/ Inactive(s.actives)
Covered == /\ CoveredIn(roll.snap) /\ CoveredIn(checkpoint)
           /\ Online \/ Inactive(actives) \/ \E c \in Clients : EndingBy(c)
AloneInv ==
    /\ roll.pc # "idle" => Resting
    /\ roll.pc \notin Restored \ {"read"} => Shown
    /\ SyncAt("idle") /\ \A c \in Clients : CallerOK(c)

LEMMA RequestClears ==
    ASSUME TypeInv, NEW c \in Clients, ClearBy(c), Request(c) PROVE ClearBy(c)'
<1>0. CallsOK /\ TablesOK
  BY DEF TypeInv
<1>1. UNCHANGED actives /\ ~EndingBy(c)
  BY DEF Request, Activate, AddAndActivate, Deactivate, Disconnect, Switch, Delete, MayCall, At,
     tables, EndingBy, Sweeping, Deactivating
<1>2. CASE Switch(c)
  <2>1. PICK on \in BOOLEAN :
            \/ /\ switches' = [switches EXCEPT !.networking = on]
               /\ Begin(c, "networking", IF on THEN "read" ELSE "list", Nowhere, Nowhere, NoOne)
            \/ /\ switches' = [switches EXCEPT !.sleeping = ~on]
               /\ Begin(c, "sleep", IF on THEN "read" ELSE "list", Nowhere, Nowhere, NoOne)
            \/ /\ switches' = [switches EXCEPT !.wireless = on]
               /\ Begin(c, "wireless", IF on THEN "read" ELSE "list", Nowhere, Nowhere, NoOne)
    BY <1>2 DEF Switch
  <2>2. CASE on \/ switches' = [switches EXCEPT !.wireless = on]
    <3>1. Online => Online'
      BY <1>0, <2>1, <2>2 DEF Online, TablesOK
    <3> QED
      BY <1>1, <3>1 DEF ClearBy, Inactive
  <2>3. ASSUME ~on, NEW op \in {"networking", "sleep"},
               Begin(c, op, "list", Nowhere, Nowhere, NoOne)
        PROVE  ClearBy(c)'
    <3>1. calls'[c].op = op /\ calls'[c].pc = "list"
      BY <1>0, <2>3, BeginMoves DEF OpNames, Pcs
    <3> QED
      BY <3>1 DEF ClearBy, EndingBy, Sweeping
  <2> QED
    BY <2>1, <2>2, <2>3
<1>3. CASE ~Switch(c)
  <2>1. UNCHANGED switches
    BY <1>3 DEF Request, Activate, AddAndActivate, Deactivate, Disconnect, Delete, tables
  <2> QED
    BY <1>1, <2>1 DEF ClearBy, Online, Inactive
<1> QED
  BY <1>2, <1>3

\* A sweep that ends has met every record of the kinds it clears; nothing becomes
\* active while networking is off.
LEMMA StepClears ==
    ASSUME TypeInv, NEW c \in Clients, CallerOK(c), ClearBy(c), Step(c), ~Failures
    PROVE  ClearBy(c)'
<1>0. CallsOK /\ CallFits(c) /\ TablesOK /\ calls[c] \in Call
  BY DEF TypeInv, CallsOK
<1>1. UNCHANGED switches
  BY DEF Step, Check, Connect, Unexport, ExportActive, Record, List, Sweep, Look, Down, Unrecord,
     Unpublish, Read, Send, tables
<1>2. CASE Record(c)
  <2>1. Permitted(Kind(c))
    BY <1>2 DEF CallerOK, Allowed, Record, At, Activating
  <2> QED
    BY <1>1, <2>1 DEF Permitted, Online, ClearBy
<1>3. ASSUME ~Record(c), ~EndingBy(c) PROVE ClearBy(c)'
  <2>1. \A i \in Actives' : i \in Actives /\ actives'[i] = actives[i]
    BY <1>3 DEF Step, Check, Connect, Unexport, ExportActive, List, Sweep, Look, Down, Unrecord,
       Unpublish, Read, Send, tables, Actives, Drop
  <2> QED
    BY <1>1, <1>3, <2>1 DEF ClearBy, Online, Inactive, Actives
<1>4. ASSUME EndingBy(c) PROVE ClearBy(c)'
  <2>0. calls[c].op \in {"networking", "sleep"} /\ calls[c].op \in Switches
    BY <1>4 DEF EndingBy, Switches
  <2>g. ASSUME NEW pc \in Sweeping \cup Deactivating, Goto(c, pc) PROVE ClearBy(c)'
    <3>1. calls'[c].op = calls[c].op /\ calls'[c].pc = pc
      BY <1>0, <2>g, GotoMoves DEF Sweeping, Deactivating, Pcs
    <3> QED
      BY <2>0, <3>1 DEF ClearBy, EndingBy
  <2>1. CASE List(c)
    <3>1. calls'[c].op = calls[c].op /\ calls'[c].pc = "sweep"
      BY <1>0, <2>1 DEF List, CallsOK
    <3> QED
      BY <2>0, <3>1 DEF ClearBy, EndingBy, Sweeping
  <2>2. CASE Sweep(c)
    <3>1. CASE calls[c].todo = {}
      <4>1. Left(c) = {}
        BY <2>0, <2>2, <3>1 DEF CallerOK, Swept, Sweep, At
      <4>2. \A i \in Actives : KindOf[actives[i]] \in Kinds \ {"wifi", "ethernet"}
        BY <1>0, <2>0, <4>1, ActivationConstants DEF Left, Cleared, Actives, TablesOK, IsTable
      <4>3. UNCHANGED actives
        BY <2>2 DEF Sweep, tables
      <4> QED
        BY <4>2, <4>3 DEF ClearBy, Inactive, Actives, Kinds
    <3>2. ASSUME NEW i \in calls[c].todo,
                 calls' = [calls EXCEPT ![c].pc = "look", ![c].todo = @ \ {i},
                                        ![c].iface = i, ![c].dev = i]
          PROVE  ClearBy(c)'
      <4>1. calls'[c].op = calls[c].op /\ calls'[c].pc = "look"
        BY <1>0, <3>2 DEF CallsOK, Call
      <4> QED
        BY <2>0, <4>1 DEF ClearBy, EndingBy, Deactivating
    <3> QED
      BY <2>2, <3>1, <3>2 DEF Sweep
  <2>3. CASE Look(c)
    <3>1. ASSUME NEW p, calls' = [calls EXCEPT ![c].pc = "down", ![c].profile = p]
          PROVE  ClearBy(c)'
      <4>1. calls'[c].op = calls[c].op /\ calls'[c].pc = "down"
        BY <1>0, <3>1 DEF CallsOK, Call
      <4> QED
        BY <2>0, <4>1 DEF ClearBy, EndingBy, Deactivating
    <3> QED
      BY <2>3, <2>g, <3>1 DEF Look, Sweeping, Deactivating
  <2>4. CASE Down(c) \/ Unrecord(c)
    BY <2>4, <2>g DEF Down, Unrecord, Sweeping, Deactivating
  <2>5. CASE Unpublish(c)
    BY <2>0, <2>5, <2>g DEF Unpublish, Sweeping
  <2>6. ~(Check(c) \/ Connect(c) \/ Unexport(c) \/ ExportActive(c) \/ Record(c) \/ Read(c)
          \/ Send(c))
    BY <1>4 DEF Check, Connect, Unexport, ExportActive, Record, Read, Send, At, EndingBy, Sweeping,
       Deactivating
  <2> QED
    BY <2>1, <2>2, <2>3, <2>4, <2>5, <2>6 DEF Step
<1> QED
  BY <1>2, <1>3, <1>4

\* Calls and links, between two checkpoint calls
LEMMA OthersCovered ==
    ASSUME OneCaller, ~Failures, RollTypeInv, AloneInv, Covered, Others
    PROVE  AloneInv' /\ Covered'
<1>0. TypeInv /\ roll.pc = "idle" /\ UNCHANGED <<checkpoint, roll>>
  BY DEF RollTypeInv, Others, RollAt
<1>1. CallerInv /\ Next
  BY <1>0 DEF AloneInv, CallerInv, Restored, Others, Next
<1>2. CallerInv'
  BY <1>0, <1>1, CallerStep
<1>3. AloneInv'
  BY <1>0, <1>2 DEF AloneInv, CallerInv
<1>4. CASE Change
  <2>1. UNCHANGED <<switches, actives, calls>>
    BY <1>4 DEF Change, tables
  <2> QED
    BY <1>0, <1>3, <2>1 DEF Covered, CoveredIn, WasOnline, Inactive, EndingBy, Online
<1>5. ASSUME NEW c \in Clients, Request(c) \/ Step(c) PROVE Covered'
  <2>1. \A d \in Clients : d = c
    BY DEF OneCaller
  <2>2. ClearBy(c)
    BY <2>1 DEF Covered, ClearBy
  <2>3. ClearBy(c)'
    BY <1>0, <1>1, <1>5, <2>2, RequestClears, StepClears DEF CallerInv
  <2> QED
    BY <1>0, <2>3 DEF Covered, CoveredIn, WasOnline, Inactive, ClearBy
<1>6. ~SyncStep
  BY <1>1, NoPass DEF CallerInv
<1> QED
  BY <1>3, <1>4, <1>5, <1>6 DEF Others

\* Nobody has a call under way while a task of a checkpoint takes a step.
LEMMA TaskRests == ASSUME AloneInv, RollTask PROVE Resting
<1>1. CheckpointCreate \/ CheckpointRollback => Resting
  BY DEF CheckpointCreate, CheckpointRollback, MayBegin
<1>2. RollStep => roll.pc # "idle"
  BY DEF RollStep, ListCheckpoint, RestoreFiles, Restore, TakeDown, BringUp, Hide, Show, Announce,
     RollAt
<1> QED
  BY <1>1, <1>2 DEF AloneInv, RollTask

LEMMA TaskAlone ==
    ASSUME RollTypeInv, AloneInv, Progress, RollTask PROVE AloneInv'
<1>0. roll \in Roll /\ Resting
  BY TaskRests DEF RollTypeInv, RollOK
<1>1. UNCHANGED <<calls, sync>>
  BY DEF RollTask, CheckpointCreate, CheckpointRollback, RollStep, ListCheckpoint, RestoreFiles, Restore,
     TakeDown, BringUp, Hide, Show, Announce, vars
<1>2. Resting' /\ SyncAt("idle")'
  BY <1>0, <1>1 DEF Resting, At, AloneInv, SyncAt
<1>3. \A c \in Clients : CallerOK(c)'
  BY <1>0, <1>1 DEF AloneInv, Resting, At, CallerOK, Swept, Allowed, InHand, Activating
<1>4. roll'.pc \notin Restored \ {"read"} => Shown'
  <2>1. CASE Restore
    BY <2>1, RestoreMoves DEF Restored
  <2>2. CASE CheckpointCreate \/ ListCheckpoint \/ CheckpointRollback \/ RestoreFiles \/ Announce
    <3>1. UNCHANGED <<actives, exported>>
      BY <2>2 DEF CheckpointCreate, ListCheckpoint, CheckpointRollback, RestoreFiles, Announce, vars,
         tables
    <3>2. roll.pc \notin Restored \ {"read"}
      BY <2>2 DEF CheckpointCreate, ListCheckpoint, CheckpointRollback, RestoreFiles, Announce, RollAt,
         MayBegin, Restored
    <3> QED
      BY <1>1, <3>1, <3>2 DEF AloneInv, Shown, Shows, Of, Actives
  <2>3. CASE TakeDown \/ BringUp \/ Hide
    <3>1. roll'.pc \in Restored \ {"read"}
      BY <1>0, <2>3 DEF TakeDown, BringUp, Hide, RollAt, Roll, Restored
    <3> QED
      BY <3>1
  <2>4. CASE Show
    <3>1. CASE roll.todo = {} /\ RollGoto("read") /\ UNCHANGED exported
      <4>1. UNCHANGED actives /\ roll.pc = "show"
        BY <2>4 DEF Show, tables, RollAt
      <4>2. \A i \in Actives : Shows(i)
        BY <3>1, <4>1 DEF Progress
      <4> QED
        BY <3>1, <4>1, <4>2 DEF Shown, Shows, Actives
    <3>2. ASSUME NEW i \in roll.todo, roll' = [roll EXCEPT !.todo = @ \ {i}]
          PROVE  roll'.pc \in Restored \ {"read"}
      BY <1>0, <2>4, <3>2 DEF Show, RollAt, Roll, Restored
    <3> QED
      BY <2>4, <3>1, <3>2 DEF Show
  <2> QED
    BY <2>1, <2>2, <2>3, <2>4 DEF RollTask, RollStep
<1> QED
  BY <1>2, <1>3, <1>4 DEF AloneInv

\* A snapshot is taken, and restored, as one: the switches with what is active.
LEMMA TaskCovered ==
    ASSUME RollTypeInv, AloneInv, Covered, RollTask PROVE Covered'
<1>0. roll \in Roll /\ checkpoint \in Saved /\ Resting
  BY TaskRests DEF RollTypeInv, RollOK
<1>1. UNCHANGED calls /\ (Online \/ Inactive(actives)) /\ \A c \in Clients : ~EndingBy(c)
  <2>1. UNCHANGED calls
    BY DEF RollTask, CheckpointCreate, CheckpointRollback, RollStep, ListCheckpoint, RestoreFiles,
       Restore, TakeDown, BringUp, Hide, Show, Announce, vars
  <2>2. \A c \in Clients : ~EndingBy(c)
    BY <1>0 DEF Resting, At, EndingBy, Sweeping, Deactivating
  <2> QED
    BY <2>1, <2>2 DEF Covered
<1>e. CoveredIn(NoSnapshot)
  BY EmptyTable, NoRollType DEF CoveredIn, Inactive
<1> USE DEF Covered
<1>k. ASSUME UNCHANGED <<switches, actives>>, CoveredIn(roll'.snap), CoveredIn(checkpoint')
      PROVE  Covered'
  BY <1>1, <1>k DEF Online, Inactive, CoveredIn, WasOnline
<1>2. CASE CheckpointCreate
  <2>1. PICK D \in SUBSET Ifaces : roll' = [NoRoll EXCEPT !.pc = "snapshot", !.snap = Snapshot(D)]
    BY <1>2 DEF CheckpointCreate
  <2>2. roll'.snap = Snapshot(D)
    BY <2>1, NoRollType DEF Roll
  <2>3. CoveredIn(Snapshot(D))
    BY <1>1 DEF CoveredIn, WasOnline, Snapshot, Online, Inactive, Actives
  <2> QED
    BY <1>2, <1>k, <2>2, <2>3 DEF CheckpointCreate, vars, tables
<1>3. CASE ListCheckpoint
  <2>1. CoveredIn(checkpoint')
    <3>1. /\ checkpoint'.networking = roll.snap.networking
          /\ checkpoint'.sleeping = roll.snap.sleeping
          /\ checkpoint'.actives = roll.snap.actives
      BY <1>0, <1>3 DEF ListCheckpoint, Roll, Saved
    <3> QED
      BY <3>1 DEF CoveredIn, WasOnline
  <2> QED
    BY <1>3, <1>e, <1>k, <2>1, NoRollType DEF ListCheckpoint, vars, tables
<1>4. CASE CheckpointRollback
  BY <1>4, <1>e, <1>k DEF CheckpointRollback, vars, tables
<1>5. CASE RestoreFiles
  <2>1. CoveredIn(roll'.snap)
    BY <1>0, <1>5, <1>e, NoRollType DEF RestoreFiles, RollGoto, Roll
  <2> QED
    BY <1>5, <1>k, <2>1 DEF RestoreFiles, vars, tables
<1>6. CASE Restore
  BY <1>6, RestoreMoves DEF CoveredIn, WasOnline, Online
<1>7. CASE TakeDown \/ BringUp \/ Hide \/ Show
  <2>1. roll'.snap = roll.snap /\ UNCHANGED <<checkpoint, switches, actives>>
    BY <1>0, <1>7 DEF TakeDown, BringUp, Hide, Show, RollGoto, Roll, tables
  <2> QED
    BY <1>k, <2>1
<1>8. CASE Announce
  BY <1>8, <1>e, <1>k, NoRollType DEF Announce, tables
<1> QED
  BY <1>2, <1>3, <1>4, <1>5, <1>6, <1>7, <1>8 DEF RollTask, RollStep

\* Of OfflineIsInactive: with one caller and backends that never refuse, networking
\* that is off or asleep has no active connection of a kind it clears, be the switches
\* set by a call or by a rollback to any earlier checkpoint.
THEOREM RollbackKeepsOfflineInactive ==
    ASSUME OneCaller, ~Failures PROVE RollbackSpec => []OfflineIsInactive
<1>1. RollbackInit => Progress /\ AloneInv /\ Covered
  <2> SUFFICES ASSUME RollbackInit PROVE Progress /\ AloneInv /\ Covered
    OBVIOUS
  <2>1. Init /\ roll = NoRoll /\ checkpoint = NoSnapshot
    BY DEF RollbackInit
  <2>2. AloneInv
    BY <2>1, NoRollType DEF Init, AloneInv, SyncAt, Asleep, Shown, Actives, CallerOK, Swept, Allowed,
       InHand, Idle, Switches, Activating
  <2>3. Covered
    BY <2>1, NoRollType, EmptyTable DEF Init, Covered, CoveredIn, Inactive, Online
  <2> QED
    BY <2>1, <2>2, <2>3, NoRollType DEF Progress, Restored
<1>2. RollTypeInv /\ Progress /\ AloneInv /\ Covered /\ [RollbackNext]_allVars
      => (Progress /\ AloneInv /\ Covered)'
  <2> SUFFICES ASSUME RollTypeInv, Progress, AloneInv, Covered, [RollbackNext]_allVars
               PROVE  (Progress /\ AloneInv /\ Covered)'
    OBVIOUS
  <2>1. CASE UNCHANGED allVars
    <3>1. UNCHANGED <<actives, exported, switches, profiles, calls, sync, roll, checkpoint>>
      BY <2>1 DEF allVars, vars, tables
    <3>2. Progress'
      BY <3>1 DEF Progress, Shows, Actives
    <3>3. AloneInv'
      BY <3>1 DEF AloneInv, Resting, At, SyncAt, Shown, Shows, CallerOK, Swept, Allowed, InHand, Left,
         Off, Permitted, Online, Kind, Of, Actives, Facts, State
    <3>4. Covered'
      BY <3>1 DEF Covered, CoveredIn, WasOnline, Inactive, EndingBy, Online
    <3> QED
      BY <3>2, <3>3, <3>4
  <2> QED
    BY <2>1, ProgressStep, TaskAlone, TaskCovered, OthersCovered DEF RollbackNext
<1>3. RollTypeInv /\ AloneInv /\ Covered => OfflineIsInactive
  BY DEF Covered, OfflineIsInactive, Clearing, EndingBy, Inactive, Actives
<1> QED
  BY <1>1, <1>2, <1>3, RollTypeInvariant, PTL DEF RollbackSpec
=============================================================================

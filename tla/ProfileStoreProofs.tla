------------------------ MODULE ProfileStoreProofs ------------------------
(* Theorems about ProfileStore, for every value of its constants.          *)
EXTENDS ProfileStore, TLAPS

(***************************************************************************)
(* Types.  TypeOK is not inductive by itself: a task that is about to      *)
(* write or insert a record must hold a whole one.                         *)
(***************************************************************************)
HoldsRecord == {"check", "write", "unlinkOld", "apply", "insert", "export", "lookup", "overwrite"}
WholeRecords == \A c \in Clients : calls[c].pc \in HoldsRecord => calls[c].rec \in Record
TypeInv == TypeOK /\ WholeRecords

LEMMA LookupFinds ==
    ASSUME NEW p \in PathsOf(connections)
    PROVE  Lookup(p) \in connections /\ Lookup(p).path = p
BY DEF PathsOf, Lookup

LEMMA FileOfType ==
    ASSUME NEW r \in Record, Writable(r)
    PROVE  FileOf(r) \in Files
BY DEF Record, Writable, FileOf, Files, PlainFiles, NestedFiles, ImportedUuids, Kinds, Exts

LEMMA WithSettingsType ==
    ASSUME NEW r \in Record, NEW s \in Profiles
    PROVE  WithSettings(r, s) \in Record /\ WithSettings(r, s).path = r.path
BY ConstantsAssumption DEF Record, WithSettings, Settings

LEMMA ImportedType ==
    ASSUME NEW f \in PlainFiles, NEW b \in Bodies \cup {NoBody}
    PROVE  Imported(f, b) \in Record
<1>1. PICK stem \in Ssids \cup Uuids \cup Stems, ext \in Exts : f = <<stem, ext>>
  BY DEF PlainFiles
<1>2. f[1] \in Ssids \cup Uuids \cup Stems /\ f \in Files
  BY <1>1 DEF Files
<1>3. ImportedUuid(f) \in ImportedUuids
  BY DEF ImportedUuids
<1> QED
  BY <1>2, <1>3 DEF Imported, Record, Kinds

LEMMA StartupPaths ==
    /\ \A p \in PathsOf(Startup) : 0 < p /\ p < NextIdAfter(Startup)
    /\ \A r, s \in Startup : r.path = s.path => r = s
    /\ NextIdAfter(Startup) \in Nat \ {0}
<1>1. PICK n \in Nat : PathsOf(Startup) = 1..n
  BY ConstantsAssumption DEF PathsOf
<1>2. \A r, s \in Startup : r.path = s.path => r = s
  BY ConstantsAssumption
<1>3. CASE Startup = {}
  BY <1>3 DEF PathsOf, NextIdAfter
<1>4. CASE Startup # {}
  <2>1. n \in PathsOf(Startup) /\ \A q \in PathsOf(Startup) : q <= n
    BY <1>1, <1>4 DEF PathsOf
  <2> DEFINE m == CHOOSE p \in PathsOf(Startup) : \A q \in PathsOf(Startup) : q <= p
  <2>2. m \in PathsOf(Startup) /\ \A q \in PathsOf(Startup) : q <= m
    BY <2>1
  <2>3. NextIdAfter(Startup) = 1 + m
    BY <1>4 DEF NextIdAfter
  <2> HIDE DEF m
  <2> QED
    BY <1>1, <1>2, <2>2, <2>3
<1> QED
  BY <1>2, <1>3, <1>4

LEMMA InitTypes == Init => TypeInv
<1> SUFFICES ASSUME Init PROVE TypeInv
  OBVIOUS
<1>1. Idle \in Call
  BY DEF Idle, Call, Blank, Pcs, Kinds
<1>2. NextIdAfter(Startup) \in Nat \ {0}
  BY StartupPaths
<1>3. TypeOK
  BY <1>1, <1>2, ConstantsAssumption
     DEF Init, TypeOK, PathsOf, Record, Files, PlainFiles, Exts
<1>4. WholeRecords
  BY DEF Init, WholeRecords, Idle, HoldsRecord
<1> QED
  BY <1>3, <1>4 DEF TypeInv

(* A call enters the table of tasks with the types it needs.               *)
LEMMA IdleType == Idle \in Call
BY DEF Idle, Call, Blank, Pcs, Kinds

LEMMA BlankWithSettings ==
    ASSUME NEW s \in Profiles, s.uuid # NoUuid, NEW p \in Nat, NEW u \in BOOLEAN
    PROVE  [WithSettings(Blank, s) EXCEPT !.path = p, !.unsaved = u] \in Record
BY ConstantsAssumption DEF Record, WithSettings, Settings, Blank, Kinds

LEMMA EditTypes ==
    ASSUME TypeInv, NEW c \in Clients, NEW op \in MethodNames, NEW p \in Editable,
           NEW r \in Record, NEW ver \in Nat, StartEdit(c, op, p, r, ver),
           UNCHANGED <<connections, nextSettingsId, versionId, exported, files>>
    PROVE  TypeInv'
<1>1. Lookup(p) \in Record
  BY LookupFinds DEF Editable, TypeInv, TypeOK
<1> DEFINE pc == IF ver = 0 THEN PersistStep(r) ELSE "check"
<1>2. pc \in Pcs
  BY DEF PersistStep, Pcs
<1>3. Lookup(p).filename \in Files \cup {NoFile}
  BY <1>1 DEF Record
<1> HIDE DEF pc
<1>4. [Idle EXCEPT !.op = op, !.pc = pc, !.rec = r,
                   !.old = Lookup(p).filename, !.ver = ver] \in Call
  BY <1>2, <1>3, IdleType DEF Call
<1>5. TypeOK'
  BY <1>4 DEF TypeInv, TypeOK, StartEdit, pc
<1>6. WholeRecords'
  BY DEF TypeInv, TypeOK, WholeRecords, StartEdit, Idle
<1> QED
  BY <1>5, <1>6 DEF TypeInv

LEMMA RequestTypes ==
    ASSUME TypeInv, NEW c \in Clients, Request(c)
    PROVE  TypeInv'
<1>0. Idle \in Call /\ Idle.rec.path = 0
  BY IdleType DEF Idle, Blank
<1>1. CASE AddConnection(c)
  <2>1. PICK s \in { t \in Profiles : t.uuid # NoUuid }, unsaved \in BOOLEAN, p \in 1..MaxPath :
           /\ Allocate(p)
           /\ calls' = [calls EXCEPT ![c] = [Idle EXCEPT
                  !.op = "add",
                  !.pc = IF unsaved THEN "insert" ELSE "write",
                  !.rec = [WithSettings(Blank, s) EXCEPT !.path = p, !.unsaved = unsaved]]]
    BY <1>1 DEF AddConnection
  <2> DEFINE rec == [WithSettings(Blank, s) EXCEPT !.path = p, !.unsaved = unsaved]
  <2>2. rec \in Record
    <3>1. p \in Nat
      BY ConstantsAssumption
    <3> QED
      BY <3>1, BlankWithSettings
  <2> HIDE DEF rec
  <2>3. [Idle EXCEPT !.op = "add", !.pc = IF unsaved THEN "insert" ELSE "write",
                     !.rec = rec] \in Call
    BY <2>2, <1>0 DEF Call, Pcs, MethodNames
  <2>4. TypeOK'
    BY <1>1, <2>1, <2>3 DEF TypeInv, TypeOK, AddConnection, Allocate, rec
  <2>5. WholeRecords'
    BY <2>1, <2>2 DEF TypeInv, TypeOK, WholeRecords, Idle, rec
  <2> QED
    BY <2>4, <2>5 DEF TypeInv
<1>2. CASE Update(c)
  <2>1. PICK p \in Editable, s \in Profiles : StartEdit(c, "update", p, WithSettings(Lookup(p), s), 0)
    BY <1>2 DEF Update
  <2>2. WithSettings(Lookup(p), s) \in Record
    BY LookupFinds, WithSettingsType DEF Editable, TypeInv, TypeOK
  <2> QED
    BY <1>2, <2>1, <2>2, EditTypes DEF Update, MethodNames
<1>3. CASE UpdateUnsaved(c)
  <2>1. PICK p \in Editable, s \in Profiles :
           StartEdit(c, "updateUnsaved", p, [WithSettings(Lookup(p), s) EXCEPT !.unsaved = TRUE], 0)
    BY <1>3 DEF UpdateUnsaved
  <2>2. WithSettings(Lookup(p), s) \in Record
    BY LookupFinds, WithSettingsType DEF Editable, TypeInv, TypeOK
  <2>3. [WithSettings(Lookup(p), s) EXCEPT !.unsaved = TRUE] \in Record
    BY <2>2 DEF Record
  <2> QED
    BY <1>3, <2>1, <2>3, EditTypes DEF UpdateUnsaved, MethodNames
<1>4. CASE Update2(c)
  <2>1. PICK p \in Editable, s \in Profiles, ver \in {0, versionId}, unsaved \in BOOLEAN :
           StartEdit(c, "update2", p, [WithSettings(Lookup(p), s) EXCEPT !.unsaved = unsaved], ver)
    BY <1>4 DEF Update2
  <2>2. WithSettings(Lookup(p), s) \in Record
    BY LookupFinds, WithSettingsType DEF Editable, TypeInv, TypeOK
  <2>3. [WithSettings(Lookup(p), s) EXCEPT !.unsaved = unsaved] \in Record
    BY <2>2 DEF Record
  <2>4. ver \in Nat
    BY DEF TypeInv, TypeOK
  <2> QED
    BY <1>4, <2>1, <2>3, <2>4, EditTypes DEF Update2, MethodNames
<1>5. CASE Save(c)
  <2>1. PICK p \in Editable : StartEdit(c, "save", p, [Lookup(p) EXCEPT !.unsaved = FALSE], 0)
    BY <1>5 DEF Save
  <2>2. Lookup(p) \in Record
    BY LookupFinds DEF Editable, TypeInv, TypeOK
  <2>3. [Lookup(p) EXCEPT !.unsaved = FALSE] \in Record
    BY <2>2 DEF Record
  <2> QED
    BY <1>5, <2>1, <2>3, EditTypes DEF Save, MethodNames
<1>6. CASE ClearSecrets(c)
  <2>1. PICK p \in Editable :
           StartEdit(c, "clearSecrets", p,
               [Lookup(p) EXCEPT !.body = IF Lookup(p).kind = "wifi" THEN NoBody
                                          ELSE Lookup(p).body], 0)
    BY <1>6 DEF ClearSecrets
  <2>2. Lookup(p) \in Record
    BY LookupFinds DEF Editable, TypeInv, TypeOK
  <2>3. [Lookup(p) EXCEPT !.body = IF Lookup(p).kind = "wifi" THEN NoBody
                                   ELSE Lookup(p).body] \in Record
    BY <2>2 DEF Record
  <2> QED
    BY <1>6, <2>1, <2>3, EditTypes DEF ClearSecrets, MethodNames
<1>7. CASE Delete(c)
  <2>1. PICK p \in Editable :
           calls' = [calls EXCEPT ![c] = [Idle EXCEPT
               !.op = "delete", !.pc = "unlink", !.rec = Lookup(p)]]
    BY <1>7 DEF Delete
  <2>2. Lookup(p) \in Record
    BY LookupFinds DEF Editable, TypeInv, TypeOK
  <2>3. [Idle EXCEPT !.op = "delete", !.pc = "unlink", !.rec = Lookup(p)] \in Call
    BY <2>2, <1>0 DEF Call, Pcs, MethodNames
  <2> QED
    BY <1>7, <2>1, <2>2, <2>3
       DEF Delete, TypeInv, TypeOK, WholeRecords, HoldsRecord, Idle
<1>8. CASE LoadConnections(c) \/ ReloadConnections(c)
  <2>1. PICK op \in {"load", "reload"}, fs \in SUBSET PlainFiles : StartImport(c, op, fs)
    BY <1>8 DEF LoadConnections, ReloadConnections, Discovered
  <2>2. [Idle EXCEPT !.op = op, !.pc = "import", !.todo = fs, !.found = fs] \in Call
    BY <1>0 DEF Call, Pcs, MethodNames
  <2> QED
    BY <1>8, <2>1, <2>2
       DEF LoadConnections, ReloadConnections, StartImport, TypeInv, TypeOK,
           WholeRecords, HoldsRecord, Idle
<1>9. CASE Reapply(c)
  <2>1. PICK p \in PathsOf(connections), s \in Profiles :
           /\ Replace(p, WithSettings(Lookup(p), s))
           /\ calls' = [calls EXCEPT ![c] = [Idle EXCEPT
                  !.op = "reapply", !.pc = "reread", !.rec.path = p]]
    BY <1>9 DEF Reapply
  <2>2. WithSettings(Lookup(p), s) \in Record /\ p \in Nat
    BY LookupFinds, WithSettingsType DEF TypeInv, TypeOK, PathsOf, Record
  <2>3. [Idle EXCEPT !.op = "reapply", !.pc = "reread", !.rec.path = p] \in Call
    BY <2>2 DEF Idle, Blank, Call, Pcs, MethodNames, Kinds
  <2> QED
    BY <1>9, <2>1, <2>2, <2>3
       DEF Reapply, Replace, TypeInv, TypeOK, WholeRecords, HoldsRecord, Idle
<1>10. CASE SetAutoconnect(c) \/ DeleteDevice(c)
  <2>1. PICK op \in {"autoconnect", "deviceDelete"}, pc \in {"nextAuto", "nextStale"},
             ps \in SUBSET Nat :
           calls' = [calls EXCEPT ![c] = [Idle EXCEPT !.op = op, !.pc = pc, !.stale = ps]]
    <3>1. ASSUME NEW i PROVE PathsForInterface(i) \in SUBSET Nat
      BY DEF PathsForInterface, PathsOf, TypeInv, TypeOK, Record
    <3> QED
      BY <1>10, <3>1 DEF SetAutoconnect, DeleteDevice
  <2>2. [Idle EXCEPT !.op = op, !.pc = pc, !.stale = ps] \in Call
    BY <1>0 DEF Call, Pcs, MethodNames
  <2> QED
    BY <1>10, <2>1, <2>2
       DEF SetAutoconnect, DeleteDevice, TypeInv, TypeOK, WholeRecords, HoldsRecord, Idle
<1> QED
  BY <1>1, <1>2, <1>3, <1>4, <1>5, <1>6, <1>7, <1>8, <1>9, <1>10 DEF Request

(* What moves a task from one step of its handler to the next keeps the     *)
(* table of tasks well typed.                                               *)
TasksTyped == calls \in [Clients -> Call] /\ WholeRecords

LEMMA MoveTypes ==
    ASSUME TypeInv, NEW c \in Clients, NEW k \in Call,
           k.pc \in HoldsRecord => k.rec \in Record,
           calls' = [calls EXCEPT ![c] = k]
    PROVE  TasksTyped'
BY DEF TypeInv, TypeOK, WholeRecords, TasksTyped

LEMMA GotoTypes ==
    ASSUME TypeInv, NEW c \in Clients, NEW pc \in Pcs, Goto(c, pc),
           pc \in HoldsRecord => calls[c].rec \in Record
    PROVE  TasksTyped'
<1>1. calls' = [calls EXCEPT ![c] = [calls[c] EXCEPT !.pc = pc]]
  BY DEF TypeInv, TypeOK, Goto
<1>2. [calls[c] EXCEPT !.pc = pc] \in Call
  BY DEF TypeInv, TypeOK, Call
<1>3. /\ [calls[c] EXCEPT !.pc = pc].pc = pc
      /\ [calls[c] EXCEPT !.pc = pc].rec = calls[c].rec
  BY DEF TypeInv, TypeOK, Call
<1> QED
  BY <1>1, <1>2, <1>3, MoveTypes

LEMMA ReturnTypes ==
    ASSUME TypeInv, NEW c \in Clients, Return(c)
    PROVE  TasksTyped'
<1>1. Idle.pc \notin HoldsRecord
  BY DEF Idle, HoldsRecord
<1> QED
  BY <1>1, IdleType, MoveTypes DEF Return

LEMMA StepTypes ==
    ASSUME TypeInv, NEW c \in Clients, Step(c)
    PROVE  TypeInv'
<1>0. calls[c] \in Call
  BY DEF TypeInv, TypeOK
<1>1. CASE WriteFile(c)
  <2>1. calls[c].rec \in Record /\ FileOf(calls[c].rec) \in Files
    BY <1>1, FileOfType DEF WriteFile, At, TypeInv, WholeRecords, HoldsRecord
  <2> DEFINE rec == [calls[c].rec EXCEPT !.filename = FileOf(calls[c].rec)]
  <2>2. rec \in Record
    BY <2>1 DEF Record
  <2>3. PICK pc \in {"insert", "apply", "unlinkOld"} :
           calls' = [calls EXCEPT ![c].rec.filename = FileOf(calls[c].rec), ![c].pc = pc]
    BY <1>1 DEF WriteFile
  <2>4. calls' = [calls EXCEPT ![c] = [calls[c] EXCEPT !.rec = rec, !.pc = pc]]
    BY <2>3 DEF TypeInv, TypeOK
  <2>5. [calls[c] EXCEPT !.rec = rec, !.pc = pc] \in Call
    BY <1>0, <2>2 DEF Call, Pcs
  <2>6. [calls[c] EXCEPT !.rec = rec, !.pc = pc].rec = rec
    BY <1>0 DEF Call
  <2>7. TasksTyped'
    BY <2>2, <2>4, <2>5, <2>6, MoveTypes
  <2>8. calls[c].rec.body \in Bodies \cup {NoBody}
    BY <2>1 DEF Record
  <2> QED
    BY <1>1, <2>1, <2>7, <2>8 DEF WriteFile, WithFile, TypeInv, TypeOK, TasksTyped
<1>2. CASE WriteFails(c)
  <2>1. Writable(calls[c].rec) => FileOf(calls[c].rec) \in Files
    BY <1>2, FileOfType DEF WriteFails, At, TypeInv, WholeRecords, HoldsRecord
  <2>2. TasksTyped'
    BY <1>2, ReturnTypes DEF WriteFails
  <2> QED
    BY <1>2, <2>1, <2>2 DEF WriteFails, WithFile, TypeInv, TypeOK, TasksTyped
<1>3. CASE UnlinkOld(c)
  <2>1. calls[c].rec \in Record
    BY <1>3 DEF UnlinkOld, At, TypeInv, WholeRecords, HoldsRecord
  <2>2. TasksTyped'
    BY <1>3, <2>1, GotoTypes, ReturnTypes DEF UnlinkOld, Pcs
  <2> QED
    BY <1>3, <2>2 DEF UnlinkOld, WithoutFile, TypeInv, TypeOK, TasksTyped
<1>4. CASE Apply(c)
  <2>1. calls[c].rec \in Record
    BY <1>4 DEF Apply, At, TypeInv, WholeRecords, HoldsRecord
  <2>2. TasksTyped'
    BY <1>4, GotoTypes, ReturnTypes DEF Apply, Pcs, HoldsRecord
  <2> QED
    BY <1>4, <2>1, <2>2 DEF Apply, Replace, TypeInv, TypeOK, TasksTyped
<1>5. CASE Insert(c)
  <2>1. calls[c].rec \in Record
    BY <1>5 DEF Insert, At, TypeInv, WholeRecords, HoldsRecord
  <2>2. TasksTyped'
    BY <1>5, <2>1, GotoTypes DEF Insert, Pcs
  <2> QED
    BY <1>5, <2>1, <2>2 DEF Insert, TypeInv, TypeOK, TasksTyped
<1>6. CASE Export(c)
  <2>1. calls[c].rec.path \in Nat
    BY <1>0 DEF Call, Record
  <2>2. TasksTyped'
    BY <1>6, GotoTypes, ReturnTypes DEF Export, Pcs, HoldsRecord
  <2> QED
    BY <1>6, <2>1, <2>2 DEF Export, TypeInv, TypeOK, TasksTyped
<1>7. CASE DeleteFile(c)
  <2>1. TasksTyped'
    BY <1>7, GotoTypes, ReturnTypes DEF DeleteFile, Pcs, HoldsRecord
  <2> QED
    BY <1>7, <2>1 DEF DeleteFile, WithoutFile, TypeInv, TypeOK, TasksTyped
<1>8. CASE DeleteRecord(c)
  <2>1. TasksTyped'
    BY <1>8, GotoTypes, ReturnTypes DEF DeleteRecord, Pcs, HoldsRecord
  <2> QED
    BY <1>8, <2>1 DEF DeleteRecord, RemoveRecord, TypeInv, TypeOK, TasksTyped
<1>9. CASE Unexport(c)
  <2>1. TasksTyped'
    BY <1>9, GotoTypes, ReturnTypes DEF Unexport, Pcs, HoldsRecord
  <2> QED
    BY <1>9, <2>1 DEF Unexport, TypeInv, TypeOK, TasksTyped
<1>10. CASE ImportFile(c)
  <2>1. PICK f \in calls[c].todo :
           LET left == [calls[c] EXCEPT !.todo = @ \ {f}] IN
           \/ /\ f \in DOMAIN files
              /\ calls' = [calls EXCEPT ![c] =
                     [left EXCEPT !.rec = Imported(f, files[f]), !.pc = "lookup"]]
           \/ calls' = [calls EXCEPT ![c] = [left EXCEPT !.ok = FALSE]]
    BY <1>10 DEF ImportFile
  <2> DEFINE left == [calls[c] EXCEPT !.todo = @ \ {f}]
  <2>2. f \in PlainFiles /\ left \in Call /\ left.pc = "import"
    BY <1>0, <1>10 DEF Call, ImportFile, At
  <2>3. CASE /\ f \in DOMAIN files
             /\ calls' = [calls EXCEPT ![c] =
                    [left EXCEPT !.rec = Imported(f, files[f]), !.pc = "lookup"]]
    <3>1. Imported(f, files[f]) \in Record
      BY <2>2, <2>3, ImportedType DEF TypeInv, TypeOK
    <3> HIDE DEF left
    <3>2. /\ [left EXCEPT !.rec = Imported(f, files[f]), !.pc = "lookup"] \in Call
          /\ [left EXCEPT !.rec = Imported(f, files[f]), !.pc = "lookup"].rec \in Record
      BY <2>2, <3>1 DEF Call, Pcs
    <3>3. TasksTyped'
      BY <2>3, <3>2, MoveTypes
    <3> QED
      BY <1>10, <3>3 DEF ImportFile, TypeInv, TypeOK, TasksTyped
  <2>4. CASE calls' = [calls EXCEPT ![c] = [left EXCEPT !.ok = FALSE]]
    <3> HIDE DEF left
    <3>1. /\ [left EXCEPT !.ok = FALSE] \in Call
          /\ [left EXCEPT !.ok = FALSE].pc \notin HoldsRecord
      BY <2>2 DEF Call, HoldsRecord
    <3>2. TasksTyped'
      BY <2>4, <3>1, MoveTypes
    <3> QED
      BY <1>10, <3>2 DEF ImportFile, TypeInv, TypeOK, TasksTyped
  <2> QED
    BY <2>1, <2>3, <2>4
<1>11. CASE ImportLookup(c)
  <2>1. PICK p \in PathsOf(connections) \cup 1..MaxPath, pc \in {"overwrite", "insert"} :
           /\ calls' = [calls EXCEPT ![c].rec.path = p, ![c].pc = pc]
           /\ nextSettingsId' \in {nextSettingsId, nextSettingsId + 1}
    BY <1>11 DEF ImportLookup, Allocate, PathsOf
  <2>2. p \in Nat
    BY <2>1, ConstantsAssumption DEF PathsOf, TypeInv, TypeOK, Record
  <2> DEFINE rec == [calls[c].rec EXCEPT !.path = p]
  <2>3. rec \in Record
    BY <1>11, <2>2 DEF ImportLookup, At, TypeInv, WholeRecords, HoldsRecord, Record
  <2>4. calls' = [calls EXCEPT ![c] = [calls[c] EXCEPT !.rec = rec, !.pc = pc]]
    BY <2>1 DEF TypeInv, TypeOK
  <2> HIDE DEF rec
  <2>5. /\ [calls[c] EXCEPT !.rec = rec, !.pc = pc] \in Call
        /\ [calls[c] EXCEPT !.rec = rec, !.pc = pc].rec = rec
    BY <1>0, <2>3 DEF Call, Pcs
  <2>6. TasksTyped'
    BY <2>3, <2>4, <2>5, MoveTypes
  <2>7. nextSettingsId' \in Nat \ {0}
    BY <2>1 DEF TypeInv, TypeOK
  <2>8. UNCHANGED <<connections, versionId, exported, files>>
    BY <1>11 DEF ImportLookup
  <2> QED
    BY <2>6, <2>7, <2>8 DEF TypeInv, TypeOK, TasksTyped
<1>12. CASE ImportOverwrite(c)
  <2>1. calls[c].rec \in Record
    BY <1>12 DEF ImportOverwrite, At, TypeInv, WholeRecords, HoldsRecord
  <2>2. TasksTyped'
    BY <1>12, GotoTypes DEF ImportOverwrite, Pcs, HoldsRecord
  <2> QED
    BY <1>12, <2>1, <2>2 DEF ImportOverwrite, Replace, TypeInv, TypeOK, TasksTyped
<1>13. CASE ImportDone(c)
  <2>1. PICK ps \in SUBSET Nat :
           \/ calls' = [calls EXCEPT ![c].stale = ps, ![c].pc = "nextStale"]
           \/ Return(c)
    <3>1. ASSUME NEW cs \in SUBSET connections PROVE PathsOf(cs) \in SUBSET Nat
      BY DEF PathsOf, TypeInv, TypeOK, Record
    <3> QED
      BY <1>13, <3>1 DEF ImportDone
  <2>2. /\ [calls[c] EXCEPT !.stale = ps, !.pc = "nextStale"] \in Call
        /\ [calls[c] EXCEPT !.stale = ps, !.pc = "nextStale"].pc \notin HoldsRecord
    BY <1>0 DEF Call, Pcs, HoldsRecord
  <2>3. \/ calls' = [calls EXCEPT ![c] = [calls[c] EXCEPT !.stale = ps, !.pc = "nextStale"]]
        \/ Return(c)
    BY <2>1 DEF TypeInv, TypeOK
  <2>4. TasksTyped'
    BY <2>2, <2>3, MoveTypes, ReturnTypes
  <2> QED
    BY <1>13, <2>4 DEF ImportDone, TypeInv, TypeOK, TasksTyped
<1>14. CASE RemoveStale(c) \/ SetNextAutoconnect(c)
  <2>1. PICK p \in calls[c].stale, pc \in {"unexport", "reread"} :
           calls' = [calls EXCEPT ![c].stale = @ \ {p}, ![c].rec.path = p, ![c].pc = pc]
    BY <1>14 DEF RemoveStale, SetNextAutoconnect
  <2>2. p \in Nat
    BY <1>0 DEF Call
  <2> DEFINE rec == [calls[c].rec EXCEPT !.path = p]
             k == [calls[c] EXCEPT !.stale = @ \ {p}, !.pc = pc, !.rec = rec]
  <2>3. calls' = [calls EXCEPT ![c] = k]
    BY <2>1 DEF TypeInv, TypeOK
  <2>6. \/ rec \in Record
        \/ rec \in [path: Nat, uuid: {NoUuid}, kind: Kinds, ssid: {NoSsid},
                    body: {NoBody}, origin: {"user"}, unsaved: BOOLEAN,
                    filename: {NoFile}]
    BY <1>0, <2>2 DEF Call, Record
  <2> HIDE DEF rec
  <2>4. k \in Call /\ k.pc \notin HoldsRecord
    BY <1>0, <2>6 DEF Call, Pcs, HoldsRecord
  <2> HIDE DEF k
  <2>5. TasksTyped'
    BY <2>3, <2>4, MoveTypes
  <2>7. CASE RemoveStale(c)
    BY <2>5, <2>7 DEF RemoveStale, RemoveRecord, TypeInv, TypeOK, TasksTyped
  <2>8. CASE SetNextAutoconnect(c)
    BY <2>5, <2>8 DEF SetNextAutoconnect, TypeInv, TypeOK, TasksTyped
  <2> QED
    BY <1>14, <2>7, <2>8
<1>15. CASE StaleDone(c) \/ AutoconnectDone(c)
  <2>1. TasksTyped'
    BY <1>15, ReturnTypes DEF StaleDone, AutoconnectDone
  <2> QED
    BY <1>15, <2>1 DEF StaleDone, AutoconnectDone, TypeInv, TypeOK, TasksTyped
<1>16. CASE Reread(c)
  <2> DEFINE r == Lookup(calls[c].rec.path)
  <2>1. CASE calls[c].rec.path \in PathsOf(connections)
    <3>1. r \in Record
      BY <2>1, LookupFinds DEF TypeInv, TypeOK
    <3>2. PersistStep(r) \in Pcs /\ r.filename \in Files \cup {NoFile}
      BY <3>1 DEF PersistStep, Pcs, Record
    <3>3. calls' = [calls EXCEPT ![c] =
              [calls[c] EXCEPT !.rec = r, !.old = r.filename, !.pc = PersistStep(r)]]
      BY <1>16, <2>1 DEF Reread, TypeInv, TypeOK
    <3> HIDE DEF r
    <3>4. /\ [calls[c] EXCEPT !.rec = r, !.old = r.filename, !.pc = PersistStep(r)] \in Call
          /\ [calls[c] EXCEPT !.rec = r, !.old = r.filename, !.pc = PersistStep(r)].rec = r
      BY <1>0, <3>1, <3>2 DEF Call
    <3>5. TasksTyped'
      BY <3>1, <3>3, <3>4, MoveTypes
    <3> QED
      BY <1>16, <3>5 DEF Reread, TypeInv, TypeOK, TasksTyped
  <2>2. CASE calls[c].rec.path \notin PathsOf(connections)
    <3>1. TasksTyped'
      BY <1>16, <2>2, ReturnTypes DEF Reread
    <3> QED
      BY <1>16, <3>1 DEF Reread, TypeInv, TypeOK, TasksTyped
  <2> QED
    BY <2>1, <2>2
<1>17. CASE CheckVersion(c)
  <2>1. calls[c].rec \in Record
    BY <1>17 DEF CheckVersion, At, TypeInv, WholeRecords, HoldsRecord
  <2>2. PersistStep(calls[c].rec) \in Pcs
    BY DEF PersistStep, Pcs
  <2>3. TasksTyped'
    BY <1>17, <2>1, <2>2, GotoTypes, ReturnTypes DEF CheckVersion
  <2> QED
    BY <1>17, <2>3 DEF CheckVersion, TypeInv, TypeOK, TasksTyped
<1> QED
  BY <1>1, <1>2, <1>3, <1>4, <1>5, <1>6, <1>7, <1>8, <1>9, <1>10, <1>11, <1>12,
     <1>13, <1>14, <1>15, <1>16, <1>17 DEF Step

LEMMA NextTypes == TypeInv /\ [Next]_vars => TypeInv'
<1> SUFFICES ASSUME TypeInv, [Next]_vars PROVE TypeInv'
  OBVIOUS
<1>1. ASSUME NEW c \in Clients, Request(c) PROVE TypeInv'
  BY <1>1, RequestTypes
<1>2. ASSUME NEW c \in Clients, Step(c) PROVE TypeInv'
  BY <1>2, StepTypes
<1>3. CASE EditFiles
  <2>1. Stems \X {"network"} \subseteq Files
    BY DEF Files, PlainFiles, Exts
  <2> QED
    BY <1>3, <2>1 DEF EditFiles, WithFile, WithoutFile, TypeInv, TypeOK, WholeRecords
<1>4. CASE Restart
  <2>1. NextIdAfter(Startup) \in Nat \ {0}
    BY StartupPaths
  <2>2. PathsOf(Startup) \subseteq Nat /\ Startup \subseteq Record
    BY ConstantsAssumption DEF PathsOf, Record
  <2>3. calls' \in [Clients -> Call] /\ WholeRecords'
    BY <1>4, IdleType DEF Restart, WholeRecords, Idle, HoldsRecord
  <2> QED
    BY <1>4, <2>1, <2>2, <2>3 DEF Restart, TypeInv, TypeOK
<1>5. CASE UNCHANGED vars
  BY <1>5 DEF vars, TypeInv, TypeOK, WholeRecords
<1> QED
  BY <1>1, <1>2, <1>3, <1>4, <1>5 DEF Next

\* Every reachable state is well typed, whatever the calls, files and bounds.
THEOREM TypesCorrect == Spec => []TypeOK
<1>1. Spec => []TypeInv
  BY InitTypes, NextTypes, PTL DEF Spec
<1>2. TypeInv => TypeOK
  BY DEF TypeInv
<1> QED
  BY <1>1, <1>2, PTL

(***************************************************************************)
(* Settings paths.  A task owns a new path from the moment it takes it     *)
(* until it inserts the record; meanwhile nobody else can name that path,  *)
(* and after the record has left the table nobody inserts one there again. *)
(***************************************************************************)
PathInv ==
    /\ \A r, s \in connections : r.path = s.path => r = s
    /\ \A p \in PathsOf(connections) : 0 < p /\ p < nextSettingsId
    /\ \A c \in Clients : calls[c].rec.path < nextSettingsId
    /\ \A c \in Clients : \A p \in calls[c].stale : 0 < p /\ p < nextSettingsId
    /\ \A c \in Clients : Pending(c) =>
          0 < calls[c].rec.path /\ calls[c].rec.path \notin PathsOf(connections)
    /\ \A c, d \in Clients : c # d /\ Pending(d) => calls[c].rec.path # calls[d].rec.path
    /\ \A c, d \in Clients : Pending(d) => calls[d].rec.path \notin calls[c].stale
    /\ \A c \in Clients : At(c, "unexport") => calls[c].rec.path \notin PathsOf(connections)
    /\ \A c \in Clients : calls[c].pc \in {"reread", "nextAuto", "check"} => calls[c].op # "add"

Shown == \A p \in PathsOf(connections) :
            p \in exported \/ \E c \in Clients : At(c, "export") /\ calls[c].rec.path = p

StoreInv == PathInv /\ Shown

LEMMA StoreInvImplies == TypeInv /\ StoreInv => PathsUnique /\ NoHiddenProfile
BY DEF TypeInv, TypeOK, StoreInv, PathInv, Shown, PathsUnique, NoHiddenProfile, PathsOf

LEMMA InitStore == Init => StoreInv
BY StartupPaths DEF Init, StoreInv, PathInv, Shown, Pending, At, Idle, Blank

KeepsRetired == \A p \in 1..(nextSettingsId - 1) : Retired(p) => Retired(p)'

(* A step of task c that takes no new path: what it must show.             *)
LEMMA TakesNoPath ==
    ASSUME TypeInv, TypeInv', StoreInv, NEW c \in Clients,
           nextSettingsId' = nextSettingsId,
           \A d \in Clients \ {c} : calls'[d] = calls[d],
           \A r, s \in connections' : r.path = s.path => r = s,
           PathsOf(connections') \subseteq PathsOf(connections),
           calls'[c].rec.path \in {calls[c].rec.path, 0} \cup PathsOf(connections) \cup calls[c].stale,
           calls'[c].stale \subseteq PathsOf(connections) \cup calls[c].stale,
           Pending(c)' => Pending(c) /\ calls'[c].rec.path = calls[c].rec.path,
           At(c, "unexport")' => calls'[c].rec.path \notin PathsOf(connections'),
           calls'[c].pc \in {"reread", "nextAuto", "check"} => calls'[c].op # "add",
           \A p \in PathsOf(connections') \cap exported : p \in exported',
           At(c, "export") => calls[c].rec.path \in exported'
    PROVE  StoreInv' /\ KeepsRetired
<1>1. \A d \in Clients \ {c} : (Pending(d)' <=> Pending(d)) /\ (At(d, "export")' <=> At(d, "export"))
  BY DEF Pending, At
<1>2. PathInv'
  <2>1. /\ nextSettingsId \in Nat /\ 0 < nextSettingsId
        /\ \A d \in Clients : calls[d].rec.path \in Nat
    BY DEF TypeInv, TypeOK, Call, Record
  <2> QED
    BY <1>1, <2>1 DEF StoreInv, PathInv, At
<1>3. Shown'
  BY <1>1 DEF StoreInv, Shown, At
<1>4. KeepsRetired
  BY <1>1 DEF KeepsRetired, Retired
<1> QED
  BY <1>2, <1>3, <1>4 DEF StoreInv

LEMMA ReplaceKeepsPaths ==
    ASSUME StoreInv, NEW p, NEW r, r.path = p, Replace(p, r)
    PROVE  /\ PathsOf(connections') = PathsOf(connections)
           /\ \A q, s \in connections' : q.path = s.path => q = s
BY DEF StoreInv, PathInv, Replace, PathsOf

LEMMA RemoveDropsPath ==
    ASSUME StoreInv, NEW p, RemoveRecord(p)
    PROVE  /\ PathsOf(connections') = PathsOf(connections) \ {p}
           /\ \A q, s \in connections' : q.path = s.path => q = s
BY DEF StoreInv, PathInv, RemoveRecord, PathsOf

LEMMA GotoFacts ==
    ASSUME TypeInv, NEW c \in Clients, NEW pc, Goto(c, pc)
    PROVE  /\ calls'[c].pc = pc /\ calls'[c].op = calls[c].op
           /\ calls'[c].rec = calls[c].rec /\ calls'[c].stale = calls[c].stale
           /\ \A d \in Clients \ {c} : calls'[d] = calls[d]
BY DEF TypeInv, TypeOK, Call, Goto

LEMMA ReturnFacts ==
    ASSUME TypeInv, NEW c \in Clients, Return(c)
    PROVE  /\ calls'[c].pc = "idle" /\ calls'[c].op = "none"
           /\ calls'[c].rec.path = 0 /\ calls'[c].stale = {}
           /\ \A d \in Clients \ {c} : calls'[d] = calls[d]
BY DEF TypeInv, TypeOK, Return, Idle, Blank

LEMMA StepsThatTakeNoPath ==
    ASSUME TypeInv, TypeInv', StoreInv, NEW c \in Clients, Step(c),
           ~ImportLookup(c), ~Insert(c)
    PROVE  StoreInv' /\ KeepsRetired
<1>0. /\ \A r, s \in connections : r.path = s.path => r = s
      /\ At(c, "unexport") => calls[c].rec.path \notin PathsOf(connections)
      /\ calls[c] \in Call
  BY DEF StoreInv, PathInv, TypeInv, TypeOK
<1>1. CASE WriteFile(c)
  <2>1. PICK pc \in {"insert", "apply", "unlinkOld"} :
           /\ calls' = [calls EXCEPT ![c].rec.filename = FileOf(calls[c].rec), ![c].pc = pc]
           /\ pc = "insert" => calls[c].op = "add"
    BY <1>1 DEF WriteFile
  <2>2. /\ calls'[c].pc = pc /\ calls'[c].op = calls[c].op
        /\ calls'[c].rec.path = calls[c].rec.path /\ calls'[c].stale = calls[c].stale
        /\ \A d \in Clients \ {c} : calls'[d] = calls[d]
    BY <1>0, <2>1 DEF TypeInv, TypeOK, Call, Record
  <2> QED
    BY <1>0, <1>1, <2>1, <2>2, TakesNoPath DEF WriteFile, Pending, At
<1>2. CASE WriteFails(c)
  BY <1>0, <1>2, ReturnFacts, TakesNoPath DEF WriteFails, Pending, At
<1>3. CASE UnlinkOld(c)
  BY <1>0, <1>3, GotoFacts, ReturnFacts, TakesNoPath DEF UnlinkOld, Pending, At
<1>4. CASE Apply(c)
  <2>1. CASE Replace(calls[c].rec.path, calls[c].rec)
    BY <1>4, <2>1, ReplaceKeepsPaths, GotoFacts, ReturnFacts, TakesNoPath DEF Apply, Pending, At
  <2>2. CASE UNCHANGED connections
    BY <1>0, <1>4, <2>2, GotoFacts, ReturnFacts, TakesNoPath DEF Apply, Pending, At
  <2> QED
    BY <1>4, <2>1, <2>2 DEF Apply
<1>5. CASE Export(c)
  BY <1>0, <1>5, GotoFacts, ReturnFacts, TakesNoPath DEF Export, Pending, At
<1>6. CASE DeleteFile(c)
  BY <1>0, <1>6, GotoFacts, ReturnFacts, TakesNoPath DEF DeleteFile, Pending, At
<1>7. CASE DeleteRecord(c)
  BY <1>7, RemoveDropsPath, GotoFacts, ReturnFacts, TakesNoPath DEF DeleteRecord, Pending, At
<1>8. CASE Unexport(c)
  BY <1>0, <1>8, GotoFacts, ReturnFacts, TakesNoPath DEF Unexport, Pending, At
<1>9. CASE ImportFile(c)
  <2>1. PICK f \in calls[c].todo :
           LET left == [calls[c] EXCEPT !.todo = @ \ {f}] IN
           \/ /\ f \in DOMAIN files
              /\ calls' = [calls EXCEPT ![c] =
                     [left EXCEPT !.rec = Imported(f, files[f]), !.pc = "lookup"]]
           \/ calls' = [calls EXCEPT ![c] = [left EXCEPT !.ok = FALSE]]
    BY <1>9 DEF ImportFile
  <2>2. At(c, "import") /\ UNCHANGED <<connections, nextSettingsId, exported>>
    BY <1>9 DEF ImportFile
  <2> DEFINE left == [calls[c] EXCEPT !.todo = @ \ {f}]
  <2>3. /\ left.pc = "import" /\ left.stale = calls[c].stale
        /\ left.rec = calls[c].rec
    BY <1>0, <2>2 DEF Call, At
  <2> DEFINE read == [left EXCEPT !.rec = Imported(f, files[f]), !.pc = "lookup"]
             failed == [left EXCEPT !.ok = FALSE]
  <2>4. /\ read.pc = "lookup" /\ read.stale = calls[c].stale
        /\ read.rec.path = 0
    BY <1>0, <2>3 DEF Call, Imported
  <2>5. /\ failed.pc = "import" /\ failed.stale = calls[c].stale
        /\ failed.rec.path = calls[c].rec.path
    BY <1>0, <2>3 DEF Call
  <2>6. calls' = [calls EXCEPT ![c] = read] \/ calls' = [calls EXCEPT ![c] = failed]
    BY <2>1
  <2> HIDE DEF read, failed
  <2>7. /\ calls'[c] \in {read, failed}
        /\ \A d \in Clients \ {c} : calls'[d] = calls[d]
    BY <2>6 DEF TypeInv, TypeOK
  <2> QED
    BY <1>0, <2>2, <2>4, <2>5, <2>7, TakesNoPath DEF Pending, At
<1>10. CASE ImportOverwrite(c)
  <2>1. CASE Replace(calls[c].rec.path, calls[c].rec)
    BY <1>10, <2>1, ReplaceKeepsPaths, GotoFacts, TakesNoPath DEF ImportOverwrite, Pending, At
  <2>2. CASE UNCHANGED connections
    BY <1>0, <1>10, <2>2, GotoFacts, TakesNoPath DEF ImportOverwrite, Pending, At
  <2> QED
    BY <1>10, <2>1, <2>2 DEF ImportOverwrite
<1>11. CASE ImportDone(c)
  <2>1. CASE Return(c)
    BY <1>0, <1>11, <2>1, ReturnFacts, TakesNoPath DEF ImportDone, Pending, At
  <2>2. CASE ~Return(c)
    <3>1. PICK cs \in SUBSET connections :
             calls' = [calls EXCEPT ![c].stale = PathsOf(cs), ![c].pc = "nextStale"]
      BY <1>11, <2>2 DEF ImportDone
    <3>2. PathsOf(cs) \subseteq PathsOf(connections)
      BY DEF PathsOf
    <3>3. /\ calls'[c].pc = "nextStale" /\ calls'[c].stale = PathsOf(cs)
          /\ calls'[c].rec = calls[c].rec
          /\ \A d \in Clients \ {c} : calls'[d] = calls[d]
      BY <1>0, <3>1 DEF TypeInv, TypeOK, Call
    <3> QED
      BY <1>0, <1>11, <3>2, <3>3, TakesNoPath DEF ImportDone, Pending, At
  <2> QED
    BY <2>1, <2>2
<1>12. CASE RemoveStale(c)
  <2>1. PICK p \in calls[c].stale :
           /\ RemoveRecord(p)
           /\ calls' = [calls EXCEPT ![c].stale = @ \ {p}, ![c].rec.path = p, ![c].pc = "unexport"]
    BY <1>12 DEF RemoveStale
  <2>2. /\ calls'[c].pc = "unexport" /\ calls'[c].stale \subseteq calls[c].stale
        /\ calls'[c].rec.path = p
        /\ \A d \in Clients \ {c} : calls'[d] = calls[d]
    BY <1>0, <2>1 DEF TypeInv, TypeOK, Call, Record
  <2> QED
    BY <1>12, <2>1, <2>2, RemoveDropsPath, TakesNoPath DEF RemoveStale, Pending, At
<1>13. CASE StaleDone(c) \/ AutoconnectDone(c)
  BY <1>0, <1>13, ReturnFacts, TakesNoPath DEF StaleDone, AutoconnectDone, Pending, At
<1>14. CASE Reread(c)
  <2>1. calls[c].op # "add"
    BY <1>14 DEF Reread, At, StoreInv, PathInv
  <2>2. CASE calls[c].rec.path \in PathsOf(connections)
    <3> DEFINE r == Lookup(calls[c].rec.path)
    <3>1. r.path = calls[c].rec.path
      BY <2>2, LookupFinds
    <3>2. PersistStep(r) \in {"apply", "write"}
      BY DEF PersistStep
    <3>3. calls' = [calls EXCEPT ![c].rec = r, ![c].old = r.filename, ![c].pc = PersistStep(r)]
      BY <1>14, <2>2 DEF Reread
    <3> HIDE DEF r
    <3>4. /\ calls'[c].pc \in {"apply", "write"} /\ calls'[c].stale = calls[c].stale
          /\ calls'[c].rec = r /\ calls'[c].op = calls[c].op
          /\ \A d \in Clients \ {c} : calls'[d] = calls[d]
      BY <1>0, <3>2, <3>3 DEF TypeInv, TypeOK, Call
    <3> QED
      BY <1>0, <1>14, <2>1, <3>1, <3>4, TakesNoPath DEF Reread, Pending, At
  <2>3. CASE calls[c].rec.path \notin PathsOf(connections)
    BY <1>0, <1>14, <2>3, ReturnFacts, TakesNoPath DEF Reread, Pending, At
  <2> QED
    BY <2>2, <2>3
<1>15. CASE SetNextAutoconnect(c)
  <2>1. PICK p \in calls[c].stale :
           calls' = [calls EXCEPT ![c].stale = @ \ {p}, ![c].rec.path = p, ![c].pc = "reread"]
    BY <1>15 DEF SetNextAutoconnect
  <2>2. /\ calls'[c].pc = "reread" /\ calls'[c].stale \subseteq calls[c].stale
        /\ calls'[c].rec.path = p /\ calls'[c].op = calls[c].op
        /\ \A d \in Clients \ {c} : calls'[d] = calls[d]
    BY <1>0, <2>1 DEF TypeInv, TypeOK, Call, Record
  <2>3. calls[c].op # "add"
    BY <1>15 DEF SetNextAutoconnect, At, StoreInv, PathInv
  <2> QED
    BY <1>0, <1>15, <2>2, <2>3, TakesNoPath DEF SetNextAutoconnect, Pending, At
<1>16. CASE CheckVersion(c)
  <2>1. PersistStep(calls[c].rec) \in {"apply", "write"}
    BY DEF PersistStep
  <2>2. calls[c].op # "add"
    BY <1>16 DEF CheckVersion, At, StoreInv, PathInv
  <2> QED
    BY <1>0, <1>16, <2>1, <2>2, GotoFacts, ReturnFacts, TakesNoPath DEF CheckVersion, Pending, At
<1> QED
  BY <1>1, <1>2, <1>3, <1>4, <1>5, <1>6, <1>7, <1>8, <1>9, <1>10, <1>11, <1>12,
     <1>13, <1>14, <1>15, <1>16 DEF Step
(* A step of task c that takes the next path.                              *)
LEMMA TakesFreshPath ==
    ASSUME TypeInv, TypeInv', StoreInv, NEW c \in Clients,
           nextSettingsId' = nextSettingsId + 1,
           UNCHANGED <<connections, exported>>,
           \A d \in Clients \ {c} : calls'[d] = calls[d],
           calls'[c].rec.path = nextSettingsId,
           calls'[c].stale \subseteq calls[c].stale,
           calls'[c].pc \in {"insert", "write"},
           ~At(c, "export")
    PROVE  StoreInv' /\ KeepsRetired
<1>1. \A d \in Clients \ {c} : (Pending(d)' <=> Pending(d)) /\ (At(d, "export")' <=> At(d, "export"))
  BY DEF Pending, At
<1>2. /\ nextSettingsId \in Nat /\ 0 < nextSettingsId
      /\ \A d \in Clients : calls[d].rec.path \in Nat /\ calls[d].stale \subseteq Nat
      /\ PathsOf(connections) \subseteq Nat
  BY DEF TypeInv, TypeOK, Call, Record, PathsOf
<1>3. PathInv'
  <2>1. \A r, s \in connections' : r.path = s.path => r = s
    BY DEF StoreInv, PathInv
  <2>2. \A p \in PathsOf(connections') : 0 < p /\ p < nextSettingsId'
    BY <1>2 DEF StoreInv, PathInv
  <2>3. \A d \in Clients : calls'[d].rec.path < nextSettingsId'
    BY <1>2 DEF StoreInv, PathInv
  <2>4. \A d \in Clients : \A p \in calls'[d].stale : 0 < p /\ p < nextSettingsId'
    BY <1>2 DEF StoreInv, PathInv
  <2>5. nextSettingsId \notin PathsOf(connections) /\ \A d \in Clients : nextSettingsId \notin calls[d].stale
    BY <1>2 DEF StoreInv, PathInv
  <2>6. \A d \in Clients \ {c} : calls[d].rec.path # nextSettingsId
    BY <1>2 DEF StoreInv, PathInv
  <2>7. \A d \in Clients : Pending(d)' =>
           0 < calls'[d].rec.path /\ calls'[d].rec.path \notin PathsOf(connections')
    BY <1>1, <1>2, <2>5 DEF StoreInv, PathInv
  <2>8. \A d, e \in Clients : d # e /\ Pending(e)' => calls'[d].rec.path # calls'[e].rec.path
    <3>1. ASSUME NEW d \in Clients, NEW e \in Clients, d # e, Pending(e)'
          PROVE  calls'[d].rec.path # calls'[e].rec.path
      <4>1. CASE e = c
        BY <2>6, <3>1, <4>1
      <4>2. CASE e # c
        BY <1>1, <2>6, <3>1, <4>2 DEF StoreInv, PathInv
      <4> QED
        BY <4>1, <4>2
    <3> QED
      BY <3>1
  <2>9. \A d, e \in Clients : Pending(e)' => calls'[e].rec.path \notin calls'[d].stale
    BY <1>1, <2>5 DEF StoreInv, PathInv
  <2>10. \A d \in Clients : At(d, "unexport")' => calls'[d].rec.path \notin PathsOf(connections')
    BY DEF StoreInv, PathInv, At
  <2>11. \A d \in Clients : calls'[d].pc \in {"reread", "nextAuto", "check"} => calls'[d].op # "add"
    BY DEF StoreInv, PathInv
  <2> QED
    BY <2>1, <2>2, <2>3, <2>4, <2>7, <2>8, <2>9, <2>10, <2>11 DEF PathInv
<1>4. Shown'
  BY <1>1 DEF StoreInv, Shown, At
<1>5. KeepsRetired
  BY <1>1, <1>2 DEF KeepsRetired, Retired
<1> QED
  BY <1>3, <1>4, <1>5 DEF StoreInv

LEMMA LookupStore ==
    ASSUME TypeInv, TypeInv', StoreInv, NEW c \in Clients, ImportLookup(c)
    PROVE  StoreInv' /\ KeepsRetired
<1>0. /\ \A r, s \in connections : r.path = s.path => r = s
      /\ calls[c] \in Call
  BY DEF StoreInv, PathInv, TypeInv, TypeOK
<1>1. CASE /\ \E r \in connections :
                calls' = [calls EXCEPT ![c].rec.path = r.path, ![c].pc = "overwrite"]
           /\ UNCHANGED nextSettingsId
  <2>1. PICK r \in connections :
           calls' = [calls EXCEPT ![c].rec.path = r.path, ![c].pc = "overwrite"]
    BY <1>1
  <2>2. /\ calls'[c].pc = "overwrite" /\ calls'[c].stale = calls[c].stale
        /\ calls'[c].rec.path = r.path /\ r.path \in PathsOf(connections)
        /\ \A d \in Clients \ {c} : calls'[d] = calls[d]
    BY <1>0, <2>1 DEF TypeInv, TypeOK, Call, Record, PathsOf
  <2> QED
    BY <1>0, <1>1, <2>2, TakesNoPath DEF ImportLookup, Pending, At
<1>2. CASE \E p \in 1..MaxPath :
              Allocate(p) /\ calls' = [calls EXCEPT ![c].rec.path = p, ![c].pc = "insert"]
  <2>1. PICK p \in 1..MaxPath :
           Allocate(p) /\ calls' = [calls EXCEPT ![c].rec.path = p, ![c].pc = "insert"]
    BY <1>2
  <2>2. /\ calls'[c].pc = "insert" /\ calls'[c].stale = calls[c].stale
        /\ calls'[c].rec.path = p
        /\ \A d \in Clients \ {c} : calls'[d] = calls[d]
    BY <1>0, <2>1 DEF TypeInv, TypeOK, Call, Record
  <2> QED
    BY <2>1, <2>2, TakesFreshPath DEF ImportLookup, Allocate, At
<1> QED
  BY <1>1, <1>2 DEF ImportLookup

LEMMA InsertStore ==
    ASSUME TypeInv, TypeInv', StoreInv, NEW c \in Clients, Insert(c)
    PROVE  StoreInv' /\ KeepsRetired
<1> DEFINE new == calls[c].rec
<1>1. /\ calls'[c].pc = "export" /\ calls'[c].op = calls[c].op
      /\ calls'[c].rec = new /\ calls'[c].stale = calls[c].stale
      /\ \A d \in Clients \ {c} : calls'[d] = calls[d]
  BY GotoFacts DEF Insert
<1>2. /\ connections' = connections \cup {new}
      /\ PathsOf(connections') = PathsOf(connections) \cup {new.path}
      /\ UNCHANGED <<nextSettingsId, exported>>
  BY DEF Insert, PathsOf
<1>3. 0 < new.path /\ new.path < nextSettingsId /\ new.path \notin PathsOf(connections)
  BY DEF Insert, Pending, StoreInv, PathInv
<1>4. /\ \A d \in Clients \ {c} : calls[d].rec.path # new.path
      /\ \A d \in Clients : new.path \notin calls[d].stale
  BY DEF Insert, Pending, StoreInv, PathInv
<1> HIDE DEF new
<1>5. /\ \A d \in Clients \ {c} : (Pending(d)' <=> Pending(d)) /\ (At(d, "export")' <=> At(d, "export"))
      /\ ~Pending(c)'
  BY <1>1 DEF Pending, At
<1>6. PathInv'
  <2>1. \A r, s \in connections' : r.path = s.path => r = s
    <3>1. \A r \in connections : r.path # new.path
      BY <1>3 DEF PathsOf
    <3> QED
      BY <1>2, <3>1 DEF StoreInv, PathInv
  <2>2. \A p \in PathsOf(connections') : 0 < p /\ p < nextSettingsId'
    BY <1>2, <1>3 DEF StoreInv, PathInv
  <2>3. \A d \in Clients : calls'[d].rec.path < nextSettingsId'
    BY <1>1, <1>2, <1>3 DEF StoreInv, PathInv
  <2>4. \A d \in Clients : \A p \in calls'[d].stale : 0 < p /\ p < nextSettingsId'
    BY <1>1, <1>2 DEF StoreInv, PathInv
  <2>5. \A d \in Clients : Pending(d)' =>
           0 < calls'[d].rec.path /\ calls'[d].rec.path \notin PathsOf(connections')
    BY <1>1, <1>2, <1>4, <1>5 DEF StoreInv, PathInv
  <2>6. \A d, e \in Clients : d # e /\ Pending(e)' => calls'[d].rec.path # calls'[e].rec.path
    <3>1. \A d \in Clients : calls'[d].rec.path = calls[d].rec.path
      BY <1>1 DEF new
    <3> QED
      BY <1>5, <3>1 DEF StoreInv, PathInv
  <2>7. \A d, e \in Clients : Pending(e)' => calls'[e].rec.path \notin calls'[d].stale
    BY <1>1, <1>5 DEF StoreInv, PathInv
  <2>8. \A d \in Clients : At(d, "unexport")' => calls'[d].rec.path \notin PathsOf(connections')
    BY <1>1, <1>2, <1>4 DEF StoreInv, PathInv, At
  <2>9. \A d \in Clients : calls'[d].pc \in {"reread", "nextAuto", "check"} => calls'[d].op # "add"
    BY <1>1 DEF StoreInv, PathInv
  <2> QED
    BY <2>1, <2>2, <2>3, <2>4, <2>5, <2>6, <2>7, <2>8, <2>9 DEF PathInv
<1>7. Shown'
  <2>1. ~At(c, "export")
    BY DEF Insert, At
  <2> QED
    BY <1>1, <1>2, <1>5, <2>1 DEF StoreInv, Shown, At
<1>8. KeepsRetired
  <2>1. Pending(c)
    BY DEF Insert, Pending
  <2> QED
    BY <1>1, <1>2, <1>5, <2>1 DEF KeepsRetired, Retired, new
<1> QED
  BY <1>6, <1>7, <1>8 DEF StoreInv

LEMMA EditStore ==
    ASSUME TypeInv, TypeInv', StoreInv, NEW c \in Clients, At(c, "idle"),
           NEW op, op # "add", NEW p \in PathsOf(connections), NEW r, r.path = p, NEW ver,
           StartEdit(c, op, p, r, ver),
           UNCHANGED <<connections, nextSettingsId, exported>>
    PROVE  StoreInv' /\ KeepsRetired
<1>1. /\ calls'[c].op = op /\ calls'[c].rec = r /\ calls'[c].stale = {}
      /\ calls'[c].pc \in {PersistStep(r), "check"}
      /\ \A d \in Clients \ {c} : calls'[d] = calls[d]
  BY DEF StartEdit, Idle, TypeInv, TypeOK
<1>2. PersistStep(r) \in {"apply", "write"}
  BY DEF PersistStep
<1>3. \A q, s \in connections' : q.path = s.path => q = s
  BY DEF StoreInv, PathInv
<1> QED
  BY <1>1, <1>2, <1>3, TakesNoPath DEF Pending, At

(* A request that only puts the task of c somewhere harmless.              *)
LEMMA BeginStore ==
    ASSUME TypeInv, TypeInv', StoreInv, NEW c \in Clients, At(c, "idle"),
           \A d \in Clients \ {c} : calls'[d] = calls[d],
           calls'[c].pc \in {"unlink", "import", "reread", "nextAuto", "nextStale"},
           calls'[c].op # "add",
           calls'[c].rec.path \in {0} \cup PathsOf(connections),
           calls'[c].stale \subseteq PathsOf(connections),
           PathsOf(connections') = PathsOf(connections),
           \A r, s \in connections' : r.path = s.path => r = s,
           UNCHANGED <<nextSettingsId, exported>>
    PROVE  StoreInv' /\ KeepsRetired
BY TakesNoPath DEF Pending, At

LEMMA RequestStore ==
    ASSUME TypeInv, TypeInv', StoreInv, NEW c \in Clients, Request(c)
    PROVE  StoreInv' /\ KeepsRetired
<1>0. /\ At(c, "idle")
      /\ \A q, s \in connections : q.path = s.path => q = s
  BY DEF Request, AddConnection, Update, UpdateUnsaved, Update2, Save, ClearSecrets, Delete,
         LoadConnections, ReloadConnections, Reapply, SetAutoconnect, DeleteDevice, MayCall, At,
         StoreInv, PathInv
<1>1. \A p \in PathsOf(connections) : Lookup(p).path = p /\ Lookup(p) \in Record
  BY LookupFinds DEF TypeInv, TypeOK
<1>2. CASE AddConnection(c)
  <2>1. PICK s \in { t \in Profiles : t.uuid # NoUuid }, unsaved \in BOOLEAN, p \in 1..MaxPath :
           /\ Allocate(p)
           /\ calls' = [calls EXCEPT ![c] = [Idle EXCEPT
                  !.op = "add",
                  !.pc = IF unsaved THEN "insert" ELSE "write",
                  !.rec = [WithSettings(Blank, s) EXCEPT !.path = p, !.unsaved = unsaved]]]
    BY <1>2 DEF AddConnection
  <2>2. [WithSettings(Blank, s) EXCEPT !.path = p, !.unsaved = unsaved].path = p
    BY DEF WithSettings, Blank
  <2>3. /\ calls'[c].pc \in {"insert", "write"} /\ calls'[c].stale = {}
        /\ calls'[c].rec.path = p
        /\ \A d \in Clients \ {c} : calls'[d] = calls[d]
    BY <2>1, <2>2 DEF Idle, TypeInv, TypeOK
  <2> QED
    BY <1>0, <1>2, <2>1, <2>3, TakesFreshPath DEF AddConnection, Allocate, At
<1>3. CASE Update(c)
  <2>1. PICK p \in Editable, s \in Profiles : StartEdit(c, "update", p, WithSettings(Lookup(p), s), 0)
    BY <1>3 DEF Update
  <2>2. p \in PathsOf(connections) /\ WithSettings(Lookup(p), s).path = p
    BY <1>1 DEF Editable, WithSettings, Record
  <2> QED
    BY <1>0, <1>3, <2>1, <2>2, EditStore DEF Update
<1>4. CASE UpdateUnsaved(c)
  <2>1. PICK p \in Editable, s \in Profiles :
           StartEdit(c, "updateUnsaved", p, [WithSettings(Lookup(p), s) EXCEPT !.unsaved = TRUE], 0)
    BY <1>4 DEF UpdateUnsaved
  <2>2. p \in PathsOf(connections) /\ [WithSettings(Lookup(p), s) EXCEPT !.unsaved = TRUE].path = p
    BY <1>1 DEF Editable, WithSettings, Record
  <2> QED
    BY <1>0, <1>4, <2>1, <2>2, EditStore DEF UpdateUnsaved
<1>5. CASE Update2(c)
  <2>1. PICK p \in Editable, s \in Profiles, ver \in {0, versionId}, unsaved \in BOOLEAN :
           StartEdit(c, "update2", p, [WithSettings(Lookup(p), s) EXCEPT !.unsaved = unsaved], ver)
    BY <1>5 DEF Update2
  <2>2. p \in PathsOf(connections) /\ [WithSettings(Lookup(p), s) EXCEPT !.unsaved = unsaved].path = p
    BY <1>1 DEF Editable, WithSettings, Record
  <2> QED
    BY <1>0, <1>5, <2>1, <2>2, EditStore DEF Update2
<1>6. CASE Save(c)
  <2>1. PICK p \in Editable : StartEdit(c, "save", p, [Lookup(p) EXCEPT !.unsaved = FALSE], 0)
    BY <1>6 DEF Save
  <2>2. p \in PathsOf(connections) /\ [Lookup(p) EXCEPT !.unsaved = FALSE].path = p
    BY <1>1 DEF Editable, Record
  <2> QED
    BY <1>0, <1>6, <2>1, <2>2, EditStore DEF Save
<1>7. CASE ClearSecrets(c)
  <2>1. PICK p \in Editable : \E body \in {NoBody, Lookup(p).body} :
           StartEdit(c, "clearSecrets", p, [Lookup(p) EXCEPT !.body = body], 0)
    BY <1>7 DEF ClearSecrets
  <2>2. PICK body : StartEdit(c, "clearSecrets", p, [Lookup(p) EXCEPT !.body = body], 0)
    BY <2>1
  <2>3. p \in PathsOf(connections) /\ [Lookup(p) EXCEPT !.body = body].path = p
    BY <1>1 DEF Editable, Record
  <2> QED
    BY <1>0, <1>7, <2>2, <2>3, EditStore DEF ClearSecrets
<1>8. CASE Delete(c)
  <2>1. PICK p \in Editable :
           calls' = [calls EXCEPT ![c] = [Idle EXCEPT
               !.op = "delete", !.pc = "unlink", !.rec = Lookup(p)]]
    BY <1>8 DEF Delete
  <2>2. /\ calls'[c].pc = "unlink" /\ calls'[c].op = "delete"
        /\ calls'[c].rec = Lookup(p) /\ calls'[c].stale = {}
        /\ \A d \in Clients \ {c} : calls'[d] = calls[d]
    BY <2>1 DEF Idle, TypeInv, TypeOK
  <2>3. p \in PathsOf(connections) /\ Lookup(p).path = p
    BY <1>1 DEF Editable
  <2> QED
    BY <1>0, <1>8, <2>2, <2>3, BeginStore DEF Delete
<1>9. CASE LoadConnections(c) \/ ReloadConnections(c)
  <2>1. PICK op \in {"load", "reload"}, fs \in SUBSET PlainFiles : StartImport(c, op, fs)
    <3>1. Discovered \subseteq PlainFiles
      BY DEF Discovered
    <3> QED
      BY <1>9, <3>1 DEF LoadConnections, ReloadConnections
  <2>2. /\ calls'[c].pc = "import" /\ calls'[c].op = op
        /\ calls'[c].rec.path = 0 /\ calls'[c].stale = {}
        /\ \A d \in Clients \ {c} : calls'[d] = calls[d]
    BY <2>1 DEF StartImport, Idle, Blank, TypeInv, TypeOK
  <2> QED
    BY <1>0, <1>9, <2>1, <2>2, BeginStore DEF LoadConnections, ReloadConnections
<1>10. CASE Reapply(c)
  <2>1. PICK p \in PathsOf(connections), s \in Profiles :
           /\ Replace(p, WithSettings(Lookup(p), s))
           /\ calls' = [calls EXCEPT ![c] = [Idle EXCEPT
                  !.op = "reapply", !.pc = "reread", !.rec.path = p]]
    BY <1>10 DEF Reapply
  <2>2. WithSettings(Lookup(p), s).path = p
    BY <1>1 DEF WithSettings, Record
  <2>3. /\ PathsOf(connections') = PathsOf(connections)
        /\ \A q, r \in connections' : q.path = r.path => q = r
    BY <2>1, <2>2, ReplaceKeepsPaths
  <2>4. /\ calls'[c].pc = "reread" /\ calls'[c].op = "reapply"
        /\ calls'[c].rec.path = p /\ calls'[c].stale = {}
        /\ \A d \in Clients \ {c} : calls'[d] = calls[d]
    BY <2>1 DEF Idle, Blank, TypeInv, TypeOK
  <2> QED
    BY <1>0, <1>10, <2>3, <2>4, BeginStore DEF Reapply
<1>11. CASE SetAutoconnect(c) \/ DeleteDevice(c)
  <2>1. PICK i \in Interfaces, op \in {"autoconnect", "deviceDelete"}, pc \in {"nextAuto", "nextStale"} :
           calls' = [calls EXCEPT ![c] = [Idle EXCEPT
               !.op = op, !.pc = pc, !.stale = PathsForInterface(i)]]
    BY <1>11 DEF SetAutoconnect, DeleteDevice
  <2>2. PathsForInterface(i) \subseteq PathsOf(connections)
    BY DEF PathsForInterface, PathsOf
  <2>3. /\ calls'[c].pc = pc /\ calls'[c].op = op
        /\ calls'[c].rec.path = 0 /\ calls'[c].stale = PathsForInterface(i)
        /\ \A d \in Clients \ {c} : calls'[d] = calls[d]
    BY <2>1 DEF Idle, Blank, TypeInv, TypeOK
  <2> QED
    BY <1>0, <1>11, <2>2, <2>3, BeginStore DEF SetAutoconnect, DeleteDevice
<1> QED
  BY <1>2, <1>3, <1>4, <1>5, <1>6, <1>7, <1>8, <1>9, <1>10, <1>11 DEF Request

LEMMA NextStore ==
    ASSUME TypeInv, TypeInv', StoreInv, [Next]_vars
    PROVE  StoreInv' /\ (KeepsRetired \/ Restart)
<1>1. ASSUME NEW c \in Clients, Request(c) PROVE StoreInv' /\ KeepsRetired
  BY <1>1, RequestStore
<1>2. ASSUME NEW c \in Clients, Step(c) PROVE StoreInv' /\ KeepsRetired
  BY <1>2, StepsThatTakeNoPath, LookupStore, InsertStore
<1>3. CASE EditFiles \/ UNCHANGED vars
  BY <1>3 DEF EditFiles, vars, StoreInv, PathInv, Shown, Pending, At, KeepsRetired, Retired
<1>4. CASE Restart
  BY <1>4, StartupPaths DEF Restart, StoreInv, PathInv, Shown, Pending, At, Idle, Blank
<1> QED
  BY <1>1, <1>2, <1>3, <1>4 DEF Next

LEMMA StoreInvariant == Spec => [](TypeInv /\ StoreInv)
<1>1. Spec => []TypeInv
  BY InitTypes, NextTypes, PTL DEF Spec
<1> QED
  BY <1>1, InitStore, NextStore, PTL DEF Spec

\* Two records never share a settings path, no path is used that was not handed
\* out, and no task holds a path ahead of the counter.
THEOREM PathsAlwaysUnique == Spec => []PathsUnique
BY StoreInvariant, StoreInvImplies, PTL

\* A profile of the table always has its object, or the task that gives it one.
THEOREM NoProfileHidden == Spec => []NoHiddenProfile
BY StoreInvariant, StoreInvImplies, PTL

\* A path that was given up is given to nobody until the service restarts.
THEOREM PathsStayRetired == Spec => PathsRetired
<1>1. TypeInv /\ TypeInv' /\ StoreInv /\ [Next]_vars =>
        [\A p \in 1..(nextSettingsId - 1) : Retired(p) => Retired(p)' \/ Restart]_vars
  BY NextStore DEF KeepsRetired
<1> QED
  BY <1>1, StoreInvariant, PTL DEF Spec, PathsRetired

(* Whoever changes the table raises VersionId.                             *)
LEMMA RemoveRaisesVersion ==
    ASSUME TypeInv, NEW p, RemoveRecord(p)
    PROVE  connections' # connections => versionId' > versionId
<1>1. p \notin PathsOf(connections) => connections' = connections
  BY DEF RemoveRecord, PathsOf
<1> QED
  BY <1>1 DEF RemoveRecord, TypeInv, TypeOK

LEMMA NextRaisesVersion ==
    ASSUME TypeInv, [Next]_vars
    PROVE  connections' # connections => versionId' > versionId \/ Restart
<1>0. versionId + 1 > versionId
  BY DEF TypeInv, TypeOK
<1>1. ASSUME NEW c \in Clients, Request(c)
      PROVE  connections' # connections => versionId' > versionId
  BY <1>0, <1>1 DEF Request, AddConnection, Update, UpdateUnsaved, Update2, Save, ClearSecrets,
         Delete, LoadConnections, ReloadConnections, Reapply, Replace, SetAutoconnect, DeleteDevice
<1>2. ASSUME NEW c \in Clients, Step(c)
      PROVE  connections' # connections => versionId' > versionId
  <2>1. CASE Apply(c) \/ ImportOverwrite(c) \/ Insert(c)
    BY <1>0, <2>1 DEF Apply, ImportOverwrite, Insert, Replace
  <2>2. CASE DeleteRecord(c) \/ RemoveStale(c)
    BY <2>2, RemoveRaisesVersion DEF DeleteRecord, RemoveStale
  <2>3. CASE UNCHANGED connections
    BY <2>3
  <2> QED
    BY <1>2, <2>1, <2>2, <2>3
    DEF Step, WriteFile, WriteFails, UnlinkOld, Export, DeleteFile, Unexport, ImportFile,
        ImportLookup, ImportDone, StaleDone, Reread, SetNextAutoconnect, AutoconnectDone,
        CheckVersion
<1> QED
  BY <1>1, <1>2 DEF Next, EditFiles, vars

\* As long as the service runs, a client that reads the same VersionId twice has
\* seen the same table.
THEOREM VersionAlwaysBumped == Spec => VersionBumped
<1>1. Spec => []TypeInv
  BY InitTypes, NextTypes, PTL DEF Spec
<1>2. TypeInv /\ [Next]_vars => [connections' # connections => versionId' > versionId \/ Restart]_vars
  BY NextRaisesVersion
<1> QED
  BY <1>1, <1>2, PTL DEF Spec, VersionBumped

-----------------------------------------------------------------------------
(***************************************************************************)
(* Ghosts.  Whoever removes a profile unregisters its object next.         *)
(***************************************************************************)
Unexporting(c, p) == At(c, "unexport") /\ calls[c].rec.path = p

\* An object that is not a ghost does not become one if it was there and those who
\* care for it do.
LEMMA NoGhost ==
    ASSUME NEW p, ~Ghost(p), p \in exported' => p \in exported,
           p \in PathsOf(connections) => \/ p \in PathsOf(connections')
                                        \/ \E c \in Clients : Unexporting(c, p)',
           \A c \in Clients : Unexporting(c, p) => Unexporting(c, p)' \/ p \notin exported'
    PROVE  ~Ghost(p)'
BY DEF Ghost, Unexporting, At, PathsOf

LEMMA ReplaceKeepsPathSet ==
    ASSUME NEW p, NEW r, r.path = p, Replace(p, r)
    PROVE  PathsOf(connections') = PathsOf(connections)
BY DEF Replace, PathsOf

LEMMA RequestLeavesNoGhost ==
    ASSUME TypeInv, NEW c \in Clients, Request(c), NEW p, ~Ghost(p)
    PROVE  ~Ghost(p)'
<1>1. /\ At(c, "idle") /\ exported' = exported
      /\ \A d \in Clients \ {c} : calls'[d] = calls[d]
  BY DEF Request, AddConnection, Update, UpdateUnsaved, Update2, Save, ClearSecrets, Delete,
         LoadConnections, ReloadConnections, Reapply, SetAutoconnect, DeleteDevice, MayCall, At,
         StartEdit, StartImport, TypeInv, TypeOK
<1>2. PathsOf(connections') = PathsOf(connections)
  <2>1. CASE Reapply(c)
    <3>1. PICK q \in PathsOf(connections), s \in Profiles : Replace(q, WithSettings(Lookup(q), s))
      BY <2>1 DEF Reapply
    <3>2. WithSettings(Lookup(q), s).path = q
      BY <3>1, LookupFinds, WithSettingsType DEF TypeInv, TypeOK
    <3>3. QED BY <3>1, <3>2, ReplaceKeepsPathSet
  <2>2. CASE ~Reapply(c)
    BY <2>2 DEF Request, AddConnection, Update, UpdateUnsaved, Update2, Save, ClearSecrets, Delete,
                LoadConnections, ReloadConnections, SetAutoconnect, DeleteDevice, PathsOf
  <2>3. QED BY <2>1, <2>2
<1>3. \A d \in Clients : Unexporting(d, p) => Unexporting(d, p)'
  BY <1>1 DEF Unexporting, At
<1>4. QED BY <1>1, <1>2, <1>3, NoGhost

LEMMA StepLeavesNoGhost ==
    ASSUME TypeInv, NEW c \in Clients, Step(c), NEW p, ~Ghost(p),
           ~(Export(c) /\ calls[c].rec.path = p)
    PROVE  ~Ghost(p)'
<1>0. calls \in [Clients -> Call]
  BY DEF TypeInv, TypeOK
<1>1. \A d \in Clients \ {c} : calls'[d] = calls[d]
  BY <1>0 DEF Step, WriteFile, WriteFails, UnlinkOld, Apply, Insert, Export, CheckVersion, DeleteFile,
      DeleteRecord, Unexport, ImportFile, ImportLookup, ImportOverwrite, ImportDone, RemoveStale,
      StaleDone, Reread, SetNextAutoconnect, AutoconnectDone, Goto, Return
<1>2. CASE WriteFile(c) \/ WriteFails(c) \/ UnlinkOld(c) \/ CheckVersion(c) \/ DeleteFile(c)
           \/ ImportFile(c) \/ ImportLookup(c) \/ ImportDone(c) \/ StaleDone(c) \/ Reread(c)
           \/ SetNextAutoconnect(c) \/ AutoconnectDone(c)
  <2>1. UNCHANGED <<connections, exported>> /\ ~At(c, "unexport")
    BY <1>2 DEF WriteFile, WriteFails, UnlinkOld, CheckVersion, DeleteFile, ImportFile, ImportLookup,
                ImportDone, StaleDone, Reread, SetNextAutoconnect, AutoconnectDone, At
  <2>2. QED BY <1>1, <2>1, NoGhost DEF Unexporting, At, PathsOf
<1>3. CASE Apply(c) \/ ImportOverwrite(c) \/ Insert(c)
  <2>1. exported' = exported /\ ~At(c, "unexport")
    BY <1>3 DEF Apply, ImportOverwrite, Insert, At
  <2>2. PathsOf(connections) \subseteq PathsOf(connections')
    BY <1>3, ReplaceKeepsPathSet DEF Apply, ImportOverwrite, Insert, PathsOf
  <2>3. QED BY <1>1, <2>1, <2>2, NoGhost DEF Unexporting, At
<1>4. CASE Export(c)
  <2>1. /\ exported' = exported \cup {calls[c].rec.path} /\ calls[c].rec.path # p
        /\ connections' = connections /\ ~At(c, "unexport")
    BY <1>4 DEF Export, At
  <2>2. QED BY <1>1, <2>1, NoGhost DEF Unexporting, At, PathsOf
<1>5. CASE DeleteRecord(c)
  <2>1. PICK q : q = calls[c].rec.path
    OBVIOUS
  <2>2. exported' = exported /\ ~At(c, "unexport") /\ RemoveRecord(q)
    BY <1>5, <2>1 DEF DeleteRecord, At
  <2>3. PathsOf(connections') = PathsOf(connections) \ {q}
    BY <2>2 DEF RemoveRecord, PathsOf
  <2>4. q \in PathsOf(connections) => Unexporting(c, q)'
    BY <1>5, <2>1, GotoFacts DEF DeleteRecord, Unexporting, At
  <2>5. QED BY <1>1, <2>2, <2>3, <2>4, NoGhost DEF Unexporting, At
<1>6. CASE RemoveStale(c)
  <2>1. PICK q \in calls[c].stale :
            /\ RemoveRecord(q)
            /\ calls' = [calls EXCEPT ![c].stale = @ \ {q}, ![c].rec.path = q, ![c].pc = "unexport"]
    BY <1>6 DEF RemoveStale
  <2>2. exported' = exported /\ ~At(c, "unexport")
    BY <1>6 DEF RemoveStale, At
  <2>3. PathsOf(connections') = PathsOf(connections) \ {q}
    BY <2>1 DEF RemoveRecord, PathsOf
  <2>4. Unexporting(c, q)'
    BY <1>0, <2>1 DEF Unexporting, At, Call, Record
  <2>5. QED BY <1>1, <2>2, <2>3, <2>4, NoGhost DEF Unexporting, At
<1>7. CASE Unexport(c)
  <2>1. exported' = exported \ {calls[c].rec.path} /\ connections' = connections
    BY <1>7 DEF Unexport
  <2>2. QED BY <1>1, <2>1, NoGhost DEF Unexporting, At, PathsOf
<1>8. QED BY <1>2, <1>3, <1>4, <1>5, <1>6, <1>7 DEF Step

\* Of OnlyLateAddsLeaveGhosts: whoever calls what in whatever order, an object outlives
\* its profile only if it is registered after the profile was removed.
THEOREM GhostsOnlyFromLateAdds == Spec => OnlyLateAddsLeaveGhosts
<1> DEFINE Late(p) == \E c \in Clients : calls[c].rec.path = p /\ Export(c)
<1>1. ASSUME TypeInv, [Next]_vars, NEW p, ~Ghost(p), Ghost(p)'
      PROVE  Late(p)
  <2>1. CASE \E c \in Clients : Request(c) \/ Step(c)
    BY <1>1, <2>1, RequestLeavesNoGhost, StepLeavesNoGhost
  <2>2. CASE EditFiles \/ UNCHANGED vars
    BY <1>1, <2>2 DEF EditFiles, vars, Ghost, At, PathsOf
  <2>3. CASE Restart
    BY <1>1, <2>3 DEF Restart, Ghost, PathsOf
  <2>4. QED BY <1>1, <2>1, <2>2, <2>3 DEF Next
<1>2. TypeInv /\ [Next]_vars => [\A p \in 1..(nextSettingsId - 1) : ~Ghost(p) /\ Ghost(p)' =>
          \E c \in Clients : calls[c].rec.path = p /\ Export(c)]_vars
  BY <1>1
<1>3. Spec => []TypeInv
  BY InitTypes, NextTypes, PTL DEF Spec
<1>4. QED BY <1>2, <1>3, PTL DEF Spec, OnlyLateAddsLeaveGhosts

-----------------------------------------------------------------------------
(***************************************************************************)
(* One caller, and nobody else at the files                                *)
(***************************************************************************)
OneCaller == "admin" \notin Ops /\ \A c, d \in Clients : c = d

\* The record that the task of c is about to put into the table has its file, and so
\* has one whose file of before is about to go.
HasFile(c) == calls[c].rec.filename \in DOMAIN files
Backed(c) ==
    /\ At(c, "unlink") => calls[c].op = "delete"
    /\ At(c, "unlinkOld") => HasFile(c) /\ calls[c].old # calls[c].rec.filename
    /\ calls[c].pc \in {"apply", "lookup", "insert", "overwrite"} =>
           calls[c].rec.unsaved \/ HasFile(c)

\* ReloadConnections has a saved profile for every file it has been through, the one
\* that was imported from it; once it prunes, it will keep these and no others.
Importing == {"lookup", "insert", "overwrite"}
Pruning == {"nextStale", "unexport"}
IsImport(r, f) == Saved(r) /\ r.filename = f /\ r.uuid = ImportedUuid(f)
Mirroring(c) ==
    LET call == calls[c] IN
    call.op = "reload" =>
        /\ call.pc \in {"import", "export"} \cup Importing \cup Pruning
        /\ call.found = Discovered /\ call.todo \subseteq call.found
        /\ call.pc \in Importing => call.rec.filename \in call.found
                                    /\ IsImport(call.rec, call.rec.filename)
        /\ call.pc = "overwrite" =>
               \E r \in connections : r.path = call.rec.path /\ r.uuid = call.rec.uuid
        /\ call.pc \notin Pruning /\ call.ok => \A f \in call.found \ call.todo :
               \/ \E r \in connections : IsImport(r, f)
               \/ call.pc \in Importing /\ call.rec.filename = f
        /\ call.pc \in Pruning =>
               /\ \A r \in connections : Saved(r) => r.filename \in call.found \/ r.path \in call.stale
               /\ \A f \in call.found :
                     \E r \in connections : Saved(r) /\ r.filename = f /\ r.path \notin call.stale
AloneInv == \A c \in Clients : Backed(c) /\ Mirroring(c)

LEMMA InitAlone == Init => AloneInv
BY DEF Init, AloneInv, Backed, Mirroring, At, Idle

LEMMA EditAlone ==
    ASSUME TypeInv, NEW c \in Clients, NEW op, op # "reload", NEW p, NEW r, NEW ver,
           StartEdit(c, op, p, r, ver)
    PROVE  Backed(c)' /\ Mirroring(c)'
<1>1. /\ calls'[c].op = op /\ calls'[c].rec = r
      /\ calls'[c].pc = IF ver = 0 THEN PersistStep(r) ELSE "check"
  BY DEF StartEdit, TypeInv, TypeOK, Idle
<1>2. calls'[c].pc \in {"check", "write"} \/ (calls'[c].pc = "apply" /\ r.unsaved)
  BY <1>1 DEF PersistStep
<1>3. QED BY <1>1, <1>2 DEF Backed, Mirroring, At

LEMMA RequestAlone ==
    ASSUME TypeInv, NEW c \in Clients, Request(c)
    PROVE  Backed(c)' /\ Mirroring(c)'
<1>1. CASE AddConnection(c)
  <2>1. PICK s \in Profiles, unsaved \in BOOLEAN, p \in 1..MaxPath :
           calls' = [calls EXCEPT ![c] = [Idle EXCEPT
                  !.op = "add", !.pc = IF unsaved THEN "insert" ELSE "write",
                  !.rec = [WithSettings(Blank, s) EXCEPT !.path = p, !.unsaved = unsaved]]]
    BY <1>1 DEF AddConnection
  <2>2. calls'[c].op = "add" /\ (calls'[c].pc = "write" \/ (calls'[c].pc = "insert" /\ calls'[c].rec.unsaved))
    BY <2>1 DEF TypeInv, TypeOK, Idle, WithSettings, Blank
  <2>3. QED BY <2>2 DEF Backed, Mirroring, At
<1>2. CASE Update(c) \/ UpdateUnsaved(c) \/ Update2(c) \/ Save(c) \/ ClearSecrets(c)
  <2>1. CASE Update(c)
    BY <2>1, EditAlone DEF Update
  <2>2. CASE UpdateUnsaved(c)
    BY <2>2, EditAlone DEF UpdateUnsaved
  <2>3. CASE Update2(c)
    BY <2>3, EditAlone DEF Update2
  <2>4. CASE Save(c)
    BY <2>4, EditAlone DEF Save
  <2>5. CASE ClearSecrets(c)
    BY <2>5, EditAlone DEF ClearSecrets
  <2>6. QED BY <1>2, <2>1, <2>2, <2>3, <2>4, <2>5
<1>3. CASE Delete(c) \/ Reapply(c) \/ SetAutoconnect(c) \/ DeleteDevice(c)
  <2>0. calls \in [Clients -> Call]
    BY DEF TypeInv, TypeOK
  <2>1. CASE Delete(c)
    <3>1. calls'[c].pc = "unlink" /\ calls'[c].op = "delete"
      BY <2>0, <2>1 DEF Delete, Idle
    <3>2. QED BY <3>1 DEF Backed, Mirroring, At
  <2>2. CASE Reapply(c)
    <3>1. calls'[c].pc = "reread" /\ calls'[c].op = "reapply"
      BY <2>0, <2>2 DEF Reapply, Idle
    <3>2. QED BY <3>1 DEF Backed, Mirroring, At
  <2>3. CASE SetAutoconnect(c)
    <3>1. calls'[c].pc = "nextAuto" /\ calls'[c].op = "autoconnect"
      BY <2>0, <2>3 DEF SetAutoconnect, Idle
    <3>2. QED BY <3>1 DEF Backed, Mirroring, At
  <2>4. CASE DeleteDevice(c)
    <3>1. calls'[c].pc = "nextStale" /\ calls'[c].op = "deviceDelete"
      BY <2>0, <2>4 DEF DeleteDevice, Idle
    <3>2. QED BY <3>1 DEF Backed, Mirroring, At
  <2>5. QED BY <1>3, <2>1, <2>2, <2>3, <2>4
<1>4. CASE LoadConnections(c)
  <2>1. calls'[c].pc = "import" /\ calls'[c].op = "load"
    BY <1>4 DEF LoadConnections, StartImport, TypeInv, TypeOK, Idle
  <2>2. QED BY <2>1 DEF Backed, Mirroring, At
<1>5. CASE ReloadConnections(c)
  <2>1. /\ calls'[c].pc = "import" /\ calls'[c].found = Discovered
        /\ calls'[c].todo = Discovered /\ files' = files
    BY <1>5 DEF ReloadConnections, StartImport, TypeInv, TypeOK, Idle
  <2>2. Discovered' = Discovered
    BY <2>1 DEF Discovered
  <2>3. QED BY <2>1, <2>2 DEF Backed, Mirroring, At, Importing, Pruning
<1>6. QED BY <1>1, <1>2, <1>3, <1>4, <1>5 DEF Request

\* What the steps of an import change in the task
LEMMA ImportFileFacts ==
    ASSUME TypeInv, NEW c \in Clients, ImportFile(c)
    PROVE  /\ UNCHANGED <<connections, files>>
           /\ calls'[c].op = calls[c].op /\ calls'[c].found = calls[c].found
           /\ \E f \in calls[c].todo :
                  /\ calls'[c].todo = calls[c].todo \ {f}
                  /\ \/ /\ f \in DOMAIN files /\ calls'[c].pc = "lookup"
                        /\ calls'[c].rec = Imported(f, files[f]) /\ calls'[c].ok = calls[c].ok
                     \/ calls'[c].pc = "import" /\ ~calls'[c].ok
<1>0. calls[c] \in Call /\ calls \in [Clients -> Call] /\ calls[c].pc = "import"
  BY DEF TypeInv, TypeOK, ImportFile, At
<1>1. UNCHANGED <<connections, files>>
  BY DEF ImportFile
<1>2. PICK f \in calls[c].todo :
         \/ /\ f \in DOMAIN files
            /\ calls' = [calls EXCEPT ![c] = [[calls[c] EXCEPT !.todo = @ \ {f}] EXCEPT
                                                  !.rec = Imported(f, files[f]), !.pc = "lookup"]]
         \/ calls' = [calls EXCEPT ![c] = [[calls[c] EXCEPT !.todo = @ \ {f}] EXCEPT !.ok = FALSE]]
  BY DEF ImportFile
<1> DEFINE left == [calls[c] EXCEPT !.todo = @ \ {f}]
<1>3. /\ left \in Call /\ left.op = calls[c].op /\ left.found = calls[c].found
      /\ left.todo = calls[c].todo \ {f} /\ left.pc = "import" /\ left.ok = calls[c].ok
  BY <1>0 DEF Call
<1> HIDE DEF left
<1>4. CASE /\ f \in DOMAIN files
           /\ calls' = [calls EXCEPT ![c] = [left EXCEPT !.rec = Imported(f, files[f]), !.pc = "lookup"]]
  <2>1. calls'[c] = [left EXCEPT !.rec = Imported(f, files[f]), !.pc = "lookup"]
    BY <1>0, <1>4
  <2>2. /\ calls'[c].pc = "lookup" /\ calls'[c].rec = Imported(f, files[f])
        /\ calls'[c].op = left.op /\ calls'[c].found = left.found /\ calls'[c].todo = left.todo
        /\ calls'[c].ok = left.ok
    BY <2>1, <1>3 DEF Call
  <2>3. QED BY <1>1, <1>3, <1>4, <2>2
<1>5. CASE calls' = [calls EXCEPT ![c] = [left EXCEPT !.ok = FALSE]]
  <2>1. /\ calls'[c].pc = left.pc /\ ~calls'[c].ok
        /\ calls'[c].op = left.op /\ calls'[c].found = left.found /\ calls'[c].todo = left.todo
    BY <1>0, <1>5, <1>3 DEF Call
  <2>2. QED BY <1>1, <1>3, <2>1
<1>6. QED BY <1>2, <1>4, <1>5 DEF left

LEMMA ImportLookupFacts ==
    ASSUME TypeInv, NEW c \in Clients, ImportLookup(c)
    PROVE  /\ UNCHANGED <<connections, files>>
           /\ calls'[c].op = calls[c].op /\ calls'[c].found = calls[c].found
           /\ calls'[c].todo = calls[c].todo /\ calls'[c].ok = calls[c].ok
           /\ calls'[c].rec.filename = calls[c].rec.filename
           /\ calls'[c].rec.unsaved = calls[c].rec.unsaved
           /\ calls'[c].rec.origin = calls[c].rec.origin
           /\ calls'[c].rec.uuid = calls[c].rec.uuid
           /\ \/ calls'[c].pc = "insert"
              \/ /\ calls'[c].pc = "overwrite"
                 /\ \E r \in connections : r.path = calls'[c].rec.path /\ r.uuid = calls'[c].rec.uuid
<1>0. calls[c] \in Call /\ calls \in [Clients -> Call] /\ calls[c].rec \in Record
  BY DEF TypeInv, TypeOK, WholeRecords, HoldsRecord, ImportLookup, At
<1>1. UNCHANGED <<connections, files>>
  BY DEF ImportLookup
<1>2. CASE \E r \in connections : r.uuid = calls[c].rec.uuid
              /\ calls' = [calls EXCEPT ![c].rec.path = r.path, ![c].pc = "overwrite"]
  <2>1. PICK r \in connections : r.uuid = calls[c].rec.uuid
              /\ calls' = [calls EXCEPT ![c].rec.path = r.path, ![c].pc = "overwrite"]
    BY <1>2
  <2>2. calls'[c] = [calls[c] EXCEPT !.rec = [calls[c].rec EXCEPT !.path = r.path], !.pc = "overwrite"]
    BY <1>0, <2>1 DEF Call
  <2>3. QED BY <1>0, <1>1, <2>1, <2>2 DEF Call, Record
<1>3. CASE \E p \in 1..MaxPath : calls' = [calls EXCEPT ![c].rec.path = p, ![c].pc = "insert"]
  <2>1. PICK p \in 1..MaxPath : calls' = [calls EXCEPT ![c].rec.path = p, ![c].pc = "insert"]
    BY <1>3
  <2>2. calls'[c] = [calls[c] EXCEPT !.rec = [calls[c].rec EXCEPT !.path = p], !.pc = "insert"]
    BY <1>0, <2>1 DEF Call
  <2>3. QED BY <1>0, <1>1, <2>2 DEF Call, Record
<1>4. QED BY <1>2, <1>3 DEF ImportLookup

LEMMA StepBacked ==
    ASSUME TypeInv, NEW c \in Clients, Backed(c), Step(c)
    PROVE  Backed(c)'
<1>0. calls[c] \in Call /\ calls \in [Clients -> Call]
  BY DEF TypeInv, TypeOK
<1>1. CASE Return(c)
  BY <1>1, ReturnFacts DEF Backed, At
<1>2. CASE WriteFile(c)
  <2>1. calls[c].rec \in Record
    BY <1>2 DEF WriteFile, At, TypeInv, WholeRecords, HoldsRecord
  <2>2. /\ DOMAIN files' = DOMAIN files \cup {FileOf(calls[c].rec)}
        /\ calls'[c].rec.filename = FileOf(calls[c].rec)
        /\ calls'[c].pc \in {"insert", "apply", "unlinkOld"} /\ calls'[c].old = calls[c].old
        /\ calls'[c].pc = "unlinkOld" => calls[c].old # FileOf(calls[c].rec)
    BY <1>0, <1>2, <2>1 DEF WriteFile, WithFile, Call, Record
  <2>3. QED BY <2>2 DEF Backed, At, HasFile
<1>3. CASE UnlinkOld(c) /\ ~Return(c)
  <2>1. /\ DOMAIN files' = DOMAIN files \ {calls[c].old} /\ At(c, "unlinkOld")
        /\ Goto(c, "apply")
    BY <1>3 DEF UnlinkOld, WithoutFile
  <2>2. QED BY <2>1, GotoFacts DEF Backed, At, HasFile
<1>4. CASE (CheckVersion(c) \/ Apply(c) \/ Insert(c) \/ Export(c) \/ DeleteFile(c) \/ DeleteRecord(c)
            \/ Unexport(c) \/ ImportOverwrite(c)) /\ ~Return(c)
  <2>1. PICK pc \in {"write", "apply", "nextAuto", "export", "import", "remove", "unexport", "nextStale"} :
           Goto(c, pc) /\ (pc = "apply" => calls[c].rec.unsaved)
    BY <1>4 DEF CheckVersion, PersistStep, Apply, Insert, Export, DeleteFile, DeleteRecord, Unexport,
                ImportOverwrite
  <2>2. QED BY <2>1, GotoFacts DEF Backed, At
<1>5. CASE ImportFile(c)
  <2>1. UNCHANGED files
    BY <1>5, ImportFileFacts
  <2>2. PICK f \in calls[c].todo :
           \/ f \in DOMAIN files /\ calls'[c].pc = "lookup" /\ calls'[c].rec = Imported(f, files[f])
           \/ calls'[c].pc = "import"
    BY <1>5, ImportFileFacts
  <2>4. Imported(f, files[f]).filename = f
    BY DEF Imported
  <2>3. QED BY <2>1, <2>2, <2>4 DEF Backed, At, HasFile
<1>6. CASE ImportLookup(c)
  <2>1. At(c, "lookup")
    BY <1>6 DEF ImportLookup
  <2>2. QED BY <1>6, <2>1, ImportLookupFacts DEF Backed, At, HasFile
<1>7. CASE ImportDone(c) /\ ~Return(c)
  BY <1>0, <1>7 DEF ImportDone, Backed, At, Call
<1>8. CASE RemoveStale(c)
  BY <1>0, <1>8 DEF RemoveStale, Backed, At, Call
<1>9. CASE Reread(c) /\ ~Return(c)
  <2>1. PICK p \in PathsOf(connections) :
           calls' = [calls EXCEPT ![c].rec = Lookup(p), ![c].old = Lookup(p).filename,
                                  ![c].pc = PersistStep(Lookup(p))]
    BY <1>9 DEF Reread
  <2>2. calls'[c].pc = PersistStep(Lookup(p)) /\ calls'[c].rec = Lookup(p)
    BY <1>0, <2>1 DEF Call
  <2>3. QED BY <2>2 DEF Backed, At, PersistStep
<1>10. CASE SetNextAutoconnect(c)
  BY <1>0, <1>10 DEF SetNextAutoconnect, Backed, At, Call
<1>11. QED BY <1>1, <1>2, <1>3, <1>4, <1>5, <1>6, <1>7, <1>8, <1>9, <1>10
           DEF Step, WriteFails, StaleDone, AutoconnectDone

LEMMA GotoKeepsImport ==
    ASSUME TypeInv, NEW c \in Clients, NEW pc, Goto(c, pc)
    PROVE  /\ calls'[c].found = calls[c].found /\ calls'[c].todo = calls[c].todo
           /\ calls'[c].ok = calls[c].ok
BY DEF TypeInv, TypeOK, Goto, Call

\* An import that overwrites a record replaces one of the same uuid, so the profiles
\* of the other files stay as they are.
LEMMA OverwriteMirroring ==
    ASSUME TypeInv, StoreInv, NEW c \in Clients, Mirroring(c), calls[c].op = "reload",
           ImportOverwrite(c)
    PROVE  Mirroring(c)'
<1> DEFINE rec == calls[c].rec
<1>1. At(c, "overwrite") /\ Goto(c, "import") /\ UNCHANGED files
  BY DEF ImportOverwrite
<1>2. /\ calls[c].found = Discovered /\ calls[c].todo \subseteq calls[c].found
      /\ rec.filename \in calls[c].found /\ IsImport(rec, rec.filename)
      /\ \E r \in connections : r.path = rec.path /\ r.uuid = rec.uuid
      /\ calls[c].ok => \A f \in calls[c].found \ calls[c].todo :
             (\E r \in connections : IsImport(r, f)) \/ rec.filename = f
  BY <1>1 DEF Mirroring, At, Importing, Pruning
<1>3. PICK old \in connections : old.path = rec.path /\ old.uuid = rec.uuid
  BY <1>2
<1>4. connections' = { IF q.path = rec.path THEN rec ELSE q : q \in connections }
  BY <1>3 DEF ImportOverwrite, Replace, PathsOf
<1>5. rec \in connections'
  BY <1>3, <1>4
<1>6. ASSUME NEW f, NEW r \in connections, IsImport(r, f)
      PROVE  \E q \in connections' : IsImport(q, f)
  <2>1. CASE r.path # rec.path
    BY <1>4, <1>6, <2>1
  <2>2. CASE r.path = rec.path
    <3>1. r = old
      BY <1>3, <2>2 DEF StoreInv, PathInv
    <3>2. ImportedUuid(f) = ImportedUuid(rec.filename)
      BY <3>1, <1>2, <1>3, <1>6 DEF IsImport
    <3>3. f = rec.filename
      BY <3>2 DEF ImportedUuid
    <3>4. QED BY <3>3, <1>2, <1>5
  <2>3. QED BY <2>1, <2>2
<1>7. /\ calls'[c].pc = "import" /\ calls'[c].found = calls[c].found
      /\ calls'[c].todo = calls[c].todo /\ calls'[c].ok = calls[c].ok
  BY <1>1, GotoFacts, GotoKeepsImport
<1>8. Discovered' = Discovered
  BY <1>1 DEF Discovered
<1>9. \A f \in calls[c].found \ calls[c].todo : calls[c].ok => \E q \in connections' : IsImport(q, f)
  <2>1. TAKE f \in calls[c].found \ calls[c].todo
  <2>2. CASE rec.filename = f
    BY <1>2, <1>5, <2>2
  <2>3. CASE \E r \in connections : IsImport(r, f)
    BY <1>6, <2>3
  <2>4. QED BY <1>2, <2>2, <2>3
<1>10. QED BY <1>2, <1>7, <1>8, <1>9 DEF Mirroring, Importing, Pruning

LEMMA StepMirroring ==
    ASSUME TypeInv, StoreInv, NEW c \in Clients, Mirroring(c), Step(c)
    PROVE  Mirroring(c)'
<1>0. /\ calls[c] \in Call /\ calls \in [Clients -> Call]
      /\ \A r, s \in connections : r.path = s.path => r = s
  BY DEF TypeInv, TypeOK, StoreInv, PathInv
<1>1. CASE Return(c)
  BY <1>1, ReturnFacts DEF Mirroring
<1>2. CASE calls[c].op # "reload" /\ ~Return(c)
  <2>1. calls'[c].op = calls[c].op
    <3>1. CASE ImportFile(c) \/ ImportLookup(c)
      BY <3>1, ImportFileFacts, ImportLookupFacts
    <3>2. CASE WriteFile(c) \/ UnlinkOld(c) \/ Apply(c) \/ Insert(c) \/ Export(c) \/ CheckVersion(c)
      BY <1>0, <1>2, <3>2 DEF WriteFile, UnlinkOld, Apply, Insert, Export, CheckVersion, Goto, Call
    <3>3. CASE DeleteFile(c) \/ DeleteRecord(c) \/ Unexport(c) \/ ImportOverwrite(c) \/ ImportDone(c)
      BY <1>0, <1>2, <3>3 DEF DeleteFile, DeleteRecord, Unexport, ImportOverwrite, ImportDone, Goto, Call
    <3>4. CASE RemoveStale(c)
      <4>1. PICK p : calls' = [calls EXCEPT ![c].stale = @ \ {p}, ![c].rec.path = p, ![c].pc = "unexport"]
        BY <3>4 DEF RemoveStale
      <4>2. QED BY <1>0, <4>1 DEF Call
    <3>5. CASE Reread(c)
      BY <1>0, <1>2, <3>5 DEF Reread, Call
    <3>6. CASE SetNextAutoconnect(c)
      <4>1. PICK p : calls' = [calls EXCEPT ![c].stale = @ \ {p}, ![c].rec.path = p, ![c].pc = "reread"]
        BY <3>6 DEF SetNextAutoconnect
      <4>2. QED BY <1>0, <4>1 DEF Call
    <3>7. QED BY <1>2, <3>1, <3>2, <3>3, <3>4, <3>5, <3>6 DEF Step, WriteFails, StaleDone, AutoconnectDone
  <2>2. QED BY <1>2, <2>1 DEF Mirroring
<1>3. CASE calls[c].op = "reload" /\ ~Return(c)
  <2>1. calls[c].pc \in {"import", "export"} \cup Importing \cup Pruning
    BY <1>3 DEF Mirroring
  <2>2. /\ calls[c].found = Discovered /\ calls[c].todo \subseteq calls[c].found
        /\ calls[c].found \subseteq Files
    BY <1>0, <1>3 DEF Mirroring, Call, Files
  <2>3. CASE ImportFile(c)
    <3>1. /\ At(c, "import")
          /\ calls[c].ok => \A f \in calls[c].found \ calls[c].todo : \E r \in connections : IsImport(r, f)
      BY <1>3, <2>3 DEF ImportFile, Mirroring, At, Importing, Pruning
    <3>2. PICK f \in calls[c].todo :
             /\ calls'[c].todo = calls[c].todo \ {f}
             /\ \/ /\ f \in DOMAIN files /\ calls'[c].pc = "lookup"
                   /\ calls'[c].rec = Imported(f, files[f]) /\ calls'[c].ok = calls[c].ok
                \/ calls'[c].pc = "import" /\ ~calls'[c].ok
      BY <2>3, ImportFileFacts
    <3>3. calls'[c].found = calls[c].found /\ connections' = connections /\ Discovered' = Discovered
      BY <2>3, ImportFileFacts DEF Discovered
    <3>4. IsImport(Imported(f, files[f]), f) /\ Imported(f, files[f]).filename = f
      BY <2>2, ConstantsAssumption DEF Imported, IsImport, Saved
    <3>5. QED BY <2>2, <3>1, <3>2, <3>3, <3>4 DEF Mirroring, Importing, Pruning
  <2>4. CASE ImportLookup(c)
    <3>1. /\ At(c, "lookup") /\ calls[c].rec.filename \in calls[c].found
          /\ IsImport(calls[c].rec, calls[c].rec.filename)
          /\ calls[c].ok => \A f \in calls[c].found \ calls[c].todo :
                (\E r \in connections : IsImport(r, f)) \/ calls[c].rec.filename = f
      BY <1>3, <2>4 DEF ImportLookup, Mirroring, At, Importing, Pruning
    <3>2. Discovered' = Discovered /\ IsImport(calls'[c].rec, calls'[c].rec.filename)
      BY <2>4, <3>1, ImportLookupFacts DEF Discovered, IsImport, Saved
    <3>3. QED BY <2>2, <2>4, <3>1, <3>2, ImportLookupFacts DEF Mirroring, Importing, Pruning
  <2>5. CASE Insert(c) \/ Export(c)
    <3>1. /\ UNCHANGED files /\ connections \subseteq connections'
          /\ Insert(c) => At(c, "insert") /\ calls[c].rec \in connections'
          /\ Export(c) => At(c, "export")
      BY <2>5 DEF Insert, Export
    <3>2. PICK pc \in {"export", "import"} : Goto(c, pc)
      BY <1>3, <2>5 DEF Insert, Export
    <3>3. Discovered' = Discovered
      BY <3>1 DEF Discovered
    <3>4. calls[c].ok => \A f \in calls[c].found \ calls[c].todo : \E r \in connections' : IsImport(r, f)
      BY <1>3, <2>5, <3>1 DEF Mirroring, At, Importing, Pruning
    <3>5. QED BY <2>2, <3>2, <3>3, <3>4, GotoFacts, GotoKeepsImport DEF Mirroring, Importing, Pruning
  <2>6. CASE ImportOverwrite(c)
    BY <1>3, <2>6, OverwriteMirroring
  <2>7. CASE ImportDone(c)
    <3> DEFINE missing == { r \in connections : /\ r.origin = "user" /\ ~r.unsaved
                                                /\ r.filename \notin calls[c].found \cup {NoFile} }
    <3>1. /\ calls[c].todo = {} /\ At(c, "import") /\ calls[c].ok
          /\ UNCHANGED <<connections, files>>
          /\ calls' = [calls EXCEPT ![c].stale = PathsOf(missing), ![c].pc = "nextStale"]
      BY <1>3, <2>7 DEF ImportDone
    <3>2. /\ calls'[c].pc = "nextStale" /\ calls'[c].stale = PathsOf(missing)
          /\ calls'[c].found = calls[c].found /\ calls'[c].todo = calls[c].todo
      <4> HIDE DEF missing
      <4> QED BY <1>0, <3>1 DEF Call
    <3>3. \A f \in calls[c].found : \E r \in connections : IsImport(r, f)
      BY <1>3, <3>1 DEF Mirroring, At, Importing, Pruning
    <3>4. \A r \in connections : Saved(r) => r.filename \in calls[c].found \/ r.path \in PathsOf(missing)
      BY DEF Saved, PathsOf
    <3>5. \A r \in connections : r.filename \in calls[c].found => r.path \notin PathsOf(missing)
      BY <1>0 DEF PathsOf
    <3>6. Discovered' = Discovered
      BY <3>1 DEF Discovered
    <3>7. \A f \in calls[c].found :
             \E r \in connections : Saved(r) /\ r.filename = f /\ r.path \notin PathsOf(missing)
      <4> HIDE DEF missing
      <4> QED BY <3>3, <3>5 DEF IsImport
    <3> HIDE DEF missing
    <3>8. /\ \A r \in connections' : Saved(r) => r.filename \in calls[c].found \/ r.path \in calls'[c].stale
          /\ \A f \in calls[c].found :
                \E r \in connections' : Saved(r) /\ r.filename = f /\ r.path \notin calls'[c].stale
      BY <3>1, <3>2, <3>4, <3>7
    <3>9. QED BY <2>2, <3>2, <3>6, <3>8 DEF Mirroring, Importing, Pruning
  <2>8. CASE RemoveStale(c)
    <3>1. PICK p \in calls[c].stale :
             /\ RemoveRecord(p)
             /\ calls' = [calls EXCEPT ![c].stale = @ \ {p}, ![c].rec.path = p, ![c].pc = "unexport"]
      BY <2>8 DEF RemoveStale
    <3>2. /\ calls'[c].pc = "unexport" /\ calls'[c].stale = calls[c].stale \ {p}
          /\ calls'[c].found = calls[c].found /\ calls'[c].todo = calls[c].todo
      BY <1>0, <3>1 DEF Call
    <3>3. connections' = { q \in connections : q.path # p } /\ Discovered' = Discovered
      BY <2>8, <3>1 DEF RemoveRecord, RemoveStale, Discovered
    <3>4. /\ \A r \in connections : Saved(r) => r.filename \in calls[c].found \/ r.path \in calls[c].stale
          /\ \A f \in calls[c].found :
                \E r \in connections : Saved(r) /\ r.filename = f /\ r.path \notin calls[c].stale
      BY <1>3, <2>8 DEF RemoveStale, At, Mirroring, Pruning
    <3>5. /\ \A r \in connections' : Saved(r) => r.filename \in calls[c].found \/ r.path \in calls'[c].stale
          /\ \A f \in calls[c].found :
                \E r \in connections' : Saved(r) /\ r.filename = f /\ r.path \notin calls'[c].stale
      BY <3>2, <3>3, <3>4
    <3>6. QED BY <2>2, <3>2, <3>3, <3>5 DEF Mirroring, Importing, Pruning
  <2>9. CASE Unexport(c)
    <3>1. At(c, "unexport") /\ Goto(c, "nextStale") /\ UNCHANGED <<connections, files>>
      BY <1>3, <2>9 DEF Unexport
    <3>2. Discovered' = Discovered
      BY <3>1 DEF Discovered
    <3>3. QED BY <1>3, <2>2, <3>1, <3>2, GotoFacts, GotoKeepsImport DEF Mirroring, At, Importing, Pruning
  <2>10. QED
    BY <1>3, <2>1, <2>3, <2>4, <2>5, <2>6, <2>7, <2>8, <2>9
       DEF Step, WriteFile, WriteFails, UnlinkOld, Apply, CheckVersion, DeleteFile, DeleteRecord,
           StaleDone, Reread, SetNextAutoconnect, AutoconnectDone, At, Importing, Pruning
<1>4. QED BY <1>1, <1>2, <1>3

LEMMA NextAlone ==
    ASSUME OneCaller, TypeInv, StoreInv, AloneInv, [Next]_vars
    PROVE  AloneInv'
<1>1. ASSUME NEW c \in Clients, Backed(c)' /\ Mirroring(c)'
      PROVE  AloneInv'
  BY <1>1 DEF OneCaller, AloneInv
<1>2. ASSUME NEW c \in Clients, Request(c) PROVE AloneInv'
  BY <1>1, <1>2, RequestAlone
<1>3. ASSUME NEW c \in Clients, Step(c) PROVE AloneInv'
  BY <1>1, <1>3, StepBacked, StepMirroring DEF AloneInv
<1>4. CASE Restart
  BY <1>4 DEF Restart, AloneInv, Backed, Mirroring, At, Idle
<1>5. CASE UNCHANGED vars
  BY <1>5 DEF vars, AloneInv, Backed, HasFile, Mirroring, At, Discovered
<1>6. ~EditFiles
  BY DEF OneCaller, EditFiles
<1>7. QED BY <1>2, <1>3, <1>4, <1>5, <1>6 DEF Next

LEMMA AloneInvariant == ASSUME OneCaller PROVE Spec => [](TypeInv /\ AloneInv)
BY StoreInvariant, InitAlone, NextAlone, PTL DEF Spec

\* Of ReloadMirrorsFiles: with one caller, and nobody else at the files, a
\* ReloadConnections that imported every file ends with just their profiles.
THEOREM ReloadMirrors == ASSUME OneCaller PROVE Spec => ReloadMirrorsFiles
<1>1. ASSUME AloneInv, NEW c \in Clients, calls[c].op = "reload", StaleDone(c)
      PROVE  { r.filename : r \in { q \in connections : Saved(q) } } = calls[c].found
  <2>1. calls[c].pc \in Pruning /\ calls[c].stale = {}
    BY <1>1 DEF StaleDone, At, Pruning
  <2>2. /\ \A r \in connections : Saved(r) => r.filename \in calls[c].found
        /\ \A f \in calls[c].found : \E r \in connections : Saved(r) /\ r.filename = f
    BY <1>1, <2>1 DEF AloneInv, Mirroring
  <2>3. QED BY <2>2
<1>2. TypeInv /\ AloneInv =>
        [\A c \in Clients : calls[c].op = "reload" /\ StaleDone(c) =>
            { r.filename : r \in { q \in connections : Saved(q) } } = calls[c].found]_vars
  BY <1>1
<1>3. QED BY <1>2, AloneInvariant, PTL DEF ReloadMirrorsFiles

\* Why a profile may be saved and have no file: it had none before this step, or the
\* step removes the file on behalf of another profile, of a Delete or of a rename
Sharer(r) ==
    \E c \in Clients :
        /\ Doomed(c) = r.filename
        /\ calls[c].rec.path # r.path \/ calls[c].op = "delete" \/ calls[c].rec.filename \in DOMAIN files'
Excused(r) == \/ \E q \in connections : q.path = r.path /\ Unbacked(q)
              \/ Sharer(r)

LEMMA UntouchedExcused ==
    ASSUME connections' \subseteq connections, DOMAIN files \subseteq DOMAIN files',
           NEW r \in connections', Unbacked(r)'
    PROVE  Excused(r)
BY DEF Unbacked, Saved, Excused

LEMMA ReplacedExcused ==
    ASSUME NEW p, NEW new, new.unsaved \/ new.filename \in DOMAIN files,
           Replace(p, new) \/ connections' = connections \cup {new}, UNCHANGED files,
           NEW r \in connections', Unbacked(r)'
    PROVE  Excused(r)
<1>1. r \in connections \/ r = new
  BY DEF Replace
<1>2. r # new
  BY DEF Unbacked, Saved
<1>3. QED BY <1>1, <1>2 DEF Unbacked, Saved, Excused

LEMMA RequestExcused ==
    ASSUME TypeInv, NEW c \in Clients, Request(c), NEW r \in connections', Unbacked(r)'
    PROVE  Excused(r)
<1>1. files' = files
  BY DEF Request, AddConnection, Update, UpdateUnsaved, Update2, Save, ClearSecrets, Delete,
         LoadConnections, ReloadConnections, Reapply, SetAutoconnect, DeleteDevice
<1>2. CASE Reapply(c)
  <2>1. PICK p \in PathsOf(connections), s \in Profiles : Replace(p, WithSettings(Lookup(p), s))
    BY <1>2 DEF Reapply
  <2>2. Lookup(p) \in connections /\ Lookup(p).path = p /\ Lookup(p) \in Record
    BY LookupFinds DEF TypeInv, TypeOK
  <2> DEFINE new == WithSettings(Lookup(p), s)
  <2>3. /\ new.path = p /\ new.origin = Lookup(p).origin /\ new.unsaved = Lookup(p).unsaved
        /\ new.filename = Lookup(p).filename
    BY <2>2 DEF WithSettings, Record
  <2>4. r \in connections \/ r = new
    BY <2>1 DEF Replace
  <2> HIDE DEF new
  <2>5. QED BY <1>1, <2>2, <2>3, <2>4 DEF Unbacked, Saved, Excused
<1>3. CASE ~Reapply(c)
  <2>1. connections' = connections
    BY <1>3 DEF Request, AddConnection, Update, UpdateUnsaved, Update2, Save, ClearSecrets, Delete,
         LoadConnections, ReloadConnections, SetAutoconnect, DeleteDevice
  <2>2. QED BY <1>1, <2>1, UntouchedExcused
<1>4. QED BY <1>2, <1>3

LEMMA StepExcused ==
    ASSUME TypeInv, NEW c \in Clients, Backed(c), Step(c), NEW r \in connections', Unbacked(r)'
    PROVE  Excused(r)
<1>1. CASE WriteFile(c) \/ WriteFails(c)
  <2>1. connections' = connections /\ DOMAIN files \subseteq DOMAIN files'
    BY <1>1 DEF WriteFile, WriteFails, WithFile
  <2>2. QED BY <2>1, UntouchedExcused
<1>2. CASE UnlinkOld(c) /\ files' = WithoutFile(calls[c].old)
  <2>1. /\ connections' = connections /\ DOMAIN files' = DOMAIN files \ {calls[c].old}
        /\ At(c, "unlinkOld")
    BY <1>2 DEF UnlinkOld, WithoutFile
  <2>2. calls[c].rec.filename \in DOMAIN files' /\ Doomed(c) = calls[c].old
    BY <2>1 DEF Backed, HasFile, Doomed, At
  <2>3. QED BY <2>1, <2>2 DEF Unbacked, Saved, Excused, Sharer
<1>3. CASE DeleteFile(c) /\ files' = WithoutFile(calls[c].rec.filename)
  <2>1. /\ connections' = connections /\ DOMAIN files' = DOMAIN files \ {calls[c].rec.filename}
        /\ At(c, "unlink")
    BY <1>3 DEF DeleteFile, WithoutFile
  <2>2. calls[c].op = "delete" /\ Doomed(c) = calls[c].rec.filename
    BY <2>1 DEF Backed, Doomed, At
  <2>3. QED BY <2>1, <2>2 DEF Unbacked, Saved, Excused, Sharer
<1>4. CASE Apply(c) \/ Insert(c) \/ ImportOverwrite(c)
  <2> DEFINE new == calls[c].rec
  <2>1. /\ files' = files /\ calls[c].pc \in {"apply", "insert", "overwrite"}
        /\ \/ Replace(new.path, new) \/ connections' = connections \cup {new}
           \/ connections' = connections
    BY <1>4 DEF Apply, Insert, ImportOverwrite, At
  <2>2. new.unsaved \/ new.filename \in DOMAIN files
    BY <2>1 DEF Backed, HasFile
  <2> HIDE DEF new
  <2>3. CASE Replace(new.path, new) \/ connections' = connections \cup {new}
    BY <2>1, <2>2, <2>3, ReplacedExcused
  <2>4. CASE connections' = connections
    BY <2>1, <2>4, UntouchedExcused
  <2>5. QED BY <2>1, <2>3, <2>4
<1>5. CASE ~(Apply(c) \/ Insert(c) \/ ImportOverwrite(c) \/ WriteFile(c) \/ WriteFails(c))
           /\ files' = files
  <2>1. CASE DeleteRecord(c) \/ RemoveStale(c)
    <3>1. connections' \subseteq connections
      BY <2>1 DEF DeleteRecord, RemoveStale, RemoveRecord
    <3>2. QED BY <1>5, <3>1, UntouchedExcused
  <2>2. CASE ~(DeleteRecord(c) \/ RemoveStale(c))
    <3>1. connections' = connections
      BY <1>5, <2>2 DEF Step, UnlinkOld, Export, CheckVersion, DeleteFile, Unexport, ImportFile,
           ImportLookup, ImportDone, StaleDone, Reread, SetNextAutoconnect, AutoconnectDone
    <3>2. QED BY <1>5, <3>1, UntouchedExcused
  <2>3. QED BY <2>1, <2>2
<1>6. QED BY <1>1, <1>2, <1>3, <1>4, <1>5
          DEF Step, UnlinkOld, DeleteFile, Export, CheckVersion, DeleteRecord, Unexport, ImportFile,
              ImportLookup, ImportDone, RemoveStale, StaleDone, Reread, SetNextAutoconnect,
              AutoconnectDone

\* Of OnlySharersTakeFiles: with one caller, and nobody else at the files, a saved
\* profile loses its file only to a call that names the same file or to its own Delete.
THEOREM SharersTakeFiles == ASSUME OneCaller PROVE Spec => OnlySharersTakeFiles
<1>1. ASSUME TypeInv, AloneInv, [Next]_vars, NEW r \in connections', Unbacked(r)'
      PROVE  Excused(r)
  <2>1. ASSUME NEW c \in Clients, Request(c) PROVE Excused(r)
    BY <1>1, <2>1, RequestExcused
  <2>2. ASSUME NEW c \in Clients, Step(c) PROVE Excused(r)
    BY <1>1, <2>2, StepExcused DEF AloneInv
  <2>3. ~Restart
    BY <1>1, ConstantsAssumption DEF Restart, Unbacked, Saved
  <2>4. ~EditFiles
    BY DEF OneCaller, EditFiles
  <2>5. CASE UNCHANGED vars
    BY <1>1, <2>5, UntouchedExcused DEF vars
  <2>6. QED BY <1>1, <2>1, <2>2, <2>3, <2>4, <2>5 DEF Next
<1>2. TypeInv /\ AloneInv /\ [Next]_vars =>
        [\A r \in connections' : Unbacked(r)' =>
           \/ \E q \in connections : q.path = r.path /\ Unbacked(q)
           \/ \E c \in Clients :
                  /\ Doomed(c) = r.filename
                  /\ \/ calls[c].rec.path # r.path
                     \/ calls[c].op = "delete"
                     \/ calls[c].rec.filename \in DOMAIN files']_vars
  BY <1>1 DEF Excused, Sharer
<1>3. QED BY <1>2, AloneInvariant, PTL DEF Spec, OnlySharersTakeFiles
=============================================================================

-------------------------- MODULE ActivationProofs --------------------------
(* What holds of Activation for any callers, links, profiles and bounds.   *)
EXTENDS Activation, TLAPS

(***************************************************************************)
(* Types.  TypeOK becomes inductive with what a task has in hand: a link   *)
(* and a profile while it activates, a link while it deactivates, the      *)
(* facts it is about to send.                                              *)
(***************************************************************************)
Activating == {"check", "connect", "unexport", "export", "record"}
Deactivating == {"look", "down", "unrecord", "unpublish"}
Sweeping == {"list", "sweep"}

Fits(pc, op, iface, profile, facts) ==
    /\ pc \in Activating => /\ op \in {"activate", "addAndActivate"}
                            /\ iface \in Ifaces /\ profile \in Profiles
    /\ pc \in Deactivating => /\ op \in {"deactivate", "disconnect"} \cup Switches
                              /\ iface \in Ifaces
    /\ pc = "look" => op # "deactivate"
    /\ pc = "down" => profile \in Profiles
    /\ pc \in Sweeping => op \in Switches
    /\ pc = "send" => facts.state # 0

PassFits == sync.pc \in {"dropObject", "show", "record"} => sync.item \in Ifaces

CallFits(c) ==
    Fits(calls[c].pc, calls[c].op, calls[c].iface, calls[c].profile, calls[c].facts)
CallsOK == calls \in [Clients -> Call] /\ \A c \in Clients : CallFits(c)
SyncOK == sync \in Pass /\ PassFits
LinksOK == up \subseteq Ifaces /\ changes \in 0..MaxChanges
TablesOK ==
    /\ profiles \subseteq Profiles /\ IsTable(actives)
    /\ switches \in [networking: BOOLEAN, sleeping: BOOLEAN, wireless: BOOLEAN]
ObjectsOK == IsTable(exported) /\ told \in Report /\ told.state # 0
TypeInv == LinksOK /\ TablesOK /\ ObjectsOK /\ CallsOK /\ SyncOK

LEMMA PutTable ==
    ASSUME NEW f, IsTable(f), NEW i \in Ifaces, NEW p \in Profiles
    PROVE  IsTable(Put(f, i, p)) /\ IsTable(Export(f, i, p))
  BY DEF IsTable, Put, Export

LEMMA DropTable ==
    ASSUME NEW f, IsTable(f), NEW i PROVE IsTable(Drop(f, i))
  BY DEF IsTable, Drop

LEMMA FactsType == ASSUME TablesOK PROVE Facts \in Report /\ Facts.state # 0
<1>1. State \in {10, 20, 70} /\ Actives \subseteq Ifaces
  BY DEF State, Actives, TablesOK, IsTable
<1> QED
  BY <1>1 DEF Facts, Report, TablesOK

-----------------------------------------------------------------------------
(* The steps of a task: which record they leave in its place               *)

LEMMA IdleType ==
    /\ Idle \in Call /\ Idle.pc = "idle"
    /\ Fits(Idle.pc, Idle.op, Idle.iface, Idle.profile, Idle.facts)
  BY DEF Idle, Call, Pcs, NoFacts, Report, Fits, Activating, Deactivating, Sweeping

LEMMA AsleepType == Asleep \in Pass /\ Asleep.pc = "idle"
  BY DEF Asleep, Pass, SyncPcs

\* A task changes its own entry only.
Moves(c) == calls' \in [Clients -> Call] /\ \A d \in Clients \ {c} : calls'[d] = calls[d]

LEMMA MoveTypes == ASSUME CallsOK, NEW c \in Clients, Moves(c), CallFits(c)' PROVE CallsOK'
  BY DEF CallsOK, Moves, CallFits

\* Where a task is after a step
LEMMA GotoMoves ==
    ASSUME CallsOK, NEW c \in Clients, NEW pc \in Pcs, Goto(c, pc)
    PROVE  /\ Moves(c) /\ calls'[c].pc = pc /\ calls'[c].op = calls[c].op
           /\ calls'[c].iface = calls[c].iface /\ calls'[c].dev = calls[c].dev
           /\ calls'[c].profile = calls[c].profile
           /\ calls'[c].todo = calls[c].todo /\ calls'[c].facts = calls[c].facts
  BY DEF CallsOK, Goto, Moves, Call

LEMMA ReturnMoves ==
    ASSUME CallsOK, NEW c \in Clients, Return(c) PROVE Moves(c) /\ calls'[c] = Idle
  BY IdleType DEF CallsOK, Return, Moves

LEMMA BeginMoves ==
    ASSUME CallsOK, NEW c \in Clients, NEW op \in OpNames, NEW pc \in Pcs,
           NEW i \in Ifaces \cup {Nowhere}, NEW d \in Ifaces \cup {Nowhere},
           NEW p \in Profiles \cup {NoOne}, Begin(c, op, pc, i, d, p)
    PROVE  /\ Moves(c) /\ calls'[c].pc = pc /\ calls'[c].op = op
           /\ calls'[c].iface = i /\ calls'[c].dev = d /\ calls'[c].profile = p
           /\ calls'[c].todo = {} /\ calls'[c].facts = NoFacts
<1> DEFINE k == [Idle EXCEPT !.pc = pc, !.op = op, !.iface = i, !.dev = d, !.profile = p]
<1>1. /\ k.pc = pc /\ k.op = op /\ k.iface = i /\ k.dev = d /\ k.profile = p /\ k.todo = {}
      /\ k.facts = NoFacts /\ k \in Call
  BY IdleType DEF Call, Idle
<1>2. calls' = [calls EXCEPT ![c] = k]
  BY DEF Begin
<1> HIDE DEF k
<1> QED
  BY <1>1, <1>2 DEF CallsOK, Moves

\* What a step of a client leaves alone keeps its types.
LEMMA LeftAlone ==
    ASSUME TypeInv
    PROVE  /\ UNCHANGED world => LinksOK'
           /\ UNCHANGED tables => TablesOK'
           /\ UNCHANGED <<exported, told>> => ObjectsOK'
           /\ UNCHANGED calls => CallsOK'
           /\ UNCHANGED sync => SyncOK'
  BY DEF TypeInv, world, tables, LinksOK, TablesOK, ObjectsOK, CallsOK, SyncOK, PassFits,
         CallFits

LEMMA InitTypes == Init => TypeInv
<1> SUFFICES ASSUME Init PROVE TypeInv
  OBVIOUS
<1>1. LinksOK /\ TablesOK
  BY ActivationConstants DEF Init, LinksOK, TablesOK, IsTable
<1>2. ObjectsOK
  BY ActivationConstants DEF Init, ObjectsOK, IsTable, Report
<1>3. CallsOK /\ SyncOK
  BY IdleType, AsleepType DEF Init, CallsOK, CallFits, SyncOK, PassFits
<1> QED
  BY <1>1, <1>2, <1>3 DEF TypeInv

LEMMA RequestTypes == ASSUME TypeInv, NEW c \in Clients PROVE Request(c) => TypeInv'
<1> USE DEF MayCall
<1>0. CallsOK /\ TablesOK
  BY DEF TypeInv
<1>b. ASSUME NEW op \in OpNames, NEW pc \in Pcs, NEW i \in Ifaces \cup {Nowhere},
             NEW d \in Ifaces \cup {Nowhere}, NEW p \in Profiles \cup {NoOne},
             Begin(c, op, pc, i, d, p), pc # "send", Fits(pc, op, i, p, NoFacts)
      PROVE  CallsOK'
  BY <1>0, <1>b, BeginMoves, MoveTypes DEF CallFits
<1> USE DEF Fits, Activating, Deactivating, Sweeping, OpNames, Switches, Pcs
<1>1. CASE Activate(c)
  <2>1. CallsOK'
    BY <1>0, <1>1, <1>b DEF Activate, TablesOK
  <2> QED
    BY <1>1, <2>1, LeftAlone DEF Activate, TypeInv
<1>2. CASE AddAndActivate(c)
  <2>1. CallsOK'
    BY <1>0, <1>2, <1>b DEF AddAndActivate
  <2>2. TablesOK'
    BY <1>0, <1>2 DEF AddAndActivate, TablesOK
  <2> QED
    BY <1>2, <2>1, <2>2, LeftAlone DEF AddAndActivate, TypeInv
<1>3. CASE Deactivate(c)
  <2>1. CallsOK'
    BY <1>0, <1>3, <1>b DEF Deactivate, TablesOK, Actives, IsTable
  <2> QED
    BY <1>3, <2>1, LeftAlone DEF Deactivate, TypeInv
<1>4. CASE Disconnect(c)
  <2>1. CallsOK'
    BY <1>0, <1>4, <1>b DEF Disconnect, TablesOK, Named, Actives, IsTable
  <2> QED
    BY <1>4, <2>1, LeftAlone DEF Disconnect, TypeInv
<1>5. CASE Switch(c)
  <2>1. CallsOK'
    BY <1>0, <1>5, <1>b DEF Switch
  <2>2. TablesOK'
    BY <1>0, <1>5 DEF Switch, TablesOK
  <2> QED
    BY <1>5, <2>1, <2>2, LeftAlone DEF Switch, TypeInv
<1>6. CASE Delete(c)
  <2>1. TablesOK'
    BY <1>0, <1>6 DEF Delete, TablesOK
  <2> QED
    BY <1>6, <2>1, LeftAlone DEF Delete, TypeInv
<1> QED
  BY <1>1, <1>2, <1>3, <1>4, <1>5, <1>6 DEF Request

\* The task goes on with what it has in hand.
LEMMA GotoTypes ==
    ASSUME CallsOK, NEW c \in Clients, NEW pc \in Pcs, Goto(c, pc),
           Fits(pc, calls[c].op, calls[c].iface, calls[c].profile, calls[c].facts)
    PROVE  CallsOK'
  BY GotoMoves, MoveTypes DEF CallFits

LEMMA ReturnTypes == ASSUME CallsOK, NEW c \in Clients, Return(c) PROVE CallsOK'
  BY ReturnMoves, IdleType, MoveTypes DEF CallFits

LEMMA ActivatingTypes ==
    ASSUME TypeInv, NEW c \in Clients
    PROVE  Check(c) \/ Connect(c) \/ Unexport(c) \/ ExportActive(c) \/ Record(c) => TypeInv'
<1>0. CallsOK /\ CallFits(c) /\ TablesOK /\ ObjectsOK /\ LinksOK
  BY DEF TypeInv, CallsOK
<1> USE DEF At, CallFits, Fits, Activating, Deactivating, Sweeping, Pcs
<1>1. CASE Check(c)
  <2>1. CallsOK'
    BY <1>0, <1>1, GotoTypes, ReturnTypes DEF Check
  <2> QED
    BY <1>1, <2>1, LeftAlone DEF Check, TypeInv
<1>2. CASE Connect(c)
  <2>1. CallsOK'
    BY <1>0, <1>2, GotoTypes, ReturnTypes DEF Connect
  <2>2. LinksOK'
    BY <1>0, <1>2 DEF Connect, Of, LinksOK
  <2> QED
    BY <1>2, <2>1, <2>2, LeftAlone DEF Connect, TypeInv
<1>3. CASE Unexport(c)
  <2>1. CallsOK'
    BY <1>0, <1>3, GotoTypes DEF Unexport
  <2>2. ObjectsOK'
    BY <1>0, <1>3, DropTable DEF Unexport, ObjectsOK
  <2> QED
    BY <1>3, <2>1, <2>2, LeftAlone DEF Unexport, TypeInv
<1>4. CASE ExportActive(c)
  <2>1. CallsOK'
    BY <1>0, <1>4, GotoTypes DEF ExportActive
  <2>2. ObjectsOK'
    BY <1>0, <1>4, PutTable DEF ExportActive, Of, ObjectsOK
  <2> QED
    BY <1>4, <2>1, <2>2, LeftAlone DEF ExportActive, TypeInv
<1>5. CASE Record(c)
  <2>1. CallsOK'
    BY <1>0, <1>5, GotoTypes DEF Record
  <2>2. TablesOK'
    BY <1>0, <1>5, PutTable DEF Record, Of, TablesOK
  <2> QED
    BY <1>5, <2>1, <2>2, LeftAlone DEF Record, TypeInv
<1> QED
  BY <1>1, <1>2, <1>3, <1>4, <1>5

LEMMA DeactivatingTypes ==
    ASSUME TypeInv, NEW c \in Clients
    PROVE  List(c) \/ Sweep(c) \/ Look(c) \/ Down(c) \/ Unrecord(c) \/ Unpublish(c) => TypeInv'
<1>0. CallsOK /\ CallFits(c) /\ TablesOK /\ ObjectsOK /\ LinksOK /\ calls[c] \in Call
  BY DEF TypeInv, CallsOK
<1> USE DEF At, CallFits, Fits, Activating, Deactivating, Sweeping, Pcs, OpNames, Switches
<1>1. CASE List(c)
  <2>1. /\ Moves(c) /\ calls'[c].pc = "sweep" /\ calls'[c].op = calls[c].op
    BY <1>0, <1>1 DEF List, CallsOK, Moves, Call, Actives, TablesOK, IsTable
  <2>2. CallsOK'
    BY <1>0, <1>1, <2>1, MoveTypes DEF List
  <2> QED
    BY <1>1, <2>2, LeftAlone DEF List, TypeInv
<1>2. CASE Sweep(c)
  <2>1. ASSUME NEW i \in calls[c].todo,
               calls' = [calls EXCEPT ![c].pc = "look", ![c].todo = @ \ {i},
                                      ![c].iface = i, ![c].dev = i]
        PROVE  CallsOK'
    <3>1. i \in Ifaces
      BY <1>0, <2>1 DEF Call
    <3>2. /\ Moves(c) /\ calls'[c].pc = "look" /\ calls'[c].op = calls[c].op
          /\ calls'[c].iface = i
      BY <1>0, <2>1, <3>1 DEF CallsOK, Moves, Call
    <3> QED
      BY <1>0, <1>2, <3>1, <3>2, MoveTypes DEF Sweep
  <2>2. CallsOK'
    BY <1>0, <1>2, <2>1, GotoTypes DEF Sweep
  <2> QED
    BY <1>2, <2>2, LeftAlone DEF Sweep, TypeInv
<1>3. CASE Look(c)
  <2>1. ASSUME NEW p \in Profiles, calls' = [calls EXCEPT ![c].pc = "down", ![c].profile = p]
        PROVE  CallsOK'
    <3>1. /\ Moves(c) /\ calls'[c].pc = "down" /\ calls'[c].op = calls[c].op
          /\ calls'[c].iface = calls[c].iface /\ calls'[c].profile = p
      BY <1>0, <2>1 DEF CallsOK, Moves, Call
    <3> QED
      BY <1>0, <1>3, <3>1, MoveTypes DEF Look
  <2>2. Of(c) \in Actives => actives[Of(c)] \in Profiles
    BY <1>0 DEF TablesOK, IsTable, Actives
  <2>3. CallsOK'
    BY <1>0, <1>3, <2>1, <2>2, GotoTypes DEF Look
  <2> QED
    BY <1>3, <2>3, LeftAlone DEF Look, TypeInv
<1>4. CASE Down(c)
  <2>1. CallsOK'
    BY <1>0, <1>4, GotoTypes, ReturnTypes DEF Down
  <2>2. LinksOK'
    BY <1>0, <1>4 DEF Down, LinksOK
  <2> QED
    BY <1>4, <2>1, <2>2, LeftAlone DEF Down, TypeInv
<1>5. CASE Unrecord(c)
  <2>1. CallsOK'
    BY <1>0, <1>5, GotoTypes DEF Unrecord
  <2>2. TablesOK'
    BY <1>0, <1>5, DropTable DEF Unrecord, TablesOK
  <2> QED
    BY <1>5, <2>1, <2>2, LeftAlone DEF Unrecord, TypeInv
<1>6. CASE Unpublish(c)
  <2>1. CallsOK'
    BY <1>0, <1>6, GotoTypes, ReturnTypes DEF Unpublish
  <2>2. ObjectsOK'
    BY <1>0, <1>6, DropTable DEF Unpublish, ObjectsOK
  <2> QED
    BY <1>6, <2>1, <2>2, LeftAlone DEF Unpublish, TypeInv
<1> QED
  BY <1>1, <1>2, <1>3, <1>4, <1>5, <1>6

LEMMA TellingTypes ==
    ASSUME TypeInv, NEW c \in Clients PROVE Read(c) \/ Send(c) => TypeInv'
<1>0. CallsOK /\ CallFits(c) /\ TablesOK /\ ObjectsOK /\ calls[c] \in Call
  BY DEF TypeInv, CallsOK
<1> USE DEF At, CallFits, Fits, Activating, Deactivating, Sweeping, Pcs, OpNames
<1>1. CASE Read(c)
  <2>1. PICK facts \in Report :
            facts.state # 0 /\ calls' = [calls EXCEPT ![c].pc = "send", ![c].facts = facts]
    BY <1>0, <1>1, FactsType DEF Read
  <2>2. Moves(c) /\ calls'[c].pc = "send" /\ calls'[c].facts = facts
    BY <1>0, <2>1 DEF CallsOK, Moves, Call
  <2>3. CallsOK'
    BY <1>0, <2>1, <2>2, MoveTypes
  <2> QED
    BY <1>1, <2>3, LeftAlone DEF Read, TypeInv
<1>2. CASE Send(c)
  <2>1. ASSUME calls' = [calls EXCEPT ![c].pc = "read", ![c].op = "activate"]
        PROVE  CallsOK'
    <3>1. Moves(c) /\ calls'[c].pc = "read"
      BY <1>0, <2>1 DEF CallsOK, Moves, Call
    <3> QED
      BY <1>0, <3>1, MoveTypes
  <2>2. CallsOK'
    BY <1>0, <1>2, <2>1, ReturnTypes DEF Send
  <2>3. ObjectsOK'
    BY <1>0, <1>2 DEF Send, ObjectsOK, Call
  <2> QED
    BY <1>2, <2>2, <2>3, LeftAlone DEF Send, TypeInv
<1> QED
  BY <1>1, <1>2

LEMMA SyncTypes == TypeInv /\ SyncStep => TypeInv'
<1> SUFFICES ASSUME TypeInv, SyncStep PROVE TypeInv'
  OBVIOUS
<1>0. SyncOK /\ TablesOK /\ ObjectsOK /\ LinksOK /\ sync \in Pass
  BY DEF TypeInv, SyncOK
<1>s. \A i \in Ifaces : Source[i] \in Profiles
  BY ActivationConstants
<1> USE DEF SyncAt, SyncOK, PassFits, Pass, SyncPcs
<1>1. CASE SyncAsk
  BY <1>0, <1>1, LeftAlone DEF SyncAsk, LinksOK, TypeInv
<1>2. CASE SyncPlan
  <2>1. TablesOK' /\ Actives \subseteq Ifaces
    BY <1>0, <1>2, <1>s DEF SyncPlan, TablesOK, IsTable, Actives
  <2> QED
    BY <1>0, <1>2, <2>1, LeftAlone DEF SyncPlan, TypeInv
<1>3. CASE SyncDrop
  <2>1. UNCHANGED actives \/ \E i \in sync.todo : actives' = Drop(actives, i)
    BY <1>3 DEF SyncDrop
  <2>2. IsTable(actives')
    BY <1>0, <2>1, DropTable DEF TablesOK
  <2>3. TablesOK'
    BY <1>0, <1>3, <2>2 DEF SyncDrop, TablesOK
  <2>4. SyncOK'
    BY <1>0, <1>3 DEF SyncDrop
  <2> QED
    BY <1>3, <2>3, <2>4, LeftAlone DEF SyncDrop, TypeInv
<1>4. CASE SyncDropObject
  <2>1. ObjectsOK'
    BY <1>0, <1>4, DropTable DEF SyncDropObject, ObjectsOK
  <2> QED
    BY <1>0, <1>4, <2>1, LeftAlone DEF SyncDropObject, TypeInv
<1>5. CASE SyncHide
  <2>1. UNCHANGED exported \/ \E i \in sync.todo : exported' = Drop(exported, i)
    BY <1>5 DEF SyncHide
  <2>2. IsTable(exported')
    BY <1>0, <2>1, DropTable DEF ObjectsOK
  <2>3. ObjectsOK'
    BY <1>0, <1>5, <2>2 DEF SyncHide, ObjectsOK
  <2>4. SyncOK'
    BY <1>0, <1>5 DEF SyncHide
  <2> QED
    BY <1>5, <2>3, <2>4, LeftAlone DEF SyncHide, TypeInv
<1>6. CASE SyncShow
  <2>1. ObjectsOK'
    BY <1>0, <1>6, <1>s, PutTable DEF SyncShow, ObjectsOK
  <2> QED
    BY <1>0, <1>6, <2>1, LeftAlone DEF SyncShow, TypeInv
<1>7. CASE SyncRecord
  <2>1. TablesOK'
    BY <1>0, <1>7, <1>s, PutTable DEF SyncRecord, TablesOK
  <2> QED
    BY <1>0, <1>7, <2>1, LeftAlone DEF SyncRecord, TypeInv
<1>8. CASE SyncRead
  <2>1. Actives \subseteq Ifaces
    BY <1>0 DEF TablesOK, IsTable, Actives
  <2> QED
    BY <1>0, <1>8, <2>1, LeftAlone DEF SyncRead, TypeInv
<1>9. CASE SyncSend
  <2>1. ObjectsOK'
    BY <1>0, <1>9 DEF SyncSend, ObjectsOK, Report
  <2>2. SyncOK'
    BY <1>9, AsleepType DEF SyncSend
  <2> QED
    BY <1>9, <2>1, <2>2, LeftAlone DEF SyncSend, TypeInv
<1> QED
  BY <1>1, <1>2, <1>3, <1>4, <1>5, <1>6, <1>7, <1>8, <1>9 DEF SyncStep

LEMMA StepTypes == TypeInv /\ [Next]_vars => TypeInv'
<1> SUFFICES ASSUME TypeInv, [Next]_vars PROVE TypeInv'
  OBVIOUS
<1>1. CASE UNCHANGED vars
  BY <1>1, LeftAlone DEF vars, TypeInv
<1>2. CASE Change
  <2>1. LinksOK'
    BY <1>2, ActivationConstants DEF Change, TypeInv, LinksOK
  <2> QED
    BY <1>2, <2>1, LeftAlone DEF Change, TypeInv
<1>3. ASSUME NEW c \in Clients, Request(c) \/ Step(c) PROVE TypeInv'
  BY <1>3, RequestTypes, ActivatingTypes, DeactivatingTypes, TellingTypes DEF Step
<1> QED
  BY <1>1, <1>2, <1>3, SyncTypes DEF Next

LEMMA TypeInvariant == Spec => []TypeInv
  BY InitTypes, StepTypes, PTL DEF Spec

\* TypeOK in every behaviour of the calls and the synchronisation, however many
\* callers there are.
THEOREM TypesCorrect == Spec => []TypeOK
<1>1. TypeInv => TypeOK
  BY DEF TypeInv, TypeOK, LinksOK, TablesOK, ObjectsOK, CallsOK, SyncOK
<1> QED
  BY <1>1, TypeInvariant, PTL

-----------------------------------------------------------------------------
(***************************************************************************)
(* No object is left behind.  A record and its object change in two steps  *)
(* of one task, which is in between for that interface, and no step moves  *)
(* another task: so what the others do makes no orphan.                    *)
(***************************************************************************)
Steady(c) == \A d \in Clients \ {c} : calls'[d] = calls[d]

LEMMA StepSteady ==
    ASSUME CallsOK, NEW c \in Clients PROVE Request(c) \/ Step(c) => Steady(c)
<1>0. calls \in [Clients -> Call]
  BY DEF CallsOK
<1> USE DEF Steady
<1>1. Request(c) => Steady(c)
  BY <1>0 DEF Request, Activate, AddAndActivate, Deactivate, Disconnect, Switch, Delete, Begin
<1>2. Check(c) \/ Connect(c) \/ Unexport(c) \/ ExportActive(c) \/ Record(c) => Steady(c)
  BY <1>0 DEF Check, Connect, Unexport, ExportActive, Record, Goto, Return
<1>3. List(c) \/ Sweep(c) \/ Look(c) \/ Down(c) \/ Unrecord(c) \/ Unpublish(c) => Steady(c)
  BY <1>0 DEF List, Sweep, Look, Down, Unrecord, Unpublish, Goto, Return
<1>4. Read(c) \/ Send(c) => Steady(c)
  BY <1>0 DEF Read, Send, Return
<1> QED
  BY <1>1, <1>2, <1>3, <1>4 DEF Step

NoOrphanMade == \A i \in Ifaces : Orphan(i)' => Orphan(i)

\* A task that is not in between and leaves the records that are there
LEMMA QuietStep ==
    ASSUME NEW c \in Clients, Steady(c), calls[c].pc \notin {"record", "unpublish"},
           UNCHANGED sync, Actives \subseteq Actives', DOMAIN exported' \subseteq DOMAIN exported
    PROVE  NoOrphanMade
  BY DEF NoOrphanMade, Orphan, Between, Of, Steady

LEMMA CallsMakeNoOrphan ==
    ASSUME CallsOK, NEW c \in Clients, Request(c) \/ Step(c) PROVE NoOrphanMade
<1>0. Steady(c) /\ UNCHANGED sync
  BY StepSteady DEF Request, Activate, AddAndActivate, Deactivate, Disconnect, Switch, Delete,
     Step, Check, Connect, Unexport, ExportActive, Record, List, Sweep, Look, Down, Unrecord,
     Unpublish, Read, Send
<1> USE DEF At, Actives, Drop
<1>1. CASE Request(c)
  <2>1. CASE Delete(c)
    BY <2>1, Zenon DEF Delete, NoOrphanMade, Orphan, Between, Of
  <2>2. CASE ~Delete(c)
    <3>1. calls[c].pc = "idle" /\ UNCHANGED <<actives, exported>>
      BY <1>1, <2>2 DEF Request, Activate, AddAndActivate, Deactivate, Disconnect, Switch,
         MayCall, tables
    <3> QED
      BY <1>0, <3>1, QuietStep
  <2> QED
    BY <2>1, <2>2
<1>2. CASE Check(c) \/ Connect(c) \/ Unexport(c)
  <2>1. /\ calls[c].pc \notin {"record", "unpublish"} /\ UNCHANGED actives
        /\ DOMAIN exported' \subseteq DOMAIN exported
    BY <1>2 DEF Check, Connect, Unexport, tables
  <2> QED
    BY <1>0, <2>1, QuietStep
<1>3. CASE ExportActive(c)
  <2>1. /\ DOMAIN exported' \subseteq DOMAIN exported \cup {Of(c)} /\ UNCHANGED actives
        /\ calls[c].pc = "export"
    BY <1>3 DEF ExportActive, Export, Put, tables
  <2>2. calls'[c].pc = "record" /\ calls'[c].iface = Of(c)
    BY <1>3, GotoMoves DEF ExportActive, Pcs, Of
  <2> QED
    BY <1>0, <2>1, <2>2 DEF NoOrphanMade, Orphan, Between, Of, Steady
<1>4. CASE Record(c)
  <2>1. DOMAIN actives' = DOMAIN actives \cup {Of(c)} /\ UNCHANGED exported
    BY <1>4 DEF Record, Put
  <2> QED
    BY <1>0, <2>1 DEF NoOrphanMade, Orphan, Between, Of, Steady
<1>5. CASE List(c) \/ Sweep(c) \/ Look(c) \/ Down(c)
  <2>1. calls[c].pc \notin {"record", "unpublish"} /\ UNCHANGED <<actives, exported>>
    BY <1>5 DEF List, Sweep, Look, Down, tables
  <2> QED
    BY <1>0, <2>1, QuietStep
<1>6. CASE Unrecord(c)
  <2>1. /\ DOMAIN actives' = DOMAIN actives \ {Of(c)} /\ UNCHANGED exported
        /\ calls[c].pc = "unrecord"
    BY <1>6 DEF Unrecord
  <2>2. calls'[c].pc = "unpublish" /\ calls'[c].iface = Of(c)
    BY <1>6, GotoMoves DEF Unrecord, Pcs, Of
  <2> QED
    BY <1>0, <2>1, <2>2 DEF NoOrphanMade, Orphan, Between, Of, Steady
<1>7. CASE Unpublish(c)
  <2>1. DOMAIN exported' = DOMAIN exported \ {Of(c)} /\ UNCHANGED actives
    BY <1>7 DEF Unpublish, tables
  <2> QED
    BY <1>0, <2>1 DEF NoOrphanMade, Orphan, Between, Of, Steady
<1>8. CASE Read(c) \/ Send(c)
  <2>1. calls[c].pc \notin {"record", "unpublish"} /\ UNCHANGED <<actives, exported>>
    BY <1>8 DEF Read, Send, tables
  <2> QED
    BY <1>0, <2>1, QuietStep
<1> QED
  BY <1>1, <1>2, <1>3, <1>4, <1>5, <1>6, <1>7, <1>8 DEF Step

LEMMA SyncMakesNoOrphan == ASSUME SyncOK, SyncStep PROVE NoOrphanMade
<1>0. UNCHANGED calls /\ sync \in Pass
  BY DEF SyncOK, SyncStep, SyncAsk, SyncPlan, SyncDrop, SyncDropObject, SyncHide, SyncShow,
     SyncRecord, SyncRead, SyncSend
<1> USE DEF SyncAt, Actives, Drop, NoOrphanMade, Orphan, Between, Of
<1>1. CASE SyncAsk \/ SyncPlan \/ SyncRead \/ SyncSend
  <2>1. UNCHANGED <<actives, exported>> /\ sync.pc \notin {"record", "dropObject"}
    BY <1>1 DEF SyncAsk, SyncPlan, SyncRead, SyncSend, tables
  <2> QED
    BY <1>0, <2>1
<1>2. CASE SyncDrop
  <2>1. \/ UNCHANGED actives
        \/ \E i \in sync.todo : /\ DOMAIN actives' = DOMAIN actives \ {i}
                                /\ sync'.pc = "dropObject" /\ sync'.item = i
    BY <1>0, <1>2 DEF SyncDrop, Pass
  <2>2. UNCHANGED exported /\ sync.pc = "drop"
    BY <1>2 DEF SyncDrop
  <2> QED
    BY <1>0, <2>1, <2>2
<1>3. CASE SyncDropObject
  <2>1. DOMAIN exported' = DOMAIN exported \ {sync.item} /\ UNCHANGED actives
        /\ sync.pc = "dropObject"
    BY <1>3 DEF SyncDropObject, tables
  <2> QED
    BY <1>0, <2>1
<1>4. CASE SyncHide
  <2>1. DOMAIN exported' \subseteq DOMAIN exported /\ UNCHANGED actives /\ sync.pc = "put"
    BY <1>4 DEF SyncHide, tables
  <2> QED
    BY <1>0, <2>1
<1>5. CASE SyncShow
  <2>1. /\ DOMAIN exported' \subseteq DOMAIN exported \cup {sync.item} /\ UNCHANGED actives
        /\ sync.pc = "show" /\ sync'.pc = "record" /\ sync'.item = sync.item
    BY <1>0, <1>5 DEF SyncShow, Export, Put, tables, Pass
  <2> QED
    BY <1>0, <2>1
<1>6. CASE SyncRecord
  <2>1. /\ DOMAIN actives' = DOMAIN actives \cup {sync.item} /\ UNCHANGED exported
        /\ sync.pc = "record"
    BY <1>6 DEF SyncRecord, Put
  <2> QED
    BY <1>0, <2>1
<1> QED
  BY <1>1, <1>2, <1>3, <1>4, <1>5, <1>6 DEF SyncStep

\* Of NoNewOrphan: neither the calls nor the synchronisation leave an object without a
\* record, whatever they overlap with.
THEOREM NoOrphanIsMade == Spec => NoNewOrphan
<1>1. TypeInv /\ [Next]_vars => [NoOrphanMade]_vars
  <2> SUFFICES ASSUME TypeInv, Next PROVE NoOrphanMade
    OBVIOUS
  <2>1. CASE Change
    BY <2>1, Zenon DEF Change, tables, NoOrphanMade, Orphan, Between, Of, Actives
  <2> QED
    BY <2>1, CallsMakeNoOrphan, SyncMakesNoOrphan DEF Next, TypeInv
<1> QED
  BY <1>1, TypeInvariant, PTL DEF Spec, NoNewOrphan, NoOrphanMade

-----------------------------------------------------------------------------
(***************************************************************************)
(* One caller, no synchronisation.  What a switch still has to clear is in *)
(* the list of its sweep or in hand (Swept); who is past the check of the  *)
(* switches still passes it (Allowed); a record has an object that shows   *)
(* it, unless the task has its link in hand (Shown, InHand), where it also *)
(* says what a task is about to undo, to record and to send.               *)
(***************************************************************************)
OneCaller == ~Syncing /\ \A c, d \in Clients : c = d

Left(c) == {i \in Actives : KindOf[actives[i]] \in Cleared(calls[c].op)}
Swept(c) == calls[c].op \in Switches =>
    /\ calls[c].pc \in {"sweep", "unpublish"} => Left(c) \subseteq calls[c].todo
    /\ calls[c].pc \in {"look", "down", "unrecord"} => Left(c) \subseteq calls[c].todo \cup {Of(c)}
    /\ calls[c].pc \in {"read", "send"} /\ Off(calls[c].op) => Left(c) = {}

Allowed(c) == calls[c].pc \in Activating \ {"check"} => Permitted(Kind(c))

Shows(i) == i \in DOMAIN exported /\ exported[i] = actives[i]
Shown == \A i \in Actives :
    Shows(i) \/ \E c \in Clients : Of(c) = i /\ calls[c].pc \in {"export", "record"}
InHand(c) ==
    /\ calls[c].pc = "export" => Of(c) \notin DOMAIN exported
    /\ calls[c].pc = "record" => /\ Of(c) \in DOMAIN exported
                                 /\ exported[Of(c)] = calls[c].profile
    /\ calls[c].pc = "unpublish" => Of(c) \notin Actives
    /\ calls[c].pc \in {"down", "unrecord", "unpublish"} /\ calls[c].op = "deactivate"
       => Of(c) \in DOMAIN exported
    /\ calls[c].pc = "send" => calls[c].facts = Facts

CallerOK(c) == Swept(c) /\ Allowed(c) /\ InHand(c)
CallerInv == SyncAt("idle") /\ Shown /\ \A c \in Clients : CallerOK(c)

ShownBy(c) == \A i \in Actives :
    Shows(i) \/ (Of(c) = i /\ calls[c].pc \in {"export", "record"})

LEMMA OneStep ==
    ASSUME OneCaller, NEW c \in Clients, CallerInv,
           UNCHANGED sync, ShownBy(c)', CallerOK(c)'
    PROVE  CallerInv'
<1>1. \A d \in Clients : d = c
  BY DEF OneCaller
<1> QED
  BY <1>1, Zenon DEF CallerInv, SyncAt, Shown, ShownBy

LEMMA OneKnown ==
    ASSUME OneCaller, NEW c \in Clients, CallerInv PROVE ShownBy(c) /\ CallerOK(c)
<1>1. \A d \in Clients : d = c
  BY DEF OneCaller
<1> QED
  BY <1>1 DEF CallerInv, Shown, ShownBy

\* A step that leaves tables and objects alone keeps what they show.
LEMMA SameShown ==
    ASSUME NEW c \in Clients, ShownBy(c), UNCHANGED <<actives, exported>>,
           \/ calls[c].pc \notin {"export", "record"}
           \/ calls'[c].pc \in {"export", "record"} /\ calls'[c].iface = calls[c].iface
    PROVE  ShownBy(c)'
  BY DEF ShownBy, Shows, Of, Actives

LEMMA RequestCaller ==
    ASSUME TypeInv, OneCaller, CallerInv, NEW c \in Clients, Request(c) PROVE CallerInv'
<1>0. CallsOK /\ TablesOK /\ ShownBy(c) /\ CallerOK(c)
  BY OneKnown DEF TypeInv
<1>i. calls[c].pc = "idle"
  BY DEF Request, Activate, AddAndActivate, Deactivate, Disconnect, Switch, Delete, MayCall, At
<1>s. UNCHANGED <<sync, actives, exported>>
  BY DEF Request, Activate, AddAndActivate, Deactivate, Disconnect, Switch, Delete, tables
<1>1. ShownBy(c)'
  BY <1>0, <1>i, <1>s, SameShown
<1> USE DEF CallerOK, Swept, Allowed, InHand, Activating, Switches, Of, OpNames, Pcs
<1>2. CASE Activate(c)
  <2>1. calls'[c].pc = "check" /\ calls'[c].op = "activate"
    BY <1>0, <1>2, BeginMoves DEF Activate, TablesOK
  <2> QED
    BY <1>0, <1>1, <1>s, <2>1, OneStep
<1>3. CASE AddAndActivate(c)
  <2>1. calls'[c].pc = "check" /\ calls'[c].op = "addAndActivate"
    BY <1>0, <1>3, BeginMoves DEF AddAndActivate
  <2> QED
    BY <1>0, <1>1, <1>s, <2>1, OneStep
<1>4. CASE Deactivate(c)
  <2>1. PICK i \in Actives :
            Begin(c, "deactivate", "down", i, i, actives[i])
    BY <1>4 DEF Deactivate
  <2>2. i \in Ifaces /\ actives[i] \in Profiles
    BY <1>0 DEF TablesOK, IsTable, Actives
  <2>3. calls'[c].pc = "down" /\ calls'[c].op = "deactivate" /\ calls'[c].iface = i
    BY <1>0, <2>1, <2>2, BeginMoves
  <2>4. i \in DOMAIN exported
    BY <1>0, <1>i DEF ShownBy, Shows
  <2> QED
    BY <1>0, <1>1, <1>s, <2>3, <2>4, OneStep
<1>5. CASE Disconnect(c)
  <2>1. calls'[c].pc = "look" /\ calls'[c].op = "disconnect"
    BY <1>0, <1>5, BeginMoves DEF Disconnect, Named, TablesOK, IsTable, Actives
  <2> QED
    BY <1>0, <1>1, <1>s, <2>1, OneStep
<1>6. CASE Switch(c)
  <2>1. ASSUME NEW op \in Switches, NEW pc \in {"list", "read"},
               Begin(c, op, pc, Nowhere, Nowhere, NoOne), pc = "read" => ~Off(op)'
        PROVE  CallerInv'
    <3>1. calls'[c].op = op /\ calls'[c].pc = pc
      BY <1>0, <2>1, BeginMoves
    <3>2. CallerOK(c)'
      BY <2>1, <3>1
    <3> QED
      BY <1>0, <1>1, <1>s, <3>2, OneStep
  <2>2. PICK on \in BOOLEAN :
            \/ /\ switches' = [switches EXCEPT !.networking = on]
               /\ Begin(c, "networking", IF on THEN "read" ELSE "list", Nowhere, Nowhere, NoOne)
            \/ /\ switches' = [switches EXCEPT !.sleeping = ~on]
               /\ Begin(c, "sleep", IF on THEN "read" ELSE "list", Nowhere, Nowhere, NoOne)
            \/ /\ switches' = [switches EXCEPT !.wireless = on]
               /\ Begin(c, "wireless", IF on THEN "read" ELSE "list", Nowhere, Nowhere, NoOne)
    BY <1>6 DEF Switch
  <2>3. CASE on
    <3>1. \/ Begin(c, "networking", "read", Nowhere, Nowhere, NoOne) /\ ~Off("networking")'
          \/ Begin(c, "sleep", "read", Nowhere, Nowhere, NoOne) /\ ~Off("sleep")'
          \/ Begin(c, "wireless", "read", Nowhere, Nowhere, NoOne) /\ ~Off("wireless")'
      BY <1>0, <2>2, <2>3 DEF Off, TablesOK
    <3> QED
      BY <2>1, <3>1
  <2>4. CASE ~on
    <3>1. \E op \in Switches : Begin(c, op, "list", Nowhere, Nowhere, NoOne)
      BY <2>2, <2>4
    <3> QED
      BY <2>1, <3>1
  <2> QED
    BY <2>3, <2>4
<1>7. CASE Delete(c)
  <2>1. UNCHANGED <<calls, switches>>
    BY <1>7 DEF Delete
  <2>2. CallerOK(c)'
    BY <1>0, <1>i, <2>1
  <2> QED
    BY <1>0, <1>1, <1>s, <2>2, OneStep
<1> QED
  BY <1>2, <1>3, <1>4, <1>5, <1>6, <1>7 DEF Request

LEMMA ActivatingCaller ==
    ASSUME TypeInv, OneCaller, CallerInv, NEW c \in Clients,
           Check(c) \/ Connect(c) \/ Unexport(c) \/ ExportActive(c) \/ Record(c)
    PROVE  CallerInv'
<1>0. CallsOK /\ CallFits(c) /\ ShownBy(c) /\ CallerOK(c)
  BY OneKnown DEF TypeInv, CallsOK
<1>s. UNCHANGED <<sync, switches>>
  BY DEF Check, Connect, Unexport, ExportActive, Record, tables
<1>p. Permitted(Kind(c))' <=> Permitted(KindOf[calls'[c].profile])
  BY <1>s DEF Permitted, Online, Kind
<1>f. calls[c].op \notin Switches /\ calls[c].op # "deactivate"
  BY <1>0 DEF Check, Connect, Unexport, ExportActive, Record, At, CallFits, Fits, Activating,
     Switches
<1> USE DEF At, CallerOK, Swept, Allowed, InHand, Activating, Of, Pcs, Kind
<1>i. ASSUME Return(c), UNCHANGED <<actives, exported>>, calls[c].pc \in {"check", "connect"}
      PROVE  CallerInv'
  <2>1. calls'[c].pc = "idle" /\ calls'[c].op = "none"
    BY <1>0, <1>i, ReturnMoves DEF Idle
  <2>2. CallerOK(c)' /\ ShownBy(c)'
    BY <1>0, <1>i, <2>1, SameShown DEF Switches
  <2> QED
    BY <1>s, <2>2, OneStep
<1>1. CASE Check(c)
  <2>1. ASSUME Permitted(Kind(c)), Goto(c, "connect") PROVE CallerInv'
    <3>1. /\ calls'[c].pc = "connect" /\ calls'[c].op = calls[c].op
          /\ calls'[c].profile = calls[c].profile
      BY <1>0, <2>1, GotoMoves
    <3>2. CallerOK(c)' /\ ShownBy(c)'
      BY <1>0, <1>1, <1>p, <1>f, <2>1, <3>1, SameShown DEF Check, tables
    <3> QED
      BY <1>s, <3>2, OneStep
  <2> QED
    BY <1>1, <1>i, <2>1 DEF Check, tables
<1>2. CASE Connect(c)
  <2>1. ASSUME Goto(c, "unexport") PROVE CallerInv'
    <3>1. /\ calls'[c].pc = "unexport" /\ calls'[c].op = calls[c].op
          /\ calls'[c].profile = calls[c].profile
      BY <1>0, <2>1, GotoMoves
    <3>2. CallerOK(c)' /\ ShownBy(c)'
      BY <1>0, <1>2, <1>p, <1>f, <3>1, SameShown DEF Connect, tables
    <3> QED
      BY <1>s, <3>2, OneStep
  <2> QED
    BY <1>2, <1>i, <2>1 DEF Connect, tables
<1>3. CASE Unexport(c)
  <2>1. /\ calls'[c].pc = "export" /\ calls'[c].op = calls[c].op
        /\ calls'[c].profile = calls[c].profile /\ calls'[c].iface = calls[c].iface
    BY <1>0, <1>3, GotoMoves DEF Unexport
  <2>2. UNCHANGED actives /\ exported' = Drop(exported, Of(c)) /\ calls[c].pc = "unexport"
    BY <1>3 DEF Unexport, tables
  <2>3. CallerOK(c)' /\ ShownBy(c)'
    BY <1>0, <1>p, <1>f, <2>1, <2>2 DEF Drop, ShownBy, Shows, Actives
  <2> QED
    BY <1>s, <2>3, OneStep
<1>4. CASE ExportActive(c)
  <2>1. /\ calls'[c].pc = "record" /\ calls'[c].op = calls[c].op
        /\ calls'[c].profile = calls[c].profile /\ calls'[c].iface = calls[c].iface
    BY <1>0, <1>4, GotoMoves DEF ExportActive
  <2>2. /\ UNCHANGED actives /\ calls[c].pc = "export"
        /\ exported' = Export(exported, Of(c), calls[c].profile)
    BY <1>4 DEF ExportActive, tables
  <2>3. CallerOK(c)' /\ ShownBy(c)'
    BY <1>0, <1>p, <1>f, <2>1, <2>2 DEF Put, Export, ShownBy, Shows, Actives
  <2> QED
    BY <1>s, <2>3, OneStep
<1>5. CASE Record(c)
  <2>1. calls'[c].pc = "read" /\ calls'[c].op = calls[c].op
    BY <1>0, <1>5, GotoMoves DEF Record
  <2>2. /\ UNCHANGED exported /\ calls[c].pc = "record"
        /\ actives' = Put(actives, Of(c), calls[c].profile)
    BY <1>5 DEF Record
  <2>3. CallerOK(c)' /\ ShownBy(c)'
    BY <1>0, <1>f, <2>1, <2>2 DEF Put, ShownBy, Shows, Actives
  <2> QED
    BY <1>s, <2>3, OneStep
<1> QED
  BY <1>1, <1>2, <1>3, <1>4, <1>5

\* A record that was deactivated had an object, and nobody else took it away.
LEMMA UnpublishGoesOn ==
    ASSUME NEW c \in Clients, CallerOK(c), Unpublish(c)
    PROVE  Goto(c, "sweep") \/ (Goto(c, "read") /\ calls[c].op \notin Switches)
  BY DEF CallerOK, InHand, Unpublish, At

LEMMA DeactivatingCaller ==
    ASSUME TypeInv, OneCaller, CallerInv, NEW c \in Clients,
           List(c) \/ Sweep(c) \/ Look(c) \/ Down(c) \/ Unrecord(c) \/ Unpublish(c)
    PROVE  CallerInv'
<1>0. CallsOK /\ CallFits(c) /\ ShownBy(c) /\ CallerOK(c) /\ calls[c] \in Call
  BY OneKnown DEF TypeInv, CallsOK
<1>s. UNCHANGED <<sync, switches>>
  BY DEF List, Sweep, Look, Down, Unrecord, Unpublish, tables
<1>n. calls[c].pc \notin {"export", "record"}
  BY DEF List, Sweep, Look, Down, Unrecord, Unpublish, At
<1> USE DEF At, CallerOK, Swept, Allowed, InHand, Activating, Of, Pcs, Left
<1>1. CASE List(c)
  <2>1. /\ calls'[c].pc = "sweep" /\ calls'[c].op = calls[c].op /\ calls'[c].todo = Actives
    BY <1>0, <1>1 DEF List, CallsOK
  <2>2. UNCHANGED <<actives, exported>>
    BY <1>1 DEF List, tables
  <2>3. CallerOK(c)' /\ ShownBy(c)'
    BY <1>0, <1>n, <2>1, <2>2, SameShown DEF Actives
  <2> QED
    BY <1>s, <2>3, OneStep
<1>2. CASE Sweep(c)
  <2>0. UNCHANGED <<actives, exported>> /\ calls[c].pc = "sweep" /\ calls[c].op \in Switches
    BY <1>0, <1>2 DEF Sweep, tables, CallFits, Fits, Sweeping
  <2>1. CASE calls[c].todo = {} /\ Goto(c, "read")
    <3>1. calls'[c].pc = "read" /\ calls'[c].op = calls[c].op
      BY <1>0, <2>1, GotoMoves
    <3>2. CallerOK(c)' /\ ShownBy(c)'
      BY <1>0, <2>0, <2>1, <3>1, SameShown DEF Actives, Switches
    <3> QED
      BY <1>s, <3>2, OneStep
  <2>2. ASSUME NEW i \in calls[c].todo,
               calls' = [calls EXCEPT ![c].pc = "look", ![c].todo = @ \ {i},
                                      ![c].iface = i, ![c].dev = i]
        PROVE  CallerInv'
    <3>1. /\ calls'[c].pc = "look" /\ calls'[c].op = calls[c].op /\ calls'[c].iface = i
          /\ calls'[c].todo = calls[c].todo \ {i}
      BY <1>0, <2>2 DEF CallsOK, Call
    <3>2. CallerOK(c)' /\ ShownBy(c)'
      BY <1>0, <2>0, <3>1, SameShown DEF Actives, Switches
    <3> QED
      BY <1>s, <3>2, OneStep
  <2> QED
    BY <1>2, <2>1, <2>2 DEF Sweep
<1>3. CASE Look(c)
  <2>0. UNCHANGED <<actives, exported>> /\ calls[c].pc = "look"
    BY <1>3 DEF Look, tables
  <2>1. ASSUME Goto(c, "unrecord"), calls[c].op # "deactivate" PROVE CallerInv'
    <3>1. /\ calls'[c].pc = "unrecord" /\ calls'[c].op = calls[c].op
          /\ calls'[c].iface = calls[c].iface /\ calls'[c].todo = calls[c].todo
      BY <1>0, <2>1, GotoMoves
    <3>2. CallerOK(c)' /\ ShownBy(c)'
      BY <1>0, <2>0, <2>1, <3>1, SameShown DEF Actives
    <3> QED
      BY <1>s, <3>2, OneStep
  <2>2. ASSUME Of(c) \in Actives, KindOf[actives[Of(c)]] \notin Cleared(calls[c].op),
               Goto(c, "sweep")
        PROVE  CallerInv'
    <3>1. /\ calls'[c].pc = "sweep" /\ calls'[c].op = calls[c].op
          /\ calls'[c].iface = calls[c].iface /\ calls'[c].todo = calls[c].todo
      BY <1>0, <2>2, GotoMoves
    <3>2. CallerOK(c)' /\ ShownBy(c)'
      BY <1>0, <2>0, <2>2, <3>1, SameShown DEF Actives
    <3> QED
      BY <1>s, <3>2, OneStep
  <2>3. ASSUME NEW p, calls' = [calls EXCEPT ![c].pc = "down", ![c].profile = p],
               calls[c].op # "deactivate"
        PROVE  CallerInv'
    <3>1. /\ calls'[c].pc = "down" /\ calls'[c].op = calls[c].op
          /\ calls'[c].iface = calls[c].iface /\ calls'[c].todo = calls[c].todo
      BY <1>0, <2>3 DEF CallsOK, Call
    <3>2. CallerOK(c)' /\ ShownBy(c)'
      BY <1>0, <2>0, <2>3, <3>1, SameShown DEF Actives
    <3> QED
      BY <1>s, <3>2, OneStep
  <2>4. calls[c].op # "deactivate"
    BY <1>0, <2>0 DEF CallFits, Fits
  <2> QED
    BY <1>3, <2>1, <2>2, <2>3, <2>4 DEF Look
<1>4. CASE Down(c)
  <2>0. UNCHANGED <<actives, exported>> /\ calls[c].pc = "down"
    BY <1>4 DEF Down, tables
  <2>1. CASE Goto(c, "unrecord")
    <3>1. /\ calls'[c].pc = "unrecord" /\ calls'[c].op = calls[c].op
          /\ calls'[c].iface = calls[c].iface /\ calls'[c].todo = calls[c].todo
      BY <1>0, <2>1, GotoMoves
    <3>2. CallerOK(c)' /\ ShownBy(c)'
      BY <1>0, <2>0, <3>1, SameShown DEF Actives
    <3> QED
      BY <1>s, <3>2, OneStep
  <2>2. CASE Return(c)
    <3>1. calls'[c].pc = "idle" /\ calls'[c].op = "none"
      BY <1>0, <2>2, ReturnMoves DEF Idle
    <3>2. CallerOK(c)' /\ ShownBy(c)'
      BY <1>0, <2>0, <3>1, SameShown DEF Switches
    <3> QED
      BY <1>s, <3>2, OneStep
  <2> QED
    BY <1>4, <2>1, <2>2 DEF Down
<1>5. CASE Unrecord(c)
  <2>1. /\ calls'[c].pc = "unpublish" /\ calls'[c].op = calls[c].op
        /\ calls'[c].iface = calls[c].iface /\ calls'[c].todo = calls[c].todo
    BY <1>0, <1>5, GotoMoves DEF Unrecord
  <2>2. /\ UNCHANGED exported /\ calls[c].pc = "unrecord"
        /\ actives' = Drop(actives, Of(c))
    BY <1>5 DEF Unrecord
  <2>3. CallerOK(c)' /\ ShownBy(c)'
    BY <1>0, <2>1, <2>2 DEF Drop, ShownBy, Shows, Actives
  <2> QED
    BY <1>s, <2>3, OneStep
<1>6. CASE Unpublish(c)
  <2>0. /\ UNCHANGED actives /\ calls[c].pc = "unpublish" /\ exported' = Drop(exported, Of(c))
    BY <1>6 DEF Unpublish, tables
  <2>s. calls'[c].pc \notin {"export", "record"} => ShownBy(c)'
    BY <1>0, <2>0 DEF Drop, ShownBy, Shows, Actives
  <2>1. CASE Goto(c, "sweep")
    <3>1. /\ calls'[c].pc = "sweep" /\ calls'[c].op = calls[c].op
          /\ calls'[c].iface = calls[c].iface /\ calls'[c].todo = calls[c].todo
      BY <1>0, <2>1, GotoMoves
    <3>2. CallerOK(c)' /\ ShownBy(c)'
      BY <1>0, <2>0, <2>s, <3>1 DEF Actives
    <3> QED
      BY <1>s, <3>2, OneStep
  <2>2. ASSUME Goto(c, "read"), calls[c].op \notin Switches PROVE CallerInv'
    <3>1. calls'[c].pc = "read" /\ calls'[c].op = calls[c].op
      BY <1>0, <2>2, GotoMoves
    <3>2. CallerOK(c)' /\ ShownBy(c)'
      BY <1>0, <2>2, <2>s, <3>1 DEF Actives
    <3> QED
      BY <1>s, <3>2, OneStep
  <2>3. Goto(c, "sweep") \/ (Goto(c, "read") /\ calls[c].op \notin Switches)
    BY <1>0, <1>6, UnpublishGoesOn DEF Unpublish
  <2> QED
    BY <2>1, <2>2, <2>3
<1> QED
  BY <1>1, <1>2, <1>3, <1>4, <1>5, <1>6

LEMMA TellingCaller ==
    ASSUME TypeInv, OneCaller, CallerInv, NEW c \in Clients, Read(c) \/ Send(c)
    PROVE  CallerInv'
<1>0. CallsOK /\ ShownBy(c) /\ CallerOK(c) /\ TablesOK
  BY OneKnown DEF TypeInv
<1>s. UNCHANGED <<sync, actives, exported, switches>>
  BY DEF Read, Send, tables
<1>o. \A op : Off(op)' <=> Off(op)
  BY <1>s DEF Off
<1> USE DEF At, CallerOK, Swept, Allowed, InHand, Activating, Of, Pcs, Left
<1>1. CASE Read(c)
  <2>1. /\ calls'[c].pc = "send" /\ calls'[c].op = calls[c].op /\ calls'[c].facts = Facts
    BY <1>0, <1>1, FactsType DEF Read, CallsOK, Call
  <2>2. Facts' = Facts
    BY <1>s DEF Facts, State, Actives
  <2>3. CallerOK(c)' /\ ShownBy(c)'
    BY <1>0, <1>1, <1>o, <1>s, <2>1, <2>2, SameShown DEF Read, Actives
  <2> QED
    BY <1>s, <2>3, OneStep
<1>2. CASE Send(c)
  <2>1. calls'[c].pc \in {"read", "idle"} /\ calls'[c].op \notin Switches
    BY <1>0, <1>2, ReturnMoves DEF Send, CallsOK, Call, Idle, Switches
  <2>3. CallerOK(c)' /\ ShownBy(c)'
    BY <1>0, <1>2, <1>s, <2>1, SameShown DEF Send, Actives
  <2> QED
    BY <1>s, <2>3, OneStep
<1> QED
  BY <1>1, <1>2

\* Without synchronisations SyncStep never begins.
LEMMA NoPass == OneCaller /\ SyncAt("idle") => ~SyncStep
  BY DEF OneCaller, SyncAt, SyncStep, SyncAsk, SyncPlan, SyncDrop, SyncDropObject, SyncHide,
         SyncShow, SyncRecord, SyncRead, SyncSend

LEMMA CallerStep == OneCaller /\ TypeInv /\ CallerInv /\ [Next]_vars => CallerInv'
<1> SUFFICES ASSUME OneCaller, TypeInv, CallerInv, [Next]_vars PROVE CallerInv'
  OBVIOUS
<1>1. CASE UNCHANGED vars \/ Change
  <2>1. UNCHANGED <<profiles, actives, switches, exported, told, calls, sync>>
    BY <1>1 DEF vars, tables, Change
  <2> QED
    BY <2>1 DEF CallerInv, SyncAt, Shown, Shows, CallerOK, Swept, Allowed, InHand, Left, Off,
                Permitted, Online, Kind, Of, Actives, Facts, State
<1>2. ASSUME NEW c \in Clients, Request(c) \/ Step(c) PROVE CallerInv'
  BY <1>2, RequestCaller, ActivatingCaller, DeactivatingCaller, TellingCaller DEF Step
<1>3. ~SyncStep
  BY NoPass DEF CallerInv
<1> QED
  BY <1>1, <1>2, <1>3 DEF Next

LEMMA CallerInvariant == ASSUME OneCaller PROVE Spec => [](TypeInv /\ CallerInv)
<1>1. Init => CallerInv
  BY DEF Init, CallerInv, SyncAt, Asleep, Shown, Actives, CallerOK, Swept, Allowed, InHand, Idle,
         Switches, Activating
<1>2. TypeInv /\ CallerInv /\ [Next]_vars => (TypeInv /\ CallerInv)'
  BY CallerStep, StepTypes
<1> QED
  BY <1>1, <1>2, InitTypes, PTL DEF Spec

\* Of ClearedWhenTold: the sweep of a switch, whatever backends refuse and links do by
\* themselves, deactivates all the switch is to clear before it is announced.
THEOREM SwitchesClear == ASSUME OneCaller PROVE Spec => []ClearedWhenTold
<1>1. CallerInv => ClearedWhenTold
  BY DEF CallerInv, CallerOK, Swept, Left, ClearedWhenTold
<1> QED
  BY <1>1, CallerInvariant, PTL

\* Of RecordShown: each record has an object that shows it whenever the caller rests.
THEOREM RecordsAreShown == ASSUME OneCaller PROVE Spec => []RecordShown
<1>1. CallerInv => RecordShown
  BY DEF CallerInv, Shown, Shows, RecordShown, Resting, At
<1> QED
  BY <1>1, CallerInvariant, PTL

\* Of NothingActiveOffline: only a permitted profile becomes active, though the
\* switches were read before the backend was waited for.
THEOREM ActivationsArePermitted == ASSUME OneCaller PROVE Spec => NothingActiveOffline
<1>1. TypeInv /\ CallerInv /\ [Next]_vars =>
          [\A i \in Ifaces : i \notin Actives /\ i \in Actives' => Permitted(KindOf[actives'[i]])]_vars
  <2> SUFFICES ASSUME TypeInv, CallerInv, Next, NEW i \in Ifaces, i \notin Actives, i \in Actives'
               PROVE  Permitted(KindOf[actives'[i]])
    OBVIOUS
  <2>1. ASSUME NEW c \in Clients, Record(c) PROVE Permitted(KindOf[actives'[i]])
    <3>1. i = Of(c) /\ actives'[i] = calls[c].profile
      BY <2>1 DEF Record, Put, Actives
    <3>2. Permitted(Kind(c))
      BY <2>1 DEF CallerInv, CallerOK, Allowed, Activating, Record, At
    <3> QED
      BY <3>1, <3>2 DEF Kind
  <2>2. ASSUME NEW c \in Clients, Request(c) \/ (Step(c) /\ ~Record(c)) PROVE FALSE
    <3>1. DOMAIN actives' \subseteq DOMAIN actives
      BY <2>2 DEF Request, Activate, AddAndActivate, Deactivate, Disconnect, Switch, Delete,
         Step, Check, Connect, Unexport, ExportActive, List, Sweep, Look, Down, Unrecord,
         Unpublish, Read, Send, tables, Drop
    <3> QED
      BY <3>1 DEF Actives
  <2>3. ~Change
    BY DEF Change, tables, Actives
  <2> QED
    BY <2>1, <2>2, <2>3, NoPass DEF CallerInv, Next
<1> QED
  BY <1>1, CallerInvariant, PTL DEF Spec, NothingActiveOffline

\* Of SuccessIsTold: a call returns from an announcement of what is so, from a refusal
\* by a switch or from an error of a backend, and from nowhere else.
THEOREM SuccessLeavesTruth == ASSUME OneCaller PROVE Spec => SuccessIsTold
<1>1. TypeInv /\ CallerInv /\ [Next]_vars =>
          [\A c \in Clients :
               calls[c].pc \notin {"idle", "check", "connect", "down"} /\ At(c, "idle")'
               => told' = Facts']_vars
  <2> SUFFICES ASSUME TypeInv, CallerInv, Next, NEW c \in Clients,
                      calls[c].pc \notin {"idle", "check", "connect", "down"}, At(c, "idle")'
               PROVE  told' = Facts'
    OBVIOUS
  <2>0. CallsOK /\ CallFits(c) /\ CallerOK(c) /\ calls[c] \in Call
    BY DEF TypeInv, CallsOK, CallerInv
  <2>1. \A d \in Clients : d = c
    BY DEF OneCaller
  <2>2. Step(c)
    BY <2>1, NoPass DEF Next, CallerInv, Change, At, Request, Activate, AddAndActivate, Deactivate, Disconnect, Switch,
       Delete, MayCall
  <2>3. CASE Send(c)
    <3>1. told' = Facts
      BY <2>0, <2>3 DEF Send, CallerOK, InHand, At
    <3>2. Facts' = Facts
      BY <2>3 DEF Send, tables, Facts, State, Actives
    <3> QED
      BY <3>1, <3>2
  <2>4. CASE Unpublish(c)
    BY <2>0, <2>4, UnpublishGoesOn, GotoMoves DEF At, Pcs
  <2>5. ~(Unexport(c) \/ ExportActive(c) \/ Record(c) \/ List(c) \/ Sweep(c) \/ Look(c)
          \/ Unrecord(c) \/ Read(c))
    <3>1. Unexport(c) \/ ExportActive(c) \/ Record(c) \/ Unrecord(c) => ~At(c, "idle")'
      BY <2>0, GotoMoves DEF Unexport, ExportActive, Record, Unrecord, At, Pcs
    <3>2. List(c) \/ Read(c) => ~At(c, "idle")'
      BY <2>0 DEF List, Read, At, CallsOK, Call
    <3>3. ASSUME NEW pc \in Pcs, Goto(c, pc) PROVE calls'[c].pc = pc
      BY <2>0, <3>3, GotoMoves
    <3>4. Sweep(c) => calls'[c].pc \in {"read", "look"}
      <4>1. ASSUME NEW i, calls' = [calls EXCEPT ![c].pc = "look", ![c].todo = @ \ {i},
                                                 ![c].iface = i, ![c].dev = i]
            PROVE  calls'[c].pc = "look"
        BY <2>0, <4>1 DEF CallsOK, Call
      <4> QED
        BY <3>3, <4>1 DEF Sweep, Pcs
    <3>5. Look(c) => calls'[c].pc \in {"unrecord", "sweep", "down"}
      <4>1. ASSUME NEW p, calls' = [calls EXCEPT ![c].pc = "down", ![c].profile = p]
            PROVE  calls'[c].pc = "down"
        BY <2>0, <4>1 DEF CallsOK, Call
      <4> QED
        BY <3>3, <4>1 DEF Look, Pcs
    <3> QED
      BY <3>1, <3>2, <3>4, <3>5 DEF At
  <2> QED
    BY <2>2, <2>3, <2>4, <2>5 DEF Step, Check, Connect, Down, At
<1> QED
  BY <1>1, CallerInvariant, PTL DEF Spec, SuccessIsTold
=============================================================================

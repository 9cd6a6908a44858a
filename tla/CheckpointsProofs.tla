-------------------------- MODULE CheckpointsProofs --------------------------
(* What holds of Checkpoints for any clients, timeouts and bounds: its     *)
(* invariants, the abstract life that it implements, and who may leave an   *)
(* object behind.                                                           *)
EXTENDS Checkpoints, TLAPS

(***************************************************************************)
(* Types.  A task that is not idle works on a checkpoint.                  *)
(***************************************************************************)
BusyHasId == \A c \in Clients : ~At(c, "idle") => calls[c].id \in Ids
TypeInv == TypeOK /\ BusyHasId

LEMMA IdleType == Idle \in Call
  BY DEF Idle, NoRecord, Record, Call, CallPcs

LEMMA InitTypes == Init => TypeInv
<1> SUFFICES ASSUME Init PROVE TypeInv
  OBVIOUS
<1>1. TypeOK
  BY IdleType, CheckpointConstants DEF Init, TypeOK, Listed, Ids, NoTimer, TimerPcs
<1>2. BusyHasId
  BY DEF Init, BusyHasId, At, Idle
<1> QED
  BY <1>1, <1>2 DEF TypeInv

\* A task changes its own entry only.
LEMMA CallsTypes ==
    ASSUME TypeInv, NEW c \in Clients, NEW v \in Call, v.pc # "idle" => v.id \in Ids,
           calls' = [calls EXCEPT ![c] = v]
    PROVE  (calls \in [Clients -> Call])' /\ BusyHasId'
  BY DEF TypeInv, TypeOK, BusyHasId, At

LEMMA GotoTypes ==
    ASSUME TypeInv, NEW c \in Clients, NEW pc \in CallPcs, ~At(c, "idle"), Goto(c, pc)
    PROVE  (calls \in [Clients -> Call])' /\ BusyHasId'
<1>1. [calls[c] EXCEPT !.pc = pc] \in Call
  BY DEF TypeInv, TypeOK, Call
<1>2. calls' = [calls EXCEPT ![c] = [calls[c] EXCEPT !.pc = pc]]
  BY DEF Goto
<1>3. calls[c].id \in Ids
  BY DEF TypeInv, BusyHasId
<1> QED
  BY <1>1, <1>2, <1>3, CallsTypes DEF Call

LEMMA ReturnTypes ==
    ASSUME TypeInv, NEW c \in Clients, Return(c)
    PROVE  (calls \in [Clients -> Call])' /\ BusyHasId'
  BY IdleType, CallsTypes DEF Return, Idle

LEMMA BeginTypes ==
    ASSUME TypeInv, NEW c \in Clients, NEW op \in MethodNames, NEW pc \in CallPcs,
           NEW k \in Ids, NEW r \in Record, Begin(c, op, pc, k, r)
    PROVE  (calls \in [Clients -> Call])' /\ BusyHasId'
<1>1. [pc |-> pc, op |-> op, id |-> k, rec |-> r] \in Call
  BY DEF Call
<1> QED
  BY <1>1, CallsTypes DEF Begin

LEMMA RequestTypes ==
    ASSUME TypeInv, NEW c \in Clients, Request(c)
    PROVE  TypeInv'
<1>1. CASE Create(c)
  <2>1. PICK t \in Timeouts : Begin(c, "create", "snapshot", nextId,
                                    [requested |-> t, timed |-> t > 0, left |-> t * Second])
    BY <1>1 DEF Create
  <2>2. [requested |-> t, timed |-> t > 0, left |-> t * Second] \in Record
    BY CheckpointConstants DEF Record
  <2>3. (calls \in [Clients -> Call])' /\ BusyHasId'
    BY <1>1, <2>1, <2>2, BeginTypes DEF Create, CallPcs, MethodNames
  <2> QED
    BY <1>1, <2>3, CheckpointConstants DEF Create, TypeInv, TypeOK, Listed, Ids
<1>2. CASE Adjust(c)
  <2>1. PICK k \in Listed, add \in Extensions :
          checkpoints' = [checkpoints EXCEPT ![k].timed = TRUE,
                                             ![k].left = checkpoints[k].left + add * Second]
    BY <1>2 DEF Adjust
  <2>2. checkpoints[k].left + add * Second \in Nat
    BY CheckpointConstants DEF TypeInv, TypeOK, Record
  <2>3. checkpoints' = [checkpoints EXCEPT ![k] =
            [checkpoints[k] EXCEPT !.timed = TRUE,
                                   !.left = checkpoints[k].left + add * Second]]
    BY <2>1
  <2>4. [checkpoints[k] EXCEPT !.timed = TRUE,
                               !.left = checkpoints[k].left + add * Second] \in Record
    BY <2>2 DEF TypeInv, TypeOK, Record
  <2> QED
    BY <1>2, <2>3, <2>4 DEF Adjust, TypeInv, TypeOK, Listed, BusyHasId, At
<1>3. CASE Destroy(c) \/ Rollback(c)
  <2>1. NoRecord \in Record
    BY DEF NoRecord, Record
  <2>2. PICK k \in 1..(nextId - 1), op \in {"destroy", "rollback"} :
            Begin(c, op, "take", k, NoRecord)
    BY <1>3 DEF Destroy, Rollback
  <2>3. k \in Ids
    BY CheckpointConstants DEF TypeInv, TypeOK, Ids
  <2>4. (calls \in [Clients -> Call])' /\ BusyHasId'
    BY <2>1, <2>2, <2>3, BeginTypes DEF CallPcs, MethodNames
  <2> QED
    BY <1>3, <2>4 DEF Destroy, Rollback, TypeInv, TypeOK, Listed
<1> QED
  BY <1>1, <1>2, <1>3 DEF Request

LEMMA StepTypes ==
    ASSUME TypeInv, NEW c \in Clients, Step(c)
    PROVE  TypeInv'
<1>0. calls[c] \in Call /\ ("idle" # calls[c].pc => calls[c].id \in Ids)
  BY DEF TypeInv, TypeOK, BusyHasId, At
<1>1. CASE Add(c)
  <2>1. CASE Return(c) /\ UNCHANGED checkpoints
    BY <1>1, <2>1, ReturnTypes DEF Add, TypeInv, TypeOK, Listed
  <2>2. CASE /\ checkpoints' = With(calls[c].id, calls[c].rec)
             /\ calls' = [calls EXCEPT ![c].pc = "register", ![c].rec.left = 0]
    <3>1. calls' = [calls EXCEPT ![c] =
                        [calls[c] EXCEPT !.pc = "register", !.rec = [@ EXCEPT !.left = 0]]]
      BY <2>2
    <3>2. [calls[c].rec EXCEPT !.left = 0] \in Record /\ calls[c].rec \in Record
      BY <1>0 DEF Call, Record
    <3>3. [calls[c] EXCEPT !.pc = "register", !.rec = [@ EXCEPT !.left = 0]] \in Call
      BY <1>0, <3>2 DEF Call, CallPcs
    <3>4. calls[c].id \in Ids
      BY <1>0, <1>1 DEF Add, At
    <3>5. (calls \in [Clients -> Call])' /\ BusyHasId'
      BY <3>1, <3>3, <3>4, CallsTypes DEF Call
    <3> QED
      BY <1>1, <2>2, <3>2, <3>4, <3>5 DEF Add, With, TypeInv, TypeOK, Listed
  <2> QED
    BY <1>1, <2>1, <2>2 DEF Add
<1>2. CASE Register(c)
  BY <1>0, <1>2, GotoTypes DEF Register, At, CallPcs, TypeInv, TypeOK, Listed
<1>3. CASE Arm(c)
  <2>1. (timers \in [Ids -> [pc: TimerPcs, left: Nat]])'
    BY <1>3, CheckpointConstants DEF Arm, TypeInv, TypeOK, TimerPcs
  <2> QED
    BY <1>3, <2>1, ReturnTypes DEF Arm, TypeInv, TypeOK, Listed
<1>4. CASE Take(c)
  <2>1. (calls \in [Clients -> Call])' /\ BusyHasId'
    BY <1>4, GotoTypes, ReturnTypes DEF Take, At, CallPcs
  <2> QED
    BY <1>4, <2>1 DEF Take, Without, TypeInv, TypeOK, Listed
<1>5. CASE Unregister(c) \/ Restore(c) \/ UnregisterAgain(c)
  <2>1. (calls \in [Clients -> Call])' /\ BusyHasId'
    BY <1>5, GotoTypes, ReturnTypes DEF Unregister, Restore, UnregisterAgain, At, CallPcs
  <2> QED
    BY <1>5, <2>1 DEF Unregister, Restore, UnregisterAgain, TypeInv, TypeOK, Listed
<1> QED
  BY <1>1, <1>2, <1>3, <1>4, <1>5 DEF Step

LEMMA TimerTypes ==
    ASSUME TypeInv, NEW k \in Ids, Timer(k)
    PROVE  TypeInv'
<1>1. (timers \in [Ids -> [pc: TimerPcs, left: Nat]])'
  BY CheckpointConstants
     DEF TypeInv, TypeOK, TimerPcs, Timer, Wake, TimerTake, TimerUnregister, TimerRestore
<1>2. (Listed \subseteq Ids /\ \A j \in Listed : checkpoints[j] \in Record)'
  BY DEF TypeInv, TypeOK, Listed, Timer, Wake, TimerTake, TimerUnregister, TimerRestore, Without
<1> QED
  BY <1>1, <1>2
     DEF TypeInv, TypeOK, BusyHasId, At, Timer, Wake, TimerTake, TimerUnregister, TimerRestore

LEMMA TickTypes == ASSUME TypeInv, Tick PROVE TypeInv'
<1>1. \A n \in Nat : Less(n) \in Nat
  BY DEF Less
<1>2. (Listed \subseteq Ids /\ \A k \in Listed : checkpoints[k] \in Record)'
  BY <1>1 DEF Tick, TypeInv, TypeOK, Listed, Record
<1>3. (timers \in [Ids -> [pc: TimerPcs, left: Nat]])'
  BY <1>1 DEF Tick, TypeInv, TypeOK
<1>4. (calls \in [Clients -> Call])' /\ BusyHasId'
  <2>1. ASSUME NEW c \in Clients
        PROVE  calls'[c] \in Call /\ calls'[c].pc = calls[c].pc /\ calls'[c].id = calls[c].id
    <3> DEFINE left == Less(calls[c].rec.left)
    <3>1. calls[c] \in Call /\ calls[c].rec \in Record
      BY DEF TypeInv, TypeOK, Call
    <3>2. left \in Nat
      BY <1>1, <3>1 DEF Record
    <3>3. calls'[c] = [calls[c] EXCEPT !.rec = [calls[c].rec EXCEPT !.left = left]]
      BY <3>1 DEF Tick, Call
    <3> HIDE DEF left
    <3>4. [calls[c].rec EXCEPT !.left = left] \in Record
      BY <3>1, <3>2 DEF Record
    <3> QED
      BY <3>1, <3>3, <3>4 DEF Call
  <2> QED
    BY <2>1 DEF Tick, TypeInv, BusyHasId, At
<1> QED
  BY <1>2, <1>3, <1>4 DEF Tick, TypeInv, TypeOK

LEMMA NextTypes == TypeInv /\ [Next]_vars => TypeInv'
<1> SUFFICES ASSUME TypeInv, [Next]_vars PROVE TypeInv'
  OBVIOUS
<1>1. CASE UNCHANGED vars
  BY <1>1 DEF vars, TypeInv, TypeOK, BusyHasId, Listed, At
<1> QED
  BY <1>1, RequestTypes, StepTypes, TimerTypes, TickTypes DEF Next

\* The types are those of the code in every reachable state.
THEOREM TypesCorrect == Spec => []TypeOK
<1>1. Spec => []TypeInv
  BY InitTypes, NextTypes, PTL DEF Spec
<1>2. TypeInv => TypeOK
  BY DEF TypeInv
<1> QED
  BY <1>1, <1>2, PTL

(***************************************************************************)
(* The life of a checkpoint.  EndsOnce, ListedHasObject and TimeoutWatched *)
(* hold because a checkpoint has one maker and nobody can take it before   *)
(* it is listed, which the other conjuncts say.                            *)
(***************************************************************************)
Maker(c) == calls[c].pc \in {"snapshot", "register", "arm"}

\* Ids are handed out in order.
IdsKnown == /\ \A c \in Clients : calls[c].id < nextId
            /\ \A k \in Listed : k < nextId

\* A checkpoint has one maker.
OneMaker == \A c, d \in Clients : Maker(c) /\ Maker(d) /\ calls[c].id = calls[d].id => c = d

\* It has no timer until its maker is done.
NoEarlyTimer == /\ \A k \in Ids : k >= nextId => timers[k].pc = "none"
                /\ \A c \in Clients : Maker(c) => timers[calls[c].id].pc = "none"

\* Nobody has listed or taken a checkpoint before its maker lists it.
Untouched == \A c, d \in Clients : At(c, "snapshot") => /\ calls[c].id \notin Listed
                                                        /\ ~Took(d, calls[c].id)

\* The maker remembers the timeout that the record was listed with.
MakerKnows ==
    \A c \in Clients : calls[c].pc \in {"register", "arm"} /\ calls[c].id \in Listed =>
        calls[c].rec.requested = checkpoints[calls[c].id].requested

LifeInv == /\ IdsKnown /\ OneMaker /\ NoEarlyTimer /\ Untouched /\ MakerKnows
           /\ EndsOnce /\ ListedHasObject /\ TimeoutWatched

LEMMA InitLife == Init => LifeInv
  BY CheckpointConstants
     DEF Init, LifeInv, IdsKnown, OneMaker, NoEarlyTimer, Untouched, MakerKnows,
         EndsOnce, ListedHasObject, TimeoutWatched,
         Maker, At, Took, TimerTook, Listed, Idle, NoTimer, Ids

LEMMA RequestLife ==
    ASSUME TypeInv, LifeInv, NEW c \in Clients, Request(c)
    PROVE  LifeInv'
<1> USE DEF Maker, At, Took, TimerTook, Listed
<1> IdsKnown /\ OneMaker /\ NoEarlyTimer /\ Untouched /\ MakerKnows
          /\ EndsOnce /\ ListedHasObject /\ TimeoutWatched
  BY DEF LifeInv
<1>0. /\ nextId \in Nat /\ Ids \subseteq Nat /\ Listed \subseteq Ids
      /\ \A d \in Clients : calls[d].id \in Nat
  BY CheckpointConstants DEF TypeInv, TypeOK, Call, Ids
<1>1. CASE Create(c)
  <2>1. nextId \in Ids /\ nextId' = nextId + 1
    BY <1>1 DEF Create
  <2>2. /\ calls'[c].pc = "snapshot" /\ calls'[c].id = nextId
        /\ \A d \in Clients \ {c} : calls'[d] = calls[d]
    BY <1>1 DEF Create, Begin, TypeInv, TypeOK
  <2>3. UNCHANGED <<checkpoints, objects, timers>> /\ calls[c].pc = "idle"
    BY <1>1 DEF Create, MayCall
  <2>4. /\ \A d \in Clients : calls[d].id # nextId
        /\ nextId \notin Listed /\ timers[nextId].pc = "none"
    BY <1>0, <2>1 DEF IdsKnown, NoEarlyTimer
  <2>11. IdsKnown'
    <3>1. \A n \in Nat : n < nextId => n < nextId + 1
      BY <1>0
    <3>2. nextId < nextId + 1
      BY <1>0
    <3> QED
      BY <1>0, <2>1, <2>2, <2>3, <3>1, <3>2 DEF IdsKnown
  <2>12. OneMaker'
    BY <2>2, <2>3, <2>4 DEF OneMaker
  <2>13. NoEarlyTimer'
    <3>1. \A k \in Ids : k >= nextId + 1 => k >= nextId
      BY <1>0
    <3> QED
      BY <2>1, <2>2, <2>3, <2>4, <3>1 DEF NoEarlyTimer
  <2>14. Untouched'
    BY <2>2, <2>3, <2>4 DEF Untouched
  <2>15. MakerKnows'
    BY <2>2, <2>3, <2>4 DEF MakerKnows
  <2>16. EndsOnce'
    BY <2>2, <2>3, <2>4 DEF EndsOnce
  <2>17. ListedHasObject'
    BY <2>2, <2>3, <2>4 DEF ListedHasObject
  <2>18. TimeoutWatched'
    BY <2>2, <2>3, <2>4 DEF TimeoutWatched
  <2> QED
    BY <2>11, <2>12, <2>13, <2>14, <2>15, <2>16, <2>17, <2>18 DEF LifeInv
<1>2. CASE Adjust(c)
  <2>1. /\ Listed' = Listed
        /\ \A k \in Listed : checkpoints'[k].requested = checkpoints[k].requested
    BY <1>2 DEF Adjust, TypeInv, TypeOK, Record
  <2>2. UNCHANGED <<nextId, objects, timers, calls>>
    BY <1>2 DEF Adjust
  <2>3. (IdsKnown /\ OneMaker /\ NoEarlyTimer /\ Untouched /\ EndsOnce /\ ListedHasObject)'
    BY <2>1, <2>2
       DEF IdsKnown, OneMaker, NoEarlyTimer, Untouched, EndsOnce, ListedHasObject
  <2>4. MakerKnows' /\ TimeoutWatched'
    BY <2>1, <2>2 DEF MakerKnows, TimeoutWatched
  <2> QED
    BY <2>3, <2>4 DEF LifeInv
<1>3. CASE Destroy(c) \/ Rollback(c)
  <2>1. /\ calls'[c].pc = "take" /\ calls'[c].id < nextId /\ calls[c].pc = "idle"
        /\ \A d \in Clients \ {c} : calls'[d] = calls[d]
    BY <1>0, <1>3 DEF Destroy, Rollback, MayCall, Begin, TypeInv, TypeOK
  <2>2. UNCHANGED <<nextId, checkpoints, objects, timers>>
    BY <1>3 DEF Destroy, Rollback
  <2>11. IdsKnown'
    BY <2>1, <2>2 DEF IdsKnown
  <2>12. OneMaker'
    BY <2>1, <2>2 DEF OneMaker
  <2>13. NoEarlyTimer'
    BY <2>1, <2>2 DEF NoEarlyTimer
  <2>14. Untouched'
    BY <2>1, <2>2 DEF Untouched
  <2>15. MakerKnows'
    BY <2>1, <2>2 DEF MakerKnows
  <2>16. EndsOnce'
    BY <2>1, <2>2 DEF EndsOnce
  <2>17. ListedHasObject'
    BY <2>1, <2>2 DEF ListedHasObject
  <2>18. TimeoutWatched'
    BY <2>1, <2>2 DEF TimeoutWatched
  <2> QED
    BY <2>11, <2>12, <2>13, <2>14, <2>15, <2>16, <2>17, <2>18 DEF LifeInv
<1> QED
  BY <1>1, <1>2, <1>3 DEF Request

LEMMA StepLife ==
    ASSUME TypeInv, LifeInv, NEW c \in Clients, Step(c)
    PROVE  LifeInv'
<1> USE DEF Maker, At, Took, TimerTook, Listed
<1> IdsKnown /\ OneMaker /\ NoEarlyTimer /\ Untouched /\ MakerKnows
          /\ EndsOnce /\ ListedHasObject /\ TimeoutWatched
  BY DEF LifeInv
<1>0. /\ nextId \in Nat \ {0} /\ calls \in [Clients -> Call]
      /\ calls[c].pc # "idle" => calls[c].id \in Ids
      /\ timers \in [Ids -> [pc: TimerPcs, left: Nat]]
  BY CheckpointConstants DEF TypeInv, TypeOK, BusyHasId
<1>9. nextId \in Nat \ {0} /\ Ids \subseteq Nat /\ Listed \subseteq Ids
  BY CheckpointConstants DEF TypeInv, TypeOK, Ids
<1>10. \A d \in Clients : Maker(d) => calls[d].id \in Ids
  BY DEF TypeInv, BusyHasId
<1> DEFINE id == calls[c].id
<1>1. ASSUME Return(c)
      PROVE  /\ calls'[c].pc = "idle" /\ calls'[c].id = 0
             /\ \A d \in Clients \ {c} : calls'[d] = calls[d]
  BY <1>0, <1>1 DEF Return, Idle
<1>2. ASSUME NEW pc \in CallPcs, Goto(c, pc)
      PROVE  /\ calls'[c].pc = pc /\ calls'[c].id = id /\ calls'[c].rec = calls[c].rec
             /\ \A d \in Clients \ {c} : calls'[d] = calls[d]
  BY <1>0, <1>2 DEF Goto, Call
<1>3. CASE \/ Add(c) /\ UNCHANGED checkpoints /\ Return(c)
           \/ Take(c) /\ id \notin Listed
           \/ (Unregister(c) \/ Restore(c) \/ UnregisterAgain(c)) /\ Return(c)
  <2>1. /\ UNCHANGED <<nextId, checkpoints, timers>>
        /\ objects \subseteq objects' \cup {id} /\ (objects' # objects => Took(c, id))
    BY <1>3 DEF Add, Take, Unregister, Restore, UnregisterAgain
  <2>2. /\ calls'[c].pc = "idle" /\ calls'[c].id = 0 /\ calls[c].pc # "register"
        /\ calls[c].pc # "arm" /\ \A d \in Clients \ {c} : calls'[d] = calls[d]
    BY <1>1, <1>3 DEF Add, Take, Unregister, Restore, UnregisterAgain
  <2>11. IdsKnown'
    BY <1>9, <2>1, <2>2 DEF IdsKnown
  <2>12. OneMaker'
    BY <2>1, <2>2 DEF OneMaker
  <2>13. NoEarlyTimer'
    BY <2>1, <2>2 DEF NoEarlyTimer
  <2>14. Untouched'
    BY <2>1, <2>2 DEF Untouched
  <2>15. MakerKnows'
    BY <2>1, <2>2 DEF MakerKnows
  <2>16. EndsOnce'
    BY <2>1, <2>2 DEF EndsOnce
  <2>17. ListedHasObject'
    BY <1>9, <2>1, <2>2 DEF ListedHasObject, EndsOnce
  <2>18. TimeoutWatched'
    BY <2>1, <2>2 DEF TimeoutWatched
  <2> QED
    BY <2>11, <2>12, <2>13, <2>14, <2>15, <2>16, <2>17, <2>18 DEF LifeInv
<1>4. CASE /\ Add(c)
           /\ checkpoints' = With(id, calls[c].rec)
           /\ calls' = [calls EXCEPT ![c].pc = "register", ![c].rec.left = 0]
  <2>1. /\ calls'[c].pc = "register" /\ calls'[c].id = id
        /\ calls'[c].rec.requested = calls[c].rec.requested
        /\ \A d \in Clients \ {c} : calls'[d] = calls[d]
    BY <1>0, <1>4 DEF Call, Record
  <2>2. /\ Listed' = Listed \cup {id} /\ checkpoints'[id] = calls[c].rec
        /\ \A k \in Listed : k # id => checkpoints'[k] = checkpoints[k]
    BY <1>4 DEF With
  <2>3. UNCHANGED <<nextId, objects, timers>> /\ calls[c].pc = "snapshot"
    BY <1>4 DEF Add
  <2>11. IdsKnown'
    BY <2>1, <2>2, <2>3 DEF IdsKnown
  <2>12. OneMaker'
    BY <2>1, <2>2, <2>3 DEF OneMaker
  <2>13. NoEarlyTimer'
    BY <2>1, <2>2, <2>3 DEF NoEarlyTimer
  <2>14. Untouched'
    BY <2>1, <2>2, <2>3 DEF Untouched, OneMaker
  <2>15. MakerKnows'
    BY <2>1, <2>2, <2>3 DEF MakerKnows, OneMaker
  <2>16. EndsOnce'
    BY <2>1, <2>2, <2>3 DEF EndsOnce, Untouched, NoEarlyTimer
  <2>17. ListedHasObject'
    BY <2>1, <2>2, <2>3 DEF ListedHasObject
  <2>18. TimeoutWatched'
    BY <2>1, <2>2, <2>3 DEF TimeoutWatched
  <2> QED
    BY <2>11, <2>12, <2>13, <2>14, <2>15, <2>16, <2>17, <2>18 DEF LifeInv
<1>5. CASE Register(c)
  <2>1. UNCHANGED <<nextId, checkpoints, timers>> /\ calls[c].pc = "register"
    BY <1>5 DEF Register
  <2>2. /\ calls'[c].pc = "arm" /\ calls'[c].id = id /\ calls'[c].rec = calls[c].rec
        /\ \A d \in Clients \ {c} : calls'[d] = calls[d]
    BY <1>2, <1>5 DEF Register, CallPcs
  <2>3. objects' = objects \cup {id}
    BY <1>5 DEF Register
  <2>11. IdsKnown'
    BY <2>1, <2>2, <2>3 DEF IdsKnown
  <2>12. OneMaker'
    BY <2>1, <2>2, <2>3 DEF OneMaker
  <2>13. NoEarlyTimer'
    BY <2>1, <2>2, <2>3 DEF NoEarlyTimer
  <2>14. Untouched'
    BY <2>1, <2>2, <2>3 DEF Untouched
  <2>15. MakerKnows'
    BY <2>1, <2>2, <2>3 DEF MakerKnows
  <2>16. EndsOnce'
    BY <2>1, <2>2, <2>3 DEF EndsOnce
  <2>17. ListedHasObject'
    BY <2>1, <2>2, <2>3 DEF ListedHasObject
  <2>18. TimeoutWatched'
    BY <2>1, <2>2, <2>3 DEF TimeoutWatched
  <2> QED
    BY <2>11, <2>12, <2>13, <2>14, <2>15, <2>16, <2>17, <2>18 DEF LifeInv
<1>6. CASE Arm(c)
  <2>1. UNCHANGED <<nextId, checkpoints, objects>> /\ calls[c].pc = "arm"
    BY <1>6 DEF Arm
  <2>2. /\ calls'[c].pc = "idle" /\ calls'[c].id = 0
        /\ \A d \in Clients \ {c} : calls'[d] = calls[d]
    BY <1>1, <1>6 DEF Arm
  <2>3. id \in Ids /\ id < nextId /\ timers[id].pc = "none"
    BY <1>10, <2>1 DEF IdsKnown, NoEarlyTimer
  <2>4. /\ calls[c].rec.requested > 0 => timers'[id].pc = "asleep"
        /\ timers'[id].pc \in {"none", "asleep"}
        /\ \A k \in Ids : k # id => timers'[k] = timers[k]
    BY <1>0, <1>6, <2>3 DEF Arm
  <2>5. \A d \in Clients \ {c} : Maker(d) => calls[d].id \in Ids /\ calls[d].id # id
    BY <1>10, <2>1 DEF OneMaker
  <2>11. IdsKnown'
    BY <1>9, <2>1, <2>2 DEF IdsKnown
  <2>12. OneMaker'
    BY <2>1, <2>2, <2>4, <2>5 DEF OneMaker
  <2>13. NoEarlyTimer'
    <3>1. (\A k \in Ids : k >= nextId => timers[k].pc = "none")'
      <4>1. id \in Nat /\ id < nextId /\ nextId \in Nat
        BY <1>9, <2>3
      <4>2. ~(id >= nextId)
        BY <4>1
      <4> QED
        BY <2>1, <2>4, <4>2 DEF NoEarlyTimer
    <3>2. (\A d \in Clients : Maker(d) => timers[calls[d].id].pc = "none")'
      BY <2>2, <2>4, <2>5 DEF NoEarlyTimer
    <3> QED
      BY <3>1, <3>2 DEF NoEarlyTimer
  <2>14. Untouched'
    BY <2>1, <2>2, <2>4, <2>5 DEF Untouched
  <2>15. MakerKnows'
    BY <2>1, <2>2, <2>4, <2>5 DEF MakerKnows
  <2>16. EndsOnce'
    BY <2>1, <2>2, <2>4, <2>5 DEF EndsOnce
  <2>17. ListedHasObject'
    BY <2>1, <2>2, <2>4, <2>5 DEF ListedHasObject
  <2>18. TimeoutWatched'
    <3>1. SUFFICES ASSUME NEW k \in Listed, checkpoints[k].requested > 0
                   PROVE  \/ timers'[k].pc \in {"asleep", "take"}
                          \/ \E d \in Clients : /\ calls'[d].pc \in {"register", "arm"}
                                                /\ calls'[d].id = k
      BY <2>1 DEF TimeoutWatched
    <3>2. CASE k = id
      BY <2>1, <2>4, <3>1, <3>2 DEF MakerKnows
    <3>3. CASE k # id
      <4>1. k \in Ids /\ timers'[k] = timers[k]
        BY <1>9, <2>4, <3>3
      <4> QED
        BY <2>2, <3>1, <3>3, <4>1 DEF TimeoutWatched
    <3> QED
      BY <3>2, <3>3
  <2> QED
    BY <2>11, <2>12, <2>13, <2>14, <2>15, <2>16, <2>17, <2>18 DEF LifeInv
<1>7. CASE Take(c) /\ id \in Listed
  <2>1. UNCHANGED <<nextId, objects, timers>> /\ calls[c].pc = "take"
    BY <1>7 DEF Take
  <2>2. /\ calls'[c].pc = "unregister" /\ calls'[c].id = id
        /\ \A d \in Clients \ {c} : calls'[d] = calls[d]
    BY <1>2, <1>7 DEF Take, CallPcs
  <2>3. /\ Listed' = Listed \ {id}
        /\ \A k \in Listed : k # id => checkpoints'[k] = checkpoints[k]
    BY <1>7 DEF Take, Without
  <2>11. IdsKnown'
    BY <1>7, <2>1, <2>2, <2>3 DEF IdsKnown
  <2>12. OneMaker'
    BY <1>7, <2>1, <2>2, <2>3 DEF OneMaker
  <2>13. NoEarlyTimer'
    BY <1>7, <2>1, <2>2, <2>3 DEF NoEarlyTimer
  <2>14. Untouched'
    BY <1>7, <2>1, <2>2, <2>3 DEF Untouched
  <2>15. MakerKnows'
    BY <1>7, <2>1, <2>2, <2>3 DEF MakerKnows
  <2>16. EndsOnce'
    BY <1>7, <2>1, <2>2, <2>3 DEF EndsOnce
  <2>17. ListedHasObject'
    BY <1>7, <2>1, <2>2, <2>3 DEF ListedHasObject
  <2>18. TimeoutWatched'
    BY <1>7, <2>1, <2>2, <2>3 DEF TimeoutWatched
  <2> QED
    BY <2>11, <2>12, <2>13, <2>14, <2>15, <2>16, <2>17, <2>18 DEF LifeInv
<1>8. CASE (Unregister(c) \/ Restore(c)) /\ ~Return(c)
  <2>1. /\ UNCHANGED <<nextId, checkpoints, timers>> /\ Took(c, id)
        /\ objects \subseteq objects' \cup {id}
    BY <1>8 DEF Unregister, Restore
  <2>2. /\ calls'[c].pc \in {"restore", "unregisterAgain"} /\ calls'[c].id = id
        /\ \A d \in Clients \ {c} : calls'[d] = calls[d]
    BY <1>2, <1>8 DEF Unregister, Restore, CallPcs
  <2>11. IdsKnown'
    BY <2>1, <2>2 DEF IdsKnown
  <2>12. OneMaker'
    BY <2>1, <2>2 DEF OneMaker
  <2>13. NoEarlyTimer'
    BY <2>1, <2>2 DEF NoEarlyTimer
  <2>14. Untouched'
    BY <2>1, <2>2 DEF Untouched
  <2>15. MakerKnows'
    BY <2>1, <2>2 DEF MakerKnows
  <2>16. EndsOnce'
    BY <2>1, <2>2 DEF EndsOnce
  <2>17. ListedHasObject'
    <3>1. id \notin Listed
      BY <1>9, <2>1 DEF EndsOnce
    <3> QED
      BY <2>1, <2>2, <3>1 DEF ListedHasObject
  <2>18. TimeoutWatched'
    BY <2>1, <2>2 DEF TimeoutWatched
  <2> QED
    BY <2>11, <2>12, <2>13, <2>14, <2>15, <2>16, <2>17, <2>18 DEF LifeInv
<1> QED
  BY <1>3, <1>4, <1>5, <1>6, <1>7, <1>8 DEF Step, Add, UnregisterAgain

LEMMA TimerLife ==
    ASSUME TypeInv, LifeInv, NEW k \in Ids, Timer(k)
    PROVE  LifeInv'
<1> USE DEF Maker, At, Took, TimerTook, Listed
<1> IdsKnown /\ OneMaker /\ NoEarlyTimer /\ Untouched /\ MakerKnows
          /\ EndsOnce /\ ListedHasObject /\ TimeoutWatched
  BY DEF LifeInv
<1>0. timers \in [Ids -> [pc: TimerPcs, left: Nat]]
  BY DEF TypeInv, TypeOK
<1>4. Listed \subseteq Ids /\ \A c \in Clients : Maker(c) => calls[c].id \in Ids
  BY DEF TypeInv, TypeOK, BusyHasId
<1>1. CASE Wake(k)
  <2>1. /\ UNCHANGED <<nextId, checkpoints, objects, calls>>
        /\ timers[k].pc = "asleep"
        /\ \A j \in Ids : j # k => timers'[j] = timers[j]
        /\ timers'[k].pc \in {"asleep", "take", "done"}
        /\ k \in Listed => timers'[k].pc \in {"asleep", "take"}
    BY <1>0, <1>1 DEF Wake
  <2>11. IdsKnown'
    BY <1>4, <2>1 DEF IdsKnown
  <2>12. OneMaker'
    BY <1>4, <2>1 DEF OneMaker
  <2>13. NoEarlyTimer'
    BY <1>4, <2>1 DEF NoEarlyTimer
  <2>14. Untouched'
    BY <1>4, <2>1 DEF Untouched
  <2>15. MakerKnows'
    BY <1>4, <2>1 DEF MakerKnows
  <2>16. EndsOnce'
    BY <1>4, <2>1 DEF EndsOnce
  <2>17. ListedHasObject'
    BY <1>4, <2>1 DEF ListedHasObject
  <2>18. TimeoutWatched'
    BY <1>4, <2>1 DEF TimeoutWatched
  <2> QED
    BY <2>11, <2>12, <2>13, <2>14, <2>15, <2>16, <2>17, <2>18 DEF LifeInv
<1>2. CASE TimerTake(k)
  <2>1. /\ UNCHANGED <<nextId, objects, calls>> /\ timers[k].pc = "take"
        /\ \A j \in Ids : j # k => timers'[j] = timers[j]
        /\ timers'[k].pc \in {"unregister", "done"}
        /\ timers'[k].pc = "unregister" => k \in Listed
    BY <1>0, <1>2 DEF TimerTake
  <2>2. /\ Listed' = Listed \ {k}
        /\ \A j \in Listed : j # k => checkpoints'[j] = checkpoints[j]
    BY <1>2 DEF TimerTake, Without
  <2>11. IdsKnown'
    BY <1>4, <2>1, <2>2 DEF IdsKnown
  <2>12. OneMaker'
    BY <1>4, <2>1, <2>2 DEF OneMaker
  <2>13. NoEarlyTimer'
    BY <1>4, <2>1, <2>2 DEF NoEarlyTimer
  <2>14. Untouched'
    BY <1>4, <2>1, <2>2 DEF Untouched
  <2>15. MakerKnows'
    BY <1>4, <2>1, <2>2 DEF MakerKnows
  <2>16. EndsOnce'
    BY <1>4, <2>1, <2>2 DEF EndsOnce
  <2>17. ListedHasObject'
    BY <1>4, <2>1, <2>2 DEF ListedHasObject
  <2>18. TimeoutWatched'
    BY <1>4, <2>1, <2>2 DEF TimeoutWatched
  <2> QED
    BY <2>11, <2>12, <2>13, <2>14, <2>15, <2>16, <2>17, <2>18 DEF LifeInv
<1>3. CASE TimerUnregister(k) \/ TimerRestore(k)
  <2>1. /\ UNCHANGED <<nextId, checkpoints, calls>> /\ TimerTook(k)
        /\ objects \subseteq objects' \cup {k}
        /\ \A j \in Ids : j # k => timers'[j] = timers[j]
        /\ timers'[k].pc \in {"restore", "done"}
    BY <1>0, <1>3 DEF TimerUnregister, TimerRestore
  <2>11. IdsKnown'
    BY <1>4, <2>1 DEF IdsKnown
  <2>12. OneMaker'
    BY <1>4, <2>1 DEF OneMaker
  <2>13. NoEarlyTimer'
    BY <1>4, <2>1 DEF NoEarlyTimer
  <2>14. Untouched'
    BY <1>4, <2>1 DEF Untouched
  <2>15. MakerKnows'
    BY <1>4, <2>1 DEF MakerKnows
  <2>16. EndsOnce'
    BY <1>4, <2>1 DEF EndsOnce
  <2>17. ListedHasObject'
    BY <1>4, <2>1 DEF ListedHasObject, EndsOnce
  <2>18. TimeoutWatched'
    BY <1>4, <2>1 DEF TimeoutWatched, EndsOnce
  <2> QED
    BY <2>11, <2>12, <2>13, <2>14, <2>15, <2>16, <2>17, <2>18 DEF LifeInv
<1> QED
  BY <1>1, <1>2, <1>3 DEF Timer

LEMMA TickLife == ASSUME TypeInv, LifeInv, Tick PROVE LifeInv'
<1> USE DEF Maker, At, Took, TimerTook, Listed
<1> IdsKnown /\ OneMaker /\ NoEarlyTimer /\ Untouched /\ MakerKnows
          /\ EndsOnce /\ ListedHasObject /\ TimeoutWatched
  BY DEF LifeInv
<1>1. ASSUME NEW c \in Clients
      PROVE  /\ calls'[c].pc = calls[c].pc /\ calls'[c].id = calls[c].id
             /\ calls'[c].rec.requested = calls[c].rec.requested
  <2>1. calls[c] \in Call /\ calls[c].rec \in Record
    BY DEF TypeInv, TypeOK, Call
  <2> QED
    BY <2>1 DEF Tick, Call, Record
<1>2. ASSUME NEW k \in Ids PROVE timers'[k].pc = timers[k].pc
  BY DEF Tick, TypeInv, TypeOK
<1>3. /\ Listed' = Listed
      /\ \A k \in Listed : checkpoints'[k].requested = checkpoints[k].requested
  BY DEF Tick, TypeInv, TypeOK, Record
<1>4. /\ Listed \subseteq Ids /\ UNCHANGED <<nextId, objects>>
      /\ \A c \in Clients : Maker(c) => calls[c].id \in Ids
  BY DEF Tick, TypeInv, TypeOK, BusyHasId
<1>11. IdsKnown'
  BY <1>1, <1>2, <1>3, <1>4 DEF IdsKnown
<1>12. OneMaker'
  BY <1>1, <1>2, <1>3, <1>4 DEF OneMaker
<1>13. NoEarlyTimer'
  BY <1>1, <1>2, <1>3, <1>4 DEF NoEarlyTimer
<1>14. Untouched'
  BY <1>1, <1>2, <1>3, <1>4 DEF Untouched
<1>15. MakerKnows'
  BY <1>1, <1>2, <1>3, <1>4 DEF MakerKnows
<1>16. EndsOnce'
  BY <1>1, <1>2, <1>3, <1>4 DEF EndsOnce
<1>17. ListedHasObject'
  BY <1>1, <1>2, <1>3, <1>4 DEF ListedHasObject
<1>18. TimeoutWatched'
  BY <1>1, <1>2, <1>3, <1>4 DEF TimeoutWatched
<1> QED
  BY <1>11, <1>12, <1>13, <1>14, <1>15, <1>16, <1>17, <1>18 DEF LifeInv

LEMMA NextLife == TypeInv /\ LifeInv /\ [Next]_vars => LifeInv'
<1> SUFFICES ASSUME TypeInv, LifeInv, [Next]_vars PROVE LifeInv'
  OBVIOUS
<1>1. CASE UNCHANGED vars
  BY <1>1 DEF vars, LifeInv, IdsKnown, OneMaker, NoEarlyTimer, Untouched, MakerKnows,
              EndsOnce, ListedHasObject, TimeoutWatched, Maker, At, Took, TimerTook, Listed
<1> QED
  BY <1>1, RequestLife, StepLife, TimerLife, TickLife DEF Next

LEMMA LifeInvariant == Spec => [](TypeInv /\ LifeInv)
  BY InitTypes, NextTypes, InitLife, NextLife, PTL DEF Spec

\* A checkpoint is taken by one task, and is not listed afterwards.
THEOREM CheckpointEndsOnce == Spec => []EndsOnce
<1>1. LifeInv => EndsOnce
  BY DEF LifeInv
<1> QED
  BY <1>1, LifeInvariant, PTL

\* A listed checkpoint has its object or is about to get it.
THEOREM CheckpointHasObject == Spec => []ListedHasObject
<1>1. LifeInv => ListedHasObject
  BY DEF LifeInv
<1> QED
  BY <1>1, LifeInvariant, PTL

\* A checkpoint with a timeout always has a task that will roll it back.
THEOREM CheckpointIsWatched == Spec => []TimeoutWatched
<1>1. LifeInv => TimeoutWatched
  BY DEF LifeInv
<1> QED
  BY <1>1, LifeInvariant, PTL

(***************************************************************************)
(* A checkpoint that is over does not come back: only its maker lists it,  *)
(* and the ids of new makers are new.                                      *)
(***************************************************************************)
LEMMA StaysOver ==
    ASSUME TypeInv, [Next]_vars, NEW k \in Ids, Over(k)
    PROVE  Over(k)'
<1> USE DEF Over, Making, At, Listed
<1>0. nextId \in Nat /\ k \in Nat /\ calls \in [Clients -> Call]
  BY CheckpointConstants DEF TypeInv, TypeOK, Ids
<1>1. ASSUME NEW c \in Clients, Request(c) PROVE Over(k)'
  <2>1. CASE Create(c)
    BY <1>0, <2>1 DEF Create, Begin
  <2>2. CASE Adjust(c)
    BY <1>0, <2>2 DEF Adjust
  <2>3. CASE Destroy(c) \/ Rollback(c)
    BY <1>0, <2>3 DEF Destroy, Rollback, Begin
  <2> QED
    BY <1>1, <2>1, <2>2, <2>3 DEF Request
<1>2. ASSUME NEW c \in Clients, Step(c) PROVE Over(k)'
  <2>1. CASE Add(c)
    BY <1>0, <2>1 DEF Add, With, Return, Idle, Call
  <2>2. CASE Register(c) \/ Arm(c)
    BY <1>0, <2>2 DEF Register, Arm, Goto, Return, Idle, Call
  <2>3. CASE Take(c) \/ Unregister(c) \/ Restore(c) \/ UnregisterAgain(c)
    <3>1. nextId' = nextId /\ Listed' \subseteq Listed
      BY <2>3 DEF Take, Unregister, Restore, UnregisterAgain, Without
    <3>2. calls'[c].pc # "snapshot" /\ \A d \in Clients \ {c} : calls'[d] = calls[d]
      BY <1>0, <2>3 DEF Take, Unregister, Restore, UnregisterAgain, Goto, Return, Idle, Call
    <3> QED
      BY <3>1, <3>2
  <2> QED
    BY <1>2, <2>1, <2>2, <2>3 DEF Step
<1>3. ASSUME NEW j \in Ids, Timer(j) PROVE Over(k)'
  BY <1>3 DEF Timer, Wake, TimerTake, TimerUnregister, TimerRestore, Without
<1>4. CASE Tick
  <2>1. \A c \in Clients : calls'[c].pc = calls[c].pc /\ calls'[c].id = calls[c].id
    BY <1>0, <1>4 DEF Tick, Call
  <2> QED
    BY <1>4, <2>1 DEF Tick
<1>5. CASE UNCHANGED vars
  BY <1>5 DEF vars
<1> QED
  BY <1>1, <1>2, <1>3, <1>4, <1>5 DEF Next

\* No step brings an ended checkpoint back.
THEOREM CheckpointStaysEnded == Spec => EndedForGood
<1>1. TypeInv /\ [Next]_vars => [\A k \in Ids : Over(k) => Over(k)']_vars
  BY StaysOver
<1> QED
  BY <1>1, InitTypes, NextTypes, PTL DEF Spec, EndedForGood

-----------------------------------------------------------------------------
(***************************************************************************)
(* Every step of the tasks is a step of the life of one checkpoint, or is  *)
(* not seen there.  Who makes or has taken a checkpoint is alone with it   *)
(* (OneMaker, EndsOnce), so that it leaves the set when its task does.     *)
(***************************************************************************)
LifeStep == [Life!Next]_(Life!vars)

LEMMA InitImplements == Init => Life!Init
  BY DEF Init, Life!Init, MakingIds, EndingIds, Making, At, Took, TimerTook, Listed,
         Idle, NoTimer

LEMMA SamePhases ==
    ASSUME UNCHANGED <<nextId, MakingIds, Listed, EndingIds>>
    PROVE  LifeStep
  BY DEF LifeStep, Life!vars

LEMMA MakeStep ==
    ASSUME nextId \in Ids, nextId' = nextId + 1, MakingIds' = MakingIds \cup {nextId},
           UNCHANGED <<Listed, EndingIds>>
    PROVE  LifeStep
  BY DEF LifeStep, Life!Next, Life!Make

LEMMA OpenStep ==
    ASSUME NEW k \in Ids, k \in MakingIds, MakingIds' = MakingIds \ {k},
           Listed' = Listed \cup {k}, UNCHANGED <<nextId, EndingIds>>
    PROVE  LifeStep
  BY DEF LifeStep, Life!Next, Life!Open

LEMMA AbandonStep ==
    ASSUME NEW k \in Ids, k \in MakingIds, MakingIds' = MakingIds \ {k},
           UNCHANGED <<nextId, Listed, EndingIds>>
    PROVE  LifeStep
  BY DEF LifeStep, Life!Next, Life!Abandon

LEMMA EndStep ==
    ASSUME NEW k \in Ids, k \in Listed, Listed' = Listed \ {k},
           EndingIds' = EndingIds \cup {k}, UNCHANGED <<nextId, MakingIds>>
    PROVE  LifeStep
  BY DEF LifeStep, Life!Next, Life!End

LEMMA FinishStep ==
    ASSUME NEW k \in Ids, k \in EndingIds, EndingIds' = EndingIds \ {k},
           UNCHANGED <<nextId, MakingIds, Listed>>
    PROVE  LifeStep
  BY DEF LifeStep, Life!Next, Life!Finish

LEMMA RequestImplements ==
    ASSUME TypeInv, LifeInv, NEW c \in Clients, Request(c)
    PROVE  LifeStep
<1> USE DEF MakingIds, EndingIds, Making, At, Took, TimerTook
<1>1. CASE Create(c)
  <2>1. /\ calls[c].pc = "idle"
        /\ calls'[c].pc = "snapshot" /\ calls'[c].id = nextId
        /\ \A d \in Clients \ {c} : calls'[d] = calls[d]
    BY <1>1 DEF Create, Begin, MayCall, TypeInv, TypeOK
  <2>2. nextId \in Ids /\ nextId' = nextId + 1 /\ UNCHANGED <<checkpoints, timers>>
    BY <1>1 DEF Create
  <2>3. MakingIds' = MakingIds \cup {nextId}
    BY <2>1, <2>2
  <2>4. EndingIds' = EndingIds
    BY <2>1, <2>2
  <2> HIDE DEF MakingIds, EndingIds
  <2> QED
    BY <2>2, <2>3, <2>4, MakeStep DEF Listed
<1>2. CASE Adjust(c)
  <2>1. Listed' = Listed /\ UNCHANGED <<nextId, timers, calls>>
    BY <1>2 DEF Adjust, TypeInv, TypeOK, Listed
  <2>2. MakingIds' = MakingIds /\ EndingIds' = EndingIds
    BY <2>1
  <2> HIDE DEF MakingIds, EndingIds
  <2> QED
    BY <2>1, <2>2, SamePhases
<1>3. CASE Destroy(c) \/ Rollback(c)
  <2>1. /\ calls[c].pc = "idle" /\ calls'[c].pc = "take"
        /\ \A d \in Clients \ {c} : calls'[d] = calls[d]
    BY <1>3 DEF Destroy, Rollback, Begin, MayCall, TypeInv, TypeOK
  <2>2. UNCHANGED <<nextId, checkpoints, timers>>
    BY <1>3 DEF Destroy, Rollback
  <2>3. MakingIds' = MakingIds /\ EndingIds' = EndingIds
    BY <2>1, <2>2
  <2> HIDE DEF MakingIds, EndingIds
  <2> QED
    BY <2>2, <2>3, SamePhases DEF Listed
<1> QED
  BY <1>1, <1>2, <1>3 DEF Request

LEMMA StepImplements ==
    ASSUME TypeInv, LifeInv, NEW c \in Clients, Step(c)
    PROVE  LifeStep
<1> USE DEF MakingIds, EndingIds, Making, At, Took, TimerTook
<1> DEFINE id == calls[c].id
<1>1. calls \in [Clients -> Call] /\ (calls[c].pc # "idle" => id \in Ids)
  BY DEF TypeInv, TypeOK, BusyHasId
<1>2. OneMaker /\ EndsOnce
  BY DEF LifeInv
<1>3. ASSUME Return(c)
      PROVE  /\ calls'[c].pc = "idle"
             /\ \A d \in Clients \ {c} : calls'[d] = calls[d]
  BY <1>1, <1>3 DEF Return, Idle
<1>4. ASSUME NEW pc \in CallPcs, Goto(c, pc)
      PROVE  /\ calls'[c].pc = pc /\ calls'[c].id = id
             /\ \A d \in Clients \ {c} : calls'[d] = calls[d]
  BY <1>1, <1>4 DEF Goto, Call
<1>5. CASE Add(c)
  <2>1. /\ UNCHANGED <<nextId, timers>> /\ calls[c].pc = "snapshot" /\ id \in Ids
        /\ calls'[c].pc \in {"idle", "register"}
        /\ \A d \in Clients \ {c} : calls'[d] = calls[d]
    <3>1. calls[c].pc = "snapshot" /\ UNCHANGED <<nextId, timers>>
      BY <1>5 DEF Add
    <3>2. CASE Return(c)
      BY <1>1, <1>3, <3>1, <3>2
    <3>3. CASE calls' = [calls EXCEPT ![c].pc = "register", ![c].rec.left = 0]
      BY <1>1, <3>1, <3>3 DEF Call, Record
    <3> QED
      BY <1>5, <3>2, <3>3 DEF Add
  <2>2. Listed' \in {Listed, Listed \cup {id}}
    BY <1>5 DEF Add, With, Listed
  <2>3. \A d \in Clients \ {c} : calls[d].pc = "snapshot" => calls[d].id # id
    BY <1>2, <2>1 DEF OneMaker, Maker
  <2>4. MakingIds' = MakingIds \ {id} /\ id \in MakingIds
    BY <2>1, <2>3
  <2>5. EndingIds' = EndingIds
    BY <2>1
  <2> HIDE DEF MakingIds, EndingIds
  <2> QED
    BY <2>1, <2>2, <2>4, <2>5, OpenStep, AbandonStep
<1>6. CASE Register(c) \/ Arm(c) \/ (Take(c) /\ id \notin Listed)
  <2>1. calls[c].pc \in {"register", "arm", "take"} /\ UNCHANGED <<nextId, checkpoints>>
    BY <1>6 DEF Register, Arm, Take
  <2>2. /\ calls'[c].pc \in {"arm", "idle"}
        /\ \A d \in Clients \ {c} : calls'[d] = calls[d]
    BY <1>3, <1>4, <1>6 DEF Register, Arm, Take, CallPcs
  <2>3. \A k \in Ids : TimerTook(k)' = TimerTook(k)
    <3>1. CASE Arm(c)
      <4>1. timers \in [Ids -> [pc: TimerPcs, left: Nat]] /\ timers[id].pc = "none"
        BY <1>1, <3>1 DEF Arm, TypeInv, TypeOK, LifeInv, NoEarlyTimer, Maker
      <4>2. \A k \in Ids : timers'[k] = timers[k] \/ (k = id /\ timers'[k].pc = "asleep")
        BY <3>1, <4>1 DEF Arm
      <4> QED
        BY <4>1, <4>2
    <3> QED
      BY <1>6, <3>1 DEF Register, Take
  <2>4. MakingIds' = MakingIds
    BY <2>1, <2>2
  <2>5. EndingIds' = EndingIds
    <3> HIDE DEF TimerTook
    <3> QED
      BY <2>1, <2>2, <2>3
  <2> HIDE DEF MakingIds, EndingIds
  <2> QED
    BY <2>1, <2>4, <2>5, SamePhases DEF Listed
<1>7. CASE Take(c) /\ id \in Listed
  <2>1. /\ UNCHANGED <<nextId, timers>> /\ calls[c].pc = "take" /\ id \in Ids
        /\ Listed' = Listed \ {id}
    BY <1>1, <1>7 DEF Take, Without, Listed
  <2>2. /\ calls'[c].pc = "unregister" /\ calls'[c].id = id
        /\ \A d \in Clients \ {c} : calls'[d] = calls[d]
    BY <1>4, <1>7 DEF Take, CallPcs
  <2>3. MakingIds' = MakingIds
    BY <2>1, <2>2
  <2>4. EndingIds' = EndingIds \cup {id}
    BY <2>1, <2>2
  <2> HIDE DEF MakingIds, EndingIds
  <2> QED
    BY <1>7, <2>1, <2>3, <2>4, EndStep
<1>8. CASE Unregister(c) \/ Restore(c) \/ UnregisterAgain(c)
  <2>1. /\ UNCHANGED <<nextId, checkpoints, timers>>
        /\ calls[c].pc \in {"unregister", "restore", "unregisterAgain"} /\ id \in Ids
    BY <1>1, <1>8 DEF Unregister, Restore, UnregisterAgain
  <2>2. CASE Return(c)
    <3>1. \A d \in Clients \ {c} : ~Took(d, id)
      BY <1>2, <2>1 DEF EndsOnce
    <3>2. ~TimerTook(id)
      BY <1>2, <2>1 DEF EndsOnce
    <3>3. MakingIds' = MakingIds
      BY <1>3, <2>1, <2>2
    <3>4. EndingIds' = EndingIds \ {id} /\ id \in EndingIds
      BY <1>3, <2>1, <2>2, <3>1, <3>2
    <3> HIDE DEF MakingIds, EndingIds
    <3> QED
      BY <2>1, <3>3, <3>4, FinishStep DEF Listed
  <2>3. CASE ~Return(c)
    <3>1. /\ calls'[c].pc \in {"restore", "unregisterAgain"} /\ calls'[c].id = id
          /\ \A d \in Clients \ {c} : calls'[d] = calls[d]
      BY <1>4, <1>8, <2>3 DEF Unregister, Restore, UnregisterAgain, CallPcs
    <3>2. MakingIds' = MakingIds
      BY <2>1, <3>1
    <3>3. EndingIds' = EndingIds
      BY <2>1, <3>1
    <3> HIDE DEF MakingIds, EndingIds
    <3> QED
      BY <2>1, <3>2, <3>3, SamePhases DEF Listed
  <2> QED
    BY <2>2, <2>3
<1> QED
  BY <1>5, <1>6, <1>7, <1>8 DEF Step

LEMMA TimerImplements ==
    ASSUME TypeInv, LifeInv, NEW k \in Ids, Timer(k)
    PROVE  LifeStep
<1> USE DEF MakingIds, EndingIds, Making, At, Took, TimerTook
<1>1. timers \in [Ids -> [pc: TimerPcs, left: Nat]] /\ EndsOnce
  BY DEF TypeInv, TypeOK, LifeInv
<1>2. UNCHANGED <<nextId, calls>> /\ \A j \in Ids : j # k => timers'[j] = timers[j]
  BY <1>1 DEF Timer, Wake, TimerTake, TimerUnregister, TimerRestore
<1>3. MakingIds' = MakingIds
  BY <1>2
<1>4. CASE Wake(k) \/ TimerUnregister(k) \/ (TimerTake(k) /\ k \notin Listed)
  <2>1. TimerTook(k)' = TimerTook(k) /\ UNCHANGED checkpoints
    BY <1>1, <1>4 DEF Wake, TimerUnregister, TimerTake
  <2>2. EndingIds' = EndingIds
    BY <1>2, <2>1
  <2> HIDE DEF MakingIds, EndingIds
  <2> QED
    BY <1>2, <1>3, <2>1, <2>2, SamePhases DEF Listed
<1>5. CASE TimerTake(k) /\ k \in Listed
  <2>1. TimerTook(k)' /\ Listed' = Listed \ {k}
    BY <1>1, <1>5 DEF TimerTake, Without, Listed
  <2>2. EndingIds' = EndingIds \cup {k}
    BY <1>2, <2>1
  <2> HIDE DEF MakingIds, EndingIds
  <2> QED
    BY <1>2, <1>3, <1>5, <2>1, <2>2, EndStep
<1>6. CASE TimerRestore(k)
  <2>1. TimerTook(k) /\ ~TimerTook(k)' /\ UNCHANGED checkpoints
    BY <1>1, <1>6 DEF TimerRestore
  <2>2. \A c \in Clients : ~Took(c, k)
    BY <1>1, <2>1 DEF EndsOnce
  <2>3. EndingIds' = EndingIds \ {k} /\ k \in EndingIds
    BY <1>2, <2>1, <2>2
  <2> HIDE DEF MakingIds, EndingIds
  <2> QED
    BY <1>2, <1>3, <2>1, <2>3, FinishStep DEF Listed
<1> QED
  BY <1>4, <1>5, <1>6 DEF Timer

LEMMA TickImplements == ASSUME TypeInv, Tick PROVE LifeStep
<1>1. \A c \in Clients : calls'[c].pc = calls[c].pc /\ calls'[c].id = calls[c].id
  BY DEF Tick, TypeInv, TypeOK, Call
<1>2. \A k \in Ids : timers'[k].pc = timers[k].pc
  BY DEF Tick, TypeInv, TypeOK
<1>3. MakingIds' = MakingIds /\ EndingIds' = EndingIds
  BY <1>1, <1>2 DEF MakingIds, EndingIds, Making, At, Took, TimerTook
<1> QED
  BY <1>3, SamePhases DEF Tick, Listed

LEMMA NextImplements == TypeInv /\ LifeInv /\ [Next]_vars => LifeStep
<1> SUFFICES ASSUME TypeInv, LifeInv, [Next]_vars PROVE LifeStep
  OBVIOUS
<1>1. CASE UNCHANGED vars
  BY <1>1, SamePhases
     DEF vars, MakingIds, EndingIds, Making, At, Took, TimerTook, Listed
<1> QED
  BY <1>1, RequestImplements, StepImplements, TimerImplements, TickImplements DEF Next

\* The table, the calls and the timers keep what CheckpointLife promises a caller:
\* ids are not given out again, and a checkpoint goes through each phase once.
THEOREM CheckpointsImplementLife == Spec => ImplementsLife
  BY InitImplements, LifeInvariant, NextImplements, PTL
     DEF Spec, ImplementsLife, Life!Spec, LifeStep

(***************************************************************************)
(* Ghosts.  Whoever takes a checkpoint will remove its object, and whoever *)
(* is about to remove the object does: what is left is an object that      *)
(* comes when the checkpoint is over.                                      *)
(***************************************************************************)
LateMaker(k) == \E c \in Clients : calls[c].id = k /\ Register(c)

\* Task c is about to remove the object of checkpoint k.
Removing(c, k) == calls[c].pc \in {"unregister", "unregisterAgain"} /\ calls[c].id = k

\* An object that is not a ghost does not become one if it stays, as long as those
\* who care for it do.
LEMMA NoGhost ==
    ASSUME NEW k \in Ids, ~Ghost(k), k \in objects' => k \in objects,
           k \in Listed => k \in Listed' \/ timers'[k].pc = "unregister"
                           \/ \E c \in Clients : Removing(c, k)',
           timers[k].pc = "unregister" => timers'[k].pc = "unregister" \/ k \notin objects',
           \A c \in Clients : Removing(c, k) => Removing(c, k)' \/ k \notin objects'
    PROVE  ~Ghost(k)'
  BY DEF Ghost, Removing

LEMMA RequestLeavesNoGhost ==
    ASSUME TypeInv, NEW c \in Clients, Request(c), NEW k \in Ids, ~Ghost(k)
    PROVE  ~Ghost(k)'
<1>1. UNCHANGED <<objects, timers>> /\ Listed' = Listed
  BY DEF Request, Create, Adjust, Destroy, Rollback, TypeInv, TypeOK, Listed
<1>2. \A d \in Clients : Removing(d, k) => Removing(d, k)'
  BY DEF Request, Create, Adjust, Destroy, Rollback, Begin, MayCall, At, TypeInv, TypeOK,
         Removing
<1> QED
  BY <1>1, <1>2, NoGhost

LEMMA StepLeavesNoGhost ==
    ASSUME TypeInv, LifeInv, NEW c \in Clients, Step(c), NEW k \in Ids, ~Ghost(k),
           ~LateMaker(k)
    PROVE  ~Ghost(k)'
<1>1. calls \in [Clients -> Call] /\ timers \in [Ids -> [pc: TimerPcs, left: Nat]]
  BY DEF TypeInv, TypeOK
<1>2. \A d \in Clients \ {c} : calls'[d] = calls[d]
  BY <1>1 DEF Step, Add, Register, Arm, Take, Unregister, Restore, UnregisterAgain,
              Return, Goto
<1>3. CASE Add(c) \/ Restore(c)
  <2>1. /\ UNCHANGED <<objects, timers>> /\ Listed \subseteq Listed'
        /\ calls[c].pc \in {"snapshot", "restore"}
    BY <1>3 DEF Add, Restore, With, At, Listed
  <2> QED
    BY <1>2, <2>1, NoGhost DEF Removing
<1>4. CASE Register(c)
  <2>1. /\ objects' = objects \cup {calls[c].id} /\ UNCHANGED <<timers, checkpoints>>
        /\ calls[c].pc = "register" /\ calls[c].id # k
    BY <1>4 DEF Register, At, LateMaker
  <2> QED
    BY <1>2, <2>1, NoGhost DEF Removing, Listed
<1>5. CASE Arm(c)
  <2>1. /\ UNCHANGED <<objects, checkpoints>> /\ calls[c].pc = "arm"
    BY <1>5 DEF Arm, At
  <2>2. calls[c].id = k => timers[k].pc = "none"
    BY <2>1 DEF LifeInv, NoEarlyTimer, Maker
  <2>3. timers[k].pc = "unregister" => timers'[k].pc = "unregister"
    BY <1>1, <1>5, <2>2 DEF Arm
  <2> QED
    BY <1>2, <2>1, <2>3, NoGhost DEF Removing, Listed
<1>6. CASE Take(c)
  <2>1. /\ UNCHANGED <<objects, timers>> /\ calls[c].pc = "take"
        /\ k \in Listed => k \in Listed' \/ Removing(c, k)'
    BY <1>1, <1>6 DEF Take, Without, Goto, Return, At, Listed, Removing, Call
  <2> QED
    BY <1>2, <2>1, NoGhost DEF Removing
<1>7. CASE Unregister(c) \/ UnregisterAgain(c)
  <2>1. objects' = objects \ {calls[c].id} /\ UNCHANGED <<timers, checkpoints>>
    BY <1>7 DEF Unregister, UnregisterAgain
  <2> QED
    BY <1>2, <2>1, NoGhost DEF Removing, Listed
<1> QED
  BY <1>3, <1>4, <1>5, <1>6, <1>7 DEF Step

LEMMA TimerLeavesNoGhost ==
    ASSUME TypeInv, NEW j \in Ids, Timer(j), NEW k \in Ids, ~Ghost(k)
    PROVE  ~Ghost(k)'
<1>1. timers \in [Ids -> [pc: TimerPcs, left: Nat]]
  BY DEF TypeInv, TypeOK
<1>2. \A d \in Clients : Removing(d, k) => Removing(d, k)'
  BY DEF Timer, Wake, TimerTake, TimerUnregister, TimerRestore, Removing
<1>3. /\ objects' \subseteq objects
      /\ k \in Listed => k \in Listed' \/ timers'[k].pc = "unregister"
  BY <1>1 DEF Timer, Wake, TimerTake, TimerUnregister, TimerRestore, Without, Listed
<1>4. timers[k].pc = "unregister" => timers'[k].pc = "unregister" \/ k \notin objects'
  BY <1>1 DEF Timer, Wake, TimerTake, TimerUnregister, TimerRestore
<1> QED
  BY <1>2, <1>3, <1>4, NoGhost

LEMMA TickLeavesNoGhost ==
    ASSUME TypeInv, Tick, NEW k \in Ids, ~Ghost(k)
    PROVE  ~Ghost(k)'
<1>1. \A c \in Clients : calls'[c].pc = calls[c].pc /\ calls'[c].id = calls[c].id
  BY DEF Tick, TypeInv, TypeOK, Call
<1>2. timers'[k].pc = timers[k].pc /\ objects' = objects /\ Listed' = Listed
  BY DEF Tick, TypeInv, TypeOK, Listed
<1> QED
  BY <1>1, <1>2, NoGhost DEF Removing

LEMMA OnlyLateMakers ==
    ASSUME TypeInv, LifeInv, [Next]_vars, NEW k \in Ids, ~Ghost(k), Ghost(k)'
    PROVE  LateMaker(k)
<1> SUFFICES ASSUME ~LateMaker(k) PROVE FALSE
  OBVIOUS
<1>1. CASE UNCHANGED vars
  BY <1>1 DEF vars, Ghost, Listed
<1> QED
  BY <1>1, RequestLeavesNoGhost, StepLeavesNoGhost, TimerLeavesNoGhost, TickLeavesNoGhost
     DEF Next

\* An object outlives its checkpoint only if the checkpoint was taken before the task
\* that made it registered the object.
THEOREM GhostsOnlyFromLateMakers == Spec => OnlyLateMakersLeaveGhosts
<1>1. TypeInv /\ LifeInv /\ [Next]_vars =>
          [\A k \in Ids : ~Ghost(k) /\ Ghost(k)' =>
              \E c \in Clients : calls[c].id = k /\ Register(c)]_vars
  BY OnlyLateMakers DEF LateMaker
<1> QED
  BY <1>1, LifeInvariant, PTL DEF Spec, OnlyLateMakersLeaveGhosts
=============================================================================

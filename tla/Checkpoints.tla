---------------------------- MODULE Checkpoints ----------------------------
(***************************************************************************)
(* The life of checkpoints: CheckpointCreate, -Destroy, -AdjustRollback-   *)
(* Timeout and -Rollback (network_manager/mod.rs), the timer task of each  *)
(* checkpoint, and the checkpoint table of `Runtime`.  What a rollback     *)
(* restores is the subject of module Rollback; here it takes some time and *)
(* may fail.                                                               *)
(*                                                                         *)
(* Time is relative: instead of a clock and deadlines, every deadline and  *)
(* every sleep is the number of ticks that are left until then, and Tick   *)
(* takes one from each.  Second is the number of ticks in a second, so     *)
(* that timers, which look once a second, need not be in phase with the    *)
(* deadlines.  A task may be late by any amount.                           *)
(***************************************************************************)
EXTENDS Integers, FiniteSets

CONSTANTS
    Clients,     \* callers; each has at most one call in flight
    Second,      \* ticks per second
    Timeouts,    \* rollback_timeout arguments of CheckpointCreate, in seconds
    Extensions,  \* add_timeout arguments of CheckpointAdjustRollbackTimeout
    Ops,         \* methods the clients of this instance call
    MaxId,       \* bound: number of checkpoints ever created
    MaxLeft      \* bound: no adjustment moves a deadline further away, in ticks

MethodNames == {"create", "destroy", "adjust", "rollback"}

ASSUME CheckpointConstants ==
    /\ Second \in Nat \ {0}
    /\ Timeouts \subseteq Nat /\ Extensions \subseteq Nat
    /\ Ops \subseteq MethodNames
    /\ MaxId \in Nat /\ MaxLeft \in Nat

Ids == 1..MaxId

VARIABLES
    nextId,       \* RuntimeState.next_checkpoint_id
    checkpoints,  \* RuntimeState.checkpoints: id -> record
    objects,      \* ids of the registered Checkpoint objects
    timers,       \* the task that spawn_checkpoint_timeout starts for each id
    calls         \* the tasks that answer the clients

vars == <<nextId, checkpoints, objects, timers, calls>>

\* requested: the timeout given to CheckpointCreate, which the D-Bus object
\* keeps; timed: there is a deadline; left: ticks until the deadline.
\* CheckpointRecord.rollback_timeout is read only while there is no deadline,
\* and is the requested 0 then.
Record == [requested: Nat, timed: BOOLEAN, left: Nat]
NoRecord == [requested |-> 0, timed |-> FALSE, left |-> 0]

Idle == [pc |-> "idle", op |-> "none", id |-> 0, rec |-> NoRecord]
NoTimer == [pc |-> "none", left |-> 0]

Init ==
    /\ nextId = 1
    /\ checkpoints = [k \in {} |-> NoRecord]
    /\ objects = {}
    /\ timers = [k \in Ids |-> NoTimer]
    /\ calls = [c \in Clients |-> Idle]

-----------------------------------------------------------------------------
Listed == DOMAIN checkpoints
Without(k) == [j \in Listed \ {k} |-> checkpoints[j]]
With(k, r) == [j \in Listed \cup {k} |-> IF j = k THEN r ELSE checkpoints[j]]

At(c, pc) == calls[c].pc = pc
MayCall(c, op) == op \in Ops /\ At(c, "idle")
Goto(c, pc) == calls' = [calls EXCEPT ![c].pc = pc]
Return(c) == calls' = [calls EXCEPT ![c] = Idle]
Begin(c, op, pc, k, r) ==
    calls' = [calls EXCEPT ![c] = [pc |-> pc, op |-> op, id |-> k, rec |-> r]]

\* Runtime::checkpoint_rollback_timeout, rounded up to whole seconds
RollbackTimeout(r) == IF r.timed THEN (r.left + Second - 1) \div Second ELSE r.requested

-----------------------------------------------------------------------------
(* CheckpointCreate                                                        *)

\* Mutant: the next id is one above those in the table.
CreateAfterTable(c) ==
    /\ MayCall(c, "create")
    /\ \E k \in Ids, t \in Timeouts :
           /\ k \notin Listed /\ \A j \in Listed : j < k
           /\ k = 1 \/ k - 1 \in Listed
           /\ Begin(c, "create", "snapshot", k,
                    [requested |-> t, timed |-> t > 0, left |-> t * Second])
           /\ nextId' = k + 1
    /\ UNCHANGED <<checkpoints, objects, timers>>

\* The deadline counts from here, the id is taken before anything can fail.
Create(c) ==
    /\ MayCall(c, "create")
    /\ nextId \in Ids
    /\ nextId' = nextId + 1
    /\ \E t \in Timeouts :
           Begin(c, "create", "snapshot", nextId,
                 [requested |-> t, timed |-> t > 0, left |-> t * Second])
    /\ UNCHANGED <<checkpoints, objects, timers>>

\* Once the profile files are read, the checkpoint is listed.  A file that
\* cannot be read fails the call.
Add(c) ==
    /\ At(c, "snapshot")
    /\ \/ /\ checkpoints' = With(calls[c].id, calls[c].rec)
          /\ calls' = [calls EXCEPT ![c].pc = "register", ![c].rec.left = 0]
       \/ Return(c) /\ UNCHANGED checkpoints
    /\ UNCHANGED <<nextId, objects, timers>>

Register(c) ==
    /\ At(c, "register")
    /\ objects' = objects \cup {calls[c].id}
    /\ Goto(c, "arm")
    /\ UNCHANGED <<nextId, checkpoints, timers>>

\* Mutant: no timer for the shortest timeout.
ArmLong(c) ==
    /\ At(c, "arm")
    /\ timers' = IF calls[c].rec.requested > 1
                 THEN [timers EXCEPT ![calls[c].id] = [pc |-> "asleep", left |-> Second]]
                 ELSE timers
    /\ Return(c)
    /\ UNCHANGED <<nextId, checkpoints, objects>>

\* spawn_checkpoint_timeout, only if a timeout was asked for
Arm(c) ==
    /\ At(c, "arm")
    /\ timers' = IF calls[c].rec.requested > 0
                 THEN [timers EXCEPT ![calls[c].id] = [pc |-> "asleep", left |-> Second]]
                 ELSE timers
    /\ Return(c)
    /\ UNCHANGED <<nextId, checkpoints, objects>>

-----------------------------------------------------------------------------
(* CheckpointAdjustRollbackTimeout: one lock, and a PropertiesChanged signal. *)
(* The new deadline is counted from the old one, or from now if that is past. *)
Adjust(c) ==
    /\ MayCall(c, "adjust")
    /\ \E k \in Listed, add \in Extensions :
           LET left == checkpoints[k].left + add * Second IN
           /\ left <= MaxLeft
           /\ checkpoints' = [checkpoints EXCEPT ![k].timed = TRUE, ![k].left = left]
    /\ UNCHANGED <<nextId, objects, timers, calls>>

-----------------------------------------------------------------------------
(* CheckpointDestroy and CheckpointRollback.  A client may name any id that *)
(* was handed out.                                                          *)

Destroy(c) ==
    /\ MayCall(c, "destroy")
    /\ \E k \in 1..(nextId - 1) : Begin(c, "destroy", "take", k, NoRecord)
    /\ UNCHANGED <<nextId, checkpoints, objects, timers>>

Rollback(c) ==
    /\ MayCall(c, "rollback")
    /\ \E k \in 1..(nextId - 1) : Begin(c, "rollback", "take", k, NoRecord)
    /\ UNCHANGED <<nextId, checkpoints, objects, timers>>

\* Mutant: the record is read, and stays in the table.
TakeCopy(c) ==
    /\ At(c, "take")
    /\ IF calls[c].id \in Listed THEN Goto(c, "unregister") ELSE Return(c)
    /\ UNCHANGED <<nextId, checkpoints, objects, timers>>

\* remove_checkpoint: who finds the record owns it, anybody else gets an error.
Take(c) ==
    /\ At(c, "take")
    /\ IF calls[c].id \in Listed
       THEN checkpoints' = Without(calls[c].id) /\ Goto(c, "unregister")
       ELSE UNCHANGED checkpoints /\ Return(c)
    /\ UNCHANGED <<nextId, objects, timers>>

\* The result of the removal is ignored: there may be no object yet.
Unregister(c) ==
    /\ At(c, "unregister")
    /\ objects' = objects \ {calls[c].id}
    /\ IF calls[c].op = "destroy" THEN Return(c) ELSE Goto(c, "restore")
    /\ UNCHANGED <<nextId, checkpoints, timers>>

\* The rest of rollback_checkpoint; an error skips the second removal.
Restore(c) ==
    /\ At(c, "restore")
    /\ Goto(c, "unregisterAgain") \/ Return(c)
    /\ UNCHANGED <<nextId, checkpoints, objects, timers>>

UnregisterAgain(c) ==
    /\ At(c, "unregisterAgain")
    /\ objects' = objects \ {calls[c].id}
    /\ Return(c)
    /\ UNCHANGED <<nextId, checkpoints, timers>>

-----------------------------------------------------------------------------
(* The timer of checkpoint k                                               *)

\* Mutant: the timer looks once, and ends if the deadline has moved away.
WakeOnce(k) ==
    /\ timers[k].pc = "asleep" /\ timers[k].left = 0
    /\ timers' = IF k \in Listed /\ RollbackTimeout(checkpoints[k]) = 0
                 THEN [timers EXCEPT ![k].pc = "take"]
                 ELSE [timers EXCEPT ![k].pc = "done"]
    /\ UNCHANGED <<nextId, checkpoints, objects, calls>>

\* Mutant: the timer removes the object before it takes the checkpoint.
WakeUnregister(k) ==
    /\ timers[k].pc = "asleep" /\ timers[k].left = 0
    /\ IF k \in Listed /\ RollbackTimeout(checkpoints[k]) = 0
       THEN timers' = [timers EXCEPT ![k].pc = "take"] /\ objects' = objects \ {k}
       ELSE timers' = [timers EXCEPT ![k].left = Second] /\ UNCHANGED objects
    /\ UNCHANGED <<nextId, checkpoints, calls>>

\* It looks at the checkpoint once a second and acts on what it saw in a step of
\* its own.
Wake(k) ==
    /\ timers[k].pc = "asleep" /\ timers[k].left = 0
    /\ timers' = CASE k \notin Listed -> [timers EXCEPT ![k].pc = "done"]
                   [] k \in Listed /\ RollbackTimeout(checkpoints[k]) = 0 ->
                          [timers EXCEPT ![k].pc = "take"]
                   [] OTHER -> [timers EXCEPT ![k].left = Second]
    /\ UNCHANGED <<nextId, checkpoints, objects, calls>>

TimerTake(k) ==
    /\ timers[k].pc = "take"
    /\ IF k \in Listed
       THEN checkpoints' = Without(k) /\ timers' = [timers EXCEPT ![k].pc = "unregister"]
       ELSE UNCHANGED checkpoints /\ timers' = [timers EXCEPT ![k].pc = "done"]
    /\ UNCHANGED <<nextId, objects, calls>>

\* Mutant: the timer leaves the object to the caller of CheckpointRollback.
TimerKeepObject(k) ==
    /\ timers[k].pc = "unregister"
    /\ timers' = [timers EXCEPT ![k].pc = "restore"]
    /\ UNCHANGED <<nextId, checkpoints, objects, calls>>

TimerUnregister(k) ==
    /\ timers[k].pc = "unregister"
    /\ objects' = objects \ {k}
    /\ timers' = [timers EXCEPT ![k].pc = "restore"]
    /\ UNCHANGED <<nextId, checkpoints, calls>>

TimerRestore(k) ==
    /\ timers[k].pc = "restore"
    /\ timers' = [timers EXCEPT ![k].pc = "done"]
    /\ UNCHANGED <<nextId, checkpoints, objects, calls>>

-----------------------------------------------------------------------------
\* Mutant: the time left is not clamped when the deadline is past.
LessBelow(n) == n - 1

\* What is left of n after a tick.
Less(n) == IF n = 0 THEN 0 ELSE n - 1

Tick ==
    /\ \/ \E k \in Listed : checkpoints[k].left > 0
       \/ \E k \in Ids : timers[k].left > 0
       \/ \E c \in Clients : calls[c].rec.left > 0
    /\ checkpoints' = [k \in Listed |-> [checkpoints[k] EXCEPT !.left = Less(@)]]
    /\ timers' = [k \in Ids |-> [timers[k] EXCEPT !.left = Less(@)]]
    /\ calls' = [c \in Clients |-> [calls[c] EXCEPT !.rec.left = Less(@)]]
    /\ UNCHANGED <<nextId, objects>>

Request(c) == Create(c) \/ Adjust(c) \/ Destroy(c) \/ Rollback(c)
Step(c) == \/ Add(c) \/ Register(c) \/ Arm(c)
           \/ Take(c) \/ Unregister(c) \/ Restore(c) \/ UnregisterAgain(c)
Timer(k) == Wake(k) \/ TimerTake(k) \/ TimerUnregister(k) \/ TimerRestore(k)

Next ==
    \/ \E c \in Clients : Request(c) \/ Step(c)
    \/ \E k \in Ids : Timer(k)
    \/ Tick

Spec == Init /\ [][Next]_vars

\* tokio runs every ready task and every timer whose time has come.
Fairness == /\ WF_vars(Tick)
            /\ \A c \in Clients : WF_vars(Step(c))
            /\ \A k \in Ids : WF_vars(Timer(k))
FairSpec == Spec /\ Fairness

-----------------------------------------------------------------------------
CallPcs == {"idle", "snapshot", "register", "arm", "take", "unregister",
            "restore", "unregisterAgain"}
TimerPcs == {"none", "asleep", "take", "unregister", "restore", "done"}

Call == [pc: CallPcs, op: MethodNames \cup {"none"}, id: Ids \cup {0}, rec: Record]

\* The table, the objects and the tasks have the types of the code.
TypeOK ==
    /\ nextId \in 1..(MaxId + 1)
    /\ Listed \subseteq Ids
    /\ \A k \in Listed : checkpoints[k] \in Record
    /\ objects \subseteq Ids
    /\ timers \in [Ids -> [pc: TimerPcs, left: Nat]]
    /\ calls \in [Clients -> Call]

\* c is bringing checkpoint k into being, but it is not listed yet
Making(c, k) == At(c, "snapshot") /\ calls[c].id = k

\* c has taken checkpoint k out of the table and is undoing or dropping it
Took(c, k) == calls[c].pc \in {"unregister", "restore", "unregisterAgain"} /\ calls[c].id = k
TimerTook(k) == timers[k].pc \in {"unregister", "restore"}

\* A checkpoint ends once: it is taken by one task, be it a client's destroy, a
\* client's rollback or its own timer, and then it is no longer listed.  So no
\* change is rolled back twice, or after the checkpoint was destroyed.
EndsOnce ==
    \A k \in Ids :
        /\ \A c, d \in Clients : Took(c, k) /\ Took(d, k) => c = d
        /\ \A c \in Clients : Took(c, k) => ~TimerTook(k) /\ k \notin Listed
        /\ TimerTook(k) => k \notin Listed

\* A checkpoint that is listed has its object, or is about to get it.
ListedHasObject ==
    \A k \in Listed : k \in objects \/ \E c \in Clients : At(c, "register") /\ calls[c].id = k

\* A checkpoint that was created with a timeout is never left without a task
\* that will roll it back: its timer runs, or its creator is about to start it.
TimeoutWatched ==
    \A k \in Listed : checkpoints[k].requested > 0 =>
        \/ timers[k].pc \in {"asleep", "take"}
        \/ \E c \in Clients : calls[c].pc \in {"register", "arm"} /\ calls[c].id = k

\* Nobody holds, lists or will list checkpoint k any more.
Over(k) == /\ k < nextId /\ k \notin Listed
           /\ \A c \in Clients : ~Making(c, k)

\* A checkpoint that ended, or that was never completed, does not come back.
EndedForGood == [][\A k \in Ids : Over(k) => Over(k)']_vars

MakingIds == { k \in Ids : \E c \in Clients : Making(c, k) }
EndingIds == { k \in Ids : TimerTook(k) \/ \E c \in Clients : Took(c, k) }

\* What a caller may rely on, read off the table and the tasks
Life == INSTANCE CheckpointLife WITH
            next <- nextId, making <- MakingIds, open <- Listed, ending <- EndingIds

\* The table, the calls and the timers implement the life of a checkpoint: ids
\* are never given out again, and no phase is skipped or gone through twice.
ImplementsLife == Life!Spec

\* An object whose checkpoint is over, and which nobody is about to remove
Ghost(k) ==
    /\ k \in objects /\ k \notin Listed
    /\ timers[k].pc # "unregister"
    /\ \A c \in Clients :
           calls[c].pc \in {"unregister", "unregisterAgain"} => calls[c].id # k

\* Objects outlive their checkpoints in one way only: a checkpoint is taken
\* before the task that made it has registered its object.
OnlyLateMakersLeaveGhosts ==
    [][\A k \in Ids : ~Ghost(k) /\ Ghost(k)' =>
          \E c \in Clients : calls[c].id = k /\ Register(c)]_vars

\* Unless clients keep extending it, a checkpoint with a timeout ends.
TimeoutEnds ==
    <>[][~\E c \in Clients : Adjust(c)]_vars =>
        \A k \in Ids : k \in Listed /\ checkpoints[k].requested > 0 ~> k \notin Listed
===========================================================================

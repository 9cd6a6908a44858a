--------------------------- MODULE CheckpointLife ---------------------------
(***************************************************************************)
(* What a caller of CheckpointCreate, -Destroy, -Rollback may rely on,     *)
(* without tables, objects, timers or tasks.  A checkpoint is being made,  *)
(* then open, then it is being undone or dropped, then over; it goes       *)
(* through each phase at most once, and ids are never given out again.     *)
(* Module Checkpoints implements this specification.                       *)
(***************************************************************************)
EXTENDS Integers

CONSTANT Ids   \* the ids that may be given out

VARIABLES
    next,      \* the next id
    making,    \* ids given out, whose checkpoint is not there yet
    open,      \* ids of the checkpoints that can be rolled back
    ending     \* ids of those somebody is rolling back, or dropping

vars == <<next, making, open, ending>>

Init == next = 1 /\ making = {} /\ open = {} /\ ending = {}

Make ==
    /\ next \in Ids
    /\ next' = next + 1 /\ making' = making \cup {next}
    /\ UNCHANGED <<open, ending>>

\* The profile files could be read, and the checkpoint is there.
Open(k) ==
    /\ k \in making
    /\ making' = making \ {k} /\ open' = open \cup {k}
    /\ UNCHANGED <<next, ending>>

Abandon(k) ==
    /\ k \in making
    /\ making' = making \ {k}
    /\ UNCHANGED <<next, open, ending>>

\* A client, or the timer of the checkpoint, takes it.
End(k) ==
    /\ k \in open
    /\ open' = open \ {k} /\ ending' = ending \cup {k}
    /\ UNCHANGED <<next, making>>

Finish(k) ==
    /\ k \in ending
    /\ ending' = ending \ {k}
    /\ UNCHANGED <<next, making, open>>

Next == Make \/ \E k \in Ids : Open(k) \/ Abandon(k) \/ End(k) \/ Finish(k)

Spec == Init /\ [][Next]_vars
=============================================================================

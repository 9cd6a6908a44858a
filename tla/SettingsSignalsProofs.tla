------------------------ MODULE SettingsSignalsProofs ------------------------
(* What holds of SettingsSignals for any callers, links and bounds.        *)
EXTENDS SettingsSignals, FiniteSetTheorems, TLAPS

(***************************************************************************)
(* Types.  Who adds or removes a profile has a path in hand that was given *)
(* out, which makes TypeOK inductive.                                      *)
(***************************************************************************)
Adding == {"insert", "export"}
Handling == Adding \cup {"tellAdded", "apply", "remove", "unexport", "tellRemoved"}
GivenOut == 1..(nextPath - 1)
Task == [op: OpNames \cup {"none", "sync"}, pc: Pcs, path: Nat, source: Links \cup {User},
         todo: SUBSET Nat, seen: SUBSET Links, links: SUBSET Links, list: SUBSET Nat]

Within(t) ==
    /\ Path(t) \in GivenOut \cup {0} /\ tasks[t].todo \cup tasks[t].list \subseteq GivenOut
    /\ tasks[t].pc \in Handling => Path(t) \in GivenOut
TasksOK == tasks \in [Tasks -> Task] /\ \A t \in Tasks : Within(t)
TablesOK == nextPath \in Nat \ {0} /\ IsTable(table) /\ (saved = Nothing \/ IsTable(saved))
SignalsOK == exported \cup told \cup known \cup withdrawn \subseteq GivenOut
WorldOK == present \subseteq Links /\ changes \in 0..MaxChanges
TypeInv == WorldOK /\ TablesOK /\ SignalsOK /\ TasksOK

LEMMA IdleTask == Idle \in Task /\ Idle.pc = "idle" /\ Idle.path = 0 /\ Idle.todo = {} /\ Idle.list = {}
  BY DEF Idle, Task, Pcs

\* A step changes the entry of its own task.
Moves(t) == tasks' \in [Tasks -> Task] /\ \A u \in Tasks \ {t} : tasks'[u] = tasks[u]

LEMMA GotoMoves ==
    ASSUME TasksOK, NEW t \in Tasks, NEW pc \in Pcs, Goto(t, pc)
    PROVE  /\ Moves(t) /\ tasks'[t].pc = pc /\ tasks'[t].op = tasks[t].op
           /\ tasks'[t].path = tasks[t].path /\ tasks'[t].source = tasks[t].source
           /\ tasks'[t].todo = tasks[t].todo /\ tasks'[t].list = tasks[t].list
  BY DEF TasksOK, Goto, Moves, Task

LEMMA DoneMoves ==
    ASSUME TasksOK, NEW t \in Tasks, NEW pc \in Pcs, Done(t, pc)
    PROVE  /\ Moves(t) /\ tasks'[t].pc = pc /\ tasks'[t].path = 0
           /\ tasks'[t].todo = tasks[t].todo /\ tasks'[t].list = tasks[t].list
<1> DEFINE r == [tasks[t] EXCEPT !.pc = pc, !.path = 0, !.source = User]
<1>1. tasks[t] \in Task /\ tasks \in [Tasks -> Task]
  BY DEF TasksOK
<1>2. r \in Task /\ r.pc = pc /\ r.path = 0 /\ r.todo = tasks[t].todo /\ r.list = tasks[t].list
  BY <1>1 DEF Task
<1>3. tasks' = [tasks EXCEPT ![t] = r]
  BY <1>1 DEF Done
<1> HIDE DEF r
<1> QED
  BY <1>1, <1>2, <1>3 DEF Moves

LEMMA ReturnMoves ==
    ASSUME TasksOK, NEW t \in Tasks, Return(t) PROVE Moves(t) /\ tasks'[t] = Idle
  BY IdleTask DEF TasksOK, Return, Moves

LEMMA BeginMoves ==
    ASSUME TasksOK, NEW c \in Tasks, NEW op \in OpNames, NEW pc \in Pcs, NEW p \in Nat,
           Begin(c, op, pc, p)
    PROVE  /\ Moves(c) /\ tasks'[c].pc = pc /\ tasks'[c].path = p
           /\ tasks'[c].todo = {} /\ tasks'[c].list = {}
<1> DEFINE r == [Idle EXCEPT !.op = op, !.pc = pc, !.path = p]
<1>1. r \in Task /\ r.pc = pc /\ r.path = p /\ r.todo = {} /\ r.list = {}
  BY IdleTask DEF Task
<1>2. tasks' = [tasks EXCEPT ![c] = r]
  BY DEF Begin
<1> HIDE DEF r
<1> QED
  BY <1>1, <1>2 DEF TasksOK, Moves

LEMMA MoveTypes ==
    ASSUME TasksOK, NEW t \in Tasks, Moves(t), Within(t)', nextPath \in Nat, nextPath' \in Nat,
           nextPath =< nextPath'
    PROVE  TasksOK'
  BY DEF TasksOK, Moves, Within, GivenOut, Path

\* One more path is given out, or none.
LEMMA LaterPaths ==
    ASSUME TypeInv, nextPath' \in {nextPath, nextPath + 1}
    PROVE  /\ nextPath' \in Nat \ {0} /\ nextPath =< nextPath' /\ GivenOut \subseteq GivenOut'
           /\ UNCHANGED <<table, saved>> => TablesOK'
           /\ UNCHANGED <<exported, told, known, withdrawn>> => SignalsOK'
           /\ UNCHANGED environment => WorldOK'
           /\ UNCHANGED tasks => TasksOK'
<1>0. nextPath \in Nat \ {0}
  BY DEF TypeInv, TablesOK
<1>1. nextPath' \in Nat \ {0} /\ nextPath =< nextPath' /\ GivenOut \subseteq GivenOut'
  <2>1. nextPath' \in Nat \ {0} /\ nextPath =< nextPath'
    BY <1>0
  <2>2. \A n, m \in Nat : n =< m => 1..(n - 1) \subseteq 1..(m - 1)
    OBVIOUS
  <2> QED
    BY <1>0, <2>1, <2>2 DEF GivenOut
<1>2. UNCHANGED <<table, saved>> => TablesOK'
  <2> SUFFICES ASSUME UNCHANGED <<table, saved>> PROVE IsTable(table)' /\ (saved' = Nothing \/ IsTable(saved)')
    BY <1>1 DEF TablesOK
  <2>1. IsTable(table) /\ (saved = Nothing \/ IsTable(saved))
    BY DEF TypeInv, TablesOK
  <2> QED
    BY <1>1, <2>1 DEF IsTable, GivenOut
<1> USE DEF TypeInv
<1>3. UNCHANGED <<exported, told, known, withdrawn>> => SignalsOK'
  BY <1>1 DEF SignalsOK
<1>4. UNCHANGED environment => WorldOK'
  BY DEF WorldOK, environment
<1>5. UNCHANGED tasks => TasksOK'
  BY <1>1 DEF TasksOK, Within, Path
<1> QED
  BY <1>1, <1>2, <1>3, <1>4, <1>5

LEMMA InitTypes == Init => TypeInv
<1> SUFFICES ASSUME Init PROVE TypeInv
  OBVIOUS
<1>1. Cardinality(present) \in Nat /\ present \subseteq Links
  BY SignalsConstants, FS_Subset, FS_CardinalityType DEF Init
<1>2. table \in [1..Cardinality(present) -> present] /\ nextPath = 1 + Cardinality(present)
  BY DEF Init
<1>3. Listed = GivenOut /\ nextPath \in Nat \ {0}
  BY <1>1, <1>2 DEF Listed, GivenOut
<1>4. TablesOK
  BY <1>1, <1>2, <1>3 DEF Init, TablesOK, IsTable, Listed, GivenOut
<1>5. SignalsOK /\ WorldOK
  BY <1>1, <1>3, SignalsConstants DEF Init, SignalsOK, WorldOK
<1>6. TasksOK
  BY IdleTask DEF Init, TasksOK, Within, Path, Handling, Adding
<1> QED
  BY <1>4, <1>5, <1>6 DEF TypeInv

LEMMA RequestTypes == ASSUME TypeInv, NEW c \in Clients, Request(c) PROVE TypeInv'
<1>0. TasksOK /\ TablesOK /\ c \in Tasks /\ Listed \subseteq GivenOut
  BY DEF TypeInv, TablesOK, IsTable, Listed, GivenOut, Tasks
<1>w. WorldOK'
  <2>1. changes < MaxChanges /\ changes' = changes + 1 /\ UNCHANGED present
    BY DEF Request, Add, Edit, Delete, DeviceDelete, Load, SaveHostname, Checkpoint, Rollback, MayCall
  <2> QED
    BY <2>1, SignalsConstants DEF TypeInv, WorldOK
<1>n. nextPath' \in {nextPath, nextPath + 1}
  BY DEF Request, Add, Edit, Delete, DeviceDelete, Load, SaveHostname, Checkpoint, Rollback
<1>s. SignalsOK'
  BY <1>n, LaterPaths DEF Request, Add, Edit, Delete, DeviceDelete, Load, SaveHostname, Checkpoint,
     Rollback
<1>b. ASSUME NEW op \in OpNames, NEW pc \in Pcs, NEW p \in GivenOut' \cup {0},
             Begin(c, op, pc, p), pc \in Handling => p # 0
      PROVE  TasksOK'
  <2>1. p \in Nat
    BY <1>0, <1>n, LaterPaths DEF GivenOut
  <2> QED
    BY <1>0, <1>b, <1>n, <2>1, LaterPaths, BeginMoves, MoveTypes DEF Within, Path, TablesOK
<1>t. TasksOK'
  <2>1. CASE Add(c) \/ SaveHostname(c) \/ Edit(c) \/ Delete(c) \/ Load(c)
    <3>1. nextPath' = nextPath + 1 => nextPath \in GivenOut' /\ nextPath # 0
      BY <1>0 DEF TablesOK, GivenOut
    <3>2. GivenOut \subseteq GivenOut' /\ 0 \notin GivenOut
      BY <1>n, LaterPaths DEF GivenOut
    <3>3. \E op \in OpNames, pc \in {"insert", "apply", "remove", "list"}, p \in GivenOut' \cup {0} :
              Begin(c, op, pc, p) /\ (pc # "list" => p # 0)
      BY <1>0, <2>1, <3>1, <3>2 DEF Add, SaveHostname, Edit, Delete, Load, OpNames, SourcesOf, MayCall
    <3> QED
      BY <1>b, <3>3 DEF Pcs, Handling, Adding
  <2>2. CASE DeviceDelete(c)
    <3>1. PICK S \in SUBSET Listed :
              tasks' = [tasks EXCEPT ![c] = [Idle EXCEPT !.op = "deviceDelete", !.pc = "sweep",
                                                         !.todo = S]]
      BY <2>2 DEF DeviceDelete
    <3> DEFINE r == [Idle EXCEPT !.op = "deviceDelete", !.pc = "sweep", !.todo = S]
    <3>2. r \in Task /\ r.pc = "sweep" /\ r.path = 0 /\ r.todo = S /\ r.list = {}
      <4>1. S \in SUBSET Nat /\ "deviceDelete" \in OpNames /\ "sweep" \in Pcs
        BY <1>0 DEF Pcs, OpNames, GivenOut
      <4> QED
        BY <4>1, IdleTask DEF Task
    <3> HIDE DEF r
    <3>3. Moves(c) /\ tasks'[c] = r
      BY <1>0, <3>1, <3>2 DEF TasksOK, Moves, r
    <3> QED
      BY <1>0, <1>n, <2>2, <3>2, <3>3, MoveTypes, LaterPaths
         DEF DeviceDelete, Within, Path, Handling, Adding, TablesOK, GivenOut
  <2>3. CASE Checkpoint(c) \/ Rollback(c)
    BY <1>n, <2>3, LaterPaths DEF Checkpoint, Rollback
  <2> QED
    BY <2>1, <2>2, <2>3 DEF Request
<1>5. TablesOK'
  <2>1. CASE Checkpoint(c)
    BY <1>0, <2>1 DEF Checkpoint, TablesOK, IsTable, Listed
  <2>2. CASE Rollback(c)
    BY <1>0, <2>2 DEF Rollback, TablesOK, IsTable
  <2>3. CASE ~Checkpoint(c) /\ ~Rollback(c)
    BY <1>n, <2>3, LaterPaths DEF Request, Add, Edit, Delete, DeviceDelete, Load, SaveHostname
  <2> QED
    BY <2>1, <2>2, <2>3
<1> QED
  BY <1>w, <1>s, <1>t, <1>5 DEF TypeInv

LEMMA AddingTypes ==
    ASSUME TypeInv, NEW t \in Tasks, Insert(t) \/ Export(t) \/ TellAdded(t) \/ Activate(t) \/ Apply(t)
    PROVE  TypeInv'
<1>0. TasksOK /\ TablesOK /\ Within(t) /\ tasks[t] \in Task
  BY DEF TypeInv, TasksOK
<1>n. nextPath' = nextPath /\ UNCHANGED environment
  BY DEF Insert, Export, TellAdded, Activate, Apply
<1>l. WorldOK' /\ (UNCHANGED <<table, saved>> => TablesOK') /\ GivenOut' = GivenOut
  BY <1>n, LaterPaths DEF GivenOut
<1>p. tasks[t].pc \in Handling => Path(t) \in GivenOut
  BY <1>0 DEF Within
<1> USE DEF At, Handling, Adding, Pcs
<1>g. ASSUME NEW pc \in {"export", "tellAdded", "list"}, Goto(t, pc),
             pc # "list" => tasks[t].pc \in Handling
      PROVE  TasksOK'
  BY <1>0, <1>l, <1>n, <1>g, GotoMoves, MoveTypes DEF Within, Path, TablesOK
<1>d. ASSUME NEW pc \in {"activate", "links", "list"}, Done(t, pc) PROVE TasksOK'
  BY <1>0, <1>l, <1>n, <1>d, DoneMoves, MoveTypes DEF Within, Path, TablesOK
<1>r. ASSUME Return(t) PROVE TasksOK'
  BY <1>0, <1>n, <1>r, IdleTask, ReturnMoves, MoveTypes DEF Within, Path, TablesOK
<1>1. CASE Insert(t)
  <2>1. tasks[t].source \in Links \cup {User} /\ Path(t) \in GivenOut
    BY <1>0, <1>1, <1>p DEF Insert, Task
  <2>2. IsTable(table)'
    BY <1>0, <1>1, <1>n, <2>1 DEF Insert, TablesOK, IsTable, Put, GivenOut
  <2>3. TablesOK'
    BY <1>0, <1>1, <1>n, <2>2 DEF Insert, TablesOK, IsTable
  <2> QED
    BY <1>1, <1>g, <1>l, <2>3 DEF Insert, TypeInv, SignalsOK
<1>2. CASE Export(t)
  BY <1>2, <1>g, <1>l, <1>p DEF Export, TypeInv, SignalsOK
<1>3. CASE TellAdded(t)
  BY <1>3, <1>d, <1>l, <1>p DEF TellAdded, TypeInv, SignalsOK
<1>4. CASE Activate(t)
  BY <1>4, <1>g, <1>r, <1>l DEF Activate, TypeInv, SignalsOK
<1>5. CASE Apply(t)
  BY <1>5, <1>d, <1>r, <1>l DEF Apply, TypeInv, SignalsOK
<1> QED
  BY <1>1, <1>2, <1>3, <1>4, <1>5

LEMMA RemovingTypes ==
    ASSUME TypeInv, NEW t \in Tasks,
           Remove(t) \/ Unexport(t) \/ TellRemoved(t) \/ Prune(t) \/ Sweep(t)
    PROVE  TypeInv'
<1>0. /\ TasksOK /\ TablesOK /\ Within(t) /\ tasks[t] \in Task /\ Listed \subseteq GivenOut
      /\ tasks[t].todo \subseteq GivenOut
  BY DEF TypeInv, TasksOK, TablesOK, IsTable, Listed, GivenOut, Within
<1>n. nextPath' = nextPath /\ UNCHANGED environment
  BY DEF Remove, Unexport, TellRemoved, Prune, Sweep
<1>l. WorldOK' /\ (UNCHANGED <<table, saved>> => TablesOK') /\ GivenOut' = GivenOut
  BY <1>n, LaterPaths DEF GivenOut
<1>p. tasks[t].pc \in Handling => Path(t) \in GivenOut
  BY <1>0 DEF Within
<1> USE DEF At, Handling, Adding, Pcs
<1>g. ASSUME NEW pc \in {"unexport", "tellRemoved", "ask", "list"}, Goto(t, pc),
             pc \in Handling => tasks[t].pc \in Handling
      PROVE  TasksOK'
  BY <1>0, <1>l, <1>n, <1>g, GotoMoves, MoveTypes DEF Within, Path, TablesOK
<1>d. ASSUME NEW pc \in {"sweep", "list"}, Done(t, pc) PROVE TasksOK'
  BY <1>0, <1>l, <1>n, <1>d, DoneMoves, MoveTypes DEF Within, Path, TablesOK
<1>r. ASSUME Return(t) PROVE TasksOK'
  BY <1>0, <1>n, <1>r, IdleTask, ReturnMoves, MoveTypes DEF Within, Path, TablesOK
<1>1. CASE Remove(t)
  <2>1. TablesOK'
    BY <1>0, <1>1, <1>n DEF Remove, TablesOK, IsTable, Without
  <2> QED
    BY <1>1, <1>g, <1>r, <1>l, <2>1 DEF Remove, TypeInv, SignalsOK
<1>2. CASE Unexport(t)
  BY <1>2, <1>d, <1>g, <1>r, <1>l, <1>p DEF Unexport, TypeInv, SignalsOK
<1>3. CASE TellRemoved(t)
  BY <1>3, <1>d, <1>l DEF TellRemoved, TypeInv, SignalsOK
<1>4. CASE Prune(t)
  <2>1. PICK S \in SUBSET SourcesOf(User) : tasks' = [tasks EXCEPT ![t].pc = "sweep", ![t].todo = S]
    BY <1>4 DEF Prune
  <2>2. S \subseteq GivenOut /\ S \in SUBSET Nat
    BY <1>0 DEF SourcesOf, GivenOut
  <2>3. /\ Moves(t) /\ tasks'[t].pc = "sweep" /\ tasks'[t].path = tasks[t].path
        /\ tasks'[t].todo = S /\ tasks'[t].list = tasks[t].list
    <3>1. tasks \in [Tasks -> Task]
      BY <1>0 DEF TasksOK
    <3> QED
      BY <1>0, <2>1, <2>2, <3>1 DEF Moves, Task
  <2>4. Within(t)'
    BY <1>0, <1>l, <2>2, <2>3 DEF Within, Path
  <2>5. TasksOK'
    BY <1>0, <1>n, <2>3, <2>4, MoveTypes DEF TablesOK
  <2> QED
    BY <1>4, <1>l, <2>5 DEF Prune, TypeInv, SignalsOK
<1>5. CASE Sweep(t)
  <2>1. ASSUME NEW p \in tasks[t].todo,
               tasks' = [tasks EXCEPT ![t].pc = "remove", ![t].path = p, ![t].todo = @ \ {p}]
        PROVE  TasksOK'
    <3>1. p \in GivenOut /\ p \in Nat
      BY <1>0 DEF GivenOut
    <3>2. /\ Moves(t) /\ tasks'[t].pc = "remove" /\ tasks'[t].path = p
          /\ tasks'[t].todo = tasks[t].todo \ {p} /\ tasks'[t].list = tasks[t].list
      BY <1>0, <2>1, <3>1 DEF TasksOK, Moves, Task
    <3> QED
      BY <1>0, <1>l, <1>n, <3>1, <3>2, MoveTypes DEF TablesOK, Within, Path
  <2> QED
    BY <1>5, <1>g, <1>r, <1>l, <2>1 DEF Sweep, TypeInv, SignalsOK
<1> QED
  BY <1>1, <1>2, <1>3, <1>4, <1>5

\* Where a synchronisation goes from one link to the next
LEMMA SyncMoves ==
    ASSUME TypeInv, NEW t \in Tasks, Sync(t)
    PROVE  /\ Moves(t) /\ tasks'[t].pc \in {"sweep", "links", "insert"}
           /\ tasks'[t].list = tasks[t].list /\ tasks'[t].todo \subseteq GivenOut
           /\ \/ nextPath' = nextPath + 1 /\ tasks'[t].pc = "insert" /\ tasks'[t].path = nextPath
              \/ UNCHANGED nextPath /\ tasks'[t].pc # "insert" /\ tasks'[t].path = tasks[t].path
<1>0. /\ TasksOK /\ TablesOK /\ tasks \in [Tasks -> Task] /\ tasks[t] \in Task /\ nextPath \in Nat
      /\ tasks[t].todo \subseteq GivenOut /\ tasks[t].pc = "links" /\ Listed \subseteq GivenOut
  BY DEF TypeInv, TasksOK, TablesOK, Within, Sync, At, IsTable, Listed, GivenOut
<1> USE DEF Moves, Pcs
<1>1. ASSUME NEW S \in SUBSET Listed,
             tasks' = [tasks EXCEPT ![t].pc = "sweep", ![t].seen = {}, ![t].todo = S]
      PROVE  /\ Moves(t) /\ tasks'[t].pc = "sweep" /\ tasks'[t].list = tasks[t].list
             /\ tasks'[t].todo = S /\ tasks'[t].path = tasks[t].path
  <2> DEFINE r == [tasks[t] EXCEPT !.pc = "sweep", !.seen = {}, !.todo = S]
  <2>1. S \in SUBSET Nat
    BY <1>0 DEF GivenOut
  <2>2. /\ r \in Task /\ r.pc = "sweep" /\ r.list = tasks[t].list /\ r.todo = S
        /\ r.path = tasks[t].path
    BY <1>0, <2>1 DEF Task
  <2>3. tasks' = [tasks EXCEPT ![t] = r]
    BY <1>0, <1>1
  <2> HIDE DEF r
  <2> QED
    BY <1>0, <2>2, <2>3
<1>2. ASSUME NEW l \in tasks[t].links, tasks' = [tasks EXCEPT ![t].links = @ \ {l}]
      PROVE  /\ Moves(t) /\ tasks'[t].pc = "links" /\ tasks'[t].list = tasks[t].list
             /\ tasks'[t].todo = tasks[t].todo /\ tasks'[t].path = tasks[t].path
  BY <1>0, <1>2 DEF Task
<1>3. ASSUME NEW l \in tasks[t].links,
             tasks' = [tasks EXCEPT ![t].links = @ \ {l}, ![t].pc = "insert",
                                    ![t].path = nextPath, ![t].source = l]
      PROVE  /\ Moves(t) /\ tasks'[t].pc = "insert" /\ tasks'[t].list = tasks[t].list
             /\ tasks'[t].todo = tasks[t].todo /\ tasks'[t].path = nextPath
  <2> DEFINE r == [tasks[t] EXCEPT !.links = @ \ {l}, !.pc = "insert", !.path = nextPath,
                                   !.source = l]
  <2>1. l \in Links
    BY <1>0 DEF Task
  <2>2. /\ r \in Task /\ r.pc = "insert" /\ r.list = tasks[t].list /\ r.todo = tasks[t].todo
        /\ r.path = nextPath
    BY <1>0, <2>1 DEF Task
  <2>3. tasks' = [tasks EXCEPT ![t] = r]
    BY <1>0, <1>3
  <2> HIDE DEF r
  <2> QED
    BY <1>0, <2>2, <2>3
<1> HIDE DEF Moves
<1>4. {p \in Listed : table[p] \in Links \ tasks[t].seen} \in SUBSET Listed
  OBVIOUS
<1>5. CASE /\ tasks[t].links = {} /\ UNCHANGED nextPath
           /\ tasks' = [tasks EXCEPT ![t].pc = "sweep", ![t].seen = {},
                  ![t].todo = {p \in Listed : table[p] \in Links \ tasks[t].seen}]
  BY <1>0, <1>1, <1>4, <1>5
<1>6. CASE \E l \in tasks[t].links :
               tasks' = [tasks EXCEPT ![t].links = @ \ {l}] /\ UNCHANGED nextPath
  BY <1>0, <1>2, <1>6
<1>7. CASE \E l \in tasks[t].links :
               /\ tasks' = [tasks EXCEPT ![t].links = @ \ {l}, ![t].pc = "insert",
                                         ![t].path = nextPath, ![t].source = l]
               /\ nextPath' = nextPath + 1
  BY <1>0, <1>3, <1>7
<1> QED
  BY <1>5, <1>6, <1>7 DEF Sync

LEMMA TellingTypes ==
    ASSUME TypeInv, NEW t \in Tasks, Ask(t) \/ AskFails(t) \/ Sync(t) \/ List(t) \/ Send(t)
    PROVE  TypeInv'
<1>0. /\ TasksOK /\ TablesOK /\ Within(t) /\ tasks[t] \in Task /\ present \subseteq Links
      /\ Listed \subseteq GivenOut
  BY DEF TypeInv, TasksOK, TablesOK, IsTable, Listed, GivenOut, WorldOK
<1>n. nextPath' \in {nextPath, nextPath + 1} /\ UNCHANGED <<environment, table, saved>>
  BY DEF Ask, AskFails, Sync, List, Send
<1>l. WorldOK' /\ TablesOK' /\ GivenOut \subseteq GivenOut' /\ nextPath' \in Nat /\ nextPath =< nextPath'
  BY <1>n, LaterPaths
<1> USE DEF At, Handling, Adding, Pcs
<1>i. ASSUME NEW r \in Task, r.path = 0, r.todo = {}, r.list = {}, r.pc \notin Handling,
             tasks' = [tasks EXCEPT ![t] = r]
      PROVE  TasksOK'
  <2>1. Moves(t) /\ tasks'[t] = r
    BY <1>0, <1>i DEF TasksOK, Moves
  <2> QED
    BY <1>0, <1>i, <1>l, <2>1, MoveTypes DEF TablesOK, Within, Path
<1>r. ASSUME Return(t) PROVE TasksOK'
  BY <1>i, <1>r, IdleTask DEF Return
<1>1. CASE Ask(t)
  <2> DEFINE r == [Idle EXCEPT !.op = "sync", !.pc = "links", !.seen = present, !.links = present]
  <2>1. r \in Task /\ r.pc = "links" /\ r.path = 0 /\ r.todo = {} /\ r.list = {}
    BY <1>0, IdleTask DEF Task
  <2>2. tasks' = [tasks EXCEPT ![t] = r]
    BY <1>1 DEF Ask
  <2> HIDE DEF r
  <2> QED
    BY <1>1, <1>i, <1>l, <1>n, <2>1, <2>2, LaterPaths DEF Ask, TypeInv
<1>2. CASE AskFails(t)
  BY <1>2, <1>r, <1>l, <1>n, LaterPaths DEF AskFails, TypeInv
<1>3. CASE Sync(t)
  <2>1. TasksOK'
    <3>1. nextPath' = nextPath + 1 => nextPath \in GivenOut'
      BY <1>0, <1>l DEF TablesOK, GivenOut
    <3>2. Within(t)'
      BY <1>0, <1>3, <1>l, <3>1, SyncMoves DEF Within, Path
    <3> QED
      BY <1>0, <1>3, <1>l, <3>2, SyncMoves, MoveTypes DEF TablesOK
  <2> QED
    BY <1>3, <1>l, <1>n, <2>1, LaterPaths DEF Sync, TypeInv
<1>4. CASE List(t)
  <2>1. /\ Moves(t) /\ tasks'[t].pc = "send" /\ tasks'[t].path = tasks[t].path
        /\ tasks'[t].todo = tasks[t].todo /\ tasks'[t].list = Listed
    <3>1. Listed \in SUBSET Nat
      BY <1>0 DEF GivenOut
    <3> QED
      BY <1>0, <1>4, <3>1 DEF List, TasksOK, Moves, Task
  <2>2. TasksOK'
    BY <1>0, <1>l, <2>1, MoveTypes DEF TablesOK, Within, Path
  <2> QED
    BY <1>4, <1>l, <1>n, <2>2, LaterPaths DEF List, TypeInv
<1>5. CASE Send(t)
  <2>1. SignalsOK'
    BY <1>0, <1>5, <1>l DEF Send, TypeInv, SignalsOK, Within
  <2>2. TasksOK'
    <3> DEFINE r == [Idle EXCEPT !.op = "reload", !.pc = "prune"]
    <3>1. r \in Task /\ r.pc = "prune" /\ r.path = 0 /\ r.todo = {} /\ r.list = {}
      BY IdleTask DEF Task, OpNames
    <3>2. Return(t) \/ tasks' = [tasks EXCEPT ![t] = r]
      BY <1>5 DEF Send
    <3> HIDE DEF r
    <3> QED
      BY <1>i, <1>r, <3>1, <3>2
  <2> QED
    BY <1>l, <2>1, <2>2 DEF TypeInv
<1> QED
  BY <1>1, <1>2, <1>3, <1>4, <1>5

LEMMA StepTypes == TypeInv /\ [Next]_vars => TypeInv'
<1> SUFFICES ASSUME TypeInv, [Next]_vars PROVE TypeInv'
  OBVIOUS
<1>1. CASE UNCHANGED vars
  BY <1>1, LaterPaths DEF vars, TypeInv
<1>2. CASE Change
  <2>1. WorldOK'
    BY <1>2, SignalsConstants DEF Change, TypeInv, WorldOK
  <2> QED
    BY <1>2, <2>1, LaterPaths DEF Change, TypeInv
<1>3. ASSUME NEW c \in Clients, Request(c) PROVE TypeInv'
  BY <1>3, RequestTypes
<1>4. ASSUME NEW t \in Tasks, Step(t) PROVE TypeInv'
  BY <1>4, AddingTypes, RemovingTypes, TellingTypes DEF Step
<1> QED
  BY <1>1, <1>2, <1>3, <1>4 DEF Next

LEMMA TypeInvariant == Spec => []TypeInv
  BY InitTypes, StepTypes, PTL DEF Spec

\* Of TypeOK: no path is in use that next_connection_path has not given out.
THEOREM TypesCorrect == Spec => []TypeOK
<1>1. TypeInv => TypeOK
  <2> SUFFICES ASSUME TypeInv PROVE TypeOK
    OBVIOUS
  <2>1. ASSUME NEW t \in Tasks
        PROVE  /\ tasks[t].pc \in Pcs /\ tasks[t].op \in OpNames \cup {"none", "sync"}
               /\ tasks[t].path \in 0..(nextPath - 1) /\ tasks[t].source \in Links \cup {User}
               /\ tasks[t].todo \cup tasks[t].list \subseteq 1..(nextPath - 1)
               /\ tasks[t].seen \cup tasks[t].links \subseteq Links
    BY DEF TypeInv, TasksOK, TablesOK, Task, Within, Path, GivenOut
  <2> QED
    BY <2>1 DEF TypeInv, TypeOK, WorldOK, TablesOK, SignalsOK, GivenOut
<1> QED
  BY <1>1, TypeInvariant, PTL

-----------------------------------------------------------------------------
(***************************************************************************)
(* The race.  A path is registered once, by the one task that was given    *)
(* it; whoever is about to announce its end has taken the object away for  *)
(* good, or came too early to find it.                                     *)
(***************************************************************************)
RegisteredOnce ==
    \A t \in Tasks : tasks[t].pc \in Adding =>
        /\ Path(t) \notin exported
        /\ \A u \in Tasks \ {t} : tasks[u].pc \in Adding => Path(u) # Path(t)
GoneForGood ==
    \A t \in Tasks : At(t, "tellRemoved") =>
        \/ Path(t) \in withdrawn
        \/ /\ Path(t) \notin exported
           /\ \A u \in Tasks : tasks[u].pc \in Adding => Path(u) # Path(t)
RaceInv == RegisteredOnce /\ GoneForGood /\ NoneMissed

\* A step that touches no object, and nobody's announcement, keeps the race decided.
LEMMA QuietRace ==
    ASSUME RaceInv, NEW t \in Tasks, Moves(t), UNCHANGED <<exported, known, withdrawn>>,
           tasks[t].pc # "tellAdded", tasks'[t].pc # "tellRemoved",
           tasks'[t].pc \in Adding => tasks[t].pc \in Adding /\ tasks'[t].path = tasks[t].path
    PROVE  RaceInv'
<1>1. ASSUME NEW u \in Tasks, tasks'[u].pc \in Adding \cup {"tellRemoved"}
      PROVE  tasks'[u].path = tasks[u].path /\ (tasks'[u].pc \in Adding => tasks[u].pc \in Adding)
             /\ (tasks'[u].pc = "tellRemoved" => tasks[u].pc = "tellRemoved")
  BY <1>1 DEF Moves, Adding
<1>2. RegisteredOnce'
  BY <1>1, Zenon DEF RaceInv, RegisteredOnce, Path
<1>3. GoneForGood'
  BY <1>1, Zenon DEF RaceInv, GoneForGood, Path, At
<1>4. \A u \in Tasks : tasks[u].pc = "tellAdded" => tasks'[u] = tasks[u]
  BY DEF Moves
<1>5. NoneMissed'
  BY <1>4, Zenon DEF RaceInv, NoneMissed, Path, At
<1> QED
  BY <1>2, <1>3, <1>5 DEF RaceInv

\* A path that was just given out is in nobody's hands.
LEMMA FreshRace ==
    ASSUME TypeInv, RaceInv, NEW t \in Tasks, Moves(t), UNCHANGED <<exported, known, withdrawn>>,
           tasks[t].pc # "tellAdded", tasks'[t].pc = "insert", tasks'[t].path = nextPath
    PROVE  RaceInv'
<1>1. \A u \in Tasks : Path(u) # nextPath
  BY DEF TypeInv, TasksOK, TablesOK, Within, GivenOut
<1>2. nextPath \notin exported
  BY DEF TypeInv, TablesOK, SignalsOK, GivenOut
<1>3. \A u \in Tasks \ {t} : tasks'[u] = tasks[u]
  BY DEF Moves
<1>4. RegisteredOnce'
  BY <1>1, <1>2, <1>3 DEF RaceInv, RegisteredOnce, Path
<1>5. GoneForGood'
  BY <1>1, <1>3 DEF RaceInv, GoneForGood, Path, At, Adding
<1>6. NoneMissed'
  BY <1>3 DEF RaceInv, NoneMissed, Path, At
<1> QED
  BY <1>4, <1>5, <1>6 DEF RaceInv

LEMMA ExportRace ==
    ASSUME TypeInv, RaceInv, NEW t \in Tasks, Export(t) PROVE RaceInv'
<1>1. /\ Moves(t) /\ tasks'[t].pc = "tellAdded" /\ tasks'[t].path = Path(t) /\ tasks[t].pc = "export"
      /\ exported' = exported \cup {Path(t)} /\ UNCHANGED <<known, withdrawn>>
  BY GotoMoves DEF Export, TypeInv, Pcs, At, Path
<1>2. \A u \in Tasks \ {t} : tasks'[u] = tasks[u]
  BY <1>1 DEF Moves
<1>3. RegisteredOnce'
  BY <1>1, <1>2 DEF RaceInv, RegisteredOnce, Path, Adding
<1>4. GoneForGood'
  BY <1>1, <1>2 DEF RaceInv, GoneForGood, Path, At, Adding
<1>5. NoneMissed'
  BY <1>1, <1>2 DEF RaceInv, NoneMissed, Path, At
<1> QED
  BY <1>3, <1>4, <1>5 DEF RaceInv

LEMMA TellAddedRace ==
    ASSUME TypeInv, RaceInv, NEW t \in Tasks, TellAdded(t) PROVE RaceInv'
<1>1. /\ Moves(t) /\ tasks'[t].pc \in {"activate", "links", "list"} /\ tasks[t].pc = "tellAdded"
      /\ known' = known \cup {Path(t)} /\ UNCHANGED <<exported, withdrawn>>
  BY DoneMoves DEF TellAdded, TypeInv, Pcs, At
<1>2. \A u \in Tasks \ {t} : tasks'[u] = tasks[u]
  BY <1>1 DEF Moves
<1>3. RegisteredOnce'
  BY <1>1, <1>2 DEF RaceInv, RegisteredOnce, Path, Adding
<1>4. GoneForGood'
  BY <1>1, <1>2 DEF RaceInv, GoneForGood, Path, At, Adding
<1>5. NoneMissed'
  BY <1>1, <1>2 DEF RaceInv, NoneMissed, Path, At
<1> QED
  BY <1>3, <1>4, <1>5 DEF RaceInv

\* What is there is taken away for good: the only task that could register it has.
LEMMA UnexportRace ==
    ASSUME TypeInv, RaceInv, NEW t \in Tasks, Unexport(t) PROVE RaceInv'
<1>1. /\ Moves(t) /\ tasks'[t].pc \in {"idle", "sweep", "tellRemoved"} /\ tasks[t].pc = "unexport"
      /\ tasks'[t].pc = "tellRemoved" => tasks'[t].path = Path(t)
  <2>1. Goto(t, "tellRemoved") \/ Done(t, "sweep") \/ Return(t)
    BY DEF Unexport
  <2> QED
    BY <2>1, GotoMoves, DoneMoves, ReturnMoves, IdleTask DEF Unexport, TypeInv, Pcs, At, Path
<1>2. /\ exported' = exported \ {Path(t)} /\ UNCHANGED known
      /\ withdrawn' = withdrawn \cup ({Path(t)} \ exported)
  BY DEF Unexport
<1>3. \A u \in Tasks \ {t} : tasks'[u] = tasks[u]
  BY <1>1 DEF Moves
<1>4. RegisteredOnce'
  BY <1>1, <1>2, <1>3 DEF RaceInv, RegisteredOnce, Path, Adding
<1>5. GoneForGood'
  <2>1. Path(t) \in exported => \A u \in Tasks : tasks[u].pc \in Adding => Path(u) # Path(t)
    BY DEF RaceInv, RegisteredOnce
  <2> QED
    BY <1>1, <1>2, <1>3, <2>1 DEF RaceInv, GoneForGood, Path, At, Adding
<1>6. NoneMissed'
  BY <1>1, <1>2, <1>3 DEF RaceInv, NoneMissed, Path, At
<1> QED
  BY <1>4, <1>5, <1>6 DEF RaceInv

LEMMA TellRemovedRace ==
    ASSUME TypeInv, RaceInv, NEW t \in Tasks, TellRemoved(t) PROVE RaceInv'
<1>1. /\ Moves(t) /\ tasks'[t].pc \in {"sweep", "list"} /\ tasks[t].pc = "tellRemoved"
      /\ known' = known \ {Path(t)} /\ UNCHANGED <<exported, withdrawn>>
  BY DoneMoves DEF TellRemoved, TypeInv, Pcs, At
<1>2. \A u \in Tasks \ {t} : tasks'[u] = tasks[u]
  BY <1>1 DEF Moves
<1>3. RegisteredOnce'
  BY <1>1, <1>2 DEF RaceInv, RegisteredOnce, Path, Adding
<1>4. GoneForGood'
  BY <1>1, <1>2 DEF RaceInv, GoneForGood, Path, At, Adding
<1>5. NoneMissed'
  <2>1. Path(t) \in withdrawn \/ Path(t) \notin exported
    BY <1>1 DEF RaceInv, GoneForGood, At
  <2> QED
    BY <1>1, <1>2, <2>1 DEF RaceInv, NoneMissed, Path, At
<1> QED
  BY <1>3, <1>4, <1>5 DEF RaceInv

LEMMA RequestRace ==
    ASSUME TypeInv, RaceInv, NEW c \in Clients, Request(c) PROVE RaceInv'
<1>0. TasksOK /\ c \in Tasks /\ nextPath \in Nat /\ exported \cup Listed \subseteq Nat
  BY DEF TypeInv, TablesOK, IsTable, SignalsOK, Listed, GivenOut, Tasks
<1>1. tasks[c].pc # "tellAdded" \/ UNCHANGED tasks
  BY DEF Request, Add, Edit, Delete, DeviceDelete, Load, SaveHostname, Checkpoint, Rollback,
     MayCall, At
<1>2. UNCHANGED <<exported, known, withdrawn>>
  BY DEF Request, Add, Edit, Delete, DeviceDelete, Load, SaveHostname, Checkpoint, Rollback
<1>3. ASSUME NEW op \in OpNames, NEW pc \in {"apply", "remove", "list"}, NEW p \in Nat,
             Begin(c, op, pc, p), tasks[c].pc # "tellAdded"
      PROVE  RaceInv'
  BY <1>0, <1>2, <1>3, BeginMoves, QuietRace DEF Pcs, Adding
<1>4. ASSUME NEW op \in OpNames, Begin(c, op, "insert", nextPath), tasks[c].pc # "tellAdded"
      PROVE  RaceInv'
  BY <1>0, <1>2, <1>4, BeginMoves, FreshRace DEF Pcs
<1>5. CASE Add(c) \/ Edit(c) \/ Delete(c) \/ Load(c) \/ SaveHostname(c)
  <2>1. tasks[c].pc # "tellAdded"
    BY <1>5 DEF Add, Edit, Delete, Load, SaveHostname, MayCall, At
  <2>2. \E op \in OpNames : \/ Begin(c, op, "insert", nextPath)
                            \/ \E pc \in {"apply", "remove", "list"}, p \in Nat : Begin(c, op, pc, p)
    BY <1>0, <1>5 DEF Add, Edit, Delete, Load, SaveHostname, OpNames, SourcesOf
  <2> QED
    BY <1>3, <1>4, <2>1, <2>2
<1>6. CASE DeviceDelete(c)
  <2>1. PICK S \in SUBSET Listed :
            tasks' = [tasks EXCEPT ![c] = [Idle EXCEPT !.op = "deviceDelete", !.pc = "sweep",
                                                       !.todo = S]]
    BY <1>6 DEF DeviceDelete
  <2>2. tasks'[c].pc = "sweep" /\ \A u \in Tasks \ {c} : tasks'[u] = tasks[u]
    BY <1>0, <2>1 DEF TasksOK, Idle
  <2>3. Moves(c) /\ tasks[c].pc # "tellAdded"
    BY <1>6, <2>2, RequestTypes DEF Moves, TypeInv, TasksOK, DeviceDelete, MayCall, At, Request
  <2> QED
    BY <1>0, <1>2, <2>2, <2>3, QuietRace DEF Adding
<1>7. CASE Checkpoint(c) \/ Rollback(c)
  <2>1. UNCHANGED tasks
    BY <1>7 DEF Checkpoint, Rollback
  <2> QED
    BY <1>2, <2>1 DEF RaceInv, RegisteredOnce, GoneForGood, NoneMissed, Path, At
<1> QED
  BY <1>5, <1>6, <1>7 DEF Request

\* The steps that touch no object
LEMMA OtherStepsRace ==
    ASSUME TypeInv, RaceInv, NEW t \in Tasks,
           \/ Insert(t) \/ Activate(t) \/ Apply(t) \/ Remove(t) \/ Prune(t) \/ Sweep(t)
           \/ Ask(t) \/ AskFails(t) \/ List(t) \/ Send(t)
    PROVE  RaceInv'
<1>0. TasksOK /\ tasks \in [Tasks -> Task] /\ tasks[t] \in Task /\ TasksOK'
  BY AddingTypes, RemovingTypes, TellingTypes DEF TypeInv, TasksOK
<1>u. UNCHANGED <<exported, known, withdrawn>>
  BY DEF Insert, Activate, Apply, Remove, Prune, Sweep, Ask, AskFails, List, Send
<1>a. tasks[t].pc # "tellAdded"
  BY DEF Insert, Activate, Apply, Remove, Prune, Sweep, Ask, AskFails, List, Send, At
<1>m. Moves(t)
  <2>1. \A u \in Tasks \ {t} : tasks'[u] = tasks[u]
    BY <1>0 DEF Insert, Activate, Apply, Remove, Prune, Sweep, Ask, AskFails, List, Send, Goto, Done,
       Return
  <2> QED
    BY <1>0, <2>1 DEF Moves, TasksOK
<1>1. CASE Insert(t)
  <2>1. tasks'[t].pc = "export" /\ tasks'[t].path = tasks[t].path /\ tasks[t].pc = "insert"
    BY <1>0, <1>1, GotoMoves DEF Insert, At, Pcs
  <2> QED
    BY <1>a, <1>m, <1>u, <2>1, QuietRace DEF Adding
<1>2. CASE ~Insert(t)
  <2>g. \A pc \in Pcs : Goto(t, pc) => tasks'[t].pc = pc
    BY <1>0, GotoMoves
  <2>d. \A pc \in Pcs : Done(t, pc) => tasks'[t].pc = pc
    BY <1>0, DoneMoves
  <2>r. Return(t) => tasks'[t].pc = "idle"
    BY <1>0, ReturnMoves, IdleTask
  <2>1. Activate(t) \/ Apply(t) \/ Remove(t) \/ AskFails(t)
        => tasks'[t].pc \in {"idle", "list", "unexport"}
    BY <2>g, <2>d, <2>r DEF Activate, Apply, Remove, AskFails, Pcs
  <2>2. Prune(t) \/ List(t) => tasks'[t].pc \in {"sweep", "send"}
    BY <1>0 DEF Prune, List, Task
  <2>3. Ask(t) \/ Send(t) => tasks'[t].pc \in {"links", "idle", "prune"}
    BY <1>0, <2>r DEF Ask, Send, Idle
  <2>4. Sweep(t) => tasks'[t].pc \in {"idle", "ask", "list", "remove"}
    <3>1. ASSUME NEW p, tasks' = [tasks EXCEPT ![t].pc = "remove", ![t].path = p, ![t].todo = @ \ {p}]
          PROVE  tasks'[t].pc = "remove"
      BY <1>0, <3>1 DEF Task
    <3> QED
      BY <2>g, <2>r, <3>1 DEF Sweep, Pcs
  <2>5. tasks'[t].pc \notin Adding \cup {"tellRemoved"}
    BY <1>2, <2>1, <2>2, <2>3, <2>4 DEF Adding
  <2> QED
    BY <1>a, <1>m, <1>u, <2>5, QuietRace
<1> QED
  BY <1>1, <1>2

LEMMA RaceInvariant == Spec => [](TypeInv /\ RaceInv)
<1>1. Init => RaceInv
  BY DEF Init, RaceInv, RegisteredOnce, GoneForGood, NoneMissed, Idle, Adding, At
<1>2. TypeInv /\ RaceInv /\ [Next]_vars => RaceInv'
  <2> SUFFICES ASSUME TypeInv, RaceInv, [Next]_vars PROVE RaceInv'
    OBVIOUS
  <2>1. CASE UNCHANGED vars \/ Change
    <3>1. UNCHANGED <<exported, known, withdrawn, tasks>>
      BY <2>1 DEF vars, Change
    <3> QED
      BY <3>1 DEF RaceInv, RegisteredOnce, GoneForGood, NoneMissed, Path, At
  <2>2. ASSUME NEW t \in Tasks, Sync(t) PROVE RaceInv'
    <3>1. tasks[t].pc # "tellAdded" /\ UNCHANGED <<exported, known, withdrawn>>
      BY <2>2 DEF Sync, At
    <3> QED
      BY <2>2, <3>1, SyncMoves, FreshRace, QuietRace DEF Adding
  <2>3. ASSUME NEW t \in Tasks, Step(t) PROVE RaceInv'
    BY <2>2, <2>3, ExportRace, TellAddedRace, UnexportRace, TellRemovedRace, OtherStepsRace DEF Step
  <2> QED
    BY <2>1, <2>3, RequestRace DEF Next
<1> QED
  BY <1>1, <1>2, TypeInvariant, PTL DEF Spec

\* Of NoneMissed: however the tasks of calls and of the polling loop cross, an object
\* that is there is known to the clients or about to be announced, unless somebody took
\* it away before it was there.
THEOREM NoneIsMissed == Spec => []NoneMissed
  BY RaceInvariant, PTL DEF RaceInv

\* A step changes the entry of its own task and of no other.
LEMMA OneTask ==
    ASSUME TasksOK, NEW t \in Tasks, NEW u \in Tasks,
           Step(u) \/ (u \in Clients /\ Request(u))
    PROVE  u = t \/ tasks'[t] = tasks[t]
<1>0. tasks \in [Tasks -> Task]
  BY DEF TasksOK
<1> SUFFICES ASSUME u # t PROVE tasks'[t] = tasks[t]
  OBVIOUS
<1>1. ASSUME Request(u) PROVE tasks'[t] = tasks[t]
  BY <1>0, <1>1 DEF Request, Add, Edit, Delete, DeviceDelete, Load, SaveHostname, Checkpoint, Rollback,
     Begin
<1>2. CASE Insert(u) \/ Export(u) \/ TellAdded(u) \/ Activate(u) \/ Apply(u)
  BY <1>0, <1>2 DEF Insert, Export, TellAdded, Activate, Apply, Goto, Done, Return
<1>3. CASE Remove(u) \/ Unexport(u) \/ TellRemoved(u) \/ Prune(u) \/ Sweep(u)
  BY <1>0, <1>3 DEF Remove, Unexport, TellRemoved, Prune, Sweep, Goto, Done, Return
<1>4. CASE Ask(u) \/ AskFails(u) \/ Sync(u) \/ List(u) \/ Send(u)
  BY <1>0, <1>4 DEF Ask, AskFails, Sync, List, Send, Goto, Return
<1> QED
  BY <1>1, <1>2, <1>3, <1>4 DEF Step

\* Of OnlyLateTellersMislead: clients are left with an object that does not exist by
\* Device.Delete, or by an announcement that comes after the object has gone.
THEOREM OnlyLateTellersLeavePhantoms == Spec => OnlyLateTellersMislead
<1> DEFINE Misled(p) ==
               \E t \in Tasks : /\ Path(t) = p
                                /\ \/ At(t, "tellAdded") /\ p \notin exported
                                   \/ At(t, "unexport") /\ Op(t) = "deviceDelete"
<1>1. TypeInv /\ [Next]_vars => [\A p \in known' : Phantom(p)' /\ ~Phantom(p) => Misled(p)]_vars
  <2> SUFFICES ASSUME TypeInv, Next, NEW p \in known', Phantom(p)', ~Phantom(p) PROVE Misled(p)
    OBVIOUS
  <2>0. TasksOK
    BY DEF TypeInv
  <2>1. CASE p \notin known
    <3>1. PICK t \in Tasks : TellAdded(t)
      BY <2>1 DEF Next, Request, Add, Edit, Delete, DeviceDelete, Load, SaveHostname, Checkpoint, Rollback,
         Step, Insert, Export, Activate, Apply, Remove, Unexport, TellRemoved, Prune, Sweep, Ask,
         AskFails, Sync, List, Send, Change
    <3> QED
      BY <2>1, <3>1 DEF TellAdded, Phantom
  <2>2. CASE p \in known /\ p \in exported
    <3>1. PICK t \in Tasks : Unexport(t)
      BY <2>2 DEF Phantom, Next, Request, Add, Edit, Delete, DeviceDelete, Load, SaveHostname, Checkpoint,
         Rollback, Step, Insert, Export, TellAdded, Activate, Apply, Remove, TellRemoved, Prune,
         Sweep, Ask, AskFails, Sync, List, Send, Change
    <3>2. Path(t) = p /\ At(t, "unexport")
      BY <2>2, <3>1 DEF Unexport, Phantom
    <3>3. CASE Goto(t, "tellRemoved")
      <4>1. At(t, "tellRemoved")' /\ Path(t)' = p
        BY <2>0, <3>2, <3>3, GotoMoves DEF At, Path, Pcs
      <4> QED
        BY <4>1 DEF Phantom
    <3> QED
      BY <2>2, <3>1, <3>2, <3>3 DEF Unexport
  <2>3. CASE p \in known \ exported
    <3>1. PICK t \in Tasks : At(t, "tellRemoved") /\ Path(t) = p /\ ~(At(t, "tellRemoved")' /\ Path(t)' = p)
      BY <2>3 DEF Phantom
    <3>2. TellRemoved(t)
      <4>1. \A u \in Tasks : Step(u) \/ (u \in Clients /\ Request(u)) => u = t \/ tasks'[t] = tasks[t]
        BY <2>0, OneTask
      <4>2. ~Change /\ tasks'[t] # tasks[t] /\ tasks[t].pc # "idle"
        BY <3>1 DEF Change, At, Path
      <4>3. t \in Clients => ~Request(t)
        BY <3>1 DEF At, Request, Add, Edit, Delete, DeviceDelete, Load, SaveHostname, Checkpoint, Rollback,
           MayCall
      <4>4. Step(t)
        BY <4>1, <4>2, <4>3 DEF Next, Tasks
      <4> QED
        BY <3>1, <4>4 DEF Step, At, Insert, Export, TellAdded, Activate, Apply, Remove, Unexport,
           Prune, Sweep, Ask, AskFails, Sync, List, Send
    <3> QED
      BY <3>1, <3>2 DEF TellRemoved
  <2> QED
    BY <2>1, <2>2, <2>3
<1> QED
  BY <1>1, TypeInvariant, PTL DEF Spec, OnlyLateTellersMislead
=============================================================================

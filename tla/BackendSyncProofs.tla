------------------------- MODULE BackendSyncProofs -------------------------
(* What holds of BackendSync for any tasks, links, networks and bounds.     *)
EXTENDS BackendSync, FiniteSetTheorems, TLAPS

(***************************************************************************)
(* Types.  What a loop has not been through, and the element in hand,      *)
(* are of the loop's kind.                                                 *)
(***************************************************************************)
SourceLoop == {"profiles", "update", "insert", "export"}
PathLoop == {"stale", "unexport"}
AtPath == {"update", "insert", "export", "unexport"}
AtLink == {"unregister", "refresh", "register", "upsert", "dropObject", "show", "record"}

Fits(pc, todo, item, path, desired) ==
    /\ pc \in SourceLoop => todo \subseteq Sources
    /\ pc \in PathLoop => todo \subseteq Paths
    /\ pc \notin SourceLoop \cup PathLoop => todo \subseteq Links
    /\ pc \in AtPath => path \in Paths
    /\ pc = "insert" => item \in Sources
    /\ pc \in AtLink => item \in Links
    /\ pc \in {"revive", "show", "record"} => \A l \in todo : desired[l] \in Paths
    /\ pc \in {"show", "record"} => desired[item] \in Paths

TaskFits(s) == Fits(syncs[s].pc, syncs[s].todo, syncs[s].item, syncs[s].path, syncs[s].desired)
TasksOK == syncs \in [Syncers -> Task] /\ \A s \in Syncers : TaskFits(s)
TypeInv == WorldOK /\ TablesOK /\ ObjectsOK /\ TasksOK

LEMMA AsleepFits ==
    Asleep \in Task /\ Fits(Asleep.pc, Asleep.todo, Asleep.item, Asleep.path, Asleep.desired)
  BY DEF Asleep, Task, Pcs, NoLinks, LinkStates, NoStation, Fits, SourceLoop, PathLoop, AtPath,
         AtLink

\* A task changes its own entry only.
LEMMA TaskChange ==
    ASSUME TasksOK, NEW s \in Syncers, NEW t \in Task,
           Fits(t.pc, t.todo, t.item, t.path, t.desired), syncs' = [syncs EXCEPT ![s] = t]
    PROVE  TasksOK'
  BY DEF TasksOK, TaskFits

LEMMA GotoOK ==
    ASSUME TasksOK, NEW s \in Syncers, NEW pc \in Pcs, Goto(s, pc),
           Fits(pc, syncs[s].todo, syncs[s].item, syncs[s].path, syncs[s].desired)
    PROVE  TasksOK'
<1> DEFINE t == [syncs[s] EXCEPT !.pc = pc]
<1>1. t \in Task /\ syncs' = [syncs EXCEPT ![s] = t]
  BY DEF Goto, TasksOK, Task
<1>2. /\ t.pc = pc /\ t.todo = syncs[s].todo /\ t.item = syncs[s].item
      /\ t.path = syncs[s].path /\ t.desired = syncs[s].desired
  BY DEF TasksOK, Task
<1> QED
  BY <1>1, <1>2, TaskChange

LEMMA LoopOK ==
    ASSUME TasksOK, NEW s \in Syncers, NEW pc \in Pcs,
           NEW todo \in SUBSET (Sources \cup Paths \cup Links), Loop(s, pc, todo),
           Fits(pc, todo, syncs[s].item, syncs[s].path, syncs[s].desired)
    PROVE  TasksOK'
<1> DEFINE t == [syncs[s] EXCEPT !.pc = pc, !.todo = todo]
<1>1. t \in Task /\ syncs' = [syncs EXCEPT ![s] = t]
  BY DEF Loop, TasksOK, Task
<1>2. /\ t.pc = pc /\ t.todo = todo /\ t.item = syncs[s].item
      /\ t.path = syncs[s].path /\ t.desired = syncs[s].desired
  BY DEF TasksOK, Task
<1> QED
  BY <1>1, <1>2, TaskChange

LEMMA IterateOK ==
    ASSUME TasksOK, NEW s \in Syncers, NEW pc \in Pcs, NEW x \in Links, Iterate(s, pc, x),
           Fits(pc, syncs[s].todo \ {x}, x, syncs[s].path, syncs[s].desired)
    PROVE  TasksOK'
<1> DEFINE t == [syncs[s] EXCEPT !.pc = pc, !.todo = @ \ {x}, !.item = x]
<1>1. t \in Task /\ syncs' = [syncs EXCEPT ![s] = t]
  BY DEF Iterate, TasksOK, Task
<1>2. /\ t.pc = pc /\ t.todo = syncs[s].todo \ {x} /\ t.item = x
      /\ t.path = syncs[s].path /\ t.desired = syncs[s].desired
  BY DEF TasksOK, Task
<1> QED
  BY <1>1, <1>2, TaskChange

LEMMA IterateOverOK ==
    ASSUME TasksOK, NEW s \in Syncers, NEW pc \in Pcs, NEW p \in Paths, IterateOver(s, pc, p),
           Fits(pc, syncs[s].todo \ {p}, syncs[s].item, p, syncs[s].desired)
    PROVE  TasksOK'
<1> DEFINE t == [syncs[s] EXCEPT !.pc = pc, !.todo = @ \ {p}, !.path = p]
<1>1. t \in Task /\ syncs' = [syncs EXCEPT ![s] = t]
  BY DEF IterateOver, TasksOK, Task
<1>2. /\ t.pc = pc /\ t.todo = syncs[s].todo \ {p} /\ t.item = syncs[s].item
      /\ t.path = p /\ t.desired = syncs[s].desired
  BY DEF TasksOK, Task
<1> QED
  BY <1>1, <1>2, TaskChange

-----------------------------------------------------------------------------
\* The partial functions
LEMMA PutMaps ==
    ASSUME NEW f, NEW X, NEW S, Maps(f, X, S), NEW x \in X, NEW v \in S
    PROVE  Maps(Put(f, x, v), X, S)
  BY DEF Maps, Put

LEMMA DropMaps ==
    ASSUME NEW f, NEW X, NEW S, Maps(f, X, S), NEW x
    PROVE  Maps(Drop(f, x), X, S)
  BY DEF Maps, Drop

LEMMA InitTypes == Init => TypeInv
<1> SUFFICES ASSUME Init PROVE TypeInv
  OBVIOUS
<1> DEFINE wanted == Wanted(world.links, world.known)
           n == Cardinality(wanted)
<1>1. world \in World
  BY DEF Init
<1>2. wanted \subseteq Wired \cup Networks
  BY <1>1 DEF Wanted, World
<1>3. n \in Nat /\ n <= MaxPath
  BY <1>2, SyncConstants, FS_Subset, FS_CardinalityType
<1>4. PICK source \in [1..n -> wanted] :
          /\ \A u \in wanted : \E p \in 1..n : source[p] = u
          /\ connections = [p \in 1..n |-> [uuid |-> source[p], body |-> "backend"]]
          /\ nextPath = n + 1
          /\ activeObjects = [l \in Up(world.links) |->
                 LET u == ActiveSource(l, world.joined) IN
                 IF u = Nobody THEN 0 ELSE CHOOSE p \in 1..n : source[p] = u]
  BY DEF Init
<1>5. 1..n \subseteq Paths
  BY <1>3, SyncConstants DEF Paths
<1>6. \A l \in Up(world.links) : ActiveSource(l, world.joined) # Nobody =>
          ActiveSource(l, world.joined) \in wanted
  BY <1>1 DEF Init, Consistent, World, Up, ActiveSource, Wanted, Present, Links
<1>7. TablesOK
  <2>1. Maps(connections, Paths, Profile)
    BY <1>2, <1>4, <1>5 DEF Maps, Profile, Sources
  <2>2. nextPath \in 1..(MaxPath + 1)
    BY <1>3, <1>4, SyncConstants
  <2>3. Maps(actives, Links, Paths)
    BY DEF Init, Maps
  <2> QED
    BY <2>1, <2>2, <2>3 DEF Init, TablesOK, Present
<1>8. ObjectsOK
  <2>1. Maps(activeObjects, Links, Paths \cup {0})
    BY <1>4, <1>5, <1>6 DEF Maps, Up
  <2> QED
    BY <1>7, <2>1 DEF Init, ObjectsOK, TablesOK, Maps, Listed
<1>9. TasksOK
  BY AsleepFits DEF Init, TasksOK, TaskFits
<1> QED
  BY <1>1, <1>7, <1>8, <1>9, SyncConstants DEF Init, TypeInv, WorldOK

-----------------------------------------------------------------------------
(* One lemma for each group of actions                                     *)

LEMMA DisturbanceTypes == TypeInv /\ (Disturbance \/ DeleteObject) => TypeInv'
<1> SUFFICES ASSUME TypeInv PROVE (Disturbance \/ DeleteObject) => TypeInv'
  OBVIOUS
<1> USE DEF TypeInv
<1>a. UNCHANGED tables => TablesOK'
  BY DEF tables, TablesOK
<1>b. UNCHANGED objects => ObjectsOK'
  BY DEF objects, ObjectsOK
<1>c. UNCHANGED syncs => TasksOK'
  BY DEF TasksOK, TaskFits
<1>d. ASSUME NEW kind, May(kind) PROVE changes' \in 0..MaxChanges
  BY <1>d, SyncConstants DEF May, WorldOK
<1>w. /\ world.links \in [Links -> LinkStates]
      /\ world.joined \in [Wlans -> Networks \cup {Nobody}]
  BY DEF WorldOK, World
<1>1. CASE ChangeLink
  <2>1. PICK l \in Links, state \in LinkStates :
            world' = [world EXCEPT
                !.links[l] = state,
                !.joined = [w \in Wlans |-> IF w = l /\ state = "absent"
                                            THEN Nobody ELSE world.joined[w]]]
    BY <1>1 DEF ChangeLink
  <2> DEFINE links == [world.links EXCEPT ![l] = state]
             joined == [w \in Wlans |-> IF w = l /\ state = "absent"
                                        THEN Nobody ELSE world.joined[w]]
  <2>2. links \in [Links -> LinkStates] /\ joined \in [Wlans -> Networks \cup {Nobody}]
    BY <1>w
  <2>3. world' = [world EXCEPT !.links = links, !.joined = joined]
    BY <2>1, <1>w
  <2> HIDE DEF links, joined
  <2>4. world' \in World
    BY <2>2, <2>3 DEF WorldOK, World
  <2> QED
    BY <1>1, <1>a, <1>b, <1>c, <1>d, <2>4 DEF ChangeLink, WorldOK
<1>2. CASE ChangeKnown
  <2>1. PICK n \in Networks :
            world' = IF n \in world.known
                     THEN [world EXCEPT
                           !.known = @ \ {n},
                           !.joined = [w \in Wlans |-> IF world.joined[w] = n THEN Nobody
                                                       ELSE world.joined[w]]]
                     ELSE [world EXCEPT !.known = @ \cup {n}]
    BY <1>2 DEF ChangeKnown
  <2> DEFINE joined == [w \in Wlans |-> IF world.joined[w] = n THEN Nobody ELSE world.joined[w]]
  <2>2. joined \in [Wlans -> Networks \cup {Nobody}]
    BY <1>w
  <2>3. world' = IF n \in world.known
                 THEN [world EXCEPT !.known = world.known \ {n}, !.joined = joined]
                 ELSE [world EXCEPT !.known = world.known \cup {n}]
    BY <2>1
  <2> HIDE DEF joined
  <2>4. world' \in World
    BY <2>2, <2>3 DEF WorldOK, World
  <2> QED
    BY <1>2, <1>a, <1>b, <1>c, <1>d, <2>4 DEF ChangeKnown, WorldOK
<1>3. CASE ChangeJoined
  <2>1. world' \in World
    BY <1>3 DEF ChangeJoined, WorldOK, World
  <2> QED
    BY <1>3, <1>a, <1>b, <1>c, <1>d, <2>1 DEF ChangeJoined, WorldOK
<1>4. CASE ChangeOutage
  BY <1>4, <1>a, <1>b, <1>c, <1>d DEF ChangeOutage, WorldOK
<1>5. CASE Edit
  <2>1. Maps(connections', Paths, Profile)
    BY <1>5 DEF Edit, TablesOK, Maps, Profile, Reachable, Listed
  <2> QED
    BY <1>5, <1>b, <1>c, <1>d, <2>1 DEF Edit, WorldOK, TablesOK
<1>6. CASE Delete
  <2>1. Maps(connections', Paths, Profile)
    BY <1>6, DropMaps DEF Delete, TablesOK
  <2>2. deleting' \subseteq Paths
    BY <1>6 DEF Delete, WorldOK, TablesOK, Maps, Reachable, Listed
  <2> QED
    BY <1>6, <1>b, <1>c, <1>d, <2>1, <2>2 DEF Delete, WorldOK, TablesOK
<1>7. CASE DeleteObject
  BY <1>7, <1>a, <1>c DEF DeleteObject, WorldOK, ObjectsOK
<1> QED
  BY <1>1, <1>2, <1>3, <1>4, <1>5, <1>6, <1>7 DEF Disturbance

\* What a step of a sync leaves alone keeps its types.
LEMMA LeftAlone ==
    ASSUME TypeInv
    PROVE  /\ UNCHANGED environment => WorldOK'
           /\ UNCHANGED tables => TablesOK'
           /\ UNCHANGED objects => ObjectsOK'
  BY DEF TypeInv, environment, tables, objects, WorldOK, TablesOK, ObjectsOK

LEMMA WantedSources ==
    ASSUME NEW links, NEW known \in SUBSET Networks PROVE Wanted(links, known) \subseteq Sources
  BY DEF Wanted, Sources

LEMMA AskTypes ==
    ASSUME TypeInv, NEW s \in Syncers PROVE Ask(s) \/ Describe(s) \/ AskIwd(s) => TypeInv'
<1>0. TasksOK /\ TaskFits(s) /\ WorldOK /\ syncs[s] \in Task
  BY DEF TypeInv, TasksOK
<1>1. ASSUME Ask(s) PROVE TasksOK'
  <2>1. Fits("describe", Present(world.links), syncs[s].item, syncs[s].path, syncs[s].desired)
    BY DEF Fits, SourceLoop, PathLoop, AtPath, AtLink, Present
  <2> QED
    BY <1>0, <1>1, <2>1, LoopOK DEF Ask, Pcs, Present
<1>2. ASSUME Describe(s) PROVE TasksOK'
  <2>1. PICK l \in syncs[s].todo :
            syncs' = IF world.links[l] = "absent" THEN [syncs EXCEPT ![s] = Asleep]
                     ELSE [syncs EXCEPT ![s].todo = @ \ {l}, ![s].links[l] = world.links[l]]
    BY <1>2 DEF Describe
  <2> DEFINE links == [syncs[s].links EXCEPT ![l] = world.links[l]]
             t == [syncs[s] EXCEPT !.todo = syncs[s].todo \ {l}, !.links = links]
  <2>2. syncs[s].pc = "describe" /\ l \in Links
    BY <1>0, <1>2, <2>1 DEF Describe, At, TaskFits, Fits, SourceLoop, PathLoop
  <2>3. t \in Task
    BY <1>0, <2>2 DEF Task, WorldOK, World
  <2>4. t.pc = "describe" /\ t.todo \subseteq syncs[s].todo
    BY <1>0, <2>2 DEF Task
  <2>5. Fits(t.pc, t.todo, t.item, t.path, t.desired)
    BY <1>0, <2>2, <2>4 DEF TaskFits, Fits, SourceLoop, PathLoop, AtPath, AtLink
  <2>6. CASE world.links[l] = "absent"
    <3>1. syncs' = [syncs EXCEPT ![s] = Asleep]
      BY <1>0, <2>1, <2>6 DEF TasksOK
    <3> QED
      BY <1>0, <3>1, AsleepFits, TaskChange
  <2>7. CASE world.links[l] # "absent"
    <3>2. syncs' = [syncs EXCEPT ![s] = t]
      BY <1>0, <2>1, <2>2, <2>7 DEF TasksOK, Task
    <3> QED
      BY <1>0, <3>2, <2>3, <2>5, TaskChange
  <2> QED
    BY <2>6, <2>7
<1>3. ASSUME AskIwd(s) PROVE TasksOK'
  <2> DEFINE known == IF iwdUp THEN world.known ELSE {}
             joined == IF iwdUp THEN world.joined ELSE NoStation
             todo == Wanted(syncs[s].links, known)
             t == [syncs[s] EXCEPT !.pc = "profiles", !.known = known, !.joined = joined,
                                   !.todo = todo]
  <2>1. known \in SUBSET Networks /\ joined \in [Wlans -> Networks \cup {Nobody}]
    BY <1>0 DEF WorldOK, World, NoStation
  <2>2. todo \subseteq Sources
    BY <2>1, WantedSources
  <2>3. syncs' = [syncs EXCEPT ![s] = t]
    BY <1>0, <1>3 DEF AskIwd, TasksOK
  <2> HIDE DEF known, joined, todo
  <2>4. t \in Task
    BY <1>0, <2>1, <2>2 DEF Task, Pcs
  <2>5. t.pc = "profiles" /\ t.todo = todo
    BY <1>0 DEF Task
  <2>6. Fits(t.pc, t.todo, t.item, t.path, t.desired)
    BY <2>2, <2>5 DEF Fits, SourceLoop, PathLoop, AtPath, AtLink
  <2> QED
    BY <1>0, <2>3, <2>4, <2>6, TaskChange
<1> QED
  BY <1>1, <1>2, <1>3, LeftAlone DEF Ask, Describe, AskIwd, TypeInv

LEMMA ProfilesTypes ==
    ASSUME TypeInv, NEW s \in Syncers PROVE Profiles(s) => TypeInv'
<1>0. TasksOK /\ TablesOK /\ ObjectsOK /\ syncs[s] \in Task
  BY DEF TypeInv, TasksOK
<1>f. Fits(syncs[s].pc, syncs[s].todo, syncs[s].item, syncs[s].path, syncs[s].desired)
  BY <1>0 DEF TasksOK, TaskFits
<1> USE DEF Fits, SourceLoop, PathLoop, AtPath, AtLink, At
<1>1. ASSUME Lookup(s) PROVE TypeInv'
  <2>1. PICK u \in syncs[s].todo :
            \/ \E p \in OfSource(u) :
                   /\ syncs' = [syncs EXCEPT ![s].pc = "update", ![s].todo = @ \ {u},
                                             ![s].item = u, ![s].path = p]
                   /\ UNCHANGED nextPath
            \/ /\ nextPath \in Paths /\ nextPath' = nextPath + 1
               /\ syncs' = [syncs EXCEPT ![s].pc = "insert", ![s].todo = @ \ {u},
                                         ![s].item = u, ![s].path = nextPath]
    BY <1>1 DEF Lookup
  <2>2. u \in Sources
    BY <1>1, <1>f DEF Lookup
  <2>3. PICK pc \in {"update", "insert"}, p \in Paths :
            syncs' = [syncs EXCEPT ![s].pc = pc, ![s].todo = @ \ {u},
                                   ![s].item = u, ![s].path = p]
    BY <1>0, <2>1 DEF OfSource, Listed, TablesOK, Maps
  <2> DEFINE t == [syncs[s] EXCEPT !.pc = pc, !.todo = @ \ {u}, !.item = u, !.path = p]
  <2>4. t \in Task /\ syncs' = [syncs EXCEPT ![s] = t]
    BY <1>0, <2>2, <2>3 DEF TasksOK, Task, Pcs
  <2>5. /\ t.pc = pc /\ t.todo = syncs[s].todo \ {u} /\ t.item = u /\ t.path = p
        /\ t.desired = syncs[s].desired
    BY <1>0 DEF Task
  <2>6. Fits(pc, syncs[s].todo \ {u}, u, p, syncs[s].desired)
    BY <1>1, <1>f, <2>2 DEF Lookup
  <2>7. TasksOK'
    BY <1>0, <2>4, <2>5, <2>6, TaskChange
  <2>8. nextPath' \in 1..(MaxPath + 1)
    BY <1>0, <2>1, SyncConstants DEF TablesOK, Paths
  <2> QED
    BY <1>0, <1>1, <2>7, <2>8, LeftAlone DEF Lookup, TablesOK, TypeInv
<1>2. ASSUME Update(s) PROVE TypeInv'
  <2>1. TasksOK'
    BY <1>0, <1>2, <1>f, GotoOK DEF Update, Pcs
  <2>2. Maps(connections', Paths, Profile)
    BY <1>0, <1>2 DEF Update, TablesOK, Maps, Profile, Listed
  <2> QED
    BY <1>0, <1>2, <2>1, <2>2, LeftAlone DEF Update, TablesOK, TypeInv
<1>3. ASSUME Insert(s) PROVE TypeInv'
  <2>1. TasksOK'
    BY <1>0, <1>3, <1>f, GotoOK DEF Insert, Pcs
  <2>2. [uuid |-> syncs[s].item, body |-> "backend"] \in Profile /\ syncs[s].path \in Paths
    BY <1>3, <1>f DEF Insert, Profile
  <2>3. Maps(connections', Paths, Profile)
    BY <1>0, <1>3, <2>2, PutMaps DEF Insert, TablesOK
  <2> QED
    BY <1>0, <1>3, <2>1, <2>3, LeftAlone DEF Insert, TablesOK, TypeInv
<1>4. ASSUME Export(s) PROVE TypeInv'
  <2>1. TasksOK'
    BY <1>0, <1>4, <1>f, GotoOK DEF Export, Pcs
  <2> QED
    BY <1>0, <1>4, <1>f, <2>1, LeftAlone DEF Export, ObjectsOK, TypeInv
<1>5. ASSUME ListStale(s) PROVE TypeInv'
  <2> DEFINE stale == {p \in Listed :
                 connections[p].uuid \notin Wanted(syncs[s].links, syncs[s].known)}
  <2>1. stale \subseteq Paths
    BY <1>0 DEF Listed, TablesOK, Maps
  <2>2. Loop(s, "stale", stale)
    BY <1>5 DEF ListStale
  <2> HIDE DEF stale
  <2>3. Fits("stale", stale, syncs[s].item, syncs[s].path, syncs[s].desired)
    BY <2>1
  <2>4. TasksOK'
    BY <1>0, <2>1, <2>2, <2>3, LoopOK DEF Pcs
  <2> QED
    BY <1>5, <2>4, LeftAlone DEF ListStale, TypeInv
<1>6. ASSUME RemoveStale(s) PROVE TypeInv'
  <2>1. PICK p \in syncs[s].todo :
            connections' = Drop(connections, p) /\ IterateOver(s, "unexport", p)
    BY <1>6 DEF RemoveStale
  <2>2. p \in Paths /\ Fits("unexport", syncs[s].todo \ {p}, syncs[s].item, p, syncs[s].desired)
    BY <1>6, <1>f DEF RemoveStale
  <2>3. TasksOK'
    BY <1>0, <2>1, <2>2, IterateOverOK DEF Pcs
  <2>4. Maps(connections', Paths, Profile)
    BY <1>0, <2>1, DropMaps DEF TablesOK
  <2> QED
    BY <1>0, <1>6, <2>3, <2>4, LeftAlone DEF RemoveStale, TablesOK, TypeInv
<1>7. ASSUME Unexport(s) PROVE TypeInv'
  <2>1. TasksOK'
    BY <1>0, <1>7, <1>f, GotoOK DEF Unexport, Pcs
  <2> QED
    BY <1>0, <1>7, <2>1, LeftAlone DEF Unexport, ObjectsOK, TypeInv
<1> QED
  BY <1>1, <1>2, <1>3, <1>4, <1>5, <1>6, <1>7 DEF Profiles

LEMMA DevicesTypes ==
    ASSUME TypeInv, NEW s \in Syncers PROVE Devices(s) => TypeInv'
<1>0. TasksOK /\ TablesOK /\ ObjectsOK /\ syncs[s] \in Task
  BY DEF TypeInv, TasksOK
<1>f. Fits(syncs[s].pc, syncs[s].todo, syncs[s].item, syncs[s].path, syncs[s].desired)
  BY <1>0 DEF TasksOK, TaskFits
<1> USE DEF Fits, SourceLoop, PathLoop, AtPath, AtLink, At
<1>1. ASSUME ListGone(s) PROVE TypeInv'
  <2>1. Loop(s, "gone", devices \ Present(syncs[s].links)) /\ devices \subseteq Links
    BY <1>0, <1>1 DEF ListGone, TablesOK
  <2>2. TasksOK'
    BY <1>0, <2>1, LoopOK DEF Pcs
  <2> QED
    BY <1>1, <2>2, LeftAlone DEF ListGone, TypeInv
<1>2. ASSUME RemoveDevice(s) PROVE TypeInv'
  <2>1. PICK l \in syncs[s].todo :
            /\ devices' = devices \ {l}
            /\ Iterate(s, IF l \in devices THEN "unregister" ELSE "gone", l)
    BY <1>2 DEF RemoveDevice
  <2>2. l \in Links /\ syncs[s].todo \subseteq Links
    BY <1>2, <1>f DEF RemoveDevice
  <2>3. TasksOK'
    BY <1>0, <2>1, <2>2, IterateOK DEF Pcs
  <2> QED
    BY <1>0, <1>2, <2>1, <2>3, LeftAlone DEF RemoveDevice, TablesOK, TypeInv
<1>3. ASSUME Unregister(s) PROVE TypeInv'
  <2>1. TasksOK'
    BY <1>0, <1>3, <1>f, GotoOK DEF Unregister, Pcs
  <2> QED
    BY <1>0, <1>3, <2>1, LeftAlone DEF Unregister, ObjectsOK, TypeInv
<1>4. ASSUME ListLinks(s) PROVE TypeInv'
  <2>1. Loop(s, "devices", Present(syncs[s].links)) /\ Present(syncs[s].links) \subseteq Links
    BY <1>4 DEF ListLinks, Present
  <2>2. TasksOK'
    BY <1>0, <2>1, LoopOK DEF Pcs
  <2> QED
    BY <1>4, <2>2, LeftAlone DEF ListLinks, TypeInv
<1>5. ASSUME Existing(s) PROVE TypeInv'
  <2>1. PICK l \in syncs[s].todo : Iterate(s, IF l \in devices THEN "refresh" ELSE "register", l)
    BY <1>5 DEF Existing
  <2>2. l \in Links /\ syncs[s].todo \subseteq Links
    BY <1>5, <1>f DEF Existing
  <2>3. TasksOK'
    BY <1>0, <2>1, <2>2, IterateOK DEF Pcs
  <2> QED
    BY <1>5, <2>3, LeftAlone DEF Existing, TypeInv
<1>6. ASSUME Refresh(s) PROVE TypeInv'
  <2>1. TasksOK'
    BY <1>0, <1>6, <1>f, GotoOK DEF Refresh, Pcs
  <2> QED
    BY <1>0, <1>6, <2>1, LeftAlone DEF Refresh, ObjectsOK, TypeInv
<1>7. ASSUME Register(s) PROVE TypeInv'
  <2>1. TasksOK'
    BY <1>0, <1>7, <1>f, GotoOK DEF Register, Pcs
  <2> QED
    BY <1>0, <1>7, <1>f, <2>1, LeftAlone DEF Register, ObjectsOK, TypeInv
<1>8. ASSUME Upsert(s) PROVE TypeInv'
  <2>1. TasksOK'
    BY <1>0, <1>8, <1>f, GotoOK DEF Upsert, Pcs
  <2> QED
    BY <1>0, <1>8, <1>f, <2>1, LeftAlone DEF Upsert, TablesOK, TypeInv
<1> QED
  BY <1>1, <1>2, <1>3, <1>4, <1>5, <1>6, <1>7, <1>8 DEF Devices

LEMMA ActivesTypes ==
    ASSUME TypeInv, NEW s \in Syncers PROVE Actives(s) => TypeInv'
<1>0. TasksOK /\ TablesOK /\ ObjectsOK /\ syncs[s] \in Task
  BY DEF TypeInv, TasksOK
<1>f. Fits(syncs[s].pc, syncs[s].todo, syncs[s].item, syncs[s].path, syncs[s].desired)
  BY <1>0 DEF TasksOK, TaskFits
<1> USE DEF Fits, SourceLoop, PathLoop, AtPath, AtLink, At
<1>1. ASSUME ListActive(s) PROVE TypeInv'
  <2>1. Loop(s, "desire", Up(syncs[s].links)) /\ Up(syncs[s].links) \subseteq Links
    BY <1>1 DEF ListActive, Up
  <2>2. TasksOK'
    BY <1>0, <2>1, LoopOK DEF Pcs
  <2> QED
    BY <1>1, <2>2, LeftAlone DEF ListActive, TypeInv
<1>2. ASSUME Desire(s) PROVE TypeInv'
  <2>1. PICK l \in syncs[s].todo, p \in Paths \cup {0} :
            syncs' = [syncs EXCEPT ![s].todo = @ \ {l}, ![s].desired[l] = p]
    BY <1>0, <1>2 DEF Desire, OfSource, Listed, TablesOK, Maps
  <2>2. syncs[s].pc = "desire" /\ l \in Links /\ syncs[s].todo \subseteq Links
    BY <1>2, <1>f DEF Desire
  <2> DEFINE desired == [syncs[s].desired EXCEPT ![l] = p]
             t == [syncs[s] EXCEPT !.todo = @ \ {l}, !.desired = desired]
  <2>3. t \in Task /\ syncs' = [syncs EXCEPT ![s] = t]
    BY <1>0, <2>1, <2>2 DEF TasksOK, Task
  <2>4. t.pc = "desire" /\ t.todo = syncs[s].todo \ {l}
    BY <1>0, <2>2 DEF Task
  <2>5. Fits(t.pc, t.todo, t.item, t.path, t.desired)
    BY <2>2, <2>4
  <2>6. TasksOK'
    BY <1>0, <2>3, <2>5, TaskChange
  <2> QED
    BY <1>2, <2>6, LeftAlone DEF Desire, TypeInv
<1>3. ASSUME ListUndesired(s) PROVE TypeInv'
  <2>1. Loop(s, "drop", DOMAIN actives \ Desired(s)) /\ DOMAIN actives \subseteq Links
    BY <1>0, <1>3 DEF ListUndesired, TablesOK, Maps
  <2>2. TasksOK'
    BY <1>0, <2>1, LoopOK DEF Pcs
  <2> QED
    BY <1>3, <2>2, LeftAlone DEF ListUndesired, TypeInv
<1>4. ASSUME DropActive(s) PROVE TypeInv'
  <2>1. PICK l \in syncs[s].todo : actives' = Drop(actives, l) /\ Iterate(s, "dropObject", l)
    BY <1>4 DEF DropActive
  <2>2. l \in Links /\ syncs[s].todo \subseteq Links
    BY <1>4, <1>f DEF DropActive
  <2>3. TasksOK'
    BY <1>0, <2>1, <2>2, IterateOK DEF Pcs
  <2>4. Maps(actives', Links, Paths)
    BY <1>0, <2>1, DropMaps DEF TablesOK
  <2> QED
    BY <1>0, <1>4, <2>3, <2>4, LeftAlone DEF DropActive, TablesOK, TypeInv
<1>5. ASSUME DropObject(s) PROVE TypeInv'
  <2>1. TasksOK'
    BY <1>0, <1>5, <1>f, GotoOK DEF DropObject, Pcs
  <2>2. Maps(activeObjects', Links, Paths \cup {0})
    BY <1>0, <1>5, DropMaps DEF DropObject, ObjectsOK
  <2> QED
    BY <1>0, <1>5, <2>1, <2>2, LeftAlone DEF DropObject, ObjectsOK, TypeInv
<1>6. ASSUME ListDesired(s) PROVE TypeInv'
  <2>1. Desired(s) \subseteq Links /\ \A l \in Desired(s) : syncs[s].desired[l] \in Paths
    BY <1>0 DEF Desired, Task
  <2>2. Fits("revive", Desired(s), syncs[s].item, syncs[s].path, syncs[s].desired)
    BY <2>1
  <2>3. TasksOK'
    BY <1>0, <1>6, <2>1, <2>2, LoopOK DEF ListDesired, Pcs
  <2> QED
    BY <1>6, <2>3, LeftAlone DEF ListDesired, TypeInv
<1>7. ASSUME Hide(s) PROVE TypeInv'
  <2>1. PICK l \in syncs[s].todo :
            activeObjects' = Drop(activeObjects, l) /\ Iterate(s, "show", l)
    BY <1>7 DEF Hide
  <2>2. l \in Links /\ Fits("show", syncs[s].todo \ {l}, l, syncs[s].path, syncs[s].desired)
    BY <1>7, <1>f DEF Hide
  <2>3. TasksOK'
    BY <1>0, <2>1, <2>2, IterateOK DEF Pcs
  <2>4. Maps(activeObjects', Links, Paths \cup {0})
    BY <1>0, <2>1, DropMaps DEF ObjectsOK
  <2> QED
    BY <1>0, <1>7, <2>3, <2>4, LeftAlone DEF Hide, ObjectsOK, TypeInv
<1>8. ASSUME Show(s) PROVE TypeInv'
  <2>1. TasksOK'
    BY <1>0, <1>8, <1>f, GotoOK DEF Show, Pcs
  <2>2. syncs[s].item \in Links /\ syncs[s].desired[syncs[s].item] \in Paths
    BY <1>8, <1>f DEF Show
  <2>3. Maps(activeObjects', Links, Paths \cup {0})
    BY <1>0, <1>8, <2>2, PutMaps DEF Show, ObjectsOK
  <2> QED
    BY <1>0, <1>8, <2>1, <2>3, LeftAlone DEF Show, ObjectsOK, TypeInv
<1>9. ASSUME RecordActive(s) PROVE TypeInv'
  <2>1. TasksOK'
    BY <1>0, <1>9, <1>f, GotoOK DEF RecordActive, Pcs
  <2>2. syncs[s].item \in Links /\ syncs[s].desired[syncs[s].item] \in Paths
    BY <1>9, <1>f DEF RecordActive
  <2>3. Maps(actives', Links, Paths)
    BY <1>0, <1>9, <2>2, PutMaps DEF RecordActive, TablesOK
  <2> QED
    BY <1>0, <1>9, <2>1, <2>3, LeftAlone DEF RecordActive, TablesOK, TypeInv
<1>10. ASSUME Finish(s) PROVE TypeInv'
  <2>1. TasksOK'
    BY <1>0, <1>10, AsleepFits, TaskChange DEF Finish
  <2> QED
    BY <1>10, <2>1, LeftAlone DEF Finish, TypeInv
<1> QED
  BY <1>1, <1>2, <1>3, <1>4, <1>5, <1>6, <1>7, <1>8, <1>9, <1>10 DEF Actives

LEMMA StepTypes == TypeInv /\ [Next]_vars => TypeInv'
<1>1. CASE UNCHANGED vars
  BY <1>1 DEF vars, environment, tables, objects, TypeInv, WorldOK, TablesOK, ObjectsOK, TasksOK,
              TaskFits
<1> QED
  BY <1>1, DisturbanceTypes, AskTypes, ProfilesTypes, DevicesTypes, ActivesTypes DEF Next, Step

\* TypeOK in every behaviour of sync_backends, whatever its tasks, links, networks
\* and bounds.
THEOREM TypesCorrect == Spec => []TypeOK
<1>1. TypeInv => TypeOK
  BY DEF TypeInv, TypeOK, TasksOK
<1> QED
  BY <1>1, InitTypes, StepTypes, PTL DEF Spec
-----------------------------------------------------------------------------
(***************************************************************************)
(* No object stays behind.  A record and its object change in two steps of *)
(* one task, and the task is in between for the object: so, once the tasks *)
(* are typed, NoGhostDevice is inductive, and no step makes an orphan.     *)
(***************************************************************************)

\* A step of task s moves no other task.
Alone(s) == \A r \in Syncers \ {s} : syncs'[r] = syncs[r]

LEMMA StepAlone ==
    ASSUME TasksOK, NEW s \in Syncers PROVE Ask(s) \/ Step(s) => Alone(s)
<1>0. syncs \in [Syncers -> Task]
  BY DEF TasksOK
<1>1. ASSUME NEW pc, Goto(s, pc) PROVE Alone(s)
  BY <1>0, <1>1 DEF Goto, Alone
<1>2. ASSUME NEW pc, NEW todo, Loop(s, pc, todo) PROVE Alone(s)
  BY <1>0, <1>2 DEF Loop, Alone
<1>3. ASSUME NEW pc, NEW x, Iterate(s, pc, x) PROVE Alone(s)
  BY <1>0, <1>3 DEF Iterate, Alone
<1>4. ASSUME NEW pc, NEW x, IterateOver(s, pc, x) PROVE Alone(s)
  BY <1>0, <1>4 DEF IterateOver, Alone
<1>5. Ask(s) \/ Describe(s) \/ AskIwd(s) => Alone(s)
  BY <1>0, <1>2 DEF Ask, Describe, AskIwd, Alone
<1>6. Profiles(s) => Alone(s)
  <2>1. Lookup(s) => Alone(s)
    BY <1>0 DEF Lookup, Alone
  <2> QED
    BY <2>1, <1>1, <1>2, <1>4
    DEF Profiles, Update, Insert, Export, ListStale, RemoveStale, Unexport
<1>7. Devices(s) => Alone(s)
  BY <1>1, <1>2, <1>3
  DEF Devices, ListGone, RemoveDevice, Unregister, ListLinks, Existing, Refresh, Register, Upsert
<1>8. Actives(s) => Alone(s)
  <2>1. Desire(s) \/ Finish(s) => Alone(s)
    BY <1>0 DEF Desire, Finish, Alone
  <2> QED
    BY <2>1, <1>1, <1>2, <1>3
    DEF Actives, ListActive, ListUndesired, DropActive, DropObject, ListDesired, Hide, Show,
        RecordActive
<1> QED
  BY <1>5, <1>6, <1>7, <1>8 DEF Step

\* Where a task is after a step
LEMMA GotoAt ==
    ASSUME TasksOK, NEW s \in Syncers, NEW pc, Goto(s, pc)
    PROVE  syncs'[s].pc = pc /\ syncs'[s].item = syncs[s].item
  BY DEF Goto, TasksOK, Task

LEMMA IterateAt ==
    ASSUME TasksOK, NEW s \in Syncers, NEW pc, NEW x, Iterate(s, pc, x)
    PROVE  syncs'[s].pc = pc /\ syncs'[s].item = x
  BY DEF Iterate, TasksOK, Task

\* A task that is not in between for an object leaves the tasks that are there.
LEMMA DevicesStay ==
    ASSUME NoGhostDevice, NEW s \in Syncers, Alone(s), syncs[s].pc \notin {"unregister", "upsert"},
           devices \subseteq devices', deviceObjects' \subseteq deviceObjects
    PROVE  NoGhostDevice'
  BY DEF NoGhostDevice, For, Alone

LEMMA OrphansStay ==
    ASSUME NEW s \in Syncers, Alone(s), syncs[s].pc \notin {"dropObject", "record"},
           DOMAIN actives \subseteq DOMAIN actives',
           DOMAIN activeObjects' \subseteq DOMAIN activeObjects
    PROVE  Orphans' \subseteq Orphans
  BY DEF Orphans, For, Alone

LEMMA DevicesNoGhost ==
    ASSUME TasksOK, NoGhostDevice, NEW s \in Syncers
    PROVE  Devices(s) => NoGhostDevice' /\ Orphans' \subseteq Orphans
<1> USE DEF At
<1>a. ASSUME Devices(s) PROVE Orphans' \subseteq Orphans
  <2>1. /\ syncs[s].pc \notin {"dropObject", "record"} /\ UNCHANGED actives
        /\ UNCHANGED activeObjects
    BY <1>a DEF Devices, ListGone, RemoveDevice, Unregister, ListLinks, Existing, Refresh,
                Register, Upsert, tables, objects
  <2> QED
    BY <1>a, <2>1, StepAlone, OrphansStay DEF Step
<1>1. ASSUME ListGone(s) \/ ListLinks(s) \/ Existing(s) \/ Refresh(s) PROVE NoGhostDevice'
  <2>1. /\ syncs[s].pc \notin {"unregister", "upsert"} /\ UNCHANGED devices
        /\ deviceObjects' \subseteq deviceObjects
    BY <1>1 DEF ListGone, ListLinks, Existing, Refresh, tables, objects
  <2> QED
    BY <1>1, <2>1, StepAlone, DevicesStay DEF Step, Devices
<1>2. ASSUME RemoveDevice(s) PROVE NoGhostDevice'
  <2>1. PICK l \in syncs[s].todo :
            /\ devices' = devices \ {l}
            /\ Iterate(s, IF l \in devices THEN "unregister" ELSE "gone", l)
    BY <1>2 DEF RemoveDevice
  <2>2. syncs[s].pc = "gone" /\ deviceObjects' = deviceObjects /\ Alone(s)
    BY <1>2, StepAlone DEF RemoveDevice, objects, Step, Devices
  <2>3. l \in devices => syncs'[s].pc = "unregister" /\ syncs'[s].item = l
    BY <2>1, IterateAt
  <2> QED
    BY <2>1, <2>2, <2>3 DEF NoGhostDevice, For, Alone
<1>3. ASSUME Unregister(s) PROVE NoGhostDevice'
  <2>1. /\ deviceObjects' = deviceObjects \ {syncs[s].item} /\ UNCHANGED devices /\ Alone(s)
    BY <1>3, StepAlone DEF Unregister, tables, Step, Devices
  <2> QED
    BY <2>1 DEF NoGhostDevice, For, Alone
<1>4. ASSUME Register(s) PROVE NoGhostDevice'
  <2>1. /\ deviceObjects' = deviceObjects \cup {syncs[s].item} /\ UNCHANGED devices /\ Alone(s)
        /\ syncs[s].pc = "register"
    BY <1>4, StepAlone DEF Register, tables, Step, Devices
  <2>2. syncs'[s].pc = "upsert" /\ syncs'[s].item = syncs[s].item
    BY <1>4, GotoAt DEF Register
  <2> QED
    BY <2>1, <2>2 DEF NoGhostDevice, For, Alone
<1>5. ASSUME Upsert(s) PROVE NoGhostDevice'
  <2>1. /\ devices' = devices \cup {syncs[s].item} /\ UNCHANGED deviceObjects /\ Alone(s)
    BY <1>5, StepAlone DEF Upsert, objects, Step, Devices
  <2> QED
    BY <2>1 DEF NoGhostDevice, For, Alone
<1> QED
  BY <1>a, <1>1, <1>2, <1>3, <1>4, <1>5 DEF Devices

LEMMA ActivesNoGhost ==
    ASSUME TasksOK, NoGhostDevice, NEW s \in Syncers
    PROVE  Actives(s) => NoGhostDevice' /\ Orphans' \subseteq Orphans
<1> USE DEF At
<1>a. ASSUME Actives(s) PROVE NoGhostDevice'
  <2>1. /\ syncs[s].pc \notin {"unregister", "upsert"} /\ UNCHANGED devices
        /\ UNCHANGED deviceObjects
    BY <1>a DEF Actives, ListActive, Desire, ListUndesired, DropActive, DropObject, ListDesired,
                Hide, Show, RecordActive, Finish, tables, objects
  <2> QED
    BY <1>a, <2>1, StepAlone, DevicesStay DEF Step
<1>1. ASSUME \/ ListActive(s) \/ Desire(s) \/ ListUndesired(s) \/ ListDesired(s)
             \/ Hide(s) \/ Finish(s)
      PROVE  Orphans' \subseteq Orphans
  <2>1. /\ syncs[s].pc \notin {"dropObject", "record"} /\ UNCHANGED actives
        /\ DOMAIN activeObjects' \subseteq DOMAIN activeObjects
    BY <1>1 DEF ListActive, Desire, ListUndesired, ListDesired, Hide, Finish, tables, objects, Drop
  <2> QED
    BY <1>1, <2>1, StepAlone, OrphansStay DEF Step, Actives
<1>2. ASSUME DropActive(s) PROVE Orphans' \subseteq Orphans
  <2>1. PICK l \in syncs[s].todo : actives' = Drop(actives, l) /\ Iterate(s, "dropObject", l)
    BY <1>2 DEF DropActive
  <2>2. syncs[s].pc = "drop" /\ activeObjects' = activeObjects /\ Alone(s)
    BY <1>2, StepAlone DEF DropActive, objects, Step, Actives
  <2>3. syncs'[s].pc = "dropObject" /\ syncs'[s].item = l
    BY <2>1, IterateAt
  <2>4. DOMAIN actives' = DOMAIN actives \ {l}
    BY <2>1 DEF Drop
  <2> QED
    BY <2>2, <2>3, <2>4 DEF Orphans, For, Alone
<1>3. ASSUME DropObject(s) PROVE Orphans' \subseteq Orphans
  <2>1. /\ DOMAIN activeObjects' = DOMAIN activeObjects \ {syncs[s].item}
        /\ UNCHANGED actives /\ Alone(s)
    BY <1>3, StepAlone DEF DropObject, Drop, tables, Step, Actives
  <2> QED
    BY <2>1 DEF Orphans, For, Alone
<1>4. ASSUME Show(s) PROVE Orphans' \subseteq Orphans
  <2>1. /\ DOMAIN activeObjects' \subseteq DOMAIN activeObjects \cup {syncs[s].item}
        /\ UNCHANGED actives /\ Alone(s) /\ syncs[s].pc = "show"
    BY <1>4, StepAlone DEF Show, Put, tables, Step, Actives
  <2>2. syncs'[s].pc = "record" /\ syncs'[s].item = syncs[s].item
    BY <1>4, GotoAt DEF Show
  <2> QED
    BY <2>1, <2>2 DEF Orphans, For, Alone
<1>5. ASSUME RecordActive(s) PROVE Orphans' \subseteq Orphans
  <2>1. /\ DOMAIN actives' = DOMAIN actives \cup {syncs[s].item}
        /\ UNCHANGED activeObjects /\ Alone(s)
    BY <1>5, StepAlone DEF RecordActive, Put, objects, Step, Actives
  <2> QED
    BY <2>1 DEF Orphans, For, Alone
<1> QED
  BY <1>a, <1>1, <1>2, <1>3, <1>4, <1>5 DEF Actives

LEMMA OthersNoGhost ==
    ASSUME TasksOK, NoGhostDevice, NEW s \in Syncers,
           Ask(s) \/ Describe(s) \/ AskIwd(s) \/ Profiles(s)
    PROVE  NoGhostDevice' /\ Orphans' \subseteq Orphans
<1>1. /\ syncs[s].pc \notin {"unregister", "upsert", "dropObject", "record"}
      /\ UNCHANGED <<devices, deviceObjects, actives, activeObjects>>
  BY DEF Ask, Describe, AskIwd, Profiles, Lookup, Update, Insert, Export, ListStale, RemoveStale,
         Unexport, At, tables, objects
<1>2. Alone(s)
  BY StepAlone DEF Step
<1> QED
  BY <1>1, <1>2, DevicesStay, OrphansStay

LEMMA StepNoGhost ==
    TasksOK /\ NoGhostDevice /\ [Next]_vars => NoGhostDevice' /\ Orphans' \subseteq Orphans
<1> SUFFICES ASSUME TasksOK, NoGhostDevice, [Next]_vars
             PROVE  NoGhostDevice' /\ Orphans' \subseteq Orphans
  OBVIOUS
<1>1. CASE Disturbance \/ DeleteObject \/ UNCHANGED vars
  <2>1. UNCHANGED <<devices, deviceObjects, actives, activeObjects, syncs>>
    BY <1>1 DEF Disturbance, ChangeLink, ChangeKnown, ChangeJoined, ChangeOutage, Edit, Delete,
                DeleteObject, vars, tables, objects
  <2> QED
    BY <2>1 DEF NoGhostDevice, Orphans, For
<1>2. ASSUME NEW s \in Syncers, Ask(s) \/ Step(s)
      PROVE  NoGhostDevice' /\ Orphans' \subseteq Orphans
  BY <1>2, OthersNoGhost, DevicesNoGhost, ActivesNoGhost DEF Step
<1> QED
  BY <1>1, <1>2 DEF Next

LEMMA GhostInvariant == Spec => [](TasksOK /\ NoGhostDevice)
<1>1. Init => NoGhostDevice
  BY DEF Init, NoGhostDevice
<1>2. TypeInv => TasksOK
  BY DEF TypeInv
<1> QED
  BY <1>1, <1>2, InitTypes, StepTypes, StepNoGhost, PTL DEF Spec

\* However many syncs are under way, on answers however old, every Device object
\* has its record or a task that is about to see to it.
THEOREM NoDeviceStaysBehind == Spec => []NoGhostDevice
  BY GhostInvariant, PTL

\* Nor do the syncs ever take the record of an ActiveConnection object away, or
\* register one, without a task that is about to see to the other.
THEOREM NoOrphanIsMade == Spec => NoNewOrphan
<1>1. TasksOK /\ NoGhostDevice /\ [Next]_vars => [Orphans' \subseteq Orphans]_vars
  BY StepNoGhost
<1> QED
  BY <1>1, GhostInvariant, PTL DEF Spec, NoNewOrphan
=============================================================================

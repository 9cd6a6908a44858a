------------------------ MODULE DeviceObjectsProofs ------------------------
(* What holds of DeviceObjects for any names, kinds of links and bounds.   *)
EXTENDS DeviceObjects, TLAPS

(***************************************************************************)
(* Types                                                                   *)
(***************************************************************************)
Pcs == {"idle", "ask", "points", "dropPoints", "drop", "undo", "tell", "sync", "configs",
        "show", "upsert"}
\* Only wireless links see networks.
Sane(l) == l \in Link /\ (l.p2p \/ l.nets # {} => l.type = "Wlan")
Slots == {l \in Link : Sane(l)} \cup {Gone}
Dropping == {"drop", "undo", "tell"}
Syncing == {"sync", "configs", "show", "upsert"}
Task == [pc: Pcs, seen: [Names -> Slots], ordered: [Names -> SUBSET Networks],
         todo: SUBSET Names, item: Names \cup {Gone}, was: Slots]
Told == [interfaces: [Names -> SUBSET AllInterfaces],
         configs: [Names -> SUBSET Configs], peers: [Names -> SUBSET Networks],
         points: [Names -> SUBSET Networks], listed: [Names -> SUBSET Networks]]

InHand ==
    /\ task.pc \in {"undo", "tell", "configs", "show", "upsert"} => task.item \in Names
    /\ task.pc \in {"undo", "tell"} => task.was # Gone
    /\ task.pc \in {"configs", "show", "upsert"} => task.seen[task.item] # Gone
    /\ task.pc \in Dropping => task.todo = {n \in Known : task.seen[n] = Gone}
    /\ task.pc \in Dropping \ {"drop"} => records[task.item] = Gone
    /\ task.pc \in Syncing => \A n \in Names : task.seen[n] = Gone => n \notin Known \cup task.todo
    /\ task.pc \in Syncing \ {"sync"} => task.item \notin task.todo
TypeInv ==
    /\ links \in [Names -> Slots] /\ changes \in 0..MaxChanges
    /\ records \in [Names -> Slots]
    /\ interfaces \in [Names -> SUBSET AllInterfaces]
    /\ configs \in [Names -> SUBSET Configs] /\ peers \in [Names -> SUBSET Networks]
    /\ points \in [Names -> SUBSET Networks] /\ lists \in [Names -> SUBSET Networks]
    /\ told \in Told /\ morphed \subseteq Names
    /\ task \in Task /\ InHand

-----------------------------------------------------------------------------
(***************************************************************************)
(* Which link the objects of a name, and what was said of them, belong to  *)
(* at each step of a synchronisation                                       *)
(***************************************************************************)
ConfigsOf(l) == IF l = Gone THEN {} ELSE l.configs
PeersOf(l) == IF l = Gone THEN {} ELSE Peers(l)
InterfacesOf(n, l) == IF l = Gone THEN {} ELSE Registered(n, l)
Extra(n) == IF n \in PppNames THEN {} ELSE PppInterfaces

ItemAt(n, pcs) == n = task.item /\ task.pc \in pcs
ConfigLink(n) == CASE ItemAt(n, {"undo"}) -> task.was
                   [] ItemAt(n, {"configs"}) -> Gone
                   [] ItemAt(n, {"show", "upsert"}) -> task.seen[n]
                   [] OTHER -> records[n]
ObjectLink(n) == CASE ItemAt(n, {"undo"}) -> task.was
                   [] ItemAt(n, {"configs", "show"}) -> Gone
                   [] ItemAt(n, {"upsert"}) -> task.seen[n]
                   [] OTHER -> records[n]
ToldConfigLink(n) == CASE ItemAt(n, {"undo", "tell"}) -> task.was
                       [] ItemAt(n, {"show", "upsert"}) -> task.seen[n]
                       [] OTHER -> records[n]
ToldLink(n) == IF ItemAt(n, {"undo", "tell"}) THEN task.was ELSE records[n]

Belong(n) ==
    /\ configs[n] = ConfigsOf(ConfigLink(n))
    /\ peers[n] = PeersOf(ObjectLink(n))
    /\ InterfacesOf(n, ObjectLink(n)) \subseteq interfaces[n]
    /\ interfaces[n] \subseteq InterfacesOf(n, ObjectLink(n)) \cup Extra(n)
Said(n) ==
    /\ told.configs[n] = ConfigsOf(ToldConfigLink(n))
    /\ n \notin morphed => /\ told.peers[n] = PeersOf(records[n])
                           /\ told.interfaces[n] = InterfacesOf(n, ToldLink(n))

-----------------------------------------------------------------------------
(***************************************************************************)
(* Access points                                                           *)
(***************************************************************************)
Lists(n) == /\ task.seen[n].type = "Wlan" => lists[n] = task.ordered[n]
            /\ task.seen[n].type \notin Uncleared \cup {"Wlan"} => lists[n] = {}
PointsOK(n) ==
    /\ told.points[n] = points[n] /\ told.listed[n] = points[n]
    /\ task.pc \in {"idle", "ask", "points"} => points[n] \subseteq lists[n]
    /\ task.pc = "dropPoints" => /\ points[n] \ Described(n) \subseteq lists[n]
                                 /\ Described(n) \subseteq points[n]
    /\ task.pc \in Dropping \cup Syncing => points[n] = Described(n)
    /\ n \in Known \/ ItemAt(n, {"undo", "upsert"}) \/ lists[n] = {}
    /\ task.pc \notin {"idle", "ask"} =>
           /\ Described(n) \subseteq task.ordered[n]
           /\ task.ordered[n] # {} => task.seen[n] # Gone /\ task.seen[n].type = "Wlan"
    /\ ItemAt(n, {"upsert"}) => Lists(n)
    /\ task.pc \in Syncing /\ task.seen[n] # Gone /\ n \notin task.todo
       /\ ~ItemAt(n, {"configs", "show", "upsert"}) => Lists(n) /\ records[n] = task.seen[n]
DeviceInv == \A n \in Names : Belong(n) /\ Said(n) /\ PointsOK(n)

-----------------------------------------------------------------------------
(***************************************************************************)
(* What is registered, listed and taken off again                          *)
(***************************************************************************)
\* Whatever the kind and type, only the PPP interfaces may stay behind.
LEMMA LeftBehind ==
    ASSUME NEW n \in Names, NEW l \in Link
    PROVE  /\ Registered(n, l) \ Unregistered(n, l) \subseteq Extra(n)
           /\ n \in PppNames => Registered(n, l) \subseteq Unregistered(n, l)
BY DEF Registered, Unregistered, Extra, IsPpp

LEMMA ListedAsRegistered ==
    ASSUME NEW n \in Names, NEW l, Sane(l)
    PROVE  /\ Listed(l, n \in PppNames) = Registered(n, l)
           /\ Listed(l, IsPpp(n, l)) = Registered(n, l)
<1>1. l.p2p => l.type = "Wlan"
  BY DEF Sane
<1>2. (IF l.p2p THEN {"WifiP2P"} ELSE {}) = (IF l.type = "Wlan" /\ l.p2p THEN {"WifiP2P"} ELSE {})
  BY <1>1
<1>3. QED BY <1>2 DEF Listed, Registered, IsPpp

\* The kinds and types of two links that list the same are not told apart.
LEMMA SameListed ==
    ASSUME NEW n \in Names, NEW k, Sane(k), NEW l, Sane(l), Listed(k, FALSE) = Listed(l, FALSE)
    PROVE  Registered(n, k) = Registered(n, l) /\ (k.p2p <=> l.p2p)
<1> DEFINE rest(x) == {"Device", "Statistics"} \cup MainInterfaces(x.type)
                      \cup KindInterfaces(x.kind) \cup TypeInterfaces(x.kind, x.type)
                      \cup (IF x.type = "Ppp" THEN PppInterfaces ELSE {})
<1>1. ASSUME NEW x \in Link PROVE "WifiP2P" \notin rest(x)
  <2>1. "WifiP2P" \notin KindInterfaces(x.kind)
    BY DEF Link, Kinds, KindInterfaces, Tunnels, Plain
  <2>2. "WifiP2P" \notin MainInterfaces(x.type) \cup TypeInterfaces(x.kind, x.type)
    BY DEF MainInterfaces, TypeInterfaces
  <2>3. "WifiP2P" \notin {"Device", "Statistics"} \cup PppInterfaces
    BY DEF PppInterfaces
  <2>4. QED BY <2>1, <2>2, <2>3
<1>2. \A x \in Link : Listed(x, FALSE) = rest(x) \cup (IF x.p2p THEN {"WifiP2P"} ELSE {})
  BY DEF Listed
<1>3. k \in Link /\ l \in Link /\ k.p2p \in BOOLEAN /\ l.p2p \in BOOLEAN
  BY DEF Sane, Link
<1>4. k.p2p <=> l.p2p
  <2>1. k.p2p <=> "WifiP2P" \in Listed(k, FALSE)
    BY <1>1, <1>2, <1>3
  <2>2. l.p2p <=> "WifiP2P" \in Listed(l, FALSE)
    BY <1>1, <1>2, <1>3
  <2>3. QED BY <2>1, <2>2, <1>3
<1>5. \A x \in Link : Listed(x, n \in PppNames)
                      = Listed(x, FALSE) \cup (IF n \in PppNames THEN PppInterfaces ELSE {})
  BY DEF Listed
<1>6. Registered(n, k) = Registered(n, l)
  BY <1>3, <1>5, ListedAsRegistered
<1>7. QED BY <1>4, <1>6

LEMMA InterfacesTyped ==
    ASSUME NEW n, NEW l \in Link
    PROVE  Registered(n, l) \subseteq AllInterfaces
<1>1. {"Device", "Statistics"} \cup PppInterfaces \cup {"WifiP2P"} \subseteq AllInterfaces
  BY DEF AllInterfaces
<1>2. MainInterfaces(l.type) \subseteq AllInterfaces
  BY DEF AllInterfaces, MainInterfaces, Link, Types
<1>3. KindInterfaces(l.kind) \subseteq AllInterfaces
  BY DEF AllInterfaces, KindInterfaces, Link, Kinds, Tunnels, Plain
<1>4. TypeInterfaces(l.kind, l.type) \subseteq AllInterfaces
  BY DEF AllInterfaces, TypeInterfaces, Link, Types
<1>5. QED BY <1>1, <1>2, <1>3, <1>4 DEF Registered

-----------------------------------------------------------------------------
(***************************************************************************)
(* Types                                                                   *)
(***************************************************************************)
LEMMA SlotFacts ==
    /\ Gone \in Slots /\ Slots \subseteq Link \cup {Gone} /\ Gone \notin Link /\ Gone \notin Names
    /\ \A l \in Slots : l # Gone => l \in Link /\ Sane(l)
    /\ \A n \in Names : CanBe[n] \subseteq Slots
BY DeviceConstants DEF Slots, Sane

LEMMA LinkFields ==
    ASSUME NEW l \in Link
    PROVE  l.configs \subseteq Configs /\ l.nets \subseteq Networks /\ Peers(l) \subseteq Networks
BY DEF Link, Peers

LEMMA InitTypes == Init => TypeInv
<1> SUFFICES ASSUME Init PROVE TypeInv
  OBVIOUS
<1>1. links \in [Names -> Slots]
  <2>1. ASSUME NEW n \in Names PROVE links[n] \in Slots
    <3>1. CASE links[n] = Gone
      BY <3>1, SlotFacts
    <3>2. CASE links[n] # Gone
      BY <3>2, SlotFacts DEF Init, Present
    <3>3. QED BY <3>1, <3>2
  <2>2. QED BY <2>1 DEF Init
<1>2. \A n \in Present : links[n] \in Link
  BY <1>1, SlotFacts DEF Present
<1>3. interfaces \in [Names -> SUBSET AllInterfaces]
  <2>1. \A n \in Present : Registered(n, links[n]) \subseteq AllInterfaces
    BY <1>2, InterfacesTyped
  <2>2. QED BY <2>1 DEF Init
<1>4. /\ configs \in [Names -> SUBSET Configs] /\ peers \in [Names -> SUBSET Networks]
      /\ points \in [Names -> SUBSET Networks]
  <2>1. \A n \in Present : /\ links[n].configs \subseteq Configs /\ links[n].nets \subseteq Networks
                           /\ Peers(links[n]) \subseteq Networks
    BY <1>2, LinkFields
  <2>2. QED BY <2>1 DEF Init
<1>5. task \in Task /\ InHand
  BY SlotFacts DEF Init, Asleep, NoLink, Nothing, Task, Pcs, InHand, Dropping, Syncing
<1>6. QED BY <1>1, <1>3, <1>4, <1>5, DeviceConstants DEF Init, TypeInv, Told

LEMMA ChangeTypes == TypeInv /\ Change => TypeInv'
<1> SUFFICES ASSUME TypeInv, Change PROVE TypeInv'
  OBVIOUS
<1>1. links' \in [Names -> Slots] /\ changes' \in 0..MaxChanges
  <2>1. PICK n \in Names : \E l \in CanBe[n] \cup {Gone} : links' = [links EXCEPT ![n] = l]
    BY DEF Change
  <2>2. links' \in [Names -> Slots]
    BY <2>1, SlotFacts DEF TypeInv
  <2>3. QED BY <2>2, DeviceConstants DEF Change, TypeInv
<1>2. UNCHANGED <<records, objects, wireless, told, morphed, task>>
  BY DEF Change
<1>3. QED BY <1>1, <1>2 DEF TypeInv, InHand, objects, wireless, Known

LEMMA AskTypes == TypeInv /\ (Ask \/ AskStations) => TypeInv'
<1> SUFFICES ASSUME TypeInv, Ask \/ AskStations PROVE TypeInv'
  OBVIOUS
<1>1. UNCHANGED <<world, records, objects, wireless, told, morphed>>
  BY DEF Ask, AskStations
<1>2. task' \in Task /\ InHand'
  <2>1. CASE Ask
    <3>1. task' = [pc |-> "ask", seen |-> links, ordered |-> Nothing, todo |-> {},
                   item |-> Gone, was |-> Gone]
      BY <2>1 DEF Ask, Asleep
    <3>2. QED BY <3>1, SlotFacts
              DEF TypeInv, Task, Pcs, Nothing, InHand, Dropping, Syncing
  <2>2. CASE AskStations
    <3> DEFINE described(n) == IF task.seen[n] = Gone THEN FALSE ELSE task.seen[n].type = "Wlan"
               nets(n) == IF described(n) /\ n \in Present THEN links[n].nets ELSE {}
               both(n) == IF task.seen[n] = Gone THEN Gone
                          ELSE [task.seen[n] EXCEPT !.nets = @ \cap nets(n)]
    <3>1. /\ At("ask")
          /\ task' = [task EXCEPT !.pc = "points", !.ordered = [n \in Names |-> nets(n)],
                                  !.seen = [n \in Names |-> both(n)]]
      BY <2>2 DEF AskStations
    <3>2. ASSUME NEW n \in Names PROVE both(n) \in Slots /\ nets(n) \subseteq Networks
      <4>1. task.seen[n] \in Slots /\ links[n] \in Slots
        BY DEF TypeInv, Task
      <4>2. nets(n) \subseteq Networks
        BY <4>1, SlotFacts, LinkFields DEF Present
      <4>3. CASE task.seen[n] = Gone
        BY <4>2, <4>3, SlotFacts
      <4>4. CASE task.seen[n] # Gone
        <5>1. task.seen[n] \in Link /\ Sane(task.seen[n])
          BY <4>1, <4>4, SlotFacts
        <5> DEFINE l == [task.seen[n] EXCEPT !.nets = @ \cap nets(n)]
        <5>2. l \in Link /\ l.type = task.seen[n].type /\ l.p2p = task.seen[n].p2p
              /\ l.nets = task.seen[n].nets \cap nets(n)
          BY <5>1 DEF Link
        <5>3. Sane(l)
          BY <5>1, <5>2 DEF Sane
        <5>4. both(n) = l
          BY <4>4
        <5>5. QED BY <4>2, <5>2, <5>3, <5>4 DEF Slots
      <4>5. QED BY <4>3, <4>4
    <3>3. [n \in Names |-> both(n)] \in [Names -> Slots]
          /\ [n \in Names |-> nets(n)] \in [Names -> SUBSET Networks]
      BY <3>2
    <3> HIDE DEF both, nets
    <3>4. QED BY <3>1, <3>3 DEF TypeInv, Task, Pcs, InHand, Dropping, Syncing
  <2>3. QED BY <2>1, <2>2
<1>3. QED BY <1>1, <1>2 DEF TypeInv, world, objects, wireless

LEMMA DescribedTyped ==
    ASSUME TypeInv, NEW n \in Names
    PROVE  Described(n) \subseteq Networks
<1>1. task.seen[n] \in Slots
  BY DEF TypeInv, Task
<1>2. QED BY <1>1, SlotFacts, LinkFields DEF Described

LEMMA PointsTypes == TypeInv /\ (PutPoints \/ DropPoints) => TypeInv'
<1> SUFFICES ASSUME TypeInv, PutPoints \/ DropPoints PROVE TypeInv'
  OBVIOUS
<1>1. UNCHANGED <<world, records, objects, lists, morphed>>
  BY DEF PutPoints, DropPoints
<1>2. points' \in [Names -> SUBSET Networks]
  BY DescribedTyped DEF PutPoints, DropPoints, TypeInv
<1>3. told' \in Told
  <2>1. PICK p, l \in [Names -> SUBSET Networks] :
            told' = [told EXCEPT !.points = p, !.listed = l]
    <3>1. CASE PutPoints
      BY <3>1, DescribedTyped DEF PutPoints, TypeInv, Told
    <3>2. CASE DropPoints
      BY <3>2 DEF DropPoints, TypeInv, Told
    <3>3. QED BY <3>1, <3>2
  <2>2. QED BY <2>1 DEF TypeInv, Told
<1>4. task' \in Task /\ InHand'
  <2>1. CASE PutPoints
    BY <2>1 DEF PutPoints, Goto, TypeInv, Task, Pcs, InHand, Dropping, Syncing
  <2>2. CASE DropPoints
    <3> DEFINE gone == {n \in Known : task.seen[n] = Gone}
    <3>1. gone \in SUBSET Names
      BY DEF Known
    <3>2. task' = [task EXCEPT !.pc = "drop", !.todo = gone] /\ records' = records
      BY <2>2, <1>1 DEF DropPoints
    <3>3. gone = {n \in Known' : task.seen[n] = Gone}
      BY <3>2 DEF Known
    <3> HIDE DEF gone
    <3>4. task' \in Task /\ task'.pc = "drop" /\ task'.todo = gone /\ task'.seen = task.seen
      BY <3>1, <3>2 DEF TypeInv, Task, Pcs
    <3>5. QED BY <3>3, <3>4 DEF InHand, Dropping, Syncing
  <2>3. QED BY <2>1, <2>2
<1>5. QED BY <1>1, <1>2, <1>3, <1>4 DEF TypeInv, world, objects

LEMMA DropTypes == TypeInv /\ Drop => TypeInv'
<1> SUFFICES ASSUME TypeInv, Drop PROVE TypeInv'
  OBVIOUS
<1>1. UNCHANGED <<world, objects, wireless, morphed>> /\ At("drop")
  BY DEF Drop
<1>2. CASE /\ task.todo = {}
           /\ task' = [task EXCEPT !.pc = "sync", !.todo = {n \in Names : task.seen[n] # Gone}]
           /\ UNCHANGED <<records, told>>
  <2> DEFINE all == {n \in Names : task.seen[n] # Gone}
  <2>1. all \in SUBSET Names
    OBVIOUS
  <2>2. \A n \in Names : task.seen[n] = Gone => n \notin Known' \cup all
    BY <1>1, <1>2 DEF At, TypeInv, InHand, Dropping, Known
  <2>3. task' = [task EXCEPT !.pc = "sync", !.todo = all]
    BY <1>2
  <2> HIDE DEF all
  <2>4. /\ task' \in Task /\ task'.pc = "sync" /\ task'.todo = all
        /\ task'.seen = task.seen
    BY <2>1, <2>3 DEF TypeInv, Task, Pcs
  <2>5. InHand'
    BY <2>2, <2>4 DEF InHand, Dropping, Syncing
  <2>6. QED BY <1>1, <1>2, <2>4, <2>5 DEF TypeInv, world, objects, wireless
<1>3. CASE \E n \in task.todo :
              /\ task' = [task EXCEPT !.pc = "undo", !.todo = @ \ {n}, !.item = n,
                                      !.was = records[n]]
              /\ records' = [records EXCEPT ![n] = Gone]
              /\ told' = [told EXCEPT !.peers[n] = @ \ Peers(records[n])]
  <2>1. PICK n \in task.todo :
              /\ task' = [task EXCEPT !.pc = "undo", !.todo = @ \ {n}, !.item = n,
                                      !.was = records[n]]
              /\ records' = [records EXCEPT ![n] = Gone]
              /\ told' = [told EXCEPT !.peers[n] = @ \ Peers(records[n])]
    BY <1>3
  <2>2. n \in Names /\ records[n] \in Slots /\ records[n] # Gone /\ task.todo \in SUBSET Names
        /\ task.todo = {m \in Known : task.seen[m] = Gone}
    BY <1>1 DEF At, TypeInv, Task, InHand, Dropping, Known
  <2>3. records' \in [Names -> Slots] /\ records'[n] = Gone
    BY <2>1, <2>2, SlotFacts DEF TypeInv
  <2>4. /\ task' \in Task /\ task'.pc = "undo" /\ task'.todo = task.todo \ {n}
        /\ task'.item = n /\ task'.was = records[n] /\ task'.seen = task.seen
    BY <2>1, <2>2 DEF TypeInv, Task, Pcs
  <2>5. Known' = Known \ {n}
    BY <2>1, <2>2 DEF TypeInv, Known
  <2>6. InHand'
    BY <2>2, <2>3, <2>4, <2>5 DEF InHand, Dropping, Syncing
  <2>7. told' \in Told
    <3> DEFINE rest == told.peers[n] \ Peers(records[n])
    <3>1. rest \in SUBSET Networks
      BY <2>2 DEF TypeInv, Told
    <3>2. told' = [told EXCEPT !.peers = [told.peers EXCEPT ![n] = rest]]
      BY <2>1
    <3> HIDE DEF rest
    <3>3. [told.peers EXCEPT ![n] = rest] \in [Names -> SUBSET Networks]
      BY <2>2, <3>1 DEF TypeInv, Told
    <3>4. QED BY <3>2, <3>3 DEF TypeInv, Told
  <2>8. QED BY <1>1, <2>3, <2>4, <2>6, <2>7 DEF TypeInv, world, objects, wireless
<1>4. QED BY <1>2, <1>3 DEF Drop

LEMMA UndoTypes == TypeInv /\ Undo => TypeInv'
<1> SUFFICES ASSUME TypeInv, Undo PROVE TypeInv'
  OBVIOUS
<1>1. At("undo") /\ task' = [task EXCEPT !.pc = "tell"]
      /\ UNCHANGED <<world, records, points, told, morphed>>
  BY DEF Undo, Goto
<1>2. task' \in Task /\ InHand'
  BY <1>1 DEF At, TypeInv, Task, Pcs, InHand, Dropping, Syncing, Known
<1>3. task.item \in Names
  BY <1>1 DEF At, TypeInv, InHand
<1>4. interfaces' \in [Names -> SUBSET AllInterfaces] /\ configs' \in [Names -> SUBSET Configs]
  BY <1>3 DEF Undo, TypeInv
<1>5. peers' \in [Names -> SUBSET Networks] /\ lists' \in [Names -> SUBSET Networks]
  BY <1>3 DEF Undo, TypeInv
<1>6. QED BY <1>1, <1>2, <1>4, <1>5 DEF TypeInv, world

LEMMA TellTypes == TypeInv /\ Tell => TypeInv'
<1> SUFFICES ASSUME TypeInv, Tell PROVE TypeInv'
  OBVIOUS
<1>1. At("tell") /\ task' = [task EXCEPT !.pc = "drop", !.was = Gone]
      /\ UNCHANGED <<world, records, objects, wireless, morphed>>
  BY DEF Tell
<1>2. task' \in Task /\ InHand'
  BY <1>1, SlotFacts DEF At, TypeInv, Task, Pcs, InHand, Dropping, Syncing, Known
<1>3. task.item \in Names
  BY <1>1 DEF At, TypeInv, InHand
<1>4. told' \in Told
  <2> DEFINE c == told.configs[task.item] \ task.was.configs
             i == told.interfaces[task.item] \ Listed(task.was, IsPpp(task.item, task.was))
  <2>1. c \in SUBSET Configs /\ i \in SUBSET AllInterfaces
    BY <1>3 DEF TypeInv, Told
  <2>2. told' = [told EXCEPT !.configs = [told.configs EXCEPT ![task.item] = c],
                             !.interfaces = [told.interfaces EXCEPT ![task.item] = i]]
    BY DEF Tell
  <2> HIDE DEF c, i
  <2>3. /\ [told.configs EXCEPT ![task.item] = c] \in [Names -> SUBSET Configs]
        /\ [told.interfaces EXCEPT ![task.item] = i] \in [Names -> SUBSET AllInterfaces]
    BY <1>3, <2>1 DEF TypeInv, Told
  <2>4. QED BY <2>2, <2>3 DEF TypeInv, Told
<1>5. QED BY <1>1, <1>2, <1>4 DEF TypeInv, world, objects, wireless

LEMMA HideTypes == TypeInv /\ Hide => TypeInv'
<1> SUFFICES ASSUME TypeInv, Hide PROVE TypeInv'
  OBVIOUS
<1>1. At("sync") /\ UNCHANGED <<world, records, wireless, told, morphed>>
  BY DEF Hide
<1>2. \/ task.todo = {} /\ task' = Asleep /\ UNCHANGED objects
      \/ \E n \in task.todo :
            /\ task' = [task EXCEPT !.pc = "configs", !.todo = @ \ {n}, !.item = n]
            /\ \/ UNCHANGED objects
               \/ /\ interfaces' = [interfaces EXCEPT ![n] = @ \ Unregistered(n, records[n])]
                  /\ configs' = [configs EXCEPT ![n] = @ \ records[n].configs]
                  /\ peers' = [peers EXCEPT ![n] = @ \ Peers(records[n])]
  BY DEF Hide
<1>3. task.todo \subseteq Names /\ \A n \in task.todo : task.seen[n] # Gone
  BY <1>1 DEF At, TypeInv, Task, InHand, Syncing
<1>4. /\ interfaces' \in [Names -> SUBSET AllInterfaces] /\ configs' \in [Names -> SUBSET Configs]
      /\ peers' \in [Names -> SUBSET Networks]
  <2>1. CASE UNCHANGED objects
    BY <2>1 DEF TypeInv, objects
  <2>2. ASSUME NEW n \in task.todo,
               interfaces' = [interfaces EXCEPT ![n] = @ \ Unregistered(n, records[n])],
               configs' = [configs EXCEPT ![n] = @ \ records[n].configs],
               peers' = [peers EXCEPT ![n] = @ \ Peers(records[n])]
        PROVE  /\ interfaces' \in [Names -> SUBSET AllInterfaces]
               /\ configs' \in [Names -> SUBSET Configs]
               /\ peers' \in [Names -> SUBSET Networks]
    BY <1>3, <2>2 DEF TypeInv
  <2>3. QED BY <1>2, <2>1, <2>2
<1>5. task' \in Task /\ InHand'
  <2>1. CASE task' = Asleep
    BY <2>1, SlotFacts DEF TypeInv, Asleep, Nothing, NoLink, Task, Pcs, InHand, Dropping, Syncing
  <2>2. ASSUME NEW n \in task.todo,
               task' = [task EXCEPT !.pc = "configs", !.todo = @ \ {n}, !.item = n]
        PROVE  task' \in Task /\ InHand'
    <3>1. /\ task' \in Task /\ task'.pc = "configs" /\ task'.todo = task.todo \ {n}
          /\ task'.item = n /\ task'.seen = task.seen
      BY <1>3, <2>2 DEF TypeInv, Task, Pcs
    <3>2. QED BY <1>1, <1>3, <3>1 DEF At, TypeInv, InHand, Dropping, Syncing, Known
  <2>3. QED BY <1>2, <2>1, <2>2
<1>6. QED BY <1>1, <1>4, <1>5 DEF TypeInv, world, wireless

\* The link at hand has the type of one.
LEMMA ItemTyped ==
    ASSUME TypeInv, task.pc \in {"configs", "show", "upsert"}
    PROVE  /\ task.item \in Names /\ Seen \in Link /\ Sane(Seen) /\ Seen # Gone
           /\ Seen.configs \subseteq Configs /\ Seen.nets \subseteq Networks
           /\ task.ordered[task.item] \subseteq Networks
<1>1. task.item \in Names /\ Seen # Gone /\ Seen \in Slots
  BY DEF Seen, TypeInv, InHand, Task
<1>2. Seen \in Link /\ Sane(Seen)
  BY <1>1, SlotFacts
<1>3. QED BY <1>1, <1>2, LinkFields DEF TypeInv, Task

LEMMA ShowConfigsTypes == TypeInv /\ ShowConfigs => TypeInv'
<1> SUFFICES ASSUME TypeInv, ShowConfigs PROVE TypeInv'
  OBVIOUS
<1>1. At("configs") /\ task' = [task EXCEPT !.pc = "show"]
      /\ UNCHANGED <<world, records, interfaces, peers, wireless, morphed>>
  BY DEF ShowConfigs, Goto
<1>2. task.item \in Names /\ Seen.configs \subseteq Configs
  BY <1>1, ItemTyped DEF At
<1>3. task' \in Task /\ InHand'
  BY <1>1 DEF At, TypeInv, Task, Pcs, InHand, Dropping, Syncing, Known
<1>4. configs' \in [Names -> SUBSET Configs]
  BY <1>2 DEF ShowConfigs, TypeInv
<1>5. told' \in Told
  <2> DEFINE c == (told.configs[task.item] \ (OldConfigs \ Seen.configs))
                  \cup (Seen.configs \ OldConfigs)
  <2>1. c \in SUBSET Configs
    BY <1>2 DEF TypeInv, Told
  <2>2. told' = [told EXCEPT !.configs = [told.configs EXCEPT ![task.item] = c]]
    BY DEF ShowConfigs
  <2> HIDE DEF c
  <2>3. [told.configs EXCEPT ![task.item] = c] \in [Names -> SUBSET Configs]
    BY <1>2, <2>1 DEF TypeInv, Told
  <2>4. QED BY <2>2, <2>3 DEF TypeInv, Told
<1>6. QED BY <1>1, <1>3, <1>4, <1>5 DEF TypeInv, world, wireless

LEMMA ShowTypes == TypeInv /\ Show => TypeInv'
<1> SUFFICES ASSUME TypeInv, Show PROVE TypeInv'
  OBVIOUS
<1>1. At("show") /\ task' = [task EXCEPT !.pc = "upsert"]
      /\ UNCHANGED <<world, records, configs, points, told, morphed>>
  BY DEF Show, Goto
<1>2. /\ task.item \in Names /\ Registered(task.item, Seen) \subseteq AllInterfaces
      /\ Peers(Seen) \subseteq Networks /\ task.ordered[task.item] \subseteq Networks
  BY <1>1, ItemTyped, InterfacesTyped, LinkFields DEF At
<1>3. task' \in Task /\ InHand'
  BY <1>1 DEF At, TypeInv, Task, Pcs, InHand, Dropping, Syncing, Known
<1>4. interfaces' \in [Names -> SUBSET AllInterfaces]
  BY <1>2 DEF Show, TypeInv
<1>5. peers' \in [Names -> SUBSET Networks]
  BY <1>2 DEF Show, TypeInv
<1>6. lists' \in [Names -> SUBSET Networks]
  <2> DEFINE new == CASE Seen.type = "Wlan" -> task.ordered[task.item]
                      [] Seen.type \in Uncleared -> lists[task.item]
                      [] OTHER -> {}
  <2>1. new \in SUBSET Networks
    BY <1>2 DEF TypeInv, Uncleared
  <2>2. lists' = [lists EXCEPT ![task.item] = new]
    BY DEF Show
  <2> HIDE DEF new
  <2>3. QED BY <1>2, <2>1, <2>2 DEF TypeInv
<1>7. QED BY <1>1, <1>3, <1>4, <1>5, <1>6 DEF TypeInv, world

LEMMA UpsertTypes == TypeInv /\ Upsert => TypeInv'
<1> SUFFICES ASSUME TypeInv, Upsert PROVE TypeInv'
  OBVIOUS
<1> DEFINE n == task.item
           new == n \notin Known
           old == IF new THEN {} ELSE Peers(Record)
           i == IF new THEN told.interfaces[n] \cup Listed(Seen, n \in PppNames)
                ELSE told.interfaces[n]
           q == IF Seen.p2p THEN (told.peers[n] \ (old \ Seen.nets)) \cup (Seen.nets \ old)
                ELSE told.peers[n]
<1>1. /\ At("upsert") /\ task' = [task EXCEPT !.pc = "sync"]
      /\ UNCHANGED <<world, objects, wireless>> /\ records' = [records EXCEPT ![n] = Seen]
      /\ morphed' \subseteq morphed \cup {n}
  BY DEF Upsert, Goto
<1>2. n \in Names /\ Seen \in Link /\ Sane(Seen) /\ Seen # Gone /\ Seen.nets \subseteq Networks
  BY <1>1, ItemTyped DEF At
<1>3. records' \in [Names -> Slots] /\ Known' = Known \cup {n}
  BY <1>1, <1>2 DEF TypeInv, Slots, Known
<1>4. task' \in Task /\ InHand'
  <2>1. task' \in Task /\ task'.pc = "sync" /\ task'.seen = task.seen /\ task'.todo = task.todo
    BY <1>1 DEF TypeInv, Task, Pcs
  <2>2. task.seen[n] # Gone /\ \A m \in Names : task.seen[m] = Gone => m \notin Known \cup task.todo
    BY <1>1, <1>2 DEF At, TypeInv, InHand, Syncing, Seen
  <2>3. QED BY <1>3, <2>1, <2>2 DEF InHand, Dropping, Syncing
<1>5. told' \in Told
  <2>1. i \in SUBSET AllInterfaces /\ q \in SUBSET Networks
    BY <1>2, ListedAsRegistered, InterfacesTyped DEF TypeInv, Told
  <2>2. told' = [told EXCEPT !.interfaces = [told.interfaces EXCEPT ![n] = i],
                             !.peers = [told.peers EXCEPT ![n] = q]]
    BY DEF Upsert
  <2> HIDE DEF i, q
  <2>3. /\ [told.interfaces EXCEPT ![n] = i] \in [Names -> SUBSET AllInterfaces]
        /\ [told.peers EXCEPT ![n] = q] \in [Names -> SUBSET Networks]
    BY <1>2, <2>1 DEF TypeInv, Told
  <2>4. QED BY <2>2, <2>3 DEF TypeInv, Told
<1>6. QED BY <1>1, <1>2, <1>3, <1>4, <1>5 DEF TypeInv, world, objects, wireless

LEMMA StutterTypes == TypeInv /\ UNCHANGED vars => TypeInv'
BY DEF vars, world, objects, wireless, TypeInv, InHand, Known

LEMMA NextTypes == TypeInv /\ [Next]_vars => TypeInv'
BY ChangeTypes, AskTypes, PointsTypes, DropTypes, UndoTypes, TellTypes, HideTypes,
   ShowConfigsTypes, ShowTypes, UpsertTypes, StutterTypes DEF Next, Step

-----------------------------------------------------------------------------
(***************************************************************************)
(* Preservation of DeviceInv                                               *)
(***************************************************************************)
\* Steps at which some objects of the item do not follow from its record
Held == {"undo", "tell", "configs", "show", "upsert"}

LEMMA Untouched ==
    ASSUME NEW n \in Names, Belong(n), Said(n),
           interfaces'[n] = interfaces[n], configs'[n] = configs[n], peers'[n] = peers[n],
           records'[n] = records[n], told'.configs[n] = told.configs[n],
           told'.peers[n] = told.peers[n], told'.interfaces[n] = told.interfaces[n],
           n \notin morphed' => n \notin morphed,
           n # task.item \/ task.pc \notin Held, n # task'.item \/ task'.pc \notin Held
    PROVE  Belong(n)' /\ Said(n)'
<1>1. ConfigLink(n)' = ConfigLink(n) /\ ToldConfigLink(n)' = ToldConfigLink(n)
  BY DEF ConfigLink, ToldConfigLink, ItemAt, Held
<1>2. ObjectLink(n)' = ObjectLink(n) /\ ToldLink(n)' = ToldLink(n)
  BY DEF ObjectLink, ToldLink, ItemAt, Held
<1>3. Belong(n)'
  BY <1>1, <1>2 DEF Belong, ConfigsOf, PeersOf, InterfacesOf
<1>4. Said(n)'
  BY <1>1, <1>2 DEF Said, ConfigsOf, PeersOf, InterfacesOf
<1>5. QED BY <1>3, <1>4

LEMMA DescribedOf ==
    ASSUME NEW n, task'.seen = task.seen
    PROVE  Described(n)' = Described(n) /\ task'.seen[n] = task.seen[n]
BY DEF Described

LEMMA InitFollows == Init => DeviceInv
<1> SUFFICES ASSUME Init, NEW n \in Names PROVE Belong(n) /\ Said(n) /\ PointsOK(n)
  BY DEF DeviceInv
<1>1. /\ task.pc = "idle" /\ records = links /\ (n \in Known <=> n \in Present)
      /\ records[n] = Gone <=> n \notin Present
  BY DEF Init, Asleep, Known, Present
<1>2. /\ ConfigLink(n) = records[n] /\ ObjectLink(n) = records[n]
      /\ ToldConfigLink(n) = records[n] /\ ToldLink(n) = records[n]
  BY <1>1 DEF ConfigLink, ObjectLink, ToldConfigLink, ToldLink, ItemAt
<1>3. Belong(n) /\ Said(n)
  BY <1>1, <1>2 DEF Init, Belong, Said, ConfigsOf, PeersOf, InterfacesOf
<1>4. PointsOK(n)
  BY <1>1 DEF Init, PointsOK, Dropping, Syncing, ItemAt
<1>5. QED BY <1>3, <1>4

LEMMA ChangeFollows == DeviceInv /\ Change => DeviceInv'
BY DEF DeviceInv, Change, objects, wireless, Belong, Said, PointsOK, Lists, ConfigLink, ObjectLink,
       ToldConfigLink, ToldLink, ItemAt, ConfigsOf, PeersOf, InterfacesOf, Known, Described

LEMMA AskFollows == TypeInv /\ DeviceInv /\ (Ask \/ AskStations) => DeviceInv'
<1> SUFFICES ASSUME TypeInv, DeviceInv, Ask \/ AskStations, NEW n \in Names
             PROVE  Belong(n)' /\ Said(n)' /\ PointsOK(n)'
  BY DEF DeviceInv
<1>1. Belong(n) /\ Said(n) /\ PointsOK(n)
  BY DEF DeviceInv
<1>2. UNCHANGED <<interfaces, configs, peers, points, lists, records, told, morphed>>
  BY DEF Ask, AskStations, objects, wireless
<1>3. task.pc \in {"idle", "ask"} /\ task'.pc \in {"ask", "points"}
  BY DEF Ask, AskStations, At, Asleep, TypeInv, Task
<1>4. Belong(n)' /\ Said(n)'
  BY <1>1, <1>2, <1>3, Untouched DEF Held
<1>5. PointsOK(n)'
  <2>1. CASE Ask
    <3>1. task'.pc = "ask"
      BY <2>1 DEF Ask, Asleep
    <3>2. QED BY <1>1, <1>2, <1>3, <3>1 DEF PointsOK, ItemAt, Dropping, Syncing, Known
  <2>2. CASE AskStations
    <3> DEFINE described(m) == IF task.seen[m] = Gone THEN FALSE ELSE task.seen[m].type = "Wlan"
               nets(m) == IF described(m) /\ m \in Present THEN links[m].nets ELSE {}
               both(m) == IF task.seen[m] = Gone THEN Gone
                          ELSE [task.seen[m] EXCEPT !.nets = @ \cap nets(m)]
    <3>1. task' = [task EXCEPT !.pc = "points", !.ordered = [m \in Names |-> nets(m)],
                               !.seen = [m \in Names |-> both(m)]]
      BY <2>2 DEF AskStations
    <3>2. task'.pc = "points" /\ task'.ordered[n] = nets(n) /\ task'.seen[n] = both(n)
      BY <3>1 DEF TypeInv, Task
    <3>3. task.seen[n] # Gone => /\ both(n) # Gone /\ both(n).type = task.seen[n].type
                                 /\ both(n).nets = task.seen[n].nets \cap nets(n)
      <4>1. task.seen[n] \in Slots /\ task'.seen[n] \in Slots
        BY AskTypes DEF TypeInv, Task
      <4>2. SUFFICES ASSUME task.seen[n] # Gone
                     PROVE  /\ both(n) # Gone /\ both(n).type = task.seen[n].type
                            /\ both(n).nets = task.seen[n].nets \cap nets(n)
        OBVIOUS
      <4>3. task.seen[n] \in Link
        BY <4>1, <4>2, SlotFacts
      <4>4. both(n) = [task.seen[n] EXCEPT !.nets = @ \cap nets(n)]
        BY <4>2
      <4>5. both(n).type = task.seen[n].type /\ both(n).nets = task.seen[n].nets \cap nets(n)
        BY <4>3, <4>4 DEF Link
      <4>6. both(n) \in [kind: Kinds, type: Types, p2p: BOOLEAN, configs: SUBSET Configs,
                         nets: SUBSET Networks]
        BY <4>3, <4>4 DEF Link
      <4>7. QED BY <4>5, <4>6, SlotFacts DEF Link
    <3>4. both(n) = Gone => task.seen[n] = Gone
      BY <3>3
    <3>5. Described(n)' \subseteq task'.ordered[n]
      BY <3>2, <3>3, <3>4 DEF Described
    <3>6. task'.ordered[n] # {} => task'.seen[n] # Gone /\ task'.seen[n].type = "Wlan"
      BY <3>2, <3>3
    <3> HIDE DEF both, nets, described
    <3>7. task.pc = "ask"
      BY <2>2 DEF AskStations, At
    <3>8. QED BY <1>1, <1>2, <3>2, <3>5, <3>6, <3>7 DEF PointsOK, ItemAt, Dropping, Syncing, Known
  <2>3. QED BY <2>1, <2>2
<1>6. QED BY <1>4, <1>5

LEMMA PointsFollows == TypeInv /\ DeviceInv /\ (PutPoints \/ DropPoints) => DeviceInv'
<1> SUFFICES ASSUME TypeInv, DeviceInv, PutPoints \/ DropPoints, NEW n \in Names
             PROVE  Belong(n)' /\ Said(n)' /\ PointsOK(n)'
  BY DEF DeviceInv
<1>1. Belong(n) /\ Said(n) /\ PointsOK(n)
  BY DEF DeviceInv
<1>2. UNCHANGED <<interfaces, configs, peers, lists, records, morphed>>
  BY DEF PutPoints, DropPoints, objects
<1>3. /\ told'.configs = told.configs /\ told'.peers = told.peers
      /\ told'.interfaces = told.interfaces
  BY DEF PutPoints, DropPoints, TypeInv, Told
<1>4. /\ task.pc \in {"points", "dropPoints"} /\ task'.pc \in {"dropPoints", "drop"}
      /\ task'.seen = task.seen /\ task'.ordered = task.ordered
  BY DEF PutPoints, DropPoints, At, Goto, TypeInv, Task
<1>5. Belong(n)' /\ Said(n)'
  BY <1>1, <1>2, <1>3, <1>4, Untouched DEF Held
<1>6. PointsOK(n)'
  <2>1. CASE PutPoints
    <3>1. task.pc = "points" /\ task'.pc = "dropPoints"
      BY <2>1 DEF PutPoints, At, Goto, TypeInv, Task
    <3>2. /\ points'[n] = points[n] \cup Described(n)
          /\ told'.points[n] = told.points[n] \cup (Described(n) \ points[n])
          /\ told'.listed[n] = told.listed[n] \cup (Described(n) \ points[n])
      BY <2>1 DEF PutPoints, TypeInv, Told
    <3>3. QED BY <1>1, <1>2, <1>4, <3>1, <3>2, DescribedOf
              DEF PointsOK, ItemAt, Dropping, Syncing, Known
  <2>2. CASE DropPoints
    <3>1. task.pc = "dropPoints" /\ task'.pc = "drop"
      BY <2>2 DEF DropPoints, At, TypeInv, Task
    <3>2. /\ points'[n] = points[n] \cap Described(n)
          /\ told'.points[n] = told.points[n] \ (points[n] \ Described(n))
          /\ told'.listed[n] = told.listed[n] \ ((points[n] \ Described(n)) \cap lists[n])
      BY <2>2 DEF DropPoints, TypeInv, Told
    <3>3. QED BY <1>1, <1>2, <1>4, <3>1, <3>2, DescribedOf
              DEF PointsOK, ItemAt, Dropping, Syncing, Known
  <2>3. QED BY <2>1, <2>2
<1>7. QED BY <1>5, <1>6

\* The two answers of iwd do not change while the devices are gone through.
LEMMA SameAnswer ==
    ASSUME NEW n \in Names, task'.seen = task.seen, task'.ordered = task.ordered,
           lists'[n] = lists[n]
    PROVE  Described(n)' = Described(n) /\ Lists(n)' = Lists(n)
BY DEF Described, Lists

\* Of a device that is not at hand before or after a step, nothing changes but what
\* is left to do.
LEMMA PointsElsewhere ==
    ASSUME NEW n \in Names, PointsOK(n), points'[n] = points[n], lists'[n] = lists[n],
           records'[n] = records[n], told'.points = told.points, told'.listed = told.listed,
           task'.seen = task.seen, task'.ordered = task.ordered,
           task.pc \in Dropping \cup Syncing, task'.pc \in Dropping \cup Syncing,
           n # task.item \/ task.pc \notin Held, n # task'.item \/ task'.pc \notin Held,
           task'.pc \in Syncing => \/ task'.seen[n] = Gone \/ n \in task'.todo
                                   \/ task.pc \in Syncing /\ n \notin task.todo
    PROVE  PointsOK(n)'
<1>1. Described(n)' = Described(n) /\ Lists(n)' = Lists(n) /\ (n \in Known' <=> n \in Known)
  BY SameAnswer DEF Known
<1>2. QED BY <1>1 DEF PointsOK, ItemAt, Dropping, Syncing, Held

LEMMA DropFollows == TypeInv /\ DeviceInv /\ Drop => DeviceInv'
<1> SUFFICES ASSUME TypeInv, DeviceInv, Drop, NEW n \in Names
             PROVE  Belong(n)' /\ Said(n)' /\ PointsOK(n)'
  BY DEF DeviceInv
<1>1. Belong(n) /\ Said(n) /\ PointsOK(n)
  BY DEF DeviceInv
<1>2. UNCHANGED <<interfaces, configs, peers, points, lists, morphed>> /\ task.pc = "drop"
  BY DEF Drop, At, objects, wireless
<1>3. CASE /\ task.todo = {}
           /\ task' = [task EXCEPT !.pc = "sync", !.todo = {m \in Names : task.seen[m] # Gone}]
           /\ UNCHANGED <<records, told>>
  <2>1. /\ task'.pc = "sync" /\ task'.todo = {m \in Names : task.seen[m] # Gone}
        /\ task'.seen = task.seen /\ task'.ordered = task.ordered
    BY <1>3 DEF TypeInv, Task
  <2>2. Belong(n)' /\ Said(n)'
    BY <1>1, <1>2, <1>3, <2>1, Untouched DEF Held
  <2>3. PointsOK(n)'
    BY <1>1, <1>2, <1>3, <2>1, PointsElsewhere DEF Held, Dropping, Syncing
  <2>4. QED BY <2>2, <2>3
<1>4. CASE \E m \in task.todo :
              /\ task' = [task EXCEPT !.pc = "undo", !.todo = @ \ {m}, !.item = m,
                                      !.was = records[m]]
              /\ records' = [records EXCEPT ![m] = Gone]
              /\ told' = [told EXCEPT !.peers[m] = @ \ Peers(records[m])]
  <2>1. PICK m \in task.todo :
              /\ task' = [task EXCEPT !.pc = "undo", !.todo = @ \ {m}, !.item = m,
                                      !.was = records[m]]
              /\ records' = [records EXCEPT ![m] = Gone]
              /\ told' = [told EXCEPT !.peers[m] = @ \ Peers(records[m])]
    BY <1>4
  <2>2. m \in Names /\ m \in Known /\ task.seen[m] = Gone
    BY <1>2 DEF TypeInv, InHand, Dropping, Known
  <2>3. /\ task'.pc = "undo" /\ task'.todo = task.todo \ {m} /\ task'.item = m
        /\ task'.was = records[m] /\ task'.seen = task.seen /\ task'.ordered = task.ordered
    BY <2>1 DEF TypeInv, Task
  <2>4. /\ told'.points = told.points /\ told'.listed = told.listed
        /\ told'.configs = told.configs /\ told'.interfaces = told.interfaces
        /\ told'.peers[m] = told.peers[m] \ Peers(records[m])
        /\ n # m => told'.peers[n] = told.peers[n]
    <3>1. told' = [told EXCEPT !.peers = [told.peers EXCEPT ![m] = told.peers[m] \ Peers(records[m])]]
      BY <2>1
    <3>2. QED BY <2>2, <3>1 DEF TypeInv, Told
  <2>5. records'[m] = Gone /\ (n # m => records'[n] = records[n])
    BY <2>1, <2>2 DEF TypeInv
  <2>6. CASE n # m
    <3>1. Belong(n)' /\ Said(n)'
      BY <1>1, <1>2, <2>3, <2>4, <2>5, <2>6, Untouched DEF Held
    <3>2. PointsOK(n)'
      BY <1>1, <1>2, <2>3, <2>4, <2>5, <2>6, PointsElsewhere DEF Held, Dropping, Syncing
    <3>3. QED BY <3>1, <3>2
  <2>7. CASE n = m
    <3>1. /\ ConfigLink(n)' = records[n] /\ ObjectLink(n)' = records[n]
          /\ ToldConfigLink(n)' = records[n] /\ ToldLink(n)' = records[n]
      BY <2>3, <2>7 DEF ConfigLink, ObjectLink, ToldConfigLink, ToldLink, ItemAt
    <3>2. /\ ConfigLink(n) = records[n] /\ ObjectLink(n) = records[n]
          /\ ToldConfigLink(n) = records[n] /\ ToldLink(n) = records[n]
      BY <1>2 DEF ConfigLink, ObjectLink, ToldConfigLink, ToldLink, ItemAt
    <3>3. Belong(n)'
      BY <1>1, <1>2, <3>1, <3>2 DEF Belong, ConfigsOf, PeersOf, InterfacesOf
    <3>4. Said(n)'
      BY <1>1, <1>2, <2>2, <2>4, <2>5, <2>7, <3>1, <3>2
         DEF Said, ConfigsOf, PeersOf, InterfacesOf, Known
    <3>5. PointsOK(n)'
      <4>1. Described(n)' = Described(n)
        BY <2>3, DescribedOf
      <4>2. QED BY <1>1, <1>2, <2>2, <2>3, <2>4, <2>7, <4>1 DEF PointsOK, ItemAt, Dropping, Syncing
    <3>6. QED BY <3>3, <3>4, <3>5
  <2>8. QED BY <2>6, <2>7
<1>5. QED BY <1>3, <1>4 DEF Drop

LEMMA UndoFollows == TypeInv /\ DeviceInv /\ Undo => DeviceInv'
<1> SUFFICES ASSUME TypeInv, DeviceInv, Undo, NEW n \in Names
             PROVE  Belong(n)' /\ Said(n)' /\ PointsOK(n)'
  BY DEF DeviceInv
<1>1. Belong(n) /\ Said(n) /\ PointsOK(n)
  BY DEF DeviceInv
<1> DEFINE m == task.item
<1>2. /\ UNCHANGED <<records, points, told, morphed>> /\ task.pc = "undo" /\ task'.pc = "tell"
      /\ task' = [task EXCEPT !.pc = "tell"] /\ m \in Names
  BY DEF Undo, At, Goto, TypeInv, Task, InHand
<1>3. /\ task'.item = m /\ task'.was = task.was /\ task'.seen = task.seen
      /\ task'.ordered = task.ordered /\ task'.todo = task.todo
  BY <1>2 DEF TypeInv, Task
<1>4. task.was # Gone /\ task.was \in Link
  BY <1>2, SlotFacts DEF TypeInv, InHand, Task
<1>5. CASE n # m
  <2>1. interfaces'[n] = interfaces[n] /\ configs'[n] = configs[n] /\ peers'[n] = peers[n]
        /\ lists'[n] = lists[n]
    BY <1>5 DEF Undo, TypeInv
  <2>2. Belong(n)' /\ Said(n)'
    BY <1>1, <1>2, <1>3, <1>5, <2>1, Untouched
  <2>3. PointsOK(n)'
    BY <1>1, <1>2, <1>3, <1>5, <2>1, PointsElsewhere DEF Dropping, Syncing
  <2>4. QED BY <2>2, <2>3
<1>6. CASE n = m
  <2>1. /\ interfaces'[n] = interfaces[n] \ Unregistered(n, task.was)
        /\ configs'[n] = configs[n] \ task.was.configs /\ peers'[n] = peers[n] \ Peers(task.was)
        /\ lists'[n] = {}
    BY <1>2, <1>6 DEF Undo, TypeInv
  <2>2. records[n] = Gone
    BY <1>2, <1>6 DEF TypeInv, InHand, Dropping
  <2>3. ConfigLink(n) = task.was /\ ObjectLink(n) = task.was /\ ToldConfigLink(n) = task.was
        /\ ToldLink(n) = task.was
    BY <1>2, <1>6 DEF ConfigLink, ObjectLink, ToldConfigLink, ToldLink, ItemAt
  <2>4. ConfigLink(n)' = Gone /\ ObjectLink(n)' = Gone /\ ToldConfigLink(n)' = task.was
        /\ ToldLink(n)' = task.was
    BY <1>2, <1>3, <1>6, <2>2 DEF ConfigLink, ObjectLink, ToldConfigLink, ToldLink, ItemAt
  <2>5. Belong(n)'
    BY <1>1, <1>4, <2>1, <2>3, <2>4, LeftBehind DEF Belong, ConfigsOf, PeersOf, InterfacesOf
  <2>6. Said(n)'
    BY <1>1, <1>2, <2>3, <2>4 DEF Said, ConfigsOf, PeersOf, InterfacesOf
  <2>7. PointsOK(n)'
    BY <1>1, <1>2, <1>3, <2>1, DescribedOf DEF PointsOK, ItemAt, Dropping, Syncing
  <2>8. QED BY <2>5, <2>6, <2>7
<1>7. QED BY <1>5, <1>6

LEMMA TellFollows == TypeInv /\ DeviceInv /\ Tell => DeviceInv'
<1> SUFFICES ASSUME TypeInv, DeviceInv, Tell, NEW n \in Names
             PROVE  Belong(n)' /\ Said(n)' /\ PointsOK(n)'
  BY DEF DeviceInv
<1>1. Belong(n) /\ Said(n) /\ PointsOK(n)
  BY DEF DeviceInv
<1> DEFINE m == task.item
<1>2. /\ UNCHANGED <<interfaces, configs, peers, points, lists, records, morphed>>
      /\ task.pc = "tell" /\ task' = [task EXCEPT !.pc = "drop", !.was = Gone] /\ m \in Names
  BY DEF Tell, At, TypeInv, InHand, objects, wireless
<1>3. /\ task'.pc = "drop" /\ task'.item = m /\ task'.seen = task.seen
      /\ task'.ordered = task.ordered /\ task'.todo = task.todo
  BY <1>2 DEF TypeInv, Task
<1>4. /\ told'.points = told.points /\ told'.listed = told.listed /\ told'.peers = told.peers
      /\ told'.configs[m] = told.configs[m] \ task.was.configs
      /\ told'.interfaces[m] = told.interfaces[m] \ Listed(task.was, IsPpp(m, task.was))
      /\ n # m => told'.configs[n] = told.configs[n] /\ told'.interfaces[n] = told.interfaces[n]
  <2>1. told' = [told EXCEPT
            !.configs = [told.configs EXCEPT ![m] = told.configs[m] \ task.was.configs],
            !.interfaces = [told.interfaces EXCEPT
                               ![m] = told.interfaces[m] \ Listed(task.was, IsPpp(m, task.was))]]
    BY DEF Tell
  <2>2. QED BY <1>2, <2>1 DEF TypeInv, Told
<1>5. PointsOK(n)'
  <2>1. CASE n # m
    BY <1>1, <1>2, <1>3, <1>4, <2>1, PointsElsewhere DEF Held, Dropping, Syncing
  <2>2. CASE n = m
    BY <1>1, <1>2, <1>3, <1>4, <2>2, DescribedOf DEF PointsOK, ItemAt, Dropping, Syncing, Known
  <2>3. QED BY <2>1, <2>2
<1>6. Belong(n)' /\ Said(n)'
  <2>1. CASE n # m
    BY <1>1, <1>2, <1>3, <1>4, <2>1, Untouched DEF Held
  <2>2. CASE n = m
    <3>1. task.was # Gone /\ Sane(task.was) /\ records[n] = Gone
      BY <1>2, <2>2, SlotFacts DEF TypeInv, InHand, Task, Dropping
    <3>2. ConfigLink(n) = Gone /\ ObjectLink(n) = Gone /\ ToldConfigLink(n) = task.was
          /\ ToldLink(n) = task.was
      BY <1>2, <2>2, <3>1 DEF ConfigLink, ObjectLink, ToldConfigLink, ToldLink, ItemAt
    <3>3. ConfigLink(n)' = Gone /\ ObjectLink(n)' = Gone /\ ToldConfigLink(n)' = Gone
          /\ ToldLink(n)' = Gone
      BY <1>2, <1>3, <3>1 DEF ConfigLink, ObjectLink, ToldConfigLink, ToldLink, ItemAt
    <3>4. Belong(n)'
      BY <1>1, <1>2, <3>2, <3>3 DEF Belong, ConfigsOf, PeersOf, InterfacesOf
    <3>5. Listed(task.was, IsPpp(n, task.was)) = Registered(n, task.was)
      BY <3>1, ListedAsRegistered
    <3>6. Said(n)'
      BY <1>1, <1>2, <1>4, <2>2, <3>1, <3>2, <3>3, <3>5 DEF Said, ConfigsOf, PeersOf, InterfacesOf
    <3>7. QED BY <3>4, <3>6
  <2>3. QED BY <2>1, <2>2
<1>7. QED BY <1>5, <1>6

\* When nothing is left, each device lists the access points that have an object.
LEMMA NothingLeft ==
    ASSUME TypeInv, DeviceInv, task.pc = "sync", task.todo = {}, NEW n \in Names
    PROVE  /\ points[n] = Described(n) /\ points[n] \subseteq lists[n]
           /\ \/ task.seen[n] = Gone /\ n \notin Known /\ lists[n] = {} /\ task.ordered[n] = {}
              \/ n \in Known /\ records[n] = task.seen[n] /\ Lists(n)
<1>1. PointsOK(n)
  BY DEF DeviceInv
<1>2. CASE task.seen[n] = Gone
  <2>1. n \notin Known /\ Described(n) = {}
    BY <1>2 DEF TypeInv, InHand, Syncing, Described
  <2>2. QED BY <1>1, <1>2, <2>1 DEF PointsOK, ItemAt, Syncing
<1>3. CASE task.seen[n] # Gone
  <2>1. Lists(n) /\ records[n] = task.seen[n] /\ n \in Known
    BY <1>1, <1>3 DEF PointsOK, ItemAt, Syncing, Known
  <2>2. points[n] = Described(n) /\ Described(n) \subseteq task.ordered[n]
        /\ (task.ordered[n] # {} => task.seen[n].type = "Wlan")
    BY <1>1 DEF PointsOK, Syncing
  <2>3. points[n] \subseteq lists[n]
    <3>1. CASE task.seen[n].type = "Wlan"
      BY <2>1, <2>2, <3>1 DEF Lists
    <3>2. CASE task.seen[n].type # "Wlan"
      BY <2>2, <3>2
    <3>3. QED BY <3>1, <3>2
  <2>4. QED BY <2>1, <2>2, <2>3
<1>4. QED BY <1>2, <1>3

LEMMA HideFollows == TypeInv /\ DeviceInv /\ Hide => DeviceInv'
<1> SUFFICES ASSUME TypeInv, DeviceInv, Hide, NEW n \in Names
             PROVE  Belong(n)' /\ Said(n)' /\ PointsOK(n)'
  BY DEF DeviceInv
<1>1. Belong(n) /\ Said(n) /\ PointsOK(n)
  BY DEF DeviceInv
<1>2. UNCHANGED <<records, points, lists, told, morphed>> /\ task.pc = "sync"
  BY DEF Hide, At, wireless
<1>3. CASE task.todo = {} /\ task' = Asleep /\ UNCHANGED objects
  <2>1. task'.pc = "idle"
    BY <1>3 DEF Asleep
  <2>2. Belong(n)' /\ Said(n)'
    BY <1>1, <1>2, <1>3, <2>1, Untouched DEF Held, objects
  <2>3. points[n] \subseteq lists[n] /\ (n \in Known \/ lists[n] = {})
    BY <1>2, <1>3, NothingLeft
  <2>4. PointsOK(n)'
    BY <1>1, <1>2, <2>1, <2>3 DEF PointsOK, ItemAt, Dropping, Syncing, Known
  <2>5. QED BY <2>2, <2>4
<1>4. ASSUME NEW m \in task.todo,
             task' = [task EXCEPT !.pc = "configs", !.todo = @ \ {m}, !.item = m],
             IF m \notin Known THEN UNCHANGED objects
             ELSE /\ interfaces' = [interfaces EXCEPT ![m] = @ \ Unregistered(m, records[m])]
                  /\ configs' = [configs EXCEPT ![m] = @ \ records[m].configs]
                  /\ peers' = [peers EXCEPT ![m] = @ \ Peers(records[m])]
      PROVE  Belong(n)' /\ Said(n)' /\ PointsOK(n)'
  <2>1. /\ task'.pc = "configs" /\ task'.todo = task.todo \ {m} /\ task'.item = m
        /\ task'.seen = task.seen /\ task'.ordered = task.ordered /\ m \in Names
    BY <1>4 DEF TypeInv, Task
  <2>2. CASE n # m
    <3>1. interfaces'[n] = interfaces[n] /\ configs'[n] = configs[n] /\ peers'[n] = peers[n]
      <4>1. CASE UNCHANGED objects
        BY <4>1 DEF objects
      <4>2. CASE m \in Known
        BY <1>4, <2>2, <4>2 DEF TypeInv
      <4>3. QED BY <1>4, <4>1, <4>2
    <3>2. Belong(n)' /\ Said(n)'
      BY <1>1, <1>2, <2>1, <2>2, <3>1, Untouched DEF Held
    <3>3. PointsOK(n)'
      BY <1>1, <1>2, <2>1, <2>2, PointsElsewhere DEF Held, Dropping, Syncing
    <3>4. QED BY <3>2, <3>3
  <2>3. CASE n = m
    <3>1. /\ ConfigLink(n) = records[n] /\ ObjectLink(n) = records[n]
          /\ ToldConfigLink(n) = records[n] /\ ToldLink(n) = records[n]
      BY <1>2 DEF ConfigLink, ObjectLink, ToldConfigLink, ToldLink, ItemAt
    <3>2. /\ ConfigLink(n)' = Gone /\ ObjectLink(n)' = Gone
          /\ ToldConfigLink(n)' = records[n] /\ ToldLink(n)' = records[n]
      BY <1>2, <2>1, <2>3 DEF ConfigLink, ObjectLink, ToldConfigLink, ToldLink, ItemAt
    <3>3. Belong(n)'
      <4>1. CASE n \notin Known
        BY <1>1, <1>4, <2>1, <2>3, <3>1, <3>2, <4>1
           DEF Belong, ConfigsOf, PeersOf, InterfacesOf, objects, Known
      <4>2. CASE n \in Known
        <5>1. records[n] # Gone /\ records[n] \in Link
          BY <4>2, SlotFacts DEF Known, TypeInv
        <5>2. /\ interfaces'[n] = interfaces[n] \ Unregistered(n, records[n])
              /\ configs'[n] = configs[n] \ records[n].configs
              /\ peers'[n] = peers[n] \ Peers(records[n])
          BY <1>4, <2>3, <4>2 DEF TypeInv
        <5>3. QED BY <1>1, <3>1, <3>2, <5>1, <5>2, LeftBehind
                  DEF Belong, ConfigsOf, PeersOf, InterfacesOf
      <4>3. QED BY <4>1, <4>2
    <3>4. Said(n)'
      BY <1>1, <1>2, <3>1, <3>2 DEF Said, ConfigsOf, PeersOf, InterfacesOf
    <3>5. PointsOK(n)'
      BY <1>1, <1>2, <2>1, <2>3, DescribedOf DEF PointsOK, ItemAt, Dropping, Syncing, Known
    <3>6. QED BY <3>3, <3>4, <3>5
  <2>4. QED BY <2>2, <2>3
<1>5. QED BY <1>3, <1>4 DEF Hide

LEMMA ShowConfigsFollows == TypeInv /\ DeviceInv /\ ShowConfigs => DeviceInv'
<1> SUFFICES ASSUME TypeInv, DeviceInv, ShowConfigs, NEW n \in Names
             PROVE  Belong(n)' /\ Said(n)' /\ PointsOK(n)'
  BY DEF DeviceInv
<1>1. Belong(n) /\ Said(n) /\ PointsOK(n)
  BY DEF DeviceInv
<1> DEFINE m == task.item
<1>2. /\ UNCHANGED <<records, interfaces, peers, points, lists, morphed>>
      /\ task.pc = "configs" /\ task' = [task EXCEPT !.pc = "show"]
  BY DEF ShowConfigs, At, Goto, wireless
<1>3. /\ task'.pc = "show" /\ task'.item = m /\ task'.seen = task.seen
      /\ task'.ordered = task.ordered /\ task'.todo = task.todo
  BY <1>2 DEF TypeInv, Task
<1>4. m \in Names /\ Seen # Gone
  BY <1>2, ItemTyped
<1>5. /\ told'.points = told.points /\ told'.listed = told.listed /\ told'.peers = told.peers
      /\ told'.interfaces = told.interfaces
      /\ told'.configs[m] = (told.configs[m] \ (OldConfigs \ Seen.configs))
                            \cup (Seen.configs \ OldConfigs)
      /\ n # m => told'.configs[n] = told.configs[n]
  <2>1. told' = [told EXCEPT !.configs = [told.configs EXCEPT ![m] =
                    (told.configs[m] \ (OldConfigs \ Seen.configs)) \cup (Seen.configs \ OldConfigs)]]
    BY DEF ShowConfigs
  <2>2. QED BY <1>4, <2>1 DEF TypeInv, Told
<1>6. CASE n # m
  <2>1. configs'[n] = configs[n]
    BY <1>6 DEF ShowConfigs, TypeInv
  <2>2. Belong(n)' /\ Said(n)'
    BY <1>1, <1>2, <1>3, <1>5, <1>6, <2>1, Untouched
  <2>3. PointsOK(n)'
    BY <1>1, <1>2, <1>3, <1>5, <1>6, PointsElsewhere DEF Dropping, Syncing
  <2>4. QED BY <2>2, <2>3
<1>7. CASE n = m
  <2>1. configs'[n] = configs[n] \cup Seen.configs
    BY <1>4, <1>7 DEF ShowConfigs, TypeInv
  <2>2. /\ ConfigLink(n) = Gone /\ ObjectLink(n) = Gone
        /\ ToldConfigLink(n) = records[n] /\ ToldLink(n) = records[n]
    BY <1>2, <1>7 DEF ConfigLink, ObjectLink, ToldConfigLink, ToldLink, ItemAt
  <2>3. /\ ConfigLink(n)' = Seen /\ ObjectLink(n)' = Gone
        /\ ToldConfigLink(n)' = Seen /\ ToldLink(n)' = records[n]
    BY <1>2, <1>3, <1>7 DEF ConfigLink, ObjectLink, ToldConfigLink, ToldLink, ItemAt, Seen
  <2>4. OldConfigs = ConfigsOf(records[n])
    BY <1>4, <1>7 DEF OldConfigs, ConfigsOf, Known, Record
  <2>5. Belong(n)'
    BY <1>1, <1>2, <1>4, <2>1, <2>2, <2>3 DEF Belong, ConfigsOf, PeersOf, InterfacesOf
  <2>6. Said(n)'
    <3>1. told.configs[n] = OldConfigs
      BY <1>1, <2>2, <2>4 DEF Said
    <3>2. told'.configs[n] = Seen.configs
      BY <1>5, <1>7, <3>1
    <3>3. QED BY <1>1, <1>2, <1>4, <1>5, <2>2, <2>3, <3>2 DEF Said, ConfigsOf, PeersOf, InterfacesOf
  <2>7. PointsOK(n)'
    BY <1>1, <1>2, <1>3, <1>5, <1>7, DescribedOf DEF PointsOK, ItemAt, Dropping, Syncing, Known
  <2>8. QED BY <2>5, <2>6, <2>7
<1>8. QED BY <1>6, <1>7

LEMMA ShowFollows == TypeInv /\ DeviceInv /\ Show => DeviceInv'
<1> SUFFICES ASSUME TypeInv, DeviceInv, Show, NEW n \in Names
             PROVE  Belong(n)' /\ Said(n)' /\ PointsOK(n)'
  BY DEF DeviceInv
<1>1. Belong(n) /\ Said(n) /\ PointsOK(n)
  BY DEF DeviceInv
<1> DEFINE m == task.item
<1>2. /\ UNCHANGED <<records, configs, points, told, morphed>>
      /\ task.pc = "show" /\ task' = [task EXCEPT !.pc = "upsert"]
  BY DEF Show, At, Goto
<1>3. /\ task'.pc = "upsert" /\ task'.item = m /\ task'.seen = task.seen
      /\ task'.ordered = task.ordered /\ task'.todo = task.todo
  BY <1>2 DEF TypeInv, Task
<1>4. m \in Names /\ Seen # Gone
  BY <1>2, ItemTyped
<1>5. CASE n # m
  <2>1. interfaces'[n] = interfaces[n] /\ peers'[n] = peers[n] /\ lists'[n] = lists[n]
    BY <1>5 DEF Show, TypeInv
  <2>2. Belong(n)' /\ Said(n)'
    BY <1>1, <1>2, <1>3, <1>5, <2>1, Untouched
  <2>3. PointsOK(n)'
    BY <1>1, <1>2, <1>3, <1>5, <2>1, PointsElsewhere DEF Dropping, Syncing
  <2>4. QED BY <2>2, <2>3
<1>6. CASE n = m
  <2>1. /\ interfaces'[n] = interfaces[n] \cup Registered(n, Seen)
        /\ peers'[n] = peers[n] \cup Peers(Seen)
    BY <1>4, <1>6 DEF Show, TypeInv
  <2>2. lists'[n] = CASE Seen.type = "Wlan" -> task.ordered[n]
                      [] Seen.type \in Uncleared -> lists[n]
                      [] OTHER -> {}
    BY <1>4, <1>6 DEF Show, TypeInv
  <2>3. /\ ConfigLink(n) = Seen /\ ObjectLink(n) = Gone
        /\ ToldConfigLink(n) = Seen /\ ToldLink(n) = records[n]
    BY <1>2, <1>6 DEF ConfigLink, ObjectLink, ToldConfigLink, ToldLink, ItemAt, Seen
  <2>4. /\ ConfigLink(n)' = Seen /\ ObjectLink(n)' = Seen
        /\ ToldConfigLink(n)' = Seen /\ ToldLink(n)' = records[n]
    BY <1>2, <1>3, <1>6 DEF ConfigLink, ObjectLink, ToldConfigLink, ToldLink, ItemAt, Seen
  <2>5. Belong(n)'
    BY <1>1, <1>2, <1>4, <2>1, <2>3, <2>4 DEF Belong, ConfigsOf, PeersOf, InterfacesOf
  <2>6. Said(n)'
    BY <1>1, <1>2, <2>3, <2>4 DEF Said, ConfigsOf, PeersOf, InterfacesOf
  <2>7. Lists(n)'
    <3>1. task.seen[n] = Seen
      BY <1>6 DEF Seen
    <3>2. CASE Seen.type = "Wlan"
      BY <1>3, <2>2, <3>1, <3>2 DEF Lists, Uncleared
    <3>3. CASE Seen.type \notin Uncleared \cup {"Wlan"}
      BY <1>3, <2>2, <3>1, <3>3 DEF Lists
    <3>4. CASE Seen.type \in Uncleared
      BY <1>3, <3>1, <3>4 DEF Lists, Uncleared
    <3>5. QED BY <3>2, <3>3, <3>4
  <2>8. PointsOK(n)'
    BY <1>1, <1>2, <1>3, <1>6, <2>7, DescribedOf DEF PointsOK, ItemAt, Dropping, Syncing, Known
  <2>9. QED BY <2>5, <2>6, <2>8
<1>7. QED BY <1>5, <1>6

LEMMA UpsertFollows == TypeInv /\ DeviceInv /\ Upsert => DeviceInv'
<1> SUFFICES ASSUME TypeInv, DeviceInv, Upsert, NEW n \in Names
             PROVE  Belong(n)' /\ Said(n)' /\ PointsOK(n)'
  BY DEF DeviceInv
<1>1. Belong(n) /\ Said(n) /\ PointsOK(n)
  BY DEF DeviceInv
<1> DEFINE m == task.item
           new == m \notin Known
           old == IF new THEN {} ELSE Peers(Record)
           i == IF new THEN told.interfaces[m] \cup Listed(Seen, m \in PppNames)
                ELSE told.interfaces[m]
           q == IF Seen.p2p THEN (told.peers[m] \ (old \ Seen.nets)) \cup (Seen.nets \ old)
                ELSE told.peers[m]
<1>2. /\ UNCHANGED <<interfaces, configs, peers, points, lists>>
      /\ task.pc = "upsert" /\ task' = [task EXCEPT !.pc = "sync"]
      /\ records' = [records EXCEPT ![m] = Seen]
      /\ morphed' = IF ~new /\ Listed(Record, FALSE) # Listed(Seen, FALSE) THEN morphed \cup {m}
                    ELSE morphed
  BY DEF Upsert, At, Goto, objects, wireless
<1>3. /\ task'.pc = "sync" /\ task'.item = m /\ task'.seen = task.seen
      /\ task'.ordered = task.ordered /\ task'.todo = task.todo
  BY <1>2 DEF TypeInv, Task
<1>4. /\ m \in Names /\ Seen # Gone /\ Seen \in Link /\ Sane(Seen)
      /\ m \notin task.todo
  BY <1>2, ItemTyped DEF TypeInv, InHand, Syncing
<1>5. /\ told'.points = told.points /\ told'.listed = told.listed /\ told'.configs = told.configs
      /\ told'.interfaces[m] = i /\ told'.peers[m] = q
      /\ n # m => told'.interfaces[n] = told.interfaces[n] /\ told'.peers[n] = told.peers[n]
  <2>1. told' = [told EXCEPT !.interfaces = [told.interfaces EXCEPT ![m] = i],
                             !.peers = [told.peers EXCEPT ![m] = q]]
    BY DEF Upsert
  <2> HIDE DEF i, q
  <2>2. QED BY <1>4, <2>1 DEF TypeInv, Told
<1>6. CASE n # m
  <2>1. records'[n] = records[n]
    BY <1>2, <1>6 DEF TypeInv
  <2>2. Belong(n)' /\ Said(n)'
    BY <1>1, <1>2, <1>3, <1>5, <1>6, <2>1, Untouched
  <2>3. PointsOK(n)'
    BY <1>1, <1>2, <1>3, <1>5, <1>6, <2>1, PointsElsewhere DEF Dropping, Syncing
  <2>4. QED BY <2>2, <2>3
<1>7. CASE n = m
  <2>1. records'[n] = Seen
    BY <1>2, <1>4, <1>7 DEF TypeInv
  <2>2. /\ ConfigLink(n) = Seen /\ ObjectLink(n) = Seen
        /\ ToldConfigLink(n) = Seen /\ ToldLink(n) = records[n]
    BY <1>2, <1>7 DEF ConfigLink, ObjectLink, ToldConfigLink, ToldLink, ItemAt, Seen
  <2>3. /\ ConfigLink(n)' = Seen /\ ObjectLink(n)' = Seen
        /\ ToldConfigLink(n)' = Seen /\ ToldLink(n)' = Seen
    BY <1>3, <2>1 DEF ConfigLink, ObjectLink, ToldConfigLink, ToldLink, ItemAt
  <2>4. Belong(n)'
    BY <1>1, <1>2, <2>2, <2>3 DEF Belong, ConfigsOf, PeersOf, InterfacesOf
  <2>5. PointsOK(n)'
    <3>1. Lists(n) /\ Described(n)' = Described(n) /\ Lists(n)' = Lists(n) /\ n \in Known'
      BY <1>1, <1>2, <1>3, <1>4, <1>7, <2>1, SameAnswer DEF PointsOK, ItemAt, Known
    <3>2. QED BY <1>1, <1>2, <1>3, <1>4, <1>5, <1>7, <2>1, <3>1
              DEF PointsOK, ItemAt, Dropping, Syncing, Seen
  <2>6. told'.configs[n] = ConfigsOf(Seen)
    BY <1>1, <1>5, <2>2 DEF Said
  <2>7. ASSUME n \notin morphed'
        PROVE  told'.peers[n] = Peers(Seen) /\ told'.interfaces[n] = Registered(n, Seen)
    <3>1. n \notin morphed /\ (new \/ Listed(Record, FALSE) = Listed(Seen, FALSE))
      BY <1>2, <1>7, <2>7
    <3>2. told.peers[n] = PeersOf(records[n]) /\ told.interfaces[n] = InterfacesOf(n, records[n])
      BY <1>1, <2>2, <3>1 DEF Said
    <3>3. CASE new
      <4>1. told.peers[n] = {} /\ told.interfaces[n] = {}
        BY <1>4, <1>7, <3>2, <3>3 DEF Known, PeersOf, InterfacesOf
      <4>2. told'.interfaces[n] = Registered(n, Seen)
        BY <1>4, <1>5, <1>7, <3>3, <4>1, ListedAsRegistered
      <4>3. told'.peers[n] = Peers(Seen)
        BY <1>5, <1>7, <3>3, <4>1 DEF Peers
      <4>4. QED BY <4>2, <4>3
    <3>4. CASE ~new
      <4>1. Record # Gone /\ Record = records[n] /\ Sane(Record)
        BY <1>4, <1>7, <3>4, SlotFacts DEF Known, Record, TypeInv
      <4>2. Registered(n, Record) = Registered(n, Seen) /\ (Record.p2p <=> Seen.p2p)
        BY <1>4, <3>1, <3>4, <4>1, SameListed
      <4>3. told'.interfaces[n] = Registered(n, Seen)
        BY <1>5, <1>7, <3>2, <3>4, <4>1, <4>2 DEF InterfacesOf
      <4>4. told.peers[n] = Peers(Record) /\ old = Peers(Record)
        BY <3>2, <3>4, <4>1 DEF PeersOf
      <4>5. told'.peers[n] = Peers(Seen)
        BY <1>5, <1>7, <4>2, <4>4 DEF Peers
      <4>6. QED BY <4>3, <4>5
    <3>5. QED BY <3>3, <3>4
  <2>8. Said(n)'
    BY <1>4, <2>1, <2>3, <2>6, <2>7 DEF Said, ConfigsOf, PeersOf, InterfacesOf
  <2>9. QED BY <2>4, <2>5, <2>8
<1>8. QED BY <1>6, <1>7

LEMMA StutterFollows == DeviceInv /\ UNCHANGED vars => DeviceInv'
BY DEF DeviceInv, vars, objects, wireless, Belong, Said, PointsOK, Lists, ConfigLink, ObjectLink,
       ToldConfigLink, ToldLink, ItemAt, ConfigsOf, PeersOf, InterfacesOf, Known, Described

LEMMA NextFollows == TypeInv /\ DeviceInv /\ [Next]_vars => DeviceInv'
BY ChangeFollows, AskFollows, PointsFollows, DropFollows, UndoFollows, TellFollows, HideFollows,
   ShowConfigsFollows, ShowFollows, UpsertFollows, StutterFollows DEF Next, Step

-----------------------------------------------------------------------------
(***************************************************************************)
(* Theorems                                                                *)
(***************************************************************************)
LEMMA Follows == Spec => [](TypeInv /\ DeviceInv)
<1>1. Init => TypeInv /\ DeviceInv
  BY InitTypes, InitFollows
<1>2. TypeInv /\ DeviceInv /\ [Next]_vars => (TypeInv /\ DeviceInv)'
  BY NextTypes, NextFollows
<1>3. QED BY <1>1, <1>2, PTL DEF Spec

\* Of TypeOK: links, records, objects and the task have the types of the code.
THEOREM TypesCorrect == Spec => []TypeOK
<1>1. TypeInv => TypeOK
  BY SlotFacts DEF TypeInv, TypeOK, Task, Pcs, Told
<1>2. QED BY <1>1, Follows, PTL

\* Of ObjectsFollowRecords: whatever the names, the kinds of links and how often they
\* change, between synchronisations every object has what its record says, and only
\* PPP interfaces of a link with another name stay behind.
THEOREM ObjectsFollow == Spec => []ObjectsFollowRecords
<1>1. ASSUME TypeInv, DeviceInv, Resting, NEW n \in Names
      PROVE  LET expected == IF n \in Known THEN Registered(n, records[n]) ELSE {} IN
             /\ configs[n] = (IF n \in Known THEN records[n].configs ELSE {})
             /\ peers[n] = (IF n \in Known THEN Peers(records[n]) ELSE {})
             /\ expected \subseteq interfaces[n]
             /\ interfaces[n] \ expected \subseteq IF n \in PppNames THEN {} ELSE PppInterfaces
  <2>1. Belong(n) /\ ConfigLink(n) = records[n] /\ ObjectLink(n) = records[n]
    BY <1>1 DEF DeviceInv, Resting, At, ConfigLink, ObjectLink, ItemAt
  <2>2. QED BY <2>1 DEF Belong, ConfigsOf, PeersOf, InterfacesOf, Extra, Known
<1>2. TypeInv /\ DeviceInv => ObjectsFollowRecords
  BY <1>1 DEF ObjectsFollowRecords
<1>3. QED BY <1>2, Follows, PTL

\* Of ToldIsThere: then what the signals said is there, and what they did not say is
\* not, but for those interfaces; of the interfaces and peers of a link that changed
\* its kind under one name nothing is claimed.
THEOREM SignalsAreTrue == Spec => []ToldIsThere
<1>1. ASSUME TypeInv, DeviceInv, Resting
      PROVE  ToldIsThere
  <2>1. ASSUME NEW n \in Names
        PROVE  /\ told.configs[n] = configs[n]
               /\ n \notin morphed => /\ told.peers[n] = peers[n]
                                      /\ told.interfaces[n] \subseteq interfaces[n]
                                      /\ interfaces[n] \ told.interfaces[n] \subseteq PppInterfaces
    <3>1. /\ Belong(n) /\ Said(n) /\ ConfigLink(n) = records[n] /\ ObjectLink(n) = records[n]
          /\ ToldConfigLink(n) = records[n] /\ ToldLink(n) = records[n]
      BY <1>1, <2>1 DEF DeviceInv, Resting, At, ConfigLink, ObjectLink, ToldConfigLink, ToldLink,
                        ItemAt
    <3>2. QED BY <3>1 DEF Belong, Said, Extra
  <2>2. told.configs = configs
    BY <1>1, <2>1 DEF TypeInv, Told
  <2>3. QED BY <2>1, <2>2 DEF ToldIsThere
<1>2. TypeInv /\ DeviceInv => ToldIsThere
  BY <1>1 DEF ToldIsThere
<1>3. QED BY <1>2, Follows, PTL

\* Of PointsListed: when a synchronisation ends, each wireless device lists the access
\* points that have an object and were signalled for it; others only where iwd's two
\* answers differed, or for a wired or loopback link that took over the name.
THEOREM StationsListPoints == Spec => PointsListed
<1> DEFINE P == At("sync") /\ At("idle")' => \A n \in Names :
           /\ points[n] \subseteq lists[n]
           /\ \/ lists[n] \ points[n] = task.ordered[n] \ Described(n)
              \/ n \in Known /\ records[n].type \in Uncleared
           /\ told.points[n] = points[n] /\ told.listed[n] = points[n]
<1>1. ASSUME TypeInv, DeviceInv, [Next]_vars, At("sync"), At("idle")', NEW n \in Names
      PROVE  /\ points[n] \subseteq lists[n]
             /\ \/ lists[n] \ points[n] = task.ordered[n] \ Described(n)
                \/ n \in Known /\ records[n].type \in Uncleared
             /\ told.points[n] = points[n] /\ told.listed[n] = points[n]
  <2>1. task.pc = "sync" /\ task'.pc = "idle"
    BY <1>1 DEF At
  <2>2. Hide
    <3>1. task' # task
      BY <2>1
    <3>2. Step
      BY <1>1, <2>1, <3>1 DEF vars, Next, Change, Ask, At
    <3>3. QED BY <2>1, <3>2 DEF Step, AskStations, PutPoints, DropPoints, Drop, Undo, Tell, ShowConfigs,
                                Show, Upsert, At
  <2>3. task.todo = {}
    <3>1. ASSUME NEW m \in task.todo,
                 task' = [task EXCEPT !.pc = "configs", !.todo = @ \ {m}, !.item = m]
          PROVE  FALSE
      BY <1>1, <2>1, <3>1 DEF TypeInv, Task
    <3>2. QED BY <2>2, <3>1 DEF Hide
  <2>4. PointsOK(n)
    BY <1>1 DEF DeviceInv
  <2>5. /\ points[n] = Described(n) /\ points[n] \subseteq lists[n]
        /\ \/ task.seen[n] = Gone /\ n \notin Known /\ lists[n] = {} /\ task.ordered[n] = {}
           \/ n \in Known /\ records[n] = task.seen[n] /\ Lists(n)
    BY <1>1, <2>1, <2>3, NothingLeft
  <2>6. \/ lists[n] \ points[n] = task.ordered[n] \ Described(n)
        \/ n \in Known /\ records[n].type \in Uncleared
    <3>1. task.ordered[n] # {} => task.seen[n].type = "Wlan"
      BY <2>1, <2>4 DEF PointsOK
    <3>2. QED BY <2>5, <3>1 DEF Lists
  <2>7. QED BY <2>4, <2>5, <2>6 DEF PointsOK
<1>2. TypeInv /\ DeviceInv /\ [Next]_vars => [P]_vars
  BY <1>1
<1>3. QED BY <1>2, Follows, PTL DEF Spec, PointsListed
=============================================================================

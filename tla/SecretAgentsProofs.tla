------------------------- MODULE SecretAgentsProofs -------------------------
(* What holds of SecretAgents for any agents, tasks and callers.            *)
EXTENDS SecretAgents, FiniteSetTheorems, SequenceTheorems, TLAPS

(***************************************************************************)
(* Induction.  A set of naturals without a least element would be mapped   *)
(* into a smaller one by subtracting one, against the pigeonhole principle.*)
(***************************************************************************)
LEMMA LeastNatural ==
    ASSUME NEW T \in SUBSET Nat, T # {}
    PROVE  \E n \in T : \A m \in T : n <= m
<1> SUFFICES ASSUME \A n \in T : \E m \in T : ~(n <= m) PROVE FALSE
  OBVIOUS
<1>1. PICK top \in T : TRUE
  OBVIOUS
<1> DEFINE above == { x \in 0..top : \E t \in T : t <= x }
           down == [x \in above |-> x - 1]
<1>2. top \in above /\ above \subseteq 0..top /\ top \in Nat
  BY <1>1
<1>3. IsFiniteSet(above)
  <2>1. IsFiniteSet(0..top)
    BY <1>2, FS_Interval
  <2>2. QED BY <2>1, <1>2, FS_Subset
<1>4. ASSUME NEW x \in above PROVE x - 1 \in above \ {top}
  <2>1. PICK t \in T : t <= x
    OBVIOUS
  <2>2. PICK m \in T : ~(t <= m)
    OBVIOUS
  <2>3. x \in 0..top /\ t \in Nat /\ m \in Nat /\ m <= x - 1
    BY <2>1, <2>2
  <2>4. x - 1 \in 0..top /\ x - 1 # top
    BY <2>3, <1>2
  <2>5. QED BY <2>3, <2>4
<1>5. down \in [above -> above \ {top}]
  BY <1>4
<1>6. /\ IsFiniteSet(above \ {top}) /\ Cardinality(above) \in Nat
      /\ Cardinality(above \ {top}) = Cardinality(above) - 1
  <2> HIDE DEF above
  <2>1. Cardinality(above) \in Nat
    BY <1>3, FS_CardinalityType
  <2>2. QED BY <2>1, <1>2, <1>3, FS_RemoveElement
<1>7. Cardinality(above \ {top}) < Cardinality(above)
  BY <1>6
<1>8. PICK x, y \in above : x # y /\ down[x] = down[y]
  <2> HIDE DEF above, down
  <2> QED BY <1>3, <1>5, <1>6, <1>7, FS_PigeonHole
<1>9. x - 1 = y - 1 /\ x \in Nat /\ y \in Nat
  BY <1>8
<1>10. QED BY <1>8, <1>9

(***************************************************************************)
(* What retain keeps.  kept, the recursive function in AllBut, exists, and *)
(* its i-th value has the entries of others among the first i.             *)
(***************************************************************************)
Kept(s, k, i) == IF i = 0 THEN << >>
                 ELSE IF agents[i] = s THEN k[i - 1] ELSE Append(k[i - 1], agents[i])
Keeps(s, k, n) == k = [i \in 0..n |-> Kept(s, k, i)]

LEMMA KeptExists ==
    ASSUME agents \in Seq(Senders), NEW s
    PROVE  \E k : Keeps(s, k, Len(agents))
<1> DEFINE bad == { n \in 0..Len(agents) : ~\E k : Keeps(s, k, n) }
<1>0. Len(agents) \in Nat
  OBVIOUS
<1> SUFFICES ASSUME bad # {} PROVE FALSE
  BY <1>0
<1>1. PICK n \in bad : \A m \in bad : n <= m
  <2>1. bad \in SUBSET Nat
    BY <1>0
  <2> HIDE DEF bad
  <2>2. QED BY <2>1, LeastNatural
<1>2. n \in Nat /\ n <= Len(agents) /\ ~\E k : Keeps(s, k, n)
  BY <1>0, <1>1
<1>3. n # 0
  <2> DEFINE k == [i \in 0..0 |-> << >>]
  <2>1. Keeps(s, k, 0)
    BY DEF Keeps, Kept
  <2>2. QED BY <1>2, <2>1
<1>4. PICK k : Keeps(s, k, n - 1)
  BY <1>0, <1>1, <1>2, <1>3
<1> DEFINE next == [i \in 0..n |-> IF i = n THEN Kept(s, k, n) ELSE k[i]]
<1>5. ASSUME NEW i \in 0..n PROVE next[i] = Kept(s, next, i)
  <2>1. i # 0 => next[i - 1] = k[i - 1]
    BY <1>2
  <2>2. Kept(s, next, i) = Kept(s, k, i)
    BY <2>1 DEF Kept
  <2>3. i # n => k[i] = Kept(s, k, i)
    BY <1>2, <1>4 DEF Keeps
  <2>4. QED BY <2>2, <2>3
<1>6. Keeps(s, next, n)
  <2>1. next = [i \in 0..n |-> next[i]]
    OBVIOUS
  <2> HIDE DEF next
  <2>2. QED BY <2>1, <1>5 DEF Keeps
<1>7. QED BY <1>2, <1>6

NoTwice(q) == \A i, j \in 1..Len(q) : q[i] = q[j] => i = j

LEMMA AppendFacts ==
    ASSUME NEW q \in Seq(Senders), NoTwice(q), NEW s \in Senders, ~Contains(q, s)
    PROVE  /\ Append(q, s) \in Seq(Senders) /\ NoTwice(Append(q, s))
           /\ \A x : Contains(Append(q, s), x) <=> Contains(q, x) \/ x = s
<1>1. /\ Append(q, s) \in Seq(Senders) /\ Len(Append(q, s)) = Len(q) + 1 /\ Len(q) \in Nat
      /\ Append(q, s)[Len(q) + 1] = s
      /\ \A i \in 1..Len(q) : Append(q, s)[i] = q[i]
  OBVIOUS
<1>2. \A i \in 1..Len(q) : q[i] # s
  BY DEF Contains
<1>3. NoTwice(Append(q, s))
  <2>1. SUFFICES ASSUME NEW i \in 1..(Len(q) + 1), NEW j \in 1..(Len(q) + 1),
                        Append(q, s)[i] = Append(q, s)[j]
                 PROVE  i = j
    BY <1>1 DEF NoTwice
  <2>2. CASE i \in 1..Len(q) /\ j \in 1..Len(q)
    BY <1>1, <2>1, <2>2 DEF NoTwice
  <2>3. CASE i = Len(q) + 1 \/ j = Len(q) + 1
    BY <1>1, <1>2, <2>1, <2>3
  <2>4. QED BY <1>1, <2>2, <2>3
<1>4. ASSUME NEW x PROVE Contains(Append(q, s), x) <=> Contains(q, x) \/ x = s
  <2>1. Len(q) + 1 \in 1..(Len(q) + 1)
    BY <1>1
  <2>2. \A i : i \in 1..(Len(q) + 1) <=> i \in 1..Len(q) \/ i = Len(q) + 1
    BY <1>1
  <2>3. QED BY <1>1, <2>1, <2>2 DEF Contains
<1>5. QED BY <1>1, <1>3, <1>4

LEMMA AllButFacts ==
    ASSUME agents \in Seq(Senders), NoTwice(agents), NEW s
    PROVE  /\ AllBut(s) \in Seq(Senders) /\ NoTwice(AllBut(s))
           /\ \A x : Contains(AllBut(s), x) <=> x # s /\ Contains(agents, x)
<1> DEFINE kept == CHOOSE k : k = [i \in 0..Len(agents) |->
                       IF i = 0 THEN << >>
                       ELSE IF agents[i] = s THEN k[i - 1] ELSE Append(k[i - 1], agents[i])]
<1>1. AllBut(s) = kept[Len(agents)]
  BY DEF AllBut
<1>2. Keeps(s, kept, Len(agents))
  <2>1. \E k : Keeps(s, k, Len(agents))
    BY KeptExists
  <2>2. QED BY <2>1 DEF Keeps, Kept
<1> HIDE DEF kept
<1>3. Len(agents) \in Nat /\ \A i \in 1..Len(agents) : agents[i] \in Senders
  OBVIOUS
<1> DEFINE good(i) == /\ kept[i] \in Seq(Senders) /\ NoTwice(kept[i])
                      /\ \A x : Contains(kept[i], x) <=> x # s /\ \E j \in 1..i : agents[j] = x
           bad == { i \in 0..Len(agents) : ~good(i) }
<1>4. bad = {}
  <2>1. SUFFICES ASSUME bad # {} PROVE FALSE
    OBVIOUS
  <2>2. PICK n \in bad : \A m \in bad : n <= m
    <3>1. bad \in SUBSET Nat
      BY <1>3
    <3> HIDE DEF bad
    <3>2. QED BY <2>1, <3>1, LeastNatural
  <2>3. n \in 0..Len(agents) /\ ~good(n)
    BY <2>2
  <2>4. kept[n] = Kept(s, kept, n)
    BY <1>2, <2>3 DEF Keeps
  <2>5. n # 0
    <3>1. ASSUME n = 0 PROVE good(0)
      <4>1. kept[0] = << >>
        BY <2>4, <3>1 DEF Kept
      <4>2. QED BY <4>1 DEF Contains, NoTwice
    <3> HIDE DEF good
    <3>2. QED BY <2>3, <3>1
  <2>6. n - 1 \in 0..Len(agents) /\ n \in 1..Len(agents) /\ agents[n] \in Senders
    BY <1>3, <2>3, <2>5
  <2>7. good(n - 1)
    <3> HIDE DEF good
    <3>1. ~(n <= n - 1)
      BY <2>3
    <3>2. QED BY <2>2, <2>6, <3>1
  <2>8. \A x : (\E j \in 1..n : agents[j] = x) <=> (\E j \in 1..(n - 1) : agents[j] = x) \/ agents[n] = x
    <3>1. \A j : j \in 1..n <=> j \in 1..(n - 1) \/ j = n
      BY <1>3, <2>6
    <3>2. QED BY <3>1
  <2>9. CASE agents[n] = s
    <3>1. kept[n] = kept[n - 1]
      BY <2>4, <2>5, <2>9 DEF Kept
    <3>2. QED BY <2>3, <2>7, <2>8, <2>9, <3>1
  <2>10. CASE agents[n] # s
    <3>1. kept[n] = Append(kept[n - 1], agents[n])
      BY <2>4, <2>5, <2>10 DEF Kept
    <3>2. ~Contains(kept[n - 1], agents[n])
      <4>1. \A j \in 1..(n - 1) : agents[j] # agents[n]
        BY <1>3, <2>6 DEF NoTwice
      <4>2. QED BY <2>7, <4>1
    <3>3. /\ kept[n] \in Seq(Senders) /\ NoTwice(kept[n])
          /\ \A x : Contains(kept[n], x) <=> Contains(kept[n - 1], x) \/ x = agents[n]
      BY <2>6, <2>7, <3>1, <3>2, AppendFacts
    <3>4. QED BY <2>3, <2>7, <2>8, <2>10, <3>3
  <2>11. QED BY <2>9, <2>10
<1>5. good(Len(agents))
  <2> HIDE DEF good
  <2>1. Len(agents) \in 0..Len(agents)
    BY <1>3
  <2>2. QED BY <1>4, <2>1
<1>6. QED BY <1>1, <1>5 DEF Contains

LEMMA RemoveFirstFacts ==
    ASSUME NEW q \in Seq(Senders), NoTwice(q), NEW s, Contains(q, s)
    PROVE  /\ RemoveFirst(q, s) \in Seq(Senders) /\ NoTwice(RemoveFirst(q, s))
           /\ \A x : Contains(RemoveFirst(q, s), x) <=> x # s /\ Contains(q, x)
<1>1. PICK k \in 1..Len(q) : q[k] = s
  BY DEF Contains
<1>2. { i \in 1..Len(q) : q[i] = s } = {k} /\ Len(q) \in Nat
  BY <1>1 DEF NoTwice
<1>3. RemoveFirst(q, s) = SubSeq(q, 1, k - 1) \o SubSeq(q, k + 1, Len(q))
  <2>1. RemoveFirst(q, s) = RemoveAt(q, SelectInSeq(q, LAMBDA v : v = s))
    BY <1>1 DEF RemoveFirst
  <2>2. SelectInSeq(q, LAMBDA v : v = s) = Min({k})
    BY <1>2 DEF SelectInSeq
  <2>3. Min({k}) = k
    BY <1>2 DEF Min
  <2>4. QED BY <2>1, <2>2, <2>3 DEF RemoveAt
<1> DEFINE r == SubSeq(q, 1, k - 1) \o SubSeq(q, k + 1, Len(q))
<1>4. /\ r \in Seq(Senders) /\ Len(r) = Len(q) - 1
      /\ \A i \in 1..(Len(q) - 1) : r[i] = IF i < k THEN q[i] ELSE q[i + 1]
  <2>1. /\ SubSeq(q, 1, k - 1) \in Seq(Senders) /\ Len(SubSeq(q, 1, k - 1)) = k - 1
        /\ \A i \in 1..(k - 1) : SubSeq(q, 1, k - 1)[i] = q[i]
    BY <1>2
  <2>2. /\ SubSeq(q, k + 1, Len(q)) \in Seq(Senders) /\ Len(SubSeq(q, k + 1, Len(q))) = Len(q) - k
        /\ \A i \in 1..(Len(q) - k) : SubSeq(q, k + 1, Len(q))[i] = q[k + i]
    BY <1>2
  <2> DEFINE a == SubSeq(q, 1, k - 1)
             b == SubSeq(q, k + 1, Len(q))
  <2> HIDE DEF a, b
  <2>3. /\ a \in Seq(Senders) /\ Len(a) = k - 1 /\ \A i \in 1..(k - 1) : a[i] = q[i]
        /\ b \in Seq(Senders) /\ Len(b) = Len(q) - k /\ \A i \in 1..(Len(q) - k) : b[i] = q[k + i]
    BY <2>1, <2>2 DEF a, b
  <2>4. /\ a \o b \in Seq(Senders) /\ Len(a \o b) = Len(q) - 1
        /\ \A i \in 1..(Len(q) - 1) : (a \o b)[i] = IF i < k THEN a[i] ELSE b[i - (k - 1)]
    <3>1. a \o b \in Seq(Senders) /\ Len(a \o b) = Len(a) + Len(b)
      BY <2>3, ConcatProperties
    <3>2. \A i \in 1..(Len(a) + Len(b)) : (a \o b)[i] = IF i <= Len(a) THEN a[i] ELSE b[i - Len(a)]
      BY <2>3, ConcatProperties
    <3>3. QED BY <1>2, <2>3, <3>1, <3>2
  <2>5. \A i \in 1..(Len(q) - 1) : (a \o b)[i] = IF i < k THEN q[i] ELSE q[i + 1]
    BY <1>2, <2>3, <2>4
  <2>6. r = a \o b
    BY DEF a, b
  <2> HIDE DEF r
  <2>7. QED BY <2>4, <2>5, <2>6
<1> HIDE DEF r
<1>5. NoTwice(r)
  BY <1>2, <1>4 DEF NoTwice
<1>6. ASSUME NEW x PROVE Contains(r, x) <=> x # s /\ Contains(q, x)
  <2>1. ASSUME NEW i \in 1..Len(r), r[i] = x PROVE x # s /\ Contains(q, x)
    BY <1>1, <1>2, <1>4, <2>1 DEF NoTwice, Contains
  <2>2. ASSUME x # s, NEW i \in 1..Len(q), q[i] = x PROVE \E j \in 1..Len(r) : r[j] = x
    <3>1. CASE i < k
      BY <1>2, <1>4, <2>2, <3>1
    <3>2. CASE i > k
      <4>1. i - 1 \in 1..Len(r) /\ r[i - 1] = x
        BY <1>2, <1>4, <2>2, <3>2
      <4>2. QED BY <4>1
    <3>3. QED BY <1>1, <1>2, <2>2, <3>1, <3>2
  <2>3. QED BY <2>1, <2>2 DEF Contains
<1>7. QED BY <1>3, <1>4, <1>5, <1>6 DEF r

(***************************************************************************)
(* The table and what agents were told.  A task that is not idle answers a *)
(* call of some agent.  An agent that may conclude something from its last *)
(* answer has no call in flight, one that awaits an answer it can rely on  *)
(* has one; and no agent is entered twice, so that the first entry of an   *)
(* agent, which is the one that leaves, is its only one.                   *)
(***************************************************************************)
Task == [op: {"none", "register", "withCapabilities", "unregister"},
         pc: {"idle", "add", "takeOut", "putBack", "remove"}, sender: Senders \cup {NoOne}]
TypeInv ==
    /\ agents \in Seq(Senders) /\ onBus \subseteq Senders
    /\ tasks \in [Slots -> Task]
    /\ believed \in [Senders -> {"in", "out", "pending", "unsure"}]
    /\ \A r \in Slots : At(r, "idle") <=> Sender(r) = NoOne

Alone == \A s \in Senders :
    /\ believed[s] \in {"in", "out"} => Busy(s) = {}
    /\ believed[s] = "pending" => \A r, q \in Busy(s) : r = q
TellInv == NoTwice(agents) /\ Alone /\ TableAsTold

LEMMA InitTells == Init => TypeInv /\ TellInv
<1> SUFFICES ASSUME Init PROVE TypeInv /\ TellInv
  OBVIOUS
<1>1. TypeInv
  BY DEF Init, TypeInv, Task, Idle, At, Sender
<1>2. TellInv
  BY AgentsConstants DEF Init, TellInv, NoTwice, Alone, Busy, Sender, Idle, TableAsTold, Contains
<1>3. QED BY <1>1, <1>2

\* Either way into and out of the table, only the entry of the agent itself changes.
LEMMA EnterFacts ==
    ASSUME agents \in Seq(Senders), NoTwice(agents), NEW s \in Senders, Enter(s)
    PROVE  /\ agents' \in Seq(Senders) /\ NoTwice(agents')
           /\ \A x : Contains(agents', x) <=> Contains(agents, x) \/ x = s
<1>1. agents' = Append(AllBut(s), s)
  BY DEF Enter
<1>2. ~Contains(AllBut(s), s)
  BY AllButFacts
<1>3. QED BY <1>1, <1>2, AllButFacts, AppendFacts

LEMMA LeaveFacts ==
    ASSUME agents \in Seq(Senders), NoTwice(agents), NEW s, Leave(s)
    PROVE  /\ agents' \in Seq(Senders) /\ NoTwice(agents')
           /\ \A x : Contains(agents', x) <=> Contains(agents, x) /\ x # s
<1>1. CASE Contains(agents, s)
  BY <1>1, RemoveFirstFacts DEF Leave
<1>2. CASE ~Contains(agents, s)
  BY <1>2 DEF Leave
<1>3. QED BY <1>1, <1>2

LEMMA SameTells ==
    ASSUME TypeInv, TellInv, UNCHANGED <<agents, tasks, believed>>, onBus' \subseteq onBus
    PROVE  TypeInv' /\ TellInv'
BY DEF TypeInv, TellInv, Alone, TableAsTold, NoTwice, At, Sender, Busy

LEMMA CallTells ==
    ASSUME TypeInv, TellInv, NEW r \in Slots, Call(r)
    PROVE  TypeInv' /\ TellInv'
<1>1. PICK s \in onBus, op \in {"register", "withCapabilities", "unregister"} :
         /\ tasks' = [tasks EXCEPT ![r] = [op |-> op, sender |-> s,
                          pc |-> IF op = "unregister" THEN "remove" ELSE "add"]]
         /\ believed' = [believed EXCEPT ![s] = IF Busy(s) = {} THEN "pending" ELSE "unsure"]
  BY DEF Call
<1>2. agents' = agents /\ onBus' = onBus /\ s \in Senders /\ s # NoOne
  BY <1>1, AgentsConstants DEF Call, TypeInv
<1>3. TypeInv'
  BY <1>1, <1>2 DEF TypeInv, Task, At, Sender
<1>4. /\ Busy(s)' = Busy(s) \cup {r}
      /\ \A x \in Senders \ {s} : Busy(x)' = Busy(x) /\ believed'[x] = believed[x]
  <2>1. Sender(r) = NoOne
    BY DEF Call, TypeInv
  <2>2. tasks'[r].sender = s /\ \A q \in Slots \ {r} : tasks'[q] = tasks[q]
    BY <1>1 DEF TypeInv
  <2>3. QED BY <1>1, <1>2, <2>1, <2>2, AgentsConstants DEF TypeInv, Busy, Sender
<1>5. believed'[s] \in {"pending", "unsure"} /\ (believed'[s] = "pending" => Busy(s) = {})
  BY <1>1, <1>2 DEF TypeInv
<1>6. Alone'
  BY <1>4, <1>5 DEF TellInv, Alone
<1>7. TableAsTold'
  BY <1>2, <1>4, <1>5 DEF TellInv, TableAsTold
<1>8. QED BY <1>2, <1>3, <1>6, <1>7 DEF TellInv, NoTwice

LEMMA StepTells ==
    ASSUME TypeInv, TellInv, NEW r \in Slots, Step(r)
    PROVE  TypeInv' /\ TellInv'
<1>a. PICK s \in Senders : s = Sender(r)
  BY DEF TypeInv, Task, Step, Add, TakeOut, PutBack, RemoveAgent, At, Sender
<1>0. /\ agents \in Seq(Senders) /\ NoTwice(agents) /\ s \in Senders /\ r \in Busy(s)
      /\ tasks \in [Slots -> Task] /\ Sender(r) = s
  BY <1>a DEF TypeInv, TellInv, Busy
<1>1. onBus' = onBus
  BY DEF Step, Add, TakeOut, PutBack, RemoveAgent
<1>2. believed[s] \notin {"in", "out"}
  BY <1>0 DEF TellInv, Alone
<1>3. /\ agents' \in Seq(Senders) /\ NoTwice(agents')
      /\ \A x \in Senders \ {s} : Contains(agents', x) <=> Contains(agents, x)
  BY <1>0, EnterFacts, LeaveFacts DEF Step, Add, TakeOut, PutBack, RemoveAgent
<1>4. ASSUME NEW pc \in {"takeOut", "putBack"}, Goto(r, pc)
      PROVE  TypeInv' /\ TellInv'
  <2>1. /\ believed' = believed /\ tasks'[r].sender = s /\ tasks'[r].pc = pc
        /\ \A q \in Slots \ {r} : tasks'[q] = tasks[q]
    BY <1>0, <1>4 DEF Goto, Task, Sender
  <2>2. tasks' \in [Slots -> Task]
    BY <1>0, <1>4 DEF Goto, Task
  <2>3. TypeInv'
    BY <1>0, <1>1, <1>3, <2>1, <2>2, AgentsConstants DEF TypeInv, At, Sender
  <2>4. \A x \in Senders : Busy(x)' = Busy(x)
    BY <1>0, <2>1 DEF Busy, Sender
  <2>5. Alone' /\ TableAsTold'
    <3>1. Alone'
      BY <2>1, <2>4 DEF TellInv, Alone
    <3>2. TableAsTold'
      BY <1>2, <1>3, <2>1 DEF TellInv, TableAsTold
    <3>3. QED BY <3>1, <3>2
  <2>6. QED BY <1>3, <2>3, <2>5 DEF TellInv
<1>5. ASSUME NEW told \in {"in", "out"}, Answer(r, told), Contains(agents', s) <=> told = "in"
      PROVE  TypeInv' /\ TellInv'
  <2>1. /\ tasks' = [tasks EXCEPT ![r] = Idle]
        /\ believed' = IF believed[s] = "pending" THEN [believed EXCEPT ![s] = told] ELSE believed
    BY <1>0, <1>5 DEF Answer
  <2>2. /\ tasks'[r].sender = NoOne /\ tasks'[r].pc = "idle" /\ tasks' \in [Slots -> Task]
        /\ \A q \in Slots \ {r} : tasks'[q] = tasks[q]
    BY <1>0, <2>1 DEF Task, Idle
  <2>3. /\ believed' \in [Senders -> {"in", "out", "pending", "unsure"}]
        /\ believed'[s] = IF believed[s] = "pending" THEN told ELSE believed[s]
        /\ \A x \in Senders \ {s} : believed'[x] = believed[x]
    BY <1>0, <2>1 DEF TypeInv
  <2>4. TypeInv'
    BY <1>1, <1>3, <2>2, <2>3 DEF TypeInv, At, Sender
  <2>5. \A x \in Senders : Busy(x)' = Busy(x) \ {r}
    BY <2>2, AgentsConstants DEF Busy, Sender
  <2>6. \A x \in Senders \ {s} : r \notin Busy(x)
    BY <1>0 DEF Busy
  <2>7. believed[s] = "pending" => Busy(s)' = {}
    BY <1>0, <2>5 DEF TellInv, Alone
  <2>8. believed[s] \in {"pending", "unsure"}
    BY <1>0, <1>2 DEF TypeInv
  <2>9. Alone'
    BY <2>3, <2>5, <2>6, <2>7, <2>8 DEF TellInv, Alone
  <2>10. TableAsTold'
    BY <1>3, <1>5, <2>3, <2>8 DEF TellInv, TableAsTold
  <2>11. QED BY <1>3, <2>4, <2>9, <2>10 DEF TellInv
<1>6. CASE Add(r)
  BY <1>0, <1>4, <1>5, <1>6, EnterFacts DEF Add
<1>7. CASE TakeOut(r)
  BY <1>4, <1>7 DEF TakeOut
<1>8. CASE PutBack(r)
  BY <1>0, <1>5, <1>8, EnterFacts DEF PutBack
<1>9. CASE RemoveAgent(r)
  BY <1>0, <1>5, <1>9, LeaveFacts DEF RemoveAgent
<1>10. QED BY <1>6, <1>7, <1>8, <1>9 DEF Step

LEMMA NextTells == TypeInv /\ TellInv /\ [Next]_vars => TypeInv' /\ TellInv'
<1> SUFFICES ASSUME TypeInv, TellInv, [Next]_vars PROVE TypeInv' /\ TellInv'
  OBVIOUS
<1>1. ASSUME NEW r \in Slots, Call(r) \/ Step(r) PROVE TypeInv' /\ TellInv'
  BY <1>1, CallTells, StepTells
<1>2. ASSUME NEW c \in Callers, Ask(c) \/ Answered(c) \/ GoOn(c) PROVE TypeInv' /\ TellInv'
  BY <1>2, SameTells DEF Ask, Answered, GoOn, Refused, Rest
<1>3. CASE Quit \/ UNCHANGED vars
  BY <1>3, SameTells DEF Quit, vars
<1>4. QED BY <1>1, <1>2, <1>3 DEF Next

\* Of TableAsTold: whatever calls agents make and however they overlap, an agent may rely
\* on the answers it got: it is in the table when told so, and out of it when told so.
THEOREM AnswersAreTrue == Spec => []TableAsTold
<1>1. TypeInv /\ TellInv => TableAsTold
  BY DEF TellInv
<1>2. QED BY <1>1, InitTells, NextTells, PTL DEF Spec

=============================================================================

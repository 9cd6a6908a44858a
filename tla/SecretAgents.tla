---------------------------- MODULE SecretAgents ----------------------------
(***************************************************************************)
(* SecretAgents: the table of secret agents, the calls by which agents     *)
(* enter and leave it, and the calls of the service that wait for an agent *)
(* (agent_manager.rs, runtime.rs, settings_connection.rs,                  *)
(* network_manager/mod.rs).                                                *)
(*                                                                         *)
(* An agent is known by its unique name on the bus, which is never used    *)
(* again.  It may send several calls without waiting for answers, and it   *)
(* may leave the bus without a word: nobody watches for that.              *)
(***************************************************************************)
EXTENDS Naturals, SequencesExt

CONSTANTS
    Senders,  \* agents: their unique names
    Slots,    \* tasks that answer the calls of agents
    Callers,  \* tasks that need an agent
    NoOne,    \* no agent
    MaxCalls  \* bound: how many calls agents make

ASSUME AgentsConstants == NoOne \notin Senders /\ MaxCalls \in Nat

VARIABLES
    agents,    \* RuntimeState.registered_agents, by sender
    onBus,     \* agents that are on the bus
    made,      \* calls made by agents so far
    tasks,     \* the tasks that answer them
    calls,     \* the tasks that need an agent
    believed   \* what each agent may conclude from the answers it got; no part of
               \* the service

vars == <<agents, onBus, made, tasks, calls, believed>>

Idle == [op |-> "none", pc |-> "idle", sender |-> NoOne]
Waiting == [pc |-> "idle", agent |-> NoOne]

Init ==
    /\ agents = << >>
    /\ onBus = Senders
    /\ made = 0
    /\ tasks = [r \in Slots |-> Idle]
    /\ calls = [c \in Callers |-> Waiting]
    /\ believed = [s \in Senders |-> "out"]

At(r, pc) == tasks[r].pc = pc
Sender(r) == tasks[r].sender
Busy(s) == {r \in Slots : Sender(r) = s}
Goto(r, pc) == tasks' = [tasks EXCEPT ![r].pc = pc] /\ UNCHANGED believed

\* The answer of a call that overlapped no other call of its sender tells it
\* whether it is in the table.
Answer(r, inOrOut) ==
    /\ tasks' = [tasks EXCEPT ![r] = Idle]
    /\ believed' = IF believed[Sender(r)] = "pending"
                   THEN [believed EXCEPT ![Sender(r)] = inOrOut] ELSE believed

\* Vec::retain, as far as the i-th entry: those of others, in their order
AllBut(s) ==
    LET kept[i \in 0..Len(agents)] ==
            IF i = 0 THEN << >>
            ELSE IF agents[i] = s THEN kept[i - 1] ELSE Append(kept[i - 1], agents[i])
    IN kept[Len(agents)]

\* Mutant: an agent that registers again is entered again.
EnterAgain(s) == agents' = Append(agents, s)

\* add_registered_agent
Enter(s) == agents' = Append(AllBut(s), s)

\* remove_registered_agent takes the first entry of the sender.
Leave(s) == agents' = IF Contains(agents, s) THEN RemoveFirst(agents, s) ELSE agents

-----------------------------------------------------------------------------
(* Register, RegisterWithCapabilities and Unregister                       *)

Call(r) ==
    /\ At(r, "idle") /\ made < MaxCalls
    /\ \E s \in onBus, op \in {"register", "withCapabilities", "unregister"} :
           /\ tasks' = [tasks EXCEPT ![r] = [op |-> op, sender |-> s,
                            pc |-> IF op = "unregister" THEN "remove" ELSE "add"]]
           /\ believed' = [believed EXCEPT ![s] = IF Busy(s) = {} THEN "pending" ELSE "unsure"]
    /\ made' = made + 1
    /\ UNCHANGED <<agents, onBus, calls>>

\* RegisterWithCapabilities calls Register first, then replaces the entry.
Add(r) ==
    /\ At(r, "add")
    /\ Enter(Sender(r))
    /\ IF tasks[r].op = "register" THEN Answer(r, "in") ELSE Goto(r, "takeOut")
    /\ UNCHANGED <<onBus, made, calls>>

TakeOut(r) ==
    /\ At(r, "takeOut")
    /\ Leave(Sender(r))
    /\ Goto(r, "putBack")
    /\ UNCHANGED <<onBus, made, calls>>

\* Mutant: the agent is not entered again.
PutNothingBack(r) ==
    /\ At(r, "putBack")
    /\ Answer(r, "in")
    /\ UNCHANGED <<agents, onBus, made, calls>>

PutBack(r) ==
    /\ At(r, "putBack")
    /\ Enter(Sender(r))
    /\ Answer(r, "in")
    /\ UNCHANGED <<onBus, made, calls>>

\* An error if there was no entry; then too the agent is out.
RemoveAgent(r) ==
    /\ At(r, "remove")
    /\ Leave(Sender(r))
    /\ Answer(r, "out")
    /\ UNCHANGED <<onBus, made, calls>>

\* An agent leaves the bus: its entry stays.
Quit ==
    /\ \E s \in onBus : onBus' = onBus \ {s}
    /\ UNCHANGED <<agents, made, tasks, calls, believed>>

-----------------------------------------------------------------------------
(* GetSecrets, Save, ClearSecrets, Delete and the activation of a Wi-Fi    *)
(* profile ask the agent that registered last, and go on without one.      *)

Ask(c) ==
    /\ calls[c].pc = "idle"
    /\ calls' = [calls EXCEPT ![c] = IF agents = << >> THEN [pc |-> "rest", agent |-> NoOne]
                                     ELSE [pc |-> "wait", agent |-> Last(agents)]]
    /\ UNCHANGED <<agents, onBus, made, tasks, believed>>

\* Whatever the agent answers: the profile is the caller's business.  The call has
\* no timeout.
Answered(c) ==
    /\ calls[c].pc = "wait" /\ calls[c].agent \in onBus
    /\ calls' = [calls EXCEPT ![c].pc = "rest"]
    /\ UNCHANGED <<agents, onBus, made, tasks, believed>>

\* Mutant: the next agent is asked.
RefusedAsksOn(c) ==
    /\ calls[c].pc = "wait" /\ calls[c].agent \notin onBus
    /\ calls' = [calls EXCEPT ![c] = IF agents = << >> THEN [pc |-> "rest", agent |-> NoOne]
                                     ELSE [pc |-> "wait", agent |-> Last(agents)]]
    /\ UNCHANGED <<agents, onBus, made, tasks, believed>>

\* The bus answers for those who have left; no other agent is tried.
Refused(c) ==
    /\ calls[c].pc = "wait" /\ calls[c].agent \notin onBus
    /\ calls' = [calls EXCEPT ![c].pc = "rest"]
    /\ UNCHANGED <<agents, onBus, made, tasks, believed>>

Rest(c) ==
    /\ calls[c].pc = "rest"
    /\ calls' = [calls EXCEPT ![c] = Waiting]
    /\ UNCHANGED <<agents, onBus, made, tasks, believed>>

-----------------------------------------------------------------------------
Step(r) == Add(r) \/ TakeOut(r) \/ PutBack(r) \/ RemoveAgent(r)
GoOn(c) == Refused(c) \/ Rest(c)
Next == \/ \E r \in Slots : Call(r) \/ Step(r)
        \/ \E c \in Callers : Ask(c) \/ Answered(c) \/ GoOn(c)
        \/ Quit

Spec == Init /\ [][Next]_vars

\* The service's tasks go on, and the bus answers for agents that have left.  No
\* fairness of agents: they need not answer.
FairSpec == /\ Spec
            /\ \A r \in Slots : WF_vars(Step(r))
            /\ \A c \in Callers : WF_vars(GoOn(c))

-----------------------------------------------------------------------------
\* What an agent may conclude from the answers it got is so, whatever others do and
\* however often it has registered: an agent that was told that it has registered
\* is in the table, one that was told that it has left is not.
TableAsTold ==
    \A s \in Senders : /\ believed[s] = "in" => Contains(agents, s)
                       /\ believed[s] = "out" => ~Contains(agents, s)

\* A call that needs an agent can wait for ever only for one that stays on the bus
\* and does not answer.
DeadAgentsRefuse ==
    \A c \in Callers : calls[c].agent \notin onBus \cup {NoOne} ~> calls[c].pc = "idle"
=============================================================================

SPECIFICATION FairSpec
CONSTANTS
    s1 = s1
    s2 = s2
    r1 = r1
    r2 = r2
    c1 = c1
    NoOne = NoOne
    Senders = {s1, s2}
    Slots = {r1, r2}
    Callers = {c1}
    MaxCalls = 5
INVARIANTS
    TableAsTold
PROPERTIES
    DeadAgentsRefuse

SPECIFICATION FairSpec
CONSTANTS
    e1 = e1
    e2 = e2
    e3 = e3
    None = None
    Clients = {a, b, c}
    Exits = {e1, e2, e3}
    Slots = {1, 2}
    Pools <- OneOrTwo
    Fallback <- Backup
    Modes = {TRUE, FALSE}
    Num = 2
    MaxAssignments = 3
INVARIANTS
    TypeOK
    SharedOnlyOfNeed
PROPERTIES
    NeighboursApart
    DeadPinLeft

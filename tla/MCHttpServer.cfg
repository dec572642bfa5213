SPECIFICATION HttpFairSpec
CONSTANTS
    Reqs = {r1, r2}
    Merchants = {m1}
    Statuses = {1, 7}
    Unreadable = Unreadable
    Absent = Absent
    Chain <- MCChain
    Connections = 1
INVARIANTS
    BarredNeverPasses
    RefusedForAReason
PROPERTIES
    OnlyHandlersHold

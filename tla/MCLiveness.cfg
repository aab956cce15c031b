CONSTANTS
    t1 = t1
    t2 = t2
    t3 = t3
    a = a
    b = b
    empty = empty
    Empty = empty
    Threads <- TwoThreads
    Items <- OneItem
    Capacities <- ZeroToTwoSlots
    MaxTickets = 3

SPECIFICATION LiveSpec
PROPERTIES
    ClaimedCallsReturn
    ClaimsAreLockFree
    CallsReturn
    ImplementsPool

CONSTANTS
    t1 = t1
    t2 = t2
    t3 = t3
    a = a
    b = b
    empty = empty
    Empty = empty
    Threads <- ThreeThreads
    Items <- TwoItems
    Capacities <- ZeroToTwoSlots
    MaxTickets = 3

SPECIFICATION Spec
SYMMETRY ThreadsAndItemsAlike
INVARIANTS
    TypeOK
    HeadsAndTailsOrdered
    SlotsExclusive
    PublishedIntact
    DeliversInOrder
PROPERTIES
    RefusesOnlyWhenFullOrEmpty
    ImplementsFIFO

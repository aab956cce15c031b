CONSTANTS
    t1 = t1
    t2 = t2
    a = a
    b = b
    c = c
    Threads <- TwoThreads
    Keys <- ThreeKeys
    Hash <- ThreeHashes
    Maps <- MapsThatWork
    NoCall = NoCall
    Parts <- BothParts
    Blocks <- TwoBlocks
    Uses <- PlansThatWork
SPECIFICATION ListsSpec
INVARIANTS
    MapTypeOK
    KeysInPlace
    MemoryStaysValid
PROPERTIES
    MarkedPointersAreFinal
    ImplementsSet

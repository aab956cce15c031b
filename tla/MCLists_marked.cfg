CONSTANTS
    t1 = t1
    t2 = t2
    a = a
    b = b
    c = c
    Threads <- TwoThreads
    Keys <- ThreeKeys
    Hash <- ThreeHashes
    Maps <- MarkedListAlone
    NoCall = NoCall
    Parts <- OnlyMaps
    Blocks <- TwoBlocks
    Uses <- PlansThatWork
SPECIFICATION ListsSpec
PROPERTY InsertedKeysStay

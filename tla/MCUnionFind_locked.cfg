CONSTANTS
    t1 = t1
    t2 = t2
    t3 = t3
    nobody = nobody
    Nodes <- ThreeNodes
    Threads <- TwoThreads
    Queries <- NoQueries
    Blocks <- NoBlocks
    Edges <- TriangleTwice
    Builds <- CompressingBuilds
    Parts <- LocksOnly
SPECIFICATION AnySpec
CHECK_DEADLOCK FALSE
INVARIANT ComponentsAsExpected

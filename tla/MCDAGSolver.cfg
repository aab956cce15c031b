CONSTANTS
    t1 = t1
    t2 = t2
    t3 = t3
    done = done
    Threads <- ThreeThreads
    Nodes <- FourNodes
    start_node = 0
    done_task = done
    Graphs <- SevenGraphs

SPECIFICATION FairSpec
INVARIANTS
    TypeOK
    WorkNeverThrows
    OnePlacePerNode
    DoneTasksComeLast
PROPERTIES
    ImplementsOrderedWork
    SolveReturns

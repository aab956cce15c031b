CONSTANTS
    t1 = t1
    t2 = t2
    t3 = t3
    nobody = nobody
    Nodes <- FourNodes
    Threads <- ThreeThreads
    Queries <- ZeroAndTwo
    Blocks <- PathThenChord
    Edges <- PathAndChord
    Builds <- BuildsThatWork
    Parts <- AllParts
SPECIFICATION AnySpec
SYMMETRY ThreadsAlike
CHECK_DEADLOCK FALSE
INVARIANTS
    EitherTypeOK
    ParentsOutrank
    TreesAsLargeAsRanks
    EdgesStoredOnce
    SearchForestIsRooted
PROPERTIES
    ConnectedAnswersRight
    AnyImplementsForest

CONSTANTS
    Structures = {"heap", "indexed", "dijkstra", "bfs", "table", "vector", "files", "instances"}
    MaxSize = 5
    Values = {1, 2, 3}
    Capacity = 5
    Lengths = {0, 1, 3}
    Lowers = FALSE
    k1 = k1
    k2 = k2
    k3 = k3
    k4 = k4
    emptyKey = emptyKey
    Garbage = Garbage
    Heaps <- HeapClasses
    HashedKeys <- FourKeys
    Tables <- SomeTables
    Vectors <- SomeVectors
    Elements <- TwoKeys
    MaxCapacity = 6
SPECIFICATION SequentialSpec
INVARIANTS
    HeapsInOrder
    SearchesAnswerRight
    KeysAreFound
    VectorsInPlace
    GeneratedInputsFit
PROPERTY ImplementsMaxQueue

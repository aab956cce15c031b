CONSTANTS
    Structures = {"indexed"}
    MaxSize = 5
    Values = {1, 2, 3}
    Capacity = 5
    Lengths = {0, 1, 3}
    Lowers = TRUE
    k1 = k1
    k2 = k2
    k3 = k3
    k4 = k4
    emptyKey = emptyKey
    Garbage = Garbage
    Heaps <- HeapClasses
    HashedKeys <- FourKeys
    Tables <- SomeTables
    Vectors <- SomeVectors
    Elements <- TwoKeys
    MaxCapacity = 6
SPECIFICATION SequentialSpec
INVARIANT TopIsLargest

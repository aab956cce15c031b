---------------------------- MODULE MCSequential ----------------------------
(***************************************************************************)
(* The sequential parts, one of them in each behaviour: the d-ary heaps    *)
(* and the vector below them, the indexed priority queue, Dijkstra's       *)
(* algorithm with it, the breadth-first search, the hash tables with       *)
(* linear probing, and the programs and classes that generate the inputs   *)
(* of the solvers and the hash maps.                                       *)
(***************************************************************************)
EXTENDS Integers, Sequences, SequencesExt, TLC

CONSTANTS
    Structures, Lengths, k1, k2, k3, k4,
    Heaps, MaxSize, Values,                     (* the heaps               *)
    Capacity, Lowers,                           (* the indexed queue       *)
    HashedKeys, emptyKey, Tables,               (* the hash tables         *)
    Vectors, Elements, MaxCapacity, Garbage     (* the vectors             *)

VARIABLES which, heap, pq, queue, graph, distance, search, answer,
    frontier, next_frontier, visited, config, table,
    vector, alloc, memory, capacity, m_size, pushed, program, drawn,
    benchmark, keys_in_map, setup, queries, step

heapVars == <<heap, pq>>
queueVars == <<queue>>
bfsOnly == <<frontier, next_frontier, visited>>
tableVars == <<config, table>>
vectorVars == <<vector, alloc, memory, capacity, m_size, pushed>>
generatorVars == <<program, drawn>>
instanceVars == <<benchmark, keys_in_map, setup, queries, step>>
generated == <<generatorVars, instanceVars>>
allVars == <<vectorVars, generated, which, heap, pq, queue, graph, distance, search, answer,
             frontier, next_frontier, visited, config, table>>

\* What the proofs take for granted: K() itself is no key of a hash table, hashes are not
\* negative, and a type is aligned to a factor of its size.
ASSUME SequentialAssumption ==
    /\ MaxSize \in Nat /\ Capacity \in Nat /\ Values \subseteq Int
    /\ \A h \in Heaps : h.degree \in Nat \ {0}
    /\ emptyKey \notin HashedKeys
    /\ \A c \in Tables :
        c.capacity \in Nat \ {0} /\ c.max_search_length \in Nat /\ c.hash \in [HashedKeys -> Nat]
    /\ MaxCapacity \in Nat
    /\ \A v \in Vectors :
        /\ {v.sizeof, v.alignof, v.block_size, v.capacity} \subseteq Nat \ {0}
        /\ v.offset \in Nat /\ v.sizeof % v.alignof = 0

Less(x, y) == x < y
Greater(x, y) == x > y

HeapClasses == {[variant |-> v, degree |-> n] : v \in {"A", "B", "D"}, n \in {2, 3}}
TwoKeys == {k1, k2}
SomeKeys == 0 .. Capacity - 1

\* All weighted graphs with three nodes, and two with five, where the queue gets longer.
Far == 100
Arcs == <<<<0, 1>>, <<0, 2>>, <<1, 0>>, <<1, 2>>, <<2, 0>>, <<2, 1>>>>
Unlinked == -1
Arc(from, to, length) == [from |-> from, to |-> to, length |-> length]
ListOf(lengths) ==
    FoldLeft(LAMBDA s, i : IF lengths[i] = Unlinked THEN s
                           ELSE Append(s, Arc(Arcs[i][1], Arcs[i][2], lengths[i])),
             <<>>, [i \in 1 .. 6 |-> i])
ThreeNodes(lengths) ==
    {[n |-> 3, elist |-> ListOf(arcs)] : arcs \in [1 .. 6 -> lengths \cup {Unlinked}]}
FiveNodes == {
    [n |-> 5, elist |-> <<Arc(0, 1, 9), Arc(0, 2, 8), Arc(0, 3, 7), Arc(0, 4, 1), Arc(4, 1, 2),
                          Arc(4, 2, 7), Arc(1, 3, 1), Arc(1, 2, 4), Arc(3, 2, 1), Arc(2, 0, 1)>>],
    [n |-> 5, elist |-> <<Arc(4, 3, 2), Arc(3, 1, 2), Arc(4, 1, 4), Arc(4, 2, 1), Arc(2, 3, 0),
                          Arc(1, 0, 3), Arc(2, 0, 9), Arc(3, 0, 6), Arc(3, 4, 0)>>]}

FourKeys == {k1, k2, k3, k4}
SomeTables ==
    {[capacity |-> n, max_search_length |-> l, hash |-> h] :
        n \in {2, 4}, l \in {2, 5}, h \in [FourKeys -> {1, 3, 6}]}

\* The vectors of heaps with blocks of up to four, and plain ones, for several types.
SomeVectors ==
    {[sizeof |-> t.sizeof, alignof |-> t.alignof, block_size |-> n, offset |-> n - 1, capacity |-> c] :
        t \in {[sizeof |-> 8, alignof |-> 8], [sizeof |-> 12, alignof |-> 4], [sizeof |-> 16, alignof |-> 8]},
        n \in 1 .. 4, c \in {1, 3}}

\* Trees and task graphs of up to four nodes, and up to three components.
Part(nodes, edges) == [nodes |-> nodes, edges |-> edges]
SomePrograms == {
    [kind |-> "tree", parts |-> <<Part(1, 0)>>], [kind |-> "tree", parts |-> <<Part(4, 0)>>],
    [kind |-> "graph", parts |-> <<Part(2, 0)>>], [kind |-> "graph", parts |-> <<Part(4, 5)>>],
    [kind |-> "components", parts |-> <<Part(2, 1), Part(1, 0), Part(1, 0)>>],
    [kind |-> "components", parts |-> <<Part(1, 0), Part(3, 3)>>]}

\* The draws of the five benchmarks: two kinds of queries that always or never succeed,
\* and those whose queries may do both.
SomeBenchmarks ==
    {[success |-> s, modify |-> m, elements |-> 2, queries |-> 3] :
        s \in {{TRUE}, {FALSE}, BOOLEAN}, m \in {{TRUE}, {FALSE}, BOOLEAN}}

Probing == INSTANCE LinearProbing WITH Keys <- HashedKeys, EmptyKey <- emptyKey
Vector == INSTANCE AlignedVector
Files == INSTANCE Generators
    WITH Programs <- SomePrograms, Benchmarks <- SomeBenchmarks, KeyDraws <- 0 .. 2, FailDraws <- {-1, -2},
         i <- step

Heap == INSTANCE PriQueue
Indexed == INSTANCE IndexedPriorityQueue WITH Keys <- SomeKeys, PriorityValues <- Values, comp_ <- Less
Paths == INSTANCE Searches
    WITH Keys <- 0 .. 4, PriorityValues <- Values, comp_ <- Greater, Layouts <- {"array"},
         Inputs <- ThreeNodes(Lengths) \cup FiveNodes, Infinity <- Far
Hops == INSTANCE Searches
    WITH Keys <- 0 .. 4, PriorityValues <- Values, comp_ <- Greater,
         Inputs <- ThreeNodes({1}) \cup FiveNodes, Layouts <- {"array", "list", "nodes"}, Infinity <- Far
Unused == <<>>
NoHeap == heap = Unused /\ pq = Unused
NoQueue == queue = Unused
NoGraph == graph = Unused /\ search = Unused
NoDistance == distance = Unused
NoFrontier == frontier = Unused /\ next_frontier = Unused /\ visited = Unused
NoTable == config = Unused /\ table = Unused
NoAnswer == answer = Unused
NoVector ==
    /\ vector = Unused /\ alloc = Unused /\ memory = Unused
    /\ capacity = Unused /\ m_size = Unused /\ pushed = Unused
NoFile == program = Unused /\ drawn = Unused
NoInstance ==
    /\ benchmark = Unused /\ keys_in_map = Unused /\ setup = Unused
    /\ queries = Unused /\ step = Unused

SequentialInit ==
    /\ which \in Structures
    /\ IF which = "heap" THEN Heap!PQInit ELSE NoHeap
    /\ IF which = "indexed" THEN Indexed!IPQInit ELSE which = "dijkstra" \/ NoQueue
    /\ CASE which = "dijkstra" -> Paths!DijkstraInit /\ NoFrontier
         [] which = "bfs" -> Hops!BFSInit /\ NoDistance
         [] OTHER -> NoGraph /\ NoDistance /\ NoFrontier
    /\ IF which = "table" THEN Probing!ProbingInit ELSE NoTable
    /\ IF which = "vector" THEN Vector!VectorInit ELSE NoVector
    /\ IF which = "files" THEN Files!GeneratorInit ELSE NoFile
    /\ IF which = "instances" THEN Files!InstanceInit ELSE NoInstance
    /\ which \notin {"dijkstra", "bfs", "table"} => NoAnswer

others == <<generated, vectorVars>>
structures == <<heapVars, queue, graph, distance, search, answer, bfsOnly, tableVars>>

SequentialNext ==
    /\ \/ /\ which = "heap" /\ Heap!PQNext
          /\ UNCHANGED <<queue, graph, distance, search, answer, bfsOnly, tableVars, others>>
       \/ /\ which = "indexed" /\ Indexed!IPQNext
          /\ UNCHANGED <<heapVars, graph, distance, search, answer, bfsOnly, tableVars, others>>
       \/ /\ which = "dijkstra" /\ Paths!DijkstraNext
          /\ UNCHANGED <<heapVars, bfsOnly, tableVars, others>>
       \/ /\ which = "bfs" /\ Hops!BFSNext
          /\ UNCHANGED <<heapVars, queue, distance, tableVars, others>>
       \/ /\ which = "table" /\ Probing!ProbingNext
          /\ UNCHANGED <<heapVars, queue, graph, distance, search, bfsOnly, others>>
       \/ which = "vector" /\ Vector!VectorNext /\ UNCHANGED <<structures, generated>>
       \/ which = "files" /\ Files!GeneratorNext /\ UNCHANGED <<structures, vectorVars, instanceVars>>
       \/ which = "instances" /\ Files!InstanceNext /\ UNCHANGED <<structures, vectorVars, generatorVars>>
    /\ UNCHANGED which

SequentialSpec == SequentialInit /\ [][SequentialNext]_allVars

-----------------------------------------------------------------------------
\* Parents are not below their children, and the positions that PriQueueD and
\* IndexedPriorityQueue keep lead to the elements, also inside Dijkstra's algorithm.
HeapsInOrder ==
    CASE which = "heap" -> Heap!InHeapOrder
      [] which = "indexed" -> Indexed!QueueInOrder
      [] which = "dijkstra" -> Paths!QueueInOrder
      [] OTHER -> TRUE

\* push(), pop() and the change of a value do to the content what a priority queue promises.
Content == CASE which = "heap" -> Heap!Content [] which = "indexed" -> Indexed!QueueContent [] OTHER -> <<>>
Abstract == INSTANCE MaxQueue
    WITH content <- Content, Handles <- 0 .. MaxSize + Capacity, Below <- Less
ImplementsMaxQueue == Abstract!MaxQueueSpec

\* dijkstra() returns the length of a shortest path, bfs() the least number of edges,
\* however often the helpers were used before.
SearchesAnswerRight ==
    /\ which = "dijkstra" => Paths!ReturnsShortest
    /\ which = "bfs" => Hops!ReturnsFewestEdges

\* See KeysAreFound of LinearProbing.
KeysAreFound == which = "table" => Probing!KeysAreFound

\* See ElementsInPlace of AlignedVector.
VectorsInPlace == which = "vector" => Vector!ElementsInPlace

\* What is generated is what its readers take for granted: see FilesFit and QueriesFit
\* of Generators.
GeneratedInputsFit ==
    /\ which = "files" => Files!FilesFit
    /\ which = "instances" => Files!QueriesFit

\* top() is the largest element in the queue (indexed_priority_queue.hpp:15).
TopIsLargest == which = "indexed" => Indexed!TopIsLargest
=============================================================================

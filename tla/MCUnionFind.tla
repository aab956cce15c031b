---------------------------- MODULE MCUnionFind ----------------------------
(***************************************************************************)
(* The implementations of DynamicConnectivity, one of them in each         *)
(* behaviour: the lock-free one (DC_F), one of those with locks, the       *)
(* sequential one, the reference solution; or the construction of the      *)
(* search forest that the first ones have in common.  `runs` tells which   *)
(* module takes steps; the variables of the other ones stay as they are.   *)
(***************************************************************************)
EXTENDS DynamicConnectivity, Functions, TLC

CONSTANTS t1, t2, t3, nobody, Edges, Builds, Parts

VARIABLES
    variant, crew, union_find_parents, union_find_ranks, union_find_mutexes, untaken, at, ends,
    which, node, root, parent, locking, taken, locked_kept, locked_filtered, accepted, refused,
    forests, parallel, builders, calls, stage, left, placing, adj_index, adj_counter, adj_edges,
    search_parents, frontier, next_frontier, visited,
    alone_parents, alone_ranks, alone_edges, alone_bfs, alone_block, alone_todo, adding, counter, alone_refused,
    ref_union_find, ref_edges, num_edges, parent_of, index, adj, round, phase, ref_left, worker, ref_refused,
    runs

Locked == INSTANCE LockedUnionFind WITH Nobody <- nobody, kept <- locked_kept, filtered_edges <- locked_filtered

\* What two calls of addEdges find, with the root of a tree at its end or in its middle.
GrowingForests == {
    <<[edges |-> <<<<0, 1>>, <<3, 2>>>>, roots |-> {1, 2}],
      [edges |-> <<<<0, 1>>, <<3, 2>>, <<1, 2>>>>, roots |-> {1}]>>,
    <<[edges |-> <<<<1, 0>>>>, roots |-> {0, 2, 3}],
      [edges |-> <<<<1, 0>>, <<0, 3>>, <<2, 0>>>>, roots |-> {3}]>>}

Built == INSTANCE ForestBuild WITH crew <- builders, bfs_parents <- search_parents, Forests <- GrowingForests
Alone == INSTANCE SequentialConnectivity WITH
    union_find_parents <- alone_parents, union_find_ranks <- alone_ranks, filtered_edges <- alone_edges,
    bfs_parents <- alone_bfs, block <- alone_block, todo <- alone_todo, refused <- alone_refused
Reference == INSTANCE ReferenceSolution WITH
    union_find <- ref_union_find, edges <- ref_edges, left <- ref_left, refused <- ref_refused

ASSUME BuildAssumption == Locked!BuildsAndEdges

PathAndChord == {<<0, 1>>, <<3, 2>>, <<1, 2>>, <<0, 3>>}
TriangleTwice == {<<2, 1>>, <<1, 2>>, <<0, 1>>, <<0, 2>>}

ThreeThreads == {t1, t2, t3}
TwoThreads == {t1, t2}
ThreadsAlike == Permutations(Threads)
FourNodes == 0 .. 3
ThreeNodes == 0 .. 2
\* The second block closes a cycle.
ZeroAndTwo == {<<0, 2>>}
PathThenChord == <<{<<0, 1>>, <<3, 2>>, <<1, 2>>}, {<<0, 3>>}>>
NoBlocks == <<>>
NoQueries == {}
\* Three threads without compression, one thread with compression.
BuildsThatWork ==
    {[variant |-> "DC_B", crew |-> Threads]}
    \cup [variant : {"DC_C", "DC_D", "DC_E"}, crew : {{t} : t \in Threads}]
CompressingBuilds == [variant : {"DC_C", "DC_D", "DC_E"}, crew : {Threads}]
AllParts == {"DC_F", "locks", "forest", "sequential", "reference"}
LocksOnly == {"locks"}

locked == <<variant, crew, union_find_parents, union_find_ranks, union_find_mutexes, untaken, at, ends,
            which, node, root, parent, locking, taken, locked_kept, locked_filtered, accepted, refused>>
built == <<forests, parallel, builders, calls, stage, left, placing, adj_index, adj_counter, adj_edges,
           search_parents, frontier, next_frontier, visited>>
alone == <<alone_parents, alone_ranks, alone_edges, alone_bfs, alone_block, alone_todo, adding, counter,
           alone_refused>>
referenced == <<ref_union_find, ref_edges, num_edges, parent_of, index, adj, round, phase, ref_left,
                worker, ref_refused>>

AnyInit ==
    /\ runs \in Parts
    /\ Init /\ Locked!LockedInit /\ Built!BuildInit /\ Alone!SequentialInit /\ Reference!ReferenceInit
    \* What the modules that do not run begin with does not matter.
    /\ runs # "locks" => variant = "DC_B"
    /\ runs # "forest" => parallel /\ forests = CHOOSE f \in GrowingForests : TRUE

AnyNext ==
    /\ \/ runs = "DC_F" /\ Next /\ UNCHANGED <<locked, built, alone, referenced>>
       \/ runs = "locks" /\ Locked!LockedNext /\ UNCHANGED <<vars, built, alone, referenced>>
       \/ runs = "forest" /\ Built!BuildNext /\ UNCHANGED <<vars, locked, alone, referenced>>
       \/ runs = "sequential" /\ Alone!SequentialNext /\ UNCHANGED <<vars, locked, built, referenced>>
       \/ runs = "reference" /\ Reference!ReferenceNext /\ UNCHANGED <<vars, locked, built, alone>>
    /\ UNCHANGED runs

AnySpec == AnyInit /\ [][AnyNext]_<<vars, locked, built, alone, referenced, runs>>

-----------------------------------------------------------------------------
\* The type invariants of both modules.
EitherTypeOK == TypeOK /\ Locked!LockedTypeOK

\* Whichever runs, the edges that unite() accepts are a spanning forest of those it was
\* called with, and it refuses none but those that close a cycle.
AnyForest == INSTANCE SpanningForest WITH
    classes <- CASE runs = "locks" -> {{v \in Nodes : Locked!TreeOf(v) = r} : r \in Locked!TreeRoots}
                 [] runs = "sequential" ->
                    {{v \in Nodes : Alone!find_representative(alone_parents, v) = r} : r \in Nodes} \ {{}}
                 [] runs = "reference" -> {{v \in Nodes : Reference!RootOf(v) = r} : r \in Nodes} \ {{}}
                 [] OTHER -> {{v \in Nodes : RootOf(v) = r} : r \in Roots},
    accepted <- CASE runs = "locks" -> accepted
                  [] runs = "sequential" -> Alone!AcceptedInOrder
                  [] runs = "reference" -> Reference!AcceptedEdges
                  [] OTHER -> Accepted,
    rejected <- CASE runs = "locks" -> refused
                  [] runs = "sequential" -> alone_refused
                  [] runs = "reference" -> ref_refused
                  [] OTHER -> rejected
AnyImplementsForest == AnyForest!ForestSpec

\* When addEdges is done, each kept edge is stored at a place of its own and none is
\* missing, so that the array is never too small; and parentOf() is -1 for the roots only,
\* of which there are as many as the ComponentsCounter of the tests finds components.
EdgesStoredOnce ==
    /\ runs = "DC_F" => FilteredEdgesStored /\ OnlyRootsAreParentless
    /\ runs = "locks" /\ Locked!Finished =>
        /\ Len(locked_filtered) = Cardinality(Nodes) - Cardinality(Locked!TreeRoots)
        /\ Range(locked_filtered) = accepted /\ Cardinality(accepted) = Len(locked_filtered)
    /\ runs = "sequential" /\ counter.calls > 0 /\ counter.calls = alone_block =>
        counter.num_components = Cardinality({v \in Nodes : alone_parents[v] = v})
    /\ runs = "reference" /\ phase = "outside" /\ round > 0 =>
        /\ num_edges = Cardinality(Nodes) - Cardinality({v \in Nodes : Reference!IsRoot(v)})
        /\ Cardinality(Range(ref_edges) \ {Reference!NoEdge}) = num_edges
        /\ \A v \in Nodes : parent_of[v] = -1 <=> Reference!IsRoot(v)

\* The forest that the parallel and the sequential searches build, call after call, is
\* the one that DynamicConnectivity summarises in BuildForest: the edges of every node are
\* found in the adjacency array, and its parent is the next node on the way to its root.
Summary == INSTANCE DynamicConnectivity WITH
    union_find <- [v \in Nodes |->
        IF v \in (CASE runs = "forest" -> forests[calls].roots
                    [] runs = "reference" -> {u \in Nodes : Reference!IsRoot(u)}
                    [] OTHER -> {u \in Nodes : alone_parents[u] = u})
        THEN -1 ELSE 0]
SearchForestIsRooted ==
    /\ runs = "forest" /\ calls > 0 =>
        /\ Built!AdjacencyComplete
        /\ stage = "outside" => search_parents = Summary!TreeParents(Range(Built!filtered_edges))
    /\ runs = "sequential" /\ alone_block > 0 /\ ~adding => alone_bfs = Summary!TreeParents(alone_edges)
    /\ runs = "reference" /\ phase = "outside" /\ round > 0 =>
        parent_of = Summary!TreeParents(Range(ref_edges))

\* See ComponentsAsExpected of LockedUnionFind.
ComponentsAsExpected == Locked!ComponentsAsExpected
=============================================================================

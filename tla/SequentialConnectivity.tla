----------------------- MODULE SequentialConnectivity -----------------------
(***************************************************************************)
(* The sequential DynamicConnectivity that exercise3 measures the parallel *)
(* ones against (dynamic_connectivity_sequential.{hpp,cpp}): union by rank *)
(* with path compression, and a search from the roots of the forest of the *)
(* filtered edges.  An action is one call of unite() in the loop of        *)
(* addEdges, or the rest of addEdges.  The tests then count the components *)
(* of the same edges with a ComponentsCounter (num_components.hpp).        *)
(***************************************************************************)
EXTENDS Integers, Sequences, SequencesExt, FiniteSets

CONSTANTS Nodes, Blocks     \* the edge lists of addEdges, as in DynamicConnectivity

VARIABLES
    union_find_parents, union_find_ranks,
    filtered_edges,         \* in both directions, as the adjacency array is directed
    bfs_parents,
    block, todo,            \* the calls of addEdges, and the edges of the last one that are left
    adding,                 \* addEdges is running
    counter,                \* the ComponentsCounter, and the calls of its addEdges
    refused                 \* history: the edges unite() returned false for

sequentialVars == <<union_find_parents, union_find_ranks, filtered_edges, bfs_parents, block, todo,
                    adding, counter, refused>>

SequentialInit ==
    /\ union_find_parents = [v \in Nodes |-> v]
    /\ union_find_ranks = [v \in Nodes |-> 0]
    /\ filtered_edges = {} /\ refused = {}
    /\ bfs_parents = <<>>                    \* the vector has no elements before the first search
    /\ block = 0 /\ todo = {} /\ adding = FALSE
    /\ counter = [union_find |-> [v \in Nodes |-> -1], num_components |-> Cardinality(Nodes), calls |-> 0]

\* The nodes from v up to its root, and the root.
PathIn(parents, v) ==
    LET path[i \in 0 .. Cardinality(Nodes)] ==
            IF i = 0 THEN {v} ELSE path[i - 1] \cup {parents[u] : u \in path[i - 1]}
    IN  path[Cardinality(Nodes)]
find_representative(parents, v) == CHOOSE u \in PathIn(parents, v) : parents[u] = u

\* Every node on the path gets the root for its parent.
Compressed(parents, v) ==
    [u \in Nodes |-> IF u \in PathIn(parents, v) THEN find_representative(parents, v) ELSE parents[u]]

BeginBlock ==
    /\ ~adding /\ counter.calls = block /\ block < Len(Blocks)
    /\ block' = block + 1 /\ todo' = Blocks[block + 1]
    /\ adding' = TRUE
    /\ UNCHANGED <<union_find_parents, union_find_ranks, filtered_edges, bfs_parents, counter, refused>>

\* unite(e[1], e[2]): the root of the lower rank is hung below the other one.
Unite(e) ==
    LET parents == Compressed(Compressed(union_find_parents, e[1]), e[2])
        a == find_representative(parents, e[1])
        b == find_representative(parents, e[2])
        root == IF union_find_ranks[a] < union_find_ranks[b] THEN b ELSE a
        child == IF root = a THEN b ELSE a
    IN  \/ /\ a = b
           /\ union_find_parents' = parents
           /\ refused' = refused \cup {e}
           /\ UNCHANGED <<union_find_ranks, filtered_edges>>
        \/ /\ a # b
           /\ union_find_parents' = [parents EXCEPT ![child] = root]
           /\ union_find_ranks' = IF union_find_ranks[a] = union_find_ranks[b]
                                  THEN [union_find_ranks EXCEPT ![root] = @ + 1] ELSE union_find_ranks
           /\ filtered_edges' = filtered_edges \cup {e, <<e[2], e[1]>>}
           /\ UNCHANGED refused

AddEdge ==
    /\ adding
    /\ \E e \in todo : Unite(e) /\ todo' = todo \ {e}
    /\ UNCHANGED <<bfs_parents, block, adding, counter>>

\* The adjacency array of the filtered edges; the order in it does not matter here.
EdgesFrom(u) == {v \in Nodes : <<u, v>> \in filtered_edges}

\* One frontier of the search.  No edge leads from one tree to another, so that the
\* searches from all roots, which the code makes one by one, are taken together.
NextFrontier(search) ==
    LET found == UNION {EdgesFrom(u) : u \in search.frontier} \ search.visited
    IN  [frontier |-> found,
         visited |-> search.visited \cup found,
         parents |-> [v \in Nodes |->
                        IF v \in found THEN CHOOSE u \in search.frontier : v \in EdgesFrom(u)
                        ELSE search.parents[v]]]

Searched ==
    LET roots == {v \in Nodes : union_find_parents[v] = v}
        after[i \in 0 .. Cardinality(Nodes)] ==
            IF i = 0 THEN [frontier |-> roots, visited |-> roots, parents |-> [v \in Nodes |-> -1]]
            ELSE NextFrontier(after[i - 1])
    IN  after[Cardinality(Nodes)]

Search ==
    /\ adding /\ todo = {}
    /\ bfs_parents' = Searched.parents
    /\ adding' = FALSE
    /\ UNCHANGED <<union_find_parents, union_find_ranks, filtered_edges, block, todo, counter, refused>>

-----------------------------------------------------------------------------
(* ComponentsCounter: union by id, without ranks and compression.          *)

Representative(parents, v) ==
    LET rep[i \in 0 .. Cardinality(Nodes)] ==
            IF i = 0 THEN v ELSE IF parents[rep[i - 1]] >= 0 THEN parents[rep[i - 1]] ELSE rep[i - 1]
    IN  rep[Cardinality(Nodes)]

Joined(count, e) ==
    LET from == Representative(count.union_find, e[1])
        to == Representative(count.union_find, e[2])
    IN  IF from = to THEN count
        ELSE [count EXCEPT !.union_find[IF from < to THEN from ELSE to] = IF from < to THEN to ELSE from,
                           !.num_components = @ - 1]

CountComponents ==
    /\ ~adding /\ counter.calls < block
    /\ counter' = [FoldLeft(Joined, counter, SetToSeq(Blocks[block])) EXCEPT !.calls = block]
    /\ UNCHANGED <<union_find_parents, union_find_ranks, filtered_edges, bfs_parents, block, todo, adding, refused>>

SequentialNext == BeginBlock \/ AddEdge \/ Search \/ CountComponents

-----------------------------------------------------------------------------
\* The edges that unite() has accepted, as they came.
AcceptedInOrder == filtered_edges \cap UNION {Blocks[i] : i \in DOMAIN Blocks}
=============================================================================

---------------------------- MODULE ForestBuild -----------------------------
(***************************************************************************)
(* The last part of addEdges in exercise3: the adjacency array of the      *)
(* filtered edges and the search from the roots that gives every node its  *)
(* parent (graph_algorithms.hpp).  DC_E and DC_F run the parallel versions *)
(* of the two functions, with a barrier after each of their loops; DC_B to *)
(* DC_D run the sequential ones.                                           *)
(*                                                                         *)
(* The arrays are kept from one call to the next.  Iterations that only    *)
(* write what belongs to them alone are taken together; an iteration that  *)
(* takes places from the shared counters is taken in its two steps.        *)
(***************************************************************************)
EXTENDS Integers, Sequences, SequencesExt

CONSTANTS
    Nodes,              (* 0 .. n - 1                                      *)
    Threads,
    Forests             (* what addEdges has found when it comes here, call*)
                        (* by call: sequences of records of the filtered   *)
                        (* edges, a sequence, and of the roots             *)

VARIABLES
    forests,            (* one of Forests                                  *)
    parallel, crew,     (* which versions are run, and by whom             *)
    calls,              (* how many calls of addEdges there have been      *)
    stage,              (* the loop that the team is in                    *)
    left,               (* its iterations that nobody has taken yet        *)
    placing,            (* the edge a thread has taken one place for       *)
    adj_index, adj_counter, adj_edges,
    bfs_parents,
    frontier, next_frontier, visited    (* the locals of the search        *)

build == <<forests, parallel, crew>>
adjacency == <<adj_index, adj_counter, adj_edges>>
locals == <<frontier, next_frontier, visited>>
buildVars == <<build, calls, stage, left, placing, adjacency, bfs_parents, locals>>

filtered_edges == forests[calls].edges
is_root(u) == u \in forests[calls].roots
n == Cardinality(Nodes)
NoPlace == <<>>

BuildInit ==
    /\ forests \in Forests /\ parallel \in BOOLEAN
    /\ crew \in (IF parallel THEN {Threads} ELSE {{t} : t \in Threads})
    /\ calls = 0 /\ stage = "outside" /\ left = {}
    /\ placing = [t \in Threads |-> NoPlace]
    /\ adj_index = [i \in 0 .. n |-> 0] /\ adj_counter = [i \in 0 .. n |-> 0]
    /\ adj_edges = [i \in 0 .. 2 * n - 1 |-> 0]
    /\ bfs_parents = [v \in Nodes |-> -1]
    /\ frontier = [t \in Threads |-> <<>>] /\ next_frontier = [t \in Threads |-> <<>>]
    /\ visited = [t \in Threads |-> {}]

-----------------------------------------------------------------------------
(* parallel_build_adj_array and sequential_build_adj_array.                *)

Clear ==
    /\ stage = "outside" /\ calls < Len(forests)
    /\ calls' = calls + 1
    /\ stage' = "count" /\ left' = DOMAIN forests[calls + 1].edges
    /\ adj_index' = [i \in 0 .. n |-> 0] /\ adj_counter' = [i \in 0 .. n |-> 0]
    /\ UNCHANGED <<build, placing, adj_edges, bfs_parents, locals>>

CountEdge ==
    /\ stage = "count"
    /\ \E i \in left :
        LET a == filtered_edges[i][1]
            b == filtered_edges[i][2]
        IN  /\ left' = left \ {i}
            /\ adj_counter' = [adj_counter EXCEPT ![a + 1] = @ + 1, ![b + 1] = @ + 1]
    /\ UNCHANGED <<build, calls, stage, placing, adj_index, adj_edges, bfs_parents, locals>>

\* The sums of the counters, by one thread.
Prefix == LET sum[i \in 0 .. n] == IF i = 0 THEN adj_counter[0] ELSE sum[i - 1] + adj_counter[i]
          IN  sum

\* The barrier, the sums, and the copy before the counters are advanced.
SumUp ==
    /\ stage = "count" /\ left = {}
    /\ adj_counter' = Prefix /\ adj_index' = Prefix
    /\ stage' = "place" /\ left' = DOMAIN filtered_edges
    /\ UNCHANGED <<build, calls, placing, adj_edges, bfs_parents, locals>>

\* The first fetch_add, for a place among the edges of a.
TakePlace(t) ==
    /\ stage = "place" /\ placing[t] = NoPlace
    /\ \E i \in left :
        LET a == filtered_edges[i][1]
        IN  /\ left' = left \ {i}
            /\ placing' = [placing EXCEPT ![t] = <<a, filtered_edges[i][2], adj_counter[a]>>]
            /\ adj_counter' = [adj_counter EXCEPT ![a] = @ + 1]
    /\ UNCHANGED <<build, calls, stage, adj_index, adj_edges, bfs_parents, locals>>

\* The second one, and the stores to both places.
StorePlaces(t) ==
    /\ placing[t] # NoPlace
    /\ LET a == placing[t][1]
           b == placing[t][2]
       IN  /\ adj_counter' = [adj_counter EXCEPT ![b] = @ + 1]
           /\ adj_edges' = [adj_edges EXCEPT ![placing[t][3]] = b, ![adj_counter[b]] = a]
    /\ placing' = [placing EXCEPT ![t] = NoPlace]
    /\ UNCHANGED <<build, calls, stage, left, adj_index, bfs_parents, locals>>

-----------------------------------------------------------------------------
(* parallel_bfs_from_roots and sequential_bfs_from_roots.                  *)

\* Mutant: what an earlier call has visited is not forgotten.
BeginSearchVisited ==
    /\ stage = "place" /\ left = {} /\ \A t \in Threads : placing[t] = NoPlace
    /\ stage' = "search" /\ left' = Nodes
    /\ bfs_parents' = IF parallel THEN [v \in Nodes |-> -1] ELSE bfs_parents
    /\ UNCHANGED <<build, calls, placing, adjacency, locals>>

\* The barriers around the reset of the parents, which the sequential version leaves
\* to the search.
BeginSearch ==
    /\ stage = "place" /\ left = {} /\ \A t \in Threads : placing[t] = NoPlace
    /\ stage' = "search" /\ left' = Nodes
    /\ bfs_parents' = IF parallel THEN [v \in Nodes |-> -1] ELSE bfs_parents
    /\ visited' = [t \in Threads |-> {}]
    /\ UNCHANGED <<build, calls, placing, adjacency, frontier, next_frontier>>

\* schedule(dynamic): whoever is free takes the next node.
TakeNode(t) ==
    /\ stage = "search" /\ frontier[t] = <<>> /\ next_frontier[t] = <<>>
    /\ left # {}
    /\ LET u == Min(left)
       IN  /\ left' = left \ {u}
           /\ \/ ~is_root(u) /\ UNCHANGED <<frontier, visited, bfs_parents>>
              \/ /\ is_root(u)
                 /\ frontier' = [frontier EXCEPT ![t] = <<u>>]
                 /\ visited' = [visited EXCEPT ![t] = @ \cup {u}]
                 /\ bfs_parents' = IF parallel THEN bfs_parents ELSE [bfs_parents EXCEPT ![u] = -1]
    /\ UNCHANGED <<build, calls, stage, placing, adjacency, next_frontier>>

EdgesFrom(u) == [i \in 1 .. adj_index[u + 1] - adj_index[u] |-> adj_edges[adj_index[u] + i - 1]]

\* The neighbours of the last node of the frontier.
Visit(t) ==
    /\ frontier[t] # <<>>
    /\ LET u == Last(frontier[t])
           found == SelectSeq(EdgesFrom(u), LAMBDA v : v \notin visited[t])
       IN  /\ next_frontier' = [next_frontier EXCEPT ![t] = @ \o found]
           /\ visited' = [visited EXCEPT ![t] = @ \cup Range(found)]
           /\ bfs_parents' = [v \in Nodes |-> IF v \in Range(found) THEN u ELSE bfs_parents[v]]
    /\ frontier' = [frontier EXCEPT ![t] = Front(@)]
    /\ UNCHANGED <<build, calls, stage, left, placing, adjacency>>

SwapFrontiers(t) ==
    /\ frontier[t] = <<>> /\ next_frontier[t] # <<>>
    /\ frontier' = [frontier EXCEPT ![t] = next_frontier[t]]
    /\ next_frontier' = [next_frontier EXCEPT ![t] = <<>>]
    /\ UNCHANGED <<build, calls, stage, left, placing, adjacency, bfs_parents, visited>>

EndSearch ==
    /\ stage = "search" /\ left = {}
    /\ \A t \in Threads : frontier[t] = <<>> /\ next_frontier[t] = <<>>
    /\ stage' = "outside"
    /\ UNCHANGED <<build, calls, left, placing, adjacency, bfs_parents, locals>>

BuildNext ==
    \/ Clear \/ CountEdge \/ SumUp \/ BeginSearch \/ EndSearch
    \/ \E t \in crew : TakePlace(t) \/ StorePlaces(t) \/ TakeNode(t) \/ Visit(t) \/ SwapFrontiers(t)

-----------------------------------------------------------------------------
\* Every node's range of the array holds its neighbours, each once, when the search
\* begins to read it.
AdjacencyComplete ==
    stage = "search" =>
        \A v \in Nodes :
            /\ IsInjective(EdgesFrom(v))
            /\ Range(EdgesFrom(v)) =
                {u \in Nodes : <<u, v>> \in Range(filtered_edges) \/ <<v, u>> \in Range(filtered_edges)}
=============================================================================

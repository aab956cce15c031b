------------------------------- MODULE Searches ------------------------------
(***************************************************************************)
(* The graphs of exercise2, and DijkstraHelper::dijkstra and               *)
(* BFSHelper::bfs on them: any number of calls on one helper, which keeps  *)
(* its queue and its distances, or its two frontiers, between them.  One   *)
(* step takes one node from the queue and relaxes its edges; or looks at   *)
(* the edges of one node of the frontier, or exchanges the frontiers.      *)
(*                                                                         *)
(* A graph is built once from a list of edges [from, to, length].          *)
(* AdjacencyArray, WeightedGraphPaired and WeightedGraphSeparated have an  *)
(* index of the first edge of every node and the edges ordered by the node *)
(* they leave; AdjacencyList and NodeGraph have a vector for each node, of *)
(* numbers or of pointers.                                                 *)
(***************************************************************************)
EXTENDS IndexedPriorityQueue

CONSTANTS
    Inputs,             \* what graphs are built from: [n |-> nodes, elist |-> edges]
    Layouts             \* the classes: "array", "list" or "nodes"

\* Stands for numeric_limits<double>::infinity() and numeric_limits<size_t>::max():
\* larger than the length of every path.
CONSTANT Infinity

VARIABLES
    graph,              \* the layout, the input and the members of the class
    distance,                           \* of DijkstraHelper, with the queue
    frontier, next_frontier, visited,   \* of BFSHelper
    search,             \* the call that is on its way, of bfs() with its distance, or NoSearch
    answer              \* the last call with what it returned, or NoAnswer

dijkstraVars == <<graph, queue, distance, search, answer>>
bfsVars == <<graph, frontier, next_frontier, visited, search, answer>>

NoSearch == <<>>
NoAnswer == <<>>

Return(value) ==
    /\ answer' = [start |-> search.start, end |-> search.end, value |-> value]
    /\ search' = NoSearch

-----------------------------------------------------------------------------
(* The graphs.                                                             *)

Nodes == 0 .. graph.input.n - 1

\* c[e.from + 1]++ and the inclusive scan: the number of edges that leave nodes before v.
Index(n, elist) == [v \in 0 .. n |-> Cardinality({i \in 1 .. Len(elist) : elist[i].from + 1 <= v})]

\* edges_[c[e.from]++]: each edge comes behind those of its node that were listed before.
Place(index, elist, i) ==
    index[elist[i].from] + Cardinality({j \in 1 .. i : elist[j].from = elist[i].from})

Edges(index, elist) ==
    [p \in 1 .. Len(elist) |->
        LET i == CHOOSE i \in 1 .. Len(elist) : Place(index, elist, i) = p
        IN  [head |-> elist[i].to, weight |-> elist[i].length]]

ArrayGraph(input) ==
    LET index == Index(input.n, input.elist)
    IN  [layout |-> "array", input |-> input, index |-> index, edges |-> Edges(index, input.elist)]

\* edges_[e.from].push_back(e.to), edge by edge; there are no weights.
AdjacencyList(input) ==
    [layout |-> "list", input |-> input,
     edges |-> FoldLeft(LAMBDA edges, e : [edges EXCEPT ![e.from] = Append(@, [head |-> e.to, weight |-> 1])],
                        [v \in 0 .. input.n - 1 |-> <<>>], input.elist)]

\* A Node knows its id and the Nodes that it leads to; a pointer to a Node is its number.
NodeGraph(input) ==
    [layout |-> "nodes", input |-> input,
     nodes |-> [v \in 0 .. input.n - 1 |->
        [id |-> v,
         neighbors |-> LET out == SelectSeq(input.elist, LAMBDA e : e.from = v)
                       IN  [i \in DOMAIN out |-> out[i].to]]]]

GraphInit == \E input \in Inputs, layout \in Layouts :
    graph = CASE layout = "array" -> ArrayGraph(input)
              [] layout = "list" -> AdjacencyList(input)
              [] layout = "nodes" -> NodeGraph(input)

\* beginEdges(v) to endEdges(v)
EdgesOf(v) ==
    CASE graph.layout = "array" -> SubSeq(graph.edges, graph.index[v] + 1, graph.index[v + 1])
      [] graph.layout = "list" -> graph.edges[v]
      [] graph.layout = "nodes" ->
            [i \in DOMAIN graph.nodes[v].neighbors |->
                [head |-> graph.nodes[graph.nodes[v].neighbors[i]].id, weight |-> 1]]

-----------------------------------------------------------------------------
(* Dijkstra's algorithm.                                                   *)

DijkstraInit ==
    /\ GraphInit
    /\ queue = EmptyQueue
    /\ distance = <<>>
    /\ search = NoSearch /\ answer = NoAnswer

DijkstraCall(s, t) ==
    /\ search = NoSearch
    /\ IF s = t
       THEN /\ answer' = [start |-> s, end |-> t, value |-> 0]
            /\ UNCHANGED <<queue, distance, search>>
       ELSE /\ queue' = Pushed(EmptyQueue, s, 0)
            /\ distance' = [v \in Nodes |-> IF v = s THEN 0 ELSE Infinity]
            /\ search' = [start |-> s, end |-> t]
            /\ answer' = NoAnswer
    /\ UNCHANGED graph

\* Mutant: a node that is in the queue keeps the priority it has.
RelaxedPushOnly(state, d, e) ==
    IF d + e.weight < state.distance[e.head]
    THEN [queue |-> IF hasKey(state.queue, e.head) THEN state.queue
                    ELSE Pushed(state.queue, e.head, d + e.weight),
          distance |-> [state.distance EXCEPT ![e.head] = d + e.weight]]
    ELSE state

\* The edges of a node at distance d, one after the other, on [queue, distance].
Relaxed(state, d, e) ==
    IF d + e.weight < state.distance[e.head]
    THEN [queue |-> PushedOrChanged(state.queue, e.head, d + e.weight),
          distance |-> [state.distance EXCEPT ![e.head] = d + e.weight]]
    ELSE state

RelaxedAll(u, d, state) == FoldLeft(LAMBDA st, e : Relaxed(st, d, e), state, EdgesOf(u))

Settle ==
    /\ search # NoSearch
    /\ queue.heap # <<>>
    /\ LET u == Head(queue.heap).key
           d == Head(queue.heap).value
           relaxed == RelaxedAll(u, d, [queue |-> Popped(queue), distance |-> distance])
       IN  IF u = search.end
           THEN /\ Return(d)
                /\ queue' = Popped(queue)
                /\ UNCHANGED distance
           ELSE /\ queue' = relaxed.queue
                /\ distance' = relaxed.distance
                /\ UNCHANGED <<search, answer>>
    /\ UNCHANGED graph

Exhausted ==
    /\ search # NoSearch
    /\ queue.heap = <<>>
    /\ Return(Infinity)
    /\ UNCHANGED <<graph, queue, distance>>

DijkstraNext == (\E s, t \in Nodes : DijkstraCall(s, t)) \/ Settle \/ Exhausted

-----------------------------------------------------------------------------
(* The breadth-first search.                                               *)

BFSInit ==
    /\ GraphInit
    /\ frontier = <<>> /\ next_frontier = <<>>
    /\ visited = {}
    /\ search = NoSearch /\ answer = NoAnswer

BFSCall(s, t) ==
    /\ search = NoSearch
    /\ IF s = t
       THEN /\ answer' = [start |-> s, end |-> t, value |-> 0]
            /\ UNCHANGED <<frontier, next_frontier, visited, search>>
       ELSE /\ frontier' = <<s>> /\ next_frontier' = <<>>
            /\ visited' = {s}
            /\ search' = [start |-> s, end |-> t, distance |-> 1]
            /\ answer' = NoAnswer
    /\ UNCHANGED graph

\* One edge, on [next, visited, found]; after the end is found none is looked at.
Looked(state, e) ==
    IF state.found THEN state
    ELSE IF e.head = search.end THEN [state EXCEPT !.found = TRUE]
    ELSE IF e.head \in state.visited THEN state
    ELSE [state EXCEPT !.next = Append(@, e.head), !.visited = @ \cup {e.head}]

LookedAll(n, state) == FoldLeft(Looked, state, EdgesOf(n))

VisitLast ==
    /\ search # NoSearch
    /\ frontier # <<>>
    /\ LET state == LookedAll(Last(frontier), [next |-> next_frontier, visited |-> visited, found |-> FALSE])
       IN  /\ next_frontier' = state.next
           /\ visited' = state.visited
           /\ IF state.found THEN Return(search.distance) ELSE UNCHANGED <<search, answer>>
    /\ frontier' = Front(frontier)
    /\ UNCHANGED graph

\* distance++ and std::swap; with both frontiers empty the outer loop ends.
NextFrontier ==
    /\ search # NoSearch
    /\ frontier = <<>>
    /\ frontier' = next_frontier /\ next_frontier' = <<>>
    /\ IF next_frontier = <<>> THEN Return(Infinity)
       ELSE /\ search' = [search EXCEPT !.distance = @ + 1]
            /\ UNCHANGED answer
    /\ UNCHANGED <<graph, visited>>

BFSNext == (\E s, t \in Nodes : BFSCall(s, t)) \/ VisitLast \/ NextFrontier

-----------------------------------------------------------------------------
\* The reference: the length of a shortest path, over at most k edges in round k.
ShortestFrom(s, length(_)) ==
    LET rounds[k \in 0 .. graph.input.n - 1] ==
            IF k = 0 THEN [v \in Nodes |-> IF v = s THEN 0 ELSE Infinity]
            ELSE [v \in Nodes |->
                     Min({rounds[k - 1][v]} \cup
                         {rounds[k - 1][e.from] + length(e) :
                             e \in {f \in Range(graph.input.elist) : f.to = v}})]
    IN  rounds[graph.input.n - 1]

\* What dijkstra() returns is the length of a shortest path.
ReturnsShortest ==
    answer # NoAnswer => answer.value = ShortestFrom(answer.start, LAMBDA e : e.length)[answer.end]

\* What bfs() returns is the least number of edges of a path.
ReturnsFewestEdges ==
    answer # NoAnswer => answer.value = ShortestFrom(answer.start, LAMBDA e : 1)[answer.end]
=============================================================================

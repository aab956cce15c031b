------------------------------ MODULE TaskFiles ------------------------------
(***************************************************************************)
(* The files that tell the solvers of exercise4 what to do, and how        *)
(* TreeTask and DAGTask read them.  A file is, for the nodes 0 .. n - 1,   *)
(* the sequences of their children; the amounts of work are left out.      *)
(***************************************************************************)
EXTENDS Naturals, Sequences, FiniteSets, SequencesExt

-----------------------------------------------------------------------------
(* What the solvers take for granted of a file.                            *)

Children(e, v) == {e[v][i] : i \in DOMAIN e[v]}

\* The nodes that a path of the graph g, a function to sets of nodes, leads to from v.
ReachableFrom(g, v) ==
    LET n == Cardinality(DOMAIN g)
        layer[i \in 0 .. n] ==
            IF i = 0 THEN g[v] ELSE layer[i - 1] \cup UNION {g[u] : u \in layer[i - 1]}
    IN  layer[n]

\* Everything is reachable from the start, and nothing from itself.
IsTaskGraph(g, start) ==
    /\ ReachableFrom(g, start) = DOMAIN g \ {start}
    /\ \A v \in DOMAIN g : v \notin ReachableFrom(g, v)

ListedOnce(e, u, v) == Cardinality({i \in DOMAIN e[u] : e[u][i] = v}) = 1

\* Every node but 0 is listed by one parent, once; 0 by none, and it leads to all of them.
IsTree(e) ==
    /\ \A v \in DOMAIN e : e[v] \in Seq(DOMAIN e)
    /\ IsTaskGraph([v \in DOMAIN e |-> Children(e, v)], 0)
    /\ \A u \in DOMAIN e : 0 \notin Children(e, u)
    /\ \A v \in DOMAIN e \ {0} : \E u \in DOMAIN e :
        ListedOnce(e, u, v) /\ \A w \in DOMAIN e \ {u} : v \notin Children(e, w)

-----------------------------------------------------------------------------
(* What is made of it: arrays of edges, and for every node the index of    *)
(* its first one; node n is a dummy.                                       *)

NodesOf(e) == DOMAIN e
Dummy(e) == Cardinality(DOMAIN e)
InOrder(e) == [i \in 1 .. Dummy(e) |-> e[i - 1]]

edgesOf(e) == FlattenSeq(InOrder(e))
nodesOf(e) == [v \in 0 .. Dummy(e) |-> Len(FlattenSeq(SubSeq(InOrder(e), 1, v)))]

\* The edges in the order of the file, as pairs of parent and child.
ArcsOf(e) == FlattenSeq([i \in 1 .. Dummy(e) |-> [k \in DOMAIN e[i - 1] |-> <<i - 1, e[i - 1][k]>>]])

\* TreeTask: parent[child] = node.
treeParent(e) ==
    FoldLeft(LAMBDA p, arc : [p EXCEPT ![arc[2]] = arc[1]], [v \in NodesOf(e) |-> Dummy(e)], ArcsOf(e))

\* DAGTask counts the parents of every node, adds the counts up to the end of each
\* node's range, and fills the ranges from their ends.
reverseCounts(e) == [v \in NodesOf(e) |-> Cardinality({k \in DOMAIN ArcsOf(e) : ArcsOf(e)[k][2] = v})]
reverseEnds(e) ==
    LET counts == reverseCounts(e)
        ends[v \in 0 .. Dummy(e)] ==
            IF v = 0 THEN counts[0] ELSE ends[v - 1] + (IF v = Dummy(e) THEN 0 ELSE counts[v])
    IN  ends
reverseFilled(e) ==
    FoldLeft(LAMBDA r, arc :
                LET place == r.reverse_nodes[arc[2]] - 1
                IN  [reverse_nodes |-> [r.reverse_nodes EXCEPT ![arc[2]] = place],
                     parent |-> [r.parent EXCEPT ![place] = arc[1]]],
             [reverse_nodes |-> reverseEnds(e), parent |-> [k \in 0 .. Len(ArcsOf(e)) - 1 |-> Dummy(e)]],
             ArcsOf(e))

\* outgoing() and incoming(): the ranges of a node in edges and in parent.
outgoingOf(e, v) == SubSeq(edgesOf(e), nodesOf(e)[v] + 1, nodesOf(e)[v + 1])
incomingOf(e, v) ==
    LET filled == reverseFilled(e)
    IN  {filled.parent[k] : k \in filled.reverse_nodes[v] .. filled.reverse_nodes[v + 1] - 1}

\* What is read is what the file says.
TreeReadRight(e) ==
    \A v \in NodesOf(e) : outgoingOf(e, v) = e[v] /\ (v # 0 => v \in Children(e, treeParent(e)[v]))
GraphReadRight(e) ==
    \A v \in NodesOf(e) :
        outgoingOf(e, v) = e[v] /\ incomingOf(e, v) = {u \in NodesOf(e) : v \in Children(e, u)}
=============================================================================

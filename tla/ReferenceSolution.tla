------------------------- MODULE ReferenceSolution -------------------------
(***************************************************************************)
(* The solution of exercise 3 that the others are measured against         *)
(* (exercise3/implementation/reference_solution.{hpp,cpp}): a lock-free    *)
(* union-find whose roots hold their rank, negated, from 0 on, and whose   *)
(* other nodes hold their parent plus one; then an adjacency array and a   *)
(* search from every root, which trusts that the edges are a forest and    *)
(* keeps no flags of what it has visited.  connected() is left out: it is  *)
(* called between the calls of addEdges, and only searches.                *)
(***************************************************************************)
EXTENDS Integers, Sequences, SequencesExt, FiniteSets

CONSTANTS Nodes, Threads, Blocks    \* as in DynamicConnectivity

VARIABLES
    union_find,
    edges, num_edges,   \* edges_, NoEdge where addEdges has made room; how many it holds
    parent_of,
    index, adj,         \* the Graph: index_ and edges_
    round,              \* the calls of addEdges so far
    phase,              \* the loop that the threads share
    left,               \* its iterations that nobody has taken
    worker,             \* the locals of a thread
    refused             \* history: the edges unite() returned false for

unionVars == <<union_find, refused>>
edgeVars == <<edges, num_edges>>
graphVars == <<index, adj>>
referenceVars == <<unionVars, edgeVars, graphVars, parent_of, round, phase, left, worker>>

n == Cardinality(Nodes)
NoEdge == <<-1, -1>>
no_parent == -1

\* ends and ranks are the RootAndRank of both sides; path is the recursion of the search,
\* mine is my_edges; queue is that of rebuild_parent_array().
NoLocals == [pc |-> "loop", edge |-> NoEdge, side |-> 1, ends |-> NoEdge, ranks |-> <<0, 0>>,
             path |-> <<>>, mine |-> <<>>, queue |-> <<>>]

ReferenceInit ==
    /\ union_find = [v \in Nodes |-> 0]
    /\ edges = <<>> /\ num_edges = 0
    /\ parent_of = [v \in Nodes |-> no_parent]
    /\ index = <<>> /\ adj = <<>>
    /\ round = 0 /\ phase = "outside" /\ left = {}
    /\ worker = [t \in Threads |-> NoLocals]
    /\ refused = {}

IsRoot(v) == union_find[v] <= 0
parent(v) == union_find[v] - 1

\* A step of t inside unite().
Locals(t, from, locals) ==
    /\ worker[t].pc = from
    /\ worker' = [worker EXCEPT ![t] = locals]
    /\ UNCHANGED <<edgeVars, graphVars, parent_of, round, phase>>

\* The implicit barrier: all threads are through with the loop they share.
LoopIsOver(name) == phase = name /\ left = {} /\ \A t \in Threads : worker[t].pc = "loop"

BeginEdges ==
    /\ phase = "outside" /\ round < Len(Blocks)
    /\ round' = round + 1 /\ phase' = "unite" /\ left' = Blocks[round + 1]
    /\ edges' = [i \in 0 .. n - 1 |-> IF i < num_edges THEN edges[i] ELSE NoEdge]
    /\ UNCHANGED <<unionVars, num_edges, graphVars, parent_of, worker>>

-----------------------------------------------------------------------------
(* find_representative() and unite(), with link() and increase_rank().     *)

\* The search for the representatives of both ends, or of the roots found before.
SearchBoth(w, ends) == [w EXCEPT !.pc = "find", !.side = 1, !.ends = ends, !.path = <<ends[1]>>]

TakeEdge(t) ==
    /\ phase = "unite"
    /\ \E e \in left :
        /\ left' = left \ {e}
        /\ Locals(t, "loop", SearchBoth([worker[t] EXCEPT !.edge = e], e))
    /\ UNCHANGED unionVars

\* The search has returned: the other end is next, or the comparison.
Returned(w) ==
    IF w.side = 1 THEN [w EXCEPT !.pc = "find", !.side = 2, !.path = <<w.ends[2]>>]
                  ELSE [w EXCEPT !.pc = "compare", !.path = <<>>]

Follow(t) ==
    LET w == worker[t]
    IN  /\ Locals(t, "find", [w EXCEPT !.path = Append(@, parent(Last(@)))])
        /\ ~IsRoot(Last(w.path))
    /\ UNCHANGED <<unionVars, left>>

\* The recursion ends; all nodes on the path but the last two will be compressed.
ReachRoot(t) ==
    LET w == worker[t]
        root == Last(w.path)
        found == [w EXCEPT !.ends[w.side] = root, !.ranks[w.side] = union_find[root]]
    IN  /\ Locals(t, "find", IF Len(w.path) <= 2 THEN Returned(found)
                             ELSE [found EXCEPT !.pc = "compress", !.path = Front(@)])
        /\ IsRoot(root)
    /\ UNCHANGED <<unionVars, left>>

\* On the way back, a CAS from the parent that was read to the root.
Compress(t) ==
    LET w == worker[t]
        k == Len(w.path) - 1
        a == w.path[k]
    IN  /\ Locals(t, "compress", IF k > 1 THEN [w EXCEPT !.path = Front(@)] ELSE Returned(w))
        /\ union_find' = IF union_find[a] = w.path[k + 1] + 1
                         THEN [union_find EXCEPT ![a] = w.ends[w.side] + 1] ELSE union_find
    /\ UNCHANGED <<refused, left>>

\* unite() returns: the edge is mine or refused.
Leave(w) == [NoLocals EXCEPT !.mine = w.mine]

SameRoot(t) ==
    LET w == worker[t]
    IN  /\ Locals(t, "compare", Leave(w))
        /\ w.ends[1] = w.ends[2]
        /\ refused' = refused \cup {w.edge}
    /\ UNCHANGED <<union_find, left>>

\* The side that becomes the parent: a smaller number is a higher rank.
ParentSide(w) ==
    IF w.ranks[1] < w.ranks[2] \/ (w.ranks[1] = w.ranks[2] /\ w.ends[2] < w.ends[1]) THEN 1 ELSE 2

\* link(): the CAS from the child's rank to its parent.
Link(t) ==
    LET w == worker[t]
        p == ParentSide(w)
        linked == [w EXCEPT !.mine = Append(@, w.edge)]
    IN  /\ Locals(t, "compare", IF w.ranks[1] = w.ranks[2] THEN [linked EXCEPT !.pc = "rank"]
                                ELSE Leave(linked))
        /\ w.ends[1] # w.ends[2]
        /\ union_find[w.ends[3 - p]] = w.ranks[3 - p]
        /\ union_find' = [union_find EXCEPT ![w.ends[3 - p]] = w.ends[p] + 1]
    /\ UNCHANGED <<refused, left>>

LinkFails(t) ==
    LET w == worker[t]
        p == ParentSide(w)
    IN  /\ Locals(t, "compare", SearchBoth(w, w.ends))
        /\ w.ends[1] # w.ends[2]
        /\ union_find[w.ends[3 - p]] # w.ranks[3 - p]
    /\ UNCHANGED <<unionVars, left>>

\* increase_rank(): a CAS that may fail.
IncreaseRank(t) ==
    LET w == worker[t]
        p == ParentSide(w)
    IN  /\ Locals(t, "rank", Leave(w))
        /\ union_find' = IF union_find[w.ends[p]] = w.ranks[p]
                         THEN [union_find EXCEPT ![w.ends[p]] = @ - 1] ELSE union_find
    /\ UNCHANGED <<refused, left>>

-----------------------------------------------------------------------------
(* The rest of addEdges: my_edges are copied, the graph is built.          *)

EndOfUnite ==
    /\ LoopIsOver("unite")
    /\ phase' = "copy" /\ left' = Threads
    /\ UNCHANGED <<unionVars, edgeVars, graphVars, parent_of, round, worker>>

\* The fetch_add; what is copied then goes to places of t's own.
CopyEdges(t) ==
    LET mine == worker[t].mine
    IN  /\ phase = "copy" /\ t \in left
        /\ edges' = [i \in DOMAIN edges |->
                        IF i \in num_edges .. num_edges + Len(mine) - 1 THEN mine[i - num_edges + 1]
                        ELSE edges[i]]
        /\ num_edges' = num_edges + Len(mine)
        /\ left' = left \ {t}
        /\ worker' = [worker EXCEPT ![t] = NoLocals]
    /\ UNCHANGED <<unionVars, graphVars, parent_of, round, phase>>

-----------------------------------------------------------------------------
(* rebuild_parent_array(), with Graph::build().                            *)

\* The degrees and their prefix sums, which the last element repeats; the iterations
\* leave a pair of ends each to be placed.
Degree(v) == Cardinality({i \in DOMAIN edges : edges[i][1] = v}) + Cardinality({i \in DOMAIN edges : edges[i][2] = v})
SumUp ==
    /\ phase = "copy" /\ left = {}
    /\ edges' = [i \in 0 .. num_edges - 1 |-> edges[i]]
    /\ index' = LET sum[v \in 0 .. n] ==
                        (IF v = 0 THEN 0 ELSE sum[v - 1]) + (IF v = n THEN 0 ELSE Degree(v))
                IN  sum
    /\ adj' = [i \in 0 .. 2 * num_edges - 1 |-> IF i \in DOMAIN adj THEN adj[i] ELSE 0]
    /\ phase' = "store" /\ left' = 0 .. num_edges - 1
    /\ UNCHANGED <<unionVars, num_edges, parent_of, round, worker>>

\* The fetch_sub gives out a place; the neighbor is stored there.
StoreNeighbor(from, to) ==
    /\ index' = [index EXCEPT ![from] = @ - 1]
    /\ adj' = [adj EXCEPT ![index[from] - 1] = to]

StoreFirst(t) ==
    /\ phase = "store" /\ worker[t].pc = "loop"
    /\ \E i \in left :
        /\ StoreNeighbor(edges[i][1], edges[i][2])
        /\ left' = left \ {i}
        /\ worker' = [worker EXCEPT ![t].pc = "other end", ![t].edge = edges[i]]
    /\ UNCHANGED <<unionVars, edgeVars, parent_of, round, phase>>

StoreSecond(t) ==
    /\ worker[t].pc = "other end"
    /\ StoreNeighbor(worker[t].edge[2], worker[t].edge[1])
    /\ worker' = [worker EXCEPT ![t] = NoLocals]
    /\ UNCHANGED <<unionVars, edgeVars, parent_of, round, phase, left>>

CollectRoots ==
    /\ LoopIsOver("store")
    /\ phase' = "search" /\ left' = {v \in Nodes : IsRoot(v)}
    /\ UNCHANGED <<unionVars, edgeVars, graphVars, parent_of, round, worker>>

\* for_each_neighbor_of: what is pushed on the queue, without the way back.
NeighborsOf(v) == [i \in 1 .. index[v + 1] - index[v] |-> adj[index[v] + i - 1]]
Pushed(v, back) ==
    LET others == SelectSeq(NeighborsOf(v), LAMBDA u : u # back)
    IN  [i \in DOMAIN others |-> <<v, others[i]>>]

\* One root, or one element of the queue, gets its parent.
Visit(t, v, back, queue) ==
    /\ parent_of' = [parent_of EXCEPT ![v] = back]
    /\ LET more == queue \o Pushed(v, back)
       IN  worker' = [worker EXCEPT ![t].queue = more, ![t].pc = IF more = <<>> THEN "loop" ELSE "search"]
    /\ UNCHANGED <<unionVars, edgeVars, graphVars, round, phase>>

TakeRoot(t) ==
    /\ phase = "search" /\ worker[t].pc = "loop"
    /\ \E r \in left : Visit(t, r, no_parent, <<>>) /\ left' = left \ {r}

VisitNext(t) ==
    LET queue == worker[t].queue
    IN  /\ worker[t].pc = "search"
        /\ Visit(t, Last(queue)[2], Last(queue)[1], Front(queue))
    /\ UNCHANGED left

AddedEdges ==
    /\ LoopIsOver("search")
    /\ phase' = "outside"
    /\ UNCHANGED <<unionVars, edgeVars, graphVars, parent_of, round, left, worker>>

-----------------------------------------------------------------------------
Unite(t) ==
    \/ TakeEdge(t) \/ Follow(t) \/ ReachRoot(t) \/ Compress(t) \/ SameRoot(t)
    \/ Link(t) \/ LinkFails(t) \/ IncreaseRank(t)
Rebuild(t) == CopyEdges(t) \/ StoreFirst(t) \/ StoreSecond(t) \/ TakeRoot(t) \/ VisitNext(t)

ReferenceNext ==
    \/ BeginEdges \/ EndOfUnite \/ SumUp \/ CollectRoots \/ AddedEdges
    \/ \E t \in Threads : Unite(t) \/ Rebuild(t)

-----------------------------------------------------------------------------
\* The root that v's parents lead to.
RootOf(v) ==
    LET climb[i \in 0 .. n] ==
            IF i = 0 THEN v ELSE IF IsRoot(climb[i - 1]) THEN climb[i - 1] ELSE parent(climb[i - 1])
    IN  climb[n]

\* The edges for which unite() has returned true.
AcceptedEdges == (UNION {Range(worker[t].mine) : t \in Threads} \cup {edges[i] : i \in DOMAIN edges}) \ {NoEdge}
=============================================================================

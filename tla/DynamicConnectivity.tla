------------------------ MODULE DynamicConnectivity ------------------------
(***************************************************************************)
(* The lock-free union-find structure of                                   *)
(* exercise3/implementation/dynamic_connectivity.{hpp,cpp} (DC_F).  In     *)
(* union_find, a root holds its rank, negated, and every other node holds  *)
(* its parent.  The threads of addEdges unite the ends of the edges of a   *)
(* block and keep the edges that joined two trees; the other threads may   *)
(* call connected() at any time.  Every load and CAS is an action; all of  *)
(* them are seq_cst.                                                       *)
(***************************************************************************)
EXTENDS Integers, Sequences, FiniteSets

CONSTANTS
    Nodes,          (* 0 .. n - 1                                          *)
    Threads,        (* the threads there are                               *)
    Queries,        (* the pairs of nodes connected() is called with       *)
    Blocks          (* the edge lists addEdges is called with, in order: a *)
                    (* sequence of sets of pairs of nodes                  *)

ASSUME ConnectivityAssumption ==
    /\ IsFiniteSet(Nodes) /\ Nodes = 0 .. Cardinality(Nodes) - 1
    /\ IsFiniteSet(Threads) /\ Threads # {}
    /\ Queries \subseteq Nodes \X Nodes
    /\ Blocks \in Seq(SUBSET (Nodes \X Nodes))

VARIABLES
    union_find,
    filtered_edges,             (* the array: positions are 0 .. n - 1     *)
    num_filtered_edges,
    bfs_parents,
    block, todo,                (* the block, its edges nobody has taken   *)
    team,                       (* the OpenMP threads that run addEdges    *)
    pc,
    edge,                       (* the arguments of unite or connected     *)
    side,                       (* 1 or 2: whose representative is sought  *)
    a,                          (* a[t][1] and a[t][2] are a and b         *)
    rank,                       (* their ranks, when they were found       *)
    path,                       (* the recursion: the nodes found so far   *)
    kept,                       (* filtered_edges_local                    *)
    pos,                        (* where a thread stores its kept edges    *)
    lastRank,                   (* history: the rank a node was linked at  *)
    rejected,                   (* history: the edges unite returned false for *)
    apart                       (* history: the ends were apart when the call began *)

forest == <<filtered_edges, num_filtered_edges, bfs_parents>>
loop == <<block, todo, team>>
call == <<edge, side, a, rank, path>>
output == <<kept, pos>>
history == <<lastRank, rejected, apart>>
vars == <<union_find, forest, loop, pc, call, output, history>>

NoEdge == <<-1, -1>>

IsRoot(v) == union_find[v] < 0                  \* is_rank_repr
Roots == {v \in Nodes : IsRoot(v)}

\* The root that v's parents lead to: n steps are enough if there is no cycle.
ParentOrSelf(v) == IF IsRoot(v) THEN v ELSE union_find[v]
RootOf(v) ==
    LET climb[i \in 0 .. Cardinality(Nodes)] ==
            IF i = 0 THEN v ELSE ParentOrSelf(climb[i - 1])
    IN  climb[Cardinality(Nodes)]

\* The nodes at distance i from the roots in the forest of the edges in E, and the
\* parents that parallel_build_adj_array and parallel_bfs_from_roots give them.
Layer(E, i) ==
    LET layer[j \in 0 .. i] ==
            IF j = 0 THEN Roots
            ELSE {v \in Nodes : /\ \E u \in layer[j - 1] : <<u, v>> \in E \/ <<v, u>> \in E
                                /\ \A k \in 0 .. j - 1 : v \notin layer[k]}
    IN  layer[i]
TreeParents(E) ==
    [v \in Nodes |->
        IF IsRoot(v) \/ \A i \in 0 .. Cardinality(Nodes) : v \notin Layer(E, i) THEN -1
        ELSE LET i == CHOOSE j \in 0 .. Cardinality(Nodes) : v \in Layer(E, j)
             IN  CHOOSE u \in Layer(E, i - 1) : <<u, v>> \in E \/ <<v, u>> \in E]

\* Mutant: ranks begin at 0, which is a node when it is negated.
RankZero == 0

FirstRank == 1

Init ==
    /\ union_find = [v \in Nodes |-> -FirstRank]
    /\ filtered_edges = [i \in Nodes |-> NoEdge] /\ num_filtered_edges = 0
    /\ bfs_parents = [v \in Nodes |-> -1]
    /\ block = 0 /\ todo = {} /\ team = {}
    /\ pc = [t \in Threads |-> "idle"]
    /\ edge = [t \in Threads |-> NoEdge]
    /\ side = [t \in Threads |-> 1]
    /\ a = [t \in Threads |-> NoEdge] /\ rank = [t \in Threads |-> <<0, 0>>]
    /\ path = [t \in Threads |-> <<>>]
    /\ kept = [t \in Threads |-> <<>>] /\ pos = [t \in Threads |-> 0]
    /\ lastRank = [v \in Nodes |-> 0] /\ rejected = {}
    /\ apart = [t \in Threads |-> FALSE]

-----------------------------------------------------------------------------
Goto(t, from, to) == pc[t] = from /\ pc' = [pc EXCEPT ![t] = to]

\* unite(e) or connected(e) begins by looking for the representative of e[1].
Call(t, from, e) ==
    /\ Goto(t, from, "find")
    /\ edge' = [edge EXCEPT ![t] = e]
    /\ a' = [a EXCEPT ![t] = e]
    /\ side' = [side EXCEPT ![t] = 1]
    /\ path' = [path EXCEPT ![t] = <<e[1]>>]
    /\ UNCHANGED rank

\* The call returns and its locals die.
Return(t, to) ==
    /\ pc' = [pc EXCEPT ![t] = to]
    /\ edge' = [edge EXCEPT ![t] = NoEdge] /\ a' = [a EXCEPT ![t] = NoEdge]
    /\ side' = [side EXCEPT ![t] = 1]
    /\ rank' = [rank EXCEPT ![t] = <<0, 0>>]
    /\ path' = [path EXCEPT ![t] = <<>>]

\* The loop of unite() and of connected() looks for both representatives again.
Retry(t) ==
    /\ pc' = [pc EXCEPT ![t] = "find"]
    /\ side' = [side EXCEPT ![t] = 1]
    /\ path' = [path EXCEPT ![t] = <<a[t][1]>>]
    /\ UNCHANGED <<edge, a, rank>>

BeginBlock ==
    /\ block < Len(Blocks) /\ team = {}
    /\ block' = block + 1 /\ todo' = Blocks[block + 1]
    /\ team' \in (SUBSET {t \in Threads : pc[t] = "idle"}) \ {{}}
    /\ pc' = [t \in Threads |-> IF t \in team' THEN "loop" ELSE pc[t]]
    /\ UNCHANGED <<union_find, forest, call, output, history>>

TakeEdge(t) ==
    /\ \E e \in todo : Call(t, "loop", e) /\ todo' = todo \ {e}
    /\ UNCHANGED <<union_find, forest, block, team, output, history>>

AskConnected(t) ==
    /\ \E e \in Queries :
        /\ Call(t, "idle", e)
        /\ apart' = [apart EXCEPT ![t] = RootOf(e[1]) # RootOf(e[2])]
    /\ UNCHANGED <<union_find, forest, loop, output, lastRank, rejected>>

-----------------------------------------------------------------------------
(* find_representative and find_representative_and_compress.               *)

\* connected() does not come back to the nodes that it has passed.
Follow(t) ==
    LET u == path[t][Len(path[t])]
    IN  /\ pc[t] = "find" /\ ~IsRoot(u)
        /\ path' = [path EXCEPT ![t] = IF t \in team THEN Append(@, union_find[u]) ELSE <<union_find[u]>>]
    /\ UNCHANGED <<union_find, forest, loop, pc, edge, side, a, rank, output, history>>

\* What follows on the search: the other end, or the comparison of the two.
Found(t, root) ==
    IF side[t] = 1
    THEN /\ side' = [side EXCEPT ![t] = 2]
         /\ pc' = [pc EXCEPT ![t] = "find"]
         /\ path' = [path EXCEPT ![t] = <<a[t][2]>>]
    ELSE /\ pc' = [pc EXCEPT ![t] = "compare"]
         /\ path' = [path EXCEPT ![t] = <<>>]
         /\ UNCHANGED side

\* The recursion ends at a root, the nodes before the last but one are compressed;
\* connected() only reads.
FindRoot(t) ==
    LET k == Len(path[t])
        u == path[t][k]
    IN  /\ pc[t] = "find" /\ IsRoot(u)
        /\ a' = [a EXCEPT ![t][side[t]] = u]
        /\ rank' = IF t \in team THEN [rank EXCEPT ![t][side[t]] = -union_find[u]] ELSE rank
        /\ IF t \notin team \/ k <= 2
           THEN Found(t, u)
           ELSE /\ pc' = [pc EXCEPT ![t] = "compress"]
                /\ path' = [path EXCEPT ![t] = SubSeq(@, 1, k - 1)]
                /\ UNCHANGED side
    /\ UNCHANGED <<union_find, forest, loop, edge, output, history>>

\* One CAS on the way back, from the parent that was read to the root; whether it
\* succeeds is not looked at.
Compress(t) ==
    LET k == Len(path[t])
        u == path[t][k - 1]
        p == path[t][k]
    IN  /\ pc[t] = "compress"
        /\ union_find' = IF union_find[u] = p
                         THEN [union_find EXCEPT ![u] = a[t][side[t]]] ELSE union_find
        /\ IF k > 2 THEN path' = [path EXCEPT ![t] = SubSeq(@, 1, k - 1)] /\ UNCHANGED <<pc, side>>
                    ELSE Found(t, a[t][side[t]])
    /\ UNCHANGED <<forest, loop, edge, a, rank, output, history>>

-----------------------------------------------------------------------------
(* unite(a, b), after the representatives have been found.                 *)

\* The side that is linked below the other one: the lower rank, then the lower id.
LowerSide(t) ==
    IF rank[t][1] < rank[t][2] \/ (rank[t][1] = rank[t][2] /\ a[t][1] < a[t][2]) THEN 1 ELSE 2
Lower(t) == a[t][LowerSide(t)]
Higher(t) == a[t][3 - LowerSide(t)]

SameTree(t) ==
    /\ t \in team /\ pc[t] = "compare" /\ a[t][1] = a[t][2]
    /\ rejected' = rejected \cup {edge[t]}
    /\ Return(t, "loop")
    /\ UNCHANGED <<union_find, forest, loop, output, lastRank, apart>>

\* Mutant: the CAS expects any rank.
LinkAnyRank(t) ==
    LET low == Lower(t)
    IN  /\ t \in team /\ pc[t] = "compare" /\ a[t][1] # a[t][2]
        /\ IsRoot(low)
        /\ union_find' = [union_find EXCEPT ![low] = Higher(t)]
        /\ lastRank' = [lastRank EXCEPT ![low] = -union_find[low]]
        /\ kept' = [kept EXCEPT ![t] = Append(@, edge[t])]
        /\ IF rank[t][1] = rank[t][2]
           THEN pc' = [pc EXCEPT ![t] = "raise"] /\ UNCHANGED call
           ELSE Return(t, "loop")
    /\ UNCHANGED <<forest, loop, pos, rejected, apart>>

\* The CAS from the rank that was found to the new parent succeeds.
Link(t) ==
    LET low == Lower(t)
    IN  /\ t \in team /\ pc[t] = "compare" /\ a[t][1] # a[t][2]
        /\ union_find[low] = -rank[t][LowerSide(t)]
        /\ union_find' = [union_find EXCEPT ![low] = Higher(t)]
        /\ lastRank' = [lastRank EXCEPT ![low] = -union_find[low]]
        /\ kept' = [kept EXCEPT ![t] = Append(@, edge[t])]
        /\ IF rank[t][1] = rank[t][2]
           THEN pc' = [pc EXCEPT ![t] = "raise"] /\ UNCHANGED call
           ELSE Return(t, "loop")
    /\ UNCHANGED <<forest, loop, pos, rejected, apart>>

\* Mutant: the CAS is tried again without looking for the representatives.
LinkFailsNoFind(t) ==
    /\ t \in team /\ pc[t] = "compare" /\ a[t][1] # a[t][2]
    /\ union_find[Lower(t)] # -rank[t][LowerSide(t)]
    /\ UNCHANGED vars

LinkFails(t) ==
    /\ t \in team /\ pc[t] = "compare" /\ a[t][1] # a[t][2]
    /\ union_find[Lower(t)] # -rank[t][LowerSide(t)]
    /\ Retry(t)
    /\ UNCHANGED <<union_find, forest, loop, output, history>>

\* Mutant: the rank is raised whatever it is by now.
RaiseAnyRank(t) ==
    LET high == Higher(t)
    IN  /\ pc[t] = "raise"
        /\ union_find' = IF IsRoot(high)
                         THEN [union_find EXCEPT ![high] = @ - 1] ELSE union_find
        /\ Return(t, "loop")
    /\ UNCHANGED <<forest, loop, output, history>>

\* Mutant: the raised rank is stored and not exchanged.
RaiseStore(t) ==
    /\ pc[t] = "raise"
    /\ union_find' = [union_find EXCEPT ![Higher(t)] = -(rank[t][1] + 1)]
    /\ Return(t, "loop")
    /\ UNCHANGED <<forest, loop, output, history>>

\* After a link of equal ranks: the CAS that raises the rank may fail.
Raise(t) ==
    LET high == Higher(t)
        r == rank[t][1]
    IN  /\ pc[t] = "raise"
        /\ union_find' = IF union_find[high] = -r
                         THEN [union_find EXCEPT ![high] = -(r + 1)] ELSE union_find
        /\ Return(t, "loop")
    /\ UNCHANGED <<forest, loop, output, history>>

-----------------------------------------------------------------------------
(* The rest of addEdges.                                                   *)

\* Mutant: the counter is not advanced past the edges that are stored.
ReserveOne(t) ==
    /\ todo = {} /\ \A u \in team : pc[u] \in {"loop", "store", "joined"}
    /\ Goto(t, "loop", "store")
    /\ pos' = [pos EXCEPT ![t] = num_filtered_edges]
    /\ num_filtered_edges' = num_filtered_edges + (IF kept[t] = <<>> THEN 0 ELSE 1)
    /\ UNCHANGED <<union_find, filtered_edges, bfs_parents, loop, call, kept, history>>

\* The barrier at the end of the omp for, and the fetch_add.
Reserve(t) ==
    /\ todo = {} /\ \A u \in team : pc[u] \in {"loop", "store", "joined"}
    /\ Goto(t, "loop", "store")
    /\ pos' = [pos EXCEPT ![t] = num_filtered_edges]
    /\ num_filtered_edges' = num_filtered_edges + Len(kept[t])
    /\ UNCHANGED <<union_find, filtered_edges, bfs_parents, loop, call, kept, history>>

StoreEdge(t) ==
    /\ pc[t] = "store" /\ kept[t] # <<>>
    /\ filtered_edges' = [filtered_edges EXCEPT ![pos[t]] = Head(kept[t])]
    /\ pos' = [pos EXCEPT ![t] = @ + 1]
    /\ kept' = [kept EXCEPT ![t] = Tail(@)]
    /\ UNCHANGED <<union_find, num_filtered_edges, bfs_parents, loop, pc, call, history>>

Stored(t) ==
    /\ kept[t] = <<>>
    /\ Goto(t, "store", "joined")
    /\ pos' = [pos EXCEPT ![t] = 0]
    /\ UNCHANGED <<union_find, forest, loop, call, kept, history>>

\* The parallel region ends; the forest of the filtered edges is rooted anew.
BuildForest ==
    /\ team # {} /\ \A t \in team : pc[t] = "joined"
    /\ bfs_parents' = TreeParents({filtered_edges[i] : i \in 0 .. num_filtered_edges - 1})
    /\ team' = {}
    /\ pc' = [t \in Threads |-> IF t \in team THEN "idle" ELSE pc[t]]
    /\ UNCHANGED <<union_find, filtered_edges, num_filtered_edges, block, todo, call, output, history>>

-----------------------------------------------------------------------------
(* connected(a, b), after the representatives have been found.             *)

AnswerTrue(t) ==
    /\ t \notin team /\ pc[t] = "compare" /\ a[t][1] = a[t][2]
    /\ Return(t, "idle")
    /\ apart' = [apart EXCEPT ![t] = FALSE]
    /\ UNCHANGED <<union_find, forest, loop, output, lastRank, rejected>>

\* Mutant: it is not checked that a is still a root.
AnswerFalseAtOnce(t) ==
    /\ t \notin team /\ pc[t] = "compare" /\ a[t][1] # a[t][2]
    /\ Return(t, "idle")
    /\ apart' = [apart EXCEPT ![t] = FALSE]
    /\ UNCHANGED <<union_find, forest, loop, output, lastRank, rejected>>

AnswerFalse(t) ==
    /\ t \notin team /\ pc[t] = "compare" /\ a[t][1] # a[t][2]
    /\ IsRoot(a[t][1])
    /\ Return(t, "idle")
    /\ apart' = [apart EXCEPT ![t] = FALSE]
    /\ UNCHANGED <<union_find, forest, loop, output, lastRank, rejected>>

AskAgain(t) ==
    /\ t \notin team /\ pc[t] = "compare" /\ a[t][1] # a[t][2]
    /\ ~IsRoot(a[t][1])
    /\ Retry(t)
    /\ UNCHANGED <<union_find, forest, loop, output, history>>

-----------------------------------------------------------------------------
Find(t) == Follow(t) \/ FindRoot(t) \/ Compress(t)
Unite(t) == SameTree(t) \/ Link(t) \/ LinkFails(t) \/ Raise(t)
AddEdges(t) == TakeEdge(t) \/ Unite(t) \/ Reserve(t) \/ StoreEdge(t) \/ Stored(t)
Connected(t) == AskConnected(t) \/ AnswerTrue(t) \/ AnswerFalse(t) \/ AskAgain(t)

Next ==
    \/ BeginBlock \/ BuildForest
    \/ \E t \in Threads : Find(t) \/ AddEdges(t) \/ Connected(t)

Spec == Init /\ [][Next]_vars

\* A thread in a call is scheduled again.  Nobody is obliged to begin a call.
Fairness ==
    /\ \A t \in Threads : WF_vars((Find(t) \/ AddEdges(t) \/ Connected(t)) /\ pc[t] # "idle")
    /\ WF_vars(BuildForest)

FairSpec == Spec /\ Fairness
-----------------------------------------------------------------------------
Accepted ==
    (UNION {{kept[t][i] : i \in DOMAIN kept[t]} : t \in Threads})
    \cup ({filtered_edges[i] : i \in Nodes} \ {NoEdge})
AtRest == team = {}

\* Every variable has its type; a node holds a rank or another node.
TypeOK ==
    /\ \A v \in Nodes : union_find[v] \in (Nodes \ {v}) \cup {-r : r \in 1 .. Cardinality(Nodes)}
    /\ filtered_edges \in [Nodes -> (Nodes \X Nodes) \cup {NoEdge}]
    /\ num_filtered_edges \in 0 .. Cardinality(Nodes)
    /\ bfs_parents \in [Nodes -> Nodes \cup {-1}]
    /\ block \in 0 .. Len(Blocks) /\ todo \subseteq Nodes \X Nodes /\ team \subseteq Threads
    /\ pc \in [Threads -> {"idle", "loop", "find", "compress", "compare", "raise", "store", "joined"}]
    /\ edge \in [Threads -> (Nodes \X Nodes) \cup {NoEdge}]
    /\ side \in [Threads -> {1, 2}]
    /\ a \in [Threads -> (Nodes \X Nodes) \cup {NoEdge}]
    /\ rank \in [Threads -> Nat \X Nat]
    /\ path \in [Threads -> Seq(Nodes)]
    /\ kept \in [Threads -> Seq(Nodes \X Nodes)] /\ pos \in [Threads -> Nat]
    /\ lastRank \in [Nodes -> Nat] /\ rejected \subseteq Nodes \X Nodes
    /\ apart \in [Threads -> BOOLEAN]

\* The rank a node has as a root, or had when it was linked.
RankOf(v) == IF IsRoot(v) THEN -union_find[v] ELSE lastRank[v]
Below(u, v) == RankOf(u) < RankOf(v) \/ (RankOf(u) = RankOf(v) /\ u < v)

\* Parents are above their children in the order of ranks and ids, so that no link
\* and no compression ever closes a cycle: find_representative terminates.
ParentsOutrank == \A v \in Nodes : ~IsRoot(v) => Below(v, union_find[v])

\* A root of rank r has at least 2^(r - 1) nodes below it, although the link and the
\* raise of the rank are two steps with other links between them.
TreesAsLargeAsRanks ==
    \A r \in Roots : Cardinality({v \in Nodes : RootOf(v) = r}) >= 2 ^ (-union_find[r] - 1)

\* connected() answers true only if its arguments are connected, and false only if they
\* were not at some moment during the call: when it began, as trees only merge.
ConnectedAnswersRight ==
    [][\A t \in Threads :
        /\ AnswerTrue(t) => RootOf(edge[t][1]) = RootOf(edge[t][2])
        /\ AnswerFalse(t) => apart[t]]_vars

\* What the threads stored: each kept edge at a place of its own, none missing, and as
\* many as trees were joined, so that the array of n edges is never too small.
FilteredEdgesStored ==
    AtRest => /\ num_filtered_edges = Cardinality(Nodes) - Cardinality(Roots)
              /\ Cardinality({filtered_edges[i] : i \in 0 .. num_filtered_edges - 1}) = num_filtered_edges
              /\ \A i \in Nodes : filtered_edges[i] = NoEdge <=> i >= num_filtered_edges

\* parentOf() returns -1 for the roots and for nothing else: the filtered edges reach
\* every node from the root of its tree (the tests count components this way).
OnlyRootsAreParentless ==
    AtRest => \A v \in Nodes : bfs_parents[v] = -1 <=> IsRoot(v)

\* The edges that unite() accepts are a spanning forest of those it was called with.
Forest == INSTANCE SpanningForest WITH
            classes <- {{v \in Nodes : RootOf(v) = r} : r \in Roots},
            accepted <- Accepted
ImplementsSpanningForest == Forest!ForestSpec

\* Every call returns, and so does addEdges: a CAS fails only because another one
\* succeeded, and that happens less often than there are nodes and ranks.
CallsReturn == \A t \in Threads : pc[t] # "idle" ~> pc[t] = "idle"
=============================================================================

-------------------------- MODULE UnionFindProofs --------------------------
(***************************************************************************)
(* Proofs about the implementations of DynamicConnectivity with locks, for *)
(* any number of nodes and any edges: of DC_B by any number of threads,    *)
(* and of those that compress paths (DC_C, DC_D, DC_E) by one thread.      *)
(***************************************************************************)
EXTENDS MCUnionFind, DynamicConnectivityProofs

\* Without compression any number of threads may call unite(), with it only one.
WorkingBuild == variant = "DC_B" \/ \A t, u \in crew : t = u

-----------------------------------------------------------------------------
(* Each of the structures takes its own steps only.                        *)

LEMMA DCAlone == AnySpec => Spec
<1>1. AnyInit => Init
    BY DEF AnyInit
<1>2. [AnyNext]_<<vars, locked, built, alone, referenced, runs>> => [Next]_vars
    BY DEF AnyNext
<1> QED BY <1>1, <1>2, PTL DEF AnySpec, Spec

LEMMA LockedAlone == AnySpec => Locked!LockedSpec
<1>1. AnyInit => Locked!LockedInit
    BY DEF AnyInit
<1>2. [AnyNext]_<<vars, locked, built, alone, referenced, runs>> => [Locked!LockedNext]_(Locked!lockedVars)
    BY DEF AnyNext, locked, Locked!lockedVars, Locked!structure, Locked!cursor, Locked!lockedHistory, Locked!output
<1> QED BY <1>1, <1>2, PTL DEF AnySpec, Locked!LockedSpec
-----------------------------------------------------------------------------
(* The trees.  A root is its own parent here, so that the lemmas on trees  *)
(* are about the array that has -1 for it.                                 *)

Uppers == [v \in Nodes |-> IF union_find_parents[v] = v THEN -1 ELSE union_find_parents[v]]

\* Higher ranks are above lower ones, and lower ids above higher ones of the same rank.
RankOrder ==
    {p \in Nodes \X Nodes :
        \/ union_find_ranks[p[1]] < union_find_ranks[p[2]]
        \/ union_find_ranks[p[1]] = union_find_ranks[p[2]] /\ p[2] < p[1]}

ForestTyped == union_find_parents \in [Nodes -> Nodes] /\ union_find_ranks \in [Nodes -> Nat]
ParentsAbove == \A v \in Nodes : union_find_parents[v] # v => <<v, union_find_parents[v]>> \in RankOrder
ForestShape == ForestTyped /\ ParentsAbove

T(v) == Locked!TreeOf(v)
TreeMap == [v \in Nodes |-> T(v)]
OnlyTreeMap == \A R : LeadsTo(Uppers, R) => \A v \in Nodes : T(v) = R[v]

\* Two functions that unfold the same recursion agree.
LEMMA UnfoldsOnce ==
    ASSUME NEW S, NEW v \in S, NEW F \in [S -> S], NEW n \in Nat, NEW f, NEW g,
           Unfolds(f, S, v, F, n), Unfolds(g, S, v, F, n)
    PROVE  f[n] = g[n]
<1> DEFINE X == {i \in Nat : i <= n => f[i] = g[i]}
<1>1. 0 \in X
    BY DEF Unfolds
<1>2. ASSUME NEW i \in X PROVE i + 1 \in X
    <2> SUFFICES ASSUME i + 1 <= n PROVE f[i + 1] = g[i + 1]
        OBVIOUS
    <2>1. i + 1 \in 1 .. n /\ (i + 1) - 1 = i /\ i <= n
        OBVIOUS
    <2>2. f[i + 1] = F[f[i]] /\ g[i + 1] = F[g[i]] /\ f[i] = g[i]
        BY <2>1 DEF Unfolds
    <2> QED BY <2>2
<1> HIDE DEF X
<1>3. X = Nat
    BY <1>1, <1>2, InductionOverSet DEF X
<1> QED BY <1>3 DEF X

\* The parents of an array are above their children in the order of ranks and ids.
LEMMA ParentsOrdered ==
    ASSUME ForestShape
    PROVE  OrderedBy(Uppers, RankOrder)
<1>1. \A x \in Nodes : union_find_ranks[x] \in Nat /\ x \in Nat
    BY NodesAreNaturals DEF ForestShape, ForestTyped
<1>2. \A x \in Nodes : <<x, x>> \notin RankOrder
    BY <1>1 DEF RankOrder
<1>3. \A x, y, z \in Nodes : <<x, y>> \in RankOrder /\ <<y, z>> \in RankOrder => <<x, z>> \in RankOrder
    BY <1>1 DEF RankOrder
<1>4. \A x \in Nodes : ~(Uppers[x] < 0) => Uppers[x] \in Nodes /\ <<x, Uppers[x]>> \in RankOrder
    BY DEF Uppers, ForestShape, ParentsAbove, ForestTyped
<1> QED BY <1>2, <1>3, <1>4 DEF OrderedBy

\* TreeOf, too, is the end of a climb.
LEMMA TreeOfClimbs ==
    ASSUME ForestShape, NEW v \in Nodes
    PROVE  T(v) = RootIn(Uppers, v)
<1> DEFINE n == Cardinality(Nodes)
           F == union_find_parents
           Steps_(f) == f = [i \in 0 .. n |-> IF i = 0 THEN v ELSE F[f[i - 1]]]
           climb == CHOOSE f : Steps_(f)
<1>1. n \in Nat /\ F \in [Nodes -> Nodes]
    BY ConnectivityAssumption, FS_CardinalityType DEF ForestShape, ForestTyped
<1>2. T(v) = climb[n]
    BY DEF T, Locked!TreeOf, Locked!Cardinality, Cardinality
<1>o. OrderedBy(Uppers, RankOrder)
    BY ParentsOrdered
<1>u. Up(Uppers) = F
    <2>0. \A x \in Nodes : F[x] \in Nodes
        BY <1>1
    <2>n. \A x \in Nodes : x \in Nat /\ ~(x < 0)
        BY NodesAreNaturals
    <2>1. \A x \in Nodes : F[x] \in Nodes /\ ~(F[x] < 0)
        BY <2>0, <2>n
    <2>2. \A x \in Nodes : (IF Uppers[x] < 0 THEN x ELSE Uppers[x]) = F[x]
        BY <2>1 DEF Uppers
    <2> QED BY <2>2, <1>1 DEF Up
<1> HIDE DEF n, F
<1>3. PICK f : Unfolds(f, Nodes, v, F, n)
    BY <1>1, RecursiveFunction
<1>4. ASSUME NEW g, Unfolds(g, Nodes, v, F, n) PROVE Steps_(g)
    <2>1. \A i \in 0 .. n : i # 0 => i \in 1 .. n
        BY <1>1
    <2>2. \A i \in 0 .. n : i # 0 => g[i] = F[g[i - 1]]
        BY <1>4, <2>1 DEF Unfolds
    <2> QED BY <1>4, <2>2 DEF Unfolds
<1>5. ASSUME NEW g, Steps_(g) PROVE Unfolds(g, Nodes, v, F, n)
    <2>1. g[0] = v
        BY <1>5, <1>1
    <2>2. \A i \in 1 .. n : i \in 0 .. n /\ i # 0 /\ i - 1 \in 0 .. n
        BY <1>1
    <2>3. \A i \in 1 .. n : g[i] = F[g[i - 1]]
        BY <1>5, <2>2
    <2> DEFINE S == {i \in Nat : i <= n => g[i] \in Nodes}
    <2>4. 0 \in S
        BY <2>1
    <2>5. ASSUME NEW i \in S PROVE i + 1 \in S
        <3> SUFFICES ASSUME i + 1 <= n PROVE g[i + 1] \in Nodes
            OBVIOUS
        <3>1. i + 1 \in 1 .. n /\ (i + 1) - 1 = i /\ i <= n
            BY <1>1
        <3>2. g[i] \in Nodes /\ g[i + 1] = F[g[i]]
            BY <3>1, <2>3
        <3> QED BY <3>2, <1>1
    <2> HIDE DEF S
    <2>6. S = Nat
        BY <2>4, <2>5, InductionOverSet DEF S
    <2>7. \A i \in 0 .. n : g[i] \in Nodes
        BY <1>1, <2>6 DEF S
    <2>8. g \in [0 .. n -> Nodes]
        BY <1>5, <2>7
    <2> QED BY <2>1, <2>3, <2>8 DEF Unfolds
<1> HIDE DEF Steps_
<1>6. Unfolds(climb, Nodes, v, F, n)
    BY <1>3, <1>4, <1>5
<1>7. PICK g : Climb(Uppers, v, g) /\ RootIn(Uppers, v) = g[n]
    BY <1>o, ClimbExists DEF n
<1>8. Unfolds(g, Nodes, v, F, n)
    BY <1>7, <1>u DEF Climb, n
<1>9. climb[n] = g[n]
    BY <1>1, <1>6, <1>8, UnfoldsOnce
<1> QED BY <1>2, <1>7, <1>9

\* The parents are ordered, so every node has a root, which it shares with its parent.
LEMMA TreesOfNow ==
    ForestShape => OrderedBy(Uppers, RankOrder) /\ LeadsTo(Uppers, TreeMap) /\ OnlyTreeMap
<1> SUFFICES ASSUME ForestShape
             PROVE  OrderedBy(Uppers, RankOrder) /\ LeadsTo(Uppers, TreeMap) /\ OnlyTreeMap
    OBVIOUS
<1>1. OrderedBy(Uppers, RankOrder)
    BY ParentsOrdered
<1>2. \A v \in Nodes : T(v) = RootIn(Uppers, v)
    BY TreeOfClimbs
<1>3. TreeMap = [v \in Nodes |-> RootIn(Uppers, v)]
    BY <1>2 DEF TreeMap
<1>4. LeadsTo(Uppers, TreeMap)
    BY <1>1, <1>3, RootInLeads
<1>5. OnlyTreeMap
    BY <1>1, <1>2, OneMapToTheRoots DEF OnlyTreeMap
<1> QED BY <1>1, <1>4, <1>5

LEMMA TreeFacts ==
    ASSUME ForestShape
    PROVE  \A v \in Nodes :
            /\ T(v) \in Nodes /\ union_find_parents[T(v)] = T(v)
            /\ union_find_parents[v] = v => T(v) = v
            /\ union_find_parents[v] \in Nodes /\ T(union_find_parents[v]) = T(v)
<1>1. LeadsTo(Uppers, TreeMap)
    BY TreesOfNow
<1>2. \A v \in Nodes : TreeMap[v] = T(v)
    BY DEF TreeMap
<1>n. \A v \in Nodes : v \in Nat /\ ~(v < 0)
    BY NodesAreNaturals
<1>p. \A v \in Nodes : union_find_parents[v] \in Nodes
    BY DEF ForestShape, ForestTyped
<1>3. \A v \in Nodes : union_find_parents[v] \in Nodes /\ (Uppers[v] < 0 <=> union_find_parents[v] = v)
                       /\ (union_find_parents[v] # v => Uppers[v] = union_find_parents[v])
    BY <1>n, <1>p DEF Uppers
<1> QED BY <1>1, <1>2, <1>3 DEF LeadsTo

\* A root is above the nodes of its tree.
LEMMA TreeAbove ==
    ASSUME ForestShape, NEW v \in Nodes
    PROVE  T(v) = v \/ <<v, T(v)>> \in RankOrder
BY TreesOfNow, TreeOfClimbs, RootAbove
-----------------------------------------------------------------------------
(* The inductive invariant of the builds with locks.                       *)

Uniting(t) == at[t] \notin {"loop", "joined"}
Searching(t) == at[t] \in {"find", "compress", "parent", "shorten"}
Compressing(t) == at[t] \in {"compress", "parent", "shorten"}
LockingTwo(t) == at[t] \in {"lower locked", "both locked", "linked"}
HasBoth(t) == at[t] \in {"both locked", "linked"}

\* The ends of two edges are in the same trees, in this order or the other.
SameTrees(e, f) ==
    \/ TreeMap[e[1]] = TreeMap[f[1]] /\ TreeMap[e[2]] = TreeMap[f[2]]
    \/ TreeMap[e[1]] = TreeMap[f[2]] /\ TreeMap[e[2]] = TreeMap[f[1]]

\* a and b stay in the trees of the edge that unite() was called with, and a search in the
\* tree it began in; a compression goes to the root of the tree it is in.
SearchOK(t) ==
    /\ Uniting(t) =>
        /\ t \in crew /\ ends[t] \in Nodes \X Nodes /\ which[t] \in {1, 2}
        /\ SameTrees(ends[t], taken[t])
    /\ Searching(t) => node[t] \in Nodes /\ TreeMap[node[t]] = TreeMap[ends[t][which[t]]]
    /\ Compressing(t) =>
        /\ variant # "DC_B" /\ root[t] \in Nodes /\ TreeMap[node[t]] = root[t]
        /\ union_find_parents[root[t]] = root[t]
    /\ at[t] \in {"parent", "shorten"} => union_find_parents[node[t]] # root[t]
    /\ at[t] = "shorten" => parent[t] = union_find_parents[node[t]]

\* Who has locked a node has its mutex, and a is still the root that it was.
LocksOK(t) ==
    /\ LockingTwo(t) => ends[t][1] < ends[t][2] /\ union_find_mutexes[ends[t][1]] = t
    /\ HasBoth(t) => union_find_mutexes[ends[t][2]] = t
    /\ at[t] = "both locked" => union_find_parents[ends[t][1]] = ends[t][1]

\* Every edge is taken once, and accepted when it is linked.
TakenOK(t) ==
    /\ Uniting(t) => taken[t] \in Edges \ untaken
    /\ Uniting(t) => (taken[t] \in accepted <=> at[t] = "linked")
    /\ \A u \in Threads : Uniting(t) /\ Uniting(u) /\ taken[t] = taken[u] => t = u

\* No thread takes an edge that is accepted already.
AcceptedTaken == accepted \cap untaken = {}

\* Where an accepted edge is: in a list of kept edges, in the array, or just linked.
KeptOrFiled(e) ==
    \/ \E t \in Threads : \E i \in 1 .. Len(locked_kept[t]) : locked_kept[t][i] = e
    \/ \E j \in 1 .. Len(locked_filtered) : locked_filtered[j] = e
AcceptedStored ==
    \A e : e \in accepted <=> KeptOrFiled(e) \/ \E t \in Threads : at[t] = "linked" /\ taken[t] = e

\* No two places hold the same edge.
EdgesApart ==
    /\ \A t, u \in Threads : \A i \in 1 .. Len(locked_kept[t]), j \in 1 .. Len(locked_kept[u]) :
        locked_kept[t][i] = locked_kept[u][j] => t = u /\ i = j
    /\ \A i, j \in 1 .. Len(locked_filtered) : locked_filtered[i] = locked_filtered[j] => i = j
    /\ \A t \in Threads : \A i \in 1 .. Len(locked_kept[t]), j \in 1 .. Len(locked_filtered) :
        locked_kept[t][i] # locked_filtered[j]
LockedPlaces ==
    /\ \A e : \A t \in Threads : at[t] = "linked" /\ taken[t] = e => ~KeptOrFiled(e)
    /\ EdgesApart

\* A link takes one root away, and raises a rank by one at most.
Linked_ == Nodes \ Locked!TreeRoots
LinksAreCounted ==
    /\ IsFiniteSet(accepted) /\ Cardinality(accepted) = Cardinality(Linked_)
    /\ \A v \in Nodes : union_find_ranks[v] <= Cardinality(Linked_)

CrewOnly == \A t \in Threads : t \notin crew => at[t] = "loop" /\ locked_kept[t] = <<>>
JoinedEmpty == \A t \in Threads : at[t] = "joined" => locked_kept[t] = <<>>

LockSteps == {"loop", "find", "compress", "parent", "shorten", "compare",
              "lower locked", "both locked", "linked", "joined"}
Ends == (Nodes \X Nodes) \cup {<<0, 0>>}
LocalTypes ==
    /\ at \in [Threads -> LockSteps] /\ ends \in [Threads -> Ends]
    /\ taken \in [Threads -> Edges \cup {<<0, 0>>}]
    /\ which \in [Threads -> {1, 2}]
    /\ node \in [Threads -> Nodes \cup {0}] /\ root \in [Threads -> Nodes \cup {0}]
    /\ parent \in [Threads -> Nodes \cup {0}] /\ locking \in [Threads -> BOOLEAN]
    /\ locked_kept \in [Threads -> Seq(Edges)]
SharedTypes ==
    /\ [variant |-> variant, crew |-> crew] \in Builds
    /\ union_find_mutexes \in [Nodes -> Threads \cup {nobody}]
    /\ untaken \subseteq Edges /\ accepted \subseteq Edges /\ refused \subseteq Edges
    /\ locked_filtered \in Seq(Edges)

\* A mutex is held by the thread that has locked the node.
HeldBy(t, v) ==
    \/ at[t] = "lower locked" /\ v = ends[t][1]
    \/ HasBoth(t) /\ v \in {ends[t][1], ends[t][2]}
MutexesOK == \A v \in Nodes : \A t \in Threads : union_find_mutexes[v] = t => HeldBy(t, v)

UnrankedFlat == Locked!ranked \/ \A v \in Nodes : union_find_ranks[v] = 0

LockedInv ==
    /\ LocalTypes /\ SharedTypes /\ MutexesOK /\ ForestShape /\ UnrankedFlat /\ WorkingBuild
    /\ \A t \in Threads : SearchOK(t) /\ LocksOK(t) /\ TakenOK(t)
    /\ AcceptedTaken /\ AcceptedStored /\ LockedPlaces /\ LinksAreCounted /\ CrewOnly /\ JoinedEmpty
-----------------------------------------------------------------------------
(* What a step does to the trees.                                          *)

LEMMA SameForest ==
    ASSUME union_find_parents' = union_find_parents
    PROVE  \A v : T(v)' = T(v)
BY DEF T, Locked!TreeOf

LEMMA TreesNext_ ==
    ASSUME ForestShape', NEW R, LeadsTo(Uppers', R)
    PROVE  \A v \in Nodes : T(v)' = R[v]
<1>1. OnlyTreeMap'
    BY TreesOfNow, PTL
<1> QED BY <1>1 DEF OnlyTreeMap

\* A root is hung below another one.
LEMMA TreesAfterLink ==
    ASSUME ForestShape, ForestShape', NEW low \in Nodes, NEW high \in Nodes, low # high,
           union_find_parents[low] = low, union_find_parents[high] = high,
           union_find_parents' = [union_find_parents EXCEPT ![low] = high]
    PROVE  \A v \in Nodes : T(v)' = IF T(v) = low THEN high ELSE T(v)
<1> DEFINE R == [v \in Nodes |-> IF T(v) = low THEN high ELSE T(v)]
<1>1. union_find_parents \in [Nodes -> Nodes] /\ \A v \in Nodes : v \in Nat /\ ~(v < 0)
    BY NodesAreNaturals DEF ForestShape, ForestTyped
<1>2. \A v \in Nodes : union_find_parents'[v] = IF v = low THEN high ELSE union_find_parents[v]
    BY <1>1
<1>3. T(low) = low /\ T(high) = high
    BY TreeFacts
<1>4. \A v \in Nodes : R[v] \in Nodes /\ union_find_parents'[R[v]] = R[v]
    BY <1>2, <1>3, TreeFacts
<1>5. \A v \in Nodes : IF union_find_parents'[v] = v THEN R[v] = v ELSE R[v] = R[union_find_parents'[v]]
    <2> SUFFICES ASSUME NEW v \in Nodes
                 PROVE  IF union_find_parents'[v] = v THEN R[v] = v ELSE R[v] = R[union_find_parents'[v]]
        OBVIOUS
    <2>1. CASE v = low
        BY <2>1, <1>2, <1>3
    <2>2. CASE v # low
        BY <2>2, <1>2, <1>3, TreeFacts
    <2> QED BY <2>1, <2>2
<1>6. \A v \in Nodes : union_find_parents'[v] \in Nodes /\ (Uppers'[v] < 0 <=> union_find_parents'[v] = v)
                       /\ (union_find_parents'[v] # v => Uppers'[v] = union_find_parents'[v])
    BY <1>1, <1>2 DEF Uppers
<1>7. R \in [Nodes -> Nodes]
    BY <1>4
<1>8. \A v \in Nodes : R[v] = IF T(v) = low THEN high ELSE T(v)
    OBVIOUS
<1> HIDE DEF R
<1>9. LeadsTo(Uppers', R)
    BY <1>4, <1>5, <1>6, <1>7 DEF LeadsTo
<1> QED BY <1>8, <1>9, TreesNext_

\* A node is hung below the root of its tree.
LEMMA TreesAfterShorten ==
    ASSUME ForestShape, ForestShape', NEW u \in Nodes, union_find_parents[u] # u,
           union_find_parents' = [union_find_parents EXCEPT ![u] = T(u)]
    PROVE  \A v \in Nodes : T(v)' = T(v)
<1>1. union_find_parents \in [Nodes -> Nodes] /\ \A v \in Nodes : v \in Nat /\ ~(v < 0)
    BY NodesAreNaturals DEF ForestShape, ForestTyped
<1>2. \A v \in Nodes : union_find_parents'[v] = IF v = u THEN T(u) ELSE union_find_parents[v]
    BY <1>1
<1>3. \A v \in Nodes : TreeMap[v] = T(v) /\ T(v) \in Nodes /\ T(v) # u /\ union_find_parents'[T(v)] = T(v)
    BY <1>2, TreeFacts DEF TreeMap
<1>4. \A v \in Nodes : T(T(v)) = T(v)
    BY TreeFacts
<1>5. \A v \in Nodes :
        IF union_find_parents'[v] = v THEN TreeMap[v] = v ELSE TreeMap[v] = TreeMap[union_find_parents'[v]]
    BY <1>2, <1>3, <1>4, TreeFacts
<1>6. \A v \in Nodes : union_find_parents'[v] \in Nodes /\ (Uppers'[v] < 0 <=> union_find_parents'[v] = v)
                       /\ (union_find_parents'[v] # v => Uppers'[v] = union_find_parents'[v])
    BY <1>1, <1>2, <1>3 DEF Uppers
<1>7. TreeMap \in [Nodes -> Nodes]
    BY <1>3 DEF TreeMap
<1> HIDE DEF TreeMap
<1>9. LeadsTo(Uppers', TreeMap)
    BY <1>3, <1>5, <1>6, <1>7 DEF LeadsTo
<1> QED BY <1>3, <1>9, TreesNext_

\* Which of two roots is hung below the other one.
HungUnder(low, high) ==
    /\ low \in Nodes /\ high \in Nodes /\ low # high
    /\ union_find_parents[low] = low /\ union_find_parents[high] = high
    /\ union_find_parents' = [union_find_parents EXCEPT ![low] = high]

LEMMA CrewThreads == SharedTypes => crew \subseteq Threads
<1>1. ASSUME SharedTypes PROVE crew \subseteq Threads
    <2>1. [variant |-> variant, crew |-> crew] \in [variant : Locked!Variants, crew : SUBSET Threads]
        BY <1>1, BuildAssumption DEF SharedTypes, Locked!BuildsAndEdges
    <2> QED BY <2>1
<1> QED BY <1>1

LEMMA LinkHangs ==
    ASSUME LockedInv, NEW t \in crew, Locked!Link(t)
    PROVE  /\ \/ HungUnder(ends[t][1], ends[t][2])
              \/ HungUnder(ends[t][2], ends[t][1])
           /\ ForestShape' /\ UnrankedFlat'
           /\ \A v \in Nodes : union_find_ranks'[v] <= union_find_ranks[v] + 1
<1> DEFINE x == ends[t][1]
           y == ends[t][2]
           r == Locked!NewRoot(x, y)
<1>1. /\ at[t] = "both locked" /\ t \in Threads
      /\ union_find_parents[y] = y
      /\ union_find_parents' = [union_find_parents EXCEPT ![x + y - r] = r]
      /\ union_find_ranks' = IF Locked!ranked /\ union_find_ranks[x] = union_find_ranks[y]
                             THEN [union_find_ranks EXCEPT ![r] = @ + 1] ELSE union_find_ranks
      /\ variant' = variant
    <2>1. t \in Threads
        BY CrewThreads DEF LockedInv
    <2> QED BY <2>1 DEF Locked!Link, Locked!Step
<1>2. /\ ForestTyped /\ ParentsAbove /\ UnrankedFlat /\ x \in Nodes /\ y \in Nodes
      /\ union_find_parents[x] = x /\ x < y
    <2>1. SearchOK(t) /\ LocksOK(t) /\ ForestTyped /\ ParentsAbove /\ UnrankedFlat
        BY <1>1 DEF LockedInv, ForestShape
    <2> QED BY <2>1, <1>1 DEF SearchOK, LocksOK, Uniting, LockingTwo
<1>3. r = IF Locked!ranked /\ union_find_ranks[x] < union_find_ranks[y] THEN y ELSE x
    BY DEF Locked!NewRoot
<1> HIDE DEF x, y, r
<1>4. PICK low \in Nodes : r \in {x, y} /\ low \in {x, y} /\ low # r /\ x + y - r = low /\ r \in Nodes
    <2>1. x \in Nat /\ y \in Nat /\ x + y - x = y /\ x + y - y = x /\ x # y
        BY <1>2, NodesAreNaturals
    <2>2. CASE r = x
        BY <2>1, <2>2, <1>2
    <2>3. CASE r = y
        BY <2>1, <2>3, <1>2
    <2> QED BY <2>2, <2>3, <1>3
<1>5. HungUnder(low, r)
    BY <1>1, <1>2, <1>4 DEF HungUnder
<1>6. \A v \in Nodes : union_find_ranks[v] \in Nat /\ v \in Nat
    BY <1>2, NodesAreNaturals DEF ForestTyped
<1>7. \A v \in Nodes : union_find_ranks'[v] =
        IF Locked!ranked /\ union_find_ranks[x] = union_find_ranks[y] /\ v = r
        THEN union_find_ranks[v] + 1 ELSE union_find_ranks[v]
    <2>1. union_find_ranks \in [Nodes -> Nat]
        BY <1>2 DEF ForestTyped
    <2>2. CASE Locked!ranked /\ union_find_ranks[x] = union_find_ranks[y]
        BY <2>1, <2>2, <1>1, <1>4
    <2>3. CASE ~(Locked!ranked /\ union_find_ranks[x] = union_find_ranks[y])
        BY <2>1, <2>3, <1>1
    <2> QED BY <2>2, <2>3
<1>8. union_find_ranks' \in [Nodes -> Nat] /\ union_find_parents' \in [Nodes -> Nodes]
    <2>1. union_find_ranks \in [Nodes -> Nat] /\ union_find_parents \in [Nodes -> Nodes]
        BY <1>2 DEF ForestTyped
    <2>2. union_find_parents' \in [Nodes -> Nodes]
        BY <2>1, <1>4, <1>5 DEF HungUnder
    <2>3. CASE Locked!ranked /\ union_find_ranks[x] = union_find_ranks[y]
        <3>1. union_find_ranks' = [union_find_ranks EXCEPT ![r] = @ + 1]
            BY <2>3, <1>1
        <3>2. union_find_ranks[r] + 1 \in Nat
            BY <1>4, <1>6
        <3>3. union_find_ranks' \in [Nodes -> Nat]
            BY <3>1, <3>2, <2>1
        <3> QED BY <3>3, <2>2
    <2>4. CASE ~(Locked!ranked /\ union_find_ranks[x] = union_find_ranks[y])
        BY <2>1, <2>2, <2>4, <1>1
    <2> QED BY <2>3, <2>4
<1>9. \A v \in Nodes : union_find_parents'[v] = IF v = low THEN r ELSE union_find_parents[v]
    BY <1>2, <1>4, <1>5 DEF HungUnder, ForestTyped
<1>10. ASSUME NEW v \in Nodes, union_find_parents'[v] # v
       PROVE  <<v, union_find_parents'[v]>> \in RankOrder'
    <2>1. CASE v = low
        <3>1. union_find_ranks'[low] = union_find_ranks[low]
            BY <1>4, <1>7
        <3>2. union_find_ranks'[low] < union_find_ranks'[r] \/ (union_find_ranks'[low] = union_find_ranks'[r] /\ r < low)
            <4>1. CASE Locked!ranked
                BY <4>1, <3>1, <1>2, <1>3, <1>4, <1>6, <1>7
            <4>2. CASE ~Locked!ranked
                <5>1. r = x /\ low = y /\ union_find_ranks[x] = 0 /\ union_find_ranks[y] = 0
                    BY <4>2, <1>2, <1>3, <1>4 DEF UnrankedFlat
                <5> QED BY <5>1, <4>2, <1>2, <1>7
            <4> QED BY <4>1, <4>2
        <3> QED BY <2>1, <3>2, <1>4, <1>9 DEF RankOrder
    <2>2. CASE v # low
        <3> DEFINE w == union_find_parents[v]
        <3>1. union_find_parents'[v] = w /\ w # v /\ w \in Nodes
            BY <2>2, <1>9, <1>10, <1>2 DEF ForestTyped
        <3>2. v # r
            BY <3>1, <1>5 DEF HungUnder
        <3>3. union_find_ranks[v] < union_find_ranks[w] \/ (union_find_ranks[v] = union_find_ranks[w] /\ w < v)
            BY <3>1, <1>2 DEF ParentsAbove, RankOrder
        <3> HIDE DEF w
        <3>4. union_find_ranks'[v] = union_find_ranks[v]
              /\ (union_find_ranks'[w] = union_find_ranks[w] \/ union_find_ranks'[w] = union_find_ranks[w] + 1)
            BY <3>1, <3>2, <1>7
        <3>5. union_find_ranks[v] \in Nat /\ union_find_ranks[w] \in Nat
            BY <3>1, <1>6
        <3>6. union_find_ranks'[v] < union_find_ranks'[w] \/ (union_find_ranks'[v] = union_find_ranks'[w] /\ w < v)
            BY <3>3, <3>4, <3>5
        <3> QED BY <3>1, <3>6 DEF RankOrder
    <2> QED BY <2>1, <2>2
<1>11. ForestShape'
    BY <1>8, <1>10 DEF ForestShape, ForestTyped, ParentsAbove
<1>12. UnrankedFlat'
    <2>1. Locked!ranked' = Locked!ranked
        BY <1>1 DEF Locked!ranked
    <2> QED BY <2>1, <1>2, <1>7 DEF UnrankedFlat
<1>13. \A v \in Nodes : union_find_ranks'[v] <= union_find_ranks[v] + 1
    BY <1>6, <1>7
<1> QED BY <1>4, <1>5, <1>11, <1>12, <1>13 DEF x, y
-----------------------------------------------------------------------------
(* The types, and that a step of a thread changes its own locals only.     *)

\* The locals of all threads but t stay.
OnlyOf(t) ==
    \A u \in Threads : u # t =>
        /\ at'[u] = at[u] /\ ends'[u] = ends[u] /\ taken'[u] = taken[u] /\ which'[u] = which[u]
        /\ node'[u] = node[u] /\ root'[u] = root[u] /\ parent'[u] = parent[u]
        /\ locking'[u] = locking[u] /\ locked_kept'[u] = locked_kept[u]
CursorTypes ==
    /\ at \in [Threads -> LockSteps] /\ ends \in [Threads -> Ends] /\ which \in [Threads -> {1, 2}]
    /\ node \in [Threads -> Nodes \cup {0}] /\ root \in [Threads -> Nodes \cup {0}]
    /\ parent \in [Threads -> Nodes \cup {0}]
CursorOf(t) ==
    \A u \in Threads : u # t =>
        /\ at'[u] = at[u] /\ ends'[u] = ends[u] /\ which'[u] = which[u]
        /\ node'[u] = node[u] /\ root'[u] = root[u] /\ parent'[u] = parent[u]
RestTypes ==
    /\ taken \in [Threads -> Edges \cup {<<0, 0>>}] /\ locking \in [Threads -> BOOLEAN]
    /\ locked_kept \in [Threads -> Seq(Edges)]
RestOf(t) ==
    \A u \in Threads : u # t =>
        taken'[u] = taken[u] /\ locking'[u] = locking[u] /\ locked_kept'[u] = locked_kept[u]

LEMMA TypesSplit == (LocalTypes <=> CursorTypes /\ RestTypes) /\ \A t : OnlyOf(t) <=> CursorOf(t) /\ RestOf(t)
BY DEF LocalTypes, CursorTypes, RestTypes, OnlyOf, CursorOf, RestOf

LEMMA TypesSplitNext == LocalTypes' <=> CursorTypes' /\ RestTypes'
BY DEF LocalTypes, CursorTypes, RestTypes

\* What SearchFrom, SearchReturns and LeaveUnite leave behind.
LEMMA SearchBegins ==
    ASSUME CursorTypes, NEW t \in Threads, NEW ab \in Nodes \X Nodes, Locked!SearchFrom(t, ab)
    PROVE  /\ CursorTypes' /\ CursorOf(t)
           /\ at'[t] = "find" /\ ends'[t] = ab /\ which'[t] = 1 /\ node'[t] = ab[1]
<1>1. /\ at' = [at EXCEPT ![t] = "find"] /\ ends' = [ends EXCEPT ![t] = ab]
      /\ which' = [which EXCEPT ![t] = 1] /\ node' = [node EXCEPT ![t] = ab[1]]
      /\ UNCHANGED <<root, parent>>
    BY DEF Locked!SearchFrom
<1>2. ab \in Ends /\ ab[1] \in Nodes \cup {0} /\ "find" \in LockSteps
    BY DEF Ends, LockSteps
<1> HIDE DEF Ends, LockSteps
<1>3. at' \in [Threads -> LockSteps] /\ ends' \in [Threads -> Ends] /\ at'[t] = "find" /\ ends'[t] = ab
    BY <1>1, <1>2 DEF CursorTypes
<1>4. /\ which' \in [Threads -> {1, 2}] /\ node' \in [Threads -> Nodes \cup {0}]
      /\ which'[t] = 1 /\ node'[t] = ab[1]
    BY <1>1, <1>2 DEF CursorTypes
<1>5. CursorOf(t)
    BY <1>1 DEF CursorOf, CursorTypes
<1> QED BY <1>1, <1>3, <1>4, <1>5 DEF CursorTypes

LEMMA UniteReturns ==
    ASSUME LocalTypes, NEW t \in Threads, Locked!LeaveUnite(t)
    PROVE  CursorTypes' /\ CursorOf(t) /\ at'[t] = "loop"
           /\ taken' = [taken EXCEPT ![t] = <<0, 0>>] /\ locking' = [locking EXCEPT ![t] = FALSE]
<1>1. /\ at' = [at EXCEPT ![t] = "loop"] /\ ends' = [ends EXCEPT ![t] = <<0, 0>>]
      /\ which' = [which EXCEPT ![t] = 1] /\ node' = [node EXCEPT ![t] = 0]
      /\ root' = [root EXCEPT ![t] = 0] /\ parent' = [parent EXCEPT ![t] = 0]
      /\ taken' = [taken EXCEPT ![t] = <<0, 0>>] /\ locking' = [locking EXCEPT ![t] = FALSE]
    BY DEF Locked!LeaveUnite
<1>2. <<0, 0>> \in Ends /\ "loop" \in LockSteps
    BY DEF Ends, LockSteps
<1> HIDE DEF Ends, LockSteps
<1>3. at' \in [Threads -> LockSteps] /\ ends' \in [Threads -> Ends] /\ at'[t] = "loop"
    BY <1>1, <1>2 DEF LocalTypes
<1>4. which' \in [Threads -> {1, 2}] /\ node' \in [Threads -> Nodes \cup {0}]
    BY <1>1, <1>2 DEF LocalTypes
<1>5. root' \in [Threads -> Nodes \cup {0}] /\ parent' \in [Threads -> Nodes \cup {0}]
    BY <1>1, <1>2 DEF LocalTypes
<1>6. CursorOf(t)
    BY <1>1 DEF CursorOf, LocalTypes
<1> QED BY <1>1, <1>3, <1>4, <1>5, <1>6 DEF CursorTypes

LEMMA SearchEnds ==
    ASSUME CursorTypes, NEW t \in Threads, NEW r \in Nodes, ends[t] \in Nodes \X Nodes,
           Locked!SearchReturns(t, r)
    PROVE  /\ CursorTypes' /\ CursorOf(t)
           /\ ends'[t] \in Nodes \X Nodes /\ ends'[t][which[t]] = r /\ ends'[t][3 - which[t]] = ends[t][3 - which[t]]
           /\ \/ which[t] = 1 /\ at'[t] = "find" /\ which'[t] = 2 /\ node'[t] = ends[t][2]
              \/ which[t] = 2 /\ at'[t] = "compare" /\ which'[t] = 2
<1>1. ends' = [ends EXCEPT ![t][which[t]] = r] /\ which[t] \in {1, 2}
      /\ root' = [root EXCEPT ![t] = 0] /\ parent' = [parent EXCEPT ![t] = 0]
    BY DEF Locked!SearchReturns, CursorTypes
<1>2. \/ /\ which[t] = 1 /\ which' = [which EXCEPT ![t] = 2]
         /\ node' = [node EXCEPT ![t] = ends[t][2]] /\ at' = [at EXCEPT ![t] = "find"]
      \/ /\ which[t] = 2 /\ which' = which
         /\ node' = [node EXCEPT ![t] = 0] /\ at' = [at EXCEPT ![t] = "compare"]
    BY DEF Locked!SearchReturns
<1> DEFINE e == [ends[t] EXCEPT ![which[t]] = r]
<1>3. e \in Nodes \X Nodes /\ e[which[t]] = r /\ e[3 - which[t]] = ends[t][3 - which[t]]
    BY <1>1, PairUpdated
<1>4. ends' = [ends EXCEPT ![t] = e]
    BY <1>1
<1> HIDE DEF e
<1>5. e \in Ends /\ "find" \in LockSteps /\ "compare" \in LockSteps /\ ends[t][2] \in Nodes
    BY <1>3 DEF Ends, LockSteps
<1> HIDE DEF Ends, LockSteps
<1>6. ends' \in [Threads -> Ends] /\ ends'[t] = e
    BY <1>4, <1>5 DEF CursorTypes
<1>7. at' \in [Threads -> LockSteps] /\ node' \in [Threads -> Nodes \cup {0}] /\ which' \in [Threads -> {1, 2}]
    BY <1>2, <1>5 DEF CursorTypes
<1>8. root' \in [Threads -> Nodes \cup {0}] /\ parent' \in [Threads -> Nodes \cup {0}]
    BY <1>1 DEF CursorTypes
<1>9. \/ which[t] = 1 /\ at'[t] = "find" /\ which'[t] = 2 /\ node'[t] = ends[t][2]
      \/ which[t] = 2 /\ at'[t] = "compare" /\ which'[t] = 2
    BY <1>2 DEF CursorTypes
<1>10. CursorOf(t)
    BY <1>1, <1>2, <1>4 DEF CursorOf, CursorTypes
<1> QED BY <1>3, <1>6, <1>7, <1>8, <1>9, <1>10 DEF CursorTypes
\* The step t takes.
ThreadStep(t) ==
    Locked!TakeEdge(t) \/ Locked!FindStep(t) \/ Locked!CompressStep(t) \/ Locked!UniteStep(t) \/ Locked!StoreKept(t)

LEMMA EdgesOfNodes == Edges \subseteq Nodes \X Nodes
BY BuildAssumption DEF Locked!BuildsAndEdges

LEMMA RestStays ==
    ASSUME RestTypes, UNCHANGED <<taken, locking, locked_kept>>
    PROVE  RestTypes' /\ \A t : RestOf(t)
BY DEF RestTypes, RestOf

\* A step that changes no more than these of the locals.
MovesTo(t, s, n, r, p) ==
    /\ s \in LockSteps /\ n \in Nodes \cup {0} /\ r \in Nodes \cup {0} /\ p \in Nodes \cup {0}
    /\ at' = [at EXCEPT ![t] = s] /\ node' = [node EXCEPT ![t] = n]
    /\ root' = [root EXCEPT ![t] = r] /\ parent' = [parent EXCEPT ![t] = p]
    /\ UNCHANGED <<which, ends>>

LEMMA CursorMoves ==
    ASSUME CursorTypes, NEW t \in Threads, NEW s, NEW n, NEW r, NEW p, MovesTo(t, s, n, r, p)
    PROVE  CursorTypes' /\ CursorOf(t) /\ at'[t] = s /\ node'[t] = n /\ root'[t] = r /\ parent'[t] = p
<1> USE DEF MovesTo
<1> HIDE DEF Ends, LockSteps
<1>1. at' \in [Threads -> LockSteps] /\ at'[t] = s
    BY DEF CursorTypes
<1>2. node' \in [Threads -> Nodes \cup {0}] /\ node'[t] = n
    BY DEF CursorTypes
<1>3. root' \in [Threads -> Nodes \cup {0}] /\ root'[t] = r
    BY DEF CursorTypes
<1>4. parent' \in [Threads -> Nodes \cup {0}] /\ parent'[t] = p
    BY DEF CursorTypes
<1>5. CursorOf(t)
    BY DEF CursorOf, CursorTypes
<1> QED BY <1>1, <1>2, <1>3, <1>4, <1>5 DEF CursorTypes

\* As before, for a thread that only goes on to its next step.
LEMMA CursorSteps ==
    ASSUME CursorTypes, NEW t \in Threads, NEW s \in LockSteps,
           at' = [at EXCEPT ![t] = s], UNCHANGED <<node, root, parent, which, ends>>
    PROVE  CursorTypes' /\ CursorOf(t) /\ at'[t] = s
<1> HIDE DEF Ends, LockSteps
<1>1. at' \in [Threads -> LockSteps] /\ at'[t] = s
    BY DEF CursorTypes
<1>2. CursorOf(t)
    BY DEF CursorOf, CursorTypes
<1> QED BY <1>1, <1>2 DEF CursorTypes

\* What TakeEdge and TryToLock and the failures of try_lock have in common.
LEMMA LocalsSearch ==
    ASSUME LocalTypes, NEW t \in Threads, NEW ab \in Nodes \X Nodes, Locked!SearchFrom(t, ab),
           RestTypes', RestOf(t)
    PROVE  LocalTypes' /\ OnlyOf(t)
BY SearchBegins, TypesSplit, TypesSplitNext

LEMMA LocalsTake ==
    ASSUME LocalTypes, SharedTypes, NEW t \in Threads, Locked!TakeEdge(t)
    PROVE  LocalTypes' /\ OnlyOf(t)
<1>1. PICK e \in untaken : taken' = [taken EXCEPT ![t] = e] /\ Locked!SearchFrom(t, e)
    BY DEF Locked!TakeEdge
<1>2. e \in Edges /\ e \in Nodes \X Nodes
    BY EdgesOfNodes DEF SharedTypes
<1>3. UNCHANGED <<locking, locked_kept>>
    BY DEF Locked!TakeEdge, Locked!output
<1>4. RestTypes' /\ RestOf(t)
    BY <1>1, <1>2, <1>3 DEF RestTypes, RestOf, LocalTypes
<1> QED BY <1>1, <1>2, <1>4, LocalsSearch

LEMMA LocalsFind ==
    ASSUME LocalTypes, ForestShape, NEW t \in Threads, SearchOK(t), Locked!FindStep(t)
    PROVE  LocalTypes' /\ OnlyOf(t)
<1>1. at[t] = "find" /\ node[t] \in Nodes /\ ends[t] \in Nodes \X Nodes /\ which[t] \in {1, 2}
    BY DEF Locked!FindStep, Locked!FollowParent, Locked!ReachRoot, SearchOK, Searching, Uniting
<1>2. CursorTypes /\ RestTypes
    BY TypesSplit
<1>3. union_find_parents[node[t]] \in Nodes
    BY <1>1 DEF ForestShape, ForestTyped
<1>4. UNCHANGED <<taken, locking, locked_kept>>
    BY DEF Locked!FindStep, Locked!FollowParent, Locked!ReachRoot, Locked!output
<1>5. RestTypes' /\ RestOf(t)
    BY <1>2, <1>4, RestStays
<1>6. CASE Locked!FollowParent(t)
    <2>1. node' = [node EXCEPT ![t] = union_find_parents[node[t]]] /\ UNCHANGED <<at, ends, which, root, parent>>
        BY <1>6 DEF Locked!FollowParent
    <2>2. CursorTypes' /\ CursorOf(t)
        BY <2>1, <1>2, <1>3 DEF CursorTypes, CursorOf
    <2> QED BY <2>2, <1>5, TypesSplit, TypesSplitNext
<1>7. CASE Locked!ReachRoot(t) /\ Locked!SearchReturns(t, node[t])
    <2>1. CursorTypes' /\ CursorOf(t)
        BY <1>1, <1>2, <1>7, SearchEnds
    <2> QED BY <2>1, <1>5, TypesSplit, TypesSplitNext
<1>8. CASE Locked!ReachRoot(t) /\ ~Locked!SearchReturns(t, node[t])
    <2>1. /\ at' = [at EXCEPT ![t] = "compress"] /\ root' = [root EXCEPT ![t] = node[t]]
          /\ node' = [node EXCEPT ![t] = ends[t][which[t]]] /\ UNCHANGED <<ends, which, parent>>
        BY <1>8 DEF Locked!ReachRoot
    <2>2. ends[t][which[t]] \in Nodes /\ "compress" \in LockSteps
        BY <1>1 DEF LockSteps
    <2>3. parent' = [parent EXCEPT ![t] = parent[t]] /\ parent[t] \in Nodes \cup {0}
        BY <2>1, <1>2 DEF CursorTypes
    <2>m. MovesTo(t, "compress", ends[t][which[t]], node[t], parent[t])
        BY <2>1, <2>2, <2>3, <1>1 DEF MovesTo
    <2>4. CursorTypes' /\ CursorOf(t)
        BY <2>m, <1>2, CursorMoves
    <2> QED BY <2>4, <1>5, TypesSplit, TypesSplitNext
<1> QED BY <1>6, <1>7, <1>8 DEF Locked!FindStep

LEMMA LocalsCompress ==
    ASSUME LocalTypes, ForestShape, NEW t \in Threads, SearchOK(t), Locked!CompressStep(t)
    PROVE  LocalTypes' /\ OnlyOf(t)
<1>1. at[t] \in {"compress", "parent", "shorten"} /\ UNCHANGED <<taken, locking, locked_kept>>
    BY DEF Locked!CompressStep, Locked!CompressionEnds, Locked!CompressionGoesOn, Locked!ReadParent,
           Locked!Shorten, Locked!Step, Locked!output
<1>2. /\ node[t] \in Nodes /\ ends[t] \in Nodes \X Nodes /\ which[t] \in {1, 2} /\ root[t] \in Nodes
      /\ at[t] = "shorten" => parent[t] = union_find_parents[node[t]]
    BY <1>1 DEF SearchOK, Searching, Uniting, Compressing
<1>3. CursorTypes /\ RestTypes
    BY TypesSplit
<1>4. union_find_parents[node[t]] \in Nodes
    BY <1>2 DEF ForestShape, ForestTyped
<1>5. RestTypes' /\ RestOf(t)
    BY <1>1, <1>3, RestStays
<1>s. {"compress", "parent", "shorten"} \subseteq LockSteps
    BY DEF LockSteps
<1>6. CASE Locked!CompressionEnds(t)
    <2>1. CursorTypes' /\ CursorOf(t)
        BY <1>2, <1>3, <1>6, SearchEnds DEF Locked!CompressionEnds
    <2> QED BY <2>1, <1>5, TypesSplit, TypesSplitNext
<1>7. CASE Locked!CompressionGoesOn(t)
    <2>1. at' = [at EXCEPT ![t] = "parent"] /\ UNCHANGED <<node, root, parent, which, ends>>
        BY <1>7 DEF Locked!CompressionGoesOn, Locked!Step, Locked!cursor
    <2>2. CursorTypes' /\ CursorOf(t)
        BY <2>1, <1>3, <1>s, CursorSteps
    <2> QED BY <2>2, <1>5, TypesSplit, TypesSplitNext
<1>8. CASE Locked!ReadParent(t)
    <2>1. /\ at' = [at EXCEPT ![t] = "shorten"] /\ parent' = [parent EXCEPT ![t] = union_find_parents[node[t]]]
          /\ UNCHANGED <<node, root, which, ends>>
        BY <1>8 DEF Locked!ReadParent, Locked!Step
    <2>2. node' = [node EXCEPT ![t] = node[t]] /\ root' = [root EXCEPT ![t] = root[t]]
        BY <2>1, <1>3 DEF CursorTypes
    <2>m. MovesTo(t, "shorten", node[t], root[t], union_find_parents[node[t]])
        BY <2>1, <2>2, <1>2, <1>4, <1>s DEF MovesTo
    <2>3. CursorTypes' /\ CursorOf(t)
        BY <2>m, <1>3, CursorMoves
    <2> QED BY <2>3, <1>5, TypesSplit, TypesSplitNext
<1>9. CASE Locked!Shorten(t)
    <2>1. /\ at[t] = "shorten" /\ at' = [at EXCEPT ![t] = "compress"] /\ node' = [node EXCEPT ![t] = parent[t]]
          /\ UNCHANGED <<root, parent, which, ends>>
        BY <1>9 DEF Locked!Shorten, Locked!Step
    <2>2. parent' = [parent EXCEPT ![t] = parent[t]] /\ root' = [root EXCEPT ![t] = root[t]] /\ parent[t] \in Nodes
        BY <2>1, <1>2, <1>3, <1>4 DEF CursorTypes
    <2>m. MovesTo(t, "compress", parent[t], root[t], parent[t])
        BY <2>1, <2>2, <1>2, <1>s DEF MovesTo
    <2>3. CursorTypes' /\ CursorOf(t)
        BY <2>m, <1>3, CursorMoves
    <2> QED BY <2>3, <1>5, TypesSplit, TypesSplitNext
<1> QED BY <1>6, <1>7, <1>8, <1>9 DEF Locked!CompressStep

LEMMA SortedEnds ==
    ASSUME NEW ab \in Nodes \X Nodes
    PROVE  /\ Locked!Sorted(ab) \in Nodes \X Nodes
           /\ Locked!Sorted(ab) = ab \/ Locked!Sorted(ab) = <<ab[2], ab[1]>>
           /\ ab[1] # ab[2] => Locked!Sorted(ab)[1] < Locked!Sorted(ab)[2]
<1>1. ab[1] \in Nodes /\ ab[2] \in Nodes /\ ab[1] \in Nat /\ ab[2] \in Nat
    BY NodesAreNaturals
<1>2. CASE ab[1] > ab[2]
    BY <1>1, <1>2 DEF Locked!Sorted
<1>3. CASE ~(ab[1] > ab[2])
    BY <1>1, <1>3 DEF Locked!Sorted
<1> QED BY <1>2, <1>3

LEMMA LocalsLock ==
    ASSUME LocalTypes, NEW t \in Threads, SearchOK(t), Locked!TryLockTrees(t) \/ Locked!TryToLock(t)
    PROVE  LocalTypes' /\ OnlyOf(t)
<1>1. at[t] \in {"compare", "lower locked", "both locked"}
    BY DEF Locked!TryToLock, Locked!TryLockTrees, Locked!LockLower, Locked!LowerNotLocked, Locked!LockUpper,
           Locked!UpperNotLocked, Locked!UpperNoRoot, Locked!Step
<1>2. ends[t] \in Nodes \X Nodes
    BY <1>1 DEF SearchOK, Uniting
<1>3. CursorTypes /\ RestTypes
    BY TypesSplit
<1>4. RestTypes' /\ RestOf(t)
    <2>1. CASE Locked!TryToLock(t)
        <3>1. locking' = [locking EXCEPT ![t] = TRUE] /\ UNCHANGED <<taken, locked_kept>>
            BY <2>1 DEF Locked!TryToLock, Locked!output
        <3> QED BY <3>1, <1>3 DEF RestTypes, RestOf
    <2>2. CASE Locked!TryLockTrees(t)
        <3>1. UNCHANGED <<taken, locking, locked_kept>>
            BY <2>2 DEF Locked!TryLockTrees, Locked!LockLower, Locked!LowerNotLocked, Locked!LockUpper,
                        Locked!UpperNotLocked, Locked!UpperNoRoot, Locked!output
        <3> QED BY <3>1, <1>3, RestStays
    <2> QED BY <2>1, <2>2
<1>5. CASE Locked!TryToLock(t) \/ Locked!UpperNotLocked(t) \/ Locked!UpperNoRoot(t)
    <2>1. Locked!SearchFrom(t, ends[t])
        BY <1>5 DEF Locked!TryToLock, Locked!UpperNotLocked, Locked!UpperNoRoot
    <2> QED BY <2>1, <1>2, <1>4, LocalsSearch
<1>6. CASE Locked!LowerNotLocked(t)
    <2>1. Locked!SearchFrom(t, Locked!Sorted(ends[t])) /\ Locked!Sorted(ends[t]) \in Nodes \X Nodes
        BY <1>6, <1>2, SortedEnds DEF Locked!LowerNotLocked
    <2> QED BY <2>1, <1>4, LocalsSearch
<1>7. CASE Locked!LockLower(t)
    <2>1. /\ at' = [at EXCEPT ![t] = "lower locked"] /\ ends' = [ends EXCEPT ![t] = Locked!Sorted(ends[t])]
          /\ UNCHANGED <<which, node, root, parent>>
        BY <1>7 DEF Locked!LockLower, Locked!Step, Locked!cursor
    <2>2. Locked!Sorted(ends[t]) \in Ends /\ "lower locked" \in LockSteps
        BY <1>2, SortedEnds DEF Ends, LockSteps
    <2> HIDE DEF Ends, LockSteps
    <2>3. CursorTypes' /\ CursorOf(t)
        BY <2>1, <2>2, <1>3 DEF CursorTypes, CursorOf
    <2> QED BY <2>3, <1>4, TypesSplit, TypesSplitNext
<1>8. CASE Locked!LockUpper(t)
    <2>1. at' = [at EXCEPT ![t] = "both locked"] /\ UNCHANGED <<ends, which, node, root, parent>>
        BY <1>8 DEF Locked!LockUpper, Locked!Step, Locked!cursor
    <2>2. "both locked" \in LockSteps
        BY DEF LockSteps
    <2>3. CursorTypes' /\ CursorOf(t)
        BY <2>1, <2>2, <1>3, CursorSteps
    <2> QED BY <2>3, <1>4, TypesSplit, TypesSplitNext
<1> QED BY <1>5, <1>6, <1>7, <1>8 DEF Locked!TryLockTrees

LEMMA LocalsEnd ==
    ASSUME LocalTypes, NEW t \in Threads, SearchOK(t), TakenOK(t),
           Locked!RefuseEdge(t) \/ Locked!Link(t) \/ Locked!Unlock(t) \/ Locked!StoreKept(t)
    PROVE  LocalTypes' /\ OnlyOf(t)
<1>3. CursorTypes /\ RestTypes
    BY TypesSplit
<1>1. CASE Locked!RefuseEdge(t)
    <2>1. CursorTypes' /\ CursorOf(t)
          /\ taken' = [taken EXCEPT ![t] = <<0, 0>>] /\ locking' = [locking EXCEPT ![t] = FALSE]
        BY <1>1, UniteReturns DEF Locked!RefuseEdge
    <2>2. locked_kept' = locked_kept
        BY <1>1 DEF Locked!RefuseEdge, Locked!output
    <2>3. RestTypes' /\ RestOf(t)
        BY <2>1, <2>2, <1>3 DEF RestTypes, RestOf
    <2> QED BY <2>1, <2>3, TypesSplit, TypesSplitNext
<1>2. CASE Locked!Unlock(t)
    <2>1. CursorTypes' /\ CursorOf(t)
          /\ taken' = [taken EXCEPT ![t] = <<0, 0>>] /\ locking' = [locking EXCEPT ![t] = FALSE]
        BY <1>2, UniteReturns DEF Locked!Unlock
    <2>2. locked_kept' = [locked_kept EXCEPT ![t] = Append(locked_kept[t], taken[t])] /\ taken[t] \in Edges
        BY <1>2 DEF Locked!Unlock, TakenOK, Uniting
    <2>3. locked_kept' \in [Threads -> Seq(Edges)]
        <3>1. locked_kept \in [Threads -> Seq(Edges)]
            BY <1>3 DEF RestTypes
        <3>2. Append(locked_kept[t], taken[t]) \in Seq(Edges)
            BY <3>1, <2>2
        <3> QED BY <3>1, <3>2, <2>2
    <2>4. RestTypes' /\ RestOf(t)
        BY <2>1, <2>2, <2>3, <1>3 DEF RestTypes, RestOf
    <2> QED BY <2>1, <2>4, TypesSplit, TypesSplitNext
<1>4. CASE Locked!Link(t)
    <2>1. /\ at' = [at EXCEPT ![t] = "linked"] /\ UNCHANGED <<ends, which, node, root, parent>>
          /\ UNCHANGED <<taken, locking, locked_kept>>
        BY <1>4 DEF Locked!Link, Locked!Step, Locked!cursor, Locked!output
    <2>2. "linked" \in LockSteps
        BY DEF LockSteps
    <2>3. CursorTypes' /\ CursorOf(t)
        BY <2>1, <2>2, <1>3, CursorSteps
    <2>4. RestTypes' /\ RestOf(t)
        BY <2>1, <1>3, RestStays
    <2> QED BY <2>3, <2>4, TypesSplit, TypesSplitNext
<1>5. CASE Locked!StoreKept(t)
    <2>1. /\ at' = [at EXCEPT ![t] = "joined"] /\ UNCHANGED <<ends, which, node, root, parent>>
          /\ UNCHANGED <<taken, locking>> /\ locked_kept' = [locked_kept EXCEPT ![t] = <<>>]
        BY <1>5 DEF Locked!StoreKept, Locked!Step, Locked!cursor
    <2>2. "joined" \in LockSteps /\ <<>> \in Seq(Edges)
        BY DEF LockSteps
    <2>3. CursorTypes' /\ CursorOf(t)
        BY <2>1, <2>2, <1>3, CursorSteps
    <2>4. RestTypes' /\ RestOf(t)
        BY <2>1, <2>2, <1>3 DEF RestTypes, RestOf
    <2> QED BY <2>3, <2>4, TypesSplit, TypesSplitNext
<1> QED BY <1>1, <1>2, <1>4, <1>5

\* Every step keeps the types of the locals, and changes those of one thread.
LEMMA LocalsStep ==
    ASSUME LockedInv, NEW t \in crew, ThreadStep(t)
    PROVE  t \in Threads /\ LocalTypes' /\ OnlyOf(t)
<1>1. t \in Threads /\ LocalTypes /\ SharedTypes /\ ForestShape
    BY CrewThreads DEF LockedInv
<1>2. SearchOK(t) /\ TakenOK(t)
    BY <1>1 DEF LockedInv
<1> QED BY <1>1, <1>2, LocalsTake, LocalsFind, LocalsCompress, LocalsLock, LocalsEnd
        DEF ThreadStep, Locked!UniteStep
-----------------------------------------------------------------------------
(* The mutexes and the trees: what a step changes of what threads share.   *)

\* Whatever a step does not mention stays; a step of t leaves the mutexes of others alone.
LEMMA SharedStep ==
    ASSUME LockedInv, NEW t \in crew, ThreadStep(t)
    PROVE  SharedTypes' /\ WorkingBuild' /\ variant' = variant /\ crew' = crew
<1>1. t \in Threads /\ LocalTypes /\ SharedTypes /\ WorkingBuild /\ TakenOK(t)
    BY CrewThreads DEF LockedInv
<1>2. variant' = variant /\ crew' = crew
    BY DEF ThreadStep, Locked!TakeEdge, Locked!FindStep, Locked!FollowParent, Locked!ReachRoot,
           Locked!CompressStep, Locked!CompressionEnds, Locked!CompressionGoesOn, Locked!ReadParent,
           Locked!Shorten, Locked!UniteStep, Locked!RefuseEdge, Locked!TryToLock, Locked!TryLockTrees,
           Locked!LockLower, Locked!LowerNotLocked, Locked!LockUpper, Locked!UpperNotLocked,
           Locked!UpperNoRoot, Locked!Link, Locked!Unlock, Locked!StoreKept, Locked!structure
<1>3. untaken' \subseteq untaken
    BY DEF ThreadStep, Locked!TakeEdge, Locked!FindStep, Locked!FollowParent, Locked!ReachRoot,
           Locked!CompressStep, Locked!CompressionEnds, Locked!CompressionGoesOn, Locked!ReadParent,
           Locked!Shorten, Locked!UniteStep, Locked!RefuseEdge, Locked!TryToLock, Locked!TryLockTrees,
           Locked!LockLower, Locked!LowerNotLocked, Locked!LockUpper, Locked!UpperNotLocked,
           Locked!UpperNoRoot, Locked!Link, Locked!Unlock, Locked!StoreKept
<1>4. accepted' = accepted \/ (at[t] = "both locked" /\ accepted' = accepted \cup {taken[t]})
    BY DEF ThreadStep, Locked!TakeEdge, Locked!FindStep, Locked!FollowParent, Locked!ReachRoot,
           Locked!CompressStep, Locked!CompressionEnds, Locked!CompressionGoesOn, Locked!ReadParent,
           Locked!Shorten, Locked!UniteStep, Locked!RefuseEdge, Locked!TryToLock, Locked!TryLockTrees,
           Locked!LockLower, Locked!LowerNotLocked, Locked!LockUpper, Locked!UpperNotLocked,
           Locked!UpperNoRoot, Locked!Link, Locked!Unlock, Locked!StoreKept, Locked!lockedHistory, Locked!Step
<1>r. refused' = refused \/ (at[t] = "compare" /\ refused' = refused \cup {taken[t]})
    BY DEF ThreadStep, Locked!TakeEdge, Locked!FindStep, Locked!FollowParent, Locked!ReachRoot,
           Locked!CompressStep, Locked!CompressionEnds, Locked!CompressionGoesOn, Locked!ReadParent,
           Locked!Shorten, Locked!UniteStep, Locked!RefuseEdge, Locked!TryToLock, Locked!TryLockTrees,
           Locked!LockLower, Locked!LowerNotLocked, Locked!LockUpper, Locked!UpperNotLocked,
           Locked!UpperNoRoot, Locked!Link, Locked!Unlock, Locked!StoreKept, Locked!lockedHistory, Locked!Step
<1>5. accepted' \subseteq Edges /\ refused' \subseteq Edges /\ untaken' \subseteq Edges
    BY <1>1, <1>3, <1>4, <1>r DEF TakenOK, Uniting, SharedTypes
<1>6. locked_filtered' \in Seq(Edges)
    <2>1. locked_filtered' = locked_filtered \/ locked_filtered' = locked_filtered \o locked_kept[t]
        BY DEF ThreadStep, Locked!TakeEdge, Locked!FindStep, Locked!FollowParent, Locked!ReachRoot,
               Locked!CompressStep, Locked!CompressionEnds, Locked!CompressionGoesOn, Locked!ReadParent,
               Locked!Shorten, Locked!UniteStep, Locked!RefuseEdge, Locked!TryToLock, Locked!TryLockTrees,
               Locked!LockLower, Locked!LowerNotLocked, Locked!LockUpper, Locked!UpperNotLocked,
               Locked!UpperNoRoot, Locked!Link, Locked!Unlock, Locked!StoreKept, Locked!output
    <2>2. locked_kept[t] \in Seq(Edges) /\ locked_filtered \in Seq(Edges)
        BY <1>1 DEF LocalTypes, SharedTypes
    <2>3. \A p, q \in Seq(Edges) : p \o q \in Seq(Edges)
        OBVIOUS
    <2> QED BY <2>1, <2>2, <2>3
<1>7. union_find_mutexes' \in [Nodes -> Threads \cup {nobody}]
    <2>1. \/ union_find_mutexes' = union_find_mutexes
          \/ \E v : union_find_mutexes' = [union_find_mutexes EXCEPT ![v] = t]
          \/ Locked!Unlocked(t)
        BY DEF ThreadStep, Locked!TakeEdge, Locked!FindStep, Locked!FollowParent, Locked!ReachRoot,
               Locked!CompressStep, Locked!CompressionEnds, Locked!CompressionGoesOn, Locked!ReadParent,
               Locked!Shorten, Locked!UniteStep, Locked!RefuseEdge, Locked!TryToLock, Locked!TryLockTrees,
               Locked!LockLower, Locked!LowerNotLocked, Locked!LockUpper, Locked!UpperNotLocked,
               Locked!UpperNoRoot, Locked!Link, Locked!Unlock, Locked!StoreKept, Locked!structure
    <2>2. union_find_mutexes \in [Nodes -> Threads \cup {nobody}]
        BY <1>1 DEF SharedTypes
    <2> QED BY <2>1, <2>2, <1>1 DEF Locked!Unlocked
<1>8. [variant |-> variant', crew |-> crew'] \in Builds
    BY <1>1, <1>2 DEF SharedTypes
<1> QED BY <1>1, <1>2, <1>5, <1>6, <1>7, <1>8 DEF SharedTypes, WorkingBuild

LEMMA NobodyIsNone == nobody \notin Threads
BY BuildAssumption DEF Locked!BuildsAndEdges

\* The mutexes of the threads but t stay as they are.
OthersMutexes(t) == \A v \in Nodes : \A u \in Threads :
    u # t => (union_find_mutexes'[v] = u <=> union_find_mutexes[v] = u)

\* Who holds no mutex has not locked a node.
LEMMA MutexStep ==
    ASSUME LockedInv, NEW t \in crew, ThreadStep(t)
    PROVE  MutexesOK' /\ OthersMutexes(t)
<1>1. t \in Threads /\ LocalTypes /\ SharedTypes /\ MutexesOK /\ OnlyOf(t) /\ SearchOK(t) /\ LocalTypes'
    BY LocalsStep DEF LockedInv
<1>2. \A v \in Nodes : \A u \in Threads : u # t => (HeldBy(u, v)' <=> HeldBy(u, v))
    BY <1>1 DEF OnlyOf, HeldBy, HasBoth
<1>n. t # nobody /\ union_find_mutexes \in [Nodes -> Threads \cup {nobody}] /\ nobody \notin Threads
    BY <1>1, NobodyIsNone DEF SharedTypes
<1>3. SUFFICES OthersMutexes(t) /\ \A v \in Nodes : union_find_mutexes'[v] = t => HeldBy(t, v)'
    BY <1>1, <1>2 DEF OthersMutexes, MutexesOK
<1>4. CASE Locked!LockLower(t)
    <2> DEFINE ab == Locked!Sorted(ends[t])
    <2>1. /\ at[t] = "compare" /\ at' = [at EXCEPT ![t] = "lower locked"] /\ ends' = [ends EXCEPT ![t] = ab]
          /\ union_find_mutexes[ab[1]] = nobody /\ union_find_mutexes' = [union_find_mutexes EXCEPT ![ab[1]] = t]
        BY <1>4 DEF Locked!LockLower, Locked!Step
    <2>2. ab \in Nodes \X Nodes
        BY <2>1, <1>1, SortedEnds DEF SearchOK, Uniting
    <2> HIDE DEF ab
    <2>3. at'[t] = "lower locked" /\ ends'[t] = ab
        BY <2>1, <1>1 DEF LocalTypes
    <2>4. \A v \in Nodes : ~(union_find_mutexes[v] = t)
        BY <2>1, <1>1 DEF MutexesOK, HeldBy, HasBoth
    <2> QED BY <2>1, <2>2, <2>3, <2>4, <1>n DEF OthersMutexes, HeldBy
<1>5. CASE Locked!LockUpper(t)
    <2> DEFINE b == ends[t][2]
    <2>1. /\ at[t] = "lower locked" /\ at' = [at EXCEPT ![t] = "both locked"] /\ ends' = ends
          /\ union_find_mutexes[b] = nobody /\ union_find_mutexes' = [union_find_mutexes EXCEPT ![b] = t]
        BY <1>5 DEF Locked!LockUpper, Locked!Step
    <2>2. b \in Nodes
        BY <2>1, <1>1 DEF SearchOK, Uniting
    <2>3. at'[t] = "both locked" /\ ends'[t] = ends[t]
        BY <2>1, <1>1 DEF LocalTypes
    <2>4. \A v \in Nodes : union_find_mutexes[v] = t => v = ends[t][1]
        BY <2>1, <1>1 DEF MutexesOK, HeldBy, HasBoth
    <2> QED BY <2>1, <2>2, <2>3, <2>4, <1>n DEF OthersMutexes, HeldBy, HasBoth
<1>6. CASE Locked!UpperNotLocked(t) \/ Locked!UpperNoRoot(t) \/ Locked!Unlock(t)
    <2>1. Locked!Unlocked(t)
        BY <1>6 DEF Locked!UpperNotLocked, Locked!UpperNoRoot, Locked!Unlock
    <2> QED BY <2>1, <1>n DEF Locked!Unlocked, OthersMutexes
<1>7. CASE Locked!Link(t)
    <2>1. /\ at[t] = "both locked" /\ at' = [at EXCEPT ![t] = "linked"] /\ ends' = ends
          /\ union_find_mutexes' = union_find_mutexes
        BY <1>7 DEF Locked!Link, Locked!Step
    <2>2. at'[t] = "linked"
        BY <2>1, <1>1 DEF LocalTypes
    <2> QED BY <2>1, <2>2, <1>1 DEF OthersMutexes, MutexesOK, HeldBy, HasBoth
<1>8. CASE ~(Locked!LockLower(t) \/ Locked!LockUpper(t) \/ Locked!UpperNotLocked(t) \/ Locked!UpperNoRoot(t)
             \/ Locked!Unlock(t) \/ Locked!Link(t))
    <2>1. union_find_mutexes' = union_find_mutexes /\ at[t] \notin {"lower locked", "both locked", "linked"}
        BY <1>8 DEF ThreadStep, Locked!TakeEdge, Locked!FindStep, Locked!FollowParent, Locked!ReachRoot,
               Locked!CompressStep, Locked!CompressionEnds, Locked!CompressionGoesOn, Locked!ReadParent,
               Locked!Shorten, Locked!UniteStep, Locked!RefuseEdge, Locked!TryToLock, Locked!TryLockTrees,
               Locked!LowerNotLocked, Locked!StoreKept, Locked!structure, Locked!Step
    <2> QED BY <2>1, <1>1 DEF OthersMutexes, MutexesOK, HeldBy, HasBoth
<1> QED BY <1>4, <1>5, <1>6, <1>7, <1>8

\* Trees are merged and never split, and no node of another thread is hung elsewhere.
TreesOnlyMerge == \A u, v \in Nodes : T(u) = T(v) => T(u)' = T(v)'
OthersNodes(t) == \A v \in Nodes :
    union_find_mutexes[v] \notin {nobody, t} => union_find_parents'[v] = union_find_parents[v]

LEMMA ParentsStay ==
    ASSUME NEW t, ThreadStep(t), ~Locked!Shorten(t), ~Locked!Link(t)
    PROVE  UNCHANGED <<union_find_parents, union_find_ranks, accepted>>
BY DEF ThreadStep, Locked!TakeEdge, Locked!FindStep, Locked!FollowParent, Locked!ReachRoot,
       Locked!CompressStep, Locked!CompressionEnds, Locked!CompressionGoesOn, Locked!ReadParent,
       Locked!UniteStep, Locked!RefuseEdge, Locked!TryToLock, Locked!TryLockTrees, Locked!LockLower,
       Locked!LowerNotLocked, Locked!LockUpper, Locked!UpperNotLocked, Locked!UpperNoRoot, Locked!Unlock,
       Locked!StoreKept, Locked!structure, Locked!lockedHistory

\* With the mutex, a node that is not below its root yet is hung below it.
LEMMA ShortenHangs ==
    ASSUME LockedInv, NEW t \in crew, Locked!Shorten(t), union_find_parents' # union_find_parents
    PROVE  /\ node[t] \in Nodes /\ union_find_parents[node[t]] # node[t]
           /\ union_find_parents' = [union_find_parents EXCEPT ![node[t]] = T(node[t])]
           /\ union_find_mutexes[node[t]] = nobody /\ union_find_ranks' = union_find_ranks
           /\ accepted' = accepted /\ variant' = variant
<1>1. t \in Threads
    BY CrewThreads DEF LockedInv
<1>2. at[t] = "shorten" /\ SearchOK(t) /\ ForestShape
    BY <1>1 DEF LockedInv, Locked!Shorten, Locked!Step
<1>3. /\ node[t] \in Nodes /\ T(node[t]) = root[t] /\ union_find_parents[root[t]] = root[t]
      /\ union_find_parents[node[t]] # root[t]
    BY <1>2 DEF SearchOK, Searching, Compressing, TreeMap
<1>4. union_find_parents[node[t]] # node[t]
    BY <1>2, <1>3, TreeFacts
<1> QED BY <1>3, <1>4 DEF Locked!Shorten, Locked!lockedHistory

LEMMA ShortenShape ==
    ASSUME LockedInv, NEW t \in crew, Locked!Shorten(t), union_find_parents' # union_find_parents
    PROVE  ForestShape' /\ UnrankedFlat'
<1> DEFINE n == node[t]
<1>1. /\ n \in Nodes /\ union_find_parents[n] # n
      /\ union_find_parents' = [union_find_parents EXCEPT ![n] = T(n)]
      /\ union_find_ranks' = union_find_ranks /\ variant' = variant
    BY ShortenHangs
<1> HIDE DEF n
<1>2. ForestTyped /\ ParentsAbove /\ UnrankedFlat /\ T(n) \in Nodes /\ union_find_parents[T(n)] = T(n)
    BY <1>1, TreeFacts DEF LockedInv, ForestShape
<1>3. <<n, T(n)>> \in RankOrder
    BY <1>1, <1>2, TreeAbove DEF ForestShape
<1>4. ForestTyped'
    BY <1>1, <1>2 DEF ForestTyped
<1>5. RankOrder' = RankOrder
    BY <1>1 DEF RankOrder
<1>6. ParentsAbove'
    BY <1>1, <1>2, <1>3, <1>5 DEF ParentsAbove, ForestTyped
<1>7. UnrankedFlat'
    BY <1>1, <1>2 DEF UnrankedFlat, Locked!ranked
<1> QED BY <1>4, <1>6, <1>7 DEF ForestShape

LEMMA TreesStep ==
    ASSUME LockedInv, NEW t \in crew, ThreadStep(t)
    PROVE  ForestShape' /\ UnrankedFlat' /\ TreesOnlyMerge /\ OthersNodes(t)
<1>1. t \in Threads /\ ForestShape /\ UnrankedFlat /\ variant' = variant
    BY CrewThreads, SharedStep DEF LockedInv
<1>2. CASE UNCHANGED <<union_find_parents, union_find_ranks>>
    <2>1. ForestShape'
        BY <1>1, <1>2 DEF ForestShape, ForestTyped, ParentsAbove, RankOrder
    <2>2. UnrankedFlat'
        BY <1>1, <1>2 DEF UnrankedFlat, Locked!ranked
    <2> QED BY <2>1, <2>2, <1>2, SameForest DEF TreesOnlyMerge, OthersNodes
<1>3. CASE Locked!Link(t)
    <2>1. ForestShape' /\ UnrankedFlat'
        BY <1>3, LinkHangs
    <2>2. PICK low, high : HungUnder(low, high) /\ low \in {ends[t][1], ends[t][2]}
        BY <1>3, LinkHangs
    <2>3. \A v \in Nodes : T(v)' = IF T(v) = low THEN high ELSE T(v)
        BY <2>1, <2>2, <1>1, TreesAfterLink DEF HungUnder
    <2>4. TreesOnlyMerge
        BY <2>3 DEF TreesOnlyMerge
    <2>5. union_find_mutexes[low] = t
        BY <1>1, <1>3, <2>2 DEF LockedInv, LocksOK, LockingTwo, HasBoth, Locked!Link, Locked!Step
    <2>6. OthersNodes(t)
        BY <2>2, <2>5, <1>1 DEF OthersNodes, HungUnder, ForestShape, ForestTyped
    <2> QED BY <2>1, <2>4, <2>6
<1>4. CASE Locked!Shorten(t) /\ union_find_parents' # union_find_parents
    <2>1. /\ node[t] \in Nodes /\ union_find_parents[node[t]] # node[t]
          /\ union_find_parents' = [union_find_parents EXCEPT ![node[t]] = T(node[t])]
          /\ union_find_mutexes[node[t]] = nobody
        BY <1>4, ShortenHangs
    <2>2. ForestShape' /\ UnrankedFlat'
        BY <1>4, ShortenShape
    <2>3. \A v \in Nodes : T(v)' = T(v)
        BY <2>1, <2>2, <1>1, TreesAfterShorten
    <2>4. OthersNodes(t)
        BY <2>1, <1>1 DEF OthersNodes, ForestShape, ForestTyped
    <2> QED BY <2>2, <2>3, <2>4 DEF TreesOnlyMerge
<1>5. CASE Locked!Shorten(t) /\ union_find_parents' = union_find_parents
    <2>1. union_find_ranks' = union_find_ranks
        BY <1>5 DEF Locked!Shorten
    <2> QED BY <2>1, <1>5, <1>2
<1> QED BY <1>2, <1>3, <1>4, <1>5, ParentsStay
-----------------------------------------------------------------------------
(* A step of t and the calls of the other threads.                         *)

LEMMA MergedMap ==
    ASSUME TreesOnlyMerge
    PROVE  \A x, y \in Nodes : TreeMap[x] = TreeMap[y] => TreeMap'[x] = TreeMap'[y]
BY DEF TreesOnlyMerge, TreeMap

\* The trees that are merged are merged for all.
LEMMA SameTreesStay ==
    ASSUME TreesOnlyMerge, NEW e \in Nodes \X Nodes, NEW f \in Nodes \X Nodes, SameTrees(e, f)
    PROVE  SameTrees(e, f)'
<1>1. e[1] \in Nodes /\ e[2] \in Nodes /\ f[1] \in Nodes /\ f[2] \in Nodes
    OBVIOUS
<1> QED BY <1>1, MergedMap DEF SameTrees

\* In a build where other threads unite at the same time, no path is compressed.
LEMMA OthersSearch ==
    ASSUME LockedInv, NEW t \in crew, ThreadStep(t), NEW u \in Threads, u # t
    PROVE  SearchOK(u)'
<1>1. /\ OnlyOf(t) /\ variant' = variant /\ crew' = crew /\ TreesOnlyMerge /\ SearchOK(u) /\ WorkingBuild
      /\ SharedTypes /\ TakenOK(u)
    BY LocalsStep, SharedStep, TreesStep DEF LockedInv
<1>2. /\ at'[u] = at[u] /\ ends'[u] = ends[u] /\ taken'[u] = taken[u] /\ which'[u] = which[u]
      /\ node'[u] = node[u] /\ root'[u] = root[u] /\ parent'[u] = parent[u]
    BY <1>1 DEF OnlyOf
<1>3. CASE ~Uniting(u)
    BY <1>2, <1>3 DEF SearchOK, Uniting, Searching, Compressing
<1>4. CASE Uniting(u)
    <2>1. u \in crew /\ ends[u] \in Nodes \X Nodes /\ which[u] \in {1, 2} /\ SameTrees(ends[u], taken[u])
        BY <1>1, <1>4 DEF SearchOK
    <2>2. taken[u] \in Nodes \X Nodes
        BY <1>1, <1>4, EdgesOfNodes DEF TakenOK
    <2>3. variant = "DC_B"
        BY <1>1, <2>1 DEF WorkingBuild
    <2>4. ~Compressing(u)
        BY <1>1, <2>3 DEF SearchOK
    <2>5. SameTrees(ends[u], taken[u])'
        <3>1. SameTrees(ends'[u], taken'[u])
            BY <1>2, <2>1
        <3>2. \A e, f \in Nodes \X Nodes : SameTrees(e, f) => SameTrees(e, f)'
            BY <1>1, SameTreesStay
        <3> QED BY <1>2, <2>1, <2>2, <3>2 DEF SameTrees
    <2>6. Searching(u) => TreeMap'[node[u]] = TreeMap'[ends[u][which[u]]]
        <3>1. ends[u][which[u]] \in Nodes
            BY <2>1
        <3> QED BY <3>1, <1>1, MergedMap DEF SearchOK
    <2>7. Searching(u) => node[u] \in Nodes
        BY <1>1 DEF SearchOK
    <2> QED BY <1>1, <1>2, <2>1, <2>4, <2>5, <2>6, <2>7 DEF SearchOK, Uniting, Searching, Compressing
<1> QED BY <1>3, <1>4

LEMMA OthersLocks ==
    ASSUME LockedInv, NEW t \in crew, ThreadStep(t), NEW u \in Threads, u # t
    PROVE  LocksOK(u)'
<1>1. OnlyOf(t) /\ OthersNodes(t) /\ OthersMutexes(t) /\ LocksOK(u) /\ SearchOK(u) /\ u # nobody
    BY LocalsStep, TreesStep, MutexStep, NobodyIsNone DEF LockedInv
<1>2. at'[u] = at[u] /\ ends'[u] = ends[u]
    BY <1>1 DEF OnlyOf
<1>3. LockingTwo(u) => ends[u][1] \in Nodes /\ ends[u][2] \in Nodes
    BY <1>1 DEF SearchOK, Uniting, LockingTwo
<1>4. \A v \in Nodes : union_find_mutexes[v] = u =>
        union_find_mutexes'[v] = u /\ union_find_parents'[v] = union_find_parents[v]
    BY <1>1 DEF OthersNodes, OthersMutexes
<1> QED BY <1>1, <1>2, <1>3, <1>4 DEF LocksOK, LockingTwo, HasBoth

-----------------------------------------------------------------------------
(* The call of the thread that takes the step.                             *)

SameEnds(e, f) == \/ e[1] = f[1] /\ e[2] = f[2]
                  \/ e[1] = f[2] /\ e[2] = f[1]

\* A call that begins, or begins its searches again, with a and b as they are or swapped.
LEMMA SearchAgain ==
    ASSUME LockedInv, NEW t \in crew, ThreadStep(t), Uniting(t),
           NEW ab \in Nodes \X Nodes, SameEnds(ab, ends[t]), taken'[t] = taken[t], ends'[t] = ab,
           \/ Locked!SearchFrom(t, ab)
           \/ at'[t] \in {"lower locked", "both locked", "linked"}
    PROVE  SearchOK(t)'
<1>1. t \in Threads /\ LocalTypes /\ LocalTypes' /\ crew' = crew /\ TreesOnlyMerge /\ SearchOK(t) /\ TakenOK(t)
    BY LocalsStep, SharedStep, TreesStep DEF LockedInv
<1>2. ends[t] \in Nodes \X Nodes /\ taken[t] \in Nodes \X Nodes /\ SameTrees(ends[t], taken[t])
    BY <1>1, EdgesOfNodes DEF SearchOK, TakenOK
<1>3. SameTrees(ab, taken[t])
    BY <1>2 DEF SameTrees, SameEnds
<1>4. PICK f \in Nodes \X Nodes : f = taken[t]
    BY <1>2
<1>5. SameTrees(ends[t], taken[t])'
    <2>1. SameTrees(ab, f)'
        BY <1>1, <1>3, <1>4, SameTreesStay
    <2> QED BY <2>1, <1>4 DEF SameTrees
<1>6. CASE Locked!SearchFrom(t, ab)
    <2>1. at'[t] = "find" /\ which'[t] = 1 /\ node'[t] = ab[1]
        BY <1>1, <1>6, SearchBegins, TypesSplit
    <2> QED BY <2>1, <1>1, <1>5 DEF SearchOK, Uniting, Searching, Compressing
<1>7. CASE at'[t] \in {"lower locked", "both locked", "linked"}
    <2>1. which'[t] \in {1, 2}
        BY <1>1 DEF LocalTypes
    <2> QED BY <2>1, <1>1, <1>5, <1>7 DEF SearchOK, Uniting, Searching, Compressing
<1> QED BY <1>6, <1>7

\* The representative of an end is in the tree of the end.
LEMMA SearchFound ==
    ASSUME LockedInv, NEW t \in crew, ThreadStep(t), Searching(t), NEW r \in Nodes, UNCHANGED <<union_find_parents, taken>>,
           TreeMap[r] = TreeMap[ends[t][which[t]]], Locked!SearchReturns(t, r)
    PROVE  SearchOK(t)'
<1>1. t \in Threads /\ LocalTypes /\ crew' = crew /\ SearchOK(t) /\ TakenOK(t) /\ Uniting(t)
    BY LocalsStep, SharedStep DEF LockedInv, Searching, Uniting
<1>2. /\ ends[t] \in Nodes \X Nodes /\ taken[t] \in Nodes \X Nodes /\ SameTrees(ends[t], taken[t])
      /\ which[t] \in {1, 2}
    BY <1>1, EdgesOfNodes DEF SearchOK, TakenOK
<1>3. TreeMap' = TreeMap
    BY SameForest DEF TreeMap
<1>4. /\ ends'[t] \in Nodes \X Nodes /\ ends'[t][which[t]] = r /\ ends'[t][3 - which[t]] = ends[t][3 - which[t]]
      /\ \/ which[t] = 1 /\ at'[t] = "find" /\ which'[t] = 2 /\ node'[t] = ends[t][2]
         \/ which[t] = 2 /\ at'[t] = "compare" /\ which'[t] = 2
    BY <1>1, <1>2, SearchEnds, TypesSplit
<1>5. TreeMap[ends'[t][1]] = TreeMap[ends[t][1]] /\ TreeMap[ends'[t][2]] = TreeMap[ends[t][2]]
    BY <1>2, <1>4
<1>6. SameTrees(ends[t], taken[t])'
    BY <1>2, <1>3, <1>5 DEF SameTrees
<1>7. which[t] = 1 => ends'[t][2] = ends[t][2] /\ ends[t][2] \in Nodes
    BY <1>2, <1>4
<1> QED BY <1>1, <1>3, <1>4, <1>6, <1>7 DEF SearchOK, Uniting, Searching, Compressing

\* The steps of the searches themselves.
LEMMA SearchClimbs ==
    ASSUME LockedInv, NEW t \in crew, ThreadStep(t),
           Locked!FindStep(t) \/ Locked!CompressionEnds(t) \/ Locked!CompressionGoesOn(t) \/ Locked!ReadParent(t)
    PROVE  SearchOK(t)'
<1>1. t \in Threads /\ LocalTypes /\ crew' = crew /\ variant' = variant /\ SearchOK(t) /\ ForestShape
    BY LocalsStep, SharedStep DEF LockedInv
<1>2. /\ at[t] \in {"find", "compress", "parent"}
      /\ UNCHANGED <<union_find_parents, taken>>
    BY DEF Locked!FindStep, Locked!FollowParent, Locked!ReachRoot, Locked!CompressionEnds,
           Locked!CompressionGoesOn, Locked!ReadParent, Locked!structure, Locked!Step
<1>3. /\ Searching(t) /\ Uniting(t) /\ node[t] \in Nodes /\ which[t] \in {1, 2} /\ ends[t] \in Nodes \X Nodes
      /\ TreeMap[node[t]] = TreeMap[ends[t][which[t]]] /\ SameTrees(ends[t], taken[t])
    BY <1>1, <1>2 DEF SearchOK, Searching, Uniting
<1>4. TreeMap' = TreeMap
    BY <1>2, SameForest DEF TreeMap
<1>5. \A v \in Nodes : /\ TreeMap[v] \in Nodes /\ union_find_parents[TreeMap[v]] = TreeMap[v]
                       /\ union_find_parents[v] = v => TreeMap[v] = v
                       /\ union_find_parents[v] \in Nodes /\ TreeMap[union_find_parents[v]] = TreeMap[v]
    BY <1>1, TreeFacts DEF TreeMap
<1>6. CASE Locked!FollowParent(t)
    <2>1. node' = [node EXCEPT ![t] = union_find_parents[node[t]]] /\ UNCHANGED <<at, ends, which, root, parent>>
          /\ at[t] = "find"
        BY <1>6 DEF Locked!FollowParent
    <2>2. node'[t] = union_find_parents[node[t]]
        BY <2>1, <1>1 DEF LocalTypes
    <2> QED BY <2>1, <2>2, <1>1, <1>2, <1>3, <1>4, <1>5 DEF SearchOK, Uniting, Searching, Compressing, SameTrees
<1>7. CASE Locked!ReachRoot(t) /\ Locked!SearchReturns(t, node[t])
    BY <1>2, <1>3, <1>7, SearchFound
<1>8. CASE Locked!ReachRoot(t) /\ ~Locked!SearchReturns(t, node[t])
    <2>1. /\ union_find_parents[node[t]] = node[t]
          /\ at' = [at EXCEPT ![t] = "compress"] /\ root' = [root EXCEPT ![t] = node[t]]
          /\ node' = [node EXCEPT ![t] = ends[t][which[t]]] /\ UNCHANGED <<ends, which, parent>>
          /\ variant # "DC_B"
        BY <1>8 DEF Locked!ReachRoot, Locked!compresses
    <2>2. at'[t] = "compress" /\ root'[t] = node[t] /\ node'[t] = ends[t][which[t]] /\ ends[t][which[t]] \in Nodes
        BY <2>1, <1>1, <1>3 DEF LocalTypes
    <2> QED BY <2>1, <2>2, <1>1, <1>2, <1>3, <1>4, <1>5 DEF SearchOK, Uniting, Searching, Compressing, SameTrees
<1>9. CASE Locked!CompressionEnds(t)
    <2>1. Locked!SearchReturns(t, root[t]) /\ at[t] = "compress"
        BY <1>9 DEF Locked!CompressionEnds
    <2>2. root[t] \in Nodes /\ TreeMap[node[t]] = root[t] /\ union_find_parents[root[t]] = root[t]
        BY <2>1, <1>1 DEF SearchOK, Compressing
    <2>3. TreeMap[root[t]] = TreeMap[ends[t][which[t]]]
        BY <2>2, <1>3, <1>5
    <2> QED BY <2>1, <2>2, <2>3, <1>2, <1>3, SearchFound
<1>10. CASE Locked!CompressionGoesOn(t)
    <2>1. /\ at[t] = "compress" /\ at' = [at EXCEPT ![t] = "parent"] /\ UNCHANGED <<node, root, parent, which, ends>>
          /\ union_find_parents[node[t]] # root[t]
        BY <1>10 DEF Locked!CompressionGoesOn, Locked!Step, Locked!cursor
    <2>2. at'[t] = "parent"
        BY <2>1, <1>1 DEF LocalTypes
    <2> QED BY <2>1, <2>2, <1>1, <1>2, <1>3, <1>4 DEF SearchOK, Uniting, Searching, Compressing, SameTrees
<1>11. CASE Locked!ReadParent(t)
    <2>1. /\ at[t] = "parent" /\ at' = [at EXCEPT ![t] = "shorten"] /\ UNCHANGED <<node, root, which, ends>>
          /\ parent' = [parent EXCEPT ![t] = union_find_parents[node[t]]]
        BY <1>11 DEF Locked!ReadParent, Locked!Step
    <2>2. at'[t] = "shorten" /\ parent'[t] = union_find_parents[node[t]]
        BY <2>1, <1>1 DEF LocalTypes
    <2> QED BY <2>1, <2>2, <1>1, <1>2, <1>3, <1>4 DEF SearchOK, Uniting, Searching, Compressing, SameTrees
<1> QED BY <1>6, <1>7, <1>8, <1>9, <1>10, <1>11 DEF Locked!FindStep

\* What a compression does next, and the steps of unite() around its searches.
LEMMA OwnSearch ==
    ASSUME LockedInv, NEW t \in crew, ThreadStep(t)
    PROVE  SearchOK(t)'
<1>1. /\ t \in Threads /\ LocalTypes /\ LocalTypes' /\ SharedTypes /\ SearchOK(t) /\ TakenOK(t)
      /\ variant' = variant /\ crew' = crew /\ ForestShape
    BY LocalsStep, SharedStep DEF LockedInv
<1>2. CASE Locked!TakeEdge(t)
    <2>1. PICK e \in untaken : taken' = [taken EXCEPT ![t] = e] /\ Locked!SearchFrom(t, e)
        BY <1>2 DEF Locked!TakeEdge
    <2>2. e \in Nodes \X Nodes
        BY <1>1, EdgesOfNodes DEF SharedTypes
    <2>3. at'[t] = "find" /\ ends'[t] = e /\ which'[t] = 1 /\ node'[t] = e[1] /\ taken'[t] = e
        <3>1. taken'[t] = e
            BY <1>1, <2>1 DEF LocalTypes
        <3> QED BY <3>1, <1>1, <2>1, <2>2, SearchBegins, TypesSplit
    <2> QED BY <2>2, <2>3, <1>1 DEF SearchOK, Uniting, Searching, Compressing, SameTrees
<1>3. CASE \/ Locked!FindStep(t) \/ Locked!CompressionEnds(t) \/ Locked!CompressionGoesOn(t)
           \/ Locked!ReadParent(t)
    BY <1>3, SearchClimbs
<1>4. CASE Locked!Shorten(t)
    <2>1. /\ at[t] = "shorten" /\ at' = [at EXCEPT ![t] = "compress"] /\ node' = [node EXCEPT ![t] = parent[t]]
          /\ UNCHANGED <<root, parent, which, ends, taken>>
        BY <1>4 DEF Locked!Shorten, Locked!Step
    <2>2. /\ node[t] \in Nodes /\ parent[t] = union_find_parents[node[t]] /\ root[t] \in Nodes
          /\ TreeMap[node[t]] = root[t] /\ union_find_parents[root[t]] = root[t] /\ union_find_parents[node[t]] # root[t]
          /\ TreeMap[node[t]] = TreeMap[ends[t][which[t]]] /\ SameTrees(ends[t], taken[t])
          /\ ends[t] \in Nodes \X Nodes /\ which[t] \in {1, 2} /\ variant # "DC_B"
        BY <2>1, <1>1 DEF SearchOK, Searching, Uniting, Compressing
    <2>3. parent[t] \in Nodes /\ TreeMap[parent[t]] = root[t]
        BY <1>1, <2>2, TreeFacts DEF TreeMap
    <2>4. at'[t] = "compress" /\ node'[t] = parent[t]
        BY <2>1, <1>1 DEF LocalTypes
    <2>5. TreeMap' = TreeMap /\ union_find_parents'[root[t]] = root[t]
        <3>1. CASE union_find_parents' = union_find_parents
            BY <3>1, <2>2, SameForest DEF TreeMap
        <3>2. CASE union_find_parents' # union_find_parents
            <4>1. /\ union_find_parents[node[t]] # node[t]
                  /\ union_find_parents' = [union_find_parents EXCEPT ![node[t]] = T(node[t])]
                BY <3>2, <1>4, ShortenHangs
            <4>2. ForestShape'
                BY <3>2, <1>4, ShortenShape
            <4>3. \A v \in Nodes : T(v)' = T(v)
                BY <4>1, <4>2, <1>1, <2>2, TreesAfterShorten
            <4>4. root[t] # node[t] /\ union_find_parents \in [Nodes -> Nodes]
                BY <4>1, <2>2, <1>1 DEF ForestShape, ForestTyped
            <4> QED BY <4>1, <4>3, <4>4, <2>2 DEF TreeMap
        <3> QED BY <3>1, <3>2
    <2> QED BY <2>1, <2>2, <2>3, <2>4, <2>5, <1>1 DEF SearchOK, Uniting, Searching, Compressing, SameTrees
<1>5. CASE Locked!RefuseEdge(t) \/ Locked!Unlock(t) \/ Locked!StoreKept(t)
    <2>1. at' = [at EXCEPT ![t] = "loop"] \/ at' = [at EXCEPT ![t] = "joined"]
        BY <1>5 DEF Locked!RefuseEdge, Locked!Unlock, Locked!StoreKept, Locked!LeaveUnite, Locked!Step
    <2>2. at'[t] \in {"loop", "joined"}
        BY <2>1, <1>1 DEF LocalTypes
    <2> QED BY <2>2 DEF SearchOK, Uniting, Searching, Compressing
<1>6. CASE Locked!TryToLock(t) \/ Locked!TryLockTrees(t) \/ Locked!Link(t)
    <2>1. at[t] \in {"compare", "lower locked", "both locked"} /\ taken' = taken
        BY <1>6 DEF Locked!TryToLock, Locked!TryLockTrees, Locked!LockLower, Locked!LowerNotLocked,
               Locked!LockUpper, Locked!UpperNotLocked, Locked!UpperNoRoot, Locked!Link, Locked!Step
    <2>2. Uniting(t) /\ ends[t] \in Nodes \X Nodes
        BY <2>1, <1>1 DEF SearchOK, Uniting
    <2>3. Locked!Sorted(ends[t]) \in Nodes \X Nodes /\ SameEnds(Locked!Sorted(ends[t]), ends[t])
          /\ SameEnds(ends[t], ends[t])
        BY <2>2, SortedEnds DEF SameEnds
    <2>4. CASE Locked!LowerNotLocked(t) \/ Locked!LockLower(t)
        <3>1. /\ Locked!SearchFrom(t, Locked!Sorted(ends[t])) \/ at' = [at EXCEPT ![t] = "lower locked"]
              /\ ends' = [ends EXCEPT ![t] = Locked!Sorted(ends[t])]
            BY <2>4 DEF Locked!LowerNotLocked, Locked!LockLower, Locked!Step, Locked!SearchFrom
        <3>2. ends'[t] = Locked!Sorted(ends[t])
            BY <3>1, <1>1 DEF LocalTypes
        <3>3. Locked!SearchFrom(t, Locked!Sorted(ends[t])) \/ at'[t] = "lower locked"
            BY <3>1, <1>1 DEF LocalTypes
        <3> QED BY <3>2, <3>3, <2>1, <2>2, <2>3, SearchAgain
    <2>5. CASE ~(Locked!LowerNotLocked(t) \/ Locked!LockLower(t))
        <3>1. /\ \/ Locked!SearchFrom(t, ends[t])
                 \/ at' = [at EXCEPT ![t] = "both locked"] \/ at' = [at EXCEPT ![t] = "linked"]
              /\ ends' = ends \/ ends' = [ends EXCEPT ![t] = ends[t]]
            BY <1>6, <2>5 DEF Locked!TryToLock, Locked!TryLockTrees, Locked!LockUpper, Locked!UpperNotLocked,
               Locked!UpperNoRoot, Locked!Link, Locked!Step, Locked!SearchFrom
        <3>2. ends'[t] = ends[t]
            BY <3>1, <1>1 DEF LocalTypes
        <3>3. Locked!SearchFrom(t, ends[t]) \/ at'[t] \in {"both locked", "linked"}
            BY <3>1, <1>1 DEF LocalTypes
        <3> QED BY <3>2, <3>3, <2>1, <2>2, <2>3, SearchAgain
    <2> QED BY <2>4, <2>5
<1> QED BY <1>2, <1>3, <1>4, <1>5, <1>6 DEF ThreadStep, Locked!CompressStep, Locked!UniteStep

LEMMA OwnLocks ==
    ASSUME LockedInv, NEW t \in crew, ThreadStep(t)
    PROVE  LocksOK(t)'
<1>1. /\ t \in Threads /\ LocalTypes /\ LocalTypes' /\ SearchOK(t) /\ LocksOK(t) /\ ForestShape
      /\ union_find_mutexes \in [Nodes -> Threads \cup {nobody}]
    BY LocalsStep DEF LockedInv, SharedTypes
<1>2. CASE Locked!LockLower(t)
    <2> DEFINE ab == Locked!Sorted(ends[t])
    <2>1. /\ at[t] = "compare" /\ at' = [at EXCEPT ![t] = "lower locked"] /\ ends' = [ends EXCEPT ![t] = ab]
          /\ union_find_mutexes' = [union_find_mutexes EXCEPT ![ab[1]] = t] /\ ab[1] # ab[2]
        BY <1>2 DEF Locked!LockLower, Locked!Step
    <2>2. ends[t] \in Nodes \X Nodes
        BY <2>1, <1>1 DEF SearchOK, Uniting
    <2>3. ab \in Nodes \X Nodes /\ ab[1] < ab[2]
        BY <2>1, <2>2, SortedEnds DEF Locked!Sorted
    <2> HIDE DEF ab
    <2>4. at'[t] = "lower locked" /\ ends'[t] = ab
        BY <2>1, <1>1 DEF LocalTypes
    <2> QED BY <2>1, <2>3, <2>4, <1>1 DEF LocksOK, LockingTwo, HasBoth
<1>3. CASE Locked!LockUpper(t)
    <2>1. /\ at[t] = "lower locked" /\ at' = [at EXCEPT ![t] = "both locked"]
          /\ UNCHANGED <<ends, union_find_parents>> /\ union_find_parents[ends[t][1]] = ends[t][1]
          /\ union_find_mutexes' = [union_find_mutexes EXCEPT ![ends[t][2]] = t]
        BY <1>3 DEF Locked!LockUpper, Locked!Step
    <2>2. at'[t] = "both locked" /\ ends[t] \in Nodes \X Nodes
        BY <2>1, <1>1 DEF LocalTypes, SearchOK, Uniting
    <2>3. ends[t][1] < ends[t][2] /\ union_find_mutexes[ends[t][1]] = t /\ ends[t][1] \in Nodes /\ ends[t][2] \in Nodes
        BY <2>1, <2>2, <1>1 DEF LocksOK, LockingTwo
    <2> QED BY <2>1, <2>2, <2>3, <1>1 DEF LocksOK, LockingTwo, HasBoth
<1>4. CASE Locked!Link(t)
    <2>1. /\ at[t] = "both locked" /\ at' = [at EXCEPT ![t] = "linked"]
          /\ UNCHANGED <<ends, union_find_mutexes>>
        BY <1>4 DEF Locked!Link, Locked!Step
    <2>2. at'[t] = "linked"
        BY <2>1, <1>1 DEF LocalTypes
    <2> QED BY <2>1, <2>2, <1>1 DEF LocksOK, LockingTwo, HasBoth
<1>5. CASE ~(Locked!LockLower(t) \/ Locked!LockUpper(t) \/ Locked!Link(t))
    <2>1. \/ at' = at /\ at[t] = "find"
          \/ \E s \in {"find", "compress", "parent", "shorten", "compare", "loop", "joined"} :
                at' = [at EXCEPT ![t] = s]
        BY <1>5 DEF ThreadStep, Locked!TakeEdge, Locked!FindStep, Locked!FollowParent, Locked!ReachRoot,
           Locked!CompressStep, Locked!CompressionEnds, Locked!CompressionGoesOn, Locked!ReadParent,
           Locked!Shorten, Locked!UniteStep, Locked!RefuseEdge, Locked!TryToLock, Locked!TryLockTrees,
           Locked!LowerNotLocked, Locked!UpperNotLocked, Locked!UpperNoRoot, Locked!Unlock, Locked!StoreKept,
           Locked!SearchFrom, Locked!SearchReturns, Locked!LeaveUnite, Locked!Step
    <2>2. at'[t] \in {"find", "compress", "parent", "shorten", "compare", "loop", "joined"}
        BY <2>1, <1>1 DEF LocalTypes
    <2> QED BY <2>2 DEF LocksOK, LockingTwo, HasBoth
<1> QED BY <1>2, <1>3, <1>4, <1>5
-----------------------------------------------------------------------------
(* The edges: each is taken once, kept when it is accepted, and stored.    *)

LEMMA TakenStep ==
    ASSUME LockedInv, NEW t \in crew, ThreadStep(t)
    PROVE  AcceptedTaken' /\ \A u \in Threads : TakenOK(u)'
<1>1. /\ t \in Threads /\ LocalTypes /\ LocalTypes' /\ OnlyOf(t) /\ SharedTypes /\ AcceptedTaken
      /\ \A u \in Threads : TakenOK(u)
    BY LocalsStep DEF LockedInv
<1>2. \A u \in Threads : u # t => at'[u] = at[u] /\ taken'[u] = taken[u]
    BY <1>1 DEF OnlyOf
<1>3. CASE Locked!TakeEdge(t)
    <2>1. PICK e \in untaken : /\ taken' = [taken EXCEPT ![t] = e] /\ at' = [at EXCEPT ![t] = "find"]
                               /\ untaken' = untaken \ {e} /\ accepted' = accepted
        BY <1>3 DEF Locked!TakeEdge, Locked!SearchFrom, Locked!lockedHistory
    <2>2. taken'[t] = e /\ at'[t] = "find" /\ e \in Edges /\ e \notin accepted
        BY <2>1, <1>1 DEF LocalTypes, SharedTypes, AcceptedTaken
    <2>3. \A u \in Threads : u # t /\ Uniting(u)' => taken'[u] # e
        BY <1>1, <1>2, <2>1 DEF TakenOK, Uniting
    <2>4. AcceptedTaken'
        BY <2>1, <1>1 DEF AcceptedTaken
    <2>5. \A u \in Threads : TakenOK(u)'
        BY <1>1, <1>2, <2>1, <2>2, <2>3 DEF TakenOK, Uniting
    <2> QED BY <2>4, <2>5
<1>4. CASE Locked!Link(t)
    <2>1. /\ at[t] = "both locked" /\ at' = [at EXCEPT ![t] = "linked"] /\ UNCHANGED <<taken, untaken>>
          /\ accepted' = accepted \cup {taken[t]}
        BY <1>4 DEF Locked!Link, Locked!Step
    <2>2. at'[t] = "linked" /\ taken[t] \in Edges \ untaken
        BY <2>1, <1>1 DEF LocalTypes, TakenOK, Uniting
    <2>3. \A u \in Threads : u # t /\ Uniting(u) => taken[u] # taken[t]
        BY <1>1, <2>1 DEF TakenOK, Uniting
    <2>4. AcceptedTaken'
        BY <2>1, <2>2, <1>1 DEF AcceptedTaken
    <2>5. \A u \in Threads : Uniting(u)' <=> Uniting(u)
        BY <1>2, <2>1, <2>2 DEF Uniting
    <2>6. \A u \in Threads : Uniting(u)' => taken'[u] \in Edges \ untaken' /\ (taken'[u] \in accepted' <=> at'[u] = "linked")
        BY <1>1, <1>2, <2>1, <2>2, <2>3, <2>5 DEF TakenOK
    <2>7. \A u, w \in Threads : Uniting(u)' /\ Uniting(w)' /\ taken'[u] = taken'[w] => u = w
        BY <1>1, <2>1, <2>5 DEF TakenOK
    <2> QED BY <2>4, <2>6, <2>7 DEF TakenOK
<1>5. CASE Locked!RefuseEdge(t) \/ Locked!Unlock(t) \/ Locked!StoreKept(t)
    <2>1. /\ at' = [at EXCEPT ![t] = "loop"] \/ at' = [at EXCEPT ![t] = "joined"]
          /\ untaken' = untaken /\ accepted' = accepted
        BY <1>5 DEF Locked!RefuseEdge, Locked!Unlock, Locked!StoreKept, Locked!LeaveUnite, Locked!Step, Locked!lockedHistory
    <2>2. ~Uniting(t)'
        BY <2>1, <1>1 DEF LocalTypes, Uniting
    <2>3. \A u \in Threads : Uniting(u)' => u # t /\ Uniting(u)
        BY <2>2, <1>2 DEF Uniting
    <2> QED BY <1>1, <1>2, <2>1, <2>3 DEF TakenOK, AcceptedTaken
<1>6. CASE ~(Locked!TakeEdge(t) \/ Locked!Link(t) \/ Locked!RefuseEdge(t) \/ Locked!Unlock(t) \/ Locked!StoreKept(t))
    <2>1. /\ UNCHANGED <<taken, untaken, accepted>>
          /\ at[t] \in {"find", "compress", "parent", "shorten", "compare", "lower locked", "both locked"}
          /\ \/ at' = at
             \/ \E s \in {"find", "compress", "parent", "shorten", "compare", "lower locked", "both locked"} :
                    at' = [at EXCEPT ![t] = s]
        BY <1>6 DEF ThreadStep, Locked!FindStep, Locked!FollowParent, Locked!ReachRoot, Locked!CompressStep,
               Locked!CompressionEnds, Locked!CompressionGoesOn, Locked!ReadParent, Locked!Shorten,
               Locked!UniteStep, Locked!TryToLock, Locked!TryLockTrees, Locked!LockLower, Locked!LowerNotLocked,
               Locked!LockUpper, Locked!UpperNotLocked, Locked!UpperNoRoot, Locked!Step, Locked!SearchFrom,
               Locked!SearchReturns, Locked!lockedHistory
    <2>2. at'[t] \in {"find", "compress", "parent", "shorten", "compare", "lower locked", "both locked"}
        BY <2>1, <1>1 DEF LocalTypes
    <2>3. \A u \in Threads : (Uniting(u)' <=> Uniting(u)) /\ (at'[u] = "linked" <=> at[u] = "linked")
        BY <2>1, <2>2, <1>2 DEF Uniting
    <2>4. AcceptedTaken'
        BY <2>1, <1>1 DEF AcceptedTaken
    <2> QED BY <1>1, <2>1, <2>3, <2>4 DEF TakenOK
<1> QED BY <1>3, <1>4, <1>5, <1>6

\* Most steps leave the lists of edges alone.
ListsStay(t) == /\ UNCHANGED <<locked_kept, locked_filtered, accepted>>
                /\ at[t] # "linked" /\ at'[t] # "linked" /\ (at'[t] = "joined" <=> at[t] = "joined")

LEMMA ListsStayMostly ==
    ASSUME LockedInv, NEW t \in crew, ThreadStep(t), ~Locked!Link(t), ~Locked!Unlock(t), ~Locked!StoreKept(t)
    PROVE  ListsStay(t)
<1>1. t \in Threads /\ LocalTypes
    BY LocalsStep DEF LockedInv
<1>2. /\ UNCHANGED <<locked_kept, locked_filtered, accepted>>
      /\ at[t] # "linked" /\ at[t] # "joined"
      /\ \/ at' = at
         \/ \E s \in {"loop", "find", "compress", "parent", "shorten", "compare", "lower locked", "both locked"} :
                    at' = [at EXCEPT ![t] = s]
    BY DEF ThreadStep, Locked!TakeEdge, Locked!FindStep, Locked!FollowParent, Locked!ReachRoot, Locked!CompressStep,
               Locked!CompressionEnds, Locked!CompressionGoesOn, Locked!ReadParent, Locked!Shorten,
               Locked!UniteStep, Locked!RefuseEdge, Locked!LeaveUnite, Locked!TryToLock, Locked!TryLockTrees,
               Locked!LockLower, Locked!LowerNotLocked, Locked!LockUpper, Locked!UpperNotLocked,
               Locked!UpperNoRoot, Locked!Step, Locked!SearchFrom, Locked!SearchReturns, Locked!lockedHistory,
               Locked!output
<1>3. at'[t] # "linked" /\ at'[t] # "joined"
    BY <1>1, <1>2 DEF LocalTypes
<1> QED BY <1>2, <1>3 DEF ListsStay

\* The places of the edges, as they follow from the lists and from who has just linked.
Linkers == {t \in Threads : at[t] = "linked"}
ListsOK == AcceptedStored /\ LockedPlaces /\ JoinedEmpty

LEMMA ListsQuiet ==
    ASSUME LockedInv, NEW t \in crew, ThreadStep(t), ListsStay(t)
    PROVE  ListsOK'
<1>1. /\ t \in Threads /\ OnlyOf(t) /\ AcceptedStored /\ LockedPlaces /\ JoinedEmpty
    BY LocalsStep DEF LockedInv
<1>2. \A u \in Threads : (at'[u] = "linked" <=> at[u] = "linked") /\ (at'[u] = "linked" => taken'[u] = taken[u])
                         /\ (at'[u] = "joined" <=> at[u] = "joined")
    BY <1>1 DEF OnlyOf, ListsStay
<1>3. UNCHANGED <<locked_kept, locked_filtered, accepted>>
    BY DEF ListsStay
<1>4. \A e : KeptOrFiled(e)' <=> KeptOrFiled(e)
    BY <1>3 DEF KeptOrFiled
<1>5. AcceptedStored'
    BY <1>1, <1>2, <1>3, <1>4 DEF AcceptedStored
<1>6. LockedPlaces'
    BY <1>1, <1>2, <1>3 DEF LockedPlaces, EdgesApart, KeptOrFiled
<1>7. JoinedEmpty'
    BY <1>1, <1>2, <1>3 DEF JoinedEmpty
<1> QED BY <1>5, <1>6, <1>7 DEF ListsOK

LEMMA ListsLink ==
    ASSUME LockedInv, NEW t \in crew, ThreadStep(t), Locked!Link(t)
    PROVE  ListsOK'
<1>1. /\ t \in Threads /\ OnlyOf(t) /\ LocalTypes /\ AcceptedStored /\ LockedPlaces /\ JoinedEmpty /\ TakenOK(t)
    BY LocalsStep DEF LockedInv
<1>2. /\ at[t] = "both locked" /\ at' = [at EXCEPT ![t] = "linked"]
      /\ UNCHANGED <<taken, locked_kept, locked_filtered>> /\ accepted' = accepted \cup {taken[t]}
    BY DEF Locked!Link, Locked!Step, Locked!output
<1>3. /\ at'[t] = "linked" /\ \A u \in Threads : u # t => at'[u] = at[u]
    BY <1>1, <1>2 DEF LocalTypes
<1>4. \A e : KeptOrFiled(e)' <=> KeptOrFiled(e)
    BY <1>2 DEF KeptOrFiled
<1>5. AcceptedStored'
    BY <1>1, <1>2, <1>3, <1>4 DEF AcceptedStored
<1>6. ASSUME NEW e, e = taken[t] PROVE ~KeptOrFiled(e)
    <2>1. e \notin accepted
        BY <1>1, <1>2, <1>6 DEF TakenOK, Uniting
    <2> QED BY <2>1, <1>1 DEF AcceptedStored
<1>7. ASSUME NEW e, NEW u \in Threads, at'[u] = "linked", taken'[u] = e PROVE ~KeptOrFiled(e)'
    <2>1. CASE u = t
        <3>1. e = taken[t]
            BY <2>1, <1>2, <1>7
        <3> QED BY <3>1, <1>4, <1>6
    <2>2. CASE u # t
        BY <2>2, <1>1, <1>2, <1>3, <1>4, <1>7 DEF LockedPlaces
    <2> QED BY <2>1, <2>2
<1>e. EdgesApart'
    <2>1. EdgesApart /\ UNCHANGED <<locked_kept, locked_filtered>>
        BY <1>1, <1>2 DEF LockedPlaces
    <2> QED BY ONLY <2>1 DEF EdgesApart
<1>8. LockedPlaces'
    BY <1>e, <1>7 DEF LockedPlaces
<1>9. JoinedEmpty'
    BY <1>1, <1>2, <1>3 DEF JoinedEmpty
<1> QED BY <1>5, <1>8, <1>9 DEF ListsOK

LEMMA AppendedPlaces ==
    ASSUME NEW S, NEW s \in Seq(S), NEW e \in S
    PROVE  /\ Len(Append(s, e)) = Len(s) + 1 /\ Len(s) \in Nat
           /\ \A i \in 1 .. Len(s) + 1 : Append(s, e)[i] = IF i = Len(s) + 1 THEN e ELSE s[i]
           /\ \A i \in 1 .. Len(s) + 1 : i = Len(s) + 1 \/ i \in 1 .. Len(s)
OBVIOUS

LEMMA JoinedPlaces ==
    ASSUME NEW S, NEW p \in Seq(S), NEW q \in Seq(S)
    PROVE  /\ Len(p \o q) = Len(p) + Len(q) /\ Len(p) \in Nat /\ Len(q) \in Nat
           /\ \A i \in 1 .. Len(p) : (p \o q)[i] = p[i] /\ i \in 1 .. Len(p) + Len(q)
           /\ \A i \in 1 .. Len(q) : (p \o q)[Len(p) + i] = q[i] /\ Len(p) + i \in 1 .. Len(p) + Len(q)
           /\ \A i \in 1 .. Len(p) + Len(q) :
                i \in 1 .. Len(p) \/ \E j \in 1 .. Len(q) : i = Len(p) + j
<1>1. Len(p \o q) = Len(p) + Len(q) /\ Len(p) \in Nat /\ Len(q) \in Nat
    OBVIOUS
<1>2. \A i \in 1 .. Len(p) : (p \o q)[i] = p[i] /\ i \in 1 .. Len(p) + Len(q)
    OBVIOUS
<1>3. \A i \in 1 .. Len(q) : (p \o q)[Len(p) + i] = q[i] /\ Len(p) + i \in 1 .. Len(p) + Len(q)
    OBVIOUS
<1>4. ASSUME NEW i \in 1 .. Len(p) + Len(q), i \notin 1 .. Len(p) PROVE \E j \in 1 .. Len(q) : i = Len(p) + j
    <2>1. i - Len(p) \in 1 .. Len(q) /\ i = Len(p) + (i - Len(p))
        BY <1>1, <1>4
    <2> QED BY <2>1
<1> QED BY <1>1, <1>2, <1>3, <1>4

LEMMA ListsUnlock ==
    ASSUME LockedInv, NEW t \in crew, ThreadStep(t), Locked!Unlock(t)
    PROVE  ListsOK'
<1>1. /\ t \in Threads /\ OnlyOf(t) /\ LocalTypes /\ AcceptedStored /\ LockedPlaces /\ JoinedEmpty
      /\ \A u \in Threads : TakenOK(u)
    BY LocalsStep DEF LockedInv
<1>2. /\ at[t] = "linked" /\ at' = [at EXCEPT ![t] = "loop"]
      /\ locked_kept' = [locked_kept EXCEPT ![t] = Append(locked_kept[t], taken[t])]
      /\ UNCHANGED <<locked_filtered, accepted>>
    BY DEF Locked!Unlock, Locked!LeaveUnite, Locked!lockedHistory
<1>3. at'[t] = "loop" /\ \A u \in Threads : u # t => at'[u] = at[u] /\ taken'[u] = taken[u] /\ locked_kept'[u] = locked_kept[u]
    BY <1>1, <1>2 DEF LocalTypes, OnlyOf
<1>4. PICK e \in Edges : e = taken[t]
    BY <1>1, <1>2 DEF TakenOK, Uniting
<1>5. ~KeptOrFiled(e) /\ \A u \in Threads : u # t /\ at[u] = "linked" => taken[u] # e
    <2>1. ~KeptOrFiled(e)
        BY <1>1, <1>2, <1>4 DEF LockedPlaces, EdgesApart
    <2>2. \A u \in Threads : u # t /\ at[u] = "linked" => taken[u] # e
        BY <1>1, <1>2, <1>4 DEF TakenOK, Uniting
    <2> QED BY <2>1, <2>2
<1> DEFINE n == Len(locked_kept[t]) + 1
<1>6. /\ Len(locked_kept'[t]) = n /\ n \in Nat /\ n >= 1 /\ locked_kept'[t][n] = e /\ n - 1 = Len(locked_kept[t])
      /\ \A i \in 1 .. Len(locked_kept[t]) : locked_kept'[t][i] = locked_kept[t][i] /\ i \in 1 .. n /\ i # n
      /\ \A i \in 1 .. n : i = n \/ i \in 1 .. Len(locked_kept[t])
    <2>1. locked_kept[t] \in Seq(Edges) /\ locked_kept'[t] = Append(locked_kept[t], e)
        BY <1>1, <1>2, <1>4 DEF LocalTypes
    <2> QED BY <2>1, AppendedPlaces
<1> HIDE DEF n
<1>7. \A x : KeptOrFiled(x)' <=> (KeptOrFiled(x) \/ x = e)
    <2> SUFFICES ASSUME NEW x PROVE KeptOrFiled(x)' <=> (KeptOrFiled(x) \/ x = e)
        OBVIOUS
    <2>1. ASSUME KeptOrFiled(x) PROVE KeptOrFiled(x)'
        <3>1. CASE \E j \in 1 .. Len(locked_filtered) : locked_filtered[j] = x
            BY <3>1, <1>2 DEF KeptOrFiled
        <3>2. ASSUME NEW u \in Threads, NEW i \in 1 .. Len(locked_kept[u]), locked_kept[u][i] = x
              PROVE  \E k \in 1 .. Len(locked_kept'[u]) : locked_kept'[u][k] = x
            <4>1. CASE u = t
                BY <4>1, <3>2, <1>6
            <4>2. CASE u # t
                BY <4>2, <3>2, <1>3
            <4> QED BY <4>1, <4>2
        <3> QED BY <2>1, <3>1, <3>2 DEF KeptOrFiled
    <2>2. KeptOrFiled(e)'
        <3>1. n \in 1 .. Len(locked_kept'[t])
            BY <1>6
        <3> QED BY <3>1, <1>1, <1>6 DEF KeptOrFiled
    <2>3. ASSUME KeptOrFiled(x)', x # e PROVE KeptOrFiled(x)
        <3>1. CASE \E j \in 1 .. Len(locked_filtered) : locked_filtered[j] = x
            BY <3>1 DEF KeptOrFiled
        <3>2. ASSUME NEW u \in Threads, NEW i \in 1 .. Len(locked_kept'[u]), locked_kept'[u][i] = x
              PROVE  \E k \in 1 .. Len(locked_kept[u]) : locked_kept[u][k] = x
            <4>1. CASE u = t
                BY <4>1, <3>2, <1>6, <2>3
            <4>2. CASE u # t
                BY <4>2, <3>2, <1>3
            <4> QED BY <4>1, <4>2
        <3> QED BY <2>3, <3>1, <3>2, <1>2 DEF KeptOrFiled
    <2> QED BY <2>1, <2>2, <2>3
<1>8. AcceptedStored'
    <2>1. \A u \in Threads : at'[u] = "linked" <=> u # t /\ at[u] = "linked"
        BY <1>3
    <2> QED BY <1>1, <1>2, <1>3, <1>4, <1>7, <2>1 DEF AcceptedStored
<1>9. ASSUME NEW x, NEW u \in Threads, at'[u] = "linked", taken'[u] = x PROVE ~KeptOrFiled(x)'
    <2>1. u # t /\ x = taken[u] /\ at[u] = "linked"
        BY <1>9, <1>3
    <2>2. x # e
        BY <2>1, <1>5
    <2> QED BY <2>1, <2>2, <1>1, <1>7 DEF LockedPlaces, EdgesApart
<1>10. ASSUME NEW u \in Threads, NEW w \in Threads, NEW i \in 1 .. Len(locked_kept'[u]), NEW j \in 1 .. Len(locked_kept'[w]),
              locked_kept'[u][i] = locked_kept'[w][j]
       PROVE  u = w /\ i = j
    <2>1. \A x \in Threads : \A k \in 1 .. Len(locked_kept[x]) : locked_kept[x][k] # e
        BY <1>5 DEF KeptOrFiled
    <2>2. \A x \in Threads : \A k \in 1 .. Len(locked_kept'[x]) :
            \/ x = t /\ k = n /\ locked_kept'[x][k] = e
            \/ k \in 1 .. Len(locked_kept[x]) /\ locked_kept'[x][k] = locked_kept[x][k]
        <3>1. \A x \in Threads : x = t \/ locked_kept'[x] = locked_kept[x]
            BY <1>3
        <3> QED BY <3>1, <1>6
    <2>3. CASE u = t /\ i = n /\ locked_kept'[u][i] = e
        BY <2>3, <2>1, <2>2, <1>10
    <2>4. CASE i \in 1 .. Len(locked_kept[u]) /\ locked_kept'[u][i] = locked_kept[u][i]
        <3>1. j \in 1 .. Len(locked_kept[w]) /\ locked_kept'[w][j] = locked_kept[w][j]
            BY <2>4, <2>1, <2>2, <1>10
        <3>2. locked_kept[u][i] = locked_kept[w][j]
            BY <3>1, <2>4, <1>10
        <3> QED BY <3>1, <3>2, <2>4, <1>1 DEF LockedPlaces, EdgesApart
    <2> QED BY <2>2, <2>3, <2>4
<1>11. ASSUME NEW u \in Threads, NEW i \in 1 .. Len(locked_kept'[u]), NEW j \in 1 .. Len(locked_filtered)
       PROVE  locked_kept'[u][i] # locked_filtered[j]
    <2>1. locked_filtered[j] # e
        BY <1>5 DEF KeptOrFiled
    <2>2. CASE u = t
        BY <2>1, <2>2, <1>1, <1>6 DEF LockedPlaces, EdgesApart
    <2>3. CASE u # t
        BY <2>3, <1>1, <1>3 DEF LockedPlaces, EdgesApart
    <2> QED BY <2>2, <2>3
<1>12. LockedPlaces'
    <2>1. \A i, j \in 1 .. Len(locked_filtered) : locked_filtered[i] = locked_filtered[j] => i = j
        BY <1>1 DEF LockedPlaces, EdgesApart
    <2> QED BY <2>1, <1>2, <1>9, <1>10, <1>11 DEF LockedPlaces, EdgesApart
<1>13. JoinedEmpty'
    BY <1>1, <1>3 DEF JoinedEmpty
<1> QED BY <1>8, <1>12, <1>13 DEF ListsOK

LEMMA ListsStore ==
    ASSUME LockedInv, NEW t \in crew, ThreadStep(t), Locked!StoreKept(t)
    PROVE  ListsOK'
<1>1. /\ t \in Threads /\ OnlyOf(t) /\ LocalTypes /\ SharedTypes /\ AcceptedStored /\ LockedPlaces /\ JoinedEmpty
    BY LocalsStep DEF LockedInv
<1>2. /\ at[t] = "loop" /\ at' = [at EXCEPT ![t] = "joined"]
      /\ locked_kept' = [locked_kept EXCEPT ![t] = <<>>] /\ locked_filtered' = locked_filtered \o locked_kept[t]
      /\ UNCHANGED <<taken, accepted>>
    BY DEF Locked!StoreKept, Locked!Step, Locked!lockedHistory
<1>3. /\ at'[t] = "joined" /\ locked_kept'[t] = <<>> /\ Len(locked_kept'[t]) = 0
      /\ \A u \in Threads : u # t => at'[u] = at[u] /\ locked_kept'[u] = locked_kept[u]
    BY <1>1, <1>2 DEF LocalTypes
<1> DEFINE n == Len(locked_filtered)
           m == Len(locked_kept[t])
<1>4. /\ Len(locked_filtered') = n + m /\ n \in Nat /\ m \in Nat
      /\ \A i \in 1 .. n : locked_filtered'[i] = locked_filtered[i] /\ i \in 1 .. n + m
      /\ \A i \in 1 .. m : locked_filtered'[n + i] = locked_kept[t][i] /\ n + i \in 1 .. n + m
      /\ \A i \in 1 .. n + m : i \in 1 .. n \/ \E j \in 1 .. m : i = n + j
    <2>1. locked_kept[t] \in Seq(Edges) /\ locked_filtered \in Seq(Edges)
        BY <1>1 DEF LocalTypes, SharedTypes
    <2>2. /\ Len(locked_filtered \o locked_kept[t]) = n + m /\ n \in Nat /\ m \in Nat
          /\ \A i \in 1 .. n : (locked_filtered \o locked_kept[t])[i] = locked_filtered[i] /\ i \in 1 .. n + m
          /\ \A i \in 1 .. m : (locked_filtered \o locked_kept[t])[n + i] = locked_kept[t][i] /\ n + i \in 1 .. n + m
          /\ \A i \in 1 .. n + m : i \in 1 .. n \/ \E j \in 1 .. m : i = n + j
        BY <2>1, JoinedPlaces
    <2>3. locked_filtered' = locked_filtered \o locked_kept[t]
        BY <1>2
    <2> QED BY ONLY <2>2, <2>3
<1>e. \A u \in Threads : \A i \in 1 .. Len(locked_kept'[u]) : u # t
    <2>1. 1 .. 0 = {}
        OBVIOUS
    <2> QED BY <1>3, <2>1
<1>5. \A i \in 1 .. n + m : \/ i \in 1 .. n /\ locked_filtered'[i] = locked_filtered[i]
                            \/ \E j \in 1 .. m : i = n + j /\ locked_filtered'[i] = locked_kept[t][j]
    BY <1>4
<1>6. \A x : KeptOrFiled(x)' <=> KeptOrFiled(x)
    <2> SUFFICES ASSUME NEW x PROVE KeptOrFiled(x)' <=> KeptOrFiled(x)
        OBVIOUS
    <2>1. ASSUME KeptOrFiled(x) PROVE KeptOrFiled(x)'
        <3>1. CASE \E j \in 1 .. n : locked_filtered[j] = x
            BY <3>1, <1>4 DEF KeptOrFiled
        <3>2. ASSUME NEW u \in Threads, NEW i \in 1 .. Len(locked_kept[u]), locked_kept[u][i] = x
              PROVE  KeptOrFiled(x)'
            <4>1. CASE u = t
                BY <4>1, <3>2, <1>4 DEF KeptOrFiled
            <4>2. CASE u # t
                BY <4>2, <3>2, <1>3 DEF KeptOrFiled
            <4> QED BY <4>1, <4>2
        <3> QED BY <2>1, <3>1, <3>2 DEF KeptOrFiled
    <2>2. ASSUME KeptOrFiled(x)' PROVE KeptOrFiled(x)
        <3>1. ASSUME NEW i \in 1 .. Len(locked_filtered'), locked_filtered'[i] = x PROVE KeptOrFiled(x)
            BY <3>1, <1>1, <1>4, <1>5 DEF KeptOrFiled
        <3>2. ASSUME NEW u \in Threads, NEW i \in 1 .. Len(locked_kept'[u]), locked_kept'[u][i] = x
              PROVE  KeptOrFiled(x)
            BY <3>2, <1>e, <1>3 DEF KeptOrFiled
        <3> QED BY <2>2, <3>1, <3>2 DEF KeptOrFiled
    <2> QED BY <2>1, <2>2
<1>7. \A u \in Threads : at'[u] = "linked" <=> at[u] = "linked"
    BY <1>2, <1>3
<1>8. AcceptedStored'
    BY <1>2, <1>6, <1>7 , <1>1 DEF AcceptedStored
<1>9. ASSUME NEW e, NEW u \in Threads, at'[u] = "linked", taken'[u] = e PROVE ~KeptOrFiled(e)'
    BY <1>9, <1>1, <1>2, <1>6, <1>7 DEF LockedPlaces, EdgesApart
<1>10. ASSUME NEW u \in Threads, NEW w \in Threads, NEW i \in 1 .. Len(locked_kept'[u]), NEW j \in 1 .. Len(locked_kept'[w]),
              locked_kept'[u][i] = locked_kept'[w][j]
       PROVE  u = w /\ i = j
    <2>1. u # t /\ w # t /\ locked_kept'[u] = locked_kept[u] /\ locked_kept'[w] = locked_kept[w]
        BY <1>e, <1>3
    <2>2. i \in 1 .. Len(locked_kept[u]) /\ j \in 1 .. Len(locked_kept[w]) /\ locked_kept[u][i] = locked_kept[w][j]
        BY <2>1, <1>10
    <2> QED BY <2>2, <1>1 DEF LockedPlaces, EdgesApart
<1>11. ASSUME NEW i \in 1 .. Len(locked_filtered'), NEW j \in 1 .. Len(locked_filtered'),
              locked_filtered'[i] = locked_filtered'[j]
       PROVE  i = j
    <2>1. i \in 1 .. n + m /\ j \in 1 .. n + m
        BY <1>4
    <2>2. ASSUME i \in 1 .. n, j \in 1 .. n, locked_filtered[i] = locked_filtered[j] PROVE i = j
        BY <2>2, <1>1 DEF LockedPlaces, EdgesApart
    <2>3. ASSUME NEW k \in 1 .. m, NEW l \in 1 .. m, locked_kept[t][k] = locked_kept[t][l] PROVE k = l
        BY <2>3, <1>1 DEF LockedPlaces, EdgesApart
    <2>4. ASSUME NEW k \in 1 .. m, NEW l \in 1 .. n PROVE locked_kept[t][k] # locked_filtered[l]
        BY <1>1 DEF LockedPlaces, EdgesApart
    <2>5. (i \in 1 .. n /\ locked_filtered'[i] = locked_filtered[i]) \/ \E k \in 1 .. m : i = n + k /\ locked_filtered'[i] = locked_kept[t][k]
        BY <2>1, <1>5
    <2>6. (j \in 1 .. n /\ locked_filtered'[j] = locked_filtered[j]) \/ \E k \in 1 .. m : j = n + k /\ locked_filtered'[j] = locked_kept[t][k]
        BY <2>1, <1>5
    <2> QED BY <1>11, <2>2, <2>3, <2>4, <2>5, <2>6
<1>12. ASSUME NEW u \in Threads, NEW i \in 1 .. Len(locked_kept'[u]), NEW j \in 1 .. Len(locked_filtered')
       PROVE  locked_kept'[u][i] # locked_filtered'[j]
    <2>1. u # t /\ locked_kept'[u] = locked_kept[u]
        BY <1>e, <1>3
    <2>2. i \in 1 .. Len(locked_kept[u]) /\ j \in 1 .. n + m
        BY <2>1, <1>4
    <2>3. CASE j \in 1 .. n /\ locked_filtered'[j] = locked_filtered[j]
        BY <2>1, <2>2, <2>3, <1>1 DEF LockedPlaces, EdgesApart
    <2>4. ASSUME NEW k \in 1 .. m, locked_filtered'[j] = locked_kept[t][k] PROVE locked_kept[u][i] # locked_kept[t][k]
        BY <2>1, <2>2, <1>1 DEF LockedPlaces, EdgesApart
    <2> QED BY <2>1, <2>2, <2>3, <2>4, <1>5
<1>13. LockedPlaces'
    BY <1>9, <1>10, <1>11, <1>12 DEF LockedPlaces, EdgesApart
<1>14. JoinedEmpty'
    BY <1>1, <1>3 DEF JoinedEmpty
<1> QED BY <1>8, <1>13, <1>14 DEF ListsOK

LEMMA ListsStep ==
    ASSUME LockedInv, NEW t \in crew, ThreadStep(t)
    PROVE  ListsOK' /\ CrewOnly'
<1>1. /\ t \in Threads /\ OnlyOf(t) /\ crew' = crew /\ CrewOnly
    BY LocalsStep, SharedStep DEF LockedInv
<1>2. CrewOnly'
    BY <1>1 DEF CrewOnly, OnlyOf
<1> QED BY <1>2, ListsStayMostly, ListsQuiet, ListsLink, ListsUnlock, ListsStore

-----------------------------------------------------------------------------
(* Counting: each link takes one root away.                                *)

LEMMA CountStep ==
    ASSUME LockedInv, NEW t \in crew, ThreadStep(t)
    PROVE  LinksAreCounted'
<1>1. /\ t \in Threads /\ LinksAreCounted /\ ForestShape /\ IsFiniteSet(Nodes) /\ TakenOK(t)
      /\ union_find_parents \in [Nodes -> Nodes] /\ \A v \in Nodes : union_find_ranks[v] \in Nat
    BY CrewThreads, ConnectivityAssumption DEF LockedInv, ForestShape, ForestTyped
<1>2. Linked_ = {v \in Nodes : union_find_parents[v] # v} /\ Linked_' = {v \in Nodes : union_find_parents'[v] # v}
    BY DEF Linked_, Locked!TreeRoots
<1>f. IsFiniteSet(Linked_) /\ IsFiniteSet(accepted) /\ Cardinality(Linked_) \in Nat /\ Cardinality(accepted) = Cardinality(Linked_)
    <2>1. Linked_ \subseteq Nodes
        BY <1>2
    <2> QED BY <2>1, <1>1, FS_Subset, FS_CardinalityType DEF LinksAreCounted
<1>3. CASE UNCHANGED <<union_find_parents, union_find_ranks, accepted>>
    <2>1. Linked_' = Linked_
        BY <1>2, <1>3
    <2> QED BY <2>1, <1>1, <1>3 DEF LinksAreCounted
<1>4. CASE Locked!Shorten(t) /\ union_find_parents' # union_find_parents
    <2>1. /\ node[t] \in Nodes /\ union_find_parents[node[t]] # node[t]
          /\ union_find_parents' = [union_find_parents EXCEPT ![node[t]] = T(node[t])]
          /\ union_find_ranks' = union_find_ranks /\ accepted' = accepted
        BY <1>4, ShortenHangs
    <2>2. PICK n \in Nodes : n = node[t]
        BY <2>1
    <2>3. T(n) # n
        BY <2>1, <2>2, <1>1, TreeFacts
    <2>4. Linked_' = Linked_
        BY <2>1, <2>2, <2>3, <1>1, <1>2
    <2> QED BY <2>1, <2>4, <1>1 DEF LinksAreCounted
<1>5. CASE Locked!Link(t)
    <2>1. PICK low, high : HungUnder(low, high)
        BY <1>5, LinkHangs
    <2>2. accepted' = accepted \cup {taken[t]} /\ taken[t] \notin accepted
        BY <1>1, <1>5 DEF Locked!Link, Locked!Step, TakenOK, Uniting
    <2>3. Linked_' = Linked_ \cup {low} /\ low \notin Linked_
        BY <2>1, <1>1, <1>2 DEF HungUnder
    <2>4. IsFiniteSet(accepted') /\ Cardinality(accepted') = Cardinality(accepted) + 1
        BY <2>2, <1>f, FS_AddElement
    <2>5. Cardinality(Linked_') = Cardinality(Linked_) + 1
        BY <2>3, <1>f, FS_AddElement
    <2>6. \A v \in Nodes : union_find_ranks'[v] <= union_find_ranks[v] + 1
        BY <1>5, LinkHangs
    <2>7. \A v \in Nodes : union_find_ranks'[v] \in Nat
        <3>1. ForestTyped'
            BY <1>5, LinkHangs DEF ForestShape
        <3> QED BY <3>1 DEF ForestTyped
    <2>8. \A v \in Nodes : union_find_ranks[v] <= Cardinality(Linked_)
        BY <1>1 DEF LinksAreCounted
    <2> DEFINE c == Cardinality(Linked_)
    <2>9. \A v \in Nodes : union_find_ranks'[v] <= c + 1
        <3> HIDE DEF c
        <3>1. c \in Nat /\ \A v \in Nodes : union_find_ranks[v] <= c
            BY <1>f, <2>8 DEF c
        <3> QED BY <3>1, <2>6, <2>7, <1>1
    <2> QED BY <2>4, <2>5, <2>9, <1>f DEF LinksAreCounted
<1>6. CASE Locked!Shorten(t) /\ union_find_parents' = union_find_parents
    <2>1. UNCHANGED <<union_find_ranks, accepted>>
        BY <1>6 DEF Locked!Shorten, Locked!lockedHistory
    <2> QED BY <2>1, <1>3, <1>6
<1> QED BY <1>3, <1>4, <1>5, <1>6, ParentsStay
-----------------------------------------------------------------------------
(* The invariant.                                                          *)

LEMMA InitLocked ==
    ASSUME Locked!LockedInit, WorkingBuild
    PROVE  LockedInv
<1>1. /\ union_find_parents = [v \in Nodes |-> v] /\ union_find_ranks = [v \in Nodes |-> 0]
      /\ union_find_mutexes = [v \in Nodes |-> nobody] /\ untaken = Edges
      /\ at = [t \in Threads |-> "loop"]
      /\ ends = [t \in Threads |-> <<0, 0>>] /\ taken = [t \in Threads |-> <<0, 0>>]
      /\ which = [t \in Threads |-> 1]
      /\ node = [t \in Threads |-> 0] /\ root = [t \in Threads |-> 0] /\ parent = [t \in Threads |-> 0]
      /\ locking = [t \in Threads |-> FALSE]
      /\ locked_kept = [t \in Threads |-> <<>>] /\ locked_filtered = <<>>
      /\ accepted = {} /\ refused = {}
    BY DEF Locked!LockedInit
<1>2. LocalTypes
    <2>1. "loop" \in LockSteps /\ <<0, 0>> \in Ends /\ <<>> \in Seq(Edges)
        BY DEF LockSteps, Ends
    <2> HIDE DEF LockSteps, Ends
    <2>2. at \in [Threads -> LockSteps] /\ ends \in [Threads -> Ends] /\ taken \in [Threads -> Edges \cup {<<0, 0>>}]
        BY <1>1, <2>1
    <2>3. which \in [Threads -> {1, 2}] /\ node \in [Threads -> Nodes \cup {0}] /\ root \in [Threads -> Nodes \cup {0}]
        BY <1>1
    <2>4. parent \in [Threads -> Nodes \cup {0}] /\ locking \in [Threads -> BOOLEAN]
        BY <1>1
    <2>5. locked_kept \in [Threads -> Seq(Edges)]
        BY <1>1, <2>1
    <2> QED BY <2>2, <2>3, <2>4, <2>5 DEF LocalTypes
<1>3. SharedTypes
    <2>1. [variant |-> variant, crew |-> crew] \in Builds
        <3>1. PICK build \in Builds : variant = build.variant /\ crew = build.crew
            BY DEF Locked!LockedInit
        <3>2. build \in [variant : Locked!Variants, crew : SUBSET Threads]
            BY BuildAssumption DEF Locked!BuildsAndEdges
        <3>3. build = [variant |-> build.variant, crew |-> build.crew]
            BY <3>2
        <3> QED BY <3>1, <3>3
    <2>2. union_find_mutexes \in [Nodes -> Threads \cup {nobody}] /\ locked_filtered \in Seq(Edges)
        BY <1>1
    <2> QED BY <2>1, <2>2, <1>1 DEF SharedTypes
<1>4. MutexesOK
    BY <1>1, NobodyIsNone DEF MutexesOK
<1>5. ForestShape
    BY <1>1 DEF ForestShape, ForestTyped, ParentsAbove
<1>6. UnrankedFlat
    BY <1>1 DEF UnrankedFlat
<1>7. \A t \in Threads : at[t] = "loop" /\ locked_kept[t] = <<>> /\ Len(locked_kept[t]) = 0
    BY <1>1
<1>8. \A t \in Threads : SearchOK(t) /\ LocksOK(t) /\ TakenOK(t)
    BY <1>7 DEF SearchOK, LocksOK, TakenOK, Uniting, Searching, Compressing, LockingTwo, HasBoth
<1>9. \A e : ~KeptOrFiled(e)
    <2>1. 1 .. 0 = {} /\ Len(locked_filtered) = 0
        BY <1>1
    <2> QED BY <2>1, <1>7 DEF KeptOrFiled
<1>10. AcceptedTaken /\ AcceptedStored
    BY <1>1, <1>7, <1>9 DEF AcceptedTaken, AcceptedStored
<1>11. LockedPlaces
    <2>1. 1 .. 0 = {} /\ Len(locked_filtered) = 0
        BY <1>1
    <2> QED BY <2>1, <1>7 DEF LockedPlaces, EdgesApart
<1>12. LinksAreCounted
    <2>1. Linked_ = {}
        BY <1>1 DEF Linked_, Locked!TreeRoots
    <2>2. IsFiniteSet(accepted) /\ Cardinality(accepted) = 0 /\ Cardinality(Linked_) = 0
        BY <2>1, <1>1, FS_EmptySet
    <2> QED BY <2>2, <1>1 DEF LinksAreCounted
<1>13. CrewOnly /\ JoinedEmpty
    BY <1>7 DEF CrewOnly, JoinedEmpty
<1> QED BY <1>2, <1>3, <1>4, <1>5, <1>6, <1>8, <1>10, <1>11, <1>12, <1>13 DEF LockedInv

LEMMA LockedThreads == Locked!LockedNext => \E t \in crew : ThreadStep(t)
BY DEF Locked!LockedNext, ThreadStep

LEMMA StepLocked ==
    ASSUME LockedInv, NEW t \in crew, ThreadStep(t)
    PROVE  LockedInv'
<1>1. t \in Threads /\ LocalTypes' /\ OnlyOf(t)
    BY LocalsStep
<1>2. SharedTypes' /\ WorkingBuild' /\ MutexesOK' /\ ForestShape' /\ UnrankedFlat'
    BY SharedStep, MutexStep, TreesStep
<1>3. \A u \in Threads : SearchOK(u)'
    <2>1. ASSUME NEW u \in Threads PROVE SearchOK(u)'
        BY OwnSearch, OthersSearch
    <2> QED BY <2>1
<1>4. \A u \in Threads : LocksOK(u)'
    <2>1. ASSUME NEW u \in Threads PROVE LocksOK(u)'
        BY OwnLocks, OthersLocks
    <2> QED BY <2>1
<1>5. AcceptedTaken' /\ (\A u \in Threads : TakenOK(u)') /\ ListsOK' /\ CrewOnly' /\ LinksAreCounted'
    BY TakenStep, ListsStep, CountStep
<1> QED BY <1>1, <1>2, <1>3, <1>4, <1>5 DEF LockedInv, ListsOK

LEMMA QuietLocked ==
    ASSUME LockedInv, UNCHANGED Locked!lockedVars
    PROVE  LockedInv'
<1>1. /\ UNCHANGED <<variant, crew, union_find_parents, union_find_ranks, union_find_mutexes>>
      /\ UNCHANGED <<untaken, at, ends, which, node, root, parent, locking, taken, locked_kept, locked_filtered>>
      /\ UNCHANGED <<accepted, refused>>
    BY DEF Locked!lockedVars, Locked!structure, Locked!cursor, Locked!output, Locked!lockedHistory
<1>2. LocalTypes' /\ SharedTypes' /\ MutexesOK' /\ WorkingBuild'
    BY <1>1 DEF LockedInv, LocalTypes, SharedTypes, MutexesOK, HeldBy, HasBoth, WorkingBuild
<1>3. ForestShape' /\ UnrankedFlat'
    BY <1>1 DEF LockedInv, ForestShape, ForestTyped, ParentsAbove, RankOrder, UnrankedFlat, Locked!ranked
<1>4. TreeMap' = TreeMap
    BY <1>1, SameForest DEF TreeMap
<1>5. \A t \in Threads : SearchOK(t)'
    BY <1>1, <1>4 DEF LockedInv, SearchOK, SameTrees, Uniting, Searching, Compressing
<1>6. \A t \in Threads : LocksOK(t)' /\ TakenOK(t)'
    BY <1>1 DEF LockedInv, LocksOK, TakenOK, Uniting, LockingTwo, HasBoth
<1>7. \A e : KeptOrFiled(e)' <=> KeptOrFiled(e)
    BY <1>1 DEF KeptOrFiled
<1>8. AcceptedTaken' /\ AcceptedStored'
    BY <1>1, <1>7 DEF LockedInv, AcceptedTaken, AcceptedStored
<1>9. EdgesApart'
    <2>1. EdgesApart /\ UNCHANGED <<locked_kept, locked_filtered>>
        BY <1>1 DEF LockedInv, LockedPlaces
    <2> QED BY ONLY <2>1 DEF EdgesApart
<1>10. LockedPlaces'
    BY <1>1, <1>7, <1>9 DEF LockedInv, LockedPlaces
<1>11. LinksAreCounted' /\ CrewOnly' /\ JoinedEmpty'
    BY <1>1 DEF LockedInv, LinksAreCounted, Linked_, Locked!TreeRoots, CrewOnly, JoinedEmpty
<1> QED BY <1>2, <1>3, <1>5, <1>6, <1>8, <1>10, <1>11 DEF LockedInv

LEMMA NextLocked == LockedInv /\ [Locked!LockedNext]_(Locked!lockedVars) => LockedInv'
BY LockedThreads, StepLocked, QuietLocked

\* A thread locks both roots before it hangs one below the other, so that in a build that
\* works the trees stay trees, and every accepted edge is in one list or place.
THEOREM LockedInvariance == AnySpec /\ WorkingBuild => []LockedInv
<1>1. Locked!LockedInit /\ WorkingBuild => LockedInv
    BY InitLocked
<1> QED BY <1>1, LockedAlone, NextLocked, PTL DEF Locked!LockedSpec

LEMMA LockedTypesFollow == LockedInv => Locked!LockedTypeOK
<1> SUFFICES ASSUME LockedInv PROVE Locked!LockedTypeOK
    OBVIOUS
<1>1. LocalTypes /\ SharedTypes /\ MutexesOK /\ ForestTyped /\ LinksAreCounted
    BY DEF LockedInv, ForestShape
<1>2. union_find_ranks \in [Nodes -> 0 .. Locked!Cardinality(Nodes)]
    <2>1. Locked!Cardinality(Nodes) = Cardinality(Nodes)
        BY DEF Locked!Cardinality, Cardinality
    <2>2. Linked_ \subseteq Nodes
        BY DEF Linked_
    <2>3. /\ Cardinality(Linked_) \in Nat /\ Cardinality(Nodes) \in Nat
          /\ Cardinality(Linked_) <= Cardinality(Nodes)
        BY <2>2, ConnectivityAssumption, FS_Subset, FS_CardinalityType
    <2> DEFINE c == Cardinality(Linked_)
               n == Cardinality(Nodes)
    <2>4. \A v \in Nodes : union_find_ranks[v] <= c
        BY <1>1 DEF LinksAreCounted
    <2>5. c \in Nat /\ n \in Nat /\ c <= n
        BY <2>3
    <2> HIDE DEF c, n
    <2>6. union_find_ranks \in [Nodes -> Nat]
        BY <1>1 DEF ForestTyped
    <2>7. \A v \in Nodes : union_find_ranks[v] \in 0 .. n
        BY <2>4, <2>5, <2>6
    <2>8. union_find_ranks \in [Nodes -> 0 .. n]
        BY <2>6, <2>7
    <2> QED BY <2>1, <2>8 DEF n
<1>3. \A v \in Nodes : union_find_mutexes[v] # nobody =>
        LET t == union_find_mutexes[v]
        IN  \/ at[t] = "lower locked" /\ v = ends[t][1]
            \/ at[t] \in {"both locked", "linked"} /\ v \in {ends[t][1], ends[t][2]}
    <2>1. \A v \in Nodes : union_find_mutexes[v] # nobody => union_find_mutexes[v] \in Threads
        BY <1>1 DEF SharedTypes
    <2> QED BY <2>1, <1>1 DEF MutexesOK, HeldBy, HasBoth
<1> QED BY <1>1, <1>2, <1>3 DEF Locked!LockedTypeOK, SharedTypes, LocalTypes, ForestTyped, LockSteps, Ends

\* EitherTypeOK: every variable keeps its type, a rank is at most the number of links, and
\* a mutex is held only by the thread that has locked its node.
THEOREM EitherTypeCorrect == AnySpec /\ WorkingBuild => []EitherTypeOK
<1>1. TypeOK /\ LockedInv => EitherTypeOK
    BY LockedTypesFollow DEF EitherTypeOK
<1> QED BY <1>1, DCAlone, TypeCorrect, LockedInvariance, PTL

-----------------------------------------------------------------------------
(* What is stored in the end.                                              *)

LEMMA StoredByLocks ==
    ASSUME LockedInv, Locked!Finished
    PROVE  /\ Len(locked_filtered) = Cardinality(Nodes) - Cardinality(Locked!TreeRoots)
           /\ Range(locked_filtered) = accepted /\ Cardinality(accepted) = Len(locked_filtered)
<1>1. \A t \in Threads : locked_kept[t] = <<>> /\ Len(locked_kept[t]) = 0 /\ at[t] \in {"joined", "loop"}
    BY DEF LockedInv, CrewOnly, JoinedEmpty, Locked!Finished
<1>2. locked_filtered \in Seq(Edges) /\ Len(locked_filtered) \in Nat /\ DOMAIN locked_filtered = 1 .. Len(locked_filtered)
    BY DEF LockedInv, SharedTypes
<1> DEFINE P == 1 .. Len(locked_filtered)
<1>3. \A e : e \in accepted <=> \E j \in P : locked_filtered[j] = e
    <2>1. 1 .. 0 = {}
        OBVIOUS
    <2>2. \A t \in Threads : at[t] # "linked"
        BY <1>1
    <2> QED BY <2>1, <2>2, <1>1 DEF LockedInv, AcceptedStored, KeptOrFiled
<1>4. Range(locked_filtered) = accepted
    BY <1>2, <1>3 DEF Range
<1>5. \A i, j \in P : locked_filtered[i] = locked_filtered[j] => i = j
    BY DEF LockedInv, LockedPlaces, EdgesApart
<1>6. Cardinality(accepted) = Len(locked_filtered)
    <2>1. IsFiniteSet(P) /\ Cardinality(P) = Len(locked_filtered)
        <3> DEFINE n == Len(locked_filtered)
        <3>1. 1 \in Int /\ n \in Int /\ n \in Nat
            BY <1>2
        <3> HIDE DEF n
        <3>2. IsFiniteSet(1 .. n) /\ Cardinality(1 .. n) = IF 1 > n THEN 0 ELSE n - 1 + 1
            BY ONLY <3>1, FS_Interval
        <3>3. IsFiniteSet(1 .. n) /\ Cardinality(1 .. n) = n
            BY <3>1, <3>2
        <3> QED BY <3>3 DEF n
    <2> DEFINE f == [i \in P |-> locked_filtered[i]]
    <2>2. f \in Bijection(P, accepted)
        <3>1. f \in [P -> accepted]
            BY <1>3
        <3>2. \A i, j \in P : f[i] = f[j] => i = j
            BY <1>5
        <3>3. \A e \in accepted : \E i \in P : f[i] = e
            BY <1>3
        <3> HIDE DEF f, P
        <3>4. f \in Injection(P, accepted)
            BY <3>1, <3>2 DEF Injection, IsInjective
        <3>5. f \in Surjection(P, accepted)
            BY <3>1, <3>3 DEF Surjection
        <3> QED BY <3>4, <3>5 DEF Bijection
    <2>3. ExistsBijection(P, accepted)
        BY <2>2 DEF ExistsBijection
    <2>4. Cardinality(accepted) = Cardinality(P)
        BY <2>1, <2>3, FS_Bijection
    <2> QED BY <2>1, <2>4
<1>7. Cardinality(accepted) = Cardinality(Nodes) - Cardinality(Locked!TreeRoots)
    <2>1. Locked!TreeRoots \subseteq Nodes /\ Linked_ = Nodes \ Locked!TreeRoots
        BY DEF Linked_, Locked!TreeRoots
    <2>2. IsFiniteSet(Nodes)
        BY ConnectivityAssumption
    <2>3. Cardinality(Nodes \ Locked!TreeRoots) = Cardinality(Nodes) - Cardinality(Nodes \cap Locked!TreeRoots)
        BY <2>2, FS_Difference
    <2>4. Nodes \cap Locked!TreeRoots = Locked!TreeRoots
        BY <2>1
    <2> QED BY <2>1, <2>3, <2>4 DEF LockedInv, LinksAreCounted
<1> QED BY <1>4, <1>6, <1>7

\* EdgesStoredOnce, of the lock-free union-find and of those with locks: when addEdges is
\* done, every accepted edge is at a place of its own, and no place is left free below them.
ParallelRuns == runs \in {"DC_F", "locks"}
THEOREM LockedEdgesStored == AnySpec /\ WorkingBuild => [](ParallelRuns => EdgesStoredOnce)
<1>1. LockedInv /\ FilteredEdgesStored /\ OnlyRootsAreParentless => (ParallelRuns => EdgesStoredOnce)
    <2> SUFFICES ASSUME LockedInv, FilteredEdgesStored, OnlyRootsAreParentless, ParallelRuns
                 PROVE  EdgesStoredOnce
        OBVIOUS
    <2> QED BY StoredByLocks DEF ParallelRuns, EdgesStoredOnce
<1> QED BY <1>1, DCAlone, EdgesStored, RootedForest, LockedInvariance, PTL
-----------------------------------------------------------------------------
(* The abstract spanning forest.                                           *)

LockClasses == {{v \in Nodes : Locked!TreeOf(v) = r} : r \in Locked!TreeRoots}

ClassesOfTrees == LockClasses = ClassesOf(TreeMap, Locked!TreeRoots)

LEMMA ClassesByTrees == ClassesOfTrees
<1>1. \A v \in Nodes : TreeMap[v] = Locked!TreeOf(v)
    BY DEF TreeMap, T
<1> QED BY <1>1 DEF LockClasses, ClassesOfTrees, ClassesOf, ClassOf

LEMMA LockForestBegins ==
    ASSUME Locked!LockedInit, WorkingBuild
    PROVE  LockClasses = {{v} : v \in Nodes} /\ accepted = {} /\ refused = {}
<1>1. ForestShape /\ union_find_parents = [v \in Nodes |-> v]
    BY InitLocked DEF LockedInv, Locked!LockedInit
<1>2. \A v \in Nodes : union_find_parents[v] = v
    BY <1>1
<1>3. \A v \in Nodes : Locked!TreeOf(v) = v
    BY <1>1, <1>2, TreeFacts DEF T
<1>4. Locked!TreeRoots = Nodes
    BY <1>2 DEF Locked!TreeRoots
<1>5. \A r \in Nodes : {v \in Nodes : Locked!TreeOf(v) = r} = {r}
    BY <1>3
<1>6. LockClasses = {{v} : v \in Nodes}
    BY <1>4, <1>5 DEF LockClasses
<1> QED BY <1>6 DEF Locked!LockedInit

\* What Accept and Reject of SpanningForest say of the trees.
Accepts(e) ==
    /\ \E A, B \in LockClasses :
        /\ A # B /\ e[1] \in A /\ e[2] \in B
        /\ LockClasses' = (LockClasses \ {A, B}) \cup {A \cup B}
    /\ accepted' = accepted \cup {e} /\ refused' = refused
Rejects(e) ==
    /\ \E A \in LockClasses : e[1] \in A /\ e[2] \in A
    /\ refused' = refused \cup {e} /\ accepted' = accepted /\ LockClasses' = LockClasses

\* The roots of the two ends are linked, whichever of them is hung below the other one.
LEMMA LinkAccepts ==
    ASSUME LockedInv, NEW t \in crew, Locked!Link(t)
    PROVE  \E e \in Nodes \X Nodes : Accepts(e)
<1>1. /\ t \in Threads /\ at[t] = "both locked" /\ SearchOK(t) /\ TakenOK(t) /\ ForestShape
      /\ accepted' = accepted \cup {taken[t]} /\ refused' = refused
    BY CrewThreads DEF LockedInv, Locked!Link, Locked!Step
<1>2. PICK e \in Nodes \X Nodes : e = taken[t]
    BY <1>1, EdgesOfNodes DEF TakenOK, Uniting
<1>3. PICK ab \in Nodes \X Nodes : ab = ends[t] /\ SameTrees(ab, e)
    BY <1>1, <1>2 DEF SearchOK, Uniting
<1>4. ForestShape' /\ \E low, high \in {ab[1], ab[2]} : HungUnder(low, high)
    BY <1>3, LinkHangs
<1>5. PICK low \in {ab[1], ab[2]} : \E high \in {ab[1], ab[2]} : HungUnder(low, high)
    BY <1>4
<1>6. PICK high \in {ab[1], ab[2]} : HungUnder(low, high)
    BY <1>5
<1>7. /\ low \in Nodes /\ high \in Nodes /\ low # high
      /\ union_find_parents[low] = low /\ union_find_parents[high] = high
      /\ union_find_parents' = [union_find_parents EXCEPT ![low] = high]
    BY <1>6 DEF HungUnder
<1>8. \A v \in Nodes : T(v)' = IF T(v) = low THEN high ELSE T(v)
    BY <1>1, <1>4, <1>7, TreesAfterLink
<1>9. \A v \in Nodes : TreeMap[v] = T(v) /\ TreeMap'[v] = T(v)'
    BY DEF TreeMap
<1>10. /\ low \in Locked!TreeRoots /\ high \in Locked!TreeRoots
       /\ Locked!TreeRoots \in SUBSET Nodes
       /\ \A r \in Locked!TreeRoots : TreeMap[r] = r
    BY <1>1, <1>7, <1>9, TreeFacts DEF Locked!TreeRoots
<1>11. \A v \in Nodes : TreeMap'[v] = IF TreeMap[v] = low THEN high ELSE TreeMap[v]
    BY <1>8, <1>9
<1>12. Locked!TreeRoots' = Locked!TreeRoots \ {low}
    <2>1. \A v \in Nodes : union_find_parents'[v] = IF v = low THEN high ELSE union_find_parents[v]
        BY <1>1, <1>7 DEF ForestShape, ForestTyped
    <2> QED BY <2>1, <1>7 DEF Locked!TreeRoots
<1> DEFINE A == ClassOf(TreeMap, low)
           B == ClassOf(TreeMap, high)
<1>13. /\ A # B /\ A \in LockClasses /\ B \in LockClasses
       /\ LockClasses' = (LockClasses \ {A, B}) \cup {A \cup B}
    <2>0. ClassesOfTrees /\ ClassesOfTrees'
        BY ClassesByTrees, PTL
    <2>1. LockClasses' = ClassesOf(TreeMap', Locked!TreeRoots \ {low})
          /\ LockClasses = ClassesOf(TreeMap, Locked!TreeRoots)
        BY <2>0, <1>12 DEF ClassesOfTrees, ClassesOf, ClassOf
    <2> QED BY <2>1, <1>7, <1>10, <1>11, ClassesMerge
<1>14. (TreeMap[e[1]] = low /\ TreeMap[e[2]] = high) \/ (TreeMap[e[2]] = low /\ TreeMap[e[1]] = high)
    <2>1. TreeMap[low] = low /\ TreeMap[high] = high
        BY <1>10
    <2>2. (low = ab[1] /\ high = ab[2]) \/ (low = ab[2] /\ high = ab[1])
        BY <1>7
    <2> QED BY <2>1, <2>2, <1>3 DEF SameTrees
<1>15. (e[1] \in A /\ e[2] \in B) \/ (e[2] \in A /\ e[1] \in B)
    BY <1>14 DEF ClassOf
<1> HIDE DEF A, B
<1>16. \E X, Y \in LockClasses :
        /\ X # Y /\ e[1] \in X /\ e[2] \in Y
        /\ LockClasses' = (LockClasses \ {X, Y}) \cup {X \cup Y}
    <2>1. A \cup B = B \cup A /\ {A, B} = {B, A}
        OBVIOUS
    <2> QED BY <1>13, <1>15, <2>1
<1> QED BY <1>1, <1>2, <1>16 DEF Accepts

\* Only what is in one tree already is refused.
LEMMA RefuseRejects ==
    ASSUME LockedInv, NEW t \in crew, Locked!RefuseEdge(t)
    PROVE  \E e \in Nodes \X Nodes : Rejects(e)
<1>1. /\ t \in Threads /\ at[t] = "compare" /\ SearchOK(t) /\ TakenOK(t) /\ ForestShape
      /\ ends[t][1] = ends[t][2]
      /\ refused' = refused \cup {taken[t]} /\ accepted' = accepted
      /\ union_find_parents' = union_find_parents
    BY CrewThreads DEF LockedInv, Locked!RefuseEdge, Locked!structure
<1>2. PICK e \in Nodes \X Nodes : e = taken[t]
    BY <1>1, EdgesOfNodes DEF TakenOK, Uniting
<1>3. TreeMap[e[1]] = TreeMap[e[2]]
    BY <1>1, <1>2 DEF SearchOK, Uniting, SameTrees
<1>4. e[1] \in Nodes /\ e[2] \in Nodes
    OBVIOUS
<1>5. TreeMap[e[1]] = Locked!TreeOf(e[1]) /\ TreeMap[e[2]] = Locked!TreeOf(e[2])
    BY <1>4 DEF TreeMap, T
<1>6. Locked!TreeOf(e[1]) \in Locked!TreeRoots
    BY <1>1, <1>4, TreeFacts DEF T, Locked!TreeRoots
<1>7. {v \in Nodes : Locked!TreeOf(v) = Locked!TreeOf(e[1])} \in LockClasses
    BY <1>6 DEF LockClasses
<1>8. \E A \in LockClasses : e[1] \in A /\ e[2] \in A
    BY <1>3, <1>4, <1>5, <1>7
<1>9. LockClasses' = LockClasses
    BY <1>1 DEF LockClasses, Locked!TreeOf, Locked!TreeRoots
<1> QED BY <1>1, <1>2, <1>8, <1>9 DEF Rejects

\* A compression moves nodes within their trees.
LEMMA ShortenKeeps ==
    ASSUME LockedInv, NEW t \in crew, Locked!Shorten(t)
    PROVE  UNCHANGED <<LockClasses, accepted, refused>>
<1>1. accepted' = accepted /\ refused' = refused
    BY DEF Locked!Shorten, Locked!lockedHistory
<1>2. CASE union_find_parents' = union_find_parents
    BY <1>1, <1>2 DEF LockClasses, Locked!TreeOf, Locked!TreeRoots
<1>3. CASE union_find_parents' # union_find_parents
    <2>1. /\ node[t] \in Nodes /\ union_find_parents[node[t]] # node[t]
          /\ union_find_parents' = [union_find_parents EXCEPT ![node[t]] = T(node[t])]
        BY <1>3, ShortenHangs
    <2>2. ForestShape /\ ForestShape'
        BY <1>3, ShortenShape DEF LockedInv
    <2>3. \A v \in Nodes : T(v)' = T(v)
        BY <2>1, <2>2, TreesAfterShorten
    <2>4. TreeMap' = TreeMap
        BY <2>3 DEF TreeMap
    <2>5. T(node[t]) # node[t]
        BY <2>1, <2>2, TreeFacts
    <2>6. \A v \in Nodes : union_find_parents'[v] = IF v = node[t] THEN T(node[t]) ELSE union_find_parents[v]
        BY <2>1, <2>2 DEF ForestShape, ForestTyped
    <2>7. Locked!TreeRoots' = Locked!TreeRoots
        BY <2>1, <2>5, <2>6 DEF Locked!TreeRoots
    <2>8. ClassesOfTrees /\ ClassesOfTrees'
        BY ClassesByTrees, PTL
    <2> QED BY <1>1, <2>4, <2>7, <2>8 DEF ClassesOfTrees
<1> QED BY <1>2, <1>3

\* The other steps do not change the forest.
LEMMA ForestKept ==
    ASSUME NEW t, ThreadStep(t), ~Locked!Shorten(t), ~Locked!Link(t), ~Locked!RefuseEdge(t)
    PROVE  UNCHANGED <<LockClasses, accepted, refused>>
<1>1. refused' = refused
    BY DEF ThreadStep, Locked!TakeEdge, Locked!FindStep, Locked!FollowParent, Locked!ReachRoot,
           Locked!CompressStep, Locked!CompressionEnds, Locked!CompressionGoesOn, Locked!ReadParent,
           Locked!UniteStep, Locked!TryToLock, Locked!TryLockTrees, Locked!LockLower,
           Locked!LowerNotLocked, Locked!LockUpper, Locked!UpperNotLocked, Locked!UpperNoRoot, Locked!Unlock,
           Locked!StoreKept, Locked!lockedHistory
<1>2. accepted' = accepted /\ union_find_parents' = union_find_parents
    BY ParentsStay
<1>3. LockClasses' = LockClasses
    BY <1>2 DEF LockClasses, Locked!TreeOf, Locked!TreeRoots
<1> QED BY <1>1, <1>2, <1>3

LEMMA LockForestSteps ==
    ASSUME LockedInv, [Locked!LockedNext]_(Locked!lockedVars)
    PROVE  \/ \E e \in Nodes \X Nodes : Accepts(e) \/ Rejects(e)
           \/ UNCHANGED <<LockClasses, accepted, refused>>
<1>1. CASE UNCHANGED Locked!lockedVars
    <2>1. union_find_parents' = union_find_parents /\ UNCHANGED <<accepted, refused>>
        BY <1>1 DEF Locked!lockedVars, Locked!structure, Locked!lockedHistory
    <2>2. LockClasses' = LockClasses
        BY <2>1 DEF LockClasses, Locked!TreeOf, Locked!TreeRoots
    <2> QED BY <2>1, <2>2
<1>2. CASE Locked!LockedNext
    <2>1. PICK t \in crew : ThreadStep(t)
        BY <1>2, LockedThreads
    <2> QED BY <2>1, LinkAccepts, RefuseRejects, ShortenKeeps, ForestKept
<1> QED BY <1>1, <1>2

LEMMA AnyForestBegins ==
    ASSUME AnyInit, WorkingBuild, ParallelRuns
    PROVE  AnyForest!ForestInit
<1>1. Init /\ Locked!LockedInit
    BY DEF AnyInit
<1>2. CASE runs = "locks"
    BY <1>1, <1>2, LockForestBegins DEF AnyForest!ForestInit, LockClasses
<1>3. CASE runs = "DC_F"
    BY <1>1, <1>3, ForestBegins DEF AnyForest!ForestInit, Forest!ForestInit
<1> QED BY <1>2, <1>3 DEF ParallelRuns

LEMMA AnyForestSteps ==
    ASSUME StoreInv, LockedInv, ParallelRuns,
           [AnyNext]_<<vars, locked, built, alone, referenced, runs>>
    PROVE  [AnyForest!ForestNext]_(AnyForest!forestVars) /\ ParallelRuns'
<1>1. runs' = runs /\ [Next]_vars /\ [Locked!LockedNext]_(Locked!lockedVars)
    BY DEF AnyNext, locked, Locked!lockedVars, Locked!structure, Locked!cursor, Locked!lockedHistory, Locked!output
<1>2. CASE runs = "locks"
    <2>1. ASSUME NEW e \in Nodes \X Nodes, Accepts(e) PROVE AnyForest!Accept(e)
        BY <1>1, <1>2, <2>1 DEF AnyForest!Accept, Accepts, LockClasses
    <2>2. ASSUME NEW e \in Nodes \X Nodes, Rejects(e) PROVE AnyForest!Reject(e)
        BY <1>1, <1>2, <2>2 DEF AnyForest!Reject, Rejects, LockClasses
    <2>3. ASSUME UNCHANGED <<LockClasses, accepted, refused>> PROVE UNCHANGED AnyForest!forestVars
        BY <1>1, <1>2, <2>3 DEF AnyForest!forestVars, LockClasses
    <2> QED BY <1>1, <1>2, <2>1, <2>2, <2>3, LockForestSteps DEF AnyForest!ForestNext, ParallelRuns
<1>3. CASE runs = "DC_F"
    <2>1. ASSUME NEW e \in Nodes \X Nodes, Forest!Accept(e) PROVE AnyForest!Accept(e)
        BY <1>1, <1>3, <2>1 DEF AnyForest!Accept, Forest!Accept
    <2>2. ASSUME NEW e \in Nodes \X Nodes, Forest!Reject(e) PROVE AnyForest!Reject(e)
        BY <1>1, <1>3, <2>2 DEF AnyForest!Reject, Forest!Reject
    <2>3. ASSUME UNCHANGED Forest!forestVars PROVE UNCHANGED AnyForest!forestVars
        BY <1>1, <1>3, <2>3 DEF AnyForest!forestVars, Forest!forestVars
    <2>4. [Forest!ForestNext]_(Forest!forestVars)
        BY <1>1, ForestSteps
    <2> QED BY <1>1, <1>3, <2>1, <2>2, <2>3, <2>4 DEF AnyForest!ForestNext, Forest!ForestNext, ParallelRuns
<1> QED BY <1>2, <1>3 DEF ParallelRuns

\* AnyImplementsForest, of the lock-free union-find and of those with locks: unite() accepts an
\* edge when it joins two trees, and refuses none but those whose ends are in one tree.
THEOREM LockedImplementsForest == AnySpec /\ WorkingBuild /\ ParallelRuns => AnyImplementsForest
<1>1. AnyInit /\ WorkingBuild /\ ParallelRuns => AnyForest!ForestInit
    BY AnyForestBegins
<1>2. StoreInv /\ LockedInv /\ ParallelRuns /\ [AnyNext]_<<vars, locked, built, alone, referenced, runs>>
        => [AnyForest!ForestNext]_(AnyForest!forestVars) /\ ParallelRuns'
    BY AnyForestSteps
<1> QED BY <1>1, <1>2, DCAlone, StorageInvariance, LockedInvariance, PTL
        DEF AnySpec, AnyImplementsForest, AnyForest!ForestSpec
=============================================================================

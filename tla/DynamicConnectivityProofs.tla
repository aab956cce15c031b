---------------------- MODULE DynamicConnectivityProofs ----------------------
(***************************************************************************)
(* Proofs about DynamicConnectivity for any number of nodes, any set of    *)
(* threads, any queries and any blocks of edges: however the links, the    *)
(* raises and the path compressions of the threads interleave, a parent is *)
(* above its child in the order of ranks and ids, a tree is as large as    *)
(* the rank of its root says, and connected() answers what is true.  The   *)
(* edges that addEdges keeps are a spanning forest, are stored at places   *)
(* of their own, and give every node but the roots a parent.               *)
(***************************************************************************)
EXTENDS DynamicConnectivity, FiniteSetTheorems, SequenceTheorems, WellFoundedInduction, TLAPS

Steps == {"idle", "loop", "find", "compress", "compare", "raise", "store", "joined"}
Calling(t) == pc[t] \in {"find", "compress", "compare", "raise"}

\* Nothing is said here of the counters of addEdges and of how large a rank can be.
Types ==
    /\ union_find \in [Nodes -> Int]
    /\ \A v \in Nodes : union_find[v] >= 0 => union_find[v] \in Nodes
    /\ lastRank \in [Nodes -> Nat]
    /\ block \in Nat /\ todo \subseteq Nodes \X Nodes
    /\ pc \in [Threads -> Steps] /\ side \in [Threads -> {1, 2}]
    /\ a \in [Threads -> Int \X Int] /\ rank \in [Threads -> Nat \X Nat]
    /\ path \in [Threads -> Seq(Nodes)]

\* A call has two nodes as a and b; ranks are zero until they are loaded, and the queries
\* do not load them.  compress and raise are steps of unite().
Called(t) ==
    /\ Calling(t) => a[t] \in Nodes \X Nodes
    /\ ~Calling(t) \/ t \notin team => rank[t] = <<0, 0>>
    /\ pc[t] \notin {"find", "compress"} => path[t] = <<>>
    /\ pc[t] \in {"compress", "raise"} => t \in team

\* The nodes found on the way to a representative have been linked, each below the next
\* one, and the last one below the representative that they will be compressed to.
Climbs(t) ==
    /\ pc[t] = "find" => path[t] # <<>>
    /\ \A i \in 1 .. Len(path[t]) - 1 :
        ~IsRoot(path[t][i]) /\ Below(path[t][i], path[t][i + 1])
    /\ pc[t] = "compress" =>
        LET k == Len(path[t])
        IN  k >= 2 /\ ~IsRoot(path[t][k]) /\ Below(path[t][k], a[t][side[t]])

\* A node has at least the rank it was found with, and unite() compares, links and raises
\* with ranks that were found.
Loaded(t) ==
    /\ \A i \in 1 .. 2 : rank[t][i] # 0 => RankOf(a[t][i]) >= rank[t][i]
    /\ t \in team =>
        /\ pc[t] \in {"find", "compress"} /\ side[t] = 2 => rank[t][1] # 0
        /\ pc[t] = "compress" => rank[t][side[t]] # 0
        /\ pc[t] \in {"compare", "raise"} => rank[t][1] # 0 /\ rank[t][2] # 0

ThreadOK(t) == Called(t) /\ Climbs(t) /\ Loaded(t)

\* The inductive invariant.
IInv == Types /\ ParentsOutrank /\ \A t \in Threads : ThreadOK(t)

\* A node never becomes a root again, and a rank is never lowered.
RanksGrow ==
    \A v \in Nodes :
        /\ RankOf(v)' >= RankOf(v)
        /\ ~IsRoot(v) => ~IsRoot(v)' /\ RankOf(v)' = RankOf(v)
-----------------------------------------------------------------------------
LEMMA NodesAreNaturals == Nodes \subseteq Nat
BY ConnectivityAssumption, FS_CardinalityType

LEMMA PairsOfNodes == Nodes \X Nodes \subseteq Int \X Int
<1>1. Nodes \subseteq Int
    BY NodesAreNaturals
<1> QED BY <1>1

LEMMA PathOfOne == \A v \in Nodes : <<v>> \in Seq(Nodes) /\ Len(<<v>>) = 1 /\ <<v>> # <<>>
OBVIOUS

LEMMA ShortPath == \A n \in {0, 1} : \A i \in 1 .. n - 1 : FALSE
OBVIOUS

\* A pair with one of its sides replaced.
LEMMA PairUpdated ==
    ASSUME NEW S, NEW p \in S \X S, NEW i \in {1, 2}, NEW x \in S
    PROVE  /\ [p EXCEPT ![i] = x] \in S \X S
           /\ [p EXCEPT ![i] = x][i] = x /\ [p EXCEPT ![i] = x][3 - i] = p[3 - i]
<1>1. CASE i = 1
    BY <1>1
<1>2. CASE i = 2
    BY <1>2
<1> QED BY <1>1, <1>2

\* Ranks are numbers, that of a root is positive, and what is not a root has a parent.
LEMMA RanksTyped ==
    ASSUME Types, NEW v \in Nodes
    PROVE  /\ RankOf(v) \in Nat
           /\ IsRoot(v) => RankOf(v) >= 1 /\ union_find[v] = -RankOf(v)
           /\ ~IsRoot(v) => union_find[v] \in Nodes
<1>1. union_find[v] \in Int /\ lastRank[v] \in Nat /\ (union_find[v] >= 0 => union_find[v] \in Nodes)
    BY DEF Types
<1>2. CASE union_find[v] < 0
    BY <1>1, <1>2 DEF RankOf, IsRoot
<1>3. CASE union_find[v] >= 0
    BY <1>1, <1>3 DEF RankOf, IsRoot
<1> QED BY <1>1, <1>2, <1>3

LEMMA RanksStayNatural ==
    ASSUME Types', NEW v \in Nodes
    PROVE  RankOf(v)' \in Nat
<1>1. union_find'[v] \in Int /\ lastRank'[v] \in Nat
    BY DEF Types
<1> QED BY <1>1 DEF RankOf, IsRoot

\* The order of ranks and ids is transitive.
LEMMA BelowTransitive ==
    ASSUME Types, NEW u \in Nodes, NEW v \in Nodes, NEW w \in Nodes, Below(u, v), Below(v, w)
    PROVE  Below(u, w)
BY NodesAreNaturals, RanksTyped DEF Below

\* What has been linked below a node stays below it, as ranks only grow.
LEMMA BelowStable ==
    ASSUME Types, Types', RanksGrow, NEW u \in Nodes, NEW v \in Nodes, ~IsRoot(u), Below(u, v)
    PROVE  ~IsRoot(u)' /\ Below(u, v)'
<1>1. /\ RankOf(u) \in Nat /\ RankOf(v) \in Nat
      /\ RankOf(u)' \in Nat /\ RankOf(v)' \in Nat
    <2>1. RankOf(u) \in Nat /\ RankOf(v) \in Nat
        BY RanksTyped
    <2>2. RankOf(u)' \in Nat /\ RankOf(v)' \in Nat
        BY RanksStayNatural
    <2> QED BY <2>1, <2>2
<1>2. ~IsRoot(u)' /\ RankOf(u)' = RankOf(u) /\ RankOf(v)' >= RankOf(v)
    BY DEF RanksGrow
<1> QED BY <1>1, <1>2, NodesAreNaturals DEF Below

\* A step that changes neither the parents nor the ranks.
LEMMA QuietStep ==
    ASSUME Types, ParentsOutrank, UNCHANGED <<union_find, lastRank>>
    PROVE  RanksGrow /\ ParentsOutrank'
<1>1. \A v \in Nodes : RankOf(v)' = RankOf(v) /\ (IsRoot(v)' <=> IsRoot(v))
    BY DEF RankOf, IsRoot
<1>2. RanksGrow
    BY <1>1, RanksTyped DEF RanksGrow
<1>3. ParentsOutrank'
    BY <1>1, RanksTyped DEF ParentsOutrank, Below
<1> QED BY <1>2, <1>3

\* A thread whose locals do not change is not disturbed by the steps of the others.
LEMMA OtherThread ==
    ASSUME IInv, Types', RanksGrow, NEW u \in Threads,
           pc'[u] = pc[u], side'[u] = side[u], a'[u] = a[u], rank'[u] = rank[u], path'[u] = path[u],
           u \in team' <=> u \in team
    PROVE  ThreadOK(u)'
<1>1. ThreadOK(u) /\ Types
    BY DEF IInv
<1>2. path[u] \in Seq(Nodes) /\ side[u] \in {1, 2} /\ rank[u] \in Nat \X Nat
    BY <1>1 DEF Types
<1>3. Called(u)'
    BY <1>1 DEF ThreadOK, Called, Calling
<1>4. Climbs(u)'
    <2>1. ASSUME NEW i \in 1 .. Len(path[u]) - 1
          PROVE  (~IsRoot(path[u][i]) /\ Below(path[u][i], path[u][i + 1]))'
        <3>1. PICK x \in Nodes, y \in Nodes : x = path[u][i] /\ y = path[u][i + 1]
            BY <1>2
        <3>2. ~IsRoot(x) /\ Below(x, y)
            BY <3>1, <1>1 DEF ThreadOK, Climbs
        <3>3. ~IsRoot(x)' /\ Below(x, y)'
            BY <3>2, <1>1, BelowStable
        <3> QED BY <3>1, <3>3 DEF IsRoot, Below, RankOf
    <2>2. ASSUME pc[u] = "compress"
          PROVE  LET k == Len(path[u])
                 IN  k >= 2 /\ (~IsRoot(path[u][k]) /\ Below(path[u][k], a[u][side[u]]))'
        <3>1. Len(path[u]) >= 2 /\ a[u] \in Nodes \X Nodes
            BY <1>1, <2>2 DEF ThreadOK, Climbs, Called, Calling
        <3>2. PICK x \in Nodes, y \in Nodes : x = path[u][Len(path[u])] /\ y = a[u][side[u]]
            BY <1>2, <3>1
        <3>3. ~IsRoot(x) /\ Below(x, y)
            BY <2>2, <3>2, <1>1 DEF ThreadOK, Climbs
        <3>4. ~IsRoot(x)' /\ Below(x, y)'
            BY <3>3, <1>1, BelowStable
        <3> QED BY <3>1, <3>2, <3>4 DEF IsRoot, Below, RankOf
    <2>3. pc[u] = "find" => path[u] # <<>>
        BY <1>1 DEF ThreadOK, Climbs
    <2> QED BY <2>1, <2>2, <2>3 DEF Climbs
<1>5. Loaded(u)'
    <2>1. ASSUME NEW i \in 1 .. 2, rank[u][i] # 0
          PROVE  RankOf(a[u][i])' >= rank[u][i]
        <3>1. a[u] \in Nodes \X Nodes
            BY <1>1, <2>1, <1>2 DEF ThreadOK, Called
        <3>2. PICK x \in Nodes : x = a[u][i]
            BY <3>1
        <3>3. RankOf(x) >= rank[u][i] /\ rank[u][i] \in Nat
            BY <1>1, <1>2, <2>1, <3>2 DEF ThreadOK, Loaded
        <3>4. RankOf(x)' >= RankOf(x) /\ RankOf(x) \in Nat /\ RankOf(x)' \in Nat
            <4>1. RankOf(x)' >= RankOf(x)
                BY DEF RanksGrow
            <4>2. RankOf(x) \in Nat
                BY <1>1, RanksTyped
            <4>3. RankOf(x)' \in Nat
                BY RanksStayNatural
            <4> QED BY <4>1, <4>2, <4>3
        <3>5. RankOf(x)' >= rank[u][i]
            BY <3>3, <3>4
        <3> QED BY <3>2, <3>5 DEF RankOf, IsRoot
    <2> QED BY <2>1, <1>1 DEF ThreadOK, Loaded
<1> QED BY <1>3, <1>4, <1>5 DEF ThreadOK

\* A thread that is in no call.
LEMMA OutsideCalls ==
    ASSUME NEW t \in Threads, pc'[t] \in {"idle", "loop", "store", "joined"},
           rank'[t] = <<0, 0>>, path'[t] = <<>>
    PROVE  ThreadOK(t)'
BY DEF ThreadOK, Called, Calling, Climbs, Loaded

\* The steps of one thread, once its own locals have been looked at.
LEMMA OneThread ==
    ASSUME IInv, Types', RanksGrow, ParentsOutrank', NEW t \in Threads, ThreadOK(t)', team' = team,
           \A u \in Threads \ {t} :
               /\ pc'[u] = pc[u] /\ side'[u] = side[u] /\ a'[u] = a[u]
               /\ rank'[u] = rank[u] /\ path'[u] = path[u]
    PROVE  IInv'
<1>1. ASSUME NEW u \in Threads, u # t PROVE ThreadOK(u)'
    BY <1>1, OtherThread
<1> QED BY <1>1 DEF IInv

LEMMA InitIInv == Init => IInv
<1> SUFFICES ASSUME Init PROVE IInv
    OBVIOUS
<1>1. \A v \in Nodes : union_find[v] = -1 /\ IsRoot(v)
    BY DEF Init, FirstRank, IsRoot
<1>2. Types
    BY <1>1 DEF Init, FirstRank, Types, Steps, NoEdge
<1>3. ParentsOutrank
    BY <1>1 DEF ParentsOutrank
<1>4. ASSUME NEW t \in Threads PROVE ThreadOK(t)
    BY DEF Init, ThreadOK, Called, Calling, Climbs, Loaded
<1> QED BY <1>2, <1>3, <1>4 DEF IInv

\* Threads become a team, or cease to be one, between their calls.
LEMMA TeamIInv ==
    ASSUME IInv, BeginBlock \/ BuildForest
    PROVE  IInv'
<1>1. UNCHANGED <<union_find, lastRank, call>>
    BY DEF BeginBlock, BuildForest, forest, call, history
<1>2. Types'
    <2>1. pc' \in [Threads -> Steps]
        BY DEF IInv, Types, Steps, BeginBlock, BuildForest
    <2>2. block' \in Nat /\ todo' \subseteq Nodes \X Nodes
        <3>1. CASE BeginBlock
            <4>1. block + 1 \in 1 .. Len(Blocks)
                BY <3>1, ConnectivityAssumption DEF BeginBlock, IInv, Types
            <4>2. Blocks[block + 1] \in SUBSET (Nodes \X Nodes)
                BY <4>1, ConnectivityAssumption
            <4> QED BY <3>1, <4>1, <4>2 DEF BeginBlock, IInv, Types
        <3>2. CASE BuildForest
            BY <3>2 DEF BuildForest, IInv, Types
        <3> QED BY <3>1, <3>2
    <2> QED BY <1>1, <2>1, <2>2 DEF IInv, Types, call
<1>3. RanksGrow /\ ParentsOutrank'
    BY <1>1, QuietStep DEF IInv
<1>4. ASSUME NEW u \in Threads PROVE ThreadOK(u)'
    <2>1. CASE pc'[u] = pc[u] /\ (u \in team' <=> u \in team)
        BY <1>1, <1>2, <1>3, <2>1, OtherThread DEF call
    <2>2. CASE ~(pc'[u] = pc[u] /\ (u \in team' <=> u \in team))
        <3>1. pc[u] \in {"idle", "joined"} /\ pc'[u] \in {"idle", "loop"}
            BY <2>2 DEF BeginBlock, BuildForest, IInv, Types
        <3>2. rank[u] = <<0, 0>> /\ path[u] = <<>>
            BY <3>1 DEF IInv, ThreadOK, Called, Calling
        <3> QED BY <1>1, <3>1, <3>2, OutsideCalls DEF call
    <2> QED BY <2>1, <2>2
<1> QED BY <1>2, <1>3, <1>4 DEF IInv

\* A call begins with the first of its nodes.
LEMMA CallIInv ==
    ASSUME IInv, NEW t \in Threads, TakeEdge(t) \/ AskConnected(t)
    PROVE  IInv'
<1>1. PICK e \in Nodes \X Nodes, from \in {"loop", "idle"} : Call(t, from, e)
    BY ConnectivityAssumption DEF TakeEdge, AskConnected, IInv, Types
<1>2. UNCHANGED <<union_find, lastRank, block, team>> /\ todo' \subseteq todo
    BY DEF TakeEdge, AskConnected, forest, loop, history
<1>3. rank[t] = <<0, 0>>
    BY <1>1 DEF Call, Goto, IInv, ThreadOK, Called, Calling
<1>4. Types'
    <2>1. e \in Int \X Int /\ e[1] \in Nodes /\ <<e[1]>> \in Seq(Nodes)
        <3>1. e[1] \in Nodes
            OBVIOUS
        <3> QED BY <3>1, PairsOfNodes, PathOfOne
    <2>2. a' \in [Threads -> Int \X Int]
        BY <1>1, <2>1 DEF IInv, Types, Call
    <2>3. path' \in [Threads -> Seq(Nodes)]
        BY <1>1, <2>1 DEF IInv, Types, Call
    <2>4. pc' \in [Threads -> Steps] /\ side' \in [Threads -> {1, 2}]
        BY <1>1 DEF IInv, Types, Steps, Call, Goto
    <2>5. rank' = rank
        BY <1>1 DEF Call
    <2> QED BY <1>2, <2>2, <2>3, <2>4, <2>5 DEF IInv, Types
<1>5. ThreadOK(t)'
    BY <1>1, <1>2, <1>3 DEF IInv, Types, Call, Goto, ThreadOK, Called, Calling, Climbs, Loaded
<1>6. RanksGrow /\ ParentsOutrank'
    BY <1>2, QuietStep DEF IInv
<1> QED BY <1>1, <1>2, <1>4, <1>5, <1>6, OneThread DEF IInv, Types, Call, Goto

\* The walk goes on to the parent of the last node, which is above it.
LEMMA FollowIInv ==
    ASSUME IInv, NEW t \in Threads, Follow(t)
    PROVE  IInv'
<1> DEFINE p == path[t]
           k == Len(p)
           w == union_find[p[k]]
<1>1. UNCHANGED <<union_find, lastRank, block, todo, team, pc, side, a, rank>>
    BY DEF Follow, forest, loop, history
<1>2. /\ p \in Seq(Nodes) /\ k \in Nat /\ k >= 1 /\ p[k] \in Nodes
      /\ pc[t] = "find" /\ ~IsRoot(p[k])
    <2>1. p \in Seq(Nodes) /\ pc[t] = "find" /\ ~IsRoot(p[k])
        BY DEF Follow, IInv, Types
    <2>2. k \in Nat /\ k >= 1
        BY <2>1 DEF IInv, ThreadOK, Climbs
    <2> QED BY <2>1, <2>2
<1>3. w \in Nodes /\ Below(p[k], w)
    BY <1>2, RanksTyped DEF IInv, ParentsOutrank
<1>4. path' = [path EXCEPT ![t] = IF t \in team THEN Append(p, w) ELSE <<w>>]
    BY DEF Follow
<1>5. path'[t] = IF t \in team THEN Append(p, w) ELSE <<w>>
    BY <1>4 DEF IInv, Types
<1>6. path'[t] \in Seq(Nodes) /\ path'[t] # <<>>
    <2>1. CASE t \in team
        BY <2>1, <1>2, <1>3, <1>5
    <2>2. CASE t \notin team
        BY <2>2, <1>3, <1>5, PathOfOne
    <2> QED BY <2>1, <2>2
<1>7. Types'
    BY <1>1, <1>4, <1>5, <1>6 DEF IInv, Types
<1>8. ASSUME NEW i \in 1 .. Len(path'[t]) - 1
      PROVE  ~IsRoot(path'[t][i]) /\ Below(path'[t][i], path'[t][i + 1])
    <2>1. path'[t] = Append(p, w) /\ Len(path'[t]) = k + 1
        <3>1. CASE t \in team
            BY <3>1, <1>2, <1>3, <1>5
        <3>2. CASE t \notin team
            BY <3>2, <1>3, <1>5, PathOfOne
        <3> QED BY <3>1, <3>2
    <2>2. CASE i = k
        BY <2>1, <2>2, <1>2, <1>3
    <2>3. CASE i < k
        <3>1. path'[t][i] = p[i] /\ path'[t][i + 1] = p[i + 1] /\ i \in 1 .. k - 1
            BY <2>1, <2>3, <1>2, <1>3
        <3> QED BY <3>1 DEF IInv, ThreadOK, Climbs
    <2> QED BY <2>1, <2>2, <2>3, <1>2
<1>9. Climbs(t)'
    BY <1>1, <1>2, <1>6, <1>8 DEF Climbs, Below, RankOf, IsRoot
<1>10. Called(t)' /\ Loaded(t)'
    BY <1>1, <1>2 DEF IInv, ThreadOK, Called, Calling, Loaded, RankOf, IsRoot
<1>11. RanksGrow /\ ParentsOutrank'
    BY <1>1, QuietStep DEF IInv
<1>12. \A u \in Threads \ {t} : path'[u] = path[u]
    BY <1>4 DEF IInv, Types
<1> QED BY <1>1, <1>7, <1>9, <1>10, <1>11, <1>12, OneThread DEF ThreadOK

\* After a representative, the other end of the edge is climbed from or both are compared.
LEMMA FoundOK ==
    ASSUME Types, NEW t \in Threads, NEW root, Found(t, root), a[t] \in Nodes \X Nodes
    PROVE  /\ pc' \in [Threads -> Steps] /\ side' \in [Threads -> {1, 2}]
           /\ path' \in [Threads -> Seq(Nodes)]
           /\ \A u \in Threads \ {t} : pc'[u] = pc[u] /\ side'[u] = side[u] /\ path'[u] = path[u]
           /\ \/ side[t] = 1 /\ pc'[t] = "find" /\ side'[t] = 2 /\ Len(path'[t]) = 1 /\ path'[t] # <<>>
              \/ side[t] = 2 /\ pc'[t] = "compare" /\ side'[t] = 2 /\ path'[t] = <<>>
<1>1. side[t] \in {1, 2} /\ a[t][2] \in Nodes
    BY DEF Types
<1>2. CASE side[t] = 1
    <2> DEFINE first == <<a[t][2]>>
    <2>1. first \in Seq(Nodes) /\ Len(first) = 1 /\ first # <<>>
        BY <1>1, PathOfOne
    <2>2. /\ side' = [side EXCEPT ![t] = 2] /\ pc' = [pc EXCEPT ![t] = "find"]
          /\ path' = [path EXCEPT ![t] = first]
        BY <1>2 DEF Found
    <2> HIDE DEF first
    <2> QED BY <1>2, <2>1, <2>2 DEF Types, Steps
<1>3. CASE side[t] = 2
    <2>1. <<>> \in Seq(Nodes)
        OBVIOUS
    <2>2. /\ side' = side /\ pc' = [pc EXCEPT ![t] = "compare"]
          /\ path' = [path EXCEPT ![t] = <<>>]
        BY <1>3 DEF Found
    <2> QED BY <1>3, <2>1, <2>2 DEF Types, Steps
<1> QED BY <1>1, <1>2, <1>3

\* A representative is found, with its rank.
LEMMA FindRootIInv ==
    ASSUME IInv, NEW t \in Threads, FindRoot(t)
    PROVE  IInv'
<1> DEFINE p == path[t]
           k == Len(p)
           s == side[t]
           root == p[k]
<1>1. UNCHANGED <<union_find, lastRank, block, todo, team>>
    BY DEF FindRoot, forest, loop, history
<1>2. /\ p \in Seq(Nodes) /\ k \in Nat /\ k >= 1 /\ root \in Nodes /\ s \in {1, 2}
      /\ pc[t] = "find" /\ IsRoot(root) /\ a[t] \in Nodes \X Nodes /\ rank[t] \in Nat \X Nat
    <2>1. p \in Seq(Nodes) /\ pc[t] = "find" /\ IsRoot(root) /\ s \in {1, 2} /\ rank[t] \in Nat \X Nat
        BY DEF FindRoot, IInv, Types
    <2>2. k \in Nat /\ k >= 1 /\ a[t] \in Nodes \X Nodes
        BY <2>1 DEF IInv, ThreadOK, Climbs, Called, Calling
    <2> QED BY <2>1, <2>2
<1>3. a' = [a EXCEPT ![t] = [a[t] EXCEPT ![s] = root]]
    BY DEF FindRoot
<1>4. /\ a'[t] = [a[t] EXCEPT ![s] = root] /\ a'[t] \in Nodes \X Nodes
      /\ a'[t][s] = root /\ a'[t][3 - s] = a[t][3 - s]
    <2>1. a'[t] = [a[t] EXCEPT ![s] = root]
        BY <1>3 DEF IInv, Types
    <2> HIDE DEF root, s
    <2>2. /\ [a[t] EXCEPT ![s] = root] \in Nodes \X Nodes
          /\ [a[t] EXCEPT ![s] = root][s] = root /\ [a[t] EXCEPT ![s] = root][3 - s] = a[t][3 - s]
        BY <1>2, PairUpdated
    <2> QED BY <2>1, <2>2
<1>5. a' \in [Threads -> Int \X Int]
    BY <1>3, <1>4, PairsOfNodes DEF IInv, Types
<1>6. RankOf(root) \in Nat /\ RankOf(root) >= 1 /\ -union_find[root] = RankOf(root)
    BY <1>2, RanksTyped DEF IInv, RankOf
<1>7. /\ rank' \in [Threads -> Nat \X Nat]
      /\ t \in team => rank'[t][s] = RankOf(root) /\ rank'[t][3 - s] = rank[t][3 - s]
      /\ t \notin team => rank'[t] = <<0, 0>>
    <2>1. CASE t \in team
        <3>1. rank' = [rank EXCEPT ![t] = [rank[t] EXCEPT ![s] = RankOf(root)]]
            BY <2>1, <1>6 DEF FindRoot
        <3>2. rank'[t] = [rank[t] EXCEPT ![s] = RankOf(root)]
            BY <3>1 DEF IInv, Types
        <3>3. /\ rank'[t] \in Nat \X Nat /\ rank'[t][s] = RankOf(root)
              /\ rank'[t][3 - s] = rank[t][3 - s]
            BY <3>2, <1>2, <1>6, PairUpdated
        <3> QED BY <2>1, <3>1, <3>2, <3>3 DEF IInv, Types
    <2>2. CASE t \notin team
        BY <2>2 DEF FindRoot, IInv, Types, ThreadOK, Called
    <2> QED BY <2>1, <2>2
<1>8. /\ pc' \in [Threads -> Steps] /\ side' \in [Threads -> {1, 2}] /\ path' \in [Threads -> Seq(Nodes)]
      /\ \A u \in Threads \ {t} :
            /\ pc'[u] = pc[u] /\ side'[u] = side[u] /\ a'[u] = a[u]
            /\ rank'[u] = rank[u] /\ path'[u] = path[u]
      /\ \/ s = 1 /\ pc'[t] = "find" /\ side'[t] = 2 /\ Len(path'[t]) = 1 /\ path'[t] # <<>>
         \/ s = 2 /\ pc'[t] = "compare" /\ side'[t] = 2 /\ path'[t] = <<>>
         \/ /\ pc'[t] = "compress" /\ t \in team /\ side'[t] = s
            /\ k >= 3 /\ path'[t] = SubSeq(p, 1, k - 1)
    <2>1. CASE t \notin team \/ k <= 2
        <3>1. Found(t, root)
            BY <2>1 DEF FindRoot
        <3>2. \A u \in Threads \ {t} : a'[u] = a[u] /\ rank'[u] = rank[u]
            BY <1>3 DEF FindRoot, IInv, Types
        <3>3. Types
            BY DEF IInv
        <3>4. /\ pc' \in [Threads -> Steps] /\ side' \in [Threads -> {1, 2}] /\ path' \in [Threads -> Seq(Nodes)]
              /\ \A u \in Threads \ {t} : pc'[u] = pc[u] /\ side'[u] = side[u] /\ path'[u] = path[u]
              /\ \/ s = 1 /\ pc'[t] = "find" /\ side'[t] = 2 /\ Len(path'[t]) = 1 /\ path'[t] # <<>>
                 \/ s = 2 /\ pc'[t] = "compare" /\ side'[t] = 2 /\ path'[t] = <<>>
            BY <3>1, <3>3, <1>2, FoundOK
        <3> QED BY <3>2, <3>4
    <2>2. CASE t \in team /\ k > 2
        <3>1. SubSeq(p, 1, k - 1) \in Seq(Nodes)
            BY <1>2, <2>2
        <3>2. /\ pc' = [pc EXCEPT ![t] = "compress"] /\ path' = [path EXCEPT ![t] = SubSeq(p, 1, k - 1)]
              /\ side' = side
            BY <2>2 DEF FindRoot
        <3>3. \A u \in Threads \ {t} : a'[u] = a[u] /\ rank'[u] = rank[u]
            BY <2>2, <1>3 DEF FindRoot, IInv, Types
        <3>4. k >= 3
            BY <1>2, <2>2
        <3> QED BY <3>1, <3>2, <3>3, <3>4, <2>2, <1>2 DEF IInv, Types, Steps
    <2> QED BY <2>1, <2>2, <1>2
<1>9. Types'
    BY <1>1, <1>5, <1>7, <1>8 DEF IInv, Types
<1>10. Called(t)'
    BY <1>1, <1>4, <1>7, <1>8, <1>2 DEF Called, Calling
<1>11. Climbs(t)'
    <2>1. CASE pc'[t] # "compress"
        <3>1. Len(path'[t]) \in {0, 1}
            BY <2>1, <1>8
        <3>2. \A i \in 1 .. Len(path'[t]) - 1 : FALSE
            BY <3>1, ShortPath
        <3>3. \A i \in 1 .. Len(path'[t]) - 1 :
                (~IsRoot(path[t][i]) /\ Below(path[t][i], path[t][i + 1]))'
            BY <3>2
        <3>4. pc'[t] = "find" => path'[t] # <<>>
            BY <1>8
        <3> HIDE DEF p, k
        <3> QED BY <2>1, <3>3, <3>4 DEF Climbs
    <2>2. CASE pc'[t] = "compress"
        <3>n. k \in Nat /\ k >= 3 /\ path'[t] = SubSeq(p, 1, k - 1) /\ side'[t] = s
            BY <2>2, <1>2, <1>8
        <3>1. Len(path'[t]) = k - 1 /\ side'[t] = s /\ \A i \in 1 .. k - 1 : path'[t][i] = p[i]
            BY <3>n, <1>2
        <3>m. k \in Nat /\ k >= 3
            BY <3>n
        <3>2. \A i \in 1 .. k - 1 : ~IsRoot(p[i]) /\ Below(p[i], p[i + 1])
            BY DEF IInv, ThreadOK, Climbs
        <3>3. /\ \A i \in 1 .. (k - 1) - 1 :
                    ~IsRoot(path'[t][i]) /\ Below(path'[t][i], path'[t][i + 1])
              /\ ~IsRoot(path'[t][k - 1]) /\ Below(path'[t][k - 1], a'[t][s])
            <4> HIDE DEF p, k
            <4>1. \A i \in 1 .. k - 1 : path'[t][i] = p[i]
                BY <3>1
            <4>2. ASSUME NEW i \in 1 .. (k - 1) - 1
                  PROVE  ~IsRoot(path'[t][i]) /\ Below(path'[t][i], path'[t][i + 1])
                <5>1. i \in 1 .. k - 1 /\ i + 1 \in 1 .. k - 1
                    BY <3>m
                <5>2. path'[t][i] = p[i] /\ path'[t][i + 1] = p[i + 1]
                    BY <4>1, <5>1
                <5> QED BY <3>2, <5>1, <5>2
            <4>3. k - 1 \in 1 .. k - 1 /\ (k - 1) + 1 = k
                BY <3>m
            <4>4. ~IsRoot(p[k - 1]) /\ Below(p[k - 1], p[k])
                BY <3>2, <4>3
            <4>5. path'[t][k - 1] = p[k - 1] /\ a'[t][s] = p[k]
                BY <4>1, <4>3, <1>4
            <4> QED BY <4>2, <4>4, <4>5
        <3>4. Len(path'[t]) = k - 1 /\ k - 1 >= 2
            <4> HIDE DEF p, k
            <4>1. Len(path'[t]) = k - 1
                BY <3>1
            <4> QED BY <4>1, <3>m
        <3>5. /\ \A i \in 1 .. Len(path'[t]) - 1 :
                    (~IsRoot(path[t][i]) /\ Below(path[t][i], path[t][i + 1]))'
              /\ (~IsRoot(path[t][Len(path[t])]) /\ Below(path[t][Len(path[t])], a[t][side[t]]))'
            BY <3>1, <3>3, <3>4, <1>1 DEF Below, RankOf, IsRoot
        <3> QED BY <3>4, <3>5, <2>2 DEF Climbs
    <2> QED BY <2>1, <2>2
<1>12. Loaded(t)'
    <2>1. \A i \in 1 .. 2 : rank'[t][i] # 0 => RankOf(a'[t][i]) >= rank'[t][i]
        <3>1. CASE t \notin team
            BY <3>1, <1>7
        <3>2. CASE t \in team
            <4>1. rank'[t][s] # 0 => RankOf(a'[t][s]) >= rank'[t][s]
                BY <3>2, <1>4, <1>6, <1>7
            <4>2. 3 - s \in 1 .. 2
                BY <1>2
            <4>3. rank'[t][3 - s] # 0 => RankOf(a'[t][3 - s]) >= rank'[t][3 - s]
                BY <3>2, <4>2, <1>4, <1>7 DEF IInv, ThreadOK, Loaded
            <4> QED BY <4>1, <4>3, <1>2
        <3> QED BY <3>1, <3>2
    <2>2. t \in team =>
            /\ pc'[t] \in {"find", "compress"} /\ side'[t] = 2 => rank'[t][1] # 0
            /\ pc'[t] = "compress" => rank'[t][side'[t]] # 0
            /\ pc'[t] \in {"compare", "raise"} => rank'[t][1] # 0 /\ rank'[t][2] # 0
        <3>1. t \in team => rank'[t][s] # 0
            BY <1>6, <1>7
        <3>2. t \in team /\ s = 2 => rank'[t][1] # 0
            BY <1>2, <1>7 DEF IInv, ThreadOK, Loaded
        <3> QED BY <3>1, <3>2, <1>2, <1>8
    <2> QED BY <2>1, <2>2, <1>1 DEF Loaded, RankOf, IsRoot
<1>13. RanksGrow /\ ParentsOutrank'
    BY <1>1, QuietStep DEF IInv
<1> QED BY <1>1, <1>8, <1>9, <1>10, <1>11, <1>12, <1>13, OneThread DEF ThreadOK

\* A node that has been linked moves below another one that is above it.
LEMMA MovedUp ==
    ASSUME Types, ParentsOutrank, NEW u \in Nodes, NEW w \in Nodes, ~IsRoot(u), Below(u, w),
           union_find' = union_find \/ union_find' = [union_find EXCEPT ![u] = w], lastRank' = lastRank
    PROVE  /\ union_find' \in [Nodes -> Int]
           /\ \A v \in Nodes : union_find'[v] >= 0 => union_find'[v] \in Nodes
           /\ \A v \in Nodes : (IsRoot(v)' <=> IsRoot(v)) /\ RankOf(v)' = RankOf(v)
           /\ RanksGrow /\ ParentsOutrank'
<1>1. w \in Nat /\ w \in Int
    BY NodesAreNaturals
<1>2. /\ union_find' \in [Nodes -> Int]
      /\ \A v \in Nodes : v # u => union_find'[v] = union_find[v]
      /\ union_find'[u] \in {union_find[u], w}
    BY <1>1 DEF Types
<1>3. \A v \in Nodes : union_find'[v] >= 0 => union_find'[v] \in Nodes
    BY <1>2 DEF Types
<1>4. ASSUME NEW v \in Nodes
      PROVE  (IsRoot(v)' <=> IsRoot(v)) /\ RankOf(v)' = RankOf(v)
    <2>1. CASE v = u
        <3>1. union_find[u] \in Int /\ ~(union_find[u] < 0)
            BY DEF Types, IsRoot
        <3>2. ~(union_find'[u] < 0)
            BY <3>1, <1>1, <1>2
        <3> QED BY <2>1, <3>1, <3>2 DEF IsRoot, RankOf
    <2>2. CASE v # u
        BY <2>2, <1>2 DEF IsRoot, RankOf
    <2> QED BY <2>1, <2>2
<1>5. RanksGrow
    BY <1>4, RanksTyped DEF RanksGrow
<1>6. ASSUME NEW v \in Nodes, ~IsRoot(v)'
      PROVE  Below(v, union_find[v])'
    <2>1. PICK x \in Nodes : x = union_find'[v]
        <3>1. ~(union_find'[v] < 0) /\ union_find'[v] \in Int
            BY <1>2, <1>6 DEF IsRoot
        <3> QED BY <3>1, <1>3
    <2>2. Below(v, x)
        BY <2>1, <1>2, <1>4, <1>6 DEF ParentsOutrank
    <2>3. Below(v, x)'
        BY <2>2, <1>4 DEF Below
    <2> QED BY <2>1, <2>3 DEF Below, RankOf, IsRoot
<1> QED BY <1>2, <1>3, <1>4, <1>5, <1>6 DEF ParentsOutrank

\* One CAS of the compression, on the way back from the representative.
LEMMA CompressIInv ==
    ASSUME IInv, NEW t \in Threads, Compress(t)
    PROVE  IInv' /\ RanksGrow
<1> DEFINE p == path[t]
           k == Len(p)
           u == p[k - 1]
           target == a[t][side[t]]
<1>1. UNCHANGED <<lastRank, block, todo, team, a, rank>>
    BY DEF Compress, forest, loop, history
<1>2. /\ p \in Seq(Nodes) /\ k \in Nat /\ k >= 2 /\ side[t] \in {1, 2} /\ pc[t] = "compress"
      /\ a[t] \in Nodes \X Nodes /\ t \in team
    <2>1. p \in Seq(Nodes) /\ side[t] \in {1, 2} /\ pc[t] = "compress"
        BY DEF Compress, IInv, Types
    <2>2. k \in Nat /\ k >= 2 /\ a[t] \in Nodes \X Nodes /\ t \in team
        BY <2>1 DEF IInv, ThreadOK, Climbs, Called, Calling
    <2> QED BY <2>1, <2>2
<1>3. k - 1 \in 1 .. k - 1 /\ u \in Nodes /\ p[k] \in Nodes /\ target \in Nodes
    BY <1>2
<1>4. ~IsRoot(u) /\ Below(u, p[k]) /\ Below(p[k], target)
    <2>1. ~IsRoot(p[k - 1]) /\ Below(p[k - 1], p[(k - 1) + 1])
        BY <1>3 DEF IInv, ThreadOK, Climbs
    <2>2. (k - 1) + 1 = k
        BY <1>2
    <2>3. Below(p[k], target)
        BY <1>2 DEF IInv, ThreadOK, Climbs
    <2> QED BY <2>1, <2>2, <2>3
<1>5. Below(u, target)
    BY <1>3, <1>4, BelowTransitive DEF IInv
<1>6. union_find' = union_find \/ union_find' = [union_find EXCEPT ![u] = target]
    BY DEF Compress
<1>7. /\ union_find' \in [Nodes -> Int]
      /\ \A v \in Nodes : union_find'[v] >= 0 => union_find'[v] \in Nodes
      /\ \A v \in Nodes : (IsRoot(v)' <=> IsRoot(v)) /\ RankOf(v)' = RankOf(v)
      /\ RanksGrow /\ ParentsOutrank'
    <2>1. PICK x \in Nodes, y \in Nodes : x = u /\ y = target
        BY <1>3
    <2> HIDE DEF u, target
    <2>2. /\ ~IsRoot(x) /\ Below(x, y)
          /\ union_find' = union_find \/ union_find' = [union_find EXCEPT ![x] = y]
        BY <2>1, <1>4, <1>5, <1>6
    <2> QED BY <2>2, <1>1, MovedUp DEF IInv
<1>8. /\ pc' \in [Threads -> Steps] /\ side' \in [Threads -> {1, 2}] /\ path' \in [Threads -> Seq(Nodes)]
      /\ \A w \in Threads \ {t} : pc'[w] = pc[w] /\ side'[w] = side[w] /\ path'[w] = path[w]
      /\ \/ side[t] = 1 /\ pc'[t] = "find" /\ side'[t] = 2 /\ Len(path'[t]) = 1 /\ path'[t] # <<>>
         \/ side[t] = 2 /\ pc'[t] = "compare" /\ side'[t] = 2 /\ path'[t] = <<>>
         \/ /\ pc'[t] = "compress" /\ side'[t] = side[t]
            /\ k >= 3 /\ path'[t] = SubSeq(p, 1, k - 1)
    <2>1. CASE k <= 2
        <3>1. Found(t, target)
            BY <2>1, <1>2 DEF Compress
        <3> QED BY <3>1, <1>2, FoundOK DEF IInv
    <2>2. CASE k > 2
        <3>1. SubSeq(p, 1, k - 1) \in Seq(Nodes) /\ k >= 3
            BY <1>2, <2>2
        <3>2. path' = [path EXCEPT ![t] = SubSeq(p, 1, k - 1)] /\ side' = side /\ pc' = pc
            BY <2>2 DEF Compress
        <3> QED BY <3>1, <3>2, <1>2 DEF IInv, Types
    <2> QED BY <2>1, <2>2, <1>2
<1>9. Types'
    BY <1>1, <1>7, <1>8 DEF IInv, Types
<1>10. Called(t)'
    BY <1>1, <1>2, <1>8 DEF Called, Calling
<1>11. Climbs(t)'
    <2>1. CASE pc'[t] # "compress"
        <3>1. Len(path'[t]) \in {0, 1}
            BY <2>1, <1>8
        <3>2. \A i \in 1 .. Len(path'[t]) - 1 : FALSE
            BY <3>1, ShortPath
        <3>3. \A i \in 1 .. Len(path'[t]) - 1 :
                (~IsRoot(path[t][i]) /\ Below(path[t][i], path[t][i + 1]))'
            BY <3>2
        <3>4. pc'[t] = "find" => path'[t] # <<>>
            BY <1>8
        <3> HIDE DEF p, k
        <3> QED BY <2>1, <3>3, <3>4 DEF Climbs
    <2>2. CASE pc'[t] = "compress"
        <3>1. /\ k >= 3 /\ path'[t] = SubSeq(p, 1, k - 1) /\ side'[t] = side[t]
              /\ Len(path'[t]) = k - 1 /\ k - 1 >= 2
              /\ \A i \in 1 .. k - 1 : path'[t][i] = p[i]
            <4>1. k >= 3 /\ path'[t] = SubSeq(p, 1, k - 1) /\ side'[t] = side[t]
                BY <2>2, <1>8
            <4>2. Len(SubSeq(p, 1, k - 1)) = k - 1 /\ k - 1 >= 2
                BY <4>1, <1>2
            <4>3. \A i \in 1 .. k - 1 : SubSeq(p, 1, k - 1)[i] = p[i]
                BY <4>1, <1>2
            <4> QED BY <4>1, <4>2, <4>3
        <3>2. ASSUME NEW x \in Nodes, NEW y \in Nodes, ~IsRoot(x), Below(x, y)
              PROVE  ~IsRoot(x)' /\ Below(x, y)'
            BY <3>2, <1>7 DEF Below
        <3>3. ASSUME NEW i \in 1 .. Len(path'[t]) - 1
              PROVE  (~IsRoot(path[t][i]) /\ Below(path[t][i], path[t][i + 1]))'
            <4>1. i \in 1 .. k - 1 /\ i + 1 \in 1 .. k - 1 /\ i \in 1 .. k /\ i + 1 \in 1 .. k
                BY <3>1, <1>2
            <4>2. PICK x \in Nodes, y \in Nodes : x = p[i] /\ y = p[i + 1]
                BY <4>1, <1>2
            <4>3. ~IsRoot(x)' /\ Below(x, y)'
                BY <3>2, <4>1, <4>2 DEF IInv, ThreadOK, Climbs
            <4>4. path'[t][i] = x /\ path'[t][i + 1] = y
                BY <3>1, <4>1, <4>2
            <4> QED BY <4>3, <4>4 DEF Below, RankOf, IsRoot
        <3>4. (~IsRoot(path[t][Len(path[t])]) /\ Below(path[t][Len(path[t])], a[t][side[t]]))'
            <4>1. PICK x \in Nodes, y \in Nodes : x = u /\ y = target
                BY <1>3
            <4>2. ~IsRoot(x)' /\ Below(x, y)'
                BY <4>1, <3>2, <1>4, <1>5
            <4>3. path'[t][Len(path'[t])] = x /\ a'[t][side'[t]] = y
                BY <4>1, <3>1, <1>1, <1>2
            <4> QED BY <4>2, <4>3 DEF Below, RankOf, IsRoot
        <3> QED BY <3>1, <3>3, <3>4, <2>2 DEF Climbs
    <2> QED BY <2>1, <2>2
<1>12. Loaded(t)'
    <2>1. ASSUME NEW i \in 1 .. 2, rank[t][i] # 0
          PROVE  RankOf(a[t][i])' >= rank[t][i]
        <3>1. PICK x \in Nodes : x = a[t][i]
            BY <1>2
        <3>2. RankOf(x)' >= rank[t][i]
            BY <3>1, <2>1, <1>7 DEF IInv, ThreadOK, Loaded
        <3>3. a'[t][i] = x
            BY <3>1, <1>1
        <3> QED BY <3>2, <3>3 DEF RankOf, IsRoot
    <2>2. /\ side[t] = 2 => rank[t][1] # 0
          /\ rank[t][side[t]] # 0
        BY <1>2 DEF IInv, ThreadOK, Loaded
    <2> QED BY <2>1, <2>2, <1>1, <1>2, <1>8 DEF Loaded
<1>13. \A w \in Threads \ {t} : a'[w] = a[w] /\ rank'[w] = rank[w]
    BY <1>1
<1> QED BY <1>1, <1>7, <1>8, <1>9, <1>10, <1>11, <1>12, <1>13, OneThread DEF ThreadOK

\* The locals of a call die with it.
LEMMA ReturnOK ==
    ASSUME Types, NEW t \in Threads, NEW to \in {"loop", "idle"}, Return(t, to)
    PROVE  /\ pc' \in [Threads -> Steps] /\ side' \in [Threads -> {1, 2}]
           /\ a' \in [Threads -> Int \X Int] /\ rank' \in [Threads -> Nat \X Nat]
           /\ path' \in [Threads -> Seq(Nodes)]
           /\ \A u \in Threads \ {t} :
                /\ pc'[u] = pc[u] /\ side'[u] = side[u] /\ a'[u] = a[u]
                /\ rank'[u] = rank[u] /\ path'[u] = path[u]
           /\ ThreadOK(t)'
<1>1. NoEdge \in Int \X Int /\ <<0, 0>> \in Nat \X Nat /\ <<>> \in Seq(Nodes)
    BY DEF NoEdge
<1>2. pc'[t] = to /\ rank'[t] = <<0, 0>> /\ path'[t] = <<>>
    BY DEF Return, Types
<1>3. ThreadOK(t)'
    BY <1>2, OutsideCalls
<1>4. /\ pc' \in [Threads -> Steps] /\ side' \in [Threads -> {1, 2}]
      /\ a' \in [Threads -> Int \X Int] /\ rank' \in [Threads -> Nat \X Nat]
      /\ path' \in [Threads -> Seq(Nodes)]
    BY <1>1 DEF Return, Types, Steps
<1>5. \A u \in Threads \ {t} :
        /\ pc'[u] = pc[u] /\ side'[u] = side[u] /\ a'[u] = a[u]
        /\ rank'[u] = rank[u] /\ path'[u] = path[u]
    BY DEF Return, Types
<1> QED BY <1>3, <1>4, <1>5

\* unite() rejects an edge, or connected() answers.
LEMMA ReturnIInv ==
    ASSUME IInv, NEW t \in Threads, SameTree(t) \/ AnswerTrue(t) \/ AnswerFalse(t)
    PROVE  IInv'
<1>1. PICK to \in {"loop", "idle"} : Return(t, to)
    BY DEF SameTree, AnswerTrue, AnswerFalse
<1>2. UNCHANGED <<union_find, lastRank, block, todo, team>>
    BY DEF SameTree, AnswerTrue, AnswerFalse, loop
<1>3. RanksGrow /\ ParentsOutrank'
    BY <1>2, QuietStep DEF IInv
<1>4. Types'
    BY <1>1, <1>2, ReturnOK DEF IInv, Types
<1> QED BY <1>1, <1>2, <1>3, <1>4, ReturnOK, OneThread DEF IInv

\* Both representatives are looked for again, from the nodes that were found.
LEMMA RetryIInv ==
    ASSUME IInv, NEW t \in Threads, LinkFails(t) \/ AskAgain(t)
    PROVE  IInv'
<1>1. Retry(t) /\ pc[t] = "compare" /\ UNCHANGED <<union_find, lastRank, block, todo, team, a, rank>>
    BY DEF LinkFails, AskAgain, Retry, loop, history
<1>2. a[t] \in Nodes \X Nodes
    BY <1>1 DEF IInv, ThreadOK, Called, Calling
<1> DEFINE first == <<a[t][1]>>
<1>3. first \in Seq(Nodes) /\ Len(first) = 1 /\ first # <<>>
    BY <1>2, PathOfOne
<1>4. /\ path' = [path EXCEPT ![t] = first] /\ pc' = [pc EXCEPT ![t] = "find"]
      /\ side' = [side EXCEPT ![t] = 1]
    BY <1>1 DEF Retry
<1> HIDE DEF first
<1>5. Types'
    BY <1>1, <1>3, <1>4 DEF IInv, Types, Steps
<1>6. path'[t] = first /\ pc'[t] = "find" /\ side'[t] = 1
    BY <1>4 DEF IInv, Types
<1>7. Called(t)'
    BY <1>1, <1>2, <1>6 DEF IInv, ThreadOK, Called, Calling
<1>8. Climbs(t)'
    <2>1. \A i \in 1 .. Len(path'[t]) - 1 : FALSE
        BY <1>3, <1>6, ShortPath
    <2> QED BY <1>3, <1>6, <2>1 DEF Climbs
<1>9. Loaded(t)'
    BY <1>1, <1>6 DEF IInv, ThreadOK, Loaded, RankOf, IsRoot
<1>10. RanksGrow /\ ParentsOutrank'
    BY <1>1, QuietStep DEF IInv
<1>11. \A u \in Threads \ {t} :
        /\ pc'[u] = pc[u] /\ side'[u] = side[u] /\ a'[u] = a[u]
        /\ rank'[u] = rank[u] /\ path'[u] = path[u]
    BY <1>1, <1>4 DEF IInv, Types
<1> QED BY <1>1, <1>5, <1>7, <1>8, <1>9, <1>10, <1>11, OneThread DEF ThreadOK

\* After the edges, when the thread is in no call.
LEMMA StoreIInv ==
    ASSUME IInv, NEW t \in Threads, Reserve(t) \/ StoreEdge(t) \/ Stored(t)
    PROVE  IInv'
<1>1. UNCHANGED <<union_find, lastRank, block, todo, team, side, a, rank, path>>
    BY DEF Reserve, StoreEdge, Stored, loop, call, history
<1>2. /\ pc[t] \in {"loop", "store"} /\ pc'[t] \in {"store", "joined"}
      /\ pc' \in [Threads -> Steps] /\ \A u \in Threads \ {t} : pc'[u] = pc[u]
    BY DEF Reserve, StoreEdge, Stored, Goto, IInv, Types, Steps
<1>3. Types'
    BY <1>1, <1>2 DEF IInv, Types
<1>4. rank[t] = <<0, 0>> /\ path[t] = <<>>
    BY <1>2 DEF IInv, ThreadOK, Called, Calling
<1>5. ThreadOK(t)'
    BY <1>1, <1>2, <1>4, OutsideCalls
<1>6. RanksGrow /\ ParentsOutrank'
    BY <1>1, QuietStep DEF IInv
<1> QED BY <1>1, <1>2, <1>3, <1>5, <1>6, OneThread

\* A root is linked below a node that is above it, and keeps its rank.
LEMMA LinkedBelow ==
    ASSUME Types, ParentsOutrank, NEW low \in Nodes, NEW high \in Nodes, IsRoot(low), Below(low, high),
           union_find' = [union_find EXCEPT ![low] = high],
           lastRank' = [lastRank EXCEPT ![low] = -union_find[low]]
    PROVE  /\ union_find' \in [Nodes -> Int] /\ lastRank' \in [Nodes -> Nat]
           /\ \A v \in Nodes : union_find'[v] >= 0 => union_find'[v] \in Nodes
           /\ \A v \in Nodes : RankOf(v)' = RankOf(v)
           /\ RanksGrow /\ ParentsOutrank'
<1>1. high \in Nat /\ high \in Int
    BY NodesAreNaturals
<1>2. union_find[low] \in Int /\ union_find[low] < 0
    BY DEF Types, IsRoot
<1>3. /\ union_find' \in [Nodes -> Int] /\ lastRank' \in [Nodes -> Nat]
      /\ \A v \in Nodes : v # low => union_find'[v] = union_find[v] /\ lastRank'[v] = lastRank[v]
      /\ union_find'[low] = high /\ lastRank'[low] = -union_find[low]
    BY <1>1, <1>2 DEF Types
<1>4. \A v \in Nodes : union_find'[v] >= 0 => union_find'[v] \in Nodes
    BY <1>3 DEF Types
<1>5. ASSUME NEW v \in Nodes
      PROVE  RankOf(v)' = RankOf(v) /\ (~IsRoot(v) => ~IsRoot(v)')
    <2>1. CASE v = low
        BY <2>1, <1>1, <1>2, <1>3 DEF RankOf, IsRoot
    <2>2. CASE v # low
        BY <2>2, <1>3 DEF RankOf, IsRoot
    <2> QED BY <2>1, <2>2
<1>6. RanksGrow
    BY <1>5, RanksTyped DEF RanksGrow
<1>7. ASSUME NEW v \in Nodes, ~IsRoot(v)'
      PROVE  Below(v, union_find[v])'
    <2>1. PICK x \in Nodes : x = union_find'[v]
        <3>1. ~(union_find'[v] < 0) /\ union_find'[v] \in Int
            BY <1>3, <1>7 DEF IsRoot
        <3> QED BY <3>1, <1>4
    <2>2. Below(v, x)
        <3>1. CASE v = low
            BY <3>1, <2>1, <1>3
        <3>2. CASE v # low
            BY <3>2, <2>1, <1>3, <1>7 DEF ParentsOutrank, IsRoot
        <3> QED BY <3>1, <3>2
    <2>3. Below(v, x)'
        BY <2>2, <1>5 DEF Below
    <2> QED BY <2>1, <2>3 DEF Below, RankOf, IsRoot
<1> QED BY <1>3, <1>4, <1>5, <1>6, <1>7 DEF ParentsOutrank

\* The rank of a root grows, or the CAS fails.
LEMMA RankRaised ==
    ASSUME Types, ParentsOutrank, NEW high \in Nodes, NEW r \in Nat, r # 0, lastRank' = lastRank,
           union_find' = IF union_find[high] = -r
                         THEN [union_find EXCEPT ![high] = -(r + 1)] ELSE union_find
    PROVE  /\ union_find' \in [Nodes -> Int]
           /\ \A v \in Nodes : union_find'[v] >= 0 => union_find'[v] \in Nodes
           /\ RanksGrow /\ ParentsOutrank'
<1>1. CASE union_find[high] # -r
    <2>1. UNCHANGED <<union_find, lastRank>>
        BY <1>1
    <2> QED BY <2>1, QuietStep DEF Types
<1>2. CASE union_find[high] = -r
    <2>1. -(r + 1) \in Int /\ -(r + 1) < 0 /\ -r < 0 /\ -(-r) = r /\ -(-(r + 1)) = r + 1 /\ r + 1 >= r
        OBVIOUS
    <2>2. /\ union_find' \in [Nodes -> Int] /\ union_find'[high] = -(r + 1)
          /\ \A v \in Nodes : v # high => union_find'[v] = union_find[v]
        BY <1>2, <2>1 DEF Types
    <2>3. \A v \in Nodes : union_find'[v] >= 0 => union_find'[v] \in Nodes
        BY <2>1, <2>2 DEF Types
    <2>4. /\ IsRoot(high) /\ IsRoot(high)' /\ RankOf(high) = r /\ RankOf(high)' = r + 1
          /\ \A v \in Nodes : v # high => RankOf(v)' = RankOf(v) /\ (IsRoot(v)' <=> IsRoot(v))
        BY <1>2, <2>1, <2>2 DEF RankOf, IsRoot
    <2>5. \A v \in Nodes :
            /\ RankOf(v) \in Nat /\ RankOf(v)' \in Nat /\ RankOf(v)' >= RankOf(v)
            /\ IsRoot(v)' <=> IsRoot(v)
            /\ ~IsRoot(v) => RankOf(v)' = RankOf(v)
        BY <2>1, <2>4, RanksTyped
    <2>6. RanksGrow
        BY <2>5 DEF RanksGrow
    <2>7. ASSUME NEW v \in Nodes, ~IsRoot(v)'
          PROVE  Below(v, union_find[v])'
        <3>1. ~IsRoot(v) /\ v # high
            BY <2>4, <2>5, <2>7
        <3>2. PICK x \in Nodes : x = union_find[v] /\ x = union_find'[v]
            BY <3>1, <2>2, RanksTyped
        <3>3. Below(v, x)
            BY <3>1, <3>2 DEF ParentsOutrank
        <3>4. Below(v, x)'
            BY <3>1, <3>3, <2>5, NodesAreNaturals DEF Below
        <3> QED BY <3>2, <3>4 DEF Below, RankOf, IsRoot
    <2> QED BY <2>2, <2>3, <2>6, <2>7 DEF ParentsOutrank
<1> QED BY <1>1, <1>2

\* What unite() knows when it compares the ranks.
LEMMA Compared ==
    ASSUME IInv, NEW t \in Threads, t \in team, pc[t] \in {"compare", "raise"}
    PROVE  /\ LowerSide(t) \in {1, 2} /\ Lower(t) \in Nodes /\ Higher(t) \in Nodes
           /\ \A i \in 1 .. 2 : rank[t][i] \in Nat /\ rank[t][i] # 0 /\ RankOf(a[t][i]) >= rank[t][i]
           /\ path[t] = <<>>
<1>1. a[t] \in Nodes \X Nodes /\ path[t] = <<>>
    BY DEF IInv, ThreadOK, Called, Calling
<1>2. LowerSide(t) \in {1, 2} /\ 3 - LowerSide(t) \in {1, 2}
    BY DEF LowerSide
<1>3. Lower(t) \in Nodes /\ Higher(t) \in Nodes
    BY <1>1, <1>2 DEF Lower, Higher
<1>4. \A i \in 1 .. 2 : rank[t][i] \in Nat /\ rank[t][i] # 0 /\ RankOf(a[t][i]) >= rank[t][i]
    BY DEF IInv, ThreadOK, Loaded, Types
<1> QED BY <1>1, <1>2, <1>3, <1>4

\* The CAS finds the rank that was compared: what is linked is still a root, and the node
\* it is linked below has at least the rank that was compared.
LEMMA LinkIInv ==
    ASSUME IInv, NEW t \in Threads, Link(t)
    PROVE  IInv' /\ RanksGrow
<1> DEFINE low == Lower(t)
           high == Higher(t)
           s == LowerSide(t)
<1>1. /\ t \in team /\ pc[t] = "compare" /\ a[t][1] # a[t][2] /\ union_find[low] = -rank[t][s]
      /\ UNCHANGED <<block, todo, team>>
    BY DEF Link, loop
<1>2. /\ s \in {1, 2} /\ low \in Nodes /\ high \in Nodes /\ path[t] = <<>>
      /\ \A i \in 1 .. 2 : rank[t][i] \in Nat /\ rank[t][i] # 0 /\ RankOf(a[t][i]) >= rank[t][i]
    BY <1>1, Compared
<1>3. a[t] \in Nodes \X Nodes
    BY <1>1 DEF IInv, ThreadOK, Called, Calling
<1>4. IsRoot(low) /\ RankOf(low) = rank[t][s]
    <2>1. rank[t][s] \in Nat /\ rank[t][s] # 0
        BY <1>2
    <2> QED BY <2>1, <1>1 DEF IsRoot, RankOf
<1>5. Below(low, high)
    <2>1. /\ a[t][1] \in Nat /\ a[t][2] \in Nat
          /\ RankOf(a[t][1]) \in Nat /\ RankOf(a[t][2]) \in Nat
        BY <1>3, NodesAreNaturals, RanksTyped DEF IInv
    <2>2. CASE s = 1
        <3>1. low = a[t][1] /\ high = a[t][2]
            BY <2>2 DEF Lower, Higher
        <3>2. rank[t][1] < rank[t][2] \/ (rank[t][1] = rank[t][2] /\ a[t][1] < a[t][2])
            BY <2>2 DEF LowerSide
        <3> QED BY <3>1, <3>2, <2>1, <2>2, <1>2, <1>4 DEF Below
    <2>3. CASE s = 2
        <3>1. low = a[t][2] /\ high = a[t][1]
            BY <2>3 DEF Lower, Higher
        <3>2. ~(rank[t][1] < rank[t][2] \/ (rank[t][1] = rank[t][2] /\ a[t][1] < a[t][2]))
            BY <2>3 DEF LowerSide
        <3> QED BY <3>1, <3>2, <2>1, <2>3, <1>1, <1>2, <1>4 DEF Below
    <2> QED BY <1>2, <2>2, <2>3
<1>6. /\ union_find' = [union_find EXCEPT ![low] = high]
      /\ lastRank' = [lastRank EXCEPT ![low] = -union_find[low]]
    BY DEF Link
<1>7. /\ union_find' \in [Nodes -> Int] /\ lastRank' \in [Nodes -> Nat]
      /\ \A v \in Nodes : union_find'[v] >= 0 => union_find'[v] \in Nodes
      /\ \A v \in Nodes : RankOf(v)' = RankOf(v)
      /\ RanksGrow /\ ParentsOutrank'
    <2>1. PICK x \in Nodes, y \in Nodes : x = low /\ y = high
        BY <1>2
    <2> HIDE DEF low, high
    <2>2. /\ IsRoot(x) /\ Below(x, y) /\ union_find' = [union_find EXCEPT ![x] = y]
          /\ lastRank' = [lastRank EXCEPT ![x] = -union_find[x]]
        BY <2>1, <1>4, <1>5, <1>6
    <2> QED BY <2>2, LinkedBelow DEF IInv
<1>8. CASE rank[t][1] = rank[t][2]
    <2>1. pc' = [pc EXCEPT ![t] = "raise"] /\ UNCHANGED <<side, a, rank, path>>
        BY <1>8 DEF Link, call
    <2>2. Types'
        BY <1>1, <1>7, <2>1 DEF IInv, Types, Steps
    <2>3. pc'[t] = "raise"
        BY <2>1 DEF IInv, Types
    <2>4. Called(t)' /\ Climbs(t)'
        BY <2>1, <2>3, <1>1, <1>2, <1>3 DEF Called, Calling, Climbs
    <2>5. ASSUME NEW i \in 1 .. 2
          PROVE  RankOf(a[t][i])' >= rank[t][i]
        <3>1. PICK x \in Nodes : x = a[t][i]
            BY <1>3
        <3>2. RankOf(x)' >= rank[t][i]
            BY <3>1, <1>2, <1>7
        <3>3. a'[t][i] = x
            BY <3>1, <2>1
        <3> QED BY <3>2, <3>3 DEF RankOf, IsRoot
    <2>6. Loaded(t)'
        BY <2>1, <2>3, <2>5, <1>2 DEF Loaded
    <2>7. \A u \in Threads \ {t} : pc'[u] = pc[u]
        BY <2>1 DEF IInv, Types
    <2> QED BY <1>1, <1>7, <2>1, <2>2, <2>4, <2>6, <2>7, OneThread DEF ThreadOK
<1>9. CASE rank[t][1] # rank[t][2]
    <2>1. Return(t, "loop")
        BY <1>9 DEF Link
    <2>2. Types'
        BY <2>1, <1>1, <1>7, ReturnOK DEF IInv, Types
    <2> QED BY <1>1, <1>7, <2>1, <2>2, ReturnOK, OneThread DEF IInv
<1> QED BY <1>8, <1>9

\* The CAS of the raise finds the rank that was compared, or changes nothing.
LEMMA RaiseIInv ==
    ASSUME IInv, NEW t \in Threads, Raise(t)
    PROVE  IInv' /\ RanksGrow
<1>1. /\ t \in team /\ pc[t] = "raise" /\ UNCHANGED <<lastRank, block, todo, team>>
      /\ Return(t, "loop")
    BY DEF Raise, loop, history, IInv, ThreadOK, Called
<1>2. PICK high \in Nodes, r \in Nat : high = Higher(t) /\ r = rank[t][1] /\ r # 0
    BY <1>1, Compared
<1>3. union_find' = IF union_find[high] = -r
                    THEN [union_find EXCEPT ![high] = -(r + 1)] ELSE union_find
    BY <1>2 DEF Raise
<1>4. /\ union_find' \in [Nodes -> Int]
      /\ \A v \in Nodes : union_find'[v] >= 0 => union_find'[v] \in Nodes
      /\ RanksGrow /\ ParentsOutrank'
    BY <1>1, <1>2, <1>3, RankRaised DEF IInv
<1>5. Types'
    BY <1>1, <1>4, ReturnOK DEF IInv, Types
<1> QED BY <1>1, <1>4, <1>5, ReturnOK, OneThread DEF IInv

\* Every step, or none, preserves the invariant and raises ranks only.
LEMMA NextIInv ==
    ASSUME IInv, [Next]_vars
    PROVE  IInv' /\ RanksGrow
<1>1. CASE BeginBlock \/ BuildForest
    <2>1. RanksGrow
        BY <1>1, QuietStep DEF BeginBlock, BuildForest, history, IInv
    <2> QED BY <1>1, <2>1, TeamIInv
<1>2. ASSUME NEW t \in Threads, Find(t)
      PROVE  IInv' /\ RanksGrow
    <2>1. CASE Follow(t)
        BY <2>1, FollowIInv, QuietStep DEF Follow, history, IInv
    <2>2. CASE FindRoot(t)
        BY <2>2, FindRootIInv, QuietStep DEF FindRoot, history, IInv
    <2>3. CASE Compress(t)
        BY <2>3, CompressIInv
    <2> QED BY <1>2, <2>1, <2>2, <2>3 DEF Find
<1>3. ASSUME NEW t \in Threads, AddEdges(t) \/ Connected(t)
      PROVE  IInv' /\ RanksGrow
    <2>1. CASE TakeEdge(t) \/ AskConnected(t)
        BY <2>1, CallIInv, QuietStep DEF TakeEdge, AskConnected, history, IInv
    <2>2. CASE SameTree(t) \/ AnswerTrue(t) \/ AnswerFalse(t)
        BY <2>2, ReturnIInv, QuietStep DEF SameTree, AnswerTrue, AnswerFalse, IInv
    <2>3. CASE LinkFails(t) \/ AskAgain(t)
        BY <2>3, RetryIInv, QuietStep DEF LinkFails, AskAgain, history, IInv
    <2>4. CASE Reserve(t) \/ StoreEdge(t) \/ Stored(t)
        BY <2>4, StoreIInv, QuietStep DEF Reserve, StoreEdge, Stored, history, IInv
    <2>5. CASE Link(t)
        BY <2>5, LinkIInv
    <2>6. CASE Raise(t)
        BY <2>6, RaiseIInv
    <2> QED BY <1>3, <2>1, <2>2, <2>3, <2>4, <2>5, <2>6 DEF AddEdges, Unite, Connected
<1>4. CASE UNCHANGED vars
    <2>1. UNCHANGED <<union_find, lastRank, block, todo, team, pc, side, a, rank, path>>
        BY <1>4 DEF vars, loop, call, history
    <2>2. RanksGrow /\ ParentsOutrank'
        BY <2>1, QuietStep DEF IInv
    <2>3. Types'
        BY <2>1 DEF IInv, Types
    <2>4. \A u \in Threads : ThreadOK(u)'
        BY <2>1, <2>2, <2>3, OtherThread
    <2> QED BY <2>2, <2>3, <2>4 DEF IInv
<1> QED BY <1>1, <1>2, <1>3, <1>4 DEF Next
-----------------------------------------------------------------------------
(* Induction over the natural numbers: every set of them has a least one.  *)

Less == {ss \in Nat \X Nat : ss[1] < ss[2]}

LEMMA LessIsWellFounded == IsWellFoundedOn(Less, Nat)
BY NatLessThanWellFounded DEF OpToRel, Less

\* A nonempty set of natural numbers has a least element.
LEMMA LeastElement ==
    ASSUME NEW S \in SUBSET Nat, S # {}
    PROVE  \E m \in S : \A k \in S : m <= k
<1>2. \E m \in S : \A k \in S : ~(<<k, m>> \in Less)
    BY LessIsWellFounded, WFMin
<1>3. PICK m \in S : \A k \in S : ~(<<k, m>> \in Less)
    BY <1>2
<1>4. \A k \in S : ~(k < m)
    BY <1>3 DEF Less
<1> QED BY <1>4

\* What holds of zero and passes on to the successor holds of every number.
LEMMA InductionOverSet ==
    ASSUME NEW S \in SUBSET Nat, 0 \in S, \A n \in S : n + 1 \in S
    PROVE  S = Nat
<1> SUFFICES ASSUME Nat \ S # {} PROVE FALSE
    OBVIOUS
<1>1. PICK m \in Nat \ S : \A k \in Nat \ S : m <= k
    BY LeastElement
<1>2. m # 0 /\ m - 1 \in Nat /\ (m - 1) + 1 = m
    BY <1>1
<1>3. m - 1 \in S
    BY <1>1, <1>2
<1> QED BY <1>1, <1>2, <1>3

Unfolds(f, T, b, F, n) == f \in [0 .. n -> T] /\ f[0] = b /\ \A i \in 1 .. n : f[i] = F[f[i - 1]]

\* The function that a base and a step define recursively exists.
LEMMA RecursiveFunction ==
    ASSUME NEW T, NEW b \in T, NEW F \in [T -> T], NEW n \in Nat
    PROVE  \E f : Unfolds(f, T, b, F, n)
<1> DEFINE Good(k) == \E f \in [0 .. k -> T] : f[0] = b /\ \A i \in 1 .. k : f[i] = F[f[i - 1]]
           S == {k \in Nat : Good(k)}
<1>1. 0 \in S
    <2>1. [i \in 0 .. 0 |-> b] \in [0 .. 0 -> T]
        OBVIOUS
    <2>2. [j \in 0 .. 0 |-> b][0] = b /\ 1 .. 0 = {}
        OBVIOUS
    <2> QED BY <2>1, <2>2
<1>2. ASSUME NEW k \in S PROVE k + 1 \in S
    <2>1. PICK f \in [0 .. k -> T] : f[0] = b /\ \A i \in 1 .. k : f[i] = F[f[i - 1]]
        BY <1>2
    <2> DEFINE g == [i \in 0 .. k + 1 |-> IF i = k + 1 THEN F[f[k]] ELSE f[i]]
    <2>2. k \in Nat /\ f[k] \in T /\ F[f[k]] \in T
        BY <2>1
    <2>3. g \in [0 .. k + 1 -> T]
        BY <2>2
    <2>4. ASSUME NEW i \in 1 .. k + 1 PROVE g[i] = F[g[i - 1]]
        <3>1. i - 1 \in 0 .. k + 1 /\ i - 1 # k + 1 /\ g[i - 1] = f[i - 1] /\ (k + 1) - 1 = k
            BY <2>2
        <3>2. CASE i = k + 1
            BY <3>1, <3>2, <2>2
        <3>3. CASE i # k + 1
            <4>1. i \in 1 .. k /\ g[i] = f[i]
                BY <3>3, <2>2
            <4> QED BY <4>1, <3>1, <2>1
        <3> QED BY <3>2, <3>3
    <2>6. g[0] = b
        BY <2>1, <2>2
    <2> HIDE DEF g
    <2>5. Good(k + 1)
        BY <2>3, <2>4, <2>6
    <2> QED BY <2>5, <2>2
<1> HIDE DEF Good
<1>3. S = Nat
    BY <1>1, <1>2, InductionOverSet
<1> QED BY <1>3 DEF Good, Unfolds
-----------------------------------------------------------------------------
(* The root that the parents of an array lead to.                          *)

\* RootOf, of any array of parents.
RootIn(A, v) ==
    LET climb[i \in 0 .. Cardinality(Nodes)] ==
            IF i = 0 THEN v ELSE IF A[climb[i - 1]] < 0 THEN climb[i - 1] ELSE A[climb[i - 1]]
    IN  climb[Cardinality(Nodes)]

\* L is a strict order in which every parent is above its child.
OrderedBy(A, L) ==
    /\ \A v \in Nodes : <<v, v>> \notin L
    /\ \A u, v, w \in Nodes : <<u, v>> \in L /\ <<v, w>> \in L => <<u, w>> \in L
    /\ \A v \in Nodes : ~(A[v] < 0) => A[v] \in Nodes /\ <<v, A[v]>> \in L

\* R maps every node to the root that its parents lead to.
LeadsTo(A, R) ==
    /\ R \in [Nodes -> Nodes]
    /\ \A v \in Nodes : IF A[v] < 0 THEN R[v] = v ELSE R[v] = R[A[v]] /\ A[R[v]] < 0

\* What one step upwards makes of a node, and the climb by n steps.
Up(A) == [v \in Nodes |-> IF A[v] < 0 THEN v ELSE A[v]]
Climb(A, v, f) == Unfolds(f, Nodes, v, Up(A), Cardinality(Nodes))

LEMMA UpTyped == \A A, L : OrderedBy(A, L) => Up(A) \in [Nodes -> Nodes]
BY DEF OrderedBy, Up

\* RootIn is the end of a climb.
LEMMA ClimbExists ==
    ASSUME NEW A, NEW L, OrderedBy(A, L), NEW v \in Nodes
    PROVE  \E f : Climb(A, v, f) /\ RootIn(A, v) = f[Cardinality(Nodes)]
<1> DEFINE n == Cardinality(Nodes)
           F == Up(A)
           Steps_(f) == f = [i \in 0 .. n |->
                             IF i = 0 THEN v ELSE IF A[f[i - 1]] < 0 THEN f[i - 1] ELSE A[f[i - 1]]]
           climb == CHOOSE f : Steps_(f)
<1>1. n \in Nat /\ F \in [Nodes -> Nodes]
    BY ConnectivityAssumption, FS_CardinalityType, UpTyped
<1>2. RootIn(A, v) = climb[n]
    BY DEF RootIn
<1> HIDE DEF n, F
<1>3. PICK f : Unfolds(f, Nodes, v, F, n)
    BY <1>1, RecursiveFunction
<1>4. \A g : Unfolds(g, Nodes, v, F, n) <=> Steps_(g)
    <2> SUFFICES ASSUME NEW g PROVE Unfolds(g, Nodes, v, F, n) <=> Steps_(g)
        OBVIOUS
    <2>1. ASSUME Unfolds(g, Nodes, v, F, n) PROVE Steps_(g)
        <3>1. \A i \in 0 .. n : i # 0 => i \in 1 .. n /\ i - 1 \in 0 .. n
            BY <1>1
        <3>2. \A i \in 0 .. n : i # 0 => g[i] = F[g[i - 1]] /\ g[i - 1] \in Nodes
            BY <2>1, <3>1 DEF Unfolds
        <3>3. \A i \in 0 .. n : i # 0 => g[i] = IF A[g[i - 1]] < 0 THEN g[i - 1] ELSE A[g[i - 1]]
            BY <3>2 DEF F, Up
        <3> QED BY <2>1, <3>3 DEF Unfolds
    <2>2. ASSUME Steps_(g) PROVE Unfolds(g, Nodes, v, F, n)
        <3>1. g[0] = v
            BY <2>2, <1>1
        <3>2. \A i \in 1 .. n : i \in 0 .. n /\ i # 0 /\ i - 1 \in 0 .. n
            BY <1>1
        <3>3. \A i \in 1 .. n : g[i] = IF A[g[i - 1]] < 0 THEN g[i - 1] ELSE A[g[i - 1]]
            BY <2>2, <3>2
        <3> DEFINE S == {i \in Nat : i <= n => g[i] \in Nodes}
        <3>4. 0 \in S
            BY <3>1
        <3>5. ASSUME NEW i \in S PROVE i + 1 \in S
            <4> SUFFICES ASSUME i + 1 <= n PROVE g[i + 1] \in Nodes
                OBVIOUS
            <4>1. i + 1 \in 1 .. n /\ (i + 1) - 1 = i /\ i <= n
                BY <1>1
            <4>2. g[i] \in Nodes /\ g[i + 1] = IF A[g[i]] < 0 THEN g[i] ELSE A[g[i]]
                BY <4>1, <3>3
            <4> QED BY <4>2 DEF OrderedBy
        <3> HIDE DEF S
        <3>6. S = Nat
            BY <3>4, <3>5, InductionOverSet DEF S
        <3>7. \A i \in 0 .. n : g[i] \in Nodes
            BY <1>1, <3>6 DEF S
        <3>8. \A i \in 1 .. n : g[i] = F[g[i - 1]]
            BY <3>2, <3>3, <3>7 DEF F, Up
        <3>9. g \in [0 .. n -> Nodes]
            BY <2>2, <3>7
        <3> QED BY <3>1, <3>8, <3>9 DEF Unfolds
    <2> QED BY <2>1, <2>2
<1> HIDE DEF Steps_
<1>5. Steps_(climb)
    BY <1>3, <1>4
<1>6. Unfolds(climb, Nodes, v, F, n)
    BY <1>4, <1>5
<1> QED BY <1>2, <1>6 DEF Climb, n, F

\* What a climb passes: one step at a time, and never on from a root.
LEMMA ClimbFacts ==
    ASSUME NEW A, NEW L, OrderedBy(A, L), NEW v \in Nodes, NEW f, Climb(A, v, f)
    PROVE  /\ Cardinality(Nodes) \in Nat /\ f[0] = v /\ f \in [0 .. Cardinality(Nodes) -> Nodes]
           /\ \A i \in Nat : i + 1 <= Cardinality(Nodes) =>
                f[i + 1] = IF A[f[i]] < 0 THEN f[i] ELSE A[f[i]]
<1> DEFINE n == Cardinality(Nodes)
<1>1. n \in Nat
    BY ConnectivityAssumption, FS_CardinalityType
<1>2. f[0] = v /\ f \in [0 .. n -> Nodes] /\ \A i \in 1 .. n : f[i] = Up(A)[f[i - 1]]
    BY DEF Climb, Unfolds
<1> HIDE DEF n
<1>3. ASSUME NEW i \in Nat, i + 1 <= n
      PROVE  f[i + 1] = IF A[f[i]] < 0 THEN f[i] ELSE A[f[i]]
    <2>1. i + 1 \in 1 .. n /\ i \in 0 .. n /\ (i + 1) - 1 = i
        BY <1>1, <1>3
    <2>2. f[i + 1] = Up(A)[f[i]] /\ f[i] \in Nodes
        BY <1>2, <2>1
    <2> QED BY <2>2 DEF Up
<1> QED BY <1>1, <1>2, <1>3 DEF n

\* A climb of as many steps as there are nodes ends at a root: otherwise it would have passed
\* more nodes than there are, each below the next ones.
LEMMA ClimbEnds ==
    ASSUME NEW A, NEW L, OrderedBy(A, L), NEW v \in Nodes, NEW f, Climb(A, v, f)
    PROVE  A[f[Cardinality(Nodes)]] < 0
<1> DEFINE n == Cardinality(Nodes)
<1>1. /\ n \in Nat /\ f[0] = v /\ f \in [0 .. n -> Nodes]
      /\ \A i \in Nat : i + 1 <= n => f[i + 1] = IF A[f[i]] < 0 THEN f[i] ELSE A[f[i]]
    BY ClimbFacts
<1> SUFFICES ASSUME ~(A[f[n]] < 0) PROVE FALSE
    OBVIOUS
<1>card. n = Cardinality(Nodes) /\ IsFiniteSet(Nodes)
    BY ConnectivityAssumption
<1> HIDE DEF n
<1>2. \A i \in 0 .. n : ~(A[f[i]] < 0)
    <2> DEFINE S == {k \in Nat : k <= n => ~(A[f[n - k]] < 0)}
    <2>1. 0 \in S
        BY <1>1
    <2>2. ASSUME NEW k \in S PROVE k + 1 \in S
        <3> SUFFICES ASSUME k + 1 <= n, A[f[n - (k + 1)]] < 0 PROVE FALSE
            OBVIOUS
        <3>1. n - (k + 1) \in Nat /\ (n - (k + 1)) + 1 = n - k /\ n - k <= n /\ k <= n
            BY <1>1
        <3>2. f[n - k] = f[n - (k + 1)]
            BY <3>1, <1>1
        <3> QED BY <3>1, <3>2
    <2> HIDE DEF S
    <2>3. S = Nat
        BY <2>1, <2>2, InductionOverSet DEF S
    <2>4. \A i \in 0 .. n : n - i \in Nat /\ n - i <= n /\ n - (n - i) = i
        BY <1>1
    <2> QED BY <2>3, <2>4 DEF S
<1>3. \A i \in Nat : i + 1 <= n => f[i] \in Nodes /\ f[i + 1] \in Nodes /\ <<f[i], f[i + 1]>> \in L
    <2> SUFFICES ASSUME NEW i \in Nat, i + 1 <= n
                 PROVE  f[i] \in Nodes /\ f[i + 1] \in Nodes /\ <<f[i], f[i + 1]>> \in L
        OBVIOUS
    <2>1. i \in 0 .. n /\ i + 1 \in 0 .. n
        BY <1>1
    <2>2. f[i + 1] = A[f[i]] /\ f[i] \in Nodes /\ f[i + 1] \in Nodes
        BY <2>1, <1>1, <1>2
    <2>3. <<f[i], A[f[i]]>> \in L
        BY <2>1, <2>2, <1>2 DEF OrderedBy
    <2> QED BY <2>2, <2>3
<1>4. \A i, j \in 0 .. n : i < j => <<f[i], f[j]>> \in L
    <2> DEFINE S == {k \in Nat : \A i \in Nat : i + (k + 1) <= n => <<f[i], f[i + (k + 1)]>> \in L}
    <2>1. 0 \in S
        BY <1>3
    <2>2. ASSUME NEW k \in S PROVE k + 1 \in S
        <3> SUFFICES ASSUME NEW i \in Nat, i + ((k + 1) + 1) <= n
                     PROVE  <<f[i], f[i + ((k + 1) + 1)]>> \in L
            OBVIOUS
        <3>1. /\ k \in Nat /\ i + (k + 1) \in Nat /\ (i + (k + 1)) + 1 = i + ((k + 1) + 1)
              /\ (i + (k + 1)) + 1 <= n /\ i + (k + 1) <= n /\ i + 1 <= n
            BY <1>1
        <3>2. <<f[i], f[i + (k + 1)]>> \in L
            BY <3>1
        <3>3. /\ <<f[i + (k + 1)], f[i + ((k + 1) + 1)]>> \in L
              /\ f[i + (k + 1)] \in Nodes /\ f[i + ((k + 1) + 1)] \in Nodes /\ f[i] \in Nodes
            BY <3>1, <1>3
        <3> QED BY <3>2, <3>3 DEF OrderedBy
    <2> HIDE DEF S
    <2>3. S = Nat
        BY <2>1, <2>2, InductionOverSet DEF S
    <2> SUFFICES ASSUME NEW i \in 0 .. n, NEW j \in 0 .. n, i < j PROVE <<f[i], f[j]>> \in L
        OBVIOUS
    <2>4. PICK k \in Nat : i + (k + 1) = j /\ i \in Nat /\ j <= n
        <3>1. (j - i) - 1 \in Nat /\ i + (((j - i) - 1) + 1) = j /\ i \in Nat /\ j <= n
            BY <1>1
        <3> QED BY <3>1
    <2>5. i + (k + 1) <= n => <<f[i], f[i + (k + 1)]>> \in L
        BY <2>3, <2>4 DEF S
    <2> QED BY <2>4, <2>5
<1>5. \A i, j \in 0 .. n : i # j => f[i] # f[j]
    <2> SUFFICES ASSUME NEW i \in 0 .. n, NEW j \in 0 .. n, i # j, f[i] = f[j] PROVE FALSE
        OBVIOUS
    <2>1. <<f[i], f[i]>> \in L
        <3>1. i < j \/ j < i
            BY <1>1
        <3> QED BY <3>1, <1>4
    <2>2. f[i] \in Nodes
        BY <1>1
    <2> QED BY <2>1, <2>2 DEF OrderedBy
<1>6. IsFiniteSet(0 .. n) /\ Cardinality(0 .. n) = n + 1
    BY <1>1, FS_Interval
<1>7. Cardinality(Nodes) < Cardinality(0 .. n)
    BY <1>1, <1>6, <1>card
<1> DEFINE D == 0 .. n
<1>8. IsFiniteSet(D) /\ Cardinality(Nodes) < Cardinality(D) /\ f \in [D -> Nodes]
    BY <1>1, <1>6, <1>7
<1> HIDE DEF D
<1>9. \E i, j \in D : i # j /\ f[i] = f[j]
    BY <1>card, <1>8, FS_PigeonHole
<1> QED BY <1>5, <1>9 DEF D

\* There is one map to the roots, RootIn.
LEMMA OneMapToTheRoots ==
    ASSUME NEW A, NEW L, OrderedBy(A, L), NEW R, LeadsTo(A, R), NEW v \in Nodes
    PROVE  RootIn(A, v) = R[v]
<1> DEFINE n == Cardinality(Nodes)
<1>1. PICK f : Climb(A, v, f) /\ RootIn(A, v) = f[n]
    BY ClimbExists
<1>2. /\ n \in Nat /\ f[0] = v /\ f \in [0 .. n -> Nodes]
      /\ \A i \in Nat : i + 1 <= n => f[i + 1] = IF A[f[i]] < 0 THEN f[i] ELSE A[f[i]]
    BY <1>1, ClimbFacts
<1>3. A[f[n]] < 0
    BY <1>1, ClimbEnds
<1> HIDE DEF n
<1> DEFINE S == {i \in Nat : i <= n => R[f[i]] = R[v]}
<1>4. 0 \in S
    BY <1>2
<1>5. ASSUME NEW i \in S PROVE i + 1 \in S
    <2> SUFFICES ASSUME i + 1 <= n PROVE R[f[i + 1]] = R[v]
        OBVIOUS
    <2>1. i \in 0 .. n /\ i <= n /\ i \in Nat
        BY <1>2
    <2>2. f[i] \in Nodes /\ R[f[i]] = R[v] /\ f[i + 1] = IF A[f[i]] < 0 THEN f[i] ELSE A[f[i]]
        BY <2>1, <1>2
    <2> QED BY <2>2 DEF LeadsTo
<1> HIDE DEF S
<1>6. S = Nat
    BY <1>4, <1>5, InductionOverSet DEF S
<1>7. R[f[n]] = R[v] /\ f[n] \in Nodes
    BY <1>2, <1>6 DEF S
<1> QED BY <1>1, <1>3, <1>7 DEF LeadsTo

\* RootIn is a map to the roots.
LEMMA RootInLeads ==
    ASSUME NEW A, NEW L, OrderedBy(A, L)
    PROVE  LeadsTo(A, [v \in Nodes |-> RootIn(A, v)])
<1> DEFINE n == Cardinality(Nodes)
<1>1. ASSUME NEW v \in Nodes
      PROVE  /\ RootIn(A, v) \in Nodes /\ A[RootIn(A, v)] < 0
             /\ RootIn(A, v) = IF A[v] < 0 THEN v ELSE RootIn(A, A[v])
    <2>1. PICK f : Climb(A, v, f) /\ RootIn(A, v) = f[n]
        BY ClimbExists
    <2>2. /\ n \in Nat /\ f[0] = v /\ f \in [0 .. n -> Nodes]
          /\ \A i \in Nat : i + 1 <= n => f[i + 1] = IF A[f[i]] < 0 THEN f[i] ELSE A[f[i]]
        BY <2>1, ClimbFacts
    <2>3. A[f[n]] < 0
        BY <2>1, ClimbEnds
    <2> HIDE DEF n
    <2>4. f[n] \in Nodes
        BY <2>2
    <2>5. CASE A[v] < 0
        <3> DEFINE S == {i \in Nat : i <= n => f[i] = v}
        <3>1. 0 \in S
            BY <2>2
        <3>2. ASSUME NEW i \in S PROVE i + 1 \in S
            <4> SUFFICES ASSUME i + 1 <= n PROVE f[i + 1] = v
                OBVIOUS
            <4>1. i <= n /\ i \in Nat
                BY <2>2
            <4> QED BY <4>1, <2>2, <2>5
        <3> HIDE DEF S
        <3>3. S = Nat
            BY <3>1, <3>2, InductionOverSet DEF S
        <3>4. f[n] = v
            BY <2>2, <3>3 DEF S
        <3> QED BY <3>4, <2>1, <2>3, <2>4, <2>5
    <2>6. CASE ~(A[v] < 0)
        <3> DEFINE u == A[v]
        <3>0. u \in Nodes
            BY <2>6 DEF OrderedBy
        <3>1. PICK g : Climb(A, u, g) /\ RootIn(A, u) = g[n]
            BY <3>0, ClimbExists DEF n
        <3>2. /\ g[0] = u /\ g \in [0 .. n -> Nodes]
              /\ \A i \in Nat : i + 1 <= n => g[i + 1] = IF A[g[i]] < 0 THEN g[i] ELSE A[g[i]]
            BY <3>0, <3>1, ClimbFacts DEF n
        <3>r. RootIn(A, A[v]) = g[n]
            BY <3>1
        <3>n. n >= 1
            <4>1. n # 0
                BY ConnectivityAssumption, FS_EmptySet DEF n
            <4> QED BY <4>1, <2>2
        <3> HIDE DEF u
        <3> DEFINE S == {i \in Nat : i + 1 <= n => g[i] = f[i + 1]}
        <3>3. 0 \in S
            BY <2>2, <2>6, <3>2 DEF u
        <3>4. ASSUME NEW i \in S PROVE i + 1 \in S
            <4> SUFFICES ASSUME (i + 1) + 1 <= n PROVE g[i + 1] = f[(i + 1) + 1]
                OBVIOUS
            <4>1. i + 1 <= n /\ i \in Nat /\ i + 1 \in Nat
                BY <2>2
            <4>2. g[i] = f[i + 1]
                BY <4>1
            <4>3. g[i + 1] = IF A[g[i]] < 0 THEN g[i] ELSE A[g[i]]
                BY <4>1, <3>2
            <4>4. f[(i + 1) + 1] = IF A[f[i + 1]] < 0 THEN f[i + 1] ELSE A[f[i + 1]]
                BY <4>1, <2>2
            <4> QED BY <4>2, <4>3, <4>4
        <3> HIDE DEF S
        <3>5. S = Nat
            BY <3>3, <3>4, InductionOverSet DEF S
        <3>6. n - 1 \in Nat /\ (n - 1) + 1 = n
            BY <2>2, <3>n
        <3>7. g[n - 1] = f[n]
            BY <3>5, <3>6 DEF S
        <3>8. g[n] = f[n]
            BY <3>2, <3>6, <3>7, <2>3
        <3> QED BY <3>8, <3>r, <2>1, <2>3, <2>4, <2>6
    <2> QED BY <2>5, <2>6
<1>2. \A v \in Nodes : ~(A[v] < 0) => A[v] \in Nodes
    BY DEF OrderedBy
<1> DEFINE R == [v \in Nodes |-> RootIn(A, v)]
<1>3. R \in [Nodes -> Nodes]
    BY <1>1
<1>4. \A v \in Nodes : IF A[v] < 0 THEN R[v] = v ELSE R[v] = R[A[v]] /\ A[R[v]] < 0
    BY <1>1, <1>2
<1> QED BY <1>3, <1>4 DEF LeadsTo
-----------------------------------------------------------------------------
(* The trees of the present parents.                                       *)

Order == {p \in Nodes \X Nodes : Below(p[1], p[2])}
RootMap == [v \in Nodes |-> RootOf(v)]
OnlyRootMap == \A R : LeadsTo(union_find, R) => \A v \in Nodes : RootOf(v) = R[v]

\* The parents are ordered, so every node has a root, which it shares with its parent.
LEMMA RootsOfNow ==
    IInv => OrderedBy(union_find, Order) /\ LeadsTo(union_find, RootMap) /\ OnlyRootMap
<1> SUFFICES ASSUME IInv
             PROVE  OrderedBy(union_find, Order) /\ LeadsTo(union_find, RootMap) /\ OnlyRootMap
    OBVIOUS
<1>0. Types /\ ParentsOutrank
    BY DEF IInv
<1>1. OrderedBy(union_find, Order)
    <2>1. \A v \in Nodes : RankOf(v) \in Nat /\ v \in Nat
        BY <1>0, RanksTyped, NodesAreNaturals
    <2>2. \A v \in Nodes : <<v, v>> \notin Order
        BY <2>1 DEF Order, Below
    <2>3. \A u, v, w \in Nodes : <<u, v>> \in Order /\ <<v, w>> \in Order => <<u, w>> \in Order
        BY <1>0, BelowTransitive DEF Order
    <2>4. \A v \in Nodes : ~(union_find[v] < 0) => union_find[v] \in Nodes /\ <<v, union_find[v]>> \in Order
        BY <1>0, RanksTyped DEF ParentsOutrank, Order, IsRoot
    <2> QED BY <2>2, <2>3, <2>4 DEF OrderedBy
<1>2. \A v : RootOf(v) = RootIn(union_find, v)
    BY DEF RootOf, RootIn, ParentOrSelf, IsRoot
<1>3. RootMap = [v \in Nodes |-> RootIn(union_find, v)]
    BY <1>2 DEF RootMap
<1>4. LeadsTo(union_find, RootMap)
    BY <1>1, <1>3, RootInLeads
<1>5. OnlyRootMap
    BY <1>1, <1>2, OneMapToTheRoots DEF OnlyRootMap
<1> QED BY <1>1, <1>4, <1>5

LEMMA RootFacts ==
    ASSUME IInv
    PROVE  \A v \in Nodes :
            /\ RootOf(v) \in Nodes /\ IsRoot(RootOf(v))
            /\ IsRoot(v) => RootOf(v) = v
            /\ ~IsRoot(v) => union_find[v] \in Nodes /\ RootOf(v) = RootOf(union_find[v])
<1>1. OrderedBy(union_find, Order) /\ LeadsTo(union_find, RootMap)
    BY RootsOfNow
<1>2. \A v \in Nodes : RootMap[v] = RootOf(v)
    BY DEF RootMap
<1>3. \A v \in Nodes : ~(union_find[v] < 0) => union_find[v] \in Nodes
    BY <1>1 DEF OrderedBy
<1> QED BY <1>1, <1>2, <1>3 DEF LeadsTo, IsRoot

\* After a step, any map to the roots tells what RootOf is.
LEMMA RootsNext ==
    ASSUME IInv', NEW R, LeadsTo(union_find', R)
    PROVE  \A v \in Nodes : RootOf(v)' = R[v]
<1>1. OnlyRootMap'
    BY RootsOfNow, PTL
<1> QED BY <1>1 DEF OnlyRootMap

RootsLeadNowhere == \A v \in Nodes : IsRoot(v) => RootOf(v) = v

LEMMA RootsAlone == IInv => RootsLeadNowhere
BY RootFacts DEF RootsLeadNowhere

\* A root is above the nodes that lead to it.
LEMMA RootAbove ==
    ASSUME NEW A, NEW L, OrderedBy(A, L), NEW v \in Nodes
    PROVE  RootIn(A, v) = v \/ <<v, RootIn(A, v)>> \in L
<1> DEFINE n == Cardinality(Nodes)
<1>1. PICK f : Climb(A, v, f) /\ RootIn(A, v) = f[n]
    BY ClimbExists
<1>2. /\ n \in Nat /\ f[0] = v /\ f \in [0 .. n -> Nodes]
      /\ \A i \in Nat : i + 1 <= n => f[i + 1] = IF A[f[i]] < 0 THEN f[i] ELSE A[f[i]]
    BY <1>1, ClimbFacts
<1> HIDE DEF n
<1> DEFINE S == {i \in Nat : i <= n => f[i] = v \/ <<v, f[i]>> \in L}
<1>3. 0 \in S
    BY <1>2
<1>4. ASSUME NEW i \in S PROVE i + 1 \in S
    <2> SUFFICES ASSUME i + 1 <= n PROVE f[i + 1] = v \/ <<v, f[i + 1]>> \in L
        OBVIOUS
    <2>1. i \in 0 .. n /\ i <= n /\ i \in Nat
        BY <1>2
    <2>2. f[i] \in Nodes /\ f[i + 1] = IF A[f[i]] < 0 THEN f[i] ELSE A[f[i]]
        BY <2>1, <1>2
    <2>3. f[i] = v \/ <<v, f[i]>> \in L
        BY <2>1
    <2> QED BY <2>2, <2>3 DEF OrderedBy
<1> HIDE DEF S
<1>5. S = Nat
    BY <1>3, <1>4, InductionOverSet DEF S
<1>6. f[n] = v \/ <<v, f[n]>> \in L
    BY <1>2, <1>5 DEF S
<1> QED BY <1>1, <1>6

\* Nodes that were in one tree stay in one tree.
TreesMerge == \A u, v \in Nodes : RootOf(u) = RootOf(v) => RootOf(u)' = RootOf(v)'

LEMMA RootsUnchanged ==
    ASSUME union_find' = union_find
    PROVE  TreesMerge /\ \A v : RootOf(v)' = RootOf(v)
<1>1. \A v : RootOf(v)' = RootOf(v)
    BY DEF RootOf, ParentOrSelf, IsRoot
<1> QED BY <1>1 DEF TreesMerge

\* A node moves up within its tree.
LEMMA RootsAfterMove ==
    ASSUME IInv, IInv', NEW u \in Nodes, NEW w \in Nodes, ~IsRoot(u), RootOf(w) = RootOf(u),
           union_find' = union_find \/ union_find' = [union_find EXCEPT ![u] = w]
    PROVE  \A v \in Nodes : RootOf(v)' = RootOf(v)
<1>1. CASE union_find' = union_find
    BY <1>1, RootsUnchanged
<1>2. CASE union_find' = [union_find EXCEPT ![u] = w]
    <2>1. LeadsTo(union_find, RootMap) /\ \A v \in Nodes : RootMap[v] = RootOf(v)
        BY RootsOfNow DEF RootMap
    <2>2. /\ \A v \in Nodes : v # u => union_find'[v] = union_find[v]
          /\ union_find'[u] = w /\ ~(w < 0)
        BY <1>2, NodesAreNaturals DEF IInv, Types
    <2>3. \A v \in Nodes : RootOf(v) # u /\ union_find[RootOf(v)] < 0 /\ RootOf(v) \in Nodes
        BY RootFacts DEF IsRoot
    <2>4. \A v \in Nodes : union_find'[RootOf(v)] < 0
        BY <2>2, <2>3
    <2>5. ASSUME NEW v \in Nodes
          PROVE  IF union_find'[v] < 0 THEN RootMap[v] = v
                 ELSE RootMap[v] = RootMap[union_find'[v]] /\ union_find'[RootMap[v]] < 0
        <3>1. CASE v = u
            BY <3>1, <2>1, <2>2, <2>4
        <3>2. CASE v # u
            BY <3>2, <2>1, <2>2, <2>4 DEF LeadsTo
        <3> QED BY <3>1, <3>2
    <2>6. LeadsTo(union_find', RootMap)
        BY <2>1, <2>5 DEF LeadsTo
    <2> HIDE DEF RootMap
    <2>7. \A v \in Nodes : RootOf(v)' = RootMap[v]
        BY <2>6, RootsNext
    <2> QED BY <2>1, <2>7
<1> QED BY <1>1, <1>2

\* A root is linked below a node of another tree.
LEMMA RootsAfterLink ==
    ASSUME IInv, IInv', NEW low \in Nodes, NEW high \in Nodes, IsRoot(low), Below(low, high),
           union_find' = [union_find EXCEPT ![low] = high]
    PROVE  /\ RootOf(high) # low
           /\ \A v \in Nodes : RootOf(v)' = IF RootOf(v) = low THEN RootOf(high) ELSE RootOf(v)
<1> DEFINE R == [v \in Nodes |-> IF RootOf(v) = low THEN RootOf(high) ELSE RootOf(v)]
<1>1. LeadsTo(union_find, RootMap) /\ OrderedBy(union_find, Order) /\ \A v \in Nodes : RootMap[v] = RootOf(v)
    BY RootsOfNow DEF RootMap
<1>2. RootOf(high) # low
    <2> SUFFICES ASSUME RootOf(high) = low PROVE FALSE
        OBVIOUS
    <2>1. RootOf(high) = RootIn(union_find, high)
        BY DEF RootOf, RootIn, ParentOrSelf, IsRoot
    <2>2. low = high \/ <<high, low>> \in Order
        BY <2>1, <1>1, RootAbove
    <2>3. <<low, high>> \in Order
        BY DEF Order
    <2> QED BY <2>2, <2>3, <1>1 DEF OrderedBy
<1>3. /\ \A v \in Nodes : v # low => union_find'[v] = union_find[v]
      /\ union_find'[low] = high /\ ~(high < 0)
    BY NodesAreNaturals DEF IInv, Types
<1>4. \A v \in Nodes : RootOf(v) \in Nodes /\ union_find[RootOf(v)] < 0
    BY RootFacts DEF IsRoot
<1>5. RootOf(low) = low
    BY RootFacts
<1>6. \A v \in Nodes : R[v] \in Nodes /\ union_find'[R[v]] < 0 /\ (RootOf(v) # low => R[v] = RootOf(v))
    BY <1>2, <1>3, <1>4
<1>7. ASSUME NEW v \in Nodes
      PROVE  IF union_find'[v] < 0 THEN R[v] = v
             ELSE R[v] = R[union_find'[v]] /\ union_find'[R[v]] < 0
    <2>1. CASE v = low
        BY <2>1, <1>2, <1>3, <1>5, <1>6
    <2>2. CASE v # low
        <3>1. CASE union_find[v] < 0
            <4>1. RootOf(v) = v
                BY <3>1, RootFacts DEF IsRoot
            <4> QED BY <3>1, <4>1, <2>2, <1>3
        <3>2. CASE ~(union_find[v] < 0)
            <4>1. union_find[v] \in Nodes /\ RootOf(v) = RootOf(union_find[v])
                BY <3>2, RootFacts DEF IsRoot
            <4> QED BY <3>2, <4>1, <2>2, <1>3, <1>6
        <3> QED BY <3>1, <3>2
    <2> QED BY <2>1, <2>2
<1>8. R \in [Nodes -> Nodes]
    BY <1>6
<1>9. \A v \in Nodes : R[v] = IF RootOf(v) = low THEN RootOf(high) ELSE RootOf(v)
    OBVIOUS
<1> HIDE DEF R
<1>10. LeadsTo(union_find', R)
    BY <1>7, <1>8 DEF LeadsTo
<1>11. \A v \in Nodes : RootOf(v)' = R[v]
    BY <1>10, RootsNext
<1> QED BY <1>2, <1>9, <1>11

\* The rank of a root is raised.
LEMMA RootsAfterRaise ==
    ASSUME IInv, IInv', NEW high \in Nodes, NEW r \in Nat, r # 0,
           union_find' = IF union_find[high] = -r
                         THEN [union_find EXCEPT ![high] = -(r + 1)] ELSE union_find
    PROVE  \A v \in Nodes : RootOf(v)' = RootOf(v)
<1>1. CASE union_find[high] # -r
    BY <1>1, RootsUnchanged
<1>2. CASE union_find[high] = -r
    <2>1. LeadsTo(union_find, RootMap) /\ \A v \in Nodes : RootMap[v] = RootOf(v)
        BY RootsOfNow DEF RootMap
    <2>2. -r < 0 /\ -(r + 1) < 0
        OBVIOUS
    <2>3. \A v \in Nodes : union_find'[v] < 0 <=> union_find[v] < 0
        BY <1>2, <2>2 DEF IInv, Types
    <2>4. \A v \in Nodes : ~(union_find[v] < 0) => union_find'[v] = union_find[v]
        BY <1>2, <2>2 DEF IInv, Types
    <2>5. LeadsTo(union_find', RootMap)
        BY <2>1, <2>3, <2>4 DEF LeadsTo
    <2> HIDE DEF RootMap
    <2>6. \A v \in Nodes : RootOf(v)' = RootMap[v]
        BY <2>5, RootsNext
    <2> QED BY <2>1, <2>6
<1> QED BY <1>1, <1>2
-----------------------------------------------------------------------------
(* Powers of two count the subsets of a set; so another element doubles them. *)

LEMMA SubsetsOfInterval ==
    ASSUME NEW k \in Nat
    PROVE  IsFiniteSet(SUBSET (1 .. k)) /\ Cardinality(SUBSET (1 .. k)) = 2 ^ k
<1>1. IsFiniteSet(1 .. k) /\ Cardinality(1 .. k) = k
    BY FS_Interval
<1> QED BY <1>1, FS_SUBSET

LEMMA PowersOfTwo ==
    ASSUME NEW k \in Nat
    PROVE  2 ^ k \in Nat /\ 2 ^ (k + 1) = 2 ^ k + 2 ^ k
<1> DEFINE A == SUBSET (1 .. k)
           B == {X \cup {k + 1} : X \in A}
           f == [X \in A |-> X \cup {k + 1}]
<1>1. IsFiniteSet(A) /\ Cardinality(A) = 2 ^ k /\ Cardinality(SUBSET (1 .. k + 1)) = 2 ^ (k + 1)
    BY SubsetsOfInterval
<1>2. 2 ^ k \in Nat
    BY <1>1, FS_CardinalityType
<1>3. \A X \in A : k + 1 \notin X
    OBVIOUS
<1>4. f \in Bijection(A, B)
    <2>1. \A X, Y \in A : X \cup {k + 1} = Y \cup {k + 1} => X = Y
        BY <1>3
    <2> HIDE DEF A
    <2>2. f \in [A -> B]
        OBVIOUS
    <2>3. \A X, Y \in A : f[X] = f[Y] => X = Y
        BY <2>1
    <2>4. \A Y \in B : \E X \in A : f[X] = Y
        OBVIOUS
    <2> HIDE DEF f, B
    <2>5. f \in Injection(A, B)
        BY <2>2, <2>3 DEF Injection, IsInjective
    <2>6. f \in Surjection(A, B)
        BY <2>2, <2>4 DEF Surjection
    <2> QED BY <2>5, <2>6 DEF Bijection
<1>5. IsFiniteSet(B) /\ Cardinality(B) = 2 ^ k
    <2>1. ExistsBijection(A, B)
        BY <1>4 DEF ExistsBijection
    <2> HIDE DEF A, B
    <2> QED BY <1>1, <2>1, FS_Bijection
<1>6. SUBSET (1 .. k + 1) = A \cup B
    <2>1. ASSUME NEW X \in SUBSET (1 .. k + 1) PROVE X \in A \cup B
        <3>1. CASE k + 1 \in X
            <4>1. X \ {k + 1} \in A /\ X = (X \ {k + 1}) \cup {k + 1}
                BY <3>1
            <4> QED BY <4>1
        <3>2. CASE k + 1 \notin X
            BY <3>2
        <3> QED BY <3>1, <3>2
    <2>2. 1 .. k \subseteq 1 .. k + 1 /\ k + 1 \in 1 .. k + 1
        OBVIOUS
    <2> QED BY <2>1, <2>2
<1>7. A \cap B = {}
    BY <1>3
<1>8. Cardinality(A \cup B) = 2 ^ k + 2 ^ k
    <2> HIDE DEF A, B
    <2>1. Cardinality(A \cup B) = Cardinality(A) + Cardinality(B) - Cardinality(A \cap B)
        BY <1>1, <1>5, FS_Union
    <2>2. Cardinality(A \cap B) = 0
        BY <1>7, FS_EmptySet
    <2> DEFINE c == 2 ^ k
    <2>3. c \in Nat /\ Cardinality(A) = c /\ Cardinality(B) = c
        BY <1>1, <1>2, <1>5
    <2> HIDE DEF c
    <2>4. Cardinality(A \cup B) = c + c
        BY <2>1, <2>2, <2>3
    <2> QED BY <2>4 DEF c
<1> QED BY <1>1, <1>2, <1>6, <1>8
-----------------------------------------------------------------------------
(* What the searches, the answers and the raises know of the trees.        *)

Tree(r) == {v \in Nodes : RootOf(v) = r}

CallsTyped ==
    /\ edge \in [Threads -> (Nodes \X Nodes) \cup {NoEdge}]
    /\ apart \in [Threads -> BOOLEAN]

\* A search stays in the tree of the node it began at, however the trees merge.
Searches(t) ==
    /\ Calling(t) =>
        edge[t] \in Nodes \X Nodes /\ \A i \in {1, 2} : RootMap[a[t][i]] = RootMap[edge[t][i]]
    /\ pc[t] \in {"find", "compress"} =>
        \A i \in 1 .. Len(path[t]) : RootMap[path[t][i]] = RootMap[edge[t][side[t]]]

\* What connected() was called with is in one tree, or was in two when the call began; and
\* it was if two representatives were found and the first one is still one.
Answers(t) ==
    Calling(t) /\ t \notin team =>
        /\ apart[t] = TRUE \/ RootMap[edge[t][1]] = RootMap[edge[t][2]]
        /\ pc[t] = "compare" /\ a[t][1] # a[t][2] /\ IsRoot(a[t][1]) => apart[t] = TRUE

\* After a link of equal ranks the tree is large enough for the rank that will be stored, if
\* the CAS will find the one that was compared.
Raises(t) ==
    pc[t] = "raise" =>
        /\ rank[t][1] = rank[t][2]
        /\ union_find[Higher(t)] = -rank[t][1] =>
            Cardinality(Tree(Higher(t))) >= 2 ^ rank[t][1]

\* Outside of its calls, a thread that is not idle belongs to the team.
InTeam(t) == pc[t] \in {"loop", "store", "joined"} => t \in team

CallOK(t) == Searches(t) /\ Answers(t) /\ Raises(t) /\ InTeam(t)

\* The inductive invariant about the trees.
TreesInv == IInv /\ CallsTyped /\ TreesAsLargeAsRanks /\ \A t \in Threads : CallOK(t)

LEMMA TreesFinite ==
    ASSUME NEW r
    PROVE  IsFiniteSet(Tree(r)) /\ Cardinality(Tree(r)) \in Nat
<1>1. Tree(r) \subseteq Nodes
    BY DEF Tree
<1> QED BY <1>1, ConnectivityAssumption, FS_Subset, FS_CardinalityType

\* The tree of a root that stays one does not lose a node.
LEMMA TreesGrow ==
    ASSUME IInv, IInv', RanksGrow, TreesMerge, NEW r \in Nodes, IsRoot(r)'
    PROVE  /\ Tree(r) \subseteq Tree(r)' /\ IsRoot(r)
           /\ Cardinality(Tree(r)) \in Nat /\ Cardinality(Tree(r)') \in Nat
           /\ Cardinality(Tree(r)) <= Cardinality(Tree(r)')
<1>1. IsRoot(r)
    BY DEF RanksGrow
<1>2. RootOf(r) = r
    BY <1>1, RootFacts
<1>3. RootOf(r)' = r
    <2>1. RootsLeadNowhere'
        BY RootsAlone, PTL
    <2> QED BY <2>1 DEF RootsLeadNowhere
<1>4. Tree(r) \subseteq Tree(r)'
    BY <1>2, <1>3 DEF Tree, TreesMerge
<1>5. IsFiniteSet(Tree(r)')
    <2>1. Tree(r)' \subseteq Nodes
        BY DEF Tree
    <2> QED BY <2>1, ConnectivityAssumption, FS_Subset
<1> QED BY <1>1, <1>4, <1>5, FS_Subset, FS_CardinalityType

\* Trees stay large enough if no root is raised without reason.
LEMMA SizesKept ==
    ASSUME IInv, IInv', RanksGrow, TreesMerge, TreesAsLargeAsRanks,
           \A v \in Nodes : IsRoot(v)' => \/ union_find'[v] = union_find[v]
                                          \/ Cardinality(Tree(v)) >= 2 ^ (-union_find'[v] - 1)
    PROVE  TreesAsLargeAsRanks'
<1> SUFFICES ASSUME NEW r \in Nodes, IsRoot(r)'
             PROVE  Cardinality(Tree(r)') >= 2 ^ (-union_find'[r] - 1)
    BY DEF TreesAsLargeAsRanks, Tree, Roots
<1>1. /\ IsRoot(r) /\ Cardinality(Tree(r)) \in Nat /\ Cardinality(Tree(r)') \in Nat
      /\ Cardinality(Tree(r)) <= Cardinality(Tree(r)')
    BY TreesGrow
<1>2. Cardinality(Tree(r)) >= 2 ^ (-union_find'[r] - 1)
    <2>1. CASE union_find'[r] = union_find[r]
        BY <1>1, <2>1 DEF TreesAsLargeAsRanks, Tree, Roots
    <2> QED BY <2>1
<1> DEFINE c == 2 ^ (-union_find'[r] - 1)
<1>3. c \in Nat
    <2>1. -union_find'[r] - 1 \in Nat
        BY DEF IInv, Types, IsRoot
    <2> QED BY <2>1, PowersOfTwo
<1> HIDE DEF c
<1>4. Cardinality(Tree(r)) >= c
    BY <1>2 DEF c
<1>5. Cardinality(Tree(r)') >= c
    BY <1>1, <1>3, <1>4
<1> QED BY <1>5 DEF c

\* A call is not disturbed by the steps of others.
LEMMA OtherCall ==
    ASSUME TreesInv, IInv', RanksGrow, TreesMerge, NEW u \in Threads, pc'[u] = pc[u],
           u \in team' <=> u \in team,
           Calling(u) => /\ side'[u] = side[u] /\ a'[u] = a[u] /\ rank'[u] = rank[u]
                         /\ path'[u] = path[u] /\ edge'[u] = edge[u] /\ apart'[u] = apart[u]
    PROVE  CallOK(u)'
<1>0. IInv /\ CallOK(u) /\ Types /\ ThreadOK(u)
    BY DEF TreesInv, IInv
<1>t. InTeam(u)'
    BY <1>0 DEF CallOK, InTeam
<1> SUFFICES ASSUME Calling(u) PROVE CallOK(u)'
    BY <1>t DEF CallOK, Searches, Answers, Raises, Calling
<1>1. a[u] \in Nodes \X Nodes /\ edge[u] \in Nodes \X Nodes /\ side[u] \in {1, 2} /\ path[u] \in Seq(Nodes)
    BY <1>0 DEF ThreadOK, Called, CallOK, Searches, Types
<1>m. \A x, y \in Nodes : RootMap[x] = RootMap[y] => RootMap'[x] = RootMap'[y]
    BY DEF TreesMerge, RootMap
<1>2. Searches(u)'
    <2>1. \A i \in {1, 2} : RootMap'[a[u][i]] = RootMap'[edge[u][i]]
        <3>1. \A i \in {1, 2} : a[u][i] \in Nodes /\ edge[u][i] \in Nodes
            BY <1>1
        <3> QED BY <3>1, <1>m, <1>0 DEF CallOK, Searches
    <2>2. pc[u] \in {"find", "compress"} =>
            \A i \in 1 .. Len(path[u]) : RootMap'[path[u][i]] = RootMap'[edge[u][side[u]]]
        <3>1. edge[u][side[u]] \in Nodes /\ \A i \in 1 .. Len(path[u]) : path[u][i] \in Nodes
            BY <1>1
        <3> QED BY <3>1, <1>m, <1>0 DEF CallOK, Searches
    <2> QED BY <2>1, <2>2, <1>1 DEF Searches
<1>3. Answers(u)'
    <2>1. edge[u][1] \in Nodes /\ edge[u][2] \in Nodes /\ a[u][1] \in Nodes
        BY <1>1
    <2>2. IsRoot(a[u][1])' => IsRoot(a[u][1])
        BY <2>1 DEF RanksGrow, IsRoot
    <2>3. u \notin team =>
            /\ apart[u] = TRUE \/ RootMap'[edge[u][1]] = RootMap'[edge[u][2]]
            /\ pc[u] = "compare" /\ a[u][1] # a[u][2] /\ IsRoot(a[u][1]) => apart[u] = TRUE
        BY <2>1, <1>m, <1>0 DEF CallOK, Answers
    <2> QED BY <2>2, <2>3 DEF Answers
<1>4. Raises(u)'
    <2> SUFFICES ASSUME pc[u] = "raise", union_find'[Higher(u)] = -rank[u][1]
                 PROVE  Cardinality(Tree(Higher(u)))' >= 2 ^ rank[u][1]
        <3>1. pc[u] = "raise" => rank[u][1] = rank[u][2]
            BY <1>0 DEF CallOK, Raises
        <3>2. Higher(u)' = Higher(u)
            BY DEF Higher, LowerSide
        <3> QED BY <3>1, <3>2 DEF Raises
    <2>1. u \in team /\ rank[u][1] = rank[u][2]
        BY <1>0 DEF ThreadOK, Called, CallOK, Raises
    <2>2. PICK h \in Nodes, r \in Nat : h = Higher(u) /\ r = rank[u][1] /\ r # 0 /\ RankOf(h) >= r
        <3>1. 3 - LowerSide(u) \in 1 .. 2 /\ Higher(u) = a[u][3 - LowerSide(u)]
            BY DEF LowerSide, Higher
        <3>2. \A i \in 1 .. 2 : rank[u][i] \in Nat /\ rank[u][i] # 0 /\ RankOf(a[u][i]) >= rank[u][i]
            BY <1>0, <2>1, Compared
        <3>3. RankOf(Higher(u)) >= rank[u][1]
            BY <3>1, <3>2, <2>1
        <3> QED BY <3>2, <3>3, <1>0, <2>1, Compared
    <2>3. IsRoot(h)' /\ RankOf(h)' = r
        BY <2>2 DEF IsRoot, RankOf
    <2>4. /\ IsRoot(h) /\ Tree(h) \subseteq Tree(h)' /\ Cardinality(Tree(h)) \in Nat
          /\ Cardinality(Tree(h)') \in Nat /\ Cardinality(Tree(h)) <= Cardinality(Tree(h)')
        BY <2>3, <1>0, TreesGrow
    <2>5. RankOf(h) = r /\ union_find[h] = -r
        <3>1. RankOf(h) \in Nat /\ union_find[h] = -RankOf(h)
            BY <1>0, <2>4, RanksTyped
        <3>2. RankOf(h)' >= RankOf(h)
            BY DEF RanksGrow
        <3> QED BY <3>1, <3>2, <2>2, <2>3
    <2>6. Cardinality(Tree(h)) >= 2 ^ r
        BY <1>0, <2>2, <2>5 DEF CallOK, Raises
    <2> DEFINE c == 2 ^ r
    <2>7. c \in Nat
        BY PowersOfTwo
    <2> HIDE DEF c
    <2>8. Cardinality(Tree(h)) >= c
        BY <2>6 DEF c
    <2>9. Cardinality(Tree(h)') >= c
        BY <2>4, <2>7, <2>8
    <2>10. Cardinality(Tree(Higher(u)))' = Cardinality(Tree(h)')
        <3>1. Higher(u)' = h
            BY <2>2 DEF Higher, LowerSide
        <3> QED BY <3>1 DEF Tree
    <2> QED BY <2>2, <2>9, <2>10 DEF c
<1> QED BY <1>t, <1>2, <1>3, <1>4 DEF CallOK

\* A thread that is in no call knows nothing of the trees.
LEMMA NoCall ==
    ASSUME NEW t \in Threads, pc'[t] \in {"idle", "loop", "store", "joined"},
           pc'[t] # "idle" => t \in team'
    PROVE  CallOK(t)'
BY DEF CallOK, Searches, Answers, Raises, InTeam, Calling

\* The locals that a call of unite() or connected() has.
SameLocals(u) ==
    /\ pc'[u] = pc[u] /\ side'[u] = side[u] /\ a'[u] = a[u] /\ rank'[u] = rank[u]
    /\ path'[u] = path[u] /\ edge'[u] = edge[u] /\ apart'[u] = apart[u]

\* A thread changes no locals but its own.
LEMMA OthersStay ==
    ASSUME IInv, CallsTyped, NEW t \in Threads, Find(t) \/ AddEdges(t) \/ Connected(t)
    PROVE  CallsTyped' /\ team' = team /\ \A u \in Threads \ {t} : SameLocals(u)
<1>0. Types /\ (Calling(t) => a[t] \in Nodes \X Nodes)
    BY DEF IInv, ThreadOK, Called
<1>1. ASSUME Find(t) PROVE CallsTyped' /\ team' = team /\ \A u \in Threads \ {t} : SameLocals(u)
    <2>1. UNCHANGED <<edge, apart, team>>
        BY <1>1 DEF Find, Follow, FindRoot, Compress, loop, history
    <2>2. Calling(t)
        BY <1>1 DEF Find, Follow, FindRoot, Compress, Calling
    <2>3. \A u \in Threads \ {t} :
            pc'[u] = pc[u] /\ side'[u] = side[u] /\ a'[u] = a[u] /\ rank'[u] = rank[u] /\ path'[u] = path[u]
        <3>1. CASE Follow(t)
            BY <3>1, <1>0 DEF Follow, Types
        <3>2. ASSUME NEW root, Found(t, root)
              PROVE  \A u \in Threads \ {t} : pc'[u] = pc[u] /\ side'[u] = side[u] /\ path'[u] = path[u]
            BY <3>2, <1>0, <2>2, FoundOK
        <3>3. CASE FindRoot(t)
            <4>1. \A u \in Threads \ {t} : a'[u] = a[u] /\ rank'[u] = rank[u]
                BY <3>3, <1>0 DEF FindRoot, Types
            <4>2. \A u \in Threads \ {t} : pc'[u] = pc[u] /\ side'[u] = side[u] /\ path'[u] = path[u]
                BY <3>3, <3>2, <1>0 DEF FindRoot, Types
            <4> QED BY <4>1, <4>2
        <3>4. CASE Compress(t)
            BY <3>4, <3>2, <1>0 DEF Compress, Types
        <3> QED BY <1>1, <3>1, <3>3, <3>4 DEF Find
    <2> QED BY <2>1, <2>3 DEF CallsTyped, SameLocals
<1>2. ASSUME TakeEdge(t) \/ AskConnected(t)
      PROVE  CallsTyped' /\ team' = team /\ \A u \in Threads \ {t} : SameLocals(u)
    <2>1. PICK e \in Nodes \X Nodes, from \in {"loop", "idle"} : Call(t, from, e)
        BY <1>2, <1>0, ConnectivityAssumption DEF TakeEdge, AskConnected, Types
    <2>2. team' = team /\ apart' \in [Threads -> BOOLEAN] /\ \A u \in Threads \ {t} : apart'[u] = apart[u]
        BY <1>2 DEF TakeEdge, AskConnected, loop, history, CallsTyped
    <2>3. \A u \in Threads \ {t} :
            /\ pc'[u] = pc[u] /\ side'[u] = side[u] /\ a'[u] = a[u] /\ rank'[u] = rank[u] /\ path'[u] = path[u]
            /\ edge'[u] = edge[u]
        BY <2>1, <1>0 DEF Call, Goto, Types, CallsTyped
    <2>4. edge' \in [Threads -> (Nodes \X Nodes) \cup {NoEdge}]
        BY <2>1 DEF Call, CallsTyped
    <2> QED BY <2>2, <2>3, <2>4 DEF CallsTyped, SameLocals
<1>3. ASSUME NEW to \in {"loop", "idle"}, Return(t, to)
      PROVE  /\ edge' \in [Threads -> (Nodes \X Nodes) \cup {NoEdge}]
             /\ \A u \in Threads \ {t} :
                    /\ pc'[u] = pc[u] /\ side'[u] = side[u] /\ a'[u] = a[u] /\ rank'[u] = rank[u]
                    /\ path'[u] = path[u] /\ edge'[u] = edge[u]
    <2>1. \A u \in Threads \ {t} :
            pc'[u] = pc[u] /\ side'[u] = side[u] /\ a'[u] = a[u] /\ rank'[u] = rank[u] /\ path'[u] = path[u]
        BY <1>0, <1>3, ReturnOK
    <2> QED BY <2>1, <1>3 DEF Return, CallsTyped
<1>4. ASSUME SameTree(t) \/ AnswerTrue(t) \/ AnswerFalse(t)
      PROVE  CallsTyped' /\ team' = team /\ \A u \in Threads \ {t} : SameLocals(u)
    <2>1. PICK to \in {"loop", "idle"} : Return(t, to)
        BY <1>4 DEF SameTree, AnswerTrue, AnswerFalse
    <2>2. team' = team /\ apart' \in [Threads -> BOOLEAN] /\ \A u \in Threads \ {t} : apart'[u] = apart[u]
        BY <1>4 DEF SameTree, AnswerTrue, AnswerFalse, loop, CallsTyped
    <2> QED BY <2>1, <2>2, <1>3 DEF CallsTyped, SameLocals
<1>5. ASSUME LinkFails(t) \/ AskAgain(t)
      PROVE  CallsTyped' /\ team' = team /\ \A u \in Threads \ {t} : SameLocals(u)
    BY <1>0, <1>5 DEF LinkFails, AskAgain, Retry, loop, history, Types, CallsTyped, SameLocals
<1>6. ASSUME Reserve(t) \/ StoreEdge(t) \/ Stored(t)
      PROVE  CallsTyped' /\ team' = team /\ \A u \in Threads \ {t} : SameLocals(u)
    BY <1>0, <1>6 DEF Reserve, StoreEdge, Stored, Goto, call, loop, history, Types, CallsTyped, SameLocals
<1>7. ASSUME Link(t)
      PROVE  CallsTyped' /\ team' = team /\ \A u \in Threads \ {t} : SameLocals(u)
    <2>1. UNCHANGED <<team, apart>>
        BY <1>7 DEF Link, loop
    <2>2. CASE pc' = [pc EXCEPT ![t] = "raise"] /\ UNCHANGED call
        BY <2>1, <2>2, <1>0 DEF call, Types, CallsTyped, SameLocals
    <2>3. CASE Return(t, "loop")
        BY <2>1, <2>3, <1>3 DEF CallsTyped, SameLocals
    <2> QED BY <1>7, <2>2, <2>3 DEF Link
<1>8. ASSUME Raise(t)
      PROVE  CallsTyped' /\ team' = team /\ \A u \in Threads \ {t} : SameLocals(u)
    <2>1. UNCHANGED <<team, apart>> /\ Return(t, "loop")
        BY <1>8 DEF Raise, loop, history
    <2> QED BY <2>1, <1>3 DEF CallsTyped, SameLocals
<1> QED BY <1>1, <1>2, <1>4, <1>5, <1>6, <1>7, <1>8 DEF AddEdges, Unite, Connected

\* The step of one thread, once its own call has been looked at.
LEMMA OneCall ==
    ASSUME TreesInv, IInv', RanksGrow, TreesMerge, TreesAsLargeAsRanks',
           NEW t \in Threads, Find(t) \/ AddEdges(t) \/ Connected(t), CallOK(t)'
    PROVE  TreesInv'
<1>1. CallsTyped' /\ team' = team /\ \A u \in Threads \ {t} : SameLocals(u)
    BY OthersStay DEF TreesInv
<1>2. ASSUME NEW u \in Threads, u # t PROVE CallOK(u)'
    BY <1>1, <1>2, OtherCall DEF SameLocals
<1> QED BY <1>1, <1>2 DEF TreesInv

\* A step that leaves the parents alone leaves the trees as they are.
LEMMA QuietTrees ==
    ASSUME IInv, IInv', RanksGrow, TreesAsLargeAsRanks, union_find' = union_find
    PROVE  TreesMerge /\ TreesAsLargeAsRanks' /\ RootMap' = RootMap
<1>1. TreesMerge /\ \A v : RootOf(v)' = RootOf(v)
    BY RootsUnchanged
<1>2. RootMap' = RootMap
    BY <1>1 DEF RootMap
<1>3. TreesAsLargeAsRanks'
    BY <1>1, SizesKept
<1> QED BY <1>1, <1>2, <1>3

LEMMA CallTrees ==
    ASSUME TreesInv, IInv', RanksGrow, NEW t \in Threads, TakeEdge(t) \/ AskConnected(t)
    PROVE  TreesInv'
<1>0. Types /\ IInv /\ CallOK(t) /\ CallsTyped
    BY DEF TreesInv, IInv
<1>1. PICK e \in Nodes \X Nodes, from \in {"loop", "idle"} :
        /\ Call(t, from, e)
        /\ \/ TakeEdge(t) /\ from = "loop"
           \/ AskConnected(t) /\ apart' = [apart EXCEPT ![t] = RootOf(e[1]) # RootOf(e[2])]
    BY <1>0, ConnectivityAssumption DEF TakeEdge, AskConnected, Types
<1>2. UNCHANGED <<union_find, team>>
    BY DEF TakeEdge, AskConnected, loop
<1>3. TreesMerge /\ TreesAsLargeAsRanks' /\ RootMap' = RootMap
    BY <1>0, <1>2, QuietTrees DEF TreesInv
<1>4. /\ pc[t] = from /\ pc'[t] = "find" /\ edge'[t] = e /\ a'[t] = e /\ side'[t] = 1 /\ path'[t] = <<e[1]>>
    BY <1>0, <1>1 DEF Call, Goto, Types, CallsTyped
<1>5. Searches(t)'
    BY <1>4 DEF Searches, Calling
<1>6. Answers(t)'
    <2>1. CASE TakeEdge(t) /\ from = "loop"
        BY <2>1, <1>0, <1>2, <1>4 DEF CallOK, InTeam, Answers
    <2>2. CASE AskConnected(t) /\ apart' = [apart EXCEPT ![t] = RootOf(e[1]) # RootOf(e[2])]
        <3>1. apart'[t] = (RootOf(e[1]) # RootOf(e[2]))
            BY <2>2, <1>0 DEF CallsTyped
        <3>2. RootMap[e[1]] = RootOf(e[1]) /\ RootMap[e[2]] = RootOf(e[2])
            BY DEF RootMap
        <3>3. apart'[t] = TRUE \/ RootMap'[e[1]] = RootMap'[e[2]]
            BY <3>1, <3>2, <1>3
        <3> QED BY <3>3, <1>4 DEF Answers
    <2> QED BY <1>1, <2>1, <2>2
<1>7. CallOK(t)'
    BY <1>4, <1>5, <1>6 DEF CallOK, Raises, InTeam
<1> QED BY <1>3, <1>7, OneCall DEF AddEdges, Connected

\* A parent is in the tree of its child.
LEMMA FollowTrees ==
    ASSUME TreesInv, IInv', RanksGrow, NEW t \in Threads, Follow(t)
    PROVE  TreesInv'
<1> DEFINE p == path[t]
           k == Len(p)
           w == union_find[p[k]]
<1>0. Types /\ IInv /\ CallOK(t) /\ CallsTyped /\ ThreadOK(t)
    BY DEF TreesInv, IInv
<1>1. UNCHANGED <<union_find, team, pc, edge, side, a, rank, apart>> /\ pc[t] = "find" /\ ~IsRoot(p[k])
    BY DEF Follow, loop, history
<1>2. TreesMerge /\ TreesAsLargeAsRanks' /\ RootMap' = RootMap
    BY <1>0, <1>1, QuietTrees DEF TreesInv
<1>3. p \in Seq(Nodes) /\ k \in Nat /\ k >= 1 /\ p[k] \in Nodes
    <2>1. p \in Seq(Nodes) /\ p # <<>>
        BY <1>0, <1>1 DEF Types, ThreadOK, Climbs
    <2>2. k \in Nat /\ k >= 1
        BY <2>1
    <2> QED BY <2>1, <2>2
<1>4. w \in Nodes /\ RootMap[w] = RootMap[p[k]]
    <2>1. w \in Nodes /\ RootOf(w) = RootOf(p[k])
        BY <1>0, <1>1, <1>3, RootFacts
    <2> QED BY <2>1, <1>3 DEF RootMap
<1>5. \A i \in 1 .. k : RootMap[p[i]] = RootMap[edge[t][side[t]]]
    BY <1>0, <1>1 DEF CallOK, Searches
<1>6. path'[t] = IF t \in team THEN Append(p, w) ELSE <<w>>
    BY <1>0 DEF Follow, Types
<1>7. \A i \in 1 .. Len(path'[t]) : RootMap[path'[t][i]] = RootMap[edge[t][side[t]]]
    <2>0. RootMap[w] = RootMap[edge[t][side[t]]]
        BY <1>3, <1>4, <1>5
    <2>1. CASE t \in team
        <3> SUFFICES ASSUME NEW i \in 1 .. k + 1
                     PROVE  RootMap[Append(p, w)[i]] = RootMap[edge[t][side[t]]]
            BY <2>1, <1>3, <1>4, <1>6
        <3>1. CASE i = k + 1
            BY <3>1, <1>3, <1>4, <2>0
        <3>2. CASE i # k + 1
            <4>1. i \in 1 .. k /\ Append(p, w)[i] = p[i]
                BY <3>2, <1>3, <1>4
            <4> QED BY <4>1, <1>5
        <3> QED BY <3>1, <3>2
    <2>2. CASE t \notin team
        BY <2>2, <2>0, <1>6
    <2> QED BY <2>1, <2>2
<1>8. Searches(t)'
    BY <1>0, <1>1, <1>2, <1>7 DEF CallOK, Searches, Calling
<1>9. Answers(t)'
    BY <1>0, <1>1, <1>2 DEF CallOK, Answers, Calling
<1>10. CallOK(t)'
    BY <1>1, <1>8, <1>9 DEF CallOK, Raises, InTeam
<1> QED BY <1>0, <1>2, <1>10, OneCall DEF Find

\* What the search for the other end begins with, if the one that ends found its tree.
LEMMA FoundInTree ==
    ASSUME TreesInv, NEW t \in Threads, NEW root, Found(t, root), Calling(t), edge' = edge,
           RootMap' = RootMap, a'[t][2] = a[t][2] \/ side[t] = 2,
           \A i \in {1, 2} : RootMap[a'[t][i]] = RootMap[edge[t][i]]
    PROVE  Searches(t)' /\ pc'[t] \in {"find", "compare"} /\ (pc'[t] = "compare" => side[t] = 2)
<1>0. Types /\ a[t] \in Nodes \X Nodes /\ edge[t] \in Nodes \X Nodes /\ side[t] \in {1, 2}
    BY DEF TreesInv, IInv, ThreadOK, Called, CallOK, Searches, Types
<1>1. CASE side[t] = 1
    <2>1. side'[t] = 2 /\ pc'[t] = "find" /\ path'[t] = <<a[t][2]>>
        BY <1>0, <1>1 DEF Found, Types
    <2>2. RootMap[a[t][2]] = RootMap[edge[t][2]]
        BY <1>1
    <2>3. Len(path'[t]) = 1 /\ path'[t][1] = a[t][2]
        BY <2>1
    <2>4. \A i \in 1 .. Len(path'[t]) : RootMap'[path'[t][i]] = RootMap'[edge'[t][side'[t]]]
        BY <2>1, <2>2, <2>3
    <2> QED BY <1>0, <2>1, <2>4 DEF Searches
<1>2. CASE side[t] = 2
    <2>1. pc'[t] = "compare" /\ side'[t] = 2
        BY <1>0, <1>2 DEF Found, Types
    <2> QED BY <1>0, <1>2, <2>1 DEF Searches
<1> QED BY <1>0, <1>1, <1>2

\* The representative is in the tree of the node; a first one that is still one was the root
\* of its tree when the second one was found.
LEMMA FindRootTrees ==
    ASSUME TreesInv, IInv', RanksGrow, NEW t \in Threads, FindRoot(t)
    PROVE  TreesInv'
<1> DEFINE p == path[t]
           k == Len(p)
           s == side[t]
           root == p[k]
<1>0. Types /\ IInv /\ CallOK(t) /\ CallsTyped /\ ThreadOK(t)
    BY DEF TreesInv, IInv
<1>1. UNCHANGED <<union_find, team, edge, apart>> /\ pc[t] = "find" /\ IsRoot(root)
    BY DEF FindRoot, loop, history
<1>2. TreesMerge /\ TreesAsLargeAsRanks' /\ RootMap' = RootMap
    BY <1>0, <1>1, QuietTrees DEF TreesInv
<1>3. /\ p \in Seq(Nodes) /\ k \in Nat /\ k >= 1 /\ root \in Nodes /\ s \in {1, 2}
      /\ a[t] \in Nodes \X Nodes /\ edge[t] \in Nodes \X Nodes
    <2>1. p \in Seq(Nodes) /\ p # <<>> /\ s \in {1, 2}
        BY <1>0, <1>1 DEF Types, ThreadOK, Climbs
    <2>2. k \in Nat /\ k >= 1
        BY <2>1
    <2>3. a[t] \in Nodes \X Nodes /\ edge[t] \in Nodes \X Nodes
        BY <1>0, <1>1 DEF ThreadOK, Called, CallOK, Searches, Calling
    <2> QED BY <2>1, <2>2, <2>3
<1>4. \A i \in 1 .. k : RootMap[p[i]] = RootMap[edge[t][s]]
    BY <1>0, <1>1 DEF CallOK, Searches
<1>5. RootMap[root] = RootMap[edge[t][s]] /\ RootMap[root] = root
    <2>1. RootOf(root) = root
        BY <1>0, <1>1, <1>3, RootFacts
    <2> QED BY <2>1, <1>3, <1>4 DEF RootMap
<1>6. a'[t] \in Nodes \X Nodes /\ a'[t][s] = root /\ a'[t][3 - s] = a[t][3 - s]
    <2>1. a'[t] = [a[t] EXCEPT ![s] = root]
        BY <1>0 DEF FindRoot, Types
    <2> HIDE DEF root, s
    <2>2. /\ [a[t] EXCEPT ![s] = root] \in Nodes \X Nodes
          /\ [a[t] EXCEPT ![s] = root][s] = root /\ [a[t] EXCEPT ![s] = root][3 - s] = a[t][3 - s]
        BY <1>3, PairUpdated
    <2> QED BY <2>1, <2>2
<1>7. \A i \in {1, 2} : RootMap[a'[t][i]] = RootMap[edge[t][i]]
    <2>1. RootMap[a[t][3 - s]] = RootMap[edge[t][3 - s]]
        BY <1>0, <1>1, <1>3 DEF CallOK, Searches, Calling
    <2>2. \A i \in {1, 2} : i = s \/ i = 3 - s
        BY <1>3
    <2> QED BY <2>1, <2>2, <1>5, <1>6
<1>8. CASE t \notin team \/ k <= 2
    <2>1. Found(t, root)
        BY <1>8 DEF FindRoot
    <2>2. a'[t][2] = a[t][2] \/ s = 2
        BY <1>3, <1>6
    <2>3. Searches(t)' /\ pc'[t] \in {"find", "compare"} /\ (pc'[t] = "compare" => s = 2)
        BY <2>1, <2>2, <1>1, <1>2, <1>7, FoundInTree DEF Calling
    <2>4. Answers(t)'
        <3> SUFFICES ASSUME t \notin team
                     PROVE  /\ apart[t] = TRUE \/ RootMap[edge[t][1]] = RootMap[edge[t][2]]
                            /\ s = 2 /\ a'[t][1] # a'[t][2] /\ IsRoot(a[t][1])' => apart[t] = TRUE
            BY <1>1, <1>2, <2>3 DEF Answers
        <3>1. apart[t] = TRUE \/ RootMap[edge[t][1]] = RootMap[edge[t][2]]
            BY <1>0, <1>1 DEF CallOK, Answers, Calling
        <3>2. ASSUME s = 2, a'[t][1] # a'[t][2], IsRoot(a[t][1])' PROVE apart[t] = TRUE
            <4>1. PICK x \in Nodes : x = a'[t][1]
                BY <1>6
            <4>2. IsRoot(x)
                BY <3>2, <4>1, <1>1 DEF IsRoot
            <4>3. RootMap[x] = x
                BY <4>2, <1>0, RootFacts DEF RootMap
            <4>4. RootMap[edge[t][1]] = x /\ RootMap[edge[t][2]] = root /\ a'[t][2] = root
                BY <3>2, <4>1, <4>3, <1>5, <1>6, <1>7
            <4> QED BY <3>1, <3>2, <4>1, <4>4
        <3> QED BY <3>1, <3>2
    <2> QED BY <2>3, <2>4, <1>0, <1>2, OneCall DEF CallOK, Raises, InTeam, Find
<1>9. CASE t \in team /\ k > 2
    <2>1. pc'[t] = "compress" /\ path'[t] = SubSeq(p, 1, k - 1) /\ side'[t] = s
        <3>1. ~(t \notin team \/ k <= 2)
            BY <1>3, <1>9
        <3> HIDE DEF k
        <3>2. pc' = [pc EXCEPT ![t] = "compress"] /\ path' = [path EXCEPT ![t] = SubSeq(@, 1, k - 1)] /\ side' = side
            BY <3>1 DEF FindRoot, k
        <3> QED BY <3>2, <1>0 DEF Types
    <2>2. Len(path'[t]) = k - 1 /\ \A i \in 1 .. k - 1 : path'[t][i] = p[i] /\ i \in 1 .. k
        BY <1>3, <2>1
    <2>3. Searches(t)'
        BY <1>1, <1>2, <1>3, <1>4, <1>7, <2>1, <2>2 DEF Searches
    <2>4. CallOK(t)'
        BY <1>1, <1>9, <2>1, <2>3 DEF CallOK, Answers, Raises, InTeam
    <2> QED BY <2>4, <1>0, <1>2, OneCall DEF Find
<1> QED BY <1>3, <1>8, <1>9

\* The node moves up to the representative of its own tree, so no tree changes.
LEMMA CompressedInTree ==
    ASSUME TreesInv, IInv', NEW t \in Threads, Compress(t)
    PROVE  /\ \A v \in Nodes : RootOf(v)' = RootOf(v)
           /\ \A v \in Nodes : IsRoot(v)' => union_find'[v] = union_find[v]
<1> DEFINE p == path[t]
           k == Len(p)
           s == side[t]
           u == p[k - 1]
           w == a[t][s]
<1>0. Types /\ IInv /\ CallOK(t) /\ ThreadOK(t) /\ pc[t] = "compress"
    BY DEF TreesInv, IInv, Compress
<1>1. /\ p \in Seq(Nodes) /\ k \in Nat /\ k >= 2 /\ u \in Nodes /\ s \in {1, 2} /\ w \in Nodes
      /\ k - 1 \in 1 .. k - 1 /\ k - 1 \in 1 .. k
    <2>1. p \in Seq(Nodes) /\ s \in {1, 2} /\ k >= 2
        BY <1>0 DEF Types, ThreadOK, Climbs
    <2>2. a[t] \in Nodes \X Nodes
        BY <1>0 DEF ThreadOK, Called, Calling
    <2> QED BY <2>1, <2>2
<1>2. ~IsRoot(u) /\ RootOf(w) = RootOf(u)
    <2>1. ~IsRoot(u)
        BY <1>0, <1>1 DEF ThreadOK, Climbs
    <2>2. RootMap[u] = RootMap[edge[t][s]]
        BY <1>0, <1>1 DEF CallOK, Searches
    <2>3. RootMap[w] = RootMap[edge[t][s]]
        BY <1>0, <1>1 DEF CallOK, Searches, Calling
    <2>4. RootMap[w] = RootMap[u]
        BY <2>2, <2>3
    <2> HIDE DEF u, w
    <2> QED BY <2>1, <2>4, <1>1 DEF RootMap
<1>3. union_find' = union_find \/ union_find' = [union_find EXCEPT ![u] = w]
    BY DEF Compress
<1> HIDE DEF u, w
<1>4. \A v \in Nodes : RootOf(v)' = RootOf(v)
    BY <1>0, <1>1, <1>2, <1>3, RootsAfterMove
<1>5. \A v \in Nodes : IsRoot(v)' => union_find'[v] = union_find[v]
    <2>1. ~(w < 0)
        BY <1>1, NodesAreNaturals
    <2> QED BY <2>1, <1>1, <1>3, <1>0 DEF Types, IsRoot
<1> QED BY <1>4, <1>5

\* One CAS of the compression, and what the search knows after it.
LEMMA CompressTrees ==
    ASSUME TreesInv, IInv', RanksGrow, NEW t \in Threads, Compress(t)
    PROVE  TreesInv'
<1> DEFINE p == path[t]
           k == Len(p)
           s == side[t]
           w == a[t][s]
<1>0. Types /\ IInv /\ CallOK(t) /\ CallsTyped /\ ThreadOK(t)
    BY DEF TreesInv, IInv
<1>1. UNCHANGED <<lastRank, team, edge, apart, a>> /\ pc[t] = "compress" /\ t \in team
    BY <1>0 DEF Compress, loop, history, ThreadOK, Called
<1>3. /\ p \in Seq(Nodes) /\ k \in Nat /\ k >= 2 /\ s \in {1, 2} /\ w \in Nodes
      /\ a[t] \in Nodes \X Nodes /\ edge[t] \in Nodes \X Nodes
    <2>1. p \in Seq(Nodes) /\ s \in {1, 2} /\ k >= 2
        BY <1>0, <1>1 DEF Types, ThreadOK, Climbs
    <2>2. a[t] \in Nodes \X Nodes /\ edge[t] \in Nodes \X Nodes
        BY <1>0, <1>1 DEF ThreadOK, Called, CallOK, Searches, Calling
    <2> QED BY <2>1, <2>2
<1>4. \A i \in 1 .. k : RootMap[p[i]] = RootMap[edge[t][s]]
    BY <1>0, <1>1 DEF CallOK, Searches
<1>5. \A i \in {1, 2} : RootMap[a[t][i]] = RootMap[edge[t][i]]
    BY <1>0, <1>1 DEF CallOK, Searches, Calling
<1>8. TreesMerge /\ RootMap' = RootMap /\ TreesAsLargeAsRanks'
    <2>1. /\ \A v \in Nodes : RootOf(v)' = RootOf(v)
          /\ \A v \in Nodes : IsRoot(v)' => union_find'[v] = union_find[v]
        BY CompressedInTree
    <2>2. TreesMerge /\ RootMap' = RootMap
        BY <2>1 DEF TreesMerge, RootMap
    <2>3. TreesAsLargeAsRanks'
        BY <2>1, <2>2, <1>0, SizesKept DEF TreesInv
    <2> QED BY <2>2, <2>3
<1>9. CASE k <= 2
    <2>1. Found(t, w)
        BY <1>9, <1>3 DEF Compress
    <2>2. Searches(t)' /\ pc'[t] \in {"find", "compare"}
        BY <2>1, <1>1, <1>5, <1>8, FoundInTree DEF Calling
    <2> QED BY <2>2, <1>1, <1>8, OneCall DEF CallOK, Answers, Raises, InTeam, Find
<1>10. CASE k > 2
    <2>1. pc' = pc /\ path'[t] = SubSeq(p, 1, k - 1) /\ side'[t] = s
        BY <1>0, <1>10 DEF Compress, Types
    <2>2. Len(path'[t]) = k - 1 /\ \A i \in 1 .. k - 1 : path'[t][i] = p[i] /\ i \in 1 .. k
        BY <1>3, <2>1
    <2>3. Searches(t)'
        BY <1>1, <1>3, <1>4, <1>5, <1>8, <2>1, <2>2 DEF Searches
    <2>4. CallOK(t)'
        BY <1>1, <2>1, <2>3 DEF CallOK, Answers, Raises, InTeam
    <2> QED BY <2>4, <1>8, OneCall DEF Find
<1> QED BY <1>3, <1>9, <1>10

\* Steps that end a call or take place between calls.
LEMMA OutsideTrees ==
    ASSUME TreesInv, IInv', RanksGrow, NEW t \in Threads,
           \/ SameTree(t) \/ AnswerTrue(t) \/ AnswerFalse(t)
           \/ Reserve(t) \/ StoreEdge(t) \/ Stored(t)
    PROVE  TreesInv'
<1>0. Types /\ IInv /\ CallOK(t) /\ CallsTyped /\ ThreadOK(t)
    BY DEF TreesInv, IInv
<1>1. UNCHANGED <<union_find, team>>
    BY DEF SameTree, AnswerTrue, AnswerFalse, Reserve, StoreEdge, Stored, loop
<1>2. TreesMerge /\ TreesAsLargeAsRanks'
    BY <1>0, <1>1, QuietTrees DEF TreesInv
<1>3. pc'[t] \in {"idle", "loop", "store", "joined"} /\ (pc'[t] # "idle" => t \in team')
    BY <1>0, <1>1 DEF SameTree, AnswerTrue, AnswerFalse, Reserve, StoreEdge, Stored, Return, Goto, Types, CallOK, InTeam
<1>4. CallOK(t)'
    BY <1>3, NoCall
<1> QED BY <1>2, <1>4, OneCall DEF AddEdges, Unite, Connected

\* The search begins again at the representative that was found.
LEMMA RetryTrees ==
    ASSUME TreesInv, IInv', RanksGrow, NEW t \in Threads, LinkFails(t) \/ AskAgain(t)
    PROVE  TreesInv'
<1>0. Types /\ IInv /\ CallOK(t) /\ CallsTyped /\ ThreadOK(t)
    BY DEF TreesInv, IInv
<1>1. UNCHANGED <<union_find, team, edge, a, apart>> /\ pc[t] = "compare" /\ Retry(t)
    BY DEF LinkFails, AskAgain, Retry, loop, history
<1>2. TreesMerge /\ TreesAsLargeAsRanks' /\ RootMap' = RootMap
    BY <1>0, <1>1, QuietTrees DEF TreesInv
<1>3. pc'[t] = "find" /\ side'[t] = 1 /\ path'[t] = <<a[t][1]>>
    BY <1>0, <1>1 DEF Retry, Types
<1>4. Len(path'[t]) = 1 /\ path'[t][1] = a[t][1]
    BY <1>3
<1>5. Searches(t)'
    BY <1>0, <1>1, <1>2, <1>3, <1>4 DEF CallOK, Searches, Calling
<1>6. Answers(t)'
    BY <1>0, <1>1, <1>2, <1>3 DEF CallOK, Answers, Calling
<1>7. CallOK(t)'
    BY <1>3, <1>5, <1>6 DEF CallOK, Raises, InTeam
<1> QED BY <1>2, <1>7, OneCall DEF AddEdges, Unite, Connected

\* The CAS of a link finds a root, which is linked below a node of another tree.
LEMMA Linked ==
    ASSUME TreesInv, IInv', NEW t \in Threads, Link(t)
    PROVE  \E low, high \in Nodes, s \in {1, 2} :
            /\ low = Lower(t) /\ high = Higher(t) /\ s = LowerSide(t)
            /\ rank[t][s] \in Nat /\ rank[t][s] # 0 /\ RankOf(high) >= rank[t][3 - s]
            /\ union_find[low] = -rank[t][s] /\ IsRoot(low)
            /\ union_find' = [union_find EXCEPT ![low] = high]
            /\ Below(low, high) /\ RootOf(high) # low
            /\ \A v \in Nodes : RootOf(v)' = IF RootOf(v) = low THEN RootOf(high) ELSE RootOf(v)
<1>0. Types /\ IInv /\ ThreadOK(t)
    BY DEF TreesInv, IInv
<1>1. /\ t \in team /\ pc[t] = "compare" /\ a[t][1] # a[t][2]
      /\ union_find[Lower(t)] = -rank[t][LowerSide(t)]
      /\ union_find' = [union_find EXCEPT ![Lower(t)] = Higher(t)]
    BY DEF Link
<1>2. PICK low \in Nodes, high \in Nodes, s \in {1, 2} :
        /\ low = Lower(t) /\ high = Higher(t) /\ s = LowerSide(t)
        /\ rank[t][s] \in Nat /\ rank[t][s] # 0
        /\ RankOf(high) >= rank[t][3 - s]
    <2>1. /\ LowerSide(t) \in {1, 2} /\ Lower(t) \in Nodes /\ Higher(t) \in Nodes
          /\ \A i \in 1 .. 2 : rank[t][i] \in Nat /\ rank[t][i] # 0 /\ RankOf(a[t][i]) >= rank[t][i]
        BY <1>0, <1>1, Compared
    <2>2. 3 - LowerSide(t) \in 1 .. 2 /\ Higher(t) = a[t][3 - LowerSide(t)]
        BY <2>1 DEF Higher
    <2> QED BY <2>1, <2>2
<1>3. /\ union_find[low] = -rank[t][s] /\ IsRoot(low) /\ RankOf(low) = rank[t][s]
      /\ union_find' = [union_find EXCEPT ![low] = high]
    BY <1>1, <1>2 DEF IsRoot, RankOf
<1>4. Below(low, high)
    <2>1. /\ a[t] \in Nodes \X Nodes
        BY <1>0, <1>1 DEF ThreadOK, Called, Calling
    <2>2. /\ a[t][1] \in Nat /\ a[t][2] \in Nat
          /\ RankOf(a[t][1]) \in Nat /\ RankOf(a[t][2]) \in Nat
        BY <2>1, <1>0, NodesAreNaturals, RanksTyped
    <2>3. \A i \in 1 .. 2 : rank[t][i] \in Nat /\ RankOf(a[t][i]) >= rank[t][i]
        BY <1>0, <1>1, Compared
    <2>4. CASE s = 1
        <3>1. low = a[t][1] /\ high = a[t][2]
            BY <2>4, <1>2 DEF Lower, Higher
        <3>2. rank[t][1] < rank[t][2] \/ (rank[t][1] = rank[t][2] /\ a[t][1] < a[t][2])
            BY <2>4, <1>2 DEF LowerSide
        <3> QED BY <3>1, <3>2, <2>2, <2>3, <2>4, <1>3 DEF Below
    <2>5. CASE s = 2
        <3>1. low = a[t][2] /\ high = a[t][1]
            BY <2>5, <1>2 DEF Lower, Higher
        <3>2. ~(rank[t][1] < rank[t][2] \/ (rank[t][1] = rank[t][2] /\ a[t][1] < a[t][2]))
            BY <2>5, <1>2 DEF LowerSide
        <3> QED BY <3>1, <3>2, <2>2, <2>3, <2>5, <1>1, <1>3 DEF Below
    <2> QED BY <2>4, <2>5
<1>5. /\ RootOf(high) # low
      /\ \A v \in Nodes : RootOf(v)' = IF RootOf(v) = low THEN RootOf(high) ELSE RootOf(v)
    BY <1>0, <1>3, <1>4, RootsAfterLink
<1> QED BY <1>2, <1>3, <1>4, <1>5

\* A link joins two trees.  If their roots had the same rank, the tree is now as large as the
\* next rank demands.
LEMMA LinkTrees ==
    ASSUME TreesInv, IInv', RanksGrow, NEW t \in Threads, Link(t)
    PROVE  TreesInv'
<1>0. Types /\ IInv /\ CallOK(t) /\ CallsTyped /\ ThreadOK(t)
    BY DEF TreesInv, IInv
<1>1. /\ t \in team /\ pc[t] = "compare" /\ a[t][1] # a[t][2] /\ team' = team /\ apart' = apart
    BY DEF Link, loop
<1>2. PICK low \in Nodes, high \in Nodes, s \in {1, 2} :
        /\ low = Lower(t) /\ high = Higher(t) /\ s = LowerSide(t)
        /\ rank[t][s] \in Nat /\ rank[t][s] # 0
        /\ union_find[low] = -rank[t][s] /\ IsRoot(low)
        /\ union_find' = [union_find EXCEPT ![low] = high]
        /\ Below(low, high) /\ RootOf(high) # low
        /\ \A v \in Nodes : RootOf(v)' = IF RootOf(v) = low THEN RootOf(high) ELSE RootOf(v)
    BY Linked
<1>3. /\ union_find[low] = -rank[t][s] /\ IsRoot(low)
      /\ union_find' = [union_find EXCEPT ![low] = high]
    BY <1>2
<1>4. Below(low, high)
    BY <1>2
<1>5. \A v \in Nodes : RootOf(v)' = IF RootOf(v) = low THEN RootOf(high) ELSE RootOf(v)
    BY <1>2
<1>6. TreesMerge
    BY <1>5 DEF TreesMerge
<1>7. TreesAsLargeAsRanks'
    <2>1. \A v \in Nodes : IsRoot(v)' => union_find'[v] = union_find[v]
        <3>1. ~(high < 0)
            BY NodesAreNaturals
        <3> QED BY <3>1, <1>0, <1>3 DEF Types, IsRoot
    <2> QED BY <2>1, <1>0, <1>6, SizesKept DEF TreesInv
<1>8. CASE rank[t][1] # rank[t][2]
    <2>1. Return(t, "loop")
        BY <1>8 DEF Link
    <2>2. CallOK(t)'
        BY <2>1, <1>0, <1>1, NoCall DEF Return, Types
    <2> QED BY <2>2, <1>6, <1>7, OneCall DEF AddEdges, Unite
<1>9. CASE rank[t][1] = rank[t][2]
    <2>1. pc'[t] = "raise" /\ UNCHANGED <<edge, side, a, rank, path>>
        BY <1>0, <1>9 DEF Link, call, Types
    <2>2. Searches(t)'
        <3>1. edge[t] \in Nodes \X Nodes /\ a[t] \in Nodes \X Nodes
            BY <1>0, <1>1 DEF CallOK, Searches, ThreadOK, Called, Calling
        <3>2. \A x, y \in Nodes : RootMap[x] = RootMap[y] => RootMap'[x] = RootMap'[y]
            BY <1>6 DEF TreesMerge, RootMap
        <3>3. \A i \in {1, 2} : a[t][i] \in Nodes /\ edge[t][i] \in Nodes /\ RootMap[a[t][i]] = RootMap[edge[t][i]]
            BY <3>1, <1>0, <1>1 DEF CallOK, Searches, Calling
        <3> QED BY <3>1, <3>2, <3>3, <2>1 DEF Searches
    <2>3. ASSUME union_find'[high] = -rank[t][1]
          PROVE  Cardinality(Tree(high)') >= 2 ^ rank[t][1]
        <3>1. PICK r \in Nat : r = rank[t][1] /\ r = rank[t][2] /\ r # 0 /\ r - 1 \in Nat /\ (r - 1) + 1 = r
            <4>1. rank[t][1] \in Nat /\ rank[t][1] # 0
                BY <1>2, <1>9
            <4>2. rank[t][1] - 1 \in Nat /\ (rank[t][1] - 1) + 1 = rank[t][1]
                BY <4>1
            <4> QED BY <4>1, <4>2, <1>9
        <3>2. low # high
            BY <1>0, <1>3, <1>4, NodesAreNaturals, RanksTyped DEF Below
        <3>3. union_find[high] = -r /\ IsRoot(high) /\ union_find[low] = -r
            <4>1. union_find[high] = -r
                BY <2>3, <3>1, <3>2, <1>3, <1>0 DEF Types
            <4>2. rank[t][s] = r
                BY <1>2, <3>1
            <4> QED BY <4>1, <4>2, <3>1, <1>3 DEF IsRoot
        <3>4. -(-r) - 1 = r - 1
            BY <3>1
        <3> DEFINE c == 2 ^ (r - 1)
        <3>5. Cardinality(Tree(low)) >= c /\ Cardinality(Tree(high)) >= c
            <4>1. low \in Roots /\ high \in Roots
                BY <3>3, <1>3 DEF Roots
            <4>2. \A x \in Roots : Cardinality(Tree(x)) >= 2 ^ (-union_find[x] - 1)
                BY DEF TreesInv, TreesAsLargeAsRanks, Tree
            <4> QED BY <4>1, <4>2, <3>3, <3>4
        <3>6. c \in Nat /\ 2 ^ r = c + c
            <4>1. 2 ^ (r - 1) \in Nat /\ 2 ^ ((r - 1) + 1) = 2 ^ (r - 1) + 2 ^ (r - 1)
                BY <3>1, PowersOfTwo
            <4> QED BY <4>1, <3>1
        <3>7. RootOf(high) = high /\ RootOf(low) = low
            BY <3>3, <1>0, <1>3, RootFacts
        <3>8. Tree(high)' = Tree(high) \cup Tree(low)
            BY <1>5, <3>7 DEF Tree
        <3>9. Tree(high) \cap Tree(low) = {}
            BY <3>2 DEF Tree
        <3>10. /\ IsFiniteSet(Tree(high)) /\ Cardinality(Tree(high)) \in Nat
               /\ IsFiniteSet(Tree(low)) /\ Cardinality(Tree(low)) \in Nat
            BY TreesFinite
        <3>11. Cardinality(Tree(high) \cup Tree(low)) = Cardinality(Tree(high)) + Cardinality(Tree(low))
            <4>1. Cardinality(Tree(high) \cap Tree(low)) = 0
                BY <3>9, FS_EmptySet
            <4>2. Cardinality(Tree(high) \cup Tree(low))
                  = Cardinality(Tree(high)) + Cardinality(Tree(low)) - Cardinality(Tree(high) \cap Tree(low))
                BY <3>10, FS_Union
            <4> QED BY <4>1, <4>2, <3>10
        <3> HIDE DEF c
        <3>12. Cardinality(Tree(high)') >= c + c
            BY <3>5, <3>6, <3>8, <3>10, <3>11
        <3> QED BY <3>1, <3>6, <3>12
    <2>4. Raises(t)'
        <3>1. Higher(t)' = high
            BY <2>1, <1>2 DEF Higher, LowerSide
        <3>2. Tree(Higher(t))' = Tree(high)'
            BY <3>1 DEF Tree
        <3> QED BY <2>1, <2>3, <3>1, <3>2, <1>9 DEF Raises
    <2>5. CallOK(t)'
        BY <2>1, <2>2, <2>4, <1>1 DEF CallOK, Answers, InTeam
    <2> QED BY <2>5, <1>6, <1>7, OneCall DEF AddEdges, Unite
<1> QED BY <1>8, <1>9

\* The rank that is stored is justified by the tree that the link left.
LEMMA RaiseTrees ==
    ASSUME TreesInv, IInv', RanksGrow, NEW t \in Threads, Raise(t)
    PROVE  TreesInv'
<1>0. Types /\ IInv /\ CallOK(t) /\ CallsTyped /\ ThreadOK(t)
    BY DEF TreesInv, IInv
<1>1. t \in team /\ pc[t] = "raise" /\ UNCHANGED <<team, apart>> /\ Return(t, "loop")
    BY <1>0 DEF Raise, loop, history, ThreadOK, Called
<1>2. PICK high \in Nodes, r \in Nat : high = Higher(t) /\ r = rank[t][1] /\ r # 0
    BY <1>0, <1>1, Compared
<1>3. union_find' = IF union_find[high] = -r
                    THEN [union_find EXCEPT ![high] = -(r + 1)] ELSE union_find
    BY <1>2 DEF Raise
<1>4. TreesMerge
    <2>1. \A v \in Nodes : RootOf(v)' = RootOf(v)
        BY <1>0, <1>2, <1>3, RootsAfterRaise
    <2> QED BY <2>1 DEF TreesMerge
<1>5. TreesAsLargeAsRanks'
    <2>1. CASE union_find[high] # -r
        BY <2>1, <1>0, <1>3, <1>4, SizesKept DEF TreesInv
    <2>2. CASE union_find[high] = -r
        <3>1. Cardinality(Tree(high)) >= 2 ^ r
            BY <2>2, <1>0, <1>1, <1>2 DEF CallOK, Raises
        <3>2. union_find'[high] = -(r + 1) /\ \A v \in Nodes : v # high => union_find'[v] = union_find[v]
            BY <2>2, <1>0, <1>3 DEF Types
        <3>3. -(-(r + 1)) - 1 = r
            OBVIOUS
        <3>4. -union_find'[high] - 1 = r
            BY <3>2, <3>3
        <3>5. \A v \in Nodes : \/ union_find'[v] = union_find[v]
                               \/ Cardinality(Tree(v)) >= 2 ^ (-union_find'[v] - 1)
            BY <3>1, <3>2, <3>4
        <3> QED BY <3>5, <1>0, <1>4, SizesKept DEF TreesInv
    <2> QED BY <2>1, <2>2
<1>6. CallOK(t)'
    BY <1>0, <1>1, NoCall DEF Return, Types
<1> QED BY <1>4, <1>5, <1>6, OneCall DEF AddEdges, Unite

\* Threads become a team, or cease to be one, between their calls.
LEMMA TeamTrees ==
    ASSUME TreesInv, IInv', RanksGrow, BeginBlock \/ BuildForest
    PROVE  TreesInv'
<1>0. Types /\ IInv /\ CallsTyped
    BY DEF TreesInv, IInv
<1>1. UNCHANGED <<union_find, edge, side, a, rank, path, apart>>
    BY DEF BeginBlock, BuildForest, call, history
<1>2. TreesMerge /\ TreesAsLargeAsRanks'
    BY <1>0, <1>1, QuietTrees DEF TreesInv
<1>3. ASSUME NEW u \in Threads PROVE CallOK(u)'
    <2>1. CASE pc'[u] = pc[u] /\ (u \in team' <=> u \in team)
        BY <1>1, <1>2, <2>1, OtherCall
    <2>2. CASE ~(pc'[u] = pc[u] /\ (u \in team' <=> u \in team))
        <3>1. pc'[u] \in {"idle", "loop", "store", "joined"} /\ (pc'[u] # "idle" => u \in team')
            BY <2>2, <1>0 DEF BeginBlock, BuildForest, Types
        <3> QED BY <3>1, NoCall
    <2> QED BY <2>1, <2>2
<1>4. CallsTyped'
    BY <1>0, <1>1 DEF CallsTyped
<1> QED BY <1>2, <1>3, <1>4 DEF TreesInv

LEMMA InitTrees == Init => TreesInv
<1> SUFFICES ASSUME Init PROVE TreesInv
    OBVIOUS
<1>1. IInv
    BY InitIInv
<1>2. CallsTyped
    BY DEF Init, CallsTyped
<1>3. \A t \in Threads : CallOK(t)
    BY DEF Init, CallOK, Searches, Answers, Raises, InTeam, Calling
<1>4. TreesAsLargeAsRanks
    <2> SUFFICES ASSUME NEW r \in Roots
                 PROVE  Cardinality(Tree(r)) >= 2 ^ (-union_find[r] - 1)
        BY DEF TreesAsLargeAsRanks, Tree
    <2>1. r \in Nodes /\ IsRoot(r) /\ union_find[r] = -1
        BY DEF Roots, Init, FirstRank
    <2>2. RootOf(r) = r
        BY <2>1, <1>1, RootFacts
    <2>3. {r} \subseteq Tree(r)
        BY <2>1, <2>2 DEF Tree
    <2>4. Cardinality({r}) = 1 /\ Cardinality({r}) <= Cardinality(Tree(r)) /\ Cardinality(Tree(r)) \in Nat
        BY <2>3, TreesFinite, FS_Subset, FS_Singleton
    <2>a. \A n \in Int : n + 1 = 0 => -n - 1 = 0
        OBVIOUS
    <2>5. -union_find[r] - 1 = 0
        <3>1. union_find[r] \in Int /\ union_find[r] + 1 = 0
            BY <2>1
        <3> QED BY <2>a, <3>1
    <2>p. 2 ^ 0 = 1
        OBVIOUS
    <2>6. 2 ^ (-union_find[r] - 1) = 1
        BY <2>5, <2>p
    <2> DEFINE c == 2 ^ (-union_find[r] - 1)
    <2> HIDE DEF c
    <2>7. c = 1
        BY <2>6 DEF c
    <2>8. Cardinality(Tree(r)) >= c
        BY <2>4, <2>7
    <2> QED BY <2>8 DEF c
<1> QED BY <1>1, <1>2, <1>3, <1>4 DEF TreesInv

\* Every step, or none, preserves what is known of the trees, and merges them only.
LEMMA NextTrees ==
    ASSUME TreesInv, [Next]_vars
    PROVE  TreesInv'
<1>0. IInv' /\ RanksGrow /\ IInv
    BY NextIInv DEF TreesInv
<1>1. CASE BeginBlock \/ BuildForest
    BY <1>0, <1>1, TeamTrees
<1>2. ASSUME NEW t \in Threads, Find(t) \/ AddEdges(t) \/ Connected(t)
      PROVE  TreesInv'
    <2>1. CASE TakeEdge(t) \/ AskConnected(t)
        BY <1>0, <2>1, CallTrees
    <2>2. CASE Follow(t)
        BY <1>0, <2>2, FollowTrees
    <2>3. CASE FindRoot(t)
        BY <1>0, <2>3, FindRootTrees
    <2>4. CASE Compress(t)
        BY <1>0, <2>4, CompressTrees
    <2>5. CASE \/ SameTree(t) \/ AnswerTrue(t) \/ AnswerFalse(t)
               \/ Reserve(t) \/ StoreEdge(t) \/ Stored(t)
        BY <1>0, <2>5, OutsideTrees
    <2>6. CASE LinkFails(t) \/ AskAgain(t)
        BY <1>0, <2>6, RetryTrees
    <2>7. CASE Link(t)
        BY <1>0, <2>7, LinkTrees
    <2>8. CASE Raise(t)
        BY <1>0, <2>8, RaiseTrees
    <2> QED BY <1>2, <2>1, <2>2, <2>3, <2>4, <2>5, <2>6, <2>7, <2>8 DEF Find, AddEdges, Unite, Connected
<1>3. CASE UNCHANGED vars
    <2>1. UNCHANGED <<union_find, team, pc, edge, side, a, rank, path, apart>>
        BY <1>3 DEF vars, loop, call, history
    <2>2. TreesMerge /\ TreesAsLargeAsRanks'
        BY <1>0, <2>1, QuietTrees DEF TreesInv
    <2>3. \A u \in Threads : CallOK(u)'
        BY <1>0, <2>1, <2>2, OtherCall
    <2>4. CallsTyped'
        BY <2>1 DEF TreesInv, CallsTyped
    <2> QED BY <1>0, <2>2, <2>3, <2>4 DEF TreesInv
<1> QED BY <1>1, <1>2, <1>3 DEF Next

\* The answers of connected() and the trees.
LEMMA AnswersRight ==
    ASSUME TreesInv, NEW t \in Threads
    PROVE  /\ AnswerTrue(t) => RootOf(edge[t][1]) = RootOf(edge[t][2])
           /\ AnswerFalse(t) => apart[t]
<1>0. Types /\ IInv /\ CallOK(t) /\ CallsTyped /\ ThreadOK(t)
    BY DEF TreesInv, IInv
<1>1. ASSUME AnswerTrue(t) PROVE RootOf(edge[t][1]) = RootOf(edge[t][2])
    <2>1. Calling(t) /\ a[t][1] = a[t][2]
        BY <1>1 DEF AnswerTrue, Calling
    <2>2. edge[t] \in Nodes \X Nodes /\ RootMap[a[t][1]] = RootMap[edge[t][1]] /\ RootMap[a[t][2]] = RootMap[edge[t][2]]
        BY <2>1, <1>0 DEF CallOK, Searches
    <2>3. RootMap[edge[t][1]] = RootMap[edge[t][2]] /\ edge[t][1] \in Nodes /\ edge[t][2] \in Nodes
        BY <2>1, <2>2
    <2> QED BY <2>3 DEF RootMap
<1>2. ASSUME AnswerFalse(t) PROVE apart[t]
    <2>1. Calling(t) /\ t \notin team /\ pc[t] = "compare" /\ a[t][1] # a[t][2] /\ IsRoot(a[t][1])
        BY <1>2 DEF AnswerFalse, Calling
    <2> QED BY <2>1, <1>0 DEF CallOK, Answers
<1> QED BY <1>1, <1>2
-----------------------------------------------------------------------------
(* The edges that addEdges keeps, and the places it stores them at.        *)

\* The fetch_add has given the place i to t, which has not stored its edge there yet.
Reserves(t, i) == pc[t] = "store" /\ pos[t] <= i /\ i < pos[t] + Len(kept[t])

\* The kept edges that have no place yet.
Unplaced == {p \in Threads \X Nat : pc[p[1]] # "store" /\ 1 <= p[2] /\ p[2] <= Len(kept[p[1]])}

StoreTyped ==
    /\ filtered_edges \in [Nodes -> (Nodes \X Nodes) \cup {NoEdge}]
    /\ num_filtered_edges \in Nat
    /\ kept \in [Threads -> Seq(Nodes \X Nodes)] /\ pos \in [Threads -> Nat]

\* A link takes a root away and keeps an edge: there is a place in the array for each.
LinksCounted ==
    /\ IsFiniteSet(Unplaced)
    /\ num_filtered_edges + Cardinality(Unplaced) + Cardinality(Roots) = Cardinality(Nodes)

\* A place was given to one thread; it is empty until that one has stored an edge there.
PlacesApart ==
    /\ \A t \in Threads : \A i \in Nat : Reserves(t, i) => i < num_filtered_edges
    /\ \A t, u \in Threads : \A i \in Nat : Reserves(t, i) /\ Reserves(u, i) => t = u
    /\ \A i \in Nodes :
        filtered_edges[i] = NoEdge <=> i >= num_filtered_edges \/ \E t \in Threads : Reserves(t, i)

\* An edge is kept once, or stored once.
EdgesOnce ==
    /\ \A t, u \in Threads : \A i \in 1 .. Len(kept[t]), j \in 1 .. Len(kept[u]) :
        kept[t][i] = kept[u][j] => t = u /\ i = j
    /\ \A t \in Threads : \A i \in 1 .. Len(kept[t]), j \in Nodes : kept[t][i] # filtered_edges[j]
    /\ \A i, j \in Nodes : filtered_edges[i] = filtered_edges[j] /\ filtered_edges[i] # NoEdge => i = j

\* The ends of the accepted edges are in one tree.
EndsJoined == \A e \in Accepted : e \in Nodes \X Nodes /\ RootMap[e[1]] = RootMap[e[2]]

KeptByTeam == \A t \in Threads : t \notin team \/ pc[t] = "joined" => kept[t] = <<>>

\* The inductive invariant about the edges.
StoreInv ==
    /\ TreesInv /\ StoreTyped /\ LinksCounted /\ PlacesApart /\ EdgesOnce /\ EndsJoined /\ KeptByTeam
    /\ rejected \subseteq Nodes \X Nodes

LEMMA NoEdgeIsNone == NoEdge \notin Nodes \X Nodes
<1>1. -1 \notin Nodes
    BY NodesAreNaturals
<1> QED BY <1>1 DEF NoEdge

\* What Accepted is: the edges that are kept or stored.
AcceptedKnown ==
    \A e : e \in Accepted <=> \/ \E t \in Threads : \E i \in 1 .. Len(kept[t]) : e = kept[t][i]
                              \/ e # NoEdge /\ \E i \in Nodes : e = filtered_edges[i]

LEMMA AcceptedEdges == StoreTyped => AcceptedKnown
<1> SUFFICES ASSUME StoreTyped, NEW e
             PROVE  e \in Accepted <=> \/ \E t \in Threads : \E i \in 1 .. Len(kept[t]) : e = kept[t][i]
                                       \/ e # NoEdge /\ \E i \in Nodes : e = filtered_edges[i]
    BY DEF AcceptedKnown
<1>1. \A t \in Threads : DOMAIN kept[t] = 1 .. Len(kept[t])
    BY DEF StoreTyped
<1>2. e \in UNION {{kept[t][i] : i \in DOMAIN kept[t]} : t \in Threads}
        <=> \E t \in Threads : \E i \in 1 .. Len(kept[t]) : e = kept[t][i]
    BY <1>1
<1>3. e \in {filtered_edges[i] : i \in Nodes} <=> \E i \in Nodes : e = filtered_edges[i]
    OBVIOUS
<1> DEFINE K == UNION {{kept[t][i] : i \in DOMAIN kept[t]} : t \in Threads}
           F == {filtered_edges[i] : i \in Nodes}
<1>4. Accepted = K \cup (F \ {NoEdge})
    BY DEF Accepted
<1> HIDE DEF K, F
<1>5. e \in Accepted <=> e \in K \/ (e \in F /\ e # NoEdge)
    BY <1>4
<1> QED BY <1>2, <1>3, <1>5 DEF K, F

\* The roots are the nodes that are their own representatives.
RootsAreFixed == \A v \in Nodes : IsRoot(v) <=> RootOf(v) = v

LEMMA RootsOwn == IInv => RootsAreFixed
BY RootFacts DEF RootsAreFixed

LEMMA RootsFinite == IsFiniteSet(Roots) /\ Cardinality(Roots) \in Nat
<1>1. Roots \subseteq Nodes
    BY DEF Roots
<1> QED BY <1>1, ConnectivityAssumption, FS_Subset, FS_CardinalityType

\* Every step but a link leaves all trees as they are.
LEMMA TreesStay ==
    ASSUME TreesInv, IInv', [Next]_vars, \A t \in Threads : ~Link(t)
    PROVE  /\ \A v \in Nodes : RootOf(v)' = RootOf(v)
           /\ Roots' = Roots /\ RootMap' = RootMap
<1>1. \A v \in Nodes : RootOf(v)' = RootOf(v)
    <2>1. CASE union_find' = union_find
        BY <2>1, RootsUnchanged
    <2>2. ASSUME NEW t \in Threads, Compress(t)
          PROVE  \A v \in Nodes : RootOf(v)' = RootOf(v)
        BY <2>2, CompressedInTree
    <2>3. ASSUME NEW t \in Threads, Raise(t)
          PROVE  \A v \in Nodes : RootOf(v)' = RootOf(v)
        <3>1. t \in team /\ pc[t] = "raise"
            BY <2>3 DEF Raise, TreesInv, IInv, ThreadOK, Called
        <3>2. PICK high \in Nodes, r \in Nat : high = Higher(t) /\ r = rank[t][1] /\ r # 0
            BY <3>1, Compared DEF TreesInv
        <3>3. union_find' = IF union_find[high] = -r
                            THEN [union_find EXCEPT ![high] = -(r + 1)] ELSE union_find
            BY <2>3, <3>2 DEF Raise
        <3> QED BY <3>2, <3>3, RootsAfterRaise DEF TreesInv
    <2>4. CASE BeginBlock \/ BuildForest \/ UNCHANGED vars
        BY <2>4, <2>1 DEF BeginBlock, BuildForest, vars
    <2>5. ASSUME NEW t \in Threads, Find(t) \/ AddEdges(t) \/ Connected(t), ~Compress(t), ~Raise(t)
          PROVE  union_find' = union_find
        BY <2>5 DEF Find, AddEdges, Unite, Connected, Follow, FindRoot, TakeEdge, SameTree, LinkFails,
                    Reserve, StoreEdge, Stored, AskConnected, AnswerTrue, AnswerFalse, AskAgain
    <2> QED BY <2>1, <2>2, <2>3, <2>4, <2>5 DEF Next
<1>2. Roots' = Roots
    <2>1. RootsAreFixed /\ RootsAreFixed'
        BY RootsOwn, PTL DEF TreesInv
    <2> QED BY <1>1, <2>1 DEF Roots, RootsAreFixed
<1> QED BY <1>1, <1>2 DEF RootMap

\* A link merges the trees of the ends of the edge, which were two.
LEMMA TreesLinked ==
    ASSUME TreesInv, IInv', NEW t \in Threads, Link(t)
    PROVE  /\ edge[t] \in Nodes \X Nodes
           /\ \E low, other \in Roots :
                /\ low # other /\ Roots' = Roots \ {low}
                /\ \A v \in Nodes : RootOf(v)' = IF RootOf(v) = low THEN other ELSE RootOf(v)
                /\ \/ RootOf(edge[t][1]) = low /\ RootOf(edge[t][2]) = other
                   \/ RootOf(edge[t][2]) = low /\ RootOf(edge[t][1]) = other
<1>0. IInv /\ CallOK(t) /\ ThreadOK(t) /\ pc[t] = "compare"
    BY DEF TreesInv, IInv, Link
<1>1. PICK low \in Nodes, high \in Nodes, s \in {1, 2} :
        /\ low = Lower(t) /\ high = Higher(t) /\ s = LowerSide(t)
        /\ IsRoot(low) /\ RootOf(high) # low
        /\ \A v \in Nodes : RootOf(v)' = IF RootOf(v) = low THEN RootOf(high) ELSE RootOf(v)
    BY Linked
<1>2. PICK other \in Nodes :
        other = RootOf(high) /\ IsRoot(other) /\ RootOf(low) = low /\ RootOf(other) = other
    BY <1>0, <1>1, RootFacts
<1>3. edge[t] \in Nodes \X Nodes /\ edge[t][1] \in Nodes /\ edge[t][2] \in Nodes
    BY <1>0 DEF CallOK, Searches, Calling
<1>4. RootMap[a[t][1]] = RootMap[edge[t][1]] /\ RootMap[a[t][2]] = RootMap[edge[t][2]]
    BY <1>0 DEF CallOK, Searches, Calling
<1>5. RootMap[low] = low /\ RootMap[high] = other
    BY <1>1, <1>2 DEF RootMap
<1>6. \/ RootMap[edge[t][1]] = low /\ RootMap[edge[t][2]] = other
      \/ RootMap[edge[t][2]] = low /\ RootMap[edge[t][1]] = other
    <2>1. CASE s = 1
        BY <2>1, <1>1, <1>4, <1>5 DEF Lower, Higher
    <2>2. CASE s = 2
        BY <2>2, <1>1, <1>4, <1>5 DEF Lower, Higher
    <2> QED BY <2>1, <2>2
<1>7. \/ RootOf(edge[t][1]) = low /\ RootOf(edge[t][2]) = other
      \/ RootOf(edge[t][2]) = low /\ RootOf(edge[t][1]) = other
    BY <1>3, <1>6 DEF RootMap
<1>8. Roots' = Roots \ {low}
    <2>1. RootsAreFixed /\ RootsAreFixed'
        BY <1>0, RootsOwn, PTL
    <2>2. \A v \in Nodes : RootOf(v)' = v <=> RootOf(v) = v /\ v # low
        BY <1>1, <1>2
    <2> QED BY <2>1, <2>2 DEF Roots, RootsAreFixed
<1>9. low \in Roots /\ other \in Roots /\ low # other
    BY <1>1, <1>2 DEF Roots
<1> QED BY <1>1, <1>2, <1>3, <1>7, <1>8, <1>9

\* Most steps leave the edges and their places alone.
Untouched ==
    /\ UNCHANGED <<filtered_edges, num_filtered_edges, kept, pos>>
    /\ \A t \in Threads : pc'[t] = "store" <=> pc[t] = "store"

LEMMA StorageUntouched ==
    ASSUME StoreInv, TreesInv', Untouched, Roots' = Roots, RootMap' = RootMap, KeptByTeam',
           rejected' \subseteq Nodes \X Nodes
    PROVE  StoreInv' /\ Accepted' = Accepted
<1>1. \A t \in Threads : \A i : Reserves(t, i)' <=> Reserves(t, i)
    BY DEF Untouched, Reserves
<1>2. Unplaced' = Unplaced
    BY DEF Untouched, Unplaced
<1>3. StoreTyped' /\ LinksCounted'
    BY <1>2 DEF StoreInv, StoreTyped, LinksCounted, Untouched
<1>4. PlacesApart'
    BY <1>1 DEF StoreInv, PlacesApart, Untouched
<1>5. EdgesOnce'
    BY DEF StoreInv, EdgesOnce, Untouched
<1>6. Accepted' = Accepted
    BY DEF Accepted, Untouched
<1>7. EndsJoined'
    BY <1>6 DEF StoreInv, EndsJoined
<1> QED BY <1>3, <1>4, <1>5, <1>6, <1>7 DEF StoreInv

\* A link adds an edge that has not been accepted before, as it joins what was apart.
LEMMA LinkStorage ==
    ASSUME StoreInv, TreesInv', NEW t \in Threads, Link(t)
    PROVE  StoreInv' /\ Accepted' = Accepted \cup {edge[t]}
<1> DEFINE n == Len(kept[t])
<1>0. /\ IInv /\ TreesInv /\ IInv' /\ Types /\ StoreTyped /\ StoreTyped /\ EndsJoined /\ EdgesOnce
    BY DEF StoreInv, TreesInv, IInv
<1>1. PICK e \in Nodes \X Nodes, low \in Roots, other \in Roots :
        /\ e = edge[t] /\ low # other /\ Roots' = Roots \ {low}
        /\ \A v \in Nodes : RootOf(v)' = IF RootOf(v) = low THEN other ELSE RootOf(v)
        /\ \/ RootOf(e[1]) = low /\ RootOf(e[2]) = other
           \/ RootOf(e[2]) = low /\ RootOf(e[1]) = other
    BY <1>0, TreesLinked
<1>2. /\ kept' = [kept EXCEPT ![t] = Append(@, e)]
      /\ UNCHANGED <<filtered_edges, num_filtered_edges, pos, team, rejected>> /\ t \in team /\ pc[t] = "compare"
    BY <1>1 DEF Link, forest, loop
<1>3. /\ \A u \in Threads \ {t} : pc'[u] = pc[u] /\ kept'[u] = kept[u]
      /\ kept'[t] = Append(kept[t], e)
      /\ pc'[t] \in {"raise", "loop"}
    <2>1. \A u \in Threads \ {t} : pc'[u] = pc[u]
        BY <1>0, OthersStay DEF AddEdges, Unite, SameLocals, TreesInv
    <2>2. pc'[t] \in {"raise", "loop"}
        BY <1>0 DEF Link, Return, Types
    <2> QED BY <2>1, <2>2, <1>0, <1>2 DEF StoreTyped
<1>4. /\ kept[t] \in Seq(Nodes \X Nodes) /\ n \in Nat
      /\ kept'[t] \in Seq(Nodes \X Nodes) /\ Len(kept'[t]) = n + 1 /\ kept'[t][n + 1] = e
      /\ \A i \in 1 .. n : kept'[t][i] = kept[t][i]
    BY <1>0, <1>1, <1>3, AppendProperties DEF StoreTyped
<1>5. StoreTyped'
    BY <1>0, <1>2, <1>4 DEF StoreTyped
<1>6. e \notin Accepted
    <2>1. RootMap[e[1]] # RootMap[e[2]]
        BY <1>1 DEF RootMap
    <2> QED BY <2>1, <1>0 DEF EndsJoined
<1>7. AcceptedKnown /\ AcceptedKnown'
    BY <1>0, <1>5, AcceptedEdges, PTL
<1>8. Accepted' = Accepted \cup {e}
    <2>1. ASSUME NEW x \in Accepted' PROVE x \in Accepted \cup {e}
        <3>1. CASE \E u \in Threads : \E i \in 1 .. Len(kept'[u]) : x = kept'[u][i]
            <4>u. PICK u \in Threads : \E i \in 1 .. Len(kept'[u]) : x = kept'[u][i]
                BY <3>1
            <4>1. PICK i \in 1 .. Len(kept'[u]) : x = kept'[u][i]
                BY <4>u
            <4>2. CASE u = t /\ i = n + 1
                BY <4>1, <4>2, <1>4
            <4>3. CASE u # t \/ i # n + 1
                <5>1. i \in 1 .. Len(kept[u]) /\ x = kept[u][i]
                    BY <4>1, <4>3, <1>3, <1>4
                <5> QED BY <5>1, <1>7 DEF AcceptedKnown
            <4> QED BY <4>2, <4>3
        <3>2. CASE x # NoEdge /\ \E i \in Nodes : x = filtered_edges[i]
            BY <3>2, <1>7 DEF AcceptedKnown
        <3> QED BY <2>1, <3>1, <3>2, <1>2, <1>7 DEF AcceptedKnown
    <2>2. ASSUME NEW x \in Accepted PROVE x \in Accepted'
        <3>1. CASE \E u \in Threads : \E i \in 1 .. Len(kept[u]) : x = kept[u][i]
            <4>u. PICK u \in Threads : \E i \in 1 .. Len(kept[u]) : x = kept[u][i]
                BY <3>1
            <4>1. PICK i \in 1 .. Len(kept[u]) : x = kept[u][i]
                BY <4>u
            <4>2. i \in 1 .. Len(kept'[u]) /\ x = kept'[u][i]
                BY <4>1, <1>3, <1>4
            <4> QED BY <4>2, <1>7 DEF AcceptedKnown
        <3>2. CASE x # NoEdge /\ \E i \in Nodes : x = filtered_edges[i]
            BY <3>2, <1>2, <1>7 DEF AcceptedKnown
        <3> QED BY <2>2, <3>1, <3>2, <1>7 DEF AcceptedKnown
    <2>3. e \in Accepted'
        <3>1. n + 1 \in 1 .. Len(kept'[t]) /\ e = kept'[t][n + 1]
            BY <1>4
        <3> QED BY <3>1, <1>7 DEF AcceptedKnown
    <2> QED BY <2>1, <2>2, <2>3
<1>9. LinksCounted'
    <2>1. Unplaced' = Unplaced \cup {<<t, n + 1>>}
        <3>1. ASSUME NEW u \in Threads, NEW i \in Nat
              PROVE  <<u, i>> \in Unplaced' <=> <<u, i>> \in Unplaced \/ (u = t /\ i = n + 1)
            <4>1. CASE u = t
                BY <4>1, <1>2, <1>3, <1>4 DEF Unplaced
            <4>2. CASE u # t
                BY <4>2, <1>3 DEF Unplaced
            <4> QED BY <4>1, <4>2
        <3>2. Unplaced \subseteq Threads \X Nat /\ Unplaced' \subseteq Threads \X Nat
              /\ <<t, n + 1>> \in Threads \X Nat
            BY <1>4 DEF Unplaced
        <3> QED BY <3>1, <3>2
    <2>2. <<t, n + 1>> \notin Unplaced
        BY <1>4 DEF Unplaced
    <2>3. IsFiniteSet(Unplaced) /\ Cardinality(Unplaced) \in Nat
        BY FS_CardinalityType DEF StoreInv, LinksCounted
    <2>4. IsFiniteSet(Unplaced') /\ Cardinality(Unplaced') = Cardinality(Unplaced) + 1
        BY <2>1, <2>2, <2>3, FS_AddElement
    <2>5. Cardinality(Roots') = Cardinality(Roots) - 1 /\ Cardinality(Roots) \in Nat
        BY <1>1, RootsFinite, FS_RemoveElement
    <2>6. num_filtered_edges' + Cardinality(Unplaced') + Cardinality(Roots') = Cardinality(Nodes)
        BY <2>3, <2>4, <2>5, <1>0, <1>2 DEF StoreInv, LinksCounted, StoreTyped
    <2> QED BY <2>4, <2>6 DEF LinksCounted
<1>10. PlacesApart'
    <2>1. \A u \in Threads : \A i : Reserves(u, i)' <=> Reserves(u, i)
        BY <1>2, <1>3 DEF Reserves
    <2> QED BY <2>1, <1>2 DEF StoreInv, PlacesApart
<1>11. EdgesOnce'
    <2>1. \A u \in Threads : \A i \in 1 .. Len(kept[u]) : kept[u][i] # e
        BY <1>6, <1>7 DEF AcceptedKnown
    <2>2. \A i \in Nodes : filtered_edges[i] # e
        BY <1>1, <1>6, <1>7, NoEdgeIsNone DEF AcceptedKnown
    <2>3. \A u \in Threads : \A i \in 1 .. Len(kept'[u]) :
            \/ u = t /\ i = n + 1 /\ kept'[u][i] = e
            \/ i \in 1 .. Len(kept[u]) /\ kept'[u][i] = kept[u][i]
        <3> SUFFICES ASSUME NEW u \in Threads, NEW i \in 1 .. Len(kept'[u])
                     PROVE  \/ u = t /\ i = n + 1 /\ kept'[u][i] = e
                            \/ i \in 1 .. Len(kept[u]) /\ kept'[u][i] = kept[u][i]
            OBVIOUS
        <3>1. CASE u = t
            BY <3>1, <1>4
        <3>2. CASE u # t
            BY <3>2, <1>3
        <3> QED BY <3>1, <3>2
    <2>4. ASSUME NEW u \in Threads, NEW w \in Threads, NEW i \in 1 .. Len(kept'[u]), NEW j \in 1 .. Len(kept'[w]),
                 kept'[u][i] = kept'[w][j]
          PROVE  u = w /\ i = j
        <3> DEFINE Old(x, k) == k \in 1 .. Len(kept[x]) /\ kept'[x][k] = kept[x][k]
                   New(x, k) == x = t /\ k = n + 1 /\ kept'[x][k] = e
        <3>1. (Old(u, i) \/ New(u, i)) /\ (Old(w, j) \/ New(w, j))
            BY <2>3
        <3>2. CASE Old(u, i) /\ Old(w, j)
            <4>1. kept[u][i] = kept[w][j]
                BY <2>4, <3>2
            <4> QED BY <3>2, <4>1, <1>0 DEF EdgesOnce
        <3>3. CASE New(u, i) \/ New(w, j)
            <4>1. New(u, i) /\ New(w, j)
                BY <2>1, <2>4, <3>1, <3>3
            <4> QED BY <4>1
        <3> QED BY <3>1, <3>2, <3>3
    <2>5. \A u \in Threads : \A i \in 1 .. Len(kept'[u]), j \in Nodes : kept'[u][i] # filtered_edges[j]
        BY <2>2, <2>3, <1>0 DEF EdgesOnce
    <2> QED BY <2>4, <2>5, <1>0, <1>2 DEF EdgesOnce
<1>12. EndsJoined'
    <2>1. \A x \in Nodes \X Nodes : RootMap[x[1]] = RootMap[x[2]] => RootMap'[x[1]] = RootMap'[x[2]]
        BY <1>1 DEF RootMap
    <2>2. RootMap'[e[1]] = RootMap'[e[2]]
        BY <1>1 DEF RootMap
    <2> QED BY <2>1, <2>2, <1>0, <1>8 DEF EndsJoined
<1>13. KeptByTeam'
    <2>1. \A u \in Threads : u # t => (pc'[u] = pc[u] /\ kept'[u] = kept[u])
        BY <1>3
    <2> QED BY <2>1, <1>2, <1>3 DEF StoreInv, KeptByTeam
<1> QED BY <1>1, <1>2, <1>5, <1>8, <1>9, <1>10, <1>11, <1>12, <1>13 DEF StoreInv

LEMMA CountRow ==
    ASSUME NEW x, NEW n \in Nat
    PROVE  IsFiniteSet({x} \X (1 .. n)) /\ Cardinality({x} \X (1 .. n)) = n
<1>1. IsFiniteSet({x}) /\ Cardinality({x}) = 1
    BY FS_Singleton
<1>2. IsFiniteSet(1 .. n) /\ Cardinality(1 .. n) = n
    <2>1. 1 \in Int /\ n \in Int
        OBVIOUS
    <2>2. IsFiniteSet(1 .. n) /\ Cardinality(1 .. n) = IF 1 > n THEN 0 ELSE n - 1 + 1
        BY ONLY <2>1, FS_Interval
    <2> QED BY <2>2
<1>3. /\ IsFiniteSet({x} \X (1 .. n))
      /\ Cardinality({x} \X (1 .. n)) = Cardinality({x}) * Cardinality(1 .. n)
    BY <1>1, <1>2, FS_Product
<1>4. Cardinality({x}) * Cardinality(1 .. n) = n
    <2>1. 1 * n = n
        OBVIOUS
    <2> QED BY <2>1, <1>1, <1>2
<1> QED BY <1>3, <1>4

\* The fetch_add gives a thread as many places as it has kept edges.
LEMMA ReserveStorage ==
    ASSUME StoreInv, TreesInv', NEW t \in Threads, Reserve(t), Roots' = Roots, RootMap' = RootMap
    PROVE  StoreInv' /\ Accepted' = Accepted
<1> DEFINE n == Len(kept[t])
           m == num_filtered_edges
           mine == {t} \X (1 .. n)
<1>0. Types /\ StoreTyped
    BY DEF StoreInv, TreesInv, IInv
<1>1. /\ UNCHANGED <<filtered_edges, kept, team, rejected>>
      /\ num_filtered_edges' = m + n
      /\ pc[t] = "loop" /\ pc'[t] = "store" /\ pos'[t] = m
      /\ \A u \in Threads \ {t} : pc'[u] = pc[u] /\ pos'[u] = pos[u]
      /\ n \in Nat /\ m \in Nat
    BY <1>0 DEF Reserve, Goto, loop, history, Types, StoreTyped
<1>2. StoreTyped'
    BY <1>0, <1>1 DEF Reserve, StoreTyped
<1>3. \A u \in Threads : \A i \in Nat :
        Reserves(u, i)' <=> IF u = t THEN m <= i /\ i < m + n ELSE Reserves(u, i)
    BY <1>1 DEF Reserves
<1>4. LinksCounted'
    <2>1. mine \subseteq Unplaced /\ Unplaced' = Unplaced \ mine
        <3>1. \A u \in Threads, i \in Nat :
                /\ <<u, i>> \in Unplaced' <=> <<u, i>> \in Unplaced /\ u # t
                /\ u = t => (<<u, i>> \in Unplaced <=> 1 <= i /\ i <= n)
            BY <1>1 DEF Unplaced
        <3>2. Unplaced \subseteq Threads \X Nat /\ Unplaced' \subseteq Threads \X Nat /\ mine \subseteq Threads \X Nat
            BY DEF Unplaced
        <3>3. \A u \in Threads, i \in Nat : <<u, i>> \in mine <=> u = t /\ 1 <= i /\ i <= n
            BY <1>1
        <3> HIDE DEF mine
        <3> QED BY <3>1, <3>2, <3>3
    <2>2. IsFiniteSet(mine) /\ Cardinality(mine) = n
        BY <1>1, CountRow
    <2> HIDE DEF mine
    <2>3. IsFiniteSet(Unplaced) /\ Cardinality(Unplaced) \in Nat
        BY FS_CardinalityType DEF StoreInv, LinksCounted
    <2>4. IsFiniteSet(Unplaced') /\ Cardinality(Unplaced') = Cardinality(Unplaced) - n
        <3>1. Unplaced \cap mine = mine
            BY <2>1
        <3>2. IsFiniteSet(Unplaced \ mine)
              /\ Cardinality(Unplaced \ mine) = Cardinality(Unplaced) - Cardinality(Unplaced \cap mine)
            BY <2>3, FS_Difference
        <3> QED BY <3>1, <3>2, <2>1, <2>2
    <2>5. m + Cardinality(Unplaced) + Cardinality(Roots) = Cardinality(Nodes)
        BY DEF StoreInv, LinksCounted
    <2>6. num_filtered_edges' + Cardinality(Unplaced') + Cardinality(Roots') = Cardinality(Nodes)
        BY <2>3, <2>4, <2>5, <1>1, RootsFinite
    <2> QED BY <2>4, <2>6 DEF LinksCounted
<1>5. PlacesApart'
    <2>1. ASSUME NEW u \in Threads, NEW i \in Nat, Reserves(u, i)'
          PROVE  i < num_filtered_edges'
        BY <2>1, <1>1, <1>3 DEF StoreInv, PlacesApart
    <2>2. ASSUME NEW u \in Threads, NEW w \in Threads, NEW i \in Nat, Reserves(u, i)', Reserves(w, i)'
          PROVE  u = w
        <3>1. \A x \in Threads : x # t /\ Reserves(x, i)' => i < m /\ Reserves(x, i)
            BY <1>3 DEF StoreInv, PlacesApart
        <3>2. Reserves(t, i)' => m <= i
            BY <1>3
        <3> QED BY <2>2, <3>1, <3>2, <1>1 DEF StoreInv, PlacesApart
    <2>3. ASSUME NEW i \in Nodes
          PROVE  filtered_edges'[i] = NoEdge
                 <=> i >= num_filtered_edges' \/ \E u \in Threads : Reserves(u, i)'
        <3>1. i \in Nat
            BY NodesAreNaturals
        <3>2. ~Reserves(t, i)
            BY <1>1 DEF Reserves
        <3>3. i >= m <=> i >= m + n \/ (m <= i /\ i < m + n)
            BY <3>1, <1>1
        <3> QED BY <3>1, <3>2, <3>3, <1>1, <1>3 DEF StoreInv, PlacesApart
    <2> QED BY <2>1, <2>2, <2>3 DEF PlacesApart
<1>6. EdgesOnce' /\ Accepted' = Accepted
    <2>1. EdgesOnce'
        <3>1. EdgesOnce /\ UNCHANGED <<filtered_edges, kept>>
            BY <1>1 DEF StoreInv
        <3> QED BY <3>1 DEF EdgesOnce
    <2>2. Accepted' = Accepted
        BY <1>1 DEF Accepted
    <2> QED BY <2>1, <2>2
<1>7. EndsJoined' /\ KeptByTeam'
    <2>1. \A u \in Threads : pc'[u] = "joined" => pc[u] = "joined"
        BY <1>1
    <2> QED BY <2>1, <1>1, <1>6 DEF StoreInv, EndsJoined, KeptByTeam
<1> QED BY <1>1, <1>2, <1>4, <1>5, <1>6, <1>7 DEF StoreInv

\* What is stored is stored at a place of the array that is empty.
LEMMA PlaceIsFree ==
    ASSUME StoreInv, NEW t \in Threads, pc[t] = "store", kept[t] # <<>>
    PROVE  /\ pos[t] \in Nodes /\ Reserves(t, pos[t]) /\ filtered_edges[pos[t]] = NoEdge
           /\ num_filtered_edges <= Cardinality(Nodes)
<1>1. kept[t] \in Seq(Nodes \X Nodes) /\ pos[t] \in Nat /\ num_filtered_edges \in Nat
    BY DEF StoreInv, StoreTyped
<1>2. Len(kept[t]) \in Nat /\ Len(kept[t]) > 0
    BY <1>1
<1>3. Reserves(t, pos[t])
    BY <1>1, <1>2 DEF Reserves
<1>4. pos[t] < num_filtered_edges
    BY <1>1, <1>3 DEF StoreInv, PlacesApart
<1>5. num_filtered_edges <= Cardinality(Nodes) /\ Cardinality(Nodes) \in Nat
    <2>1. Cardinality(Unplaced) \in Nat
        BY FS_CardinalityType DEF StoreInv, LinksCounted
    <2>2. num_filtered_edges + Cardinality(Unplaced) + Cardinality(Roots) = Cardinality(Nodes)
        BY DEF StoreInv, LinksCounted
    <2>3. Cardinality(Nodes) \in Nat
        BY ConnectivityAssumption, FS_CardinalityType
    <2> QED BY <1>1, <2>1, <2>2, <2>3, RootsFinite
<1>6. pos[t] \in Nodes
    BY <1>1, <1>4, <1>5, ConnectivityAssumption
<1> QED BY <1>3, <1>5, <1>6 DEF StoreInv, PlacesApart

\* An edge moves from the thread to its place.
LEMMA StoreEdgeStorage ==
    ASSUME StoreInv, TreesInv', NEW t \in Threads, StoreEdge(t), Roots' = Roots, RootMap' = RootMap
    PROVE  StoreInv' /\ Accepted' = Accepted
<1> DEFINE n == Len(kept[t])
<1>0. Types /\ StoreTyped
    BY DEF StoreInv, TreesInv, IInv
<1>1. /\ UNCHANGED <<pc, num_filtered_edges, team, rejected>> /\ pc[t] = "store" /\ kept[t] # <<>>
    BY DEF StoreEdge, loop, history
<1>2. PICK p \in Nodes : p = pos[t] /\ Reserves(t, p) /\ filtered_edges[p] = NoEdge /\ p \in Nat
    BY <1>1, PlaceIsFree, NodesAreNaturals
<1>3. PICK e \in Nodes \X Nodes : e = Head(kept[t]) /\ e = kept[t][1] /\ e # NoEdge
    <2>1. kept[t] \in Seq(Nodes \X Nodes)
        BY <1>0 DEF StoreTyped
    <2>2. Head(kept[t]) \in Nodes \X Nodes /\ Head(kept[t]) = kept[t][1]
        BY <2>1, <1>1, HeadTailProperties
    <2> QED BY <2>2, NoEdgeIsNone
<1>4. /\ filtered_edges' = [filtered_edges EXCEPT ![p] = e]
      /\ filtered_edges'[p] = e /\ \A i \in Nodes \ {p} : filtered_edges'[i] = filtered_edges[i]
      /\ pos'[t] = p + 1 /\ kept'[t] = Tail(kept[t])
      /\ \A u \in Threads \ {t} : pos'[u] = pos[u] /\ kept'[u] = kept[u]
    BY <1>0, <1>2, <1>3 DEF StoreEdge, StoreTyped
<1>5. /\ kept[t] \in Seq(Nodes \X Nodes) /\ n \in Nat /\ n >= 1
      /\ kept'[t] \in Seq(Nodes \X Nodes) /\ Len(kept'[t]) = n - 1
      /\ \A i \in 1 .. n - 1 : kept'[t][i] = kept[t][i + 1]
    <2>1. kept[t] \in Seq(Nodes \X Nodes) /\ n \in Nat /\ n >= 1
        BY <1>0, <1>1 DEF StoreTyped
    <2>2. Tail(kept[t]) \in Seq(Nodes \X Nodes) /\ Len(Tail(kept[t])) = n - 1
          /\ \A i \in 1 .. Len(Tail(kept[t])) : Tail(kept[t])[i] = kept[t][i + 1]
        BY <2>1, <1>1, HeadTailProperties
    <2> QED BY <2>1, <2>2, <1>4
<1>6. StoreTyped'
    BY <1>0, <1>1, <1>2, <1>3, <1>4, <1>5 DEF StoreTyped, StoreEdge
<1>7. Unplaced' = Unplaced
    BY <1>1, <1>4 DEF Unplaced
<1>8. LinksCounted'
    BY <1>1, <1>7 DEF StoreInv, LinksCounted
<1>9. \A u \in Threads : \A i \in Nat : Reserves(u, i)' <=> Reserves(u, i) /\ ~(u = t /\ i = p)
    <2> SUFFICES ASSUME NEW u \in Threads, NEW i \in Nat
                 PROVE  Reserves(u, i)' <=> Reserves(u, i) /\ ~(u = t /\ i = p)
        OBVIOUS
    <2>1. CASE u = t
        <3>1. Reserves(u, i) <=> p <= i /\ i < p + n
            BY <2>1, <1>1, <1>2 DEF Reserves
        <3>2. Reserves(u, i)' <=> p + 1 <= i /\ i < (p + 1) + (n - 1)
            BY <2>1, <1>1, <1>4, <1>5 DEF Reserves
        <3>3. p \in Nat /\ n \in Nat
            BY <1>2, <1>5
        <3> HIDE DEF n
        <3> QED BY <2>1, <3>1, <3>2, <3>3
    <2>2. CASE u # t
        BY <2>2, <1>1, <1>4 DEF Reserves
    <2> QED BY <2>1, <2>2
<1>10. PlacesApart'
    <2>1. ASSUME NEW i \in Nodes
          PROVE  filtered_edges'[i] = NoEdge
                 <=> i >= num_filtered_edges' \/ \E u \in Threads : Reserves(u, i)'
        <3>1. i \in Nat
            BY NodesAreNaturals
        <3>2. CASE i = p
            <4>1. i < num_filtered_edges /\ num_filtered_edges \in Nat
                BY <3>2, <1>0, <1>2 DEF StoreInv, PlacesApart, StoreTyped
            <4>2. \A u \in Threads : ~Reserves(u, i)'
                BY <3>2, <1>2, <1>9 DEF StoreInv, PlacesApart
            <4> QED BY <3>1, <3>2, <4>1, <4>2, <1>1, <1>3, <1>4
        <3>3. CASE i # p
            BY <3>1, <3>3, <1>1, <1>4, <1>9 DEF StoreInv, PlacesApart
        <3> QED BY <3>2, <3>3
    <2> QED BY <2>1, <1>1, <1>9 DEF StoreInv, PlacesApart
<1>11. AcceptedKnown /\ AcceptedKnown' /\ EdgesOnce
    BY <1>0, <1>6, AcceptedEdges, PTL DEF StoreInv
<1>12. \A u \in Threads : \A i \in 1 .. Len(kept'[u]) :
        \/ u # t /\ i \in 1 .. Len(kept[u]) /\ kept'[u][i] = kept[u][i]
        \/ u = t /\ i + 1 \in 2 .. Len(kept[u]) /\ kept'[u][i] = kept[u][i + 1]
    <2> SUFFICES ASSUME NEW u \in Threads, NEW i \in 1 .. Len(kept'[u])
                 PROVE  \/ u # t /\ i \in 1 .. Len(kept[u]) /\ kept'[u][i] = kept[u][i]
                        \/ u = t /\ i + 1 \in 2 .. Len(kept[u]) /\ kept'[u][i] = kept[u][i + 1]
        OBVIOUS
    <2>1. CASE u = t
        BY <2>1, <1>5
    <2>2. CASE u # t
        BY <2>2, <1>4
    <2> QED BY <2>1, <2>2
<1>13. Accepted' = Accepted
    <2>1. ASSUME NEW x \in Accepted' PROVE x \in Accepted
        <3>1. CASE \E u \in Threads : \E i \in 1 .. Len(kept'[u]) : x = kept'[u][i]
            <4>1. \E u \in Threads : \E i \in 1 .. Len(kept[u]) : x = kept[u][i]
                BY <3>1, <1>5, <1>12
            <4> QED BY <4>1, <1>11 DEF AcceptedKnown
        <3>2. CASE x # NoEdge /\ \E i \in Nodes : x = filtered_edges'[i]
            <4>1. PICK i \in Nodes : x = filtered_edges'[i]
                BY <3>2
            <4>2. CASE i = p
                <5>1. x = kept[t][1] /\ 1 \in 1 .. Len(kept[t])
                    BY <4>1, <4>2, <1>3, <1>4, <1>5
                <5> QED BY <5>1, <1>11 DEF AcceptedKnown
            <4>3. CASE i # p
                BY <3>2, <4>1, <4>3, <1>4, <1>11 DEF AcceptedKnown
            <4> QED BY <4>2, <4>3
        <3> QED BY <2>1, <3>1, <3>2, <1>11 DEF AcceptedKnown
    <2>2. ASSUME NEW x \in Accepted PROVE x \in Accepted'
        <3>1. CASE \E u \in Threads : \E i \in 1 .. Len(kept[u]) : x = kept[u][i]
            <4>u. PICK u \in Threads : \E i \in 1 .. Len(kept[u]) : x = kept[u][i]
                BY <3>1
            <4>1. PICK i \in 1 .. Len(kept[u]) : x = kept[u][i]
                BY <4>u
            <4>2. CASE u # t
                BY <4>1, <4>2, <1>4, <1>11 DEF AcceptedKnown
            <4>3. CASE u = t /\ i = 1
                BY <4>1, <4>3, <1>3, <1>4, <1>11 DEF AcceptedKnown
            <4>4. CASE u = t /\ i # 1
                <5>1. i - 1 \in 1 .. n - 1 /\ (i - 1) + 1 = i
                    BY <4>4, <1>5
                <5>2. i - 1 \in 1 .. Len(kept'[t]) /\ x = kept'[t][i - 1]
                    BY <4>1, <4>4, <5>1, <1>5
                <5> QED BY <5>2, <1>11 DEF AcceptedKnown
            <4> QED BY <4>2, <4>3, <4>4
        <3>2. CASE x # NoEdge /\ \E i \in Nodes : x = filtered_edges[i]
            BY <3>2, <1>2, <1>4, <1>11 DEF AcceptedKnown
        <3> QED BY <2>2, <3>1, <3>2, <1>11 DEF AcceptedKnown
    <2> QED BY <2>1, <2>2
<1>14. EdgesOnce'
    <2>1. ASSUME NEW u \in Threads, NEW w \in Threads, NEW i \in 1 .. Len(kept'[u]), NEW j \in 1 .. Len(kept'[w]),
                 kept'[u][i] = kept'[w][j]
          PROVE  u = w /\ i = j
        <3>1. PICK k \in 1 .. Len(kept[u]) : kept'[u][i] = kept[u][k] /\ k = IF u = t THEN i + 1 ELSE i
            BY <1>12
        <3>2. PICK m \in 1 .. Len(kept[w]) : kept'[w][j] = kept[w][m] /\ m = IF w = t THEN j + 1 ELSE j
            BY <1>12
        <3>3. kept[u][k] = kept[w][m]
            BY <2>1, <3>1, <3>2
        <3>4. u = w /\ k = m
            BY <3>3, <1>11 DEF EdgesOnce
        <3> QED BY <3>1, <3>2, <3>4
    <2>2. ASSUME NEW u \in Threads, NEW i \in 1 .. Len(kept'[u]), NEW j \in Nodes
          PROVE  kept'[u][i] # filtered_edges'[j]
        <3>1. PICK k \in 1 .. Len(kept[u]) : kept'[u][i] = kept[u][k] /\ (u = t => k # 1)
            BY <1>12
        <3>2. CASE j = p
            <4>1. 1 \in 1 .. Len(kept[t]) /\ filtered_edges'[j] = kept[t][1]
                BY <3>2, <1>3, <1>4, <1>5
            <4> QED BY <3>1, <4>1, <1>11 DEF EdgesOnce
        <3>3. CASE j # p
            BY <3>1, <3>3, <1>4, <1>11 DEF EdgesOnce
        <3> QED BY <3>2, <3>3
    <2>3. ASSUME NEW i \in Nodes, NEW j \in Nodes,
                 filtered_edges'[i] = filtered_edges'[j], filtered_edges'[i] # NoEdge
          PROVE  i = j
        <3>1. \A k \in Nodes : filtered_edges[k] # e
            <4>1. 1 \in 1 .. Len(kept[t])
                BY <1>5
            <4> QED BY <4>1, <1>3, <1>11 DEF EdgesOnce
        <3> QED BY <2>3, <3>1, <1>4, <1>11 DEF EdgesOnce
    <2> QED BY <2>1, <2>2, <2>3 DEF EdgesOnce
<1>15. EndsJoined'
    BY <1>13 DEF StoreInv, EndsJoined
<1>16. KeptByTeam'
    <2>1. t \in team /\ pc'[t] # "joined"
        BY <1>1 DEF StoreInv, TreesInv, CallOK, InTeam
    <2> QED BY <2>1, <1>1, <1>4 DEF StoreInv, KeptByTeam
<1> QED BY <1>1, <1>6, <1>8, <1>10, <1>13, <1>14, <1>15, <1>16 DEF StoreInv

\* A thread that has stored all its edges has no place left.
LEMMA StoredStorage ==
    ASSUME StoreInv, TreesInv', NEW t \in Threads, Stored(t), Roots' = Roots, RootMap' = RootMap
    PROVE  StoreInv' /\ Accepted' = Accepted
<1>0. Types /\ StoreTyped
    BY DEF StoreInv, TreesInv, IInv
<1>1. /\ UNCHANGED <<filtered_edges, num_filtered_edges, kept, team, rejected>>
      /\ kept[t] = <<>> /\ pc[t] = "store" /\ pc'[t] = "joined" /\ pos'[t] = 0
      /\ \A u \in Threads \ {t} : pc'[u] = pc[u] /\ pos'[u] = pos[u]
    BY <1>0 DEF Stored, Goto, forest, loop, history, Types, StoreTyped
<1>2. StoreTyped'
    BY <1>0, <1>1 DEF Stored, StoreTyped
<1>3. Len(kept[t]) = 0
    BY <1>1
<1>4. \A u \in Threads : \A i \in Nat : Reserves(u, i)' <=> Reserves(u, i)
    <2>1. \A i \in Nat : ~Reserves(t, i) /\ ~Reserves(t, i)'
        <3>1. pos[t] \in Nat
            BY <1>0 DEF StoreTyped
        <3> QED BY <1>1, <1>3, <3>1 DEF Reserves
    <2>2. \A u \in Threads \ {t} : \A i \in Nat : Reserves(u, i)' <=> Reserves(u, i)
        BY <1>1 DEF Reserves
    <2> QED BY <2>1, <2>2
<1>5. Unplaced' = Unplaced
    <2>1. \A u \in Threads, i \in Nat : <<u, i>> \in Unplaced' <=> <<u, i>> \in Unplaced
        BY <1>1, <1>3 DEF Unplaced
    <2>2. Unplaced \subseteq Threads \X Nat /\ Unplaced' \subseteq Threads \X Nat
        BY DEF Unplaced
    <2> QED BY <2>1, <2>2
<1>6. LinksCounted'
    BY <1>1, <1>5 DEF StoreInv, LinksCounted
<1>7. PlacesApart'
    BY <1>1, <1>4, NodesAreNaturals DEF StoreInv, PlacesApart
<1>8. EdgesOnce' /\ Accepted' = Accepted
    <2>1. EdgesOnce'
        <3>1. EdgesOnce /\ UNCHANGED <<filtered_edges, kept>>
            BY <1>1 DEF StoreInv
        <3> QED BY <3>1 DEF EdgesOnce
    <2>2. Accepted' = Accepted
        BY <1>1 DEF Accepted
    <2> QED BY <2>1, <2>2
<1>9. EndsJoined' /\ KeptByTeam'
    BY <1>1, <1>8 DEF StoreInv, EndsJoined, KeptByTeam
<1> QED BY <1>1, <1>2, <1>6, <1>7, <1>8, <1>9 DEF StoreInv

\* The steps of one thread that leave the edges alone.
LEMMA OthersUntouched ==
    ASSUME StoreInv, NEW t \in Threads, Find(t) \/ AddEdges(t) \/ Connected(t),
           ~Link(t), ~Reserve(t), ~StoreEdge(t), ~Stored(t)
    PROVE  /\ Untouched /\ KeptByTeam'
           /\ rejected' = rejected \/ SameTree(t)
<1>0. /\ IInv /\ CallsTyped /\ Types /\ StoreTyped /\ ThreadOK(t)
      /\ \/ Find(t) \/ TakeEdge(t) \/ SameTree(t) \/ LinkFails(t) \/ Raise(t)
         \/ AskConnected(t) \/ AnswerTrue(t) \/ AnswerFalse(t) \/ AskAgain(t)
    BY DEF StoreInv, TreesInv, IInv, AddEdges, Unite, Connected
<1>1. UNCHANGED <<filtered_edges, num_filtered_edges, kept, pos>> /\ (rejected' = rejected \/ SameTree(t))
    <2>1. CASE Find(t)
        BY <2>1 DEF Find, Follow, FindRoot, Compress, forest, output, history
    <2>2. CASE TakeEdge(t) \/ SameTree(t) \/ LinkFails(t) \/ Raise(t)
        BY <2>2 DEF TakeEdge, SameTree, LinkFails, Raise, forest, output, history
    <2>3. CASE AskConnected(t) \/ AnswerTrue(t) \/ AnswerFalse(t) \/ AskAgain(t)
        BY <2>3 DEF AskConnected, AnswerTrue, AnswerFalse, AskAgain, forest, output, history
    <2> QED BY <1>0, <2>1, <2>2, <2>3
<1>2. team' = team /\ \A u \in Threads \ {t} : pc'[u] = pc[u]
    BY <1>0, OthersStay DEF SameLocals
<1>3. pc[t] \notin {"store", "joined"} /\ pc'[t] \notin {"store", "joined"}
    <2>1. ASSUME NEW root, Found(t, root)
          PROVE  pc'[t] \in {"find", "compare"}
        BY <2>1, <1>0 DEF Found, Types
    <2>2. CASE Find(t)
        BY <2>1, <2>2, <1>0 DEF Find, Follow, FindRoot, Compress, Types
    <2>3. CASE TakeEdge(t) \/ AskConnected(t)
        BY <2>3, <1>0 DEF TakeEdge, AskConnected, Call, Goto, Types
    <2>4. CASE SameTree(t) \/ Raise(t) \/ AnswerTrue(t) \/ AnswerFalse(t)
        BY <2>4, <1>0 DEF SameTree, Raise, AnswerTrue, AnswerFalse, Return, Types
    <2>5. CASE LinkFails(t) \/ AskAgain(t)
        BY <2>5, <1>0 DEF LinkFails, AskAgain, Retry, Types
    <2> QED BY <1>0, <2>2, <2>3, <2>4, <2>5
<1>4. Untouched
    BY <1>1, <1>2, <1>3 DEF Untouched
<1>5. KeptByTeam'
    BY <1>1, <1>2, <1>3 DEF StoreInv, KeptByTeam
<1> QED BY <1>1, <1>4, <1>5

\* The ends of an edge that is refused are in one tree.
LEMMA RefusedInTree ==
    ASSUME TreesInv, NEW t \in Threads, SameTree(t)
    PROVE  edge[t] \in Nodes \X Nodes /\ RootOf(edge[t][1]) = RootOf(edge[t][2])
<1>1. CallOK(t) /\ Calling(t) /\ a[t][1] = a[t][2]
    BY DEF TreesInv, SameTree, Calling
<1>2. /\ edge[t] \in Nodes \X Nodes
      /\ RootMap[a[t][1]] = RootMap[edge[t][1]] /\ RootMap[a[t][2]] = RootMap[edge[t][2]]
    BY <1>1 DEF CallOK, Searches
<1>3. RootMap[edge[t][1]] = RootMap[edge[t][2]] /\ edge[t][1] \in Nodes /\ edge[t][2] \in Nodes
    BY <1>1, <1>2
<1> QED BY <1>2, <1>3 DEF RootMap

LEMMA InitStorage == Init => StoreInv
<1> SUFFICES ASSUME Init PROVE StoreInv
    OBVIOUS
<1>1. /\ filtered_edges = [i \in Nodes |-> NoEdge] /\ num_filtered_edges = 0 /\ rejected = {}
      /\ \A t \in Threads : kept[t] = <<>> /\ Len(kept[t]) = 0 /\ pc[t] = "idle"
    BY DEF Init
<1>2. StoreTyped
    BY DEF Init, StoreTyped
<1>3. \A t \in Threads : \A i : ~Reserves(t, i)
    BY <1>1 DEF Reserves
<1>4. LinksCounted
    <2>1. Unplaced = {}
        BY <1>1 DEF Unplaced
    <2>2. Roots = Nodes
        BY DEF Roots, IsRoot, Init, FirstRank
    <2>3. IsFiniteSet(Unplaced) /\ Cardinality(Unplaced) = 0
        BY <2>1, FS_EmptySet
    <2>4. Cardinality(Roots) = Cardinality(Nodes) /\ Cardinality(Nodes) \in Nat
        BY <2>2, RootsFinite
    <2> QED BY <2>3, <2>4, <1>1 DEF LinksCounted
<1>5. PlacesApart
    BY <1>1, <1>3, NodesAreNaturals DEF PlacesApart
<1>6. EdgesOnce
    BY <1>1 DEF EdgesOnce
<1>7. Accepted = {}
    <2>1. AcceptedKnown
        BY <1>2, AcceptedEdges
    <2>2. \A t \in Threads : 1 .. Len(kept[t]) = {}
        BY <1>1
    <2> QED BY <2>1, <2>2, <1>1 DEF AcceptedKnown
<1>8. EndsJoined /\ KeptByTeam
    BY <1>1, <1>7 DEF EndsJoined, KeptByTeam
<1> QED BY <1>1, <1>2, <1>4, <1>5, <1>6, <1>8, InitTrees DEF StoreInv

\* Every step, or none, preserves the invariant; what it does to the accepted edges and to
\* the rejected ones.
LEMMA NextStorage ==
    ASSUME StoreInv, [Next]_vars
    PROVE  /\ StoreInv'
           /\ \/ UNCHANGED <<Accepted, rejected, Roots, RootMap>>
              \/ \E t \in Threads : SameTree(t) /\ UNCHANGED <<Accepted, Roots, RootMap>>
              \/ \E t \in Threads : Link(t) /\ Accepted' = Accepted \cup {edge[t]} /\ rejected' = rejected
<1>0. TreesInv /\ TreesInv' /\ IInv /\ IInv' /\ Types /\ rejected \subseteq Nodes \X Nodes
    BY NextTrees DEF StoreInv, TreesInv, IInv
<1>1. ASSUME NEW t \in Threads, Link(t)
      PROVE  StoreInv' /\ Accepted' = Accepted \cup {edge[t]} /\ rejected' = rejected
    BY <1>0, <1>1, LinkStorage DEF Link
<1>2. CASE \A t \in Threads : ~Link(t)
    <2>1. Roots' = Roots /\ RootMap' = RootMap
        BY <1>0, <1>2, TreesStay
    <2>2. CASE BeginBlock \/ BuildForest
        <3>1. UNCHANGED <<filtered_edges, num_filtered_edges, kept, pos, rejected>>
            BY <2>2 DEF BeginBlock, BuildForest, forest, output, history
        <3>2. \A t \in Threads : pc'[t] = pc[t] \/ {pc[t], pc'[t]} \subseteq {"idle", "loop", "joined"}
            BY <2>2, <1>0 DEF BeginBlock, BuildForest, Types
        <3>3. Untouched
            BY <3>1, <3>2 DEF Untouched
        <3>4. KeptByTeam'
            <4>1. \A t \in Threads : kept[t] = <<>>
                BY <2>2 DEF BeginBlock, BuildForest, StoreInv, KeptByTeam
            <4> QED BY <3>1, <4>1 DEF KeptByTeam
        <3> QED BY <1>0, <2>1, <3>1, <3>3, <3>4, StorageUntouched
    <2>3. CASE UNCHANGED vars
        <3>1. UNCHANGED <<filtered_edges, num_filtered_edges, kept, pos, rejected, pc, team>>
            BY <2>3 DEF vars, forest, loop, output, history
        <3>2. Untouched /\ KeptByTeam'
            BY <3>1 DEF Untouched, StoreInv, KeptByTeam
        <3> QED BY <1>0, <2>1, <3>1, <3>2, StorageUntouched
    <2>4. ASSUME NEW t \in Threads, Find(t) \/ AddEdges(t) \/ Connected(t)
          PROVE  /\ StoreInv' /\ Accepted' = Accepted
                 /\ rejected' = rejected \/ SameTree(t)
        <3>1. CASE Reserve(t)
            BY <3>1, <1>0, <2>1, ReserveStorage DEF Reserve, history
        <3>2. CASE StoreEdge(t)
            BY <3>2, <1>0, <2>1, StoreEdgeStorage DEF StoreEdge, history
        <3>3. CASE Stored(t)
            BY <3>3, <1>0, <2>1, StoredStorage DEF Stored, history
        <3>4. CASE ~Reserve(t) /\ ~StoreEdge(t) /\ ~Stored(t)
            <4>1. Untouched /\ KeptByTeam' /\ (rejected' = rejected \/ SameTree(t))
                BY <3>4, <1>2, <2>4, OthersUntouched
            <4>2. rejected' \subseteq Nodes \X Nodes
                BY <4>1, <1>0, RefusedInTree DEF SameTree
            <4> QED BY <1>0, <2>1, <4>1, <4>2, StorageUntouched
        <3> QED BY <3>1, <3>2, <3>3, <3>4
    <2> QED BY <2>1, <2>2, <2>3, <2>4 DEF Next
<1> QED BY <1>1, <1>2

\* What is stored when the threads are at rest.
LEMMA StoredAtRest == StoreInv => FilteredEdgesStored
<1> SUFFICES ASSUME StoreInv, AtRest
             PROVE  /\ num_filtered_edges = Cardinality(Nodes) - Cardinality(Roots)
                    /\ Cardinality({filtered_edges[i] : i \in 0 .. num_filtered_edges - 1}) = num_filtered_edges
                    /\ \A i \in Nodes : filtered_edges[i] = NoEdge <=> i >= num_filtered_edges
    BY DEF FilteredEdgesStored
<1> DEFINE m == num_filtered_edges
           n == Cardinality(Nodes)
<1>1. \A t \in Threads : kept[t] = <<>> /\ Len(kept[t]) = 0
    BY DEF StoreInv, KeptByTeam, AtRest
<1>2. m \in Nat /\ n \in Nat /\ Nodes = 0 .. n - 1
    BY ConnectivityAssumption, FS_CardinalityType DEF StoreInv, StoreTyped
<1>3. m = n - Cardinality(Roots) /\ m <= n
    <2>1. Unplaced = {}
        BY <1>1 DEF Unplaced
    <2>2. Cardinality(Unplaced) = 0
        BY <2>1, FS_EmptySet
    <2>3. m + Cardinality(Unplaced) + Cardinality(Roots) = n
        BY DEF StoreInv, LinksCounted
    <2> QED BY <2>2, <2>3, <1>2, RootsFinite
<1>4. \A i \in Nodes : filtered_edges[i] = NoEdge <=> i >= m
    <2>1. \A t \in Threads : \A i : ~Reserves(t, i) \/ i \notin Nat
        BY <1>1 DEF Reserves, StoreInv, StoreTyped
    <2> QED BY <2>1, NodesAreNaturals DEF StoreInv, PlacesApart
<1>5. Cardinality({filtered_edges[i] : i \in 0 .. m - 1}) = m
    <2> DEFINE P == 0 .. m - 1
               F == {filtered_edges[i] : i \in P}
               f == [i \in P |-> filtered_edges[i]]
    <2>1. IsFiniteSet(P) /\ Cardinality(P) = m
        <3>1. 0 \in Int /\ m - 1 \in Int
            BY <1>2
        <3>2. IsFiniteSet(0 .. m - 1) /\ Cardinality(0 .. m - 1) = IF 0 > m - 1 THEN 0 ELSE m - 1 - 0 + 1
            BY ONLY <3>1, FS_Interval
        <3> QED BY <3>2, <1>2
    <2>2. \A i \in P : i \in Nodes /\ filtered_edges[i] # NoEdge
        BY <1>2, <1>3, <1>4
    <2>3. \A i, j \in P : filtered_edges[i] = filtered_edges[j] => i = j
        BY <2>2 DEF StoreInv, EdgesOnce
    <2> HIDE DEF P
    <2>4. f \in Bijection(P, F)
        <3>1. f \in [P -> F]
            OBVIOUS
        <3>2. \A i, j \in P : f[i] = f[j] => i = j
            BY <2>3
        <3>3. \A e \in F : \E i \in P : f[i] = e
            OBVIOUS
        <3> HIDE DEF f, F
        <3>4. f \in Injection(P, F)
            BY <3>1, <3>2 DEF Injection, IsInjective
        <3>5. f \in Surjection(P, F)
            BY <3>1, <3>3 DEF Surjection
        <3> QED BY <3>4, <3>5 DEF Bijection
    <2>5. ExistsBijection(P, F)
        BY <2>4 DEF ExistsBijection
    <2>6. Cardinality(F) = Cardinality(P)
        BY <2>1, <2>5, FS_Bijection
    <2> QED BY <2>1, <2>6 DEF P
<1> QED BY <1>3, <1>4, <1>5
-----------------------------------------------------------------------------
(* The abstract spanning forest.                                           *)

\* The partition of the nodes by the root that R maps them to.
ClassOf(R, r) == {v \in Nodes : R[v] = r}
ClassesOf(R, S) == {ClassOf(R, r) : r \in S}

LEMMA ClassesMerge ==
    ASSUME NEW R, NEW R2, NEW S \in SUBSET Nodes, NEW low \in S, NEW other \in S, low # other,
           \A r \in S : R[r] = r,
           \A v \in Nodes : R2[v] = IF R[v] = low THEN other ELSE R[v]
    PROVE  /\ ClassOf(R, low) # ClassOf(R, other)
           /\ ClassOf(R, low) \in ClassesOf(R, S) /\ ClassOf(R, other) \in ClassesOf(R, S)
           /\ ClassesOf(R2, S \ {low}) = (ClassesOf(R, S) \ {ClassOf(R, low), ClassOf(R, other)})
                                           \cup {ClassOf(R, low) \cup ClassOf(R, other)}
<1> DEFINE Class(r) == ClassOf(R, r)
           Class2(r) == ClassOf(R2, r)
           C == {Class(r) : r \in S}
           C2 == {Class2(r) : r \in S \ {low}}
<1>1. \A r \in S : r \in Class(r) /\ \A q \in S : r \in Class(q) => q = r
    BY DEF ClassOf
<1>2. Class2(other) = Class(low) \cup Class(other)
    BY DEF ClassOf
<1>3. \A r \in S \ {low, other} : Class2(r) = Class(r)
    BY DEF ClassOf
<1> HIDE DEF Class, Class2
<1>4. \A r, q \in S : Class(r) = Class(q) => r = q
    BY <1>1
<1>5. Class(low) # Class(other) /\ Class(low) \in C /\ Class(other) \in C
    BY <1>4
<1>6. ASSUME NEW X
      PROVE  X \in C2 <=> X \in (C \ {Class(low), Class(other)}) \cup {Class(low) \cup Class(other)}
    <2>1. ASSUME X \in C2
          PROVE  X \in (C \ {Class(low), Class(other)}) \cup {Class(low) \cup Class(other)}
        <3>1. PICK r \in S \ {low} : X = Class2(r)
            BY <2>1
        <3>2. CASE r = other
            BY <3>1, <3>2, <1>2
        <3>3. CASE r # other
            BY <3>1, <3>3, <1>3, <1>4
        <3> QED BY <3>2, <3>3
    <2>2. ASSUME X = Class(low) \cup Class(other)
          PROVE  X \in C2
        BY <2>2, <1>2
    <2>3. ASSUME X \in C, X # Class(low), X # Class(other)
          PROVE  X \in C2
        <3>1. PICK r \in S : X = Class(r)
            BY <2>3
        <3>2. r \in S \ {low, other}
            BY <2>3, <3>1
        <3> QED BY <3>1, <3>2, <1>3
    <2> QED BY <2>1, <2>2, <2>3
<1> HIDE DEF C, C2
<1>7. C2 = (C \ {Class(low), Class(other)}) \cup {Class(low) \cup Class(other)}
    BY <1>6
<1> QED BY <1>5, <1>7 DEF C, C2, Class, Class2, ClassesOf

Classes == {{v \in Nodes : RootOf(v) = r} : r \in Roots}

ClassesMapped == Classes = ClassesOf(RootMap, Roots)

LEMMA ClassesByMap == ClassesMapped
<1>1. \A v \in Nodes : RootMap[v] = RootOf(v)
    BY DEF RootMap
<1> QED BY <1>1 DEF Classes, ClassesMapped, ClassesOf, ClassOf

LEMMA ForestBegins == Init => Forest!ForestInit
<1> SUFFICES ASSUME Init PROVE Forest!ForestInit
    OBVIOUS
<1>1. StoreInv /\ IInv /\ rejected = {}
    BY InitStorage DEF StoreInv, TreesInv, Init
<1>2. \A v \in Nodes : IsRoot(v) /\ RootOf(v) = v
    <2>1. \A v \in Nodes : IsRoot(v)
        BY DEF Init, FirstRank, IsRoot
    <2> QED BY <2>1, <1>1, RootFacts
<1>3. Classes = {{v} : v \in Nodes}
    <2>1. Roots = Nodes
        BY <1>2 DEF Roots
    <2>2. \A r \in Nodes : {v \in Nodes : RootOf(v) = r} = {r}
        BY <1>2
    <2> QED BY <2>1, <2>2 DEF Classes
<1>4. Accepted = {}
    <2>1. AcceptedKnown
        BY <1>1, AcceptedEdges DEF StoreInv
    <2>2. \A t \in Threads : 1 .. Len(kept[t]) = {}
        BY DEF Init
    <2>3. \A i \in Nodes : filtered_edges[i] = NoEdge
        BY DEF Init
    <2> QED BY <2>1, <2>2, <2>3 DEF AcceptedKnown
<1> QED BY <1>1, <1>3, <1>4 DEF Forest!ForestInit, Classes

\* A link is an Accept, the comparison that finds the same representative twice a Reject, and
\* nothing else is seen of the forest.
LEMMA ForestSteps ==
    ASSUME StoreInv, [Next]_vars
    PROVE  [Forest!ForestNext]_(Forest!forestVars)
<1>0. TreesInv /\ IInv /\ TreesInv' /\ IInv' /\ StoreInv'
    BY NextStorage DEF StoreInv, TreesInv
<1>c. ClassesMapped /\ ClassesMapped'
    BY ClassesByMap, PTL
<1>1. ASSUME UNCHANGED <<Accepted, rejected, Roots, RootMap>>
      PROVE  UNCHANGED Forest!forestVars
    <2>1. Classes' = Classes
        BY <1>1, <1>c DEF ClassesMapped
    <2> QED BY <1>1, <2>1 DEF Forest!forestVars, Classes
<1>2. ASSUME NEW t \in Threads, SameTree(t), UNCHANGED <<Accepted, Roots, RootMap>>
      PROVE  Forest!ForestNext
    <2>1. PICK e \in Nodes \X Nodes : e = edge[t] /\ RootOf(e[1]) = RootOf(e[2])
        BY <1>0, <1>2, RefusedInTree
    <2>2. RootOf(e[1]) \in Roots
        BY <1>0, RootFacts DEF Roots
    <2>3. \E A \in Classes : e[1] \in A /\ e[2] \in A
        <3>1. {v \in Nodes : RootOf(v) = RootOf(e[1])} \in Classes
            BY <2>2 DEF Classes
        <3>2. e[1] \in Nodes /\ e[2] \in Nodes
            OBVIOUS
        <3> QED BY <2>1, <3>1, <3>2
    <2>4. Classes' = Classes
        BY <1>2, <1>c DEF ClassesMapped
    <2>5. rejected' = rejected \cup {e}
        BY <1>2, <2>1 DEF SameTree
    <2>6. Forest!Reject(e)
        BY <1>2, <2>3, <2>4, <2>5 DEF Forest!Reject, Classes
    <2> QED BY <2>6 DEF Forest!ForestNext
<1>3. ASSUME NEW t \in Threads, Link(t), Accepted' = Accepted \cup {edge[t]}, rejected' = rejected
      PROVE  Forest!ForestNext
    <2>1. PICK e \in Nodes \X Nodes, low \in Roots, other \in Roots :
            /\ e = edge[t] /\ low # other /\ Roots' = Roots \ {low}
            /\ \A v \in Nodes : RootOf(v)' = IF RootOf(v) = low THEN other ELSE RootOf(v)
            /\ \/ RootOf(e[1]) = low /\ RootOf(e[2]) = other
               \/ RootOf(e[2]) = low /\ RootOf(e[1]) = other
        BY <1>0, <1>3, TreesLinked
    <2>2. /\ \A r \in Roots : RootMap[r] = r
          /\ \A v \in Nodes : RootMap'[v] = IF RootMap[v] = low THEN other ELSE RootMap[v]
          /\ Roots \in SUBSET Nodes
        BY <2>1, <1>0, RootFacts DEF RootMap, Roots
    <2> DEFINE A == ClassOf(RootMap, low)
               B == ClassOf(RootMap, other)
    <2>3. /\ A # B /\ A \in Classes /\ B \in Classes
          /\ Classes' = (Classes \ {A, B}) \cup {A \cup B}
        <3>1. Classes' = ClassesOf(RootMap', Roots \ {low}) /\ Classes = ClassesOf(RootMap, Roots)
            BY <2>1, <1>c DEF ClassesMapped, ClassesOf, ClassOf
        <3> QED BY <2>1, <2>2, <3>1, ClassesMerge
    <2>4. (e[1] \in A /\ e[2] \in B) \/ (e[2] \in A /\ e[1] \in B)
        BY <2>1 DEF RootMap, ClassOf
    <2> HIDE DEF A, B
    <2>5. \E X, Y \in Classes :
            /\ X # Y /\ e[1] \in X /\ e[2] \in Y
            /\ Classes' = (Classes \ {X, Y}) \cup {X \cup Y}
        <3>1. A \cup B = B \cup A /\ {A, B} = {B, A}
            OBVIOUS
        <3> QED BY <2>3, <2>4, <3>1
    <2>6. Forest!Accept(e)
        BY <1>3, <2>1, <2>5 DEF Forest!Accept, Classes
    <2> QED BY <2>6 DEF Forest!ForestNext
<1> QED BY <1>1, <1>2, <1>3, NextStorage
-----------------------------------------------------------------------------
(* The forest of the filtered edges, rooted anew.                          *)

Adjacent(E, u, v) == <<u, v>> \in E \/ <<v, u>> \in E

\* What the layers are that Layer defines.
NextLayer(E, L, j) == {v \in Nodes : /\ \E u \in L[j - 1] : <<u, v>> \in E \/ <<v, u>> \in E
                                     /\ \A k \in 0 .. j - 1 : v \notin L[k]}
AreLayers(E, L, i) == L = [j \in 0 .. i |-> IF j = 0 THEN Roots ELSE NextLayer(E, L, j)]

LEMMA LayersExist ==
    ASSUME NEW E, NEW n \in Nat
    PROVE  \E L : AreLayers(E, L, n)
<1> DEFINE T == (SUBSET Nodes) \X (SUBSET Nodes)
           Beyond(p) == {v \in Nodes : (\E u \in p[1] : <<u, v>> \in E \/ <<v, u>> \in E) /\ v \notin p[2]}
           F == [p \in T |-> <<Beyond(p), p[2] \cup Beyond(p)>>]
           base == <<Roots, Roots>>
<1>1. base \in T /\ F \in [T -> T]
    <2>1. Roots \subseteq Nodes
        BY DEF Roots
    <2>2. \A p \in T : Beyond(p) \in SUBSET Nodes /\ p[2] \in SUBSET Nodes
        OBVIOUS
    <2> HIDE DEF Beyond
    <2> QED BY <2>1, <2>2
<1>2. PICK g : Unfolds(g, T, base, F, n)
    <2> HIDE DEF F, T, base
    <2> QED BY <1>1, RecursiveFunction
<1>3. g \in [0 .. n -> T] /\ g[0] = base /\ \A i \in 1 .. n : g[i] = F[g[i - 1]]
    BY <1>2 DEF Unfolds
<1> DEFINE L == [j \in 0 .. n |-> g[j][1]]
           S == {i \in Nat : i <= n => \A v : v \in g[i][2] <=> \E k \in 0 .. i : v \in g[k][1]}
<1>4. \A i \in 1 .. n : /\ i - 1 \in 0 .. n /\ g[i][1] = Beyond(g[i - 1])
                        /\ g[i][2] = g[i - 1][2] \cup g[i][1]
    <2> SUFFICES ASSUME NEW i \in 1 .. n
                 PROVE  /\ i - 1 \in 0 .. n /\ g[i][1] = Beyond(g[i - 1])
                        /\ g[i][2] = g[i - 1][2] \cup g[i][1]
        OBVIOUS
    <2>1. i - 1 \in 0 .. n
        OBVIOUS
    <2> HIDE DEF Beyond, T
    <2>2. g[i - 1] \in T
        BY <2>1, <1>3
    <2> HIDE DEF F
    <2>3. g[i] = F[g[i - 1]]
        BY <1>3
    <2>4. F[g[i - 1]] = <<Beyond(g[i - 1]), g[i - 1][2] \cup Beyond(g[i - 1])>>
        BY <2>2 DEF F
    <2> QED BY <2>1, <2>3, <2>4
<1>5. S = Nat
    <2>1. 0 \in S
        <3>1. g[0][2] = g[0][1]
            BY <1>3
        <3>2. 0 .. 0 = {0}
            OBVIOUS
        <3> HIDE DEF base
        <3> QED BY <3>1, <3>2
    <2>2. ASSUME NEW i \in S PROVE i + 1 \in S
        <3> SUFFICES ASSUME i + 1 <= n, NEW v
                     PROVE  v \in g[i + 1][2] <=> \E k \in 0 .. i + 1 : v \in g[k][1]
            OBVIOUS
        <3>1. i \in Nat /\ i + 1 \in 1 .. n /\ (i + 1) - 1 = i /\ i <= n
            OBVIOUS
        <3>2. v \in g[i + 1][2] <=> v \in g[i][2] \/ v \in g[i + 1][1]
            BY <3>1, <1>4
        <3>3. v \in g[i][2] <=> \E k \in 0 .. i : v \in g[k][1]
            BY <3>1
        <3>4. \A k : k \in 0 .. i + 1 <=> k \in 0 .. i \/ k = i + 1
            BY <3>1
        <3> QED BY <3>2, <3>3, <3>4
    <2> HIDE DEF S
    <2> QED BY <2>1, <2>2, InductionOverSet DEF S
<1>6. ASSUME NEW j \in 1 .. n
      PROVE  L[j] = NextLayer(E, L, j)
    <2>1. j \in 0 .. n /\ j - 1 \in 0 .. n /\ j - 1 \in Nat /\ j - 1 <= n
        OBVIOUS
    <2>2. L[j] = Beyond(g[j - 1]) /\ L[j - 1] = g[j - 1][1]
        BY <2>1, <1>4
    <2>3. \A v : v \in g[j - 1][2] <=> \E k \in 0 .. j - 1 : v \in g[k][1]
        BY <2>1, <1>5
    <2>4. \A k \in 0 .. j - 1 : L[k] = g[k][1]
        BY <2>1
    <2> HIDE DEF L
    <2>5. ASSUME NEW v
          PROVE  v \in L[j] <=> v \in NextLayer(E, L, j)
        <3>1. v \in L[j] <=> /\ v \in Nodes /\ v \notin g[j - 1][2]
                             /\ \E u \in g[j - 1][1] : <<u, v>> \in E \/ <<v, u>> \in E
            BY <2>2
        <3>2. v \notin g[j - 1][2] <=> \A k \in 0 .. j - 1 : v \notin L[k]
            BY <2>3, <2>4
        <3> HIDE DEF Beyond
        <3> QED BY <2>2, <3>1, <3>2 DEF NextLayer
    <2>6. \A v : v \in L[j] <=> v \in NextLayer(E, L, j)
        BY <2>5
    <2> QED BY <2>6
<1>7. L[0] = Roots
    BY <1>3
<1>8. L = [j \in 0 .. n |-> IF j = 0 THEN Roots ELSE NextLayer(E, L, j)]
    <2>1. \A j \in 0 .. n : L[j] = IF j = 0 THEN Roots ELSE NextLayer(E, L, j)
        <3> HIDE DEF L
        <3>1. \A j \in 0 .. n : j = 0 \/ j \in 1 .. n
            OBVIOUS
        <3> QED BY <3>1, <1>6, <1>7
    <2>2. L = [j \in 0 .. n |-> L[j]]
        OBVIOUS
    <2> HIDE DEF L
    <2> QED BY <2>1, <2>2
<1> QED BY <1>8 DEF AreLayers

LEMMA LayersAgree ==
    ASSUME NEW E, NEW n \in Nat, NEW m \in Nat, NEW L, NEW M, AreLayers(E, L, n), AreLayers(E, M, m)
    PROVE  \A k \in Nat : k <= n /\ k <= m => L[k] = M[k]
<1> DEFINE S == {i \in Nat : \A k \in 0 .. i : k <= n /\ k <= m => L[k] = M[k]}
<1>1. \A i \in 0 .. n : L[i] = IF i = 0 THEN Roots ELSE NextLayer(E, L, i)
    <2>1. L = [j \in 0 .. n |-> IF j = 0 THEN Roots ELSE NextLayer(E, L, j)]
        BY DEF AreLayers
    <2> QED BY <2>1
<1>2. \A i \in 0 .. m : M[i] = IF i = 0 THEN Roots ELSE NextLayer(E, M, i)
    <2>1. M = [j \in 0 .. m |-> IF j = 0 THEN Roots ELSE NextLayer(E, M, j)]
        BY DEF AreLayers
    <2> QED BY <2>1
<1>3. 0 \in S
    BY <1>1, <1>2
<1>4. ASSUME NEW i \in S PROVE i + 1 \in S
    <2> SUFFICES ASSUME i + 1 <= n, i + 1 <= m PROVE L[i + 1] = M[i + 1]
        OBVIOUS
    <2>1. \A k \in 0 .. i : L[k] = M[k]
        OBVIOUS
    <2>2. (i + 1) - 1 = i /\ i \in 0 .. i /\ i + 1 \in 0 .. n /\ i + 1 \in 0 .. m /\ i + 1 # 0
        OBVIOUS
    <2>3. NextLayer(E, L, i + 1) = NextLayer(E, M, i + 1)
        BY <2>1, <2>2 DEF NextLayer
    <2> QED BY <2>2, <2>3, <1>1, <1>2
<1> HIDE DEF S
<1>5. S = Nat
    BY <1>3, <1>4, InductionOverSet DEF S
<1> QED BY <1>5 DEF S

\* Layer is what it says: the roots, then each time the neighbours that are in no layer yet.
LEMMA LayerFacts ==
    ASSUME NEW E
    PROVE  /\ Layer(E, 0) = Roots
           /\ \A i \in Nat \ {0} : \A v :
                v \in Layer(E, i) <=> /\ v \in Nodes /\ \E u \in Layer(E, i - 1) : Adjacent(E, u, v)
                                      /\ \A k \in 0 .. i - 1 : v \notin Layer(E, k)
<1>1. \A i : Layer(E, i) = (CHOOSE L : AreLayers(E, L, i))[i]
    BY DEF Layer, AreLayers, NextLayer
<1>2. \A i \in Nat : \E L : AreLayers(E, L, i) /\ \A k \in 0 .. i : Layer(E, k) = L[k]
    <2> SUFFICES ASSUME NEW i \in Nat
                 PROVE  \E L : AreLayers(E, L, i) /\ \A k \in 0 .. i : Layer(E, k) = L[k]
        OBVIOUS
    <2>1. PICK L : AreLayers(E, L, i)
        BY LayersExist
    <2>2. ASSUME NEW k \in 0 .. i PROVE Layer(E, k) = L[k]
        <3> DEFINE M == CHOOSE X : AreLayers(E, X, k)
        <3>1. AreLayers(E, M, k)
            BY LayersExist
        <3>2. Layer(E, k) = M[k]
            BY <1>1
        <3> HIDE DEF M
        <3>3. M[k] = L[k]
            BY <2>1, <3>1, LayersAgree
        <3> QED BY <3>2, <3>3
    <2> QED BY <2>1, <2>2
<1>3. Layer(E, 0) = Roots
    <2>1. PICK L : AreLayers(E, L, 0) /\ \A k \in 0 .. 0 : Layer(E, k) = L[k]
        BY <1>2
    <2>2. L = [j \in 0 .. 0 |-> IF j = 0 THEN Roots ELSE NextLayer(E, L, j)]
        BY <2>1 DEF AreLayers
    <2> QED BY <2>1, <2>2
<1>4. ASSUME NEW i \in Nat \ {0}, NEW v
      PROVE  v \in Layer(E, i) <=> /\ v \in Nodes /\ \E u \in Layer(E, i - 1) : Adjacent(E, u, v)
                                   /\ \A k \in 0 .. i - 1 : v \notin Layer(E, k)
    <2>1. PICK L : AreLayers(E, L, i) /\ \A k \in 0 .. i : Layer(E, k) = L[k]
        BY <1>2
    <2>2. L = [j \in 0 .. i |-> IF j = 0 THEN Roots ELSE NextLayer(E, L, j)]
        BY <2>1 DEF AreLayers
    <2>3. L[i] = NextLayer(E, L, i)
        BY <2>2
    <2>4. Layer(E, i) = L[i] /\ Layer(E, i - 1) = L[i - 1] /\ \A k \in 0 .. i - 1 : Layer(E, k) = L[k]
        BY <2>1
    <2>5. v \in L[i] <=> /\ v \in Nodes /\ \E u \in L[i - 1] : <<u, v>> \in E \/ <<v, u>> \in E
                         /\ \A k \in 0 .. i - 1 : v \notin L[k]
        BY <2>3 DEF NextLayer
    <2>6. (\A k \in 0 .. i - 1 : v \notin L[k]) <=> (\A k \in 0 .. i - 1 : v \notin Layer(E, k))
        BY <2>4
    <2> QED BY <2>4, <2>5, <2>6 DEF Adjacent
<1> QED BY <1>3, <1>4

\* As many layers as there are nodes, and one more, cannot all have a node; so the layers
\* reach whatever is adjacent to them.
LEMMA LayersReach ==
    ASSUME NEW E, NEW k \in 0 .. Cardinality(Nodes), NEW u \in Layer(E, k), NEW v \in Nodes, Adjacent(E, u, v)
    PROVE  \E i \in 0 .. Cardinality(Nodes) : v \in Layer(E, i)
<1> DEFINE n == Cardinality(Nodes)
<1>0. n \in Nat
    BY ConnectivityAssumption, FS_CardinalityType
<1>1. /\ \A i \in Nat \ {0} : \A x :
            x \in Layer(E, i) <=> /\ x \in Nodes /\ \E y \in Layer(E, i - 1) : Adjacent(E, y, x)
                                  /\ \A j \in 0 .. i - 1 : x \notin Layer(E, j)
      /\ Layer(E, 0) \subseteq Nodes
    BY LayerFacts DEF Roots
<1>2. CASE k < n
    <2>1. k + 1 \in Nat \ {0} /\ k + 1 \in 0 .. n /\ (k + 1) - 1 = k
        BY <1>0, <1>2
    <2>2. v \in Layer(E, k + 1) \/ \E j \in 0 .. k : v \in Layer(E, j)
        BY <1>1, <2>1
    <2>3. \A j \in 0 .. k : j \in 0 .. n
        BY <1>0, <1>2
    <2> QED BY <2>1, <2>2, <2>3
<1>3. CASE k = n
    <2> DEFINE S == {m \in Nat : m <= n => Layer(E, n - m) # {}}
    <2>1. 0 \in S
        BY <1>0, <1>3
    <2>2. ASSUME NEW m \in S PROVE m + 1 \in S
        <3> SUFFICES ASSUME m + 1 <= n PROVE Layer(E, n - (m + 1)) # {}
            OBVIOUS
        <3>1. m <= n /\ n - m \in Nat \ {0} /\ (n - m) - 1 = n - (m + 1)
            BY <1>0
        <3>2. Layer(E, n - m) # {}
            BY <3>1
        <3> QED BY <3>1, <3>2, <1>1
    <2> HIDE DEF S
    <2>3. S = Nat
        BY <2>1, <2>2, InductionOverSet DEF S
    <2>4. ASSUME NEW i \in 0 .. n PROVE Layer(E, i) # {} /\ Layer(E, i) \subseteq Nodes
        <3>1. n - i \in Nat /\ n - i <= n /\ n - (n - i) = i
            BY <1>0
        <3>2. Layer(E, i) # {}
            BY <3>1, <2>3 DEF S
        <3> QED BY <3>2, <1>1
    <2> DEFINE f == [i \in 0 .. n |-> CHOOSE x : x \in Layer(E, i)]
    <2>5. \A i \in 0 .. n : f[i] \in Layer(E, i) /\ f[i] \in Nodes
        BY <2>4
    <2>6. f \in [0 .. n -> Nodes]
        BY <2>5
    <2>7. IsFiniteSet(0 .. n) /\ Cardinality(Nodes) < Cardinality(0 .. n)
        <3>1. 0 \in Int /\ n \in Int
            BY <1>0
        <3> HIDE DEF n
        <3>2. IsFiniteSet(0 .. n) /\ Cardinality(0 .. n) = IF 0 > n THEN 0 ELSE n - 0 + 1
            BY ONLY <3>1, FS_Interval
        <3>3. Cardinality(0 .. n) = n + 1
            BY <3>2, <1>0
        <3> QED BY <3>2, <3>3, <1>0 DEF n
    <2> HIDE DEF f, n
    <2>8. \E i, j \in 0 .. n : i # j /\ f[i] = f[j]
        BY <2>6, <2>7, FS_PigeonHole, ConnectivityAssumption DEF n
    <2>9. PICK i \in 0 .. n, j \in 0 .. n : i < j /\ f[i] = f[j]
        BY <2>8, <1>0
    <2>10. j \in Nat \ {0} /\ i \in 0 .. j - 1
        BY <2>9, <1>0
    <2>11. f[j] \notin Layer(E, i)
        BY <2>5, <2>9, <2>10, <1>1
    <2> QED BY <2>5, <2>9, <2>11
<1> QED BY <1>0, <1>2, <1>3

\* A node is given a parent if it is no root and the layers reach it.
LEMMA ParentsFound ==
    ASSUME NEW E, NEW v \in Nodes
    PROVE  /\ TreeParents(E)[v] \in Nodes \cup {-1}
           /\ TreeParents(E)[v] = -1 <=> IsRoot(v) \/ \A i \in 0 .. Cardinality(Nodes) : v \notin Layer(E, i)
<1>1. CASE IsRoot(v) \/ \A i \in 0 .. Cardinality(Nodes) : v \notin Layer(E, i)
    BY <1>1 DEF TreeParents
<1>2. CASE ~(IsRoot(v) \/ \A i \in 0 .. Cardinality(Nodes) : v \notin Layer(E, i))
    <2> DEFINE i == CHOOSE j \in 0 .. Cardinality(Nodes) : v \in Layer(E, j)
               p == CHOOSE u \in Layer(E, i - 1) : <<u, v>> \in E \/ <<v, u>> \in E
    <2>1. TreeParents(E)[v] = p
        BY <1>2 DEF TreeParents
    <2>2. i \in 0 .. Cardinality(Nodes) /\ v \in Layer(E, i)
        BY <1>2
    <2> HIDE DEF i
    <2>3. i \in Nat \ {0}
        <3>1. v \notin Layer(E, 0)
            BY <1>2, LayerFacts DEF Roots
        <3> QED BY <2>2, <3>1
    <2>4. \E u \in Layer(E, i - 1) : <<u, v>> \in E \/ <<v, u>> \in E
        BY <2>2, <2>3, LayerFacts DEF Adjacent
    <2>5. p \in Layer(E, i - 1)
        BY <2>4
    <2> HIDE DEF p
    <2>6. p \in Nodes
        <3>1. CASE i - 1 = 0
            BY <2>5, <3>1, LayerFacts DEF Roots
        <3>2. CASE i - 1 # 0
            <4>1. i - 1 \in Nat \ {0}
                BY <2>3, <3>2
            <4> QED BY <2>5, <4>1, LayerFacts
        <3> QED BY <3>1, <3>2
    <2>7. p # -1
        BY <2>6, NodesAreNaturals
    <2> QED BY <1>2, <2>1, <2>6, <2>7
<1> QED BY <1>1, <1>2

\* The accepted edges connect each tree: a set that no accepted edge leaves contains a tree
\* or has no node of it.
NoneLeaves(X) == \A e \in Accepted : e[1] \in X <=> e[2] \in X
EdgesSpan ==
    \A X \in SUBSET Nodes : NoneLeaves(X) =>
        \A u, v \in Nodes : RootMap[u] = RootMap[v] /\ u \in X => v \in X

\* What the forest of the last block is, and what is left of the types.
ParentsTyped == bfs_parents \in [Nodes -> Nodes \cup {-1}]
RestTyped ==
    /\ block \in 0 .. Len(Blocks) /\ team \subseteq Threads
    /\ \A t \in Threads : ~Calling(t) => a[t] = NoEdge

\* The inductive invariant about the forest that is built.
BuiltInv == StoreInv /\ EdgesSpan /\ ParentsTyped /\ OnlyRootsAreParentless /\ RestTyped

\* There are no more edges than nodes, as each took a root away.
LEMMA CounterBounded ==
    ASSUME StoreInv
    PROVE  num_filtered_edges \in 0 .. Cardinality(Nodes)
<1>1. num_filtered_edges \in Nat /\ Cardinality(Unplaced) \in Nat /\ Cardinality(Nodes) \in Nat
    BY ConnectivityAssumption, FS_CardinalityType DEF StoreInv, StoreTyped, LinksCounted
<1>2. num_filtered_edges + Cardinality(Unplaced) + Cardinality(Roots) = Cardinality(Nodes)
    BY DEF StoreInv, LinksCounted
<1> QED BY <1>1, <1>2, RootsFinite

\* When nothing is kept, the stored edges are the accepted ones.
LEMMA AllStored ==
    ASSUME StoreInv, \A t \in Threads : kept[t] = <<>>
    PROVE  Accepted = {filtered_edges[i] : i \in 0 .. num_filtered_edges - 1}
<1>0. /\ StoreTyped /\ AcceptedKnown /\ num_filtered_edges \in 0 .. Cardinality(Nodes)
      /\ Cardinality(Nodes) \in Nat
    BY AcceptedEdges, CounterBounded, ConnectivityAssumption, FS_CardinalityType DEF StoreInv
<1>1. \A t \in Threads : 1 .. Len(kept[t]) = {} /\ Len(kept[t]) = 0
    OBVIOUS
<1>2. \A i \in Nodes : filtered_edges[i] # NoEdge <=> i \in 0 .. num_filtered_edges - 1
    <2>1. \A t \in Threads : \A i \in Nat : ~Reserves(t, i)
        BY <1>0, <1>1 DEF Reserves, StoreTyped
    <2>2. \A i \in Nodes : i \in Nat
        BY NodesAreNaturals
    <2>3. \A i \in Nodes : filtered_edges[i] = NoEdge <=> i >= num_filtered_edges
        BY <2>1, <2>2 DEF StoreInv, PlacesApart
    <2> QED BY <2>2, <2>3, <1>0
<1>3. \A i \in 0 .. num_filtered_edges - 1 : i \in Nodes
    BY <1>0, ConnectivityAssumption
<1>4. \A e : e \in Accepted <=> \E i \in 0 .. num_filtered_edges - 1 : e = filtered_edges[i]
    BY <1>0, <1>1, <1>2, <1>3 DEF AcceptedKnown
<1> QED BY <1>4

\* The forest of the edges is rooted at the roots and reaches every node.
LEMMA ForestRooted ==
    ASSUME StoreInv, EdgesSpan, NEW v \in Nodes
    PROVE  /\ TreeParents(Accepted)[v] \in Nodes \cup {-1}
           /\ TreeParents(Accepted)[v] = -1 <=> IsRoot(v)
<1> DEFINE n == Cardinality(Nodes)
           X == {x \in Nodes : \E i \in 0 .. n : x \in Layer(Accepted, i)}
<1>1. n \in Nat /\ 0 \in 0 .. n
    BY ConnectivityAssumption, FS_CardinalityType
<1>2. NoneLeaves(X)
    <2> SUFFICES ASSUME NEW e \in Accepted PROVE e[1] \in X <=> e[2] \in X
        BY DEF NoneLeaves
    <2>1. e \in Nodes \X Nodes /\ e = <<e[1], e[2]>>
        BY DEF StoreInv, EndsJoined
    <2>2. Adjacent(Accepted, e[1], e[2]) /\ Adjacent(Accepted, e[2], e[1]) /\ e[1] \in Nodes /\ e[2] \in Nodes
        BY <2>1 DEF Adjacent
    <2> QED BY <2>2, LayersReach
<1>3. RootOf(v) \in Nodes /\ IsRoot(RootOf(v)) /\ RootOf(RootOf(v)) = RootOf(v)
    BY RootFacts DEF StoreInv, TreesInv
<1>4. RootOf(v) \in X
    BY <1>1, <1>3, LayerFacts DEF Roots
<1>5. RootMap[RootOf(v)] = RootMap[v]
    BY <1>3 DEF RootMap
<1> HIDE DEF X
<1>6. X \subseteq Nodes
    BY DEF X
<1>7. v \in X
    BY <1>2, <1>3, <1>4, <1>5, <1>6 DEF EdgesSpan
<1>8. ~\A i \in 0 .. n : v \notin Layer(Accepted, i)
    BY <1>7 DEF X
<1> QED BY <1>8, ParentsFound

LEMMA SpansNext ==
    ASSUME StoreInv, EdgesSpan, [Next]_vars
    PROVE  EdgesSpan'
<1>1. CASE UNCHANGED <<Accepted, RootMap>>
    BY <1>1 DEF EdgesSpan, NoneLeaves
<1>2. ASSUME NEW t \in Threads, Link(t), Accepted' = Accepted \cup {edge[t]}
      PROVE  EdgesSpan'
    <2>0. TreesInv /\ IInv'
        BY NextStorage DEF StoreInv, TreesInv
    <2>1. PICK e \in Nodes \X Nodes, low \in Roots, other \in Roots :
            /\ e = edge[t] /\ low # other
            /\ \A v \in Nodes : RootOf(v)' = IF RootOf(v) = low THEN other ELSE RootOf(v)
            /\ \/ RootOf(e[1]) = low /\ RootOf(e[2]) = other
               \/ RootOf(e[2]) = low /\ RootOf(e[1]) = other
        BY <1>2, <2>0, TreesLinked
    <2>2. /\ \A v \in Nodes : RootMap'[v] = IF RootMap[v] = low THEN other ELSE RootMap[v]
          /\ {RootMap[e[1]], RootMap[e[2]]} = {low, other} /\ e[1] \in Nodes /\ e[2] \in Nodes
        BY <2>1 DEF RootMap
    <2> SUFFICES ASSUME NEW X \in SUBSET Nodes, \A x \in Accepted' : x[1] \in X <=> x[2] \in X,
                        NEW u \in Nodes, NEW v \in Nodes, RootMap'[u] = RootMap'[v], u \in X
                 PROVE  v \in X
        BY DEF EdgesSpan, NoneLeaves
    <2>3. NoneLeaves(X) /\ (e[1] \in X <=> e[2] \in X)
        BY <1>2, <2>1 DEF NoneLeaves
    <2>4. \A x, y \in Nodes : RootMap[x] = RootMap[y] /\ x \in X => y \in X
        BY <2>3 DEF EdgesSpan
    <2>5. CASE RootMap[u] = RootMap[v]
        BY <2>4, <2>5
    <2>6. CASE RootMap[u] # RootMap[v]
        <3>1. \/ RootMap[u] = RootMap[e[1]] /\ RootMap[v] = RootMap[e[2]]
              \/ RootMap[u] = RootMap[e[2]] /\ RootMap[v] = RootMap[e[1]]
            BY <2>2, <2>6
        <3> QED BY <3>1, <2>2, <2>3, <2>4
    <2> QED BY <2>5, <2>6
<1> QED BY <1>1, <1>2, NextStorage

\* Only the end of addEdges builds a forest; until the next one begins no root is linked.
LEMMA ParentsNext ==
    ASSUME BuiltInv, [Next]_vars
    PROVE  ParentsTyped' /\ OnlyRootsAreParentless'
<1>0. StoreInv /\ TreesInv /\ IInv' /\ RestTyped /\ CallsTyped /\ IInv
    BY NextStorage DEF BuiltInv, StoreInv, TreesInv
<1>1. CASE BuildForest
    <2>1. \A t \in Threads : kept[t] = <<>>
        BY <1>1, <1>0 DEF BuildForest, StoreInv, KeptByTeam
    <2>2. bfs_parents' = TreeParents(Accepted)
        BY <1>1, <1>0, <2>1, AllStored DEF BuildForest
    <2>3. \A v \in Nodes : IsRoot(v)' <=> IsRoot(v)
        BY <1>1 DEF BuildForest, IsRoot
    <2>4. \A v \in Nodes : bfs_parents'[v] \in Nodes \cup {-1} /\ (bfs_parents'[v] = -1 <=> IsRoot(v))
        BY <2>2, <1>0, ForestRooted DEF BuiltInv
    <2>5. ParentsTyped'
        BY <2>2, <2>4 DEF ParentsTyped, TreeParents
    <2> QED BY <2>3, <2>4, <2>5 DEF OnlyRootsAreParentless
<1>2. CASE ~BuildForest
    <2>1. bfs_parents' = bfs_parents /\ (team' = {} => team = {})
        <3>1. ASSUME NEW t \in Threads, Find(t) \/ AddEdges(t) \/ Connected(t)
              PROVE  team' = team /\ bfs_parents' = bfs_parents
            <4>1. team' = team
                BY <1>0, <3>1, OthersStay
            <4>2. bfs_parents' = bfs_parents
                BY <3>1 DEF Find, AddEdges, Unite, Connected, Follow, FindRoot, Compress, TakeEdge, SameTree,
                    Link, LinkFails, Raise, Reserve, StoreEdge, Stored, AskConnected, AnswerTrue, AnswerFalse,
                    AskAgain, forest
            <4> QED BY <4>1, <4>2
        <3>2. CASE BeginBlock
            BY <3>2 DEF BeginBlock, forest
        <3>3. CASE UNCHANGED vars
            BY <3>3 DEF vars, forest, loop
        <3> QED BY <1>2, <3>1, <3>2, <3>3 DEF Next
    <2>2. ASSUME AtRest', NEW v \in Nodes
          PROVE  AtRest /\ (IsRoot(v)' <=> IsRoot(v))
        <3>1. AtRest
            BY <2>1, <2>2 DEF AtRest
        <3>2. \A t \in Threads : ~Link(t)
            BY <3>1 DEF AtRest, Link
        <3>3. Roots' = Roots
            BY <1>0, <3>2, TreesStay
        <3> QED BY <3>1, <3>3 DEF Roots
    <2> QED BY <2>1, <2>2 DEF BuiltInv, ParentsTyped, OnlyRootsAreParentless
<1> QED BY <1>1, <1>2

\* A call that returns forgets its nodes.
LEMMA RestNext ==
    ASSUME BuiltInv, [Next]_vars
    PROVE  RestTyped'
<1>0. IInv /\ Types /\ CallsTyped /\ RestTyped
    BY DEF BuiltInv, StoreInv, TreesInv, IInv
<1>1. CASE BeginBlock
    <2>1. block' \in 0 .. Len(Blocks)
        BY <1>0, <1>1, ConnectivityAssumption DEF BeginBlock, RestTyped
    <2>2. a' = a /\ team' \subseteq Threads
        BY <1>1 DEF BeginBlock, call
    <2>3. \A t \in Threads : ~Calling(t)' => ~Calling(t)
        BY <1>1, <1>0 DEF BeginBlock, Calling, Types
    <2> QED BY <1>0, <2>1, <2>2, <2>3 DEF RestTyped
<1>2. CASE BuildForest
    <2>1. UNCHANGED <<a, block>> /\ team' \subseteq Threads
        BY <1>2 DEF BuildForest, call
    <2>2. \A t \in Threads : ~Calling(t)' => ~Calling(t)
        BY <1>2, <1>0 DEF BuildForest, Calling, Types
    <2> QED BY <1>0, <2>1, <2>2 DEF RestTyped
<1>3. CASE UNCHANGED vars
    BY <1>3, <1>0 DEF vars, loop, call, RestTyped, Calling
<1>4. ASSUME NEW t \in Threads, Find(t) \/ AddEdges(t) \/ Connected(t)
      PROVE  RestTyped'
    <2>1. team' = team /\ \A u \in Threads \ {t} : SameLocals(u)
        BY <1>0, <1>4, OthersStay
    <2>2. block' = block
        BY <1>4 DEF Find, AddEdges, Unite, Connected, Follow, FindRoot, Compress, TakeEdge, SameTree,
            Link, LinkFails, Raise, Reserve, StoreEdge, Stored, AskConnected, AnswerTrue, AnswerFalse,
            AskAgain, loop
    <2>3. ASSUME ~Calling(t)' PROVE a'[t] = NoEdge
        <3>1. ASSUME NEW to, Return(t, to)
              PROVE  a'[t] = NoEdge
            BY <3>1, <1>0 DEF Return, Types
        <3>2. ASSUME NEW root, Found(t, root)
              PROVE  Calling(t)'
            BY <3>2, <1>0 DEF Found, Types, Calling
        <3>3. CASE Find(t)
            BY <3>2, <3>3, <2>3, <1>0 DEF Find, Follow, FindRoot, Compress, Types, Calling
        <3>4. CASE TakeEdge(t) \/ AskConnected(t)
            BY <3>4, <2>3, <1>0 DEF TakeEdge, AskConnected, Call, Goto, Types, Calling
        <3>5. CASE SameTree(t) \/ Raise(t) \/ AnswerTrue(t) \/ AnswerFalse(t)
            BY <3>1, <3>5 DEF SameTree, Raise, AnswerTrue, AnswerFalse
        <3>6. CASE LinkFails(t) \/ AskAgain(t)
            BY <3>6, <2>3, <1>0 DEF LinkFails, AskAgain, Retry, Types, Calling
        <3>7. CASE Link(t)
            <4>1. pc' = [pc EXCEPT ![t] = "raise"] \/ Return(t, "loop")
                BY <3>7 DEF Link
            <4> QED BY <3>1, <4>1, <2>3, <1>0 DEF Types, Calling
        <3>8. CASE Reserve(t) \/ StoreEdge(t) \/ Stored(t)
            BY <3>8, <1>0 DEF Reserve, StoreEdge, Stored, Goto, call, RestTyped, Calling
        <3> QED BY <1>4, <3>3, <3>4, <3>5, <3>6, <3>7, <3>8 DEF AddEdges, Unite, Connected
    <2>4. \A u \in Threads \ {t} : ~Calling(u)' => a'[u] = NoEdge
        BY <1>0, <2>1 DEF SameLocals, RestTyped, Calling
    <2> QED BY <1>0, <2>1, <2>2, <2>3, <2>4 DEF RestTyped
<1> QED BY <1>1, <1>2, <1>3, <1>4 DEF Next

LEMMA InitBuilt == Init => BuiltInv
<1> SUFFICES ASSUME Init PROVE BuiltInv
    OBVIOUS
<1>1. StoreInv /\ IInv
    BY InitStorage DEF StoreInv, TreesInv
<1>2. \A v \in Nodes : IsRoot(v) /\ RootOf(v) = v
    <2>1. \A v \in Nodes : IsRoot(v)
        BY DEF Init, FirstRank, IsRoot
    <2> QED BY <2>1, <1>1, RootFacts
<1>3. EdgesSpan
    BY <1>2 DEF EdgesSpan, RootMap
<1>4. ParentsTyped /\ OnlyRootsAreParentless
    BY <1>2 DEF Init, ParentsTyped, OnlyRootsAreParentless
<1>5. RestTyped
    BY ConnectivityAssumption DEF Init, RestTyped
<1> QED BY <1>1, <1>3, <1>4, <1>5 DEF BuiltInv

\* Every step, or none, preserves the invariant.
LEMMA NextBuilt ==
    ASSUME BuiltInv, [Next]_vars
    PROVE  BuiltInv'
BY NextStorage, SpansNext, ParentsNext, RestNext DEF BuiltInv

LEMMA PowersGrow == \A k \in Nat : 2 ^ k \in Nat /\ 2 ^ k >= k + 1
<1> DEFINE S == {k \in Nat : 2 ^ k >= k + 1}
<1>1. 0 \in S
    <2>1. 2 ^ 0 = 1
        OBVIOUS
    <2> QED BY <2>1
<1>2. ASSUME NEW k \in S PROVE k + 1 \in S
    <2> DEFINE c == 2 ^ k
               d == 2 ^ (k + 1)
    <2>1. c \in Nat /\ d = c + c /\ c >= k + 1
        BY PowersOfTwo
    <2> HIDE DEF c, d
    <2>2. d >= (k + 1) + 1 /\ k + 1 \in Nat
        BY <2>1
    <2> QED BY <2>2 DEF d
<1> HIDE DEF S
<1>3. S = Nat
    BY <1>1, <1>2, InductionOverSet DEF S
<1> QED BY <1>3, PowersOfTwo DEF S

\* No rank is larger than the number of nodes, and no node is its own parent.
LEMMA ParentsBounded ==
    ASSUME TreesInv, NEW v \in Nodes
    PROVE  union_find[v] \in (Nodes \ {v}) \cup {-r : r \in 1 .. Cardinality(Nodes)}
<1> DEFINE n == Cardinality(Nodes)
<1>0. Types /\ ParentsOutrank /\ n \in Nat
    BY ConnectivityAssumption, FS_CardinalityType DEF TreesInv, IInv
<1>1. CASE ~IsRoot(v)
    <2>1. union_find[v] \in Nodes /\ Below(v, union_find[v])
        BY <1>0, <1>1, RanksTyped DEF ParentsOutrank
    <2>2. RankOf(v) \in Nat /\ v \in Nat
        BY <1>0, RanksTyped, NodesAreNaturals
    <2>3. union_find[v] # v
        BY <2>1, <2>2 DEF Below
    <2> QED BY <2>1, <2>3
<1>2. CASE IsRoot(v)
    <2> DEFINE r == RankOf(v)
    <2>1. r \in Nat /\ r >= 1 /\ union_find[v] = -r
        BY <1>0, <1>2, RanksTyped
    <2> HIDE DEF r
    <2>2. -union_find[v] - 1 = r - 1 /\ r - 1 \in Nat
        BY <2>1
    <2>3. Cardinality(Tree(v)) >= 2 ^ (-union_find[v] - 1)
        BY <1>2 DEF TreesInv, TreesAsLargeAsRanks, Roots, Tree
    <2> DEFINE c == 2 ^ (r - 1)
    <2>4. c \in Nat /\ c >= (r - 1) + 1 /\ Cardinality(Tree(v)) >= c
        BY <2>2, <2>3, PowersGrow
    <2>5. Cardinality(Tree(v)) <= n /\ Cardinality(Tree(v)) \in Nat
        <3>1. Tree(v) \subseteq Nodes
            BY DEF Tree
        <3> QED BY <3>1, TreesFinite, ConnectivityAssumption, FS_Subset
    <2> HIDE DEF c, n
    <2>6. r \in 1 .. n
        BY <1>0, <2>1, <2>4, <2>5
    <2> QED BY <2>1, <2>6 DEF n
<1> QED BY <1>1, <1>2

LEMMA TypesFollow == BuiltInv => TypeOK
<1> SUFFICES ASSUME BuiltInv PROVE TypeOK
    OBVIOUS
<1>0. StoreInv /\ TreesInv /\ Types /\ CallsTyped /\ RestTyped /\ ParentsTyped /\ StoreTyped
    BY DEF BuiltInv, StoreInv, TreesInv, IInv
<1>1. a \in [Threads -> (Nodes \X Nodes) \cup {NoEdge}]
    <2>1. \A t \in Threads : a[t] \in (Nodes \X Nodes) \cup {NoEdge}
        BY <1>0 DEF TreesInv, IInv, ThreadOK, Called, RestTyped
    <2> QED BY <1>0, <2>1 DEF Types
<1>2. \A v \in Nodes : union_find[v] \in (Nodes \ {v}) \cup {-r : r \in 1 .. Cardinality(Nodes)}
    BY <1>0, ParentsBounded
<1>3. num_filtered_edges \in 0 .. Cardinality(Nodes)
    BY <1>0, CounterBounded
<1>4. rejected \subseteq Nodes \X Nodes
    BY <1>0 DEF StoreInv
<1>5. pc \in [Threads -> {"idle", "loop", "find", "compress", "compare", "raise", "store", "joined"}]
    BY <1>0 DEF Types, Steps
<1> QED BY <1>0, <1>1, <1>2, <1>3, <1>4, <1>5 DEF TypeOK, Types, CallsTyped, RestTyped, ParentsTyped, StoreTyped
-----------------------------------------------------------------------------
\* The invariant holds, for every number of nodes and threads.
THEOREM Invariance == Spec => []IInv
<1>1. IInv /\ [Next]_vars => IInv'
    BY NextIInv
<1> QED BY InitIInv, <1>1, PTL DEF Spec

\* Parents are above their children in the order of ranks and ids: no link and no path
\* compression closes a cycle (dynamic_connectivity.cpp).
THEOREM NoCycles == Spec => []ParentsOutrank
<1>1. IInv => ParentsOutrank
    BY DEF IInv
<1> QED BY Invariance, <1>1, PTL

\* No step makes a root of a node that has been linked, and none lowers a rank: a rank or
\* a root that was loaded is at worst out of date.
THEOREM RanksOnlyGrow == Spec => [][RanksGrow]_vars
<1>1. IInv /\ [Next]_vars => [RanksGrow]_vars
    BY NextIInv
<1> QED BY Invariance, <1>1, PTL DEF Spec

\* What is known of the trees holds however the searches, the compressions, the links and
\* the raises of any number of threads interleave.
THEOREM TreesInvariance == Spec => []TreesInv
<1>1. TreesInv /\ [Next]_vars => TreesInv'
    BY NextTrees
<1> QED BY InitTrees, <1>1, PTL DEF Spec

\* A root of rank r has at least 2^(r - 1) nodes below it, although other links and raises
\* come between the CAS that links and the CAS that raises the rank (dynamic_connectivity.cpp):
\* ranks, and with them the paths without compression, stay logarithmic.
THEOREM RanksAreJustified == Spec => []TreesAsLargeAsRanks
<1>1. TreesInv => TreesAsLargeAsRanks
    BY DEF TreesInv
<1> QED BY TreesInvariance, <1>1, PTL

\* connected() answers true only if its arguments are connected, and false only if they
\* were not when it began, whatever is united and compressed while it searches.
THEOREM AnswersAreRight == Spec => ConnectedAnswersRight
<1>1. TreesInv => [\A t \in Threads :
                     /\ AnswerTrue(t) => RootOf(edge[t][1]) = RootOf(edge[t][2])
                     /\ AnswerFalse(t) => apart[t]]_vars
    BY AnswersRight
<1> QED BY TreesInvariance, <1>1, PTL DEF ConnectedAnswersRight

\* What is known of the kept edges and of their places holds in every reachable state.
THEOREM StorageInvariance == Spec => []StoreInv
<1>1. StoreInv /\ [Next]_vars => StoreInv'
    BY NextStorage
<1> QED BY InitStorage, <1>1, PTL DEF Spec

\* The threads of addEdges store every edge they keep at a place of its own, however their
\* fetch_adds and stores interleave, and the array of n edges is never too small for them:
\* there is an edge for each tree that was joined (dynamic_connectivity.cpp).
THEOREM EdgesStored == Spec => []FilteredEdgesStored
BY StorageInvariance, StoredAtRest, PTL

\* unite() accepts an edge exactly when it joins two trees: what addEdges keeps is a spanning
\* forest of the edges it was called with, although its threads link at the same time.
THEOREM ImplementsForest == Spec => ImplementsSpanningForest
<1>1. StoreInv /\ [Next]_vars => [Forest!ForestNext]_(Forest!forestVars)
    BY ForestSteps
<1> QED BY ForestBegins, <1>1, StorageInvariance, PTL DEF Spec, ImplementsSpanningForest, Forest!ForestSpec

\* What is known of the accepted edges, and of the forest the last addEdges built of them,
\* holds in every reachable state.
THEOREM ForestInvariance == Spec => []BuiltInv
<1>1. BuiltInv /\ [Next]_vars => BuiltInv'
    BY NextBuilt
<1> QED BY InitBuilt, <1>1, PTL DEF Spec

\* After addEdges, parentOf() returns -1 for the roots of the trees and for no other node: the
\* stored edges connect every node to its root (dynamic_connectivity.cpp).
THEOREM RootedForest == Spec => []OnlyRootsAreParentless
<1>1. BuiltInv => OnlyRootsAreParentless
    BY DEF BuiltInv
<1> QED BY ForestInvariance, <1>1, PTL

\* Every variable has its type: no rank is larger than the number of nodes, no node is its
\* own parent, and the counter never passes the end of the array of edges.
THEOREM TypeCorrect == Spec => []TypeOK
BY ForestInvariance, TypesFollow, PTL
=============================================================================

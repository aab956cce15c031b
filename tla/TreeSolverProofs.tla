-------------------------- MODULE TreeSolverProofs --------------------------
(***************************************************************************)
(* Proofs about the three tree solvers, for every tree and every number of *)
(* threads.                                                                *)
(***************************************************************************)
EXTENDS MCTreeSolvers, FiniteSetTheorems, SequenceTheorems, WellFoundedInduction, TLAPS

-----------------------------------------------------------------------------
(* Induction over the natural numbers: every set of them has a least one.  *)

Less == {ss \in Nat \X Nat : ss[1] < ss[2]}

LEMMA LessIsWellFounded == IsWellFoundedOn(Less, Nat)
BY NatLessThanWellFounded DEF OpToRel, Less

\* A nonempty set of natural numbers has a least element.
LEMMA LeastElement ==
    ASSUME NEW S \in SUBSET Nat, S # {}
    PROVE  \E m \in S : \A k \in S : m <= k
<1>2. \E m \in S : \A k \in S : ~(<<k, m>> \in Less)
    BY LessIsWellFounded, WFMin
<1>3. PICK m \in S : \A k \in S : ~(<<k, m>> \in Less)
    BY <1>2
<1>4. \A k \in S : ~(k < m)
    BY <1>3 DEF Less
<1> QED BY <1>4

\* What holds of zero and passes on to the successor holds of every number.
LEMMA InductionOverSet ==
    ASSUME NEW S \in SUBSET Nat, 0 \in S, \A n \in S : n + 1 \in S
    PROVE  S = Nat
<1> SUFFICES ASSUME Nat \ S # {} PROVE FALSE
    OBVIOUS
<1>1. PICK m \in Nat \ S : \A k \in Nat \ S : m <= k
    BY LeastElement
<1>2. m # 0 /\ m - 1 \in Nat /\ (m - 1) + 1 = m
    BY <1>1
<1>3. m - 1 \in S
    BY <1>1, <1>2
<1> QED BY <1>1, <1>2, <1>3

\* How many numbers there are from one to n.
LEMMA FromOne == \A n \in Nat : IsFiniteSet(1 .. n) /\ Cardinality(1 .. n) = n
BY FS_Interval

Unfolds(f, T, b, F, n) == f \in [0 .. n -> T] /\ f[0] = b /\ \A i \in 1 .. n : f[i] = F[f[i - 1]]

\* The function that a base and a step define recursively exists.
LEMMA RecursiveFunction ==
    ASSUME NEW T, NEW b \in T, NEW F \in [T -> T], NEW n \in Nat
    PROVE  \E f : Unfolds(f, T, b, F, n)
<1> DEFINE Good(k) == \E f \in [0 .. k -> T] : f[0] = b /\ \A i \in 1 .. k : f[i] = F[f[i - 1]]
           S == {k \in Nat : Good(k)}
<1>1. 0 \in S
    <2>1. [i \in 0 .. 0 |-> b] \in [0 .. 0 -> T]
        OBVIOUS
    <2>2. [j \in 0 .. 0 |-> b][0] = b /\ 1 .. 0 = {}
        OBVIOUS
    <2> QED BY <2>1, <2>2
<1>2. ASSUME NEW k \in S PROVE k + 1 \in S
    <2>1. PICK f \in [0 .. k -> T] : f[0] = b /\ \A i \in 1 .. k : f[i] = F[f[i - 1]]
        BY <1>2
    <2> DEFINE g == [i \in 0 .. k + 1 |-> IF i = k + 1 THEN F[f[k]] ELSE f[i]]
    <2>2. k \in Nat /\ f[k] \in T /\ F[f[k]] \in T
        BY <2>1
    <2>3. g \in [0 .. k + 1 -> T]
        BY <2>2
    <2>4. ASSUME NEW i \in 1 .. k + 1 PROVE g[i] = F[g[i - 1]]
        <3>1. i - 1 \in 0 .. k + 1 /\ i - 1 # k + 1 /\ g[i - 1] = f[i - 1] /\ (k + 1) - 1 = k
            BY <2>2
        <3>2. CASE i = k + 1
            BY <3>1, <3>2, <2>2
        <3>3. CASE i # k + 1
            <4>1. i \in 1 .. k /\ g[i] = f[i]
                BY <3>3, <2>2
            <4> QED BY <4>1, <3>1, <2>1
        <3> QED BY <3>2, <3>3
    <2>6. g[0] = b
        BY <2>1, <2>2
    <2> HIDE DEF g
    <2>5. Good(k + 1)
        BY <2>3, <2>4, <2>6
    <2> QED BY <2>5, <2>2
<1> HIDE DEF Good
<1>3. S = Nat
    BY <1>1, <1>2, InductionOverSet
<1> QED BY <1>3 DEF Good, Unfolds
-----------------------------------------------------------------------------
(* The tree.                                                               *)

\* The tree and the threads are among the settings, and stay.
TaskTree == \E s \in Settings : crew = s.crew /\ edges = s.tree

\* The nodes in the order in which a worker shares the children of v.
kids(v) == [i \in DOMAIN edges[v] |-> edges[v][i] + 1]

\* What the assumption on the settings says of the threads, the nodes and their parents.
LEMMA TreeFacts ==
    ASSUME TaskTree
    PROVE  /\ size \in Nat /\ size >= 1 /\ Nodes = 0 .. size - 1 /\ IsFiniteSet(Nodes)
           /\ done_task \in Nat /\ size < done_task
           /\ crew \subseteq Threads /\ crew # {} /\ IsFiniteSet(crew)
           /\ IsTree(edges)
<1>1. PICK s \in Settings : crew = s.crew /\ edges = s.tree
    BY DEF TaskTree
<1>2. PICK n \in 1 .. done_task - 1 : Nodes = 0 .. n - 1
    BY <1>1, TreeAssumption DEF FewNodes, Nodes
<1>3. done_task \in Nat /\ n \in Nat /\ n >= 1 /\ n < done_task
    BY TreeAssumption
<1>4. IsFiniteSet(Nodes) /\ size = n
    <2>1. IsFiniteSet(0 .. n - 1) /\ Cardinality(0 .. n - 1) = n
        BY <1>3, FS_Interval
    <2> QED BY <2>1, <1>2 DEF size
<1> QED BY <1>1, <1>2, <1>3, <1>4, TreeAssumption

\* Every node is listed once, by its only parent; the root by nobody.
LEMMA ParentFacts ==
    ASSUME TaskTree
    PROVE  /\ \A v \in Nodes : edges[v] \in Seq(Nodes) /\ parent(v) \subseteq Nodes
           /\ parent(0) = {} /\ \A v \in Nodes : v # 0 => \E u \in Nodes : parent(v) = {u}
           /\ \A u \in Nodes : \A i, j \in DOMAIN edges[u] : edges[u][i] = edges[u][j] => i = j
           /\ \A u, v \in Nodes : u \in parent(v) => parent(v) = {u}
<1>0. IsTree(edges)
    BY TreeFacts
<1>1. \A v \in Nodes : edges[v] \in Seq(Nodes) /\ parent(v) \subseteq Nodes
    BY <1>0 DEF IsTree, Nodes, parent
<1>2. parent(0) = {}
    BY <1>0 DEF IsTree, Nodes, parent
<1>3. ASSUME NEW v \in Nodes, v # 0
      PROVE  \E u \in Nodes : parent(v) = {u} /\ \A i, j \in DOMAIN edges[u] : edges[u][i] = v /\ edges[u][j] = v => i = j
    <2>1. PICK u \in Nodes : ListedOnce(edges, u, v) /\ \A w \in Nodes \ {u} : v \notin Children(edges, w)
        BY <1>0, <1>3 DEF IsTree, Nodes
    <2> DEFINE I == {i \in DOMAIN edges[u] : edges[u][i] = v}
    <2>2. Cardinality(I) = 1 /\ IsFiniteSet(I)
        <3>1. IsFiniteSet(1 .. Len(edges[u])) /\ DOMAIN edges[u] = 1 .. Len(edges[u])
            BY <1>1, FS_Interval
        <3>2. I \subseteq 1 .. Len(edges[u])
            BY <3>1
        <3> QED BY <2>1, <3>1, <3>2, FS_Subset DEF ListedOnce
    <2>3. PICK k : I = {k}
        BY <2>2, FS_Singleton
    <2>4. v \in Children(edges, u)
        BY <2>3 DEF Children
    <2>5. parent(v) = {u}
        BY <2>1, <2>4 DEF parent
    <2> QED BY <2>3, <2>5
<1>4. ASSUME NEW u \in Nodes, NEW i \in DOMAIN edges[u], NEW j \in DOMAIN edges[u], edges[u][i] = edges[u][j]
      PROVE  i = j
    <2>1. PICK v \in Nodes : v = edges[u][i]
        BY <1>1
    <2>2. u \in parent(v)
        BY <2>1 DEF parent, Children
    <2>3. v # 0
        BY <2>2, <1>2
    <2>4. PICK w \in Nodes : parent(v) = {w} /\ \A k, l \in DOMAIN edges[w] : edges[w][k] = v /\ edges[w][l] = v => k = l
        BY <1>3, <2>3
    <2> QED BY <2>1, <2>2, <2>4, <1>4
<1>5. ASSUME NEW u \in Nodes, NEW v \in Nodes, u \in parent(v) PROVE parent(v) = {u}
    <2>1. v # 0
        BY <1>5, <1>2
    <2> QED BY <2>1, <1>3, <1>5
<1> QED BY <1>1, <1>2, <1>3, <1>4, <1>5

\* Among some nodes there is always one whose parent is not among them: the tree has
\* no cycle.  The layers of ReachableFrom avoid every set of nodes that has no such node.
LEMMA TopOfNodes ==
    ASSUME TaskTree, NEW U \in SUBSET Nodes, U # {}
    PROVE  \E v \in U : \A p \in parent(v) : p \notin U
<1> SUFFICES ASSUME \A v \in U : \E p \in parent(v) : p \in U PROVE FALSE
    OBVIOUS
<1> DEFINE g == [v \in Nodes |-> Children(edges, v)]
           n == Cardinality(DOMAIN g)
           F == [X \in SUBSET Nodes |-> X \cup UNION {g[u] : u \in X}]
           Layers(f) == f = [i \in 0 .. n |-> IF i = 0 THEN g[0] ELSE f[i - 1] \cup UNION {g[u] : u \in f[i - 1]}]
           layer == CHOOSE f : Layers(f)
<1>1. n \in Nat /\ 0 \in Nodes /\ g[0] = Children(edges, 0)
    BY TreeFacts DEF size
<1>2. \A v \in Nodes : g[v] \in SUBSET Nodes
    BY ParentFacts DEF Children
<1>3. F \in [SUBSET Nodes -> SUBSET Nodes]
    BY <1>2
<1>base. g[0] \in SUBSET Nodes
    BY <1>1, <1>2
<1> HIDE DEF g, n, F
<1>4. PICK f \in [0 .. n -> SUBSET Nodes] : f[0] = g[0] /\ \A i \in 1 .. n : f[i] = F[f[i - 1]]
    <2> DEFINE T == SUBSET Nodes
               b == g[0]
    <2>1. b \in T /\ F \in [T -> T] /\ n \in Nat
        BY <1>1, <1>3, <1>base
    <2> HIDE DEF T, b
    <2>2. \E f : Unfolds(f, T, b, F, n)
        BY <2>1, RecursiveFunction
    <2> QED BY <2>2 DEF T, b, Unfolds
<1>5. Layers(f)
    <2>1. \A i \in 1 .. n : i - 1 \in 0 .. n /\ f[i - 1] \in SUBSET Nodes
        BY <1>1, <1>4
    <2>2. \A i \in 1 .. n : F[f[i - 1]] = f[i - 1] \cup UNION {g[u] : u \in f[i - 1]}
        BY <2>1 DEF F
    <2>3. \A i \in 0 .. n : i # 0 => i \in 1 .. n
        BY <1>1
    <2> QED BY <1>4, <2>2, <2>3
<1>6. Layers(layer)
    BY <1>5
<1>7. ReachableFrom(g, 0) = layer[n]
    BY DEF ReachableFrom, n
<1> HIDE DEF layer
<1>8. DOMAIN g = Nodes /\ ReachableFrom(g, 0) = Nodes \ {0}
    BY TreeFacts DEF IsTree, IsTaskGraph, g, Nodes
<1>9. 0 \notin U
    BY ParentFacts
<1>10. \A u \in Nodes : g[u] \cap U # {} => u \in U
    BY ParentFacts DEF g, parent
<1>11. /\ layer[0] = g[0]
       /\ \A i \in 0 .. n : i # 0 => layer[i] = layer[i - 1] \cup UNION {g[u] : u \in layer[i - 1]}
    BY <1>1, <1>6
<1> DEFINE S == {i \in Nat : i <= n => layer[i] \subseteq Nodes \ U}
<1>12. 0 \in S
    BY <1>1, <1>2, <1>9, <1>10, <1>11
<1>13. ASSUME NEW i \in S PROVE i + 1 \in S
    <2>1. i \in Nat /\ i + 1 # 0 /\ (i + 1) - 1 = i
        OBVIOUS
    <2> SUFFICES ASSUME i + 1 <= n PROVE layer[i + 1] \subseteq Nodes \ U
        BY <2>1
    <2>2. i <= n /\ i + 1 \in 0 .. n
        BY <1>1, <2>1
    <2>3. layer[i] \subseteq Nodes \ U
        BY <2>2
    <2>4. layer[i + 1] = layer[i] \cup UNION {g[u] : u \in layer[i]}
        BY <2>1, <2>2, <1>11
    <2>5. \A u \in layer[i] : g[u] \subseteq Nodes \ U
        BY <2>3, <1>2, <1>10
    <2> QED BY <2>3, <2>4, <2>5
<1> HIDE DEF S
<1>14. S = Nat
    BY <1>12, <1>13, InductionOverSet DEF S
<1>15. layer[n] \subseteq Nodes \ U
    BY <1>1, <1>14 DEF S
<1> QED BY <1>7, <1>8, <1>9, <1>15
-----------------------------------------------------------------------------
(* Queues of nodes and done_tasks.                                         *)

In(e, q) == \E i \in DOMAIN q : q[i] = e
Once(q) == \A i, j \in DOMAIN q : q[i] = q[j] /\ q[i] # done_task => i = j

\* The places at which a queue holds a done_task.
DonePlaces(q) == {i \in DOMAIN q : q[i] = done_task}
Dones(q) == Cardinality(DonePlaces(q))

\* The empty sequence.
LEMMA EmptyHasNothing == Once(<<>>) /\ (\A e : ~In(e, <<>>)) /\ Dones(<<>>) = 0
BY FS_EmptySet DEF Once, In, Dones, DonePlaces

\* What is in a sequence is one of its elements, and there are as many places as that.
LEMMA SequenceFacts ==
    ASSUME NEW S, NEW q \in Seq(S)
    PROVE  /\ Len(q) \in Nat /\ DOMAIN q = 1 .. Len(q) /\ (q # <<>> <=> Len(q) >= 1)
           /\ Dones(q) \in 0 .. Len(q) /\ IsFiniteSet(DonePlaces(q))
           /\ \A e : In(e, q) => e \in S /\ q # <<>>
<1>1. Len(q) \in Nat /\ DOMAIN q = 1 .. Len(q) /\ (q # <<>> <=> Len(q) >= 1)
    BY EmptySeq, LenProperties
<1>2. IsFiniteSet(1 .. Len(q)) /\ Cardinality(1 .. Len(q)) = Len(q)
    BY <1>1, FromOne
<1>3. DonePlaces(q) \subseteq 1 .. Len(q)
    BY <1>1 DEF DonePlaces
<1>4. IsFiniteSet(DonePlaces(q)) /\ Dones(q) \in Nat /\ Dones(q) <= Len(q)
    BY <1>2, <1>3, FS_Subset, FS_CardinalityType DEF Dones
<1> QED BY <1>1, <1>4 DEF In

\* Taking out the head.
LEMMA HeadTaken ==
    ASSUME NEW S, NEW q \in Seq(S), q # <<>>, Once(q)
    PROVE  /\ Head(q) \in S /\ In(Head(q), q)
           /\ Tail(q) \in Seq(S) /\ Len(Tail(q)) = Len(q) - 1
           /\ Once(Tail(q))
           /\ \A e : In(e, q) <=> In(e, Tail(q)) \/ e = Head(q)
           /\ Head(q) # done_task => ~In(Head(q), Tail(q))
<1>1. /\ Len(q) \in Nat /\ Len(q) >= 1 /\ DOMAIN q = 1 .. Len(q)
      /\ Head(q) = q[1] /\ Head(q) \in S
    BY HeadTailProperties, LenProperties
<1>2. /\ Tail(q) \in Seq(S) /\ Len(Tail(q)) = Len(q) - 1
      /\ DOMAIN Tail(q) = 1 .. Len(q) - 1
      /\ \A i \in 1 .. Len(q) - 1 : Tail(q)[i] = q[i + 1]
    BY HeadTailProperties
<1> DEFINE k == Len(q)
           h == Head(q)
           r == Tail(q)
<1> HIDE DEF k, h, r
<1>3. k \in Nat /\ k >= 1 /\ DOMAIN q = 1 .. k /\ h = q[1] /\ DOMAIN r = 1 .. k - 1 /\ \A i \in 1 .. k - 1 : r[i] = q[i + 1]
    BY <1>1, <1>2 DEF k, h, r
<1>4. \A i \in DOMAIN r : i + 1 \in DOMAIN q /\ i + 1 # 1 /\ r[i] = q[i + 1]
    BY <1>3
<1>5. \A i \in DOMAIN q : i = 1 \/ (i - 1 \in DOMAIN r /\ r[i - 1] = q[i])
    BY <1>3
<1>6. 1 \in DOMAIN q
    BY <1>3
<1>7. In(h, q)
    BY <1>3, <1>6 DEF In
<1>8. Once(r)
    <2> SUFFICES ASSUME NEW i \in DOMAIN r, NEW j \in DOMAIN r, r[i] = r[j], r[i] # done_task
                 PROVE  i = j
        BY DEF Once
    <2>1. i + 1 = j + 1
        BY <1>4 DEF Once
    <2> QED BY <2>1, <1>3
<1>9. \A e : In(e, q) <=> In(e, r) \/ e = h
    BY <1>3, <1>4, <1>5, <1>6 DEF In
<1>10. h # done_task => ~In(h, r)
    <2> SUFFICES ASSUME h # done_task, NEW i \in DOMAIN r, r[i] = h PROVE FALSE
        BY DEF In
    <2> QED BY <1>3, <1>4, <1>6 DEF Once
<1> QED BY <1>1, <1>2, <1>7, <1>8, <1>9, <1>10 DEF k, h, r

\* The done_tasks that are left when the head is taken out.
LEMMA HeadCounted ==
    ASSUME NEW S, NEW q \in Seq(S), q # <<>>
    PROVE  Dones(Tail(q)) = IF Head(q) = done_task THEN Dones(q) - 1 ELSE Dones(q)
<1>1. /\ Len(q) \in Nat /\ Len(q) >= 1 /\ DOMAIN q = 1 .. Len(q) /\ Head(q) = q[1]
      /\ DOMAIN Tail(q) = 1 .. Len(q) - 1 /\ \A i \in 1 .. Len(q) - 1 : Tail(q)[i] = q[i + 1]
    BY HeadTailProperties, LenProperties
<1> DEFINE k == Len(q)
           r == Tail(q)
           T == DonePlaces(q) \ {1}
           f == [i \in DonePlaces(r) |-> i + 1]
<1>2. \A i \in DonePlaces(r) : i \in Int /\ i + 1 \in T
    BY <1>1 DEF DonePlaces
<1>3. \A j \in T : j - 1 \in DonePlaces(r) /\ (j - 1) + 1 = j
    BY <1>1 DEF DonePlaces
<1>4. f \in Bijection(DonePlaces(r), T)
    <2>1. f \in Injection(DonePlaces(r), T)
        BY <1>2 DEF Injection, IsInjective
    <2>2. f \in Surjection(DonePlaces(r), T)
        BY <1>2, <1>3 DEF Surjection
    <2> QED BY <2>1, <2>2 DEF Bijection
<1>5. IsFiniteSet(DonePlaces(q)) /\ Dones(q) \in Nat
    BY SequenceFacts
<1>6. IsFiniteSet(T) /\ Cardinality(T) = IF 1 \in DonePlaces(q) THEN Dones(q) - 1 ELSE Dones(q)
    BY <1>5, FS_RemoveElement DEF Dones
<1>7. IsFiniteSet(DonePlaces(r))
    <2>1. r \in Seq(S)
        BY HeadTailProperties
    <2> QED BY <2>1, SequenceFacts
<1>8. Cardinality(DonePlaces(r)) = Cardinality(T)
    BY <1>4, <1>6, <1>7, FS_Bijection DEF ExistsBijection
<1>9. 1 \in DonePlaces(q) <=> Head(q) = done_task
    BY <1>1 DEF DonePlaces
<1> QED BY <1>6, <1>8, <1>9 DEF Dones

\* Appending what is not a node or not there.
LEMMA ElementAppended ==
    ASSUME NEW S, NEW q \in Seq(S), NEW e \in S, Once(q), e # done_task => ~In(e, q)
    PROVE  /\ Append(q, e) \in Seq(S) /\ Len(Append(q, e)) = Len(q) + 1
           /\ Once(Append(q, e))
           /\ \A f : In(f, Append(q, e)) <=> In(f, q) \/ f = e
<1> DEFINE r == Append(q, e)
           k == Len(q)
<1>1. /\ k \in Nat /\ DOMAIN q = 1 .. k
      /\ r \in Seq(S) /\ Len(r) = k + 1 /\ DOMAIN r = 1 .. k + 1
      /\ \A i \in 1 .. k : r[i] = q[i]
      /\ r[k + 1] = e
    BY AppendProperties
<1> HIDE DEF r, k
<1>2. \A i \in DOMAIN r : (i \in DOMAIN q /\ r[i] = q[i]) \/ (i = k + 1 /\ r[i] = e)
    BY <1>1
<1>3. \A i \in DOMAIN q : i \in DOMAIN r /\ r[i] = q[i] /\ i # k + 1
    BY <1>1
<1>4. k + 1 \in DOMAIN r
    BY <1>1
<1>5. \A f : In(f, r) <=> In(f, q) \/ f = e
    BY <1>1, <1>2, <1>3, <1>4 DEF In
<1>6. Once(r)
    BY <1>2 DEF Once, In
<1> QED BY <1>1, <1>5, <1>6 DEF r, k

\* The done_tasks after an append.
LEMMA ElementCounted ==
    ASSUME NEW S, NEW q \in Seq(S), NEW e \in S
    PROVE  Dones(Append(q, e)) = IF e = done_task THEN Dones(q) + 1 ELSE Dones(q)
<1> DEFINE r == Append(q, e)
           k == Len(q)
<1>1. /\ k \in Nat /\ DOMAIN q = 1 .. k /\ DOMAIN r = 1 .. k + 1
      /\ \A i \in 1 .. k : r[i] = q[i]
      /\ r[k + 1] = e
    BY AppendProperties
<1>2. IsFiniteSet(DonePlaces(q)) /\ Dones(q) \in Nat
    BY SequenceFacts
<1> HIDE DEF r, k
<1>3. k + 1 \notin DonePlaces(q)
    BY <1>1 DEF DonePlaces
<1>4. CASE e = done_task
    <2>1. DonePlaces(r) = DonePlaces(q) \cup {k + 1}
        BY <1>1, <1>4 DEF DonePlaces
    <2>2. Cardinality(DonePlaces(r)) = Cardinality(DonePlaces(q)) + 1
        BY <2>1, <1>2, <1>3, FS_AddElement
    <2> QED BY <2>2, <1>4 DEF Dones, r
<1>5. CASE e # done_task
    <2>1. DonePlaces(r) = DonePlaces(q)
        BY <1>1, <1>5 DEF DonePlaces
    <2> QED BY <2>1, <1>5 DEF Dones, r
<1> QED BY <1>4, <1>5
\* Two sequences that have nothing in common, one after the other.
LEMMA SequencesJoined ==
    ASSUME NEW S, NEW q \in Seq(S), NEW r \in Seq(S), Once(q), Once(r),
           \A e : In(e, q) /\ In(e, r) => e = done_task
    PROVE  /\ q \o r \in Seq(S) /\ Len(q \o r) = Len(q) + Len(r)
           /\ Once(q \o r)
           /\ \A e : In(e, q \o r) <=> In(e, q) \/ In(e, r)
<1> DEFINE s == q \o r
           k == Len(q)
           l == Len(r)
<1>1. /\ k \in Nat /\ l \in Nat /\ DOMAIN q = 1 .. k /\ DOMAIN r = 1 .. l
      /\ s \in Seq(S) /\ Len(s) = k + l /\ DOMAIN s = 1 .. k + l
      /\ \A i \in 1 .. k + l : s[i] = IF i <= k THEN q[i] ELSE r[i - k]
    BY ConcatProperties, LenProperties
<1> HIDE DEF s, k, l
<1>2. \A i \in DOMAIN s : (i \in DOMAIN q /\ s[i] = q[i]) \/ (i - k \in DOMAIN r /\ s[i] = r[i - k] /\ i \in Int)
    BY <1>1
<1>3. \A i \in DOMAIN q : i \in DOMAIN s /\ s[i] = q[i]
    BY <1>1
<1>4. \A i \in DOMAIN r : i + k \in DOMAIN s /\ s[i + k] = r[i]
    BY <1>1
<1>5. \A e : In(e, s) <=> In(e, q) \/ In(e, r)
    BY <1>2, <1>3, <1>4 DEF In
<1>6. Once(s)
    <2> SUFFICES ASSUME NEW i \in DOMAIN s, NEW j \in DOMAIN s, s[i] = s[j], s[i] # done_task
                 PROVE  i = j
        BY DEF Once
    <2>1. CASE i \in DOMAIN q /\ s[i] = q[i]
        <3>1. j \in DOMAIN q /\ s[j] = q[j]
            BY <2>1, <1>2 DEF In
        <3> QED BY <2>1, <3>1 DEF Once
    <2>2. CASE i - k \in DOMAIN r /\ s[i] = r[i - k]
        <3>1. j - k \in DOMAIN r /\ s[j] = r[j - k]
            BY <2>2, <1>2 DEF In
        <3>2. i - k = j - k
            BY <2>2, <3>1 DEF Once
        <3> QED BY <3>2, <1>1
    <2> QED BY <2>1, <2>2, <1>2
<1> QED BY <1>1, <1>5, <1>6 DEF s, k, l

\* A sequence cut in two.
LEMMA SequenceCut ==
    ASSUME NEW S, NEW q \in Seq(S), Once(q), NEW n \in 0 .. Len(q)
    PROVE  /\ SubSeq(q, 1, n) \in Seq(S) /\ SubSeq(q, n + 1, Len(q)) \in Seq(S)
           /\ Len(SubSeq(q, 1, n)) = n /\ Len(SubSeq(q, n + 1, Len(q))) = Len(q) - n
           /\ Once(SubSeq(q, 1, n)) /\ Once(SubSeq(q, n + 1, Len(q)))
           /\ \A e : In(e, q) <=> In(e, SubSeq(q, 1, n)) \/ In(e, SubSeq(q, n + 1, Len(q)))
           /\ \A e : In(e, SubSeq(q, 1, n)) /\ In(e, SubSeq(q, n + 1, Len(q))) => e = done_task
<1> DEFINE k == Len(q)
           a == SubSeq(q, 1, n)
           b == SubSeq(q, n + 1, k)
<1>0. k \in Nat /\ DOMAIN q = 1 .. k /\ \A i \in 1 .. k : q[i] \in S
    BY LenProperties, ElementOfSeq
<1>1. a \in Seq(S) /\ Len(a) = n /\ DOMAIN a = 1 .. n /\ \A i \in 1 .. n : a[i] = q[i]
    <2>1. \A i \in 1 .. n : q[i] \in S
        BY <1>0
    <2> QED BY <1>0, <2>1, SubSeqProperties
<1>2. b \in Seq(S) /\ Len(b) = k - n /\ DOMAIN b = 1 .. k - n /\ \A i \in 1 .. k - n : b[i] = q[n + i]
    <2>1. \A i \in n + 1 .. k : q[i] \in S
        BY <1>0
    <2>2. /\ b \in Seq(S) /\ Len(b) = IF n + 1 <= k THEN k - (n + 1) + 1 ELSE 0
          /\ \A i \in 1 .. k - (n + 1) + 1 : b[i] = q[n + 1 + i - 1]
        BY <1>0, <2>1, SubSeqProperties
    <2>k. k \in Nat /\ n \in 0 .. k
        BY <1>0
    <2> HIDE DEF k, b
    <2>3. Len(b) = k - n
        BY <2>2, <2>k
    <2>4. DOMAIN b = 1 .. k - n
        BY <2>2, <2>3, LenProperties
    <2>5. \A i \in 1 .. k - n : b[i] = q[n + i]
        BY <2>2, <2>k
    <2> QED BY <2>2, <2>3, <2>4, <2>5
<1> HIDE DEF k, a, b
<1>k. k = Len(q) /\ n \in 0 .. k
    BY DEF k
<1>3. \A i \in DOMAIN a : i \in DOMAIN q /\ i <= n /\ a[i] = q[i]
    BY <1>0, <1>1, <1>k
<1>4. \A i \in DOMAIN b : i \in Int /\ n + i \in DOMAIN q /\ n + i > n /\ b[i] = q[n + i]
    BY <1>0, <1>2, <1>k
<1>5. \A i \in DOMAIN q : (i \in DOMAIN a /\ a[i] = q[i]) \/ (i - n \in DOMAIN b /\ b[i - n] = q[i])
    BY <1>0, <1>1, <1>2, <1>k
<1>6. \A e : In(e, q) <=> In(e, a) \/ In(e, b)
    BY <1>3, <1>4, <1>5 DEF In
<1>7. Once(a)
    BY <1>3 DEF Once
<1>8. Once(b)
    <2> SUFFICES ASSUME NEW i \in DOMAIN b, NEW j \in DOMAIN b, b[i] = b[j], b[i] # done_task PROVE i = j
        BY DEF Once
    <2>1. n + i = n + j
        BY <1>4 DEF Once
    <2> QED BY <2>1, <1>4, <1>k
<1>9. ASSUME NEW e, In(e, a), In(e, b) PROVE e = done_task
    <2>1. PICK i \in DOMAIN a : a[i] = e
        BY <1>9 DEF In
    <2>2. PICK j \in DOMAIN b : b[j] = e
        BY <1>9 DEF In
    <2>3. i \in DOMAIN q /\ n + j \in DOMAIN q /\ i # n + j /\ q[i] = e /\ q[n + j] = e
        BY <2>1, <2>2, <1>0, <1>3, <1>4, <1>k
    <2> QED BY <2>3 DEF Once
<1> QED BY <1>1, <1>2, <1>6, <1>7, <1>8, <1>9 DEF a, b, k

\* The children of a node, ready to be pushed.
LEMMA KidsFacts ==
    ASSUME TaskTree, NEW c \in Nodes
    PROVE  /\ kids(c) \in Seq(1 .. size) /\ Len(kids(c)) = Len(edges[c]) /\ Once(kids(c))
           /\ ~In(done_task, kids(c))
           /\ \A v \in Nodes : In(v + 1, kids(c)) <=> c \in parent(v)
<1>1. edges[c] \in Seq(Nodes) /\ size \in Nat /\ Nodes = 0 .. size - 1 /\ size < done_task /\ done_task \in Nat
    BY TreeFacts, ParentFacts
<1>2. DOMAIN edges[c] = 1 .. Len(edges[c]) /\ Len(edges[c]) \in Nat /\ \A i \in DOMAIN edges[c] : edges[c][i] \in Nodes
    BY <1>1
<1>3. DOMAIN kids(c) = DOMAIN edges[c] /\ \A i \in DOMAIN edges[c] : kids(c)[i] = edges[c][i] + 1
    BY DEF kids
<1>4. kids(c) \in Seq(1 .. size)
    <2>0. \A v \in Nodes : v + 1 \in 1 .. size
        BY <1>1
    <2>1. \A i \in 1 .. Len(edges[c]) : kids(c)[i] \in 1 .. size
        BY <2>0, <1>2, <1>3
    <2>2. kids(c) \in [1 .. Len(edges[c]) -> 1 .. size]
        BY <2>1, <1>2 DEF kids
    <2> QED BY <2>2, <1>2, SeqDef
<1>5. Len(kids(c)) = Len(edges[c])
    <2>1. Len(kids(c)) \in Nat /\ DOMAIN kids(c) = 1 .. Len(kids(c))
        BY <1>4, LenProperties
    <2> DEFINE k == Len(kids(c))
               l == Len(edges[c])
    <2>2. k \in Nat /\ l \in Nat /\ 1 .. k = 1 .. l
        BY <2>1, <1>2, <1>3
    <2> HIDE DEF k, l
    <2>3. k = l
        BY <2>2
    <2> QED BY <2>3 DEF k, l
<1>6. \A i, j \in DOMAIN edges[c] : edges[c][i] + 1 = edges[c][j] + 1 => i = j
    <2>1. \A i, j \in DOMAIN edges[c] : edges[c][i] = edges[c][j] => i = j
        BY ParentFacts
    <2>2. \A i \in DOMAIN edges[c] : edges[c][i] \in Int
        BY <1>1, <1>2
    <2> QED BY <2>1, <2>2
<1>7. Once(kids(c))
    BY <1>3, <1>6 DEF Once
<1>8. ~In(done_task, kids(c))
    BY <1>1, <1>2, <1>3 DEF In
<1>9. ASSUME NEW v \in Nodes PROVE In(v + 1, kids(c)) <=> c \in parent(v)
    <2>1. c \in parent(v) <=> \E i \in DOMAIN edges[c] : edges[c][i] = v
        BY DEF parent, Children
    <2>2. \A i \in DOMAIN edges[c] : edges[c][i] + 1 = v + 1 <=> edges[c][i] = v
        BY <1>1, <1>2
    <2> QED BY <2>1, <2>2, <1>3 DEF In
<1> QED BY <1>4, <1>5, <1>7, <1>8, <1>9
-----------------------------------------------------------------------------
(* Counting threads and nodes.                                             *)

\* Sets of the solver's threads.
LEMMA ThreadsCounted ==
    ASSUME TaskTree, NEW X \in SUBSET crew
    PROVE  /\ IsFiniteSet(X) /\ Cardinality(X) \in 0 .. Cardinality(crew) /\ Cardinality(crew) \in Nat
           /\ \A t \in X : Cardinality(X) >= 1 /\ Cardinality(X \ {t}) = Cardinality(X) - 1
           /\ \A t \in crew \ X : Cardinality(X \cup {t}) = Cardinality(X) + 1
           /\ (Cardinality(X) = Cardinality(crew) => X = crew)
<1>1. IsFiniteSet(crew)
    BY TreeFacts
<1>2. IsFiniteSet(X) /\ Cardinality(X) \in Nat /\ Cardinality(crew) \in Nat /\ Cardinality(X) <= Cardinality(crew)
    BY <1>1, FS_Subset, FS_CardinalityType
<1>3. \A t \in X : Cardinality(X \ {t}) = Cardinality(X) - 1
    BY <1>2, FS_RemoveElement
<1>4. \A t \in crew \ X : Cardinality(X \cup {t}) = Cardinality(X) + 1
    BY <1>2, FS_AddElement
<1>5. \A t \in X : Cardinality(X) >= 1
    <2> SUFFICES ASSUME NEW t \in X PROVE Cardinality(X) >= 1
        OBVIOUS
    <2>1. Cardinality(X \ {t}) \in Nat
        BY <1>2, FS_RemoveElement, FS_CardinalityType
    <2> QED BY <2>1, <1>2, <1>3
<1>6. Cardinality(X) = Cardinality(crew) => X = crew
    BY <1>1, FS_Subset
<1> QED BY <1>2, <1>3, <1>4, <1>5, <1>6

\* Sets of nodes.
LEMMA NodesCounted ==
    ASSUME TaskTree, NEW X \in SUBSET Nodes
    PROVE  /\ IsFiniteSet(X) /\ Cardinality(X) \in 0 .. size /\ size \in Nat
           /\ \A v \in X : Cardinality(X) >= 1 /\ Cardinality(X \ {v}) = Cardinality(X) - 1
           /\ \A v \in Nodes \ X : Cardinality(X \cup {v}) = Cardinality(X) + 1
           /\ (Cardinality(X) = size => X = Nodes)
<1>1. IsFiniteSet(Nodes) /\ size \in Nat
    BY TreeFacts
<1>2. IsFiniteSet(X) /\ Cardinality(X) \in Nat /\ Cardinality(X) <= size
    BY <1>1, FS_Subset, FS_CardinalityType DEF size
<1>3. \A v \in X : Cardinality(X \ {v}) = Cardinality(X) - 1
    BY <1>2, FS_RemoveElement
<1>4. \A v \in Nodes \ X : Cardinality(X \cup {v}) = Cardinality(X) + 1
    BY <1>2, FS_AddElement
<1>5. \A v \in X : Cardinality(X) >= 1
    <2> SUFFICES ASSUME NEW v \in X PROVE Cardinality(X) >= 1
        OBVIOUS
    <2>1. Cardinality(X \ {v}) \in Nat
        BY <1>2, FS_RemoveElement, FS_CardinalityType
    <2> QED BY <2>1, <1>2, <1>3
<1>6. Cardinality(X) = size => X = Nodes
    BY <1>1, FS_Subset DEF size
<1> QED BY <1>1, <1>2, <1>3, <1>4, <1>5, <1>6

-----------------------------------------------------------------------------
(* What all solvers have in common: the nodes that can be worked on.       *)

\* A node that is not done and whose parent is.
Ready(v) == ~done[v] /\ \A p \in parent(v) : done[p]
Worked == {v \in Nodes : done[v]}

\* What is done has been ready.
WorkedOK == done \in [Nodes -> BOOLEAN] /\ \A v \in Nodes : done[v] => \A p \in parent(v) : done[p]

\* A thread that notify_one, or a wakeup of its own, will bring to the queue.
Attending == {t \in crew : pc[t] = "notify" \/ (pc[t] = "pop" /\ t \notin waiting)}

\* The waiters are in pop(), and there is somebody for every element they wait for.
Attended ==
    /\ \A t \in waiting : t \in crew /\ pc[t] = "pop"
    /\ waiting # {} => Len(m_queue) <= Cardinality(Attending)

\* As long as some node is not done, one can be worked on.
LEMMA SomeReady ==
    ASSUME TaskTree, \E v \in Nodes : ~done[v]
    PROVE  \E v \in Nodes : Ready(v)
<1> DEFINE U == {v \in Nodes : ~done[v]}
<1>1. PICK v \in U : \A p \in parent(v) : p \notin U
    BY TopOfNodes
<1>2. parent(v) \subseteq Nodes
    BY ParentFacts
<1> QED BY <1>1, <1>2 DEF Ready

\* When a node becomes done, its children become ready, and it is not ready any more.
LEMMA NodeDone ==
    ASSUME TaskTree, WorkedOK, NEW c \in Nodes, Ready(c),
           done' = [done EXCEPT ![c] = TRUE], UNCHANGED edges
    PROVE  /\ \A v \in Nodes : Ready(v)' <=> (v # c /\ Ready(v)) \/ c \in parent(v)
           /\ \A v \in Nodes : c \in parent(v) => ~Ready(v) /\ v # c
           /\ Worked' = Worked \cup {c} /\ Cardinality(Worked') = Cardinality(Worked) + 1
           /\ WorkedOK'
<1>1. done'[c] = TRUE /\ \A v \in Nodes \ {c} : done'[v] = done[v]
    BY DEF WorkedOK
<1>n. /\ Nodes' = Nodes /\ \A v : parent(v)' = parent(v)
      /\ \A v \in Nodes : parent(v) \subseteq Nodes
    BY ParentFacts DEF Nodes, parent
<1>2. ASSUME NEW v \in Nodes, c \in parent(v) PROVE parent(v) = {c} /\ ~Ready(v) /\ ~done[v] /\ v # c
    BY <1>2, ParentFacts DEF Ready, WorkedOK
<1>3. ASSUME NEW v \in Nodes PROVE Ready(v)' <=> (v # c /\ Ready(v)) \/ c \in parent(v)
    <2>1. CASE c \in parent(v)
        BY <2>1, <1>1, <1>2, <1>n DEF Ready
    <2>2. CASE c \notin parent(v) /\ v # c
        BY <2>2, <1>1, <1>n DEF Ready
    <2>3. CASE v = c
        BY <2>3, <1>1, <1>2, <1>n DEF Ready
    <2> QED BY <2>1, <2>2, <2>3
<1>4. Worked' = Worked \cup {c} /\ c \in Nodes \ Worked
    BY <1>1, <1>n DEF Worked, Ready
<1>5. Cardinality(Worked') = Cardinality(Worked) + 1
    <2>1. Worked \in SUBSET Nodes
        BY DEF Worked
    <2> QED BY <2>1, <1>4, NodesCounted
<1>6. WorkedOK'
    <2>1. done' \in [Nodes -> BOOLEAN]
        BY DEF WorkedOK
    <2> QED BY <2>1, <1>1, <1>2, <1>n DEF WorkedOK, Ready
<1> QED BY <1>2, <1>3, <1>4, <1>5, <1>6

\* What a step that leaves the tree and the threads alone leaves alone with it.
LEMMA TreeKept ==
    ASSUME TaskTree, UNCHANGED <<crew, edges>>
    PROVE  /\ TaskTree' /\ Nodes' = Nodes /\ size' = size /\ Cardinality(crew)' = Cardinality(crew)
           /\ \A v : parent(v)' = parent(v) /\ kids(v)' = kids(v)
           /\ (UNCHANGED done => Worked' = Worked /\ (WorkedOK => WorkedOK') /\ \A v : Ready(v)' <=> Ready(v))
<1>1. Nodes' = Nodes /\ size' = size /\ Cardinality(crew)' = Cardinality(crew)
    BY DEF Nodes, size
<1>2. \A v : parent(v)' = parent(v) /\ kids(v)' = kids(v)
    BY <1>1 DEF parent, kids
<1>3. TaskTree'
    BY DEF TaskTree
<1>4. UNCHANGED done => Worked' = Worked /\ (WorkedOK => WorkedOK') /\ \A v : Ready(v)' <=> Ready(v)
    BY <1>1, <1>2 DEF Worked, WorkedOK, Ready
<1> QED BY <1>1, <1>2, <1>3, <1>4

\* The graph of the abstract specification stays what it is.
LEMMA ParentsKept ==
    ASSUME TaskTree, UNCHANGED <<crew, edges>>
    PROVE  [v \in Nodes |-> parent(v)]' = [v \in Nodes |-> parent(v)]
BY TreeKept

\* Work on a node that is ready is a step of the abstract specification.
LEMMA WorkOnNode ==
    ASSUME TaskTree, WorkedOK, NEW c \in Nodes, Ready(c),
           done' = [done EXCEPT ![c] = TRUE], UNCHANGED <<crew, edges, solver, solving, phase>>,
           IF solver = "local" THEN phase # "idle" ELSE solving
    PROVE  Work!WorkNext
<1>1. Worked' = Worked \cup {c} /\ c \notin Worked /\ parent(c) \subseteq Worked
    BY NodeDone, ParentFacts DEF Ready, Worked
<1>2. [v \in Nodes |-> parent(v)]' = [v \in Nodes |-> parent(v)]
    BY ParentsKept
<1>3. Work!WorkOn(c)
    BY <1>1, <1>2 DEF Work!WorkOn, Worked
<1> QED BY <1>3 DEF Work!WorkNext, Work!Tasks

-----------------------------------------------------------------------------
(* TreeSolverNaive: where the nodes are, and how many units were taken.    *)

NaiveOwns(t, v) == (pc[t] \in {"work", "working"} /\ current[t] = v) \/ In(v + 1, out[t])
NaiveSomewhere(v) == In(v + 1, m_queue) \/ \E t \in crew : NaiveOwns(t, v)

NaiveType ==
    /\ m_queue \in Seq(1 .. size) /\ waiting \subseteq Threads
    /\ thrown \in BOOLEAN /\ solving \in BOOLEAN
    /\ num_work_left \in -Cardinality(crew) .. size
    /\ pc \in [Threads -> {"joined", "ticket", "pop", "work", "working", "children", "notify", "returned"}]
    /\ current \in [Threads -> Nodes]
    /\ out \in [Threads -> Seq(1 .. size)]

\* Only the solver's threads run, and only while solve() does; they push children
\* only when they are told to.
NaiveThreads ==
    /\ \A t \in Threads : pc[t] # "joined" <=> solving /\ t \in crew
    /\ \A t \in Threads : out[t] # <<>> => pc[t] \in {"children", "notify"}
    /\ ~solving => m_queue = <<>> /\ num_work_left = 0

\* No node is in two places.
NaivePlaces ==
    /\ Once(m_queue)
    /\ \A t \in Threads : Once(out[t])
    /\ \A t \in Threads, v \in Nodes : NaiveOwns(t, v) =>
        /\ ~In(v + 1, m_queue)
        /\ \A u \in Threads : NaiveOwns(u, v) => u = t

\* The nodes that can be worked on are those that are queued or held.
NaiveReady == solving => \A v \in Nodes : Ready(v) <=> NaiveSomewhere(v)

\* The units taken: one for every node, then one for every worker that returns.
NaiveTickets == {t \in crew : pc[t] \in {"pop", "work", "working"}}
NaiveReturned == {t \in crew : pc[t] = "returned"}
NaiveCount ==
    solving =>
        /\ num_work_left = size - Cardinality(Worked) - Cardinality(NaiveTickets) - Cardinality(NaiveReturned)
        /\ Cardinality(Worked) + Cardinality(NaiveTickets) <= size
        /\ NaiveReturned # {} => Cardinality(Worked) + Cardinality(NaiveTickets) = size

NaiveInv ==
    /\ TaskTree /\ NaiveType /\ ~thrown
    /\ NaiveThreads /\ NaivePlaces /\ WorkedOK /\ NaiveReady /\ NaiveCount /\ Attended
\* Between two calls of solve() there is nothing.
LEMMA NaiveQuiet ==
    ASSUME NaiveInv, NEW t \in Threads
    PROVE  /\ pc[t] \notin {"children", "notify"} => out[t] = <<>> /\ \A e : ~In(e, out[t])
           /\ t \in waiting => t \in crew /\ pc[t] = "pop"
           /\ out[t] \in Seq(1 .. size) /\ current[t] \in Nodes
           /\ \A v \in Nodes : NaiveOwns(t, v) => t \in crew /\ solving
BY EmptyHasNothing DEF NaiveInv, NaiveType, NaiveThreads, NaiveOwns, Attended

\* Steps that leave the nodes where they are.
LEMMA NaiveStill ==
    ASSUME NaiveInv, UNCHANGED <<crew, edges, done, m_queue, out, solving>>,
           \A t \in Threads, v \in Nodes : NaiveOwns(t, v)' <=> NaiveOwns(t, v)
    PROVE  /\ TaskTree' /\ NaivePlaces' /\ WorkedOK' /\ NaiveReady'
           /\ Nodes' = Nodes /\ size' = size /\ Cardinality(crew)' = Cardinality(crew) /\ Worked' = Worked
<1>1. TaskTree
    BY DEF NaiveInv
<1>2. NaivePlaces'
    BY <1>1, TreeKept DEF NaiveInv, NaivePlaces
<1>3. \A v \in Nodes : NaiveSomewhere(v)' <=> NaiveSomewhere(v)
    BY <1>1, TreeFacts DEF NaiveSomewhere
<1>4. NaiveReady'
    BY <1>1, <1>3, TreeKept DEF NaiveInv, NaiveReady
<1> QED BY <1>1, <1>2, <1>4, TreeKept DEF NaiveInv

\* The sets of threads that are counted.
LEMMA NaiveThreadSets ==
    ASSUME TaskTree
    PROVE  /\ NaiveTickets \in SUBSET crew /\ NaiveReturned \in SUBSET crew /\ Attending \in SUBSET crew
           /\ Worked \in SUBSET Nodes
           /\ Cardinality(NaiveTickets) \in Nat /\ Cardinality(NaiveReturned) \in 0 .. Cardinality(crew)
           /\ Cardinality(Attending) \in Nat /\ Cardinality(Worked) \in 0 .. size /\ size \in Nat
           /\ Cardinality(crew) \in Nat
           /\ (NaiveReturned = {} <=> Cardinality(NaiveReturned) = 0)
<1>1. /\ NaiveTickets \in SUBSET crew /\ NaiveReturned \in SUBSET crew /\ Attending \in SUBSET crew
      /\ Worked \in SUBSET Nodes
    BY DEF NaiveTickets, NaiveReturned, Attending, Worked
<1>2. NaiveReturned = {} <=> Cardinality(NaiveReturned) = 0
    BY <1>1, ThreadsCounted, FS_EmptySet
<1> QED BY <1>1, <1>2, ThreadsCounted, NodesCounted

\* The initial states.
LEMMA NaiveInitInv == Naive!Init => NaiveInv
<1> SUFFICES ASSUME Naive!Init PROVE NaiveInv
    OBVIOUS
<1>1. TaskTree
    BY DEF Naive!Init, Naive!TreeInit, TaskTree
<1>2. /\ m_queue = <<>> /\ waiting = {} /\ solving = FALSE /\ thrown = FALSE /\ num_work_left = 0
      /\ done = [v \in Nodes |-> FALSE] /\ pc = [t \in Threads |-> "joined"]
      /\ current = [t \in Threads |-> 0] /\ out = [t \in Threads |-> <<>>]
    BY DEF Naive!Init, Naive!QueueInit, Naive!TreeInit, Naive!Nodes, Nodes
<1>3. NaiveType
    <2>1. 0 \in Nodes /\ size \in Nat /\ Cardinality(crew) \in Nat
        BY <1>1, TreeFacts, FS_CardinalityType
    <2>2. num_work_left \in -Cardinality(crew) .. size
        BY <1>2, <2>1
    <2>3. m_queue \in Seq(1 .. size) /\ waiting \subseteq Threads /\ out \in [Threads -> Seq(1 .. size)]
        BY <1>2
    <2>4. thrown \in BOOLEAN /\ solving \in BOOLEAN
        BY <1>2
    <2>5. pc \in [Threads -> {"joined", "ticket", "pop", "work", "working", "children", "notify", "returned"}]
        BY <1>2
    <2>6. current \in [Threads -> Nodes]
        BY <1>2, <2>1
    <2> QED BY <2>2, <2>3, <2>4, <2>5, <2>6 DEF NaiveType
<1>4. \A t \in Threads, v \in Nodes : ~NaiveOwns(t, v)
    BY <1>2, EmptyHasNothing DEF NaiveOwns
<1>5. NaiveThreads /\ NaivePlaces /\ NaiveReady /\ NaiveCount /\ Attended /\ WorkedOK
    BY <1>2, <1>4, EmptyHasNothing
    DEF NaiveThreads, NaivePlaces, NaiveReady, NaiveCount, Attended, WorkedOK
<1> QED BY <1>1, <1>2, <1>3, <1>5 DEF NaiveInv

\* Steps of the condition variable: a waiter that is woken attends to the queue, and one
\* begins to wait only while there is nothing in it.
LEMMA NaiveWaitInv == ASSUME NaiveInv, NEW t \in crew, Naive!Wait(t) PROVE NaiveInv'
<1>0. /\ pc[t] = "pop" /\ t \notin waiting /\ m_queue = <<>> /\ waiting' = waiting \cup {t}
      /\ UNCHANGED <<m_queue, crew, edges, done, thrown, num_work_left, solving, pc, current, out>>
    BY DEF Naive!Wait, Naive!WaitForElement, Naive!treeVars, Naive!local
<1>1. \A u \in Threads, v \in Nodes : NaiveOwns(u, v)' <=> NaiveOwns(u, v)
    BY <1>0 DEF NaiveOwns
<1>2. /\ TaskTree' /\ NaivePlaces' /\ WorkedOK' /\ NaiveReady'
      /\ size' = size /\ Nodes' = Nodes /\ Cardinality(crew)' = Cardinality(crew) /\ Worked' = Worked
    BY <1>0, <1>1, NaiveStill
<1>3. NaiveType'
    BY <1>0, <1>2, TreeFacts DEF NaiveInv, NaiveType
<1>4. NaiveThreads'
    BY <1>0 DEF NaiveInv, NaiveThreads
<1>5. NaiveTickets' = NaiveTickets /\ NaiveReturned' = NaiveReturned
    BY <1>0 DEF NaiveTickets, NaiveReturned
<1>6. NaiveCount'
    BY <1>0, <1>2, <1>5 DEF NaiveInv, NaiveCount
<1>7. Attended'
    <2>0. Attending' \in SUBSET crew
        BY <1>0 DEF Attending
    <2>1. Len(m_queue') = 0 /\ Cardinality(Attending') \in Nat
        BY <1>0, <2>0, ThreadsCounted DEF NaiveInv
    <2> QED BY <2>1, <1>0 DEF NaiveInv, Attended
<1> QED BY <1>0, <1>2, <1>3, <1>4, <1>6, <1>7 DEF NaiveInv
LEMMA NaiveWakeInv ==
    ASSUME NaiveInv, NEW w \in waiting, waiting' = waiting \ {w},
           UNCHANGED <<m_queue, crew, edges, done, thrown, num_work_left, solving, pc, current, out>>
    PROVE  NaiveInv'
<1>1. \A u \in Threads, v \in Nodes : NaiveOwns(u, v)' <=> NaiveOwns(u, v)
    BY DEF NaiveOwns
<1>2. /\ TaskTree' /\ NaivePlaces' /\ WorkedOK' /\ NaiveReady'
      /\ size' = size /\ Nodes' = Nodes /\ Cardinality(crew)' = Cardinality(crew) /\ Worked' = Worked
    BY <1>1, NaiveStill
<1>3. NaiveType'
    BY <1>2 DEF NaiveInv, NaiveType
<1>4. NaiveThreads'
    BY DEF NaiveInv, NaiveThreads
<1>5. NaiveTickets' = NaiveTickets /\ NaiveReturned' = NaiveReturned
    BY DEF NaiveTickets, NaiveReturned
<1>6. NaiveCount'
    BY <1>2, <1>5 DEF NaiveInv, NaiveCount
<1>7. Attended'
    <2>1. Attending' = Attending \cup {w} /\ w \in crew \ Attending
        BY DEF NaiveInv, Attended, Attending
    <2>2. Cardinality(Attending') = Cardinality(Attending) + 1 /\ Cardinality(Attending) \in Nat
        BY <2>1, NaiveThreadSets, ThreadsCounted DEF NaiveInv
    <2>3. Len(m_queue) \in Nat /\ Len(m_queue) <= Cardinality(Attending)
        BY DEF NaiveInv, NaiveType, Attended
    <2> QED BY <2>2, <2>3 DEF NaiveInv, Attended
<1> QED BY <1>2, <1>3, <1>4, <1>6, <1>7 DEF NaiveInv

\* A step that changes the program counter of one thread and not who has which node.
LEMMA NaiveStepInv ==
    ASSUME NaiveInv, NEW t \in crew,
           NEW to \in {"ticket", "pop", "work", "working", "children", "returned"},
           pc' = [pc EXCEPT ![t] = to],
           UNCHANGED <<crew, edges, done, m_queue, out, solving, current, waiting>>,
           pc[t] \notin {"joined", "pop", "notify"},
           pc[t] \in {"work", "working"} <=> to \in {"work", "working"},
           out[t] # <<>> => to = "children",
           thrown' = FALSE, num_work_left' \in -Cardinality(crew) .. size, NaiveCount'
    PROVE  NaiveInv'
<1>0. t \in Threads /\ pc'[t] = to /\ \A u \in Threads \ {t} : pc'[u] = pc[u]
    BY TreeFacts DEF NaiveInv, NaiveType
<1>1. \A u \in Threads, v \in Nodes : NaiveOwns(u, v)' <=> NaiveOwns(u, v)
    BY <1>0 DEF NaiveOwns
<1>2. /\ TaskTree' /\ NaivePlaces' /\ WorkedOK' /\ NaiveReady'
      /\ size' = size /\ Nodes' = Nodes /\ Cardinality(crew)' = Cardinality(crew) /\ Worked' = Worked
    BY <1>1, NaiveStill
<1>3. NaiveType'
    BY <1>2 DEF NaiveInv, NaiveType
<1>4. NaiveThreads'
    BY <1>0 DEF NaiveInv, NaiveThreads
<1>7. Attended'
    <2>1. Attending' = IF to = "pop" THEN Attending \cup {t} ELSE Attending
        BY <1>0 DEF NaiveInv, Attended, Attending
    <2>2. t \notin Attending /\ Attending \in SUBSET crew
        BY DEF NaiveInv, Attending
    <2>3. Cardinality(Attending') \in Nat /\ Cardinality(Attending') >= Cardinality(Attending) /\ Cardinality(Attending) \in Nat
        BY <2>1, <2>2, ThreadsCounted DEF NaiveInv
    <2>4. Len(m_queue) \in Nat
        BY DEF NaiveInv, NaiveType
    <2> QED BY <1>0, <2>3, <2>4 DEF NaiveInv, Attended
<1> QED BY <1>2, <1>3, <1>4, <1>7 DEF NaiveInv

LEMMA NaiveTakeTicketInv == ASSUME NaiveInv, NEW t \in crew, Naive!TakeTicket(t) PROVE NaiveInv'
<1> DEFINE to == IF num_work_left <= 0 THEN "returned" ELSE "pop"
<1>0. /\ pc[t] = "ticket" /\ pc' = [pc EXCEPT ![t] = to] /\ num_work_left' = num_work_left - 1
      /\ UNCHANGED <<m_queue, waiting, crew, edges, done, thrown, solving, current, out>>
    BY DEF Naive!TakeTicket, Naive!Goto, Naive!queueVars, Naive!treeVars
<1>1. t \in Threads /\ pc'[t] = to /\ (\A u \in Threads \ {t} : pc'[u] = pc[u]) /\ out[t] = <<>> /\ solving
    BY <1>0, TreeFacts DEF NaiveInv, NaiveType, NaiveThreads
<1>t. TaskTree' /\ size' = size /\ Cardinality(crew)' = Cardinality(crew) /\ Worked' = Worked
    BY <1>0, TreeKept DEF NaiveInv
<1>2. t \notin NaiveTickets /\ t \notin NaiveReturned
    BY <1>0 DEF NaiveTickets, NaiveReturned
<1>thrown. thrown' = FALSE
    BY <1>0 DEF NaiveInv, NaiveType
<1> DEFINE w == Cardinality(Worked)
           k == Cardinality(NaiveTickets)
           r == Cardinality(NaiveReturned)
           n == Cardinality(crew)
<1>3. /\ num_work_left = size - w - k - r /\ w + k <= size /\ (NaiveReturned # {} => w + k = size)
      /\ w \in Nat /\ k \in Nat /\ r \in Nat /\ n \in Nat /\ size \in Nat /\ (NaiveReturned = {} <=> r = 0)
    BY <1>1, NaiveThreadSets DEF NaiveInv, NaiveCount
<1>4. NaiveTickets' \in SUBSET crew /\ NaiveReturned' \in SUBSET crew
    BY <1>0 DEF NaiveTickets, NaiveReturned
<1>5. CASE num_work_left <= 0
    <2>1. NaiveTickets' = NaiveTickets /\ NaiveReturned' = NaiveReturned \cup {t}
        BY <1>0, <1>1, <1>5, TreeFacts DEF NaiveTickets, NaiveReturned, NaiveInv
    <2>2. Cardinality(NaiveReturned') = r + 1 /\ r + 1 <= n
        BY <2>1, <1>2, <1>4, NaiveThreadSets, ThreadsCounted DEF NaiveInv
    <2> HIDE DEF w, k, r, n
    <2>3. w + k = size
        BY <1>3, <1>5
    <2>4. num_work_left' = size - w - k - (r + 1) /\ num_work_left' \in -n .. size
        BY <1>0, <1>3, <2>2, <2>3
    <2>5. NaiveCount'
        BY <2>1, <2>2, <2>3, <2>4, <1>3, <1>t DEF NaiveCount, w, k
    <2>6. pc' = [pc EXCEPT ![t] = "returned"]
        BY <1>0, <1>5
    <2> QED BY <1>0, <1>1, <1>thrown, <2>4, <2>5, <2>6, NaiveStepInv DEF n
<1>6. CASE ~(num_work_left <= 0)
    <2>1. NaiveReturned' = NaiveReturned /\ NaiveTickets' = NaiveTickets \cup {t}
        BY <1>0, <1>1, <1>6, TreeFacts DEF NaiveTickets, NaiveReturned, NaiveInv
    <2>2. Cardinality(NaiveTickets') = k + 1
        BY <2>1, <1>2, <1>4, NaiveThreadSets, ThreadsCounted DEF NaiveInv
    <2> HIDE DEF w, k, r, n
    <2>3. NaiveReturned = {} /\ r = 0 /\ w + (k + 1) <= size
        BY <1>3, <1>6
    <2>4. num_work_left' = size - w - (k + 1) - r /\ num_work_left' \in -n .. size
        BY <1>0, <1>3, <2>3
    <2>5. NaiveCount'
        BY <2>1, <2>2, <2>3, <2>4, <1>3, <1>t DEF NaiveCount, w, k, r
    <2>6. pc' = [pc EXCEPT ![t] = "pop"]
        BY <1>0, <1>6
    <2> QED BY <1>0, <1>1, <1>thrown, <2>4, <2>5, <2>6, NaiveStepInv DEF n
<1> QED BY <1>5, <1>6

LEMMA NaiveWorkBeginInv == ASSUME NaiveInv, NEW t \in crew, Naive!WorkBegin(t) PROVE NaiveInv'
<1>c. t \in Threads /\ current[t] \in Nodes
    BY TreeFacts DEF NaiveInv, NaiveType
<1>0. /\ pc[t] = "work" /\ pc' = [pc EXCEPT ![t] = "working"]
      /\ thrown' = (done[current[t]] \/ \E p \in parent(current[t]) : ~done[p])
      /\ UNCHANGED <<m_queue, waiting, crew, edges, done, num_work_left, solving, current, out>>
    BY DEF Naive!WorkBegin, Naive!Goto, Naive!WorkChecks, Naive!queueVars, Naive!parent, Naive!Nodes, parent, Nodes,
           Naive!Children, Children
<1>1. (\A u \in Threads \ {t} : pc'[u] = pc[u]) /\ pc'[t] = "working" /\ out[t] = <<>> /\ solving
    BY <1>0, <1>c DEF NaiveInv, NaiveType, NaiveThreads
<1>2. Ready(current[t])
    BY <1>0, <1>1, <1>c DEF NaiveInv, NaiveReady, NaiveSomewhere, NaiveOwns
<1>3. thrown' = FALSE
    BY <1>0, <1>2 DEF Ready
<1>4. NaiveTickets' = NaiveTickets /\ NaiveReturned' = NaiveReturned /\ Worked' = Worked /\ size' = size
    BY <1>0, <1>1, TreeFacts, TreeKept DEF NaiveTickets, NaiveReturned, NaiveInv
<1>5. NaiveCount'
    BY <1>0, <1>4 DEF NaiveInv, NaiveCount
<1> QED BY <1>0, <1>1, <1>3, <1>5, NaiveStepInv DEF NaiveInv, NaiveType

LEMMA NaiveNoMoreChildrenInv == ASSUME NaiveInv, NEW t \in crew, Naive!NoMoreChildren(t) PROVE NaiveInv'
<1>0. /\ pc[t] = "children" /\ pc' = [pc EXCEPT ![t] = "ticket"] /\ out[t] = <<>>
      /\ UNCHANGED <<m_queue, waiting, crew, edges, done, thrown, num_work_left, solving, current, out>>
    BY DEF Naive!NoMoreChildren, Naive!Goto, Naive!queueVars, Naive!treeVars
<1>1. t \in Threads /\ (\A u \in Threads \ {t} : pc'[u] = pc[u]) /\ pc'[t] = "ticket"
    BY <1>0, TreeFacts DEF NaiveInv, NaiveType
<1>4. NaiveTickets' = NaiveTickets /\ NaiveReturned' = NaiveReturned /\ Worked' = Worked /\ size' = size
    BY <1>0, <1>1, TreeFacts, TreeKept DEF NaiveTickets, NaiveReturned, NaiveInv
<1>5. NaiveCount'
    BY <1>0, <1>4 DEF NaiveInv, NaiveCount
<1> QED BY <1>0, <1>5, NaiveStepInv DEF NaiveInv, NaiveType

LEMMA NaivePopNodeInv == ASSUME NaiveInv, NEW t \in crew, Naive!PopNode(t) PROVE NaiveInv'
<1> DEFINE e == Head(m_queue)
<1>0. /\ pc[t] = "pop" /\ t \notin waiting /\ m_queue # <<>> /\ m_queue' = Tail(m_queue)
      /\ pc' = [pc EXCEPT ![t] = "work"] /\ current' = [current EXCEPT ![t] = e - 1]
      /\ UNCHANGED <<waiting, crew, edges, done, thrown, num_work_left, solving, out>>
    BY DEF Naive!PopNode, Naive!Goto, Naive!PopElement, Naive!treeVars
<1>f. t \in Threads /\ size \in Nat /\ Nodes = 0 .. size - 1 /\ size < done_task /\ done_task \in Nat
    BY TreeFacts DEF NaiveInv
<1>q. /\ m_queue \in Seq(1 .. size) /\ e \in 1 .. size /\ In(e, m_queue) /\ e # done_task
      /\ m_queue' \in Seq(1 .. size) /\ Len(m_queue') = Len(m_queue) - 1 /\ Once(m_queue')
      /\ \A f : In(f, m_queue) <=> In(f, m_queue') \/ f = e
      /\ ~In(e, m_queue') /\ Len(m_queue) \in Nat
    <2>1. m_queue \in Seq(1 .. size) /\ Once(m_queue)
        BY DEF NaiveInv, NaiveType, NaivePlaces
    <2>2. e \in 1 .. size
        BY <1>0, <2>1, HeadTaken
    <2> QED BY <1>0, <1>f, <2>1, <2>2, HeadTaken, SequenceFacts
<1> HIDE DEF e
<1>1. /\ pc'[t] = "work" /\ current'[t] = e - 1 /\ e - 1 \in Nodes
      /\ \A u \in Threads \ {t} : pc'[u] = pc[u] /\ current'[u] = current[u]
      /\ out[t] = <<>> /\ solving
    <2>1. e - 1 \in Nodes
        BY <1>q, <1>f
    <2> QED BY <1>0, <1>f, <2>1 DEF NaiveInv, NaiveType, NaiveThreads
<1>t. /\ TaskTree' /\ size' = size /\ Nodes' = Nodes /\ Cardinality(crew)' = Cardinality(crew) /\ Worked' = Worked
      /\ WorkedOK' /\ \A v : Ready(v)' <=> Ready(v)
    BY <1>0, TreeKept DEF NaiveInv
<1>2. \A v \in Nodes : NaiveOwns(t, v)' <=> v + 1 = e
    <2>1. \A v \in Nodes : e - 1 = v <=> v + 1 = e
        BY <1>q, <1>f
    <2>2. \A v : ~In(v + 1, out'[t])
        BY <1>0, <1>1, EmptyHasNothing
    <2> QED BY <1>1, <2>1, <2>2 DEF NaiveOwns
<1>3. \A v \in Nodes : ~NaiveOwns(t, v)
    BY <1>0, <1>1, EmptyHasNothing DEF NaiveOwns
<1>4. \A u \in Threads \ {t}, v \in Nodes : NaiveOwns(u, v)' <=> NaiveOwns(u, v)
    BY <1>0, <1>1 DEF NaiveOwns
<1>5. NaiveType'
    <2>1. waiting' \subseteq Threads' /\ thrown' \in BOOLEAN /\ solving' \in BOOLEAN /\ out' \in [Threads -> Seq(1 .. size)]
        BY <1>0 DEF NaiveInv, NaiveType
    <2>2. pc' \in [Threads -> {"joined", "ticket", "pop", "work", "working", "children", "notify", "returned"}]
        BY <1>0 DEF NaiveInv, NaiveType
    <2>3. current' \in [Threads -> Nodes]
        BY <1>0, <1>1 DEF NaiveInv, NaiveType
    <2>4. num_work_left' \in -Cardinality(crew) .. size
        BY <1>0 DEF NaiveInv, NaiveType
    <2> QED BY <1>q, <1>t, <2>1, <2>2, <2>3, <2>4 DEF NaiveType
<1>6. NaiveThreads'
    BY <1>0, <1>1 DEF NaiveInv, NaiveThreads
<1>7. NaivePlaces'
    <2>1. \A u \in Threads : Once(out'[u])
        BY <1>0 DEF NaiveInv, NaivePlaces
    <2>2. ASSUME NEW u \in Threads, NEW v \in Nodes, NaiveOwns(u, v)'
          PROVE  ~In(v + 1, m_queue') /\ \A w \in Threads : NaiveOwns(w, v)' => w = u
        <3>1. CASE v + 1 = e
            <4>1. \A w \in Threads : ~NaiveOwns(w, v)
                BY <1>q, <3>1 DEF NaiveInv, NaivePlaces
            <4> QED BY <1>2, <1>4, <1>q, <2>2, <3>1, <4>1
        <3>2. CASE v + 1 # e
            BY <1>2, <1>4, <1>q, <2>2, <3>2 DEF NaiveInv, NaivePlaces
        <3> QED BY <3>1, <3>2
    <2> QED BY <1>q, <1>t, <2>1, <2>2 DEF NaivePlaces
<1>8. NaiveReady'
    <2>1. \A v \in Nodes : NaiveSomewhere(v)' <=> NaiveSomewhere(v)
        BY <1>0, <1>2, <1>3, <1>4, <1>q, TreeFacts DEF NaiveSomewhere, NaiveInv
    <2> QED BY <1>0, <1>t, <2>1 DEF NaiveInv, NaiveReady
<1>9. NaiveTickets' = NaiveTickets /\ NaiveReturned' = NaiveReturned
    BY <1>0, <1>1, TreeFacts DEF NaiveTickets, NaiveReturned, NaiveInv
<1>10. NaiveCount'
    BY <1>0, <1>t, <1>9 DEF NaiveInv, NaiveCount
<1>11. Attended'
    <2>1. Attending' = Attending \ {t} /\ t \in Attending
        BY <1>0, <1>1, TreeFacts DEF Attending, NaiveInv
    <2>2. Cardinality(Attending') = Cardinality(Attending) - 1 /\ Cardinality(Attending) \in Nat
        BY <2>1, NaiveThreadSets, ThreadsCounted DEF NaiveInv
    <2>3. waiting # {} => Len(m_queue) <= Cardinality(Attending)
        BY DEF NaiveInv, Attended
    <2>4. waiting' # {} => Len(m_queue') <= Cardinality(Attending')
        BY <1>0, <1>q, <2>2, <2>3
    <2> QED BY <1>0, <1>1, <2>4 DEF NaiveInv, Attended
<1> QED BY <1>0, <1>t, <1>5, <1>6, <1>7, <1>8, <1>10, <1>11 DEF NaiveInv

LEMMA NaiveWorkEndInv == ASSUME NaiveInv, NEW t \in crew, Naive!WorkEnd(t) PROVE NaiveInv'
<1> DEFINE c == current[t]
<1>f. t \in Threads /\ c \in Nodes /\ size \in Nat
    BY TreeFacts DEF NaiveInv, NaiveType
<1>0. /\ pc[t] = "working" /\ pc' = [pc EXCEPT ![t] = "children"]
      /\ done' = [done EXCEPT ![c] = TRUE] /\ out' = [out EXCEPT ![t] = kids(c)]
      /\ UNCHANGED <<m_queue, waiting, crew, edges, thrown, num_work_left, solving, current>>
    BY DEF Naive!WorkEnd, Naive!Goto, Naive!WorkStore, Naive!queueVars, kids
<1>1. /\ pc'[t] = "children" /\ out'[t] = kids(c)
      /\ \A u \in Threads \ {t} : pc'[u] = pc[u] /\ out'[u] = out[u]
      /\ out[t] = <<>> /\ solving
    BY <1>0, <1>f DEF NaiveInv, NaiveType, NaiveThreads
<1>t. /\ TaskTree' /\ size' = size /\ Nodes' = Nodes /\ Cardinality(crew)' = Cardinality(crew)
      /\ \A v : parent(v)' = parent(v)
    BY <1>0, TreeKept DEF NaiveInv
<1>k. /\ kids(c) \in Seq(1 .. size) /\ Once(kids(c))
      /\ \A v \in Nodes : In(v + 1, kids(c)) <=> c \in parent(v)
    BY <1>f, KidsFacts DEF NaiveInv
<1> HIDE DEF c
<1>2. \A v \in Nodes : NaiveOwns(t, v)' <=> c \in parent(v)
    BY <1>1, <1>k DEF NaiveOwns
<1>3. \A v \in Nodes : NaiveOwns(t, v) <=> v = c
    BY <1>0, <1>1, EmptyHasNothing DEF NaiveOwns, c
<1>4. \A u \in Threads \ {t}, v \in Nodes : NaiveOwns(u, v)' <=> NaiveOwns(u, v)
    BY <1>0, <1>1 DEF NaiveOwns
<1>r. \A v \in Nodes : Ready(v) <=> NaiveSomewhere(v)
    BY <1>1 DEF NaiveInv, NaiveReady
<1>s. Ready(c)
    BY <1>3, <1>f, <1>r DEF NaiveSomewhere
<1>n. /\ \A v \in Nodes : Ready(v)' <=> (v # c /\ Ready(v)) \/ c \in parent(v)
      /\ \A v \in Nodes : c \in parent(v) => ~Ready(v) /\ v # c
      /\ Worked' = Worked \cup {c} /\ Cardinality(Worked') = Cardinality(Worked) + 1
      /\ WorkedOK'
    BY <1>0, <1>f, <1>s, NodeDone DEF NaiveInv
<1>5. NaiveType'
    <2>1. waiting' \subseteq Threads /\ thrown' \in BOOLEAN /\ solving' \in BOOLEAN /\ current' \in [Threads -> Nodes]
        BY <1>0 DEF NaiveInv, NaiveType
    <2>2. pc' \in [Threads -> {"joined", "ticket", "pop", "work", "working", "children", "notify", "returned"}]
        BY <1>0 DEF NaiveInv, NaiveType
    <2>3. out' \in [Threads -> Seq(1 .. size)]
        BY <1>0, <1>k DEF NaiveInv, NaiveType
    <2>4. num_work_left' \in -Cardinality(crew) .. size /\ m_queue' \in Seq(1 .. size)
        BY <1>0 DEF NaiveInv, NaiveType
    <2> QED BY <1>t, <2>1, <2>2, <2>3, <2>4 DEF NaiveType
<1>6. NaiveThreads'
    BY <1>0, <1>1 DEF NaiveInv, NaiveThreads
<1>7. NaivePlaces'
    <2>1. \A u \in Threads : Once(out'[u])
        BY <1>1, <1>k DEF NaiveInv, NaivePlaces
    <2>2. ASSUME NEW u \in Threads, NEW v \in Nodes, NaiveOwns(u, v)'
          PROVE  ~In(v + 1, m_queue') /\ \A w \in Threads : NaiveOwns(w, v)' => w = u
        <3>1. CASE c \in parent(v)
            <4>1. ~NaiveSomewhere(v) /\ \A w \in Threads : ~NaiveOwns(w, v)
                BY <1>n, <1>r, <3>1, NaiveQuiet DEF NaiveSomewhere
            <4> QED BY <1>0, <1>2, <1>4, <2>2, <3>1, <4>1 DEF NaiveSomewhere
        <3>2. CASE c \notin parent(v)
            BY <1>0, <1>2, <1>4, <2>2, <3>2 DEF NaiveInv, NaivePlaces
        <3> QED BY <3>1, <3>2
    <2> QED BY <1>0, <1>t, <2>1, <2>2 DEF NaivePlaces, NaiveInv
<1>8. NaiveReady'
    <2>1. ASSUME NEW v \in Nodes PROVE Ready(v)' <=> NaiveSomewhere(v)'
        <3>1. ASSUME v = c PROVE ~NaiveSomewhere(v)'
            <4>1. ~In(c + 1, m_queue) /\ (\A u \in Threads : NaiveOwns(u, c) => u = t) /\ c \notin parent(c)
                BY <1>3, <1>f, <1>n DEF NaiveInv, NaivePlaces
            <4> QED BY <4>1, <3>1, <1>0, <1>2, <1>4, <1>f, TreeFacts DEF NaiveSomewhere, NaiveInv
        <3>2. ASSUME v # c PROVE NaiveSomewhere(v)' <=> NaiveSomewhere(v) \/ c \in parent(v)
            BY <3>2, <1>0, <1>2, <1>3, <1>4, TreeFacts DEF NaiveSomewhere, NaiveInv
        <3> QED BY <3>1, <3>2, <1>n, <1>r
    <2> QED BY <1>t, <2>1 DEF NaiveReady
<1>9. NaiveTickets' = NaiveTickets \ {t} /\ t \in NaiveTickets /\ NaiveReturned' = NaiveReturned
    BY <1>0, <1>1, TreeFacts DEF NaiveTickets, NaiveReturned, NaiveInv
<1>10. NaiveCount'
    <2> DEFINE w == Cardinality(Worked)
               k == Cardinality(NaiveTickets)
               r == Cardinality(NaiveReturned)
               n == Cardinality(crew)
    <2>1. /\ num_work_left = size - w - k - r /\ w + k <= size /\ (NaiveReturned # {} => w + k = size)
          /\ w \in Nat /\ k \in Nat /\ r \in Nat /\ n \in Nat
        BY <1>1, NaiveThreadSets DEF NaiveInv, NaiveCount
    <2>2. Cardinality(NaiveTickets') = k - 1 /\ Cardinality(NaiveReturned') = r /\ Cardinality(Worked') = w + 1
        BY <1>9, <1>n, NaiveThreadSets, ThreadsCounted DEF NaiveInv
    <2> HIDE DEF w, k, r, n
    <2>3. (w + 1) + (k - 1) = w + k /\ size - (w + 1) - (k - 1) - r = size - w - k - r
        BY <2>1, <1>f
    <2> QED BY <1>0, <1>9, <1>t, <2>1, <2>2, <2>3 DEF NaiveCount
<1>11. Attended'
    <2>1. Attending' = Attending
        BY <1>0, <1>1, TreeFacts DEF Attending, NaiveInv
    <2> QED BY <1>0, <1>1, <2>1 DEF NaiveInv, Attended
<1> QED BY <1>0, <1>t, <1>5, <1>6, <1>7, <1>8, <1>n, <1>10, <1>11 DEF NaiveInv

LEMMA NaivePushChildInv == ASSUME NaiveInv, NEW t \in crew, Naive!PushChild(t) PROVE NaiveInv'
<1> DEFINE e == Head(out[t])
<1>0. /\ pc[t] = "children" /\ out[t] # <<>> /\ m_queue' = Append(m_queue, e)
      /\ pc' = [pc EXCEPT ![t] = "notify"] /\ out' = [out EXCEPT ![t] = Tail(out[t])]
      /\ UNCHANGED <<waiting, crew, edges, done, thrown, num_work_left, solving, current>>
    BY DEF Naive!PushChild, Naive!Goto, Naive!PushElement, Naive!treeVars
<1>f. t \in Threads /\ size \in Nat /\ Nodes = 0 .. size - 1 /\ size < done_task /\ done_task \in Nat
    BY TreeFacts DEF NaiveInv
<1>1. /\ pc'[t] = "notify" /\ out'[t] = Tail(out[t])
      /\ \A u \in Threads \ {t} : pc'[u] = pc[u] /\ out'[u] = out[u]
      /\ solving
    BY <1>0, <1>f DEF NaiveInv, NaiveType, NaiveThreads
<1>t. /\ TaskTree' /\ size' = size /\ Nodes' = Nodes /\ Cardinality(crew)' = Cardinality(crew) /\ Worked' = Worked
      /\ WorkedOK' /\ \A v : Ready(v)' <=> Ready(v)
    BY <1>0, TreeKept DEF NaiveInv
<1>o. /\ e \in 1 .. size /\ In(e, out[t]) /\ e # done_task
      /\ out'[t] \in Seq(1 .. size) /\ Once(out'[t]) /\ ~In(e, out'[t])
      /\ \A f : In(f, out[t]) <=> In(f, out'[t]) \/ f = e
    <2> DEFINE q == out[t]
    <2>1. q \in Seq(1 .. size) /\ Once(q) /\ q # <<>> /\ e = Head(q) /\ out'[t] = Tail(q)
        BY <1>0, <1>1, <1>f DEF NaiveInv, NaiveType, NaivePlaces
    <2> HIDE DEF q, e
    <2>2. e \in 1 .. size /\ e # done_task
        BY <1>f, <2>1, HeadTaken
    <2>3. /\ In(e, q) /\ out'[t] \in Seq(1 .. size) /\ Once(out'[t]) /\ ~In(e, out'[t])
          /\ \A f : In(f, q) <=> In(f, out'[t]) \/ f = e
        BY <2>1, <2>2, HeadTaken
    <2> QED BY <2>2, <2>3 DEF q
<1> HIDE DEF e
<1>v. e - 1 \in Nodes /\ (e - 1) + 1 = e /\ \A v \in Nodes : v + 1 = e <=> v = e - 1
    BY <1>f, <1>o
<1>3. NaiveOwns(t, e - 1)
    BY <1>o, <1>v DEF NaiveOwns
<1>q. /\ m_queue' \in Seq(1 .. size) /\ Len(m_queue') = Len(m_queue) + 1 /\ Once(m_queue')
      /\ \A f : In(f, m_queue') <=> In(f, m_queue) \/ f = e
      /\ ~In(e, m_queue) /\ Len(m_queue) \in Nat
    <2>1. m_queue \in Seq(1 .. size) /\ Once(m_queue)
        BY DEF NaiveInv, NaiveType, NaivePlaces
    <2>2. ~In(e, m_queue)
        BY <1>3, <1>v, <1>f DEF NaiveInv, NaivePlaces
    <2>3. /\ Append(m_queue, e) \in Seq(1 .. size) /\ Len(Append(m_queue, e)) = Len(m_queue) + 1
          /\ Once(Append(m_queue, e))
          /\ \A f : In(f, Append(m_queue, e)) <=> In(f, m_queue) \/ f = e
        <3> DEFINE S == 1 .. size
        <3>1. m_queue \in Seq(S) /\ e \in S /\ Once(m_queue) /\ (e # done_task => ~In(e, m_queue))
            BY <1>o, <2>1, <2>2
        <3> HIDE DEF S
        <3>2. /\ Append(m_queue, e) \in Seq(S) /\ Len(Append(m_queue, e)) = Len(m_queue) + 1
              /\ Once(Append(m_queue, e))
              /\ \A f : In(f, Append(m_queue, e)) <=> In(f, m_queue) \/ f = e
            BY <3>1, ElementAppended
        <3> QED BY <3>2 DEF S
    <2>4. Len(m_queue) \in Nat /\ m_queue' = Append(m_queue, e)
        BY <1>0, <2>1
    <2> QED BY <2>2, <2>3, <2>4
<1>2. \A v \in Nodes : NaiveOwns(t, v)' <=> NaiveOwns(t, v) /\ v + 1 # e
    BY <1>0, <1>1, <1>o DEF NaiveOwns
<1>4. \A u \in Threads \ {t}, v \in Nodes : NaiveOwns(u, v)' <=> NaiveOwns(u, v)
    BY <1>0, <1>1 DEF NaiveOwns
<1>5. NaiveType'
    <2>1. waiting' \subseteq Threads' /\ thrown' \in BOOLEAN /\ solving' \in BOOLEAN /\ current' \in [Threads -> Nodes]
        BY <1>0 DEF NaiveInv, NaiveType
    <2>2. pc' \in [Threads -> {"joined", "ticket", "pop", "work", "working", "children", "notify", "returned"}]
        BY <1>0 DEF NaiveInv, NaiveType
    <2>3. out' \in [Threads -> Seq(1 .. size)]
        BY <1>0, <1>1, <1>o, <1>f DEF NaiveInv, NaiveType
    <2>4. num_work_left' \in -Cardinality(crew) .. size
        BY <1>0 DEF NaiveInv, NaiveType
    <2> QED BY <1>q, <1>t, <2>1, <2>2, <2>3, <2>4 DEF NaiveType
<1>6. NaiveThreads'
    BY <1>0, <1>1 DEF NaiveInv, NaiveThreads
<1>7. NaivePlaces'
    <2>1. \A u \in Threads : Once(out'[u])
        BY <1>1, <1>o DEF NaiveInv, NaivePlaces
    <2>2. ASSUME NEW u \in Threads, NEW v \in Nodes, NaiveOwns(u, v)'
          PROVE  ~In(v + 1, m_queue') /\ \A w \in Threads : NaiveOwns(w, v)' => w = u
        <3>1. v + 1 # e
            <4>1. \A w \in Threads : NaiveOwns(w, e - 1) => w = t
                BY <1>3, <1>v, <1>f DEF NaiveInv, NaivePlaces
            <4> QED BY <4>1, <1>2, <1>4, <1>v, <2>2
        <3> QED BY <1>2, <1>4, <1>q, <2>2, <3>1 DEF NaiveInv, NaivePlaces
    <2> QED BY <1>q, <1>t, <2>1, <2>2 DEF NaivePlaces
<1>8. NaiveReady'
    <2>1. ASSUME NEW v \in Nodes PROVE NaiveSomewhere(v)' <=> NaiveSomewhere(v)
        <3>1. CASE v + 1 = e
            BY <3>1, <1>0, <1>3, <1>v, <1>q DEF NaiveSomewhere
        <3>2. CASE v + 1 # e
            BY <3>2, <1>0, <1>2, <1>4, <1>q, TreeFacts DEF NaiveSomewhere, NaiveInv
        <3> QED BY <3>1, <3>2
    <2> QED BY <1>0, <1>t, <2>1 DEF NaiveInv, NaiveReady
<1>9. NaiveTickets' = NaiveTickets /\ NaiveReturned' = NaiveReturned
    BY <1>0, <1>1, TreeFacts DEF NaiveTickets, NaiveReturned, NaiveInv
<1>10. NaiveCount'
    BY <1>0, <1>t, <1>9 DEF NaiveInv, NaiveCount
<1>11. Attended'
    <2>1. Attending' = Attending \cup {t} /\ t \in crew \ Attending
        BY <1>0, <1>1, TreeFacts DEF Attending, NaiveInv
    <2>2. Cardinality(Attending') = Cardinality(Attending) + 1 /\ Cardinality(Attending) \in Nat
        BY <2>1, NaiveThreadSets, ThreadsCounted DEF NaiveInv
    <2>3. waiting # {} => Len(m_queue) <= Cardinality(Attending)
        BY DEF NaiveInv, Attended
    <2>4. waiting' # {} => Len(m_queue') <= Cardinality(Attending')
        BY <1>0, <1>q, <2>2, <2>3
    <2> QED BY <1>0, <1>1, <2>4 DEF NaiveInv, Attended
<1> QED BY <1>0, <1>t, <1>5, <1>6, <1>7, <1>8, <1>10, <1>11 DEF NaiveInv

\* A notification brings a waiter to the queue in the place of the thread that sent it,
\* or there is none that waits.
LEMMA NaiveNotifyInv == ASSUME NaiveInv, NEW t \in crew, Naive!Notify(t) PROVE NaiveInv'
<1>0. /\ pc[t] = "notify" /\ pc' = [pc EXCEPT ![t] = "children"]
      /\ waiting' \subseteq waiting
      /\ (waiting' = waiting /\ waiting = {}) \/ \E w \in waiting : waiting' = waiting \ {w}
      /\ UNCHANGED <<m_queue, crew, edges, done, thrown, num_work_left, solving, current, out>>
    BY DEF Naive!Notify, Naive!Goto, Naive!NotifyOne, Naive!treeVars
<1>1. /\ t \in Threads /\ pc'[t] = "children" /\ \A u \in Threads \ {t} : pc'[u] = pc[u]
    BY <1>0, TreeFacts DEF NaiveInv, NaiveType
<1>2. \A u \in Threads, v \in Nodes : NaiveOwns(u, v)' <=> NaiveOwns(u, v)
    BY <1>0, <1>1 DEF NaiveOwns
<1>3. /\ TaskTree' /\ NaivePlaces' /\ WorkedOK' /\ NaiveReady'
      /\ size' = size /\ Nodes' = Nodes /\ Cardinality(crew)' = Cardinality(crew) /\ Worked' = Worked
    BY <1>0, <1>2, NaiveStill
<1>4. NaiveType'
    BY <1>0, <1>3 DEF NaiveInv, NaiveType
<1>5. NaiveThreads'
    BY <1>0, <1>1 DEF NaiveInv, NaiveThreads
<1>6. NaiveTickets' = NaiveTickets /\ NaiveReturned' = NaiveReturned
    BY <1>0, <1>1, TreeFacts DEF NaiveTickets, NaiveReturned, NaiveInv
<1>7. NaiveCount'
    BY <1>0, <1>3, <1>6 DEF NaiveInv, NaiveCount
<1>8. Attended'
    <2>1. CASE waiting = {}
        BY <2>1, <1>0 DEF NaiveInv, Attended
    <2>2. ASSUME NEW w \in waiting, waiting' = waiting \ {w} PROVE Attended'
        <3>1. w \in crew /\ w # t /\ pc[w] = "pop"
            BY <1>0, <2>2 DEF NaiveInv, Attended
        <3>2. Attending' = (Attending \cup {w}) \ {t} /\ w \notin Attending /\ t \in Attending
            BY <1>0, <1>1, <2>2, <3>1, TreeFacts DEF Attending, NaiveInv
        <3>3. Cardinality(Attending \cup {w}) = Cardinality(Attending) + 1 /\ Cardinality(Attending) \in Nat
            BY <3>1, <3>2, NaiveThreadSets, ThreadsCounted DEF NaiveInv
        <3>4. Cardinality(Attending') = Cardinality(Attending)
            <4>1. Attending \cup {w} \in SUBSET crew
                BY <3>1, NaiveThreadSets DEF NaiveInv
            <4>2. t \in Attending \cup {w}
                BY <3>2
            <4>3. Cardinality((Attending \cup {w}) \ {t}) = Cardinality(Attending \cup {w}) - 1
                BY <4>1, <4>2, ThreadsCounted DEF NaiveInv
            <4> QED BY <4>3, <3>2, <3>3
        <3> QED BY <1>0, <1>1, <3>4, <2>2, TreeFacts DEF NaiveInv, Attended
    <2> QED BY <1>0, <2>1, <2>2
<1> QED BY <1>0, <1>3, <1>4, <1>5, <1>7, <1>8 DEF NaiveInv

\* When all workers have returned, as many units were taken as there are nodes and workers.
LEMMA NaiveAllDone ==
    ASSUME NaiveInv, solving, \A t \in crew : pc[t] = "returned"
    PROVE  Worked = Nodes /\ m_queue = <<>> /\ \A t \in Threads : out[t] = <<>>
<1>1. NaiveTickets = {} /\ NaiveReturned # {}
    BY TreeFacts DEF NaiveTickets, NaiveReturned, NaiveInv
<1>2. Cardinality(Worked) = size
    BY <1>1, FS_EmptySet, NaiveThreadSets DEF NaiveInv, NaiveCount
<1>3. Worked = Nodes
    BY <1>2, NaiveThreadSets, NodesCounted DEF NaiveInv
<1>4. \A v \in Nodes : ~In(v + 1, m_queue)
    BY <1>3 DEF NaiveInv, NaiveReady, NaiveSomewhere, Worked, Ready
<1>5. m_queue = <<>>
    <2> SUFFICES ASSUME m_queue # <<>> PROVE FALSE
        OBVIOUS
    <2>1. m_queue \in Seq(1 .. size) /\ Once(m_queue)
        BY DEF NaiveInv, NaiveType, NaivePlaces
    <2>2. Head(m_queue) \in 1 .. size /\ In(Head(m_queue), m_queue)
        BY <2>1, HeadTaken
    <2>3. Head(m_queue) - 1 \in Nodes /\ (Head(m_queue) - 1) + 1 = Head(m_queue)
        BY <2>2, TreeFacts DEF NaiveInv
    <2> QED BY <1>4, <2>2, <2>3
<1>6. \A t \in Threads : out[t] = <<>>
    BY DEF NaiveInv, NaiveThreads
<1> QED BY <1>3, <1>5, <1>6

LEMMA NaiveJoinInv == ASSUME NaiveInv, Naive!Join PROVE NaiveInv'
<1>0. /\ solving /\ (\A t \in crew : pc[t] = "returned") /\ solving' = FALSE
      /\ pc' = [t \in Threads |-> "joined"] /\ current' = [t \in Threads |-> 0] /\ num_work_left' = 0
      /\ UNCHANGED <<m_queue, waiting, crew, edges, done, thrown, out>>
    BY DEF Naive!Join, Naive!queueVars, Naive!treeVars
<1>1. m_queue = <<>> /\ \A t \in Threads : out[t] = <<>>
    BY <1>0, NaiveAllDone
<1>2. /\ TaskTree' /\ size' = size /\ Nodes' = Nodes /\ Cardinality(crew)' = Cardinality(crew) /\ WorkedOK'
    BY <1>0, TreeKept DEF NaiveInv
<1>3. \A t \in Threads, v \in Nodes : ~NaiveOwns(t, v)'
    BY <1>0, <1>1, EmptyHasNothing DEF NaiveOwns
<1>4. waiting = {}
    BY <1>0 DEF NaiveInv, Attended
<1>5. NaiveType'
    <2>1. 0 \in Nodes /\ size \in Nat /\ Cardinality(crew) \in Nat
        BY TreeFacts, FS_CardinalityType DEF NaiveInv
    <2>2. num_work_left' \in -Cardinality(crew) .. size
        BY <1>0, <2>1
    <2>3. m_queue' \in Seq(1 .. size) /\ waiting' \subseteq Threads /\ out' \in [Threads -> Seq(1 .. size)]
        BY <1>0 DEF NaiveInv, NaiveType
    <2>4. thrown' \in BOOLEAN /\ solving' \in BOOLEAN
        BY <1>0 DEF NaiveInv, NaiveType
    <2>5. pc' \in [Threads -> {"joined", "ticket", "pop", "work", "working", "children", "notify", "returned"}]
        BY <1>0
    <2>6. current' \in [Threads -> Nodes]
        BY <1>0, <2>1
    <2> QED BY <1>2, <2>2, <2>3, <2>4, <2>5, <2>6 DEF NaiveType
<1>6. NaiveThreads' /\ NaiveReady' /\ NaiveCount' /\ Attended'
    BY <1>0, <1>1, <1>4 DEF NaiveThreads, NaiveReady, NaiveCount, Attended
<1>7. NaivePlaces'
    BY <1>0, <1>2, <1>3 DEF NaiveInv, NaivePlaces
<1> QED BY <1>0, <1>2, <1>5, <1>6, <1>7 DEF NaiveInv

LEMMA NaiveResetInv == ASSUME NaiveInv, Naive!Reset PROVE NaiveInv'
<1>0. /\ ~solving /\ done' = [v \in Nodes |-> FALSE] /\ m_queue' = <<>>
      /\ UNCHANGED <<waiting, crew, edges, thrown, num_work_left, solving, pc, current, out>>
    BY DEF Naive!Reset, Naive!TreeReset, Naive!ClearQueue, Naive!local, Naive!Nodes, Nodes
<1>2. /\ TaskTree' /\ size' = size /\ Nodes' = Nodes /\ Cardinality(crew)' = Cardinality(crew)
    BY <1>0, TreeKept DEF NaiveInv
<1>3. WorkedOK'
    BY <1>0, <1>2 DEF WorkedOK
<1>4. m_queue = <<>>
    BY <1>0 DEF NaiveInv, NaiveThreads
<1>5. \A t \in Threads, v \in Nodes : NaiveOwns(t, v)' <=> NaiveOwns(t, v)
    BY <1>0 DEF NaiveOwns
<1>6. NaiveType'
    BY <1>0, <1>2, <1>4 DEF NaiveInv, NaiveType
<1>7. NaiveThreads' /\ NaiveReady' /\ NaiveCount'
    BY <1>0 DEF NaiveInv, NaiveThreads, NaiveReady, NaiveCount
<1>8. Attended'
    BY <1>0 DEF NaiveInv, NaiveType, NaiveThreads, Attended
<1>9. NaivePlaces'
    BY <1>0, <1>2, <1>4, <1>5 DEF NaiveInv, NaivePlaces
<1> QED BY <1>0, <1>2, <1>3, <1>6, <1>7, <1>8, <1>9 DEF NaiveInv

LEMMA NaiveSolveInv == ASSUME NaiveInv, Naive!Solve PROVE NaiveInv'
<1>0. /\ ~solving /\ m_queue = <<>> /\ (\A v \in Nodes : ~done[v]) /\ solving' = TRUE
      /\ m_queue' = Append(m_queue, 1) /\ num_work_left' = size
      /\ pc' = [t \in Threads |-> IF t \in crew THEN "ticket" ELSE "joined"]
      /\ UNCHANGED <<waiting, crew, edges, done, thrown, current, out>>
    BY DEF Naive!Solve, Naive!PushElement, Naive!treeVars, Naive!Nodes, Naive!size, Nodes, size, Naive!Cardinality, Cardinality
<1>f. size \in Nat /\ size >= 1 /\ Nodes = 0 .. size - 1 /\ size < done_task /\ done_task \in Nat /\ crew \subseteq Threads
    BY TreeFacts DEF NaiveInv
<1>t. /\ TaskTree' /\ size' = size /\ Nodes' = Nodes /\ Cardinality(crew)' = Cardinality(crew) /\ Worked' = Worked
      /\ WorkedOK' /\ \A v : Ready(v)' <=> Ready(v)
    BY <1>0, TreeKept DEF NaiveInv
<1>1. \A t \in Threads : pc[t] = "joined" /\ out[t] = <<>> /\ t \notin waiting
    BY <1>0 DEF NaiveInv, NaiveType, NaiveThreads, Attended
<1>2. waiting' = {}
    BY <1>0, <1>1 DEF NaiveInv, NaiveType
<1>q. m_queue' \in Seq(1 .. size) /\ Once(m_queue') /\ \A e : In(e, m_queue') <=> e = 1
    <2>1. <<>> \in Seq(1 .. size) /\ 1 \in 1 .. size
        BY <1>f
    <2> QED BY <1>0, <2>1, EmptyHasNothing, ElementAppended
<1>3. \A t \in Threads, v \in Nodes : ~NaiveOwns(t, v)'
    BY <1>0, <1>1, EmptyHasNothing DEF NaiveOwns
<1>4. \A v \in Nodes : Ready(v) <=> v = 0
    BY <1>0, <1>f, ParentFacts DEF Ready, NaiveInv
<1>5. NaiveType'
    <2>1. waiting' \subseteq Threads /\ thrown' \in BOOLEAN /\ solving' \in BOOLEAN /\ out' \in [Threads -> Seq(1 .. size)]
        BY <1>0 DEF NaiveInv, NaiveType
    <2>2. pc' \in [Threads -> {"joined", "ticket", "pop", "work", "working", "children", "notify", "returned"}]
        BY <1>0
    <2>3. current' \in [Threads -> Nodes]
        BY <1>0 DEF NaiveInv, NaiveType
    <2>4. Cardinality(crew) \in Nat
        BY NaiveThreadSets DEF NaiveInv
    <2>5. num_work_left' \in -Cardinality(crew) .. size
        BY <1>0, <1>f, <2>4
    <2> QED BY <1>q, <1>t, <2>1, <2>2, <2>3, <2>5 DEF NaiveType
<1>6. NaiveThreads'
    BY <1>0, <1>1 DEF NaiveThreads
<1>7. NaivePlaces'
    BY <1>0, <1>1, <1>3, <1>q, <1>t, EmptyHasNothing DEF NaivePlaces
<1>8. NaiveReady'
    <2>1. ASSUME NEW v \in Nodes PROVE NaiveSomewhere(v)' <=> v = 0
        <3>1. v + 1 = 1 <=> v = 0
            BY <1>f
        <3> QED BY <1>q, <1>3, <1>f, <1>0, <3>1 DEF NaiveSomewhere
    <2> QED BY <1>t, <1>4, <2>1 DEF NaiveReady
<1>9. NaiveTickets' = {} /\ NaiveReturned' = {} /\ Worked' = {}
    <2>1. \A t \in crew : pc'[t] = "ticket"
        BY <1>0, <1>f
    <2> QED BY <2>1, <1>0, <1>t DEF NaiveTickets, NaiveReturned, Worked
<1>10. NaiveCount'
    <2>1. Cardinality({}) = 0
        BY FS_EmptySet
    <2> QED BY <2>1, <1>0, <1>f, <1>t, <1>9 DEF NaiveCount
<1>11. Attended'
    BY <1>2 DEF Attended
<1> QED BY <1>0, <1>t, <1>5, <1>6, <1>7, <1>8, <1>10, <1>11 DEF NaiveInv

\* Every step of the solver keeps the invariant.
LEMMA NaiveNextInv == ASSUME NaiveInv, Naive!Next PROVE NaiveInv'
<1>1. ASSUME NEW t \in crew, Naive!Wake(t) PROVE NaiveInv'
    BY <1>1, NaiveWakeInv DEF Naive!Wake, Naive!WakeSpuriously, Naive!treeVars, Naive!local
<1> QED BY <1>1, NaiveSolveInv, NaiveJoinInv, NaiveResetInv, NaiveTakeTicketInv, NaivePopNodeInv, NaiveWaitInv,
           NaiveWorkBeginInv, NaiveWorkEndInv, NaivePushChildInv, NaiveNotifyInv, NaiveNoMoreChildrenInv
        DEF Naive!Next, Naive!WorkerStep

-----------------------------------------------------------------------------
(* TreeSolverNaive: what follows.                                          *)

LEMMA NaiveTypeOK == NaiveInv => Naive!TypeOK
BY DEF NaiveInv, NaiveType, WorkedOK, Naive!TypeOK, Naive!size, Naive!Nodes, Naive!Cardinality, size, Nodes, Cardinality

\* When the waiters are the only ones that have not returned, nothing is queued or held,
\* so that every node is done, and the waiters have taken units that do not exist.
LEMMA NaiveNobodySleeps == NaiveInv => Naive!NobodySleepsForever
<1> SUFFICES ASSUME NaiveInv, waiting # {}, \A t \in crew \ waiting : pc[t] = "returned" PROVE FALSE
    BY DEF Naive!NobodySleepsForever
<1>1. PICK w \in waiting : w \in crew /\ w \in Threads /\ pc[w] = "pop" /\ solving
    BY TreeFacts DEF NaiveInv, NaiveType, Attended, NaiveThreads
<1>2. \A t \in crew : t \in Threads /\ (pc[t] = "returned" \/ (pc[t] = "pop" /\ t \in waiting))
    <2>1. crew \subseteq Threads
        BY TreeFacts DEF NaiveInv
    <2>2. \A t \in waiting : pc[t] = "pop"
        BY DEF NaiveInv, Attended
    <2> QED BY <2>1, <2>2
<1>3. Attending = {}
    BY <1>2 DEF Attending
<1>4. m_queue = <<>>
    <2>1. Len(m_queue) <= 0 /\ m_queue \in Seq(1 .. size)
        BY <1>1, <1>3, FS_EmptySet DEF NaiveInv, NaiveType, Attended
    <2> QED BY <2>1
<1>5. \A v \in Nodes : ~NaiveSomewhere(v)
    BY <1>2, <1>4, NaiveQuiet, EmptyHasNothing DEF NaiveSomewhere, NaiveOwns
<1>6. \A v \in Nodes : done[v]
    BY <1>1, <1>5, SomeReady DEF NaiveInv, NaiveReady
<1>7. Worked = Nodes /\ w \in NaiveTickets
    BY <1>1, <1>6 DEF Worked, NaiveTickets
<1>8. Cardinality(Worked) = size /\ Cardinality(NaiveTickets) >= 1 /\ Cardinality(NaiveTickets) \in Nat /\ size \in Nat
    BY <1>7, NaiveThreadSets, ThreadsCounted DEF NaiveInv, size
<1>9. Cardinality(Worked) + Cardinality(NaiveTickets) <= size
    BY <1>1 DEF NaiveInv, NaiveCount
<1> QED BY <1>8, <1>9

\* Every step of the solver is one of the abstract specification or changes nothing in it.
LEMMA NaiveWorks ==
    ASSUME NaiveInv, solver = "naive", Naive!Next, UNCHANGED <<solver, phase>>
    PROVE  [Work!WorkNext]_(Work!workVars)
<1>1. CASE Naive!Solve
    <2>1. /\ ~solving /\ (\A v \in Nodes : ~done[v]) /\ solving' = TRUE /\ UNCHANGED <<crew, edges, done>>
        BY <1>1 DEF Naive!Solve, Naive!treeVars, Naive!Nodes, Nodes
    <2>2. UNCHANGED <<[v \in Nodes |-> parent(v)], Worked>> /\ Worked = {}
        BY <2>1, TreeKept, ParentsKept DEF NaiveInv, Worked
    <2> QED BY <2>1, <2>2 DEF Work!WorkNext, Work!Begin, Worked
<1>2. CASE Naive!Join
    <2>1. Worked = Nodes
        BY <1>2, NaiveAllDone DEF Naive!Join
    <2>2. solving /\ solving' = FALSE /\ UNCHANGED <<crew, edges, done>>
        BY <1>2 DEF Naive!Join, Naive!treeVars
    <2>3. UNCHANGED <<[v \in Nodes |-> parent(v)], Worked>>
        BY <2>2, TreeKept, ParentsKept DEF NaiveInv
    <2> QED BY <2>1, <2>2, <2>3 DEF Work!WorkNext, Work!End, Work!Tasks, Worked
<1>3. CASE Naive!Reset
    <2>1. ~solving /\ done' = [v \in Nodes |-> FALSE] /\ UNCHANGED <<crew, edges, solving>>
        BY <1>3 DEF Naive!Reset, Naive!TreeReset, Naive!Nodes, Nodes
    <2>2. UNCHANGED [v \in Nodes |-> parent(v)] /\ Worked' = {}
        BY <2>1, TreeKept, ParentsKept DEF NaiveInv, Worked
    <2> QED BY <2>1, <2>2 DEF Work!WorkNext, Work!StartOver, Worked
<1>4. ASSUME NEW t \in crew, Naive!WorkEnd(t) PROVE Work!WorkNext
    <2>1. t \in Threads /\ current[t] \in Nodes
        BY TreeFacts DEF NaiveInv, NaiveType
    <2>2. pc[t] = "working" /\ done' = [done EXCEPT ![current[t]] = TRUE] /\ UNCHANGED <<crew, edges, solving>>
        BY <1>4 DEF Naive!WorkEnd, Naive!Goto, Naive!WorkStore
    <2>3. Ready(current[t]) /\ solving
        BY <2>1, <2>2 DEF NaiveInv, NaiveThreads, NaiveReady, NaiveSomewhere, NaiveOwns
    <2> QED BY <2>1, <2>2, <2>3, WorkOnNode DEF NaiveInv
<1>5. ASSUME UNCHANGED <<crew, edges, done, solving>> PROVE UNCHANGED Work!workVars
    BY <1>5, TreeKept, ParentsKept DEF Work!workVars, NaiveInv, Worked
<1>6. ASSUME NEW t \in crew, Naive!WorkerStep(t) \/ Naive!Wake(t), ~Naive!WorkEnd(t)
      PROVE  UNCHANGED <<crew, edges, done, solving>>
    BY <1>6 DEF Naive!WorkerStep, Naive!TakeTicket, Naive!PopNode, Naive!Wait, Naive!Wake, Naive!WorkBegin,
        Naive!WorkChecks, Naive!PushChild, Naive!Notify, Naive!NoMoreChildren, Naive!treeVars
<1> QED BY <1>1, <1>2, <1>3, <1>4, <1>5, <1>6 DEF Naive!Next

-----------------------------------------------------------------------------
(* TreeSolverSequential: the stack holds what can be worked on.            *)

SequentialInv ==
    /\ TaskTree /\ thrown = FALSE /\ solving \in BOOLEAN /\ WorkedOK
    /\ task_queue \in Seq(Nodes) /\ Once(task_queue)
    /\ IF solving THEN \A v \in Nodes : Ready(v) <=> In(v, task_queue) ELSE task_queue = <<>>

\* Taking out the last element.
LEMMA LastTaken ==
    ASSUME NEW S, done_task \notin S, NEW q \in Seq(S), q # <<>>, Once(q)
    PROVE  /\ q[Len(q)] \in S /\ In(q[Len(q)], q)
           /\ SubSeq(q, 1, Len(q) - 1) \in Seq(S) /\ Once(SubSeq(q, 1, Len(q) - 1))
           /\ \A e : In(e, SubSeq(q, 1, Len(q) - 1)) <=> In(e, q) /\ e # q[Len(q)]
<1> DEFINE k == Len(q)
           a == SubSeq(q, 1, k - 1)
<1>1. k \in Nat /\ k >= 1 /\ DOMAIN q = 1 .. k /\ \A i \in 1 .. k : q[i] \in S
    BY SequenceFacts, ElementOfSeq
<1>2. k - 1 \in 0 .. Len(q)
    BY <1>1
<1>3. a \in Seq(S) /\ Len(a) = k - 1 /\ Once(a)
    BY <1>2, SequenceCut
<1>4. DOMAIN a = 1 .. k - 1 /\ \A i \in 1 .. k - 1 : a[i] = q[i]
    <2>1. \A i \in 1 .. k - 1 : q[i] \in S
        BY <1>1
    <2> QED BY <1>1, <2>1, SubSeqProperties
<1> HIDE DEF k, a
<1>5. k \in DOMAIN q /\ q[k] \in S /\ q[k] # done_task
    BY <1>1
<1>6. \A i \in DOMAIN a : i \in DOMAIN q /\ i # k /\ a[i] = q[i]
    BY <1>1, <1>4
<1>7. \A i \in DOMAIN q : i = k \/ (i \in DOMAIN a /\ a[i] = q[i])
    BY <1>1, <1>4
<1>8. \A e : In(e, a) <=> In(e, q) /\ e # q[k]
    BY <1>5, <1>6, <1>7 DEF In, Once
<1> QED BY <1>3, <1>5, <1>8 DEF In, a, k

LEMMA SequentialInitInv == Sequential!Init => SequentialInv
<1> SUFFICES ASSUME Sequential!Init PROVE SequentialInv
    OBVIOUS
<1>1. TaskTree
    BY DEF Sequential!Init, Sequential!TreeInit, TaskTree
<1>2. task_queue = <<>> /\ solving = FALSE /\ thrown = FALSE /\ done = [v \in Nodes |-> FALSE]
    BY DEF Sequential!Init, Sequential!TreeInit, Sequential!Nodes, Nodes
<1>3. WorkedOK
    BY <1>2 DEF WorkedOK
<1>4. task_queue \in Seq(Nodes) /\ Once(task_queue)
    BY <1>2, EmptyHasNothing
<1> QED BY <1>1, <1>2, <1>3, <1>4 DEF SequentialInv

LEMMA SequentialSolveInv == ASSUME SequentialInv, Sequential!Solve PROVE SequentialInv'
<1>0. /\ (\A v \in Nodes : ~done[v]) /\ solving' = TRUE /\ task_queue' = <<0>> /\ UNCHANGED <<crew, edges, done, thrown>>
    BY DEF Sequential!Solve, Sequential!treeVars, Sequential!Nodes, Nodes
<1>1. 0 \in Nodes
    BY TreeFacts DEF SequentialInv
<1>2. task_queue' \in Seq(Nodes) /\ Once(task_queue') /\ \A e : In(e, task_queue') <=> e = 0
    <2>1. DOMAIN <<0>> = {1} /\ <<0>>[1] = 0 /\ <<0>> \in Seq(Nodes)
        BY <1>1
    <2> QED BY <1>0, <2>1 DEF Once, In
<1>3. \A v \in Nodes : Ready(v) <=> v = 0
    BY <1>0, <1>1, ParentFacts DEF Ready, SequentialInv
<1> QED BY <1>0, <1>2, <1>3, TreeKept DEF SequentialInv

\* The node on top of the stack is ready; its children take its place.
LEMMA SequentialWorkInv ==
    ASSUME SequentialInv, Sequential!WorkOnLast
    PROVE  /\ SequentialInv'
           /\ \E c \in Nodes : Ready(c) /\ done' = [done EXCEPT ![c] = TRUE]
<1> DEFINE c == task_queue[Len(task_queue)]
           rest == SubSeq(task_queue, 1, Len(task_queue) - 1)
<1>0. /\ solving /\ task_queue # <<>> /\ thrown' = (done[c] \/ \E p \in parent(c) : ~done[p])
      /\ done' = [done EXCEPT ![c] = TRUE] /\ task_queue' = rest \o edges[c]
      /\ UNCHANGED <<crew, edges, solving>>
    BY DEF Sequential!WorkOnLast, Sequential!Last, Sequential!Front, Sequential!parent, parent, Sequential!Nodes, Nodes,
           Sequential!Children, Children
<1>1. done_task \notin Nodes
    BY TreeFacts DEF SequentialInv
<1>2. /\ c \in Nodes /\ In(c, task_queue) /\ rest \in Seq(Nodes) /\ Once(rest)
      /\ \A e : In(e, rest) <=> In(e, task_queue) /\ e # c
    BY <1>0, <1>1, LastTaken DEF SequentialInv
<1> HIDE DEF c, rest
<1>3. Ready(c)
    BY <1>0, <1>2 DEF SequentialInv
<1>4. /\ \A v \in Nodes : Ready(v)' <=> (v # c /\ Ready(v)) \/ c \in parent(v)
      /\ \A v \in Nodes : c \in parent(v) => ~Ready(v) /\ v # c
      /\ WorkedOK'
    BY <1>0, <1>2, <1>3, NodeDone DEF SequentialInv
<1>5. /\ edges[c] \in Seq(Nodes) /\ Once(edges[c])
      /\ \A v \in Nodes : In(v, edges[c]) <=> c \in parent(v)
    BY <1>2, ParentFacts DEF SequentialInv, Once, In, parent, Children
<1>6. \A e : In(e, rest) /\ In(e, edges[c]) => e = done_task
    <2>1. \A e : In(e, rest) => e \in Nodes
        BY <1>2, SequenceFacts
    <2> QED BY <2>1, <1>2, <1>4, <1>5, <1>0 DEF SequentialInv
<1>7. rest \o edges[c] \in Seq(Nodes) /\ Once(rest \o edges[c])
      /\ \A e : In(e, rest \o edges[c]) <=> In(e, rest) \/ In(e, edges[c])
    BY <1>2, <1>5, <1>6, SequencesJoined
<1>8. Nodes' = Nodes /\ TaskTree'
    BY <1>0, TreeKept DEF SequentialInv
<1>9. \A v \in Nodes : Ready(v)' <=> In(v, task_queue')
    BY <1>0, <1>2, <1>4, <1>5, <1>7 DEF SequentialInv
<1>10. thrown' = FALSE
    BY <1>0, <1>3 DEF Ready
<1>11. solving' = TRUE
    BY <1>0 DEF SequentialInv
<1>12. SequentialInv'
    BY <1>0, <1>4, <1>7, <1>8, <1>9, <1>10, <1>11 DEF SequentialInv
<1> QED BY <1>0, <1>2, <1>3, <1>12

\* Nothing on the stack, nothing left to be done.
LEMMA SequentialAllDone == SequentialInv /\ solving /\ task_queue = <<>> => Worked = Nodes
BY SomeReady, EmptyHasNothing DEF SequentialInv, Worked

LEMMA SequentialNextInv == ASSUME SequentialInv, Sequential!Next PROVE SequentialInv'
<1>1. CASE Sequential!Return
    <2>1. solving' = FALSE /\ task_queue' = <<>> /\ UNCHANGED <<crew, edges, done, thrown>>
        BY <1>1 DEF Sequential!Return, Sequential!treeVars
    <2>2. task_queue' \in Seq(Nodes) /\ Once(task_queue') /\ TaskTree' /\ WorkedOK' /\ Nodes' = Nodes
        BY <2>1, TreeKept, EmptyHasNothing DEF SequentialInv
    <2> QED BY <2>1, <2>2 DEF SequentialInv
<1>2. CASE Sequential!Reset
    <2>1. ~solving /\ done' = [v \in Nodes |-> FALSE] /\ UNCHANGED <<crew, edges, thrown, solving, task_queue>>
        BY <1>2 DEF Sequential!Reset, Sequential!TreeReset, Sequential!Nodes, Nodes
    <2>2. TaskTree' /\ Nodes' = Nodes
        BY <2>1, TreeKept DEF SequentialInv
    <2>3. WorkedOK'
        BY <2>1, <2>2 DEF WorkedOK
    <2> QED BY <2>1, <2>2, <2>3 DEF SequentialInv
<1> QED BY <1>1, <1>2, SequentialSolveInv, SequentialWorkInv DEF Sequential!Next

LEMMA SequentialTypeOK == SequentialInv => Sequential!TypeOK
<1> SUFFICES ASSUME SequentialInv PROVE Sequential!TypeOK
    OBVIOUS
<1>1. \A i \in DOMAIN task_queue : task_queue[i] \in Nodes /\ task_queue[i] # done_task
    <2>1. done_task \notin Nodes
        BY TreeFacts DEF SequentialInv
    <2> QED BY <2>1 DEF SequentialInv
<1>2. Sequential!IsInjective(task_queue)
    BY <1>1 DEF SequentialInv, Once, Sequential!IsInjective
<1>3. \A i \in DOMAIN task_queue : ~done[task_queue[i]]
    <2> SUFFICES ASSUME NEW i \in DOMAIN task_queue PROVE ~done[task_queue[i]]
        OBVIOUS
    <2>1. In(task_queue[i], task_queue) /\ task_queue # <<>>
        BY SequenceFacts DEF In, SequentialInv
    <2> QED BY <2>1, <1>1 DEF SequentialInv, Ready
<1> QED BY <1>2, <1>3 DEF SequentialInv, WorkedOK, Sequential!TypeOK, Sequential!Nodes, Nodes

LEMMA SequentialWorks ==
    ASSUME SequentialInv, solver = "sequential", Sequential!Next, UNCHANGED <<solver, phase>>
    PROVE  [Work!WorkNext]_(Work!workVars)
<1>1. CASE Sequential!Solve
    <2>1. /\ ~solving /\ (\A v \in Nodes : ~done[v]) /\ solving' = TRUE /\ UNCHANGED <<crew, edges, done>>
        BY <1>1 DEF Sequential!Solve, Sequential!treeVars, Sequential!Nodes, Nodes
    <2>2. UNCHANGED <<[v \in Nodes |-> parent(v)], Worked>> /\ Worked = {}
        BY <2>1, TreeKept, ParentsKept DEF SequentialInv, Worked
    <2> QED BY <2>1, <2>2 DEF Work!WorkNext, Work!Begin, Worked
<1>2. CASE Sequential!Return
    <2>1. Worked = Nodes
        BY <1>2, SequentialAllDone DEF Sequential!Return
    <2>2. solving /\ solving' = FALSE /\ UNCHANGED <<crew, edges, done>>
        BY <1>2 DEF Sequential!Return, Sequential!treeVars
    <2>3. UNCHANGED <<[v \in Nodes |-> parent(v)], Worked>>
        BY <2>2, TreeKept, ParentsKept DEF SequentialInv
    <2> QED BY <2>1, <2>2, <2>3 DEF Work!WorkNext, Work!End, Work!Tasks, Worked
<1>3. CASE Sequential!Reset
    <2>1. ~solving /\ done' = [v \in Nodes |-> FALSE] /\ UNCHANGED <<crew, edges, solving>>
        BY <1>3 DEF Sequential!Reset, Sequential!TreeReset, Sequential!Nodes, Nodes
    <2>2. UNCHANGED [v \in Nodes |-> parent(v)] /\ Worked' = {}
        BY <2>1, TreeKept, ParentsKept DEF SequentialInv, Worked
    <2> QED BY <2>1, <2>2 DEF Work!WorkNext, Work!StartOver, Worked
<1>4. CASE Sequential!WorkOnLast
    <2>1. PICK c \in Nodes : Ready(c) /\ done' = [done EXCEPT ![c] = TRUE]
        BY <1>4, SequentialWorkInv
    <2>2. solving /\ UNCHANGED <<crew, edges, solving>>
        BY <1>4 DEF Sequential!WorkOnLast
    <2> QED BY <2>1, <2>2, WorkOnNode DEF SequentialInv
<1> QED BY <1>1, <1>2, <1>3, <1>4 DEF Sequential!Next
-----------------------------------------------------------------------------
(* TreeSolver: where the nodes and the done_tasks are.                     *)

\* What a thread has in its hand: a node that it popped, or the children of one that is done.
LocalHolds(t, v) ==
    \/ pc[t] = "estimate" /\ current[t] = v + 1
    \/ pc[t] \in {"work", "working"} /\ current[t] = v
LocalExpects(t, v) == pc[t] = "distribute" /\ current[t] \in parent(v)
LocalHand(t, v) == LocalHolds(t, v) \/ LocalExpects(t, v)
LocalKeeps(t, v) == In(v + 1, out[t]) \/ In(v + 1, m_local_queues[t])
LocalOwns(t, v) == LocalHand(t, v) \/ LocalKeeps(t, v)
LocalSomewhere(v) == In(v + 1, m_queue) \/ \E t \in crew : LocalOwns(t, v)

Elements == (1 .. size) \cup {done_task}

\* Every variable of a solver's run has its type.
LocalFunctions ==
    /\ m_queue \in Seq(Elements) /\ waiting \subseteq Threads
    /\ m_local_queues \in [Threads -> Seq(1 .. size)]
    /\ pc \in [Threads -> {"joined", "next", "pop", "estimate", "work", "working",
                           "distribute", "add", "push", "notify", "returned"}]
    /\ current \in [Threads -> 0 .. done_task]
    /\ out \in [Threads \cup {"main"} -> Seq(Elements)]
LocalNumbers ==
    /\ thrown \in BOOLEAN /\ phase \in {"idle", "workers", "drain"}
    /\ num_work_left \in -Cardinality(crew) .. size
    /\ num_elements_in_queues \in -(Cardinality(crew) + 1) .. size

\* What the program counter of a worker says of its locals; what it has still to push is
\* done_tasks or children.
Worker(t) ==
    /\ pc[t] # "joined" <=> phase = "workers" /\ t \in crew
    /\ pc[t] \in {"work", "working", "distribute", "add"} => current[t] \in Nodes
    /\ pc[t] = "estimate" => current[t] \in Elements
    /\ pc[t] = "pop" => current[t] = done_task
    /\ pc[t] = "push" => out[t] # <<>>
    /\ pc[t] \in {"joined", "next", "returned"} => current[t] = 0
    /\ pc[t] \in {"push", "notify"} => current[t] \in {0, done_task}
    /\ pc[t] \in {"joined", "returned"} \/ current[t] = done_task => m_local_queues[t] = <<>>
    /\ pc[t] # "joined" /\ out[t] # <<>> => pc[t] \in {"add", "push", "notify"}
    /\ pc[t] # "joined" =>
        IF current[t] = done_task THEN Dones(out[t]) = Len(out[t]) ELSE ~In(done_task, out[t])
LocalThreads ==
    /\ \A t \in Threads : Worker(t)
    /\ phase # "workers" => waiting = {}
    /\ phase = "idle" => m_queue = <<>>

\* Who has something to push, the workers or the loop after the join.
LocalOutputs ==
    /\ \A x \in Threads \cup {"main"} :
        out[x] # <<>> => (x \in crew /\ phase = "workers") \/ (x = "main" /\ phase = "drain")
    /\ phase = "drain" => out["main"] \in Seq(Nodes \ {0})

\* No node is in two places.
LocalPlaces ==
    phase = "workers" =>
        /\ Once(m_queue)
        /\ \A t \in Threads : Once(out[t]) /\ Once(m_local_queues[t])
        /\ \A t \in Threads, v \in Nodes :
            /\ ~(LocalHand(t, v) /\ LocalKeeps(t, v))
            /\ ~(In(v + 1, out[t]) /\ In(v + 1, m_local_queues[t]))
            /\ LocalOwns(t, v) => /\ ~In(v + 1, m_queue)
                                  /\ \A u \in Threads : LocalOwns(u, v) => u = t

\* The nodes that can be worked on are those that are queued or held.
LocalReady == phase = "workers" => \A v \in Nodes : Ready(v) <=> LocalSomewhere(v)

\* num_work_left: a unit for every node that was popped, and one for every worker that
\* has none.
Popped == {v \in Nodes : done[v] \/ \E t \in crew : LocalHolds(t, v)}
Outstanding == {t \in crew : pc[t] = "returned" \/ current[t] = done_task}
LocalCount ==
    phase = "workers" => num_work_left = size - Cardinality(Popped) - Cardinality(Outstanding)

\* The done_tasks: from the first that are pushed there are always enough for those that have not got one;
\* before, there is a node left or a worker that is going to find that there is none.
Ended == {t \in crew : pc[t] = "returned" \/ (pc[t] = "estimate" /\ current[t] = done_task)}
DonesToPush(t) == IF current[t] = done_task THEN Len(out[t]) ELSE 0
Quota(t) == Dones(m_queue) + DonesToPush(t) + Cardinality(Ended) >= Cardinality(crew)
NotEnding ==
    /\ ~In(done_task, m_queue) /\ Ended = {}
    /\ \A t \in crew : ~In(done_task, out[t])
    /\ Popped # Nodes \/ Outstanding # crew
LocalEnding == phase = "workers" => NotEnding \/ \E t \in crew : Quota(t)

\* The nodes that num_elements_in_queues counts.
Adds(t, v) == pc[t] = "add" /\ current[t] \in parent(v)
Estimated ==
    {v \in Nodes : \/ In(v + 1, m_queue)
                   \/ \E t \in crew : \/ pc[t] = "estimate" /\ current[t] = v + 1
                                      \/ LocalKeeps(t, v) /\ ~Adds(t, v)}
LocalReturned == {t \in crew : pc[t] = "returned"}
LocalEstimate ==
    phase = "workers" =>
        /\ num_elements_in_queues = Cardinality(Estimated) - Cardinality(LocalReturned) - 1
        /\ \A t \in crew, v \in Nodes : Adds(t, v) => LocalKeeps(t, v)

\* The drain: as many nodes in the queue as there are nodes to be worked on.
Frontier == {v \in Nodes : Ready(v)}
DrainCount ==
    phase = "drain" /\ ~thrown => Len(m_queue) - Dones(m_queue) + Len(out["main"]) = Cardinality(Frontier)

LocalInv ==
    /\ TaskTree /\ LocalFunctions /\ LocalNumbers /\ (thrown => phase = "drain")
    /\ LocalThreads /\ LocalOutputs /\ LocalPlaces /\ WorkedOK /\ LocalReady
    /\ LocalCount /\ LocalEnding /\ Attended /\ LocalEstimate /\ DrainCount

\* What a step of one worker leaves alone.
LocalFrame(t) ==
    /\ UNCHANGED <<crew, edges, phase>>
    /\ \A u \in Threads \ {t} :
        pc'[u] = pc[u] /\ current'[u] = current[u] /\ m_local_queues'[u] = m_local_queues[u]
    /\ \A x \in (Threads \cup {"main"}) \ {t} : out'[x] = out[x]

\* While the workers run.
LEMMA LocalFacts ==
    ASSUME LocalInv, phase = "workers", NEW t \in Threads
    PROVE  /\ pc[t] \in {"joined", "next", "pop", "estimate", "work", "working",
                         "distribute", "add", "push", "notify", "returned"}
           /\ current[t] \in 0 .. done_task
           /\ out[t] \in Seq(Elements) /\ Once(out[t])
           /\ m_local_queues[t] \in Seq(1 .. size) /\ Once(m_local_queues[t])
           /\ Worker(t)
           /\ (pc[t] \notin {"add", "push", "notify"} => out[t] = <<>>)
           /\ (t \notin crew => out[t] = <<>> /\ m_local_queues[t] = <<>> /\ pc[t] = "joined")
<1>1. /\ pc[t] \in {"joined", "next", "pop", "estimate", "work", "working",
                    "distribute", "add", "push", "notify", "returned"}
      /\ current[t] \in 0 .. done_task /\ out[t] \in Seq(Elements) /\ m_local_queues[t] \in Seq(1 .. size)
    BY DEF LocalInv, LocalFunctions
<1>2. Once(out[t]) /\ Once(m_local_queues[t])
    BY DEF LocalInv, LocalPlaces
<1>3. Worker(t)
    BY DEF LocalInv, LocalThreads
<1>4. out[t] # <<>> => t \in crew
    BY DEF LocalInv, LocalOutputs
<1>5. t \notin crew => pc[t] = "joined"
    BY <1>3 DEF Worker
<1>6. pc[t] \notin {"add", "push", "notify"} => out[t] = <<>>
    BY <1>3, <1>4, <1>5 DEF Worker
<1>7. t \notin crew => m_local_queues[t] = <<>>
    BY <1>3, <1>5 DEF Worker
<1> QED BY <1>1, <1>2, <1>3, <1>4, <1>5, <1>6, <1>7

\* Who does not run has nothing.
LEMMA LocalOthersEmpty ==
    ASSUME LocalInv, phase = "workers", NEW t \in Threads, NEW v \in Nodes, LocalOwns(t, v)
    PROVE  t \in crew /\ pc[t] \notin {"joined", "returned", "pop"}
<1>1. (\A e : ~In(e, <<>>))
    BY EmptyHasNothing
<1>2. pc[t] \in {"joined", "returned", "pop"} => out[t] = <<>> /\ m_local_queues[t] = <<>>
    BY LocalFacts DEF Worker
<1>3. t \notin crew => pc[t] = "joined"
    BY LocalFacts
<1>4. pc[t] \notin {"joined", "returned", "pop"}
    BY <1>1, <1>2 DEF LocalOwns, LocalHand, LocalHolds, LocalExpects, LocalKeeps
<1> QED BY <1>3, <1>4

\* What the other threads have stays with them.
LEMMA LocalOthersStill ==
    ASSUME TaskTree, NEW t, LocalFrame(t), NEW u \in Threads \ {t}, NEW v
    PROVE  /\ LocalHolds(u, v)' <=> LocalHolds(u, v)
           /\ LocalHand(u, v)' <=> LocalHand(u, v)
           /\ LocalKeeps(u, v)' <=> LocalKeeps(u, v)
           /\ LocalOwns(u, v)' <=> LocalOwns(u, v)
           /\ Adds(u, v)' <=> Adds(u, v)
           /\ out'[u] = out[u] /\ m_local_queues'[u] = m_local_queues[u]
<1>1. /\ pc'[u] = pc[u] /\ current'[u] = current[u] /\ out'[u] = out[u] /\ m_local_queues'[u] = m_local_queues[u]
    BY DEF LocalFrame
<1>2. parent(v)' = parent(v)
    BY TreeKept DEF LocalFrame
<1> QED BY <1>1, <1>2 DEF LocalHolds, LocalHand, LocalExpects, LocalKeeps, LocalOwns, Adds

\* A worker that moves nodes between the shared queue, its hand and its own queues, of which
\* none is lost nor in two places.
LEMMA LocalMove ==
    ASSUME LocalInv, phase = "workers", NEW t \in crew, LocalFrame(t), UNCHANGED done,
           Once(m_queue'), Once(out'[t]), Once(m_local_queues'[t]),
           \A v \in Nodes : In(v + 1, m_queue)' \/ LocalOwns(t, v)' <=> In(v + 1, m_queue) \/ LocalOwns(t, v),
           \A v \in Nodes : /\ ~(In(v + 1, m_queue') /\ LocalOwns(t, v)')
                            /\ ~(LocalHand(t, v)' /\ LocalKeeps(t, v)')
                            /\ ~(In(v + 1, out'[t]) /\ In(v + 1, m_local_queues'[t]))
    PROVE  LocalPlaces' /\ LocalReady'
<1>f. TaskTree /\ t \in Threads /\ crew \subseteq Threads
    BY TreeFacts DEF LocalInv
<1>t. /\ Nodes' = Nodes /\ crew' = crew /\ \A v : Ready(v)' <=> Ready(v)
    BY <1>f, TreeKept DEF LocalFrame
<1>1. \A u \in Threads \ {t}, v \in Nodes :
        /\ LocalHand(u, v)' <=> LocalHand(u, v)
        /\ LocalKeeps(u, v)' <=> LocalKeeps(u, v)
        /\ LocalOwns(u, v)' <=> LocalOwns(u, v)
        /\ out'[u] = out[u] /\ m_local_queues'[u] = m_local_queues[u]
    BY <1>f, LocalOthersStill
<1>2. \A v \in Nodes : In(v + 1, m_queue)' <=> In(v + 1, m_queue')
    BY DEF In
<1>p. /\ \A u \in Threads : Once(out[u]) /\ Once(m_local_queues[u])
      /\ \A u \in Threads, v \in Nodes :
            /\ ~(LocalHand(u, v) /\ LocalKeeps(u, v))
            /\ ~(In(v + 1, out[u]) /\ In(v + 1, m_local_queues[u]))
            /\ LocalOwns(u, v) => /\ ~In(v + 1, m_queue)
                                  /\ \A w \in Threads : LocalOwns(w, v) => w = u
    BY DEF LocalInv, LocalPlaces
<1>3. ASSUME NEW u \in Threads PROVE Once(out'[u]) /\ Once(m_local_queues'[u])
    <2>1. CASE u = t
        BY <2>1
    <2>2. CASE u # t
        BY <2>2, <1>p DEF LocalFrame
    <2> QED BY <2>1, <2>2
<1>4. ASSUME NEW u \in Threads, NEW v \in Nodes
      PROVE  /\ ~(LocalHand(u, v)' /\ LocalKeeps(u, v)')
             /\ ~(In(v + 1, out'[u]) /\ In(v + 1, m_local_queues'[u]))
    BY <1>1, <1>p
<1>5. ASSUME NEW u \in Threads, NEW v \in Nodes, LocalOwns(u, v)'
      PROVE  ~In(v + 1, m_queue') /\ \A w \in Threads : LocalOwns(w, v)' => w = u
    <2>1. CASE u = t
        <3>1. ASSUME NEW w \in Threads \ {t}, LocalOwns(w, v)' PROVE FALSE
            <4>1. LocalOwns(w, v)
                BY <3>1, <1>1
            <4>2. ~In(v + 1, m_queue) /\ ~LocalOwns(t, v)
                BY <4>1, <1>p, <1>f
            <4> QED BY <4>2, <1>5, <2>1
        <3> QED BY <2>1, <3>1, <1>5
    <2>2. CASE u # t
        <3>1. LocalOwns(u, v) /\ ~In(v + 1, m_queue) /\ \A w \in Threads : LocalOwns(w, v) => w = u
            BY <1>5, <2>2, <1>1, <1>p
        <3>2. ~LocalOwns(t, v)
            BY <3>1, <2>2, <1>f
        <3>3. ~In(v + 1, m_queue') /\ ~LocalOwns(t, v)'
            BY <3>1, <3>2, <1>2
        <3> QED BY <3>1, <3>3, <1>1
    <2> QED BY <2>1, <2>2
<1>6. LocalPlaces'
    BY <1>3, <1>4, <1>5, <1>t DEF LocalPlaces
<1>7. \A v \in Nodes : LocalSomewhere(v)' <=> LocalSomewhere(v)
    <2> SUFFICES ASSUME NEW v \in Nodes PROVE LocalSomewhere(v)' <=> LocalSomewhere(v)
        OBVIOUS
    <2>1. \A u \in crew \ {t} : LocalOwns(u, v)' <=> LocalOwns(u, v)
        BY <1>1, <1>f
    <2> QED BY <2>1, <1>t DEF LocalSomewhere
<1>8. LocalReady'
    BY <1>7, <1>t DEF LocalInv, LocalReady, LocalFrame
<1> QED BY <1>6, <1>8

\* The sets that are counted.
LEMMA LocalSets ==
    ASSUME TaskTree
    PROVE  /\ Popped \in SUBSET Nodes /\ Estimated \in SUBSET Nodes
           /\ Outstanding \in SUBSET crew /\ Ended \in SUBSET crew /\ LocalReturned \in SUBSET crew
           /\ Attending \in SUBSET crew
           /\ Cardinality(Popped) \in 0 .. size /\ Cardinality(Estimated) \in 0 .. size /\ size \in Nat
           /\ Cardinality(Outstanding) \in 0 .. Cardinality(crew) /\ Cardinality(Ended) \in 0 .. Cardinality(crew)
           /\ Cardinality(LocalReturned) \in 0 .. Cardinality(crew)
           /\ Cardinality(Attending) \in Nat /\ Cardinality(crew) \in Nat
<1>1. /\ Popped \in SUBSET Nodes /\ Estimated \in SUBSET Nodes
      /\ Outstanding \in SUBSET crew /\ Ended \in SUBSET crew /\ LocalReturned \in SUBSET crew
      /\ Attending \in SUBSET crew
    BY DEF Popped, Estimated, Outstanding, Ended, LocalReturned, Attending
<1>2. /\ Cardinality(Popped) \in 0 .. size /\ Cardinality(Estimated) \in 0 .. size /\ size \in Nat
    BY <1>1, NodesCounted
<1>3. /\ Cardinality(Outstanding) \in 0 .. Cardinality(crew) /\ Cardinality(Ended) \in 0 .. Cardinality(crew)
      /\ Cardinality(LocalReturned) \in 0 .. Cardinality(crew) /\ Cardinality(crew) \in Nat
    BY <1>1, ThreadsCounted
<1>4. Cardinality(Attending) \in Nat
    BY <1>1, ThreadsCounted
<1> QED BY <1>1, <1>2, <1>3, <1>4

\* A step of a worker keeps the invariant when it keeps these parts of it.
LEMMA LocalStepInv ==
    ASSUME LocalInv, phase = "workers", NEW t \in crew, LocalFrame(t), LocalFunctions', thrown' = FALSE,
           Worker(t)', LocalPlaces', WorkedOK', LocalReady', LocalCount', LocalEnding', Attended', LocalEstimate'
    PROVE  LocalInv'
<1>t. /\ TaskTree' /\ Nodes' = Nodes /\ crew' = crew /\ edges' = edges /\ size' = size /\ phase' = phase
    BY TreeKept DEF LocalFrame, LocalInv
<1>e. Elements' = Elements
    BY <1>t DEF Elements
<1>1. LocalNumbers'
    <2>0. /\ Popped' \in SUBSET Nodes /\ Estimated' \in SUBSET Nodes
          /\ Outstanding' \in SUBSET crew /\ LocalReturned' \in SUBSET crew
        BY <1>t DEF Popped, Estimated, Outstanding, LocalReturned
    <2>1. \E p, e \in 0 .. size, o, r \in 0 .. Cardinality(crew) :
            num_work_left' = size - p - o /\ num_elements_in_queues' = e - r - 1
        <3>1. num_work_left' = size - Cardinality(Popped') - Cardinality(Outstanding')
            BY <1>t DEF LocalCount
        <3>2. num_elements_in_queues' = Cardinality(Estimated') - Cardinality(LocalReturned') - 1
            BY <1>t DEF LocalEstimate
        <3>3. Cardinality(Popped') \in 0 .. size /\ Cardinality(Estimated') \in 0 .. size
            BY <2>0, NodesCounted DEF LocalInv
        <3>4. Cardinality(Outstanding') \in 0 .. Cardinality(crew) /\ Cardinality(LocalReturned') \in 0 .. Cardinality(crew)
            BY <2>0, ThreadsCounted DEF LocalInv
        <3> QED BY <3>1, <3>2, <3>3, <3>4
    <2>2. size \in Nat /\ Cardinality(crew) \in Nat
        BY LocalSets DEF LocalInv
    <2>3. num_work_left' \in -Cardinality(crew) .. size /\ num_elements_in_queues' \in -(Cardinality(crew) + 1) .. size
        BY <2>1, <2>2
    <2> QED BY <2>3, <1>t DEF LocalNumbers
<1>2. LocalThreads'
    <2>1. ASSUME NEW u \in Threads \ {t} PROVE Worker(u)'
        <3>1. Worker(u)
            BY DEF LocalInv, LocalThreads
        <3>2. pc'[u] = pc[u] /\ current'[u] = current[u] /\ out'[u] = out[u] /\ m_local_queues'[u] = m_local_queues[u]
            BY DEF LocalFrame
        <3> QED BY <3>1, <3>2, <1>t, <1>e DEF Worker
    <2> QED BY <2>1, <1>t DEF LocalThreads
<1>3. LocalOutputs'
    <2>1. \A x \in (Threads \cup {"main"}) \ {t} : out'[x] = out[x]
        BY DEF LocalFrame
    <2> QED BY <2>1, <1>t DEF LocalInv, LocalOutputs
<1>4. DrainCount'
    BY <1>t DEF DrainCount
<1> QED BY <1>t, <1>1, <1>2, <1>3, <1>4 DEF LocalInv

\* A thread that is neither in pop() nor about to notify leaves the attention as it is.
LEMMA LocalAttentionKept ==
    ASSUME LocalInv, phase = "workers", NEW t \in crew, LocalFrame(t), UNCHANGED <<waiting, m_queue>>,
           pc[t] \notin {"pop", "notify"}
    PROVE  Attended'
<1>f. t \in Threads /\ crew \subseteq Threads /\ crew' = crew
    BY TreeFacts DEF LocalInv, LocalFrame
<1>1. \A u \in Threads \ {t} : pc'[u] = pc[u]
    BY DEF LocalFrame
<1>2. \A u \in waiting : u \in crew /\ pc[u] = "pop" /\ u # t
    BY DEF LocalInv, Attended
<1>3. Attending \subseteq Attending' /\ Attending' \in SUBSET crew
    BY <1>f, <1>1 DEF Attending
<1>4. Cardinality(Attending) <= Cardinality(Attending') /\ Cardinality(Attending') \in Nat /\ Cardinality(Attending) \in Nat
    <2>1. IsFiniteSet(Attending')
        BY <1>3, ThreadsCounted DEF LocalInv
    <2> QED BY <1>3, <2>1, FS_Subset, FS_CardinalityType
<1>5. waiting # {} => Len(m_queue) <= Cardinality(Attending)
    BY DEF LocalInv, Attended
<1>6. Len(m_queue) \in Nat
    BY DEF LocalInv, LocalFunctions
<1>7. waiting' # {} => Len(m_queue') <= Cardinality(Attending')
    BY <1>4, <1>5, <1>6
<1> QED BY <1>f, <1>1, <1>2, <1>7 DEF Attended

\* Steps that leave the nodes and the done_tasks where they are.
LEMMA LocalStill ==
    ASSUME LocalInv, phase = "workers", NEW t \in crew, LocalFrame(t),
           UNCHANGED <<done, m_queue, num_work_left, num_elements_in_queues, current, out, m_local_queues>>,
           pc[t] \in {"work", "working"} <=> pc'[t] \in {"work", "working"},
           pc[t] = "estimate" <=> pc'[t] = "estimate",
           pc[t] = "distribute" <=> pc'[t] = "distribute",
           pc[t] = "add" <=> pc'[t] = "add",
           pc[t] = "returned" <=> pc'[t] = "returned"
    PROVE  LocalPlaces' /\ LocalReady' /\ LocalCount' /\ LocalEnding' /\ LocalEstimate' /\ WorkedOK'
<1>f. TaskTree /\ t \in Threads /\ crew \subseteq Threads
    BY TreeFacts DEF LocalInv
<1>t. /\ Nodes' = Nodes /\ crew' = crew /\ size' = size /\ Cardinality(crew)' = Cardinality(crew) /\ phase' = phase
      /\ WorkedOK' /\ \A v : parent(v)' = parent(v)
    BY <1>f, TreeKept DEF LocalFrame, LocalInv
<1>1. \A u \in Threads \ {t} : pc'[u] = pc[u]
    BY DEF LocalFrame
<1>2. ASSUME NEW u \in Threads, NEW v \in Nodes
      PROVE  /\ LocalHolds(u, v)' <=> LocalHolds(u, v)
             /\ LocalHand(u, v)' <=> LocalHand(u, v)
             /\ LocalKeeps(u, v)' <=> LocalKeeps(u, v)
             /\ LocalOwns(u, v)' <=> LocalOwns(u, v)
             /\ Adds(u, v)' <=> Adds(u, v)
    <2>1. /\ LocalHolds(u, v)' <=> LocalHolds(u, v)
          /\ LocalExpects(u, v)' <=> LocalExpects(u, v)
          /\ LocalKeeps(u, v)' <=> LocalKeeps(u, v)
          /\ Adds(u, v)' <=> Adds(u, v)
        <3>1. CASE u = t
            BY <3>1, <1>t DEF LocalHolds, LocalExpects, LocalKeeps, Adds
        <3>2. CASE u # t
            BY <3>2, <1>1, <1>t DEF LocalHolds, LocalExpects, LocalKeeps, Adds
        <3> QED BY <3>1, <3>2
    <2> QED BY <2>1 DEF LocalHand, LocalOwns
<1>3. LocalPlaces'
    BY <1>t, <1>2 DEF LocalInv, LocalPlaces
<1>4. LocalReady'
    <2>1. \A v \in Nodes : LocalSomewhere(v)' <=> LocalSomewhere(v)
        BY <1>f, <1>t, <1>2 DEF LocalSomewhere
    <2>2. \A v : Ready(v)' <=> Ready(v)
        BY <1>f, TreeKept DEF LocalFrame
    <2> QED BY <1>t, <2>1, <2>2 DEF LocalInv, LocalReady
<1>5. Popped' = Popped
    BY <1>f, <1>t, <1>2 DEF Popped
<1>6. Outstanding' = Outstanding /\ Ended' = Ended /\ LocalReturned' = LocalReturned
    BY <1>f, <1>t, <1>1 DEF Outstanding, Ended, LocalReturned
<1>7. Estimated' = Estimated
    <2>1. \A u \in Threads, v \in Nodes :
            (pc[u] = "estimate" /\ current[u] = v + 1)' <=> (pc[u] = "estimate" /\ current[u] = v + 1)
        BY <1>1
    <2> QED BY <1>f, <1>t, <1>2, <2>1 DEF Estimated
<1>8. LocalCount'
    BY <1>t, <1>5, <1>6 DEF LocalInv, LocalCount
<1>9. LocalEstimate'
    BY <1>f, <1>t, <1>2, <1>6, <1>7 DEF LocalInv, LocalEstimate
<1>10. LocalEnding'
    <2>1. NotEnding' <=> NotEnding
        BY <1>t, <1>5, <1>6 DEF NotEnding
    <2>2. \A u \in crew : Quota(u)' <=> Quota(u)
        BY <1>t, <1>6 DEF Quota, DonesToPush, Dones, DonePlaces
    <2> QED BY <1>t, <2>1, <2>2 DEF LocalInv, LocalEnding
<1> QED BY <1>t, <1>3, <1>4, <1>8, <1>9, <1>10

LEMMA LocalWorkBeginInv == ASSUME LocalInv, phase = "workers", NEW t \in crew, Local!WorkBegin(t) PROVE LocalInv'
<1>c. t \in Threads
    BY TreeFacts DEF LocalInv
<1>0. /\ pc[t] = "work" /\ pc' = [pc EXCEPT ![t] = "working"]
      /\ thrown' = (done[current[t]] \/ \E p \in parent(current[t]) : ~done[p])
      /\ UNCHANGED <<m_queue, waiting, crew, edges, done, num_work_left, num_elements_in_queues, phase, current, out,
                     m_local_queues>>
    BY DEF Local!WorkBegin, Local!Goto, Local!WorkChecks, Local!queueVars, Local!counters, Local!parent, Local!Nodes,
           parent, Nodes, Local!Children, Children
<1>1. (\A u \in Threads \ {t} : pc'[u] = pc[u]) /\ pc'[t] = "working"
    BY <1>0, <1>c DEF LocalInv, LocalFunctions
<1>2. LocalFrame(t)
    BY <1>0, <1>1 DEF LocalFrame
<1>3. current[t] \in Nodes
    BY <1>0, <1>c, LocalFacts DEF Worker
<1>4. Ready(current[t])
    BY <1>0, <1>3 DEF LocalInv, LocalReady, LocalSomewhere, LocalOwns, LocalHand, LocalHolds
<1>5. thrown' = FALSE
    BY <1>0, <1>4 DEF Ready
<1>t. /\ TaskTree' /\ Nodes' = Nodes /\ size' = size /\ Elements' = Elements
    BY <1>0, TreeKept DEF LocalInv, Elements
<1>6. LocalFunctions'
    BY <1>0, <1>t DEF LocalInv, LocalFunctions
<1>7. Worker(t)'
    <2>1. Worker(t)
        BY <1>c, LocalFacts
    <2> QED BY <2>1, <1>0, <1>1, <1>t DEF Worker
<1>8. LocalPlaces' /\ LocalReady' /\ LocalCount' /\ LocalEnding' /\ LocalEstimate' /\ WorkedOK'
    BY <1>0, <1>1, <1>2, LocalStill
<1>9. Attended'
    BY <1>0, <1>2, LocalAttentionKept
<1> QED BY <1>2, <1>5, <1>6, <1>7, <1>8, <1>9, LocalStepInv

LEMMA LocalWaitInv == ASSUME LocalInv, phase = "workers", NEW t \in crew, Local!Wait(t) PROVE LocalInv'
<1>c. t \in Threads
    BY TreeFacts DEF LocalInv
<1>0. /\ pc[t] = "pop" /\ m_queue = <<>> /\ waiting' = waiting \cup {t}
      /\ UNCHANGED <<m_queue, crew, edges, done, thrown, num_work_left, num_elements_in_queues, phase, pc, current, out,
                     m_local_queues>>
    BY DEF Local!Wait, Local!WaitForElement, Local!treeVars, Local!counters, Local!local
<1>2. LocalFrame(t)
    BY <1>0 DEF LocalFrame
<1>5. thrown' = FALSE
    BY <1>0 DEF LocalInv, LocalNumbers
<1>t. /\ TaskTree' /\ Nodes' = Nodes /\ size' = size /\ Elements' = Elements
    BY <1>0, TreeKept DEF LocalInv, Elements
<1>6. LocalFunctions'
    BY <1>0, <1>c, <1>t DEF LocalInv, LocalFunctions
<1>7. Worker(t)'
    <2>1. Worker(t)
        BY <1>c, LocalFacts
    <2> QED BY <2>1, <1>0, <1>t DEF Worker
<1>8. LocalPlaces' /\ LocalReady' /\ LocalCount' /\ LocalEnding' /\ LocalEstimate' /\ WorkedOK'
    BY <1>0, <1>2, LocalStill
<1>9. Attended'
    <2>0. Attending' \in SUBSET crew
        BY <1>0 DEF Attending
    <2>1. Len(m_queue') = 0 /\ Cardinality(Attending') \in Nat
        BY <1>0, <2>0, ThreadsCounted DEF LocalInv
    <2> QED BY <2>1, <1>0 DEF LocalInv, Attended
<1> QED BY <1>2, <1>5, <1>6, <1>7, <1>8, <1>9, LocalStepInv

LEMMA LocalWakeInv == ASSUME LocalInv, phase = "workers", NEW t \in crew, Local!Wake(t) PROVE LocalInv'
<1>c. t \in Threads
    BY TreeFacts DEF LocalInv
<1>0. /\ t \in waiting /\ waiting' = waiting \ {t}
      /\ UNCHANGED <<m_queue, crew, edges, done, thrown, num_work_left, num_elements_in_queues, phase, pc, current, out,
                     m_local_queues>>
    BY DEF Local!Wake, Local!WakeSpuriously, Local!treeVars, Local!counters, Local!local
<1>2. LocalFrame(t)
    BY <1>0 DEF LocalFrame
<1>5. thrown' = FALSE
    BY <1>0 DEF LocalInv, LocalNumbers
<1>t. /\ TaskTree' /\ Nodes' = Nodes /\ size' = size /\ Elements' = Elements
    BY <1>0, TreeKept DEF LocalInv, Elements
<1>6. LocalFunctions'
    BY <1>0, <1>c, <1>t DEF LocalInv, LocalFunctions
<1>7. Worker(t)'
    <2>1. Worker(t)
        BY <1>c, LocalFacts
    <2> QED BY <2>1, <1>0, <1>t DEF Worker
<1>8. LocalPlaces' /\ LocalReady' /\ LocalCount' /\ LocalEnding' /\ LocalEstimate' /\ WorkedOK'
    BY <1>0, <1>2, LocalStill
<1>9. Attended'
    <2>1. Attending' = Attending \cup {t} /\ t \in crew \ Attending
        BY <1>0 DEF LocalInv, Attended, Attending
    <2>2. Cardinality(Attending') = Cardinality(Attending) + 1 /\ Cardinality(Attending) \in Nat
        BY <2>1, LocalSets, ThreadsCounted DEF LocalInv
    <2>3. Len(m_queue) \in Nat /\ Len(m_queue) <= Cardinality(Attending)
        BY <1>0 DEF LocalInv, LocalFunctions, Attended
    <2> QED BY <1>0, <2>2, <2>3 DEF LocalInv, Attended
<1> QED BY <1>2, <1>5, <1>6, <1>7, <1>8, <1>9, LocalStepInv

LEMMA LocalNotifyInv == ASSUME LocalInv, phase = "workers", NEW t \in crew, Local!Notify(t) PROVE LocalInv'
<1> DEFINE to == IF out[t] # <<>> THEN "push" ELSE IF current[t] = done_task THEN "pop" ELSE "next"
<1>c. t \in Threads
    BY TreeFacts DEF LocalInv
<1>0. /\ pc[t] = "notify" /\ pc' = [pc EXCEPT ![t] = to]
      /\ waiting' \subseteq waiting
      /\ (waiting' = waiting /\ waiting = {}) \/ \E w \in waiting : waiting' = waiting \ {w}
      /\ UNCHANGED <<m_queue, crew, edges, done, thrown, num_work_left, num_elements_in_queues, phase, current, out,
                     m_local_queues>>
    BY DEF Local!Notify, Local!Goto, Local!NotifyOne, Local!treeVars, Local!counters
<1>1. (\A u \in Threads \ {t} : pc'[u] = pc[u]) /\ pc'[t] = to /\ to \in {"push", "pop", "next"}
    BY <1>0, <1>c DEF LocalInv, LocalFunctions
<1>2. LocalFrame(t)
    BY <1>0, <1>1 DEF LocalFrame
<1>5. thrown' = FALSE
    BY <1>0 DEF LocalInv, LocalNumbers
<1>t. /\ TaskTree' /\ Nodes' = Nodes /\ size' = size /\ Elements' = Elements
    BY <1>0, TreeKept DEF LocalInv, Elements
<1>6. LocalFunctions'
    <2>1. pc' \in [Threads -> {"joined", "next", "pop", "estimate", "work", "working",
                               "distribute", "add", "push", "notify", "returned"}]
        BY <1>0, <1>1 DEF LocalInv, LocalFunctions
    <2> QED BY <2>1, <1>0, <1>c, <1>t DEF LocalInv, LocalFunctions
<1>7. Worker(t)'
    <2>1. Worker(t)
        BY <1>c, LocalFacts
    <2> QED BY <2>1, <1>0, <1>1, <1>t DEF Worker
<1>8. LocalPlaces' /\ LocalReady' /\ LocalCount' /\ LocalEnding' /\ LocalEstimate' /\ WorkedOK'
    BY <1>0, <1>1, <1>2, LocalStill
<1>9. Attended'
    <2>1. CASE waiting = {}
        BY <2>1, <1>0 DEF LocalInv, Attended
    <2>2. ASSUME NEW w \in waiting, waiting' = waiting \ {w} PROVE Attended'
        <3>1. w \in crew /\ w # t /\ pc[w] = "pop" /\ crew' = crew /\ w \in Threads
            BY <1>0, <2>2 DEF LocalInv, LocalFunctions, Attended
        <3>2. (Attending \cup {w}) \ {t} \subseteq Attending' /\ w \notin Attending /\ t \in Attending /\ Attending' \in SUBSET crew
            BY <1>0, <1>1, <2>2, <3>1, TreeFacts DEF Attending, LocalInv
        <3>3. Cardinality(Attending \cup {w}) = Cardinality(Attending) + 1 /\ Cardinality(Attending) \in Nat
            BY <3>1, <3>2, LocalSets, ThreadsCounted DEF LocalInv
        <3>4. Cardinality((Attending \cup {w}) \ {t}) = Cardinality(Attending)
            <4>1. Attending \cup {w} \in SUBSET crew
                BY <3>1, LocalSets DEF LocalInv
            <4>2. t \in Attending \cup {w}
                BY <3>2
            <4>3. Cardinality((Attending \cup {w}) \ {t}) = Cardinality(Attending \cup {w}) - 1
                BY <4>1, <4>2, ThreadsCounted DEF LocalInv
            <4> QED BY <4>3, <3>3
        <3>5. Cardinality(Attending) <= Cardinality(Attending') /\ Cardinality(Attending') \in Nat
            <4>1. IsFiniteSet(Attending')
                BY <3>2, ThreadsCounted DEF LocalInv
            <4> QED BY <4>1, <3>2, <3>4, FS_Subset, FS_CardinalityType
        <3>6. Len(m_queue) \in Nat /\ Len(m_queue) <= Cardinality(Attending)
            BY <2>2 DEF LocalInv, LocalFunctions, Attended
        <3>7. Len(m_queue') <= Cardinality(Attending')
            BY <3>3, <3>5, <3>6, <1>0
        <3>8. \A u \in waiting' : u \in crew' /\ pc'[u] = "pop"
            <4>1. \A u \in waiting' : u \in crew /\ pc[u] = "pop" /\ u # t /\ u \in Threads
                BY <1>0 DEF LocalInv, LocalFunctions, Attended
            <4> QED BY <4>1, <1>1, <3>1
        <3> QED BY <3>7, <3>8 DEF Attended
    <2> QED BY <1>0, <2>1, <2>2
<1> QED BY <1>2, <1>5, <1>6, <1>7, <1>8, <1>9, LocalStepInv

\* When the shared queue and the ends of the workers stay as they are.
LEMMA LocalQuotaKept ==
    ASSUME LocalInv, phase = "workers", UNCHANGED <<crew, phase, m_queue>>, Ended' = Ended,
           \A u \in crew : DonesToPush(u)' = DonesToPush(u),
           NotEnding => NotEnding'
    PROVE  LocalEnding'
<1>1. Dones(m_queue)' = Dones(m_queue)
    BY DEF Dones, DonePlaces
<1>2. \A u \in crew : Quota(u)' <=> Quota(u)
    BY <1>1 DEF Quota
<1> QED BY <1>2 DEF LocalInv, LocalEnding

LEMMA LocalWorkEndInv == ASSUME LocalInv, phase = "workers", NEW t \in crew, Local!WorkEnd(t) PROVE LocalInv'
<1> DEFINE c == current[t]
<1>f. t \in Threads /\ crew \subseteq Threads /\ TaskTree
    BY TreeFacts DEF LocalInv
<1>0. /\ pc[t] = "working" /\ pc' = [pc EXCEPT ![t] = "distribute"] /\ done' = [done EXCEPT ![c] = TRUE]
      /\ UNCHANGED <<m_queue, waiting, crew, edges, thrown, num_work_left, num_elements_in_queues, phase, current, out,
                     m_local_queues>>
    BY DEF Local!WorkEnd, Local!Goto, Local!WorkStore, Local!queueVars, Local!counters
<1>1. (\A u \in Threads \ {t} : pc'[u] = pc[u]) /\ pc'[t] = "distribute"
    BY <1>0, <1>f DEF LocalInv, LocalFunctions
<1>2. LocalFrame(t)
    BY <1>0, <1>1 DEF LocalFrame
<1>3. c \in Nodes
    BY <1>0, <1>f, LocalFacts DEF Worker
<1>t. /\ TaskTree' /\ Nodes' = Nodes /\ size' = size /\ Elements' = Elements
      /\ \A v : parent(v)' = parent(v)
    BY <1>0, TreeKept DEF LocalInv, Elements
<1> HIDE DEF c
<1>4. \A v \in Nodes : /\ LocalHolds(t, v) <=> v = c
                       /\ LocalHand(t, v) <=> v = c
                       /\ ~LocalHolds(t, v)'
                       /\ LocalHand(t, v)' <=> c \in parent(v)
                       /\ LocalKeeps(t, v)' <=> LocalKeeps(t, v)
                       /\ ~Adds(t, v) /\ ~Adds(t, v)'
    BY <1>0, <1>1, <1>t DEF LocalHolds, LocalHand, LocalExpects, LocalKeeps, Adds, c
<1>5. \A u \in Threads \ {t}, v \in Nodes :
        /\ LocalHolds(u, v)' <=> LocalHolds(u, v)
        /\ LocalHand(u, v)' <=> LocalHand(u, v)
        /\ LocalKeeps(u, v)' <=> LocalKeeps(u, v)
        /\ LocalOwns(u, v)' <=> LocalOwns(u, v)
        /\ Adds(u, v)' <=> Adds(u, v)
    BY <1>2, <1>f, LocalOthersStill
<1>r. \A v \in Nodes : Ready(v) <=> LocalSomewhere(v)
    BY DEF LocalInv, LocalReady
<1>s. Ready(c)
    BY <1>3, <1>4, <1>r DEF LocalSomewhere, LocalOwns
<1>n. /\ \A v \in Nodes : Ready(v)' <=> (v # c /\ Ready(v)) \/ c \in parent(v)
      /\ \A v \in Nodes : c \in parent(v) => ~Ready(v) /\ v # c
      /\ WorkedOK' /\ \A v \in Nodes : done'[v] <=> done[v] \/ v = c
    BY <1>0, <1>3, <1>s, <1>f, NodeDone DEF LocalInv, WorkedOK
<1>k. \A v \in Nodes : c \in parent(v) => ~In(v + 1, m_queue) /\ \A u \in Threads : ~LocalOwns(u, v)
    BY <1>n, <1>r, LocalOthersEmpty DEF LocalSomewhere
<1>c. /\ ~In(c + 1, m_queue) /\ ~LocalKeeps(t, c) /\ \A u \in Threads : LocalOwns(u, c) => u = t
    BY <1>3, <1>4, <1>f DEF LocalInv, LocalPlaces, LocalOwns
<1>6. LocalFunctions'
    <2>1. pc' \in [Threads -> {"joined", "next", "pop", "estimate", "work", "working",
                               "distribute", "add", "push", "notify", "returned"}]
        BY <1>0, <1>1 DEF LocalInv, LocalFunctions
    <2> QED BY <2>1, <1>0, <1>t DEF LocalInv, LocalFunctions
<1>7. Worker(t)'
    <2>1. Worker(t)
        BY <1>f, LocalFacts
    <2> QED BY <2>1, <1>0, <1>1, <1>t DEF Worker
<1>8. LocalPlaces'
    <2>p. /\ Once(m_queue)
          /\ \A u \in Threads : Once(out[u]) /\ Once(m_local_queues[u])
          /\ \A u \in Threads, v \in Nodes :
                /\ ~(LocalHand(u, v) /\ LocalKeeps(u, v))
                /\ ~(In(v + 1, out[u]) /\ In(v + 1, m_local_queues[u]))
                /\ LocalOwns(u, v) => /\ ~In(v + 1, m_queue)
                                      /\ \A w \in Threads : LocalOwns(w, v) => w = u
        BY DEF LocalInv, LocalPlaces
    <2>1. ASSUME NEW u \in Threads, NEW v \in Nodes
          PROVE  /\ ~(LocalHand(u, v)' /\ LocalKeeps(u, v)')
                 /\ ~(In(v + 1, out'[u]) /\ In(v + 1, m_local_queues'[u]))
                 /\ LocalOwns(u, v)' => /\ ~In(v + 1, m_queue')
                                        /\ \A w \in Threads : LocalOwns(w, v)' => w = u
        <3>1. CASE c \in parent(v)
            <4>1. ~In(v + 1, m_queue) /\ \A w \in Threads : ~LocalOwns(w, v)
                BY <1>k, <3>1
            <4>2. \A w \in Threads \ {t} : ~LocalOwns(w, v)'
                BY <4>1, <1>5
            <4>3. ~LocalKeeps(t, v) /\ ~LocalHand(u, v) /\ ~LocalKeeps(u, v)
                BY <4>1, <1>f DEF LocalOwns
            <4>4. ~(LocalHand(u, v)' /\ LocalKeeps(u, v)')
                BY <4>3, <1>4, <1>5
            <4> QED BY <4>1, <4>2, <4>4, <2>p, <1>0
        <3>2. CASE c \notin parent(v)
            <4>1. \A w \in Threads : LocalOwns(w, v)' => LocalOwns(w, v)
                BY <1>4, <1>5, <3>2 DEF LocalOwns
            <4>2. \A w \in Threads : LocalHand(w, v)' => LocalHand(w, v)
                BY <1>4, <1>5, <3>2
            <4>3. \A w \in Threads : LocalKeeps(w, v)' => LocalKeeps(w, v)
                BY <1>4, <1>5
            <4> QED BY <4>1, <4>2, <4>3, <2>p, <1>0
        <3> QED BY <3>1, <3>2
    <2> QED BY <2>p, <2>1, <1>0, <1>t DEF LocalPlaces
<1>9. LocalReady'
    <2>1. ASSUME NEW v \in Nodes PROVE Ready(v)' <=> LocalSomewhere(v)'
        <3>1. ASSUME v = c PROVE ~LocalSomewhere(v)'
            <4>1. c \notin parent(c)
                BY <1>3, <1>n
            <4>2. ~LocalOwns(t, v)'
                BY <3>1, <4>1, <1>4, <1>c DEF LocalOwns
            <4>3. \A u \in crew \ {t} : ~LocalOwns(u, v)'
                BY <3>1, <1>5, <1>c, <1>f
            <4> QED BY <3>1, <4>2, <4>3, <1>c, <1>0 DEF LocalSomewhere
        <3>2. ASSUME v # c PROVE LocalSomewhere(v)' <=> LocalSomewhere(v) \/ c \in parent(v)
            <4>1. LocalOwns(t, v)' <=> LocalOwns(t, v) \/ c \in parent(v)
                BY <3>2, <1>4 DEF LocalOwns
            <4>2. \A u \in crew \ {t} : LocalOwns(u, v)' <=> LocalOwns(u, v)
                BY <1>5, <1>f
            <4> QED BY <4>1, <4>2, <1>0 DEF LocalSomewhere
        <3> QED BY <3>1, <3>2, <1>n, <1>r
    <2> QED BY <1>t, <2>1 DEF LocalReady
<1>10. Popped' = Popped
    <2>1. ASSUME NEW v \in Nodes
          PROVE  (done[v] \/ \E u \in crew : LocalHolds(u, v))' <=> (done[v] \/ \E u \in crew : LocalHolds(u, v))
        BY <1>0, <1>4, <1>5, <1>f, <1>n
    <2> QED BY <2>1, <1>t DEF Popped
<1>11. Outstanding' = Outstanding /\ Ended' = Ended /\ LocalReturned' = LocalReturned
    BY <1>0, <1>1, <1>f DEF Outstanding, Ended, LocalReturned
<1>12. LocalCount'
    BY <1>0, <1>t, <1>10, <1>11 DEF LocalInv, LocalCount
<1>13. Estimated' = Estimated
    <2>1. \A u \in Threads, v \in Nodes :
            (pc[u] = "estimate" /\ current[u] = v + 1)' <=> (pc[u] = "estimate" /\ current[u] = v + 1)
        BY <1>0, <1>1
    <2>2. \A u \in Threads, v \in Nodes : (LocalKeeps(u, v) /\ ~Adds(u, v))' <=> (LocalKeeps(u, v) /\ ~Adds(u, v))
        BY <1>4, <1>5
    <2> QED BY <1>f, <1>t, <1>0, <2>1, <2>2 DEF Estimated
<1>14. LocalEstimate'
    <2>1. \A u \in crew, v \in Nodes : Adds(u, v)' => LocalKeeps(u, v)'
        BY <1>4, <1>5, <1>f DEF LocalInv, LocalEstimate
    <2> QED BY <2>1, <1>0, <1>t, <1>11, <1>13 DEF LocalInv, LocalEstimate
<1>15. LocalEnding'
    <2>1. \A u \in crew : DonesToPush(u)' = DonesToPush(u)
        BY <1>0 DEF DonesToPush
    <2>2. NotEnding => NotEnding'
        BY <1>0, <1>t, <1>10, <1>11 DEF NotEnding
    <2> QED BY <2>1, <2>2, <1>0, <1>11, LocalQuotaKept
<1>16. Attended'
    BY <1>0, <1>2, LocalAttentionKept
<1>17. thrown' = FALSE
    BY <1>0 DEF LocalInv, LocalNumbers
<1> QED BY <1>2, <1>6, <1>7, <1>8, <1>9, <1>12, <1>14, <1>15, <1>16, <1>17, <1>n, LocalStepInv

\* The worker counts down what it has popped; a done_task ends it.
LEMMA LocalCountTakenInv == ASSUME LocalInv, phase = "workers", NEW t \in crew, Local!CountTaken(t) PROVE LocalInv'
<1> DEFINE e == current[t]
           to == IF e = done_task THEN "returned" ELSE "work"
           d == IF e = done_task THEN 0 ELSE e - 1
<1>f. t \in Threads /\ crew \subseteq Threads /\ TaskTree /\ Nodes = 0 .. size - 1 /\ size \in Nat /\ size < done_task /\ done_task \in Nat
    BY TreeFacts DEF LocalInv
<1>0. /\ pc[t] = "estimate" /\ pc' = [pc EXCEPT ![t] = to] /\ current' = [current EXCEPT ![t] = d]
      /\ num_elements_in_queues' = num_elements_in_queues - 1
      /\ UNCHANGED <<m_queue, waiting, crew, edges, done, thrown, num_work_left, phase, out, m_local_queues>>
    BY DEF Local!CountTaken, Local!Goto, Local!treeVars, Local!queueVars
<1>1. /\ \A u \in Threads \ {t} : pc'[u] = pc[u] /\ current'[u] = current[u]
      /\ pc'[t] = to /\ current'[t] = d
    BY <1>0, <1>f DEF LocalInv, LocalFunctions
<1>2. LocalFrame(t)
    BY <1>0, <1>1 DEF LocalFrame
<1>t. /\ TaskTree' /\ Nodes' = Nodes /\ size' = size /\ Elements' = Elements
      /\ \A v : parent(v)' = parent(v)
    BY <1>0, TreeKept DEF LocalInv, Elements
<1>w. Worker(t) /\ out[t] = <<>>
    BY <1>f, <1>0, LocalFacts
<1>e. e \in Elements
    BY <1>0, <1>w DEF Worker
<1>d. d \in 0 .. done_task /\ (e # done_task => e \in 1 .. size /\ d \in Nodes /\ e = d + 1)
    BY <1>e, <1>f DEF Elements
<1> HIDE DEF e, to, d
<1>k. \A v : ~In(v, out[t]) /\ ~In(v, out'[t])
    BY <1>0, <1>w, EmptyHasNothing
<1>3. \A v \in Nodes : /\ v + 1 = e <=> (e # done_task /\ v = d)
    BY <1>d, <1>f
<1>4. \A v \in Nodes : /\ LocalHolds(t, v) <=> v + 1 = e
                       /\ LocalHand(t, v) <=> v + 1 = e
                       /\ LocalHolds(t, v)' <=> v + 1 = e
                       /\ LocalHand(t, v)' <=> v + 1 = e
                       /\ LocalKeeps(t, v)' <=> LocalKeeps(t, v)
                       /\ ~Adds(t, v) /\ ~Adds(t, v)'
    BY <1>0, <1>1, <1>3, <1>t DEF LocalHolds, LocalHand, LocalExpects, LocalKeeps, Adds, e, to
<1>5. \A u \in Threads \ {t}, v \in Nodes :
        /\ LocalHolds(u, v)' <=> LocalHolds(u, v)
        /\ LocalHand(u, v)' <=> LocalHand(u, v)
        /\ LocalKeeps(u, v)' <=> LocalKeeps(u, v)
        /\ LocalOwns(u, v)' <=> LocalOwns(u, v)
        /\ Adds(u, v)' <=> Adds(u, v)
    BY <1>2, <1>f, LocalOthersStill
<1>6. LocalFunctions'
    <2>1. pc' \in [Threads -> {"joined", "next", "pop", "estimate", "work", "working",
                               "distribute", "add", "push", "notify", "returned"}]
        BY <1>0, <1>1 DEF LocalInv, LocalFunctions, to
    <2>2. current' \in [Threads -> 0 .. done_task]
        BY <1>0, <1>d DEF LocalInv, LocalFunctions
    <2> QED BY <2>1, <2>2, <1>0, <1>t DEF LocalInv, LocalFunctions
<1>7. Worker(t)'
    <2>1. d # done_task
        BY <1>d, <1>f, <1>e DEF d
    <2>2. CASE e = done_task
        <3>1. pc'[t] = "returned" /\ current'[t] = 0 /\ out'[t] = <<>> /\ m_local_queues'[t] = <<>>
            BY <1>0, <1>1, <1>w, <2>2 DEF to, d, Worker, e
        <3> QED BY <3>1, <2>1, <1>0, <1>1, <1>k, <1>w DEF Worker
    <2>3. CASE e # done_task
        <3>1. pc'[t] = "work" /\ current'[t] \in Nodes /\ out'[t] = <<>>
            BY <1>0, <1>1, <1>w, <1>d, <2>3 DEF to
        <3> QED BY <3>1, <2>1, <1>0, <1>1, <1>k, <1>t, <1>w DEF Worker
    <2> QED BY <2>2, <2>3
<1>8. LocalPlaces' /\ LocalReady'
    <2>1. Once(m_queue') /\ Once(out'[t]) /\ Once(m_local_queues'[t])
        BY <1>0, <1>f DEF LocalInv, LocalPlaces
    <2>2. \A v \in Nodes : In(v + 1, m_queue)' \/ LocalOwns(t, v)' <=> In(v + 1, m_queue) \/ LocalOwns(t, v)
        BY <1>0, <1>4 DEF LocalOwns
    <2>3. \A v \in Nodes : /\ ~(In(v + 1, m_queue') /\ LocalOwns(t, v)')
                           /\ ~(LocalHand(t, v)' /\ LocalKeeps(t, v)')
                           /\ ~(In(v + 1, out'[t]) /\ In(v + 1, m_local_queues'[t]))
        BY <1>0, <1>4, <1>f, <1>k DEF LocalInv, LocalPlaces, LocalOwns
    <2> QED BY <1>0, <1>2, <2>1, <2>2, <2>3, LocalMove
<1>9. Popped' = Popped
    BY <1>0, <1>4, <1>5, <1>f, <1>t DEF Popped
<1>o. /\ Outstanding' = Outstanding /\ Ended' = Ended
      /\ LocalReturned' = IF e = done_task THEN LocalReturned \cup {t} ELSE LocalReturned
      /\ t \notin LocalReturned
    <2>1. e = done_task => current[t] = done_task /\ pc'[t] = "returned"
        BY <1>1 DEF e, to
    <2>2. e # done_task => current[t] # done_task /\ pc'[t] = "work" /\ current'[t] # done_task
        BY <1>1, <1>d, <1>f DEF e, to
    <2> QED BY <2>1, <2>2, <1>0, <1>1, <1>f DEF Outstanding, Ended, LocalReturned
<1>10. LocalCount'
    BY <1>0, <1>t, <1>9, <1>o DEF LocalInv, LocalCount
<1>11. Estimated' = Estimated \ {v \in Nodes : v + 1 = e}
    <2>1. \A u \in Threads \ {t}, v \in Nodes :
            (pc[u] = "estimate" /\ current[u] = v + 1)' <=> (pc[u] = "estimate" /\ current[u] = v + 1)
        BY <1>1
    <2>2. pc'[t] # "estimate"
        BY <1>1 DEF to
    <2>3. \A u \in Threads, v \in Nodes : (LocalKeeps(u, v) /\ ~Adds(u, v))' <=> (LocalKeeps(u, v) /\ ~Adds(u, v))
        BY <1>4, <1>5
    <2>4. \A v \in Nodes : v + 1 = e => /\ ~In(v + 1, m_queue) /\ (\A u \in Threads : ~LocalKeeps(u, v))
                                        /\ \A u \in Threads \ {t} : ~(pc[u] = "estimate" /\ current[u] = v + 1)
        BY <1>4, <1>f DEF LocalInv, LocalPlaces, LocalOwns, LocalHand, LocalHolds
    <2>5. ASSUME NEW v \in Nodes PROVE v \in Estimated' <=> v \in Estimated /\ v + 1 # e
        <3>1. CASE v + 1 = e
            BY <3>1, <2>1, <2>2, <2>3, <2>4, <1>0, <1>f, <1>t DEF Estimated
        <3>2. CASE v + 1 # e
            BY <3>2, <2>1, <2>2, <2>3, <1>0, <1>f, <1>t DEF Estimated, e
        <3> QED BY <3>1, <3>2
    <2> QED BY <2>5, <1>t DEF Estimated
<1>12. LocalEstimate'
    <2>1. \A u \in crew, v \in Nodes : Adds(u, v)' => LocalKeeps(u, v)'
        BY <1>4, <1>5, <1>f DEF LocalInv, LocalEstimate
    <2>2. Cardinality(Estimated') - Cardinality(LocalReturned') = Cardinality(Estimated) - Cardinality(LocalReturned) - 1
        <3>1. /\ Estimated \in SUBSET Nodes /\ LocalReturned \in SUBSET crew
              /\ Cardinality(Estimated) \in Nat /\ Cardinality(LocalReturned) \in Nat
            BY <1>f, LocalSets
        <3>2. CASE e = done_task
            <4>1. Estimated' = Estimated /\ LocalReturned' = LocalReturned \cup {t}
                BY <3>2, <1>3, <1>11, <1>o DEF Estimated
            <4>2. Cardinality(LocalReturned') = Cardinality(LocalReturned) + 1
                BY <4>1, <3>1, <1>f, <1>o, ThreadsCounted
            <4> QED BY <4>1, <4>2, <3>1
        <3>3. CASE e # done_task
            <4>1. {v \in Nodes : v + 1 = e} = {d}
                BY <3>3, <1>3, <1>d
            <4>2. Estimated' = Estimated \ {d} /\ LocalReturned' = LocalReturned
                BY <4>1, <3>3, <1>11, <1>o
            <4>3. d \in Estimated
                BY <3>3, <1>0, <1>d DEF Estimated, e
            <4>4. Cardinality(Estimated') = Cardinality(Estimated) - 1
                BY <4>2, <4>3, <3>1, <1>f, NodesCounted
            <4> QED BY <4>2, <4>4, <3>1
        <3> QED BY <3>2, <3>3
    <2>3. num_elements_in_queues' = Cardinality(Estimated') - Cardinality(LocalReturned') - 1
        <3> DEFINE a == Cardinality(Estimated)
                   b == Cardinality(LocalReturned)
                   a1 == Cardinality(Estimated')
                   b1 == Cardinality(LocalReturned')
        <3>1. num_elements_in_queues' = (a - b - 1) - 1 /\ a1 - b1 = a - b - 1
            BY <2>2, <1>0 DEF LocalInv, LocalEstimate
        <3>2. a \in Int /\ b \in Int
            BY <1>f, LocalSets
        <3>3. a1 \in Int /\ b1 \in Int
            <4>1. Estimated' \in SUBSET Nodes /\ LocalReturned' \in SUBSET crew
                BY <1>t, <1>0 DEF Estimated, LocalReturned
            <4> QED BY <4>1, <1>f, NodesCounted, ThreadsCounted
        <3> HIDE DEF a, b, a1, b1
        <3>4. num_elements_in_queues' = a1 - b1 - 1
            BY <3>1, <3>2, <3>3
        <3> QED BY <3>4 DEF a1, b1
    <2> QED BY <2>1, <2>3, <1>0, <1>t DEF LocalEstimate
<1>13. LocalEnding'
    <2>1. \A u \in crew : DonesToPush(u)' = DonesToPush(u)
        <3>1. \A u \in crew \ {t} : DonesToPush(u)' = DonesToPush(u)
            BY <1>0, <1>1, <1>f DEF DonesToPush
        <3>2. Len(out[t]) = 0 /\ out'[t] = out[t]
            BY <1>0, <1>w
        <3> QED BY <3>1, <3>2 DEF DonesToPush
    <2>2. NotEnding => NotEnding'
        BY <1>0, <1>t, <1>9, <1>o DEF NotEnding
    <2> QED BY <2>1, <2>2, <1>0, <1>o, LocalQuotaKept
<1>14. Attended'
    BY <1>0, <1>2, LocalAttentionKept
<1>15. thrown' = FALSE /\ WorkedOK'
    BY <1>0, <1>f, TreeKept DEF LocalInv, LocalNumbers
<1> QED BY <1>2, <1>6, <1>7, <1>8, <1>10, <1>12, <1>13, <1>14, <1>15, LocalStepInv

\* One done_task for every thread.
LEMMA DoneTasksFacts ==
    ASSUME TaskTree
    PROVE  /\ Local!DoneTasks \in Seq(Elements) /\ Local!DoneTasks # <<>>
           /\ Len(Local!DoneTasks) = Cardinality(crew) /\ Dones(Local!DoneTasks) = Len(Local!DoneTasks)
           /\ Once(Local!DoneTasks) /\ \A v \in Nodes : ~In(v + 1, Local!DoneTasks)
<1> DEFINE n == Cardinality(crew)
           q == [i \in 1 .. n |-> done_task]
<1>1. n \in Nat /\ n >= 1
    <2>1. PICK t \in crew : TRUE
        BY TreeFacts
    <2> QED BY <2>1, ThreadsCounted
<1>2. Local!DoneTasks = q
    BY DEF Local!DoneTasks, Local!num_threads, Local!Cardinality, Cardinality
<1> HIDE DEF n
<1>3. done_task \in Elements
    BY DEF Elements
<1>4. q \in Seq(Elements) /\ Len(q) = n /\ DOMAIN q = 1 .. n /\ \A i \in 1 .. n : q[i] = done_task
    BY <1>1, <1>3
<1> HIDE DEF q
<1>5. DonePlaces(q) = 1 .. n
    BY <1>4 DEF DonePlaces
<1>6. Dones(q) = n
    BY <1>1, <1>5, FromOne DEF Dones
<1>7. Once(q) /\ q # <<>>
    BY <1>1, <1>4 DEF Once
<1>8. ASSUME NEW v \in Nodes PROVE ~In(v + 1, q)
    <2>1. v + 1 # done_task
        BY TreeFacts
    <2> QED BY <2>1, <1>4 DEF In
<1> QED BY <1>2, <1>4, <1>6, <1>7, <1>8 DEF n

LEMMA LocalTakeTicketInv == ASSUME LocalInv, phase = "workers", NEW t \in crew, Local!TakeTicket(t) PROVE LocalInv'
<1> DEFINE to == IF num_work_left <= 0 THEN "push" ELSE "pop"
           o == IF num_work_left <= 0 THEN Local!DoneTasks ELSE <<>>
<1>f. t \in Threads /\ crew \subseteq Threads /\ TaskTree /\ size \in Nat /\ size < done_task /\ done_task \in Nat
    BY TreeFacts DEF LocalInv
<1>0. /\ m_local_queues[t] = <<>> /\ pc[t] = "next" /\ pc' = [pc EXCEPT ![t] = to]
      /\ num_work_left' = num_work_left - 1 /\ out' = [out EXCEPT ![t] = o]
      /\ current' = [current EXCEPT ![t] = done_task]
      /\ UNCHANGED <<m_queue, waiting, crew, edges, done, thrown, num_elements_in_queues, phase, m_local_queues>>
    BY DEF Local!TakeTicket, Local!Goto, Local!treeVars, Local!queueVars
<1>1. /\ \A u \in Threads \ {t} : pc'[u] = pc[u] /\ current'[u] = current[u]
      /\ \A x \in (Threads \cup {"main"}) \ {t} : out'[x] = out[x]
      /\ pc'[t] = to /\ current'[t] = done_task /\ out'[t] = o
    BY <1>0, <1>f DEF LocalInv, LocalFunctions
<1>2. LocalFrame(t)
    BY <1>0, <1>1 DEF LocalFrame
<1>t. /\ TaskTree' /\ Nodes' = Nodes /\ size' = size /\ Elements' = Elements
      /\ \A v : parent(v)' = parent(v)
    BY <1>0, TreeKept DEF LocalInv, Elements
<1>w. Worker(t) /\ out[t] = <<>> /\ current[t] = 0 /\ current[t] # done_task
    BY <1>f, <1>0, LocalFacts DEF Worker
<1>o. /\ o \in Seq(Elements) /\ Once(o) /\ Dones(o) = Len(o) /\ \A v \in Nodes : ~In(v + 1, o)
      /\ (num_work_left <= 0 => o # <<>> /\ Len(o) = Cardinality(crew))
    <2>1. CASE num_work_left <= 0
        BY <2>1, <1>f, DoneTasksFacts
    <2>2. CASE ~(num_work_left <= 0)
        BY <2>2, EmptyHasNothing
    <2> QED BY <2>1, <2>2
<1> HIDE DEF o
<1>3. to \in {"push", "pop"} /\ (to = "pop" => o = <<>>) /\ (to = "push" => o # <<>>)
    BY <1>o DEF to, o
<1> HIDE DEF to
<1>4. \A v \in Nodes : /\ ~LocalHolds(t, v) /\ ~LocalHand(t, v) /\ ~LocalHolds(t, v)' /\ ~LocalHand(t, v)'
                       /\ ~LocalKeeps(t, v) /\ ~LocalKeeps(t, v)'
                       /\ ~Adds(t, v) /\ ~Adds(t, v)'
    BY <1>0, <1>1, <1>3, <1>o, <1>w, EmptyHasNothing DEF LocalHolds, LocalHand, LocalExpects, LocalKeeps, Adds
<1>5. \A u \in Threads \ {t}, v \in Nodes :
        /\ LocalHolds(u, v)' <=> LocalHolds(u, v)
        /\ LocalKeeps(u, v)' <=> LocalKeeps(u, v)
        /\ Adds(u, v)' <=> Adds(u, v)
    BY <1>2, <1>f, LocalOthersStill
<1>6. LocalFunctions'
    <2>1. pc' \in [Threads -> {"joined", "next", "pop", "estimate", "work", "working",
                               "distribute", "add", "push", "notify", "returned"}]
        BY <1>0, <1>3 DEF LocalInv, LocalFunctions
    <2>2. current' \in [Threads -> 0 .. done_task]
        BY <1>0, <1>f DEF LocalInv, LocalFunctions
    <2>3. out' \in [Threads \cup {"main"} -> Seq(Elements)]
        BY <1>0, <1>o DEF LocalInv, LocalFunctions
    <2> QED BY <2>1, <2>2, <2>3, <1>0, <1>t DEF LocalInv, LocalFunctions
<1>7. Worker(t)'
    <2>1. Dones(out[t])' = Len(out'[t])
        BY <1>1, <1>o DEF Dones, DonePlaces
    <2> QED BY <2>1, <1>0, <1>1, <1>3, <1>w DEF Worker
<1>8. LocalPlaces' /\ LocalReady'
    <2>1. Once(m_queue') /\ Once(out'[t]) /\ Once(m_local_queues'[t])
        BY <1>0, <1>1, <1>f, <1>o DEF LocalInv, LocalPlaces
    <2>2. \A v \in Nodes : ~LocalOwns(t, v) /\ ~LocalOwns(t, v)'
        BY <1>4 DEF LocalOwns
    <2>3. \A v \in Nodes : ~In(v + 1, out'[t])
        BY <1>1, <1>o
    <2>4. \A v \in Nodes : In(v + 1, m_queue)' <=> In(v + 1, m_queue)
        BY <1>0
    <2> QED BY <1>0, <1>2, <1>4, <2>1, <2>2, <2>3, <2>4, LocalMove
<1>9. Popped' = Popped
    BY <1>0, <1>4, <1>5, <1>f, <1>t DEF Popped
<1>s. /\ Outstanding' = Outstanding \cup {t} /\ Ended' = Ended /\ LocalReturned' = LocalReturned
      /\ t \notin Outstanding
    BY <1>0, <1>1, <1>f, <1>3, <1>w DEF Outstanding, Ended, LocalReturned
<1>10. LocalCount'
    <2>1. /\ Popped \in SUBSET Nodes /\ Outstanding \in SUBSET crew
          /\ Cardinality(Popped) \in Nat /\ Cardinality(Outstanding) \in Nat
        BY <1>f, LocalSets
    <2>2. Cardinality(Outstanding') = Cardinality(Outstanding) + 1
        BY <2>1, <1>s, <1>f, ThreadsCounted
    <2>3. num_work_left' = size - Cardinality(Popped) - Cardinality(Outstanding) - 1
        BY <1>0 DEF LocalInv, LocalCount
    <2>4. num_work_left' = size' - Cardinality(Popped') - Cardinality(Outstanding')
        BY <2>1, <2>2, <2>3, <1>9, <1>t, <1>f
    <2> QED BY <2>4 DEF LocalCount
<1>11. Estimated' = Estimated
    <2>1. \A u \in Threads, v \in Nodes :
            (pc[u] = "estimate" /\ current[u] = v + 1)' <=> (pc[u] = "estimate" /\ current[u] = v + 1)
        BY <1>0, <1>1, <1>3
    <2>2. \A u \in Threads, v \in Nodes : (LocalKeeps(u, v) /\ ~Adds(u, v))' <=> (LocalKeeps(u, v) /\ ~Adds(u, v))
        BY <1>4, <1>5
    <2> QED BY <1>f, <1>t, <1>0, <2>1, <2>2 DEF Estimated
<1>12. LocalEstimate'
    <2>1. \A u \in crew, v \in Nodes : Adds(u, v)' => LocalKeeps(u, v)'
        BY <1>4, <1>5, <1>f DEF LocalInv, LocalEstimate
    <2> QED BY <2>1, <1>0, <1>t, <1>s, <1>11 DEF LocalInv, LocalEstimate
<1>13. LocalEnding'
    <2>1. CASE num_work_left <= 0
        <3>1. DonesToPush(t)' = Cardinality(crew)
            BY <2>1, <1>1, <1>o DEF DonesToPush
        <3>2. Dones(m_queue) \in Nat /\ Cardinality(Ended) \in Nat /\ Cardinality(crew) \in Nat
            BY <1>f, LocalSets, SequenceFacts DEF LocalInv, LocalFunctions
        <3>3. Dones(m_queue)' = Dones(m_queue) /\ Cardinality(Ended)' = Cardinality(Ended)
              /\ Cardinality(crew)' = Cardinality(crew)
            BY <1>0, <1>s DEF Dones, DonePlaces
        <3>4. Quota(t)'
            BY <3>1, <3>2, <3>3 DEF Quota
        <3> QED BY <3>4, <1>0 DEF LocalEnding
    <2>2. CASE ~(num_work_left <= 0)
        <3>1. o = <<>>
            BY <2>2 DEF o
        <3>2. \A u \in crew : DonesToPush(u)' = DonesToPush(u)
            BY <1>0, <1>1, <1>f, <1>w, <3>1 DEF DonesToPush
        <3>3. Popped # Nodes
            <4>1. num_work_left = size - Cardinality(Popped) - Cardinality(Outstanding)
                BY DEF LocalInv, LocalCount
            <4>2. Cardinality(Outstanding) \in Nat /\ Cardinality(Popped) \in Nat
                BY <1>f, LocalSets
            <4>3. Cardinality(Popped) # size
                BY <4>1, <4>2, <2>2, <1>f
            <4> QED BY <4>3 DEF size
        <3>4. \A u \in crew : In(done_task, out'[u]) => In(done_task, out[u])
            BY <1>1, <1>f, <3>1, EmptyHasNothing
        <3>5. NotEnding => NotEnding'
            BY <3>3, <3>4, <1>0, <1>t, <1>9, <1>s DEF NotEnding
        <3> QED BY <3>2, <3>5, <1>0, <1>s, LocalQuotaKept
    <2> QED BY <2>1, <2>2
<1>14. Attended'
    BY <1>0, <1>2, LocalAttentionKept
<1>15. thrown' = FALSE /\ WorkedOK'
    BY <1>0, <1>f, TreeKept DEF LocalInv, LocalNumbers
<1> QED BY <1>2, <1>6, <1>7, <1>8, <1>10, <1>12, <1>13, <1>14, <1>15, LocalStepInv

LEMMA LocalPopLocalInv == ASSUME LocalInv, phase = "workers", NEW t \in crew, Local!PopLocal(t) PROVE LocalInv'
<1> DEFINE q == m_local_queues[t]
           e == Head(m_local_queues[t])
<1>f. /\ t \in Threads /\ crew \subseteq Threads /\ TaskTree /\ Nodes = 0 .. size - 1 /\ size \in Nat /\ size < done_task
      /\ done_task \in Nat
    BY TreeFacts DEF LocalInv
<1>0. /\ q # <<>> /\ pc[t] = "next" /\ pc' = [pc EXCEPT ![t] = "estimate"]
      /\ num_work_left' = num_work_left - 1 /\ current' = [current EXCEPT ![t] = e]
      /\ m_local_queues' = [m_local_queues EXCEPT ![t] = Tail(q)]
      /\ UNCHANGED <<m_queue, waiting, crew, edges, done, thrown, num_elements_in_queues, phase, out>>
    BY DEF Local!PopLocal, Local!Goto, Local!treeVars, Local!queueVars
<1>1. /\ \A u \in Threads \ {t} : pc'[u] = pc[u] /\ current'[u] = current[u] /\ m_local_queues'[u] = m_local_queues[u]
      /\ pc'[t] = "estimate" /\ current'[t] = e /\ m_local_queues'[t] = Tail(q)
    BY <1>0, <1>f DEF LocalInv, LocalFunctions
<1>2. LocalFrame(t)
    BY <1>0, <1>1 DEF LocalFrame
<1>t. /\ TaskTree' /\ Nodes' = Nodes /\ size' = size /\ Elements' = Elements
      /\ \A v : parent(v)' = parent(v)
    BY <1>0, TreeKept DEF LocalInv, Elements
<1>w. Worker(t) /\ out[t] = <<>> /\ current[t] = 0 /\ current[t] # done_task
    BY <1>f, <1>0, LocalFacts DEF Worker
<1>q. /\ e \in 1 .. size /\ In(e, q) /\ Tail(q) \in Seq(1 .. size) /\ Once(Tail(q))
      /\ \A v : In(v, q) <=> In(v, Tail(q)) \/ v = e
      /\ ~In(e, Tail(q)) /\ e # done_task /\ e \in Elements /\ e \in 0 .. done_task
    <2>1. q \in Seq(1 .. size) /\ Once(q) /\ e = Head(q) /\ q # <<>>
        BY <1>0, <1>f, LocalFacts
    <2> HIDE DEF q, e
    <2>2. e \in 1 .. size
        BY <2>1, HeadTaken
    <2>3. e # done_task /\ e \in Elements /\ e \in 0 .. done_task
        BY <2>2, <1>f DEF Elements
    <2>4. /\ In(e, q) /\ Tail(q) \in Seq(1 .. size) /\ Once(Tail(q))
          /\ \A v : In(v, q) <=> In(v, Tail(q)) \/ v = e
          /\ ~In(e, Tail(q))
        BY <2>1, <2>3, HeadTaken
    <2> QED BY <2>2, <2>3, <2>4
<1>k. \A v : ~In(v, out[t]) /\ ~In(v, out'[t])
    BY <1>0, <1>w, EmptyHasNothing
<1> HIDE DEF q, e
<1>4. \A v \in Nodes : /\ ~LocalHolds(t, v) /\ ~LocalHand(t, v)
                       /\ LocalHolds(t, v)' <=> v + 1 = e
                       /\ LocalHand(t, v)' <=> v + 1 = e
                       /\ LocalKeeps(t, v)' <=> LocalKeeps(t, v) /\ v + 1 # e
                       /\ (v + 1 = e => LocalKeeps(t, v))
                       /\ ~Adds(t, v) /\ ~Adds(t, v)'
    <2>1. \A v \in Nodes : /\ ~LocalHolds(t, v) /\ ~LocalHand(t, v)
                           /\ LocalHolds(t, v)' <=> v + 1 = e
                           /\ LocalHand(t, v)' <=> v + 1 = e
                           /\ ~Adds(t, v) /\ ~Adds(t, v)'
        BY <1>0, <1>1 DEF LocalHolds, LocalHand, LocalExpects, Adds
    <2>2. \A v \in Nodes : LocalKeeps(t, v) <=> In(v + 1, q)
        BY <1>k DEF LocalKeeps, q
    <2>3. \A v \in Nodes : LocalKeeps(t, v)' <=> In(v + 1, m_local_queues'[t])
        BY <1>k DEF LocalKeeps
    <2> QED BY <1>1, <1>q, <2>1, <2>2, <2>3
<1>5. \A u \in Threads \ {t}, v \in Nodes :
        /\ LocalHolds(u, v)' <=> LocalHolds(u, v)
        /\ LocalKeeps(u, v)' <=> LocalKeeps(u, v)
        /\ Adds(u, v)' <=> Adds(u, v)
    BY <1>2, <1>f, LocalOthersStill
<1>6. LocalFunctions'
    <2>1. pc' \in [Threads -> {"joined", "next", "pop", "estimate", "work", "working",
                               "distribute", "add", "push", "notify", "returned"}]
        BY <1>0 DEF LocalInv, LocalFunctions
    <2>2. current' \in [Threads -> 0 .. done_task]
        BY <1>0, <1>q DEF LocalInv, LocalFunctions
    <2>3. m_local_queues' \in [Threads -> Seq(1 .. size)]
        BY <1>0, <1>q DEF LocalInv, LocalFunctions
    <2> QED BY <2>1, <2>2, <2>3, <1>0, <1>t DEF LocalInv, LocalFunctions
<1>7. Worker(t)'
    BY <1>0, <1>1, <1>k, <1>q, <1>t, <1>w DEF Worker
<1>8. LocalPlaces' /\ LocalReady'
    <2>1. Once(m_queue') /\ Once(out'[t]) /\ Once(m_local_queues'[t])
        BY <1>0, <1>1, <1>f, <1>q DEF LocalInv, LocalPlaces
    <2>2. \A v \in Nodes : In(v + 1, m_queue)' \/ LocalOwns(t, v)' <=> In(v + 1, m_queue) \/ LocalOwns(t, v)
        BY <1>0, <1>4 DEF LocalOwns
    <2>3. \A v \in Nodes : LocalOwns(t, v) => ~In(v + 1, m_queue)
        BY <1>f DEF LocalInv, LocalPlaces
    <2>4. \A v \in Nodes : /\ ~(In(v + 1, m_queue') /\ LocalOwns(t, v)')
                           /\ ~(LocalHand(t, v)' /\ LocalKeeps(t, v)')
                           /\ ~(In(v + 1, out'[t]) /\ In(v + 1, m_local_queues'[t]))
        BY <1>0, <1>4, <1>k, <2>3 DEF LocalOwns
    <2> QED BY <1>0, <1>2, <2>1, <2>2, <2>4, LocalMove
<1>v. PICK v \in Nodes : v + 1 = e
    <2>1. e - 1 \in Nodes /\ (e - 1) + 1 = e
        BY <1>f, <1>q
    <2> QED BY <2>1
<1>9. Popped' = Popped \cup {v} /\ v \notin Popped
    <2>1. LocalKeeps(t, v) /\ LocalOwns(t, v)
        BY <1>4, <1>v DEF LocalOwns
    <2>2. ~done[v]
        BY <2>1 DEF LocalInv, LocalReady, LocalSomewhere, Ready
    <2>3. \A u \in Threads : ~LocalHolds(u, v)
        BY <2>1, <1>4, <1>f DEF LocalInv, LocalPlaces, LocalOwns, LocalHand
    <2>4. \A w \in Nodes : w + 1 = e <=> w = v
        BY <1>v, <1>f
    <2>5. ASSUME NEW w \in Nodes
          PROVE  (done[w] \/ \E u \in crew : LocalHolds(u, w))' <=> (done[w] \/ (\E u \in crew : LocalHolds(u, w)) \/ w = v)
        BY <2>4, <1>0, <1>4, <1>5, <1>f
    <2>6. Popped' = Popped \cup {v}
        BY <2>5, <1>t DEF Popped
    <2> QED BY <2>2, <2>3, <2>6, <1>f DEF Popped
<1>s. Outstanding' = Outstanding /\ Ended' = Ended /\ LocalReturned' = LocalReturned /\ t \notin Outstanding
    BY <1>0, <1>1, <1>f, <1>q, <1>w DEF Outstanding, Ended, LocalReturned
<1>10. LocalCount'
    <2>1. /\ Popped \in SUBSET Nodes
          /\ Cardinality(Popped) \in Nat /\ Cardinality(Outstanding) \in Nat
        BY <1>f, LocalSets
    <2>2. Cardinality(Popped') = Cardinality(Popped) + 1
        BY <2>1, <1>9, <1>f, NodesCounted
    <2>3. num_work_left' = size - Cardinality(Popped) - Cardinality(Outstanding) - 1
        BY <1>0 DEF LocalInv, LocalCount
    <2>4. num_work_left' = size' - Cardinality(Popped') - Cardinality(Outstanding')
        BY <2>1, <2>2, <2>3, <1>s, <1>t, <1>f
    <2> QED BY <2>4 DEF LocalCount
<1>11. Estimated' = Estimated
    <2>1. \A u \in Threads \ {t}, w \in Nodes :
            (pc[u] = "estimate" /\ current[u] = w + 1)' <=> (pc[u] = "estimate" /\ current[u] = w + 1)
        BY <1>1
    <2>2. \A u \in Threads \ {t}, w \in Nodes : (LocalKeeps(u, w) /\ ~Adds(u, w))' <=> (LocalKeeps(u, w) /\ ~Adds(u, w))
        BY <1>5
    <2>3. \A w \in Nodes : (\/ pc[t] = "estimate" /\ current[t] = w + 1
                            \/ LocalKeeps(t, w) /\ ~Adds(t, w))'
                       <=> (\/ pc[t] = "estimate" /\ current[t] = w + 1
                            \/ LocalKeeps(t, w) /\ ~Adds(t, w))
        BY <1>0, <1>1, <1>4
    <2>4. ASSUME NEW w \in Nodes PROVE w \in Estimated' <=> w \in Estimated
        BY <1>f, <1>t, <1>0, <2>1, <2>2, <2>3 DEF Estimated
    <2> QED BY <2>4, <1>t DEF Estimated
<1>12. LocalEstimate'
    <2>1. \A u \in crew, w \in Nodes : Adds(u, w)' => LocalKeeps(u, w)'
        BY <1>4, <1>5, <1>f DEF LocalInv, LocalEstimate
    <2> QED BY <2>1, <1>0, <1>t, <1>s, <1>11 DEF LocalInv, LocalEstimate
<1>13. LocalEnding'
    <2>1. \A u \in crew : DonesToPush(u)' = DonesToPush(u)
        BY <1>0, <1>1, <1>f, <1>q, <1>w DEF DonesToPush
    <2>2. NotEnding => NotEnding'
        BY <1>0, <1>t, <1>s DEF NotEnding
    <2> QED BY <2>1, <2>2, <1>0, <1>s, LocalQuotaKept
<1>14. Attended'
    BY <1>0, <1>2, LocalAttentionKept
<1>15. thrown' = FALSE /\ WorkedOK'
    BY <1>0, <1>f, TreeKept DEF LocalInv, LocalNumbers
<1> QED BY <1>2, <1>6, <1>7, <1>8, <1>10, <1>12, <1>13, <1>14, <1>15, LocalStepInv

LEMMA LocalPopGlobalInv == ASSUME LocalInv, phase = "workers", NEW t \in crew, Local!PopGlobal(t) PROVE LocalInv'
<1> DEFINE e == Head(m_queue)
<1>f. /\ t \in Threads /\ crew \subseteq Threads /\ TaskTree /\ Nodes = 0 .. size - 1 /\ size \in Nat /\ size < done_task
      /\ done_task \in Nat
    BY TreeFacts DEF LocalInv
<1>0. /\ m_queue # <<>> /\ t \notin waiting /\ pc[t] = "pop" /\ pc' = [pc EXCEPT ![t] = "estimate"]
      /\ current' = [current EXCEPT ![t] = e] /\ m_queue' = Tail(m_queue)
      /\ UNCHANGED <<waiting, crew, edges, done, thrown, num_work_left, num_elements_in_queues, phase, out, m_local_queues>>
    BY DEF Local!PopGlobal, Local!Goto, Local!PopElement, Local!treeVars, Local!counters
<1>1. /\ \A u \in Threads \ {t} : pc'[u] = pc[u] /\ current'[u] = current[u]
      /\ pc'[t] = "estimate" /\ current'[t] = e
    BY <1>0, <1>f DEF LocalInv, LocalFunctions
<1>2. LocalFrame(t)
    BY <1>0, <1>1 DEF LocalFrame
<1>t. /\ TaskTree' /\ Nodes' = Nodes /\ size' = size /\ Elements' = Elements
      /\ \A v : parent(v)' = parent(v)
    BY <1>0, TreeKept DEF LocalInv, Elements
<1>w. Worker(t) /\ out[t] = <<>> /\ m_local_queues[t] = <<>> /\ current[t] = done_task
    BY <1>f, <1>0, LocalFacts DEF Worker
<1>q. /\ e \in Elements /\ In(e, m_queue) /\ m_queue' \in Seq(Elements) /\ Once(m_queue')
      /\ \A v : In(v, m_queue) <=> In(v, m_queue') \/ v = e
      /\ (e # done_task => ~In(e, m_queue'))
      /\ Dones(m_queue') = IF e = done_task THEN Dones(m_queue) - 1 ELSE Dones(m_queue)
      /\ Dones(m_queue) \in Nat /\ Len(m_queue') = Len(m_queue) - 1 /\ Len(m_queue) \in Nat
    <2>1. m_queue \in Seq(Elements) /\ Once(m_queue)
        BY DEF LocalInv, LocalFunctions, LocalPlaces
    <2>2. /\ e \in Elements /\ In(e, m_queue) /\ Tail(m_queue) \in Seq(Elements) /\ Once(Tail(m_queue))
          /\ Len(Tail(m_queue)) = Len(m_queue) - 1
          /\ \A v : In(v, m_queue) <=> In(v, Tail(m_queue)) \/ v = e
          /\ (e # done_task => ~In(e, Tail(m_queue)))
        BY <1>0, <2>1, HeadTaken
    <2>3. Dones(Tail(m_queue)) = IF e = done_task THEN Dones(m_queue) - 1 ELSE Dones(m_queue)
        BY <1>0, <2>1, HeadCounted
    <2>4. Dones(m_queue) \in Nat /\ Len(m_queue) \in Nat
        BY <2>1, SequenceFacts
    <2> QED BY <1>0, <2>2, <2>3, <2>4
<1> HIDE DEF e
<1>d. \A v \in Nodes : v + 1 = e => e # done_task
    BY <1>f
<1>k. \A v : ~In(v, out[t]) /\ ~In(v, out'[t]) /\ ~In(v, m_local_queues[t]) /\ ~In(v, m_local_queues'[t])
    BY <1>0, <1>w, EmptyHasNothing
<1>4. \A v \in Nodes : /\ ~LocalHolds(t, v) /\ ~LocalHand(t, v)
                       /\ LocalHolds(t, v)' <=> v + 1 = e
                       /\ LocalHand(t, v)' <=> v + 1 = e
                       /\ ~LocalKeeps(t, v) /\ ~LocalKeeps(t, v)'
                       /\ ~Adds(t, v) /\ ~Adds(t, v)'
    BY <1>0, <1>1, <1>k DEF LocalHolds, LocalHand, LocalExpects, LocalKeeps, Adds
<1>5. \A u \in Threads \ {t}, v \in Nodes :
        /\ LocalHolds(u, v)' <=> LocalHolds(u, v)
        /\ LocalKeeps(u, v)' <=> LocalKeeps(u, v)
        /\ Adds(u, v)' <=> Adds(u, v)
    BY <1>2, <1>f, LocalOthersStill
<1>6. LocalFunctions'
    <2>1. pc' \in [Threads -> {"joined", "next", "pop", "estimate", "work", "working",
                               "distribute", "add", "push", "notify", "returned"}]
        BY <1>0 DEF LocalInv, LocalFunctions
    <2>2. current' \in [Threads -> 0 .. done_task]
        <3>1. e \in 0 .. done_task
            BY <1>q, <1>f DEF Elements
        <3> QED BY <3>1, <1>0 DEF LocalInv, LocalFunctions
    <2> QED BY <2>1, <2>2, <1>0, <1>q, <1>t DEF LocalInv, LocalFunctions
<1>7. Worker(t)'
    <2>1. Dones(out[t])' = Len(out'[t])
        BY <1>0, <1>w, EmptyHasNothing DEF Dones, DonePlaces
    <2> QED BY <2>1, <1>0, <1>1, <1>k, <1>q, <1>t, <1>w DEF Worker
<1>8. LocalPlaces' /\ LocalReady'
    <2>1. Once(m_queue') /\ Once(out'[t]) /\ Once(m_local_queues'[t])
        BY <1>0, <1>f, <1>q DEF LocalInv, LocalPlaces
    <2>2. \A v \in Nodes : In(v + 1, m_queue)' \/ LocalOwns(t, v)' <=> In(v + 1, m_queue) \/ LocalOwns(t, v)
        BY <1>q, <1>4 DEF LocalOwns
    <2>4. \A v \in Nodes : /\ ~(In(v + 1, m_queue') /\ LocalOwns(t, v)')
                           /\ ~(LocalHand(t, v)' /\ LocalKeeps(t, v)')
                           /\ ~(In(v + 1, out'[t]) /\ In(v + 1, m_local_queues'[t]))
        BY <1>q, <1>d, <1>4, <1>k DEF LocalOwns
    <2> QED BY <1>0, <1>2, <2>1, <2>2, <2>4, LocalMove
<1>9. e # done_task => \E v \in Nodes : v + 1 = e /\ Popped' = Popped \cup {v} /\ v \notin Popped
    <2> SUFFICES ASSUME e # done_task PROVE \E v \in Nodes : v + 1 = e /\ Popped' = Popped \cup {v} /\ v \notin Popped
        OBVIOUS
    <2>v. PICK v \in Nodes : v + 1 = e
        <3>1. e - 1 \in Nodes /\ (e - 1) + 1 = e
            BY <1>f, <1>q DEF Elements
        <3> QED BY <3>1
    <2>1. In(v + 1, m_queue)
        BY <1>q, <2>v
    <2>2. ~done[v]
        BY <2>1 DEF LocalInv, LocalReady, LocalSomewhere, Ready
    <2>3. \A u \in Threads : ~LocalHolds(u, v)
        BY <2>1 DEF LocalInv, LocalPlaces, LocalOwns, LocalHand
    <2>4. \A w \in Nodes : w + 1 = e <=> w = v
        BY <2>v, <1>f
    <2>5. ASSUME NEW w \in Nodes
          PROVE  (done[w] \/ \E u \in crew : LocalHolds(u, w))' <=> (done[w] \/ (\E u \in crew : LocalHolds(u, w)) \/ w = v)
        BY <2>4, <1>0, <1>4, <1>5, <1>f
    <2>6. Popped' = Popped \cup {v}
        BY <2>5, <1>t DEF Popped
    <2> QED BY <2>v, <2>2, <2>3, <2>6, <1>f DEF Popped
<1>a. e = done_task => Popped' = Popped
    <2>1. e = done_task => \A w \in Nodes : w + 1 # e
        BY <1>f
    <2>2. e = done_task => \A w \in Nodes :
            (done[w] \/ \E u \in crew : LocalHolds(u, w))' <=> (done[w] \/ \E u \in crew : LocalHolds(u, w))
        BY <2>1, <1>0, <1>4, <1>5, <1>f
    <2> QED BY <2>2, <1>t DEF Popped
<1>s. /\ Outstanding' = IF e = done_task THEN Outstanding ELSE Outstanding \ {t}
      /\ Ended' = IF e = done_task THEN Ended \cup {t} ELSE Ended
      /\ t \in Outstanding /\ t \notin Ended /\ LocalReturned' = LocalReturned
    BY <1>0, <1>1, <1>f, <1>w DEF Outstanding, Ended, LocalReturned
<1>c. /\ Popped \in SUBSET Nodes /\ Outstanding \in SUBSET crew /\ Ended \in SUBSET crew
      /\ Cardinality(Popped) \in Nat /\ Cardinality(Outstanding) \in Nat /\ Cardinality(Ended) \in Nat
      /\ Cardinality(crew) \in Nat
    BY <1>f, LocalSets
<1>10. LocalCount'
    <2>3. num_work_left' = size - Cardinality(Popped) - Cardinality(Outstanding)
        BY <1>0 DEF LocalInv, LocalCount
    <2>4. num_work_left' = size' - Cardinality(Popped') - Cardinality(Outstanding')
        <3>1. CASE e = done_task
            BY <3>1, <2>3, <1>a, <1>s, <1>t
        <3>2. CASE e # done_task
            <4>1. Cardinality(Popped') = Cardinality(Popped) + 1
                BY <3>2, <1>9, <1>c, <1>f, NodesCounted
            <4>2. Cardinality(Outstanding') = Cardinality(Outstanding) - 1
                BY <3>2, <1>s, <1>c, <1>f, ThreadsCounted
            <4> QED BY <4>1, <4>2, <2>3, <1>c, <1>t, <1>f
        <3> QED BY <3>1, <3>2
    <2> QED BY <2>4 DEF LocalCount
<1>11. Estimated' = Estimated
    <2>1. \A u \in Threads \ {t}, w \in Nodes :
            (pc[u] = "estimate" /\ current[u] = w + 1)' <=> (pc[u] = "estimate" /\ current[u] = w + 1)
        BY <1>1
    <2>2. \A u \in Threads \ {t}, w \in Nodes : (LocalKeeps(u, w) /\ ~Adds(u, w))' <=> (LocalKeeps(u, w) /\ ~Adds(u, w))
        BY <1>5
    <2>3. \A w \in Nodes : (\/ In(w + 1, m_queue)
                            \/ pc[t] = "estimate" /\ current[t] = w + 1
                            \/ LocalKeeps(t, w) /\ ~Adds(t, w))'
                       <=> (\/ In(w + 1, m_queue)
                            \/ pc[t] = "estimate" /\ current[t] = w + 1
                            \/ LocalKeeps(t, w) /\ ~Adds(t, w))
        BY <1>0, <1>1, <1>4, <1>q
    <2>4. ASSUME NEW w \in Nodes PROVE w \in Estimated' <=> w \in Estimated
        BY <1>f, <1>t, <1>0, <2>1, <2>2, <2>3 DEF Estimated
    <2> QED BY <2>4, <1>t DEF Estimated
<1>12. LocalEstimate'
    <2>1. \A u \in crew, w \in Nodes : Adds(u, w)' => LocalKeeps(u, w)'
        BY <1>4, <1>5, <1>f DEF LocalInv, LocalEstimate
    <2> QED BY <2>1, <1>0, <1>t, <1>s, <1>11 DEF LocalInv, LocalEstimate
<1>13. LocalEnding'
    <2>1. ASSUME NEW u \in crew PROVE DonesToPush(u)' = DonesToPush(u) /\ DonesToPush(u) \in Nat
        <3>1. u # t => DonesToPush(u)' = DonesToPush(u)
            BY <1>0, <1>1, <1>f DEF DonesToPush
        <3>2. Len(out[t]) = 0 /\ out'[t] = out[t]
            BY <1>0, <1>w
        <3>3. Len(out[u]) \in Nat
            BY <1>f, LocalFacts
        <3> QED BY <3>1, <3>2, <3>3 DEF DonesToPush
    <2>2. Dones(m_queue)' + Cardinality(Ended') = Dones(m_queue) + Cardinality(Ended) /\ Cardinality(Ended') \in Nat
          /\ Dones(m_queue)' \in Nat
        <3>0. Dones(m_queue)' = Dones(m_queue')
            BY DEF Dones, DonePlaces
        <3>1. CASE e = done_task
            <4>1. Cardinality(Ended') = Cardinality(Ended) + 1
                BY <3>1, <1>s, <1>c, <1>f, ThreadsCounted
            <4>2. Dones(m_queue') \in Nat
                BY <1>q, SequenceFacts
            <4>3. Dones(m_queue') = Dones(m_queue) - 1 /\ Dones(m_queue) \in Nat
                BY <3>1, <1>q
            <4>4. Cardinality(Ended) \in Nat
                BY <1>c
            <4> QED BY <4>1, <4>2, <4>3, <4>4, <3>0
        <3>2. CASE e # done_task
            BY <3>0, <3>2, <1>s, <1>c, <1>q
        <3> QED BY <3>1, <3>2
    <2>3. ASSUME NEW u \in crew, Quota(u) PROVE Quota(u)'
        <3> DEFINE a == Dones(m_queue)
                   b == Cardinality(Ended)
                   d == DonesToPush(u)
        <3>1. a + d + b >= Cardinality(crew) /\ a \in Nat /\ b \in Nat /\ d \in Nat
            BY <2>1, <2>3, <1>c, <1>q DEF Quota
        <3>2. Dones(m_queue)' + Cardinality(Ended') = a + b /\ DonesToPush(u)' = d
            BY <2>1, <2>2
        <3> HIDE DEF a, b, d
        <3>3. Dones(m_queue)' + DonesToPush(u)' + Cardinality(Ended') >= Cardinality(crew)
            BY <3>1, <3>2, <2>2, <1>c
        <3> QED BY <3>3, <1>0 DEF Quota
    <2>4. NotEnding => NotEnding'
        <3> SUFFICES ASSUME NotEnding PROVE NotEnding'
            OBVIOUS
        <3>1. e # done_task /\ ~In(done_task, m_queue')
            BY <1>q DEF NotEnding
        <3>2. t \notin Outstanding' /\ Ended' = {}
            BY <3>1, <1>s DEF NotEnding
        <3> QED BY <3>1, <3>2, <1>0 DEF NotEnding
    <2> QED BY <2>3, <2>4, <1>0 DEF LocalInv, LocalEnding
<1>14. Attended'
    <2>1. Attending' = Attending \ {t} /\ t \in Attending
        BY <1>0, <1>1, <1>f DEF Attending
    <2>2. Cardinality(Attending') = Cardinality(Attending) - 1 /\ Cardinality(Attending) \in Nat
        BY <2>1, <1>f, LocalSets, ThreadsCounted
    <2>3. waiting # {} => Len(m_queue) <= Cardinality(Attending)
        BY DEF LocalInv, Attended
    <2>4. waiting' # {} => Len(m_queue') <= Cardinality(Attending')
        BY <1>0, <1>q, <2>2, <2>3
    <2> QED BY <1>0, <1>1, <1>f, <2>4 DEF LocalInv, Attended
<1>15. thrown' = FALSE /\ WorkedOK'
    BY <1>0, <1>f, TreeKept DEF LocalInv, LocalNumbers
<1> QED BY <1>2, <1>6, <1>7, <1>8, <1>10, <1>12, <1>13, <1>14, <1>15, LocalStepInv

\* What a worker pushes leaves its hands when it enters the shared queue.
LEMMA LocalPushInv == ASSUME LocalInv, phase = "workers", NEW t \in crew, Local!Push(t) PROVE LocalInv'
<1> DEFINE q == out[t]
           e == Head(out[t])
<1>f. /\ t \in Threads /\ crew \subseteq Threads /\ TaskTree /\ Nodes = 0 .. size - 1 /\ size \in Nat /\ size < done_task
      /\ done_task \in Nat
    BY TreeFacts DEF LocalInv
<1>0. /\ pc[t] = "push" /\ pc' = [pc EXCEPT ![t] = "notify"]
      /\ m_queue' = Append(m_queue, e) /\ out' = [out EXCEPT ![t] = Tail(q)]
      /\ UNCHANGED <<waiting, crew, edges, done, thrown, num_work_left, num_elements_in_queues, phase, current, m_local_queues>>
    BY DEF Local!Push, Local!Goto, Local!PushElement, Local!treeVars, Local!counters
<1>1. /\ \A u \in Threads \ {t} : pc'[u] = pc[u]
      /\ \A x \in (Threads \cup {"main"}) \ {t} : out'[x] = out[x]
      /\ pc'[t] = "notify" /\ out'[t] = Tail(q)
    BY <1>0, <1>f DEF LocalInv, LocalFunctions
<1>2. LocalFrame(t)
    BY <1>0, <1>1 DEF LocalFrame
<1>t. /\ TaskTree' /\ Nodes' = Nodes /\ size' = size /\ Elements' = Elements
      /\ \A v : parent(v)' = parent(v)
    BY <1>0, TreeKept DEF LocalInv, Elements
<1>w. /\ Worker(t) /\ q # <<>> /\ q \in Seq(Elements) /\ Once(q)
      /\ IF current[t] = done_task THEN Dones(q) = Len(q) ELSE ~In(done_task, q)
    BY <1>f, <1>0, LocalFacts DEF Worker
<1>h. e = Head(q)
    OBVIOUS
<1>u. \A v : LocalKeeps(t, v) <=> In(v + 1, q) \/ In(v + 1, m_local_queues[t])
    BY DEF LocalKeeps
<1> HIDE DEF q, e
<1>q. /\ e \in Elements /\ In(e, q) /\ Tail(q) \in Seq(Elements) /\ Once(Tail(q))
      /\ Len(Tail(q)) = Len(q) - 1 /\ Len(q) \in Nat
      /\ \A v : In(v, q) <=> In(v, Tail(q)) \/ v = e
      /\ (e # done_task => ~In(e, Tail(q)))
      /\ Dones(Tail(q)) = IF e = done_task THEN Dones(q) - 1 ELSE Dones(q)
    <2>1. Len(q) \in Nat
        BY <1>w, SequenceFacts
    <2> QED BY <2>1, <1>w, <1>h, HeadTaken, HeadCounted
\* Either all that the thread pushes are done_tasks, or none is.
<1>e. e = done_task <=> current[t] = done_task
    <2>1. CASE current[t] = done_task /\ e # done_task
        <3>1. Dones(Tail(q)) = Len(q)
            BY <2>1, <1>w, <1>q
        <3>2. Dones(Tail(q)) \in 0 .. Len(Tail(q))
            BY <1>q, SequenceFacts
        <3> QED BY <3>1, <3>2, <1>q
    <2> QED BY <2>1, <1>w, <1>q
<1>n. e # done_task => \E v \in Nodes : v + 1 = e /\ In(v + 1, out[t])
    <2> SUFFICES ASSUME e # done_task PROVE \E v \in Nodes : v + 1 = e /\ In(v + 1, out[t])
        OBVIOUS
    <2>1. e - 1 \in Nodes /\ (e - 1) + 1 = e
        BY <1>f, <1>q DEF Elements
    <2> QED BY <2>1, <1>q DEF q
<1>a. /\ m_queue' \in Seq(Elements) /\ Len(m_queue') = Len(m_queue) + 1 /\ Once(m_queue')
      /\ \A f : In(f, m_queue') <=> In(f, m_queue) \/ f = e
      /\ Len(m_queue) \in Nat
      /\ Dones(m_queue') = IF e = done_task THEN Dones(m_queue) + 1 ELSE Dones(m_queue)
    <2>1. m_queue \in Seq(Elements) /\ Once(m_queue)
        BY DEF LocalInv, LocalFunctions, LocalPlaces
    <2>2. e # done_task => ~In(e, m_queue)
        BY <1>n, <1>f DEF LocalInv, LocalPlaces, LocalOwns, LocalKeeps
    <2> DEFINE S == Elements
    <2>3. m_queue \in Seq(S) /\ e \in S
        BY <2>1, <1>q
    <2> HIDE DEF S
    <2>4. /\ Append(m_queue, e) \in Seq(S) /\ Len(Append(m_queue, e)) = Len(m_queue) + 1
          /\ Once(Append(m_queue, e))
          /\ \A f : In(f, Append(m_queue, e)) <=> In(f, m_queue) \/ f = e
        BY <2>1, <2>2, <2>3, ElementAppended
    <2>5. Dones(Append(m_queue, e)) = IF e = done_task THEN Dones(m_queue) + 1 ELSE Dones(m_queue)
        BY <2>3, ElementCounted
    <2>6. Len(m_queue) \in Nat
        BY <2>1, SequenceFacts
    <2> QED BY <1>0, <2>4, <2>5, <2>6 DEF S
<1>d. \A v \in Nodes : v + 1 = e => e # done_task
    BY <1>f
<1>4. \A v \in Nodes : /\ ~LocalHolds(t, v) /\ ~LocalHand(t, v) /\ ~LocalHolds(t, v)' /\ ~LocalHand(t, v)'
                       /\ ~Adds(t, v) /\ ~Adds(t, v)'
    BY <1>0, <1>1 DEF LocalHolds, LocalHand, LocalExpects, Adds
<1>m. \A v \in Nodes : v + 1 = e => ~In(v + 1, m_local_queues[t]) /\ LocalKeeps(t, v)
    <2>1. \A v \in Nodes : v + 1 = e => In(v + 1, out[t])
        BY <1>q DEF q
    <2> QED BY <2>1, <1>f DEF LocalInv, LocalPlaces, LocalKeeps
<1>l. \A v \in Nodes : LocalKeeps(t, v)' <=> LocalKeeps(t, v) /\ v + 1 # e
    <2>1. \A v \in Nodes : LocalKeeps(t, v)' <=> In(v + 1, Tail(q)) \/ In(v + 1, m_local_queues[t])
        BY <1>0, <1>1 DEF LocalKeeps
    <2> QED BY <2>1, <1>d, <1>m, <1>q, <1>u
<1>5. \A u \in Threads \ {t}, v \in Nodes :
        /\ LocalHolds(u, v)' <=> LocalHolds(u, v)
        /\ LocalKeeps(u, v)' <=> LocalKeeps(u, v)
        /\ Adds(u, v)' <=> Adds(u, v)
    BY <1>2, <1>f, LocalOthersStill
<1>6. LocalFunctions'
    <2>1. pc' \in [Threads -> {"joined", "next", "pop", "estimate", "work", "working",
                               "distribute", "add", "push", "notify", "returned"}]
        BY <1>0 DEF LocalInv, LocalFunctions
    <2>2. out' \in [Threads \cup {"main"} -> Seq(Elements)]
        BY <1>0, <1>q DEF LocalInv, LocalFunctions
    <2> QED BY <2>1, <2>2, <1>0, <1>a, <1>t DEF LocalInv, LocalFunctions
<1>7. Worker(t)'
    <2>1. Dones(out[t])' = Dones(Tail(q))
        BY <1>1 DEF Dones, DonePlaces
    <2>2. IF current'[t] = done_task THEN Dones(out[t])' = Len(out'[t]) ELSE ~In(done_task, out'[t])
        BY <2>1, <1>0, <1>1, <1>e, <1>q, <1>w
    <2> QED BY <2>2, <1>0, <1>1, <1>w DEF Worker
<1>8. LocalPlaces' /\ LocalReady'
    <2>1. Once(m_queue') /\ Once(out'[t]) /\ Once(m_local_queues'[t])
        BY <1>0, <1>1, <1>a, <1>f, <1>q DEF LocalInv, LocalPlaces
    <2>2. \A v \in Nodes : LocalOwns(t, v)' <=> LocalOwns(t, v) /\ v + 1 # e
        BY <1>4, <1>l DEF LocalOwns
    <2>3. \A v \in Nodes : LocalOwns(t, v) => ~In(v + 1, m_queue)
        BY <1>f DEF LocalInv, LocalPlaces
    <2>4. \A v \in Nodes : v + 1 = e => LocalOwns(t, v)
        BY <1>m DEF LocalOwns
    <2>5. \A v \in Nodes : In(v + 1, m_queue)' \/ LocalOwns(t, v)' <=> In(v + 1, m_queue) \/ LocalOwns(t, v)
        BY <1>a, <2>2, <2>4
    <2>6. \A v \in Nodes : ~(In(v + 1, out[t]) /\ In(v + 1, m_local_queues[t]))
        BY <1>f DEF LocalInv, LocalPlaces
    <2>7. \A v \in Nodes : In(v + 1, out'[t]) => In(v + 1, out[t])
        BY <1>1, <1>q DEF q
    <2>8. \A v \in Nodes : /\ ~(In(v + 1, m_queue') /\ LocalOwns(t, v)')
                           /\ ~(LocalHand(t, v)' /\ LocalKeeps(t, v)')
                           /\ ~(In(v + 1, out'[t]) /\ In(v + 1, m_local_queues'[t]))
        BY <1>0, <1>4, <1>a, <2>2, <2>3, <2>6, <2>7
    <2> QED BY <1>0, <1>2, <2>1, <2>5, <2>8, LocalMove
<1>9. Popped' = Popped
    BY <1>0, <1>4, <1>5, <1>f, <1>t DEF Popped
<1>s. Outstanding' = Outstanding /\ Ended' = Ended /\ LocalReturned' = LocalReturned
    BY <1>0, <1>1, <1>f DEF Outstanding, Ended, LocalReturned
<1>10. LocalCount'
    BY <1>0, <1>t, <1>9, <1>s DEF LocalInv, LocalCount
<1>11. Estimated' = Estimated
    <2>1. \A u \in Threads, w \in Nodes :
            (pc[u] = "estimate" /\ current[u] = w + 1)' <=> (pc[u] = "estimate" /\ current[u] = w + 1)
        BY <1>0, <1>1
    <2>2. \A u \in Threads \ {t}, w \in Nodes : (LocalKeeps(u, w) /\ ~Adds(u, w))' <=> (LocalKeeps(u, w) /\ ~Adds(u, w))
        BY <1>5
    <2>3. \A w \in Nodes : (In(w + 1, m_queue) \/ (LocalKeeps(t, w) /\ ~Adds(t, w)))'
                       <=> (In(w + 1, m_queue) \/ (LocalKeeps(t, w) /\ ~Adds(t, w)))
        BY <1>4, <1>a, <1>l, <1>m
    <2>4. ASSUME NEW w \in Nodes PROVE w \in Estimated' <=> w \in Estimated
        BY <1>f, <1>t, <1>0, <2>1, <2>2, <2>3 DEF Estimated
    <2> QED BY <2>4, <1>t DEF Estimated
<1>12. LocalEstimate'
    <2>1. \A u \in crew, w \in Nodes : Adds(u, w)' => LocalKeeps(u, w)'
        BY <1>4, <1>5, <1>f DEF LocalInv, LocalEstimate
    <2> QED BY <2>1, <1>0, <1>t, <1>s, <1>11 DEF LocalInv, LocalEstimate
<1>13. LocalEnding'
    <2>0. Dones(m_queue)' = Dones(m_queue') /\ Dones(m_queue) \in Nat /\ Cardinality(Ended) \in Nat /\ Cardinality(crew) \in Nat
        <3>1. Dones(m_queue)' = Dones(m_queue')
            BY DEF Dones, DonePlaces
        <3>2. m_queue \in Seq(Elements)
            BY DEF LocalInv, LocalFunctions
        <3>3. Dones(m_queue) \in 0 .. Len(m_queue)
            BY <3>2, SequenceFacts
        <3>4. Cardinality(Ended) \in Nat /\ Cardinality(crew) \in Nat
            BY <1>f, LocalSets
        <3> QED BY <3>1, <3>3, <3>4
    <2>1. ASSUME NEW u \in crew \ {t} PROVE DonesToPush(u)' = DonesToPush(u) /\ DonesToPush(u) \in Nat
        <3>1. DonesToPush(u)' = DonesToPush(u)
            BY <1>0, <1>1, <1>f DEF DonesToPush
        <3>2. Len(out[u]) \in Nat
            BY <1>f, LocalFacts
        <3> QED BY <3>1, <3>2 DEF DonesToPush
    <2>2. Dones(m_queue') + DonesToPush(t)' = Dones(m_queue) + DonesToPush(t) /\ DonesToPush(t) \in Nat /\ DonesToPush(t)' \in Nat
        <3>1. DonesToPush(t)' = IF e = done_task THEN Len(q) - 1 ELSE 0
            BY <1>0, <1>1, <1>e, <1>q DEF DonesToPush
        <3>2. DonesToPush(t) = IF e = done_task THEN Len(q) ELSE 0
            BY <1>e DEF DonesToPush, q
        <3>3. Len(q) >= 1
            BY <1>w, SequenceFacts
        <3> QED BY <3>1, <3>2, <3>3, <1>a, <1>q, <2>0
    <2>3. ASSUME NEW u \in crew, Quota(u) PROVE Quota(u)'
        <3> DEFINE a == Dones(m_queue)
                   a1 == Dones(m_queue')
                   b == Cardinality(Ended)
                   d == DonesToPush(u)
                   n == Cardinality(crew)
        <3>1. a + d + b >= n /\ a \in Nat /\ b \in Nat /\ n \in Nat
            BY <2>0, <2>3 DEF Quota
        <3>2. a1 \in Nat /\ a1 >= a
            BY <2>0, <1>a
        <3>3. d \in Nat /\ DonesToPush(u)' \in Nat /\ (u = t => a1 + DonesToPush(u)' = a + d) /\ (u # t => DonesToPush(u)' = d)
            BY <2>1, <2>2
        <3>4. PICK d1 \in Nat : d1 = DonesToPush(u)'
            BY <3>3
        <3> HIDE DEF a, a1, b, d, n
        <3>5. a1 + d1 + b >= n
            BY <3>1, <3>2, <3>3, <3>4
        <3> QED BY <3>4, <3>5, <2>0, <1>0, <1>s DEF Quota, a1, b, n
    <2>4. NotEnding => NotEnding'
        <3> SUFFICES ASSUME NotEnding PROVE NotEnding'
            OBVIOUS
        <3>1. ~In(done_task, q)
            BY DEF NotEnding, q
        <3>2. e # done_task /\ ~In(done_task, m_queue') /\ ~In(done_task, out'[t])
            BY <3>1, <1>1, <1>a, <1>q DEF NotEnding
        <3>3. \A u \in crew : ~In(done_task, out'[u])
            BY <3>2, <1>1, <1>f DEF NotEnding
        <3> QED BY <3>2, <3>3, <1>0, <1>9, <1>s, <1>t DEF NotEnding
    <2> QED BY <2>3, <2>4, <1>0 DEF LocalInv, LocalEnding
<1>14. Attended'
    <2>1. Attending' = Attending \cup {t} /\ t \in crew \ Attending
        BY <1>0, <1>1, <1>f DEF Attending
    <2>2. Cardinality(Attending') = Cardinality(Attending) + 1 /\ Cardinality(Attending) \in Nat
        BY <2>1, <1>f, LocalSets, ThreadsCounted
    <2>3. waiting # {} => Len(m_queue) <= Cardinality(Attending)
        BY DEF LocalInv, Attended
    <2>4. waiting' # {} => Len(m_queue') <= Cardinality(Attending')
        BY <1>0, <1>a, <2>2, <2>3
    <2> QED BY <1>0, <1>1, <1>f, <2>4 DEF LocalInv, Attended
<1>15. thrown' = FALSE /\ WorkedOK'
    BY <1>0, <1>f, TreeKept DEF LocalInv, LocalNumbers
<1> QED BY <1>2, <1>6, <1>7, <1>8, <1>10, <1>12, <1>13, <1>14, <1>15, LocalStepInv

\* The own queue with k of the children at its back, what of the children and of it is shared when it gives
\* away n nodes, and what it then has.
Own(q, r, k) == q \o SubSeq(r, 1, k)
Shared(q, r, k, n) == SubSeq(r, k + 1, Len(r)) \o SubSeq(Own(q, r, k), 1, n)
Left(q, r, k, n) == SubSeq(Own(q, r, k), n + 1, Len(Own(q, r, k)))

\* No node is lost thereby, nor in both queues.
LEMMA SequencesShared ==
    ASSUME NEW S, NEW q \in Seq(S), NEW r \in Seq(S), Once(q), Once(r),
           \A e \in S : ~(In(e, q) /\ In(e, r)),
           NEW k \in 0 .. Len(r), NEW n \in 0 .. Len(Own(q, r, k))
    PROVE  /\ Shared(q, r, k, n) \in Seq(S) /\ Left(q, r, k, n) \in Seq(S)
           /\ Once(Shared(q, r, k, n)) /\ Once(Left(q, r, k, n))
           /\ \A e : In(e, Shared(q, r, k, n)) \/ In(e, Left(q, r, k, n)) <=> In(e, q) \/ In(e, r)
           /\ \A e : In(e, Shared(q, r, k, n)) /\ In(e, Left(q, r, k, n)) => e = done_task
<1> DEFINE own == Own(q, r, k)
           o == Shared(q, r, k, n)
           l == Left(q, r, k, n)
           a == SubSeq(r, 1, k)
           b == SubSeq(r, k + 1, Len(r))
           c == SubSeq(own, 1, n)
<1>0. \A e : In(e, q) => e \in S
    BY SequenceFacts
<1>1. /\ a \in Seq(S) /\ b \in Seq(S) /\ Once(a) /\ Once(b)
      /\ \A e : In(e, r) <=> In(e, a) \/ In(e, b)
      /\ \A e : In(e, a) /\ In(e, b) => e = done_task
    BY SequenceCut
<1> HIDE DEF a, b, c, own, o, l
<1>2. own \in Seq(S) /\ Once(own) /\ \A e : In(e, own) <=> In(e, q) \/ In(e, a)
    <2>1. own = q \o a
        BY DEF a, own, Own
    <2>2. \A e : In(e, q) /\ In(e, a) => e = done_task
        BY <1>0, <1>1
    <2>3. a \in Seq(S) /\ Once(a)
        BY <1>1
    <2>4. q \o a \in Seq(S) /\ Once(q \o a) /\ \A e : In(e, q \o a) <=> In(e, q) \/ In(e, a)
        BY <2>2, <2>3, SequencesJoined
    <2> QED BY <2>1, <2>4
<1>3. /\ c \in Seq(S) /\ l \in Seq(S) /\ Once(c) /\ Once(l)
      /\ \A e : In(e, own) <=> In(e, c) \/ In(e, l)
      /\ \A e : In(e, c) /\ In(e, l) => e = done_task
    <2>1. own \in Seq(S) /\ Once(own) /\ n \in 0 .. Len(own)
        BY <1>2 DEF own
    <2>2. /\ SubSeq(own, n + 1, Len(own)) \in Seq(S) /\ Once(SubSeq(own, n + 1, Len(own)))
          /\ c \in Seq(S) /\ Once(c)
          /\ \A e : In(e, own) <=> In(e, c) \/ In(e, SubSeq(own, n + 1, Len(own)))
          /\ \A e : In(e, c) /\ In(e, SubSeq(own, n + 1, Len(own))) => e = done_task
        BY <2>1, SequenceCut DEF c
    <2> QED BY <2>2 DEF l, own, Left
<1>4. \A e : In(e, b) /\ In(e, own) => e = done_task
    BY <1>0, <1>1, <1>2
<1>5. /\ b \o c \in Seq(S) /\ Once(b \o c) /\ \A e : In(e, b \o c) <=> In(e, b) \/ In(e, c)
    <2>1. \A e : In(e, b) /\ In(e, c) => e = done_task
        BY <1>3, <1>4
    <2> QED BY <1>1, <1>3, <2>1, SequencesJoined
<1>6. o = b \o c
    BY DEF b, c, own, o, Shared
<1>7. o \in Seq(S) /\ Once(o) /\ \A e : In(e, o) <=> In(e, b) \/ In(e, c)
    BY <1>5, <1>6
<1>8. \A e : In(e, o) \/ In(e, l) <=> In(e, q) \/ In(e, r)
    BY <1>1, <1>2, <1>3, <1>7
<1>9. \A e : In(e, o) /\ In(e, l) => e = done_task
    BY <1>3, <1>4, <1>7
<1> QED BY <1>3, <1>7, <1>8, <1>9 DEF o, l

\* How many children the worker keeps, and how many nodes are too many for it.
LEMMA LocalShare ==
    ASSUME TaskTree, NEW k \in Nat, NEW l \in Nat, num_elements_in_queues \in Int
    PROVE  /\ Local!AtMost(k, Local!AtLeast(0, Local!Desired(k) - l)) \in 0 .. k
           /\ \A m \in Nat : Local!AtLeast(0, m - Local!MaxDesired(k)) \in 0 .. m
<1> DEFINE n == Cardinality(crew)
           x == Local!AtLeast(num_elements_in_queues, 0) + k
           d == Local!Desired(k)
           m3 == Local!MaxDesired(k)
<1>1. n \in Nat /\ n >= 1
    <2>1. PICK t \in crew : TRUE
        BY TreeFacts
    <2> QED BY <2>1, ThreadsCounted
<1>2. x \in Nat
    BY DEF Local!AtLeast
<1>3. d = Local!AtLeast(1, x \div n)
    BY DEF Local!Desired, Local!num_threads, Local!Cardinality, Cardinality
<1> HIDE DEF n, x, d
<1>4. x \div n \in Int
    BY <1>1, <1>2
<1>5. d \in Nat /\ d >= 1
    BY <1>3, <1>4 DEF Local!AtLeast
<1>6. m3 = (3 * d) \div 2
    BY DEF Local!MaxDesired, d
<1> HIDE DEF m3
<1>7. m3 \in Nat
    BY <1>5, <1>6
<1>8. Local!AtMost(k, Local!AtLeast(0, d - l)) \in 0 .. k
    BY <1>5 DEF Local!AtMost, Local!AtLeast
<1>9. \A m \in Nat : Local!AtLeast(0, m - m3) \in 0 .. m
    BY <1>7 DEF Local!AtLeast
<1> QED BY <1>8, <1>9 DEF d, m3

\* The worker takes the children of a node into its queues.
LEMMA LocalDistributeInv == ASSUME LocalInv, phase = "workers", NEW t \in crew, Local!Distribute(t) PROVE LocalInv'
<1> DEFINE c == current[t]
           r == kids(c)
           q == m_local_queues[t]
           k == Local!AtMost(Len(r), Local!AtLeast(0, Local!Desired(Len(r)) - Len(q)))
           own == q \o SubSeq(r, 1, k)
           n == Local!AtLeast(0, Len(own) - Local!MaxDesired(Len(r)))
           o == SubSeq(r, k + 1, Len(r)) \o SubSeq(own, 1, n)
           l == SubSeq(own, n + 1, Len(own))
<1>f. /\ t \in Threads /\ crew \subseteq Threads /\ TaskTree /\ Nodes = 0 .. size - 1 /\ size \in Nat /\ size < done_task
      /\ done_task \in Nat
    BY TreeFacts DEF LocalInv
<1>0. /\ pc[t] = "distribute" /\ pc' = [pc EXCEPT ![t] = "add"]
      /\ out' = [out EXCEPT ![t] = o] /\ m_local_queues' = [m_local_queues EXCEPT ![t] = l]
      /\ UNCHANGED <<m_queue, waiting, crew, edges, done, thrown, num_work_left, num_elements_in_queues, phase, current>>
    BY Zenon DEF Local!Distribute, Local!Goto, Local!treeVars, Local!counters, Local!queueVars, kids
<1>w. Worker(t) /\ c \in Nodes /\ out[t] = <<>> /\ q \in Seq(1 .. size) /\ Once(q)
    BY <1>0, <1>f, LocalFacts DEF Worker
<1>r. /\ r \in Seq(1 .. size) /\ Once(r) /\ \A v \in Nodes : In(v + 1, r) <=> c \in parent(v)
    BY <1>f, <1>w, KidsFacts
<1>c. c = current[t] /\ q = m_local_queues[t]
    OBVIOUS
<1>4. \A v \in Nodes : /\ ~LocalHolds(t, v) /\ (LocalHand(t, v) <=> c \in parent(v))
                       /\ (LocalKeeps(t, v) <=> In(v + 1, q))
                       /\ ~Adds(t, v) /\ ~(c \in parent(v) /\ In(v + 1, q))
    <2>1. \A v \in Nodes : /\ ~LocalHolds(t, v) /\ (LocalHand(t, v) <=> c \in parent(v))
                           /\ (LocalKeeps(t, v) <=> In(v + 1, q)) /\ ~Adds(t, v)
        BY <1>0, <1>w, EmptyHasNothing DEF LocalHolds, LocalHand, LocalExpects, LocalKeeps, Adds
    <2>2. \A v \in Nodes : ~(LocalHand(t, v) /\ LocalKeeps(t, v))
        BY <1>f DEF LocalInv, LocalPlaces
    <2> QED BY <2>1, <2>2
<1> HIDE DEF c, r, q
<1>q. Len(q) \in Nat /\ Len(r) \in Nat
    BY <1>w, <1>r
<1>k. k \in 0 .. Len(r)
    BY <1>f, <1>q, LocalShare DEF LocalInv, LocalNumbers
<1> HIDE DEF k
<1>n. n \in 0 .. Len(own)
    <2>1. SubSeq(r, 1, k) \in Seq(1 .. size)
        BY <1>r, <1>k, SequenceCut
    <2>2. own \in Seq(1 .. size)
        BY <1>w, <2>1, ConcatProperties
    <2>3. Len(own) \in Nat
        BY <2>2
    <2>4. num_elements_in_queues \in Int
        BY <1>f, LocalSets DEF LocalInv, LocalNumbers
    <2>5. \A m \in Nat : Local!AtLeast(0, m - Local!MaxDesired(Len(r))) \in 0 .. m
        BY <1>f, <1>q, <2>4, LocalShare
    <2> QED BY <2>3, <2>5
<1>o. /\ o \in Seq(1 .. size) /\ l \in Seq(1 .. size) /\ Once(o) /\ Once(l)
      /\ \A v \in Nodes : In(v + 1, o) \/ In(v + 1, l) <=> In(v + 1, q) \/ c \in parent(v)
      /\ \A v \in Nodes : ~(In(v + 1, o) /\ In(v + 1, l))
    <2> DEFINE S == 1 .. size
    <2>0. q \in Seq(S) /\ r \in Seq(S) /\ Once(q) /\ Once(r)
        BY <1>r, <1>w
    <2>1. ASSUME NEW e \in S PROVE ~(In(e, q) /\ In(e, r))
        <3>1. PICK v \in Nodes : v + 1 = e
            <4>1. e - 1 \in Nodes /\ (e - 1) + 1 = e
                BY <1>f
            <4> QED BY <4>1
        <3> QED BY <3>1, <1>4, <1>r
    <2>p. /\ k \in 0 .. Len(r) /\ n \in 0 .. Len(Own(q, r, k))
          /\ o = Shared(q, r, k, n) /\ l = Left(q, r, k, n)
        BY <1>k, <1>n DEF Own, Shared, Left
    <2> HIDE DEF S, n, own, o, l
    <2>2. /\ o \in Seq(S) /\ l \in Seq(S) /\ Once(o) /\ Once(l)
          /\ \A e : In(e, o) \/ In(e, l) <=> In(e, q) \/ In(e, r)
          /\ \A e : In(e, o) /\ In(e, l) => e = done_task
        BY <2>0, <2>1, <2>p, SequencesShared
    <2>3. \A v \in Nodes : v + 1 # done_task
        BY <1>f
    <2> QED BY <2>2, <2>3, <1>r DEF S
<1> HIDE DEF o, l, own, n
<1>e. o \in Seq(Elements) /\ ~In(done_task, o)
    <2>1. \A e : In(e, o) => e \in 1 .. size
        BY <1>o, SequenceFacts
    <2>2. done_task \notin 1 .. size
        BY <1>f
    <2>3. 1 .. size \subseteq Elements
        BY DEF Elements
    <2>4. o \in Seq(Elements)
        <3>1. Len(o) \in Nat /\ o \in [1 .. Len(o) -> 1 .. size]
            BY <1>o, LenProperties
        <3>2. o \in [1 .. Len(o) -> Elements]
            BY <3>1, <2>3
        <3> QED BY <3>1, <3>2, SeqDef
    <2> QED BY <2>1, <2>2, <2>4
<1>1. /\ \A u \in Threads \ {t} : pc'[u] = pc[u] /\ m_local_queues'[u] = m_local_queues[u]
      /\ \A x \in (Threads \cup {"main"}) \ {t} : out'[x] = out[x]
      /\ pc'[t] = "add" /\ out'[t] = o /\ m_local_queues'[t] = l
    BY <1>0, <1>f DEF LocalInv, LocalFunctions
<1>2. LocalFrame(t)
    BY <1>0, <1>1 DEF LocalFrame
<1>t. /\ TaskTree' /\ Nodes' = Nodes /\ size' = size /\ Elements' = Elements
      /\ \A v : parent(v)' = parent(v)
    BY <1>0, TreeKept DEF LocalInv, Elements
<1>3. \A v \in Nodes : /\ ~LocalHolds(t, v)' /\ ~LocalHand(t, v)'
                       /\ LocalKeeps(t, v)' <=> LocalKeeps(t, v) \/ c \in parent(v)
                       /\ Adds(t, v)' <=> c \in parent(v)
    <2>1. \A v \in Nodes : LocalKeeps(t, v)' <=> In(v + 1, o) \/ In(v + 1, l)
        BY <1>1 DEF LocalKeeps
    <2>2. \A v \in Nodes : Adds(t, v)' <=> c \in parent(v)
        BY <1>0, <1>1, <1>t DEF Adds, c
    <2>3. \A v \in Nodes : ~LocalHolds(t, v)' /\ ~LocalHand(t, v)'
        BY <1>1 DEF LocalHolds, LocalHand, LocalExpects
    <2> QED BY <2>1, <2>2, <2>3, <1>4, <1>o
<1>5. \A u \in Threads \ {t}, v \in Nodes :
        /\ LocalHolds(u, v)' <=> LocalHolds(u, v)
        /\ LocalKeeps(u, v)' <=> LocalKeeps(u, v)
        /\ Adds(u, v)' <=> Adds(u, v)
    BY <1>2, <1>f, LocalOthersStill
<1>6. LocalFunctions'
    <2>1. pc' \in [Threads -> {"joined", "next", "pop", "estimate", "work", "working",
                               "distribute", "add", "push", "notify", "returned"}]
        BY <1>0 DEF LocalInv, LocalFunctions
    <2>2. out' \in [Threads \cup {"main"} -> Seq(Elements)]
        BY <1>0, <1>e DEF LocalInv, LocalFunctions
    <2>3. m_local_queues' \in [Threads -> Seq(1 .. size)]
        BY <1>0, <1>o DEF LocalInv, LocalFunctions
    <2> QED BY <2>1, <2>2, <2>3, <1>0, <1>t DEF LocalInv, LocalFunctions
<1>d. current'[t] = c /\ c # done_task
    BY <1>0, <1>f, <1>w DEF c
<1>7. Worker(t)'
    <2>1. pc[t] # "joined" /\ (pc[t] # "joined" <=> phase = "workers" /\ t \in crew)
        BY <1>0, <1>w DEF Worker
    <2>2. pc'[t] = "add" /\ current'[t] \in Nodes' /\ current'[t] # done_task /\ ~In(done_task, out'[t])
        BY <1>1, <1>d, <1>e, <1>t, <1>w
    <2>3. ~In(done_task, out[t])'
        BY <2>2 DEF In
    <2> QED BY <2>1, <2>2, <2>3, <1>0 DEF Worker
<1>8. LocalPlaces' /\ LocalReady'
    <2>1. Once(m_queue') /\ Once(out'[t]) /\ Once(m_local_queues'[t])
        BY <1>0, <1>1, <1>o DEF LocalInv, LocalPlaces
    <2>2. \A v \in Nodes : LocalOwns(t, v)' <=> LocalOwns(t, v)
        BY <1>3, <1>4 DEF LocalOwns
    <2>3. \A v \in Nodes : LocalOwns(t, v) => ~In(v + 1, m_queue)
        BY <1>f DEF LocalInv, LocalPlaces
    <2>4. \A v \in Nodes : In(v + 1, m_queue)' \/ LocalOwns(t, v)' <=> In(v + 1, m_queue) \/ LocalOwns(t, v)
        BY <1>0, <2>2
    <2>5. \A v \in Nodes : /\ ~(In(v + 1, m_queue') /\ LocalOwns(t, v)')
                           /\ ~(LocalHand(t, v)' /\ LocalKeeps(t, v)')
                           /\ ~(In(v + 1, out'[t]) /\ In(v + 1, m_local_queues'[t]))
        BY <1>0, <1>1, <1>3, <1>o, <2>2, <2>3
    <2> QED BY <1>0, <1>2, <2>1, <2>4, <2>5, LocalMove
<1>9. Popped' = Popped
    BY <1>0, <1>3, <1>4, <1>5, <1>f, <1>t DEF Popped
<1>s. Outstanding' = Outstanding /\ Ended' = Ended /\ LocalReturned' = LocalReturned
    BY <1>0, <1>1, <1>f DEF Outstanding, Ended, LocalReturned
<1>10. LocalCount'
    BY <1>0, <1>t, <1>9, <1>s DEF LocalInv, LocalCount
<1>11. Estimated' = Estimated
    <2>1. \A u \in Threads, w \in Nodes :
            (pc[u] = "estimate" /\ current[u] = w + 1)' <=> (pc[u] = "estimate" /\ current[u] = w + 1)
        BY <1>0, <1>1
    <2>2. \A u \in Threads, w \in Nodes : (LocalKeeps(u, w) /\ ~Adds(u, w))' <=> (LocalKeeps(u, w) /\ ~Adds(u, w))
        <3>1. \A w \in Nodes : (LocalKeeps(t, w) /\ ~Adds(t, w))' <=> (LocalKeeps(t, w) /\ ~Adds(t, w))
            BY <1>3, <1>4
        <3> QED BY <3>1, <1>5
    <2> QED BY <1>f, <1>t, <1>0, <2>1, <2>2 DEF Estimated
<1>12. LocalEstimate'
    <2>1. \A u \in crew, w \in Nodes : Adds(u, w)' => LocalKeeps(u, w)'
        BY <1>3, <1>5, <1>f DEF LocalInv, LocalEstimate
    <2> QED BY <2>1, <1>0, <1>t, <1>s, <1>11 DEF LocalInv, LocalEstimate
<1>13. LocalEnding'
    <2>1. \A u \in crew : DonesToPush(u)' = DonesToPush(u)
        BY <1>0, <1>1, <1>d, <1>f DEF DonesToPush
    <2>2. NotEnding => NotEnding'
        <3> SUFFICES ASSUME NotEnding PROVE NotEnding'
            OBVIOUS
        <3>1. \A u \in crew : ~In(done_task, out'[u])
            BY <1>1, <1>e, <1>f DEF NotEnding
        <3> QED BY <3>1, <1>0, <1>9, <1>s, <1>t DEF NotEnding
    <2> QED BY <2>1, <2>2, <1>0, <1>s, LocalQuotaKept
<1>14. Attended'
    BY <1>0, <1>2, LocalAttentionKept
<1>15. thrown' = FALSE /\ WorkedOK'
    BY <1>0, <1>f, TreeKept DEF LocalInv, LocalNumbers
<1> QED BY <1>2, <1>6, <1>7, <1>8, <1>10, <1>12, <1>13, <1>14, <1>15, LocalStepInv

\* A node has as many children as it has edges.
LEMMA ChildrenCounted ==
    ASSUME TaskTree, NEW c \in Nodes
    PROVE  Cardinality({v \in Nodes : c \in parent(v)}) = Len(edges[c])
<1> DEFINE D == 1 .. Len(edges[c])
           C == {v \in Nodes : c \in parent(v)}
           f == [i \in D |-> edges[c][i]]
<1>1. edges[c] \in Seq(Nodes) /\ DOMAIN edges[c] = D /\ Len(edges[c]) \in Nat
    BY ParentFacts
<1>2. \A v \in Nodes : c \in parent(v) <=> \E i \in D : edges[c][i] = v
    BY <1>1 DEF parent, Children
<1>3. \A i, j \in D : edges[c][i] = edges[c][j] => i = j
    BY <1>1, ParentFacts
<1>4. \A i \in D : edges[c][i] \in Nodes
    BY <1>1
<1> HIDE DEF D
<1>5. f \in [D -> C]
    BY <1>2, <1>4
<1>6. f \in Injection(D, C)
    BY <1>3, <1>5 DEF Injection, IsInjective
<1>7. f \in Surjection(D, C)
    BY <1>2, <1>5 DEF Surjection
<1>8. IsFiniteSet(D) /\ Cardinality(D) = Len(edges[c])
    BY <1>1, FromOne DEF D
<1>9. C \in SUBSET Nodes
    OBVIOUS
<1>10. IsFiniteSet(C)
    BY <1>9, NodesCounted
<1>11. ExistsBijection(D, C)
    BY <1>6, <1>7 DEF ExistsBijection, Bijection
<1> QED BY <1>8, <1>10, <1>11, FS_Bijection

\* The worker adds to the estimate what it has taken into its queues.
LEMMA LocalCountNewInv == ASSUME LocalInv, phase = "workers", NEW t \in crew, Local!CountNew(t) PROVE LocalInv'
<1> DEFINE c == current[t]
           to == IF out[t] = <<>> THEN "next" ELSE "push"
           k == Len(edges[c])
           C == {v \in Nodes : c \in parent(v)}
<1>f. /\ t \in Threads /\ crew \subseteq Threads /\ TaskTree /\ Nodes = 0 .. size - 1 /\ size \in Nat /\ size < done_task
      /\ done_task \in Nat
    BY TreeFacts DEF LocalInv
<1>0. /\ pc[t] = "add" /\ pc' = [pc EXCEPT ![t] = to] /\ current' = [current EXCEPT ![t] = 0]
      /\ num_elements_in_queues' = num_elements_in_queues + k
      /\ UNCHANGED <<m_queue, waiting, crew, edges, done, thrown, num_work_left, phase, out, m_local_queues>>
    BY DEF Local!CountNew, Local!Goto, Local!treeVars, Local!queueVars
<1>1. /\ \A u \in Threads \ {t} : pc'[u] = pc[u] /\ current'[u] = current[u]
      /\ pc'[t] = to /\ current'[t] = 0
    BY <1>0, <1>f DEF LocalInv, LocalFunctions
<1>2. LocalFrame(t)
    BY <1>0, <1>1 DEF LocalFrame
<1>t. /\ TaskTree' /\ Nodes' = Nodes /\ size' = size /\ Elements' = Elements
      /\ \A v : parent(v)' = parent(v)
    BY <1>0, TreeKept DEF LocalInv, Elements
<1>w. Worker(t) /\ c \in Nodes /\ c # done_task
    BY <1>0, <1>f, LocalFacts DEF Worker
<1>c. Cardinality(C) = k /\ C \in SUBSET Nodes
    BY <1>f, <1>w, ChildrenCounted
<1>3. to \in {"next", "push"} /\ (to = "push" <=> out[t] # <<>>)
    OBVIOUS
<1>4. \A v \in Nodes : /\ ~LocalHolds(t, v) /\ ~LocalHand(t, v) /\ ~LocalHolds(t, v)' /\ ~LocalHand(t, v)'
                       /\ LocalKeeps(t, v)' <=> LocalKeeps(t, v)
                       /\ Adds(t, v) <=> c \in parent(v)
                       /\ ~Adds(t, v)'
    BY <1>0, <1>1, <1>3, <1>t DEF LocalHolds, LocalHand, LocalExpects, LocalKeeps, Adds
<1> HIDE DEF to
<1>d. c = current[t]
    OBVIOUS
<1> HIDE DEF c, k
<1>5. \A u \in Threads \ {t}, v \in Nodes :
        /\ LocalHolds(u, v)' <=> LocalHolds(u, v)
        /\ LocalKeeps(u, v)' <=> LocalKeeps(u, v)
        /\ Adds(u, v)' <=> Adds(u, v)
    BY <1>2, <1>f, LocalOthersStill
<1>6. LocalFunctions'
    <2>1. pc' \in [Threads -> {"joined", "next", "pop", "estimate", "work", "working",
                               "distribute", "add", "push", "notify", "returned"}]
        BY <1>0, <1>3 DEF LocalInv, LocalFunctions
    <2>2. current' \in [Threads -> 0 .. done_task]
        BY <1>0, <1>f DEF LocalInv, LocalFunctions
    <2> QED BY <2>1, <2>2, <1>0, <1>t DEF LocalInv, LocalFunctions
<1>7. Worker(t)'
    <2>1. ~In(done_task, out[t])
        BY <1>w, <1>0, <1>d DEF Worker
    <2>2. pc'[t] # "joined" /\ current'[t] # done_task /\ current'[t] = 0 /\ out'[t] = out[t] /\ ~In(done_task, out'[t])
        BY <2>1, <1>0, <1>1, <1>3, <1>f
    <2>3. ~In(done_task, out[t])'
        BY <2>2 DEF In
    <2>4. phase' = "workers" /\ t \in crew'
        BY <1>0
    <2> QED BY <2>2, <2>3, <2>4, <1>1, <1>3 DEF Worker
<1>8. LocalPlaces' /\ LocalReady'
    <2>1. Once(m_queue') /\ Once(out'[t]) /\ Once(m_local_queues'[t])
        BY <1>0, <1>f DEF LocalInv, LocalPlaces
    <2>2. \A v \in Nodes : LocalOwns(t, v)' <=> LocalOwns(t, v)
        BY <1>4 DEF LocalOwns
    <2>3. \A v \in Nodes : LocalOwns(t, v) => ~In(v + 1, m_queue)
        BY <1>f DEF LocalInv, LocalPlaces
    <2>4. \A v \in Nodes : In(v + 1, m_queue)' \/ LocalOwns(t, v)' <=> In(v + 1, m_queue) \/ LocalOwns(t, v)
        BY <1>0, <2>2
    <2>6. \A v \in Nodes : ~(In(v + 1, out[t]) /\ In(v + 1, m_local_queues[t]))
        BY <1>f DEF LocalInv, LocalPlaces
    <2>5. \A v \in Nodes : /\ ~(In(v + 1, m_queue') /\ LocalOwns(t, v)')
                           /\ ~(LocalHand(t, v)' /\ LocalKeeps(t, v)')
                           /\ ~(In(v + 1, out'[t]) /\ In(v + 1, m_local_queues'[t]))
        BY <1>0, <1>4, <2>2, <2>3, <2>6
    <2> QED BY <1>0, <1>2, <2>1, <2>4, <2>5, LocalMove
<1>9. Popped' = Popped
    BY <1>0, <1>4, <1>5, <1>f, <1>t DEF Popped
<1>s. Outstanding' = Outstanding /\ Ended' = Ended /\ LocalReturned' = LocalReturned
    BY <1>0, <1>1, <1>3, <1>d, <1>f, <1>w DEF Outstanding, Ended, LocalReturned
<1>10. LocalCount'
    BY <1>0, <1>t, <1>9, <1>s DEF LocalInv, LocalCount
<1>11. Estimated' = Estimated \cup C /\ Estimated \cap C = {}
    <2>1. \A u \in Threads, w \in Nodes :
            (pc[u] = "estimate" /\ current[u] = w + 1)' <=> (pc[u] = "estimate" /\ current[u] = w + 1)
        BY <1>0, <1>1, <1>3
    <2>2. \A u \in Threads \ {t}, w \in Nodes : (LocalKeeps(u, w) /\ ~Adds(u, w))' <=> (LocalKeeps(u, w) /\ ~Adds(u, w))
        BY <1>5
    <2>3. \A w \in C : LocalKeeps(t, w) /\ LocalOwns(t, w)
        BY <1>4 DEF LocalInv, LocalEstimate, LocalOwns
    <2>4. \A w \in Nodes : (LocalKeeps(t, w) /\ ~Adds(t, w))' <=> (LocalKeeps(t, w) /\ ~Adds(t, w)) \/ w \in C
        BY <1>4, <2>3
    <2>5. \A w \in Nodes : w \in Estimated' <=> w \in Estimated \/ w \in C
        BY <1>f, <1>t, <1>0, <2>1, <2>2, <2>4 DEF Estimated
    <2>6. ASSUME NEW w \in C PROVE w \notin Estimated
        <3>1. ~In(w + 1, m_queue) /\ \A u \in Threads : LocalOwns(u, w) => u = t
            BY <2>3, <1>f DEF LocalInv, LocalPlaces
        <3>2. \A u \in Threads \ {t} : ~LocalKeeps(u, w) /\ ~LocalHolds(u, w)
            BY <3>1 DEF LocalOwns, LocalHand
        <3>3. \A u \in Threads \ {t} : ~(pc[u] = "estimate" /\ current[u] = w + 1)
            BY <3>2 DEF LocalHolds
        <3>4. Adds(t, w) /\ pc[t] # "estimate"
            BY <1>0, <1>4
        <3> QED BY <3>1, <3>2, <3>3, <3>4, <1>f DEF Estimated
    <2> QED BY <2>5, <2>6, <1>t DEF Estimated
<1>12. LocalEstimate'
    <2>1. \A u \in crew, w \in Nodes : Adds(u, w)' => LocalKeeps(u, w)'
        BY <1>4, <1>5, <1>f DEF LocalInv, LocalEstimate
    <2>2. Estimated \in SUBSET Nodes /\ Cardinality(Estimated) \in Nat /\ Cardinality(LocalReturned) \in Nat
        BY <1>f, LocalSets
    <2>3. IsFiniteSet(Estimated) /\ IsFiniteSet(C) /\ k \in Nat
        BY <2>2, <1>c, <1>f, NodesCounted
    <2>4. Cardinality(Estimated') = Cardinality(Estimated) + k
        <3>1. Cardinality(Estimated \cup C) = Cardinality(Estimated) + Cardinality(C) - Cardinality(Estimated \cap C)
            BY <2>3, FS_Union
        <3>2. Cardinality(Estimated \cap C) = 0
            BY <1>11, FS_EmptySet
        <3> QED BY <3>1, <3>2, <1>11, <1>c, <2>2, <2>3
    <2>5. num_elements_in_queues = Cardinality(Estimated) - Cardinality(LocalReturned) - 1
        BY DEF LocalInv, LocalEstimate
    <2>6. num_elements_in_queues' = Cardinality(Estimated') - Cardinality(LocalReturned') - 1
        BY <1>0, <1>s, <2>2, <2>3, <2>4, <2>5
    <2> QED BY <2>1, <2>6, <1>0, <1>t DEF LocalEstimate
<1>13. LocalEnding'
    <2>1. \A u \in crew : DonesToPush(u)' = DonesToPush(u)
        BY <1>0, <1>1, <1>d, <1>w, <1>f DEF DonesToPush
    <2>2. NotEnding => NotEnding'
        BY <1>0, <1>9, <1>s, <1>t DEF NotEnding
    <2> QED BY <2>1, <2>2, <1>0, <1>s, LocalQuotaKept
<1>14. Attended'
    BY <1>0, <1>2, LocalAttentionKept
<1>15. thrown' = FALSE /\ WorkedOK'
    BY <1>0, <1>f, TreeKept DEF LocalInv, LocalNumbers
<1> QED BY <1>2, <1>6, <1>7, <1>8, <1>10, <1>12, <1>13, <1>14, <1>15, LocalStepInv

\* A sequence is a function over its places, and stays one of a larger set.
LEMMA ElementsOfSequence ==
    ASSUME NEW S, NEW q \in Seq(S)
    PROVE  /\ Len(q) \in Nat /\ DOMAIN q = 1 .. Len(q)
           /\ \A i \in 1 .. Len(q) : q[i] \in S
           /\ \A T : S \subseteq T => q \in Seq(T)
<1>1. Len(q) \in Nat /\ DOMAIN q = 1 .. Len(q) /\ q \in [1 .. Len(q) -> S]
    BY LenProperties
<1>2. \A i \in 1 .. Len(q) : q[i] \in S
    BY <1>1
<1>3. \A T : S \subseteq T => q \in Seq(T)
    <2> SUFFICES ASSUME NEW T, S \subseteq T PROVE q \in Seq(T)
        OBVIOUS
    <2>1. q \in [1 .. Len(q) -> T]
        BY <1>1
    <2> QED BY <1>1, <2>1, SeqDef
<1> QED BY <1>1, <1>2, <1>3

\* A queue in which no node is twice has as many nodes as places without a done_task.
LEMMA NodesInQueue ==
    ASSUME TaskTree, NEW q \in Seq(Elements), Once(q)
    PROVE  Cardinality({v \in Nodes : In(v + 1, q)}) = Len(q) - Dones(q)
<1> DEFINE D == 1 .. Len(q)
           P == D \ DonePlaces(q)
           V == {v \in Nodes : In(v + 1, q)}
           f == [i \in P |-> q[i] - 1]
<1>f. Nodes = 0 .. size - 1 /\ size \in Nat /\ size < done_task /\ done_task \in Nat
    BY TreeFacts
<1>1. DOMAIN q = D /\ Len(q) \in Nat /\ (\A i \in D : q[i] \in Elements) /\ IsFiniteSet(DonePlaces(q))
    <2>1. DOMAIN q = D /\ Len(q) \in Nat /\ IsFiniteSet(DonePlaces(q))
        BY SequenceFacts
    <2>2. \A i \in D : q[i] \in Elements
        <3> DEFINE S == Elements
        <3> HIDE DEF S
        <3>1. q \in Seq(S)
            BY DEF S
        <3>2. \A i \in D : q[i] \in S
            BY <3>1, ElementsOfSequence
        <3> QED BY <3>2 DEF S
    <2> QED BY <2>1, <2>2
<1>2. IsFiniteSet(D) /\ Cardinality(D) = Len(q)
    <2>1. Len(q) \in Nat
        BY <1>1
    <2> HIDE DEF P, V, f
    <2> QED BY <2>1, FromOne
<1> HIDE DEF D
<1>3. DonePlaces(q) \subseteq D
    BY <1>1 DEF DonePlaces
<1>4. IsFiniteSet(P) /\ Cardinality(P) = Len(q) - Dones(q)
    <2> DEFINE E == DonePlaces(q)
    <2>1. D \cap E = E /\ Cardinality(E) = Dones(q)
        BY <1>3 DEF Dones
    <2> HIDE DEF E
    <2>2. IsFiniteSet(D \ E) /\ Cardinality(D \ E) = Cardinality(D) - Cardinality(D \cap E)
        BY <1>2, FS_Difference
    <2> QED BY <2>1, <2>2, <1>2 DEF E
<1>5. \A i \in P : q[i] \in 1 .. size /\ q[i] # done_task /\ i \in DOMAIN q
    BY <1>1 DEF DonePlaces, Elements
<1>6. \A i \in P : q[i] - 1 \in Nodes /\ (q[i] - 1) + 1 = q[i]
    BY <1>5, <1>f
<1>7. \A i \in P : q[i] - 1 \in V
    BY <1>5, <1>6 DEF In
<1>8. \A i, j \in P : q[i] - 1 = q[j] - 1 => i = j
    BY <1>5, <1>6 DEF Once
<1>9. \A v \in V : \E i \in P : q[i] - 1 = v
    <2> SUFFICES ASSUME NEW v \in V PROVE \E i \in P : q[i] - 1 = v
        OBVIOUS
    <2>1. PICK i \in D : q[i] = v + 1
        BY <1>1 DEF In
    <2>2. v \in Nodes /\ v + 1 # done_task /\ (v + 1) - 1 = v
        BY <1>f
    <2> QED BY <2>1, <2>2 DEF DonePlaces
<1> HIDE DEF P, V
<1>10. f \in [P -> V]
    BY <1>7
<1>11. f \in Injection(P, V)
    BY <1>8, <1>10 DEF Injection, IsInjective
<1>12. f \in Surjection(P, V)
    BY <1>9, <1>10 DEF Surjection
<1>13. ExistsBijection(P, V)
    BY <1>11, <1>12 DEF ExistsBijection, Bijection
<1>14. Cardinality(V) = Cardinality(P)
    BY <1>4, <1>13, FS_Bijection
<1> QED BY <1>4, <1>14 DEF V

\* While no worker runs.
LEMMA LocalQuiet ==
    ASSUME LocalInv, phase # "workers"
    PROVE  /\ TaskTree /\ waiting = {}
           /\ \A t \in Threads : pc[t] = "joined" /\ current[t] = 0 /\ m_local_queues[t] = <<>>
           /\ (phase = "idle" => ~thrown /\ m_queue = <<>> /\ \A x \in Threads \cup {"main"} : out[x] = <<>>)
<1>1. \A t \in Threads : pc[t] = "joined"
    BY DEF LocalInv, LocalThreads, Worker
<1>2. \A t \in Threads : current[t] = 0 /\ m_local_queues[t] = <<>>
    BY <1>1 DEF LocalInv, LocalThreads, Worker
<1>3. phase = "idle" => ~thrown /\ m_queue = <<>> /\ \A x \in Threads \cup {"main"} : out[x] = <<>>
    BY DEF LocalInv, LocalThreads, LocalOutputs
<1> QED BY <1>1, <1>2, <1>3 DEF LocalInv, LocalThreads

\* A step to where no worker runs keeps the invariant when it keeps these parts of it.
LEMMA LocalQuietInv ==
    ASSUME TaskTree, UNCHANGED <<crew, edges, current, m_local_queues>>,
           phase' # "workers", waiting' = {}, thrown' => phase' = "drain", phase' = "idle" => m_queue' = <<>>,
           \A t \in Threads : pc'[t] = "joined" /\ current[t] = 0 /\ m_local_queues[t] = <<>>,
           LocalFunctions', LocalNumbers', LocalOutputs', WorkedOK', DrainCount'
    PROVE  LocalInv'
<1>1. TaskTree' /\ Nodes' = Nodes
    BY TreeKept
<1>2. 0 # done_task
    BY TreeFacts
<1>3. LocalThreads'
    BY <1>2 DEF LocalThreads, Worker
<1>4. LocalPlaces' /\ LocalReady' /\ LocalCount' /\ LocalEnding' /\ LocalEstimate'
    BY DEF LocalPlaces, LocalReady, LocalCount, LocalEnding, LocalEstimate
<1>5. Attended'
    BY DEF Attended
<1> QED BY <1>1, <1>3, <1>4, <1>5 DEF LocalInv

LEMMA LocalInitInv == Local!Init => LocalInv
<1> SUFFICES ASSUME Local!Init PROVE LocalInv
    OBVIOUS
<1>1. TaskTree
    BY DEF Local!Init, Local!TreeInit, TaskTree
<1>2. /\ m_queue = <<>> /\ waiting = {} /\ phase = "idle" /\ thrown = FALSE /\ num_work_left = 0
      /\ num_elements_in_queues = 0 /\ m_local_queues = [t \in Threads |-> <<>>]
      /\ done = [v \in Nodes |-> FALSE] /\ pc = [t \in Threads |-> "joined"]
      /\ current = [t \in Threads |-> 0] /\ out = [x \in Threads \cup {"main"} |-> <<>>]
    BY DEF Local!Init, Local!QueueInit, Local!TreeInit, Local!Nodes, Nodes, Local!main
<1>3. size \in Nat /\ Cardinality(crew) \in Nat /\ done_task \in Nat /\ 0 # done_task
    BY <1>1, TreeFacts, FS_CardinalityType
<1>4. LocalFunctions
    <2>1. m_queue \in Seq(Elements) /\ waiting \subseteq Threads /\ m_local_queues \in [Threads -> Seq(1 .. size)]
        BY <1>2
    <2>2. pc \in [Threads -> {"joined", "next", "pop", "estimate", "work", "working",
                           "distribute", "add", "push", "notify", "returned"}]
        BY <1>2
    <2>3. current \in [Threads -> 0 .. done_task]
        BY <1>2, <1>3
    <2>4. out \in [Threads \cup {"main"} -> Seq(Elements)]
        BY <1>2
    <2> QED BY <2>1, <2>2, <2>3, <2>4 DEF LocalFunctions
<1>5. LocalNumbers
    <2>1. 0 \in -Cardinality(crew) .. size /\ 0 \in -(Cardinality(crew) + 1) .. size
        BY <1>3
    <2> QED BY <2>1, <1>2 DEF LocalNumbers
<1>6. LocalThreads
    BY <1>2, <1>3 DEF LocalThreads, Worker
<1>7. LocalOutputs /\ WorkedOK /\ Attended /\ DrainCount
    BY <1>2 DEF LocalOutputs, WorkedOK, Attended, DrainCount
<1>8. LocalPlaces /\ LocalReady /\ LocalCount /\ LocalEnding /\ LocalEstimate
    BY <1>2 DEF LocalPlaces, LocalReady, LocalCount, LocalEnding, LocalEstimate
<1> QED BY <1>1, <1>2, <1>4, <1>5, <1>6, <1>7, <1>8 DEF LocalInv

\* solve() puts the root into the shared queue and starts the workers.
LEMMA LocalSolveInv == ASSUME LocalInv, Local!Solve PROVE LocalInv'
<1>0. /\ phase = "idle" /\ phase' = "workers" /\ m_queue = <<>> /\ (\A v \in Nodes : ~done[v])
      /\ m_queue' = Append(m_queue, 1) /\ num_work_left' = size /\ num_elements_in_queues' = 0
      /\ pc' = [t \in Threads |-> IF t \in crew THEN "next" ELSE "joined"]
      /\ UNCHANGED <<waiting, crew, edges, done, thrown, current, out, m_local_queues>>
    BY DEF Local!Solve, Local!PushElement, Local!treeVars, Local!Nodes, Local!size, Nodes, size,
           Local!Cardinality, Cardinality
<1>1. TaskTree
    BY DEF LocalInv
<1>f. /\ size \in Nat /\ size >= 1 /\ Nodes = 0 .. size - 1 /\ size < done_task /\ done_task \in Nat /\ crew \subseteq Threads
      /\ Cardinality(crew) \in Nat
    BY <1>1, TreeFacts, FS_CardinalityType
<1>t. /\ TaskTree' /\ size' = size /\ Nodes' = Nodes /\ Elements' = Elements
      /\ Cardinality(crew)' = Cardinality(crew)
      /\ WorkedOK' /\ \A v : Ready(v)' <=> Ready(v)
    BY <1>0, <1>1, TreeKept DEF LocalInv, Elements
<1>2. /\ waiting = {} /\ thrown = FALSE
      /\ \A t \in Threads : pc[t] = "joined" /\ current[t] = 0 /\ m_local_queues[t] = <<>>
      /\ \A x \in Threads \cup {"main"} : out[x] = <<>>
    BY <1>0, LocalQuiet DEF LocalInv, LocalNumbers
<1>q. /\ m_queue' \in Seq(Elements) /\ Once(m_queue') /\ \A e : In(e, m_queue') <=> e = 1
    <2>1. <<>> \in Seq(Elements) /\ 1 \in Elements
        BY <1>f DEF Elements
    <2> QED BY <1>0, <2>1, EmptyHasNothing, ElementAppended
<1>3. \A t \in Threads, v \in Nodes : ~LocalHolds(t, v)' /\ ~LocalHand(t, v)' /\ ~LocalKeeps(t, v)' /\ ~Adds(t, v)'
    <2>1. \A t \in Threads : pc'[t] \in {"next", "joined"} /\ out'[t] = <<>> /\ m_local_queues'[t] = <<>>
        BY <1>0, <1>2
    <2> QED BY <2>1, EmptyHasNothing DEF LocalHolds, LocalHand, LocalExpects, LocalKeeps, Adds
<1>4. \A v \in Nodes : Ready(v) <=> v = 0
    BY <1>0, <1>1, <1>f, ParentFacts DEF Ready
<1>5. LocalFunctions'
    <2>1. pc' \in [Threads -> {"joined", "next", "pop", "estimate", "work", "working",
                               "distribute", "add", "push", "notify", "returned"}]
        BY <1>0
    <2> QED BY <2>1, <1>0, <1>t, <1>q DEF LocalInv, LocalFunctions
<1>6. LocalNumbers'
    <2>1. size \in -Cardinality(crew) .. size /\ 0 \in -(Cardinality(crew) + 1) .. size
        BY <1>f
    <2> QED BY <2>1, <1>0, <1>2, <1>t DEF LocalNumbers
<1>7. LocalThreads'
    <2>1. ~In(done_task, <<>>) /\ 0 # done_task
        BY <1>f, EmptyHasNothing
    <2>2. ASSUME NEW t \in Threads PROVE Worker(t)'
        <3>1. /\ pc'[t] = (IF t \in crew THEN "next" ELSE "joined") /\ current'[t] = 0
              /\ out'[t] = <<>> /\ m_local_queues'[t] = <<>>
            BY <1>0, <1>2
        <3> QED BY <3>1, <2>1, <1>0 DEF Worker
    <2> QED BY <2>2, <1>0 DEF LocalThreads
<1>8. LocalOutputs'
    BY <1>0, <1>2 DEF LocalOutputs
<1>9. LocalPlaces'
    <2>1. \A t \in Threads : Once(out'[t]) /\ Once(m_local_queues'[t]) /\ \A e : ~In(e, out'[t])
        BY <1>0, <1>2, EmptyHasNothing
    <2> QED BY <2>1, <1>3, <1>q, <1>t DEF LocalPlaces, LocalOwns
<1>10. LocalReady'
    <2>1. ASSUME NEW v \in Nodes PROVE LocalSomewhere(v)' <=> v = 0
        <3>1. v + 1 = 1 <=> v = 0
            BY <1>f
        <3>2. \A t \in crew : ~LocalOwns(t, v)'
            BY <1>3, <1>f DEF LocalOwns
        <3> QED BY <1>q, <3>1, <3>2, <1>0 DEF LocalSomewhere
    <2> QED BY <1>t, <1>4, <2>1 DEF LocalReady
<1>11. Popped' = {} /\ Outstanding' = {} /\ Ended' = {} /\ LocalReturned' = {} /\ Estimated' = {0}
    <2>1. \A t \in crew : pc'[t] = "next" /\ current'[t] = 0 /\ current'[t] # done_task /\ t \in Threads
        BY <1>0, <1>2, <1>f
    <2>2. Popped' = {}
        BY <2>1, <1>0, <1>3, <1>t DEF Popped
    <2>3. Outstanding' = {} /\ Ended' = {} /\ LocalReturned' = {}
        BY <2>1, <1>0, <1>f DEF Outstanding, Ended, LocalReturned
    <2>4. ASSUME NEW v \in Nodes PROVE v \in Estimated' <=> v = 0
        <3>1. v + 1 = 1 <=> v = 0
            BY <1>f
        <3> QED BY <1>q, <2>1, <3>1, <1>0, <1>3, <1>t DEF Estimated
    <2>5. 0 \in Nodes
        BY <1>f
    <2> QED BY <2>2, <2>3, <2>4, <2>5, <1>t DEF Estimated
<1>c. Cardinality({}) = 0 /\ Cardinality({0}) = 1
    BY FS_EmptySet, FS_Singleton
<1>12. LocalCount'
    BY <1>0, <1>11, <1>c, <1>f, <1>t DEF LocalCount
<1>13. LocalEnding'
    <2>1. ~In(done_task, m_queue') /\ \A t \in crew : ~In(done_task, out'[t])
        BY <1>0, <1>2, <1>f, <1>q, EmptyHasNothing
    <2>2. Popped' # Nodes'
        <3>1. 0 \in Nodes
            BY <1>f
        <3>2. Popped' = {} /\ Nodes' = Nodes
            BY <1>11, <1>t
        <3> QED BY <3>1, <3>2
    <2>3. NotEnding'
        BY <2>1, <2>2, <1>0, <1>11 DEF NotEnding
    <2> QED BY <2>3 DEF LocalEnding
<1>14. LocalEstimate'
    <2>1. \A t \in crew, v \in Nodes : ~Adds(t, v)'
        BY <1>3, <1>f
    <2> QED BY <2>1, <1>0, <1>11, <1>c, <1>t DEF LocalEstimate
<1>15. Attended' /\ DrainCount'
    BY <1>0, <1>2 DEF Attended, DrainCount
<1> QED BY <1>0, <1>2, <1>t, <1>5, <1>6, <1>7, <1>8, <1>9, <1>10, <1>12, <1>13, <1>14, <1>15 DEF LocalInv

\* When all workers have returned, what is left is in the shared queue.
LEMMA LocalJoinInv == ASSUME LocalInv, Local!Join PROVE LocalInv'
<1>0. /\ phase = "workers" /\ (\A t \in crew : pc[t] = "returned") /\ phase' = "drain"
      /\ pc' = [t \in Threads |-> "joined"]
      /\ UNCHANGED <<m_queue, waiting, crew, edges, done, thrown, num_work_left, num_elements_in_queues, current, out,
                     m_local_queues>>
    BY DEF Local!Join, Local!queueVars, Local!treeVars, Local!counters
<1>1. TaskTree
    BY DEF LocalInv
<1>t. /\ TaskTree' /\ size' = size /\ Nodes' = Nodes /\ Elements' = Elements
      /\ Cardinality(crew)' = Cardinality(crew)
      /\ WorkedOK' /\ \A v : Ready(v)' <=> Ready(v)
    BY <1>0, <1>1, TreeKept DEF LocalInv, Elements
<1>2. \A t \in Threads : out[t] = <<>> /\ m_local_queues[t] = <<>> /\ pc[t] \in {"joined", "returned"} /\ current[t] = 0
    <2> SUFFICES ASSUME NEW t \in Threads
                 PROVE  out[t] = <<>> /\ m_local_queues[t] = <<>> /\ pc[t] \in {"joined", "returned"} /\ current[t] = 0
        OBVIOUS
    <2>1. pc[t] \in {"joined", "returned"}
        BY <1>0, LocalFacts
    <2> QED BY <1>0, <2>1, LocalFacts DEF Worker
<1>3. out["main"] = <<>>
    BY <1>0, <1>1, <1>2, TreeFacts DEF LocalInv, LocalOutputs
<1>4. waiting = {}
    BY <1>0 DEF LocalInv, Attended
<1>5. \A t \in crew, v \in Nodes : ~LocalOwns(t, v)
    <2>1. crew \subseteq Threads
        BY <1>1, TreeFacts
    <2> QED BY <2>1, <1>0, LocalOthersEmpty
<1>6. Frontier = {v \in Nodes : In(v + 1, m_queue)}
    BY <1>0, <1>5 DEF Frontier, LocalInv, LocalReady, LocalSomewhere
<1>7. DrainCount'
    <2>1. m_queue \in Seq(Elements) /\ Once(m_queue)
        BY <1>0 DEF LocalInv, LocalFunctions, LocalPlaces
    <2>2. Cardinality(Frontier) = Len(m_queue) - Dones(m_queue)
        BY <2>1, <1>1, <1>6, NodesInQueue
    <2>3. Frontier' = Frontier /\ Dones(m_queue)' = Dones(m_queue)
        BY <1>0, <1>t DEF Frontier, Dones, DonePlaces
    <2>4. Len(out'["main"]) = 0
        BY <1>0, <1>3
    <2>5. Len(m_queue) \in Nat /\ Dones(m_queue) \in 0 .. Len(m_queue)
        BY <2>1, SequenceFacts
    <2>6. Len(m_queue') - Dones(m_queue)' + Len(out'["main"]) = Cardinality(Frontier)
        BY <1>0, <2>2, <2>3, <2>4, <2>5
    <2> QED BY <2>3, <2>6 DEF DrainCount
<1>8. LocalFunctions'
    BY <1>0, <1>t DEF LocalInv, LocalFunctions
<1>9. LocalNumbers'
    BY <1>0, <1>t DEF LocalInv, LocalNumbers
<1>10. LocalOutputs'
    <2>1. \A x \in Threads \cup {"main"} : out'[x] = <<>>
        BY <1>0, <1>2, <1>3
    <2>2. out'["main"] \in Seq(Nodes' \ {0})
        BY <1>0, <1>3
    <2> QED BY <2>1, <2>2 DEF LocalOutputs
<1> QED BY <1>0, <1>1, <1>2, <1>4, <1>t, <1>7, <1>8, <1>9, <1>10, LocalQuietInv

\* What the loop after the join keeps, whatever it does.
LEMMA LocalDrainInv ==
    ASSUME LocalInv, phase = "drain", UNCHANGED <<crew, edges, current, m_local_queues, waiting, pc, num_work_left,
                                                  num_elements_in_queues, phase>>,
           m_queue' \in Seq(Elements), out' \in [Threads \cup {"main"} -> Seq(Elements)],
           \A x \in Threads \cup {"main"} : x # "main" => out'[x] = out[x],
           out'["main"] \in Seq(Nodes \ {0}), thrown' \in BOOLEAN, WorkedOK', DrainCount'
    PROVE  LocalInv'
<1>1. TaskTree
    BY DEF LocalInv
<1>2. /\ Nodes' = Nodes /\ size' = size /\ Elements' = Elements /\ Cardinality(crew)' = Cardinality(crew)
    BY <1>1, TreeKept DEF Elements
<1>3. waiting = {} /\ \A t \in Threads : pc[t] = "joined" /\ current[t] = 0 /\ m_local_queues[t] = <<>>
    BY LocalQuiet
<1>4. LocalFunctions'
    BY <1>2 DEF LocalInv, LocalFunctions
<1>5. LocalNumbers'
    BY <1>2 DEF LocalInv, LocalNumbers
<1>6. LocalOutputs'
    BY <1>2 DEF LocalInv, LocalOutputs
<1> QED BY <1>1, <1>3, <1>4, <1>5, <1>6, LocalQuietInv

\* The queue without its head, in the drain.
LEMMA DrainHead ==
    ASSUME LocalInv, phase = "drain", m_queue # <<>>
    PROVE  /\ Head(m_queue) \in Elements /\ Tail(m_queue) \in Seq(Elements)
           /\ Len(Tail(m_queue)) = Len(m_queue) - 1 /\ Len(m_queue) \in Nat
           /\ Dones(Tail(m_queue)) = (IF Head(m_queue) = done_task THEN Dones(m_queue) - 1 ELSE Dones(m_queue))
           /\ Dones(m_queue) \in Nat
<1>1. m_queue \in Seq(Elements)
    BY DEF LocalInv, LocalFunctions
<1>2. Len(m_queue) \in Nat /\ Dones(m_queue) \in 0 .. Len(m_queue)
    BY <1>1, SequenceFacts
<1>3. Dones(Tail(m_queue)) = IF Head(m_queue) = done_task THEN Dones(m_queue) - 1 ELSE Dones(m_queue)
    BY <1>1, HeadCounted
<1>4. Head(m_queue) \in Elements /\ Tail(m_queue) \in Seq(Elements) /\ Len(Tail(m_queue)) = Len(m_queue) - 1
    BY <1>1, HeadTailProperties
<1> QED BY <1>2, <1>3, <1>4

LEMMA LocalDrainDoneTaskInv == ASSUME LocalInv, Local!DrainDoneTask PROVE LocalInv'
<1>0. /\ phase = "drain" /\ m_queue # <<>> /\ Head(m_queue) = done_task /\ m_queue' = Tail(m_queue)
      /\ UNCHANGED <<waiting, crew, edges, done, thrown, num_work_left, num_elements_in_queues, phase, pc, current, out,
                     m_local_queues>>
    BY DEF Local!DrainDoneTask, Local!PopElement, Local!main, Local!local, Local!treeVars, Local!counters
<1>1. TaskTree
    BY DEF LocalInv
<1>2. WorkedOK' /\ Nodes' = Nodes /\ \A v : Ready(v)' <=> Ready(v)
    BY <1>0, <1>1, TreeKept DEF LocalInv
<1>3. Frontier' = Frontier
    BY <1>2 DEF Frontier
<1>4. /\ Tail(m_queue) \in Seq(Elements) /\ Len(Tail(m_queue)) = Len(m_queue) - 1 /\ Len(m_queue) \in Nat
      /\ Dones(Tail(m_queue)) = Dones(m_queue) - 1 /\ Dones(m_queue) \in Nat
    BY <1>0, DrainHead
<1>5. DrainCount'
    <2>1. Dones(m_queue)' = Dones(Tail(m_queue))
        BY <1>0 DEF Dones, DonePlaces
    <2>2. Len(m_queue') - Dones(m_queue)' = Len(m_queue) - Dones(m_queue)
        BY <1>0, <1>4, <2>1
    <2> QED BY <1>0, <1>3, <2>2 DEF LocalInv, DrainCount
<1>6. /\ out' \in [Threads \cup {"main"} -> Seq(Elements)] /\ out'["main"] \in Seq(Nodes \ {0}) /\ thrown' \in BOOLEAN
    BY <1>0 DEF LocalInv, LocalFunctions, LocalOutputs, LocalNumbers
<1> QED BY <1>0, <1>2, <1>4, <1>5, <1>6, LocalDrainInv

\* A node that is worked on makes room for its children.
LEMMA LocalDrainNodeInv ==
    ASSUME LocalInv, Local!DrainNode, ~thrown
    PROVE  /\ LocalInv' /\ UNCHANGED <<crew, edges, phase>> /\ phase = "drain"
           /\ thrown' => UNCHANGED done
           /\ ~thrown' => \E c \in Nodes : Ready(c) /\ done' = [done EXCEPT ![c] = TRUE]
<1> DEFINE v == Head(m_queue) - 1
<1>0. /\ phase = "drain" /\ m_queue # <<>> /\ Head(m_queue) # done_task /\ m_queue' = Tail(m_queue)
      /\ thrown' = (done[v] \/ \E p \in parent(v) : ~done[p])
      /\ done' = (IF thrown' THEN done ELSE [done EXCEPT ![v] = TRUE])
      /\ out' = [out EXCEPT !["main"] = IF thrown' THEN <<>> ELSE edges[v]]
      /\ out["main"] = <<>>
      /\ UNCHANGED <<waiting, crew, edges, num_work_left, num_elements_in_queues, phase, pc, current, m_local_queues>>
    BY DEF Local!DrainNode, Local!PopElement, Local!main, Local!counters, Local!parent, Local!Nodes, parent, Nodes,
           Local!Children, Children
<1>1. TaskTree
    BY DEF LocalInv
<1>f. Nodes = 0 .. size - 1 /\ size \in Nat
    BY <1>1, TreeFacts
<1>2. /\ Head(m_queue) \in Elements /\ Tail(m_queue) \in Seq(Elements)
      /\ Len(Tail(m_queue)) = Len(m_queue) - 1 /\ Len(m_queue) \in Nat
      /\ Dones(Tail(m_queue)) = Dones(m_queue) /\ Dones(m_queue) \in Nat
    BY <1>0, DrainHead
<1>3. v \in Nodes
    BY <1>0, <1>2, <1>f DEF Elements
<1> HIDE DEF v
<1>n. Nodes' = Nodes
    BY <1>0, <1>1, TreeKept
<1>d. Dones(m_queue)' = Dones(m_queue)
    BY <1>0, <1>2 DEF Dones, DonePlaces
<1>4. thrown' \in BOOLEAN
    BY <1>0
<1>5. /\ edges[v] \in Seq(Nodes) /\ edges[v] \in Seq(Nodes \ {0}) /\ edges[v] \in Seq(Elements) /\ Len(edges[v]) \in Nat
    <2>1. edges[v] \in Seq(Nodes) /\ parent(0) = {}
        BY <1>1, <1>3, ParentFacts
    <2>2. Len(edges[v]) \in Nat /\ DOMAIN edges[v] = 1 .. Len(edges[v])
        BY <2>1, LenProperties
    <2>3. \A i \in DOMAIN edges[v] : edges[v][i] \in Nodes /\ edges[v][i] # 0
        BY <2>1, <2>2, <1>3 DEF parent, Children
    <2>4. \A i \in DOMAIN edges[v] : edges[v][i] \in Elements
        BY <2>3, <1>f DEF Elements
    <2>5. edges[v] \in [1 .. Len(edges[v]) -> Nodes \ {0}] /\ edges[v] \in [1 .. Len(edges[v]) -> Elements]
        BY <2>1, <2>2, <2>3, <2>4
    <2> QED BY <2>1, <2>2, <2>5, SeqDef
<1>6. CASE thrown'
    <2>1. /\ done' = done /\ out' \in [Threads \cup {"main"} -> Seq(Elements)] /\ out'["main"] \in Seq(Nodes \ {0})
        BY <1>0, <1>6 DEF LocalInv, LocalFunctions
    <2>2. WorkedOK' /\ DrainCount'
        BY <2>1, <1>0, <1>1, <1>6, TreeKept DEF LocalInv, DrainCount
    <2>3. \A x \in Threads \cup {"main"} : x # "main" => out'[x] = out[x]
        BY <1>0 DEF LocalInv, LocalFunctions
    <2> QED BY <2>1, <2>2, <2>3, <1>0, <1>2, <1>4, <1>6, LocalDrainInv
<1>7. CASE ~thrown'
    <2>1. Ready(v) /\ done' = [done EXCEPT ![v] = TRUE]
        BY <1>0, <1>7 DEF Ready
    <2>2. /\ \A w \in Nodes : Ready(w)' <=> (w # v /\ Ready(w)) \/ v \in parent(w)
          /\ \A w \in Nodes : v \in parent(w) => ~Ready(w) /\ w # v
          /\ WorkedOK'
        BY <2>1, <1>0, <1>1, <1>3, NodeDone DEF LocalInv
    <2> DEFINE C == {w \in Nodes : v \in parent(w)}
    <2>3. /\ Frontier' = (Frontier \ {v}) \cup C /\ (Frontier \ {v}) \cap C = {} /\ v \in Frontier
        BY <2>1, <2>2, <1>3, <1>n DEF Frontier
    <2>4. Cardinality(C) = Len(edges[v])
        BY <1>1, <1>3, ChildrenCounted
    <2>5. Cardinality(Frontier') = Cardinality(Frontier) - 1 + Len(edges[v]) /\ Cardinality(Frontier) \in Nat
        <3>1. Frontier \in SUBSET Nodes /\ C \in SUBSET Nodes /\ Frontier \ {v} \in SUBSET Nodes
            BY DEF Frontier
        <3>2. IsFiniteSet(Frontier \ {v}) /\ IsFiniteSet(C)
            BY <3>1, <1>1, NodesCounted
        <3>3. Cardinality(Frontier \ {v}) = Cardinality(Frontier) - 1 /\ Cardinality(Frontier) \in Nat
            BY <3>1, <2>3, <1>1, NodesCounted
        <3>4. Cardinality((Frontier \ {v}) \cup C) =
                Cardinality(Frontier \ {v}) + Cardinality(C) - Cardinality((Frontier \ {v}) \cap C)
            BY <3>2, FS_Union
        <3>5. Cardinality((Frontier \ {v}) \cap C) = 0
            BY <2>3, FS_EmptySet
        <3> QED BY <2>3, <2>4, <3>3, <3>4, <3>5, <1>5
    <2>6. out' = [out EXCEPT !["main"] = edges[v]] /\ out'["main"] = edges[v]
        BY <1>0, <1>7 DEF LocalInv, LocalFunctions
    <2>7. DrainCount'
        <3>1. Len(m_queue) - Dones(m_queue) + 0 = Cardinality(Frontier)
            BY <1>0 DEF LocalInv, DrainCount
        <3>2. Len(m_queue') - Dones(m_queue)' + Len(out'["main"]) = Cardinality(Frontier')
            BY <3>1, <2>5, <2>6, <1>0, <1>2, <1>5, <1>d
        <3> QED BY <3>2 DEF DrainCount
    <2>8. /\ out' \in [Threads \cup {"main"} -> Seq(Elements)]
          /\ \A x \in Threads \cup {"main"} : x # "main" => out'[x] = out[x]
        BY <2>6, <1>5 DEF LocalInv, LocalFunctions
    <2>9. LocalInv'
        BY <2>2, <2>6, <2>7, <2>8, <1>0, <1>2, <1>4, <1>5, LocalDrainInv
    <2> QED BY <2>1, <2>9, <1>0, <1>3, <1>7
<1> QED BY <1>6, <1>7

LEMMA LocalDrainPushInv == ASSUME LocalInv, Local!DrainPush PROVE LocalInv'
<1> DEFINE q == out["main"]
           e == Head(out["main"])
<1>0. /\ phase = "drain" /\ q # <<>> /\ m_queue' = Append(m_queue, e) /\ out' = [out EXCEPT !["main"] = Tail(q)]
      /\ UNCHANGED <<waiting, crew, edges, done, thrown, num_work_left, num_elements_in_queues, phase, pc, current,
                     m_local_queues>>
    BY DEF Local!DrainPush, Local!PushElement, Local!main, Local!treeVars, Local!counters
<1>1. TaskTree
    BY DEF LocalInv
<1>f. Nodes = 0 .. size - 1 /\ size \in Nat /\ size < done_task /\ done_task \in Nat
    BY <1>1, TreeFacts
<1>2. q \in Seq(Nodes \ {0}) /\ q \in Seq(Elements)
    BY <1>0 DEF LocalInv, LocalFunctions, LocalOutputs
<1>3. e = Head(q)
    OBVIOUS
<1>4. out' = [out EXCEPT !["main"] = Tail(q)] /\ out'["main"] = Tail(q)
    BY <1>0 DEF LocalInv, LocalFunctions
<1>c. DrainCount => (thrown \/ Len(m_queue) - Dones(m_queue) + Len(q) = Cardinality(Frontier))
    BY <1>0 DEF DrainCount
<1> HIDE DEF q, e
<1>5. /\ e \in Nodes \ {0} /\ Tail(q) \in Seq(Nodes \ {0}) /\ Tail(q) \in Seq(Elements)
      /\ Len(Tail(q)) = Len(q) - 1 /\ Len(q) \in Nat
    <2>1. Len(q) \in Nat /\ Tail(q) \in Seq(Elements)
        BY <1>0, <1>2, LenProperties, HeadTailProperties
    <2>2. e \in Nodes \ {0} /\ Tail(q) \in Seq(Nodes \ {0}) /\ Len(Tail(q)) = Len(q) - 1
        BY <1>0, <1>2, <1>3, HeadTailProperties
    <2> QED BY <2>1, <2>2
<1>6. e \in Elements /\ e # done_task
    BY <1>5, <1>f DEF Elements
<1>7. m_queue \in Seq(Elements) /\ Len(m_queue) \in Nat /\ Dones(m_queue) \in Nat
    <2>1. m_queue \in Seq(Elements)
        BY DEF LocalInv, LocalFunctions
    <2> QED BY <2>1, SequenceFacts
<1>8. m_queue' \in Seq(Elements) /\ Len(m_queue') = Len(m_queue) + 1 /\ Dones(m_queue)' = Dones(m_queue)
    <2>1. Append(m_queue, e) \in Seq(Elements) /\ Len(Append(m_queue, e)) = Len(m_queue) + 1
        BY <1>6, <1>7, AppendProperties
    <2>2. Dones(Append(m_queue, e)) = Dones(m_queue)
        BY <1>6, <1>7, ElementCounted
    <2> QED BY <1>0, <2>1, <2>2 DEF Dones, DonePlaces
<1>9. WorkedOK' /\ Nodes' = Nodes /\ Frontier' = Frontier
    BY <1>0, <1>1, TreeKept DEF LocalInv, Frontier
<1>10. DrainCount'
    <2>1. thrown \/ Len(m_queue') - Dones(m_queue)' + Len(out'["main"]) = Cardinality(Frontier)
        BY <1>4, <1>5, <1>7, <1>8, <1>c DEF LocalInv
    <2> QED BY <2>1, <1>0, <1>9 DEF DrainCount
<1>11. /\ out' \in [Threads \cup {"main"} -> Seq(Elements)] /\ thrown' \in BOOLEAN
       /\ \A x \in Threads \cup {"main"} : x # "main" => out'[x] = out[x]
    BY <1>0, <1>4, <1>5 DEF LocalInv, LocalFunctions, LocalNumbers
<1> QED BY <1>0, <1>4, <1>5, <1>8, <1>9, <1>10, <1>11, LocalDrainInv

\* When solve() returns, nothing is left that could be worked on.
LEMMA LocalAllDone == LocalInv /\ ~thrown /\ phase = "drain" /\ out["main"] = <<>> /\ m_queue = <<>> => Worked = Nodes
<1> SUFFICES ASSUME LocalInv, ~thrown, phase = "drain", out["main"] = <<>>, m_queue = <<>> PROVE Worked = Nodes
    OBVIOUS
<1>1. Cardinality(Frontier) = 0
    <2>1. Dones(m_queue) = 0 /\ Len(m_queue) = 0 /\ Len(out["main"]) = 0
        BY EmptyHasNothing
    <2> QED BY <2>1 DEF LocalInv, DrainCount
<1>2. Frontier = {}
    <2>1. Frontier \in SUBSET Nodes
        BY DEF Frontier
    <2>2. \A v \in Frontier : Cardinality(Frontier) >= 1
        BY <2>1, NodesCounted DEF LocalInv
    <2> QED BY <1>1, <2>2
<1> QED BY <1>2, SomeReady DEF LocalInv, Frontier, Worked

LEMMA LocalReturnInv == ASSUME LocalInv, ~thrown, Local!Return PROVE LocalInv'
<1>0. /\ phase = "drain" /\ out["main"] = <<>> /\ m_queue = <<>> /\ phase' = "idle"
      /\ num_work_left' = 0 /\ num_elements_in_queues' = 0
      /\ UNCHANGED <<m_queue, waiting, crew, edges, done, thrown, pc, current, out, m_local_queues>>
    BY DEF Local!Return, Local!main, Local!queueVars, Local!treeVars, Local!local
<1>1. TaskTree
    BY DEF LocalInv
<1>2. /\ Nodes' = Nodes /\ size' = size /\ Elements' = Elements /\ Cardinality(crew)' = Cardinality(crew) /\ WorkedOK'
    BY <1>0, <1>1, TreeKept DEF LocalInv, Elements
<1>3. waiting = {} /\ \A t \in Threads : pc[t] = "joined" /\ current[t] = 0 /\ m_local_queues[t] = <<>>
    BY <1>0, LocalQuiet
<1>4. LocalFunctions'
    BY <1>0, <1>2 DEF LocalInv, LocalFunctions
<1>5. LocalNumbers'
    <2>1. size \in Nat /\ Cardinality(crew) \in Nat
        BY <1>1, TreeFacts, FS_CardinalityType
    <2>2. 0 \in -Cardinality(crew) .. size /\ 0 \in -(Cardinality(crew) + 1) .. size
        BY <2>1
    <2> QED BY <2>2, <1>0, <1>2 DEF LocalInv, LocalNumbers
<1>6. LocalOutputs'
    <2>1. \A x \in Threads \cup {"main"} : out[x] = <<>>
        BY <1>0 DEF LocalInv, LocalOutputs
    <2> QED BY <2>1, <1>0 DEF LocalOutputs
<1>7. DrainCount'
    BY <1>0 DEF DrainCount
<1> QED BY <1>0, <1>1, <1>2, <1>3, <1>4, <1>5, <1>6, <1>7, LocalQuietInv

LEMMA LocalResetInv == ASSUME LocalInv, Local!Reset PROVE LocalInv'
<1>0. /\ phase = "idle" /\ done' = [v \in Nodes |-> FALSE] /\ m_queue' = <<>>
      /\ UNCHANGED <<waiting, crew, edges, thrown, num_work_left, num_elements_in_queues, phase, pc, current, out,
                     m_local_queues>>
    BY DEF Local!Reset, Local!TreeReset, Local!ClearQueue, Local!local, Local!counters, Local!Nodes, Nodes
<1>1. TaskTree
    BY DEF LocalInv
<1>2. /\ Nodes' = Nodes /\ size' = size /\ Elements' = Elements /\ Cardinality(crew)' = Cardinality(crew)
    BY <1>0, <1>1, TreeKept DEF Elements
<1>w. WorkedOK'
    BY <1>0, <1>2 DEF WorkedOK
<1>3. /\ waiting = {} /\ ~thrown /\ m_queue = <<>>
      /\ \A t \in Threads : pc[t] = "joined" /\ current[t] = 0 /\ m_local_queues[t] = <<>>
    BY <1>0, LocalQuiet
<1>4. LocalFunctions'
    BY <1>0, <1>2, <1>3 DEF LocalInv, LocalFunctions
<1>5. LocalNumbers'
    BY <1>0, <1>2 DEF LocalInv, LocalNumbers
<1>6. LocalOutputs' /\ DrainCount'
    BY <1>0, <1>2 DEF LocalInv, LocalOutputs, DrainCount
<1> QED BY <1>0, <1>1, <1>w, <1>3, <1>4, <1>5, <1>6, LocalQuietInv

\* Every step of the solver keeps the invariant.
LEMMA LocalNextInv == ASSUME LocalInv, Local!Next PROVE LocalInv'
<1>1. ASSUME NEW t \in crew, Local!WorkerStep(t) \/ Local!Wake(t) PROVE LocalInv'
    <2>1. phase = "workers"
        <3>1. t \in Threads
            BY TreeFacts DEF LocalInv
        <3>2. pc[t] # "joined"
            <4>1. CASE Local!Wake(t)
                BY <4>1 DEF Local!Wake, Local!WakeSpuriously, LocalInv, Attended
            <4>2. CASE Local!WorkerStep(t)
                <5>1. CASE Local!PopLocal(t)
                    BY <5>1 DEF Local!Goto, Local!PopLocal
                <5>2. CASE Local!TakeTicket(t)
                    BY <5>2 DEF Local!Goto, Local!TakeTicket
                <5>3. CASE Local!PopGlobal(t)
                    BY <5>3 DEF Local!Goto, Local!PopGlobal
                <5>4. CASE Local!Wait(t)
                    BY <5>4 DEF Local!Goto, Local!Wait
                <5>5. CASE Local!CountTaken(t)
                    BY <5>5 DEF Local!Goto, Local!CountTaken
                <5>6. CASE Local!WorkBegin(t)
                    BY <5>6 DEF Local!Goto, Local!WorkBegin
                <5>7. CASE Local!WorkEnd(t)
                    BY <5>7 DEF Local!Goto, Local!WorkEnd
                <5>8. CASE Local!Distribute(t)
                    BY <5>8, Zenon DEF Local!Goto, Local!Distribute
                <5>9. CASE Local!CountNew(t)
                    BY <5>9 DEF Local!Goto, Local!CountNew
                <5>10. CASE Local!Push(t)
                    BY <5>10 DEF Local!Goto, Local!Push
                <5>11. CASE Local!Notify(t)
                    BY <5>11 DEF Local!Goto, Local!Notify
                <5> QED BY <4>2, <5>1, <5>2, <5>3, <5>4, <5>5, <5>6, <5>7, <5>8, <5>9, <5>10, <5>11
                        DEF Local!WorkerStep
            <4> QED BY <1>1, <4>1, <4>2
        <3> QED BY <3>1, <3>2 DEF LocalInv, LocalThreads, Worker
    <2>2. CASE Local!PopLocal(t) \/ Local!TakeTicket(t) \/ Local!PopGlobal(t) \/ Local!Wait(t) \/ Local!Wake(t)
        BY <1>1, <2>1, <2>2, LocalPopLocalInv, LocalTakeTicketInv, LocalPopGlobalInv, LocalWaitInv, LocalWakeInv
    <2>3. CASE Local!CountTaken(t) \/ Local!WorkBegin(t) \/ Local!WorkEnd(t) \/ Local!Distribute(t)
        BY <1>1, <2>1, <2>3, LocalCountTakenInv, LocalWorkBeginInv, LocalWorkEndInv, LocalDistributeInv
    <2>4. CASE Local!CountNew(t) \/ Local!Push(t) \/ Local!Notify(t)
        BY <1>1, <2>1, <2>4, LocalCountNewInv, LocalPushInv, LocalNotifyInv
    <2> QED BY <1>1, <2>2, <2>3, <2>4 DEF Local!WorkerStep
<1>2. ~thrown
    BY DEF Local!Next
<1> QED BY <1>1, <1>2, LocalSolveInv, LocalJoinInv, LocalDrainDoneTaskInv, LocalDrainNodeInv, LocalDrainPushInv,
           LocalReturnInv, LocalResetInv DEF Local!Next, Local!MainStep

-----------------------------------------------------------------------------
(* TreeSolver: what follows.                                               *)

LEMMA LocalTypeOK == LocalInv => Local!TypeOK
<1> SUFFICES ASSUME LocalInv PROVE Local!TypeOK
    OBVIOUS
<1>1. m_queue \in Seq(1 .. done_task)
    <2>1. Elements \subseteq 1 .. done_task
        BY TreeFacts DEF Elements, LocalInv
    <2>2. m_queue \in Seq(Elements)
        BY DEF LocalInv, LocalFunctions
    <2> DEFINE S == Elements
               T == 1 .. done_task
    <2> HIDE DEF S, T
    <2>3. m_queue \in Seq(S) /\ S \subseteq T
        BY <2>1, <2>2 DEF S, T
    <2>4. m_queue \in Seq(T)
        BY <2>3, ElementsOfSequence
    <2> QED BY <2>4 DEF T
<1>2. Local!num_threads = Cardinality(crew) /\ Local!size = size /\ Local!Nodes = Nodes
    BY DEF Local!num_threads, Local!size, size, Local!Nodes, Nodes, Local!Cardinality, Cardinality
<1>3. done \in [Nodes -> BOOLEAN]
    BY DEF LocalInv, WorkedOK
<1> QED BY <1>1, <1>2, <1>3 DEF LocalInv, LocalFunctions, LocalNumbers, Local!TypeOK, Local!main

\* What the estimate counts are the nodes that LocalEstimate says.
LEMMA LocalAccountedFor == LocalInv => Local!EstimateCountsNodes /\ Local!OwnQueuesLeftEmpty
<1> SUFFICES ASSUME LocalInv PROVE Local!EstimateCountsNodes /\ Local!OwnQueuesLeftEmpty
    OBVIOUS
<1>1. \A e, q : e \in Local!Range(q) <=> In(e, q)
    BY DEF Local!Range, In
<1>2. Local!CountedNodes = Estimated
    BY <1>1 DEF Local!CountedNodes, Estimated, LocalKeeps, Adds, Local!parent, parent, Local!Nodes, Nodes,
                Local!Children, Children
<1>3. Local!EstimateCountsNodes
    BY <1>2 DEF LocalInv, LocalEstimate, LocalReturned, Local!EstimateCountsNodes, Local!Cardinality, Cardinality
<1>4. Local!OwnQueuesLeftEmpty
    BY DEF LocalInv, LocalThreads, Worker, Local!OwnQueuesLeftEmpty
<1> QED BY <1>3, <1>4

\* When the waiters are the only ones that have not returned, nothing is queued or held, so that
\* every node is done; then each thread has found that there is none left, and the first that did
\* has pushed a done_task for every thread, which only those that returned have taken.
LEMMA LocalNobodySleeps == LocalInv => Local!NobodySleepsForever
<1> SUFFICES ASSUME LocalInv, waiting # {}, \A t \in crew \ waiting : pc[t] = "returned" PROVE FALSE
    BY DEF Local!NobodySleepsForever
<1>f. TaskTree /\ crew \subseteq Threads
    BY TreeFacts DEF LocalInv
<1>1. PICK w \in waiting : w \in crew /\ w \in Threads /\ pc[w] = "pop"
    BY <1>f DEF LocalInv, Attended
<1>2. phase = "workers"
    BY DEF LocalInv, LocalThreads
<1>3. \A t \in crew : t \in Threads /\ (pc[t] = "returned" \/ (pc[t] = "pop" /\ t \in waiting))
    <2>1. \A t \in waiting : pc[t] = "pop"
        BY DEF LocalInv, Attended
    <2> QED BY <1>f, <2>1
<1>4. Attending = {}
    BY <1>3 DEF Attending
<1>5. m_queue = <<>>
    <2>1. Len(m_queue) <= 0
        BY <1>4, FS_EmptySet DEF LocalInv, Attended
    <2>2. m_queue \in Seq(Elements)
        BY DEF LocalInv, LocalFunctions
    <2> QED BY <2>1, <2>2
<1>6. \A v \in Nodes : ~LocalSomewhere(v)
    <2>1. \A t \in crew, v \in Nodes : ~LocalOwns(t, v)
        BY <1>2, <1>3, LocalOthersEmpty
    <2> QED BY <2>1, <1>5, EmptyHasNothing DEF LocalSomewhere
<1>7. \A v \in Nodes : done[v]
    BY <1>2, <1>6, SomeReady DEF LocalInv, LocalReady
<1>8. Popped = Nodes
    BY <1>7 DEF Popped
<1>9. Outstanding = crew
    <2>1. \A t \in crew : pc[t] = "pop" => current[t] = done_task
        BY <1>f DEF LocalInv, LocalThreads, Worker
    <2> QED BY <2>1, <1>3 DEF Outstanding
<1>10. PICK t \in crew : Quota(t)
    BY <1>2, <1>8, <1>9 DEF LocalInv, LocalEnding, NotEnding
<1>11. Dones(m_queue) = 0
    BY <1>5, EmptyHasNothing
<1>12. DonesToPush(t) = 0
    <2>1. out[t] = <<>>
        BY <1>2, <1>3, LocalFacts
    <2> QED BY <2>1 DEF DonesToPush
<1>13. Cardinality(Ended) = Cardinality(crew) /\ Ended \in SUBSET crew
    BY <1>f, <1>10, <1>11, <1>12, LocalSets DEF Quota
<1>14. Ended = crew
    BY <1>f, <1>13, ThreadsCounted
<1> QED BY <1>1, <1>14 DEF Ended

\* Every step of the solver is one of the abstract specification or changes nothing in it.
LEMMA LocalWorks ==
    ASSUME LocalInv, solver = "local", Local!Next, UNCHANGED <<solver, solving>>
    PROVE  [Work!WorkNext]_(Work!workVars)
<1>t. TaskTree /\ ~thrown
    BY DEF LocalInv, Local!Next
<1>1. CASE Local!Solve
    <2>1. /\ phase = "idle" /\ (\A v \in Nodes : ~done[v]) /\ phase' = "workers" /\ UNCHANGED <<crew, edges, done>>
        BY <1>1 DEF Local!Solve, Local!treeVars, Local!Nodes, Nodes
    <2>2. UNCHANGED <<[v \in Nodes |-> parent(v)], Worked>> /\ Worked = {}
        BY <2>1, <1>t, TreeKept, ParentsKept DEF Worked
    <2> QED BY <2>1, <2>2 DEF Work!WorkNext, Work!Begin, Worked
<1>2. CASE Local!Return
    <2>1. /\ phase = "drain" /\ out["main"] = <<>> /\ m_queue = <<>> /\ phase' = "idle" /\ UNCHANGED <<crew, edges, done>>
        BY <1>2 DEF Local!Return, Local!main, Local!treeVars
    <2>2. Worked = Nodes
        BY <2>1, <1>t, LocalAllDone
    <2>3. UNCHANGED <<[v \in Nodes |-> parent(v)], Worked>>
        BY <2>1, <1>t, TreeKept, ParentsKept
    <2> QED BY <2>1, <2>2, <2>3 DEF Work!WorkNext, Work!End, Work!Tasks, Worked
<1>3. CASE Local!Reset
    <2>1. phase = "idle" /\ done' = [v \in Nodes |-> FALSE] /\ UNCHANGED <<crew, edges, phase>>
        BY <1>3 DEF Local!Reset, Local!TreeReset, Local!Nodes, Nodes
    <2>2. UNCHANGED [v \in Nodes |-> parent(v)] /\ Worked' = {}
        BY <2>1, <1>t, TreeKept, ParentsKept DEF Worked
    <2> QED BY <2>1, <2>2 DEF Work!WorkNext, Work!StartOver, Worked
<1>4. ASSUME NEW t \in crew, Local!WorkEnd(t) PROVE Work!WorkNext
    <2>1. pc[t] = "working" /\ done' = [done EXCEPT ![current[t]] = TRUE] /\ UNCHANGED <<crew, edges, phase>>
        BY <1>4 DEF Local!WorkEnd, Local!Goto, Local!WorkStore
    <2>2. t \in Threads /\ phase = "workers"
        BY <2>1, <1>t, TreeFacts DEF LocalInv, LocalThreads, Worker
    <2>3. current[t] \in Nodes
        BY <1>1, <2>1, <2>2, LocalFacts DEF Worker
    <2>4. Ready(current[t])
        BY <2>1, <2>2, <2>3 DEF LocalInv, LocalReady, LocalSomewhere, LocalOwns, LocalHand, LocalHolds
    <2> QED BY <2>1, <2>2, <2>3, <2>4, WorkOnNode DEF LocalInv
<1>5. ASSUME UNCHANGED <<crew, edges, done>>, phase = "idle" <=> phase' = "idle" PROVE UNCHANGED Work!workVars
    BY <1>5, <1>t, TreeKept, ParentsKept DEF Work!workVars, Worked
<1>6. CASE Local!DrainNode
    <2>1. /\ UNCHANGED <<crew, edges, phase>> /\ phase = "drain"
          /\ thrown' => UNCHANGED done
          /\ ~thrown' => \E c \in Nodes : Ready(c) /\ done' = [done EXCEPT ![c] = TRUE]
        BY <1>6, <1>t, LocalDrainNodeInv
    <2>2. CASE thrown'
        BY <2>1, <2>2, <1>5
    <2>3. CASE ~thrown'
        <3>1. PICK c \in Nodes : Ready(c) /\ done' = [done EXCEPT ![c] = TRUE]
            BY <2>1, <2>3
        <3> QED BY <2>1, <3>1, WorkOnNode DEF LocalInv
    <2> QED BY <2>2, <2>3
<1>7. CASE Local!Join \/ Local!DrainDoneTask \/ Local!DrainPush
    <2>1. UNCHANGED <<crew, edges, done>> /\ phase # "idle" /\ phase' # "idle"
        BY <1>7 DEF Local!Join, Local!DrainDoneTask, Local!DrainPush, Local!treeVars
    <2> QED BY <2>1, <1>5
<1>8. ASSUME NEW t \in crew, Local!WorkerStep(t) \/ Local!Wake(t), ~Local!WorkEnd(t)
      PROVE  UNCHANGED Work!workVars
    <2>1. UNCHANGED <<crew, edges, done, phase>>
        <3>1. CASE Local!PopLocal(t)
            BY <3>1 DEF Local!PopLocal, Local!treeVars
        <3>2. CASE Local!TakeTicket(t)
            BY <3>2 DEF Local!TakeTicket, Local!treeVars
        <3>3. CASE Local!PopGlobal(t)
            BY <3>3 DEF Local!PopGlobal, Local!treeVars
        <3>4. CASE Local!Wait(t)
            BY <3>4 DEF Local!Wait, Local!treeVars
        <3>5. CASE Local!CountTaken(t)
            BY <3>5 DEF Local!CountTaken, Local!treeVars
        <3>6. CASE Local!WorkBegin(t)
            BY <3>6 DEF Local!WorkBegin, Local!WorkChecks, Local!treeVars
        <3>7. CASE Local!Distribute(t)
            BY <3>7, Zenon DEF Local!Distribute, Local!treeVars
        <3>8. CASE Local!CountNew(t)
            BY <3>8 DEF Local!CountNew, Local!treeVars
        <3>9. CASE Local!Push(t)
            BY <3>9 DEF Local!Push, Local!treeVars
        <3>10. CASE Local!Notify(t)
            BY <3>10 DEF Local!Notify, Local!treeVars
        <3>11. CASE Local!Wake(t)
            BY <3>11 DEF Local!Wake, Local!treeVars
        <3> QED BY <1>8, <3>1, <3>2, <3>3, <3>4, <3>5, <3>6, <3>7, <3>8, <3>9, <3>10, <3>11 DEF Local!WorkerStep
    <2> QED BY <2>1, <1>5
<1>9. CASE Local!MainStep
    BY <1>2, <1>6, <1>7, <1>9 DEF Local!MainStep
<1>10. ASSUME NEW t \in crew, Local!WorkerStep(t) \/ Local!Wake(t) PROVE [Work!WorkNext]_(Work!workVars)
    BY <1>4, <1>8, <1>10
<1> QED BY <1>1, <1>3, <1>9, <1>10 DEF Local!Next

-----------------------------------------------------------------------------
(* The three solvers.                                                      *)

TreeInv ==
    /\ solver \in {"naive", "local", "sequential"}
    /\ solver = "naive" => NaiveInv
    /\ solver = "local" => LocalInv
    /\ solver = "sequential" => SequentialInv /\ waiting = {}

LEMMA TreeInitInv == Init => TreeInv
BY NaiveInitInv, LocalInitInv, SequentialInitInv DEF Init, TreeInv, QueueInit

LEMMA NaiveStutters == ASSUME NaiveInv, UNCHANGED vars PROVE NaiveInv'
<1>0. UNCHANGED <<m_queue, waiting, crew, edges, done, thrown, num_work_left, solving, pc, current, out>>
    BY DEF vars, Local!vars, Local!queueVars, Local!treeVars, Local!counters, Local!local
<1>1. \A t \in Threads, v \in Nodes : NaiveOwns(t, v)' <=> NaiveOwns(t, v)
    BY <1>0 DEF NaiveOwns
<1>2. /\ TaskTree' /\ NaivePlaces' /\ WorkedOK' /\ NaiveReady'
      /\ size' = size /\ Nodes' = Nodes /\ Cardinality(crew)' = Cardinality(crew) /\ Worked' = Worked
    BY <1>0, <1>1, NaiveStill
<1>3. NaiveType'
    BY <1>0, <1>2 DEF NaiveInv, NaiveType
<1>4. NaiveThreads'
    BY <1>0 DEF NaiveInv, NaiveThreads
<1>5. NaiveTickets' = NaiveTickets /\ NaiveReturned' = NaiveReturned /\ Attending' = Attending
    BY <1>0 DEF NaiveTickets, NaiveReturned, Attending
<1>6. NaiveCount' /\ Attended'
    BY <1>0, <1>2, <1>5 DEF NaiveInv, NaiveCount, Attended
<1> QED BY <1>0, <1>2, <1>3, <1>4, <1>6 DEF NaiveInv

LEMMA LocalStutters == ASSUME LocalInv, UNCHANGED vars PROVE LocalInv'
<1>0. UNCHANGED <<m_queue, waiting, crew, edges, done, thrown, num_work_left, num_elements_in_queues, phase,
                  m_local_queues, pc, current, out>>
    BY DEF vars, Local!vars, Local!queueVars, Local!treeVars, Local!counters, Local!local
<1>1. TaskTree
    BY DEF LocalInv
<1>2. /\ TaskTree' /\ size' = size /\ Nodes' = Nodes /\ Elements' = Elements /\ Cardinality(crew)' = Cardinality(crew)
      /\ WorkedOK' /\ (\A v : Ready(v)' <=> Ready(v)) /\ \A v : parent(v)' = parent(v)
    BY <1>0, <1>1, TreeKept DEF LocalInv, Elements
<1>3. LocalFunctions' /\ LocalNumbers' /\ LocalOutputs'
    BY <1>0, <1>2 DEF LocalInv, LocalFunctions, LocalNumbers, LocalOutputs
<1>4. \A t \in Threads : Worker(t)' <=> Worker(t)
    BY <1>0, <1>2 DEF Worker, Dones, DonePlaces, In
<1>5. LocalThreads'
    BY <1>0, <1>4 DEF LocalInv, LocalThreads
<1>6. \A t, v : /\ LocalHolds(t, v)' <=> LocalHolds(t, v)
                /\ LocalHand(t, v)' <=> LocalHand(t, v)
                /\ LocalKeeps(t, v)' <=> LocalKeeps(t, v)
                /\ LocalOwns(t, v)' <=> LocalOwns(t, v)
                /\ Adds(t, v)' <=> Adds(t, v)
    BY <1>0, <1>2 DEF LocalHolds, LocalHand, LocalExpects, LocalKeeps, LocalOwns, Adds, In
<1>7. LocalPlaces'
    BY <1>0, <1>2, <1>6 DEF LocalInv, LocalPlaces
<1>8. \A v : LocalSomewhere(v)' <=> LocalSomewhere(v)
    BY <1>0, <1>6 DEF LocalSomewhere
<1>9. LocalReady'
    BY <1>0, <1>2, <1>8 DEF LocalInv, LocalReady
<1>10. /\ Popped' = Popped /\ Outstanding' = Outstanding /\ Ended' = Ended /\ LocalReturned' = LocalReturned
       /\ Estimated' = Estimated /\ Attending' = Attending /\ Frontier' = Frontier
    BY <1>0, <1>2, <1>6 DEF Popped, Outstanding, Ended, LocalReturned, Estimated, Attending, Frontier
<1>11. LocalCount' /\ Attended'
    BY <1>0, <1>2, <1>10 DEF LocalInv, LocalCount, Attended
<1>12. LocalEstimate'
    BY <1>0, <1>2, <1>6, <1>10 DEF LocalInv, LocalEstimate
<1>13. Dones(m_queue)' = Dones(m_queue)
    BY <1>0 DEF Dones, DonePlaces
<1>14. (\A t \in crew : Quota(t)' <=> Quota(t)) /\ (NotEnding' <=> NotEnding)
    BY <1>0, <1>2, <1>10, <1>13 DEF Quota, DonesToPush, NotEnding
<1>15. LocalEnding'
    BY <1>0, <1>14 DEF LocalInv, LocalEnding
<1>16. DrainCount'
    BY <1>0, <1>10, <1>13 DEF LocalInv, DrainCount
<1> QED BY <1>0, <1>2, <1>3, <1>5, <1>7, <1>9, <1>11, <1>12, <1>15, <1>16 DEF LocalInv

LEMMA SequentialStutters == ASSUME SequentialInv, UNCHANGED vars PROVE SequentialInv'
<1>0. UNCHANGED <<crew, edges, done, thrown, solving, task_queue>>
    BY DEF vars, Local!vars, Local!treeVars
<1>1. TaskTree' /\ Nodes' = Nodes /\ WorkedOK' /\ \A v : Ready(v)' <=> Ready(v)
    BY <1>0, TreeKept DEF SequentialInv
<1> QED BY <1>0, <1>1 DEF SequentialInv

LEMMA TreeNextInv == TreeInv /\ [Next]_vars => TreeInv'
<1> SUFFICES ASSUME TreeInv, [Next]_vars PROVE TreeInv'
    OBVIOUS
<1>1. CASE Next
    <2>1. solver' = solver
        BY <1>1 DEF Next
    <2>2. CASE solver = "naive"
        BY <1>1, <2>1, <2>2, NaiveNextInv DEF Next, TreeInv
    <2>3. CASE solver = "local"
        BY <1>1, <2>1, <2>3, LocalNextInv DEF Next, TreeInv
    <2>4. CASE solver = "sequential"
        <3>1. waiting' = waiting
            BY <1>1, <2>4 DEF Next, queueVars
        <3> QED BY <1>1, <2>1, <2>4, <3>1, SequentialNextInv DEF Next, TreeInv
    <2> QED BY <2>2, <2>3, <2>4 DEF TreeInv
<1>2. CASE UNCHANGED vars
    <2>1. solver' = solver /\ waiting' = waiting
        BY <1>2 DEF vars, Local!vars, Local!queueVars
    <2> QED BY <1>2, <2>1, NaiveStutters, LocalStutters, SequentialStutters DEF TreeInv
<1> QED BY <1>1, <1>2

\* What each of the solvers keeps holds throughout, for every tree and every number of threads.
THEOREM TreesInvariance == Spec => []TreeInv
BY TreeInitInv, TreeNextInv, PTL DEF Spec

\* Every variable of the solver that runs keeps its type, and neither num_work_left nor
\* num_elements_in_queues leaves its range.
THEOREM TreesTypeCorrect == Spec => []TypeOK
<1>1. TreeInv => TypeOK
    BY NaiveTypeOK, LocalTypeOK, SequentialTypeOK DEF TreeInv, TypeOK
<1> QED BY <1>1, TreesInvariance, PTL

\* TreeTask::work() never throws in a worker, whichever solver runs: no node is worked on twice or
\* before its parent.
THEOREM TreesNeverThrow == Spec => []WorkersNeverThrow
<1>1. TreeInv => WorkersNeverThrow
    BY DEF TreeInv, WorkersNeverThrow, NaiveInv, LocalInv, SequentialInv, Local!WorkersNeverThrow
<1> QED BY <1>1, TreesInvariance, PTL

\* A worker that waits in pop() has another one left that neither waits nor has returned: no
\* notify_one is lost, and there are as many units and done_tasks as the workers need.
THEOREM NobodySleeps == Spec => []NobodySleepsForever
<1>1. TreeInv => NobodySleepsForever
    BY NaiveNobodySleeps, LocalNobodySleeps DEF TreeInv, NobodySleepsForever
<1> QED BY <1>1, TreesInvariance, PTL

\* num_elements_in_queues counts the nodes in the queues, and no worker returns with a node in its own.
THEOREM QueuesAccountedFor == Spec => []LocalQueuesAccountedFor
<1>1. TreeInv => LocalQueuesAccountedFor
    BY LocalAccountedFor DEF TreeInv, LocalQueuesAccountedFor
<1> QED BY <1>1, TreesInvariance, PTL

LEMMA TreeWorks == TreeInv /\ [Next]_vars => [Work!WorkNext]_(Work!workVars)
<1> SUFFICES ASSUME TreeInv, [Next]_vars PROVE [Work!WorkNext]_(Work!workVars)
    OBVIOUS
<1>1. CASE Next
    <2>2. CASE solver = "naive"
        <3>1. Naive!Next /\ UNCHANGED <<solver, phase>>
            BY <1>1, <2>2 DEF Next
        <3> QED BY <2>2, <3>1, NaiveWorks DEF TreeInv
    <2>3. CASE solver = "local"
        <3>1. Local!Next /\ UNCHANGED <<solver, solving>>
            BY <1>1, <2>3 DEF Next
        <3> QED BY <2>3, <3>1, LocalWorks DEF TreeInv
    <2>4. CASE solver = "sequential"
        <3>1. Sequential!Next /\ UNCHANGED <<solver, phase>>
            BY <1>1, <2>4 DEF Next
        <3> QED BY <2>4, <3>1, SequentialWorks DEF TreeInv
    <2> QED BY <2>2, <2>3, <2>4 DEF TreeInv
<1>2. CASE UNCHANGED vars
    <2>1. UNCHANGED <<crew, edges, done, solver, solving, phase>>
        BY <1>2 DEF vars, Local!vars, Local!treeVars
    <2>2. TaskTree
        BY DEF TreeInv, NaiveInv, LocalInv, SequentialInv
    <2> QED BY <2>1, <2>2, TreeKept, ParentsKept DEF Work!workVars, Worked
<1> QED BY <1>1, <1>2

LEMMA TreeWorkInit == Init => Work!WorkInit
<1> SUFFICES ASSUME Init PROVE Work!WorkInit
    OBVIOUS
<1>1. \A v \in Nodes : ~done[v]
    BY DEF Init, Naive!Init, Naive!TreeInit, Local!Init, Local!TreeInit, Sequential!Init, Sequential!TreeInit, Nodes,
           Naive!Nodes, Local!Nodes, Sequential!Nodes
<1>2. IF solver = "local" THEN phase = "idle" ELSE solving = FALSE
    BY DEF Init, Naive!Init, Local!Init, Sequential!Init
<1> QED BY <1>1, <1>2 DEF Work!WorkInit

\* Each of the solvers works on every node once, after its parent, and solve() returns only when all
\* nodes are done; TreeSolver may die in the loop after the join, but it never returns too early.
THEOREM TreesImplementOrderedWork == Spec => ImplementsOrderedWork
<1>1. TreeInv /\ [Next]_vars => [Work!WorkNext]_(Work!workVars)
    BY TreeWorks
<1>2. Init => Work!WorkInit
    BY TreeWorkInit
<1> QED BY <1>1, <1>2, TreesInvariance, PTL DEF Spec, ImplementsOrderedWork, Work!WorkSpec
=============================================================================

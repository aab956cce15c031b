--------------------------- MODULE HashMapProofs ---------------------------
(***************************************************************************)
(* Proofs about the hash maps, for any number of threads, keys, buckets    *)
(* and nodes: the types of all five lists, the marks of atomic_marked_list, *)
(* and that the two lists with mutexes are sets of keys.                   *)
(***************************************************************************)
EXTENDS MCLists, FiniteSetTheorems, SequenceTheorems, WellFoundedInduction, TLAPS

-----------------------------------------------------------------------------
(* Induction over the natural numbers: every set of them has a least one.  *)

Less == {ss \in Nat \X Nat : ss[1] < ss[2]}

LEMMA LessIsWellFounded == IsWellFoundedOn(Less, Nat)
BY NatLessThanWellFounded DEF OpToRel, Less

\* A nonempty set of natural numbers has a least element.
LEMMA LeastElement ==
    ASSUME NEW S \in SUBSET Nat, S # {}
    PROVE  \E m \in S : \A k \in S : m <= k
<1>2. \E m \in S : \A k \in S : ~(<<k, m>> \in Less)
    BY LessIsWellFounded, WFMin
<1>3. PICK m \in S : \A k \in S : ~(<<k, m>> \in Less)
    BY <1>2
<1>4. \A k \in S : ~(k < m)
    BY <1>3 DEF Less
<1> QED BY <1>4

\* What holds of zero and passes on to the successor holds of every number.
LEMMA InductionOverSet ==
    ASSUME NEW S \in SUBSET Nat, 0 \in S, \A n \in S : n + 1 \in S
    PROVE  S = Nat
<1> SUFFICES ASSUME Nat \ S # {} PROVE FALSE
    OBVIOUS
<1>1. PICK m \in Nat \ S : \A k \in Nat \ S : m <= k
    BY LeastElement
<1>2. m # 0 /\ m - 1 \in Nat /\ (m - 1) + 1 = m
    BY <1>1
<1>3. m - 1 \in S
    BY <1>1, <1>2
<1> QED BY <1>1, <1>2, <1>3

\* How many numbers there are from one to n.
LEMMA FromOne == \A n \in Nat : IsFiniteSet(1 .. n) /\ Cardinality(1 .. n) = n
BY FS_Interval

Unfolds(f, T, base, F, n) == f \in [0 .. n -> T] /\ f[0] = base /\ \A i \in 1 .. n : f[i] = F[f[i - 1]]

\* The function that a base and a step define recursively exists.
LEMMA RecursiveFunction ==
    ASSUME NEW T, NEW base \in T, NEW F \in [T -> T], NEW n \in Nat
    PROVE  \E f : Unfolds(f, T, base, F, n)
<1> DEFINE Good(k) == \E f \in [0 .. k -> T] : f[0] = base /\ \A i \in 1 .. k : f[i] = F[f[i - 1]]
           S == {k \in Nat : Good(k)}
<1>1. 0 \in S
    <2>1. [i \in 0 .. 0 |-> base] \in [0 .. 0 -> T]
        OBVIOUS
    <2>2. [j \in 0 .. 0 |-> base][0] = base /\ 1 .. 0 = {}
        OBVIOUS
    <2> QED BY <2>1, <2>2
<1>2. ASSUME NEW k \in S PROVE k + 1 \in S
    <2>1. PICK f \in [0 .. k -> T] : f[0] = base /\ \A i \in 1 .. k : f[i] = F[f[i - 1]]
        BY <1>2
    <2> DEFINE g == [i \in 0 .. k + 1 |-> IF i = k + 1 THEN F[f[k]] ELSE f[i]]
    <2>2. k \in Nat /\ f[k] \in T /\ F[f[k]] \in T
        BY <2>1
    <2>3. g \in [0 .. k + 1 -> T]
        BY <2>2
    <2>4. ASSUME NEW i \in 1 .. k + 1 PROVE g[i] = F[g[i - 1]]
        <3>1. i - 1 \in 0 .. k + 1 /\ i - 1 # k + 1 /\ g[i - 1] = f[i - 1] /\ (k + 1) - 1 = k
            BY <2>2
        <3>2. CASE i = k + 1
            BY <3>1, <3>2, <2>2
        <3>3. CASE i # k + 1
            <4>1. i \in 1 .. k /\ g[i] = f[i]
                BY <3>3, <2>2
            <4> QED BY <4>1, <3>1, <2>1
        <3> QED BY <3>2, <3>3
    <2>6. g[0] = base
        BY <2>1, <2>2
    <2> HIDE DEF g
    <2>5. Good(k + 1)
        BY <2>3, <2>4, <2>6
    <2> QED BY <2>5, <2>2
<1> HIDE DEF Good
<1>3. S = Nat
    BY <1>1, <1>2, InductionOverSet
<1> QED BY <1>3 DEF Good, Unfolds
-----------------------------------------------------------------------------
(* What the pointers lead to.                                              *)

\* The map is one of the maps, and the pointers lead to nodes.
PointersTyped == map \in Maps /\ next \in [Places -> {null} \cup Nodes]

\* The nodes of the list of a bucket are the least set that its head leads into and the
\* pointers do not lead out of.
LeastChain(h) ==
    /\ Chain(h) \subseteq Nodes
    /\ \A p \in Chain(h) \cup {h} : next[p] \in Chain(h) \cup {null}
    /\ \A S \in SUBSET Nodes : (\A p \in S \cup {h} : next[p] \in S \cup {null}) => Chain(h) \subseteq S
ChainsAreLeast == \A h \in Heads : LeastChain(h)

LEMMA NodesCounted ==
    ASSUME map \in Maps
    PROVE  map.nodes \in Nat /\ IsFiniteSet(Nodes) /\ Cardinality(Nodes) = map.nodes
<1>1. map.nodes \in Nat
    BY MapAssumption
<1> QED BY <1>1, FromOne DEF Nodes

\* The places that a head leads to by n pointers at most, as a function of n.
Leads(h, f) ==
    Unfolds(f, SUBSET ({h, null} \cup Nodes), {h}, [S \in SUBSET ({h, null} \cup Nodes) |-> PointeesOf(S)], map.nodes)

\* Chain is what the last of them is.
LEMMA ChainUnfolds ==
    ASSUME PointersTyped, NEW h \in Heads
    PROVE  \E f : Leads(h, f) /\ Chain(h) = f[map.nodes] \ {h, null}
<1> DEFINE n == map.nodes
           T == SUBSET ({h, null} \cup Nodes)
           F == [S \in T |-> PointeesOf(S)]
           Steps_(f) == f = [i \in 0 .. n |-> IF i = 0 THEN {h} ELSE PointeesOf(f[i - 1])]
           reached == CHOOSE f : Steps_(f)
<1>1. n \in Nat /\ {h} \in T
    BY NodesCounted DEF PointersTyped
<1>2. Chain(h) = reached[n] \ {h, null}
    BY DEF Chain
<1>3. ASSUME NEW S \in T PROVE PointeesOf(S) \in T
    <2>1. \A p \in S \ {null} : p \in Places /\ next[p] \in {null} \cup Nodes
        BY DEF PointersTyped, Places
    <2> QED BY <2>1 DEF PointeesOf
<1> HIDE DEF n, T
<1>4. F \in [T -> T]
    BY <1>3
<1>f. \A S \in T : F[S] = PointeesOf(S)
    OBVIOUS
<1> HIDE DEF F
<1>5. PICK f : Unfolds(f, T, {h}, F, n)
    BY <1>1, <1>4, RecursiveFunction
<1>6. ASSUME NEW g, Unfolds(g, T, {h}, F, n) PROVE Steps_(g)
    <2>1. \A i \in 0 .. n : i # 0 => i \in 1 .. n /\ i - 1 \in 0 .. n
        BY <1>1
    <2>2. \A i \in 0 .. n : i # 0 => g[i] = F[g[i - 1]] /\ g[i - 1] \in T
        BY <1>6, <2>1 DEF Unfolds
    <2>3. \A i \in 0 .. n : i # 0 => g[i] = PointeesOf(g[i - 1])
        BY <2>2, <1>f
    <2>4. g[0] = {h} /\ g = [i \in 0 .. n |-> g[i]]
        BY <1>6 DEF Unfolds
    <2>5. \A i \in 0 .. n : g[i] = IF i = 0 THEN {h} ELSE PointeesOf(g[i - 1])
        BY <2>3, <2>4
    <2> QED BY <2>4, <2>5
<1>7. ASSUME NEW g, Steps_(g) PROVE Unfolds(g, T, {h}, F, n)
    <2>1. g[0] = {h}
        BY <1>7, <1>1
    <2>2. \A i \in 1 .. n : i \in 0 .. n /\ i # 0 /\ i - 1 \in 0 .. n
        BY <1>1
    <2>3. \A i \in 1 .. n : g[i] = PointeesOf(g[i - 1])
        BY <1>7, <2>2
    <2> DEFINE S == {i \in Nat : i <= n => g[i] \in T}
    <2>4. 0 \in S
        BY <2>1, <1>1
    <2>5. ASSUME NEW i \in S PROVE i + 1 \in S
        <3> SUFFICES ASSUME i + 1 <= n PROVE g[i + 1] \in T
            OBVIOUS
        <3>1. i + 1 \in 1 .. n /\ (i + 1) - 1 = i /\ i <= n
            BY <1>1
        <3>2. g[i] \in T /\ g[i + 1] = PointeesOf(g[i])
            BY <3>1, <2>3
        <3> QED BY <3>2, <1>3
    <2> HIDE DEF S
    <2>6. S = Nat
        BY <2>4, <2>5, InductionOverSet DEF S
    <2>7. \A i \in 0 .. n : g[i] \in T
        BY <1>1, <2>6 DEF S
    <2>8. \A i \in 1 .. n : g[i] = F[g[i - 1]]
        BY <2>2, <2>3, <2>7, <1>f
    <2>9. g \in [0 .. n -> T]
        BY <1>7, <2>7
    <2> QED BY <2>1, <2>8, <2>9 DEF Unfolds
<1> HIDE DEF Steps_
<1>8. Steps_(reached)
    BY <1>5, <1>6
<1>9. Unfolds(reached, T, {h}, F, n)
    BY <1>7, <1>8
<1> QED BY <1>2, <1>9 DEF Leads, n, T, F

\* What the places reached are: one step at a time, and never fewer.
LEMMA LeadsFacts ==
    ASSUME PointersTyped, NEW h \in Heads, NEW f, Leads(h, f)
    PROVE  /\ map.nodes \in Nat /\ f[0] = {h}
           /\ \A i \in 0 .. map.nodes : f[i] \in SUBSET ({h, null} \cup Nodes)
           /\ \A i \in Nat : i + 1 <= map.nodes => f[i + 1] = PointeesOf(f[i])
<1> DEFINE n == map.nodes
           T == SUBSET ({h, null} \cup Nodes)
           F == [S \in T |-> PointeesOf(S)]
<1>1. n \in Nat
    BY NodesCounted DEF PointersTyped
<1>2. Unfolds(f, T, {h}, F, n)
    BY DEF Leads
<1>3. \A S \in T : F[S] = PointeesOf(S)
    OBVIOUS
<1> HIDE DEF n, T, F
<1>4. f[0] = {h} /\ f \in [0 .. n -> T] /\ \A i \in 1 .. n : f[i] = F[f[i - 1]]
    BY <1>2 DEF Unfolds
<1>5. ASSUME NEW i \in Nat, i + 1 <= n PROVE f[i + 1] = PointeesOf(f[i])
    <2>1. i + 1 \in 1 .. n /\ i \in 0 .. n /\ (i + 1) - 1 = i
        BY <1>1, <1>5
    <2> QED BY <2>1, <1>3, <1>4
<1>6. \A i \in 0 .. n : f[i] \in T
    BY <1>4
<1> QED BY <1>1, <1>4, <1>5, <1>6 DEF n, T

\* The pointers do not lead out of a set of places, but for the null pointer.
Closed(S) == \A p \in S \ {null} : next[p] \in S \cup {null}

\* After as many steps as there are nodes nothing is left to be reached.
LEMMA AllIsReached ==
    ASSUME PointersTyped, NEW h \in Heads, NEW f, Leads(h, f)
    PROVE  Closed(f[map.nodes])
<1> DEFINE n == map.nodes
           New(i) == f[i] \cap Nodes
<1>1. /\ n \in Nat /\ f[0] = {h}
      /\ \A i \in 0 .. n : f[i] \in SUBSET ({h, null} \cup Nodes)
      /\ \A i \in Nat : i + 1 <= n => f[i + 1] = PointeesOf(f[i])
    BY LeadsFacts
<1>2. IsFiniteSet(Nodes) /\ Cardinality(Nodes) = n
    BY NodesCounted DEF PointersTyped
<1>3. \A i \in Nat : IsFiniteSet(New(i)) /\ Cardinality(New(i)) \in Nat /\ New(i) \subseteq Nodes
    BY <1>2, FS_Subset, FS_CardinalityType
<1>4. \A p \in ({h} \cup Nodes) : next[p] \in {null} \cup Nodes
    BY DEF PointersTyped, Places
<1> HIDE DEF n
<1> DEFINE S == {i \in Nat : i <= n => Closed(f[i]) \/ Cardinality(New(i)) >= i}
<1>5. 0 \in S
    BY <1>3
<1>6. ASSUME NEW i \in S PROVE i + 1 \in S
    <2> SUFFICES ASSUME i + 1 <= n PROVE Closed(f[i + 1]) \/ Cardinality(New(i + 1)) >= i + 1
        OBVIOUS
    <2>1. i \in 0 .. n /\ i \in Nat /\ i + 1 \in Nat /\ (Closed(f[i]) \/ Cardinality(New(i)) >= i)
        BY <1>1
    <2>2. f[i + 1] = f[i] \cup {next[p] : p \in f[i] \ {null}} /\ f[i] \in SUBSET ({h, null} \cup Nodes)
        BY <2>1, <1>1 DEF PointeesOf
    <2> HIDE DEF S
    <2>3. CASE Closed(f[i])
        <3>1. f[i + 1] \subseteq f[i] \cup {null} /\ f[i] \subseteq f[i + 1]
            BY <2>2, <2>3 DEF Closed
        <3>2. \A p \in f[i + 1] \ {null} : next[p] \in f[i + 1] \cup {null}
            BY <3>1, <2>3 DEF Closed
        <3> QED BY <3>2 DEF Closed
    <2>4. CASE ~Closed(f[i])
        <3>1. PICK p \in f[i] \ {null} : next[p] \notin f[i] \cup {null}
            BY <2>4 DEF Closed
        <3>2. next[p] \in Nodes /\ next[p] \in f[i + 1]
            BY <3>1, <2>2, <1>4
        <3> DEFINE A == New(i)
                   B == New(i + 1)
                   x == next[p]
        <3>3. A \cup {x} \subseteq B /\ x \notin A
            BY <3>1, <3>2, <2>2
        <3>4. IsFiniteSet(A) /\ IsFiniteSet(B) /\ Cardinality(A) \in Nat /\ Cardinality(B) \in Nat
            BY <1>3, <2>1
        <3>5. Cardinality(A) >= i
            BY <2>1, <2>4
        <3> HIDE DEF A, B, x
        <3>6. Cardinality(A \cup {x}) = Cardinality(A) + 1
            BY <3>3, <3>4, FS_AddElement
        <3> DEFINE C == A \cup {x}
        <3>c. C \in SUBSET B
            BY <3>3
        <3> HIDE DEF C
        <3>7. Cardinality(C) <= Cardinality(B)
            BY <3>c, <3>4, FS_Subset
        <3>8. Cardinality(B) >= i + 1
            BY <3>4, <3>5, <3>6, <3>7, <2>1 DEF C
        <3> QED BY <3>8 DEF B
    <2> QED BY <2>3, <2>4
<1> HIDE DEF S
<1>7. S = Nat
    BY <1>5, <1>6, InductionOverSet DEF S
<1>8. Closed(f[n]) \/ Cardinality(New(n)) >= n
    BY <1>7, <1>1 DEF S
<1>9. CASE Cardinality(New(n)) >= n
    <2>1. Cardinality(New(n)) <= Cardinality(Nodes) /\ (Cardinality(Nodes) = Cardinality(New(n)) => Nodes = New(n))
        BY <1>2, <1>3, <1>1, FS_Subset
    <2>2. Nodes \subseteq f[n]
        BY <2>1, <1>9, <1>1, <1>2, <1>3
    <2>3. f[n] \in SUBSET ({h, null} \cup Nodes)
        BY <1>1
    <2> QED BY <2>2, <2>3, <1>4 DEF Closed, n
<1> QED BY <1>8, <1>9 DEF n

\* The nodes of a list are the least closed set.
LEMMA ChainLeast ==
    ASSUME PointersTyped, NEW h \in Heads
    PROVE  LeastChain(h)
<1>1. PICK f : Leads(h, f) /\ Chain(h) = f[map.nodes] \ {h, null}
    BY ChainUnfolds
<1> DEFINE n == map.nodes
<1>2. /\ n \in Nat /\ f[0] = {h}
      /\ \A i \in 0 .. n : f[i] \in SUBSET ({h, null} \cup Nodes)
      /\ \A i \in Nat : i + 1 <= n => f[i + 1] = PointeesOf(f[i])
    BY <1>1, LeadsFacts
<1>3. Closed(f[n])
    BY <1>1, AllIsReached
<1>4. h \notin Nodes /\ h # null /\ null \notin Nodes
    BY DEF PointersTyped, Heads, m_head, Nodes, null, Buckets
<1>0. \A p \in ({h} \cup Nodes) : next[p] \in {null} \cup Nodes
    BY DEF PointersTyped, Places
<1> HIDE DEF n
<1>5. Chain(h) = f[n] \ {h, null} /\ f[n] \in SUBSET ({h, null} \cup Nodes)
    BY <1>1, <1>2 DEF n
<1>6. Chain(h) \subseteq Nodes
    BY <1>5
<1>7. h \in f[n]
    <2> DEFINE S == {i \in Nat : i <= n => h \in f[i]}
    <2>1. 0 \in S
        BY <1>2
    <2>2. ASSUME NEW i \in S PROVE i + 1 \in S
        <3> SUFFICES ASSUME i + 1 <= n PROVE h \in f[i + 1]
            OBVIOUS
        <3>1. h \in f[i] /\ f[i + 1] = PointeesOf(f[i])
            BY <1>2
        <3> QED BY <3>1 DEF PointeesOf
    <2> HIDE DEF S
    <2>3. S = Nat
        BY <2>1, <2>2, InductionOverSet DEF S
    <2> QED BY <2>3, <1>2 DEF S
<1>8. ASSUME NEW p \in Chain(h) \cup {h} PROVE next[p] \in Chain(h) \cup {null}
    <2>1. p \in f[n] \ {null} /\ p \in {h} \cup Nodes
        BY <1>4, <1>5, <1>7
    <2>2. next[p] \in f[n] \cup {null} /\ next[p] \in {null} \cup Nodes
        BY <2>1, <1>3, <1>0 DEF Closed
    <2> QED BY <2>2, <1>4, <1>5
<1>9. ASSUME NEW C \in SUBSET Nodes, \A p \in C \cup {h} : next[p] \in C \cup {null}
      PROVE  Chain(h) \subseteq C
    <2> DEFINE S == {i \in Nat : i <= n => f[i] \subseteq C \cup {h, null}}
    <2>1. 0 \in S
        BY <1>2
    <2>2. ASSUME NEW i \in S PROVE i + 1 \in S
        <3> SUFFICES ASSUME i + 1 <= n PROVE f[i + 1] \subseteq C \cup {h, null}
            OBVIOUS
        <3>1. f[i] \subseteq C \cup {h, null} /\ f[i + 1] = PointeesOf(f[i])
            BY <1>2
        <3> QED BY <3>1, <1>9 DEF PointeesOf
    <2> HIDE DEF S
    <2>3. S = Nat
        BY <2>1, <2>2, InductionOverSet DEF S
    <2>4. f[n] \subseteq C \cup {h, null}
        BY <2>3, <1>2 DEF S
    <2> QED BY <2>4, <1>5
<1> QED BY <1>6, <1>8, <1>9 DEF LeastChain

LEMMA ChainsLeast == PointersTyped => ChainsAreLeast
BY ChainLeast DEF ChainsAreLeast
-----------------------------------------------------------------------------
(* The buckets.                                                            *)

\* The loop ends with a power between one and 2n + 1.
LEMMA PowerFound ==
    ASSUME NEW n \in Nat
    PROVE  next_power_of_two(n) \in 1 .. 2 * n + 1
<1> DEFINE D == 1 .. 2 * n + 1
           From(k) == 2 * n + 1 - k .. 2 * n + 1
           Doubles(f, E) == \A p \in E : f[p] = IF p < n THEN f[2 * p] ELSE p
           Good(k) == \E f \in [From(k) -> D] : Doubles(f, From(k))
           Loop_(f) == f = [p \in D |-> IF p < n THEN f[2 * p] ELSE p]
           power == CHOOSE f : Loop_(f)
           S == {k \in Nat : k <= 2 * n => Good(k)}
<1>1. 0 \in S
    <2>1. [p \in From(0) |-> p] \in [From(0) -> D]
        OBVIOUS
    <2>2. Doubles([p \in From(0) |-> p], From(0))
        OBVIOUS
    <2> HIDE DEF Doubles, From, D
    <2> QED BY <2>1, <2>2
<1>2. ASSUME NEW k \in S PROVE k + 1 \in S
    <2> HIDE DEF Good
    <2> SUFFICES ASSUME k + 1 <= 2 * n PROVE Good(k + 1)
        OBVIOUS
    <2> DEFINE q == 2 * n + 1 - (k + 1)
    <2>1. k \in Nat /\ Good(k)
        OBVIOUS
    <2>2. PICK f \in [From(k) -> D] : Doubles(f, From(k))
        BY <2>1 DEF Good
    <2> HIDE DEF S
    <2>3. q \in D /\ q \notin From(k) /\ From(k + 1) = From(k) \cup {q} /\ (q < n => 2 * q \in From(k))
        BY <2>1
    <2>4. \A p \in From(k) : p \in Int /\ p > q /\ 2 * p # q /\ (p < n => 2 * p \in From(k))
        BY <2>1
    <2> HIDE DEF From, D, q
    <2> DEFINE g == [p \in From(k + 1) |-> IF p = q THEN (IF q < n THEN f[2 * q] ELSE q) ELSE f[p]]
    <2>5. g \in [From(k + 1) -> D]
        BY <2>2, <2>3
    <2>6. ASSUME NEW p \in From(k + 1) PROVE g[p] = IF p < n THEN g[2 * p] ELSE p
        <3>1. CASE p = q
            <4>1. CASE q < n
                <5>1. g[q] = f[2 * q]
                    BY <4>1, <2>3
                <5>2. 2 * q # q /\ 2 * q \in From(k + 1) /\ g[2 * q] = f[2 * q]
                    BY <4>1, <2>3
                <5> QED BY <5>1, <5>2, <3>1, <4>1
            <4> QED BY <3>1, <4>1, <2>3
        <3>2. CASE p # q
            <4>1. p \in From(k) /\ g[p] = f[p] /\ 2 * p # q
                BY <3>2, <2>3, <2>4
            <4>2. f[p] = IF p < n THEN f[2 * p] ELSE p
                BY <4>1, <2>2
            <4>3. p < n => 2 * p \in From(k + 1)
                BY <4>1, <2>3, <2>4
            <4>4. p < n => g[2 * p] = f[2 * p]
                BY <4>1, <4>3
            <4> QED BY <4>1, <4>2, <4>4
        <3> QED BY <3>1, <3>2
    <2> HIDE DEF g
    <2> QED BY <2>5, <2>6 DEF Good
<1> HIDE DEF S, Good
<1>3. S = Nat
    BY <1>1, <1>2, InductionOverSet DEF S
<1>4. Good(2 * n) /\ From(2 * n) = D
    BY <1>3 DEF S
<1>5. PICK f \in [D -> D] : Doubles(f, D)
    BY <1>4 DEF Good
<1>6. Loop_(f)
    <2>1. \A p \in D : f[p] = IF p < n THEN f[2 * p] ELSE p
        BY <1>5
    <2> HIDE DEF D
    <2> QED BY <1>5, <2>1
<1> HIDE DEF Loop_
<1>7. Loop_(power)
    BY <1>6
<1> HIDE DEF power
<1> DEFINE R == {k \in Nat : k <= 2 * n => \A p \in From(k) : power[p] \in D}
<1>8. \A p \in D : power[p] = IF p < n THEN power[2 * p] ELSE p
    BY <1>7 DEF Loop_
<1>9. 0 \in R
    <2>1. \A p \in From(0) : p \in D /\ ~(p < n)
        OBVIOUS
    <2> HIDE DEF From, D
    <2> QED BY <2>1, <1>8
<1>10. ASSUME NEW k \in R PROVE k + 1 \in R
    <2> SUFFICES ASSUME k + 1 <= 2 * n, NEW p \in From(k + 1) PROVE power[p] \in D
        OBVIOUS
    <2>1. k \in Nat /\ \A r \in From(k) : power[r] \in D
        OBVIOUS
    <2>2. p \in D /\ (p < n => 2 * p \in From(k))
        BY <2>1
    <2> HIDE DEF From, D, R
    <2> QED BY <2>1, <2>2, <1>8
<1> HIDE DEF R
<1>11. R = Nat
    BY <1>9, <1>10, InductionOverSet DEF R
<1>12. power[1] \in D
    <2>1. 2 * n \in R /\ 2 * n <= 2 * n /\ 1 \in D
        BY <1>11
    <2>2. \A p \in From(2 * n) : power[p] \in D
        BY <2>1 DEF R
    <2> HIDE DEF D, From
    <2> QED BY <2>1, <2>2, <1>4
<1> QED BY <1>12 DEF next_power_of_two, power, Loop_

\* There is a bucket for every key.
LEMMA BucketFound ==
    ASSUME map \in Maps
    PROVE  /\ num_buckets \in Nat /\ num_buckets > 0
           /\ \A k \in Keys : bucket(k) \in Buckets /\ m_head(bucket(k)) \in Heads
<1> DEFINE n == (6 * map.capacity) \div 5
<1>1. n \in Nat
    BY MapAssumption
<1> HIDE DEF n
<1>2. num_buckets \in Nat /\ num_buckets > 0
    BY <1>1, PowerFound DEF num_buckets, n
<1>3. ASSUME NEW k \in Keys PROVE bucket(k) \in Buckets
    <2>1. Hash[k].low \in Nat
        BY MapAssumption
    <2> QED BY <1>2, <2>1 DEF bucket, Buckets
<1> QED BY <1>2, <1>3 DEF Heads

\* Heads are neither nodes nor null, and different buckets have different heads.
LEMMA PlacesApart ==
    ASSUME map \in Maps
    PROVE  /\ \A h \in Heads : h \in Int /\ h < 0 /\ h \notin Nodes /\ h # null
           /\ \A n \in Nodes : n \in Nat /\ n > 0 /\ n # null
           /\ null \notin Nodes /\ null \notin Heads /\ null \notin Places
           /\ \A b1, b2 \in Buckets : m_head(b1) = m_head(b2) => b1 = b2
BY BucketFound, NodesCounted DEF Heads, Nodes, Places, m_head, null, Buckets
-----------------------------------------------------------------------------
(* The types of all five lists.                                            *)

PCs == {"idle", "filter", "start", "walk", "skip", "append", "reclaim", "mark", "unlink", "return"}
LocalsOver(D) == [prev : Places \cup {null}, prev_next : {null} \cup D, node : {null} \cup D,
                  next : {null} \cup D, new : {null} \cup D]

\* Where there must be a node, or a place, for the next step x of a call k with locals l,
\* and when its answer a is open.
StandsOn(x, l, k, ans) ==
    /\ x \in {"skip", "mark", "reclaim"} => l.node # null
    /\ x = "skip" => l.prev # null
    /\ x = "unlink" /\ map.list = "atomic_marked_list" => l.node # null
    /\ x = "walk" /\ map.list \in {"leaking_atomic_list", "atomic_shared_ptr_list"} /\ k.op = "insert" =>
        l.node # null
    /\ x \in {"idle", "filter", "start", "walk", "skip", "mark"} => ans = "open"
    /\ map.list \in {"single_mutex_list", "node_mutex_list"} => l.new = null

\* A call k with answer a and locals l may still create a node.
MayCreate(k, ans, l) == k # NoCall /\ k.op = "insert" /\ ans = "open" /\ l.new = null

ThreadOK(t) ==
    /\ pc[t] # "idle" => call[t] \in Calls
    /\ StandsOn(pc[t], at[t], call[t], answer[t])

\* There are numbers left for the nodes that may still be created, nothing is marked but
\* in atomic_marked_list, and every thread has the node it stands on.
RoomLeft == Len(value) + Cardinality(InsertsUnderWay) <= map.nodes
MarksOK == map.list # "atomic_marked_list" => marked = {}
TypeInv == MapTypeOK /\ RoomLeft /\ MarksOK /\ \A t \in Threads : ThreadOK(t)

\* A step of t: the next step is x, the locals l, the call k and its answer a.
Moves(t, x, l, k, ans) ==
    /\ pc' = [pc EXCEPT ![t] = x] /\ at' = [at EXCEPT ![t] = l]
    /\ call' = [call EXCEPT ![t] = k] /\ answer' = [answer EXCEPT ![t] = ans]
MovedTo(x, l, k, ans) ==
    /\ x \in PCs /\ l \in LocalsOver(DOMAIN value')
    /\ k \in Calls \cup {NoCall} /\ ans \in {"open", "yes", "no"}
    /\ x # "idle" => k \in Calls
    /\ StandsOn(x, l, k, ans)

\* What is in the type of the map.
LEMMA TypeFacts ==
    ASSUME TypeInv
    PROVE  /\ map \in Maps /\ map.nodes \in Nat /\ IsFiniteSet(Threads) /\ PointersTyped
           /\ filter \in [Buckets -> SUBSET (0 .. 63)]
           /\ value \in Seq(Keys) /\ Len(value) \in Nat /\ Len(value) <= map.nodes
           /\ DOMAIN value = 1 .. Len(value) /\ DOMAIN value \subseteq Nodes
           /\ \A n \in DOMAIN value : n \in Nodes /\ n \in Places /\ n # null /\ value[n] \in Keys
           /\ next \in [Places -> {null} \cup DOMAIN value]
           /\ marked \subseteq DOMAIN value /\ reclaimed \subseteq DOMAIN value
           /\ holders \in [Places -> SUBSET Threads]
           /\ pc \in [Threads -> PCs] /\ at \in [Threads -> LocalsOver(DOMAIN value)]
           /\ call \in [Threads -> Calls \cup {NoCall}] /\ answer \in [Threads -> {"open", "yes", "no"}]
           /\ NoCall \notin Calls
           /\ \A t \in Threads : call[t] \in Calls =>
                /\ call[t].key \in Keys /\ call[t].op \in Operations
                /\ bucket(call[t].key) \in Buckets /\ m_head(bucket(call[t].key)) \in Heads
                /\ m_head(bucket(call[t].key)) \in Places
<1>1. MapTypeOK
    BY DEF TypeInv
<1>2. map \in Maps /\ map.nodes \in Nat /\ IsFiniteSet(Threads) /\ NoCall \notin Calls
    BY <1>1, MapAssumption, NodesCounted DEF MapTypeOK
<1>3. value \in Seq(Keys) /\ Len(value) \in Nat /\ DOMAIN value = 1 .. Len(value) /\ Len(value) <= map.nodes
    BY <1>1 DEF MapTypeOK
<1>4. \A n \in DOMAIN value : n \in Nodes /\ n \in Places /\ n # null /\ value[n] \in Keys
    BY <1>2, <1>3 DEF Nodes, Places, null
<1>5. next \in [Places -> {null} \cup DOMAIN value]
    BY <1>1 DEF MapTypeOK
<1>6. PointersTyped
    BY <1>2, <1>4, <1>5 DEF PointersTyped
<1>7. \A t \in Threads : call[t] \in Calls =>
                /\ call[t].key \in Keys /\ call[t].op \in Operations
                /\ bucket(call[t].key) \in Buckets /\ m_head(bucket(call[t].key)) \in Heads
                /\ m_head(bucket(call[t].key)) \in Places
    BY <1>2, BucketFound DEF Calls, Places
<1> QED BY <1>1, <1>2, <1>3, <1>4, <1>5, <1>6, <1>7 DEF MapTypeOK, PCs, LocalsOver

\* The calls that may still create a node, after a step of t.
LEMMA RoomKept ==
    ASSUME TypeInv, NEW t \in Threads, NEW x, NEW l, NEW k, NEW ans, Moves(t, x, l, k, ans), UNCHANGED map,
           \/ value' = value /\ (MayCreate(k, ans, l) => MayCreate(call[t], answer[t], at[t]))
           \/ /\ Len(value') = Len(value) + 1
              /\ MayCreate(call[t], answer[t], at[t]) /\ ~MayCreate(k, ans, l)
    PROVE  RoomLeft'
<1> DEFINE A == InsertsUnderWay
           B == InsertsUnderWay'
<1>1. Len(value) \in Nat /\ map.nodes \in Nat /\ IsFiniteSet(Threads) /\ Len(value) + Cardinality(A) <= map.nodes
    BY TypeFacts DEF TypeInv, RoomLeft
<1>2. A \subseteq Threads /\ B \subseteq Threads
    BY DEF InsertsUnderWay
<1>3. IsFiniteSet(A) /\ IsFiniteSet(B) /\ Cardinality(A) \in Nat /\ Cardinality(B) \in Nat
    BY <1>1, <1>2, FS_Subset, FS_CardinalityType
<1>4. \A u \in Threads : u \in A <=> MayCreate(call[u], answer[u], at[u])
    BY DEF InsertsUnderWay, MayCreate
<1>5. \A u \in Threads : u \in B <=> IF u = t THEN MayCreate(k, ans, l) ELSE u \in A
    BY <1>4, TypeFacts DEF InsertsUnderWay, MayCreate, Moves
<1> HIDE DEF A, B
<1>7. CASE value' = value /\ (MayCreate(k, ans, l) => MayCreate(call[t], answer[t], at[t]))
    <2>1. B \in SUBSET A
        BY <1>2, <1>4, <1>5, <1>7
    <2>2. Cardinality(B) <= Cardinality(A)
        BY <2>1, <1>3, FS_Subset
    <2> QED BY <1>1, <1>3, <1>7, <2>2 DEF RoomLeft, B
<1>8. CASE Len(value') = Len(value) + 1 /\ MayCreate(call[t], answer[t], at[t]) /\ ~MayCreate(k, ans, l)
    <2>1. B \in SUBSET (A \ {t}) /\ t \in A
        BY <1>2, <1>4, <1>5, <1>8
    <2>2. IsFiniteSet(A \ {t}) /\ Cardinality(A \ {t}) = Cardinality(A) - 1
        BY <2>1, <1>3, FS_RemoveElement
    <2>3. Cardinality(B) <= Cardinality(A \ {t})
        BY <2>1, <2>2, FS_Subset
    <2> QED BY <1>1, <1>3, <1>8, <2>2, <2>3 DEF RoomLeft, B
<1> QED BY <1>7, <1>8

\* A step of one thread keeps the types, if its own variables and the heap have theirs.
LEMMA StepTyped ==
    ASSUME TypeInv, NEW t \in Threads, NEW x, NEW l, NEW k, NEW ans, Moves(t, x, l, k, ans), MovedTo(x, l, k, ans),
           UNCHANGED map, RoomLeft', MarksOK',
           filter' \in [Buckets -> SUBSET (0 .. 63)],
           value' = value \/ \E key \in Keys : value' = Append(value, key),
           next' \in [Places -> {null} \cup DOMAIN value'],
           marked' \cup reclaimed' \subseteq DOMAIN value',
           holders' \in [Places -> SUBSET Threads]
    PROVE  TypeInv'
<1>0. /\ pc \in [Threads -> PCs] /\ at \in [Threads -> LocalsOver(DOMAIN value)]
      /\ call \in [Threads -> Calls \cup {NoCall}] /\ answer \in [Threads -> {"open", "yes", "no"}]
      /\ value \in Seq(Keys) /\ Len(value) \in Nat /\ map \in Maps /\ map.nodes \in Nat
    BY TypeFacts
<1>1. Buckets' = Buckets /\ Places' = Places /\ Nodes' = Nodes
    BY DEF Buckets, num_buckets, Places, Heads, Nodes, m_head
<1>2. value' \in Seq(Keys) /\ Len(value') \in Nat /\ DOMAIN value \subseteq DOMAIN value'
    <2>1. CASE value' = value
        BY <1>0, <2>1
    <2>2. CASE \E key \in Keys : value' = Append(value, key)
        <3>1. PICK key \in Keys : value' = Append(value, key)
            BY <2>2
        <3>2. value' \in Seq(Keys) /\ Len(value') = Len(value) + 1
            BY <1>0, <3>1
        <3> QED BY <1>0, <3>2
    <2> QED BY <2>1, <2>2
<1>3. LocalsOver(DOMAIN value) \subseteq LocalsOver(DOMAIN value')
    BY <1>2 DEF LocalsOver
<1>4. at' \in [Threads -> LocalsOver(DOMAIN value')]
    BY <1>0, <1>3 DEF Moves, MovedTo
<1>5. /\ pc' \in [Threads -> PCs] /\ call' \in [Threads -> Calls \cup {NoCall}]
      /\ answer' \in [Threads -> {"open", "yes", "no"}]
    BY <1>0 DEF Moves, MovedTo
<1>6. Len(value') <= map.nodes
    <2> DEFINE B == InsertsUnderWay'
    <2>1. IsFiniteSet(B) /\ Cardinality(B) \in Nat
        <3>1. B \in SUBSET Threads
            BY DEF InsertsUnderWay
        <3> HIDE DEF B
        <3> QED BY <3>1, TypeFacts, FS_Subset, FS_CardinalityType
    <2>2. Len(value') + Cardinality(B) <= map.nodes
        BY DEF RoomLeft
    <2> HIDE DEF B
    <2> QED BY <2>1, <2>2, <1>0, <1>2
<1>7. MapTypeOK'
    BY <1>0, <1>1, <1>2, <1>4, <1>5, <1>6 DEF MapTypeOK, PCs, LocalsOver
<1>8. ASSUME NEW u \in Threads PROVE ThreadOK(u)'
    <2>1. CASE u = t
        <3>1. pc'[t] = x /\ at'[t] = l /\ call'[t] = k /\ answer'[t] = ans
            BY <1>0 DEF Moves
        <3> QED BY <2>1, <3>1 DEF ThreadOK, MovedTo, StandsOn
    <2>2. CASE u # t
        <3>1. /\ pc'[u] = pc[u] /\ at'[u] = at[u] /\ call'[u] = call[u]
              /\ answer'[u] = answer[u] /\ ThreadOK(u)
            BY <2>2, <1>0 DEF Moves, TypeInv
        <3> QED BY <3>1 DEF ThreadOK, StandsOn
    <2> QED BY <2>1, <2>2
<1> QED BY <1>7, <1>8 DEF TypeInv

\* So does one that changes nothing but its own variables.
LEMMA QuietTyped ==
    ASSUME TypeInv, NEW t \in Threads, NEW x, NEW l, NEW k, NEW ans, Moves(t, x, l, k, ans),
           UNCHANGED <<around, heap, holders>>, MovedTo(x, l, k, ans),
           MayCreate(k, ans, l) => MayCreate(call[t], answer[t], at[t])
    PROVE  TypeInv'
<1>1. UNCHANGED <<map, filter, value, next, marked, reclaimed, holders>>
    BY DEF around, heap
<1>2. RoomLeft' /\ MarksOK'
    BY <1>1, RoomKept DEF TypeInv, MarksOK
<1>3. /\ filter \in [Buckets -> SUBSET (0 .. 63)] /\ next \in [Places -> {null} \cup DOMAIN value]
      /\ marked \cup reclaimed \subseteq DOMAIN value /\ holders \in [Places -> SUBSET Threads]
    BY TypeFacts
<1> QED BY <1>1, <1>2, <1>3, StepTyped

\* The number of a new node.
LEMMA NewNodeFacts ==
    ASSUME TypeInv, NEW key \in Keys, value' = Append(value, key)
    PROVE  /\ Len(value') = Len(value) + 1 /\ NewNode \in DOMAIN value' /\ DOMAIN value \subseteq DOMAIN value'
           /\ NewNode \notin DOMAIN value /\ value'[NewNode] = key
           /\ \A n \in DOMAIN value : value'[n] = value[n]
           /\ DOMAIN value' = DOMAIN value \cup {NewNode}
<1>1. value \in Seq(Keys) /\ Len(value) \in Nat /\ DOMAIN value = 1 .. Len(value)
    BY TypeFacts
<1>2. value' \in Seq(Keys) /\ Len(value') = Len(value) + 1 /\ DOMAIN value' = 1 .. Len(value) + 1
    BY <1>1
<1> QED BY <1>1, <1>2 DEF NewNode

\* A step that stores one pointer, creates a node, marks nodes or reclaims them.
LEMMA HeapTyped ==
    ASSUME TypeInv, NEW t \in Threads, NEW x, NEW l, NEW k, NEW ans, Moves(t, x, l, k, ans), MovedTo(x, l, k, ans),
           UNCHANGED around,
           next' = next \/ \E p : \E n \in {null} \cup DOMAIN value' : next' = [next EXCEPT ![p] = n],
           \/ value' = value /\ (MayCreate(k, ans, l) => MayCreate(call[t], answer[t], at[t]))
           \/ /\ value' = Append(value, call[t].key)
              /\ MayCreate(call[t], answer[t], at[t]) /\ ~MayCreate(k, ans, l),
           marked' \subseteq DOMAIN value, reclaimed' \subseteq DOMAIN value,
           marked' = marked \/ map.list = "atomic_marked_list",
           holders' \in [Places -> SUBSET Threads]
    PROVE  TypeInv'
<1>0. UNCHANGED <<map, filter>>
    BY DEF around
<1>1. \/ value' = value /\ (MayCreate(k, ans, l) => MayCreate(call[t], answer[t], at[t]))
      \/ /\ \E key \in Keys : value' = Append(value, key)
         /\ Len(value') = Len(value) + 1 /\ DOMAIN value \subseteq DOMAIN value'
         /\ MayCreate(call[t], answer[t], at[t]) /\ ~MayCreate(k, ans, l)
    <2>1. CASE value' = value /\ (MayCreate(k, ans, l) => MayCreate(call[t], answer[t], at[t]))
        BY <2>1
    <2>2. CASE value' = Append(value, call[t].key) /\ MayCreate(call[t], answer[t], at[t]) /\ ~MayCreate(k, ans, l)
        <3>0. call[t] \in Calls
            BY <2>2, TypeFacts DEF MayCreate
        <3>1. call[t].key \in Keys
            BY <3>0, TypeFacts
        <3> QED BY <2>2, <3>1, NewNodeFacts
    <2> QED BY <2>1, <2>2
<1>2. DOMAIN value \subseteq DOMAIN value' /\ (value' = value \/ \E key \in Keys : value' = Append(value, key))
    BY <1>1
<1>3. RoomLeft'
    BY <1>0, <1>1, RoomKept
<1>4. MarksOK'
    BY <1>0 DEF TypeInv, MarksOK
<1>5. next' \in [Places -> {null} \cup DOMAIN value']
    <2>1. next \in [Places -> {null} \cup DOMAIN value']
        BY <1>2, TypeFacts
    <2>2. CASE next' = next
        BY <2>1, <2>2
    <2>3. ASSUME NEW p, NEW n \in {null} \cup DOMAIN value', next' = [next EXCEPT ![p] = n]
          PROVE  next' \in [Places -> {null} \cup DOMAIN value']
        BY <2>1, <2>3
    <2> QED BY <2>2, <2>3
<1>6. marked' \cup reclaimed' \subseteq DOMAIN value' /\ filter' \in [Buckets -> SUBSET (0 .. 63)]
    BY <1>0, <1>2, TypeFacts
<1> QED BY <1>0, <1>2, <1>3, <1>4, <1>5, <1>6, StepTyped

LEMMA NoLocalsTyped == \A D : NoLocals \in LocalsOver(D) /\ NoLocals.new = null
BY DEF NoLocals, LocalsOver

\* A call that has its answer, and changes nothing else.
LEMMA AnswerMoves ==
    ASSUME TypeInv, NEW t \in Threads, NEW ans \in {"yes", "no"}, Answer(t, ans), UNCHANGED call, pc[t] # "idle"
    PROVE  Moves(t, "return", NoLocals, call[t], ans) /\ MovedTo("return", NoLocals, call[t], ans)
<1>1. call' = [call EXCEPT ![t] = call[t]] /\ call[t] \in Calls
    BY TypeFacts DEF TypeInv, ThreadOK
<1> QED BY <1>1, NoLocalsTyped DEF Moves, MovedTo, Answer, StandsOn, PCs

LEMMA AnswerTyped ==
    ASSUME TypeInv, NEW t \in Threads, NEW ans \in {"yes", "no"}, Answer(t, ans),
           UNCHANGED <<around, heap, holders, call>>, pc[t] # "idle"
    PROVE  TypeInv'
<1>1. Moves(t, "return", NoLocals, call[t], ans) /\ MovedTo("return", NoLocals, call[t], ans)
    BY AnswerMoves
<1>2. ~MayCreate(call[t], ans, NoLocals)
    BY DEF MayCreate
<1> QED BY <1>1, <1>2, QuietTyped
-----------------------------------------------------------------------------
(* The steps of all lists.                                                 *)

LEMMA BeginCallMoves ==
    ASSUME TypeInv, NEW t \in Threads, BeginCall(t)
    PROVE  \E cl \in Calls, x \in {"start", "filter"} :
            /\ Moves(t, x, at[t], cl, answer[t]) /\ MovedTo(x, at[t], cl, answer[t])
            /\ cl.op = "insert" => Len(value) + Cardinality(InsertsUnderWay) < map.nodes
<1>1. PICK cl \in Calls :
        /\ cl.op = "insert" => Len(value) + Cardinality(InsertsUnderWay) < map.nodes
        /\ call' = [call EXCEPT ![t] = cl]
    BY DEF BeginCall
<1>2. PICK x \in {"start", "filter"} : pc' = [pc EXCEPT ![t] = x]
    BY DEF BeginCall
<1>3. at' = [at EXCEPT ![t] = at[t]] /\ answer' = [answer EXCEPT ![t] = answer[t]] /\ value' = value
    BY TypeFacts DEF BeginCall, heap
<1>4. MovedTo(x, at[t], cl, answer[t])
    <2>1. at[t] \in LocalsOver(DOMAIN value') /\ answer[t] \in {"open", "yes", "no"}
        BY <1>3, TypeFacts
    <2>2. ThreadOK(t) /\ pc[t] = "idle"
        BY DEF BeginCall, TypeInv
    <2> QED BY <2>1, <2>2 DEF MovedTo, StandsOn, PCs, ThreadOK
<1> QED BY <1>1, <1>2, <1>3, <1>4 DEF Moves

LEMMA BeginCallTyped == ASSUME TypeInv, NEW t \in Threads, BeginCall(t) PROVE TypeInv'
<1>1. PICK cl \in Calls, x \in {"start", "filter"} :
        /\ Moves(t, x, at[t], cl, answer[t]) /\ MovedTo(x, at[t], cl, answer[t])
        /\ cl.op = "insert" => Len(value) + Cardinality(InsertsUnderWay) < map.nodes
    BY BeginCallMoves
<1>2. UNCHANGED <<map, filter, value, next, marked, reclaimed, holders>>
    BY DEF BeginCall, around, heap
<1>3. RoomLeft'
    <2> DEFINE A == InsertsUnderWay
               B == InsertsUnderWay'
    <2>1. B \subseteq A \cup {t} /\ (cl.op # "insert" => B \subseteq A)
        BY <1>1, TypeFacts DEF InsertsUnderWay, Moves
    <2>2. A \in SUBSET Threads
        BY DEF InsertsUnderWay
    <2>3. Len(value) \in Nat /\ map.nodes \in Nat /\ IsFiniteSet(Threads) /\ Len(value) + Cardinality(A) <= map.nodes
        BY TypeFacts DEF TypeInv, RoomLeft
    <2>4. cl.op = "insert" => Len(value) + Cardinality(A) < map.nodes
        BY <1>1
    <2>e. B = InsertsUnderWay'
        OBVIOUS
    <2> HIDE DEF A, B
    <2>5. IsFiniteSet(A) /\ Cardinality(A) \in Nat
        BY <2>2, <2>3, FS_Subset, FS_CardinalityType
    <2> DEFINE C == IF cl.op = "insert" THEN A \cup {t} ELSE A
    <2>6. /\ IsFiniteSet(C) /\ Cardinality(C) \in Nat
          /\ Cardinality(C) <= IF cl.op = "insert" THEN Cardinality(A) + 1 ELSE Cardinality(A)
        <3>1. CASE cl.op = "insert"
            <4>1. /\ IsFiniteSet(A \cup {t})
                  /\ Cardinality(A \cup {t}) = IF t \in A THEN Cardinality(A) ELSE Cardinality(A) + 1
                BY <2>5, FS_AddElement
            <4> QED BY <2>5, <3>1, <4>1
        <3>2. CASE cl.op # "insert"
            BY <3>2, <2>5
        <3> QED BY <3>1, <3>2
    <2>7. B \in SUBSET C
        BY <2>1
    <2> HIDE DEF C
    <2>8. IsFiniteSet(B) /\ Cardinality(B) <= Cardinality(C) /\ Cardinality(B) \in Nat
        BY <2>6, <2>7, FS_Subset, FS_CardinalityType
    <2> QED BY <2>3, <2>4, <2>5, <2>6, <2>8, <2>e, <1>2 DEF RoomLeft
<1>4. /\ filter \in [Buckets -> SUBSET (0 .. 63)] /\ next \in [Places -> {null} \cup DOMAIN value]
      /\ marked \cup reclaimed \subseteq DOMAIN value /\ holders \in [Places -> SUBSET Threads] /\ MarksOK
    BY TypeFacts DEF TypeInv
<1> QED BY <1>1, <1>2, <1>3, <1>4, StepTyped DEF MarksOK

\* The next step, and nothing else, is another one.
LEMMA GoesTo ==
    ASSUME TypeInv, NEW t \in Threads, NEW x \in PCs, pc' = [pc EXCEPT ![t] = x], UNCHANGED <<at, call, answer>>,
           pc[t] # "idle", StandsOn(x, at[t], call[t], answer[t]), value' = value
    PROVE  Moves(t, x, at[t], call[t], answer[t]) /\ MovedTo(x, at[t], call[t], answer[t])
BY TypeFacts DEF Moves, MovedTo, TypeInv, ThreadOK

\* The bits of a key fit into the filter.
LEMMA MaskTyped ==
    ASSUME map \in Maps, NEW k \in Keys
    PROVE  filter_mask(k) \in SUBSET (0 .. 63)
<1>1. Hash[k].blocks \in Seq(0 .. 63) /\ map.filters \in 0 .. Len(Hash[k].blocks)
    BY MapAssumption
<1>2. \A i \in 1 .. map.filters : i \in 1 .. Len(Hash[k].blocks)
    BY <1>1
<1>4. \A i \in 1 .. map.filters : Hash[k].blocks[i] \in 0 .. 63
    BY <1>1, <1>2, ElementOfSeq
<1> QED BY <1>4 DEF filter_mask

LEMMA SetBitsTyped == ASSUME TypeInv, NEW t \in Threads, SetBits(t) PROVE TypeInv'
<1>1. UNCHANGED <<map, value, next, marked, reclaimed, holders>>
    BY DEF SetBits, heap
<1>2. Moves(t, "start", at[t], call[t], answer[t]) /\ MovedTo("start", at[t], call[t], answer[t])
    BY <1>1, GoesTo DEF SetBits, StandsOn, PCs, TypeInv, ThreadOK
<1>3. RoomLeft' /\ MarksOK'
    BY <1>1, <1>2, RoomKept DEF TypeInv, MarksOK
<1>4. filter' \in [Buckets -> SUBSET (0 .. 63)]
    <2>1. call[t] \in Calls
        BY DEF SetBits, TypeInv, ThreadOK
    <2>2. filter_mask(call[t].key) \in SUBSET (0 .. 63) /\ filter \in [Buckets -> SUBSET (0 .. 63)]
        BY <2>1, TypeFacts, MaskTyped
    <2> QED BY <2>2 DEF SetBits
<1>5. /\ next \in [Places -> {null} \cup DOMAIN value]
      /\ marked \cup reclaimed \subseteq DOMAIN value /\ holders \in [Places -> SUBSET Threads]
    BY TypeFacts
<1> QED BY <1>1, <1>2, <1>3, <1>4, <1>5, StepTyped

LEMMA TestBitsTyped == ASSUME TypeInv, NEW t \in Threads, TestBits(t) PROVE TypeInv'
<1>1. UNCHANGED <<around, heap, holders, call>> /\ pc[t] = "filter"
    BY DEF TestBits
<1>2. CASE pc' = [pc EXCEPT ![t] = "start"] /\ UNCHANGED <<at, answer>>
    <2>1. value' = value
        BY <1>1 DEF heap
    <2>2. Moves(t, "start", at[t], call[t], answer[t]) /\ MovedTo("start", at[t], call[t], answer[t])
        BY <1>1, <1>2, <2>1, GoesTo DEF StandsOn, PCs, TypeInv, ThreadOK
    <2> QED BY <1>1, <2>2, QuietTyped
<1>3. CASE Answer(t, "no")
    BY <1>1, <1>3, AnswerTyped
<1> QED BY <1>2, <1>3 DEF TestBits

LEMMA ReturnAnswerTyped == ASSUME TypeInv, NEW t \in Threads, ReturnAnswer(t) PROVE TypeInv'
<1>1. UNCHANGED <<around, heap, holders>> /\ value' = value
    BY DEF ReturnAnswer, heap
<1>2. Moves(t, "idle", at[t], NoCall, "open") /\ MovedTo("idle", at[t], NoCall, "open")
    BY <1>1, TypeFacts DEF ReturnAnswer, Moves, MovedTo, StandsOn, PCs, TypeInv, ThreadOK
<1> QED BY <1>1, <1>2, QuietTyped DEF MayCreate

LEMMA ClearTyped == ASSUME TypeInv, Clear PROVE TypeInv'
<1>1. UNCHANGED <<map, value, marked, reclaimed, holders, pc, at, call, answer>>
    BY DEF Clear
<1>2. Buckets' = Buckets /\ Places' = Places /\ Nodes' = Nodes
    BY <1>1 DEF Buckets, num_buckets, Places, Heads, Nodes, m_head
<1>3. next' \in [Places -> {null} \cup DOMAIN value] /\ filter' \in [Buckets -> SUBSET (0 .. 63)]
    BY TypeFacts DEF Clear
<1>4. MapTypeOK'
    BY <1>1, <1>2, <1>3 DEF TypeInv, MapTypeOK
<1>5. RoomLeft' /\ MarksOK' /\ \A t \in Threads : ThreadOK(t)'
    BY <1>1 DEF TypeInv, RoomLeft, InsertsUnderWay, MarksOK, ThreadOK, StandsOn
<1> QED BY <1>4, <1>5 DEF TypeInv

LEMMA MapStepTyped == ASSUME TypeInv, NEW t \in Threads, MapStep(t) PROVE TypeInv'
BY BeginCallTyped, SetBitsTyped, TestBitsTyped, ReturnAnswerTyped DEF MapStep
-----------------------------------------------------------------------------
(* The steps of single_mutex_list.                                         *)

\* The list of a bucket and what the pointers in it are.
LEMMA ChainTyped ==
    ASSUME TypeInv, NEW h \in Heads
    PROVE  /\ Chain(h) \subseteq Nodes /\ h \in Places
           /\ \A p \in Chain(h) \cup {h} :
                p \in Places /\ next[p] \in {null} \cup DOMAIN value /\ next[p] \in Chain(h) \cup {null}
<1>1. LeastChain(h)
    BY TypeFacts, ChainLeast
<1> QED BY <1>1, TypeFacts DEF LeastChain, Places

\* A call that is under way on a list with mutexes may create a node until it has its answer.
LEMMA MutexCreates ==
    ASSUME TypeInv, NEW t \in Threads, map.list \in {"single_mutex_list", "node_mutex_list"},
           pc[t] \in {"start", "walk"}, call[t].op = "insert"
    PROVE  MayCreate(call[t], answer[t], at[t]) /\ call[t] \in Calls /\ call[t].key \in Keys
<1>1. ThreadOK(t)
    BY DEF TypeInv
<1>2. call[t] \in Calls /\ answer[t] = "open" /\ at[t].new = null
    BY <1>1 DEF ThreadOK, StandsOn
<1> QED BY <1>2, TypeFacts DEF MayCreate

\* The new node is linked and the call answered.
LEMMA AppendTyped ==
    ASSUME TypeInv, NEW t \in Threads, map.list \in {"single_mutex_list", "node_mutex_list"},
           pc[t] \in {"start", "walk"}, call[t].op = "insert", NEW p,
           next' = [next EXCEPT ![p] = NewNode], value' = Append(value, call[t].key), Answer(t, "yes"),
           UNCHANGED <<around, marked, reclaimed, call>>, holders' \in [Places -> SUBSET Threads]
    PROVE  TypeInv'
<1>1. Moves(t, "return", NoLocals, call[t], "yes") /\ MovedTo("return", NoLocals, call[t], "yes")
    BY AnswerMoves
<1>2. MayCreate(call[t], answer[t], at[t]) /\ call[t].key \in Keys /\ ~MayCreate(call[t], "yes", NoLocals)
    BY MutexCreates DEF MayCreate
<1>3. NewNode \in DOMAIN value'
    BY <1>2, NewNodeFacts
<1>4. marked' \subseteq DOMAIN value /\ reclaimed' \subseteq DOMAIN value
    BY TypeFacts
<1> QED BY <1>1, <1>2, <1>3, <1>4, HeapTyped

\* A node is taken out and the call answered.
LEMMA RemoveTyped ==
    ASSUME TypeInv, NEW t \in Threads, pc[t] # "idle", NEW p, NEW n \in {null} \cup DOMAIN value,
           next' = [next EXCEPT ![p] = n], Answer(t, "yes"),
           UNCHANGED <<around, value, marked, reclaimed, call>>, holders' \in [Places -> SUBSET Threads]
    PROVE  TypeInv'
<1>1. Moves(t, "return", NoLocals, call[t], "yes") /\ MovedTo("return", NoLocals, call[t], "yes")
    BY AnswerMoves
<1>2. ~MayCreate(call[t], "yes", NoLocals) /\ value' = value
    BY DEF MayCreate
<1>3. marked' \subseteq DOMAIN value /\ reclaimed' \subseteq DOMAIN value
    BY TypeFacts
<1> QED BY <1>1, <1>2, <1>3, HeapTyped

LEMMA SingleStepTyped ==
    ASSUME TypeInv, NEW t \in Threads, map.list = "single_mutex_list", SingleStep(t)
    PROVE  TypeInv'
<1>0. holders \in [Places -> SUBSET Threads]
    BY TypeFacts
<1>1. ASSUME InsertNew(t) PROVE TypeInv'
    <2>1. PICK p : next' = [next EXCEPT ![p] = NewNode]
        BY <1>1 DEF InsertNew
    <2> QED BY <1>0, <1>1, <2>1, AppendTyped DEF InsertNew
<1>2. ASSUME Erase(t) PROVE TypeInv'
    <2>1. PICK p \in Chain(Place(t)) \cup {Place(t)} :
            next[p] \in Found(t) /\ next' = [next EXCEPT ![p] = next[next[p]]]
        BY <1>2 DEF Erase
    <2>2. Place(t) \in Heads
        BY <1>2, TypeFacts DEF Erase, Place, TypeInv, ThreadOK
    <2>3. next[next[p]] \in {null} \cup DOMAIN value
        BY <2>1, <2>2, ChainTyped DEF Found
    <2> QED BY <1>0, <1>2, <2>1, <2>3, RemoveTyped DEF Erase
<1>3. ASSUME InsertExisting(t) \/ Find(t) \/ EraseMissing(t) PROVE TypeInv'
    <2>1. PICK ans \in {"yes", "no"} : Answer(t, ans)
        BY <1>3 DEF InsertExisting, Find, EraseMissing
    <2> QED BY <1>3, <2>1, AnswerTyped DEF InsertExisting, Find, EraseMissing
<1> QED BY <1>1, <1>2, <1>3 DEF SingleStep
-----------------------------------------------------------------------------
(* The steps of node_mutex_list.                                           *)

\* A mutex is handed over among the threads.
LEMMA HandOverTyped ==
    ASSUME TypeInv, NEW t \in Threads, NEW p, NEW q, HandOver(t, p, q)
    PROVE  holders' \in [Places -> SUBSET Threads]
BY TypeFacts DEF HandOver

\* t has locked the mutex of the place p and stands on the node n that it points to.
StandingAt(l, p) == [l EXCEPT !.prev = p, !.node = next[p]]

LEMMA LocksTyped ==
    ASSUME TypeInv, NEW t \in Threads, map.list = "node_mutex_list", pc[t] \in {"start", "walk"},
           NEW p \in Places, NEW q, HandOver(t, p, q), at' = [at EXCEPT ![t] = StandingAt(at[t], p)],
           pc' = [pc EXCEPT ![t] = "walk"], UNCHANGED <<around, heap, call, answer>>
    PROVE  TypeInv'
<1> DEFINE l == StandingAt(at[t], p)
<1>0. value' = value /\ next' = next /\ marked' = marked /\ reclaimed' = reclaimed
    BY DEF heap
<1>1. at[t] \in LocalsOver(DOMAIN value) /\ next[p] \in {null} \cup DOMAIN value
    BY TypeFacts
<1>2. l \in LocalsOver(DOMAIN value) /\ l.new = at[t].new
    BY <1>1 DEF LocalsOver, StandingAt
<1>3. ThreadOK(t) /\ call[t] \in Calls \cup {NoCall} /\ answer[t] \in {"open", "yes", "no"}
    BY TypeFacts DEF TypeInv
<1> HIDE DEF l
<1>4. Moves(t, "walk", l, call[t], answer[t])
    BY TypeFacts DEF Moves, l
<1>5. MovedTo("walk", l, call[t], answer[t])
    BY <1>0, <1>2, <1>3 DEF MovedTo, ThreadOK, StandsOn, PCs
<1>6. MayCreate(call[t], answer[t], l) => MayCreate(call[t], answer[t], at[t])
    BY <1>2 DEF MayCreate
<1>7. holders' \in [Places -> SUBSET Threads]
    BY HandOverTyped
<1>8. marked' \subseteq DOMAIN value /\ reclaimed' \subseteq DOMAIN value
    BY <1>0, TypeFacts
<1> QED BY <1>0, <1>4, <1>5, <1>6, <1>7, <1>8, HeapTyped

\* The last mutex is unlocked and the call answered.
LEMMA UnlocksTyped ==
    ASSUME TypeInv, NEW t \in Threads, pc[t] # "idle", NEW ans \in {"yes", "no"}, Answer(t, ans),
           NEW p, HandOver(t, null, p), UNCHANGED <<around, heap, call>>
    PROVE  TypeInv'
<1>0. value' = value /\ next' = next /\ marked' = marked /\ reclaimed' = reclaimed
    BY DEF heap
<1>1. Moves(t, "return", NoLocals, call[t], ans) /\ MovedTo("return", NoLocals, call[t], ans)
    BY AnswerMoves
<1>2. ~MayCreate(call[t], ans, NoLocals) /\ holders' \in [Places -> SUBSET Threads]
    BY HandOverTyped DEF MayCreate
<1>3. marked' \subseteq DOMAIN value /\ reclaimed' \subseteq DOMAIN value
    BY <1>0, TypeFacts
<1> QED BY <1>0, <1>1, <1>2, <1>3, HeapTyped

LEMMA NodeStepTyped ==
    ASSUME TypeInv, NEW t \in Threads, map.list = "node_mutex_list", NodeStep(t)
    PROVE  TypeInv'
<1>0. at \in [Threads -> LocalsOver(DOMAIN value)] /\ pc \in [Threads -> PCs]
    BY TypeFacts
<1>1. ASSUME LockHead(t) PROVE TypeInv'
    <2> DEFINE h == m_head(bucket(call[t].key))
    <2>1. h \in Places
        BY <1>1, TypeFacts DEF LockHead, TypeInv, ThreadOK
    <2>2. at' = [at EXCEPT ![t] = StandingAt(at[t], h)] /\ HandOver(t, h, null) /\ pc[t] = "start"
        BY <1>0, <1>1 DEF LockHead, StandingAt, LocalsOver
    <2> HIDE DEF h
    <2> QED BY <1>1, <2>1, <2>2, LocksTyped DEF LockHead
<1>2. ASSUME Advance(t) PROVE TypeInv'
    <2> DEFINE n == at[t].node
    <2>1. n \in Places
        BY <1>0, <1>2, TypeFacts DEF Advance, LocalsOver
    <2>2. at' = [at EXCEPT ![t] = StandingAt(at[t], n)] /\ HandOver(t, n, at[t].prev) /\ pc[t] = "walk"
        BY <1>0, <1>2 DEF Advance, StandingAt, LocalsOver
    <2>3. pc' = [pc EXCEPT ![t] = "walk"] /\ UNCHANGED <<around, heap, call, answer>>
        BY <1>0, <1>2 DEF Advance
    <2> HIDE DEF n
    <2> QED BY <2>1, <2>2, <2>3, LocksTyped
<1>3. ASSUME AppendNode(t) PROVE TypeInv'
    <2>1. holders' \in [Places -> SUBSET Threads]
        BY <1>3, HandOverTyped DEF AppendNode
    <2> QED BY <1>3, <2>1, AppendTyped DEF AppendNode, Walks
<1>4. ASSUME Remove(t) PROVE TypeInv'
    <2>1. holders' \in [Places -> SUBSET Threads]
        BY <1>4, HandOverTyped DEF Remove
    <2>2. next[at[t].node] \in {null} \cup DOMAIN value
        BY <1>0, <1>4, TypeFacts DEF Remove, OnKey, LocalsOver
    <2> QED BY <1>4, <2>1, <2>2, RemoveTyped DEF Remove, Walks
<1>5. ASSUME FindExisting(t) \/ FindEnds(t) \/ NothingToErase(t) PROVE TypeInv'
    <2>1. PICK ans \in {"yes", "no"} : Answer(t, ans)
        BY <1>5 DEF FindExisting, FindEnds, NothingToErase
    <2> QED BY <1>5, <2>1, UnlocksTyped DEF FindExisting, FindEnds, NothingToErase, Walks
<1> QED BY <1>1, <1>2, <1>3, <1>4, <1>5 DEF NodeStep
-----------------------------------------------------------------------------
(* The steps of atomic_marked_list.                                        *)

\* A node that is marked stays marked, and the pointer with the mark does not change.
Final == \A n \in marked : n \in marked' /\ next'[n] = next[n]

LEMMA MarkedNames ==
    ASSUME NEW t, NEW ans
    PROVE  /\ Marked!Answer(t, ans) <=> Answer(t, ans)
           /\ Marked!HeadPlace(t) = m_head(bucket(call[t].key))
           /\ Marked!NewNode = NewNode /\ Marked!NoLocals = NoLocals /\ Marked!null = null
           /\ (UNCHANGED Marked!around <=> UNCHANGED around) /\ (UNCHANGED Marked!heap <=> UNCHANGED heap)
<1>1. Marked!NoLocals = NoLocals /\ Marked!null = null
    BY DEF Marked!NoLocals, NoLocals, Marked!null, null
<1>2. Marked!Answer(t, ans) <=> Answer(t, ans)
    BY <1>1 DEF Marked!Answer, Answer
<1>3. Marked!HeadPlace(t) = m_head(bucket(call[t].key))
    BY DEF Marked!HeadPlace, Marked!m_head, m_head, Marked!bucket, bucket, Marked!num_buckets, num_buckets,
           Marked!next_power_of_two, next_power_of_two
<1>4. Marked!NewNode = NewNode
    BY DEF Marked!NewNode, NewNode
<1>5. (UNCHANGED Marked!around <=> UNCHANGED around) /\ (UNCHANGED Marked!heap <=> UNCHANGED heap)
    BY DEF Marked!around, around, Marked!heap, heap
<1> QED BY <1>1, <1>2, <1>3, <1>4, <1>5

\* Pointers that are stored leave the marked ones alone.
LEMMA StoreFinal ==
    ASSUME TypeInv, marked \subseteq marked',
           next' = next \/ \E p : \E n : p \notin marked /\ next' = [next EXCEPT ![p] = n]
    PROVE  Final
<1>1. next \in [Places -> {null} \cup DOMAIN value] /\ marked \subseteq Places
    BY TypeFacts
<1> QED BY <1>1 DEF Final

\* A step that changes nothing but the locals of its thread.
LEMMA WalksOn ==
    ASSUME TypeInv, NEW t \in Threads, NEW x \in PCs, NEW l \in LocalsOver(DOMAIN value), pc[t] # "idle",
           pc' = [pc EXCEPT ![t] = x], at' = [at EXCEPT ![t] = l], UNCHANGED <<around, heap, holders, call, answer>>,
           StandsOn(x, l, call[t], answer[t]), l.new = null => at[t].new = null
    PROVE  TypeInv' /\ Final
<1>1. value' = value /\ next' = next /\ marked' = marked
    BY DEF heap
<1>2. call[t] \in Calls /\ answer[t] \in {"open", "yes", "no"}
    BY TypeFacts DEF TypeInv, ThreadOK
<1>3. Moves(t, x, l, call[t], answer[t])
    BY TypeFacts DEF Moves
<1>4. MovedTo(x, l, call[t], answer[t])
    BY <1>1, <1>2 DEF MovedTo
<1>5. TypeInv'
    BY <1>3, <1>4, QuietTyped DEF MayCreate
<1> QED BY <1>1, <1>5, StoreFinal

\* The locals of a thread, and what they are when one of them changes.
LEMMA LocalsTyped ==
    ASSUME TypeInv, NEW t \in Threads
    PROVE  /\ at[t] \in LocalsOver(DOMAIN value) /\ ThreadOK(t) /\ map \in Maps
           /\ at[t].prev \in Places \cup {null}
           /\ at[t].prev_next \in {null} \cup DOMAIN value /\ at[t].node \in {null} \cup DOMAIN value
           /\ at[t].next \in {null} \cup DOMAIN value /\ at[t].new \in {null} \cup DOMAIN value
           /\ \A p \in Places : next[p] \in {null} \cup DOMAIN value
           /\ \A n \in DOMAIN value : n \in Places /\ n # null /\ next[n] \in {null} \cup DOMAIN value
<1>1. at[t] \in LocalsOver(DOMAIN value)
    BY TypeFacts
<1> QED BY <1>1, TypeFacts DEF LocalsOver, TypeInv

\* A call that is answered without a change.
LEMMA AnswerFinal ==
    ASSUME TypeInv, NEW t \in Threads, NEW ans \in {"yes", "no"}, Answer(t, ans),
           UNCHANGED <<around, heap, holders, call>>, pc[t] # "idle"
    PROVE  TypeInv' /\ Final
<1>1. TypeInv'
    BY AnswerTyped
<1>2. next' = next /\ marked' = marked
    BY DEF heap
<1> QED BY <1>1, <1>2, StoreFinal

LEMMA MarkedInsertFirstTyped ==
    ASSUME TypeInv, NEW t \in Threads, map.list = "atomic_marked_list", Marked!InsertFirst(t)
    PROVE  TypeInv' /\ Final
<1> DEFINE h == m_head(bucket(call[t].key))
           n == IF at[t].new = null THEN NewNode ELSE at[t].new
<1>0. ThreadOK(t) /\ pc[t] = "start" /\ call[t] \in Calls /\ answer[t] = "open" /\ call[t].op = "insert"
    BY LocalsTyped DEF Marked!InsertFirst, ThreadOK, StandsOn
<1>1. /\ h \notin marked /\ next' = [next EXCEPT ![h] = n] /\ Answer(t, "yes")
      /\ value' = IF at[t].new = null THEN Append(value, call[t].key) ELSE value
      /\ UNCHANGED <<around, marked, reclaimed, holders, call>>
    BY MarkedNames DEF Marked!InsertFirst, Marked!Holds, Marked!around, around
<1>2. Moves(t, "return", NoLocals, call[t], "yes") /\ MovedTo("return", NoLocals, call[t], "yes")
    BY <1>0, <1>1, AnswerMoves
<1>3. ~MayCreate(call[t], "yes", NoLocals) /\ (at[t].new = null => MayCreate(call[t], answer[t], at[t]))
    BY <1>0, TypeFacts DEF MayCreate
<1>4. n \in {null} \cup DOMAIN value'
    BY <1>0, <1>1, NewNodeFacts, LocalsTyped, TypeFacts
<1>5. marked' \subseteq DOMAIN value /\ reclaimed' \subseteq DOMAIN value /\ holders' \in [Places -> SUBSET Threads]
    BY <1>1, TypeFacts
<1> HIDE DEF h, n
<1>6. TypeInv'
    BY <1>1, <1>2, <1>3, <1>4, <1>5, HeapTyped
<1> QED BY <1>1, <1>6, StoreFinal

LEMMA MarkedInsertWalksTyped ==
    ASSUME TypeInv, NEW t \in Threads, map.list = "atomic_marked_list", Marked!InsertWalks(t)
    PROVE  TypeInv' /\ Final
<1> DEFINE h == m_head(bucket(call[t].key))
           n == IF at[t].new = null THEN NewNode ELSE at[t].new
           l == [at[t] EXCEPT !.new = n, !.prev = h, !.prev_next = next[h], !.node = next[h]]
<1>0. ThreadOK(t) /\ pc[t] = "start" /\ call[t] \in Calls /\ answer[t] = "open" /\ call[t].op = "insert"
    BY LocalsTyped DEF Marked!InsertWalks, ThreadOK, StandsOn
<1>t. at \in [Threads -> LocalsOver(DOMAIN value)]
    BY TypeFacts
<1>1. /\ pc' = [pc EXCEPT ![t] = "walk"]
      /\ at' = [at EXCEPT ![t] = l]
      /\ value' = IF at[t].new = null THEN Append(value, call[t].key) ELSE value
      /\ UNCHANGED <<around, next, marked, reclaimed, holders, call, answer>>
    <2>1. Marked!HeadPlace(t) = h /\ Marked!NewNode = NewNode /\ Marked!null = null
        BY MarkedNames
    <2>2. at' = [at EXCEPT ![t] = l]
        BY <1>t, <2>1 DEF Marked!InsertWalks
    <2> QED BY <2>1, <2>2 DEF Marked!InsertWalks, Marked!Goto, Marked!around, around
<1>2. n \in DOMAIN value' /\ n # null /\ DOMAIN value \subseteq DOMAIN value' /\ h \in Places
    <2>1. CASE at[t].new = null
        <3>1. NewNode \in DOMAIN value' /\ DOMAIN value \subseteq DOMAIN value'
            BY <1>0, <1>1, <2>1, NewNodeFacts, TypeFacts
        <3>2. NewNode # null
            BY TypeFacts DEF NewNode, null
        <3> QED BY <2>1, <3>1, <3>2, <1>0, TypeFacts
    <2>2. CASE at[t].new # null
        BY <1>0, <1>1, <2>2, LocalsTyped, TypeFacts
    <2> QED BY <2>1, <2>2
<1>3. l \in LocalsOver(DOMAIN value') /\ l.new = n
    BY <1>2, LocalsTyped DEF LocalsOver
<1>4. MayCreate(call[t], answer[t], at[t]) <=> at[t].new = null
    BY <1>0, TypeFacts DEF MayCreate
<1>5. marked' \subseteq DOMAIN value /\ reclaimed' \subseteq DOMAIN value /\ holders' \in [Places -> SUBSET Threads]
    BY <1>1, TypeFacts
<1> HIDE DEF h, n, l
<1>6. ~MayCreate(call[t], answer[t], l)
    BY <1>2, <1>3 DEF MayCreate
<1>7. Moves(t, "walk", l, call[t], answer[t])
    BY <1>1, TypeFacts DEF Moves
<1>8. MovedTo("walk", l, call[t], answer[t])
    BY <1>0, <1>3 DEF MovedTo, StandsOn, PCs
<1>9. TypeInv'
    BY <1>1, <1>4, <1>5, <1>6, <1>7, <1>8, HeapTyped
<1> QED BY <1>1, <1>9, StoreFinal

LEMMA MarkedWalkTyped ==
    ASSUME TypeInv, NEW t \in Threads, map.list = "atomic_marked_list",
           Marked!LoadHead(t) \/ Marked!PassMarked(t) \/ Marked!PassOther(t) \/ Marked!MeetKey(t)
            \/ Marked!EndOfList(t) \/ Marked!SkipFails(t)
    PROVE  TypeInv' /\ Final
<1>0. /\ at[t] \in LocalsOver(DOMAIN value) /\ ThreadOK(t)
      /\ \A p \in Places : next[p] \in {null} \cup DOMAIN value
      /\ \A n \in DOMAIN value : n \in Places /\ n # null /\ next[n] \in {null} \cup DOMAIN value
    BY LocalsTyped
<1>p. pc \in [Threads -> PCs] /\ pc[t] \in PCs
    BY TypeFacts
<1>1. ASSUME Marked!LoadHead(t) PROVE TypeInv' /\ Final
    <2> DEFINE h == m_head(bucket(call[t].key))
               l == IF call[t].op = "find" THEN [at[t] EXCEPT !.node = next[h]]
                    ELSE [at[t] EXCEPT !.prev = h, !.prev_next = next[h], !.node = next[h]]
    <2>1. /\ pc[t] = "start" /\ call[t].op # "insert" /\ pc' = [pc EXCEPT ![t] = "walk"]
          /\ at' = [at EXCEPT ![t] = l] /\ UNCHANGED <<around, heap, holders, call, answer>>
        BY <1>0, <1>1, MarkedNames DEF Marked!LoadHead, Marked!Goto, Marked!around, around, Marked!heap, heap, LocalsOver
    <2>2. h \in Places /\ next[h] \in {null} \cup DOMAIN value
        BY <1>0, <2>1, TypeFacts DEF ThreadOK
    <2>3. l \in LocalsOver(DOMAIN value) /\ l.new = at[t].new
        BY <1>0, <2>2 DEF LocalsOver
    <2> HIDE DEF l
    <2>4. StandsOn("walk", l, call[t], answer[t])
        BY <1>0, <2>1 DEF ThreadOK, StandsOn
    <2> QED BY <2>1, <2>3, <2>4, WalksOn DEF PCs
<1>2. ASSUME Marked!PassMarked(t) PROVE TypeInv' /\ Final
    <2>1. /\ pc[t] = "walk" /\ at[t].node # null /\ UNCHANGED <<around, heap, holders, call, answer>>
        BY <1>2, MarkedNames DEF Marked!PassMarked, Marked!Visits, Marked!around, around, Marked!heap, heap
    <2>2. next[at[t].node] \in {null} \cup DOMAIN value
        BY <1>0, <2>1 DEF LocalsOver
    <2>3. PICK x \in {"walk", "skip"}, l \in {[at[t] EXCEPT !.node = next[at[t].node]],
                                               [at[t] EXCEPT !.next = next[at[t].node]]} :
            /\ pc' = [pc EXCEPT ![t] = x] /\ at' = [at EXCEPT ![t] = l]
            /\ x = "skip" => at[t].prev # null /\ l.prev = at[t].prev /\ l.node = at[t].node
        BY <1>0, <1>p, <1>2, <2>1, MarkedNames DEF Marked!PassMarked, Marked!Goto, LocalsOver
    <2>4. l \in LocalsOver(DOMAIN value) /\ l.new = at[t].new
        BY <1>0, <2>2, <2>3 DEF LocalsOver
    <2>5. StandsOn(x, l, call[t], answer[t])
        BY <1>0, <2>1, <2>3 DEF ThreadOK, StandsOn
    <2> QED BY <2>1, <2>3, <2>4, <2>5, WalksOn DEF PCs
<1>3. ASSUME Marked!PassOther(t) PROVE TypeInv' /\ Final
    <2> DEFINE n == at[t].node
               l == IF call[t].op = "find" THEN [at[t] EXCEPT !.node = next[n]]
                    ELSE [at[t] EXCEPT !.prev = n, !.prev_next = next[n], !.node = next[n]]
    <2>1. /\ pc[t] = "walk" /\ n # null /\ pc' = [pc EXCEPT ![t] = "walk"]
          /\ at' = [at EXCEPT ![t] = l] /\ UNCHANGED <<around, heap, holders, call, answer>>
        BY <1>0, <1>p, <1>3, MarkedNames
        DEF Marked!PassOther, Marked!Visits, Marked!around, around, Marked!heap, heap, LocalsOver
    <2>2. n \in Places /\ next[n] \in {null} \cup DOMAIN value
        BY <1>0, <2>1 DEF LocalsOver
    <2>3. l \in LocalsOver(DOMAIN value) /\ l.new = at[t].new
        BY <1>0, <2>2 DEF LocalsOver
    <2> HIDE DEF l
    <2>4. StandsOn("walk", l, call[t], answer[t])
        BY <1>0, <2>1 DEF ThreadOK, StandsOn
    <2> QED BY <2>1, <2>3, <2>4, WalksOn DEF PCs
<1>4. ASSUME Marked!MeetKey(t) PROVE TypeInv' /\ Final
    <2>1. /\ pc[t] = "walk" /\ at[t].node # null /\ UNCHANGED <<around, heap, holders, call>>
        BY <1>4, MarkedNames DEF Marked!MeetKey, Marked!Visits, Marked!around, around, Marked!heap, heap
    <2>2. CASE \E ans \in {"yes", "no"} : Answer(t, ans)
        BY <2>1, <2>2, AnswerFinal
    <2>3. CASE ~ \E ans \in {"yes", "no"} : Answer(t, ans)
        <3> DEFINE l == [at[t] EXCEPT !.next = next[at[t].node]]
        <3>1. pc' = [pc EXCEPT ![t] = "mark"] /\ at' = [at EXCEPT ![t] = l] /\ UNCHANGED answer
            BY <1>0, <1>4, <2>3, MarkedNames DEF Marked!MeetKey, Marked!Goto, LocalsOver
        <3>2. l \in LocalsOver(DOMAIN value) /\ l.new = at[t].new /\ l.node = at[t].node
            BY <1>0, <2>1 DEF LocalsOver
        <3> HIDE DEF l
        <3>3. StandsOn("mark", l, call[t], answer[t])
            BY <1>0, <2>1, <3>2 DEF ThreadOK, StandsOn
        <3> QED BY <2>1, <3>1, <3>2, <3>3, WalksOn DEF PCs
    <2> QED BY <2>2, <2>3
<1>5. ASSUME Marked!EndOfList(t) PROVE TypeInv' /\ Final
    BY <1>5, MarkedNames, AnswerFinal DEF Marked!EndOfList, Marked!around, around, Marked!heap, heap
<1>6. ASSUME Marked!SkipFails(t) PROVE TypeInv' /\ Final
    <2> DEFINE l == IF at[t].prev \in marked
                    THEN [at[t] EXCEPT !.prev = null, !.prev_next = null, !.node = at[t].next, !.next = null]
                    ELSE [at[t] EXCEPT !.prev_next = next[at[t].prev], !.node = at[t].next, !.next = null]
    <2>1. /\ pc[t] = "skip" /\ pc' = [pc EXCEPT ![t] = "walk"]
          /\ at' = [at EXCEPT ![t] = l] /\ UNCHANGED <<around, heap, holders, call, answer>>
        BY <1>0, <1>6, MarkedNames
        DEF Marked!SkipFails, Marked!Goto, Marked!around, around, Marked!heap, heap, LocalsOver
    <2>2. next[at[t].prev] \in {null} \cup DOMAIN value
        BY <1>0, <2>1 DEF LocalsOver, ThreadOK, StandsOn
    <2>3. l \in LocalsOver(DOMAIN value) /\ l.new = at[t].new
        BY <1>0, <2>2 DEF LocalsOver
    <2> HIDE DEF l
    <2>4. StandsOn("walk", l, call[t], answer[t])
        BY <1>0, <2>1 DEF ThreadOK, StandsOn
    <2> QED BY <2>1, <2>3, <2>4, WalksOn DEF PCs
<1> QED BY <1>1, <1>2, <1>3, <1>4, <1>5, <1>6

\* A step that stores one pointer, which is not marked, marks nodes or reclaims them.
LEMMA StoreTyped ==
    ASSUME TypeInv, NEW t \in Threads, map.list = "atomic_marked_list",
           NEW x, NEW l, NEW ans, Moves(t, x, l, call[t], ans), MovedTo(x, l, call[t], ans),
           UNCHANGED <<around, value, holders>>, MayCreate(call[t], ans, l) => MayCreate(call[t], answer[t], at[t]),
           next' = next \/ \E p : \E n \in {null} \cup DOMAIN value : p \notin marked /\ next' = [next EXCEPT ![p] = n],
           marked \subseteq marked', marked' \subseteq DOMAIN value, reclaimed' \subseteq DOMAIN value
    PROVE  TypeInv' /\ Final
<1>1. holders' \in [Places -> SUBSET Threads] /\ value' = value /\ UNCHANGED around
    BY TypeFacts
<1>2. next' = next \/ \E p : \E n \in {null} \cup DOMAIN value' : next' = [next EXCEPT ![p] = n]
    BY <1>1
<1>3. TypeInv'
    BY <1>1, <1>2, HeapTyped
<1> QED BY <1>3, StoreFinal

LEMMA MarkedSkipTyped ==
    ASSUME TypeInv, NEW t \in Threads, map.list = "atomic_marked_list", Marked!SkipSucceeds(t)
    PROVE  TypeInv' /\ Final
<1> DEFINE l == [at[t] EXCEPT !.node = at[t].next, !.next = null]
<1>0. ThreadOK(t) /\ pc[t] = "skip" /\ call[t] \in Calls /\ answer[t] = "open"
    BY LocalsTyped DEF Marked!SkipSucceeds, ThreadOK, StandsOn
<1>1. /\ pc' = [pc EXCEPT ![t] = "walk"] /\ at' = [at EXCEPT ![t] = l]
      /\ next' = [next EXCEPT ![at[t].prev] = at[t].next] /\ reclaimed' = reclaimed \cup {at[t].node}
      /\ at[t].prev \notin marked
      /\ UNCHANGED <<around, value, marked, holders, call, answer>>
    <2>1. at \in [Threads -> LocalsOver(DOMAIN value)]
        BY TypeFacts
    <2> QED BY <2>1, MarkedNames DEF Marked!SkipSucceeds, Marked!Goto, Marked!Holds, Marked!around, around
<1>2. /\ at[t].node \in DOMAIN value /\ at[t].next \in {null} \cup DOMAIN value
      /\ at[t].prev \in Places /\ at[t] \in LocalsOver(DOMAIN value)
    BY <1>0, LocalsTyped DEF ThreadOK, StandsOn
<1>3. l \in LocalsOver(DOMAIN value) /\ l.new = at[t].new
    BY <1>2 DEF LocalsOver
<1> HIDE DEF l
<1>4. Moves(t, "walk", l, call[t], answer[t])
    BY <1>1, TypeFacts DEF Moves
<1>5. MovedTo("walk", l, call[t], answer[t])
    BY <1>0, <1>1, <1>3 DEF MovedTo, StandsOn, PCs
<1>6. marked' \subseteq DOMAIN value /\ reclaimed' \subseteq DOMAIN value /\ marked \subseteq marked'
    BY <1>1, <1>2, TypeFacts
<1> QED BY <1>1, <1>2, <1>3, <1>4, <1>5, <1>6, StoreTyped DEF MayCreate

LEMMA MarkedAppendTyped ==
    ASSUME TypeInv, NEW t \in Threads, map.list = "atomic_marked_list", Marked!AppendSucceeds(t)
    PROVE  TypeInv' /\ Final
<1>0. ThreadOK(t) /\ pc[t] = "walk" /\ call[t] \in Calls /\ at[t].prev # null
    BY LocalsTyped DEF Marked!AppendSucceeds, ThreadOK, Marked!null, null
<1>1. /\ next' = [next EXCEPT ![at[t].prev] = at[t].new] /\ at[t].prev \notin marked
      /\ UNCHANGED <<around, value, marked, reclaimed, holders, call>>
    BY DEF Marked!AppendSucceeds, Marked!Holds, Marked!around, around
<1>2. /\ at[t].prev_next \in {null} \cup DOMAIN value /\ at[t].new \in {null} \cup DOMAIN value
      /\ at[t].prev \in Places /\ at[t] \in LocalsOver(DOMAIN value)
    BY <1>0, LocalsTyped
<1>3. marked' \subseteq DOMAIN value /\ reclaimed' \subseteq DOMAIN value /\ marked \subseteq marked'
    BY <1>1, TypeFacts
<1>4. \A l : ~MayCreate(call[t], "yes", l)
    BY DEF MayCreate
<1>5. CASE at[t].prev_next = null
    <2>1. Answer(t, "yes")
        BY <1>5, MarkedNames DEF Marked!AppendSucceeds
    <2>2. Moves(t, "return", NoLocals, call[t], "yes") /\ MovedTo("return", NoLocals, call[t], "yes")
        BY <1>0, <1>1, <2>1, AnswerMoves
    <2> QED BY <1>1, <1>2, <1>3, <1>4, <2>2, StoreTyped
<1>6. CASE at[t].prev_next # null
    <2> DEFINE l == [at[t] EXCEPT !.node = at[t].prev_next, !.prev_next = null]
    <2>1. pc' = [pc EXCEPT ![t] = "reclaim"] /\ at' = [at EXCEPT ![t] = l] /\ answer' = [answer EXCEPT ![t] = "yes"]
        <3>1. at \in [Threads -> LocalsOver(DOMAIN value)]
            BY TypeFacts
        <3> QED BY <1>6, <3>1, MarkedNames DEF Marked!AppendSucceeds, Marked!Goto
    <2>2. l \in LocalsOver(DOMAIN value) /\ l.node # null /\ l.new = at[t].new
        BY <1>2, <1>6 DEF LocalsOver
    <2> HIDE DEF l
    <2>3. Moves(t, "reclaim", l, call[t], "yes")
        BY <1>1, <2>1, TypeFacts DEF Moves
    <2>4. MovedTo("reclaim", l, call[t], "yes")
        BY <1>0, <1>1, <2>2 DEF MovedTo, StandsOn, PCs
    <2> QED BY <1>1, <1>2, <1>3, <1>4, <2>3, <2>4, StoreTyped
<1> QED BY <1>5, <1>6

LEMMA MarkedRestartTyped ==
    ASSUME TypeInv, NEW t \in Threads, map.list = "atomic_marked_list", Marked!Restart(t)
    PROVE  TypeInv' /\ Final
<1> DEFINE l == [NoLocals EXCEPT !.new = at[t].new]
<1>0. ThreadOK(t) /\ pc[t] = "walk" /\ call[t] \in Calls /\ answer[t] = "open"
    BY LocalsTyped DEF Marked!Restart, ThreadOK, StandsOn
<1>1. /\ pc' = [pc EXCEPT ![t] = "start"] /\ at' = [at EXCEPT ![t] = l]
      /\ UNCHANGED <<around, heap, holders, call, answer>>
    BY MarkedNames DEF Marked!Restart, Marked!Goto, Marked!around, around, Marked!heap, heap
<1>2. l \in LocalsOver(DOMAIN value) /\ l.new = at[t].new
    BY LocalsTyped DEF NoLocals, LocalsOver
<1> HIDE DEF l
<1>3. StandsOn("start", l, call[t], answer[t])
    BY <1>0, <1>2 DEF ThreadOK, StandsOn
<1> QED BY <1>0, <1>1, <1>2, <1>3, WalksOn DEF PCs

LEMMA MarkedReclaimTyped ==
    ASSUME TypeInv, NEW t \in Threads, map.list = "atomic_marked_list", Marked!ReclaimReplaced(t)
    PROVE  TypeInv' /\ Final
<1> DEFINE node == at[t].node
<1>0. ThreadOK(t) /\ pc[t] = "reclaim" /\ call[t] \in Calls
    BY LocalsTyped DEF Marked!ReclaimReplaced, ThreadOK
<1>1. reclaimed' = reclaimed \cup {node} /\ UNCHANGED <<around, value, next, marked, holders, call>>
    BY DEF Marked!ReclaimReplaced, Marked!around, around
<1>2. node \in DOMAIN value /\ at[t] \in LocalsOver(DOMAIN value) /\ next[node] \in {null} \cup DOMAIN value
    BY <1>0, LocalsTyped DEF ThreadOK, StandsOn
<1>3. marked' \subseteq DOMAIN value /\ reclaimed' \subseteq DOMAIN value /\ marked \subseteq marked'
    BY <1>1, <1>2, TypeFacts
<1>4. CASE next[node] = null
    <2>1. Answer(t, "yes")
        BY <1>4, MarkedNames DEF Marked!ReclaimReplaced
    <2>2. Moves(t, "return", NoLocals, call[t], "yes") /\ MovedTo("return", NoLocals, call[t], "yes")
        BY <1>0, <1>1, <2>1, AnswerMoves
    <2>3. ~MayCreate(call[t], "yes", NoLocals)
        BY DEF MayCreate
    <2> QED BY <1>1, <1>3, <2>2, <2>3, StoreTyped
<1>5. CASE next[node] # null
    <2> DEFINE l == [at[t] EXCEPT !.node = next[node]]
    <2>1. pc' = [pc EXCEPT ![t] = "reclaim"] /\ at' = [at EXCEPT ![t] = l] /\ answer' = answer
        <3>1. at \in [Threads -> LocalsOver(DOMAIN value)] /\ pc \in [Threads -> PCs]
            BY TypeFacts
        <3> QED BY <1>0, <1>5, <3>1, MarkedNames DEF Marked!ReclaimReplaced, LocalsOver
    <2>2. l \in LocalsOver(DOMAIN value) /\ l.node # null /\ l.new = at[t].new
        BY <1>2, <1>5 DEF LocalsOver
    <2> HIDE DEF l
    <2>3. Moves(t, "reclaim", l, call[t], answer[t])
        BY <1>1, <2>1, TypeFacts DEF Moves
    <2>4. MovedTo("reclaim", l, call[t], answer[t])
        BY <1>0, <1>1, <2>2, TypeFacts DEF MovedTo, ThreadOK, StandsOn, PCs
    <2> QED BY <1>1, <1>3, <2>2, <2>3, <2>4, StoreTyped DEF MayCreate
<1> QED BY <1>4, <1>5

LEMMA MarkedMarkTyped ==
    ASSUME TypeInv, NEW t \in Threads, map.list = "atomic_marked_list", Marked!MarkSucceeds(t) \/ Marked!MarkFails(t)
    PROVE  TypeInv' /\ Final
<1>0. /\ ThreadOK(t) /\ pc[t] = "mark" /\ call[t] \in Calls /\ answer[t] = "open"
      /\ at[t] \in LocalsOver(DOMAIN value) /\ at[t].node \in DOMAIN value
      /\ next[at[t].node] \in {null} \cup DOMAIN value
    BY LocalsTyped DEF Marked!MarkSucceeds, Marked!MarkFails, ThreadOK, StandsOn
<1>1. ASSUME Marked!MarkSucceeds(t) PROVE TypeInv' /\ Final
    <2>1. /\ marked' = marked \cup {at[t].node} /\ answer' = [answer EXCEPT ![t] = "yes"]
          /\ pc' = [pc EXCEPT ![t] = "unlink"] /\ UNCHANGED <<around, value, next, reclaimed, holders, at, call>>
        BY <1>1 DEF Marked!MarkSucceeds, Marked!Goto, Marked!around, around
    <2>2. Moves(t, "unlink", at[t], call[t], "yes")
        BY <2>1, TypeFacts DEF Moves
    <2>3. MovedTo("unlink", at[t], call[t], "yes")
        BY <1>0, <2>1 DEF MovedTo, ThreadOK, StandsOn, PCs
    <2>4. marked' \subseteq DOMAIN value /\ reclaimed' \subseteq DOMAIN value /\ marked \subseteq marked'
        BY <1>0, <2>1, TypeFacts
    <2> QED BY <2>1, <2>2, <2>3, <2>4, StoreTyped DEF MayCreate
<1>2. ASSUME Marked!MarkFails(t) PROVE TypeInv' /\ Final
    <2>1. UNCHANGED <<around, heap, holders, call>>
        BY <1>2 DEF Marked!MarkFails, Marked!around, around, Marked!heap, heap
    <2>2. CASE Answer(t, "no")
        BY <1>0, <2>1, <2>2, AnswerFinal
    <2>3. CASE ~Answer(t, "no")
        <3> DEFINE l == [at[t] EXCEPT !.next = next[at[t].node]]
        <3>1. pc' = [pc EXCEPT ![t] = "mark"] /\ at' = [at EXCEPT ![t] = l] /\ UNCHANGED answer
            <4>1. at \in [Threads -> LocalsOver(DOMAIN value)] /\ pc \in [Threads -> PCs]
                BY TypeFacts
            <4> QED BY <1>0, <1>2, <2>3, <4>1, MarkedNames DEF Marked!MarkFails, LocalsOver
        <3>2. l \in LocalsOver(DOMAIN value) /\ l.new = at[t].new /\ l.node = at[t].node
            BY <1>0 DEF LocalsOver
        <3> HIDE DEF l
        <3>3. StandsOn("mark", l, call[t], answer[t])
            BY <1>0, <3>2 DEF ThreadOK, StandsOn
        <3> QED BY <1>0, <2>1, <3>1, <3>2, <3>3, WalksOn DEF PCs
    <2> QED BY <2>2, <2>3
<1> QED BY <1>1, <1>2

LEMMA MarkedUnlinkTyped ==
    ASSUME TypeInv, NEW t \in Threads, map.list = "atomic_marked_list", Marked!Unlink(t)
    PROVE  TypeInv' /\ Final
<1>0. ThreadOK(t) /\ pc[t] = "unlink" /\ call[t] \in Calls
    BY LocalsTyped DEF Marked!Unlink, ThreadOK
<1>1. Answer(t, "yes") /\ UNCHANGED <<around, value, marked, holders, call>>
    BY MarkedNames DEF Marked!Unlink, Marked!around, around
<1>2. \/ /\ at[t].prev \notin marked /\ next' = [next EXCEPT ![at[t].prev] = at[t].next]
         /\ reclaimed' = reclaimed \cup {at[t].node}
      \/ UNCHANGED <<next, reclaimed>>
    BY DEF Marked!Unlink, Marked!Holds
<1>3. at[t].node \in DOMAIN value /\ at[t].next \in {null} \cup DOMAIN value
    BY <1>0, LocalsTyped DEF ThreadOK, StandsOn
<1>4. marked' \subseteq DOMAIN value /\ reclaimed' \subseteq DOMAIN value /\ marked \subseteq marked'
    BY <1>1, <1>2, <1>3, TypeFacts
<1>5. Moves(t, "return", NoLocals, call[t], "yes") /\ MovedTo("return", NoLocals, call[t], "yes")
    BY <1>0, <1>1, AnswerMoves
<1> QED BY <1>1, <1>2, <1>3, <1>4, <1>5, StoreTyped DEF MayCreate

LEMMA MarkedStepTyped ==
    ASSUME TypeInv, NEW t \in Threads, map.list = "atomic_marked_list", Marked!MarkedStep(t)
    PROVE  TypeInv' /\ Final
BY MarkedInsertFirstTyped, MarkedInsertWalksTyped, MarkedWalkTyped, MarkedSkipTyped, MarkedAppendTyped,
   MarkedRestartTyped, MarkedReclaimTyped, MarkedMarkTyped, MarkedUnlinkTyped DEF Marked!MarkedStep, Marked!WalkStep
-----------------------------------------------------------------------------
(* The steps of the abandoned lists.                                       *)

LEMMA UnmarkedNames ==
    ASSUME NEW t, NEW ans
    PROVE  /\ Unmarked!Answer(t, ans) <=> Answer(t, ans)
           /\ Unmarked!Start(t) = m_head(bucket(call[t].key))
           /\ Unmarked!NewNode = NewNode /\ Unmarked!null = null
           /\ (UNCHANGED Unmarked!around <=> UNCHANGED around) /\ (UNCHANGED Unmarked!heap <=> UNCHANGED heap)
<1>1. Unmarked!NoLocals = NoLocals /\ Unmarked!null = null
    BY DEF Unmarked!NoLocals, NoLocals, Unmarked!null, null
<1>2. Unmarked!Answer(t, ans) <=> Answer(t, ans)
    BY <1>1 DEF Unmarked!Answer, Answer
<1>3. Unmarked!Start(t) = m_head(bucket(call[t].key))
    BY DEF Unmarked!Start, Unmarked!m_head, m_head, Unmarked!bucket, bucket, Unmarked!num_buckets, num_buckets,
           Unmarked!next_power_of_two, next_power_of_two
<1>4. Unmarked!NewNode = NewNode
    BY DEF Unmarked!NewNode, NewNode
<1>5. (UNCHANGED Unmarked!around <=> UNCHANGED around) /\ (UNCHANGED Unmarked!heap <=> UNCHANGED heap)
    BY DEF Unmarked!around, around, Unmarked!heap, heap
<1> QED BY <1>1, <1>2, <1>3, <1>4, <1>5

UnmarkedMap == map.list \in {"leaking_atomic_list", "atomic_shared_ptr_list"}

\* The node is linked behind a place.
LEMMA UnmarkedLinkedTyped ==
    ASSUME TypeInv, NEW t \in Threads, UnmarkedMap, pc[t] \in {"start", "walk"}, Unmarked!Is(t, "insert"), NEW place,
           Unmarked!Linked(t, place)
    PROVE  TypeInv'
<1> DEFINE n == IF at[t].new = null THEN NewNode ELSE at[t].new
<1>0. ThreadOK(t) /\ call[t] \in Calls /\ answer[t] = "open" /\ call[t].op = "insert"
    BY LocalsTyped DEF Unmarked!Is, ThreadOK, StandsOn
<1>1. /\ next' = [next EXCEPT ![place] = n] /\ Answer(t, "yes")
      /\ value' = IF at[t].new = null THEN Append(value, call[t].key) ELSE value
      /\ UNCHANGED <<around, marked, reclaimed, holders, call>>
    BY UnmarkedNames DEF Unmarked!Linked, Unmarked!around, around
<1>2. Moves(t, "return", NoLocals, call[t], "yes") /\ MovedTo("return", NoLocals, call[t], "yes")
    BY <1>0, <1>1, AnswerMoves
<1>3. ~MayCreate(call[t], "yes", NoLocals) /\ (at[t].new = null => MayCreate(call[t], answer[t], at[t]))
    BY <1>0, TypeFacts DEF MayCreate
<1>4. n \in {null} \cup DOMAIN value'
    BY <1>0, <1>1, NewNodeFacts, LocalsTyped, TypeFacts
<1>5. marked' \subseteq DOMAIN value /\ reclaimed' \subseteq DOMAIN value /\ holders' \in [Places -> SUBSET Threads]
    BY <1>1, TypeFacts
<1> HIDE DEF n
<1> QED BY <1>1, <1>2, <1>3, <1>4, <1>5, HeapTyped

LEMMA UnmarkedInsertWalksTyped ==
    ASSUME TypeInv, NEW t \in Threads, UnmarkedMap, Unmarked!InsertWalks(t)
    PROVE  TypeInv'
<1> DEFINE place == IF pc[t] = "start" THEN m_head(bucket(call[t].key)) ELSE at[t].node
           n == IF at[t].new = null THEN NewNode ELSE at[t].new
           l == [at[t] EXCEPT !.node = next[place], !.new = n]
<1>0. /\ ThreadOK(t) /\ pc[t] \in {"start", "walk"} /\ call[t] \in Calls /\ answer[t] = "open"
      /\ call[t].op = "insert"
    BY LocalsTyped DEF Unmarked!InsertWalks, Unmarked!Is, ThreadOK, StandsOn
<1>t. at \in [Threads -> LocalsOver(DOMAIN value)]
    BY TypeFacts
<1>1. /\ pc' = [pc EXCEPT ![t] = "walk"] /\ next[place] # null
      /\ at' = [at EXCEPT ![t] = l]
      /\ value' = IF at[t].new = null THEN Append(value, call[t].key) ELSE value
      /\ UNCHANGED <<around, next, marked, reclaimed, holders, call, answer>>
    <2>1. Unmarked!Start(t) = m_head(bucket(call[t].key)) /\ Unmarked!NewNode = NewNode /\ Unmarked!null = null
        BY UnmarkedNames
    <2>2. at' = [at EXCEPT ![t] = l]
        BY <1>t, <2>1 DEF Unmarked!InsertWalks, LocalsOver
    <2> QED BY <2>1, <2>2 DEF Unmarked!InsertWalks, Unmarked!around, around
<1>2. place \in Places /\ next[place] \in DOMAIN value
    <2>1. place \in Places
        BY <1>0, LocalsTyped, TypeFacts DEF ThreadOK, StandsOn, UnmarkedMap
    <2> QED BY <1>1, <2>1, LocalsTyped
<1>3. n \in DOMAIN value' /\ n # null /\ DOMAIN value \subseteq DOMAIN value'
    <2>1. CASE at[t].new = null
        <3>1. NewNode \in DOMAIN value' /\ DOMAIN value \subseteq DOMAIN value'
            BY <1>0, <1>1, <2>1, NewNodeFacts, TypeFacts
        <3>2. NewNode # null
            BY TypeFacts DEF NewNode, null
        <3> QED BY <2>1, <3>1, <3>2
    <2>2. CASE at[t].new # null
        BY <1>0, <1>1, <2>2, LocalsTyped
    <2> QED BY <2>1, <2>2
<1>4. l \in LocalsOver(DOMAIN value') /\ l.new = n /\ l.node # null
    BY <1>1, <1>2, <1>3, LocalsTyped DEF LocalsOver
<1>5. MayCreate(call[t], answer[t], at[t]) <=> at[t].new = null
    BY <1>0, TypeFacts DEF MayCreate
<1>6. marked' \subseteq DOMAIN value /\ reclaimed' \subseteq DOMAIN value /\ holders' \in [Places -> SUBSET Threads]
    BY <1>1, TypeFacts
<1> HIDE DEF place, n, l
<1>7. ~MayCreate(call[t], answer[t], l)
    BY <1>3, <1>4 DEF MayCreate
<1>8. Moves(t, "walk", l, call[t], answer[t])
    BY <1>1, TypeFacts DEF Moves
<1>9. MovedTo("walk", l, call[t], answer[t])
    BY <1>0, <1>4 DEF MovedTo, StandsOn, PCs, UnmarkedMap
<1> QED BY <1>1, <1>5, <1>6, <1>7, <1>8, <1>9, HeapTyped

\* find() and erase() load a pointer.
LEMMA UnmarkedLoadTyped ==
    ASSUME TypeInv, NEW t \in Threads, UnmarkedMap, pc[t] \in {"start", "walk"}, ~Unmarked!Is(t, "insert"),
           NEW place \in Places, Unmarked!Load(t, place)
    PROVE  TypeInv'
<1> DEFINE l == [at[t] EXCEPT !.prev = place, !.node = next[place]]
<1>0. ThreadOK(t) /\ at[t] \in LocalsOver(DOMAIN value) /\ next[place] \in {null} \cup DOMAIN value
    BY LocalsTyped
<1>c. call[t] \in Calls /\ call[t].op # "insert"
    BY <1>0, TypeFacts DEF ThreadOK, Unmarked!Is
<1>1. pc' = [pc EXCEPT ![t] = "walk"] /\ at' = [at EXCEPT ![t] = l] /\ UNCHANGED <<around, heap, holders, call, answer>>
    BY DEF Unmarked!Load, Unmarked!around, around, Unmarked!heap, heap
<1>2. l \in LocalsOver(DOMAIN value) /\ l.new = at[t].new
    BY <1>0 DEF LocalsOver
<1> HIDE DEF l
<1>3. StandsOn("walk", l, call[t], answer[t])
    BY <1>0, <1>c, <1>2 DEF ThreadOK, StandsOn, UnmarkedMap
<1> QED BY <1>1, <1>2, <1>3, WalksOn DEF PCs

LEMMA UnmarkedStepTyped ==
    ASSUME TypeInv, NEW t \in Threads, UnmarkedMap, Unmarked!UnmarkedStep(t)
    PROVE  TypeInv'
<1>0. /\ ThreadOK(t) /\ at[t] \in LocalsOver(DOMAIN value) /\ at \in [Threads -> LocalsOver(DOMAIN value)]
      /\ \A n \in DOMAIN value : n \in Places /\ n # null /\ next[n] \in {null} \cup DOMAIN value
    BY LocalsTyped, TypeFacts
<1>n. at[t].node \in {null} \cup DOMAIN value /\ at[t].next \in {null} \cup DOMAIN value /\ Unmarked!null = null
    BY LocalsTyped, UnmarkedNames
<1>1. ASSUME Unmarked!InsertFirst(t) \/ Unmarked!InsertBehind(t) PROVE TypeInv'
    <2>1. PICK place : pc[t] \in {"start", "walk"} /\ Unmarked!Is(t, "insert") /\ Unmarked!Linked(t, place)
        BY <1>1 DEF Unmarked!InsertFirst, Unmarked!InsertBehind
    <2> QED BY <2>1, UnmarkedLinkedTyped
<1>2. ASSUME Unmarked!InsertWalks(t) PROVE TypeInv'
    BY <1>2, UnmarkedInsertWalksTyped
<1>3. ASSUME Unmarked!LoadHead(t) PROVE TypeInv'
    <2>1. pc[t] = "start" /\ ~Unmarked!Is(t, "insert") /\ Unmarked!Load(t, m_head(bucket(call[t].key)))
        BY <1>3, UnmarkedNames DEF Unmarked!LoadHead
    <2>2. m_head(bucket(call[t].key)) \in Places
        BY <1>0, <2>1, TypeFacts DEF ThreadOK
    <2> QED BY <2>1, <2>2, UnmarkedLoadTyped
<1>4. ASSUME Unmarked!LoadNext(t) PROVE TypeInv'
    <2>1. pc[t] = "walk" /\ ~Unmarked!Is(t, "insert") /\ Unmarked!Load(t, at[t].node) /\ at[t].node # null
        BY <1>4, <1>n DEF Unmarked!LoadNext
    <2>2. at[t].node \in Places
        BY <1>0, <1>n, <2>1
    <2> QED BY <2>1, <2>2, UnmarkedLoadTyped
<1>5. ASSUME Unmarked!InsertMeetsKey(t) \/ Unmarked!EndOfList(t) \/ Unmarked!FindMeetsKey(t) \/ Unmarked!UnlinkFails(t)
      PROVE  TypeInv'
    <2>1. PICK ans \in {"yes", "no"} : Answer(t, ans)
        BY <1>5, UnmarkedNames
        DEF Unmarked!InsertMeetsKey, Unmarked!EndOfList, Unmarked!FindMeetsKey, Unmarked!UnlinkFails
    <2>2. UNCHANGED <<around, heap, holders, call>> /\ pc[t] # "idle"
        BY <1>5 DEF Unmarked!InsertMeetsKey, Unmarked!EndOfList, Unmarked!FindMeetsKey, Unmarked!UnlinkFails,
                    Unmarked!around, around, Unmarked!heap, heap
    <2> QED BY <2>1, <2>2, AnswerTyped
<1>6. ASSUME Unmarked!EraseMeetsKey(t) PROVE TypeInv'
    <2> DEFINE l == [at[t] EXCEPT !.next = next[at[t].node]]
    <2>1. /\ pc[t] = "walk" /\ at[t].node # null /\ pc' = [pc EXCEPT ![t] = "unlink"] /\ at' = [at EXCEPT ![t] = l]
          /\ UNCHANGED <<around, heap, holders, call, answer>>
        BY <1>0, <1>6, <1>n DEF Unmarked!EraseMeetsKey, Unmarked!around, around, Unmarked!heap, heap
    <2>2. l \in LocalsOver(DOMAIN value) /\ l.new = at[t].new
        BY <1>0, <1>n, <2>1 DEF LocalsOver
    <2> HIDE DEF l
    <2>3. StandsOn("unlink", l, call[t], answer[t])
        BY <1>0, <2>1, <2>2 DEF ThreadOK, StandsOn, UnmarkedMap
    <2> QED BY <2>1, <2>2, <2>3, WalksOn DEF PCs
<1>7. ASSUME Unmarked!Unlink(t) PROVE TypeInv'
    <2>1. /\ pc[t] = "unlink" /\ next' = [next EXCEPT ![at[t].prev] = at[t].next] /\ Answer(t, "yes")
          /\ UNCHANGED <<around, value, marked, reclaimed, holders, call>>
        BY <1>7, UnmarkedNames DEF Unmarked!Unlink, Unmarked!around, around
    <2>2. holders' \in [Places -> SUBSET Threads]
        BY <2>1, TypeFacts
    <2> QED BY <1>n, <2>1, <2>2, RemoveTyped
<1> QED BY <1>1, <1>2, <1>3, <1>4, <1>5, <1>6, <1>7 DEF Unmarked!UnmarkedStep
-----------------------------------------------------------------------------
(* The types: the beginning, and every step.                               *)

\* The bucket of a place, and the nodes behind it: at the beginning a pointer leads to the
\* first of them in the bucket.
BucketOf(p) == IF p \in Heads THEN -p - 1 ELSE bucket(value[p])
Behind(p) == {j \in DOMAIN value : j > p /\ bucket(value[j]) = BucketOf(p)}
LeadsToFirst(p) ==
    \/ next[p] = null /\ Behind(p) = {}
    \/ next[p] \in Behind(p) /\ \A j \in Behind(p) : next[p] <= j

LEMMA InitPointers ==
    ASSUME MapInit
    PROVE  /\ map \in Maps /\ value \in Seq(Keys) /\ Len(value) <= map.nodes /\ DOMAIN value = 1 .. Len(value)
           /\ Len(value) \in Nat
           /\ next \in [Places -> {null} \cup DOMAIN value]
           /\ \A p \in Heads \cup DOMAIN value : LeadsToFirst(p)
           /\ \A p \in Nodes : p \notin DOMAIN value => next[p] = null
<1> DEFINE In(b_, i) == {j \in i + 1 .. Len(map.first) : bucket(map.first[j]) = b_}
           FirstOf(S) == IF S = {} THEN null ELSE CHOOSE i \in S : \A j \in S : i <= j
           Target(p) == IF p \in Heads THEN FirstOf(In(-p - 1, 0))
                        ELSE IF p <= Len(map.first) THEN FirstOf(In(bucket(map.first[p]), p)) ELSE null
<1>1. map \in Maps /\ value = map.first
    BY DEF MapInit
<1>2. /\ value \in Seq(Keys) /\ Len(value) \in Nat /\ Len(value) <= map.nodes /\ DOMAIN value = 1 .. Len(value)
      /\ map.nodes \in Nat
    BY <1>1, MapAssumption
<1>3. next = [p \in Places |-> Target(p)]
    BY DEF MapInit
<1>4. ASSUME NEW S \in SUBSET (DOMAIN value)
      PROVE  (S = {} /\ FirstOf(S) = null) \/ (FirstOf(S) \in S /\ \A j \in S : FirstOf(S) <= j)
    <2>1. S \in SUBSET Nat
        BY <1>2
    <2>2. CASE S # {}
        <3>1. \E m \in S : \A j \in S : m <= j
            BY <2>1, <2>2, LeastElement
        <3> QED BY <2>2, <3>1
    <2> QED BY <2>2
<1>5. \A h \in Heads : h \in Int /\ h < 0 /\ h \notin Nodes
    BY <1>1, PlacesApart
<1> HIDE DEF FirstOf
<1>6. ASSUME NEW p \in Heads PROVE LeadsToFirst(p) /\ next[p] \in {null} \cup DOMAIN value
    <2>1. In(-p - 1, 0) = Behind(p)
        BY <1>1, <1>2, <1>5 DEF Behind, BucketOf
    <2>2. next[p] = FirstOf(Behind(p))
        BY <1>3, <2>1 DEF Places
    <2>3. Behind(p) \in SUBSET (DOMAIN value)
        BY DEF Behind
    <2> QED BY <1>4, <2>2, <2>3 DEF LeadsToFirst
<1>7. ASSUME NEW p \in DOMAIN value PROVE LeadsToFirst(p)
    <2>0. p \in Nodes /\ p \notin Heads /\ p <= Len(map.first) /\ p \in Nat
        BY <1>1, <1>2, <1>5 DEF Nodes
    <2>1. In(bucket(map.first[p]), p) = Behind(p)
        BY <1>1, <1>2, <2>0 DEF Behind, BucketOf
    <2>2. next[p] = FirstOf(Behind(p))
        BY <1>3, <2>0, <2>1 DEF Places
    <2>3. Behind(p) \in SUBSET (DOMAIN value)
        BY DEF Behind
    <2> QED BY <1>4, <2>2, <2>3 DEF LeadsToFirst
<1>8. ASSUME NEW p \in Nodes, p \notin DOMAIN value PROVE next[p] = null
    <2>1. p \notin Heads /\ ~(p <= Len(map.first)) /\ p \in Places
        BY <1>1, <1>2, <1>5, <1>8 DEF Nodes, Places
    <2> QED BY <2>1, <1>3
<1>9. next \in [Places -> {null} \cup DOMAIN value]
    <2>1. \A p \in DOMAIN value : next[p] \in {null} \cup DOMAIN value
        BY <1>7 DEF LeadsToFirst, Behind
    <2>2. \A p \in Places : next[p] \in {null} \cup DOMAIN value
        BY <1>6, <1>8, <2>1 DEF Places
    <2> HIDE DEF Target
    <2> QED BY <2>2, <1>3
<1> QED BY <1>1, <1>2, <1>6, <1>7, <1>8, <1>9

LEMMA InitTyped == ASSUME MapInit PROVE TypeInv
<1>1. /\ map \in Maps /\ value \in Seq(Keys) /\ Len(value) <= map.nodes /\ DOMAIN value = 1 .. Len(value)
      /\ Len(value) \in Nat /\ next \in [Places -> {null} \cup DOMAIN value]
    BY InitPointers
<1>2. filter \in [Buckets -> SUBSET (0 .. 63)]
    <2> DEFINE Bits(b_) ==
            UNION {filter_mask(map.first[i]) : i \in {j \in DOMAIN map.first : bucket(map.first[j]) = b_}}
    <2>1. filter = [b_ \in Buckets |-> Bits(b_)] /\ value = map.first
        BY DEF MapInit
    <2>2. \A i \in DOMAIN map.first : map.first[i] \in Keys
        BY <1>1, <2>1
    <2>3. \A i \in DOMAIN map.first : filter_mask(map.first[i]) \in SUBSET (0 .. 63)
        BY <1>1, <2>2, MaskTyped
    <2>4. \A b_ \in Buckets : Bits(b_) \in SUBSET (0 .. 63)
        BY <2>3
    <2> HIDE DEF Bits
    <2> QED BY <2>1, <2>4
<1>3. marked = {} /\ reclaimed = {} /\ holders \in [Places -> SUBSET Threads]
    BY DEF MapInit
<1>4. /\ pc \in [Threads -> {"idle"}] /\ \A t \in Threads : at[t] = NoLocals
      /\ at \in [Threads -> LocalsOver(DOMAIN value)]
      /\ call \in [Threads -> {NoCall}] /\ answer \in [Threads -> {"open"}]
    BY NoLocalsTyped DEF MapInit
<1>5. MapTypeOK
    BY <1>1, <1>2, <1>3, <1>4 DEF MapTypeOK, LocalsOver
<1>6. RoomLeft
    <2>1. InsertsUnderWay = {}
        BY <1>4 DEF InsertsUnderWay
    <2> QED BY <1>1, <2>1, FS_EmptySet DEF RoomLeft
<1>7. ASSUME NEW t \in Threads PROVE ThreadOK(t)
    BY <1>4 DEF ThreadOK, StandsOn, NoLocals
<1> QED BY <1>3, <1>5, <1>6, <1>7 DEF TypeInv, MarksOK

LEMMA ListStepTyped ==
    ASSUME TypeInv, NEW t \in Threads, ListStep(t)
    PROVE  TypeInv' /\ (map.list = "atomic_marked_list" => Final)
<1>1. CASE map.list = "single_mutex_list" /\ SingleStep(t)
    BY <1>1, SingleStepTyped
<1>2. CASE map.list = "node_mutex_list" /\ NodeStep(t)
    BY <1>2, NodeStepTyped
<1>3. CASE map.list = "atomic_marked_list" /\ Marked!MarkedStep(t)
    BY <1>3, MarkedStepTyped
<1>4. CASE UnmarkedMap /\ Unmarked!UnmarkedStep(t)
    BY <1>4, UnmarkedStepTyped DEF UnmarkedMap
<1> QED BY <1>1, <1>2, <1>3, <1>4 DEF ListStep, UnmarkedMap

LEMMA NextTyped == TypeInv /\ [ListsNext]_listsVars => TypeInv'
<1> SUFFICES ASSUME TypeInv, [ListsNext]_listsVars PROVE TypeInv'
    OBVIOUS
<1>1. CASE UNCHANGED mapVars
    BY <1>1 DEF mapVars, TypeInv, MapTypeOK, RoomLeft, InsertsUnderWay, MarksOK, ThreadOK, StandsOn, Places, Heads,
                Nodes, Buckets, num_buckets, m_head
<1>2. CASE Clear
    BY <1>2, ClearTyped
<1>3. ASSUME NEW t \in Threads, MapStep(t) PROVE TypeInv'
    BY <1>3, MapStepTyped
<1>4. ASSUME NEW t \in Threads, ListStep(t) PROVE TypeInv'
    BY <1>4, ListStepTyped
<1> QED BY <1>1, <1>2, <1>3, <1>4 DEF ListsNext, listsVars

\* No step changes a pointer with a mark, or takes the mark away.
LEMMA NextFinal == TypeInv /\ [ListsNext]_listsVars => [Final]_mapVars
<1> SUFFICES ASSUME TypeInv, ListsNext PROVE Final \/ UNCHANGED mapVars
    BY DEF listsVars
<1>1. CASE Clear
    <2>1. marked = {}
        BY <1>1 DEF Clear, TypeInv, MarksOK
    <2> QED BY <2>1 DEF Final
<1>2. ASSUME NEW t \in Threads, MapStep(t) PROVE Final
    BY <1>2 DEF Final, MapStep, BeginCall, SetBits, TestBits, ReturnAnswer, heap
<1>3. ASSUME NEW t \in Threads, ListStep(t) PROVE Final
    <2>1. CASE map.list = "atomic_marked_list"
        BY <1>3, <2>1, ListStepTyped
    <2>2. CASE map.list # "atomic_marked_list"
        BY <2>2 DEF Final, TypeInv, MarksOK
    <2> QED BY <2>1, <2>2
<1> QED BY <1>1, <1>2, <1>3 DEF ListsNext

LEMMA ListsTyped == ListsSpec => []TypeInv
<1>1. ListsInit => TypeInv
    BY InitTyped DEF ListsInit
<1> QED BY <1>1, NextTyped, PTL DEF ListsSpec

\* Whatever list, filter and capacity a map has: every pointer is null or leads to a node
\* that was created, whatever a thread follows, stores or marks; a node never takes more
\* room than insert() was begun with; and the loop of next_power_of_two() ends, so that
\* there is a bucket for every key.
THEOREM MapTypesCorrect == ListsSpec => []MapTypeOK
<1>1. TypeInv => MapTypeOK
    BY DEF TypeInv
<1> QED BY <1>1, ListsTyped, PTL

\* No step of any operation, of any number of threads, changes the pointer of a node that
\* is marked or takes the mark away: that the CAS of atomic_marked_list compare the mark
\* with the pointer is enough.
THEOREM MarksAreFinal == ListsSpec => MarkedPointersAreFinal
<1>1. [Final]_mapVars <=> [\A n \in marked : n \in marked' /\ next'[n] = next[n]]_mapVars
    BY DEF Final
<1> QED BY <1>1, NextFinal, ListsTyped, PTL DEF ListsSpec, MarkedPointersAreFinal
-----------------------------------------------------------------------------
(* The lists with mutexes: the invariant.                                  *)

MutexMap == map.list \in {"single_mutex_list", "node_mutex_list"}

\* The nodes of the list of every bucket, the list of every key, and the keys that the
\* filter of their bucket has all bits of.
Content == [h \in Heads |-> Chain(h)]
Home == [k \in Keys |-> m_head(bucket(k))]
InFilter == {k \in Keys : filter_mask(k) \subseteq filter[bucket(k)]}

\* A list is in the order of creation, a key is in the list of its bucket, once, and its
\* bits are in the filter.
InOrder == \A p \in Nodes : next[p] # null => next[p] > p /\ p \in DOMAIN value
AtHome ==
    \A h \in Heads : \A n \in Content[h] : n \in DOMAIN value /\ Home[value[n]] = h /\ value[n] \in InFilter
KeptOnce == \A h \in Heads : \A m, n \in Content[h] : value[m] = value[n] => m = n
Shape == InOrder /\ AtHome /\ KeptOnce

\* A thread that walks is in the list of its key, still sees the node its place points to,
\* has passed no node with the key, and holds the mutex of its place only.
Stands(t) ==
    LET h == Home[call[t].key]
        p == at[t].prev
    IN  /\ p \in Content[h] \cup {h} /\ next[p] = at[t].node
        /\ \A m \in Content[h] : value[m] = call[t].key => m > p
HoldsAt(t, S) == \A p \in Places : t \in holders[p] <=> p \in S

\* How the call of a thread stands: the history has seen what there is, and the bits of a
\* key are set before it is inserted.
CallOK(t) ==
    /\ pc[t] \in {"idle", "filter", "start", "walk", "return"}
    /\ pc[t] = "idle" <=> call[t] = NoCall
    /\ pc[t] = "return" <=> answer[t] # "open"
    /\ pc[t] = "walk" => map.list = "node_mutex_list"
    /\ pc[t] \in {"start", "walk"} /\ call[t].op = "insert" => call[t].key \in InFilter
SeenOK(t) == IF call[t] = NoCall THEN seen[t] = {} ELSE (call[t].key \in Members) \in seen[t]
WalkOK(t) == IF pc[t] = "walk" THEN Stands(t) /\ HoldsAt(t, {at[t].prev}) ELSE HoldsAt(t, {})

\* Only find() shares a mutex.
Exclusive ==
    \A p \in Places : \A t, u \in holders[p] : t # u => call[t].op = "find" /\ call[u].op = "find"

MutexInv ==
    /\ Shape /\ Exclusive /\ seen = [t \in Threads |-> seen[t]]
    /\ \A t \in Threads : CallOK(t) /\ SeenOK(t) /\ WalkOK(t)
MutexListsOK == MutexMap => MutexInv
-----------------------------------------------------------------------------
(* What a stored pointer does to a list.  Here a list is the least set C   *)
(* that h leads into and the pointers f do not lead out of.                *)

IsChain(C, h, f, N) ==
    /\ C \subseteq N
    /\ \A p \in C \cup {h} : f[p] \in C \cup {null}
    /\ \A S \in SUBSET N : (\A p \in S \cup {h} : f[p] \in S \cup {null}) => C \subseteq S

\* Places without the null pointer, pointers that lead to later places only.
Ordered(h, f, N) ==
    /\ N \subseteq Nat /\ null \notin N /\ h \in Int /\ h < 0
    /\ \A p \in N : f[p] # null => f[p] > p

\* Pointers that differ elsewhere make the same list.
LEMMA ChainKept ==
    ASSUME NEW N, NEW h, NEW f, NEW g, NEW C, NEW D, IsChain(C, h, f, N), IsChain(D, h, g, N),
           \A p \in C \cup {h} : g[p] = f[p]
    PROVE  D = C
<1>1. D \subseteq C
    BY DEF IsChain
<1>2. \A p \in D \cup {h} : f[p] \in D \cup {null}
    BY <1>1 DEF IsChain
<1>3. C \subseteq D
    BY <1>2 DEF IsChain
<1> QED BY <1>1, <1>3

\* The pointers of a list lead on, in the list.
LEMMA ChainSteps ==
    ASSUME NEW N, NEW h, NEW f, NEW C, IsChain(C, h, f, N), Ordered(h, f, N)
    PROVE  \A x \in C \cup {h} : x \in Int /\ (f[x] # null => f[x] \in C /\ f[x] \in Int /\ f[x] > x)
<1>0. null = 0 /\ C \subseteq N /\ h \in Int /\ h < 0 /\ \A x \in C : x \in Nat /\ x \in Int /\ x > h
    BY DEF null, IsChain, Ordered
<1>1. \A x \in C \cup {h} : f[x] \in C \cup {null}
    BY DEF IsChain
<1>2. \A x \in C : f[x] # null => f[x] > x
    BY <1>0 DEF Ordered
<1> QED BY <1>0, <1>1, <1>2

\* No pointer of a list leads over a node of the list.
LEMMA NoneJumped ==
    ASSUME NEW N, NEW h, NEW f, NEW C, IsChain(C, h, f, N), Ordered(h, f, N)
    PROVE  \A p \in C \cup {h} : \A m \in C : m > p => f[p] # null /\ f[p] <= m
<1> DEFINE Bad(p) == \E m \in C : m > p /\ ~(f[p] # null /\ f[p] <= m)
<1>0. C \subseteq N /\ h \notin C /\ h \in Int /\ \A x \in C : x \in Nat /\ x \in Int /\ x > h
    BY DEF null, IsChain, Ordered
<1>n. \A x \in C \cup {h} : x \in Int /\ (f[x] # null => f[x] \in C /\ f[x] \in Int /\ f[x] > x)
    BY ChainSteps
\* A set that the pointers of the list do not lead out of has all of it.
<1>s. ASSUME NEW S \in SUBSET C, \A x \in S \cup {h} : f[x] # null => f[x] \in S PROVE C \subseteq S
    <2>1. S \in SUBSET N /\ \A x \in S \cup {h} : f[x] \in S \cup {null}
        BY <1>0, <1>s
    <2> QED BY <2>1 DEF IsChain
<1>1. ~Bad(h)
    <2> DEFINE S == {x \in C : f[h] # null /\ x >= f[h]}
    <2>1. ASSUME NEW x \in S \cup {h}, f[x] # null PROVE f[x] \in S
        <3>1. f[x] \in C /\ f[x] \in Int /\ f[x] > x /\ x \in Int
            BY <1>n, <2>1
        <3>2. CASE x = h
            BY <3>1, <3>2, <2>1
        <3>3. CASE x \in S
            <4>1. f[h] # null /\ x >= f[h] /\ f[h] \in Int
                BY <3>3, <1>n
            <4>2. f[x] >= f[h]
                BY <4>1, <3>1
            <4> QED BY <3>1, <4>1, <4>2
        <3> QED BY <3>2, <3>3
    <2> HIDE DEF S
    <2>3. C \subseteq S
        BY <2>1, <1>s DEF S
    <2> QED BY <2>3 DEF S
<1>2. ASSUME NEW q \in C, Bad(q) PROVE FALSE
    <2> DEFINE B == {x \in C : Bad(x)}
    <2>1. PICK p \in B : \A x \in B : p <= x
        <3>1. B \in SUBSET Nat /\ B # {}
            BY <1>0, <1>2
        <3> HIDE DEF B
        <3> QED BY <3>1, LeastElement
    <2>2. p \in C /\ Bad(p) /\ \A x \in C : x < p => ~Bad(x)
        BY <2>1, <1>0
    <2> HIDE DEF B
    <2> DEFINE S == {x \in C : x <= p \/ (f[p] # null /\ x >= f[p])}
    <2>3. ASSUME NEW x \in S \cup {h}, f[x] # null PROVE f[x] \in S
        <3>1. f[x] \in C /\ f[x] \in Int /\ f[x] > x /\ x \in Int /\ p \in Int
            BY <1>n, <2>2, <2>3
        <3>2. CASE x = h \/ x < p
            <4>1. ~Bad(x) /\ p > x
                BY <3>2, <2>2, <1>0, <1>1
            <4>2. f[x] <= p
                BY <4>1, <2>2
            <4> QED BY <3>1, <4>2
        <3>3. CASE x = p
            <4>1. f[x] >= f[x]
                BY <3>1
            <4> QED BY <3>1, <3>3, <4>1, <2>3
        <3>4. CASE x # p /\ x # h /\ ~(x < p)
            <4>1. f[p] # null /\ x >= f[p] /\ f[p] \in Int
                BY <3>1, <3>4, <2>2, <1>n
            <4>2. f[x] >= f[p]
                BY <4>1, <3>1
            <4> QED BY <3>1, <4>1, <4>2
        <3> QED BY <3>2, <3>3, <3>4
    <2> HIDE DEF S
    <2>5. C \subseteq S
        BY <2>3, <1>s DEF S
    <2>6. \A m \in C : m > p => f[p] # null /\ f[p] <= m
        BY <1>n, <2>2, <2>5 DEF S
    <2> QED BY <2>2, <2>6
<1> QED BY <1>1, <1>2

\* No two pointers of a list lead to the same node.
LEMMA NoneShared ==
    ASSUME NEW N, NEW h, NEW f, NEW C, IsChain(C, h, f, N), Ordered(h, f, N),
           NEW p \in C \cup {h}, NEW q \in C \cup {h}, f[p] = f[q], f[p] # null
    PROVE  p = q
<1>1. \A x \in C \cup {h} : x \in Int /\ (f[x] # null => f[x] \in C /\ f[x] \in Int /\ f[x] > x)
    BY ChainSteps
<1>2. ASSUME NEW x \in C \cup {h}, NEW y \in C \cup {h}, x < y, f[x] = f[y], f[x] # null PROVE FALSE
    <2>1. y \in C
        BY <1>2 DEF IsChain, Ordered
    <2>2. f[x] <= y
        BY <1>1, <1>2, <2>1, NoneJumped
    <2> QED BY <1>1, <1>2, <2>2
<1>3. ~(p < q) /\ ~(q < p)
    BY <1>2
<1> QED BY <1>1, <1>3

\* The pointers f become g: the last place p gets the node n behind it, or the node n behind
\* p is passed by.
AppendsTo(C, D, h, f, g, N, p, n) ==
    /\ IsChain(C, h, f, N) /\ IsChain(D, h, g, N) /\ h \notin N
    /\ p \in C \cup {h} /\ n \in N /\ n \notin C /\ n # h /\ n # null
    /\ f[p] = null /\ g[p] = n /\ g[n] = null
    /\ \A q \in C \cup {h} : q # p => g[q] = f[q]
PassesBy(C, D, h, f, g, N, p, n) ==
    /\ IsChain(C, h, f, N) /\ IsChain(D, h, g, N) /\ Ordered(h, f, N)
    /\ p \in C \cup {h} /\ n \in C /\ f[p] = n /\ g[p] = f[n]
    /\ \A q \in C \cup {h} : q # p => g[q] = f[q]

\* A node behind the last place is the new last one.
LEMMA ChainAppended ==
    ASSUME NEW N, NEW h, NEW f, NEW g, NEW C, NEW D, NEW p, NEW n, AppendsTo(C, D, h, f, g, N, p, n)
    PROVE  D = C \cup {n}
<1>0. /\ IsChain(C, h, f, N) /\ IsChain(D, h, g, N) /\ h \notin N
      /\ p \in C \cup {h} /\ n \in N /\ n \notin C /\ n # h /\ n # null
      /\ f[p] = null /\ g[p] = n /\ g[n] = null
      /\ \A q \in C \cup {h} : q # p => g[q] = f[q]
    BY DEF AppendsTo
<1>1. D \subseteq C \cup {n}
    <2>1. \A q \in (C \cup {n}) \cup {h} : g[q] \in (C \cup {n}) \cup {null}
        BY <1>0 DEF IsChain
    <2>2. C \cup {n} \in SUBSET N
        BY <1>0 DEF IsChain
    <2> QED BY <1>0, <2>1, <2>2 DEF IsChain
<1>2. C \subseteq D
    <2> DEFINE S == D \cap C
    <2>1. ASSUME NEW q \in S \cup {h} PROVE f[q] \in S \cup {null}
        <3>1. f[q] \in C \cup {null} /\ g[q] \in D \cup {null}
            BY <1>0 DEF IsChain
        <3> QED BY <1>0, <3>1
    <2>2. S \in SUBSET N
        BY <1>0 DEF IsChain
    <2> HIDE DEF S
    <2>3. C \subseteq S
        BY <1>0, <2>1, <2>2 DEF IsChain
    <2> QED BY <2>3 DEF S
<1>3. n \in D
    BY <1>0, <1>2 DEF IsChain
<1> QED BY <1>1, <1>2, <1>3

\* A node that is passed by is the only one that is not in the list any more.
LEMMA ChainRemoved ==
    ASSUME NEW N, NEW h, NEW f, NEW g, NEW C, NEW D, NEW p, NEW n, PassesBy(C, D, h, f, g, N, p, n)
    PROVE  D = C \ {n}
<1>a. /\ IsChain(C, h, f, N) /\ IsChain(D, h, g, N) /\ Ordered(h, f, N)
      /\ p \in C \cup {h} /\ n \in C /\ f[p] = n /\ g[p] = f[n]
      /\ \A q \in C \cup {h} : q # p => g[q] = f[q]
    BY DEF PassesBy
<1>0. /\ null = 0 /\ C \subseteq N /\ N \subseteq Nat /\ h \in Int /\ h < 0 /\ h \notin C /\ n \in Nat /\ n # null
      /\ \A x \in C : x \in Nat /\ x \in Int /\ x > h /\ x # null
    BY <1>a DEF null, IsChain, Ordered
<1>1. \A x \in C \cup {h} : x \in Int /\ f[x] \in C \cup {null} /\ (f[x] # null => f[x] > x)
    <2>1. \A x \in C \cup {h} : f[x] \in C \cup {null}
        BY <1>a DEF IsChain
    <2>2. \A x \in C : f[x] # null => f[x] > x
        BY <1>a, <1>0 DEF Ordered
    <2> QED BY <1>a, <1>0, <2>1, <2>2
<1>2. \A q \in C \cup {h} : q # p => f[q] # n
    BY <1>a, <1>0, NoneShared
<1>3. f[n] # n /\ n > p
    BY <1>a, <1>0, <1>1
<1>4. D \subseteq C \ {n}
    <2>1. \A q \in (C \ {n}) \cup {h} : g[q] \in (C \ {n}) \cup {null}
        BY <1>a, <1>0, <1>1, <1>2, <1>3
    <2>2. C \ {n} \in SUBSET N
        BY <1>a, <1>0
    <2> QED BY <1>a, <2>1, <2>2 DEF IsChain
<1>5. p \in D \cup {h}
    <2> DEFINE S == {x \in C : x \in D \/ x > p}
    <2>1. ASSUME NEW q \in S \cup {h} PROVE f[q] \in S \cup {null}
        <3>1. f[q] \in C \cup {null} /\ q \in Int /\ (f[q] # null => f[q] > q) /\ p \in Int
            BY <1>a, <1>1
        <3>2. CASE q > p
            <4>1. f[q] # null => f[q] > p
                BY <1>a, <3>1, <3>2, ChainSteps
            <4> QED BY <1>a, <3>1, <4>1
        <3>3. CASE q = p
            BY <1>a, <3>1, <3>3, <1>0
        <3>4. CASE ~(q > p) /\ q # p
            <4>1. q \in D \cup {h} /\ g[q] = f[q]
                BY <1>a, <3>4
            <4>2. g[q] \in D \cup {null}
                BY <1>a, <4>1 DEF IsChain
            <4> QED BY <1>a, <3>1, <4>1, <4>2
        <3> QED BY <1>a, <3>2, <3>3, <3>4
    <2>2. S \in SUBSET N
        BY <1>a, <1>0
    <2> HIDE DEF S
    <2>3. C \subseteq S
        BY <1>a, <2>1, <2>2 DEF IsChain
    <2> QED BY <1>a, <2>3, <1>1 DEF S
<1>6. C \subseteq D \cup {n}
    <2> DEFINE S == D \cup {n}
    <2>1. ASSUME NEW q \in S \cup {h} PROVE f[q] \in S \cup {null}
        <3>1. CASE q = p
            BY <1>a, <3>1
        <3>2. CASE q = n
            <4>1. g[p] \in D \cup {null}
                BY <1>a, <1>5 DEF IsChain
            <4> QED BY <1>a, <3>2, <4>1
        <3>3. CASE q # p /\ q # n
            <4>1. q \in D \cup {h} /\ q \in C \cup {h}
                BY <1>a, <3>3, <1>4
            <4>2. g[q] \in D \cup {null} /\ g[q] = f[q]
                BY <1>a, <3>3, <4>1 DEF IsChain
            <4> QED BY <1>a, <4>2
        <3> QED BY <1>a, <3>1, <3>2, <3>3
    <2>2. S \in SUBSET N
        BY <1>a, <1>0 DEF IsChain
    <2> HIDE DEF S
    <2>3. C \subseteq S
        BY <1>a, <2>1, <2>2 DEF IsChain
    <2> QED BY <1>a, <2>3 DEF S
<1> QED BY <1>a, <1>4, <1>6

\* Every list has a last place.
LEMMA LastPlace ==
    ASSUME NEW N, NEW h, NEW f, NEW C, IsChain(C, h, f, N), Ordered(h, f, N),
           NEW n \in Nat, \A x \in N : x <= n
    PROVE  \E p \in C \cup {h} : f[p] = null
<1> SUFFICES ASSUME \A p \in C \cup {h} : f[p] # null PROVE FALSE
    OBVIOUS
<1>1. \A x \in C \cup {h} : x \in Int /\ f[x] \in C /\ f[x] \in Int /\ f[x] > x
    BY ChainSteps
<1>2. \A x \in C : x \in Nat /\ x <= n
    BY DEF IsChain, Ordered
<1> DEFINE S == {n - x : x \in C}
<1>3. S \in SUBSET Nat
    BY <1>2
<1>4. S # {}
    BY <1>1
<1> HIDE DEF S
<1>5. PICK m \in S : \A k \in S : m <= k
    BY <1>3, <1>4, LeastElement
<1>6. PICK x \in C : m = n - x
    BY DEF S
<1>7. f[x] \in C /\ f[x] \in Nat /\ f[x] > x
    BY <1>1, <1>2
<1>8. n - f[x] \in S
    BY <1>7 DEF S
<1>9. m <= n - f[x]
    BY <1>5, <1>8
<1> QED BY <1>2, <1>6, <1>7, <1>9
-----------------------------------------------------------------------------
(* What a step does to the lists of a map.                                 *)

ContentIsLeast == \A h \in Heads : IsChain(Content[h], h, next, Nodes)
MembersListed == \A k : k \in Members <=> \E h \in Heads : \E n \in Content[h] : value[n] = k

LEMMA ContentLeast == TypeInv => ContentIsLeast
<1> SUFFICES ASSUME TypeInv, NEW h \in Heads PROVE IsChain(Content[h], h, next, Nodes)
    BY DEF ContentIsLeast
<1>1. LeastChain(h)
    BY TypeFacts, ChainLeast
<1>2. Content[h] = Chain(h)
    BY DEF Content
<1> QED BY <1>1, <1>2 DEF LeastChain, IsChain

LEMMA MembersAre == TypeInv /\ MutexMap => MembersListed
<1> SUFFICES ASSUME TypeInv, MutexMap PROVE MembersListed
    OBVIOUS
<1>1. marked = {}
    BY DEF TypeInv, MarksOK, MutexMap
<1>2. \A h \in Heads : Content[h] = Chain(h)
    BY DEF Content
<1>3. InLists \ marked = UNION {Content[h] : h \in Heads}
    BY <1>1, <1>2 DEF InLists
<1> QED BY <1>3 DEF MembersListed, Members

\* The map stays the same, and with it the places and the list of every key.
LEMMA MapKept ==
    ASSUME UNCHANGED map
    PROVE  /\ Heads' = Heads /\ Nodes' = Nodes /\ Places' = Places /\ Buckets' = Buckets /\ Home' = Home
           /\ (filter' = filter => InFilter' = InFilter) /\ (MutexMap' <=> MutexMap)
<1>1. Buckets' = Buckets
    BY DEF Buckets, num_buckets
<1>2. Heads' = Heads /\ Nodes' = Nodes
    BY <1>1 DEF Heads, Nodes, m_head
<1>3. Home' = Home
    BY DEF Home, bucket, num_buckets, m_head
<1>4. filter' = filter => InFilter' = InFilter
    BY DEF InFilter, filter_mask, bucket, num_buckets
<1> QED BY <1>1, <1>2, <1>3, <1>4 DEF Places, MutexMap

LEMMA ContentFacts ==
    ASSUME TypeInv
    PROVE  /\ Home \in [Keys -> Heads] /\ Content = [h \in Heads |-> Content[h]]
           /\ \A h \in Heads : IsChain(Content[h], h, next, Nodes) /\ h \notin Nodes /\ h \in Places
           /\ InOrder => \A h \in Heads : Ordered(h, next, Nodes)
           /\ \A h \in Heads : \A p \in Content[h] \cup {h} : p \in Places
<1>1. Home \in [Keys -> Heads]
    BY TypeFacts, BucketFound DEF Home
<1>2. ContentIsLeast
    BY ContentLeast
<1>3. \A h \in Heads : h \notin Nodes /\ h \in Places /\ h \in Int /\ h < 0
    BY TypeFacts, PlacesApart DEF Places
<1>4. Nodes \subseteq Nat /\ null \notin Nodes
    BY TypeFacts, PlacesApart
<1>5. InOrder => \A h \in Heads : Ordered(h, next, Nodes)
    BY <1>3, <1>4 DEF InOrder, Ordered
<1>6. \A h \in Heads : Content[h] \subseteq Nodes
    BY <1>2 DEF ContentIsLeast, IsChain
<1>7. Nodes \subseteq Places
    BY DEF Places
<1> QED BY <1>1, <1>2, <1>3, <1>5, <1>6, <1>7 DEF ContentIsLeast, Content

LEMMA ContentNext ==
    ASSUME TypeInv', UNCHANGED map
    PROVE  \A h \in Heads : IsChain(Content'[h], h, next', Nodes)
<1>1. ContentIsLeast'
    BY ContentLeast, PTL
<1> QED BY <1>1, MapKept DEF ContentIsLeast

LEMMA MembersNext ==
    ASSUME TypeInv', MutexMap, UNCHANGED map
    PROVE  \A k : k \in Members' <=> \E h \in Heads : \E n \in Content'[h] : value'[n] = k
<1>1. MutexMap'
    BY MapKept
<1>2. MembersListed'
    BY <1>1, MembersAre, PTL
<1> QED BY <1>2, MapKept DEF MembersListed

\* A key of the map is in the list of its bucket.
LEMMA MemberAtHome ==
    ASSUME TypeInv, MutexMap, Shape, NEW k
    PROVE  k \in Members <=> k \in Keys /\ \E n \in Content[Home[k]] : value[n] = k
<1>1. MembersListed
    BY MembersAre
<1>2. \A n \in DOMAIN value : value[n] \in Keys
    BY TypeFacts
<1> QED BY <1>1, <1>2, ContentFacts DEF MembersListed, Shape, AtHome

LEMMA KeysFound == TypeInv /\ MutexMap /\ Shape => KeysInPlace
<1> SUFFICES ASSUME TypeInv, MutexMap, Shape PROVE KeysInPlace
    OBVIOUS
<1>1. marked = {} /\ \A h \in Heads : Content[h] = Chain(h)
    BY DEF TypeInv, MarksOK, MutexMap, Content
<1>2. \A h \in Heads : \A n \in Chain(h) : Home[value[n]] = h /\ value[n] \in InFilter /\ value[n] \in Keys
    BY <1>1, TypeFacts DEF Shape, AtHome
<1>3. ASSUME NEW m \in InLists, NEW n \in InLists, value[m] = value[n] PROVE m = n
    <2>1. PICK h \in Heads : m \in Chain(h)
        BY DEF InLists
    <2>2. PICK g \in Heads : n \in Chain(g)
        BY DEF InLists
    <2>3. g = h
        BY <1>2, <1>3, <2>1, <2>2
    <2> QED BY <1>1, <1>3, <2>1, <2>2, <2>3 DEF Shape, KeptOnce
<1>4. ASSUME NEW b_ \in Buckets, NEW n \in Chain(m_head(b_))
      PROVE  bucket(value[n]) = b_ /\ filter_mask(value[n]) \subseteq filter[b_]
    <2>1. m_head(b_) \in Heads
        BY DEF Heads
    <2>2. Home[value[n]] = m_head(b_) /\ value[n] \in InFilter /\ value[n] \in Keys
        BY <1>2, <2>1
    <2>3. m_head(bucket(value[n])) = m_head(b_) /\ bucket(value[n]) \in Buckets
        BY <2>2, TypeFacts, BucketFound DEF Home
    <2>4. bucket(value[n]) = b_
        BY <2>3, TypeFacts, PlacesApart
    <2> QED BY <2>2, <2>4 DEF InFilter
<1> QED BY <1>1, <1>3, <1>4 DEF KeysInPlace

\* A step that stores no pointer keeps the lists.
LEMMA HeapKept ==
    ASSUME TypeInv, TypeInv', MutexMap, Shape, UNCHANGED <<map, value, next>>, InFilter \subseteq InFilter'
    PROVE  Content' = Content /\ Shape' /\ Members' = Members
<1>1. /\ Heads' = Heads /\ Nodes' = Nodes /\ Home' = Home
      /\ \A h \in Heads : IsChain(Content'[h], h, next, Nodes) /\ IsChain(Content[h], h, next, Nodes)
    BY MapKept, ContentNext, ContentFacts
<1>2. \A h \in Heads : Content'[h] = Content[h]
    BY <1>1, ChainKept
<1>3. Content' = Content
    BY <1>1, <1>2 DEF Content
<1>4. Shape'
    BY <1>1, <1>3 DEF Shape, InOrder, AtHome, KeptOnce
<1>5. \A k : k \in Members' <=> k \in Members
    BY <1>3, MembersAre, MembersNext DEF MembersListed
<1> QED BY <1>3, <1>4, <1>5

\* A new node, with a key that was not there, behind the last place of its list.
LEMMA HeapAppended ==
    ASSUME TypeInv, TypeInv', MutexMap, Shape, UNCHANGED <<map, filter>>, NEW k \in InFilter,
           \A m \in Content[Home[k]] : value[m] # k,
           NEW p \in Content[Home[k]] \cup {Home[k]}, next[p] = null,
           next' = [next EXCEPT ![p] = NewNode], value' = Append(value, k)
    PROVE  /\ Content' = [Content EXCEPT ![Home[k]] = @ \cup {NewNode}] /\ Shape'
           /\ k \notin Members /\ Members' = Members \cup {k}
<1> DEFINE n == NewNode
           h == Home[k]
<1>1. k \in Keys /\ h \in Heads
    BY ContentFacts DEF InFilter
<1>2. /\ n \in DOMAIN value' /\ n \notin DOMAIN value /\ value'[n] = k /\ DOMAIN value' = DOMAIN value \cup {n}
      /\ \A m \in DOMAIN value : value'[m] = value[m]
    BY <1>1, NewNodeFacts
<1>3. /\ Heads' = Heads /\ Nodes' = Nodes /\ Home' = Home /\ InFilter' = InFilter
      /\ \A g \in Heads : IsChain(Content'[g], g, next', Nodes) /\ IsChain(Content[g], g, next, Nodes)
    BY MapKept, ContentNext, ContentFacts
<1>4. n \in Nodes /\ n \in Nat /\ n # null /\ \A m \in DOMAIN value : n > m
    <2>1. value' \in Seq(Keys) /\ Len(value') <= map.nodes
        BY DEF TypeInv, MapTypeOK
    <2>2. n \in Nodes
        BY <1>2, <2>1, TypeFacts DEF NewNode, Nodes
    <2> QED BY <2>2, TypeFacts DEF NewNode, null
<1>5. p \in Places /\ next \in [Places -> {null} \cup DOMAIN value] /\ n \in Places /\ n \notin Heads
    BY <1>1, <1>4, TypeFacts, PlacesApart, ContentFacts DEF Places
<1>6. AtHome /\ InOrder /\ KeptOnce
    BY DEF Shape
<1>7. n \notin Content[h] /\ p # n /\ next[n] = null
    BY <1>1, <1>2, <1>4, <1>5, <1>6 DEF AtHome, InOrder
<1> HIDE DEF n, h
<1>8. Content'[h] = Content[h] \cup {n}
    <2>1. next'[p] = n /\ next'[n] = null /\ \A q \in Content[h] \cup {h} : q # p => next'[q] = next[q]
        BY <1>1, <1>5, <1>7, ContentFacts DEF n
    <2>2. p \in Content[h] \cup {h} /\ h \notin Nodes /\ n # h
        BY <1>1, <1>4, ContentFacts DEF h
    <2>3. /\ IsChain(Content[h], h, next, Nodes) /\ IsChain(Content'[h], h, next', Nodes)
          /\ next[p] = null /\ n \in Nodes /\ n # null /\ n \notin Content[h]
        BY <1>1, <1>3, <1>4, <1>7 DEF h, n
    <2>4. AppendsTo(Content[h], Content'[h], h, next, next', Nodes, p, n)
        BY <2>1, <2>2, <2>3 DEF AppendsTo
    <2> QED BY <2>4, ChainAppended
<1>9. ASSUME NEW g \in Heads, g # h PROVE Content'[g] = Content[g]
    <2>1. p \notin Content[g] \cup {g}
        <3>1. CASE p = h
            BY <1>1, <1>3, <1>9, <3>1, ContentFacts DEF IsChain
        <3>2. CASE p \in Content[h]
            BY <1>1, <1>6, <1>9, <3>2, ContentFacts, <1>3 DEF AtHome, IsChain
        <3> QED BY <3>1, <3>2 DEF h
    <2>2. \A q \in Content[g] \cup {g} : next'[q] = next[q]
        BY <1>5, <2>1, ContentFacts
    <2>3. IsChain(Content[g], g, next, Nodes) /\ IsChain(Content'[g], g, next', Nodes)
        BY <1>3
    <2> QED BY <2>2, <2>3, ChainKept
<1>10. Content' = [Content EXCEPT ![h] = Content[h] \cup {n}]
    <2>1. Content = [g \in Heads |-> Content[g]] /\ Content' = [g \in Heads |-> Content'[g]]
        BY <1>3 DEF Content
    <2> QED BY <1>1, <1>8, <1>9, <2>1
<1>11. AtHome'
    <2> SUFFICES ASSUME NEW g \in Heads, NEW m \in Content'[g]
                 PROVE  m \in DOMAIN value' /\ Home[value'[m]] = g /\ value'[m] \in InFilter
        BY <1>3 DEF AtHome
    <2>1. CASE m \in Content[g]
        BY <1>2, <1>6, <2>1 DEF AtHome
    <2>2. CASE m = n /\ g = h
        BY <1>2, <2>2 DEF n, h
    <2> QED BY <1>8, <1>9, <2>1, <2>2
<1>12. KeptOnce'
    <2> SUFFICES ASSUME NEW g \in Heads, NEW m \in Content'[g], NEW o \in Content'[g], value'[m] = value'[o]
                 PROVE  m = o
        BY <1>3 DEF KeptOnce
    <2>1. \A x \in Content[g] : value'[x] = value[x]
        BY <1>2, <1>6 DEF AtHome
    <2>2. CASE m \in Content[g] /\ o \in Content[g]
        BY <1>6, <2>1, <2>2 DEF KeptOnce
    <2>3. \A x \in Content[h] : value[x] # k
        BY DEF h
    <2>4. value'[n] = k
        BY <1>2 DEF n
    <2>5. CASE g = h
        <3>1. m \in Content[g] \cup {n} /\ o \in Content[g] \cup {n}
            BY <1>8, <2>5
        <3>2. \A x \in Content[g] : value'[x] # value'[n]
            BY <2>1, <2>3, <2>4, <2>5
        <3> QED BY <2>2, <3>1, <3>2
    <2> QED BY <1>9, <2>2, <2>5
<1>13. InOrder'
    <2> SUFFICES ASSUME NEW q \in Nodes, next'[q] # null PROVE next'[q] > q /\ q \in DOMAIN value'
        BY <1>3 DEF InOrder
    <2>1. CASE q = p
        <3>1. next'[q] = n /\ q \in Content[h] /\ q \in DOMAIN value
            BY <1>1, <1>5, <1>6, <2>1, ContentFacts DEF AtHome, n, h
        <3> QED BY <3>1, <1>2, <1>4 DEF n
    <2>2. CASE q # p
        <3>1. next'[q] = next[q]
            BY <1>5, <2>2 DEF Places
        <3> QED BY <3>1, <1>2, <1>6 DEF InOrder
    <2> QED BY <2>1, <2>2
<1>14. k \notin Members
    BY MemberAtHome
<1>15. \A x : x \in Members' <=> x \in Members \cup {k}
    <2>1. \A g \in Heads : \A m \in Content[g] : value'[m] = value[m]
        BY <1>2, <1>6 DEF AtHome
    <2>2. value'[n] = k
        BY <1>2 DEF n
    <2>3. ASSUME NEW x PROVE (\E g \in Heads : \E m \in Content'[g] : value'[m] = x) <=>
                              (x = k \/ \E g \in Heads : \E m \in Content[g] : value[m] = x)
        <3>1. ASSUME NEW g \in Heads, NEW m \in Content'[g], value'[m] = x
              PROVE  x = k \/ \E e \in Heads : \E o \in Content[e] : value[o] = x
            <4>1. m \in Content[g] \/ m = n
                BY <1>8, <1>9
            <4> QED BY <2>1, <2>2, <3>1, <4>1
        <3>2. ASSUME NEW g \in Heads, NEW m \in Content[g], value[m] = x
              PROVE  m \in Content'[g] /\ value'[m] = x
            BY <1>8, <1>9, <2>1, <3>2
        <3>3. n \in Content'[h]
            BY <1>8
        <3> QED BY <1>1, <2>2, <3>1, <3>2, <3>3
    <2>4. MembersListed
        BY MembersAre
    <2> QED BY <2>3, <2>4, MembersNext DEF MembersListed
<1> QED BY <1>10, <1>11, <1>12, <1>13, <1>14, <1>15 DEF Shape, n, h

\* A node is passed by.
LEMMA HeapRemoved ==
    ASSUME TypeInv, TypeInv', MutexMap, Shape, UNCHANGED <<map, filter, value>>, NEW k \in Keys,
           NEW p \in Content[Home[k]] \cup {Home[k]}, NEW n \in Content[Home[k]], next[p] = n, value[n] = k,
           next' = [next EXCEPT ![p] = next[n]]
    PROVE  /\ Content' = [Content EXCEPT ![Home[k]] = @ \ {n}] /\ Shape'
           /\ k \in Members /\ Members' = Members \ {k}
<1> DEFINE h == Home[k]
<1>1. h \in Heads
    BY ContentFacts
<1>3. /\ Heads' = Heads /\ Nodes' = Nodes /\ Home' = Home /\ InFilter' = InFilter
      /\ \A g \in Heads : IsChain(Content'[g], g, next', Nodes) /\ IsChain(Content[g], g, next, Nodes)
    BY MapKept, ContentNext, ContentFacts
<1>6. AtHome /\ InOrder /\ KeptOnce
    BY DEF Shape
<1>5. /\ p \in Places /\ next \in [Places -> {null} \cup DOMAIN value] /\ p \in Content[h] \cup {h} /\ n \in Content[h]
      /\ n \in Nodes /\ n \in Nat /\ h \notin Nodes /\ n # null
    BY <1>1, <1>3, TypeFacts, PlacesApart, ContentFacts DEF Places, IsChain
<1> HIDE DEF h
<1>8. Content'[h] = Content[h] \ {n}
    <2>1. next'[p] = next[n] /\ \A q \in Content[h] \cup {h} : q # p => next'[q] = next[q]
        BY <1>1, <1>5, ContentFacts
    <2>2. Ordered(h, next, Nodes)
        BY <1>1, <1>6, ContentFacts
    <2>3. IsChain(Content[h], h, next, Nodes) /\ IsChain(Content'[h], h, next', Nodes) /\ next[p] = n
        BY <1>1, <1>3
    <2>4. PassesBy(Content[h], Content'[h], h, next, next', Nodes, p, n)
        BY <1>5, <2>1, <2>2, <2>3 DEF PassesBy
    <2> QED BY <2>4, ChainRemoved
<1>9. ASSUME NEW g \in Heads, g # h PROVE Content'[g] = Content[g]
    <2>1. p \notin Content[g] \cup {g}
        <3>1. CASE p = h
            BY <1>1, <1>3, <1>9, <3>1, ContentFacts DEF IsChain
        <3>2. CASE p \in Content[h]
            BY <1>1, <1>6, <1>9, <3>2, ContentFacts, <1>3 DEF AtHome, IsChain
        <3> QED BY <1>5, <3>1, <3>2
    <2>2. \A q \in Content[g] \cup {g} : next'[q] = next[q]
        BY <1>5, <2>1, ContentFacts
    <2>3. IsChain(Content[g], g, next, Nodes) /\ IsChain(Content'[g], g, next', Nodes)
        BY <1>3
    <2> QED BY <2>2, <2>3, ChainKept
<1>10. Content' = [Content EXCEPT ![h] = Content[h] \ {n}]
    <2>1. Content = [g \in Heads |-> Content[g]] /\ Content' = [g \in Heads |-> Content'[g]]
        BY <1>3 DEF Content
    <2> QED BY <1>1, <1>8, <1>9, <2>1
<1>2. \A g \in Heads : Content'[g] \subseteq Content[g]
    BY <1>8, <1>9
<1>11. AtHome' /\ KeptOnce'
    BY <1>2, <1>3, <1>6 DEF AtHome, KeptOnce
<1>13. InOrder'
    <2> SUFFICES ASSUME NEW q \in Nodes, next'[q] # null PROVE next'[q] > q /\ q \in DOMAIN value
        BY <1>3 DEF InOrder
    <2>1. CASE q = p
        <3>1. next'[q] = next[n] /\ next[q] = n /\ n > q
            BY <1>5, <1>6, <2>1 DEF InOrder
        <3>2. next[n] > n /\ q \in DOMAIN value
            BY <1>5, <1>6, <3>1 DEF InOrder
        <3>3. q \in Nat /\ next[n] \in Nat
            <4>1. next[n] \in {null} \cup DOMAIN value /\ \A o \in Nodes : o \in Nat
                BY <1>5, TypeFacts, PlacesApart DEF Places
            <4>2. \A o \in DOMAIN value : o \in Nat
                BY TypeFacts
            <4> QED BY <4>1, <4>2 DEF null
        <3> QED BY <1>5, <3>1, <3>2, <3>3
    <2>2. CASE q # p
        <3>1. next'[q] = next[q]
            BY <1>5, <2>2 DEF Places
        <3> QED BY <3>1, <1>6 DEF InOrder
    <2> QED BY <2>1, <2>2
<1>14. k \in Members
    BY <1>5, MemberAtHome DEF h
<1>15. \A x : x \in Members' <=> x \in Members \ {k}
    <2>1. \A g \in Heads : \A m \in Content[g] : value[m] = k => g = h /\ m = n
        BY <1>5, <1>6 DEF AtHome, KeptOnce, h
    <2> QED BY <1>1, <1>8, <1>9, <2>1, MembersAre, MembersNext DEF MembersListed
<1> QED BY <1>10, <1>11, <1>13, <1>14, <1>15 DEF Shape, h
-----------------------------------------------------------------------------
(* The lists with mutexes: a step of one thread and all the others.        *)

\* The step is one of the set of keys, or none.
SetStep == Set!SetNext \/ UNCHANGED <<Members, call, answer, seen>>

\* What a step may leave a thread with: the next step x of a call k with answer a.
Reaches(x, k, ans) ==
    /\ x \in {"idle", "filter", "start", "walk", "return"}
    /\ x = "idle" <=> k = NoCall
    /\ x = "return" <=> ans # "open"
    /\ x = "walk" => map.list = "node_mutex_list"

LEMMA WatchSees ==
    ASSUME Watch
    PROVE  seen' = [u \in Threads |-> seen'[u]] /\ (\A u \in Threads : SeenOK(u)') /\ Set!See
<1>1. seen' = [u \in Threads |->
            IF call'[u] = NoCall THEN {}
            ELSE (IF call[u] = NoCall THEN {} ELSE seen[u]) \cup {call'[u].key \in Members'}]
    BY DEF Watch
<1>2. Set!See
    BY <1>1 DEF Set!See
<1>3. ASSUME NEW u \in Threads PROVE SeenOK(u)'
    <2>1. seen'[u] = IF call'[u] = NoCall THEN {}
                     ELSE (IF call[u] = NoCall THEN {} ELSE seen[u]) \cup {call'[u].key \in Members'}
        BY <1>1
    <2> QED BY <2>1 DEF SeenOK
<1> QED BY <1>1, <1>2, <1>3

LEMMA StepInv ==
    ASSUME TypeInv, MutexInv, NEW t \in Threads, NEW x, NEW l, NEW k, NEW ans, Moves(t, x, l, k, ans),
           UNCHANGED map, InFilter \subseteq InFilter', Watch,
           Reaches(x, k, ans), x \in {"start", "walk"} /\ k.op = "insert" => k.key \in InFilter',
           Shape', Exclusive', \A u \in Threads : WalkOK(u)'
    PROVE  MutexInv'
<1>1. /\ pc \in [Threads -> PCs] /\ call \in [Threads -> Calls \cup {NoCall}]
      /\ answer \in [Threads -> {"open", "yes", "no"}]
    BY TypeFacts
<1>2. ASSUME NEW u \in Threads PROVE CallOK(u)'
    <2>1. CASE u = t
        <3>1. pc'[u] = x /\ call'[u] = k /\ answer'[u] = ans
            BY <1>1, <2>1 DEF Moves
        <3> QED BY <3>1 DEF CallOK, Reaches
    <2>2. CASE u # t
        <3>1. pc'[u] = pc[u] /\ call'[u] = call[u] /\ answer'[u] = answer[u] /\ CallOK(u)
            BY <1>1, <2>2 DEF Moves, MutexInv
        <3> QED BY <3>1 DEF CallOK
    <2> QED BY <2>1, <2>2
<1>3. seen' = [u \in Threads |-> seen'[u]] /\ \A u \in Threads : SeenOK(u)'
    BY WatchSees
<1> QED BY <1>2, <1>3 DEF MutexInv

\* A thread that walks where no pointer changes goes on to stand.
LEMMA WalkStays ==
    ASSUME TypeInv, UNCHANGED map, NEW u \in Threads, WalkOK(u),
           pc'[u] = pc[u], at'[u] = at[u], call'[u] = call[u],
           \A p \in Places : u \in holders'[p] <=> u \in holders[p],
           pc[u] = "walk" =>
               /\ at[u].prev \in Content'[Home[call[u].key]] \cup {Home[call[u].key]}
               /\ next'[at[u].prev] = next[at[u].prev]
               /\ \A m \in Content'[Home[call[u].key]] :
                    \/ m \in Content[Home[call[u].key]] /\ value'[m] = value[m]
                    \/ m > at[u].prev
    PROVE  WalkOK(u)'
<1>1. Places' = Places /\ Home' = Home
    BY MapKept
<1>2. CASE pc[u] # "walk"
    BY <1>1, <1>2 DEF WalkOK, HoldsAt
<1>3. CASE pc[u] = "walk"
    <2>1. Stands(u) /\ HoldsAt(u, {at[u].prev})
        BY <1>3 DEF WalkOK
    <2>2. Stands(u)'
        BY <1>1, <1>3, <2>1 DEF Stands
    <2>3. HoldsAt(u, {at[u].prev})'
        BY <1>1, <2>1 DEF HoldsAt
    <2> QED BY <1>3, <2>2, <2>3 DEF WalkOK
<1> QED BY <1>2, <1>3

\* The mutexes that t locks and unlocks: those of the others stay, and no one but readers
\* share one.
OthersHold(t) == \A u \in Threads : u # t => \A p \in Places : u \in holders'[p] <=> u \in holders[p]

LEMMA HandsOver ==
    ASSUME TypeInv, MutexInv, NEW t \in Threads, NEW locked \in Places \cup {null}, NEW unlocked,
           HandOver(t, locked, unlocked), UNCHANGED <<map, call>>, HoldsAt(t, {unlocked})
    PROVE  OthersHold(t) /\ Exclusive' /\ HoldsAt(t, {locked})'
<1>1. Places' = Places /\ null \notin Places /\ \A p \in Places : holders[p] \in SUBSET Threads
    BY MapKept, TypeFacts, PlacesApart
<1>2. \A p \in Places : holders'[p] =
            IF p = locked THEN holders[p] \cup {t} ELSE IF p = unlocked THEN holders[p] \ {t} ELSE holders[p]
    BY DEF HandOver
<1>3. OthersHold(t)
    BY <1>2 DEF OthersHold
<1>4. HoldsAt(t, {locked})'
    BY <1>1, <1>2 DEF HoldsAt
<1>5. ASSUME NEW p \in Places, NEW u \in holders'[p], NEW v \in holders'[p], u # v
      PROVE  call[u].op = "find" /\ call[v].op = "find"
    <2>1. \A w \in holders'[p] : w \in holders[p] \/ (w = t /\ p = locked)
        <3>1. CASE p = locked
            BY <1>2, <3>1
        <3>2. CASE p # locked
            <4>1. holders'[p] \subseteq holders[p]
                BY <1>2, <3>2
            <4> QED BY <4>1
        <3> QED BY <3>1, <3>2
    <2>2. p = locked => CanLock(t, p)
        BY <1>1 DEF HandOver
    <2>3. CASE u \in holders[p] /\ v \in holders[p]
        BY <1>5, <2>3 DEF MutexInv, Exclusive
    <2>4. CASE u = t /\ p = locked /\ v \in holders[p]
        BY <2>2, <2>4 DEF CanLock
    <2>5. CASE v = t /\ p = locked /\ u \in holders[p]
        BY <2>2, <2>5 DEF CanLock
    <2> QED BY <1>5, <2>1, <2>3, <2>4, <2>5
<1>6. Exclusive'
    BY <1>1, <1>5 DEF Exclusive
<1> QED BY <1>3, <1>4, <1>6

\* A thread that holds no mutex is not in the way of the others.
LEMMA HoldsNothing ==
    ASSUME TypeInv, MutexInv, NEW t \in Threads, HoldsAt(t, {}), UNCHANGED <<map, holders>>,
           \A u \in Threads : u # t => call'[u] = call[u]
    PROVE  OthersHold(t) /\ Exclusive' /\ HoldsAt(t, {})'
<1>1. Places' = Places /\ \A p \in Places : t \notin holders[p] /\ holders[p] \in SUBSET Threads
    BY MapKept, TypeFacts DEF HoldsAt
<1>2. Exclusive'
    BY <1>1 DEF MutexInv, Exclusive
<1> QED BY <1>1, <1>2 DEF OthersHold, HoldsAt

\* What is so of a call under way.
LEMMA CallFacts ==
    ASSUME TypeInv, MutexInv, NEW t \in Threads, pc[t] # "idle"
    PROVE  /\ call[t] \in Calls /\ call[t] # NoCall /\ call[t].key \in Keys /\ Home[call[t].key] \in Heads
           /\ Home[call[t].key] = m_head(bucket(call[t].key)) /\ Place(t) = Home[call[t].key]
           /\ (pc[t] # "return" => answer[t] = "open")
           /\ CallOK(t) /\ WalkOK(t) /\ (call[t].key \in Members) \in seen[t]
           /\ (pc[t] = "walk" => Stands(t) /\ HoldsAt(t, {at[t].prev}))
           /\ (pc[t] # "walk" => HoldsAt(t, {}))
<1>1. call[t] \in Calls
    BY DEF TypeInv, ThreadOK
<1>2. call[t] # NoCall /\ call[t].key \in Keys /\ Home[call[t].key] \in Heads
    BY <1>1, TypeFacts, ContentFacts
<1>3. Home[call[t].key] = m_head(bucket(call[t].key))
    BY <1>2 DEF Home
<1>4. CallOK(t) /\ WalkOK(t) /\ SeenOK(t)
    BY DEF MutexInv
<1> QED BY <1>1, <1>2, <1>3, <1>4 DEF CallOK, WalkOK, SeenOK, Place

\* A step that stores no pointer.
LEMMA KeptStep ==
    ASSUME TypeInv, TypeInv', MutexMap, MutexInv, NEW t \in Threads, NEW x, NEW l, NEW k, NEW ans,
           Moves(t, x, l, k, ans), UNCHANGED <<map, value, next>>, InFilter \subseteq InFilter', Watch,
           Reaches(x, k, ans), x \in {"start", "walk"} /\ k.op = "insert" => k.key \in InFilter',
           OthersHold(t), Exclusive', WalkOK(t)'
    PROVE  MutexInv' /\ Members' = Members
<1>1. Content' = Content /\ Shape' /\ Members' = Members
    BY HeapKept DEF MutexInv
<1>2. ASSUME NEW u \in Threads PROVE WalkOK(u)'
    <2>1. CASE u # t
        <3>1. pc'[u] = pc[u] /\ at'[u] = at[u] /\ call'[u] = call[u] /\ WalkOK(u)
            BY <2>1, TypeFacts DEF Moves, MutexInv
        <3>2. \A p \in Places : u \in holders'[p] <=> u \in holders[p]
            BY <2>1 DEF OthersHold
        <3>3. pc[u] = "walk" => at[u].prev \in Content[Home[call[u].key]] \cup {Home[call[u].key]}
            BY <3>1 DEF WalkOK, Stands
        <3>4. next' = next /\ value' = value
            OBVIOUS
        <3> QED BY <1>1, <3>1, <3>2, <3>3, <3>4, WalkStays
    <2> QED BY <2>1
<1> QED BY <1>1, <1>2, StepInv

\* A node with the key of an insert() gets linked, and nobody else walks where it is.
LEMMA AppendStep ==
    ASSUME TypeInv, TypeInv', MutexMap, MutexInv, NEW t \in Threads, pc[t] \in {"start", "walk"},
           call[t].op = "insert", \A m \in Content[Home[call[t].key]] : value[m] # call[t].key,
           NEW p \in Content[Home[call[t].key]] \cup {Home[call[t].key]}, next[p] = null,
           next' = [next EXCEPT ![p] = NewNode], value' = Append(value, call[t].key), Answer(t, "yes"),
           UNCHANGED <<map, filter, call>>, Watch, OthersHold(t), Exclusive', HoldsAt(t, {})',
           \A u \in Threads : u # t /\ pc[u] = "walk" => at[u].prev # p
    PROVE  MutexInv' /\ SetStep
<1> DEFINE k == call[t].key
           h == Home[k]
<1>0. /\ k \in Keys /\ h \in Heads /\ call[t] # NoCall /\ call[t] \in Calls /\ answer[t] = "open" /\ k \in InFilter
      /\ InFilter' = InFilter /\ Shape
    BY CallFacts, MapKept DEF CallOK, MutexInv
<1>1. /\ Content' = [Content EXCEPT ![h] = @ \cup {NewNode}] /\ Shape'
      /\ k \notin Members /\ Members' = Members \cup {k}
    BY <1>0, HeapAppended
<1>2. Moves(t, "return", NoLocals, call[t], "yes")
    BY AnswerMoves
<1>3. Reaches("return", call[t], "yes")
    BY <1>0 DEF Reaches
<1>4. \A m \in DOMAIN value : value'[m] = value[m] /\ NewNode > m
    BY <1>0, NewNodeFacts, TypeFacts DEF NewNode
<1>5. ASSUME NEW u \in Threads PROVE WalkOK(u)'
    <2>1. CASE u = t
        <3>1. pc'[t] = "return"
            BY <1>2, TypeFacts DEF Moves
        <3> QED BY <2>1, <3>1 DEF WalkOK
    <2>2. CASE u # t
        <3>1. pc'[u] = pc[u] /\ at'[u] = at[u] /\ call'[u] = call[u] /\ WalkOK(u)
            BY <1>2, <2>2, TypeFacts DEF Moves, MutexInv
        <3>2. \A q \in Places : u \in holders'[q] <=> u \in holders[q]
            BY <2>2 DEF OthersHold
        <3>3. ASSUME pc[u] = "walk"
              PROVE  /\ at[u].prev \in Content'[Home[call[u].key]] \cup {Home[call[u].key]}
                     /\ next'[at[u].prev] = next[at[u].prev]
                     /\ \A m \in Content'[Home[call[u].key]] :
                            \/ m \in Content[Home[call[u].key]] /\ value'[m] = value[m]
                            \/ m > at[u].prev
            <4> DEFINE g == Home[call[u].key]
            <4>1. g \in Heads /\ at[u].prev \in Content[g] \cup {g} /\ at[u].prev # p
                BY <2>2, <3>3, CallFacts DEF Stands
            <4>2. \A m \in Content[g] : m \in DOMAIN value
                BY <1>0, <4>1 DEF Shape, AtHome
            <4> HIDE DEF g, k, h
            <4>3. Content'[g] = Content[g] \/ Content'[g] = Content[g] \cup {NewNode}
                BY <1>0, <1>1, <4>1, ContentFacts
            <4>4. next'[at[u].prev] = next[at[u].prev]
                BY <4>1, TypeFacts, ContentFacts
            <4>5. NewNode > at[u].prev
                <5>1. CASE at[u].prev = g
                    BY <4>1, <5>1, TypeFacts, PlacesApart DEF NewNode
                <5> QED BY <4>1, <4>2, <1>4, <5>1
            <4> QED BY <1>4, <4>1, <4>2, <4>3, <4>4, <4>5 DEF g
        <3> QED BY <3>1, <3>2, <3>3, WalkStays
    <2> QED BY <2>1, <2>2
<1>6. MutexInv'
    BY <1>0, <1>1, <1>2, <1>3, <1>5, StepInv
<1>7. Set!Change(t)
    BY <1>0, <1>1, WatchSees DEF Set!Change, Answer
<1> QED BY <1>6, <1>7 DEF SetStep, Set!SetNext

\* The node with the key of an erase() is passed by, and nobody else is on it or before it.
LEMMA RemoveStep ==
    ASSUME TypeInv, TypeInv', MutexMap, MutexInv, NEW t \in Threads, pc[t] \in {"start", "walk"},
           call[t].op = "erase", NEW n \in Content[Home[call[t].key]], value[n] = call[t].key,
           NEW p \in Content[Home[call[t].key]] \cup {Home[call[t].key]}, next[p] = n,
           next' = [next EXCEPT ![p] = next[n]], Answer(t, "yes"),
           UNCHANGED <<map, filter, value, call>>, Watch, OthersHold(t), Exclusive', HoldsAt(t, {})',
           \A u \in Threads : u # t /\ pc[u] = "walk" => at[u].prev # p /\ at[u].prev # n
    PROVE  MutexInv' /\ SetStep
<1> DEFINE k == call[t].key
           h == Home[k]
<1>0. /\ k \in Keys /\ h \in Heads /\ call[t] # NoCall /\ call[t] \in Calls /\ answer[t] = "open"
      /\ InFilter' = InFilter /\ Shape
    BY CallFacts, MapKept DEF MutexInv
<1>1. /\ Content' = [Content EXCEPT ![h] = @ \ {n}] /\ Shape'
      /\ k \in Members /\ Members' = Members \ {k}
    BY <1>0, HeapRemoved
<1>2. Moves(t, "return", NoLocals, call[t], "yes")
    BY AnswerMoves
<1>3. Reaches("return", call[t], "yes")
    BY <1>0 DEF Reaches
<1>5. ASSUME NEW u \in Threads PROVE WalkOK(u)'
    <2>1. CASE u = t
        <3>1. pc'[t] = "return"
            BY <1>2, TypeFacts DEF Moves
        <3> QED BY <2>1, <3>1 DEF WalkOK
    <2>2. CASE u # t
        <3>1. pc'[u] = pc[u] /\ at'[u] = at[u] /\ call'[u] = call[u] /\ WalkOK(u)
            BY <1>2, <2>2, TypeFacts DEF Moves, MutexInv
        <3>2. \A q \in Places : u \in holders'[q] <=> u \in holders[q]
            BY <2>2 DEF OthersHold
        <3>3. ASSUME pc[u] = "walk"
              PROVE  /\ at[u].prev \in Content'[Home[call[u].key]] \cup {Home[call[u].key]}
                     /\ next'[at[u].prev] = next[at[u].prev]
                     /\ \A m \in Content'[Home[call[u].key]] :
                            \/ m \in Content[Home[call[u].key]] /\ value'[m] = value[m]
                            \/ m > at[u].prev
            <4> DEFINE g == Home[call[u].key]
            <4>1. g \in Heads /\ at[u].prev \in Content[g] \cup {g} /\ at[u].prev # p /\ at[u].prev # n
                BY <2>2, <3>3, CallFacts DEF Stands
            <4> HIDE DEF g, k, h
            <4>3. Content'[g] = Content[g] \/ Content'[g] = Content[g] \ {n}
                BY <1>0, <1>1, <4>1, ContentFacts
            <4>4. next'[at[u].prev] = next[at[u].prev]
                BY <4>1, TypeFacts, ContentFacts
            <4> QED BY <4>1, <4>3, <4>4 DEF g
        <3> QED BY <3>1, <3>2, <3>3, WalkStays
    <2> QED BY <2>1, <2>2
<1>6. MutexInv'
    BY <1>0, <1>1, <1>2, <1>3, <1>5, StepInv
<1>7. Set!Change(t)
    BY <1>0, <1>1, WatchSees DEF Set!Change, Answer
<1> QED BY <1>6, <1>7 DEF SetStep, Set!SetNext

\* A call that decides what it has seen.
LEMMA AnswerStep ==
    ASSUME TypeInv, TypeInv', MutexMap, MutexInv, NEW t \in Threads, pc[t] \in {"filter", "start", "walk"},
           NEW ans \in {"yes", "no"}, Answer(t, ans), UNCHANGED <<map, filter, value, next, call>>, Watch,
           OthersHold(t), Exclusive', HoldsAt(t, {})',
           IF call[t].op = "insert" THEN ans = "no" /\ call[t].key \in Members
           ELSE IF ans = "yes" THEN call[t].op = "find" /\ call[t].key \in Members
           ELSE call[t].key \notin Members
    PROVE  MutexInv' /\ SetStep
<1>1. call[t] # NoCall /\ answer[t] = "open" /\ (call[t].key \in Members) \in seen[t]
    BY CallFacts
<1>2. Moves(t, "return", NoLocals, call[t], ans)
    BY AnswerMoves
<1>3. Reaches("return", call[t], ans)
    BY <1>1 DEF Reaches
<1>4. InFilter' = InFilter
    BY MapKept
<1>5. WalkOK(t)'
    <2>1. pc'[t] = "return"
        BY <1>2, TypeFacts DEF Moves
    <2> QED BY <2>1 DEF WalkOK
<1>6. MutexInv' /\ Members' = Members
    BY <1>2, <1>3, <1>4, <1>5, KeptStep
<1>7. Set!Decide(t)
    <2>1. (call[t].key \in Members => TRUE \in seen[t]) /\ (call[t].key \notin Members => FALSE \in seen[t])
        <3>1. CASE call[t].key \in Members
            <4>1. (call[t].key \in Members) = TRUE
                BY <3>1
            <4> QED BY <1>1, <3>1, <4>1
        <3>2. CASE call[t].key \notin Members
            <4>1. (call[t].key \in Members) = FALSE
                BY <3>2
            <4> QED BY <1>1, <3>2, <4>1
        <3> QED BY <3>1, <3>2
    <2>2. answer' = [answer EXCEPT ![t] = ans] /\ Set!See
        BY WatchSees DEF Answer
    <2> QED BY <1>1, <1>6, <2>1, <2>2 DEF Set!Decide
<1> QED BY <1>6, <1>7 DEF SetStep, Set!SetNext

\* A step inside of a call changes nothing of the set.
LEMMA NothingSeen ==
    ASSUME TypeInv, MutexInv, Members' = Members, UNCHANGED <<call, answer>>, Watch
    PROVE  SetStep
<1>1. \A u \in Threads : IF call[u] = NoCall THEN seen[u] = {} ELSE (call[u].key \in Members) \in seen[u]
    BY DEF MutexInv, SeenOK
<1>2. \A u \in Threads : seen'[u] = seen[u]
    BY <1>1 DEF Watch
<1>3. seen = [u \in Threads |-> seen[u]] /\ seen' = [u \in Threads |-> seen'[u]]
    BY WatchSees DEF MutexInv
<1>4. seen' = seen
    BY <1>2, <1>3
<1> QED BY <1>4 DEF SetStep
-----------------------------------------------------------------------------
(* The lists with mutexes: the steps of all maps.                          *)

LEMMA BeginCallKept ==
    ASSUME TypeInv, TypeInv', MutexMap, MutexInv, NEW t \in Threads, BeginCall(t)
    PROVE  MutexInv' /\ SetStep
<1>0. /\ pc[t] = "idle" /\ CallOK(t) /\ WalkOK(t) /\ UNCHANGED <<map, filter, value, next, holders, answer>> /\ Watch
      /\ call[t] = NoCall /\ answer[t] = "open"
    BY TypeFacts DEF BeginCall, around, heap, MutexInv, CallOK
<1>1. PICK cl \in Calls : call' = [call EXCEPT ![t] = cl]
    BY DEF BeginCall
<1>2. PICK x \in {"start", "filter"} : pc' = [pc EXCEPT ![t] = x] /\ (x = "start" => map.filters = 0)
    BY DEF BeginCall
<1>3. Moves(t, x, at[t], cl, answer[t]) /\ cl # NoCall /\ cl.key \in Keys
    BY <1>1, <1>2, TypeFacts DEF BeginCall, Moves, Calls
<1>4. InFilter' = InFilter /\ (x = "start" => cl.key \in InFilter)
    <2>1. x = "start" => filter_mask(cl.key) = {}
        BY <1>2 DEF filter_mask
    <2> QED BY <1>0, <1>3, <2>1, MapKept DEF InFilter
<1>5. OthersHold(t) /\ Exclusive' /\ HoldsAt(t, {})'
    BY <1>0, <1>1, TypeFacts, HoldsNothing DEF WalkOK
<1>6. Reaches(x, cl, answer[t])
    BY <1>0, <1>2, <1>3 DEF Reaches
<1>7. WalkOK(t)'
    BY <1>2, <1>5, TypeFacts DEF WalkOK
<1>8. MutexInv' /\ Members' = Members
    BY <1>0, <1>3, <1>4, <1>5, <1>6, <1>7, KeptStep
<1>9. Set!Begin(t)
    BY <1>0, <1>1, <1>8, WatchSees DEF Set!Begin
<1> QED BY <1>8, <1>9 DEF SetStep, Set!SetNext

\* A step to "start", when the bits of the key are set, or need not be.
LEMMA StartsKept ==
    ASSUME TypeInv, TypeInv', MutexMap, MutexInv, NEW t \in Threads, pc[t] = "filter",
           pc' = [pc EXCEPT ![t] = "start"], UNCHANGED <<map, value, next, holders, at, call, answer>>, Watch,
           InFilter \subseteq InFilter', call[t].op = "insert" => call[t].key \in InFilter'
    PROVE  MutexInv' /\ SetStep
<1>0. call[t] # NoCall /\ answer[t] = "open" /\ HoldsAt(t, {})
    BY CallFacts
<1>1. Moves(t, "start", at[t], call[t], answer[t])
    BY TypeFacts DEF Moves
<1>2. OthersHold(t) /\ Exclusive' /\ HoldsAt(t, {})'
    BY <1>0, HoldsNothing
<1>3. Reaches("start", call[t], answer[t])
    BY <1>0 DEF Reaches
<1>4. WalkOK(t)'
    BY <1>2, TypeFacts DEF WalkOK
<1>5. MutexInv' /\ Members' = Members
    BY <1>0, <1>1, <1>2, <1>3, <1>4, KeptStep
<1> QED BY <1>5, NothingSeen

LEMMA SetBitsKept ==
    ASSUME TypeInv, TypeInv', MutexMap, MutexInv, NEW t \in Threads, SetBits(t)
    PROVE  MutexInv' /\ SetStep
<1> DEFINE k == call[t].key
<1>0. /\ pc[t] = "filter" /\ pc' = [pc EXCEPT ![t] = "start"] /\ Watch
      /\ UNCHANGED <<map, value, next, holders, at, call, answer>>
      /\ filter' = [filter EXCEPT ![bucket(k)] = @ \cup filter_mask(k)]
    BY DEF SetBits, heap
<1>1. k \in Keys /\ filter \in [Buckets -> SUBSET (0 .. 63)] /\ bucket(k) \in Buckets
    BY <1>0, CallFacts, TypeFacts, BucketFound
<1>2. \A b_ \in Buckets : filter[b_] \subseteq filter'[b_]
    BY <1>0, <1>1
<1>3. filter_mask(k) \subseteq filter'[bucket(k)]
    BY <1>0, <1>1
<1> HIDE DEF k
<1>4. InFilter' = {x \in Keys : filter_mask(x) \subseteq filter'[bucket(x)]}
    BY <1>0 DEF InFilter, filter_mask, bucket, num_buckets
<1>5. InFilter \subseteq InFilter'
    <2> SUFFICES ASSUME NEW x \in InFilter PROVE x \in InFilter'
        OBVIOUS
    <2>1. x \in Keys /\ filter_mask(x) \subseteq filter[bucket(x)] /\ bucket(x) \in Buckets
        BY TypeFacts, BucketFound DEF InFilter
    <2> QED BY <1>2, <1>4, <2>1
<1>6. k \in InFilter'
    BY <1>1, <1>3, <1>4
<1> QED BY <1>0, <1>5, <1>6, StartsKept DEF k

LEMMA TestBitsKept ==
    ASSUME TypeInv, TypeInv', MutexMap, MutexInv, NEW t \in Threads, TestBits(t)
    PROVE  MutexInv' /\ SetStep
<1> DEFINE k == call[t].key
<1>0. /\ pc[t] = "filter" /\ call[t].op # "insert" /\ Watch
      /\ UNCHANGED <<map, filter, value, next, holders, call>>
    BY DEF TestBits, around, heap
<1>1. CASE pc' = [pc EXCEPT ![t] = "start"] /\ UNCHANGED <<at, answer>>
    <2>1. InFilter' = InFilter
        BY <1>0, MapKept
    <2> QED BY <1>0, <1>1, <2>1, StartsKept
<1>2. CASE ~ filter_mask(k) \subseteq filter[bucket(k)] /\ Answer(t, "no")
    <2>1. HoldsAt(t, {}) /\ k \in Keys
        BY <1>0, CallFacts
    <2>2. OthersHold(t) /\ Exclusive' /\ HoldsAt(t, {})'
        BY <1>0, <2>1, HoldsNothing
    <2>3. k \notin InFilter
        BY <1>2 DEF InFilter
    <2>4. k \notin Members
        BY <2>1, <2>3, MemberAtHome, ContentFacts DEF MutexInv, Shape, AtHome
    <2> QED BY <1>0, <1>2, <2>2, <2>4, AnswerStep
<1> QED BY <1>1, <1>2 DEF TestBits

LEMMA ReturnAnswerKept ==
    ASSUME TypeInv, TypeInv', MutexMap, MutexInv, NEW t \in Threads, ReturnAnswer(t)
    PROVE  MutexInv' /\ SetStep
<1>0. /\ pc[t] = "return" /\ pc' = [pc EXCEPT ![t] = "idle"] /\ call' = [call EXCEPT ![t] = NoCall]
      /\ answer' = [answer EXCEPT ![t] = "open"] /\ UNCHANGED <<map, filter, value, next, holders, at>> /\ Watch
    BY DEF ReturnAnswer, around, heap
<1>1. call[t] # NoCall /\ answer[t] # "open" /\ HoldsAt(t, {})
    BY <1>0, CallFacts DEF CallOK
<1>2. Moves(t, "idle", at[t], NoCall, "open")
    BY <1>0, TypeFacts DEF Moves
<1>3. OthersHold(t) /\ Exclusive' /\ HoldsAt(t, {})'
    BY <1>0, <1>1, TypeFacts, HoldsNothing
<1>4. Reaches("idle", NoCall, "open") /\ InFilter' = InFilter
    BY <1>0, MapKept DEF Reaches
<1>5. WalkOK(t)'
    BY <1>0, <1>3, TypeFacts DEF WalkOK
<1>6. MutexInv' /\ Members' = Members
    BY <1>0, <1>2, <1>3, <1>4, <1>5, KeptStep
<1>7. Set!End(t)
    BY <1>0, <1>1, <1>6, WatchSees DEF Set!End
<1> QED BY <1>6, <1>7 DEF SetStep, Set!SetNext

LEMMA ClearKept ==
    ASSUME TypeInv, TypeInv', MutexMap, MutexInv, Clear
    PROVE  MutexInv' /\ SetStep
<1>0. /\ \A t \in Threads : pc[t] = "idle"
      /\ next' = [p \in Places |-> IF p \in Heads THEN null ELSE next[p]]
      /\ UNCHANGED <<map, value, holders, pc, at, call, answer>> /\ Watch
    BY DEF Clear
<1>1. /\ Heads' = Heads /\ Nodes' = Nodes /\ Home' = Home /\ Places' = Places
      /\ \A h \in Heads : IsChain(Content'[h], h, next', Nodes) /\ h \notin Nodes /\ h \in Places
    BY <1>0, MapKept, ContentNext, ContentFacts
<1>2. \A h \in Heads : Content'[h] = {}
    <2> TAKE h \in Heads
    <2> DEFINE S == {}
    <2>1. S \in SUBSET Nodes /\ \A p \in S \cup {h} : next'[p] \in S \cup {null}
        BY <1>0, <1>1
    <2> HIDE DEF S
    <2>2. Content'[h] \subseteq S
        BY <1>1, <2>1 DEF IsChain
    <2> QED BY <2>2 DEF S
<1>3. \A k : k \notin Members'
    BY <1>0, <1>2, MembersNext
<1>4. InOrder'
    BY <1>0, <1>1 DEF MutexInv, Shape, InOrder, Places
<1>5. AtHome' /\ KeptOnce'
    BY <1>1, <1>2 DEF AtHome, KeptOnce
<1>6. Exclusive' /\ \A u \in Threads : CallOK(u)' /\ WalkOK(u)'
    BY <1>0, <1>1 DEF MutexInv, Exclusive, CallOK, WalkOK, HoldsAt
<1>7. \A u \in Threads : call[u] = NoCall /\ seen[u] = {}
    BY <1>0 DEF MutexInv, CallOK, SeenOK
<1>8. seen' = [u \in Threads |-> {}] /\ seen = [u \in Threads |-> {}]
    BY <1>0, <1>7 DEF Watch, MutexInv
<1>9. MutexInv'
    BY <1>0, <1>4, <1>5, <1>6, WatchSees DEF MutexInv, Shape
<1>10. Set!Empty
    BY <1>0, <1>3, <1>7, <1>8 DEF Set!Empty
<1> QED BY <1>9, <1>10 DEF SetStep, Set!SetNext
-----------------------------------------------------------------------------
(* The lists with mutexes: the steps of single_mutex_list.                 *)

\* What the search of a list finds.
LEMMA SearchFinds ==
    ASSUME TypeInv, MutexMap, MutexInv, NEW t \in Threads, pc[t] # "idle"
    PROVE  /\ Chain(Place(t)) = Content[Home[call[t].key]] /\ Place(t) = Home[call[t].key]
           /\ \A n : n \in Found(t) <=> n \in Content[Home[call[t].key]] /\ value[n] = call[t].key
           /\ Found(t) # {} <=> call[t].key \in Members
<1>1. Place(t) = Home[call[t].key] /\ Home[call[t].key] \in Heads /\ call[t].key \in Keys
    BY CallFacts
<1>2. Chain(Place(t)) = Content[Home[call[t].key]]
    BY <1>1 DEF Content
<1>3. \A n : n \in Found(t) <=> n \in Content[Home[call[t].key]] /\ value[n] = call[t].key
    BY <1>2 DEF Found
<1>4. call[t].key \in Members <=> \E n \in Content[Home[call[t].key]] : value[n] = call[t].key
    BY <1>1, MemberAtHome DEF MutexInv
<1>5. Found(t) # {} <=> \E n : n \in Found(t)
    OBVIOUS
<1> QED BY <1>1, <1>2, <1>3, <1>4, <1>5

LEMMA InsertNewKept ==
    ASSUME TypeInv, TypeInv', map.list = "single_mutex_list", MutexInv, NEW t \in Threads, InsertNew(t)
    PROVE  MutexInv' /\ SetStep
<1> DEFINE h == Home[call[t].key]
           Last(p) == p \in Chain(Place(t)) \cup {Place(t)} /\ next[p] = null
           last == CHOOSE p \in Chain(Place(t)) \cup {Place(t)} : next[p] = null
<1>m. MutexMap
    BY DEF MutexMap
<1>0. /\ pc[t] = "start" /\ call[t].op = "insert" /\ Found(t) = {} /\ value' = Append(value, call[t].key)
      /\ Answer(t, "yes") /\ UNCHANGED <<map, filter, holders, call>> /\ Watch
      /\ next' = [next EXCEPT ![last] = NewNode]
    BY DEF InsertNew, around
<1>2. h \in Heads /\ HoldsAt(t, {}) /\ Chain(Place(t)) = Content[h] /\ Place(t) = h
    BY <1>0, <1>m, CallFacts, SearchFinds
<1>3. \E p \in Content[h] \cup {h} : next[p] = null
    <2>1. IsChain(Content[h], h, next, Nodes) /\ Ordered(h, next, Nodes)
        BY <1>2, ContentFacts DEF MutexInv, Shape
    <2>2. map.nodes \in Nat /\ \A x \in Nodes : x <= map.nodes
        BY TypeFacts DEF Nodes
    <2> QED BY <2>1, <2>2, LastPlace
<1>4. last \in Content[h] \cup {h} /\ next[last] = null
    BY <1>2, <1>3
<1> HIDE DEF last
<1>5. \A m \in Content[h] : value[m] # call[t].key
    BY <1>0, <1>m, SearchFinds
<1>6. OthersHold(t) /\ Exclusive' /\ HoldsAt(t, {})'
    BY <1>0, <1>2, HoldsNothing
<1>7. \A u \in Threads : u # t /\ pc[u] = "walk" => at[u].prev # last
    BY DEF MutexInv, CallOK
<1> QED BY <1>0, <1>m, <1>4, <1>5, <1>6, <1>7, AppendStep

LEMMA EraseKept ==
    ASSUME TypeInv, TypeInv', map.list = "single_mutex_list", MutexInv, NEW t \in Threads, Erase(t)
    PROVE  MutexInv' /\ SetStep
<1> DEFINE h == Home[call[t].key]
<1>m. MutexMap
    BY DEF MutexMap
<1>0. /\ pc[t] = "start" /\ call[t].op = "erase" /\ Answer(t, "yes")
      /\ UNCHANGED <<map, filter, value, holders, call>> /\ Watch
    BY DEF Erase, around
<1>1. PICK p \in Chain(Place(t)) \cup {Place(t)} :
        next[p] \in Found(t) /\ next' = [next EXCEPT ![p] = next[next[p]]]
    BY DEF Erase
<1>2. HoldsAt(t, {}) /\ Chain(Place(t)) = Content[h] /\ Place(t) = h
    BY <1>0, <1>m, CallFacts, SearchFinds
<1>3. p \in Content[h] \cup {h} /\ next[p] \in Content[h] /\ value[next[p]] = call[t].key
    BY <1>0, <1>m, <1>1, <1>2, SearchFinds
<1>4. OthersHold(t) /\ Exclusive' /\ HoldsAt(t, {})'
    BY <1>0, <1>2, HoldsNothing
<1>5. \A u \in Threads : u # t /\ pc[u] = "walk" => at[u].prev # p /\ at[u].prev # next[p]
    BY DEF MutexInv, CallOK
<1> QED BY <1>0, <1>m, <1>1, <1>3, <1>4, <1>5, RemoveStep

LEMMA SingleStepKept ==
    ASSUME TypeInv, TypeInv', map.list = "single_mutex_list", MutexInv, NEW t \in Threads, SingleStep(t)
    PROVE  MutexInv' /\ SetStep
<1>m. MutexMap
    BY DEF MutexMap
<1>1. ASSUME NEW ans \in {"yes", "no"}, pc[t] = "start", Answer(t, ans),
             UNCHANGED <<around, heap, holders, call>>, Watch,
             IF call[t].op = "insert" THEN ans = "no" /\ call[t].key \in Members
             ELSE IF ans = "yes" THEN call[t].op = "find" /\ call[t].key \in Members
             ELSE call[t].key \notin Members
      PROVE  MutexInv' /\ SetStep
    <2>1. UNCHANGED <<map, filter, value, next, holders, call>>
        BY <1>1 DEF around, heap
    <2>2. HoldsAt(t, {})
        BY <1>1, CallFacts
    <2>3. OthersHold(t) /\ Exclusive' /\ HoldsAt(t, {})'
        BY <2>1, <2>2, HoldsNothing
    <2> QED BY <1>m, <1>1, <2>1, <2>3, AnswerStep
<1>2. CASE InsertExisting(t)
    <2>1. call[t].key \in Members
        BY <1>2, <1>m, SearchFinds DEF InsertExisting
    <2> QED BY <1>1, <1>2, <2>1 DEF InsertExisting
<1>3. CASE Find(t)
    <2>1. Found(t) # {} <=> call[t].key \in Members
        BY <1>3, <1>m, SearchFinds DEF Find
    <2>2. CASE Found(t) # {}
        <3>1. Answer(t, "yes") /\ pc[t] = "start" /\ UNCHANGED <<around, heap, holders, call>> /\ Watch
            BY <1>3, <2>2 DEF Find
        <3>2. call[t].op = "find"
            BY <1>3 DEF Find
        <3> QED BY <1>1, <2>1, <2>2, <3>1, <3>2
    <2>3. CASE Found(t) = {}
        <3>1. Answer(t, "no") /\ pc[t] = "start" /\ UNCHANGED <<around, heap, holders, call>> /\ Watch
            BY <1>3, <2>3 DEF Find
        <3>2. call[t].op = "find"
            BY <1>3 DEF Find
        <3> QED BY <1>1, <2>1, <2>3, <3>1, <3>2
    <2> QED BY <2>2, <2>3
<1>4. CASE EraseMissing(t)
    <2>1. call[t].key \notin Members
        BY <1>4, <1>m, SearchFinds DEF EraseMissing
    <2> QED BY <1>1, <1>4, <2>1 DEF EraseMissing
<1> QED BY <1>2, <1>3, <1>4, InsertNewKept, EraseKept DEF SingleStep
-----------------------------------------------------------------------------
(* The lists with mutexes: the steps of node_mutex_list.                   *)

\* What a thread that walks knows.
LEMMA WalkFacts ==
    ASSUME TypeInv, MutexMap, MutexInv, NEW t \in Threads, pc[t] = "walk"
    PROVE  /\ at[t].prev \in Content[Home[call[t].key]] \cup {Home[call[t].key]} /\ at[t].prev \in Places
           /\ next[at[t].prev] = at[t].node /\ HoldsAt(t, {at[t].prev}) /\ t \in holders[at[t].prev]
           /\ (at[t].node # null => at[t].node \in Content[Home[call[t].key]] /\ at[t].node \in Places)
           /\ (at[t].node = null => call[t].key \notin Members)
           /\ (OnKey(t) => call[t].key \in Members)
           /\ (~OnKey(t) => \A m \in Content[Home[call[t].key]] :
                    value[m] = call[t].key => at[t].node # null /\ m > at[t].node)
           /\ (at[t].node = null => \A m \in Content[Home[call[t].key]] : value[m] # call[t].key)
<1> DEFINE k == call[t].key
           h == Home[k]
           p == at[t].prev
           n == at[t].node
<1>1. h \in Heads /\ Stands(t) /\ HoldsAt(t, {p}) /\ k \in Keys
    BY CallFacts
<1>2. p \in Content[h] \cup {h} /\ next[p] = n /\ \A m \in Content[h] : value[m] = k => m > p
    BY <1>1 DEF Stands
<1>3. IsChain(Content[h], h, next, Nodes) /\ Ordered(h, next, Nodes)
    BY <1>1, ContentFacts DEF MutexInv, Shape
<1>4. \A x \in Content[h] \cup {h} : x \in Places
    BY <1>1, ContentFacts
<1>5. n # null => n \in Content[h] /\ n \in Places
    BY <1>2, <1>3, <1>4 DEF IsChain
<1>6. \A m \in Content[h] : m > p => n # null /\ n <= m
    BY <1>2, <1>3, NoneJumped
<1>7. \A m \in Content[h] : m \in Nat
    BY <1>3 DEF IsChain, Ordered
<1>8. n = null => \A m \in Content[h] : value[m] # k
    BY <1>2, <1>6
<1>9. k \in Members <=> \E m \in Content[h] : value[m] = k
    BY <1>1, MemberAtHome DEF MutexInv
<1>10. OnKey(t) <=> n # null /\ value[n] = k
    BY DEF OnKey
<1>11. ASSUME ~OnKey(t), NEW m \in Content[h], value[m] = k PROVE n # null /\ m > n
    <2>1. n # null /\ n <= m /\ m # n
        BY <1>2, <1>6, <1>10, <1>11
    <2>2. n \in Nat /\ m \in Nat
        BY <2>1, <1>5, <1>7
    <2> QED BY <2>1, <2>2
<1>12. t \in holders[p] /\ p \in Places
    BY <1>1, <1>2, <1>4 DEF HoldsAt
<1> HIDE DEF k, h, p, n
<1>13. (n = null => k \notin Members) /\ (OnKey(t) => k \in Members)
    BY <1>5, <1>8, <1>9, <1>10
<1> QED BY <1>1, <1>2, <1>5, <1>8, <1>11, <1>12, <1>13 DEF k, h, p, n

\* A place whose mutex is held exclusively, or free, is not where another thread walks.
LEMMA NobodyElse ==
    ASSUME TypeInv, MutexMap, MutexInv, NEW t \in Threads, NEW p \in Places,
           holders[p] = {} \/ (t \in holders[p] /\ call[t].op # "find")
    PROVE  \A u \in Threads : u # t /\ pc[u] = "walk" => at[u].prev # p
<1> SUFFICES ASSUME NEW u \in Threads, u # t, pc[u] = "walk", at[u].prev = p PROVE FALSE
    OBVIOUS
<1>1. u \in holders[p]
    BY WalkFacts
<1> QED BY <1>1 DEF MutexInv, Exclusive

\* t locks the mutex of a place of the list, and goes on to stand behind it.
LEMMA LocksKept ==
    ASSUME TypeInv, TypeInv', map.list = "node_mutex_list", MutexInv, NEW t \in Threads, pc[t] \in {"start", "walk"},
           NEW p \in Content[Home[call[t].key]] \cup {Home[call[t].key]},
           \A m \in Content[Home[call[t].key]] : value[m] = call[t].key => m > p,
           NEW q, HandOver(t, p, q), HoldsAt(t, {q}), at' = [at EXCEPT ![t] = StandingAt(at[t], p)],
           pc' = [pc EXCEPT ![t] = "walk"], UNCHANGED <<around, heap, call, answer>>, Watch
    PROVE  MutexInv' /\ SetStep
<1> DEFINE l == StandingAt(at[t], p)
<1>m. MutexMap
    BY DEF MutexMap
<1>0. UNCHANGED <<map, filter, value, next>>
    BY DEF around, heap
<1>1. /\ Home[call[t].key] \in Heads /\ call[t] # NoCall /\ answer[t] = "open" /\ CallOK(t) /\ p \in Places
      /\ InFilter' = InFilter /\ Home' = Home
    BY <1>0, CallFacts, ContentFacts, MapKept
<1>2. at[t] \in LocalsOver(DOMAIN value) /\ at \in [Threads -> LocalsOver(DOMAIN value)]
    BY TypeFacts
<1>3. l.prev = p /\ l.node = next[p]
    BY <1>2 DEF StandingAt, LocalsOver
<1>4. Moves(t, "walk", l, call[t], answer[t])
    BY TypeFacts DEF Moves
<1>5. OthersHold(t) /\ Exclusive' /\ HoldsAt(t, {p})'
    BY <1>0, <1>1, HandsOver
<1>6. Reaches("walk", call[t], answer[t])
    BY <1>1 DEF Reaches
<1>7. call[t].op = "insert" => call[t].key \in InFilter'
    BY <1>1 DEF CallOK
<1>8. WalkOK(t)'
    <2>1. Content' = Content
        BY <1>0, <1>1, <1>m, HeapKept DEF MutexInv
    <2>2. at'[t] = l /\ pc'[t] = "walk" /\ call' = call
        BY <1>2, TypeFacts
    <2>3. Stands(t)'
        BY <1>0, <1>1, <1>3, <2>1, <2>2 DEF Stands
    <2>4. HoldsAt(t, {at[t].prev})'
        BY <1>3, <1>5, <2>2 DEF HoldsAt
    <2> QED BY <2>2, <2>3, <2>4 DEF WalkOK
<1>9. MutexInv' /\ Members' = Members
    BY <1>0, <1>1, <1>m, <1>4, <1>5, <1>6, <1>7, <1>8, KeptStep
<1> QED BY <1>9, NothingSeen

\* t unlocks its last mutex.
LEMMA LetsGo ==
    ASSUME TypeInv, MutexMap, MutexInv, NEW t \in Threads, pc[t] = "walk", HandOver(t, null, at[t].prev),
           UNCHANGED <<map, call>>
    PROVE  OthersHold(t) /\ Exclusive' /\ HoldsAt(t, {})'
<1>1. HoldsAt(t, {at[t].prev})
    BY WalkFacts
<1>2. OthersHold(t) /\ Exclusive' /\ HoldsAt(t, {null})'
    BY <1>1, HandsOver
<1>3. null \notin Places /\ Places' = Places
    BY TypeFacts, PlacesApart, MapKept
<1> QED BY <1>2, <1>3 DEF HoldsAt

LEMMA NodeStepKept ==
    ASSUME TypeInv, TypeInv', map.list = "node_mutex_list", MutexInv, NEW t \in Threads, NodeStep(t)
    PROVE  MutexInv' /\ SetStep
<1>m. MutexMap
    BY DEF MutexMap
<1>t. at \in [Threads -> LocalsOver(DOMAIN value)] /\ pc \in [Threads -> PCs] /\ null \notin Places
    BY TypeFacts, PlacesApart
<1>1. CASE LockHead(t)
    <2> DEFINE h == m_head(bucket(call[t].key))
    <2>0. pc[t] = "start" /\ HandOver(t, h, null)
        BY <1>1 DEF LockHead
    <2>1. h = Home[call[t].key] /\ h \in Heads /\ HoldsAt(t, {})
        BY <2>0, CallFacts
    <2>2. HoldsAt(t, {null})
        BY <1>t, <2>1 DEF HoldsAt
    <2>3. \A m \in Content[h] : m > h
        <3> HIDE DEF h
        <3>1. Ordered(h, next, Nodes) /\ IsChain(Content[h], h, next, Nodes)
            BY <2>1, ContentFacts DEF MutexInv, Shape
        <3>2. h \in Int /\ h < 0 /\ Content[h] \subseteq Nat
            BY <3>1 DEF Ordered, IsChain
        <3> QED BY <3>2
    <2>4. at' = [at EXCEPT ![t] = StandingAt(at[t], h)]
        BY <1>t, <1>1 DEF LockHead, StandingAt, LocalsOver
    <2>5. pc' = [pc EXCEPT ![t] = "walk"] /\ UNCHANGED <<around, heap, call, answer>> /\ Watch
        BY <1>1 DEF LockHead
    <2> HIDE DEF h
    <2> QED BY <2>0, <2>1, <2>2, <2>3, <2>4, <2>5, LocksKept
<1>2. CASE Advance(t)
    <2> DEFINE n == at[t].node
    <2>0. pc[t] = "walk" /\ n # null /\ ~OnKey(t) /\ HandOver(t, n, at[t].prev)
        BY <1>2 DEF Advance
    <2>1. HoldsAt(t, {at[t].prev}) /\ n \in Content[Home[call[t].key]] /\
          \A m \in Content[Home[call[t].key]] : value[m] = call[t].key => m > n
        BY <1>m, <2>0, WalkFacts
    <2>4. at' = [at EXCEPT ![t] = StandingAt(at[t], n)]
        BY <1>t, <1>2 DEF Advance, StandingAt, LocalsOver
    <2>5. pc' = [pc EXCEPT ![t] = "walk"] /\ UNCHANGED <<around, heap, call, answer>> /\ Watch
        BY <1>t, <1>2 DEF Advance
    <2> HIDE DEF n
    <2> QED BY <2>0, <2>1, <2>4, <2>5, LocksKept
<1>3. CASE AppendNode(t)
    <2>0. /\ pc[t] = "walk" /\ call[t].op = "insert" /\ at[t].node = null /\ HandOver(t, null, at[t].prev)
          /\ next' = [next EXCEPT ![at[t].prev] = NewNode] /\ value' = Append(value, call[t].key)
          /\ Answer(t, "yes") /\ UNCHANGED <<map, filter, call>> /\ Watch
        BY <1>3 DEF AppendNode, Walks, around
    <2>1. /\ at[t].prev \in Content[Home[call[t].key]] \cup {Home[call[t].key]} /\ at[t].prev \in Places
          /\ next[at[t].prev] = null /\ t \in holders[at[t].prev]
          /\ \A m \in Content[Home[call[t].key]] : value[m] # call[t].key
        BY <1>m, <2>0, WalkFacts
    <2>2. OthersHold(t) /\ Exclusive' /\ HoldsAt(t, {})'
        BY <1>m, <2>0, LetsGo
    <2>3. \A u \in Threads : u # t /\ pc[u] = "walk" => at[u].prev # at[t].prev
        BY <1>m, <2>0, <2>1, NobodyElse
    <2> QED BY <1>m, <2>0, <2>1, <2>2, <2>3, AppendStep
<1>4. CASE Remove(t)
    <2> DEFINE n == at[t].node
    <2>0. /\ pc[t] = "walk" /\ call[t].op = "erase" /\ OnKey(t) /\ CanLock(t, n) /\ HandOver(t, null, at[t].prev)
          /\ next' = [next EXCEPT ![at[t].prev] = next[n]]
          /\ Answer(t, "yes") /\ UNCHANGED <<map, filter, value, call>> /\ Watch
        BY <1>4 DEF Remove, Walks, around
    <2>1. /\ at[t].prev \in Content[Home[call[t].key]] \cup {Home[call[t].key]} /\ at[t].prev \in Places
          /\ next[at[t].prev] = n /\ t \in holders[at[t].prev] /\ n # null /\ value[n] = call[t].key
          /\ n \in Content[Home[call[t].key]] /\ n \in Places
        BY <1>m, <2>0, WalkFacts DEF OnKey
    <2>2. OthersHold(t) /\ Exclusive' /\ HoldsAt(t, {})'
        BY <1>m, <2>0, LetsGo
    <2>3. holders[n] = {}
        BY <2>0 DEF CanLock
    <2> HIDE DEF n
    <2>4. \A u \in Threads : u # t /\ pc[u] = "walk" => at[u].prev # at[t].prev
        BY <1>m, <2>0, <2>1, NobodyElse
    <2>5. \A u \in Threads : u # t /\ pc[u] = "walk" => at[u].prev # n
        BY <1>m, <2>1, <2>3, NobodyElse
    <2> QED BY <1>m, <2>0, <2>1, <2>2, <2>4, <2>5, RemoveStep
<1>5. ASSUME NEW ans \in {"yes", "no"}, pc[t] = "walk", Answer(t, ans), HandOver(t, null, at[t].prev),
             UNCHANGED <<around, heap, call>>, Watch,
             IF call[t].op = "insert" THEN ans = "no" /\ OnKey(t)
             ELSE IF ans = "yes" THEN call[t].op = "find" /\ OnKey(t) ELSE at[t].node = null
      PROVE  MutexInv' /\ SetStep
    <2>1. UNCHANGED <<map, filter, value, next, call>>
        BY <1>5 DEF around, heap
    <2>2. OthersHold(t) /\ Exclusive' /\ HoldsAt(t, {})'
        BY <1>m, <1>5, <2>1, LetsGo
    <2>3. (OnKey(t) => call[t].key \in Members) /\ (at[t].node = null => call[t].key \notin Members)
        BY <1>m, <1>5, WalkFacts
    <2> QED BY <1>m, <1>5, <2>1, <2>2, <2>3, AnswerStep
<1>6. CASE FindExisting(t)
    BY <1>5, <1>6 DEF FindExisting, Walks
<1>7. CASE FindEnds(t)
    <2>0. /\ pc[t] = "walk" /\ call[t].op = "find" /\ (at[t].node = null \/ OnKey(t)) /\ HandOver(t, null, at[t].prev)
          /\ Answer(t, IF OnKey(t) THEN "yes" ELSE "no") /\ UNCHANGED <<around, heap, call>> /\ Watch
        BY <1>7 DEF FindEnds, Walks
    <2>1. CASE OnKey(t)
        <3>1. Answer(t, "yes")
            BY <2>0, <2>1
        <3> QED BY <1>5, <2>0, <2>1, <3>1
    <2>2. CASE ~OnKey(t)
        <3>1. Answer(t, "no")
            BY <2>0, <2>2
        <3> QED BY <1>5, <2>0, <2>2, <3>1
    <2> QED BY <2>1, <2>2
<1>8. CASE NothingToErase(t)
    BY <1>5, <1>8 DEF NothingToErase, Walks
<1> QED BY <1>1, <1>2, <1>3, <1>4, <1>6, <1>7, <1>8 DEF NodeStep
-----------------------------------------------------------------------------
(* The lists with mutexes: the beginning, and every step.                  *)

LEMMA InitMutex == ASSUME MapInit, MutexMap PROVE MutexInv /\ Set!SetInit
<1>0. /\ map \in Maps /\ value \in Seq(Keys) /\ DOMAIN value = 1 .. Len(value) /\ Len(value) \in Nat
      /\ next \in [Places -> {null} \cup DOMAIN value]
      /\ \A p \in Heads \cup DOMAIN value : LeadsToFirst(p)
      /\ \A p \in Nodes : p \notin DOMAIN value => next[p] = null
    BY InitPointers
<1>1. TypeInv
    BY InitTyped
<1>2. /\ value = map.first
      /\ filter = [b_ \in Buckets |->
            UNION {filter_mask(map.first[i]) : i \in {j \in DOMAIN map.first : bucket(map.first[j]) = b_}}]
      /\ \A t \in Threads : pc[t] = "idle" /\ call[t] = NoCall /\ answer[t] = "open" /\ seen[t] = {}
      /\ \A p \in Places : holders[p] = {}
      /\ seen = [t \in Threads |-> seen[t]]
    BY DEF MapInit
<1>3. \A i \in DOMAIN value : value[i] \in Keys /\ i \in Nodes /\ bucket(value[i]) \in Buckets
    BY <1>1, TypeFacts, BucketFound
<1>4. InOrder
    <2> SUFFICES ASSUME NEW p \in Nodes, next[p] # null PROVE next[p] > p /\ p \in DOMAIN value
        BY DEF InOrder
    <2>1. p \in DOMAIN value
        BY <1>0
    <2>2. next[p] \in Behind(p)
        BY <1>0, <2>1 DEF LeadsToFirst
    <2> QED BY <2>1, <2>2 DEF Behind
<1>5. \A h \in Heads : h \notin Nodes /\ h \in Int /\ \E b_ \in Buckets : h = m_head(b_) /\ BucketOf(h) = b_
    <2> SUFFICES ASSUME NEW h \in Heads PROVE \E b_ \in Buckets : h = m_head(b_) /\ BucketOf(h) = b_
        BY <1>0, PlacesApart
    <2>1. PICK b_ \in Buckets : h = m_head(b_)
        BY DEF Heads
    <2>2. b_ \in Int /\ -(-(b_ + 1)) - 1 = b_
        BY DEF Buckets
    <2>3. BucketOf(h) = b_
        BY <2>1, <2>2 DEF BucketOf, m_head
    <2> QED BY <2>1, <2>3
<1>6. AtHome
    <2> SUFFICES ASSUME NEW h \in Heads
                 PROVE  \A n \in Content[h] : n \in DOMAIN value /\ Home[value[n]] = h /\ value[n] \in InFilter
        BY DEF AtHome
    <2>1. PICK b_ \in Buckets : h = m_head(b_) /\ BucketOf(h) = b_
        BY <1>5
    <2> DEFINE S == {n \in DOMAIN value : bucket(value[n]) = b_}
    <2>2. ASSUME NEW p \in S \cup {h} PROVE next[p] \in S \cup {null}
        <3>1. BucketOf(p) = b_
            <4>1. CASE p = h
                BY <2>1, <4>1
            <4>2. CASE p \in S
                <5>1. p \in Nodes /\ p \notin Heads
                    BY <1>3, <1>5, <4>2
                <5> QED BY <4>2, <5>1 DEF BucketOf
            <4> QED BY <4>1, <4>2
        <3>2. LeadsToFirst(p)
            BY <1>0
        <3> QED BY <3>1, <3>2 DEF LeadsToFirst, Behind
    <2>3. S \in SUBSET Nodes
        BY <1>3
    <2> HIDE DEF S
    <2>4. Content[h] \subseteq S
        BY <1>1, <2>2, <2>3, ContentFacts DEF IsChain
    <2>5. ASSUME NEW n \in S PROVE n \in DOMAIN value /\ Home[value[n]] = h /\ value[n] \in InFilter
        <3>1. n \in DOMAIN value /\ bucket(value[n]) = b_ /\ value[n] \in Keys
            BY <1>3 DEF S
        <3>2. Home[value[n]] = h
            BY <2>1, <3>1 DEF Home
        <3>3. filter_mask(value[n]) \subseteq filter[b_]
            BY <1>2, <3>1
        <3> QED BY <3>1, <3>2, <3>3 DEF InFilter
    <2> QED BY <2>4, <2>5
<1>7. KeptOnce
    <2>1. \A i, j \in DOMAIN value : value[i] = value[j] => i = j
        BY <1>0, <1>2, MapAssumption
    <2> QED BY <1>6, <2>1 DEF AtHome, KeptOnce
<1>8. Exclusive /\ \A t \in Threads : CallOK(t) /\ SeenOK(t) /\ WalkOK(t)
    BY <1>2 DEF Exclusive, CallOK, SeenOK, WalkOK, HoldsAt
<1>9. Set!SetInit
    <2>1. Members \subseteq Keys
        BY <1>1, <1>4, <1>6, <1>7, MemberAtHome DEF Shape
    <2>2. /\ call = [t \in Threads |-> NoCall] /\ answer = [t \in Threads |-> "open"]
          /\ seen = [t \in Threads |-> {}]
        BY DEF MapInit
    <2> QED BY <2>1, <2>2 DEF Set!SetInit
<1> QED BY <1>2, <1>4, <1>6, <1>7, <1>8, <1>9 DEF MutexInv, Shape

LEMMA UnchangedKept ==
    ASSUME TypeInv, TypeInv', MutexMap, MutexInv, UNCHANGED mapVars
    PROVE  MutexInv' /\ SetStep
<1>0. UNCHANGED <<map, filter, value, next, holders, pc, at, call, answer, seen>>
    BY DEF mapVars
<1>1. Home' = Home /\ Places' = Places /\ InFilter' = InFilter
    BY <1>0, MapKept
<1>2. Content' = Content /\ Shape' /\ Members' = Members
    BY <1>0, <1>1, HeapKept DEF MutexInv
<1>3. Exclusive' /\ \A u \in Threads : CallOK(u)' /\ SeenOK(u)' /\ WalkOK(u)'
    BY <1>0, <1>1, <1>2 DEF MutexInv, Exclusive, CallOK, SeenOK, WalkOK, Stands, HoldsAt
<1> QED BY <1>0, <1>2, <1>3 DEF MutexInv, SetStep

LEMMA NextMutex ==
    TypeInv /\ TypeInv' /\ MutexMap /\ MutexInv /\ [ListsNext]_listsVars => MutexMap' /\ MutexInv' /\ SetStep
<1> SUFFICES ASSUME TypeInv, TypeInv', MutexMap, MutexInv, [ListsNext]_listsVars
             PROVE  MutexMap' /\ MutexInv' /\ SetStep
    OBVIOUS
<1>1. CASE UNCHANGED mapVars
    BY <1>1, UnchangedKept, MapKept DEF mapVars
<1>2. CASE Clear
    BY <1>2, ClearKept, MapKept DEF Clear
<1>3. ASSUME NEW t \in Threads, MapStep(t) PROVE MutexMap' /\ MutexInv' /\ SetStep
    <2>1. UNCHANGED map
        BY <1>3 DEF MapStep, BeginCall, SetBits, TestBits, ReturnAnswer, around
    <2> QED BY <1>3, <2>1, BeginCallKept, SetBitsKept, TestBitsKept, ReturnAnswerKept, MapKept DEF MapStep
<1>4. ASSUME NEW t \in Threads, ListStep(t) PROVE MutexMap' /\ MutexInv' /\ SetStep
    <2>1. CASE map.list = "single_mutex_list" /\ SingleStep(t)
        <3>1. UNCHANGED map
            BY <2>1 DEF SingleStep, InsertNew, InsertExisting, Find, Erase, EraseMissing, around
        <3> QED BY <2>1, <3>1, SingleStepKept, MapKept
    <2>2. CASE map.list = "node_mutex_list" /\ NodeStep(t)
        <3>1. UNCHANGED map
            BY <2>2 DEF NodeStep, LockHead, Advance, AppendNode, FindExisting, FindEnds, Remove, NothingToErase, around
        <3> QED BY <2>2, <3>1, NodeStepKept, MapKept
    <2> QED BY <1>4, <2>1, <2>2 DEF ListStep, MutexMap
<1> QED BY <1>1, <1>2, <1>3, <1>4 DEF ListsNext, listsVars

LEMMA MutexListsKept == ListsSpec /\ MutexMap => [](MutexMap /\ MutexInv)
<1>1. ListsInit /\ MutexMap => MutexInv
    BY InitMutex DEF ListsInit
<1>2. TypeInv /\ TypeInv' /\ MutexMap /\ MutexInv /\ [ListsNext]_listsVars => MutexMap' /\ MutexInv'
    BY NextMutex
<1> QED BY <1>1, <1>2, ListsTyped, PTL DEF ListsSpec

\* In a map of a list with mutexes no key is twice, every key is in the list of its bucket,
\* and the filter has its bits: bloom_filter_insert() before the insertion, and the locks
\* hand over hand, are enough for any number of threads, keys and buckets.
THEOREM MutexListsKeepKeys == ListsSpec /\ MutexMap => []KeysInPlace
<1>1. TypeInv /\ MutexMap /\ MutexInv => KeysInPlace
    BY KeysFound DEF MutexInv
<1> QED BY <1>1, ListsTyped, MutexListsKept, PTL

\* Nobody who walks through node_mutex_list is left on a node that was erased: the place it
\* stands behind is in a list and points to the node it saw, and it holds that mutex only.
THEOREM WalkersStayInTheList == ListsSpec /\ MutexMap => []WalkersAreInTheList
<1>1. TypeInv /\ MutexMap /\ MutexInv => WalkersAreInTheList
    <2> SUFFICES ASSUME TypeInv, MutexMap, MutexInv, NEW t \in Threads, pc[t] = "walk"
                 PROVE  /\ at[t].prev \in Heads \cup InLists /\ next[at[t].prev] = at[t].node
                        /\ \A p \in Places : t \in holders[p] <=> p = at[t].prev
        BY DEF WalkersAreInTheList
    <2>1. Home[call[t].key] \in Heads
        BY CallFacts
    <2>2. at[t].prev \in Heads \cup InLists
        BY <2>1, WalkFacts DEF Content, InLists
    <2> QED BY <2>2, WalkFacts DEF HoldsAt
<1> QED BY <1>1, ListsTyped, MutexListsKept, PTL

\* A map of a list with mutexes uses no node that it has freed: while one thread stands on a
\* node, no other erases it.
THEOREM MutexListsStayValid == ListsSpec /\ MutexMap => [](part = "map" => MemoryStaysValid)
<1>1. MutexMap /\ WalkersAreInTheList /\ part = "map" => MemoryStaysValid
    BY DEF MemoryStaysValid, MutexMap
<1> QED BY <1>1, WalkersStayInTheList, MutexListsKept, PTL

\* insert(), find(), erase() and clear() of a map of a list with mutexes, with a Bloom filter
\* or without, are those of a set of keys that changes one key at a time.
THEOREM MutexListsImplementSet == ListsSpec /\ MutexMap => ImplementsSet
<1>1. ListsInit /\ MutexMap => Set!SetInit
    BY InitMutex DEF ListsInit
<1>2. TypeInv /\ TypeInv' /\ MutexMap /\ MutexInv /\ [ListsNext]_listsVars => [Set!SetNext]_(Set!setVars)
    BY NextMutex DEF SetStep, Set!setVars
<1> QED BY <1>1, <1>2, ListsTyped, MutexListsKept, PTL DEF ListsSpec, ImplementsSet, Set!SetSpec
=============================================================================

----------------------------- MODULE HeapProofs -----------------------------
(***************************************************************************)
(* Proofs about the heaps: the d-ary heaps and the indexed queue are in    *)
(* order after every operation, and both implement MaxQueue.               *)
(***************************************************************************)
EXTENDS SequentialProofs

-----------------------------------------------------------------------------
(* Heaps.  w has the values of the n places of a heap of degree d; one of  *)
(* them may be out of order with the places above it, or below it.         *)

\* g has what is reached after each of n steps F of a loop, in a set T that F stays in; a
\* step leads to a lower rank, of which there are no more than n, or nowhere.
StepsOf(T, F, n, rank, g) ==
    /\ F \in [T -> T] /\ n \in Nat /\ rank \in [T -> Nat]
    /\ \A r \in T : F[r] = r \/ rank[F[r]] < rank[r]
    /\ g[0] \in T /\ rank[g[0]] <= n
    /\ \A k \in 1 .. n : g[k - 1] \in T => g[k] = F[g[k - 1]]

LEMMA LoopEnds ==
    ASSUME NEW T, NEW F, NEW n, NEW rank, NEW g, StepsOf(T, F, n, rank, g)
    PROVE  g[n] \in T /\ F[g[n]] = g[n]
<1>0. /\ F \in [T -> T] /\ n \in Nat /\ rank \in [T -> Nat]
      /\ \A r \in T : F[r] = r \/ rank[F[r]] < rank[r]
      /\ g[0] \in T /\ rank[g[0]] <= n
      /\ \A k \in 1 .. n : g[k - 1] \in T => g[k] = F[g[k - 1]]
    BY DEF StepsOf
<1> DEFINE Ends(k) == g[k] \in T /\ (F[g[k]] = g[k] \/ rank[g[k]] + k <= n)
           S == {k \in Nat : k <= n => Ends(k)}
<1>1. 0 \in S
    BY <1>0
<1>2. ASSUME NEW k \in S PROVE k + 1 \in S
    <2> SUFFICES ASSUME k + 1 <= n PROVE Ends(k + 1)
        OBVIOUS
    <2>1. k \in Nat /\ k + 1 \in 1 .. n /\ (k + 1) - 1 = k /\ k <= n
        BY <1>0
    <2>2. g[k] \in T /\ (F[g[k]] = g[k] \/ rank[g[k]] + k <= n)
        BY <2>1
    <2>3. g[k + 1] = F[g[k]]
        BY <2>1, <2>2, <1>0
    <2>4. CASE F[g[k]] = g[k]
        BY <2>2, <2>3, <2>4
    <2>5. CASE F[g[k]] # g[k]
        <3> DEFINE x == g[k]
                   y == F[x]
        <3>1. x \in T /\ y \in T /\ rank[x] \in Nat /\ rank[y] \in Nat /\ rank[y] < rank[x] /\ rank[x] + k <= n
            BY <2>2, <2>5, <1>0
        <3>2. g[k + 1] = y
            BY <2>3
        <3> HIDE DEF x, y
        <3>3. rank[y] + (k + 1) <= n
            BY <3>1, <2>1, <1>0
        <3> QED BY <3>1, <3>2, <3>3
    <2> QED BY <2>4, <2>5
<1>3. S \in SUBSET Nat
    OBVIOUS
<1> HIDE DEF S
<1>4. n \in S
    BY <1>0, <1>1, <1>2, <1>3, InductionOverSet
<1>5. Ends(n)
    BY <1>0, <1>4 DEF S
<1>6. ASSUME rank[g[n]] + n <= n PROVE F[g[n]] = g[n]
    <2>1. g[n] \in T /\ rank[g[n]] \in Nat /\ F[g[n]] \in T /\ rank[F[g[n]]] \in Nat
        BY <1>0, <1>5
    <2>2. ~(rank[F[g[n]]] < rank[g[n]])
        BY <1>0, <2>1, <1>6
    <2> QED BY <2>1, <2>2, <1>0
<1> QED BY <1>5, <1>6

Par(d, c) == (c - 1) \div d
Swap(w, i, j) == [w EXCEPT ![i] = w[j], ![j] = w[i]]
Ordered(w, n, d) == \A c \in 1 .. n - 1 : w[c] <= w[Par(d, c)]
UpOK(w, n, d, i) ==
    /\ \A c \in 1 .. n - 1 : c # i => w[c] <= w[Par(d, c)]
    /\ \A c \in 1 .. n - 1 : Par(d, c) = i /\ i > 0 => w[c] <= w[Par(d, i)]
DownOK(w, n, d, i) ==
    /\ \A c \in 1 .. n - 1 : Par(d, c) # i => w[c] <= w[Par(d, c)]
    /\ \A c \in 1 .. n - 1 : Par(d, c) = i /\ i > 0 => w[c] <= w[Par(d, i)]

LEMMA Parents ==
    ASSUME NEW d \in Nat, d > 0, NEW c \in Nat, c > 0
    PROVE  Par(d, c) \in Nat /\ Par(d, c) < c
<1> DEFINE q == (c - 1) \div d
<1>1. q \in Nat /\ d * q <= c - 1
    OBVIOUS
<1> HIDE DEF q
<1>2. d * q >= q
    <2>1. d * q = q + (d - 1) * q
        BY <1>1
    <2>2. (d - 1) * q \in Nat
        BY <1>1
    <2> QED BY <2>1, <2>2, <1>1
<1>3. q < c
    <2> DEFINE p == d * q
    <2>1. p \in Nat
        BY <1>1
    <2>2. p <= c - 1 /\ p >= q
        BY <1>1, <1>2
    <2> HIDE DEF p
    <2> QED BY <2>1, <2>2, <1>1
<1> QED BY <1>1, <1>3 DEF Par, q

LEMMA ParentsPlaces ==
    ASSUME NEW n \in Nat, NEW d \in Nat, d > 0
    PROVE  \A c \in 1 .. n - 1 : c \in 0 .. n - 1 /\ Par(d, c) \in 0 .. n - 1 /\ Par(d, c) < c
<1> TAKE c \in 1 .. n - 1
<1>1. c \in Nat /\ c > 0
    OBVIOUS
<1>2. Par(d, c) \in Nat /\ Par(d, c) < c
    BY <1>1, Parents
<1> QED BY <1>2

LEMMA UpEnds ==
    ASSUME NEW n \in Nat, NEW d \in Nat, d > 0, NEW i \in 0 .. n - 1, NEW w \in [0 .. n - 1 -> Int],
           UpOK(w, n, d, i), ~(i > 0 /\ w[Par(d, i)] < w[i])
    PROVE  Ordered(w, n, d)
<1> SUFFICES ASSUME NEW c \in 1 .. n - 1 PROVE w[c] <= w[Par(d, c)]
    BY DEF Ordered
<1>1. CASE c # i
    BY <1>1 DEF UpOK
<1>2. CASE c = i
    <2>1. Par(d, c) \in 0 .. n - 1
        BY Parents
    <2> QED BY <1>2, <2>1
<1> QED BY <1>1, <1>2

LEMMA SwappedPlaces ==
    ASSUME NEW n \in Nat, NEW w \in [0 .. n - 1 -> Int], NEW i \in 0 .. n - 1, NEW j \in 0 .. n - 1, i # j
    PROVE  /\ Swap(w, i, j) \in [0 .. n - 1 -> Int]
           /\ Swap(w, i, j)[i] = w[j] /\ Swap(w, i, j)[j] = w[i]
           /\ \A c \in 0 .. n - 1 : c # i /\ c # j => Swap(w, i, j)[c] = w[c]
BY DEF Swap

\* One step up.
LEMMA UpMoves ==
    ASSUME NEW n \in Nat, NEW d \in Nat, d > 0, NEW i \in 0 .. n - 1, NEW w \in [0 .. n - 1 -> Int],
           UpOK(w, n, d, i), i > 0, w[Par(d, i)] < w[i]
    PROVE  UpOK(Swap(w, i, Par(d, i)), n, d, Par(d, i))
<1> DEFINE p == Par(d, i)
           u == Swap(w, i, p)
<1>1. p \in 0 .. n - 1 /\ p < i /\ p # i
    BY Parents
<1>2. u \in [0 .. n - 1 -> Int] /\ u[i] = w[p] /\ u[p] = w[i] /\ \A c \in 0 .. n - 1 : c # i /\ c # p => u[c] = w[c]
    BY <1>1, SwappedPlaces
<1>3. \A c \in 1 .. n - 1 : c \in 0 .. n - 1 /\ Par(d, c) \in 0 .. n - 1 /\ Par(d, c) < c
    BY ParentsPlaces
<1>4. w[p] < w[i] /\ Par(d, i) = p
    OBVIOUS
<1>5. /\ \A c \in 1 .. n - 1 : c # i => w[c] <= w[Par(d, c)]
      /\ \A c \in 1 .. n - 1 : Par(d, c) = i => w[c] <= w[p]
    BY DEF UpOK
<1> HIDE DEF p, u
<1>6. \A c \in 0 .. n - 1 : w[c] \in Int /\ u[c] \in Int
    BY <1>2
<1>7. ASSUME NEW c \in 1 .. n - 1, c # p PROVE u[c] <= u[Par(d, c)]
    <2>1. CASE c = i
        BY <2>1, <1>2, <1>4, <1>6, <1>1
    <2>2. CASE c # i /\ Par(d, c) = i
        BY <2>2, <1>7, <1>2, <1>3, <1>5
    <2>3. CASE c # i /\ Par(d, c) = p
        <3>1. w[c] <= w[p] /\ u[c] = w[c] /\ u[p] = w[i]
            BY <2>3, <1>7, <1>2, <1>3, <1>5
        <3>2. w[c] \in Int /\ w[p] \in Int /\ w[i] \in Int
            BY <1>3, <1>6, <1>1
        <3> QED BY <3>1, <3>2, <1>4, <2>3
    <2>4. CASE c # i /\ Par(d, c) # i /\ Par(d, c) # p
        BY <2>4, <1>7, <1>2, <1>3, <1>5
    <2> QED BY <2>1, <2>2, <2>3, <2>4
<1>8. ASSUME NEW c \in 1 .. n - 1, Par(d, c) = p, p > 0 PROVE u[c] <= u[Par(d, p)]
    <2>1. p \in 1 .. n - 1 /\ p # i
        BY <1>8, <1>1
    <2>2. Par(d, p) # i /\ Par(d, p) # p /\ Par(d, p) \in 0 .. n - 1
        BY <2>1, <1>1, <1>3
    <2>3. w[p] <= w[Par(d, p)] /\ u[Par(d, p)] = w[Par(d, p)]
        BY <2>1, <2>2, <1>2, <1>5
    <2>4. c # p
        BY <1>3, <1>8
    <2>5. CASE c = i
        BY <2>5, <2>3, <1>2, <1>1
    <2>6. CASE c # i
        <3>1. w[c] <= w[p] /\ u[c] = w[c]
            BY <2>6, <2>4, <1>8, <1>2, <1>3, <1>5
        <3>2. w[c] \in Int /\ w[p] \in Int /\ w[Par(d, p)] \in Int
            BY <1>3, <1>6, <1>1, <2>2
        <3> QED BY <3>1, <3>2, <2>3
    <2> QED BY <2>5, <2>6
<1>9. UpOK(u, n, d, p)
    BY <1>7, <1>8 DEF UpOK
<1> QED BY <1>9 DEF u, p

LEMMA DownEnds ==
    ASSUME NEW n \in Nat, NEW d \in Nat, d > 0, NEW i \in 0 .. n - 1, NEW w \in [0 .. n - 1 -> Int],
           DownOK(w, n, d, i), \A c \in 1 .. n - 1 : Par(d, c) = i => w[c] <= w[i]
    PROVE  Ordered(w, n, d)
BY DEF Ordered, DownOK

\* One step down, to the largest child.
LEMMA DownMoves ==
    ASSUME NEW n \in Nat, NEW d \in Nat, d > 0, NEW i \in 0 .. n - 1, NEW w \in [0 .. n - 1 -> Int],
           DownOK(w, n, d, i), NEW k \in 1 .. n - 1, Par(d, k) = i, w[i] < w[k],
           \A c \in 1 .. n - 1 : Par(d, c) = i => w[c] <= w[k]
    PROVE  /\ DownOK(Swap(w, i, k), n, d, k)
           /\ \A c \in 1 .. n - 1 : Par(d, c) # k => Swap(w, i, k)[c] <= Swap(w, i, k)[Par(d, c)]
<1> DEFINE u == Swap(w, i, k)
<1>3. \A c \in 1 .. n - 1 : c \in 0 .. n - 1 /\ Par(d, c) \in 0 .. n - 1 /\ Par(d, c) < c
    BY ParentsPlaces
<1>1. k \in 0 .. n - 1 /\ i < k /\ i # k
    BY <1>3
<1>2. u \in [0 .. n - 1 -> Int] /\ u[i] = w[k] /\ u[k] = w[i] /\ \A c \in 0 .. n - 1 : c # i /\ c # k => u[c] = w[c]
    BY <1>1, SwappedPlaces
<1>5. /\ \A c \in 1 .. n - 1 : Par(d, c) # i => w[c] <= w[Par(d, c)]
      /\ \A c \in 1 .. n - 1 : Par(d, c) = i /\ i > 0 => w[c] <= w[Par(d, i)]
    BY DEF DownOK
<1> HIDE DEF u
<1>6. \A c \in 0 .. n - 1 : w[c] \in Int /\ u[c] \in Int
    BY <1>2
<1>7. ASSUME NEW c \in 1 .. n - 1, Par(d, c) # k PROVE u[c] <= u[Par(d, c)]
    <2>1. CASE c = k
        BY <2>1, <1>2, <1>6, <1>1
    <2>2. CASE c = i
        <3>1. i > 0 /\ Par(d, i) # i /\ Par(d, i) # k /\ Par(d, i) \in 0 .. n - 1
            BY <2>2, <1>1, <1>3
        <3>2. w[k] <= w[Par(d, i)]
            BY <3>1, <1>5
        <3> QED BY <3>1, <3>2, <2>2, <1>2
    <2>3. CASE c # k /\ Par(d, c) = i
        <3>1. c # i /\ u[c] = w[c]
            BY <2>3, <1>2, <1>3
        <3> QED BY <3>1, <2>3, <1>2
    <2>4. CASE c # k /\ c # i /\ Par(d, c) # i
        BY <2>4, <1>7, <1>2, <1>3, <1>5
    <2> QED BY <2>1, <2>2, <2>3, <2>4
<1>8. ASSUME NEW c \in 1 .. n - 1, Par(d, c) = k PROVE u[c] <= u[Par(d, k)]
    <2>1. c # k /\ c # i /\ k # i
        BY <1>1, <1>3, <1>8
    <2>2. w[c] <= w[k] /\ u[c] = w[c]
        BY <2>1, <1>8, <1>5, <1>2, <1>3
    <2> QED BY <2>2, <1>2
<1>9. DownOK(u, n, d, k)
    BY <1>7, <1>8 DEF DownOK
<1> QED BY <1>7, <1>9 DEF u

\* In a heap the first value is the largest.
LEMMA FirstIsLargest ==
    ASSUME NEW n \in Nat, NEW d \in Nat, d > 0, NEW w \in [0 .. n - 1 -> Int], Ordered(w, n, d)
    PROVE  \A c \in 0 .. n - 1 : w[c] <= w[0]
<1> DEFINE S == {c \in 0 .. n - 1 : ~(w[c] <= w[0])}
<1> SUFFICES ASSUME S # {} PROVE FALSE
    OBVIOUS
<1>1. S \in SUBSET Nat
    OBVIOUS
<1>2. PICK c \in S : \A e \in S : c <= e
    <2> HIDE DEF S
    <2> QED BY <1>1, LeastElement
<1>3. c \in 0 .. n - 1 /\ ~(w[c] <= w[0]) /\ 0 \in 0 .. n - 1 /\ w[0] \in Int /\ w[c] \in Int
    BY <1>2
<1>4. c \in 1 .. n - 1
    BY <1>3
<1>5. Par(d, c) \in 0 .. n - 1 /\ Par(d, c) < c
    BY <1>4, ParentsPlaces
<1>6. Par(d, c) \notin S
    BY <1>2, <1>3, <1>5
<1>7. w[Par(d, c)] <= w[0] /\ w[Par(d, c)] \in Int
    BY <1>5, <1>6
<1>8. w[c] <= w[Par(d, c)]
    BY <1>4 DEF Ordered
<1> QED BY <1>3, <1>7, <1>8

\* Another value at one place.
LEMMA Raised ==
    ASSUME NEW n \in Nat, NEW d \in Nat, d > 0, NEW i \in 0 .. n - 1, NEW w \in [0 .. n - 1 -> Int],
           NEW x \in Int, Ordered(w, n, d), w[i] <= x
    PROVE  UpOK([w EXCEPT ![i] = x], n, d, i)
<1> DEFINE u == [w EXCEPT ![i] = x]
<1>1. \A c \in 1 .. n - 1 : c \in 0 .. n - 1 /\ Par(d, c) \in 0 .. n - 1 /\ Par(d, c) < c
    BY ParentsPlaces
<1>2. u[i] = x /\ \A c \in 0 .. n - 1 : c # i => u[c] = w[c]
    OBVIOUS
<1>3. \A c \in 1 .. n - 1 : w[c] <= w[Par(d, c)]
    BY DEF Ordered
<1>4. \A c \in 0 .. n - 1 : w[c] \in Int
    OBVIOUS
<1> HIDE DEF u
<1>5. ASSUME NEW c \in 1 .. n - 1, c # i PROVE u[c] <= u[Par(d, c)]
    <2>1. CASE Par(d, c) = i
        <3>1. w[c] <= w[i] /\ u[c] = w[c] /\ w[c] \in Int
            BY <2>1, <1>1, <1>2, <1>3, <1>4, <1>5
        <3> QED BY <3>1, <2>1, <1>2
    <2>2. CASE Par(d, c) # i
        BY <2>2, <1>5, <1>1, <1>2, <1>3
    <2> QED BY <2>1, <2>2
<1>6. ASSUME NEW c \in 1 .. n - 1, Par(d, c) = i, i > 0 PROVE u[c] <= u[Par(d, i)]
    <2>1. i \in 1 .. n - 1 /\ c # i /\ Par(d, i) # i /\ Par(d, i) \in 0 .. n - 1
        BY <1>1, <1>6
    <2>2. w[c] <= w[i] /\ w[i] <= w[Par(d, i)] /\ u[c] = w[c] /\ u[Par(d, i)] = w[Par(d, i)]
        BY <2>1, <1>6, <1>1, <1>2, <1>3
    <2>3. w[c] \in Int /\ w[Par(d, i)] \in Int
        BY <1>4, <1>1, <2>1
    <2> QED BY <2>2, <2>3
<1> QED BY <1>5, <1>6 DEF UpOK, u

LEMMA Lowered ==
    ASSUME NEW n \in Nat, NEW d \in Nat, d > 0, NEW i \in 0 .. n - 1, NEW w \in [0 .. n - 1 -> Int],
           NEW x \in Int, Ordered(w, n, d), x <= w[i]
    PROVE  DownOK([w EXCEPT ![i] = x], n, d, i)
<1> DEFINE u == [w EXCEPT ![i] = x]
<1>1. \A c \in 1 .. n - 1 : c \in 0 .. n - 1 /\ Par(d, c) \in 0 .. n - 1 /\ Par(d, c) < c
    BY ParentsPlaces
<1>2. u[i] = x /\ \A c \in 0 .. n - 1 : c # i => u[c] = w[c]
    OBVIOUS
<1>3. \A c \in 1 .. n - 1 : w[c] <= w[Par(d, c)]
    BY DEF Ordered
<1>4. \A c \in 0 .. n - 1 : w[c] \in Int
    OBVIOUS
<1> HIDE DEF u
<1>5. ASSUME NEW c \in 1 .. n - 1, Par(d, c) # i PROVE u[c] <= u[Par(d, c)]
    <2>1. CASE c = i
        <3>1. w[i] <= w[Par(d, c)] /\ u[Par(d, c)] = w[Par(d, c)] /\ w[Par(d, c)] \in Int
            BY <2>1, <1>1, <1>2, <1>3, <1>4, <1>5
        <3> QED BY <3>1, <2>1, <1>2
    <2>2. CASE c # i
        BY <2>2, <1>5, <1>1, <1>2, <1>3
    <2> QED BY <2>1, <2>2
<1>6. ASSUME NEW c \in 1 .. n - 1, Par(d, c) = i, i > 0 PROVE u[c] <= u[Par(d, i)]
    <2>1. i \in 1 .. n - 1 /\ c # i /\ Par(d, i) # i /\ Par(d, i) \in 0 .. n - 1
        BY <1>1, <1>6
    <2>2. w[c] <= w[i] /\ w[i] <= w[Par(d, i)] /\ u[c] = w[c] /\ u[Par(d, i)] = w[Par(d, i)]
        BY <2>1, <1>6, <1>1, <1>2, <1>3
    <2>3. w[c] \in Int /\ w[Par(d, i)] \in Int
        BY <1>4, <1>1, <2>1
    <2> QED BY <2>2, <2>3
<1> QED BY <1>5, <1>6 DEF DownOK, u

\* One of the places is the largest.
LEMMA GreatestPlace ==
    ASSUME NEW n \in Nat, NEW w, NEW X \in SUBSET (0 .. n - 1), X # {}, \A c \in X : w[c] \in Int
    PROVE  \E m \in X : \A c \in X : w[c] <= w[m]
<1> DEFINE S == {k \in Nat : X \cap (0 .. k) # {} => \E m \in X \cap (0 .. k) : \A c \in X \cap (0 .. k) : w[c] <= w[m]}
<1>1. 0 \in S
    <2>1. 0 .. 0 = {0}
        OBVIOUS
    <2>2. ASSUME X \cap (0 .. 0) # {} PROVE \E m \in X \cap (0 .. 0) : \A c \in X \cap (0 .. 0) : w[c] <= w[m]
        <3>1. 0 \in X /\ w[0] <= w[0]
            BY <2>1, <2>2
        <3> QED BY <2>1, <3>1
    <2> QED BY <2>2
<1>2. ASSUME NEW k \in S PROVE k + 1 \in S
    <2>1. k \in Nat /\ 0 .. k + 1 = (0 .. k) \cup {k + 1}
        OBVIOUS
    <2> SUFFICES ASSUME X \cap (0 .. k + 1) # {}
                 PROVE  \E m \in X \cap (0 .. k + 1) : \A c \in X \cap (0 .. k + 1) : w[c] <= w[m]
        BY <2>1
    <2>2. CASE k + 1 \notin X
        <3>1. X \cap (0 .. k + 1) = X \cap (0 .. k)
            BY <2>1, <2>2
        <3> QED BY <3>1
    <2>3. CASE k + 1 \in X /\ X \cap (0 .. k) = {}
        <3>1. X \cap (0 .. k + 1) = {k + 1} /\ w[k + 1] <= w[k + 1]
            BY <2>1, <2>3
        <3> QED BY <3>1
    <2>4. CASE k + 1 \in X /\ X \cap (0 .. k) # {}
        <3>1. PICK m \in X \cap (0 .. k) : \A c \in X \cap (0 .. k) : w[c] <= w[m]
            BY <2>4
        <3>2. m \in X /\ m \in 0 .. k + 1 /\ w[m] \in Int /\ w[k + 1] \in Int
            BY <3>1, <2>1, <2>4
        <3>3. CASE w[k + 1] <= w[m]
            <4>1. \A c \in X \cap (0 .. k + 1) : w[c] <= w[m]
                BY <2>1, <3>1, <3>3
            <4> QED BY <4>1, <3>2
        <3>4. CASE w[m] < w[k + 1]
            <4>1. ASSUME NEW c \in X \cap (0 .. k + 1) PROVE w[c] <= w[k + 1]
                <5>1. CASE c = k + 1
                    BY <5>1, <3>2
                <5>2. CASE c \in 0 .. k
                    <6>1. w[c] <= w[m] /\ w[c] \in Int
                        BY <5>2, <3>1
                    <6> QED BY <6>1, <3>2, <3>4
                <5> QED BY <5>1, <5>2, <2>1
            <4>2. k + 1 \in X \cap (0 .. k + 1)
                BY <2>1, <2>4
            <4> QED BY <4>1, <4>2
        <3> QED BY <3>2, <3>3, <3>4
    <2> QED BY <2>2, <2>3, <2>4
<1>3. S \in SUBSET Nat
    OBVIOUS
<1> HIDE DEF S
<1>4. n \in S
    BY <1>1, <1>2, <1>3, InductionOverSet
<1>5. X \cap (0 .. n) = X
    <2>1. \A c \in X : c \in 0 .. n
        OBVIOUS
    <2> QED BY <2>1
<1> QED BY <1>4, <1>5 DEF S
-----------------------------------------------------------------------------
(* PriQueue.                                                               *)

HeapElements == [e : Values, h : Heap!Handles]
HeapQueues == [elements : Seq(HeapElements), positions : Seq(Int)]
W(q) == [i \in 0 .. Len(q.elements) - 1 |-> q.elements[i + 1].e]
In(q) == {q.elements[i] : i \in 1 .. Len(q.elements)}

\* Handles differ, and in D each one leads to its element.
WellFormed(q) ==
    /\ q \in HeapQueues
    /\ \A i, j \in 1 .. Len(q.elements) : q.elements[i].h = q.elements[j].h => i = j
    /\ heap.variant = "D" => \A i \in 1 .. Len(q.elements) :
        q.elements[i].h \in 1 .. Len(q.positions) /\ q.positions[q.elements[i].h] = i - 1
    /\ heap.variant # "D" => q.positions = <<>>

LEMMA Degrees == ASSUME heap \in Heaps PROVE heap.degree \in Nat /\ heap.degree > 0
BY SequentialAssumption

LEMMA ValuesOfHeap ==
    ASSUME NEW q \in HeapQueues
    PROVE  /\ Len(q.elements) \in Nat /\ W(q) \in [0 .. Len(q.elements) - 1 -> Int]
           /\ \A i \in 0 .. Len(q.elements) - 1 : W(q)[i] = q.elements[i + 1].e /\ W(q)[i] = Heap!At(q, i).e
<1>1. q.elements \in Seq(HeapElements) /\ Len(q.elements) \in Nat
    BY DEF HeapQueues
<1>2. ASSUME NEW i \in 0 .. Len(q.elements) - 1 PROVE q.elements[i + 1].e \in Int
    <2>1. i + 1 \in 1 .. Len(q.elements)
        BY <1>1
    <2>2. q.elements[i + 1] \in HeapElements
        BY <1>1, <2>1
    <2>3. q.elements[i + 1].e \in Values
        BY <2>2 DEF HeapElements
    <2> QED BY <2>3, SequentialAssumption
<1> QED BY <1>1, <1>2 DEF W, Heap!At

\* A swap of two elements swaps their positions, and nothing else.
LEMMA SwappedHeap ==
    ASSUME NEW q, WellFormed(q), NEW i \in 0 .. Len(q.elements) - 1, NEW j \in 0 .. Len(q.elements) - 1, i # j
    PROVE  LET r == Heap!Swapped(q, i, j)
           IN  /\ WellFormed(r) /\ Len(r.elements) = Len(q.elements) /\ In(r) = In(q)
               /\ Len(r.positions) = Len(q.positions)
               /\ W(r) = Swap(W(q), i, j)
<1> DEFINE r == Heap!Swapped(q, i, j)
           s == q.elements
           p == q.positions
           n == Len(s)
           x == s[i + 1]
           y == s[j + 1]
           D == heap.variant = "D"
           es == [s EXCEPT ![i + 1] = y, ![j + 1] = x]
           ps == IF D THEN [p EXCEPT ![x.h] = p[y.h], ![y.h] = p[x.h]] ELSE p
<1>1. q = [elements |-> s, positions |-> p] /\ s \in Seq(HeapElements) /\ p \in Seq(Int)
    BY DEF WellFormed, HeapQueues
<1>2. r = [elements |-> es, positions |-> ps]
    <2>1. CASE D
        <3>1. Heap!SetPos(Heap!SetPos(q, x.h, p[y.h]), y.h, p[x.h]) = [elements |-> s, positions |-> ps]
            BY <1>1, <2>1 DEF Heap!SetPos
        <3>2. Heap!Pos(q, x.h) = p[x.h] /\ Heap!Pos(q, y.h) = p[y.h]
            BY <2>1 DEF Heap!Pos
        <3>3. Heap!At(q, i) = x /\ Heap!At(q, j) = y
            BY DEF Heap!At
        <3> HIDE DEF x, y, ps, s, p
        <3>4. r = [[elements |-> s, positions |-> ps] EXCEPT !.elements[i + 1] = y, !.elements[j + 1] = x]
            BY <3>1, <3>2, <3>3 DEF Heap!Swapped
        <3> QED BY <3>4
    <2>2. CASE ~D
        <3>1. \A h, z : Heap!SetPos(q, h, z) = q
            BY <2>2 DEF Heap!SetPos
        <3>2. Heap!At(q, i) = x /\ Heap!At(q, j) = y
            BY DEF Heap!At
        <3>3. ps = p
            BY <2>2
        <3> HIDE DEF x, y, ps, s, p
        <3>4. r = [q EXCEPT !.elements[i + 1] = y, !.elements[j + 1] = x]
            BY <3>1, <3>2 DEF Heap!Swapped
        <3> QED BY <3>3, <3>4, <1>1
    <2> QED BY <2>1, <2>2
<1>3. n \in Nat /\ i + 1 \in 1 .. n /\ j + 1 \in 1 .. n /\ i + 1 # j + 1
    BY <1>1
<1>4. x \in HeapElements /\ y \in HeapElements
    BY <1>1, <1>3
<1>5. /\ \A a, b \in 1 .. n : s[a].h = s[b].h => a = b
      /\ D => \A a \in 1 .. n : s[a].h \in 1 .. Len(p) /\ p[s[a].h] = a - 1
      /\ ~D => p = <<>>
    BY DEF WellFormed
<1>6. x = s[i + 1] /\ y = s[j + 1]
    OBVIOUS
<1>7. ps = IF D THEN [p EXCEPT ![x.h] = p[y.h], ![y.h] = p[x.h]] ELSE p
    OBVIOUS
<1> HIDE DEF r, x, y, ps
<1>8. /\ es \in Seq(HeapElements) /\ Len(es) = n /\ es[i + 1] = y /\ es[j + 1] = x
      /\ \A a \in 1 .. n : a # i + 1 /\ a # j + 1 => es[a] = s[a]
    BY <1>1, <1>3, <1>4
<1> HIDE DEF es
<1>9. r.elements = es /\ r.positions = ps
    BY <1>2
<1>10. \A a, b \in 1 .. n : es[a].h = es[b].h => a = b
    <2> DEFINE t(a) == IF a = i + 1 THEN j + 1 ELSE IF a = j + 1 THEN i + 1 ELSE a
    <2>1. \A a \in 1 .. n : es[a] = s[t(a)] /\ t(a) \in 1 .. n
        BY <1>3, <1>6, <1>8
    <2>2. \A a, b \in 1 .. n : t(a) = t(b) => a = b
        BY <1>3
    <2>3. ASSUME NEW a \in 1 .. n, NEW b \in 1 .. n, es[a].h = es[b].h PROVE a = b
        <3> HIDE DEF t
        <3>1. s[t(a)].h = s[t(b)].h /\ t(a) \in 1 .. n /\ t(b) \in 1 .. n
            BY <2>1, <2>3
        <3>2. t(a) = t(b)
            BY <3>1, <1>5
        <3> QED BY <3>2, <2>2
    <2> QED BY <2>3
<1>11. ps \in Seq(Int) /\ Len(ps) = Len(p)
    <2>1. CASE D
        <3>1. x.h \in 1 .. Len(p) /\ y.h \in 1 .. Len(p)
            BY <2>1, <1>3, <1>5, <1>6
        <3>2. p[x.h] \in Int /\ p[y.h] \in Int
            BY <3>1, <1>1
        <3> QED BY <2>1, <1>7, <1>1, <3>1, <3>2
    <2>2. CASE ~D
        BY <2>2, <1>7, <1>1
    <2> QED BY <2>1, <2>2
<1>12. ASSUME D, NEW a \in 1 .. n PROVE es[a].h \in 1 .. Len(ps) /\ ps[es[a].h] = a - 1
    <2>1. x.h \in 1 .. Len(p) /\ y.h \in 1 .. Len(p) /\ x.h # y.h /\ p[x.h] = i /\ p[y.h] = j
        <3>1. \A b \in 1 .. n : s[b].h \in 1 .. Len(p) /\ p[s[b].h] = b - 1
            BY <1>12, <1>5
        <3>2. s[i + 1].h # s[j + 1].h
            BY <1>3, <1>5
        <3>3. (i + 1) - 1 = i /\ (j + 1) - 1 = j
            OBVIOUS
        <3>4. s[i + 1].h \in 1 .. Len(p) /\ p[s[i + 1].h] = i
            BY <3>1, <3>3, <1>3
        <3>5. s[j + 1].h \in 1 .. Len(p) /\ p[s[j + 1].h] = j
            BY <3>1, <3>3, <1>3
        <3> QED BY <3>2, <3>4, <3>5, <1>6
    <2>2. ps = [p EXCEPT ![x.h] = j, ![y.h] = i]
        BY <1>12, <1>7, <2>1
    <2>3. DOMAIN p = 1 .. Len(p)
        BY <1>1
    <2>4. ps[x.h] = j /\ ps[y.h] = i /\ \A h \in 1 .. Len(p) : h # x.h /\ h # y.h => ps[h] = p[h]
        BY <2>1, <2>2, <2>3
    <2>5. CASE a = i + 1
        BY <2>5, <1>8, <2>1, <2>4, <1>11, <1>3
    <2>6. CASE a = j + 1
        BY <2>6, <1>8, <2>1, <2>4, <1>11, <1>3
    <2>7. CASE a # i + 1 /\ a # j + 1
        <3>1. es[a] = s[a] /\ s[a].h \in 1 .. Len(p) /\ p[s[a].h] = a - 1
            BY <2>7, <1>8, <1>5, <1>12
        <3>2. s[a].h # x.h /\ s[a].h # y.h
            BY <2>7, <1>5, <1>6, <1>3
        <3> QED BY <3>1, <3>2, <2>4, <1>11
    <2> QED BY <2>5, <2>6, <2>7
<1>13. ~D => ps = <<>>
    BY <1>5, <1>7
<1>14. WellFormed(r)
    <2>1. r \in HeapQueues
        BY <1>2, <1>8, <1>11 DEF HeapQueues
    <2> HIDE DEF s, p, n
    <2> QED BY <2>1, <1>8, <1>9, <1>10, <1>12, <1>13 DEF WellFormed
<1>15. In(r) = In(q)
    <2>1. In(r) = {es[a] : a \in 1 .. n} /\ In(q) = {s[a] : a \in 1 .. n}
        BY <1>8, <1>9 DEF In
    <2>2. \A a \in 1 .. n : \E b \in 1 .. n : es[a] = s[b]
        BY <1>3, <1>6, <1>8
    <2>3. ASSUME NEW a \in 1 .. n PROVE \E b \in 1 .. n : s[a] = es[b]
        <3>1. CASE a = i + 1
            BY <3>1, <1>3, <1>6, <1>8
        <3>2. CASE a = j + 1
            BY <3>2, <1>3, <1>6, <1>8
        <3>3. CASE a # i + 1 /\ a # j + 1
            BY <3>3, <1>8
        <3> QED BY <3>1, <3>2, <3>3
    <2> HIDE DEF s, n
    <2>4. {es[a] : a \in 1 .. n} \subseteq {s[a] : a \in 1 .. n}
        BY <2>2
    <2>5. {s[a] : a \in 1 .. n} \subseteq {es[a] : a \in 1 .. n}
        <3> SUFFICES ASSUME NEW a \in 1 .. n PROVE s[a] \in {es[b] : b \in 1 .. n}
            OBVIOUS
        <3> QED BY <2>3
    <2> QED BY <2>1, <2>4, <2>5
<1>16. W(r) = Swap(W(q), i, j)
    <2>1. W(r) = [a \in 0 .. n - 1 |-> es[a + 1].e]
        BY <1>8, <1>9 DEF W
    <2>2. W(q) = [a \in 0 .. n - 1 |-> s[a + 1].e]
        BY DEF W
    <2>3. Swap(W(q), i, j) = [a \in 0 .. n - 1 |-> IF a = j THEN x.e ELSE IF a = i THEN y.e ELSE s[a + 1].e]
        BY <2>2, <1>3, <1>6 DEF Swap
    <2>4. ASSUME NEW a \in 0 .. n - 1
          PROVE  es[a + 1].e = IF a = j THEN x.e ELSE IF a = i THEN y.e ELSE s[a + 1].e
        <3>1. a + 1 \in 1 .. n
            BY <1>3
        <3> QED BY <3>1, <1>3, <1>8
    <2> HIDE DEF s, n
    <2> QED BY <2>1, <2>3, <2>4
<1> QED BY <1>8, <1>9, <1>11, <1>14, <1>15, <1>16 DEF r

\* The children of a node are those places that have it for a parent.
LEMMA ParentsChildren ==
    ASSUME NEW d \in Nat, d > 0, NEW i \in Nat, NEW c \in Int
    PROVE  c >= i * d + 0 + 1 /\ c <= i * d + (d - 1) + 1 <=> c > 0 /\ Par(d, c) = i
<1> DEFINE m == d * i
<1>1. i * d = m /\ m \in Nat
    OBVIOUS
<1>2. ASSUME c > 0 PROVE Par(d, c) = i <=> c >= m + 1 /\ c <= m + d
    <2> DEFINE q == (c - 1) \div d
               x == d * q
    <2>1. q \in Nat /\ x \in Nat /\ x <= c - 1 /\ c - 1 < x + d
        BY <1>2
    <2>2. Par(d, c) = q
        BY DEF Par
    <2>3. q < i => m >= x + d
        <3> SUFFICES ASSUME q < i PROVE m >= x + d
            OBVIOUS
        <3> HIDE DEF q
        <3> DEFINE e == i - q - 1
        <3>1. e \in Nat /\ i = q + 1 + e
            BY <2>1
        <3>2. d * e \in Nat
            BY <3>1
        <3>3. d * i = d * q + d + d * e
            BY <3>1, <2>1
        <3> QED BY <3>2, <3>3, <2>1
    <2>4. i < q => x >= m + d
        <3> SUFFICES ASSUME i < q PROVE x >= m + d
            OBVIOUS
        <3> HIDE DEF q
        <3> DEFINE e == q - i - 1
        <3>1. e \in Nat /\ q = i + 1 + e
            BY <2>1
        <3>2. d * e \in Nat
            BY <3>1
        <3>3. d * q = d * i + d + d * e
            BY <3>1, <2>1
        <3> QED BY <3>2, <3>3, <1>1
    <2>5. q = i => x = m
        OBVIOUS
    <2> HIDE DEF q, x, m
    <2> QED BY <2>1, <2>2, <2>3, <2>4, <2>5, <1>1
<1> HIDE DEF m
<1> QED BY <1>1, <1>2

LEMMA ChildrenOf ==
    ASSUME heap \in Heaps, NEW q \in HeapQueues, NEW i \in Nat
    PROVE  Heap!Children(q, i) = {c \in 1 .. Len(q.elements) - 1 : Par(heap.degree, c) = i}
<1> DEFINE d == heap.degree
           n == Len(q.elements)
           x == i * d + (d - 1) + 1
           y == i * d + 0 + 1
<1>1. d \in Nat /\ d > 0 /\ n \in Nat /\ i * d \in Nat
    BY Degrees, ValuesOfHeap
<1>2. x \in Int /\ y \in Int /\ y > 0
    BY <1>1
<1>3. Heap!Min({x, n - 1}) = IF x <= n - 1 THEN x ELSE n - 1
    <2> HIDE DEF x, y, n
    <2>1. CASE x <= n - 1
        <3>1. x \in {x, n - 1} /\ \A z \in {x, n - 1} : x <= z
            BY <2>1, <1>1, <1>2
        <3>2. \A z \in {x, n - 1} : (\A u \in {x, n - 1} : z <= u) => z = x
            BY <1>1, <1>2, <2>1
        <3> HIDE DEF n
        <3> QED BY <3>1, <3>2, <2>1 DEF Heap!Min
    <2>2. CASE ~(x <= n - 1)
        <3>1. n - 1 \in {x, n - 1} /\ \A z \in {x, n - 1} : n - 1 <= z
            BY <2>2, <1>1, <1>2
        <3>2. \A z \in {x, n - 1} : (\A u \in {x, n - 1} : z <= u) => z = n - 1
            BY <1>1, <1>2, <2>2
        <3> QED BY <3>1, <3>2, <2>2 DEF Heap!Min
    <2> QED BY <2>1, <2>2
<1>4. Heap!Children(q, i) = y .. (IF x <= n - 1 THEN x ELSE n - 1)
    BY <1>3 DEF Heap!Children, Heap!child, Heap!size
<1>5. \A c \in Int : c >= y /\ c <= x <=> c > 0 /\ Par(d, c) = i
    BY <1>1, ParentsChildren
<1> HIDE DEF x, y, n, d
<1>6. \A c : c \in y .. (IF x <= n - 1 THEN x ELSE n - 1) <=> c \in 1 .. n - 1 /\ Par(d, c) = i
    <2> TAKE c
    <2>1. ASSUME c \in y .. (IF x <= n - 1 THEN x ELSE n - 1) PROVE c \in 1 .. n - 1 /\ Par(d, c) = i
        <3>1. c \in Int /\ c >= y /\ c <= x /\ c <= n - 1
            BY <2>1, <1>1, <1>2
        <3> QED BY <3>1, <1>5, <1>1
    <2>2. ASSUME c \in 1 .. n - 1, Par(d, c) = i PROVE c \in y .. (IF x <= n - 1 THEN x ELSE n - 1)
        <3>1. c \in Int /\ c > 0 /\ c <= n - 1
            BY <2>2, <1>1
        <3>2. c >= y /\ c <= x
            BY <3>1, <2>2, <1>5
        <3> QED BY <3>1, <3>2, <1>1, <1>2
    <2> QED BY <2>1, <2>2
<1> QED BY <1>4, <1>6 DEF n, d

\* The node that is chosen to go up is a largest one of a node and its children.
LEMMA LargestOfFamily ==
    ASSUME heap \in Heaps, NEW q \in HeapQueues, NEW i \in 0 .. Len(q.elements) - 1
    PROVE  LET k == Heap!max_idx(q, i)
               n == Len(q.elements)
           IN  /\ k # i => k \in 1 .. n - 1 /\ Par(heap.degree, k) = i
               /\ W(q)[i] <= W(q)[k]
               /\ \A c \in 1 .. n - 1 : Par(heap.degree, c) = i => W(q)[c] <= W(q)[k]
               /\ k # i => W(q)[i] < W(q)[k]
<1> DEFINE n == Len(q.elements)
           w == W(q)
           d == heap.degree
           X == {i} \cup {c \in 1 .. n - 1 : Par(d, c) = i}
           M == {k \in X : \A l \in X : ~(w[k] < w[l])}
<1>1. n \in Nat /\ w \in [0 .. n - 1 -> Int] /\ \A c \in 0 .. n - 1 : w[c] = Heap!At(q, c).e
    BY ValuesOfHeap
<1>2. {i} \cup Heap!Children(q, i) = X
    BY <1>1, ChildrenOf
<1>3. X \subseteq 0 .. n - 1 /\ i \in X
    BY <1>1
<1> HIDE DEF n, w, X
<1>4. M = {k \in X : \A l \in X : ~Heap!m_comp(Heap!At(q, k).e, Heap!At(q, l).e)}
    BY <1>1, <1>3 DEF Heap!m_comp
<1>5. Heap!max_idx(q, i) = Heap!Min(M)
    BY <1>2, <1>4 DEF Heap!max_idx
<1>6. \A c \in X : w[c] \in Int
    BY <1>1, <1>3
<1>7. PICK m \in X : \A c \in X : w[c] <= w[m]
    BY <1>1, <1>3, <1>6, GreatestPlace
<1>8. m \in M
    BY <1>6, <1>7
<1>9. M \in SUBSET Nat
    <2>1. M \subseteq X
        OBVIOUS
    <2>2. X \subseteq Nat
        BY <1>1, <1>3
    <2> HIDE DEF M
    <2> QED BY <2>1, <2>2
<1>10. \E k \in M : \A l \in M : k <= l
    <2> HIDE DEF M
    <2> QED BY <1>8, <1>9, LeastElement
<1> DEFINE k == Heap!Min(M)
<1>11. k \in M /\ \A l \in M : k <= l
    <2> HIDE DEF M
    <2> QED BY <1>10 DEF Heap!Min
<1>12. k \in X /\ \A c \in X : ~(w[k] < w[c])
    BY <1>11
<1>13. \A c \in X : w[c] <= w[k]
    <2> HIDE DEF k
    <2> QED BY <1>12, <1>6
<1>14. ASSUME k # i, ~(w[i] < w[k]) PROVE FALSE
    <2>1. k \in 1 .. n - 1 /\ Par(d, k) = i
        BY <1>12, <1>14 DEF X
    <2>2. i < k
        <3>1. d \in Nat /\ d > 0
            BY Degrees
        <3> HIDE DEF k, d
        <3> QED BY <2>1, <3>1, <1>1, ParentsPlaces
    <2>3. \A c \in X : ~(w[i] < w[c])
        <3> HIDE DEF k
        <3> TAKE c \in X
        <3>1. w[c] \in Int /\ w[k] \in Int /\ w[i] \in Int /\ w[c] <= w[k]
            BY <1>6, <1>12, <1>13, <1>3
        <3> QED BY <3>1, <1>14
    <2>4. i \in M
        BY <2>3, <1>3
    <2>5. k <= i
        BY <2>4, <1>11
    <2>6. i \in Int /\ k \in Int
        <3> HIDE DEF k
        <3> QED BY <2>1, <1>1
    <2> HIDE DEF k
    <2> QED BY <2>2, <2>5, <2>6
<1>15. Heap!max_idx(q, i) = k
    BY <1>5
<1> HIDE DEF k, M
<1>16. k # i => k \in 1 .. n - 1 /\ Par(d, k) = i
    BY <1>12 DEF X
<1>17. \A c \in 1 .. n - 1 : Par(d, c) = i => w[c] <= w[k]
    BY <1>13 DEF X
<1>18. w[i] <= w[k] /\ (k # i => w[i] < w[k])
    BY <1>3, <1>13, <1>14
<1> QED BY <1>15, <1>16, <1>17, <1>18 DEF n, w, d

\* p has the elements of q, in another order.
Rearranged(p, q) ==
    /\ WellFormed(p) /\ In(p) = In(q)
    /\ Len(p.elements) = Len(q.elements) /\ Len(p.positions) = Len(q.positions)

\* The records of the two loops.
Climbs(q) ==
    {r \in [q : HeapQueues, i : 0 .. Len(q.elements) - 1] :
        Rearranged(r.q, q) /\ UpOK(W(r.q), Len(q.elements), heap.degree, r.i)}
Climb(r) ==
    IF r.i > 0 /\ Heap!m_comp(Heap!At(r.q, Heap!parent(r.i)).e, Heap!At(r.q, r.i).e)
    THEN [q |-> Heap!Swapped(r.q, r.i, Heap!parent(r.i)), i |-> Heap!parent(r.i)]
    ELSE r

LEMMA ClimbOnce ==
    ASSUME heap \in Heaps, NEW q, q \in HeapQueues, NEW r \in Climbs(q)
    PROVE  /\ Climb(r) \in Climbs(q)
           /\ Climb(r) = r \/ Climb(r).i < r.i
           /\ Climb(r) = r => Ordered(W(r.q), Len(q.elements), heap.degree)
<1> DEFINE n == Len(q.elements)
           d == heap.degree
           w == W(r.q)
           p == Par(d, r.i)
<1>1. /\ r.q \in HeapQueues /\ r.i \in 0 .. n - 1 /\ Rearranged(r.q, q) /\ UpOK(w, n, d, r.i)
      /\ r = [q |-> r.q, i |-> r.i]
    BY DEF Climbs
<1>2. d \in Nat /\ d > 0 /\ n \in Nat
    BY Degrees, ValuesOfHeap
<1>3. Len(r.q.elements) = n /\ WellFormed(r.q)
    BY <1>1 DEF Rearranged
<1>4. w \in [0 .. n - 1 -> Int] /\ \A c \in 0 .. n - 1 : w[c] = Heap!At(r.q, c).e
    BY <1>1, <1>3, ValuesOfHeap
<1>5. Heap!parent(r.i) = p
    BY DEF Heap!parent, Par
<1>6. ASSUME r.i > 0 PROVE p \in 0 .. n - 1 /\ p < r.i /\ p # r.i
    <2>1. r.i \in 1 .. n - 1
        BY <1>1, <1>2, <1>6
    <2> HIDE DEF p
    <2>2. p \in 0 .. n - 1 /\ p < r.i
        BY <2>1, <1>2, ParentsPlaces DEF p
    <2> QED BY <2>2, <1>1, <1>2
<1>7. CASE r.i > 0 /\ w[p] < w[r.i]
    <2> DEFINE u == Heap!Swapped(r.q, r.i, p)
    <2>1. Climb(r) = [q |-> u, i |-> p]
        BY <1>7, <1>4, <1>5, <1>6, <1>1 DEF Climb, Heap!m_comp
    <2>2. WellFormed(u) /\ Len(u.elements) = n /\ In(u) = In(r.q) /\ Len(u.positions) = Len(r.q.positions)
          /\ W(u) = Swap(w, r.i, p)
        <3> HIDE DEF p
        <3> QED BY <1>7, <1>3, <1>6, <1>1, SwappedHeap
    <2>3. Rearranged(u, q)
        BY <2>2, <1>1 DEF Rearranged
    <2>4. UpOK(W(u), n, d, p)
        BY <2>2, <1>1, <1>2, <1>4, <1>7, UpMoves
    <2>5. u \in HeapQueues
        BY <2>2 DEF WellFormed
    <2> HIDE DEF u, p, n, d
    <2>6. [q |-> u, i |-> p] \in Climbs(q)
        BY <2>3, <2>4, <2>5, <1>6, <1>7 DEF Climbs, n, d
    <2> QED BY <2>1, <2>6, <1>6, <1>7
<1>8. CASE ~(r.i > 0 /\ w[p] < w[r.i])
    <2>1. Climb(r) = r
        BY <1>8, <1>4, <1>5, <1>6, <1>1 DEF Climb, Heap!m_comp
    <2>2. Ordered(w, n, d)
        BY <1>1, <1>2, <1>4, <1>8, UpEnds
    <2> QED BY <2>1, <2>2
<1> QED BY <1>7, <1>8

\* fix_upwards() repairs a heap where one element may be too large.
LEMMA FixedUpwards ==
    ASSUME heap \in Heaps, NEW q, WellFormed(q), NEW i \in 0 .. Len(q.elements) - 1,
           UpOK(W(q), Len(q.elements), heap.degree, i)
    PROVE  LET r == Heap!fix_upwards(q, i)
           IN  Rearranged(r, q) /\ Ordered(W(r), Len(q.elements), heap.degree)
<1> DEFINE n == Len(q.elements)
           T == Climbs(q)
           b == [q |-> q, i |-> i]
           F == [r \in T |-> Climb(r)]
           rank == [r \in T |-> r.i]
           E(g) == g = [k \in 0 .. n |-> IF k = 0 THEN b ELSE Climb(g[k - 1])]
           after == CHOOSE g : E(g)
<1>1. q \in HeapQueues /\ n \in Nat
    BY ValuesOfHeap DEF WellFormed
<1>2. b \in T
    BY <1>1 DEF Climbs, Rearranged
<1>3. \A r \in T : /\ Climb(r) \in T /\ r.i \in Nat /\ r.i <= n
                   /\ Climb(r) = r \/ Climb(r).i < r.i
                   /\ Climb(r) = r => Ordered(W(r.q), n, heap.degree)
    <2> TAKE r \in T
    <2>1. r.i \in 0 .. n - 1
        BY DEF Climbs
    <2> HIDE DEF T
    <2>2. /\ Climb(r) \in T
          /\ Climb(r) = r \/ Climb(r).i < r.i
          /\ Climb(r) = r => Ordered(W(r.q), n, heap.degree)
        BY <1>1, ClimbOnce DEF T
    <2> QED BY <1>1, <2>1, <2>2
<1>4. Heap!fix_upwards(q, i) = after[n].q
    BY DEF Heap!fix_upwards, Climb, Heap!size
<1> HIDE DEF T, b
<1>5. F \in [T -> T] /\ rank \in [T -> Nat] /\ \A r \in T : F[r] = Climb(r) /\ rank[r] = r.i
    BY <1>3
<1> HIDE DEF F, rank
<1>6. rank[b] <= n /\ \A r \in T : F[r] = r \/ rank[F[r]] < rank[r]
    BY <1>2, <1>3, <1>5
<1>7. PICK f \in [0 .. n -> T] : Recursion(f, T, b, F, n)
    BY <1>1, <1>2, <1>5, RecursionExists
<1>8. E(f)
    <2>1. f = [k \in 0 .. n |-> IF k = 0 THEN b ELSE F[f[k - 1]]]
        BY <1>7 DEF Recursion
    <2>2. ASSUME NEW k \in 0 .. n, k # 0 PROVE F[f[k - 1]] = Climb(f[k - 1])
        <3>1. k - 1 \in 0 .. n
            BY <2>2, <1>1
        <3> QED BY <3>1, <1>5, <1>7
    <2> QED BY <2>1, <2>2
<1> HIDE DEF E
<1>9. E(after)
    BY <1>8
<1> HIDE DEF after
<1>10. after[0] = b /\ \A k \in 1 .. n : after[k - 1] \in T => after[k] = F[after[k - 1]]
    <2>1. after = [k \in 0 .. n |-> IF k = 0 THEN b ELSE Climb(after[k - 1])]
        BY <1>9 DEF E
    <2> DEFINE h == [k \in 0 .. n |-> IF k = 0 THEN b ELSE Climb(after[k - 1])]
    <2>2. h[0] = b /\ \A k \in 1 .. n : h[k] = Climb(after[k - 1])
        BY <1>1
    <2>3. after = h
        BY <2>1
    <2> HIDE DEF h
    <2>4. after[0] = b /\ \A k \in 1 .. n : after[k] = Climb(after[k - 1])
        BY <2>2, <2>3
    <2> QED BY <2>4, <1>5
<1>11. after[n] \in T /\ F[after[n]] = after[n]
    <2>1. after[0] \in T /\ rank[after[0]] <= n
        BY <1>2, <1>6, <1>10
    <2>2. StepsOf(T, F, n, rank, after)
        BY <2>1, <1>1, <1>5, <1>6, <1>10 DEF StepsOf
    <2> QED BY <2>2, LoopEnds
<1>12. Rearranged(after[n].q, q)
    BY <1>11 DEF T, Climbs
<1> QED BY <1>3, <1>4, <1>5, <1>11, <1>12

Falls(q) ==
    {r \in [q : HeapQueues, i : 0 .. Len(q.elements) - 1, ends : BOOLEAN] :
        /\ Rearranged(r.q, q) /\ DownOK(W(r.q), Len(q.elements), heap.degree, r.i)
        /\ r.ends => \A c \in 1 .. Len(q.elements) - 1 : Par(heap.degree, c) # r.i}
Fall(r) ==
    LET k == Heap!max_idx(r.q, r.i)
    IN  IF r.ends \/ k = r.i THEN r
        ELSE [q |-> Heap!Swapped(r.q, r.i, k), i |-> k,
              ends |-> heap.variant = "B" /\ Heap!child(r.i, heap.degree - 1) >= Heap!size(r.q)]

\* Below a node whose last children are missing nobody has a child.
LEMMA NoneBelow ==
    ASSUME NEW d \in Nat, d > 0, NEW n \in Nat, NEW i \in Nat, NEW k \in Nat, i < k,
           i * d + (d - 1) + 1 >= n
    PROVE  \A c \in 1 .. n - 1 : Par(d, c) # k
<1> SUFFICES ASSUME NEW c \in 1 .. n - 1, Par(d, c) = k PROVE FALSE
    OBVIOUS
<1>1. c >= k * d + 0 + 1
    BY ParentsChildren
<1> DEFINE e == k - i - 1
<1>2. e \in Nat /\ k = i + 1 + e
    OBVIOUS
<1> HIDE DEF e
<1>3. e * d \in Nat /\ k * d \in Nat /\ i * d \in Nat
    BY <1>2
<1>4. k * d = i * d + d + e * d
    BY <1>2
<1> DEFINE x == k * d
           y == i * d
           z == e * d
<1>5. x \in Nat /\ y \in Nat /\ z \in Nat /\ x = y + d + z /\ c >= x + 1 /\ y + d >= n
    BY <1>1, <1>3, <1>4
<1> HIDE DEF x, y, z
<1> QED BY <1>5

LEMMA FallOnce ==
    ASSUME heap \in Heaps, NEW q, q \in HeapQueues, NEW r \in Falls(q)
    PROVE  /\ Fall(r) \in Falls(q)
           /\ Fall(r) = r \/ Fall(r).i > r.i
           /\ Fall(r) = r => Ordered(W(r.q), Len(q.elements), heap.degree)
<1> DEFINE n == Len(q.elements)
           d == heap.degree
           w == W(r.q)
           k == Heap!max_idx(r.q, r.i)
           u == Heap!Swapped(r.q, r.i, k)
           ends == heap.variant = "B" /\ Heap!child(r.i, d - 1) >= Heap!size(r.q)
<1>1. /\ r.q \in HeapQueues /\ r.i \in 0 .. n - 1 /\ Rearranged(r.q, q) /\ DownOK(w, n, d, r.i)
      /\ r.ends \in BOOLEAN /\ (r.ends => \A c \in 1 .. n - 1 : Par(d, c) # r.i)
    BY DEF Falls
<1>2. d \in Nat /\ d > 0 /\ n \in Nat
    BY Degrees, ValuesOfHeap
<1>3. Len(r.q.elements) = n /\ WellFormed(r.q)
    BY <1>1 DEF Rearranged
<1>4. w \in [0 .. n - 1 -> Int]
    BY <1>1, <1>3, ValuesOfHeap
<1>5. /\ k # r.i => k \in 1 .. n - 1 /\ Par(d, k) = r.i
      /\ \A c \in 1 .. n - 1 : Par(d, c) = r.i => w[c] <= w[k]
      /\ k # r.i => w[r.i] < w[k]
    BY <1>1, <1>3, LargestOfFamily
<1>6. Fall(r) = IF r.ends \/ k = r.i THEN r ELSE [q |-> u, i |-> k, ends |-> ends]
    BY DEF Fall
<1> HIDE DEF k, u, ends
<1>7. CASE r.ends \/ k = r.i
    <2>1. \A c \in 1 .. n - 1 : Par(d, c) = r.i => w[c] <= w[r.i]
        BY <1>1, <1>5, <1>7
    <2>2. Ordered(w, n, d)
        BY <2>1, <1>1, <1>2, <1>4, DownEnds
    <2> QED BY <1>6, <1>7, <2>2
<1>8. CASE ~(r.ends \/ k = r.i)
    <2>1. k \in 1 .. n - 1 /\ Par(d, k) = r.i /\ w[r.i] < w[k] /\ k # r.i
        BY <1>5, <1>8
    <2>2. k \in 0 .. n - 1 /\ r.i < k /\ r.i \in Nat /\ k \in Nat
        <3>1. r.i \in Nat /\ k \in 0 .. n - 1 /\ k \in Nat
            BY <2>1, <1>1, <1>2
        <3> HIDE DEF n, d
        <3>2. Par(d, k) < k
            BY <2>1, <1>2, ParentsPlaces
        <3> QED BY <3>1, <3>2, <2>1
    <2>3. WellFormed(u) /\ Len(u.elements) = n /\ In(u) = In(r.q) /\ Len(u.positions) = Len(r.q.positions)
          /\ W(u) = Swap(w, r.i, k)
        BY <2>1, <2>2, <1>3, <1>1, SwappedHeap DEF u
    <2>4. Rearranged(u, q) /\ u \in HeapQueues
        BY <2>3, <1>1 DEF Rearranged, WellFormed
    <2>5. DownOK(W(u), n, d, k)
        BY <2>1, <2>3, <1>1, <1>2, <1>4, <1>5, DownMoves
    <2>6. ends \in BOOLEAN /\ (ends => \A c \in 1 .. n - 1 : Par(d, c) # k)
        <3>1. ends \in BOOLEAN
            BY DEF ends
        <3>2. ends => r.i * d + (d - 1) + 1 >= n
            BY <1>3 DEF ends, Heap!child, Heap!size
        <3> HIDE DEF n, d
        <3> QED BY <3>1, <3>2, <2>2, <1>2, NoneBelow
    <2> HIDE DEF n, d
    <2>7. [q |-> u, i |-> k, ends |-> ends] \in Falls(q)
        BY <2>2, <2>4, <2>5, <2>6 DEF Falls, n, d
    <2>8. Fall(r) = [q |-> u, i |-> k, ends |-> ends]
        BY <1>6, <1>8
    <2>9. Fall(r).i = k /\ Fall(r) # r
        BY <2>8, <2>1
    <2> QED BY <2>2, <2>7, <2>8, <2>9
<1> QED BY <1>7, <1>8

\* fix_downwards() repairs a heap where one element may be too small.
LEMMA FixedDownwards ==
    ASSUME heap \in Heaps, NEW q, WellFormed(q), NEW i \in 0 .. Len(q.elements) - 1,
           DownOK(W(q), Len(q.elements), heap.degree, i)
    PROVE  LET r == Heap!fix_downwards(q, i)
           IN  Rearranged(r, q) /\ Ordered(W(r), Len(q.elements), heap.degree)
<1> DEFINE n == Len(q.elements)
           T == Falls(q)
           b == [q |-> q, i |-> i, ends |-> FALSE]
           F == [r \in T |-> Fall(r)]
           rank == [r \in T |-> n - r.i]
           E(g) == g = [k \in 0 .. n |-> IF k = 0 THEN b ELSE Fall(g[k - 1])]
           after == CHOOSE g : E(g)
<1>1. q \in HeapQueues /\ n \in Nat
    BY ValuesOfHeap DEF WellFormed
<1>2. b \in T
    BY <1>1 DEF Falls, Rearranged
<1>3. \A r \in T : /\ Fall(r) \in T /\ n - r.i \in Nat /\ n - r.i <= n
                   /\ Fall(r) = r \/ n - Fall(r).i < n - r.i
                   /\ Fall(r) = r => Ordered(W(r.q), n, heap.degree)
    <2> TAKE r \in T
    <2>1. \A s \in T : s.i \in 0 .. n - 1
        BY DEF Falls
    <2> HIDE DEF T
    <2>2. /\ Fall(r) \in T
          /\ Fall(r) = r \/ Fall(r).i > r.i
          /\ Fall(r) = r => Ordered(W(r.q), n, heap.degree)
        BY <1>1, FallOnce DEF T
    <2>3. r.i \in 0 .. n - 1 /\ Fall(r).i \in 0 .. n - 1
        BY <2>1, <2>2
    <2> HIDE DEF n
    <2> QED BY <1>1, <2>2, <2>3
<1>4. Heap!fix_downwards(q, i) = after[n].q
    BY DEF Heap!fix_downwards, Fall, Heap!size
<1> HIDE DEF T, b
<1>5. F \in [T -> T] /\ rank \in [T -> Nat] /\ \A r \in T : F[r] = Fall(r) /\ rank[r] = n - r.i
    BY <1>3
<1> HIDE DEF F, rank
<1>6. rank[b] <= n /\ \A r \in T : F[r] = r \/ rank[F[r]] < rank[r]
    BY <1>2, <1>3, <1>5
<1>7. PICK f \in [0 .. n -> T] : Recursion(f, T, b, F, n)
    BY <1>1, <1>2, <1>5, RecursionExists
<1>8. E(f)
    <2>1. f = [k \in 0 .. n |-> IF k = 0 THEN b ELSE F[f[k - 1]]]
        BY <1>7 DEF Recursion
    <2>2. ASSUME NEW k \in 0 .. n, k # 0 PROVE F[f[k - 1]] = Fall(f[k - 1])
        <3>1. k - 1 \in 0 .. n
            BY <2>2, <1>1
        <3> QED BY <3>1, <1>5, <1>7
    <2> QED BY <2>1, <2>2
<1> HIDE DEF E
<1>9. E(after)
    BY <1>8
<1> HIDE DEF after
<1>10. after[0] = b /\ \A k \in 1 .. n : after[k - 1] \in T => after[k] = F[after[k - 1]]
    <2>1. after = [k \in 0 .. n |-> IF k = 0 THEN b ELSE Fall(after[k - 1])]
        BY <1>9 DEF E
    <2> DEFINE h == [k \in 0 .. n |-> IF k = 0 THEN b ELSE Fall(after[k - 1])]
    <2>2. h[0] = b /\ \A k \in 1 .. n : h[k] = Fall(after[k - 1])
        BY <1>1
    <2>3. after = h
        BY <2>1
    <2> HIDE DEF h
    <2>4. after[0] = b /\ \A k \in 1 .. n : after[k] = Fall(after[k - 1])
        BY <2>2, <2>3
    <2> QED BY <2>4, <1>5
<1>11. after[n] \in T /\ F[after[n]] = after[n]
    <2>1. after[0] \in T /\ rank[after[0]] <= n
        BY <1>2, <1>6, <1>10
    <2>2. StepsOf(T, F, n, rank, after)
        BY <2>1, <1>1, <1>5, <1>6, <1>10 DEF StepsOf
    <2> QED BY <2>2, LoopEnds
<1>12. Rearranged(after[n].q, q)
    BY <1>11 DEF T, Falls
<1> QED BY <1>3, <1>4, <1>5, <1>11, <1>12

\* The inductive invariant of the heaps.
HeapOrdered(q) == WellFormed(q) /\ Ordered(W(q), Len(q.elements), heap.degree)
HeapInv == which = "heap" => heap \in Heaps /\ HeapOrdered(pq)

LEMMA NewHandle ==
    ASSUME heap \in Heaps, NEW q, WellFormed(q), Len(q.elements) < MaxSize, Len(q.positions) < MaxSize
    PROVE  /\ Heap!HandleFor(q) \in 1 .. MaxSize
           /\ heap.variant = "D" => Heap!HandleFor(q) = Len(q.positions) + 1
           /\ \A i \in 1 .. Len(q.elements) : q.elements[i].h # Heap!HandleFor(q)
<1> DEFINE s == q.elements
           n == Len(s)
           N == Len(q.positions)
           D == heap.variant = "D"
           used == {s[i].h : i \in 1 .. n}
<1>1. n \in Nat /\ N \in Nat /\ MaxSize \in Nat
    BY SequentialAssumption DEF WellFormed, HeapQueues
<1>2. CASE D
    <2>1. Heap!HandleFor(q) = N + 1
        BY <1>2 DEF Heap!HandleFor
    <2>2. \A i \in 1 .. n : s[i].h \in 1 .. N
        BY <1>2 DEF WellFormed
    <2>3. \A i \in 1 .. n : s[i].h # N + 1
        <3> HIDE DEF s, n, N
        <3> TAKE i \in 1 .. n
        <3>1. s[i].h \in 1 .. N
            BY <2>2
        <3> QED BY <3>1, <1>1
    <2>4. N + 1 \in 1 .. MaxSize
        BY <1>1
    <2> QED BY <2>1, <2>3, <2>4
<1>3. CASE ~D
    <2> DEFINE free == (1 .. MaxSize) \ used
    <2>1. Heap!HandleFor(q) = Heap!Min(free)
        BY <1>3 DEF Heap!HandleFor, Heap!Handles, Heap!size
    <2>2. free # {}
        <3> SUFFICES ASSUME 1 .. MaxSize \subseteq used PROVE FALSE
            OBVIOUS
        <3> DEFINE f == [i \in 1 .. n |-> s[i].h]
        <3>1. IsFiniteSet(1 .. n) /\ Cardinality(1 .. n) = n
            <4> HIDE DEF n
            <4>1. 1 \in Int /\ n \in Int
                BY <1>1
            <4>2. IsFiniteSet(1 .. n) /\ Cardinality(1 .. n) = IF 1 > n THEN 0 ELSE n - 1 + 1
                BY ONLY <4>1, FS_Interval
            <4> QED BY <4>2, <1>1
        <3>2. f \in Surjection(1 .. n, used)
            BY DEF Surjection
        <3> HIDE DEF f, used, n
        <3>3. IsFiniteSet(used) /\ Cardinality(used) <= n
            BY <3>1, <3>2, FS_Surjection
        <3>4. Cardinality(1 .. MaxSize) = MaxSize
            <4>1. 1 \in Int /\ MaxSize \in Int
                BY <1>1
            <4>2. Cardinality(1 .. MaxSize) = IF 1 > MaxSize THEN 0 ELSE MaxSize - 1 + 1
                BY ONLY <4>1, FS_Interval
            <4> QED BY <4>2, <1>1
        <3>5. Cardinality(1 .. MaxSize) <= Cardinality(used)
            BY <3>3, FS_Subset
        <3>6. Cardinality(used) \in Nat
            BY <3>3, FS_CardinalityType
        <3>7. n < MaxSize
            BY DEF n
        <3> QED BY <3>3, <3>4, <3>5, <3>6, <3>7, <1>1
    <2>3. free \in SUBSET Nat
        OBVIOUS
    <2> HIDE DEF free
    <2>4. \E m \in free : \A k \in free : m <= k
        BY <2>2, <2>3, LeastElement
    <2>5. Heap!Min(free) \in free
        BY <2>4 DEF Heap!Min
    <2>6. Heap!HandleFor(q) \in 1 .. MaxSize /\ Heap!HandleFor(q) \notin used
        BY <2>1, <2>5 DEF free
    <2> QED BY <2>6, <1>3
<1> QED BY <1>2, <1>3

\* push() adds an element with a new handle.
LEMMA PushedHeap ==
    ASSUME heap \in Heaps, HeapOrdered(pq), NEW v \in Values, Heap!Push(v)
    PROVE  /\ heap' = heap /\ HeapOrdered(pq')
           /\ \E h \in 1 .. MaxSize : /\ In(pq') = In(pq) \cup {[e |-> v, h |-> h]}
                                      /\ \A x \in In(pq) : x.h # h
<1> DEFINE s == pq.elements
           n == Len(s)
           p == pq.positions
           d == heap.degree
           D == heap.variant = "D"
           h == Heap!HandleFor(pq)
           x == [e |-> v, h |-> h]
           es == Append(s, x)
           ps == IF D THEN Append(p, n) ELSE <<>>
           q == [elements |-> es, positions |-> ps]
           w == W(pq)
           u == W(q)
<1>1. WellFormed(pq) /\ Ordered(w, n, d)
    BY DEF HeapOrdered
<1>2. s \in Seq(HeapElements) /\ p \in Seq(Int) /\ n \in Nat /\ pq \in HeapQueues
    BY <1>1 DEF WellFormed, HeapQueues
<1>3. n < MaxSize /\ Len(p) < MaxSize /\ heap' = heap /\ pq' = Heap!fix_upwards(q, n)
    BY DEF Heap!Push, Heap!size
<1>4. h \in 1 .. MaxSize /\ (D => h = Len(p) + 1) /\ \A i \in 1 .. n : s[i].h # h
    BY <1>1, <1>3, NewHandle
<1>5. x \in HeapElements /\ x.e = v /\ x.h = h
    BY <1>4 DEF HeapElements, Heap!Handles
<1>6. d \in Nat /\ d > 0
    BY Degrees
<1> HIDE DEF h, x
<1>7. /\ es \in Seq(HeapElements) /\ Len(es) = n + 1 /\ es[n + 1] = x
      /\ \A i \in 1 .. n : es[i] = s[i]
    BY <1>2, <1>5
<1>8. ps \in Seq(Int) /\ (D => Len(ps) = Len(p) + 1 /\ ps[Len(p) + 1] = n /\ \A i \in 1 .. Len(p) : ps[i] = p[i])
    BY <1>2
<1>9. q.elements = es /\ q.positions = ps /\ q \in HeapQueues
    BY <1>7, <1>8 DEF HeapQueues
<1> HIDE DEF es, ps, q
<1>10. WellFormed(q)
    <2>1. ASSUME NEW i \in 1 .. n + 1, NEW j \in 1 .. n + 1, es[i].h = es[j].h PROVE i = j
        <3>1. CASE i \in 1 .. n /\ j \in 1 .. n
            BY <3>1, <2>1, <1>7, <1>1 DEF WellFormed
        <3>2. CASE i = n + 1 /\ j \in 1 .. n
            BY <3>2, <2>1, <1>7, <1>4, <1>5
        <3>3. CASE i \in 1 .. n /\ j = n + 1
            BY <3>3, <2>1, <1>7, <1>4, <1>5
        <3> QED BY <3>1, <3>2, <3>3, <1>2
    <2>2. ASSUME D, NEW i \in 1 .. n + 1 PROVE es[i].h \in 1 .. Len(ps) /\ ps[es[i].h] = i - 1
        <3>1. Len(p) \in Nat
            BY <1>2
        <3>2. CASE i = n + 1
            BY <3>1, <3>2, <2>2, <1>2, <1>4, <1>5, <1>7, <1>8
        <3>3. CASE i \in 1 .. n
            <4>1. es[i] = s[i] /\ s[i].h \in 1 .. Len(p) /\ p[s[i].h] = i - 1
                BY <3>3, <2>2, <1>7, <1>1 DEF WellFormed
            <4>2. Len(ps) = Len(p) + 1 /\ \A k \in 1 .. Len(p) : ps[k] = p[k]
                BY <2>2, <1>8
            <4> HIDE DEF p
            <4>3. es[i].h \in 1 .. Len(p) + 1
                BY <4>1, <3>1
            <4> QED BY <4>1, <4>2, <4>3
        <3> QED BY <3>2, <3>3, <1>2
    <2>3. ~D => ps = <<>>
        BY DEF ps
    <2> QED BY <2>1, <2>2, <2>3, <1>7, <1>9 DEF WellFormed
<1>11. In(q) = In(pq) \cup {x} /\ \A z \in In(pq) : z.h # h
    <2>1. In(q) = {es[i] : i \in 1 .. n + 1} /\ In(pq) = {s[i] : i \in 1 .. n}
        BY <1>7, <1>9 DEF In
    <2>2. 1 .. n + 1 = (1 .. n) \cup {n + 1}
        <3> HIDE DEF n
        <3> QED BY <1>2
    <2> HIDE DEF s, n
    <2>3. {es[i] : i \in 1 .. n + 1} = {es[i] : i \in 1 .. n} \cup {x}
        BY <2>2, <1>7
    <2>4. {es[i] : i \in 1 .. n} = {s[i] : i \in 1 .. n}
        BY <1>7
    <2> QED BY <2>1, <2>3, <2>4, <1>4
<1>12. UpOK(u, n + 1, d, n)
    <2>1. w \in [0 .. n - 1 -> Int] /\ \A i \in 0 .. n - 1 : w[i] = s[i + 1].e
        BY <1>2, ValuesOfHeap
    <2>2. u \in [0 .. (n + 1) - 1 -> Int] /\ \A i \in 0 .. (n + 1) - 1 : u[i] = es[i + 1].e
        BY <1>7, <1>9, ValuesOfHeap
    <2> HIDE DEF w, u, n, s, d
    <2>3. \A i \in 0 .. n - 1 : u[i] = w[i]
        <3> TAKE i \in 0 .. n - 1
        <3>1. i + 1 \in 1 .. n /\ i \in 0 .. (n + 1) - 1
            BY <1>2
        <3> QED BY <3>1, <2>1, <2>2, <1>7
    <2>4. ASSUME NEW c \in 1 .. (n + 1) - 1, c # n PROVE u[c] <= u[Par(d, c)]
        <3>1. c \in 1 .. n - 1
            BY <2>4, <1>2
        <3>2. c \in 0 .. n - 1 /\ Par(d, c) \in 0 .. n - 1
            BY <3>1, <1>2, <1>6, ParentsPlaces
        <3>3. w[c] <= w[Par(d, c)]
            BY <3>1, <1>1 DEF Ordered
        <3> QED BY <3>2, <3>3, <2>3
    <2>5. ASSUME NEW c \in 1 .. (n + 1) - 1 PROVE Par(d, c) # n
        <3>1. c \in Nat /\ c > 0 /\ c <= n
            BY <1>2
        <3>2. Par(d, c) < c /\ Par(d, c) \in Nat
            BY <3>1, <1>6, Parents
        <3> QED BY <3>1, <3>2, <1>2
    <2> QED BY <2>4, <2>5 DEF UpOK
<1>13. n \in 0 .. Len(q.elements) - 1 /\ Len(q.elements) = n + 1
    BY <1>2, <1>7, <1>9
<1>14. Rearranged(pq', q) /\ Ordered(W(pq'), Len(q.elements), d)
    <2> HIDE DEF n, d
    <2>1. UpOK(u, Len(q.elements), d, n)
        BY <1>12, <1>13
    <2> QED BY <2>1, <1>3, <1>10, <1>13, FixedUpwards DEF d
<1> QED BY <1>3, <1>4, <1>11, <1>14 DEF Rearranged, HeapOrdered, x

\* The last element replaces the first one.
LEMMA LastToFrontHeap ==
    ASSUME heap \in Heaps, NEW q, HeapOrdered(q), Len(q.elements) > 0
    PROVE  LET r == Heap!LastToFront(q)
               n == Len(q.elements)
           IN  /\ WellFormed(r) /\ Len(r.elements) = n - 1 /\ Len(r.positions) = Len(q.positions)
               /\ In(r) = In(q) \ {q.elements[1]}
               /\ DownOK(W(r), n - 1, heap.degree, 0)
<1> DEFINE s == q.elements
           n == Len(s)
           p == q.positions
           d == heap.degree
           D == heap.variant = "D"
           x == s[1]
           y == s[n]
           t == [s EXCEPT ![1] = y]
           es == SubSeq(t, 1, n - 1)
           ps == IF D THEN [p EXCEPT ![x.h] = -1, ![y.h] = 0] ELSE p
           r == Heap!LastToFront(q)
           w == W(q)
           u == W(r)
<1>1. WellFormed(q) /\ Ordered(w, n, d)
    BY DEF HeapOrdered
<1>2. /\ s \in Seq(HeapElements) /\ p \in Seq(Int) /\ n \in Nat /\ q \in HeapQueues
      /\ q = [elements |-> s, positions |-> p] /\ n > 0
    BY <1>1 DEF WellFormed, HeapQueues
<1>3. d \in Nat /\ d > 0
    BY Degrees
<1>4. /\ \A a, b \in 1 .. n : s[a].h = s[b].h => a = b
      /\ D => \A a \in 1 .. n : s[a].h \in 1 .. Len(p) /\ p[s[a].h] = a - 1
      /\ ~D => p = <<>>
    BY <1>1 DEF WellFormed
<1>5. 1 \in 1 .. n /\ n \in 1 .. n /\ x \in HeapElements /\ y \in HeapElements
    BY <1>2
<1>6. t \in Seq(HeapElements) /\ Len(t) = n /\ t[1] = y /\ \A a \in 1 .. n : a # 1 => t[a] = s[a]
    BY <1>2, <1>5
<1>7. r = [elements |-> es, positions |-> ps]
    <2>1. Heap!At(q, 0) = x /\ Heap!Last(s) = y
        BY DEF Heap!At, Heap!Last
    <2> DEFINE gone == Heap!SetPos(q, x.h, Heap!Gone)
               moved == Heap!SetPos([gone EXCEPT !.elements[1] = y], y.h, 0)
    <2>2. r = [moved EXCEPT !.elements = Heap!Front(moved.elements)]
        <3>1. r = LET g == Heap!SetPos(q, Heap!At(q, 0).h, Heap!Gone)
                      back == Heap!Last(q.elements)
                      m == Heap!SetPos([g EXCEPT !.elements[1] = back], back.h, 0)
                  IN  [m EXCEPT !.elements = Heap!Front(m.elements)]
            BY DEF Heap!LastToFront
        <3>2. Heap!At(q, 0) = x /\ Heap!Last(q.elements) = y
            BY <2>1
        <3> HIDE DEF r, x, y
        <3> QED BY ONLY <3>1, <3>2
    <2>3. moved = [elements |-> t, positions |-> ps]
        <3>1. CASE D
            <4>1. gone = [elements |-> s, positions |-> [p EXCEPT ![x.h] = -1]]
                BY <3>1, <1>2 DEF Heap!SetPos, Heap!Gone
            <4> HIDE DEF x, y, s, p, gone
            <4> QED BY <3>1, <4>1 DEF Heap!SetPos
        <3>2. CASE ~D
            <4>1. gone = [elements |-> s, positions |-> p]
                BY <3>2, <1>2 DEF Heap!SetPos
            <4> HIDE DEF x, y, s, p, gone
            <4> QED BY <3>2, <4>1 DEF Heap!SetPos
        <3> QED BY <3>1, <3>2
    <2> HIDE DEF moved, t, ps, r
    <2>4. Heap!Front(t) = es
        BY <1>6 DEF Heap!Front
    <2> QED BY <2>2, <2>3, <2>4
<1> HIDE DEF t, r
<1>8. /\ es \in Seq(HeapElements) /\ Len(es) = n - 1
      /\ \A a \in 1 .. n - 1 : es[a] = IF a = 1 THEN y ELSE s[a]
    <2>1. es \in Seq(HeapElements) /\ Len(es) = n - 1 /\ \A a \in 1 .. n - 1 : es[a] = t[a]
        <3> HIDE DEF n
        <3>1. n - 1 \in Nat /\ 1 .. n - 1 \subseteq 1 .. n
            BY <1>2
        <3> QED BY <3>1, <1>2, <1>6
    <2>2. \A a \in 1 .. n - 1 : a \in 1 .. n
        BY <1>2
    <2> HIDE DEF es, n
    <2> QED BY <2>1, <2>2, <1>6
<1> HIDE DEF es
<1>9. ps \in Seq(Int) /\ Len(ps) = Len(p)
    <2>1. CASE D
        <3>1. x.h \in 1 .. Len(p) /\ y.h \in 1 .. Len(p)
            BY <2>1, <1>4, <1>5
        <3> QED BY <2>1, <1>2, <3>1
    <2>2. CASE ~D
        BY <2>2, <1>2
    <2> QED BY <2>1, <2>2
<1>10. r.elements = es /\ r.positions = ps /\ r \in HeapQueues
    BY <1>7, <1>8, <1>9 DEF HeapQueues
<1>11. ~D => ps = <<>>
    BY <1>4
<1>12. D => ps[y.h] = 0 /\ \A a \in 1 .. n - 1 : a # 1 => ps[s[a].h] = a - 1 /\ s[a].h \in 1 .. Len(p)
    <2> SUFFICES ASSUME D
                 PROVE ps[y.h] = 0 /\ \A a \in 1 .. n - 1 : a # 1 => ps[s[a].h] = a - 1 /\ s[a].h \in 1 .. Len(p)
        OBVIOUS
    <2>1. \A a \in 1 .. n : s[a].h \in 1 .. Len(p) /\ p[s[a].h] = a - 1
        BY <1>4
    <2>2. x.h \in DOMAIN p /\ y.h \in DOMAIN p
        BY <2>1, <1>2, <1>5
    <2>3. ps[y.h] = 0 /\ \A h \in DOMAIN p : h # x.h /\ h # y.h => ps[h] = p[h]
        BY <2>2
    <2>4. ASSUME NEW a \in 1 .. n - 1, a # 1 PROVE ps[s[a].h] = a - 1 /\ s[a].h \in 1 .. Len(p)
        <3>1. a \in 1 .. n /\ a # n
            BY <1>2
        <3>2. s[a].h # x.h /\ s[a].h # y.h /\ s[a].h \in 1 .. Len(p) /\ p[s[a].h] = a - 1
            BY <3>1, <2>4, <2>1, <1>4, <1>5
        <3>3. DOMAIN p = 1 .. Len(p)
            BY <1>2
        <3> QED BY <3>2, <3>3, <2>3
    <2> QED BY <2>3, <2>4
<1>13. D => y.h \in 1 .. Len(p)
    BY <1>4, <1>5
<1> HIDE DEF ps
<1>14. WellFormed(r)
    <2>1. ASSUME NEW a \in 1 .. n - 1, NEW b \in 1 .. n - 1, es[a].h = es[b].h PROVE a = b
        <3> DEFINE f(z) == IF z = 1 THEN n ELSE z
        <3>1. \A z \in 1 .. n - 1 : f(z) \in 1 .. n /\ es[z] = s[f(z)]
            BY <1>2, <1>8
        <3>2. f(a) = f(b) => a = b
            BY <1>2
        <3> HIDE DEF f
        <3>3. s[f(a)].h = s[f(b)].h /\ f(a) \in 1 .. n /\ f(b) \in 1 .. n
            BY <3>1, <2>1
        <3> QED BY <3>2, <3>3, <1>4
    <2>2. ASSUME D, NEW a \in 1 .. n - 1 PROVE es[a].h \in 1 .. Len(ps) /\ ps[es[a].h] = a - 1
        <3>1. CASE a = 1
            BY <3>1, <2>2, <1>8, <1>9, <1>12, <1>13
        <3>2. CASE a # 1
            BY <3>2, <2>2, <1>8, <1>9, <1>12
        <3> QED BY <3>1, <3>2
    <2> HIDE DEF n
    <2> QED BY <2>1, <2>2, <1>8, <1>10, <1>11 DEF WellFormed
<1>15. In(r) = In(q) \ {x}
    <2>1. In(r) = {es[a] : a \in 1 .. n - 1} /\ In(q) = {s[a] : a \in 1 .. n}
        BY <1>8, <1>10 DEF In
    <2>2. \A a \in 1 .. n : a # 1 => s[a] # x
        BY <1>4, <1>5
    <2>3. ASSUME NEW z \in {es[a] : a \in 1 .. n - 1} PROVE z \in {s[a] : a \in 1 .. n} \ {x}
        <3>1. PICK a \in 1 .. n - 1 : z = es[a]
            OBVIOUS
        <3>2. CASE a = 1
            <4>1. z = y
                BY <3>1, <3>2, <1>8
            <4>2. n # 1
                <5> HIDE DEF n
                <5> QED BY <3>1, <3>2, <1>2
            <4> QED BY <4>1, <4>2, <2>2, <1>5
        <3>3. CASE a # 1
            <4>1. z = s[a] /\ a \in 1 .. n
                BY <3>1, <3>3, <1>8, <1>2
            <4> QED BY <4>1, <3>3, <2>2
        <3> QED BY <3>2, <3>3
    <2>4. ASSUME NEW z \in {s[a] : a \in 1 .. n} \ {x} PROVE z \in {es[a] : a \in 1 .. n - 1}
        <3>1. PICK a \in 1 .. n : z = s[a]
            OBVIOUS
        <3>2. a # 1
            BY <3>1
        <3>3. CASE a = n
            <4>1. 1 \in 1 .. n - 1 /\ es[1] = z
                BY <3>1, <3>2, <3>3, <1>8, <1>2
            <4> QED BY <4>1
        <3>4. CASE a # n
            <4>1. a \in 1 .. n - 1 /\ es[a] = z
                BY <3>1, <3>2, <3>4, <1>8, <1>2
            <4> QED BY <4>1
        <3> QED BY <3>3, <3>4
    <2> HIDE DEF s, n, x
    <2> QED BY <2>1, <2>3, <2>4
<1>16. DownOK(u, n - 1, d, 0)
    <2>1. w \in [0 .. n - 1 -> Int] /\ \A i \in 0 .. n - 1 : w[i] = s[i + 1].e
        BY <1>2, ValuesOfHeap
    <2>2. \A i \in 0 .. n - 2 : u[i] = es[i + 1].e
        <3>1. \A i \in 0 .. Len(r.elements) - 1 : u[i] = r.elements[i + 1].e
            BY <1>10, ValuesOfHeap
        <3>2. Len(r.elements) - 1 = n - 2
            BY <1>2, <1>8, <1>10
        <3> HIDE DEF u, n
        <3> QED BY <3>1, <3>2, <1>10
    <2> HIDE DEF w, u, n, s, d
    <2>3. \A i \in 1 .. n - 2 : u[i] = w[i]
        <3> TAKE i \in 1 .. n - 2
        <3>1. i + 1 \in 1 .. n - 1 /\ i + 1 # 1 /\ i \in 0 .. n - 1 /\ i \in 0 .. n - 2
            BY <1>2
        <3> QED BY <3>1, <2>1, <2>2, <1>8
    <2>4. ASSUME NEW c \in 1 .. (n - 1) - 1, Par(d, c) # 0 PROVE u[c] <= u[Par(d, c)]
        <3>1. c \in 1 .. n - 2 /\ c \in 1 .. n - 1 /\ c \in Nat /\ c > 0
            BY <1>2
        <3>2. Par(d, c) \in Nat /\ Par(d, c) < c
            BY <3>1, <1>3, Parents
        <3>3. Par(d, c) \in 1 .. n - 2
            BY <3>1, <3>2, <2>4, <1>2
        <3>4. w[c] <= w[Par(d, c)]
            BY <3>1, <1>1 DEF Ordered
        <3> QED BY <3>1, <3>3, <3>4, <2>3
    <2> QED BY <2>4 DEF DownOK
<1> QED BY <1>8, <1>9, <1>10, <1>14, <1>15, <1>16 DEF r

\* pop() takes out one of the largest elements.
LEMMA PoppedHeap ==
    ASSUME heap \in Heaps, HeapOrdered(pq), Heap!Pop
    PROVE  /\ heap' = heap /\ HeapOrdered(pq')
           /\ \E x \in In(pq) : In(pq') = In(pq) \ {x} /\ \A y \in In(pq) : y.e <= x.e
<1> DEFINE n == Len(pq.elements)
           d == heap.degree
           q == Heap!LastToFront(pq)
           x == pq.elements[1]
           w == W(pq)
<1>1. /\ n > 0 /\ heap' = heap
      /\ pq' = IF Len(q.elements) = 0 THEN q ELSE Heap!fix_downwards(q, 0)
    BY DEF Heap!Pop, Heap!size
<1>2. /\ WellFormed(q) /\ Len(q.elements) = n - 1 /\ Len(q.positions) = Len(pq.positions)
      /\ In(q) = In(pq) \ {x} /\ DownOK(W(q), n - 1, d, 0)
    BY <1>1, LastToFrontHeap
<1>3. pq \in HeapQueues /\ n \in Nat /\ Ordered(w, n, d) /\ d \in Nat /\ d > 0
    BY Degrees DEF HeapOrdered, WellFormed, HeapQueues
<1> HIDE DEF q, d
<1>4. WellFormed(pq') /\ In(pq') = In(q) /\ Ordered(W(pq'), Len(pq'.elements), d)
    <2>1. CASE Len(q.elements) = 0
        <3>1. pq' = q /\ Len(pq'.elements) = 0 /\ 1 .. 0 - 1 = {}
            BY <2>1, <1>1
        <3> QED BY <3>1, <1>2 DEF Ordered
    <2>2. CASE Len(q.elements) # 0
        <3>1. pq' = Heap!fix_downwards(q, 0) /\ 0 \in 0 .. Len(q.elements) - 1
            <4> HIDE DEF n
            <4> QED BY <2>2, <1>1, <1>2, <1>3
        <3>2. DownOK(W(q), Len(q.elements), heap.degree, 0)
            BY <1>2 DEF d
        <3>3. Rearranged(pq', q) /\ Ordered(W(pq'), Len(q.elements), heap.degree)
            BY <3>1, <3>2, <1>2, FixedDownwards
        <3> QED BY <3>3 DEF Rearranged, d
    <2> QED BY <2>1, <2>2
<1>5. x \in In(pq)
    BY <1>1, <1>3 DEF In
<1>6. ASSUME NEW y \in In(pq) PROVE y.e <= x.e
    <2>1. PICK a \in 1 .. n : y = pq.elements[a]
        BY DEF In
    <2>2. w \in [0 .. n - 1 -> Int] /\ \A i \in 0 .. n - 1 : w[i] = pq.elements[i + 1].e
        BY <1>3, ValuesOfHeap
    <2>3. a - 1 \in 0 .. n - 1 /\ (a - 1) + 1 = a /\ 0 \in 0 .. n - 1
        BY <1>3
    <2> HIDE DEF w, n
    <2>4. w[a - 1] <= w[0]
        BY <2>2, <2>3, <1>3, FirstIsLargest
    <2>5. w[a - 1] = y.e /\ w[0] = x.e
        <3>1. w[0] = pq.elements[0 + 1].e
            BY <2>2, <2>3
        <3> QED BY <3>1, <2>1, <2>2, <2>3
    <2> QED BY <2>4, <2>5
<1> QED BY <1>1, <1>2, <1>4, <1>5, <1>6 DEF HeapOrdered, d

\* Another value for one element.
WithValue(q, i, v) ==
    [elements |-> [q.elements EXCEPT ![i + 1] = [e |-> v, h |-> q.elements[i + 1].h]],
     positions |-> q.positions]

LEMMA ValueChanges ==
    ASSUME NEW q \in HeapQueues, NEW i \in 0 .. Len(q.elements) - 1, NEW v \in Values
    PROVE  [q EXCEPT !.elements[i + 1].e = v] = WithValue(q, i, v)
<1> DEFINE s == q.elements
           p == q.positions
           x == s[i + 1]
<1>1. s \in Seq(HeapElements) /\ q = [elements |-> s, positions |-> p]
    BY DEF HeapQueues
<1>2. i + 1 \in 1 .. Len(s)
    BY <1>1
<1>3. x = [e |-> x.e, h |-> x.h]
    <2>1. x \in HeapElements
        BY <1>1, <1>2
    <2> HIDE DEF x
    <2> QED BY <2>1 DEF HeapElements
<1>4. [q EXCEPT !.elements[i + 1].e = v] = [q EXCEPT !.elements = [s EXCEPT ![i + 1] = [x EXCEPT !.e = v]]]
    OBVIOUS
<1>5. [x EXCEPT !.e = v] = [e |-> v, h |-> x.h]
    <2> HIDE DEF x
    <2> QED BY <1>3
<1>6. [q EXCEPT !.elements = [s EXCEPT ![i + 1] = [x EXCEPT !.e = v]]]
      = [elements |-> [s EXCEPT ![i + 1] = [e |-> v, h |-> x.h]], positions |-> p]
    <2> HIDE DEF x
    <2> QED BY <1>1, <1>5
<1> QED BY <1>4, <1>6 DEF WithValue

LEMMA ChangedElement ==
    ASSUME NEW q, WellFormed(q), NEW i \in 0 .. Len(q.elements) - 1, NEW v \in Values
    PROVE  LET r == WithValue(q, i, v)
           IN  /\ WellFormed(r) /\ Len(r.elements) = Len(q.elements) /\ Len(r.positions) = Len(q.positions)
               /\ W(r) = [W(q) EXCEPT ![i] = v]
               /\ In(r) = (In(q) \ {q.elements[i + 1]}) \cup {[e |-> v, h |-> q.elements[i + 1].h]}
<1> DEFINE s == q.elements
           n == Len(s)
           p == q.positions
           x == s[i + 1]
           y == [e |-> v, h |-> x.h]
           es == [s EXCEPT ![i + 1] = y]
           r == WithValue(q, i, v)
           D == heap.variant = "D"
<1>1. /\ s \in Seq(HeapElements) /\ p \in Seq(Int) /\ n \in Nat /\ q \in HeapQueues
      /\ q = [elements |-> s, positions |-> p]
    BY DEF WellFormed, HeapQueues
<1>2. i + 1 \in 1 .. n
    BY <1>1
<1>3. x \in HeapElements /\ y \in HeapElements
    <2>1. x \in HeapElements
        BY <1>1, <1>2
    <2> HIDE DEF x
    <2> QED BY <2>1 DEF HeapElements
<1>4. r = [elements |-> es, positions |-> p]
    BY DEF WithValue
<1>5. /\ es \in Seq(HeapElements) /\ Len(es) = n /\ es[i + 1] = y
      /\ \A a \in 1 .. n : a # i + 1 => es[a] = s[a]
    BY <1>1, <1>2, <1>3
<1>6. \A a \in 1 .. n : es[a].h = s[a].h
    <2> TAKE a \in 1 .. n
    <2>1. CASE a = i + 1
        BY <2>1, <1>5
    <2>2. CASE a # i + 1
        BY <2>2, <1>5
    <2> QED BY <2>1, <2>2
<1>7. y.h = x.h /\ y.e = v
    OBVIOUS
<1> HIDE DEF es, r, y
<1>8. r.elements = es /\ r.positions = p /\ r \in HeapQueues
    BY <1>1, <1>4, <1>5 DEF HeapQueues
<1>9. /\ \A a, b \in 1 .. n : s[a].h = s[b].h => a = b
      /\ D => \A a \in 1 .. n : s[a].h \in 1 .. Len(p) /\ p[s[a].h] = a - 1
      /\ ~D => p = <<>>
    BY DEF WellFormed
<1>10. WellFormed(r)
    <2> HIDE DEF s, n, p
    <2>1. \A a, b \in 1 .. n : es[a].h = es[b].h => a = b
        BY <1>6, <1>9
    <2>2. D => \A a \in 1 .. n : es[a].h \in 1 .. Len(p) /\ p[es[a].h] = a - 1
        BY <1>6, <1>9
    <2> QED BY <2>1, <2>2, <1>5, <1>8, <1>9 DEF WellFormed
<1>11. W(r) = [W(q) EXCEPT ![i] = v]
    <2>1. W(r) = [a \in 0 .. n - 1 |-> es[a + 1].e]
        BY <1>5, <1>8 DEF W
    <2>2. [W(q) EXCEPT ![i] = v] = [a \in 0 .. n - 1 |-> IF a = i THEN v ELSE s[a + 1].e]
        BY DEF W
    <2>3. \A a \in 0 .. n - 1 : es[a + 1].e = IF a = i THEN v ELSE s[a + 1].e
        <3> TAKE a \in 0 .. n - 1
        <3>1. a + 1 \in 1 .. n /\ (a # i => a + 1 # i + 1)
            BY <1>1
        <3> QED BY <3>1, <1>5, <1>7
    <2> HIDE DEF s, n
    <2> QED BY <2>1, <2>2, <2>3
<1>12. In(r) = (In(q) \ {x}) \cup {y}
    <2>1. In(r) = {es[a] : a \in 1 .. n} /\ In(q) = {s[a] : a \in 1 .. n}
        BY <1>5, <1>8 DEF In
    <2>2. \A a \in 1 .. n : a # i + 1 => s[a] # x
        BY <1>2, <1>9
    <2>3. ASSUME NEW z \in {es[a] : a \in 1 .. n} PROVE z \in ({s[a] : a \in 1 .. n} \ {x}) \cup {y}
        <3>1. PICK a \in 1 .. n : z = es[a]
            OBVIOUS
        <3>2. CASE a = i + 1
            BY <3>1, <3>2, <1>5
        <3>3. CASE a # i + 1
            BY <3>1, <3>3, <1>5, <2>2
        <3> QED BY <3>2, <3>3
    <2>4. ASSUME NEW z \in ({s[a] : a \in 1 .. n} \ {x}) \cup {y} PROVE z \in {es[a] : a \in 1 .. n}
        <3>1. CASE z = y
            BY <3>1, <1>2, <1>5
        <3>2. CASE z # y
            <4>1. PICK a \in 1 .. n : z = s[a] /\ z # x
                BY <3>2
            <4>2. a # i + 1
                BY <4>1
            <4> QED BY <4>1, <4>2, <1>5
        <3> QED BY <3>1, <3>2
    <2> HIDE DEF s, n, x
    <2> QED BY <2>1, <2>3, <2>4
<1> QED BY <1>5, <1>8, <1>10, <1>11, <1>12 DEF r, y

\* change_key() gives the element of a handle another value.
LEMMA ChangedHeap ==
    ASSUME heap \in Heaps, HeapOrdered(pq), NEW h \in 1 .. MaxSize, NEW v \in Values, Heap!ChangeKey(h, v)
    PROVE  /\ heap' = heap /\ HeapOrdered(pq')
           /\ \E x \in In(pq) : x.h = h /\ In(pq') = (In(pq) \ {x}) \cup {[e |-> v, h |-> h]}
<1> DEFINE s == pq.elements
           n == Len(s)
           d == heap.degree
           w == W(pq)
<1>1. WellFormed(pq) /\ Ordered(w, n, d) /\ n \in Nat /\ pq \in HeapQueues /\ d \in Nat /\ d > 0
    BY Degrees DEF HeapOrdered, WellFormed, HeapQueues
<1>2. heap' = heap /\ heap.variant = "D" /\ \E i \in 1 .. n : s[i].h = h
    BY DEF Heap!ChangeKey, Heap!size
<1>3. PICK a \in 1 .. n : s[a].h = h
    BY <1>2
<1> DEFINE i == pq.positions[h]
           q == [pq EXCEPT !.elements[i + 1].e = v]
<1>4. i = a - 1 /\ i \in 0 .. n - 1 /\ i + 1 = a
    <2>1. i = a - 1
        BY <1>1, <1>2, <1>3 DEF WellFormed
    <2> HIDE DEF i, n
    <2> QED BY <2>1, <1>1
<1>5. pq' = IF Heap!m_comp(Heap!At(pq, i).e, v) THEN Heap!fix_upwards(q, i) ELSE Heap!fix_downwards(q, i)
    BY DEF Heap!ChangeKey
<1> HIDE DEF i
<1>6. /\ WellFormed(q) /\ Len(q.elements) = n /\ W(q) = [w EXCEPT ![i] = v]
      /\ In(q) = (In(pq) \ {s[a]}) \cup {[e |-> v, h |-> h]}
    <2>1. /\ WellFormed(q) /\ Len(q.elements) = n /\ W(q) = [w EXCEPT ![i] = v]
          /\ In(q) = (In(pq) \ {s[i + 1]}) \cup {[e |-> v, h |-> s[i + 1].h]}
        <3>1. q = WithValue(pq, i, v)
            BY <1>1, <1>4, ValueChanges
        <3> DEFINE r == WithValue(pq, i, v)
        <3>2. WellFormed(pq) /\ i \in 0 .. Len(pq.elements) - 1
            BY <1>1, <1>4
        <3>3. /\ WellFormed(r) /\ Len(r.elements) = Len(pq.elements)
              /\ W(r) = [W(pq) EXCEPT ![i] = v]
              /\ In(r) = (In(pq) \ {pq.elements[i + 1]}) \cup {[e |-> v, h |-> pq.elements[i + 1].h]}
            BY ONLY <3>2, v \in Values, ChangedElement
        <3> HIDE DEF q, r
        <3>4. q = r
            BY <3>1 DEF r
        <3> QED BY <3>3, <3>4
    <2> HIDE DEF q, s, n, w
    <2> QED BY <2>1, <1>3, <1>4
<1> HIDE DEF q
<1>7. w \in [0 .. n - 1 -> Int] /\ w[i] = Heap!At(pq, i).e
    BY <1>1, <1>4, ValuesOfHeap
<1>8. v \in Int
    BY SequentialAssumption
<1>9. Rearranged(pq', q) /\ Ordered(W(pq'), Len(q.elements), d)
    <2>1. CASE w[i] < v
        <3>1. UpOK(W(q), n, d, i)
            <4> HIDE DEF w, n, d
            <4>1. w[i] \in Int /\ w[i] <= v
                BY <1>4, <1>7, <1>8, <2>1
            <4>2. UpOK([w EXCEPT ![i] = v], n, d, i)
                BY <4>1, <1>1, <1>4, <1>7, <1>8, Raised
            <4> QED BY <4>2, <1>6
        <3>2. pq' = Heap!fix_upwards(q, i)
            BY <1>5, <1>7, <2>1 DEF Heap!m_comp
        <3> QED BY <3>1, <3>2, <1>4, <1>6, FixedUpwards
    <2>2. CASE ~(w[i] < v)
        <3>1. DownOK(W(q), n, d, i)
            <4> HIDE DEF w, n, d
            <4>1. w[i] \in Int /\ v <= w[i]
                BY <1>4, <1>7, <1>8, <2>2
            <4>2. DownOK([w EXCEPT ![i] = v], n, d, i)
                BY <4>1, <1>1, <1>4, <1>7, <1>8, Lowered
            <4> QED BY <4>2, <1>6
        <3>2. pq' = Heap!fix_downwards(q, i)
            BY <1>5, <1>7, <2>2 DEF Heap!m_comp
        <3> QED BY <3>1, <3>2, <1>4, <1>6, FixedDownwards
    <2> QED BY <2>1, <2>2
<1>10. s[a] \in In(pq)
    BY <1>3 DEF In
<1> QED BY <1>2, <1>3, <1>6, <1>9, <1>10 DEF Rearranged, HeapOrdered

LEMMA EmptyIsOrdered == HeapOrdered(Heap!EmptyHeap) /\ In(Heap!EmptyHeap) = {}
<1> DEFINE q == Heap!EmptyHeap
<1>1. q = [elements |-> <<>>, positions |-> <<>>]
    BY DEF Heap!EmptyHeap
<1>2. q.elements = <<>> /\ q.positions = <<>> /\ Len(q.elements) = 0 /\ 1 .. 0 = {} /\ 1 .. 0 - 1 = {}
    BY <1>1
<1>3. q \in HeapQueues
    BY <1>1 DEF HeapQueues
<1> HIDE DEF q
<1>4. WellFormed(q)
    BY <1>2, <1>3 DEF WellFormed
<1>5. Ordered(W(q), Len(q.elements), heap.degree)
    BY <1>2 DEF Ordered
<1>6. In(q) = {}
    BY <1>2 DEF In
<1> QED BY <1>4, <1>5, <1>6 DEF HeapOrdered, q

LEMMA HeapOrderedNext ==
    ASSUME heap' = heap, HeapOrdered(pq')
    PROVE  HeapOrdered(pq)'
BY DEF HeapOrdered, WellFormed, HeapQueues, HeapElements, Heap!Handles, W, Ordered, Par

\* Only the actions of the heaps change them.
LEMMA HeapApart ==
    ASSUME SequentialNext
    PROVE  /\ which' = which /\ (which = "heap" => Heap!PQNext)
           /\ which # "heap" => heap' = heap /\ pq' = pq
BY DEF SequentialNext, structures, heapVars

LEMMA InitHeap == SequentialInit => HeapInv
<1> SUFFICES ASSUME SequentialInit, which = "heap" PROVE heap \in Heaps /\ HeapOrdered(pq)
    BY DEF HeapInv
<1>1. heap \in Heaps /\ pq = Heap!EmptyHeap
    BY DEF SequentialInit, Heap!PQInit
<1> QED BY <1>1, EmptyIsOrdered

\* What a step does to the set of elements.
HeapStep ==
    \/ \E v \in Values, h \in 1 .. MaxSize :
        In(pq') = In(pq) \cup {[e |-> v, h |-> h]} /\ \A x \in In(pq) : x.h # h
    \/ \E x \in In(pq) : In(pq') = In(pq) \ {x} /\ \A y \in In(pq) : y.e <= x.e
    \/ In(pq') = {}
    \/ \E x \in In(pq), v \in Values :
        In(pq') = (In(pq) \ {x}) \cup {[e |-> v, h |-> x.h]}

LEMMA HeapSteps ==
    ASSUME heap \in Heaps, HeapOrdered(pq), Heap!PQNext
    PROVE  heap' = heap /\ HeapOrdered(pq') /\ HeapStep
<1>1. CASE \E v \in Values : Heap!Push(v)
    <2>1. PICK v \in Values : Heap!Push(v)
        BY <1>1
    <2> QED BY <2>1, PushedHeap DEF HeapStep
<1>2. CASE Heap!Pop
    BY <1>2, PoppedHeap DEF HeapStep
<1>3. CASE Heap!Construct
    <2>1. heap' = heap /\ pq' = Heap!EmptyHeap
        BY <1>3 DEF Heap!Construct
    <2> QED BY <2>1, EmptyIsOrdered DEF HeapStep
<1>4. CASE \E h \in Heap!Handles, v \in Values : Heap!ChangeKey(h, v)
    <2>1. PICK h \in 1 .. MaxSize, v \in Values : Heap!ChangeKey(h, v)
        BY <1>4 DEF Heap!Handles
    <2>2. heap' = heap /\ HeapOrdered(pq')
        BY <2>1, ChangedHeap
    <2>3. PICK x \in In(pq) : x.h = h /\ In(pq') = (In(pq) \ {x}) \cup {[e |-> v, h |-> h]}
        BY <2>1, ChangedHeap
    <2> QED BY <2>2, <2>3 DEF HeapStep
<1> QED BY <1>1, <1>2, <1>3, <1>4 DEF Heap!PQNext

LEMMA NextHeap == HeapInv /\ [SequentialNext]_allVars => HeapInv'
<1> SUFFICES ASSUME HeapInv, [SequentialNext]_allVars, which' = "heap"
             PROVE  heap' \in Heaps /\ HeapOrdered(pq)'
    BY DEF HeapInv
<1>1. CASE UNCHANGED allVars
    <2>1. which' = which /\ heap' = heap /\ pq' = pq
        BY <1>1 DEF allVars
    <2>2. heap \in Heaps /\ HeapOrdered(pq')
        BY <2>1 DEF HeapInv
    <2> QED BY <2>1, <2>2, HeapOrderedNext
<1>2. CASE SequentialNext
    <2>1. which = "heap" /\ Heap!PQNext /\ heap \in Heaps /\ HeapOrdered(pq)
        BY <1>2, HeapApart DEF HeapInv
    <2>2. heap' = heap /\ HeapOrdered(pq')
        BY <2>1, HeapSteps
    <2> QED BY <2>1, <2>2, HeapOrderedNext
<1> QED BY <1>1, <1>2

LEMMA HeapFollows == ASSUME heap \in Heaps, HeapOrdered(pq) PROVE Heap!InHeapOrder
<1> DEFINE n == Len(pq.elements)
           w == W(pq)
           d == heap.degree
<1>1. WellFormed(pq) /\ Ordered(w, n, d) /\ n \in Nat /\ pq \in HeapQueues /\ d \in Nat /\ d > 0
    BY Degrees DEF HeapOrdered, WellFormed, HeapQueues
<1>2. w \in [0 .. n - 1 -> Int] /\ \A i \in 0 .. n - 1 : w[i] = Heap!At(pq, i).e
    BY <1>1, ValuesOfHeap
<1>3. ASSUME NEW i \in 1 .. n - 1 PROVE ~Heap!m_comp(Heap!At(pq, Heap!parent(i)).e, Heap!At(pq, i).e)
    <2> HIDE DEF w, n, d
    <2>1. i \in 0 .. n - 1 /\ Par(d, i) \in 0 .. n - 1
        BY <1>1, ParentsPlaces
    <2>2. w[i] <= w[Par(d, i)]
        BY <1>1 DEF Ordered
    <2>3. w[i] \in Int /\ w[Par(d, i)] \in Int
        BY <1>2, <2>1
    <2>4. Heap!parent(i) = Par(d, i)
        BY DEF Heap!parent, Par, d
    <2> QED BY <1>2, <2>1, <2>2, <2>3, <2>4 DEF Heap!m_comp
<1>4. ASSUME heap.variant = "D", NEW i \in 0 .. n - 1 PROVE pq.positions[Heap!At(pq, i).h] = i
    <2>1. i + 1 \in 1 .. n /\ (i + 1) - 1 = i
        <3> HIDE DEF n
        <3> QED BY <1>1
    <2>2. pq.positions[pq.elements[i + 1].h] = (i + 1) - 1
        BY <1>1, <1>4, <2>1 DEF WellFormed
    <2> QED BY <2>1, <2>2 DEF Heap!At
<1> QED BY <1>3, <1>4 DEF Heap!InHeapOrder, Heap!size
-----------------------------------------------------------------------------
(* IndexedPriorityQueue: a heap of degree two, from position 1.            *)

Pairs == [key : SomeKeys, value : Values]
KeyQueues == [heap : Seq(Pairs), index : [SomeKeys -> Nat]]
WK(q) == [i \in 0 .. Len(q.heap) - 1 |-> q.heap[i + 1].value]
InK(q) == {q.heap[i] : i \in 1 .. Len(q.heap)}

\* The positions lead to the keys, and a key without an element has none.
WellIndexed(q) ==
    /\ q \in KeyQueues
    /\ \A i \in 1 .. Len(q.heap) : q.index[q.heap[i].key] = i
    /\ \A key \in SomeKeys : q.index[key] # 0 => \E i \in 1 .. Len(q.heap) : q.heap[i].key = key

SwappedKeys(q, i, j) ==
    [heap |-> [q.heap EXCEPT ![i] = q.heap[j], ![j] = q.heap[i]],
     index |-> [q.index EXCEPT ![q.heap[j].key] = i, ![q.heap[i].key] = j]]

LEMMA ValuesOfKeys ==
    ASSUME NEW q \in KeyQueues
    PROVE  /\ q.heap \in Seq(Pairs) /\ Len(q.heap) \in Nat /\ q.index \in [SomeKeys -> Nat]
           /\ q = [heap |-> q.heap, index |-> q.index]
           /\ WK(q) \in [0 .. Len(q.heap) - 1 -> Int]
           /\ \A i \in 0 .. Len(q.heap) - 1 : WK(q)[i] = q.heap[i + 1].value
           /\ \A i \in 1 .. Len(q.heap) : q.heap[i] \in Pairs /\ q.heap[i].key \in SomeKeys
<1>1. /\ q.heap \in Seq(Pairs) /\ Len(q.heap) \in Nat /\ q.index \in [SomeKeys -> Nat]
      /\ q = [heap |-> q.heap, index |-> q.index]
    BY DEF KeyQueues
<1>2. \A i \in 1 .. Len(q.heap) : q.heap[i] \in Pairs /\ q.heap[i].key \in SomeKeys
    <2> TAKE i \in 1 .. Len(q.heap)
    <2>1. q.heap[i] \in Pairs
        BY <1>1
    <2> QED BY <2>1 DEF Pairs
<1>3. ASSUME NEW i \in 0 .. Len(q.heap) - 1 PROVE q.heap[i + 1].value \in Int
    <2>1. i + 1 \in 1 .. Len(q.heap)
        BY <1>1
    <2>2. q.heap[i + 1] \in Pairs
        BY <1>2, <2>1
    <2>3. q.heap[i + 1].value \in Values
        BY <2>2 DEF Pairs
    <2> QED BY <2>3, SequentialAssumption
<1> QED BY <1>1, <1>2, <1>3 DEF WK

LEMMA SwappedQueue ==
    ASSUME NEW q, WellIndexed(q), NEW i \in 1 .. Len(q.heap), NEW j \in 1 .. Len(q.heap), i # j
    PROVE  LET r == SwappedKeys(q, i, j)
           IN  /\ WellIndexed(r) /\ Len(r.heap) = Len(q.heap) /\ InK(r) = InK(q)
               /\ WK(r) = Swap(WK(q), i - 1, j - 1)
<1> DEFINE s == q.heap
           p == q.index
           n == Len(s)
           x == s[i]
           y == s[j]
           es == [s EXCEPT ![i] = y, ![j] = x]
           ps == [p EXCEPT ![y.key] = i, ![x.key] = j]
           r == SwappedKeys(q, i, j)
<1>1. q \in KeyQueues /\ s \in Seq(Pairs) /\ n \in Nat /\ p \in [SomeKeys -> Nat] /\ i \in Nat /\ j \in Nat
    BY ValuesOfKeys DEF WellIndexed
<1>2. /\ \A a \in 1 .. n : s[a] \in Pairs /\ s[a].key \in SomeKeys
      /\ x \in Pairs /\ y \in Pairs /\ x.key \in SomeKeys /\ y.key \in SomeKeys
    BY <1>1, ValuesOfKeys
<1>3. /\ \A a \in 1 .. n : p[s[a].key] = a
      /\ \A key \in SomeKeys : p[key] # 0 => \E a \in 1 .. n : s[a].key = key
    BY DEF WellIndexed
<1>4. x.key # y.key
    BY <1>3
<1>5. x = s[i] /\ y = s[j]
    OBVIOUS
<1> HIDE DEF x, y
<1>6. /\ es \in Seq(Pairs) /\ Len(es) = n /\ es[i] = y /\ es[j] = x
      /\ \A a \in 1 .. n : a # i /\ a # j => es[a] = s[a]
    BY <1>1, <1>2
<1>7. /\ ps \in [SomeKeys -> Nat] /\ ps[y.key] = i /\ ps[x.key] = j
      /\ \A key \in SomeKeys : key # x.key /\ key # y.key => ps[key] = p[key]
    BY <1>1, <1>2, <1>4
<1>8. r = [heap |-> es, index |-> ps]
    BY <1>5 DEF SwappedKeys
<1> HIDE DEF r, es, ps
<1>9. r.heap = es /\ r.index = ps /\ r \in KeyQueues
    BY <1>6, <1>7, <1>8 DEF KeyQueues
<1>10. ASSUME NEW a \in 1 .. n PROVE ps[es[a].key] = a
    <2>1. CASE a = i
        BY <2>1, <1>6, <1>7
    <2>2. CASE a = j
        BY <2>2, <1>6, <1>7
    <2>3. CASE a # i /\ a # j
        <3>1. es[a] = s[a] /\ s[a].key \in SomeKeys /\ p[s[a].key] = a
            BY <2>3, <1>2, <1>3, <1>6
        <3>2. s[a].key # x.key /\ s[a].key # y.key
            BY <2>3, <1>3, <1>5
        <3> QED BY <3>1, <3>2, <1>7
    <2> QED BY <2>1, <2>2, <2>3
<1>11. ASSUME NEW a \in 1 .. n PROVE \E b \in 1 .. n : s[a] = es[b]
    <2>1. CASE a = i
        BY <2>1, <1>5, <1>6
    <2>2. CASE a = j
        BY <2>2, <1>5, <1>6
    <2>3. CASE a # i /\ a # j
        BY <2>3, <1>6
    <2> QED BY <2>1, <2>2, <2>3
<1>12. ASSUME NEW key \in SomeKeys, ps[key] # 0 PROVE \E b \in 1 .. n : es[b].key = key
    <2>1. \E a \in 1 .. n : s[a].key = key
        <3>1. CASE key = x.key \/ key = y.key
            BY <3>1, <1>5
        <3>2. CASE key # x.key /\ key # y.key
            BY <3>2, <1>3, <1>7, <1>12
        <3> QED BY <3>1, <3>2
    <2> HIDE DEF s, n
    <2> QED BY <2>1, <1>11
<1>13. WellIndexed(r)
    <2> HIDE DEF n
    <2> QED BY <1>6, <1>9, <1>10, <1>12 DEF WellIndexed
<1>14. InK(r) = InK(q)
    <2>1. InK(r) = {es[a] : a \in 1 .. n} /\ InK(q) = {s[a] : a \in 1 .. n}
        BY <1>6, <1>9 DEF InK
    <2>2. ASSUME NEW a \in 1 .. n PROVE \E b \in 1 .. n : es[a] = s[b]
        BY <1>5, <1>6
    <2> HIDE DEF s, n
    <2>3. {es[a] : a \in 1 .. n} \subseteq {s[a] : a \in 1 .. n}
        <3> SUFFICES ASSUME NEW a \in 1 .. n PROVE es[a] \in {s[b] : b \in 1 .. n}
            OBVIOUS
        <3> QED BY <2>2
    <2>4. {s[a] : a \in 1 .. n} \subseteq {es[a] : a \in 1 .. n}
        <3> SUFFICES ASSUME NEW a \in 1 .. n PROVE s[a] \in {es[b] : b \in 1 .. n}
            OBVIOUS
        <3> QED BY <1>11
    <2> QED BY <2>1, <2>3, <2>4
<1>15. WK(r) = Swap(WK(q), i - 1, j - 1)
    <2>1. WK(r) = [a \in 0 .. n - 1 |-> es[a + 1].value]
        BY <1>6, <1>9 DEF WK
    <2>2. Swap(WK(q), i - 1, j - 1)
          = [a \in 0 .. n - 1 |-> IF a = j - 1 THEN x.value ELSE IF a = i - 1 THEN y.value ELSE s[a + 1].value]
        <3> DEFINE w == WK(q)
        <3>1. (i - 1) + 1 = i /\ (j - 1) + 1 = j /\ i - 1 \in 0 .. n - 1 /\ j - 1 \in 0 .. n - 1
            BY <1>1
        <3>2. w = [a \in 0 .. n - 1 |-> s[a + 1].value]
            BY DEF WK
        <3>3. w[i - 1] = x.value /\ w[j - 1] = y.value
            BY <3>1, <3>2, <1>5
        <3> HIDE DEF w, s, n
        <3>4. Swap(w, i - 1, j - 1) = [w EXCEPT ![i - 1] = y.value, ![j - 1] = x.value]
            BY <3>3 DEF Swap
        <3>5. DOMAIN w = 0 .. n - 1 /\ \A a \in 0 .. n - 1 : w[a] = s[a + 1].value
            BY <3>2
        <3>6. [w EXCEPT ![i - 1] = y.value, ![j - 1] = x.value]
              = [a \in 0 .. n - 1 |-> IF a = j - 1 THEN x.value ELSE IF a = i - 1 THEN y.value ELSE w[a]]
            BY <3>5
        <3>7. Swap(w, i - 1, j - 1)
              = [a \in 0 .. n - 1 |-> IF a = j - 1 THEN x.value ELSE IF a = i - 1 THEN y.value ELSE s[a + 1].value]
            BY <3>4, <3>5, <3>6
        <3> QED BY <3>7 DEF w
    <2>3. ASSUME NEW a \in 0 .. n - 1
          PROVE es[a + 1].value = IF a = j - 1 THEN x.value ELSE IF a = i - 1 THEN y.value ELSE s[a + 1].value
        <3>1. a + 1 \in 1 .. n /\ (a = j - 1 <=> a + 1 = j) /\ (a = i - 1 <=> a + 1 = i)
            BY <1>1
        <3> QED BY <3>1, <1>6
    <2> HIDE DEF s, n
    <2> QED BY <2>1, <2>2, <2>3
<1> QED BY <1>6, <1>9, <1>13, <1>14, <1>15 DEF r

LEMMA PlacedPair ==
    ASSUME NEW q \in KeyQueues, NEW i \in 1 .. Len(q.heap), NEW x \in Pairs
    PROVE  LET r == Indexed!Placed(q, i, x)
           IN  /\ r = [heap |-> [q.heap EXCEPT ![i] = x], index |-> [q.index EXCEPT ![x.key] = i]]
               /\ r \in KeyQueues /\ Len(r.heap) = Len(q.heap) /\ r.heap[i] = x
               /\ \A a \in 1 .. Len(q.heap) : a # i => r.heap[a] = q.heap[a]
               /\ r.index[x.key] = i
               /\ \A key \in SomeKeys : key # x.key => r.index[key] = q.index[key]
<1> DEFINE es == [q.heap EXCEPT ![i] = x]
           ps == [q.index EXCEPT ![x.key] = i]
           r == Indexed!Placed(q, i, x)
<1>1. q.heap \in Seq(Pairs) /\ Len(q.heap) \in Nat /\ q.index \in [SomeKeys -> Nat]
    BY ValuesOfKeys
<1>2. r = [heap |-> es, index |-> ps]
    BY DEF Indexed!Placed
<1>3. x.key \in SomeKeys
    BY DEF Pairs
<1>4. es \in Seq(Pairs) /\ Len(es) = Len(q.heap) /\ es[i] = x /\ \A a \in 1 .. Len(q.heap) : a # i => es[a] = q.heap[a]
    BY <1>1
<1>5. ps \in [SomeKeys -> Nat] /\ ps[x.key] = i /\ \A key \in SomeKeys : key # x.key => ps[key] = q.index[key]
    BY <1>1, <1>3
<1> HIDE DEF r, es, ps
<1>6. r.heap = es /\ r.index = ps /\ r \in KeyQueues
    BY <1>2, <1>4, <1>5 DEF KeyQueues
<1>7. /\ r.heap = es /\ r.index = ps /\ r \in KeyQueues /\ r = [heap |-> es, index |-> ps]
      /\ Len(r.heap) = Len(q.heap) /\ r.heap[i] = x
      /\ \A a \in 1 .. Len(q.heap) : a # i => r.heap[a] = q.heap[a]
      /\ r.index[x.key] = i
      /\ \A key \in SomeKeys : key # x.key => r.index[key] = q.index[key]
    BY <1>2, <1>4, <1>5, <1>6
<1> QED BY <1>7 DEF r, es, ps

\* Moving the hole is a swap, in the queue where the hole is filled.
LEMMA MovedHole ==
    ASSUME NEW q \in KeyQueues, NEW i \in 1 .. Len(q.heap), NEW j \in 1 .. Len(q.heap), i # j, NEW x \in Pairs
    PROVE  /\ Indexed!Placed(q, i, q.heap[j]) \in KeyQueues
           /\ Len(Indexed!Placed(q, i, q.heap[j]).heap) = Len(q.heap)
           /\ Indexed!Placed(Indexed!Placed(q, i, q.heap[j]), j, x) = SwappedKeys(Indexed!Placed(q, i, x), i, j)
<1> DEFINE s == q.heap
           p == q.index
           y == q.heap[j]
           m == Indexed!Placed(q, i, y)
           f == Indexed!Placed(q, i, x)
<1>1. s \in Seq(Pairs) /\ p \in [SomeKeys -> Nat] /\ y \in Pairs
    BY ValuesOfKeys
<1>10. y = s[j]
    OBVIOUS
<1> HIDE DEF y
<1>2. m = [heap |-> [s EXCEPT ![i] = y], index |-> [p EXCEPT ![y.key] = i]] /\ m \in KeyQueues /\ Len(m.heap) = Len(s)
    <2>1. q \in KeyQueues /\ i \in 1 .. Len(q.heap) /\ y \in Pairs
        BY <1>1
    <2>2. m \in KeyQueues /\ Len(m.heap) = Len(q.heap)
        BY ONLY <2>1, PlacedPair
    <2>3. m = [heap |-> [s EXCEPT ![i] = y], index |-> [p EXCEPT ![y.key] = i]]
        BY DEF Indexed!Placed
    <2> QED BY <2>2, <2>3
<1>3. f = [heap |-> [s EXCEPT ![i] = x], index |-> [p EXCEPT ![x.key] = i]] /\ f.heap[i] = x /\ f.heap[j] = y
    BY <1>10, PlacedPair
<1>4. x.key \in SomeKeys /\ y.key \in SomeKeys
    BY <1>1 DEF Pairs
<1> HIDE DEF m, f
<1>5. Indexed!Placed(m, j, x) = [heap |-> [[s EXCEPT ![i] = y] EXCEPT ![j] = x],
                                 index |-> [[p EXCEPT ![y.key] = i] EXCEPT ![x.key] = j]]
    BY <1>2 DEF Indexed!Placed
<1>6. SwappedKeys(f, i, j) = [heap |-> [[s EXCEPT ![i] = x] EXCEPT ![i] = y, ![j] = x],
                              index |-> [[p EXCEPT ![x.key] = i] EXCEPT ![y.key] = i, ![x.key] = j]]
    BY <1>3 DEF SwappedKeys
<1>7. DOMAIN s = 1 .. Len(s) /\ DOMAIN p = SomeKeys
    BY <1>1
<1>8. [[s EXCEPT ![i] = y] EXCEPT ![j] = x] = [[s EXCEPT ![i] = x] EXCEPT ![i] = y, ![j] = x]
    <2> DEFINE A == [[s EXCEPT ![i] = y] EXCEPT ![j] = x]
               B == [[s EXCEPT ![i] = x] EXCEPT ![i] = y, ![j] = x]
    <2>1. A = [a \in DOMAIN s |-> IF a = j THEN x ELSE IF a = i THEN y ELSE s[a]]
        BY <1>7
    <2>2. B = [a \in DOMAIN s |-> IF a = j THEN x ELSE IF a = i THEN y ELSE s[a]]
        BY <1>7
    <2> HIDE DEF A, B
    <2>3. A = B
        BY <2>1, <2>2
    <2> QED BY <2>3 DEF A, B
<1>9. [[p EXCEPT ![y.key] = i] EXCEPT ![x.key] = j] = [[p EXCEPT ![x.key] = i] EXCEPT ![y.key] = i, ![x.key] = j]
    <2> DEFINE A == [[p EXCEPT ![y.key] = i] EXCEPT ![x.key] = j]
               B == [[p EXCEPT ![x.key] = i] EXCEPT ![y.key] = i, ![x.key] = j]
    <2>1. A = [a \in DOMAIN p |-> IF a = x.key THEN j ELSE IF a = y.key THEN i ELSE p[a]]
        BY <1>4, <1>7
    <2>2. B = [a \in DOMAIN p |-> IF a = x.key THEN j ELSE IF a = y.key THEN i ELSE p[a]]
        BY <1>4, <1>7
    <2> HIDE DEF A, B
    <2>3. A = B
        BY <2>1, <2>2
    <2> QED BY <2>3 DEF A, B
<1> QED BY <1>2, <1>5, <1>6, <1>8, <1>9 DEF m, f, y

LEMMA Halves ==
    ASSUME NEW i \in Nat, i > 0
    PROVE  /\ i \div 2 \in Nat /\ i \div 2 < i /\ (i \div 2 > 0 <=> i - 1 > 0)
           /\ i - 1 > 0 => Par(2, i - 1) = (i \div 2) - 1
BY DEF Par

\* r has the keys of q, in another order.
RearrangedKeys(r, q) == WellIndexed(r) /\ Len(r.heap) = Len(q.heap) /\ InK(r) = InK(q)

\* The records of siftUp(): the hole is at r.i, and q is the queue with x there at first.
KeyClimbs(q, x) ==
    {r \in [q : KeyQueues, i : 1 .. Len(q.heap)] :
        /\ Len(r.q.heap) = Len(q.heap)
        /\ RearrangedKeys(Indexed!Placed(r.q, r.i, x), q)
        /\ UpOK(WK(Indexed!Placed(r.q, r.i, x)), Len(q.heap), 2, r.i - 1)}
KeyClimb(r, x) ==
    LET above == r.i \div 2
    IN  IF above > 0 /\ Less(r.q.heap[above].value, x.value)
        THEN [q |-> Indexed!Placed(r.q, r.i, r.q.heap[above]), i |-> above]
        ELSE r

LEMMA KeyClimbOnce ==
    ASSUME NEW q \in KeyQueues, NEW x \in Pairs, NEW r \in KeyClimbs(q, x)
    PROVE  /\ KeyClimb(r, x) \in KeyClimbs(q, x)
           /\ KeyClimb(r, x) = r \/ KeyClimb(r, x).i < r.i
           /\ KeyClimb(r, x) = r => Ordered(WK(Indexed!Placed(r.q, r.i, x)), Len(q.heap), 2)
<1> DEFINE n == Len(q.heap)
           f == Indexed!Placed(r.q, r.i, x)
           w == WK(f)
           above == r.i \div 2
           y == r.q.heap[above]
           m == Indexed!Placed(r.q, r.i, y)
<1>1. /\ r.q \in KeyQueues /\ r.i \in 1 .. n /\ Len(r.q.heap) = n /\ r = [q |-> r.q, i |-> r.i]
      /\ RearrangedKeys(f, q) /\ UpOK(w, n, 2, r.i - 1)
    BY DEF KeyClimbs
<1>2. n \in Nat /\ r.i \in Nat /\ r.i > 0 /\ r.i - 1 \in 0 .. n - 1 /\ (r.i - 1) + 1 = r.i
    <2>1. n \in Nat
        BY ValuesOfKeys
    <2> HIDE DEF n
    <2> QED BY <2>1, <1>1
<1>3. /\ above \in Nat /\ above < r.i /\ (above > 0 <=> r.i - 1 > 0)
      /\ r.i - 1 > 0 => Par(2, r.i - 1) = above - 1
    BY <1>2, Halves
<1>4. Len(f.heap) = n /\ f.heap[r.i] = x /\ \A a \in 1 .. n : a # r.i => f.heap[a] = r.q.heap[a]
    <2> DEFINE z == r.q
               h == r.i
    <2>1. z \in KeyQueues /\ h \in 1 .. Len(z.heap) /\ x \in Pairs /\ Len(z.heap) = n
        BY <1>1
    <2>2. f = Indexed!Placed(z, h, x)
        OBVIOUS
    <2> HIDE DEF z, h
    <2>3. /\ Len(Indexed!Placed(z, h, x).heap) = Len(z.heap) /\ Indexed!Placed(z, h, x).heap[h] = x
          /\ \A a \in 1 .. Len(z.heap) : a # h => Indexed!Placed(z, h, x).heap[a] = z.heap[a]
        BY ONLY <2>1, PlacedPair
    <2> HIDE DEF f, n
    <2>4. Len(f.heap) = n /\ f.heap[h] = x /\ \A a \in 1 .. n : a # h => f.heap[a] = z.heap[a]
        BY <2>1, <2>2, <2>3
    <2> QED BY <2>4 DEF z, h
<1>5. f \in KeyQueues /\ WellIndexed(f)
    BY <1>1 DEF RearrangedKeys, WellIndexed
<1>6. w \in [0 .. n - 1 -> Int] /\ \A i \in 0 .. n - 1 : w[i] = f.heap[i + 1].value
    BY <1>4, <1>5, ValuesOfKeys
<1>7. KeyClimb(r, x) = IF above > 0 /\ y.value < x.value THEN [q |-> m, i |-> above] ELSE r
    BY DEF KeyClimb, Less
<1>8. w[r.i - 1] = x.value
    BY <1>2, <1>4, <1>6
<1>9. ASSUME above > 0
      PROVE  /\ above \in 1 .. n /\ above # r.i /\ above - 1 \in 0 .. n - 1 /\ w[above - 1] = y.value
             /\ f.heap[above] = y
    <2>1. above \in 1 .. n /\ above # r.i /\ above - 1 \in 0 .. n - 1 /\ (above - 1) + 1 = above
        <3> HIDE DEF n, above
        <3> QED BY <1>1, <1>2, <1>3, <1>9
    <2>2. f.heap[above] = y
        BY <1>4, <2>1
    <2> HIDE DEF above, n, f, w, y
    <2>3. w[above - 1] = f.heap[above].value
        BY <2>1, <1>6
    <2> QED BY <2>1, <2>2, <2>3
<1> HIDE DEF n, f, w, above
<1>10. CASE above > 0 /\ y.value < x.value
    <2>1. w[Par(2, r.i - 1)] < w[r.i - 1] /\ r.i - 1 > 0
        BY <1>3, <1>8, <1>9, <1>10
    <2>2. UpOK(Swap(w, r.i - 1, above - 1), n, 2, above - 1)
        <3> DEFINE k == r.i - 1
        <3>1. n \in Nat /\ 2 \in Nat /\ 2 > 0 /\ k \in 0 .. n - 1 /\ w \in [0 .. n - 1 -> Int]
              /\ UpOK(w, n, 2, k) /\ k > 0 /\ w[Par(2, k)] < w[k]
            BY <2>1, <1>1, <1>2, <1>6
        <3> HIDE DEF k
        <3>2. UpOK(Swap(w, k, Par(2, k)), n, 2, Par(2, k))
            BY ONLY <3>1, UpMoves
        <3>3. UpOK(Swap(w, r.i - 1, Par(2, r.i - 1)), n, 2, Par(2, r.i - 1))
            BY <3>2 DEF k
        <3> QED BY <3>3, <2>1, <1>3
    <2>3. /\ m \in KeyQueues /\ Len(m.heap) = n
          /\ Indexed!Placed(m, above, x) = SwappedKeys(f, r.i, above)
        BY <1>1, <1>9, <1>10, MovedHole DEF f
    <2> DEFINE u == SwappedKeys(f, r.i, above)
    <2>4. WellIndexed(u) /\ Len(u.heap) = n /\ InK(u) = InK(f) /\ WK(u) = Swap(w, r.i - 1, above - 1)
        BY <1>1, <1>4, <1>5, <1>9, <1>10, SwappedQueue DEF w
    <2> HIDE DEF u, m
    <2>5. RearrangedKeys(u, q) /\ UpOK(WK(u), n, 2, above - 1)
        BY <2>2, <2>4, <1>1 DEF RearrangedKeys, n
    <2>6. [q |-> m, i |-> above] \in KeyClimbs(q, x)
        BY <2>3, <2>5, <1>9, <1>10 DEF KeyClimbs, n, u
    <2> QED BY <2>6, <1>3, <1>7, <1>10
<1>11. CASE ~(above > 0 /\ y.value < x.value)
    <2>1. KeyClimb(r, x) = r
        BY <1>7, <1>11
    <2>2. ~(r.i - 1 > 0 /\ w[Par(2, r.i - 1)] < w[r.i - 1])
        BY <1>3, <1>8, <1>9, <1>11
    <2>3. Ordered(w, n, 2)
        <3> DEFINE k == r.i - 1
        <3>1. /\ n \in Nat /\ 2 \in Nat /\ 2 > 0 /\ k \in 0 .. n - 1 /\ w \in [0 .. n - 1 -> Int]
              /\ UpOK(w, n, 2, k) /\ ~(k > 0 /\ w[Par(2, k)] < w[k])
            BY <2>2, <1>1, <1>2, <1>6
        <3> HIDE DEF k
        <3> QED BY ONLY <3>1, UpEnds
    <2> QED BY <2>1, <2>3 DEF w, n, f
<1> QED BY <1>10, <1>11

\* siftUp() puts x in its place, if it may be too large for the place it came to.
LEMMA SiftedUp ==
    ASSUME NEW z \in KeyQueues, NEW i \in 1 .. Len(z.heap), NEW x \in Pairs,
           NEW q, q = Indexed!Placed(z, i, x), WellIndexed(q), UpOK(WK(q), Len(q.heap), 2, i - 1)
    PROVE  LET r == Indexed!siftUp(z, i, x)
           IN  RearrangedKeys(r, q) /\ Ordered(WK(r), Len(q.heap), 2)
<1> DEFINE n == Len(z.heap)
           T == KeyClimbs(q, x)
           b == [q |-> z, i |-> i]
           F == [r \in T |-> KeyClimb(r, x)]
           rank == [r \in T |-> r.i]
           E(g) == g = [k \in 0 .. n |-> IF k = 0 THEN b ELSE KeyClimb(g[k - 1], x)]
           after == CHOOSE g : E(g)
<1>1. q \in KeyQueues /\ n \in Nat /\ Len(q.heap) = n
    BY PlacedPair, ValuesOfKeys
<1>2. b \in T
    BY <1>1 DEF KeyClimbs, RearrangedKeys
<1>3. \A r \in T : /\ KeyClimb(r, x) \in T /\ r.i \in Nat /\ r.i <= n
                   /\ KeyClimb(r, x) = r \/ KeyClimb(r, x).i < r.i
                   /\ KeyClimb(r, x) = r => Ordered(WK(Indexed!Placed(r.q, r.i, x)), n, 2)
    <2> TAKE r \in T
    <2>1. r.i \in 1 .. n
        BY <1>1 DEF KeyClimbs
    <2> HIDE DEF T
    <2>2. /\ KeyClimb(r, x) \in T
          /\ KeyClimb(r, x) = r \/ KeyClimb(r, x).i < r.i
          /\ KeyClimb(r, x) = r => Ordered(WK(Indexed!Placed(r.q, r.i, x)), n, 2)
        BY <1>1, KeyClimbOnce DEF T
    <2> QED BY <1>1, <2>1, <2>2
<1>4. Indexed!siftUp(z, i, x) = Indexed!Placed(after[n].q, after[n].i, x)
    BY DEF Indexed!siftUp, KeyClimb
<1> HIDE DEF T, b
<1>5. F \in [T -> T] /\ rank \in [T -> Nat] /\ \A r \in T : F[r] = KeyClimb(r, x) /\ rank[r] = r.i
    BY <1>3
<1> HIDE DEF F, rank
<1>6. rank[b] <= n /\ \A r \in T : F[r] = r \/ rank[F[r]] < rank[r]
    BY <1>2, <1>3, <1>5
<1>7. PICK g \in [0 .. n -> T] : Recursion(g, T, b, F, n)
    BY <1>1, <1>2, <1>5, RecursionExists
<1>8. E(g)
    <2>1. g = [k \in 0 .. n |-> IF k = 0 THEN b ELSE F[g[k - 1]]]
        BY <1>7 DEF Recursion
    <2>2. ASSUME NEW k \in 0 .. n, k # 0 PROVE F[g[k - 1]] = KeyClimb(g[k - 1], x)
        <3>1. k - 1 \in 0 .. n
            BY <2>2, <1>1
        <3> QED BY <3>1, <1>5, <1>7
    <2> QED BY <2>1, <2>2
<1> HIDE DEF E
<1>9. E(after)
    BY <1>8
<1> HIDE DEF after
<1>10. after[0] = b /\ \A k \in 1 .. n : after[k - 1] \in T => after[k] = F[after[k - 1]]
    <2>1. after = [k \in 0 .. n |-> IF k = 0 THEN b ELSE KeyClimb(after[k - 1], x)]
        BY <1>9 DEF E
    <2> DEFINE h == [k \in 0 .. n |-> IF k = 0 THEN b ELSE KeyClimb(after[k - 1], x)]
    <2>2. h[0] = b /\ \A k \in 1 .. n : h[k] = KeyClimb(after[k - 1], x)
        BY <1>1
    <2>3. after = h
        BY <2>1
    <2> HIDE DEF h
    <2>4. after[0] = b /\ \A k \in 1 .. n : after[k] = KeyClimb(after[k - 1], x)
        BY <2>2, <2>3
    <2> QED BY <2>4, <1>5
<1>11. after[n] \in T /\ F[after[n]] = after[n]
    <2>1. after[0] \in T /\ rank[after[0]] <= n
        BY <1>2, <1>6, <1>10
    <2>2. StepsOf(T, F, n, rank, after)
        BY <2>1, <1>1, <1>5, <1>6, <1>10 DEF StepsOf
    <2> QED BY <2>2, LoopEnds
<1>12. RearrangedKeys(Indexed!Placed(after[n].q, after[n].i, x), q)
    BY <1>11 DEF T, KeyClimbs
<1> QED BY <1>1, <1>3, <1>4, <1>5, <1>11, <1>12

\* A queue without its last place and without a key: what pop() leaves.
Cut(p, key) == [heap |-> SubSeq(p.heap, 1, Len(p.heap) - 1), index |-> [p.index EXCEPT ![key] = 0]]

LEMMA CutQueue ==
    ASSUME NEW p \in KeyQueues, Len(p.heap) > 0, NEW key \in SomeKeys
    PROVE  LET c == Cut(p, key)
           IN  /\ c \in KeyQueues /\ Len(c.heap) = Len(p.heap) - 1
               /\ \A a \in 1 .. Len(p.heap) - 1 : c.heap[a] = p.heap[a]
               /\ c.index[key] = 0 /\ \A k \in SomeKeys : k # key => c.index[k] = p.index[k]
<1> DEFINE s == p.heap
           n == Len(s)
           es == SubSeq(s, 1, n - 1)
           ps == [p.index EXCEPT ![key] = 0]
           c == Cut(p, key)
<1>1. s \in Seq(Pairs) /\ n \in Nat /\ p.index \in [SomeKeys -> Nat]
    BY ValuesOfKeys
<1>2. es \in Seq(Pairs) /\ Len(es) = n - 1 /\ \A a \in 1 .. n - 1 : es[a] = s[a]
    <2> DEFINE m == n - 1
    <2>1. m \in Nat /\ m <= Len(s) /\ \A a \in 1 .. m : a \in 1 .. n
        <3> HIDE DEF n
        <3>1. n > 0
            BY DEF n
        <3> QED BY <1>1, <3>1 DEF n
    <2> HIDE DEF m, s, n
    <2>2. SubSeq(s, 1, m) \in Seq(Pairs) /\ Len(SubSeq(s, 1, m)) = m /\ \A a \in 1 .. m : SubSeq(s, 1, m)[a] = s[a]
        BY <1>1, <2>1
    <2> QED BY <2>2 DEF m
<1>3. ps \in [SomeKeys -> Nat] /\ ps[key] = 0 /\ \A k \in SomeKeys : k # key => ps[k] = p.index[k]
    BY <1>1
<1>4. c = [heap |-> es, index |-> ps]
    BY DEF Cut
<1> HIDE DEF es, ps, c, n, s
<1>5. c.heap = es /\ c.index = ps /\ c \in KeyQueues
    BY <1>2, <1>3, <1>4 DEF KeyQueues
<1> QED BY <1>2, <1>3, <1>5 DEF c, n, s

LEMMA CutSwapped ==
    ASSUME NEW p \in KeyQueues, Len(p.heap) > 0, NEW key \in SomeKeys, WellIndexed(Cut(p, key)),
           NEW i \in 1 .. Len(p.heap) - 1, NEW j \in 1 .. Len(p.heap) - 1
    PROVE  Cut(SwappedKeys(p, i, j), key) = SwappedKeys(Cut(p, key), i, j)
<1> DEFINE s == p.heap
           n == Len(s)
           x == s[i]
           y == s[j]
           u == p.index
           t == SubSeq(s, 1, n - 1)
           es == [s EXCEPT ![i] = y, ![j] = x]
           c == Cut(p, key)
<1>1. /\ s \in Seq(Pairs) /\ n \in Nat /\ n > 0 /\ u \in [SomeKeys -> Nat]
      /\ i \in 1 .. n /\ j \in 1 .. n /\ i \in 1 .. n - 1 /\ j \in 1 .. n - 1
    BY ValuesOfKeys
<1>2. x \in Pairs /\ y \in Pairs /\ x.key \in SomeKeys /\ y.key \in SomeKeys
    <2>1. x \in Pairs /\ y \in Pairs
        BY <1>1
    <2> HIDE DEF x, y
    <2> QED BY <2>1 DEF Pairs
<1>3. /\ c \in KeyQueues /\ Len(c.heap) = n - 1 /\ c.heap[i] = x /\ c.heap[j] = y /\ c.index[key] = 0
    BY CutQueue
<1>4. x.key # key /\ y.key # key
    <2>1. c.index[c.heap[i].key] = i /\ c.index[c.heap[j].key] = j
        BY <1>3 DEF WellIndexed
    <2> HIDE DEF x, y, c
    <2> QED BY <2>1, <1>1, <1>3
<1>5. c = [heap |-> t, index |-> [u EXCEPT ![key] = 0]]
    BY DEF Cut
<1>6. SwappedKeys(p, i, j) = [heap |-> es, index |-> [u EXCEPT ![y.key] = i, ![x.key] = j]]
    BY DEF SwappedKeys
<1>7. es \in Seq(Pairs) /\ Len(es) = n
    BY <1>1, <1>2
<1> HIDE DEF c
<1>8. SwappedKeys(c, i, j) = [heap |-> [t EXCEPT ![i] = y, ![j] = x],
                              index |-> [[u EXCEPT ![key] = 0] EXCEPT ![y.key] = i, ![x.key] = j]]
    <2> HIDE DEF x, y, t
    <2>1. SwappedKeys(c, i, j) = [heap |-> [c.heap EXCEPT ![i] = y, ![j] = x],
                                  index |-> [c.index EXCEPT ![y.key] = i, ![x.key] = j]]
        BY <1>3 DEF SwappedKeys
    <2> QED BY <2>1, <1>5
<1> HIDE DEF es, s, x, y
<1>9. Cut(SwappedKeys(p, i, j), key)
      = [heap |-> SubSeq(es, 1, n - 1), index |-> [[u EXCEPT ![y.key] = i, ![x.key] = j] EXCEPT ![key] = 0]]
    <2> DEFINE z == SwappedKeys(p, i, j)
    <2>1. z.heap = es /\ z.index = [u EXCEPT ![y.key] = i, ![x.key] = j]
        BY <1>6
    <2> HIDE DEF z, u, n
    <2>2. Cut(z, key) = [heap |-> SubSeq(es, 1, n - 1), index |-> [[u EXCEPT ![y.key] = i, ![x.key] = j] EXCEPT ![key] = 0]]
        BY <2>1, <1>7 DEF Cut
    <2> QED BY <2>2 DEF z
<1>10. SubSeq(es, 1, n - 1) = [t EXCEPT ![i] = y, ![j] = x]
    <2> DEFINE B == [t EXCEPT ![i] = y, ![j] = x]
               A == SubSeq(es, 1, n - 1)
    <2>1. n - 1 \in Nat /\ \A a \in 1 .. n - 1 : a \in 1 .. n
        BY <1>1
    <2>2. \A a \in 1 .. n : es[a] = IF a = j THEN x ELSE IF a = i THEN y ELSE s[a]
        BY <1>1 DEF es
    <2>3. A = [a \in 1 .. n - 1 |-> es[a]]
        BY <2>1, <1>7 DEF A
    <2>4. t = [a \in 1 .. n - 1 |-> s[a]]
        BY <2>1, <1>1
    <2>5. B = [a \in 1 .. n - 1 |-> IF a = j THEN x ELSE IF a = i THEN y ELSE s[a]]
        BY <2>4
    <2>6. A = [a \in 1 .. n - 1 |-> IF a = j THEN x ELSE IF a = i THEN y ELSE s[a]]
        BY <2>1, <2>2, <2>3
    <2> HIDE DEF A, B
    <2>7. A = B
        BY <2>5, <2>6
    <2> QED BY <2>7 DEF A, B
<1>11. [[u EXCEPT ![y.key] = i, ![x.key] = j] EXCEPT ![key] = 0]
       = [[u EXCEPT ![key] = 0] EXCEPT ![y.key] = i, ![x.key] = j]
    <2> DEFINE A == [[u EXCEPT ![y.key] = i, ![x.key] = j] EXCEPT ![key] = 0]
               B == [[u EXCEPT ![key] = 0] EXCEPT ![y.key] = i, ![x.key] = j]
    <2> HIDE DEF u
    <2>1. A = [k \in DOMAIN u |-> IF k = key THEN 0 ELSE IF k = x.key THEN j ELSE IF k = y.key THEN i ELSE u[k]]
        BY <1>1, <1>2
    <2>2. B = [k \in DOMAIN u |-> IF k = x.key THEN j ELSE IF k = y.key THEN i ELSE IF k = key THEN 0 ELSE u[k]]
        BY <1>1, <1>2
    <2>3. \A k \in DOMAIN u : (IF k = key THEN 0 ELSE IF k = x.key THEN j ELSE IF k = y.key THEN i ELSE u[k])
              = (IF k = x.key THEN j ELSE IF k = y.key THEN i ELSE IF k = key THEN 0 ELSE u[k])
        BY <1>4
    <2> HIDE DEF A, B
    <2>4. A = B
        BY <2>1, <2>2, <2>3
    <2> QED BY <2>4 DEF A, B
<1> HIDE DEF t
<1> QED BY <1>8, <1>9, <1>10, <1>11 DEF c, t, n, s

LEMMA ChildrenKeys ==
    ASSUME NEW i \in Nat, i > 0, NEW c \in Nat, c > 1
    PROVE  Par(2, c - 1) = i - 1 <=> c = 2 * i \/ c = 2 * i + 1
BY DEF Par

\* The records of siftDown() in pop(): the hole is at r.i, in the queue of which the
\* last place and the first key will be dropped.
CutPlaced(q, r) == Cut(Indexed!Placed(r.q, r.i, q.heap[Len(q.heap)]), q.heap[1].key)
KeyFalls(q) ==
    {r \in [q : KeyQueues, i : 1 .. Len(q.heap) - 1] :
        /\ Len(r.q.heap) = Len(q.heap) /\ r.q.heap[Len(q.heap)] = q.heap[Len(q.heap)]
        /\ WellIndexed(CutPlaced(q, r)) /\ InK(CutPlaced(q, r)) = InK(q) \ {q.heap[1]}
        /\ DownOK(WK(CutPlaced(q, r)), Len(q.heap) - 1, 2, r.i - 1)}
LargerKey(r) ==
    IF Less(r.q.heap[2 * r.i].value, r.q.heap[2 * r.i + 1].value) THEN 2 * r.i + 1 ELSE 2 * r.i
KeyFall(r, x, end) ==
    IF 2 * r.i < end /\ Less(x.value, r.q.heap[LargerKey(r)].value)
    THEN [q |-> Indexed!Placed(r.q, r.i, r.q.heap[LargerKey(r)]), i |-> LargerKey(r)]
    ELSE r

\* What the loop of siftDown() sees is in the queue without the hole, but for the last place.
LEMMA CutPlacedValues ==
    ASSUME NEW q \in KeyQueues, NEW r \in KeyFalls(q)
    PROVE  LET n == Len(q.heap)
               x == q.heap[n]
               c == CutPlaced(q, r)
               p == Indexed!Placed(r.q, r.i, x)
           IN  /\ n \in Nat /\ r.i \in Nat /\ r.i > 0 /\ r.i <= n - 1 /\ x \in Pairs /\ q.heap[1].key \in SomeKeys
               /\ p \in KeyQueues /\ Len(p.heap) = n /\ c = Cut(p, q.heap[1].key)
               /\ c \in KeyQueues /\ WellIndexed(c) /\ Len(c.heap) = n - 1
               /\ WK(c) \in [0 .. (n - 1) - 1 -> Int]
               /\ WK(c)[r.i - 1] = x.value
               /\ \A a \in 1 .. n : r.q.heap[a] \in Pairs /\ r.q.heap[a].value \in Int
               /\ \A a \in 1 .. n - 1 : a # r.i => WK(c)[a - 1] = r.q.heap[a].value
<1> DEFINE n == Len(q.heap)
           x == q.heap[n]
           k == q.heap[1].key
           c == CutPlaced(q, r)
           z == r.q
           i == r.i
           p == Indexed!Placed(z, i, x)
<1>1. /\ z \in KeyQueues /\ i \in 1 .. n - 1 /\ Len(z.heap) = n /\ WellIndexed(c)
    BY DEF KeyFalls
<1>2. n \in Nat /\ \A a \in 1 .. n : q.heap[a] \in Pairs /\ q.heap[a].key \in SomeKeys
    BY ValuesOfKeys
<1>3. i \in Nat /\ i > 0 /\ i <= n - 1 /\ i \in 1 .. n /\ n \in 1 .. n /\ 1 \in 1 .. n /\ n > 0
    <2> HIDE DEF n, i
    <2> QED BY <1>1, <1>2
<1>4. x \in Pairs /\ k \in SomeKeys
    BY <1>2, <1>3
<1>5. c = Cut(p, k)
    BY DEF CutPlaced
<1> HIDE DEF x, k, c, z, i, n
<1>6. /\ p \in KeyQueues /\ Len(p.heap) = n /\ p.heap[i] = x
      /\ \A a \in 1 .. n : a # i => p.heap[a] = z.heap[a]
    <2>1. z \in KeyQueues /\ i \in 1 .. Len(z.heap) /\ x \in Pairs
        BY <1>1, <1>3, <1>4
    <2>2. /\ p \in KeyQueues /\ Len(p.heap) = Len(z.heap) /\ p.heap[i] = x
          /\ \A a \in 1 .. Len(z.heap) : a # i => p.heap[a] = z.heap[a]
        BY ONLY <2>1, PlacedPair DEF p
    <2> QED BY <2>2, <1>1
<1> HIDE DEF p
<1>7. c \in KeyQueues /\ Len(c.heap) = n - 1 /\ \A a \in 1 .. n - 1 : c.heap[a] = p.heap[a]
    <2>1. p \in KeyQueues /\ Len(p.heap) > 0 /\ k \in SomeKeys
        BY <1>3, <1>4, <1>6
    <2>2. /\ Cut(p, k) \in KeyQueues /\ Len(Cut(p, k).heap) = Len(p.heap) - 1
          /\ \A a \in 1 .. Len(p.heap) - 1 : Cut(p, k).heap[a] = p.heap[a]
        BY ONLY <2>1, CutQueue
    <2> QED BY <2>2, <1>5, <1>6
<1>8. WK(c) \in [0 .. (n - 1) - 1 -> Int] /\ \A a \in 0 .. (n - 1) - 1 : WK(c)[a] = c.heap[a + 1].value
    <2>1. WK(c) \in [0 .. Len(c.heap) - 1 -> Int] /\ \A a \in 0 .. Len(c.heap) - 1 : WK(c)[a] = c.heap[a + 1].value
        BY <1>7, ValuesOfKeys
    <2> QED BY <2>1, <1>7
<1>9. ASSUME NEW a \in 1 .. n - 1 PROVE WK(c)[a - 1] = p.heap[a].value
    <2>1. a - 1 \in 0 .. (n - 1) - 1 /\ (a - 1) + 1 = a
        BY <1>2
    <2> QED BY <2>1, <1>7, <1>8
<1>10. WK(c)[i - 1] = x.value
    BY <1>1, <1>6, <1>9
<1>11. ASSUME NEW a \in 1 .. n - 1, a # i PROVE WK(c)[a - 1] = z.heap[a].value
    <2>1. a \in 1 .. n
        BY <1>2
    <2> QED BY <2>1, <1>6, <1>9, <1>11
<1>12. ASSUME NEW a \in 1 .. n PROVE z.heap[a] \in Pairs /\ z.heap[a].value \in Int
    <2>1. z.heap[a] \in Pairs
        BY <1>1, ValuesOfKeys
    <2>2. z.heap[a].value \in Values
        BY <2>1 DEF Pairs
    <2> QED BY <2>1, <2>2, SequentialAssumption
<1> QED BY <1>1, <1>2, <1>3, <1>4, <1>5, <1>6, <1>7, <1>8, <1>10, <1>11, <1>12 DEF n, x, k, c, z, i, p

LEMMA KeyFallOnce ==
    ASSUME NEW q \in KeyQueues, NEW r \in KeyFalls(q)
    PROVE  LET n == Len(q.heap)
               x == q.heap[n]
           IN  /\ KeyFall(r, x, n) \in KeyFalls(q)
               /\ KeyFall(r, x, n) = r \/ KeyFall(r, x, n).i > r.i
               /\ KeyFall(r, x, n) = r => Ordered(WK(CutPlaced(q, r)), n - 1, 2)
<1> DEFINE n == Len(q.heap)
           m == n - 1
           x == q.heap[n]
           key == q.heap[1].key
           c == CutPlaced(q, r)
           w == WK(c)
           z == r.q
           i == r.i
           p == Indexed!Placed(z, i, x)
           k == LargerKey(r)
           y == z.heap[k]
           goes == 2 * i < n /\ x.value < y.value
<1>1. /\ n \in Nat /\ i \in Nat /\ i > 0 /\ i <= m /\ x \in Pairs /\ key \in SomeKeys
      /\ p \in KeyQueues /\ Len(p.heap) = n /\ c = Cut(p, key)
      /\ c \in KeyQueues /\ WellIndexed(c) /\ Len(c.heap) = m
      /\ w \in [0 .. m - 1 -> Int] /\ w[i - 1] = x.value
      /\ \A a \in 1 .. n : z.heap[a] \in Pairs /\ z.heap[a].value \in Int
      /\ \A a \in 1 .. m : a # i => w[a - 1] = z.heap[a].value
    BY CutPlacedValues
<1>2. /\ z \in KeyQueues /\ Len(z.heap) = n /\ z.heap[n] = x /\ InK(c) = InK(q) \ {q.heap[1]}
      /\ DownOK(w, m, 2, i - 1) /\ r = [q |-> z, i |-> i]
    BY DEF KeyFalls
<1>3. KeyFall(r, x, n) = IF goes THEN [q |-> Indexed!Placed(z, i, y), i |-> k] ELSE r
    BY DEF KeyFall, Less
<1>4. k = IF z.heap[2 * i].value < z.heap[2 * i + 1].value THEN 2 * i + 1 ELSE 2 * i
    BY DEF LargerKey, Less
<1>5. n = m + 1 /\ m \in Nat /\ i - 1 \in 0 .. m - 1 /\ i \in 1 .. n /\ x.value = z.heap[n].value
    <2>1. n = m + 1 /\ m \in Nat /\ i - 1 \in 0 .. m - 1 /\ i \in 1 .. n
        <3> HIDE DEF n, i
        <3> QED BY <1>1
    <2> QED BY <2>1, <1>2
<1>6. y = z.heap[k]
    OBVIOUS
<1> HIDE DEF n, x, key, c, w, z, i, p, k, y
<1>7. ASSUME 2 * i < n
      PROVE  /\ k \in 1 .. n /\ k > i /\ (k = 2 * i \/ k = 2 * i + 1)
             /\ \A a \in 1 .. m : a = 2 * i \/ a = 2 * i + 1 => z.heap[a].value <= y.value
    <2>1. 2 * i \in 1 .. n /\ 2 * i + 1 \in 1 .. n
        BY <1>1, <1>7
    <2>2. k \in 1 .. n /\ k > i /\ (k = 2 * i \/ k = 2 * i + 1)
        BY <1>1, <1>4, <2>1
    <2>3. z.heap[2 * i].value \in Int /\ z.heap[2 * i + 1].value \in Int
        BY <1>1, <2>1
    <2>4. z.heap[2 * i].value <= y.value /\ z.heap[2 * i + 1].value <= y.value
        BY <1>4, <1>6, <2>3
    <2> QED BY <2>2, <2>4
<1>8. \A a \in 1 .. m - 1 : Par(2, a) = i - 1 <=> a + 1 = 2 * i \/ a + 1 = 2 * i + 1
    <2> TAKE a \in 1 .. m - 1
    <2>1. a + 1 \in Nat /\ a + 1 > 1 /\ (a + 1) - 1 = a
        BY <1>5
    <2>2. Par(2, (a + 1) - 1) = i - 1 <=> a + 1 = 2 * i \/ a + 1 = 2 * i + 1
        BY <2>1, <1>1, ChildrenKeys
    <2> QED BY <2>1, <2>2
<1>9. ASSUME 2 * i < n, NEW a \in 1 .. m - 1, Par(2, a) = i - 1 PROVE w[a] <= y.value
    <2>1. a + 1 \in 1 .. m /\ (a + 1) - 1 = a /\ (a + 1 = 2 * i \/ a + 1 = 2 * i + 1) /\ a + 1 # i
        BY <1>1, <1>5, <1>8, <1>9
    <2>2. w[a] = z.heap[a + 1].value
        BY <2>1, <1>1
    <2> QED BY <2>1, <2>2, <1>7, <1>9
<1>10. CASE ~goes
    <2>1. KeyFall(r, x, n) = r
        BY <1>3, <1>10
    <2>2. ASSUME NEW a \in 1 .. m - 1, Par(2, a) = i - 1 PROVE w[a] <= w[i - 1]
        <3>1. a + 1 = 2 * i \/ a + 1 = 2 * i + 1
            BY <1>8, <2>2
        <3>2. 2 * i < n
            BY <3>1, <1>1, <1>5
        <3>3. w[a] <= y.value /\ ~(x.value < y.value)
            BY <3>2, <1>9, <1>10, <2>2
        <3>4. w[a] \in Int /\ y.value \in Int /\ x.value \in Int
            <4>1. a \in 0 .. m - 1 /\ n \in 1 .. n /\ k \in 1 .. n
                BY <3>2, <1>5, <1>7
            <4> QED BY <4>1, <1>1, <1>2, <1>6
        <3>5. w[i - 1] = x.value
            BY <1>1
        <3> DEFINE e == w[a]
        <3>6. e \in Int /\ e <= y.value
            BY <3>3, <3>4
        <3> HIDE DEF e
        <3>7. e <= x.value
            BY ONLY <3>3, <3>4, <3>6
        <3> QED BY ONLY <3>5, <3>7 DEF e
    <2>3. Ordered(w, m, 2)
        <3> DEFINE h == i - 1
        <3>1. /\ m \in Nat /\ 2 \in Nat /\ 2 > 0 /\ h \in 0 .. m - 1 /\ w \in [0 .. m - 1 -> Int]
              /\ DownOK(w, m, 2, h) /\ \A a \in 1 .. m - 1 : Par(2, a) = h => w[a] <= w[h]
            BY <2>2, <1>1, <1>2, <1>5
        <3> HIDE DEF h, m
        <3> QED BY ONLY <3>1, DownEnds
    <2>4. r \in KeyFalls(q)
        OBVIOUS
    <2> QED BY <2>1, <2>3, <2>4 DEF n, x, c, w
<1>11. CASE goes
    <2>1. /\ k \in 1 .. n /\ k > i /\ (k = 2 * i \/ k = 2 * i + 1)
          /\ x.value < y.value
        BY <1>7, <1>11
    <2>2. x.value \in Int /\ y.value \in Int /\ n \in 1 .. n
        BY <2>1, <1>1, <1>5, <1>6
    <2>3. k # n
        BY <2>1, <2>2, <1>2, <1>6
    <2>4. k \in 1 .. m /\ k # i /\ k - 1 \in 1 .. m - 1 /\ (k - 1) + 1 = k /\ i \in 1 .. m
        BY <2>1, <2>3, <1>1, <1>5
    <2>5. w[k - 1] = y.value /\ Par(2, k - 1) = i - 1
        <3>1. w[k - 1] = z.heap[k].value
            BY <2>4, <1>1
        <3> QED BY <3>1, <2>1, <2>4, <1>6, <1>8
    <2> DEFINE u == Swap(w, i - 1, k - 1)
               s == SwappedKeys(c, i, k)
               v == Indexed!Placed(z, i, y)
               g == [q |-> v, i |-> k]
    <2>6. DownOK(u, m, 2, k - 1)
        <3> DEFINE h == i - 1
                   j == k - 1
        <3>1. /\ m \in Nat /\ 2 \in Nat /\ 2 > 0 /\ h \in 0 .. m - 1 /\ w \in [0 .. m - 1 -> Int]
              /\ DownOK(w, m, 2, h) /\ j \in 1 .. m - 1 /\ Par(2, j) = h /\ w[h] < w[j]
              /\ \A a \in 1 .. m - 1 : Par(2, a) = h => w[a] <= w[j]
            BY <2>1, <2>4, <2>5, <1>1, <1>2, <1>5, <1>9, <1>11
        <3> HIDE DEF h, j, m
        <3>2. DownOK(Swap(w, h, j), m, 2, j)
            BY ONLY <3>1, DownMoves
        <3> QED BY <3>2 DEF h, j
    <2>7. WellIndexed(s) /\ Len(s.heap) = m /\ InK(s) = InK(c) /\ WK(s) = u
        <3>1. WellIndexed(c) /\ i \in 1 .. Len(c.heap) /\ k \in 1 .. Len(c.heap) /\ i # k
            BY <1>1, <2>4
        <3>2. /\ WellIndexed(SwappedKeys(c, i, k)) /\ Len(SwappedKeys(c, i, k).heap) = Len(c.heap)
              /\ InK(SwappedKeys(c, i, k)) = InK(c)
              /\ WK(SwappedKeys(c, i, k)) = Swap(WK(c), i - 1, k - 1)
            BY ONLY <3>1, SwappedQueue
        <3> QED BY <3>2, <1>1 DEF w
    <2>8. v \in KeyQueues /\ Len(v.heap) = n /\ Indexed!Placed(v, k, x) = SwappedKeys(p, i, k)
        <3>1. z \in KeyQueues /\ i \in 1 .. Len(z.heap) /\ k \in 1 .. Len(z.heap) /\ i # k /\ x \in Pairs
            BY <1>1, <1>2, <1>5, <2>1, <2>4
        <3>2. /\ Indexed!Placed(z, i, z.heap[k]) \in KeyQueues
              /\ Len(Indexed!Placed(z, i, z.heap[k]).heap) = Len(z.heap)
              /\ Indexed!Placed(Indexed!Placed(z, i, z.heap[k]), k, x) = SwappedKeys(Indexed!Placed(z, i, x), i, k)
            BY ONLY <3>1, MovedHole
        <3> QED BY <3>2, <1>2, <1>6 DEF p
    <2>9. v.heap[n] = x
        <3>1. z \in KeyQueues /\ i \in 1 .. Len(z.heap) /\ y \in Pairs
            BY <1>1, <1>2, <1>5, <1>6, <2>1
        <3>2. \A a \in 1 .. Len(z.heap) : a # i => Indexed!Placed(z, i, y).heap[a] = z.heap[a]
            BY ONLY <3>1, PlacedPair
        <3>3. n \in 1 .. Len(z.heap) /\ n # i
            BY <1>1, <1>2, <1>5, <2>2
        <3> QED BY <3>2, <3>3, <1>2
    <2>10. Cut(SwappedKeys(p, i, k), key) = s
        <3>1. /\ p \in KeyQueues /\ Len(p.heap) > 0 /\ key \in SomeKeys /\ WellIndexed(Cut(p, key))
              /\ i \in 1 .. Len(p.heap) - 1 /\ k \in 1 .. Len(p.heap) - 1
            BY <1>1, <1>5, <2>4
        <3>2. Cut(SwappedKeys(p, i, k), key) = SwappedKeys(Cut(p, key), i, k)
            BY ONLY <3>1, CutSwapped
        <3> QED BY <3>2, <1>1
    <2> HIDE DEF u, s, v
    <2>11. CutPlaced(q, g) = s
        BY <2>8, <2>10 DEF CutPlaced, x, n, key
    <2>12. /\ Len(g.q.heap) = n /\ g.q.heap[n] = q.heap[n]
           /\ WellIndexed(CutPlaced(q, g)) /\ InK(CutPlaced(q, g)) = InK(q) \ {q.heap[1]}
           /\ DownOK(WK(CutPlaced(q, g)), n - 1, 2, g.i - 1)
           /\ g \in [q : KeyQueues, i : 1 .. n - 1]
        BY <2>4, <2>6, <2>7, <2>8, <2>9, <2>11, <1>2 DEF x
    <2> HIDE DEF g
    <2>13. g \in KeyFalls(q)
        BY <2>12 DEF KeyFalls, n
    <2>14. KeyFall(r, x, n) = g /\ g.i = k
        BY <1>3, <1>11 DEF g, v
    <2> QED BY <2>1, <2>13, <2>14 DEF x, n, i
<1> QED BY <1>10, <1>11

\* With its last element in the place of the first, a heap is in order but for that element.
LEMMA LastToFrontKeys ==
    ASSUME NEW q, WellIndexed(q), Ordered(WK(q), Len(q.heap), 2), Len(q.heap) > 0
    PROVE  LET n == Len(q.heap)
               p == Indexed!Placed(q, 1, q.heap[n])
               c == Cut(p, q.heap[1].key)
           IN  /\ p \in KeyQueues /\ Len(p.heap) = n
               /\ WellIndexed(c) /\ Len(c.heap) = n - 1 /\ InK(c) = InK(q) \ {q.heap[1]}
               /\ DownOK(WK(c), n - 1, 2, 0)
<1> DEFINE n == Len(q.heap)
           x == q.heap[n]
           key == q.heap[1].key
           p == Indexed!Placed(q, 1, x)
           c == Cut(p, key)
           s == q.heap
           u == q.index
<1>1. /\ q \in KeyQueues /\ n \in Nat /\ u \in [SomeKeys -> Nat]
      /\ \A a \in 1 .. n : s[a] \in Pairs /\ s[a].key \in SomeKeys
    BY ValuesOfKeys DEF WellIndexed
<1>2. /\ \A a \in 1 .. n : u[s[a].key] = a
      /\ \A k \in SomeKeys : u[k] # 0 => \E a \in 1 .. n : s[a].key = k
    BY DEF WellIndexed
<1>3. n > 0 /\ 1 \in 1 .. n /\ n \in 1 .. n /\ \A a \in 1 .. n - 1 : a \in 1 .. n /\ a # n
    <2>1. n > 0
        OBVIOUS
    <2> HIDE DEF n
    <2> QED BY <1>1, <2>1
<1>4. x = s[n] /\ key = s[1].key /\ x \in Pairs /\ x.key \in SomeKeys /\ key \in SomeKeys
    BY <1>1, <1>3
<1> HIDE DEF x, key, n
<1>5. /\ p \in KeyQueues /\ Len(p.heap) = n /\ p.heap[1] = x
      /\ \A a \in 1 .. n : a # 1 => p.heap[a] = s[a]
      /\ p.index[x.key] = 1 /\ \A k \in SomeKeys : k # x.key => p.index[k] = u[k]
    <2> HIDE DEF p
    <2>1. q \in KeyQueues /\ 1 \in 1 .. Len(q.heap) /\ x \in Pairs
        BY <1>1, <1>3, <1>4 DEF n
    <2>2. /\ p \in KeyQueues /\ Len(p.heap) = Len(q.heap) /\ p.heap[1] = x
          /\ \A a \in 1 .. Len(q.heap) : a # 1 => p.heap[a] = q.heap[a]
          /\ p.index[x.key] = 1 /\ \A k \in SomeKeys : k # x.key => p.index[k] = q.index[k]
        BY ONLY <2>1, PlacedPair DEF p
    <2> QED BY <2>2 DEF n
<1> HIDE DEF p, s, u
<1>6. /\ c \in KeyQueues /\ Len(c.heap) = n - 1 /\ \A a \in 1 .. n - 1 : c.heap[a] = p.heap[a]
      /\ c.index[key] = 0 /\ \A k \in SomeKeys : k # key => c.index[k] = p.index[k]
    <2> HIDE DEF c
    <2>1. p \in KeyQueues /\ Len(p.heap) > 0 /\ key \in SomeKeys
        BY <1>3, <1>4, <1>5
    <2>2. /\ c \in KeyQueues /\ Len(c.heap) = Len(p.heap) - 1 /\ \A a \in 1 .. Len(p.heap) - 1 : c.heap[a] = p.heap[a]
          /\ c.index[key] = 0 /\ \A k \in SomeKeys : k # key => c.index[k] = p.index[k]
        BY ONLY <2>1, CutQueue DEF c
    <2> QED BY <2>2, <1>5
<1> HIDE DEF c
<1>7. \A a \in 1 .. n - 1 : c.heap[a] = IF a = 1 THEN x ELSE s[a]
    BY <1>3, <1>5, <1>6
<1>8. ASSUME NEW a \in 1 .. n - 1 PROVE c.index[c.heap[a].key] = a
    <2>1. CASE a = 1
        <3>1. x.key # key
            BY <2>1, <1>2, <1>3, <1>4
        <3> QED BY <2>1, <3>1, <1>4, <1>5, <1>6, <1>7
    <2>2. CASE a # 1
        <3>1. s[a].key \in SomeKeys /\ s[a].key # x.key /\ s[a].key # key /\ u[s[a].key] = a
            BY <2>2, <1>1, <1>2, <1>3, <1>4
        <3> QED BY <2>2, <3>1, <1>5, <1>6, <1>7
    <2> QED BY <2>1, <2>2
<1>9. ASSUME NEW k \in SomeKeys, c.index[k] # 0 PROVE \E a \in 1 .. n - 1 : c.heap[a].key = k
    <2>1. k # key /\ p.index[k] # 0
        BY <1>6, <1>9
    <2>2. CASE k = x.key
        <3>1. n # 1
            BY <2>1, <2>2, <1>4
        <3>2. 1 \in 1 .. n - 1
            BY <3>1, <1>1, <1>3
        <3> QED BY <2>2, <3>2, <1>7
    <2>3. CASE k # x.key
        <3>1. PICK a \in 1 .. n : s[a].key = k
            BY <2>1, <2>3, <1>2, <1>5
        <3>2. a # 1 /\ a # n
            BY <3>1, <2>1, <2>3, <1>4
        <3>3. a \in 1 .. n - 1
            BY <3>2, <1>1
        <3> QED BY <3>1, <3>2, <3>3, <1>7
    <2> QED BY <2>2, <2>3
<1>10. WellIndexed(c)
    BY <1>6, <1>8, <1>9 DEF WellIndexed
<1>11. InK(c) = InK(q) \ {s[1]}
    <2>1. InK(c) = {c.heap[a] : a \in 1 .. n - 1} /\ InK(q) = {s[a] : a \in 1 .. n}
        BY <1>6 DEF InK, s, n
    <2>2. \A a, b \in 1 .. n : s[a] = s[b] => a = b
        BY <1>2
    <2>3. ASSUME NEW y \in {c.heap[a] : a \in 1 .. n - 1} PROVE y \in {s[a] : a \in 1 .. n} \ {s[1]}
        <3>1. PICK a \in 1 .. n - 1 : y = c.heap[a]
            OBVIOUS
        <3>2. PICK b \in 1 .. n : y = s[b] /\ b # 1
            <4>1. CASE a = 1
                BY <4>1, <3>1, <1>1, <1>3, <1>4, <1>7
            <4>2. CASE a # 1
                BY <4>2, <3>1, <1>3, <1>7
            <4> QED BY <4>1, <4>2
        <3> QED BY <3>2, <2>2, <1>3
    <2>4. ASSUME NEW y \in {s[a] : a \in 1 .. n} \ {s[1]} PROVE y \in {c.heap[a] : a \in 1 .. n - 1}
        <3>1. PICK b \in 1 .. n : y = s[b] /\ b # 1
            OBVIOUS
        <3>2. CASE b = n
            <4>1. 1 \in 1 .. n - 1
                BY <3>1, <3>2, <1>1, <1>3
            <4> QED BY <4>1, <3>1, <3>2, <1>4, <1>7
        <3>3. CASE b # n
            <4>1. b \in 1 .. n - 1
                BY <3>3, <1>1
            <4> QED BY <4>1, <3>1, <1>7
        <3> QED BY <3>2, <3>3
    <2> QED BY <2>1, <2>3, <2>4
<1>12. DownOK(WK(c), n - 1, 2, 0)
    <2> DEFINE w == WK(q)
               v == WK(c)
               m == n - 1
    <2>1. \A a \in 0 .. n - 1 : w[a] = s[a + 1].value
        BY <1>1, ValuesOfKeys DEF s, n
    <2>2. \A a \in 0 .. m - 1 : v[a] = c.heap[a + 1].value
        BY <1>6, ValuesOfKeys
    <2>3. \A a \in 1 .. n - 1 : w[a] <= w[Par(2, a)]
        BY DEF Ordered, n
    <2>4. m \in Nat /\ m < n
        BY <1>1, <1>3
    <2> HIDE DEF v, w
    <2>5. ASSUME NEW a \in 1 .. m - 1 PROVE v[a] = w[a]
        <3>1. a \in 0 .. m - 1 /\ a \in 0 .. n - 1 /\ a + 1 \in 1 .. n - 1 /\ a + 1 # 1
            BY <2>4
        <3>2. v[a] = c.heap[a + 1].value /\ w[a] = s[a + 1].value
            BY <3>1, <2>1, <2>2
        <3> QED BY <3>1, <3>2, <1>7
    <2>6. ASSUME NEW a \in 1 .. m - 1, Par(2, a) # 0 PROVE v[a] <= v[Par(2, a)]
        <3>1. 2 \in Nat /\ 2 > 0
            OBVIOUS
        <3>2. Par(2, a) \in 0 .. m - 1
            BY ONLY <2>4, <3>1, a \in 1 .. m - 1, ParentsPlaces
        <3> DEFINE e == Par(2, a)
        <3> HIDE DEF e
        <3>3. e \in 1 .. m - 1
            BY <3>2, <2>6, <2>4 DEF e
        <3>4. v[e] = w[e] /\ v[a] = w[a]
            BY <3>3, <2>5
        <3>5. a \in 1 .. n - 1
            BY <2>4
        <3>6. w[a] <= w[e]
            BY <3>5, <2>3 DEF e
        <3> QED BY <3>4, <3>6 DEF e
    <2> QED BY <2>6 DEF DownOK, v
<1> QED BY <1>5, <1>6, <1>10, <1>11, <1>12 DEF n, x, key, p, c, s

\* In order, as siftUp() and pop() leave the queue.
KeysOrdered(q) == WellIndexed(q) /\ Ordered(WK(q), Len(q.heap), 2)

LEMMA PoppedKeys ==
    ASSUME NEW q, KeysOrdered(q), Len(q.heap) > 0
    PROVE  LET r == Indexed!Popped(q)
           IN  KeysOrdered(r) /\ InK(r) = InK(q) \ {q.heap[1]}
<1> DEFINE n == Len(q.heap)
           x == q.heap[n]
           key == q.heap[1].key
           p == Indexed!Placed(q, 1, x)
           T == KeyFalls(q)
           b == [q |-> q, i |-> 1]
           F == [r \in T |-> KeyFall(r, x, n)]
           rank == [r \in T |-> n - r.i]
           E(g) == g = [k \in 0 .. n |-> IF k = 0 THEN b ELSE KeyFall(g[k - 1], x, n)]
           after == CHOOSE g : E(g)
           down == Indexed!Placed(after[n].q, after[n].i, x)
<1>1. /\ WellIndexed(q) /\ q \in KeyQueues /\ n \in Nat /\ n > 0 /\ Len(q.heap) = n
      /\ Ordered(WK(q), n, 2)
    BY ValuesOfKeys DEF KeysOrdered, WellIndexed
<1>2. /\ p \in KeyQueues /\ Len(p.heap) = n /\ WellIndexed(Cut(p, key)) /\ Len(Cut(p, key).heap) = n - 1
      /\ InK(Cut(p, key)) = InK(q) \ {q.heap[1]} /\ DownOK(WK(Cut(p, key)), n - 1, 2, 0)
    BY <1>1, LastToFrontKeys
<1>3. Indexed!Popped(q) = [heap |-> Indexed!Front(down.heap), index |-> [down.index EXCEPT ![key] = 0]]
    <2>1. Indexed!Last(q.heap) = x /\ Head(q.heap) = q.heap[1]
        <3>1. q.heap \in Seq(Pairs) /\ q.heap # <<>>
            BY <1>1, ValuesOfKeys
        <3> QED BY <3>1 DEF Indexed!Last
    <2>2. Indexed!siftDown(q, 1, x) = down
        BY DEF Indexed!siftDown, KeyFall, LargerKey
    <2> HIDE DEF down, x, key
    <2>3. Indexed!Popped(q) = LET d == Indexed!siftDown(q, 1, Indexed!Last(q.heap))
                              IN  [heap |-> Indexed!Front(d.heap), index |-> [d.index EXCEPT ![Head(q.heap).key] = 0]]
        BY DEF Indexed!Popped
    <2> QED BY <2>1, <2>2, <2>3 DEF key
<1>4. Indexed!Popped(q) = Cut(down, key)
    <2> HIDE DEF down, key
    <2> QED BY <1>3 DEF Cut, Indexed!Front
<1>5. SUFFICES /\ WellIndexed(Cut(down, key)) /\ Len(Cut(down, key).heap) = n - 1
               /\ InK(Cut(down, key)) = InK(q) \ {q.heap[1]}
               /\ Ordered(WK(Cut(down, key)), n - 1, 2)
    <2> HIDE DEF down, key, n
    <2> QED BY <1>4 DEF KeysOrdered
<1>6. CASE n = 1
    <2> DEFINE g == [k \in 0 .. n |-> b]
    <2>1. E(g)
        <3>1. ~(2 * b.i < n)
            BY <1>6
        <3>2. KeyFall(b, x, n) = b
            BY <3>1 DEF KeyFall
        <3>3. ASSUME NEW k \in 0 .. n, k # 0 PROVE g[k - 1] = b
            <4>1. k - 1 \in 0 .. n
                BY <3>3, <1>1
            <4> QED BY <4>1
        <3> HIDE DEF b, x
        <3>4. [k \in 0 .. n |-> IF k = 0 THEN b ELSE KeyFall(g[k - 1], x, n)] = [k \in 0 .. n |-> b]
            BY <3>2, <3>3
        <3> QED BY <3>4
    <2> HIDE DEF E
    <2>2. E(after)
        BY <2>1
    <2> HIDE DEF after
    <2>3. after[0] = b /\ after[1] = KeyFall(after[0], x, n)
        <3>1. after = [k \in 0 .. n |-> IF k = 0 THEN b ELSE KeyFall(after[k - 1], x, n)]
            BY <2>2 DEF E
        <3>2. 0 \in 0 .. n /\ 1 \in 0 .. n /\ 1 # 0 /\ 1 - 1 = 0
            BY <1>6
        <3> DEFINE h == [k \in 0 .. n |-> IF k = 0 THEN b ELSE KeyFall(after[k - 1], x, n)]
        <3>3. h[0] = b /\ h[1] = KeyFall(after[0], x, n)
            BY <3>2
        <3>4. after = h
            BY <3>1
        <3> HIDE DEF h
        <3> QED BY <3>3, <3>4
    <2>4. after[n] = b
        <3>1. ~(2 * b.i < n)
            BY <1>6
        <3>2. KeyFall(b, x, n) = b
            BY <3>1 DEF KeyFall
        <3> HIDE DEF b, x
        <3> QED BY <2>3, <3>2, <1>6
    <2>5. down = p
        BY <2>4
    <2>6. Ordered(WK(Cut(p, key)), n - 1, 2)
        BY <1>6 DEF Ordered
    <2> HIDE DEF down, p
    <2> QED BY <2>5, <2>6, <1>2
<1>7. CASE n # 1
    <2>1. b \in T
        <3>1. b \in [q : KeyQueues, i : 1 .. n - 1] /\ b.q = q /\ b.i = 1
            <4>1. 1 \in 1 .. n - 1
                <5> HIDE DEF n
                <5> QED BY <1>1, <1>7
            <4> HIDE DEF n
            <4> QED BY <4>1, <1>1
        <3> HIDE DEF b
        <3>2. CutPlaced(q, b) = Cut(p, key)
            BY <3>1 DEF CutPlaced
        <3>3. b.i - 1 = 0
            BY <3>1
        <3> HIDE DEF p, key
        <3> QED BY <3>1, <3>2, <3>3, <1>2 DEF KeyFalls
    <2>2. \A r \in T : /\ KeyFall(r, x, n) \in T /\ r.i \in Nat /\ r.i <= n
                       /\ KeyFall(r, x, n) = r \/ KeyFall(r, x, n).i > r.i
                       /\ KeyFall(r, x, n) = r => Ordered(WK(CutPlaced(q, r)), n - 1, 2)
        <3> TAKE r \in T
        <3>1. r.i \in Nat /\ r.i <= n - 1
            BY <1>1, CutPlacedValues
        <3>2. /\ KeyFall(r, x, n) \in T
              /\ KeyFall(r, x, n) = r \/ KeyFall(r, x, n).i > r.i
              /\ KeyFall(r, x, n) = r => Ordered(WK(CutPlaced(q, r)), n - 1, 2)
            BY <1>1, KeyFallOnce
        <3> HIDE DEF n, T
        <3>3. r.i <= n
            BY <3>1, <1>1
        <3> QED BY <3>1, <3>2, <3>3
    <2> HIDE DEF T, b, x
    <2>3. /\ F \in [T -> T] /\ rank \in [T -> Nat]
          /\ \A r \in T : F[r] = KeyFall(r, x, n) /\ rank[r] = n - r.i
        <3> HIDE DEF n
        <3>1. \A r \in T : n - r.i \in Nat
            BY <1>1, <2>2
        <3> QED BY <3>1, <2>2
    <2> HIDE DEF F, rank
    <2>4. rank[b] <= n /\ \A r \in T : F[r] = r \/ rank[F[r]] < rank[r]
        <3> HIDE DEF n
        <3>1. rank[b] <= n
            BY <2>1, <2>2, <2>3, <1>1
        <3>2. ASSUME NEW r \in T PROVE F[r] = r \/ rank[F[r]] < rank[r]
            <4>1. F[r] \in T /\ F[r] = KeyFall(r, x, n) /\ rank[r] = n - r.i /\ rank[F[r]] = n - F[r].i
                BY <2>2, <2>3
            <4>2. r.i \in Nat /\ F[r].i \in Nat /\ (F[r] = r \/ F[r].i > r.i)
                BY <4>1, <2>2
            <4> QED BY <4>1, <4>2, <1>1
        <3> QED BY <3>1, <3>2
    <2>5. PICK g \in [0 .. n -> T] : Recursion(g, T, b, F, n)
        BY <1>1, <2>1, <2>3, RecursionExists
    <2>6. E(g)
        <3>1. g = [k \in 0 .. n |-> IF k = 0 THEN b ELSE F[g[k - 1]]]
            BY <2>5 DEF Recursion
        <3>2. ASSUME NEW k \in 0 .. n, k # 0 PROVE F[g[k - 1]] = KeyFall(g[k - 1], x, n)
            <4>1. k - 1 \in 0 .. n
                BY <3>2, <1>1
            <4> QED BY <4>1, <2>3, <2>5
        <3> QED BY <3>1, <3>2
    <2> HIDE DEF E
    <2>7. E(after)
        BY <2>6
    <2> HIDE DEF after
    <2>8. after[0] = b /\ \A k \in 1 .. n : after[k - 1] \in T => after[k] = F[after[k - 1]]
        <3>1. after = [k \in 0 .. n |-> IF k = 0 THEN b ELSE KeyFall(after[k - 1], x, n)]
            BY <2>7 DEF E
        <3> DEFINE h == [k \in 0 .. n |-> IF k = 0 THEN b ELSE KeyFall(after[k - 1], x, n)]
        <3>2. h[0] = b /\ \A k \in 1 .. n : h[k] = KeyFall(after[k - 1], x, n)
            BY <1>1
        <3>3. after = h
            BY <3>1
        <3> HIDE DEF h
        <3>4. after[0] = b /\ \A k \in 1 .. n : after[k] = KeyFall(after[k - 1], x, n)
            BY <3>2, <3>3
        <3> QED BY <3>4, <2>3
    <2>9. after[n] \in T /\ F[after[n]] = after[n]
        <3>1. after[0] \in T /\ rank[after[0]] <= n
            BY <2>1, <2>4, <2>8
        <3>2. StepsOf(T, F, n, rank, after)
            BY <3>1, <1>1, <2>3, <2>4, <2>8 DEF StepsOf
        <3> QED BY <3>2, LoopEnds
    <2> DEFINE r == after[n]
    <2>10. CutPlaced(q, r) = Cut(down, key)
        BY DEF CutPlaced, x
    <2>11. r \in T /\ Ordered(WK(CutPlaced(q, r)), n - 1, 2)
        <3> HIDE DEF r
        <3>1. r \in T /\ F[r] = r
            BY <2>9 DEF r
        <3> QED BY <3>1, <2>2, <2>3
    <2>12. WellIndexed(CutPlaced(q, r)) /\ InK(CutPlaced(q, r)) = InK(q) \ {q.heap[1]}
        <3> HIDE DEF r
        <3> QED BY <2>11 DEF T, KeyFalls
    <2>13. Len(CutPlaced(q, r).heap) = n - 1
        <3> HIDE DEF r
        <3>1. r \in KeyFalls(q)
            BY <2>11 DEF T
        <3> QED BY <3>1, <1>1, CutPlacedValues
    <2> HIDE DEF r, down
    <2> QED BY <2>10, <2>11, <2>12, <2>13
<1> QED BY <1>6, <1>7

\* Another element in one place: the same key, or a key that is not in the queue.
LEMMA PushedKeys ==
    ASSUME NEW q, KeysOrdered(q), NEW key \in SomeKeys, NEW v \in Values, q.index[key] = 0
    PROVE  LET r == Indexed!Pushed(q, key, v)
           IN  /\ KeysOrdered(r) /\ InK(r) = InK(q) \cup {[key |-> key, value |-> v]}
               /\ \A y \in InK(q) : y.key # key
<1> DEFINE n == Len(q.heap)
           x == [key |-> key, value |-> v]
           s == q.heap
           z == [heap |-> Append(s, x), index |-> q.index]
           c == Indexed!Placed(z, n + 1, x)
           r == Indexed!Pushed(q, key, v)
<1>1. /\ WellIndexed(q) /\ q \in KeyQueues /\ n \in Nat /\ Ordered(WK(q), n, 2)
      /\ s \in Seq(Pairs) /\ q.index \in [SomeKeys -> Nat] /\ q = [heap |-> s, index |-> q.index]
      /\ \A a \in 1 .. n : s[a] \in Pairs /\ s[a].key \in SomeKeys
    BY ValuesOfKeys DEF KeysOrdered, WellIndexed
<1>2. x \in Pairs /\ x.key = key /\ x.value = v
    BY DEF Pairs
<1>3. /\ \A a \in 1 .. n : q.index[s[a].key] = a /\ s[a].key # key
      /\ \A k \in SomeKeys : q.index[k] # 0 => \E a \in 1 .. n : s[a].key = k
    BY <1>1 DEF WellIndexed
<1>4. r = Indexed!siftUp(z, n + 1, x)
    <2>1. [q EXCEPT !.heap = Append(@, x)] = z
        <3> DEFINE t == Append(s, x)
        <3>1. [q EXCEPT !.heap = Append(@, x)] = [q EXCEPT !.heap = t]
            OBVIOUS
        <3> HIDE DEF t
        <3>2. [q EXCEPT !.heap = t] = [heap |-> t, index |-> q.index]
            BY <1>1
        <3> QED BY <3>1, <3>2 DEF t
    <2> QED BY <2>1 DEF Indexed!Pushed, Indexed!Pair
<1> HIDE DEF x, r
<1>5. Append(s, x) \in Seq(Pairs) /\ Len(Append(s, x)) = n + 1 /\ Append(s, x)[n + 1] = x
      /\ \A a \in 1 .. n : Append(s, x)[a] = s[a]
    BY <1>1, <1>2
<1>6. z.heap = Append(s, x) /\ z.index = q.index /\ z \in KeyQueues
    <2>1. z = [heap |-> Append(s, x), index |-> q.index]
        OBVIOUS
    <2> HIDE DEF z
    <2> QED BY <2>1, <1>1, <1>5 DEF KeyQueues
<1> HIDE DEF z, n
<1>7. n + 1 \in 1 .. n + 1 /\ \A a \in 1 .. n + 1 : a # n + 1 => a \in 1 .. n
    BY <1>1
<1>8. /\ c \in KeyQueues /\ Len(c.heap) = n + 1 /\ c.heap[n + 1] = x
      /\ \A a \in 1 .. n : c.heap[a] = s[a]
      /\ c.index[key] = n + 1 /\ \A k \in SomeKeys : k # key => c.index[k] = q.index[k]
    <2> DEFINE i == n + 1
    <2>1. z \in KeyQueues /\ i \in 1 .. Len(z.heap) /\ x \in Pairs /\ i = n + 1
        BY <1>2, <1>5, <1>6, <1>7
    <2> HIDE DEF c, i
    <2>2. /\ Indexed!Placed(z, i, x) \in KeyQueues /\ Len(Indexed!Placed(z, i, x).heap) = Len(z.heap)
          /\ Indexed!Placed(z, i, x).heap[i] = x
          /\ \A a \in 1 .. Len(z.heap) : a # i => Indexed!Placed(z, i, x).heap[a] = z.heap[a]
          /\ Indexed!Placed(z, i, x).index[x.key] = i
          /\ \A k \in SomeKeys : k # x.key => Indexed!Placed(z, i, x).index[k] = z.index[k]
        BY ONLY <2>1, PlacedPair
    <2>3. Indexed!Placed(z, i, x) = c
        BY <2>1 DEF c
    <2>4. \A a \in 1 .. n : a \in 1 .. n + 1 /\ a # n + 1
        BY <1>1
    <2> QED BY <2>1, <2>2, <2>3, <2>4, <1>2, <1>5, <1>6
<1> HIDE DEF c
<1>9. WellIndexed(c)
    <2>1. ASSUME NEW a \in 1 .. n + 1 PROVE c.index[c.heap[a].key] = a
        <3>1. CASE a = n + 1
            BY <3>1, <1>2, <1>8
        <3>2. CASE a # n + 1
            <4>1. /\ a \in 1 .. n /\ c.heap[a] = s[a] /\ s[a].key \in SomeKeys /\ s[a].key # key
                  /\ q.index[s[a].key] = a
                BY <3>2, <1>1, <1>3, <1>7, <1>8
            <4> QED BY <4>1, <1>8
        <3> QED BY <3>1, <3>2
    <2>2. ASSUME NEW k \in SomeKeys, c.index[k] # 0 PROVE \E a \in 1 .. n + 1 : c.heap[a].key = k
        <3>1. CASE k = key
            BY <3>1, <1>2, <1>7, <1>8
        <3>2. CASE k # key
            <4>1. PICK a \in 1 .. n : s[a].key = k
                BY <3>2, <2>2, <1>3, <1>8
            <4>2. a \in 1 .. n + 1
                BY <1>1
            <4> QED BY <4>1, <4>2, <1>8
        <3> QED BY <3>1, <3>2
    <2> QED BY <2>1, <2>2, <1>8 DEF WellIndexed
<1>10. InK(c) = InK(q) \cup {x}
    <2>1. InK(c) = {c.heap[a] : a \in 1 .. n + 1} /\ InK(q) = {s[a] : a \in 1 .. n}
        BY <1>8 DEF InK, n
    <2>2. \A a \in 1 .. n : a \in 1 .. n + 1
        BY <1>1
    <2>3. {c.heap[a] : a \in 1 .. n + 1} \subseteq {s[a] : a \in 1 .. n} \cup {x}
        <3> SUFFICES ASSUME NEW a \in 1 .. n + 1 PROVE c.heap[a] \in {s[b] : b \in 1 .. n} \cup {x}
            OBVIOUS
        <3> QED BY <1>7, <1>8
    <2>4. {s[a] : a \in 1 .. n} \cup {x} \subseteq {c.heap[a] : a \in 1 .. n + 1}
        <3>1. x \in {c.heap[a] : a \in 1 .. n + 1}
            BY <1>7, <1>8
        <3>2. ASSUME NEW a \in 1 .. n PROVE s[a] \in {c.heap[b] : b \in 1 .. n + 1}
            BY <2>2, <1>8
        <3> QED BY <3>1, <3>2
    <2> QED BY <2>1, <2>3, <2>4
<1>11. UpOK(WK(c), n + 1, 2, n)
    <2> DEFINE w == WK(q)
               u == WK(c)
    <2>1. \A a \in 0 .. n - 1 : w[a] = s[a + 1].value
        BY <1>1, ValuesOfKeys DEF n
    <2>2. \A a \in 0 .. n : u[a] = c.heap[a + 1].value
        <3>1. \A a \in 0 .. Len(c.heap) - 1 : u[a] = c.heap[a + 1].value
            BY <1>8, ValuesOfKeys
        <3>2. (n + 1) - 1 = n
            BY <1>1
        <3> HIDE DEF u
        <3> QED BY <3>1, <3>2, <1>8
    <2>3. \A a \in 1 .. n - 1 : w[a] <= w[Par(2, a)]
        BY <1>1 DEF Ordered
    <2> HIDE DEF w, u
    <2>4. ASSUME NEW a \in 0 .. n - 1 PROVE u[a] = w[a]
        <3>1. a \in 0 .. n /\ a + 1 \in 1 .. n
            BY <1>1
        <3> QED BY <3>1, <2>1, <2>2, <1>8
    <2>5. n + 1 \in Nat /\ 2 \in Nat /\ 2 > 0 /\ (n + 1) - 1 = n
        BY <1>1
    <2>6. \A a \in 1 .. (n + 1) - 1 : a \in 0 .. (n + 1) - 1 /\ Par(2, a) \in 0 .. (n + 1) - 1 /\ Par(2, a) < a
        <3> DEFINE m == n + 1
        <3>1. m \in Nat /\ 2 \in Nat /\ 2 > 0
            BY <2>5
        <3> HIDE DEF m
        <3>2. \A a \in 1 .. m - 1 : a \in 0 .. m - 1 /\ Par(2, a) \in 0 .. m - 1 /\ Par(2, a) < a
            BY ONLY <3>1, ParentsPlaces
        <3> QED BY <3>2 DEF m
    <2>7. \A a \in 1 .. n : Par(2, a) \in 0 .. n /\ Par(2, a) < a
        BY <2>5, <2>6
    <2>8. ASSUME NEW a \in 1 .. n, a # n PROVE u[a] <= u[Par(2, a)]
        <3>1. a \in 1 .. n - 1 /\ a \in 0 .. n - 1 /\ Par(2, a) \in 0 .. n - 1
            BY <2>7, <2>8, <1>1
        <3>2. u[a] = w[a] /\ u[Par(2, a)] = w[Par(2, a)]
            BY <3>1, <2>4
        <3>3. w[a] <= w[Par(2, a)]
            BY <3>1, <2>3
        <3> QED BY <3>2, <3>3
    <2>9. \A a \in 1 .. n : Par(2, a) # n
        BY <2>7, <1>1
    <2> QED BY <2>5, <2>8, <2>9 DEF UpOK, u
<1>12. RearrangedKeys(r, c) /\ Ordered(WK(r), n + 1, 2)
    <2> DEFINE i == n + 1
    <2>1. /\ z \in KeyQueues /\ i \in 1 .. Len(z.heap) /\ x \in Pairs
          /\ c = Indexed!Placed(z, i, x) /\ WellIndexed(c) /\ UpOK(WK(c), Len(c.heap), 2, i - 1)
        <3>1. i - 1 = n
            BY <1>1
        <3> QED BY <3>1, <1>2, <1>5, <1>6, <1>7, <1>8, <1>9, <1>11 DEF c
    <2>2. r = Indexed!siftUp(z, i, x) /\ Len(c.heap) = i
        BY <1>4, <1>8
    <2> HIDE DEF i
    <2>3. /\ RearrangedKeys(Indexed!siftUp(z, i, x), c)
          /\ Ordered(WK(Indexed!siftUp(z, i, x)), Len(c.heap), 2)
        BY ONLY <2>1, SiftedUp
    <2> QED BY <2>2, <2>3 DEF i
<1>13. ASSUME NEW y \in InK(q) PROVE y.key # key
    <2>1. PICK a \in 1 .. n : y = s[a]
        BY DEF InK, n
    <2> QED BY <2>1, <1>3
<1>14. KeysOrdered(r) /\ InK(r) = InK(q) \cup {x}
    BY <1>8, <1>10, <1>12 DEF RearrangedKeys, KeysOrdered
<1> QED BY <1>13, <1>14 DEF r, x

LEMMA ChangedKeys ==
    ASSUME NEW q, KeysOrdered(q), NEW key \in SomeKeys, NEW v \in Values,
           Indexed!hasKey(q, key), ~Less(v, Indexed!priority(q, key))
    PROVE  LET r == Indexed!Changed(q, key, v)
           IN  /\ KeysOrdered(r)
               /\ \E y \in InK(q) : y.key = key /\ InK(r) = (InK(q) \ {y}) \cup {[key |-> key, value |-> v]}
<1> DEFINE n == Len(q.heap)
           x == [key |-> key, value |-> v]
           s == q.heap
           i == q.index[key]
           h == i - 1
           y == s[i]
           c == Indexed!Placed(q, i, x)
           r == Indexed!Changed(q, key, v)
           w == WK(q)
           u == WK(c)
<1>1. /\ WellIndexed(q) /\ q \in KeyQueues /\ n \in Nat /\ Ordered(w, n, 2)
      /\ w \in [0 .. n - 1 -> Int] /\ \A a \in 0 .. n - 1 : w[a] = s[a + 1].value
      /\ \A a \in 1 .. n : s[a] \in Pairs /\ s[a].key \in SomeKeys
    BY ValuesOfKeys DEF KeysOrdered, WellIndexed
<1>2. x \in Pairs /\ x.key = key /\ x.value = v /\ v \in Int
    BY SequentialAssumption DEF Pairs
<1>3. /\ \A a \in 1 .. n : q.index[s[a].key] = a
      /\ \A k \in SomeKeys : q.index[k] # 0 => \E a \in 1 .. n : s[a].key = k
    BY <1>1 DEF WellIndexed
<1>4. i \in 1 .. n /\ y.key = key /\ y = s[i]
    <2>1. PICK a \in 1 .. n : s[a].key = key
        BY <1>3 DEF Indexed!hasKey
    <2>2. i = a
        BY <2>1, <1>3
    <2> HIDE DEF i
    <2> QED BY <2>1, <2>2
<1>5. r = Indexed!siftUp(q, i, x) /\ ~(v < y.value)
    <2>1. ~(v < y.value)
        BY DEF Less, Indexed!priority
    <2> QED BY <2>1 DEF Indexed!Changed, Indexed!Pair
<1> HIDE DEF x, r, y, w
<1> HIDE DEF i, n
<1>6. h \in 0 .. n - 1 /\ h + 1 = i
    BY <1>1, <1>4
<1>7. /\ c \in KeyQueues /\ Len(c.heap) = n /\ c.heap[i] = x
      /\ \A a \in 1 .. n : a # i => c.heap[a] = s[a]
      /\ c.index[key] = i /\ \A k \in SomeKeys : k # key => c.index[k] = q.index[k]
    <2>1. q \in KeyQueues /\ i \in 1 .. Len(q.heap) /\ x \in Pairs
        BY <1>1, <1>2, <1>4 DEF n
    <2> HIDE DEF c
    <2>2. /\ c \in KeyQueues /\ Len(c.heap) = Len(q.heap) /\ c.heap[i] = x
          /\ \A a \in 1 .. Len(q.heap) : a # i => c.heap[a] = q.heap[a]
          /\ c.index[x.key] = i
          /\ \A k \in SomeKeys : k # x.key => c.index[k] = q.index[k]
        BY ONLY <2>1, PlacedPair DEF c
    <2> QED BY <2>2, <1>2 DEF n
<1> HIDE DEF c
<1>8. WellIndexed(c)
    <2>1. ASSUME NEW a \in 1 .. n PROVE c.index[c.heap[a].key] = a /\ c.heap[a].key = s[a].key
        <3>1. CASE a = i
            BY <3>1, <1>2, <1>4, <1>7
        <3>2. CASE a # i
            <4>1. c.heap[a] = s[a] /\ s[a].key \in SomeKeys /\ q.index[s[a].key] = a /\ q.index[key] = i
                BY <3>2, <1>1, <1>3, <1>7 DEF i
            <4>2. s[a].key # key
                BY <4>1, <3>2
            <4> QED BY <4>1, <4>2, <1>7
        <3> QED BY <3>1, <3>2
    <2>2. ASSUME NEW k \in SomeKeys, c.index[k] # 0 PROVE \E a \in 1 .. n : c.heap[a].key = k
        <3>1. CASE k = key
            BY <3>1, <1>2, <1>4, <1>7
        <3>2. CASE k # key
            <4>1. PICK a \in 1 .. n : s[a].key = k
                BY <3>2, <2>2, <1>3, <1>7
            <4> QED BY <4>1, <2>1
        <3> QED BY <3>1, <3>2
    <2> QED BY <2>1, <2>2, <1>7 DEF WellIndexed
<1>9. InK(c) = (InK(q) \ {y}) \cup {x} /\ y \in InK(q)
    <2>1. InK(c) = {c.heap[a] : a \in 1 .. n} /\ InK(q) = {s[a] : a \in 1 .. n}
        BY <1>7 DEF InK, n
    <2>2. \A a \in 1 .. n : a # i => s[a] # y
        BY <1>3, <1>4
    <2>3. ASSUME NEW e \in {c.heap[a] : a \in 1 .. n} PROVE e \in ({s[a] : a \in 1 .. n} \ {y}) \cup {x}
        <3>1. PICK a \in 1 .. n : e = c.heap[a]
            OBVIOUS
        <3>2. CASE a = i
            BY <3>1, <3>2, <1>7
        <3>3. CASE a # i
            BY <3>1, <3>3, <1>7, <2>2
        <3> QED BY <3>2, <3>3
    <2>4. ASSUME NEW e \in ({s[a] : a \in 1 .. n} \ {y}) \cup {x} PROVE e \in {c.heap[a] : a \in 1 .. n}
        <3>1. CASE e = x
            BY <3>1, <1>4, <1>7
        <3>2. CASE e # x
            <4>1. PICK a \in 1 .. n : e = s[a] /\ e # y
                BY <3>2
            <4>2. a # i
                BY <4>1, <1>4
            <4> QED BY <4>1, <4>2, <1>7
        <3> QED BY <3>1, <3>2
    <2>5. y \in {s[a] : a \in 1 .. n}
        BY <1>4
    <2> QED BY <2>1, <2>3, <2>4, <2>5
<1>10. u = [w EXCEPT ![h] = v]
    <2>1. DOMAIN u = 0 .. n - 1 /\ \A a \in 0 .. n - 1 : u[a] = c.heap[a + 1].value
        BY <1>7 DEF WK
    <2>2. u = [a \in 0 .. n - 1 |-> c.heap[a + 1].value]
        BY <1>7 DEF WK
    <2> HIDE DEF h, u
    <2>3. \A a \in 0 .. n - 1 : c.heap[a + 1].value = IF a = h THEN v ELSE w[a]
        <3> TAKE a \in 0 .. n - 1
        <3>1. a + 1 \in 1 .. n /\ (a # h => a + 1 # i) /\ h \in 0 .. n - 1
            BY <1>1, <1>6
        <3> QED BY <3>1, <1>1, <1>2, <1>6, <1>7
    <2>4. [w EXCEPT ![h] = v] = [a \in 0 .. n - 1 |-> IF a = h THEN v ELSE w[a]]
        BY <1>1
    <2> QED BY <2>2, <2>3, <2>4
<1>11. UpOK(u, n, 2, h)
    <2> HIDE DEF h, u
    <2>1. w[h] = y.value
        BY <1>1, <1>4, <1>6
    <2>2. w[h] \in Int
        BY <1>1, <1>6
    <2>3. /\ n \in Nat /\ 2 \in Nat /\ 2 > 0 /\ h \in 0 .. n - 1 /\ w \in [0 .. n - 1 -> Int]
          /\ v \in Int /\ Ordered(w, n, 2) /\ w[h] <= v
        BY <2>1, <2>2, <1>1, <1>2, <1>5, <1>6
    <2>4. UpOK([w EXCEPT ![h] = v], n, 2, h)
        BY ONLY <2>3, Raised
    <2> QED BY <2>4, <1>10
<1>12. RearrangedKeys(r, c) /\ Ordered(WK(r), n, 2)
    <2>1. /\ q \in KeyQueues /\ i \in 1 .. Len(q.heap) /\ x \in Pairs
          /\ c = Indexed!Placed(q, i, x) /\ WellIndexed(c) /\ UpOK(WK(c), Len(c.heap), 2, i - 1)
        BY <1>1, <1>2, <1>4, <1>7, <1>8, <1>11 DEF c, n
    <2>2. r = Indexed!siftUp(q, i, x)
        BY <1>5
    <2>3. /\ RearrangedKeys(Indexed!siftUp(q, i, x), c)
          /\ Ordered(WK(Indexed!siftUp(q, i, x)), Len(c.heap), 2)
        BY ONLY <2>1, SiftedUp
    <2> QED BY <2>2, <2>3, <1>7
<1>13. KeysOrdered(r) /\ InK(r) = (InK(q) \ {y}) \cup {x}
    BY <1>7, <1>9, <1>12 DEF RearrangedKeys, KeysOrdered
<1>14. y \in InK(q) /\ y.key = key
    BY <1>4, <1>9
<1> QED BY <1>13, <1>14 DEF r, x

LEMMA EmptyKeys == KeysOrdered(Indexed!EmptyQueue) /\ InK(Indexed!EmptyQueue) = {}
<1> DEFINE q == Indexed!EmptyQueue
<1>1. q = [heap |-> <<>>, index |-> [k \in SomeKeys |-> 0]]
    BY DEF Indexed!EmptyQueue
<1>2. q.heap = <<>> /\ q.index = [k \in SomeKeys |-> 0] /\ Len(q.heap) = 0 /\ 1 .. 0 = {} /\ 1 .. 0 - 1 = {}
    BY <1>1
<1>3. q \in KeyQueues
    BY <1>1 DEF KeyQueues
<1> HIDE DEF q
<1>4. WellIndexed(q) /\ InK(q) = {} /\ Ordered(WK(q), Len(q.heap), 2)
    BY <1>2, <1>3 DEF WellIndexed, InK, Ordered
<1> QED BY <1>4 DEF KeysOrdered, q

\* What a step does to the set of keys with their values.
KeyStep ==
    \/ \E key \in SomeKeys, v \in Values :
        InK(queue') = InK(queue) \cup {[key |-> key, value |-> v]} /\ \A y \in InK(queue) : y.key # key
    \/ \E x \in InK(queue) : InK(queue') = InK(queue) \ {x} /\ \A y \in InK(queue) : y.value <= x.value
    \/ InK(queue') = {}
    \/ \E x \in InK(queue), v \in Values :
        InK(queue') = (InK(queue) \ {x}) \cup {[key |-> x.key, value |-> v]}

\* The element of the first place is one of the largest.
LEMMA FirstOfKeys ==
    ASSUME NEW q, KeysOrdered(q), Len(q.heap) > 0
    PROVE  q.heap[1] \in InK(q) /\ \A y \in InK(q) : y.value <= q.heap[1].value
<1> DEFINE n == Len(q.heap)
           w == WK(q)
           x == q.heap[1]
<1>1. /\ n \in Nat /\ n > 0 /\ Ordered(w, n, 2) /\ w \in [0 .. n - 1 -> Int]
      /\ \A i \in 0 .. n - 1 : w[i] = q.heap[i + 1].value
    BY ValuesOfKeys DEF KeysOrdered, WellIndexed
<1>2. 1 \in 1 .. n /\ 0 \in 0 .. n - 1
    <2> HIDE DEF n
    <2> QED BY <1>1
<1>3. x \in InK(q)
    BY <1>2 DEF InK
<1>4. ASSUME NEW y \in InK(q) PROVE y.value <= x.value
    <2>1. PICK a \in 1 .. n : y = q.heap[a]
        BY DEF InK
    <2> HIDE DEF w, n, x
    <2>2. a - 1 \in 0 .. n - 1 /\ (a - 1) + 1 = a /\ 0 + 1 = 1
        BY <1>1
    <2>3. n \in Nat /\ 2 \in Nat /\ 2 > 0 /\ w \in [0 .. n - 1 -> Int] /\ Ordered(w, n, 2)
        BY <1>1
    <2>4. \A c \in 0 .. n - 1 : w[c] <= w[0]
        BY ONLY <2>3, FirstIsLargest
    <2>5. w[0] = x.value
        BY <1>1, <1>2, <2>2 DEF x
    <2>6. w[a - 1] = y.value
        BY <1>1, <2>1, <2>2
    <2> QED BY <2>2, <2>4, <2>5, <2>6
<1> QED BY <1>3, <1>4 DEF x

LEMMA KeySteps ==
    ASSUME KeysOrdered(queue), ~Lowers, Indexed!IPQNext
    PROVE  KeysOrdered(queue') /\ KeyStep
<1>1. CASE \E key \in SomeKeys, v \in Values : Indexed!PushKey(key, v)
    <2>1. PICK key \in SomeKeys, v \in Values : Indexed!PushKey(key, v)
        BY <1>1
    <2>2. queue.index[key] = 0 /\ queue' = Indexed!Pushed(queue, key, v)
        BY <2>1 DEF Indexed!PushKey, Indexed!hasKey
    <2> QED BY <2>2, PushedKeys DEF KeyStep
<1>2. CASE \E key \in SomeKeys, v \in Values : Indexed!ChangePriority(key, v)
    <2>1. PICK key \in SomeKeys, v \in Values : Indexed!ChangePriority(key, v)
        BY <1>2
    <2>2. /\ Indexed!hasKey(queue, key) /\ ~Less(v, Indexed!priority(queue, key))
          /\ queue' = Indexed!Changed(queue, key, v)
        BY <2>1 DEF Indexed!ChangePriority
    <2>3. /\ KeysOrdered(queue')
          /\ \E y \in InK(queue) : y.key = key /\ InK(queue') = (InK(queue) \ {y}) \cup {[key |-> key, value |-> v]}
        BY <2>2, ChangedKeys
    <2>4. PICK y \in InK(queue) : y.key = key /\ InK(queue') = (InK(queue) \ {y}) \cup {[key |-> key, value |-> v]}
        BY <2>3
    <2> QED BY <2>3, <2>4 DEF KeyStep
<1>3. CASE Indexed!PopTop
    <2>1. queue.heap # <<>> /\ queue' = Indexed!Popped(queue)
        BY <1>3 DEF Indexed!PopTop
    <2>2. Len(queue.heap) > 0
        <3>1. queue.heap \in Seq(Pairs)
            BY ValuesOfKeys DEF KeysOrdered, WellIndexed
        <3> QED BY <2>1, <3>1
    <2>3. KeysOrdered(queue') /\ InK(queue') = InK(queue) \ {queue.heap[1]}
        BY <2>1, <2>2, PoppedKeys
    <2>4. queue.heap[1] \in InK(queue) /\ \A y \in InK(queue) : y.value <= queue.heap[1].value
        BY <2>2, FirstOfKeys
    <2> QED BY <2>3, <2>4 DEF KeyStep
<1>4. CASE Indexed!ClearQueue
    BY <1>4, EmptyKeys DEF Indexed!ClearQueue, KeyStep
<1> QED BY <1>1, <1>2, <1>3, <1>4 DEF Indexed!IPQNext

\* The inductive invariant, while no value is lowered.
KeysInv == which = "indexed" /\ ~Lowers => KeysOrdered(queue)

LEMMA KeysOrderedNext == ASSUME KeysOrdered(queue') PROVE KeysOrdered(queue)'
BY DEF KeysOrdered, WellIndexed, KeyQueues, Pairs, WK, Ordered, Par, SomeKeys

LEMMA KeysApart ==
    ASSUME SequentialNext
    PROVE  which' = which /\ (which = "indexed" => Indexed!IPQNext)
BY DEF SequentialNext

LEMMA InitKeys == SequentialInit => KeysInv
<1> SUFFICES ASSUME SequentialInit, which = "indexed" PROVE KeysOrdered(queue)
    BY DEF KeysInv
<1>1. queue = Indexed!EmptyQueue
    BY DEF SequentialInit, Indexed!IPQInit
<1> QED BY <1>1, EmptyKeys

LEMMA NextKeys == KeysInv /\ [SequentialNext]_allVars => KeysInv'
<1> SUFFICES ASSUME KeysInv, [SequentialNext]_allVars, which' = "indexed", ~Lowers PROVE KeysOrdered(queue)'
    BY DEF KeysInv
<1>1. CASE UNCHANGED allVars
    <2>1. which' = which /\ queue' = queue
        BY <1>1 DEF allVars
    <2>2. KeysOrdered(queue')
        BY <2>1 DEF KeysInv
    <2> QED BY <2>2, KeysOrderedNext
<1>2. CASE SequentialNext
    <2>1. Indexed!IPQNext /\ KeysOrdered(queue)
        BY <1>2, KeysApart DEF KeysInv
    <2> QED BY <2>1, KeySteps, KeysOrderedNext
<1> QED BY <1>1, <1>2

LEMMA KeysFollow == ASSUME KeysOrdered(queue) PROVE Indexed!QueueInOrder
<1> DEFINE n == Len(queue.heap)
           w == WK(queue)
<1>1. /\ WellIndexed(queue) /\ Ordered(w, n, 2) /\ n \in Nat
      /\ w \in [0 .. n - 1 -> Int] /\ \A i \in 0 .. n - 1 : w[i] = queue.heap[i + 1].value
    BY ValuesOfKeys DEF KeysOrdered, WellIndexed
<1>2. ASSUME NEW i \in 2 .. n PROVE ~Less(queue.heap[i \div 2].value, queue.heap[i].value)
    <2> HIDE DEF w, n
    <2>1. i \in Nat /\ i > 0 /\ i - 1 > 0 /\ i - 1 \in 1 .. n - 1 /\ i - 1 \in 0 .. n - 1 /\ (i - 1) + 1 = i
        BY <1>1
    <2>2. Par(2, i - 1) = (i \div 2) - 1 /\ i \div 2 \in Nat
        BY <2>1, Halves
    <2>3. n \in Nat /\ 2 \in Nat /\ 2 > 0
        BY <1>1
    <2>4. \A c \in 1 .. n - 1 : Par(2, c) \in 0 .. n - 1
        BY ONLY <2>3, ParentsPlaces
    <2>5. w[i - 1] <= w[(i \div 2) - 1]
        BY <2>1, <2>2, <1>1 DEF Ordered
    <2>6. (i \div 2) - 1 \in 0 .. n - 1 /\ ((i \div 2) - 1) + 1 = i \div 2
        BY <2>1, <2>2, <2>4
    <2> DEFINE a == i \div 2
    <2> HIDE DEF a
    <2>7. w[i - 1] = queue.heap[i].value /\ w[a - 1] = queue.heap[a].value
        BY <2>1, <2>6, <1>1 DEF a
    <2>8. w[i - 1] \in Int /\ w[a - 1] \in Int /\ w[i - 1] <= w[a - 1]
        BY <2>1, <2>5, <2>6, <1>1 DEF a
    <2>9. ~(queue.heap[a].value < queue.heap[i].value)
        BY <2>7, <2>8
    <2> QED BY <2>9 DEF Less, a
<1>3. ASSUME NEW key \in SomeKeys, Indexed!hasKey(queue, key) PROVE queue.index[key] <= n
    <2>1. PICK a \in 1 .. n : queue.heap[a].key = key
        BY <1>1, <1>3 DEF WellIndexed, Indexed!hasKey
    <2>2. queue.index[key] = a
        BY <1>1, <2>1 DEF WellIndexed
    <2> HIDE DEF n
    <2> QED BY <2>1, <2>2, <1>1
<1> QED BY <1>1, <1>2, <1>3 DEF Indexed!QueueInOrder, WellIndexed

-----------------------------------------------------------------------------
\* HeapsInOrder for the heaps by themselves: no element is larger than its parent, in a
\* heap of any degree and any length, and the positions lead to the elements.  With values
\* that are lowered IndexedPriorityQueue loses the order (see MCSequential_lower.cfg), and
\* the loops of Dijkstra's algorithm are left to the model checker.
THEOREM HeapsStayInOrder ==
    SequentialSpec => [](which # "dijkstra" /\ (which = "indexed" => ~Lowers) => HeapsInOrder)
<1>1. HeapInv /\ KeysInv => (which # "dijkstra" /\ (which = "indexed" => ~Lowers) => HeapsInOrder)
    <2> SUFFICES ASSUME HeapInv, KeysInv, which # "dijkstra", which = "indexed" => ~Lowers PROVE HeapsInOrder
        OBVIOUS
    <2>1. CASE which = "heap"
        <3>1. Heap!InHeapOrder
            BY <2>1, HeapFollows DEF HeapInv
        <3> QED BY <2>1, <3>1 DEF HeapsInOrder
    <2>2. CASE which = "indexed"
        <3>1. Indexed!QueueInOrder
            BY <2>2, KeysFollow DEF KeysInv
        <3> QED BY <2>2, <3>1 DEF HeapsInOrder
    <2>3. CASE which # "heap" /\ which # "indexed"
        BY <2>3 DEF HeapsInOrder
    <2> QED BY <2>1, <2>2, <2>3
<1> QED BY <1>1, InitHeap, NextHeap, InitKeys, NextKeys, PTL DEF SequentialSpec

-----------------------------------------------------------------------------
(* The heaps do to their content what MaxQueue promises.                   *)

\* The map from handles to values that a set of elements stands for.
MapOf(S) == [h \in {x.h : x \in S} |-> (CHOOSE x \in S : x.h = h).e]
OneEach(S) == \A x, y \in S : x.h = y.h => x = y
Handled == [e : Values, h : 0 .. MaxSize + Capacity]

LEMMA ValuesOfMap ==
    ASSUME NEW S, OneEach(S)
    PROVE  /\ DOMAIN MapOf(S) = {x.h : x \in S}
           /\ \A x \in S : MapOf(S)[x.h] = x.e
           /\ MapOf(S) = [h \in DOMAIN MapOf(S) |-> MapOf(S)[h]]
<1>1. DOMAIN MapOf(S) = {x.h : x \in S} /\ MapOf(S) = [h \in DOMAIN MapOf(S) |-> MapOf(S)[h]]
    BY DEF MapOf
<1>2. ASSUME NEW x \in S PROVE MapOf(S)[x.h] = x.e
    <2>1. x.h \in {y.h : y \in S}
        OBVIOUS
    <2>2. MapOf(S)[x.h] = (CHOOSE y \in S : y.h = x.h).e
        BY <2>1 DEF MapOf
    <2> DEFINE z == CHOOSE y \in S : y.h = x.h
    <2>3. z \in S /\ z.h = x.h
        OBVIOUS
    <2>4. z = x
        BY <2>3 DEF OneEach
    <2> QED BY <2>2, <2>4
<1> QED BY <1>1, <1>2

\* Maps with the same handles and the same values are equal.
LEMMA SameMap ==
    ASSUME NEW S, OneEach(S), NEW f, NEW D, f = [h \in D |-> f[h]], D = {x.h : x \in S},
           \A x \in S : f[x.h] = x.e
    PROVE  MapOf(S) = f
<1>1. /\ DOMAIN MapOf(S) = {x.h : x \in S} /\ \A x \in S : MapOf(S)[x.h] = x.e
      /\ MapOf(S) = [h \in DOMAIN MapOf(S) |-> MapOf(S)[h]]
    BY ValuesOfMap
<1> DEFINE g == MapOf(S)
<1>2. g = [h \in D |-> g[h]]
    BY <1>1
<1>3. ASSUME NEW h \in D PROVE f[h] = g[h]
    <2>1. PICK x \in S : h = x.h
        OBVIOUS
    <2> QED BY <2>1, <1>1
<1> HIDE DEF g
<1>4. g = f
    BY <1>2, <1>3
<1> QED BY <1>4 DEF g

\* The four ways in which a queue changes its set of elements.
SetStep(S, R) ==
    \/ \E h \in 0 .. MaxSize + Capacity, v \in Values :
        R = S \cup {[e |-> v, h |-> h]} /\ \A x \in S : x.h # h
    \/ \E x \in S : R = S \ {x} /\ \A y \in S : y.e <= x.e
    \/ R = {}
    \/ \E x \in S, v \in Values : R = (S \ {x}) \cup {[e |-> v, h |-> x.h]}

AbstractStep(f, g) ==
    \/ \E h \in 0 .. MaxSize + Capacity, v \in Values :
        h \notin DOMAIN f /\ g = [k \in DOMAIN f \cup {h} |-> IF k = h THEN v ELSE f[k]]
    \/ \E h \in DOMAIN f :
        /\ \A k \in DOMAIN f : ~Less(f[h], f[k])
        /\ g = [k \in DOMAIN f \ {h} |-> f[k]]
    \/ g = <<>>
    \/ \E h \in 0 .. MaxSize + Capacity, v \in Values : h \in DOMAIN f /\ g = [f EXCEPT ![h] = v]

LEMMA EmptyMap == MapOf({}) = <<>>
<1>1. OneEach({})
    BY DEF OneEach
<1>2. <<>> = [h \in {} |-> <<>>[h]]
    OBVIOUS
<1>3. {} = {x.h : x \in {}}
    OBVIOUS
<1> DEFINE f == <<>>
           D == {}
<1> QED BY <1>1, <1>2, <1>3, SameMap

LEMMA MapStep ==
    ASSUME NEW S \in SUBSET Handled, OneEach(S), NEW R \in SUBSET Handled, OneEach(R), SetStep(S, R)
    PROVE  AbstractStep(MapOf(S), MapOf(R))
<1> DEFINE f == MapOf(S)
<1>1. DOMAIN f = {x.h : x \in S} /\ (\A x \in S : f[x.h] = x.e) /\ f = [h \in DOMAIN f |-> f[h]]
    BY ValuesOfMap
<1>2. \A x \in S : x.h \in 0 .. MaxSize + Capacity /\ x.e \in Int
    BY SequentialAssumption DEF Handled
<1> HIDE DEF f
<1>3. CASE \E h \in 0 .. MaxSize + Capacity, v \in Values :
               R = S \cup {[e |-> v, h |-> h]} /\ \A x \in S : x.h # h
    <2>1. PICK h \in 0 .. MaxSize + Capacity, v \in Values :
              R = S \cup {[e |-> v, h |-> h]} /\ \A x \in S : x.h # h
        BY <1>3
    <2> DEFINE D == DOMAIN f \cup {h}
               g == [k \in D |-> IF k = h THEN v ELSE f[k]]
               y == [e |-> v, h |-> h]
    <2>2. h \notin DOMAIN f
        BY <2>1, <1>1
    <2>4. g = [k \in D |-> g[k]] /\ g[h] = v /\ \A k \in DOMAIN f : g[k] = f[k]
        BY <2>2
    <2>3. y.h = h /\ y.e = v /\ R = S \cup {y}
        BY <2>1
    <2> HIDE DEF g, y
    <2>5. D = {x.h : x \in R}
        <3>1. D = {x.h : x \in S} \cup {h}
            BY <1>1
        <3> QED BY <3>1, <2>3
    <2>6. ASSUME NEW x \in R PROVE g[x.h] = x.e
        <3>1. CASE x \in S
            BY <3>1, <2>4, <1>1
        <3>2. CASE x = y
            BY <3>2, <2>3, <2>4
        <3> QED BY <3>1, <3>2, <2>3
    <2> HIDE DEF D
    <2>7. MapOf(R) = g
        BY <2>4, <2>5, <2>6, SameMap
    <2> QED BY <2>2, <2>7 DEF AbstractStep, f, g, D
<1>4. CASE \E x \in S : R = S \ {x} /\ \A y \in S : y.e <= x.e
    <2>1. PICK x \in S : R = S \ {x} /\ \A y \in S : y.e <= x.e
        BY <1>4
    <2> DEFINE D == DOMAIN f \ {x.h}
               g == [k \in D |-> f[k]]
    <2>2. g = [k \in D |-> g[k]]
        OBVIOUS
    <2>3. D = {y.h : y \in R}
        BY <2>1, <1>1 DEF OneEach
    <2>4. ASSUME NEW y \in R PROVE g[y.h] = y.e
        <3>1. y.h \in D /\ y \in S
            BY <2>1, <2>3
        <3> QED BY <3>1, <1>1
    <2>5. MapOf(R) = g
        <3> HIDE DEF g, D
        <3> QED BY <2>2, <2>3, <2>4, SameMap
    <2>6. x.h \in DOMAIN f
        BY <1>1
    <2>7. ASSUME NEW k \in DOMAIN f PROVE ~Less(f[x.h], f[k])
        <3>1. PICK y \in S : k = y.h
            BY <1>1
        <3>2. f[k] = y.e /\ f[x.h] = x.e /\ y.e <= x.e /\ x.e \in Int /\ y.e \in Int
            BY <3>1, <2>1, <1>1, <1>2
        <3> QED BY <3>2 DEF Less
    <2> QED BY <2>5, <2>6, <2>7 DEF AbstractStep, f
<1>5. CASE R = {}
    BY <1>5, EmptyMap DEF AbstractStep
<1>6. CASE \E x \in S, v \in Values : R = (S \ {x}) \cup {[e |-> v, h |-> x.h]}
    <2>1. PICK x \in S, v \in Values : R = (S \ {x}) \cup {[e |-> v, h |-> x.h]}
        BY <1>6
    <2> DEFINE h == x.h
               D == DOMAIN f
               g == [f EXCEPT ![h] = v]
    <2>2. h \in D /\ h \in 0 .. MaxSize + Capacity
        BY <1>1, <1>2
    <2>3. g = [k \in D |-> g[k]] /\ g[h] = v /\ \A k \in D : k # h => g[k] = f[k]
        BY <2>2
    <2>4. D = {y.h : y \in R}
        <3> DEFINE z == [e |-> v, h |-> x.h]
        <3>1. z.h = h /\ R = (S \ {x}) \cup {z}
            BY <2>1
        <3> HIDE DEF z
        <3>2. D = {y.h : y \in S}
            BY <1>1
        <3>3. {y.h : y \in R} \subseteq {y.h : y \in S}
            <4> SUFFICES ASSUME NEW y \in R PROVE y.h \in {a.h : a \in S}
                OBVIOUS
            <4> QED BY <3>1
        <3>4. {y.h : y \in S} \subseteq {y.h : y \in R}
            <4> SUFFICES ASSUME NEW y \in S PROVE y.h \in {a.h : a \in R}
                OBVIOUS
            <4> QED BY <3>1
        <3> QED BY <3>2, <3>3, <3>4
    <2> HIDE DEF g
    <2>5. ASSUME NEW y \in R PROVE g[y.h] = y.e
        <3>1. CASE y \in S \ {x}
            <4>1. y.h # h /\ y.h \in D
                BY <3>1, <1>1 DEF OneEach
            <4> QED BY <3>1, <4>1, <2>3, <1>1
        <3>2. CASE y = [e |-> v, h |-> x.h]
            BY <3>2, <2>3
        <3> QED BY <3>1, <3>2, <2>1
    <2>6. MapOf(R) = g
        <3> HIDE DEF D
        <3> QED BY <2>3, <2>4, <2>5, SameMap
    <2> QED BY <2>2, <2>6 DEF AbstractStep, f, g
<1> QED BY <1>3, <1>4, <1>5, <1>6 DEF SetStep

\* The sets of elements, with the keys of the indexed queue as handles.
KeySet(S) == {[e |-> x.value, h |-> x.key] : x \in S}
HeapSet ==
    which = "heap" =>
        In(pq) \in SUBSET Handled /\ OneEach(In(pq)) /\ Content = MapOf(In(pq))
QueueSet ==
    which = "indexed" /\ ~Lowers =>
        /\ KeySet(InK(queue)) \in SUBSET Handled /\ OneEach(KeySet(InK(queue)))
        /\ Content = MapOf(KeySet(InK(queue)))

LEMMA HeapContent == HeapInv => HeapSet
<1> SUFFICES ASSUME HeapInv, which = "heap"
             PROVE  In(pq) \in SUBSET Handled /\ OneEach(In(pq)) /\ Content = MapOf(In(pq))
    BY DEF HeapSet
<1> DEFINE s == pq.elements
           n == Len(s)
           S == In(pq)
<1>1. /\ pq \in HeapQueues /\ s \in Seq(HeapElements) /\ n \in Nat
      /\ \A a, b \in 1 .. n : s[a].h = s[b].h => a = b
    BY DEF HeapInv, HeapOrdered, WellFormed, HeapQueues
<1>2. S = {s[a] : a \in 1 .. n}
    BY DEF In
<1>3. OneEach(S)
    <2> HIDE DEF s, n
    <2> QED BY <1>1, <1>2 DEF OneEach
<1>4. S \in SUBSET Handled
    <2>1. ASSUME NEW a \in 1 .. n PROVE s[a] \in Handled
        <3>1. s[a] \in HeapElements
            BY <1>1
        <3>2. Heap!Handles \subseteq 0 .. MaxSize + Capacity
            BY SequentialAssumption DEF Heap!Handles
        <3> HIDE DEF s
        <3> QED BY <3>1, <3>2 DEF HeapElements, Handled
    <2> HIDE DEF s, n
    <2> QED BY <2>1, <1>2
<1>5. Content = Heap!Content
    BY DEF Content
<1>6. Heap!Content = [h \in {s[a].h : a \in 1 .. n} |-> (CHOOSE x \in Heap!Range(s) : x.h = h).e]
    BY DEF Heap!Content, Heap!size
<1>7. Heap!Range(s) = S
    <2>1. DOMAIN s = 1 .. n
        BY <1>1
    <2> HIDE DEF s, n
    <2> QED BY <2>1, <1>2 DEF Heap!Range
<1>8. {s[a].h : a \in 1 .. n} = {x.h : x \in S}
    <2> HIDE DEF s, n
    <2> QED BY <1>2
<1> HIDE DEF s, n, S
<1>9. Heap!Content = MapOf(S)
    <2> DEFINE D == {s[a].h : a \in 1 .. n}
               Z == Heap!Range(s)
    <2>1. Heap!Content = [h \in D |-> (CHOOSE x \in Z : x.h = h).e]
        BY <1>6
    <2>2. D = {x.h : x \in S} /\ Z = S
        BY <1>7, <1>8
    <2> HIDE DEF D, Z
    <2>3. Heap!Content = [h \in {x.h : x \in S} |-> (CHOOSE x \in S : x.h = h).e]
        BY ONLY <2>1, <2>2
    <2> QED BY <2>3 DEF MapOf
<1> QED BY <1>3, <1>4, <1>5, <1>9 DEF S

LEMMA QueueContentIs == KeysInv => QueueSet
<1> SUFFICES ASSUME KeysInv, which = "indexed", ~Lowers
             PROVE  /\ KeySet(InK(queue)) \in SUBSET Handled /\ OneEach(KeySet(InK(queue)))
                    /\ Content = MapOf(KeySet(InK(queue)))
    BY DEF QueueSet
<1> DEFINE s == queue.heap
           n == Len(s)
           S == InK(queue)
           R == KeySet(S)
           r(x) == [e |-> x.value, h |-> x.key]
<1>1. /\ queue \in KeyQueues /\ s \in Seq(Pairs) /\ n \in Nat
      /\ \A a \in 1 .. n : queue.index[s[a].key] = a /\ s[a] \in Pairs
    BY ValuesOfKeys DEF KeysInv, KeysOrdered, WellIndexed
<1>2. S = {s[a] : a \in 1 .. n}
    BY DEF InK
<1>3. \A x, y \in S : x.key = y.key => x = y
    <2> HIDE DEF s, n
    <2> QED BY <1>1, <1>2
<1>4. \A x \in S : x \in Pairs
    <2> HIDE DEF s, n
    <2> QED BY <1>1, <1>2
<1>5. \A x : r(x).e = x.value /\ r(x).h = x.key
    OBVIOUS
<1>6. R = {r(x) : x \in S}
    BY DEF KeySet
<1> HIDE DEF s, n, S, R
<1>7. R \in SUBSET Handled
    <2>1. ASSUME NEW x \in S PROVE r(x) \in Handled
        <3>1. x.key \in 0 .. MaxSize + Capacity /\ x.value \in Values
            BY <1>4, SequentialAssumption DEF Pairs, SomeKeys
        <3> QED BY <3>1 DEF Handled
    <2> QED BY <2>1, <1>6
<1>8. OneEach(R)
    <2> SUFFICES ASSUME NEW a \in R, NEW b \in R, a.h = b.h PROVE a = b
        BY DEF OneEach
    <2>1. PICK x \in S : a = r(x)
        BY <1>6
    <2>2. PICK y \in S : b = r(y)
        BY <1>6
    <2>3. x.key = y.key
        BY <2>1, <2>2
    <2>4. x = y
        BY <2>3, <1>3
    <2> QED BY <2>1, <2>2, <2>4
<1>9. Content = Indexed!QueueContent
    BY DEF Content
<1>10. Indexed!Range(s) = S
    <2>1. DOMAIN s = 1 .. n
        BY <1>1 DEF n
    <2> QED BY <2>1, <1>2 DEF Indexed!Range
<1> DEFINE D == {x.key : x \in S}
           f == [k \in D |-> (CHOOSE x \in S : x.key = k).value]
<1>11. Content = f
    BY <1>9, <1>10 DEF Indexed!QueueContent, s
<1>12. f = [k \in D |-> f[k]]
    OBVIOUS
<1>13. D = {a.h : a \in R}
    <2>1. D \subseteq {a.h : a \in R}
        <3> SUFFICES ASSUME NEW x \in S PROVE x.key \in {a.h : a \in R}
            OBVIOUS
        <3>1. r(x) \in R /\ r(x).h = x.key
            BY <1>5, <1>6
        <3> QED BY <3>1
    <2>2. {a.h : a \in R} \subseteq D
        <3> SUFFICES ASSUME NEW a \in R PROVE a.h \in D
            OBVIOUS
        <3>1. PICK x \in S : a = r(x)
            BY <1>6
        <3> QED BY <3>1
    <2> QED BY <2>1, <2>2
<1>14. ASSUME NEW a \in R PROVE f[a.h] = a.e
    <2>1. PICK x \in S : a = r(x)
        BY <1>6
    <2>2. a.h = x.key /\ a.e = x.value /\ x.key \in D
        BY <2>1
    <2> DEFINE z == CHOOSE y \in S : y.key = x.key
    <2>3. z \in S /\ z.key = x.key
        OBVIOUS
    <2>4. z = x
        BY <2>3, <1>3
    <2>5. f[x.key] = z.value
        BY <2>2
    <2> QED BY <2>2, <2>4, <2>5
<1> HIDE DEF f, D
<1>15. MapOf(R) = f
    BY <1>8, <1>12, <1>13, <1>14, SameMap
<1> QED BY <1>7, <1>8, <1>11, <1>15 DEF R, S

\* What a step of the indexed queue does to its keys is such a step.
LEMMA KeySetStep ==
    ASSUME KeysOrdered(queue), KeyStep
    PROVE  SetStep(KeySet(InK(queue)), KeySet(InK(queue')))
<1> DEFINE S == InK(queue)
           T == InK(queue')
           r(x) == [e |-> x.value, h |-> x.key]
<1>1. /\ \A x \in S : x \in Pairs /\ x.key \in 0 .. MaxSize + Capacity
      /\ \A x, y \in S : x.key = y.key => x = y
    <2>1. /\ \A a \in 1 .. Len(queue.heap) : queue.heap[a] \in Pairs /\ queue.heap[a].key \in SomeKeys
          /\ \A a \in 1 .. Len(queue.heap) : queue.index[queue.heap[a].key] = a
        BY ValuesOfKeys DEF KeysOrdered, WellIndexed
    <2>2. \A k \in SomeKeys : k \in 0 .. MaxSize + Capacity
        BY SequentialAssumption DEF SomeKeys
    <2> QED BY <2>1, <2>2 DEF InK
<1>2. \A x : r(x).e = x.value /\ r(x).h = x.key
    OBVIOUS
<1>3. \A A : KeySet(A) = {r(x) : x \in A}
    BY DEF KeySet
<1>4. \A x \in S : r(x) \in KeySet(S)
    BY <1>3
<1>5. ASSUME NEW x \in S PROVE KeySet(S \ {x}) = KeySet(S) \ {r(x)}
    <2>1. KeySet(S \ {x}) \subseteq KeySet(S) \ {r(x)}
        <3> SUFFICES ASSUME NEW y \in S \ {x} PROVE r(y) \in KeySet(S) \ {r(x)}
            BY <1>3
        <3>1. y.key # x.key
            BY <1>1
        <3> QED BY <3>1, <1>4, <1>2
    <2>2. KeySet(S) \ {r(x)} \subseteq KeySet(S \ {x})
        <3> SUFFICES ASSUME NEW y \in S, r(y) # r(x) PROVE r(y) \in KeySet(S \ {x})
            BY <1>3
        <3>1. y # x
            OBVIOUS
        <3> QED BY <3>1, <1>3
    <2> QED BY <2>1, <2>2
<1>6. ASSUME NEW A, NEW x PROVE KeySet(A \cup {x}) = KeySet(A) \cup {r(x)}
    <2>1. KeySet(A \cup {x}) \subseteq KeySet(A) \cup {r(x)}
        BY <1>3
    <2>2. KeySet(A) \cup {r(x)} \subseteq KeySet(A \cup {x})
        BY <1>3
    <2> QED BY <2>1, <2>2
<1> HIDE DEF S, T
<1>7. CASE \E key \in SomeKeys, v \in Values :
               T = S \cup {[key |-> key, value |-> v]} /\ \A y \in S : y.key # key
    <2>1. PICK key \in SomeKeys, v \in Values :
              T = S \cup {[key |-> key, value |-> v]} /\ \A y \in S : y.key # key
        BY <1>7
    <2>2. KeySet(T) = KeySet(S) \cup {[e |-> v, h |-> key]}
        <3> DEFINE x == [key |-> key, value |-> v]
        <3>1. r(x) = [e |-> v, h |-> key]
            OBVIOUS
        <3> HIDE DEF x
        <3>2. KeySet(S \cup {x}) = KeySet(S) \cup {r(x)}
            BY <1>6
        <3> QED BY <3>1, <3>2, <2>1 DEF x
    <2>3. ASSUME NEW a \in KeySet(S) PROVE a.h # key
        <3>1. PICK y \in S : a = r(y)
            BY <1>3
        <3> QED BY <3>1, <2>1
    <2>4. key \in 0 .. MaxSize + Capacity
        BY SequentialAssumption DEF SomeKeys
    <2> QED BY <2>2, <2>3, <2>4 DEF SetStep, S, T
<1>8. CASE \E x \in S : T = S \ {x} /\ \A y \in S : y.value <= x.value
    <2>1. PICK x \in S : T = S \ {x} /\ \A y \in S : y.value <= x.value
        BY <1>8
    <2>2. KeySet(T) = KeySet(S) \ {r(x)} /\ r(x) \in KeySet(S)
        BY <2>1, <1>4, <1>5
    <2>3. ASSUME NEW a \in KeySet(S) PROVE a.e <= r(x).e
        <3>1. PICK y \in S : a = r(y)
            BY <1>3
        <3> QED BY <3>1, <2>1
    <2> QED BY <2>2, <2>3 DEF SetStep, S, T
<1>9. CASE T = {}
    <2>1. KeySet(T) = {}
        BY <1>9, <1>3
    <2> QED BY <2>1 DEF SetStep, S, T
<1>10. CASE \E x \in S, v \in Values : T = (S \ {x}) \cup {[key |-> x.key, value |-> v]}
    <2>1. PICK x \in S, v \in Values : T = (S \ {x}) \cup {[key |-> x.key, value |-> v]}
        BY <1>10
    <2>2. KeySet(T) = (KeySet(S) \ {r(x)}) \cup {[e |-> v, h |-> r(x).h]}
        <3> DEFINE y == [key |-> x.key, value |-> v]
                   A == S \ {x}
        <3>1. r(y) = [e |-> v, h |-> x.key] /\ r(x).h = x.key
            OBVIOUS
        <3>2. KeySet(A) = KeySet(S) \ {r(x)}
            BY <1>5
        <3> HIDE DEF y, A
        <3>3. KeySet(A \cup {y}) = KeySet(A) \cup {r(y)}
            BY <1>6
        <3>4. T = A \cup {y}
            BY <2>1 DEF A, y
        <3> QED BY <3>1, <3>2, <3>3, <3>4
    <2>3. r(x) \in KeySet(S)
        BY <1>4
    <2> QED BY <2>2, <2>3 DEF SetStep, S, T
<1> QED BY <1>7, <1>8, <1>9, <1>10 DEF KeyStep, S, T

LEMMA ContentSteps ==
    ASSUME ~Lowers, HeapInv, KeysInv, HeapSet, QueueSet, HeapSet', QueueSet', [SequentialNext]_allVars
    PROVE  [Abstract!Next]_Content
<1>1. which' = which
    BY HeapApart DEF allVars
<1>2. ASSUME AbstractStep(Content, Content') PROVE Abstract!Next
    BY <1>2 DEF AbstractStep, Abstract!Next, Abstract!Push, Abstract!Pop, Abstract!Change, Abstract!Clear
<1>3. CASE which = "heap"
    <2> DEFINE S == In(pq)
               R == In(pq')
    <2>1. S \in SUBSET Handled /\ OneEach(S) /\ Content = MapOf(S)
        BY <1>3 DEF HeapSet
    <2>2. R \in SUBSET Handled /\ OneEach(R) /\ Content' = MapOf(R)
        BY <1>1, <1>3 DEF HeapSet, In, OneEach, MapOf, Handled
    <2>3. CASE UNCHANGED allVars
        <3>1. R = S
            BY <2>3 DEF allVars
        <3> QED BY <3>1, <2>1, <2>2
    <2>4. CASE SequentialNext
        <3>1. HeapStep
            BY <2>4, <1>3, HeapApart, HeapSteps DEF HeapInv
        <3>2. SetStep(S, R)
            <4> HIDE DEF S, R
            <4>1. \A h \in 1 .. MaxSize : h \in 0 .. MaxSize + Capacity
                BY SequentialAssumption
            <4> QED BY <4>1, <3>1 DEF HeapStep, SetStep, S, R
        <3> HIDE DEF S, R
        <3>3. AbstractStep(Content, Content')
            BY <3>2, <2>1, <2>2, MapStep
        <3> QED BY <3>3, <1>2
    <2> QED BY <2>3, <2>4
<1>4. CASE which = "indexed"
    <2> DEFINE S == KeySet(InK(queue))
               R == KeySet(InK(queue'))
    <2>1. S \in SUBSET Handled /\ OneEach(S) /\ Content = MapOf(S)
        BY <1>4 DEF QueueSet
    <2>2. R \in SUBSET Handled /\ OneEach(R) /\ Content' = MapOf(R)
        BY <1>1, <1>4 DEF QueueSet, InK, KeySet, OneEach, MapOf, Handled
    <2>3. CASE UNCHANGED allVars
        <3>1. R = S
            BY <2>3 DEF allVars
        <3> QED BY <3>1, <2>1, <2>2
    <2>4. CASE SequentialNext
        <3>1. KeysOrdered(queue) /\ KeyStep
            BY <2>4, <1>4, KeysApart, KeySteps DEF KeysInv
        <3>2. SetStep(S, R)
            BY <3>1, KeySetStep
        <3> HIDE DEF S, R
        <3>3. AbstractStep(Content, Content')
            BY <3>2, <2>1, <2>2, MapStep
        <3> QED BY <3>3, <1>2
    <2> QED BY <2>3, <2>4
<1>5. CASE which # "heap" /\ which # "indexed"
    <2>1. Content = <<>> /\ Content' = <<>>
        BY <1>1, <1>5 DEF Content
    <2> QED BY <2>1
<1> QED BY <1>3, <1>4, <1>5

LEMMA InitContent == SequentialInit /\ ~Lowers => Content = <<>>
<1> SUFFICES ASSUME SequentialInit, ~Lowers PROVE Content = <<>>
    OBVIOUS
<1>1. HeapInv /\ KeysInv
    BY InitHeap, InitKeys
<1>2. CASE which = "heap"
    <2>1. pq = Heap!EmptyHeap
        BY <1>2 DEF SequentialInit, Heap!PQInit
    <2>2. In(pq) = {}
        BY <2>1, EmptyIsOrdered
    <2>3. Content = MapOf(In(pq))
        BY <1>1, <1>2, HeapContent DEF HeapSet
    <2> QED BY <2>2, <2>3, EmptyMap
<1>3. CASE which = "indexed"
    <2>1. queue = Indexed!EmptyQueue
        BY <1>3 DEF SequentialInit, Indexed!IPQInit
    <2>2. InK(queue) = {}
        BY <2>1, EmptyKeys
    <2>3. Content = MapOf(KeySet(InK(queue)))
        BY <1>1, <1>3, QueueContentIs DEF QueueSet
    <2>4. KeySet({}) = {}
        BY DEF KeySet
    <2> QED BY <2>2, <2>3, <2>4, EmptyMap
<1>4. CASE which # "heap" /\ which # "indexed"
    BY <1>4 DEF Content
<1> QED BY <1>2, <1>3, <1>4

\* ImplementsMaxQueue: to the map from handles to values that a queue stands for, push()
\* adds a new handle, pop() takes out one with a largest value, a change gives a handle
\* another value, and nothing else happens.  In IndexedPriorityQueue no value is lowered.
THEOREM QueuesImplementMaxQueue == ~Lowers => (SequentialSpec => ImplementsMaxQueue)
<1> SUFFICES ASSUME ~Lowers PROVE SequentialSpec => ImplementsMaxQueue
    OBVIOUS
<1>1. SequentialInit => Content = <<>>
    BY InitContent
<1>2. HeapInv /\ KeysInv => HeapSet /\ QueueSet
    BY HeapContent, QueueContentIs
<1>3. /\ HeapInv /\ KeysInv /\ HeapSet /\ QueueSet /\ HeapSet' /\ QueueSet' /\ [SequentialNext]_allVars
      => [Abstract!Next]_Content
    BY ContentSteps
<1> QED BY <1>1, <1>2, <1>3, InitHeap, NextHeap, InitKeys, NextKeys, PTL
    DEF SequentialSpec, ImplementsMaxQueue, Abstract!MaxQueueSpec
=============================================================================

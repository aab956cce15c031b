-------------------------- MODULE SequentialProofs --------------------------
(***************************************************************************)
(* Proofs about sequential parts: the vector below the heaps and the hash  *)
(* tables with linear probing.  What needs no values of MCSequential       *)
(* (induction, functions defined by recursion) comes first.                *)
(***************************************************************************)
EXTENDS MCSequential, FiniteSetTheorems, SequenceTheorems, WellFoundedInduction, NaturalsInduction, TLAPS

-----------------------------------------------------------------------------
(* Induction.                                                              *)

Smaller == {ss \in Nat \X Nat : ss[1] < ss[2]}

LEMMA SmallerIsWellFounded == IsWellFoundedOn(Smaller, Nat)
BY NatLessThanWellFounded DEF OpToRel, Smaller

\* A nonempty set of natural numbers has a least element.
LEMMA LeastElement ==
    ASSUME NEW S \in SUBSET Nat, S # {}
    PROVE  \E m \in S : \A k \in S : m <= k
<1>1. PICK m \in S : \A k \in S : ~(<<k, m>> \in Smaller)
    BY SmallerIsWellFounded, WFMin
<1>2. \A k \in S : ~(k < m)
    BY <1>1 DEF Smaller
<1> QED BY <1>2

\* What holds of zero and passes on to the successor holds of every number.
LEMMA InductionOverSet ==
    ASSUME NEW S \in SUBSET Nat, 0 \in S, \A n \in S : n + 1 \in S
    PROVE  S = Nat
<1> SUFFICES ASSUME Nat \ S # {} PROVE FALSE
    OBVIOUS
<1>1. PICK m \in Nat \ S : \A k \in Nat \ S : m <= k
    BY LeastElement
<1>2. m - 1 \in Nat /\ (m - 1) + 1 = m
    BY <1>1
<1> QED BY <1>1, <1>2

\* f is what a base and a step define recursively.
Recursion(f, T, b, F, n) == f = [k \in 0 .. n |-> IF k = 0 THEN b ELSE F[f[k - 1]]]

\* There is such a function, and its values are in the set that the step stays in.
LEMMA RecursionExists ==
    ASSUME NEW T, NEW b \in T, NEW F \in [T -> T], NEW n \in Nat
    PROVE  \E f \in [0 .. n -> T] : Recursion(f, T, b, F, n)
<1> DEFINE Good(k) == \E f \in [0 .. k -> T] : f[0] = b /\ \A i \in 1 .. k : f[i] = F[f[i - 1]]
           S == {k \in Nat : Good(k)}
<1>1. 0 \in S
    <2>1. [i \in 0 .. 0 |-> b] \in [0 .. 0 -> T] /\ [i \in 0 .. 0 |-> b][0] = b /\ 1 .. 0 = {}
        OBVIOUS
    <2> QED BY <2>1
<1>2. ASSUME NEW k \in S PROVE k + 1 \in S
    <2>1. PICK f \in [0 .. k -> T] : f[0] = b /\ \A i \in 1 .. k : f[i] = F[f[i - 1]]
        BY <1>2
    <2> DEFINE g == [i \in 0 .. k + 1 |-> IF i = k + 1 THEN F[f[k]] ELSE f[i]]
    <2>2. k \in Nat /\ f[k] \in T /\ F[f[k]] \in T
        BY <2>1
    <2>3. g \in [0 .. k + 1 -> T]
        BY <2>2
    <2>4. ASSUME NEW i \in 1 .. k + 1 PROVE g[i] = F[g[i - 1]]
        <3>1. i - 1 \in 0 .. k + 1 /\ i - 1 # k + 1 /\ g[i - 1] = f[i - 1] /\ (k + 1) - 1 = k
            BY <2>2
        <3>2. CASE i = k + 1
            BY <3>1, <3>2, <2>2
        <3>3. CASE i # k + 1
            <4>1. i \in 1 .. k /\ g[i] = f[i]
                BY <3>3, <2>2
            <4> QED BY <4>1, <3>1, <2>1
        <3> QED BY <3>2, <3>3
    <2>5. g[0] = b
        BY <2>1, <2>2
    <2> HIDE DEF g
    <2>6. Good(k + 1)
        BY <2>3, <2>4, <2>5
    <2> QED BY <2>6, <2>2
<1> HIDE DEF Good
<1>3. n \in S
    BY <1>1, <1>2, InductionOverSet
<1>4. PICK f \in [0 .. n -> T] : f[0] = b /\ \A i \in 1 .. n : f[i] = F[f[i - 1]]
    BY <1>3 DEF Good
<1>5. \A k \in 0 .. n : k # 0 => k \in 1 .. n
    OBVIOUS
<1>6. f = [k \in 0 .. n |-> IF k = 0 THEN b ELSE F[f[k - 1]]]
    BY <1>4, <1>5
<1> QED BY <1>6 DEF Recursion
-----------------------------------------------------------------------------
(* AlignedVector.                                                          *)

\* A multiple of A that is at least x.
LEMMA RoundedUp ==
    ASSUME NEW x \in Nat, NEW A \in Nat, A > 0
    PROVE  LET r == ((x + A - 1) \div A) * A IN r \in Nat /\ r >= x /\ r % A = 0
<1> DEFINE d == (x + A - 1) \div A
<1>1. d \in Nat /\ A * d <= x + A - 1 /\ x + A - 1 < A * d + A
    OBVIOUS
<1>2. d * A = A * d /\ A * d \in Nat
    BY <1>1
<1>3. (d * A) % A = 0
    BY <1>1
<1> QED BY <1>1, <1>2, <1>3
-----------------------------------------------------------------------------
(* Powers of two count the subsets of a set; so another element doubles them. *)

LEMMA SubsetsOfInterval ==
    ASSUME NEW k \in Nat
    PROVE  IsFiniteSet(SUBSET (1 .. k)) /\ Cardinality(SUBSET (1 .. k)) = 2 ^ k
<1>1. IsFiniteSet(1 .. k) /\ Cardinality(1 .. k) = k
    BY FS_Interval
<1> QED BY <1>1, FS_SUBSET

LEMMA PowersOfTwo ==
    ASSUME NEW k \in Nat
    PROVE  2 ^ k \in Nat /\ 2 ^ (k + 1) = 2 ^ k + 2 ^ k
<1> DEFINE A == SUBSET (1 .. k)
           B == {X \cup {k + 1} : X \in A}
           f == [X \in A |-> X \cup {k + 1}]
<1>1. IsFiniteSet(A) /\ Cardinality(A) = 2 ^ k /\ Cardinality(SUBSET (1 .. k + 1)) = 2 ^ (k + 1)
    BY SubsetsOfInterval
<1>2. 2 ^ k \in Nat
    BY <1>1, FS_CardinalityType
<1>3. \A X \in A : k + 1 \notin X
    OBVIOUS
<1>4. f \in Bijection(A, B)
    <2>1. \A X, Y \in A : X \cup {k + 1} = Y \cup {k + 1} => X = Y
        BY <1>3
    <2> HIDE DEF A
    <2>2. f \in [A -> B]
        OBVIOUS
    <2>3. \A X, Y \in A : f[X] = f[Y] => X = Y
        BY <2>1
    <2>4. \A Y \in B : \E X \in A : f[X] = Y
        OBVIOUS
    <2> HIDE DEF f, B
    <2>5. f \in Injection(A, B)
        BY <2>2, <2>3 DEF Injection, IsInjective
    <2>6. f \in Surjection(A, B)
        BY <2>2, <2>4 DEF Surjection
    <2> QED BY <2>5, <2>6 DEF Bijection
<1>5. IsFiniteSet(B) /\ Cardinality(B) = 2 ^ k
    <2>1. ExistsBijection(A, B)
        BY <1>4 DEF ExistsBijection
    <2> HIDE DEF A, B
    <2> QED BY <1>1, <2>1, FS_Bijection
<1>6. SUBSET (1 .. k + 1) = A \cup B
    <2>1. ASSUME NEW X \in SUBSET (1 .. k + 1) PROVE X \in A \cup B
        <3>1. CASE k + 1 \in X
            <4>1. X \ {k + 1} \in A /\ X = (X \ {k + 1}) \cup {k + 1}
                BY <3>1
            <4> QED BY <4>1
        <3>2. CASE k + 1 \notin X
            BY <3>2
        <3> QED BY <3>1, <3>2
    <2>2. 1 .. k \subseteq 1 .. k + 1 /\ k + 1 \in 1 .. k + 1
        OBVIOUS
    <2> QED BY <2>1, <2>2
<1>7. A \cap B = {}
    BY <1>3
<1>8. Cardinality(A \cup B) = 2 ^ k + 2 ^ k
    <2> HIDE DEF A, B
    <2>1. Cardinality(A \cup B) = Cardinality(A) + Cardinality(B) - Cardinality(A \cap B)
        BY <1>1, <1>5, FS_Union
    <2>2. Cardinality(A \cap B) = 0
        BY <1>7, FS_EmptySet
    <2> DEFINE c == 2 ^ k
    <2>3. c \in Nat /\ Cardinality(A) = c /\ Cardinality(B) = c
        BY <1>1, <1>2, <1>5
    <2> HIDE DEF c
    <2>4. Cardinality(A \cup B) = c + c
        BY <2>1, <2>2, <2>3
    <2> QED BY <2>4 DEF c
<1> QED BY <1>1, <1>2, <1>6, <1>8

\* What is rounded up to is a power of two.
LEMMA PowersGrow ==
    ASSUME NEW n \in Nat
    PROVE  2 ^ n > n
<1> DEFINE S == {k \in Nat : 2 ^ k > k}
<1>1. 0 \in S
    <2>1. 1 .. 0 = {} /\ 0 \in Nat
        OBVIOUS
    <2>2. SUBSET (1 .. 0) = {{}}
        BY <2>1
    <2>3. Cardinality({{}}) = 1
        BY FS_Singleton
    <2>4. 2 ^ 0 = 1
        BY <2>1, <2>2, <2>3, SubsetsOfInterval
    <2> QED BY <2>4
<1>2. ASSUME NEW k \in S PROVE k + 1 \in S
    <2>1. k \in Nat /\ 2 ^ k > k
        BY <1>2
    <2>2. 2 ^ k \in Nat /\ 2 ^ (k + 1) = 2 ^ k + 2 ^ k
        BY <2>1, PowersOfTwo
    <2> DEFINE p == 2 ^ k
               q == 2 ^ (k + 1)
    <2>3. p \in Nat /\ p > k /\ q = p + p
        BY <2>1, <2>2
    <2> HIDE DEF p, q
    <2>4. q > k + 1
        BY <2>1, <2>3
    <2> QED BY <2>1, <2>4 DEF q
<1> HIDE DEF S
<1>3. S = Nat
    <2>1. S \in SUBSET Nat
        BY DEF S
    <2> QED BY <1>1, <1>2, <2>1, InductionOverSet
<1> QED BY <1>3 DEF S

LEMMA NextPower ==
    ASSUME NEW n \in Nat, n > 0
    PROVE  Vector!next_power_of_two(n) \in Nat /\ Vector!next_power_of_two(n) >= n
<1> DEFINE S == {e \in 0 .. n : 2 ^ e >= n}
           E(e) == 2 ^ e >= n /\ (e = 0 \/ 2 ^ (e - 1) < n)
           shifts == CHOOSE e \in 0 .. n : E(e)
<1>1. \A e \in 0 .. n : 2 ^ e \in Nat
    BY PowersOfTwo
<1>2. n \in S
    BY PowersGrow, <1>1
<1>3. PICK m \in S : \A k \in S : m <= k
    <2>1. S \in SUBSET Nat /\ S # {}
        BY <1>2
    <2> HIDE DEF S
    <2> QED BY <2>1, LeastElement
<1>4. E(m)
    <2>1. m \in 0 .. n /\ 2 ^ m >= n
        BY <1>3
    <2>2. ASSUME m # 0 PROVE 2 ^ (m - 1) < n
        <3>1. m - 1 \in 0 .. n /\ m - 1 \notin S
            BY <2>1, <2>2, <1>3
        <3>2. 2 ^ (m - 1) \in Nat
            BY <3>1, <1>1
        <3> QED BY <3>1, <3>2
    <2> QED BY <2>1, <2>2
<1>5. \E e \in 0 .. n : E(e)
    BY <1>4, <1>3
<1> HIDE DEF E
<1>6. shifts \in 0 .. n /\ E(shifts)
    BY <1>5
<1>7. Vector!next_power_of_two(n) = 2 ^ shifts
    BY DEF Vector!next_power_of_two, E
<1> HIDE DEF shifts
<1> QED BY <1>6, <1>7, <1>1 DEF E

LEMMA VectorTypes ==
    ASSUME NEW v \in Vectors
    PROVE  /\ v.sizeof \in Nat /\ v.sizeof > 0 /\ v.alignof \in Nat /\ v.alignof > 0
           /\ v.block_size \in Nat /\ v.block_size > 0 /\ v.capacity \in Nat /\ v.capacity > 0
           /\ v.offset \in Nat /\ v.sizeof % v.alignof = 0
BY SequentialAssumption

\* What does not fit into the memory is never counted.
LEMMA Quotients ==
    ASSUME NEW b \in Nat, NEW d \in Nat, d > 0
    PROVE  b \div d \in Nat /\ (b \div d) * d <= b /\ \A n \in Nat : b >= d * n => b \div d >= n
<1> DEFINE q == b \div d
<1>1. q \in Nat /\ d * q <= b /\ b < d * q + d
    OBVIOUS
<1> HIDE DEF q
<1>2. q * d = d * q
    BY <1>1
<1>3. ASSUME NEW n \in Nat, b >= d * n, q < n PROVE FALSE
    <2>1. n = (q + 1) + (n - (q + 1)) /\ n - (q + 1) \in Nat
        BY <1>1, <1>3
    <2> DEFINE r == n - (q + 1)
    <2>2. d * n = d * (q + 1) + d * r
        BY <2>1, <1>1
    <2>3. d * (q + 1) = d * q + d
        BY <1>1
    <2>4. d * r \in Nat /\ d * q \in Nat /\ d * n \in Nat
        BY <2>1, <1>1
    <2> QED BY <2>2, <2>3, <2>4, <1>1, <1>3
<1>4. \A n \in Nat : b >= d * n => q >= n
    BY <1>1, <1>3
<1> QED BY <1>1, <1>2, <1>4 DEF q

LEMMA Alignments ==
    ASSUME NEW v \in Vectors
    PROVE  Vector!alignment(v) \in Nat /\ Vector!alignment(v) > 0
<1> DEFINE x == v.alignof
           y == v.block_size
<1>1. x \in Nat /\ y \in Nat /\ x > 0 /\ y > 0
    BY VectorTypes
<1> HIDE DEF x, y
<1>2. x * y \in Nat /\ x * y > 0
    BY <1>1
<1>3. v.alignof * v.block_size \in Nat /\ v.alignof * v.block_size > 0
    BY <1>2 DEF x, y
<1> QED BY <1>3, NextPower DEF Vector!alignment

LEMMA Sizes ==
    ASSUME NEW v \in Vectors, NEW n \in Nat
    PROVE  LET bytes == Vector!sizeFor(v, n)
           IN  /\ bytes \in Nat /\ bytes % Vector!alignment(v) = 0
               /\ bytes \div v.sizeof \in Nat /\ bytes \div v.sizeof >= n + v.offset
               /\ (bytes \div v.sizeof) * v.sizeof <= bytes
<1> DEFINE A == Vector!alignment(v)
           x == v.sizeof * (n + v.offset)
           bytes == Vector!sizeFor(v, n)
<1>1. v.sizeof \in Nat /\ v.sizeof > 0 /\ v.offset \in Nat /\ n + v.offset \in Nat
    BY VectorTypes
<1>2. x \in Nat
    BY <1>1
<1>3. A \in Nat /\ A > 0
    BY Alignments
<1>4. bytes = ((x + A - 1) \div A) * A
    BY DEF Vector!sizeFor
<1> HIDE DEF A, x, bytes
<1>5. bytes \in Nat /\ bytes >= x /\ bytes % A = 0
    BY <1>2, <1>3, <1>4, RoundedUp
<1>6. /\ bytes \div v.sizeof \in Nat /\ (bytes \div v.sizeof) * v.sizeof <= bytes
      /\ \A k \in Nat : bytes >= v.sizeof * k => bytes \div v.sizeof >= k
    BY <1>1, <1>5, Quotients
<1>7. bytes >= v.sizeof * (n + v.offset)
    BY <1>5 DEF x
<1> QED BY <1>1, <1>5, <1>6, <1>7 DEF bytes, A

\* The inductive invariant of the vector.
VectorTyped ==
    /\ vector \in Vectors /\ m_size \in Nat /\ capacity \in Nat /\ m_size <= capacity
    /\ alloc.bytes \in Nat /\ alloc.alignment \in Nat /\ alloc.alignment > 0
    /\ pushed \in Seq(Elements) /\ Len(pushed) = m_size
VectorPlaces ==
    /\ capacity > 0 =>
        /\ vector.offset + capacity = alloc.bytes \div vector.sizeof
        /\ (alloc.bytes \div vector.sizeof) * vector.sizeof <= alloc.bytes
        /\ alloc.bytes % alloc.alignment = 0
        /\ DOMAIN memory = 0 .. vector.offset + capacity - 1
        /\ memory = [i \in DOMAIN memory |-> memory[i]]
    /\ \A i \in 1 .. m_size : pushed[i] = memory[vector.offset + i - 1]
VectorInv == which = "vector" => VectorTyped /\ VectorPlaces

\* The elements of a group of bs, of a multiple of al bytes each, are a multiple of al * bs.
LEMMA BlockBegins ==
    ASSUME NEW d \in Nat, NEW al \in Nat, al > 0, NEW bs \in Nat, bs > 0, d % al = 0, NEW k \in Nat
    PROVE  ((bs * (k + 1)) * d) % (al * bs) = 0
<1> DEFINE m == d \div al
<1>1. m \in Nat /\ d = al * m
    OBVIOUS
<1> HIDE DEF m
<1> DEFINE A == al * bs
           q == (k + 1) * m
<1>2. A \in Nat /\ A > 0 /\ q \in Nat
    BY <1>1
<1>3. (bs * (k + 1)) * d = A * q
    BY <1>1
<1> HIDE DEF A, q
<1>4. (A * q) % A = 0
    BY <1>2
<1> QED BY <1>3, <1>4 DEF A

LEMMA VectorFollows == VectorInv => VectorsInPlace
<1> SUFFICES ASSUME VectorInv, which = "vector" PROVE Vector!ElementsInPlace
    BY DEF VectorsInPlace
<1>1. VectorTyped /\ VectorPlaces
    BY DEF VectorInv
<1>5. /\ vector.sizeof \in Nat /\ vector.alignof \in Nat /\ vector.alignof > 0
      /\ vector.block_size \in Nat /\ vector.block_size > 0 /\ vector.sizeof % vector.alignof = 0
    <2>1. vector \in Vectors
        BY <1>1 DEF VectorTyped
    <2> QED BY <2>1, VectorTypes
<1>2. pushed = [i \in 1 .. m_size |-> memory[vector.offset + i - 1]]
    <2>1. pushed \in [1 .. m_size -> Elements]
        BY <1>1 DEF VectorTyped
    <2> QED BY <2>1, <1>1 DEF VectorPlaces
<1>3. capacity > 0 =>
        /\ (vector.offset + capacity) * vector.sizeof <= alloc.bytes
        /\ alloc.bytes % alloc.alignment = 0
    BY <1>1 DEF VectorPlaces
<1>4. ASSUME vector.offset = vector.block_size - 1, alloc.alignment = vector.alignof * vector.block_size,
             NEW k \in 0 .. (capacity - 1) \div vector.block_size
      PROVE  ((vector.offset + 1 + k * vector.block_size) * vector.sizeof) % alloc.alignment = 0
    <2> DEFINE d == vector.sizeof
               al == vector.alignof
               bs == vector.block_size
    <2>1. k \in Nat
        OBVIOUS
    <2>2. /\ d \in Nat /\ al \in Nat /\ al > 0 /\ bs \in Nat /\ bs > 0 /\ d % al = 0
        BY ONLY <1>5
    <2>3. alloc.alignment = al * bs /\ vector.offset + 1 + k * vector.block_size = bs * (k + 1)
        <3>1. vector.offset + 1 + k * bs = bs + k * bs
            BY <1>4, <2>1, <2>2
        <3>2. bs + k * bs = bs * (k + 1)
            <4> HIDE DEF d, al, bs
            <4> QED BY <2>1, <2>2
        <3> QED BY <3>1, <3>2, <1>4
    <2> HIDE DEF d, al, bs
    <2>4. ((bs * (k + 1)) * d) % (al * bs) = 0
        BY <2>1, <2>2, BlockBegins
    <2> QED BY <2>3, <2>4 DEF d
<1> QED BY <1>2, <1>3, <1>4 DEF Vector!ElementsInPlace

\* A step of the vector itself, or of something else.
LEMMA VectorApart ==
    SequentialNext =>
        /\ which' = which
        /\ which = "vector" => Vector!VectorNext
BY DEF SequentialNext

LEMMA InitVector == SequentialInit => VectorInv
<1> SUFFICES ASSUME SequentialInit, which = "vector" PROVE VectorTyped /\ VectorPlaces
    BY DEF VectorInv
<1>1. Vector!VectorInit
    BY DEF SequentialInit
<1>2. alloc.bytes = 0 /\ alloc.alignment = 1 /\ pushed = <<>>
    BY <1>1 DEF Vector!VectorInit
<1>3. pushed \in Seq(Elements) /\ Len(pushed) = 0
    BY <1>2
<1> QED BY <1>1, <1>2, <1>3 DEF VectorTyped, VectorPlaces, Vector!VectorInit

\* A block for n elements that holds those that were there.
LEMMA Allocated ==
    ASSUME NEW v \in Vectors, NEW c \in Nat, NEW old, NEW n \in Nat, n <= c,
           Vector!Allocate(v, c, old, n)
    PROVE  /\ alloc.bytes' \in Nat /\ alloc.alignment' \in Nat /\ alloc.alignment' > 0
           /\ capacity' \in Nat /\ capacity' >= c
           /\ v.offset + capacity' = alloc.bytes' \div v.sizeof
           /\ (alloc.bytes' \div v.sizeof) * v.sizeof <= alloc.bytes'
           /\ alloc.bytes' % alloc.alignment' = 0
           /\ DOMAIN memory' = 0 .. v.offset + capacity' - 1
           /\ memory' = [i \in DOMAIN memory' |-> memory'[i]]
           /\ \A i \in v.offset .. v.offset + n - 1 : memory'[i] = old[i]
<1> DEFINE b == Vector!sizeFor(v, c)
           A == Vector!alignment(v)
           d == v.sizeof
           o == v.offset
           m == [i \in 0 .. b \div d - 1 |->
                    IF i \in o .. o + n - 1 THEN old[i] ELSE Garbage]
<1>1. alloc' = [bytes |-> b, alignment |-> A] /\ memory' = m /\ capacity' = b \div d - o
    BY DEF Vector!Allocate, Vector!capacityFor
<1>2. /\ b \in Nat /\ b % A = 0 /\ b \div d \in Nat /\ b \div d >= c + o
      /\ (b \div d) * d <= b
    BY Sizes
<1>3. A \in Nat /\ A > 0
    BY Alignments
<1>4. o \in Nat
    BY VectorTypes
<1>5. alloc.bytes' = b /\ alloc.alignment' = A
    BY <1>1
<1> DEFINE q == b \div d
<1> HIDE DEF b, A, d, o
<1>6. capacity' \in Nat /\ capacity' >= c /\ o + capacity' = q
    <2>1. q \in Nat /\ q >= c + o /\ capacity' = q - o
        BY <1>1, <1>2
    <2> HIDE DEF q
    <2> QED BY <2>1, <1>4
<1>7. DOMAIN memory' = 0 .. q - 1 /\ memory' = [i \in DOMAIN memory' |-> memory'[i]]
    BY <1>1
<1>8. ASSUME NEW i \in o .. o + n - 1 PROVE memory'[i] = old[i]
    <2>1. q \in Nat /\ q >= c + o
        BY <1>2
    <2>2. i \in 0 .. q - 1
        <3> HIDE DEF q
        <3> QED BY <2>1, <1>4
    <2>3. m[i] = old[i]
        BY <2>2
    <2>4. memory'[i] = m[i]
        <3> HIDE DEF m
        <3> QED BY <1>1
    <2> QED BY <2>3, <2>4
<1>9. 0 .. q - 1 = 0 .. o + capacity' - 1
    <2> DEFINE p == capacity'
    <2>1. p \in Nat /\ o + p = q
        BY <1>6
    <2> HIDE DEF q, m, p
    <2>2. o + p - 1 = q - 1
        BY ONLY <2>1, <1>4
    <2> QED BY ONLY <2>2 DEF p
<1> QED BY <1>2, <1>3, <1>5, <1>6, <1>7, <1>8, <1>9 DEF d, o

LEMMA ConstructVector ==
    ASSUME VectorTyped, VectorPlaces, Vector!Construct
    PROVE  VectorTyped' /\ VectorPlaces'
<1>1. vector \in Vectors /\ vector.capacity \in Nat
    <2>1. vector \in Vectors
        BY DEF VectorTyped
    <2> QED BY <2>1, VectorTypes
<1>2. m_size = 0
    BY DEF VectorTyped, Vector!Construct
<1>3. Vector!Allocate(vector, vector.capacity, <<>>, 0)
    BY DEF Vector!Construct
<1>4. vector' = vector /\ m_size' = m_size /\ pushed' = pushed
    BY DEF Vector!Construct
<1>5. /\ alloc.bytes' \in Nat /\ alloc.alignment' \in Nat /\ alloc.alignment' > 0
      /\ capacity' \in Nat /\ capacity' >= vector.capacity
      /\ vector.offset + capacity' = alloc.bytes' \div vector.sizeof
      /\ (alloc.bytes' \div vector.sizeof) * vector.sizeof <= alloc.bytes'
      /\ alloc.bytes' % alloc.alignment' = 0
      /\ DOMAIN memory' = 0 .. vector.offset + capacity' - 1
      /\ memory' = [i \in DOMAIN memory' |-> memory'[i]]
    <2>1. vector.capacity \in Nat /\ 0 \in Nat /\ 0 <= vector.capacity
        BY <1>1
    <2> QED BY <1>1, <1>3, <2>1, Allocated
<1>6. VectorTyped'
    BY <1>1, <1>2, <1>4, <1>5 DEF VectorTyped
<1>7. VectorPlaces'
    BY <1>2, <1>4, <1>5 DEF VectorPlaces
<1> QED BY <1>6, <1>7

LEMMA ReserveVector ==
    ASSUME VectorTyped, VectorPlaces, NEW c \in Nat, Vector!Reserve(c)
    PROVE  VectorTyped' /\ VectorPlaces'
<1>1. vector \in Vectors /\ m_size \in Nat /\ m_size <= c /\ vector.offset \in Nat
    <2>1. vector \in Vectors /\ m_size \in Nat /\ m_size <= c
        BY DEF VectorTyped, Vector!Reserve
    <2> QED BY <2>1, VectorTypes
<1>3. Vector!Allocate(vector, c, memory, m_size)
    BY DEF Vector!Reserve
<1>4. vector' = vector /\ m_size' = m_size /\ pushed' = pushed
    BY DEF Vector!Reserve
<1>5. /\ alloc.bytes' \in Nat /\ alloc.alignment' \in Nat /\ alloc.alignment' > 0
      /\ capacity' \in Nat /\ capacity' >= c
      /\ vector.offset + capacity' = alloc.bytes' \div vector.sizeof
      /\ (alloc.bytes' \div vector.sizeof) * vector.sizeof <= alloc.bytes'
      /\ alloc.bytes' % alloc.alignment' = 0
      /\ DOMAIN memory' = 0 .. vector.offset + capacity' - 1
      /\ memory' = [i \in DOMAIN memory' |-> memory'[i]]
      /\ \A i \in vector.offset .. vector.offset + m_size - 1 : memory'[i] = memory[i]
    BY <1>1, <1>3, Allocated
<1>6. VectorTyped'
    BY <1>1, <1>4, <1>5 DEF VectorTyped
<1>7. \A i \in 1 .. m_size : pushed'[i] = memory'[vector.offset + i - 1]
    <2> TAKE i \in 1 .. m_size
    <2>1. vector.offset + i - 1 \in vector.offset .. vector.offset + m_size - 1
        BY <1>1
    <2> QED BY <2>1, <1>4, <1>5 DEF VectorPlaces
<1>8. VectorPlaces'
    BY <1>4, <1>5, <1>7 DEF VectorPlaces
<1> QED BY <1>6, <1>8

LEMMA DestroyVector ==
    ASSUME VectorTyped, VectorPlaces, Vector!Destroy
    PROVE  VectorTyped' /\ VectorPlaces'
<1>1. alloc' = [bytes |-> 0, alignment |-> 1] /\ pushed' = <<>> /\ m_size' = 0 /\ capacity' = 0
      /\ vector' = vector
    BY DEF Vector!Destroy
<1>2. alloc.bytes' = 0 /\ alloc.alignment' = 1
    BY <1>1
<1>3. pushed' \in Seq(Elements) /\ Len(pushed') = 0
    BY <1>1
<1>4. VectorTyped'
    BY <1>1, <1>2, <1>3 DEF VectorTyped
<1>5. VectorPlaces'
    BY <1>1 DEF VectorPlaces
<1> QED BY <1>4, <1>5

LEMMA PushVector ==
    ASSUME VectorTyped, VectorPlaces, NEW x \in Elements, Vector!PushBack(x)
    PROVE  VectorTyped' /\ VectorPlaces'
<1> DEFINE p == vector.offset + m_size
<1>1. /\ m_size \in Nat /\ capacity \in Nat /\ m_size < capacity /\ vector.offset \in Nat
      /\ pushed \in Seq(Elements) /\ Len(pushed) = m_size
    <2>1. vector \in Vectors
        BY DEF VectorTyped
    <2>2. vector.offset \in Nat
        BY <2>1, VectorTypes
    <2> QED BY <2>2 DEF VectorTyped, Vector!PushBack
<1>2. /\ memory' = [memory EXCEPT ![p] = x] /\ m_size' = m_size + 1 /\ pushed' = Append(pushed, x)
      /\ vector' = vector /\ alloc' = alloc /\ capacity' = capacity
    BY DEF Vector!PushBack
<1>3. DOMAIN memory = 0 .. vector.offset + capacity - 1 /\ memory = [i \in DOMAIN memory |-> memory[i]]
    BY <1>1 DEF VectorPlaces
<1>4. p \in DOMAIN memory
    BY <1>1, <1>3
<1> HIDE DEF p
<1>5. /\ DOMAIN memory' = DOMAIN memory /\ memory'[p] = x
      /\ \A i \in DOMAIN memory : i # p => memory'[i] = memory[i]
      /\ memory' = [i \in DOMAIN memory' |-> memory'[i]]
    BY <1>2, <1>3, <1>4
<1>6. /\ pushed' \in Seq(Elements) /\ Len(pushed') = m_size + 1
      /\ pushed'[m_size + 1] = x /\ \A i \in 1 .. m_size : pushed'[i] = pushed[i]
    BY <1>1, <1>2
<1>7. \A i \in 1 .. m_size + 1 : pushed'[i] = memory'[vector.offset + i - 1]
    <2> TAKE i \in 1 .. m_size + 1
    <2>1. CASE i = m_size + 1
        <3>1. vector.offset + i - 1 = p
            BY <2>1, <1>1 DEF p
        <3> QED BY <2>1, <3>1, <1>5, <1>6
    <2>2. CASE i # m_size + 1
        <3>1. i \in 1 .. m_size /\ vector.offset + i - 1 # p /\ vector.offset + i - 1 \in DOMAIN memory
            BY <2>2, <1>1, <1>3 DEF p
        <3>2. pushed[i] = memory[vector.offset + i - 1]
            BY <3>1 DEF VectorPlaces
        <3> QED BY <3>1, <3>2, <1>5, <1>6
    <2> QED BY <2>1, <2>2
<1>8. VectorTyped'
    BY <1>1, <1>2, <1>6 DEF VectorTyped
<1>9. VectorPlaces'
    <2>1. \A i \in 1 .. m_size' : pushed'[i] = memory'[vector'.offset + i - 1]
        BY <1>2, <1>7
    <2>2. DOMAIN memory' = 0 .. vector.offset + capacity - 1
        BY <1>3, <1>5
    <2> QED BY <1>1, <1>2, <1>5, <2>1, <2>2 DEF VectorPlaces
<1> QED BY <1>8, <1>9

LEMMA PopVector ==
    ASSUME VectorTyped, VectorPlaces, Vector!PopBack
    PROVE  VectorTyped' /\ VectorPlaces'
<1> DEFINE p == vector.offset + m_size - 1
<1>1. /\ m_size \in Nat /\ capacity \in Nat /\ m_size <= capacity /\ m_size > 0 /\ vector.offset \in Nat
      /\ pushed \in Seq(Elements) /\ Len(pushed) = m_size
    <2>1. vector \in Vectors
        BY DEF VectorTyped
    <2>2. vector.offset \in Nat
        BY <2>1, VectorTypes
    <2> QED BY <2>2 DEF VectorTyped, Vector!PopBack
<1>2. /\ memory' = [memory EXCEPT ![p] = Garbage] /\ m_size' = m_size - 1
      /\ pushed' = SubSeq(pushed, 1, m_size - 1)
      /\ vector' = vector /\ alloc' = alloc /\ capacity' = capacity
    BY DEF Vector!PopBack
<1>3. DOMAIN memory = 0 .. vector.offset + capacity - 1 /\ memory = [i \in DOMAIN memory |-> memory[i]]
    BY <1>1 DEF VectorPlaces
<1>4. p \in DOMAIN memory
    BY <1>1, <1>3
<1> HIDE DEF p
<1>5. /\ DOMAIN memory' = DOMAIN memory
      /\ \A i \in DOMAIN memory : i # p => memory'[i] = memory[i]
      /\ memory' = [i \in DOMAIN memory' |-> memory'[i]]
    BY <1>2, <1>3, <1>4
<1>6. /\ pushed' \in Seq(Elements) /\ Len(pushed') = m_size - 1
      /\ \A i \in 1 .. m_size - 1 : pushed'[i] = pushed[i]
    <2>1. m_size - 1 \in 0 .. Len(pushed)
        BY <1>1
    <2> QED BY <2>1, <1>1, <1>2, SubSeqProperties
<1>7. \A i \in 1 .. m_size - 1 : pushed'[i] = memory'[vector.offset + i - 1]
    <2> TAKE i \in 1 .. m_size - 1
    <2>1. i \in 1 .. m_size /\ vector.offset + i - 1 # p /\ vector.offset + i - 1 \in DOMAIN memory
        BY <1>1, <1>3 DEF p
    <2>2. pushed[i] = memory[vector.offset + i - 1]
        BY <2>1 DEF VectorPlaces
    <2> QED BY <2>1, <2>2, <1>5, <1>6
<1>8. VectorTyped'
    BY <1>1, <1>2, <1>6 DEF VectorTyped
<1>9. VectorPlaces'
    <2>1. \A i \in 1 .. m_size' : pushed'[i] = memory'[vector'.offset + i - 1]
        BY <1>2, <1>7
    <2>2. DOMAIN memory' = 0 .. vector.offset + capacity - 1
        BY <1>3, <1>5
    <2> QED BY <1>1, <1>2, <1>5, <2>1, <2>2 DEF VectorPlaces
<1> QED BY <1>8, <1>9

LEMMA NextVector == VectorInv /\ [SequentialNext]_allVars => VectorInv'
<1> SUFFICES ASSUME VectorInv, [SequentialNext]_allVars, which' = "vector"
             PROVE  VectorTyped' /\ VectorPlaces'
    BY DEF VectorInv
<1>1. CASE UNCHANGED allVars
    <2>1. UNCHANGED <<which, vectorVars>>
        BY <1>1 DEF allVars
    <2>2. UNCHANGED <<which, vector, alloc, memory, capacity, m_size, pushed>>
        BY <2>1 DEF vectorVars
    <2> QED BY <2>2 DEF VectorInv, VectorTyped, VectorPlaces
<1>2. CASE SequentialNext
    <2>1. VectorTyped /\ VectorPlaces /\ Vector!VectorNext
        BY <1>2, VectorApart DEF VectorInv
    <2>2. CASE Vector!Construct
        BY <2>1, <2>2, ConstructVector
    <2>3. CASE Vector!Destroy
        BY <2>1, <2>3, DestroyVector
    <2>4. CASE Vector!PopBack
        BY <2>1, <2>4, PopVector
    <2>5. ASSUME NEW new_cap \in 1 .. MaxCapacity, Vector!Reserve(new_cap) PROVE VectorTyped' /\ VectorPlaces'
        BY <2>1, <2>5, ReserveVector
    <2>6. ASSUME NEW x \in Elements, Vector!PushBack(x) PROVE VectorTyped' /\ VectorPlaces'
        BY <2>1, <2>6, PushVector
    <2> QED BY <2>1, <2>2, <2>3, <2>4, <2>5, <2>6 DEF Vector!VectorNext
<1> QED BY <1>1, <1>2

\* VectorsInPlace: however a vector grows, its elements stay within its memory, in their
\* order, and blocks begin at a boundary.
THEOREM VectorsStayInPlace == SequentialSpec => []VectorsInPlace
<1> QED BY InitVector, NextVector, VectorFollows, PTL DEF SequentialSpec
-----------------------------------------------------------------------------
(* LinearProbing.                                                          *)

Cells == 0 .. config.capacity - 1
Looks == 0 .. config.max_search_length - 1
Occupied == {i \in Cells : table[i] # emptyKey}

\* A search for k ends at its j-th probe.
StopsAt(k, j) ==
    /\ j \in Looks /\ table[Probing!Probes(k)[j]] \in {k, emptyKey}
    /\ \A h \in Looks : h < j => table[Probing!Probes(k)[h]] \notin {k, emptyKey}

\* The inductive invariant of the hash tables: a search for a key that is in the table ends
\* where it is, as no cell before it has become empty.
TableTyped == config \in Tables /\ table \in [Cells -> HashedKeys \cup {emptyKey}]
KeysInCells == \A k \in HashedKeys : \A i \in Cells : table[i] = k =>
    \E j \in Looks : StopsAt(k, j) /\ Probing!Probes(k)[j] = i
AnswerRight ==
    answer # <<>> =>
        \/ answer.pos = Probing!findPos(answer.key)
        \/ /\ answer.pos = -1
           /\ Probing!findPos(answer.key) = config.capacity
           /\ \A j \in Looks : table[Probing!Probes(answer.key)[j]] # emptyKey
TableInv == which = "table" => TableTyped /\ KeysInCells /\ AnswerRight

LEMMA TableTypes ==
    ASSUME TableTyped, NEW k \in HashedKeys
    PROVE  /\ k # emptyKey /\ DOMAIN Probing!Probes(k) = Looks
           /\ \A j \in Looks : Probing!Probes(k)[j] \in Cells
<1> DEFINE n == config.capacity
           x == config.hash[k]
<1>1. n \in Nat /\ n > 0 /\ config.max_search_length \in Nat /\ x \in Nat /\ k # emptyKey
    <2>1. config \in Tables
        BY DEF TableTyped
    <2> QED BY <2>1, SequentialAssumption
<1>2. Probing!Probes(k) = [j \in Looks |-> ((x % n) + j) % n]
    BY DEF Probing!Probes, Probing!map, Looks
<1>3. ASSUME NEW j \in Looks PROVE ((x % n) + j) % n \in Cells
    <2>1. j \in Nat
        BY <1>1 DEF Looks
    <2> HIDE DEF x, n
    <2>2. x % n \in Nat
        BY <1>1
    <2>3. ((x % n) + j) % n \in 0 .. n - 1
        BY <2>1, <2>2, <1>1
    <2> QED BY <2>3 DEF n, Cells
<1> QED BY <1>1, <1>2, <1>3

LEMMA CellsOfTable ==
    ASSUME TableTyped
    PROVE  /\ config.capacity \in Nat /\ Cells \subseteq Nat /\ Looks \subseteq Nat
           /\ 0 \in Cells /\ -1 \notin Cells /\ DOMAIN table = Cells /\ Occupied \subseteq Cells
<1>1. config.capacity \in Nat \ {0} /\ config.max_search_length \in Nat
    BY SequentialAssumption DEF TableTyped
<1> QED BY <1>1 DEF Cells, Looks, TableTyped, Occupied

\* The cell where a search ends.
LEMMA StopFound ==
    ASSUME TableTyped, NEW k \in HashedKeys, NEW j, StopsAt(k, j)
    PROVE  Probing!StopFor(k) = Probing!Probes(k)[j]
<1> DEFINE P == Probing!Probes(k)
           stops == {h \in DOMAIN P : table[P[h]] \in {k, emptyKey}}
<1>1. DOMAIN P = Looks
    BY TableTypes
<1>2. j \in stops /\ \A h \in stops : j <= h
    BY <1>1, CellsOfTable DEF StopsAt
<1>3. \A m \in stops : (\A h \in stops : m <= h) => m = j
    BY <1>1, <1>2, CellsOfTable
<1>4. Probing!StopFor(k) = IF stops = {} THEN -1 ELSE P[Probing!Min(stops)]
    BY DEF Probing!StopFor, Probing!None
<1> HIDE DEF P, stops
<1>5. Probing!Min(stops) = j
    BY <1>2, <1>3 DEF Probing!Min
<1> QED BY <1>2, <1>4, <1>5 DEF P

LEMMA StopOrNone ==
    ASSUME TableTyped, NEW k \in HashedKeys
    PROVE  \/ \E j \in Looks : StopsAt(k, j)
           \/ /\ Probing!StopFor(k) = -1
              /\ \A j \in Looks : table[Probing!Probes(k)[j]] \notin {k, emptyKey}
<1> DEFINE P == Probing!Probes(k)
           stops == {h \in DOMAIN P : table[P[h]] \in {k, emptyKey}}
<1>1. DOMAIN P = Looks /\ Looks \subseteq Nat
    BY TableTypes, CellsOfTable
<1>2. CASE stops = {}
    <2>1. Probing!StopFor(k) = -1
        BY <1>2 DEF Probing!StopFor, Probing!None
    <2> QED BY <2>1, <1>2, <1>1
<1>3. CASE stops # {}
    <2>1. stops \in SUBSET Nat
        BY <1>1
    <2>2. PICK j \in stops : \A h \in stops : j <= h
        <3> HIDE DEF stops
        <3> QED BY <1>3, <2>1, LeastElement
    <2>3. StopsAt(k, j)
        <3>1. j \in Looks /\ table[P[j]] \in {k, emptyKey}
            BY <2>2, <1>1
        <3>2. ASSUME NEW h \in Looks, h < j PROVE table[P[h]] \notin {k, emptyKey}
            <4>1. ASSUME table[P[h]] \in {k, emptyKey} PROVE j <= h
                <5>1. h \in stops
                    BY <4>1, <1>1
                <5> QED BY <5>1, <2>2
            <4>2. j \in Nat /\ h \in Nat
                BY <3>1, <1>1
            <4> QED BY <4>1, <4>2, <3>2
        <3> QED BY <3>1, <3>2 DEF StopsAt
    <2> QED BY <2>2, <2>3, <1>1
<1> QED BY <1>2, <1>3

\* KeysAreFound, its first part.
AllFound == \A k \in HashedKeys : \A i \in Cells : table[i] = k => Probing!findPos(k) = i

LEMMA KeysFound == TableTyped /\ KeysInCells => AllFound
<1> SUFFICES ASSUME TableTyped, KeysInCells, NEW k \in HashedKeys, NEW i \in Cells, table[i] = k
             PROVE  Probing!findPos(k) = i
    BY DEF AllFound
<1>1. PICK j \in Looks : StopsAt(k, j) /\ Probing!Probes(k)[j] = i
    BY DEF KeysInCells
<1>2. Probing!StopFor(k) = i
    BY <1>1, StopFound
<1>3. i # -1
    BY CellsOfTable
<1> QED BY <1>2, <1>3 DEF Probing!findPos, Probing!None

LEMMA TableApart ==
    SequentialNext =>
        /\ which' = which
        /\ which = "table" => Probing!ProbingNext
BY DEF SequentialNext

LEMMA InitTable == SequentialInit => TableInv
<1> SUFFICES ASSUME SequentialInit, which = "table" PROVE TableTyped /\ KeysInCells /\ AnswerRight
    BY DEF TableInv
<1>1. Probing!ProbingInit
    BY DEF SequentialInit
<1>2. config \in Tables /\ table = [i \in Cells |-> emptyKey] /\ answer = <<>>
    BY <1>1 DEF Probing!ProbingInit, Probing!NoAnswer, Cells
<1>3. \A k \in HashedKeys : k # emptyKey
    BY SequentialAssumption
<1> QED BY <1>2, <1>3 DEF TableTyped, KeysInCells, AnswerRight

\* insert() leaves every key where it is found.
LEMMA InsertKey ==
    ASSUME TableTyped, KeysInCells, NEW k \in HashedKeys, Probing!Insert(k)
    PROVE  TableTyped' /\ KeysInCells' /\ AnswerRight'
<1> DEFINE stop == Probing!StopFor(k)
<1>1. config' = config /\ answer' = [key |-> k, pos |-> stop]
    BY DEF Probing!Insert
<1>2. Cells' = Cells /\ Looks' = Looks /\ \A x : Probing!Probes(x)' = Probing!Probes(x)
    BY <1>1 DEF Cells, Looks, Probing!Probes, Probing!map
<1>3. answer'.key = k /\ answer'.pos = stop /\ answer' # <<>>
    BY <1>1
<1>4. CASE \E j \in Looks : StopsAt(k, j)
    <2>1. PICK j \in Looks : StopsAt(k, j)
        BY <1>4
    <2>2. stop = Probing!Probes(k)[j] /\ stop \in Cells /\ stop # -1
        <3>1. stop = Probing!Probes(k)[j]
            BY <2>1, StopFound
        <3>2. Probing!Probes(k)[j] \in Cells
            BY TableTypes
        <3>3. \A c \in Cells : c # -1
            BY CellsOfTable
        <3> QED BY <3>1, <3>2, <3>3
    <2>3. table[stop] \in {k, emptyKey} /\ k # emptyKey
        BY <2>1, <2>2, TableTypes DEF StopsAt
    <2> HIDE DEF stop
    <2>4. CASE table[stop] = k
        <3>1. table' = table
            BY <2>3, <2>4 DEF Probing!Insert, stop
        <3>2. TableTyped' /\ KeysInCells'
            BY <3>1, <1>1, <1>2 DEF TableTyped, KeysInCells, StopsAt
        <3>3. Probing!findPos(k) = stop
            BY <2>2, <2>4, KeysFound DEF AllFound
        <3>4. Probing!findPos(k)' = Probing!findPos(k)
            BY <3>1, <1>1, <1>2 DEF Probing!findPos, Probing!StopFor
        <3>5. AnswerRight'
            BY <1>3, <3>3, <3>4 DEF AnswerRight
        <3> QED BY <3>2, <3>5
    <2>5. CASE table[stop] = emptyKey
        <3>1. table' = [table EXCEPT ![stop] = k]
            BY <2>2, <2>5 DEF Probing!Insert, stop, Probing!None
        <3>2. TableTyped'
            BY <3>1, <2>2, <1>1, <1>2 DEF TableTyped
        <3>3. table'[stop] = k /\ \A i \in Cells : i # stop => table'[i] = table[i]
            BY <3>1, <2>2 DEF TableTyped
        <3>4. KeysInCells'
            <4>1. ASSUME NEW x \in HashedKeys, NEW h \in Looks, StopsAt(x, h), table'[Probing!Probes(x)[h]] = x
                  PROVE  StopsAt(x, h)'
                <5>1. ASSUME NEW l \in Looks, l < h PROVE table'[Probing!Probes(x)[l]] \notin {x, emptyKey}
                    <6>1. table[Probing!Probes(x)[l]] \notin {x, emptyKey} /\ Probing!Probes(x)[l] \in Cells
                        BY <4>1, <5>1, TableTypes DEF StopsAt
                    <6>2. Probing!Probes(x)[l] # stop
                        BY <6>1, <2>5
                    <6> QED BY <6>1, <6>2, <3>3
                <5> QED BY <4>1, <5>1, <1>2 DEF StopsAt
            <4>2. ASSUME NEW x \in HashedKeys, NEW i \in Cells, table'[i] = x
                  PROVE  \E h \in Looks : StopsAt(x, h)' /\ Probing!Probes(x)[h] = i
                <5>1. CASE i = stop
                    <6>1. x = k
                        BY <4>2, <5>1, <3>3
                    <6>2. StopsAt(k, j)'
                        BY <4>1, <2>1, <2>2, <3>3
                    <6> QED BY <5>1, <6>1, <6>2, <2>2
                <5>2. CASE i # stop
                    <6>1. table[i] = x
                        BY <4>2, <5>2, <3>3
                    <6>2. PICK h \in Looks : StopsAt(x, h) /\ Probing!Probes(x)[h] = i
                        BY <6>1 DEF KeysInCells
                    <6>3. StopsAt(x, h)'
                        BY <4>1, <4>2, <6>2
                    <6> QED BY <6>2, <6>3
                <5> QED BY <5>1, <5>2
            <4> QED BY <4>2, <1>2 DEF KeysInCells
        <3>5. AnswerRight'
            <4>1. AllFound'
                BY <3>2, <3>4, KeysFound, PTL
            <4>2. stop \in Cells' /\ table'[stop] = k
                BY <1>2, <2>2, <3>3
            <4>3. Probing!findPos(k)' = stop
                BY <4>1, <4>2 DEF AllFound
            <4> QED BY <1>3, <4>3 DEF AnswerRight
        <3> QED BY <3>2, <3>4, <3>5
    <2> QED BY <2>3, <2>4, <2>5
<1>5. CASE /\ stop = -1 /\ \A j \in Looks : table[Probing!Probes(k)[j]] \notin {k, emptyKey}
    <2>1. table' = table
        BY <1>5 DEF Probing!Insert, Probing!None
    <2>2. TableTyped' /\ KeysInCells'
        BY <2>1, <1>1, <1>2 DEF TableTyped, KeysInCells, StopsAt
    <2>3. Probing!findPos(k) = config.capacity
        BY <1>5 DEF Probing!findPos, Probing!None
    <2>4. Probing!findPos(k)' = Probing!findPos(k)
        BY <2>1, <1>1, <1>2 DEF Probing!findPos, Probing!StopFor
    <2>5. \A j \in Looks' : table'[Probing!Probes(k)'[j]] # emptyKey
        BY <1>5, <2>1, <1>2
    <2> HIDE DEF stop
    <2>6. AnswerRight'
        BY <1>1, <1>3, <1>5, <2>3, <2>4, <2>5 DEF AnswerRight
    <2> QED BY <2>2, <2>6
<1> QED BY <1>4, <1>5, StopOrNone
-----------------------------------------------------------------------------
(* The iteration over a table.                                             *)

\* p is the first of S, or -1 when there is none.
FirstOf(p, S) == p \in S \cup {-1} /\ (p = -1 => S = {}) /\ (p # -1 => \A i \in S : p <= i)

LEMMA FirstIsLeast ==
    ASSUME NEW S \in SUBSET Nat
    PROVE  FirstOf(IF S = {} THEN -1 ELSE Probing!Min(S), S)
<1>1. CASE S = {}
    BY <1>1 DEF FirstOf
<1>2. CASE S # {}
    <2>1. \E m \in S : \A k \in S : m <= k
        BY <1>2, LeastElement
    <2>2. Probing!Min(S) \in S /\ \A k \in S : Probing!Min(S) <= k
        BY <2>1 DEF Probing!Min
    <2>3. Probing!Min(S) # -1
        BY <2>2
    <2> QED BY <1>2, <2>2, <2>3 DEF FirstOf
<1> QED BY <1>1, <1>2

LEMMA AdvancedToNext ==
    ASSUME TableTyped, NEW p \in Cells
    PROVE  FirstOf(Probing!Advanced(p), {i \in Occupied : i > p})
<1> DEFINE rest == {i \in DOMAIN table : i > p /\ ~Probing!isEmpty(i)}
<1>1. rest = {i \in Occupied : i > p}
    BY CellsOfTable DEF Occupied, Probing!isEmpty
<1>2. Probing!Advanced(p) = IF rest = {} THEN -1 ELSE Probing!Min(rest)
    BY DEF Probing!Advanced, Probing!None
<1>3. rest \in SUBSET Nat
    BY CellsOfTable
<1> HIDE DEF rest
<1>4. FirstOf(IF rest = {} THEN -1 ELSE Probing!Min(rest), rest)
    BY <1>3, FirstIsLeast
<1> QED BY <1>1, <1>2, <1>4

LEMMA BeginIsFirst ==
    ASSUME TableTyped
    PROVE  FirstOf(Probing!begin, Occupied)
<1>1. CASE table[0] # emptyKey
    <2>1. Probing!begin = 0
        BY <1>1 DEF Probing!begin, Probing!isEmpty
    <2>2. 0 \in Occupied /\ \A i \in Occupied : 0 <= i
        BY <1>1, CellsOfTable DEF Occupied
    <2> QED BY <2>1, <2>2 DEF FirstOf
<1>2. CASE table[0] = emptyKey
    <2>1. Probing!begin = Probing!Advanced(0)
        BY <1>2 DEF Probing!begin, Probing!isEmpty
    <2>2. FirstOf(Probing!Advanced(0), {i \in Occupied : i > 0})
        BY CellsOfTable, AdvancedToNext
    <2>3. {i \in Occupied : i > 0} = Occupied
        BY <1>2, CellsOfTable DEF Occupied
    <2> QED BY <2>1, <2>2, <2>3
<1> QED BY <1>1, <1>2

LEMMA IterationUnfolds ==
    ASSUME TableTyped
    PROVE  /\ Probing!Iteration[0] = Probing!begin
           /\ \A i \in 1 .. config.capacity :
                Probing!Iteration[i] = IF Probing!Iteration[i - 1] = -1 THEN -1
                                       ELSE Probing!Advanced(Probing!Iteration[i - 1])
<1> DEFINE N == config.capacity
           T == Cells \cup {-1}
           b == Probing!begin
           F == [p \in T |-> IF p = -1 THEN -1 ELSE Probing!Advanced(p)]
           E(g) == g = [i \in 0 .. N |-> IF i = 0 THEN b
                                         ELSE IF g[i - 1] = -1 THEN -1 ELSE Probing!Advanced(g[i - 1])]
<1>1. b \in T
    BY BeginIsFirst, CellsOfTable DEF FirstOf
<1>2. F \in [T -> T]
    <2>1. ASSUME NEW p \in Cells PROVE Probing!Advanced(p) \in T
        BY AdvancedToNext, CellsOfTable DEF FirstOf
    <2> QED BY <2>1
<1>3. N \in Nat
    BY CellsOfTable
<1>4. \A p \in T : F[p] = IF p = -1 THEN -1 ELSE Probing!Advanced(p)
    OBVIOUS
<1> HIDE DEF T, F, b, N
<1>5. PICK f \in [0 .. N -> T] : Recursion(f, T, b, F, N)
    BY <1>1, <1>2, <1>3, RecursionExists
<1>6. E(f)
    <2>1. f = [i \in 0 .. N |-> IF i = 0 THEN b ELSE F[f[i - 1]]]
        BY <1>5 DEF Recursion
    <2>2. ASSUME NEW i \in 0 .. N, i # 0 PROVE F[f[i - 1]] = IF f[i - 1] = -1 THEN -1 ELSE Probing!Advanced(f[i - 1])
        <3>1. i - 1 \in 0 .. N
            BY <2>2, <1>3
        <3> QED BY <3>1, <1>4, <1>5
    <2> QED BY <2>1, <2>2
<1>7. Probing!Iteration = CHOOSE g : E(g)
    BY DEF Probing!Iteration, Probing!None, N, b
<1> HIDE DEF E
<1>8. E(Probing!Iteration)
    BY <1>6, <1>7
<1> DEFINE A == Probing!Iteration
<1>9. A = [i \in 0 .. N |-> IF i = 0 THEN b
                            ELSE IF A[i - 1] = -1 THEN -1 ELSE Probing!Advanced(A[i - 1])]
    BY <1>8 DEF E
<1> HIDE DEF A
<1>10. A[0] = b
    BY <1>9, <1>3
<1>11. ASSUME NEW i \in 1 .. N PROVE A[i] = IF A[i - 1] = -1 THEN -1 ELSE Probing!Advanced(A[i - 1])
    <2>1. i \in 0 .. N /\ i # 0
        BY <1>3
    <2> QED BY <2>1, <1>9
<1> QED BY <1>10, <1>11 DEF A, b, N

A_(n) == Probing!Iteration[n]

\* After n steps: every key before the present one has been passed, and none of them twice.
Passed(n) ==
    /\ A_(n) \in Occupied \cup {-1}
    /\ A_(n) # -1 =>
        /\ A_(n) >= n
        /\ \A o \in Occupied : o < A_(n) => \E m \in 0 .. n - 1 : A_(m) = o
        /\ \A m \in 0 .. n - 1 : A_(m) \in Occupied /\ A_(m) < A_(n)
    /\ A_(n) = -1 => \A o \in Occupied : \E m \in 0 .. n - 1 : A_(m) = o

LEMMA PassesFirst == TableTyped => Passed(0)
<1> SUFFICES ASSUME TableTyped PROVE Passed(0)
    OBVIOUS
<1>1. FirstOf(A_(0), Occupied)
    BY BeginIsFirst, IterationUnfolds DEF A_
<1>2. 0 .. 0 - 1 = {} /\ Occupied \subseteq Nat
    BY CellsOfTable
<1>3. A_(0) # -1 => A_(0) >= 0 /\ \A o \in Occupied : ~(o < A_(0))
    <2> SUFFICES ASSUME A_(0) # -1 PROVE A_(0) >= 0 /\ \A o \in Occupied : ~(o < A_(0))
        OBVIOUS
    <2>1. A_(0) \in Nat /\ \A o \in Occupied : A_(0) <= o
        BY <1>1, <1>2 DEF FirstOf
    <2> QED BY <2>1, <1>2
<1> QED BY <1>1, <1>2, <1>3 DEF Passed, FirstOf

LEMMA PassesNext ==
    ASSUME TableTyped, NEW n \in Nat, n + 1 <= config.capacity, Passed(n)
    PROVE  Passed(n + 1)
<1> DEFINE p == A_(n)
           q == A_(n + 1)
<1>0. Occupied \subseteq Nat /\ n + 1 \in 1 .. config.capacity /\ (n + 1) - 1 = n /\ 0 .. n = (0 .. n - 1) \cup {n}
    BY CellsOfTable
<1>1. q = IF p = -1 THEN -1 ELSE Probing!Advanced(p)
    BY <1>0, IterationUnfolds DEF A_
<1>2. CASE p = -1
    <2>1. q = -1
        BY <1>1, <1>2
    <2>2. \A o \in Occupied : \E m \in 0 .. n - 1 : A_(m) = o
        BY <1>2 DEF Passed
    <2> HIDE DEF p, q
    <2>3. \A o \in Occupied : \E m \in 0 .. n : A_(m) = o
        BY <2>2, <1>0
    <2> QED BY <2>1, <2>3, <1>0 DEF Passed, q
<1>3. CASE p # -1
    <2>1. p \in Occupied /\ p >= n /\ (\A o \in Occupied : o < p => \E m \in 0 .. n - 1 : A_(m) = o)
          /\ \A m \in 0 .. n - 1 : A_(m) \in Occupied /\ A_(m) < p
        BY <1>3 DEF Passed
    <2>2. FirstOf(q, {i \in Occupied : i > p})
        BY <1>1, <1>3, <2>1, AdvancedToNext, CellsOfTable
    <2>3. A_(n) = p
        OBVIOUS
    <2>9. A_(n + 1) = q
        OBVIOUS
    <2> HIDE DEF p, q
    <2>4. \A o \in Occupied : o <= p => \E m \in 0 .. n : A_(m) = o
        <3> TAKE o \in Occupied
        <3>1. CASE o = p
            BY <3>1, <2>3, <1>0
        <3>2. CASE o < p
            BY <3>2, <2>1, <1>0
        <3> QED BY <3>1, <3>2, <2>1, <1>0
    <2>5. CASE q = -1
        <3>1. \A o \in Occupied : o <= p
            BY <2>2, <2>5, <1>0, <2>1 DEF FirstOf
        <3>2. \A o \in Occupied : \E m \in 0 .. n : A_(m) = o
            BY <3>1, <2>4
        <3> QED BY <3>2, <2>5, <2>9, <1>0 DEF Passed
    <2>6. CASE q # -1
        <3>1. q \in Occupied /\ q > p /\ \A o \in Occupied : o > p => q <= o
            BY <2>2, <2>6 DEF FirstOf
        <3>2. q >= n + 1
            BY <3>1, <2>1, <1>0
        <3>3. \A o \in Occupied : o < q => \E m \in 0 .. n : A_(m) = o
            <4> TAKE o \in Occupied
            <4>1. o < q => o <= p
                BY <3>1, <1>0, <2>1
            <4> QED BY <4>1, <2>4
        <3>4. \A m \in 0 .. n : A_(m) \in Occupied /\ A_(m) < q
            <4> TAKE m \in 0 .. n
            <4>1. CASE m = n
                BY <4>1, <2>3, <2>1, <3>1
            <4>2. CASE m \in 0 .. n - 1
                <5>1. A_(m) \in Occupied /\ A_(m) < p
                    BY <4>2, <2>1
                <5>2. A_(m) \in Nat /\ p \in Nat /\ q \in Nat /\ q > p
                    BY <5>1, <3>1, <2>1, <1>0
                <5>3. A_(m) < q
                    BY ONLY <5>1, <5>2
                <5> QED BY <5>1, <5>3
            <4> QED BY <4>1, <4>2, <1>0
        <3> QED BY <3>1, <3>2, <3>3, <3>4, <2>6, <2>9, <1>0 DEF Passed
    <2> QED BY <2>5, <2>6
<1> QED BY <1>2, <1>3

LEMMA PassesAll ==
    ASSUME TableTyped, NEW n \in 0 .. config.capacity
    PROVE  Passed(n)
<1> DEFINE S == {m \in Nat : m <= config.capacity => Passed(m)}
<1>1. 0 \in S
    BY PassesFirst
<1>2. ASSUME NEW m \in S PROVE m + 1 \in S
    <2> SUFFICES ASSUME m + 1 <= config.capacity PROVE Passed(m + 1)
        OBVIOUS
    <2>1. m \in Nat /\ m <= config.capacity
        BY CellsOfTable
    <2>2. Passed(m)
        BY <2>1
    <2> QED BY <2>1, <2>2, PassesNext
<1>3. S \in SUBSET Nat
    OBVIOUS
<1> HIDE DEF S
<1>4. S = Nat
    BY <1>1, <1>2, <1>3, InductionOverSet
<1>5. n \in Nat /\ n <= config.capacity
    BY CellsOfTable
<1> QED BY <1>4, <1>5 DEF S

\* KeysAreFound, its last part.
IterationPassesAll ==
    LET passed == {i \in 0 .. config.capacity : Probing!Iteration[i] # Probing!None}
    IN  /\ {table[Probing!Iteration[i]] : i \in passed} = Probing!Range(table) \ {emptyKey}
        /\ Probing!Cardinality(passed) = Probing!Cardinality(Probing!Range(table) \ {emptyKey})

LEMMA Passes ==
    ASSUME TableTyped, KeysInCells
    PROVE  IterationPassesAll
<1> DEFINE N == config.capacity
           passed == {i \in 0 .. N : A_(i) # -1}
           V == Probing!Range(table) \ {emptyKey}
           f == [i \in passed |-> table[A_(i)]]
<1>1. \A i \in passed : i \in 0 .. N /\ A_(i) \in Occupied
    BY PassesAll DEF Passed
<1>2. V = {table[o] : o \in Occupied} /\ \A o \in Occupied : table[o] \in V
    BY CellsOfTable DEF Probing!Range, Occupied
<1>3. ASSUME NEW i \in passed, NEW j \in passed, i < j PROVE A_(i) < A_(j)
    <2>1. i \in 0 .. j - 1
        BY <1>3, CellsOfTable
    <2>2. Passed(j) /\ A_(j) # -1
        BY <1>1, PassesAll
    <2> QED BY <2>1, <2>2 DEF Passed
<1>4. ASSUME NEW o \in Occupied PROVE \E i \in passed : A_(i) = o
    <2>1. Passed(N)
        BY PassesAll, CellsOfTable
    <2>2. A_(N) = -1
        <3>1. ASSUME A_(N) # -1 PROVE FALSE
            <4>1. A_(N) \in Cells /\ A_(N) >= N
                BY <2>1, <3>1, CellsOfTable DEF Passed
            <4> QED BY <4>1, CellsOfTable DEF Cells
        <3> QED BY <3>1
    <2>3. PICK m \in 0 .. N - 1 : A_(m) = o
        BY <2>1, <2>2 DEF Passed
    <2>4. m \in 0 .. N /\ o # -1
        BY CellsOfTable
    <2> QED BY <2>3, <2>4
<1>5. \A o, p \in Occupied : table[o] = table[p] => o = p
    <2> SUFFICES ASSUME NEW o \in Occupied, NEW p \in Occupied, table[o] = table[p] PROVE o = p
        OBVIOUS
    <2>1. o \in Cells /\ p \in Cells /\ table[o] \in HashedKeys
        BY DEF Occupied, TableTyped
    <2> DEFINE k == table[o]
    <2>2. k \in HashedKeys /\ table[o] = k /\ table[p] = k
        BY <2>1
    <2> HIDE DEF k
    <2> QED BY <2>1, <2>2, KeysFound DEF AllFound
<1>6. f \in Bijection(passed, V)
    <2>1. f \in [passed -> V]
        BY <1>1, <1>2
    <2>2. \A i, j \in passed : f[i] = f[j] => i = j
        <3> SUFFICES ASSUME NEW i \in passed, NEW j \in passed, f[i] = f[j], i # j PROVE FALSE
            OBVIOUS
        <3>1. A_(i) = A_(j)
            BY <1>1, <1>5
        <3>2. i < j \/ j < i
            BY CellsOfTable
        <3>3. A_(i) < A_(j) \/ A_(j) < A_(i)
            BY <1>3, <3>2
        <3>4. A_(i) \in Nat /\ A_(j) \in Nat
            BY <1>1, CellsOfTable
        <3> QED BY <3>1, <3>3, <3>4
    <2>3. \A v \in V : \E i \in passed : f[i] = v
        <3> SUFFICES ASSUME NEW v \in V PROVE \E i \in passed : f[i] = v
            OBVIOUS
        <3>1. PICK o \in Occupied : v = table[o]
            BY <1>2
        <3>2. PICK i \in passed : A_(i) = o
            BY <1>4
        <3> QED BY <3>1, <3>2
    <2> HIDE DEF f, passed, V
    <2>5. f \in Injection(passed, V)
        BY <2>1, <2>2 DEF Injection, IsInjective
    <2>6. f \in Surjection(passed, V)
        BY <2>1, <2>3 DEF Surjection
    <2> QED BY <2>5, <2>6 DEF Bijection
<1>7. IsFiniteSet(passed)
    <2>1. passed \subseteq 0 .. N /\ 0 \in Int /\ N \in Int
        BY CellsOfTable
    <2>2. IsFiniteSet(0 .. N)
        BY <2>1, FS_Interval
    <2> HIDE DEF passed, N
    <2> QED BY <2>1, <2>2, FS_Subset
<1>8. Cardinality(passed) = Cardinality(V)
    <2> HIDE DEF passed, V, f
    <2>1. ExistsBijection(passed, V)
        BY <1>6 DEF ExistsBijection
    <2> QED BY <1>7, <2>1, FS_Bijection
<1>9. {table[A_(i)] : i \in passed} = V
    <2>1. \A i \in passed : table[A_(i)] \in V
        BY <1>1, <1>2
    <2>2. \A v \in V : \E i \in passed : table[A_(i)] = v
        BY <1>2, <1>4
    <2> HIDE DEF passed, V
    <2> QED BY <2>1, <2>2
<1>10. Probing!Cardinality(passed) = Cardinality(passed) /\ Probing!Cardinality(V) = Cardinality(V)
    <2> HIDE DEF passed, V
    <2> QED BY DEF Probing!Cardinality, Cardinality
<1>11. /\ passed = {i \in 0 .. config.capacity : Probing!Iteration[i] # Probing!None}
       /\ {table[A_(i)] : i \in passed} = {table[Probing!Iteration[i]] : i \in passed}
    BY DEF A_, Probing!None
<1> HIDE DEF passed, V
<1>12. /\ {table[Probing!Iteration[i]] : i \in passed} = V
       /\ Probing!Cardinality(passed) = Probing!Cardinality(V)
    BY <1>8, <1>9, <1>10, <1>11
<1> QED BY <1>11, <1>12 DEF IterationPassesAll, V

LEMMA TableFollows == TableInv => KeysAreFound
<1> SUFFICES ASSUME TableInv, which = "table" PROVE Probing!KeysAreFound
    BY DEF KeysAreFound
<1>1. TableTyped /\ KeysInCells /\ AnswerRight
    BY DEF TableInv
<1>2. \A i \in DOMAIN table : table[i] # emptyKey => Probing!findPos(table[i]) = i
    <2> SUFFICES ASSUME NEW i \in DOMAIN table, table[i] # emptyKey PROVE Probing!findPos(table[i]) = i
        OBVIOUS
    <2>1. i \in Cells /\ table[i] \in HashedKeys
        BY <1>1, CellsOfTable DEF TableTyped
    <2> QED BY <2>1, <1>1, KeysFound DEF AllFound
<1>3. answer # Probing!NoAnswer =>
          \/ answer.pos = Probing!findPos(answer.key)
          \/ /\ answer.pos = Probing!None
             /\ Probing!findPos(answer.key) = config.capacity
             /\ \A i \in {Probing!Probes(answer.key)[j] : j \in DOMAIN Probing!Probes(answer.key)} : table[i] # emptyKey
    <2>1. DOMAIN Probing!Probes(answer.key) = Looks
        BY DEF Probing!Probes, Looks
    <2> QED BY <1>1, <2>1 DEF AnswerRight, Probing!NoAnswer, Probing!None
<1>4. IterationPassesAll
    BY <1>1, Passes
<1> QED BY <1>2, <1>3, <1>4 DEF Probing!KeysAreFound, IterationPassesAll

LEMMA NextTable == TableInv /\ [SequentialNext]_allVars => TableInv'
<1> SUFFICES ASSUME TableInv, [SequentialNext]_allVars, which' = "table"
             PROVE  TableTyped' /\ KeysInCells' /\ AnswerRight'
    BY DEF TableInv
<1>1. CASE UNCHANGED allVars
    <2>1. UNCHANGED <<which, config, table, answer>>
        BY <1>1 DEF allVars
    <2>2. Cells' = Cells /\ Looks' = Looks /\ \A x : Probing!Probes(x)' = Probing!Probes(x)
        BY <2>1 DEF Cells, Looks, Probing!Probes, Probing!map
    <2>3. TableTyped' /\ KeysInCells'
        BY <2>1, <2>2 DEF TableInv, TableTyped, KeysInCells, StopsAt
    <2>4. AnswerRight'
        BY <2>1 DEF TableInv, AnswerRight, Looks, Probing!findPos, Probing!StopFor, Probing!Probes, Probing!map
    <2> QED BY <2>3, <2>4
<1>2. CASE SequentialNext
    <2>1. TableTyped /\ KeysInCells /\ Probing!ProbingNext
        BY <1>2, TableApart DEF TableInv
    <2>2. PICK k \in HashedKeys : Probing!Insert(k)
        BY <2>1 DEF Probing!ProbingNext
    <2> QED BY <2>1, <2>2, InsertKey
<1> QED BY <1>1, <1>2

\* KeysAreFound: a key is found in the cell that holds it, insert() returns that cell or the
\* end when all the cells it may look at are taken, and an iteration passes every key once.
THEOREM KeysStayFound == SequentialSpec => []KeysAreFound
<1> QED BY InitTable, NextTable, TableFollows, PTL DEF SequentialSpec
=============================================================================

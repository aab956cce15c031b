------------------------------ MODULE PriQueue ------------------------------
(***************************************************************************)
(* The d-ary heaps of exercise1/pq: PriQueueA, PriQueueB and PriQueueC hold*)
(* elements only, PriQueueD also keeps, for the handle of every element    *)
(* ever pushed, its position.  An element is a value, which is compared,   *)
(* and a handle, which in A, B and C stands for the part of an element     *)
(* that the comparison does not look at.                                   *)
(***************************************************************************)
EXTENDS Integers, Sequences, SequencesExt

CONSTANTS Values, MaxSize, Heaps
Handles == 1 .. MaxSize
Gone == -1              \* std::numeric_limits<std::size_t>::max()

VARIABLES
    heap,               \* which class, and its degree: [variant |-> .., degree |-> ..]
    pq                  \* [elements |-> m_elements, positions |-> m_positions]

pqVars == <<heap, pq>>

m_comp(x, y) == x < y
size(q) == Len(q.elements)
At(q, i) == q.elements[i + 1]
child(i, j) == i * heap.degree + j + 1
parent(i) == (i - 1) \div heap.degree
\* Mutant: the bound of the loop over the children is taken as its last child.
ChildrenButLast(q, i) == child(i, 0) .. Min({child(i, heap.degree - 2), size(q) - 1})
Children(q, i) == child(i, 0) .. Min({child(i, heap.degree - 1), size(q) - 1})

\* pos(h) = p, which only PriQueueD has.
SetPos(q, h, p) == IF heap.variant = "D" THEN [q EXCEPT !.positions[h] = p] ELSE q
Pos(q, h) == IF heap.variant = "D" THEN q.positions[h] ELSE Gone

\* Mutant: the elements are swapped and their positions are not.
SwappedElements(q, i, j) ==
    [q EXCEPT !.elements[i + 1] = At(q, j), !.elements[j + 1] = At(q, i)]

\* The positions are swapped as they are stored, before the elements are.
Swapped(q, i, j) ==
    LET g == At(q, i).h
        h == At(q, j).h
        moved == SetPos(SetPos(q, g, Pos(q, h)), h, Pos(q, g))
    IN  [moved EXCEPT !.elements[i + 1] = At(q, j), !.elements[j + 1] = At(q, i)]

\* Every iteration of a loop moves to another level, so that there are fewer than elements.
fix_upwards(q, i) ==
    LET after[k \in 0 .. size(q)] ==
            IF k = 0 THEN [q |-> q, i |-> i]
            ELSE LET r == after[k - 1]
                     above == parent(r.i)
                 IN  IF r.i > 0 /\ m_comp(At(r.q, above).e, At(r.q, r.i).e)
                     THEN [q |-> Swapped(r.q, r.i, above), i |-> above]
                     ELSE r
    IN  after[size(q)].q

\* The first largest of a node and its children.
max_idx(q, i) ==
    LET family == {i} \cup Children(q, i)
    IN  Min({k \in family : \A l \in family : ~m_comp(At(q, k).e, At(q, l).e)})

\* PriQueueB stops after the first node that does not have all its children.
fix_downwards(q, i) ==
    LET after[n \in 0 .. size(q)] ==
            IF n = 0 THEN [q |-> q, i |-> i, ends |-> FALSE]
            ELSE LET r == after[n - 1]
                     k == max_idx(r.q, r.i)
                 IN  IF r.ends \/ k = r.i THEN r
                     ELSE [q |-> Swapped(r.q, r.i, k), i |-> k,
                           ends |-> heap.variant = "B" /\ child(r.i, heap.degree - 1) >= size(r.q)]
    IN  after[size(q)].q

EmptyHeap == [elements |-> <<>>, positions |-> <<>>]

PQInit == heap \in Heaps /\ pq = EmptyHeap

\* A new handle: D never uses one twice.
HandleFor(q) ==
    IF heap.variant = "D" THEN Len(q.positions) + 1
    ELSE Min(Handles \ {q.elements[i].h : i \in 1 .. size(q)})

\* push(value), up to MaxSize elements (in D, up to MaxSize in all).
Push(v) ==
    /\ size(pq) < MaxSize /\ Len(pq.positions) < MaxSize
    /\ LET h == HandleFor(pq)
           pushed == [elements |-> Append(pq.elements, [e |-> v, h |-> h]),
                      positions |-> IF heap.variant = "D" THEN Append(pq.positions, size(pq))
                                                          ELSE <<>>]
       IN  pq' = fix_upwards(pushed, size(pq))
    /\ UNCHANGED heap

\* The last element comes first and the queue gets shorter.
LastToFront(q) ==
    LET gone == SetPos(q, At(q, 0).h, Gone)
        back == Last(q.elements)
        moved == SetPos([gone EXCEPT !.elements[1] = back], back.h, 0)
    IN  [moved EXCEPT !.elements = Front(moved.elements)]

Pop ==
    /\ size(pq) > 0
    /\ LET shorter == LastToFront(pq)
       IN  pq' = IF size(shorter) = 0 THEN shorter ELSE fix_downwards(shorter, 0)
    /\ UNCHANGED heap

\* change_key(h, newvalue), for a handle that is in the queue.
ChangeKey(h, v) ==
    /\ heap.variant = "D"
    /\ \E i \in 1 .. size(pq) : pq.elements[i].h = h
    /\ LET i == pq.positions[h]
           changed == [pq EXCEPT !.elements[i + 1].e = v]
       IN  pq' = IF m_comp(At(pq, i).e, v) THEN fix_upwards(changed, i)
                                           ELSE fix_downwards(changed, i)
    /\ UNCHANGED heap

\* Another queue is constructed once this one is empty: D's handles start again.
Construct == size(pq) = 0 /\ pq' = EmptyHeap /\ UNCHANGED heap

PQNext ==
    \/ \E v \in Values : Push(v)
    \/ Pop
    \/ Construct
    \/ \E h \in Handles, v \in Values : ChangeKey(h, v)

-----------------------------------------------------------------------------
\* Heap order, and in D the position of each element's handle: is_valid() and the
\* assertions of fix_upwards and fix_downwards.
InHeapOrder ==
    /\ \A i \in 1 .. size(pq) - 1 : ~m_comp(At(pq, parent(i)).e, At(pq, i).e)
    /\ heap.variant = "D" => \A i \in 0 .. size(pq) - 1 : pq.positions[At(pq, i).h] = i

Content ==
    [h \in {pq.elements[i].h : i \in 1 .. size(pq)} |->
        (CHOOSE x \in Range(pq.elements) : x.h = h).e]
=============================================================================

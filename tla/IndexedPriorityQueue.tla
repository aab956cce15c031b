------------------------ MODULE IndexedPriorityQueue ------------------------
(***************************************************************************)
(* The queue of Dijkstra's algorithm (indexed_priority_queue.hpp): a binary*)
(* heap of keys with values, from position 1, and the position of each key,*)
(* 0 for a key that is not in the queue.  Elements are moved into a hole.  *)
(***************************************************************************)
EXTENDS Integers, Sequences, SequencesExt

CONSTANTS Keys, PriorityValues
CONSTANT comp_(_, _)
CONSTANT Lowers         \* whether changePriority() is called with a lower value

VARIABLE queue          \* [heap |-> heap_ from position 1, index |-> index_]

EmptyQueue == [heap |-> <<>>, index |-> [k \in Keys |-> 0]]

Placed(q, i, pair) == [heap |-> [q.heap EXCEPT ![i] = pair], index |-> [q.index EXCEPT ![pair.key] = i]]

\* Every iteration of a loop moves the hole to another level.
siftUp(q, i, pair) ==
    LET after[k \in 0 .. Len(q.heap)] ==
            IF k = 0 THEN [q |-> q, i |-> i]
            ELSE LET r == after[k - 1]
                     above == r.i \div 2
                 IN  IF above > 0 /\ comp_(r.q.heap[above].value, pair.value)
                     THEN [q |-> Placed(r.q, r.i, r.q.heap[above]), i |-> above]
                     ELSE r
    IN  Placed(after[Len(q.heap)].q, after[Len(q.heap)].i, pair)

\* `end` is the position of the last element.  The loop looks at nodes with two
\* children only: it is written for pop(), where the last element is the one that moves.
siftDown(q, i, pair) ==
    LET end == Len(q.heap)
        larger(r) == IF comp_(r.q.heap[2 * r.i].value, r.q.heap[2 * r.i + 1].value) THEN 2 * r.i + 1 ELSE 2 * r.i
        after[k \in 0 .. end] ==
            IF k = 0 THEN [q |-> q, i |-> i]
            ELSE LET r == after[k - 1]
                 IN  IF 2 * r.i < end /\ comp_(pair.value, r.q.heap[larger(r)].value)
                     THEN [q |-> Placed(r.q, r.i, r.q.heap[larger(r)]), i |-> larger(r)]
                     ELSE r
    IN  Placed(after[end].q, after[end].i, pair)

hasKey(q, key) == q.index[key] # 0
priority(q, key) == q.heap[q.index[key]].value
Pair(key, value) == [key |-> key, value |-> value]

Pushed(q, key, value) ==
    siftUp([q EXCEPT !.heap = Append(@, Pair(key, value))], Len(q.heap) + 1, Pair(key, value))

Changed(q, key, value) ==
    IF comp_(value, priority(q, key)) THEN siftDown(q, q.index[key], Pair(key, value))
                                      ELSE siftUp(q, q.index[key], Pair(key, value))

PushedOrChanged(q, key, value) ==
    IF hasKey(q, key) THEN Changed(q, key, value) ELSE Pushed(q, key, value)

Popped(q) ==
    LET down == siftDown(q, 1, Last(q.heap))
    IN  [heap |-> Front(down.heap), index |-> [down.index EXCEPT ![Head(q.heap).key] = 0]]

-----------------------------------------------------------------------------
(* The queue by itself, with keys pushed once at a time, as its comments   *)
(* ask for.                                                                *)

IPQInit == queue = EmptyQueue

PushKey(key, value) == ~hasKey(queue, key) /\ queue' = Pushed(queue, key, value)

ChangePriority(key, value) ==
    /\ hasKey(queue, key)
    /\ Lowers \/ ~comp_(value, priority(queue, key))
    /\ queue' = Changed(queue, key, value)

PopTop == queue.heap # <<>> /\ queue' = Popped(queue)

ClearQueue == queue' = EmptyQueue

IPQNext ==
    \/ \E key \in Keys, value \in PriorityValues : PushKey(key, value) \/ ChangePriority(key, value)
    \/ PopTop
    \/ ClearQueue

-----------------------------------------------------------------------------
\* Heap order, and the positions of the keys.
QueueInOrder ==
    /\ \A i \in 2 .. Len(queue.heap) : ~comp_(queue.heap[i \div 2].value, queue.heap[i].value)
    /\ \A i \in 1 .. Len(queue.heap) : queue.index[queue.heap[i].key] = i
    /\ \A key \in Keys : hasKey(queue, key) => queue.index[key] <= Len(queue.heap)

QueueContent ==
    [key \in {p.key : p \in Range(queue.heap)} |-> (CHOOSE p \in Range(queue.heap) : p.key = key).value]

\* top() is the largest element in the queue (indexed_priority_queue.hpp:15).
TopIsLargest == \A i \in 2 .. Len(queue.heap) : ~comp_(queue.heap[1].value, queue.heap[i].value)
=============================================================================

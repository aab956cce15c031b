---------------------------- MODULE BoundedFIFO ----------------------------
(***************************************************************************)
(* What a bounded concurrent queue promises: the elements that are visible *)
(* to consumers form a sequence that is extended at its end by one pushed  *)
(* element at a time, shortened at its front by one element at a time, and *)
(* never longer than the capacity the queue was constructed with.  Clear   *)
(* is reset(), which the programs call between two runs of a solver.       *)
(***************************************************************************)
EXTENDS Naturals, Sequences

CONSTANTS Items          (* what can be pushed                              *)

VARIABLES queue,         (* the visible elements, oldest first              *)
          capacity       (* chosen when the queue is constructed            *)

fifoVars == <<queue, capacity>>

FifoInit == queue = <<>> /\ capacity \in Nat

Enqueue(e) ==
    /\ Len(queue) < capacity
    /\ queue' = Append(queue, e)
    /\ UNCHANGED capacity

Dequeue ==
    /\ queue # <<>>
    /\ queue' = Tail(queue)
    /\ UNCHANGED capacity

Clear == queue' = <<>> /\ UNCHANGED capacity

FifoNext == (\E e \in Items : Enqueue(e)) \/ Dequeue \/ Clear

FifoSpec == FifoInit /\ [][FifoNext]_fifoVars
=============================================================================

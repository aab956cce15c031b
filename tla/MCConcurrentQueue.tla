------------------------- MODULE MCConcurrentQueue -------------------------
(* Model values and bounds for ConcurrentQueue.  Three threads and three    *)
(* tickets: with two slots the third ticket wraps around onto slot 0.       *)
EXTENDS ConcurrentQueue, TLC

CONSTANTS t1, t2, t3, a, b, empty

ThreeThreads == {t1, t2, t3}
TwoThreads == {t1, t2}
TwoItems == {a, b}
OneItem == {a}
ZeroToTwoSlots == 0 .. 2

ThreadsAndItemsAlike == Permutations(ThreeThreads) \cup Permutations(TwoItems)
=============================================================================

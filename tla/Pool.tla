-------------------------------- MODULE Pool --------------------------------
(***************************************************************************)
(* What ConcurrentContainer promises: a bag with a bound.  A thread that   *)
(* looks for room or for an element may miss what others put and take in   *)
(* the meantime; if nobody does, it fails only when there is none.         *)
(***************************************************************************)
EXTENDS Naturals, Bags

CONSTANTS Threads, Items

VARIABLES capacity, content,
    undisturbed         \* <<thread, what it looks for>>, if nothing has changed since it began

poolVars == <<capacity, content, undisturbed>>

PoolInit == content = EmptyBag /\ undisturbed = {}

Look(t, what) == undisturbed' = undisturbed \cup {<<t, what>>} /\ UNCHANGED <<capacity, content>>

Put(e) ==
    /\ BagCardinality(content) < capacity
    /\ content' = content (+) SetToBag({e})
    /\ undisturbed' = {}
    /\ UNCHANGED capacity

Take(e) ==
    /\ BagIn(e, content)
    /\ content' = content (-) SetToBag({e})
    /\ undisturbed' = {}
    /\ UNCHANGED capacity

\* A thread gives up looking.
GiveUp(t, what) ==
    /\ <<t, what>> \in undisturbed =>
        IF what = "room" THEN BagCardinality(content) = capacity ELSE content = EmptyBag
    /\ undisturbed' = undisturbed \ {<<t, what>>}
    /\ UNCHANGED <<capacity, content>>

PoolNext ==
    \/ \E t \in Threads, what \in {"room", "item"} : Look(t, what) \/ GiveUp(t, what)
    \/ \E e \in Items : Put(e) \/ Take(e)

PoolSpec == PoolInit /\ [][PoolNext]_poolVars
=============================================================================

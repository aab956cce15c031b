---------------------------- MODULE OrderedWork ----------------------------
(***************************************************************************)
(* What a solver of a task graph promises: every node is worked on once,   *)
(* after all its parents, and solve() returns when all of them are done.   *)
(***************************************************************************)
VARIABLES parents,       (* the graph: the set of parents of each node      *)
          worked,        (* the nodes that have been worked on              *)
          solving        (* TRUE from the call of solve() to its return     *)

Tasks == DOMAIN parents

workVars == <<parents, worked, solving>>

WorkInit == worked = {} /\ solving = FALSE

Begin == ~solving /\ worked = {} /\ solving' = TRUE /\ UNCHANGED <<parents, worked>>

WorkOn(v) ==
    /\ solving
    /\ v \notin worked
    /\ parents[v] \subseteq worked
    /\ worked' = worked \cup {v}
    /\ UNCHANGED <<parents, solving>>

End == solving /\ worked = Tasks /\ solving' = FALSE /\ UNCHANGED <<parents, worked>>

StartOver == ~solving /\ worked' = {} /\ UNCHANGED <<parents, solving>>

WorkNext == Begin \/ End \/ StartOver \/ \E v \in Tasks : WorkOn(v)

WorkSpec == WorkInit /\ [][WorkNext]_workVars
=============================================================================

--------------------------- MODULE SpanningForest --------------------------
(***************************************************************************)
(* What DynamicConnectivity::unite promises, whichever implementation it   *)
(* is: the accepted edges form a spanning forest of all the edges seen,    *)
(* and an edge is rejected only if it closes a cycle at that moment.       *)
(***************************************************************************)
CONSTANTS Nodes

VARIABLES classes,       (* the partition of the nodes into components      *)
          accepted,      (* the edges for which unite returned true         *)
          rejected       (* the edges for which unite returned false        *)

forestVars == <<classes, accepted, rejected>>

ForestInit ==
    /\ classes = {{v} : v \in Nodes}
    /\ accepted = {} /\ rejected = {}

Accept(e) ==
    /\ \E A, B \in classes :
        /\ A # B /\ e[1] \in A /\ e[2] \in B
        /\ classes' = (classes \ {A, B}) \cup {A \cup B}
    /\ accepted' = accepted \cup {e}
    /\ UNCHANGED rejected

Reject(e) ==
    /\ \E A \in classes : e[1] \in A /\ e[2] \in A
    /\ rejected' = rejected \cup {e}
    /\ UNCHANGED <<classes, accepted>>

ForestNext == \E e \in Nodes \X Nodes : Accept(e) \/ Reject(e)

ForestSpec == ForestInit /\ [][ForestNext]_forestVars
=============================================================================

------------------------ MODULE TreeSolverSequential ------------------------
(***************************************************************************)
(* TreeSolverSequential of exercise4/implementation/                       *)
(* tree_solver_sequential.hpp, which the other two are measured against:   *)
(* one thread and a stack of nodes.                                        *)
(***************************************************************************)
EXTENDS TreeTask, SequencesExt

VARIABLES task_queue, solving

sequentialVars == <<treeVars, task_queue, solving>>

Init == TreeInit /\ task_queue = <<>> /\ solving = FALSE

Solve ==
    /\ ~solving /\ \A v \in Nodes : ~done[v]
    /\ solving' = TRUE
    /\ task_queue' = <<0>>
    /\ UNCHANGED treeVars

\* work() on the last node of the stack, and the push of its children.
WorkOnLast ==
    /\ solving /\ task_queue # <<>>
    /\ LET v == Last(task_queue)
       IN  /\ thrown' = (done[v] \/ \E p \in parent(v) : ~done[p])
           /\ done' = [done EXCEPT ![v] = TRUE]
           /\ task_queue' = Front(task_queue) \o edges[v]
    /\ UNCHANGED <<crew, edges, solving>>

Return ==
    /\ solving /\ task_queue = <<>>
    /\ solving' = FALSE
    /\ UNCHANGED <<treeVars, task_queue>>

Reset == ~solving /\ TreeReset /\ UNCHANGED <<task_queue, solving>>

Next == ~thrown /\ (Solve \/ WorkOnLast \/ Return \/ Reset)

-----------------------------------------------------------------------------
\* The stack holds each node once, and none of its nodes is done.
TypeOK ==
    /\ task_queue \in Seq(Nodes) /\ IsInjective(task_queue)
    /\ \A i \in DOMAIN task_queue : ~done[task_queue[i]]
    /\ done \in [Nodes -> BOOLEAN] /\ thrown \in BOOLEAN /\ solving \in BOOLEAN
=============================================================================

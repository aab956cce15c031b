----------------------------- MODULE TreeTask -----------------------------
(***************************************************************************)
(* The tree of exercise4/implementation/tree.hpp that the tree solvers     *)
(* work on, with the checks of TreeTask::work.  The nodes are 0 .. n - 1   *)
(* and 0 is the root; a solver puts v + 1 into its queue for the node v.   *)
(***************************************************************************)
EXTENDS TaskFiles, MutexStdQueue

CONSTANTS
    Threads,        (* the threads there are                               *)
    Settings,       (* what may be solved: records of a tree, a function   *)
                    (* from its nodes to the sequences of their children,  *)
                    (* and the set of the solver's threads                 *)
    done_task       (* the largest NodeId                                  *)

\* The nodes are 0 .. n - 1, and no number a solver queues is done_task.
FewNodes(e) == \E n \in 1 .. done_task - 1 : DOMAIN e = 0 .. n - 1

ASSUME TreeAssumption ==
    /\ done_task \in Nat
    /\ \A s \in Settings : /\ FewNodes(s.tree) /\ IsTree(s.tree)
                           /\ s.crew \subseteq Threads
                           /\ s.crew # {} /\ IsFiniteSet(s.crew)

VARIABLES
    crew,           (* the threads of the solver, m_num_threads of them    *)
    edges,          (* the tree that was read from the task file           *)
    done,           (* TreeTask::done                                      *)
    thrown          (* TreeTask::work has thrown an exception              *)

treeVars == <<crew, edges, done, thrown>>

Nodes == DOMAIN edges
size == Cardinality(Nodes)

TreeInit ==
    /\ \E s \in Settings : crew = s.crew /\ edges = s.tree
    /\ done = [v \in Nodes |-> FALSE]
    /\ thrown = FALSE

parent(v) == {u \in Nodes : v \in Children(edges, u)}

\* work(id): the checks at its beginning and the store at its end.
WorkChecks(v) ==
    /\ thrown' = (done[v] \/ \E p \in parent(v) : ~done[p])
    /\ UNCHANGED <<crew, edges, done>>

WorkStore(v) == done' = [done EXCEPT ![v] = TRUE] /\ UNCHANGED <<crew, edges, thrown>>

TreeReset == done' = [v \in Nodes |-> FALSE] /\ UNCHANGED <<crew, edges, thrown>>
=============================================================================

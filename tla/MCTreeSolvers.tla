--------------------------- MODULE MCTreeSolvers ---------------------------
(***************************************************************************)
(* The tree solvers on the same trees: `solver` tells which of the three   *)
(* solve() functions a behaviour runs.                                     *)
(***************************************************************************)
EXTENDS TreeTask, TLC

CONSTANTS t1, t2, t3, t4, t5

VARIABLES num_work_left, pc, current, out,
          solving,                                       \* TreeSolverNaive
          num_elements_in_queues, phase, m_local_queues, \* TreeSolver
          task_queue,                                    \* TreeSolverSequential
          solver

Naive == INSTANCE TreeSolverNaive
Local == INSTANCE TreeSolver
Sequential == INSTANCE TreeSolverSequential

NoWorkers == num_work_left = 0 /\ pc = <<>> /\ current = <<>> /\ out = <<>>
NoLocalQueues == num_elements_in_queues = 0 /\ phase = "idle" /\ m_local_queues = <<>>

Init ==
    \/ solver = "naive" /\ Naive!Init /\ NoLocalQueues /\ task_queue = <<>>
    \/ solver = "local" /\ Local!Init /\ solving = FALSE /\ task_queue = <<>>
    \/ solver = "sequential" /\ Sequential!Init /\ QueueInit /\ NoWorkers /\ NoLocalQueues

Next ==
    \/ solver = "naive" /\ Naive!Next
       /\ UNCHANGED <<num_elements_in_queues, phase, m_local_queues, task_queue, solver>>
    \/ solver = "local" /\ Local!Next /\ UNCHANGED <<solving, task_queue, solver>>
    \/ solver = "sequential" /\ Sequential!Next
       /\ UNCHANGED <<queueVars, num_work_left, pc, current, out,
                      num_elements_in_queues, phase, m_local_queues, solver>>

vars == <<Local!vars, solving, task_queue, solver>>

Spec == Init /\ [][Next]_vars

-----------------------------------------------------------------------------
FiveThreads == {t1, t2, t3, t4, t5}
ThreadsAlike == Permutations(Threads)
CrewsOf(n) == {c \in SUBSET Threads : Cardinality(c) = n}

Chain == (0 :> <<1>>) @@ (1 :> <<2>>) @@ (2 :> <<>>)
Fork == (0 :> <<1, 2>>) @@ (1 :> <<>>) @@ (2 :> <<>>)
Broom == (0 :> <<1, 2>>) @@ (1 :> <<>>) @@ (2 :> <<3>>) @@ (3 :> <<>>)
Star == [v \in 0 .. 8 |-> IF v = 0 THEN [i \in 1 .. 8 |-> i] ELSE <<>>]

\* More threads than nodes; fewer; and a star so wide that an own queue overflows.
FewNodesManyNodes ==
    [tree : {Chain, Fork}, crew : CrewsOf(4)]
    \cup [tree : {Broom}, crew : {c \in SUBSET Threads : Cardinality(c) \in {1, 2, 5}}]
    \cup [tree : {Star}, crew : CrewsOf(2)]

-----------------------------------------------------------------------------
\* The type invariant of the solver that runs.
TypeOK ==
    CASE solver = "naive" -> Naive!TypeOK
      [] solver = "local" -> Local!TypeOK
      [] OTHER -> Sequential!TypeOK

\* No call of work() by a worker throws, whichever solver runs (tree.hpp:65-67).
WorkersNeverThrow == IF solver = "local" THEN Local!WorkersNeverThrow ELSE ~thrown

\* A waiting worker is never the last one: no notification and no done_task is missed.
NobodySleepsForever ==
    CASE solver = "naive" -> Naive!NobodySleepsForever
      [] solver = "local" -> Local!NobodySleepsForever
      [] OTHER -> waiting = {}

\* TreeSolver's estimate of the queued elements is off only by what is in flight, and
\* nothing is left in the own queues when the workers return.
LocalQueuesAccountedFor ==
    solver = "local" => Local!EstimateCountsNodes /\ Local!OwnQueuesLeftEmpty

Work == INSTANCE OrderedWork WITH
    parents <- [v \in Nodes |-> parent(v)],
    worked <- {v \in Nodes : done[v]},
    solving <- IF solver = "local" THEN phase # "idle" ELSE solving

\* All solvers work on each node once, after its parent, and return only when all
\* nodes are done, be it after the loop "to be absolutely sure" (tree_solver.hpp:180).
ImplementsOrderedWork == Work!WorkSpec

\* work() never throws at all, as the same loop of TreeSolver takes for granted.
WorkNeverThrows == ~thrown
=============================================================================

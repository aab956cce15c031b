----------------------------- MODULE DAGSolver -----------------------------
(***************************************************************************)
(* DAGSolver::solve() of exercise4/implementation/dag_solver.hpp, the      *)
(* graph it works on (dag.hpp) and the MutexStdQueue it uses.              *)
(*                                                                         *)
(* A worker pops a node, puts it back if a parent is not done, works on it *)
(* otherwise, and pushes those children that no other parent has pushed.   *)
(* The worker that finishes the last node pushes one done_task for every   *)
(* thread.  A node v is pushed as v + 1 and decremented after the pop, so  *)
(* that no element is 0; the model pushes v itself.                        *)
(***************************************************************************)
EXTENDS MutexStdQueue, TaskFiles

CONSTANTS
    Threads,        (* the worker threads, m_num_threads of them           *)
    Nodes,          (* the nodes of the graph                              *)
    start_node,     (* node 0                                              *)
    done_task,      (* the largest NodeId, which is no node                *)
    Graphs          (* the task graphs: functions from a node to its set of *)
                    (* children                                            *)

ASSUME GraphAssumption ==
    /\ IsFiniteSet(Nodes) /\ IsFiniteSet(Threads) /\ Threads # {}
    /\ start_node \in Nodes
    /\ done_task \notin Nodes
    /\ Graphs \subseteq [Nodes -> SUBSET Nodes]
    /\ \A g \in Graphs : IsTaskGraph(g, start_node)

VARIABLES
    outgoing,       (* the graph that was read from the task file          *)
    dag_done,       (* DAGTask::done                                       *)
    m_state,        (* DAGSolver::m_state                                  *)
    num_work_left,
    solving,        (* TRUE from the start of the threads to their join    *)
    thrown,         (* DAGTask::work has thrown: the program is terminated *)
    pc, current,
    todo,           (* the children a worker has not looked at yet         *)
    out             (* what a worker has still to push                     *)

dagVars == <<outgoing, dag_done, m_state, num_work_left, solving, thrown>>
local == <<pc, current, todo, out>>
vars == <<queueVars, dagVars, local>>

incoming(v) == {u \in Nodes : v \in outgoing[u]}

Init ==
    /\ QueueInit
    /\ outgoing \in Graphs
    /\ dag_done = [v \in Nodes |-> FALSE]
    /\ m_state = [v \in Nodes |-> "initial"]
    /\ num_work_left = 0
    /\ solving = FALSE
    /\ thrown = FALSE
    /\ pc = [t \in Threads |-> "joined"]
    /\ current = [t \in Threads |-> start_node]
    /\ todo = [t \in Threads |-> {}]
    /\ out = [t \in Threads |-> <<>>]

\* Mutant: the start node is counted as done when it is pushed.
SolveCountsOneLess ==
    /\ ~solving
    /\ \A v \in Nodes : ~dag_done[v]
    /\ solving' = TRUE
    /\ num_work_left' = Cardinality(Nodes) - 1
    /\ PushElement(start_node)
    /\ m_state' = [m_state EXCEPT ![start_node] = "in_queue"]
    /\ pc' = [t \in Threads |-> "pop"]
    /\ UNCHANGED <<outgoing, dag_done, thrown, current, todo, out>>

\* The part of solve() before the threads run.  It is called with a task that is new or
\* was reset; the queue and the states are what the last run and reset() have left.
Solve ==
    /\ ~solving
    /\ \A v \in Nodes : ~dag_done[v]
    /\ solving' = TRUE
    /\ num_work_left' = Cardinality(Nodes)
    /\ PushElement(start_node)
    /\ m_state' = [m_state EXCEPT ![start_node] = "in_queue"]
    /\ pc' = [t \in Threads |-> "pop"]
    /\ UNCHANGED <<outgoing, dag_done, thrown, current, todo, out>>

-----------------------------------------------------------------------------
(* The worker.                                                             *)

Goto(t, from, to) == pc[t] = from /\ pc' = [pc EXCEPT ![t] = to]

PopNode(t) ==
    /\ m_queue # <<>> /\ Head(m_queue) # done_task
    /\ Goto(t, "pop", "check")
    /\ PopElement(t)
    /\ current' = [current EXCEPT ![t] = Head(m_queue)]
    /\ UNCHANGED <<dagVars, todo, out>>

PopDoneTask(t) ==
    /\ m_queue # <<>> /\ Head(m_queue) = done_task
    /\ Goto(t, "pop", "returned")
    /\ PopElement(t)
    /\ UNCHANGED <<dagVars, current, todo, out>>

Wait(t) == pc[t] = "pop" /\ WaitForElement(t) /\ UNCHANGED <<dagVars, local>>

Wake(t) == WakeSpuriously(t) /\ UNCHANGED <<dagVars, local>>

\* Mutant: a node is ready as soon as one of its parents is done.
SomeParentDone(t) ==
    /\ incoming(current[t]) = {} \/ \E p \in incoming(current[t]) : m_state[p] = "done"
    /\ Goto(t, "check", "work")
    /\ m_state' = [m_state EXCEPT ![current[t]] = "in_progress"]
    /\ UNCHANGED <<queueVars, outgoing, dag_done, num_work_left, solving, thrown, current, todo, out>>

\* all_of reads the parents one by one; `done` is final, so the answer is that of
\* the last read.  Nobody but the owner tells in_progress from in_queue.
AllParentsDone(t) ==
    /\ \A p \in incoming(current[t]) : m_state[p] = "done"
    /\ Goto(t, "check", "work")
    /\ m_state' = [m_state EXCEPT ![current[t]] = "in_progress"]
    /\ UNCHANGED <<queueVars, outgoing, dag_done, num_work_left, solving, thrown, current, todo, out>>

PutBack(t) ==
    /\ \E p \in incoming(current[t]) : m_state[p] # "done"
    /\ Goto(t, "check", "push")
    /\ out' = [out EXCEPT ![t] = <<current[t]>>]
    /\ UNCHANGED <<queueVars, dagVars, current, todo>>

\* DAGTask::work: the checks, and then the work itself.
WorkBegin(t) ==
    /\ Goto(t, "work", "working")
    /\ thrown' = (dag_done[current[t]] \/ \E p \in incoming(current[t]) : ~dag_done[p])
    /\ UNCHANGED <<queueVars, outgoing, dag_done, m_state, num_work_left, solving, current, todo, out>>

WorkEnd(t) ==
    /\ Goto(t, "working", "mark")
    /\ dag_done' = [dag_done EXCEPT ![current[t]] = TRUE]
    /\ UNCHANGED <<queueVars, outgoing, m_state, num_work_left, solving, thrown, current, todo, out>>

MarkDone(t) ==
    /\ Goto(t, "mark", "count")
    /\ m_state' = [m_state EXCEPT ![current[t]] = "done"]
    /\ UNCHANGED <<queueVars, outgoing, dag_done, num_work_left, solving, thrown, current, todo, out>>

\* Mutant: fetch_sub returns the old value, taken for the new one here.
CountDownOneEarly(t) ==
    /\ Goto(t, "count", IF num_work_left <= 2 THEN "push" ELSE "children")
    /\ num_work_left' = num_work_left - 1
    /\ out' = [out EXCEPT ![t] =
                IF num_work_left <= 2 THEN [i \in 1 .. Cardinality(Threads) |-> done_task] ELSE <<>>]
    /\ todo' = [todo EXCEPT ![t] = outgoing[current[t]]]
    /\ UNCHANGED <<queueVars, outgoing, dag_done, m_state, solving, thrown, current>>

\* num_work_left.fetch_sub(1) and, for the last node, the done_tasks.
CountDown(t) ==
    /\ Goto(t, "count", IF num_work_left <= 1 THEN "push" ELSE "children")
    /\ num_work_left' = num_work_left - 1
    /\ out' = [out EXCEPT ![t] =
                IF num_work_left <= 1 THEN [i \in 1 .. Cardinality(Threads) |-> done_task] ELSE <<>>]
    /\ todo' = [todo EXCEPT ![t] = outgoing[current[t]]]
    /\ UNCHANGED <<queueVars, outgoing, dag_done, m_state, solving, thrown, current>>

\* Mutant: the child is claimed with a load and a store instead of a CAS.
ClaimChildUnchecked(t) ==
    /\ Goto(t, "children", "push")
    /\ \E child \in todo[t] :
        /\ m_state[child] \in {"initial", "in_queue"}
        /\ m_state' = [m_state EXCEPT ![child] = "in_queue"]
        /\ out' = [out EXCEPT ![t] = <<child>>]
        /\ todo' = [todo EXCEPT ![t] = @ \ {child}]
    /\ UNCHANGED <<queueVars, outgoing, dag_done, num_work_left, solving, thrown, current>>

\* The CAS on a child succeeds: this parent is the one that pushes it.
ClaimChild(t) ==
    /\ Goto(t, "children", "push")
    /\ \E child \in todo[t] :
        /\ m_state[child] = "initial"
        /\ m_state' = [m_state EXCEPT ![child] = "in_queue"]
        /\ out' = [out EXCEPT ![t] = <<child>>]
        /\ todo' = [todo EXCEPT ![t] = @ \ {child}]
    /\ UNCHANGED <<queueVars, outgoing, dag_done, num_work_left, solving, thrown, current>>

SkipChild(t) ==
    /\ pc[t] = "children"
    /\ \E child \in todo[t] :
        /\ m_state[child] # "initial"
        /\ todo' = [todo EXCEPT ![t] = @ \ {child}]
    /\ UNCHANGED <<queueVars, dagVars, pc, current, out>>

NoMoreChildren(t) ==
    /\ todo[t] = {}
    /\ Goto(t, "children", "pop")
    /\ UNCHANGED <<queueVars, dagVars, current, todo, out>>

Push(t) ==
    /\ Goto(t, "push", "notify")
    /\ PushElement(Head(out[t]))
    /\ out' = [out EXCEPT ![t] = Tail(@)]
    /\ UNCHANGED <<dagVars, current, todo>>

\* Mutant: a push notifies only if the queue was empty before it.
NotifyIfWasEmpty(t) ==
    /\ Goto(t, "notify", IF out[t] = <<>> THEN "children" ELSE "push")
    /\ IF Len(m_queue) = 1 THEN NotifyOne ELSE UNCHANGED queueVars
    /\ UNCHANGED <<dagVars, current, todo, out>>

Notify(t) ==
    /\ Goto(t, "notify", IF out[t] = <<>> THEN "children" ELSE "push")
    /\ NotifyOne
    /\ UNCHANGED <<dagVars, current, todo, out>>

-----------------------------------------------------------------------------
\* All threads have been joined: solve() returns.
Join ==
    /\ solving /\ \A t \in Threads : pc[t] = "returned"
    /\ solving' = FALSE
    /\ pc' = [t \in Threads |-> "joined"]
    /\ current' = [t \in Threads |-> start_node]    \* the locals of the workers are gone
    /\ UNCHANGED <<queueVars, outgoing, dag_done, m_state, num_work_left, thrown, todo, out>>

Reset ==
    /\ ~solving
    /\ dag_done' = [v \in Nodes |-> FALSE]
    /\ m_state' = [v \in Nodes |-> "initial"]
    /\ ClearQueue
    /\ UNCHANGED <<outgoing, num_work_left, solving, thrown, local>>

WorkerStep(t) ==
    \/ PopNode(t) \/ PopDoneTask(t) \/ Wait(t)
    \/ AllParentsDone(t) \/ PutBack(t)
    \/ WorkBegin(t) \/ WorkEnd(t) \/ MarkDone(t) \/ CountDown(t)
    \/ ClaimChild(t) \/ SkipChild(t) \/ NoMoreChildren(t)
    \/ Push(t) \/ Notify(t)

\* An exception in a thread ends the program.
Next ==
    /\ ~thrown
    /\ Solve \/ Join \/ Reset \/ \E t \in Threads : WorkerStep(t) \/ Wake(t)

Spec == Init /\ [][Next]_vars

\* Every thread that can run is scheduled again; spurious wake-ups are not promised.
Fairness == WF_vars(~thrown /\ Join) /\ \A t \in Threads : WF_vars(~thrown /\ WorkerStep(t))

FairSpec == Spec /\ Fairness
-----------------------------------------------------------------------------
\* The thread holds its current node: it has popped it and neither put it back
\* nor finished it.
Holds(t, v) == pc[t] \in {"check", "work", "working", "mark"} /\ current[t] = v

\* The places in the queue, and in the pushes still to be made, where e is.
Queued(e) == {i \in DOMAIN m_queue : m_queue[i] = e}
Pending(e) == {p \in Threads \X (1 .. Cardinality(Threads)) :
                    p[2] \in DOMAIN out[p[1]] /\ out[p[1]][p[2]] = e}

\* Every variable has its type; num_work_left counts no node twice.
TypeOK ==
    /\ m_queue \in Seq(Nodes \cup {done_task})
    /\ waiting \subseteq Threads
    /\ outgoing \in Graphs
    /\ dag_done \in [Nodes -> BOOLEAN]
    /\ m_state \in [Nodes -> {"initial", "in_queue", "in_progress", "done"}]
    /\ num_work_left \in 0 .. Cardinality(Nodes)
    /\ solving \in BOOLEAN /\ thrown \in BOOLEAN
    /\ pc \in [Threads -> {"joined", "pop", "check", "work", "working", "mark", "count",
                           "children", "push", "notify", "returned"}]
    /\ current \in [Threads -> Nodes]
    /\ todo \in [Threads -> SUBSET Nodes]
    /\ out \in [Threads -> Seq(Nodes \cup {done_task})]

\* DAGTask::work never throws "Already worked on this node!" nor "Parent has not
\* been worked on!", whatever the interleaving of the workers.
WorkNeverThrows == ~thrown

\* A node is at no moment in two places: in the queue, about to be pushed, or held
\* by a worker.  What is nowhere has not been reached yet or is finished.  In particular
\* `assert(state[current].load() == in_queue)` holds for a node that has been popped.
OnePlacePerNode ==
    /\ solving => \A v \in Nodes :
        Cardinality(Queued(v)) + Cardinality(Pending(v)) + Cardinality({t \in Threads : Holds(t, v)})
            = IF m_state[v] \in {"in_queue", "in_progress"}
                    \/ \E t \in Threads : Holds(t, v) /\ pc[t] = "mark"
              THEN 1 ELSE 0
    /\ \A t \in Threads : pc[t] = "check" => m_state[current[t]] = "in_queue"

\* A worker is told to return only when every node is done, so that no node is
\* left behind in the queue when the threads have been joined.
DoneTasksComeLast ==
    /\ (Queued(done_task) # {} \/ \E t \in Threads : pc[t] = "returned") =>
            \A v \in Nodes : dag_done[v] /\ Queued(v) = {}
    /\ (~solving /\ \E v \in Nodes : dag_done[v]) => (m_queue = <<>> /\ num_work_left = 0)

\* The solver works on the graph in an order that respects it, each node once, and
\* returns when all is done.
Ordered == INSTANCE OrderedWork WITH
                parents <- [v \in Nodes |-> incoming(v)],
                worked <- {v \in Nodes : dag_done[v]}
ImplementsOrderedWork == Ordered!WorkSpec

\* solve() returns: no wake-up is lost, no worker waits for ever for a node or for
\* its done_task, and putting nodes back does not go on for ever.
SolveReturns == solving ~> ~solving
=============================================================================

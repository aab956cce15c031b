----------------------------- MODULE TreeSolver -----------------------------
(***************************************************************************)
(* TreeSolver of exercise4/implementation/tree_solver.hpp (without the     *)
(* statistics of keep_stats): every worker keeps some of the nodes it      *)
(* discovers in a queue of its own and shares the others.  A worker that   *)
(* runs out of nodes of its own takes a unit of num_work_left; the one     *)
(* that finds none left pushes one done_task for every thread.  What the   *)
(* workers leave behind in the shared queue is worked on after the join.   *)
(***************************************************************************)
EXTENDS TreeTask, Integers, SequencesExt

VARIABLES
    num_work_left,
    num_elements_in_queues,     (* an estimate; all accesses are relaxed    *)
    phase,                      (* of solve(): idle, workers, drain         *)
    m_local_queues,
    pc, current,
    out                         (* what a worker, or the drain, has still to push *)

main == "main"                  (* the thread that calls solve()            *)

counters == <<num_work_left, num_elements_in_queues>>
local == <<pc, current, out, m_local_queues>>
vars == <<queueVars, treeVars, counters, phase, local>>

num_threads == Cardinality(crew)

\* Mutant: a worker that finds nothing left ends only one thread, itself.
OneDoneTask == <<done_task>>

DoneTasks == [i \in 1 .. num_threads |-> done_task]

Init ==
    /\ QueueInit /\ TreeInit
    /\ num_work_left = 0 /\ num_elements_in_queues = 0
    /\ phase = "idle"
    /\ m_local_queues = [t \in Threads |-> <<>>]
    /\ pc = [t \in Threads |-> "joined"]
    /\ current = [t \in Threads |-> 0]
    /\ out = [t \in Threads \cup {main} |-> <<>>]

Goto(t, from, to) == pc[t] = from /\ pc' = [pc EXCEPT ![t] = to]

\* Mutant: the dummy node n is counted as work.
SolveCountsDummy ==
    /\ phase = "idle" /\ m_queue = <<>> /\ \A v \in Nodes : ~done[v]
    /\ phase' = "workers"
    /\ PushElement(0 + 1)
    /\ num_work_left' = size + 1 /\ num_elements_in_queues' = 0
    /\ pc' = [t \in Threads |-> IF t \in crew THEN "next" ELSE "joined"]
    /\ UNCHANGED <<treeVars, current, out, m_local_queues>>

Solve ==
    /\ phase = "idle" /\ m_queue = <<>> /\ \A v \in Nodes : ~done[v]
    /\ phase' = "workers"
    /\ PushElement(0 + 1)
    /\ num_work_left' = size /\ num_elements_in_queues' = 0
    /\ pc' = [t \in Threads |-> IF t \in crew THEN "next" ELSE "joined"]
    /\ UNCHANGED <<treeVars, current, out, m_local_queues>>

-----------------------------------------------------------------------------
(* The worker.                                                             *)

PopLocal(t) ==
    /\ m_local_queues[t] # <<>>
    /\ Goto(t, "next", "estimate")
    /\ current' = [current EXCEPT ![t] = Head(m_local_queues[t])]
    /\ m_local_queues' = [m_local_queues EXCEPT ![t] = Tail(@)]
    /\ num_work_left' = num_work_left - 1
    /\ UNCHANGED <<queueVars, treeVars, num_elements_in_queues, phase, out>>

TakeTicket(t) ==
    /\ m_local_queues[t] = <<>>
    /\ Goto(t, "next", IF num_work_left <= 0 THEN "push" ELSE "pop")
    /\ num_work_left' = num_work_left - 1
    /\ out' = [out EXCEPT ![t] = IF num_work_left <= 0 THEN DoneTasks ELSE <<>>]
    /\ current' = [current EXCEPT ![t] = done_task]  \* `current` is of no use until the pop
    /\ UNCHANGED <<queueVars, treeVars, num_elements_in_queues, phase, m_local_queues>>

PopGlobal(t) ==
    /\ Goto(t, "pop", "estimate")
    /\ PopElement(t)
    /\ current' = [current EXCEPT ![t] = Head(m_queue)]
    /\ UNCHANGED <<treeVars, counters, phase, out, m_local_queues>>

Wait(t) ==
    /\ pc[t] = "pop" /\ WaitForElement(t)
    /\ UNCHANGED <<treeVars, counters, phase, local>>

Wake(t) == WakeSpuriously(t) /\ UNCHANGED <<treeVars, counters, phase, local>>

\* num_elements_in_queues.fetch_sub(1); a done_task ends the worker.
CountTaken(t) ==
    /\ Goto(t, "estimate", IF current[t] = done_task THEN "returned" ELSE "work")
    /\ num_elements_in_queues' = num_elements_in_queues - 1
    /\ current' = [current EXCEPT ![t] = IF @ = done_task THEN 0 ELSE @ - 1]
    /\ UNCHANGED <<queueVars, treeVars, num_work_left, phase, out, m_local_queues>>

WorkBegin(t) ==
    /\ Goto(t, "work", "working")
    /\ WorkChecks(current[t])
    /\ UNCHANGED <<queueVars, counters, phase, current, out, m_local_queues>>

WorkEnd(t) ==
    /\ Goto(t, "working", "distribute")
    /\ WorkStore(current[t])
    /\ UNCHANGED <<queueVars, counters, phase, current, out, m_local_queues>>

AtLeast(a, b) == IF a >= b THEN a ELSE b
AtMost(a, b) == IF a <= b THEN a ELSE b

\* How many nodes the worker wants for itself, and the most it keeps.
Desired(new) == AtLeast(1, (AtLeast(num_elements_in_queues, 0) + new) \div num_threads)
MaxDesired(new) == (3 * Desired(new)) \div 2

\* Mutant: the last child the worker keeps is shared as well.
DistributeTwice(t) ==
    LET children == [i \in DOMAIN edges[current[t]] |-> edges[current[t]][i] + 1]
        kept == AtMost(Len(children), AtLeast(0, Desired(Len(children)) - Len(m_local_queues[t])))
        own == m_local_queues[t] \o SubSeq(children, 1, kept)
        excess == AtLeast(0, Len(own) - MaxDesired(Len(children)))
    IN  /\ Goto(t, "distribute", "add")
        /\ out' = [out EXCEPT ![t] = SubSeq(children, AtLeast(1, kept), Len(children)) \o SubSeq(own, 1, excess)]
        /\ m_local_queues' = [m_local_queues EXCEPT ![t] = SubSeq(own, excess + 1, Len(own))]
        /\ UNCHANGED <<queueVars, treeVars, counters, phase, current>>

\* The estimate is loaded, and decides which of the children go to the back of
\* the own queue and which are shared, followed by what the own queue has too
\* much of.  Nobody else sees the own queue, nor the pushes before they are made.
Distribute(t) ==
    LET children == [i \in DOMAIN edges[current[t]] |-> edges[current[t]][i] + 1]
        kept == AtMost(Len(children), AtLeast(0, Desired(Len(children)) - Len(m_local_queues[t])))
        own == m_local_queues[t] \o SubSeq(children, 1, kept)
        excess == AtLeast(0, Len(own) - MaxDesired(Len(children)))
    IN  /\ Goto(t, "distribute", "add")
        /\ out' = [out EXCEPT ![t] = SubSeq(children, kept + 1, Len(children)) \o SubSeq(own, 1, excess)]
        /\ m_local_queues' = [m_local_queues EXCEPT ![t] = SubSeq(own, excess + 1, Len(own))]
        /\ UNCHANGED <<queueVars, treeVars, counters, phase, current>>

\* Mutant: the new elements are not added to the estimate.
CountNewForgotten(t) ==
    /\ Goto(t, "add", IF out[t] = <<>> THEN "next" ELSE "push")
    /\ current' = [current EXCEPT ![t] = 0]
    /\ UNCHANGED <<queueVars, treeVars, counters, phase, out, m_local_queues>>

CountNew(t) ==
    /\ Goto(t, "add", IF out[t] = <<>> THEN "next" ELSE "push")
    /\ num_elements_in_queues' = num_elements_in_queues + Len(edges[current[t]])
    /\ current' = [current EXCEPT ![t] = 0]
    /\ UNCHANGED <<queueVars, treeVars, num_work_left, phase, out, m_local_queues>>

Push(t) ==
    /\ Goto(t, "push", "notify")
    /\ PushElement(Head(out[t]))
    /\ out' = [out EXCEPT ![t] = Tail(@)]
    /\ UNCHANGED <<treeVars, counters, phase, current, m_local_queues>>

\* After the done_tasks comes the pop, after the children the next node.
Notify(t) ==
    /\ Goto(t, "notify", IF out[t] # <<>> THEN "push"
                         ELSE IF current[t] = done_task THEN "pop" ELSE "next")
    /\ NotifyOne
    /\ UNCHANGED <<treeVars, counters, phase, current, out, m_local_queues>>

-----------------------------------------------------------------------------
(* After the join: the loop that works on what is left in the shared queue. *)

Join ==
    /\ phase = "workers" /\ \A t \in crew : pc[t] = "returned"
    /\ phase' = "drain"
    /\ pc' = [t \in Threads |-> "joined"]
    /\ UNCHANGED <<queueVars, treeVars, counters, current, out, m_local_queues>>

DrainDoneTask ==
    /\ phase = "drain" /\ out[main] = <<>>
    /\ m_queue # <<>> /\ Head(m_queue) = done_task
    /\ PopElement(main)
    /\ UNCHANGED <<treeVars, counters, phase, local>>

\* Mutant: what is left behind is dropped.
DrainDrop ==
    /\ phase = "drain" /\ out[main] = <<>>
    /\ m_queue # <<>> /\ Head(m_queue) # done_task
    /\ PopElement(main)
    /\ UNCHANGED <<treeVars, counters, phase, local>>

\* The children are pushed as they are, not incremented.  Nobody runs besides, so
\* that work() is a single step here.
DrainNode ==
    /\ phase = "drain" /\ out[main] = <<>>
    /\ m_queue # <<>> /\ Head(m_queue) # done_task
    /\ PopElement(main)
    /\ LET v == Head(m_queue) - 1
       IN  /\ thrown' = (done[v] \/ \E p \in parent(v) : ~done[p])
           /\ done' = IF thrown' THEN done ELSE [done EXCEPT ![v] = TRUE]
           /\ out' = [out EXCEPT ![main] = IF thrown' THEN <<>> ELSE edges[v]]
    /\ UNCHANGED <<crew, edges, counters, phase, pc, current, m_local_queues>>

DrainPush ==
    /\ phase = "drain" /\ out[main] # <<>>
    /\ PushElement(Head(out[main]))
    /\ out' = [out EXCEPT ![main] = Tail(@)]
    /\ UNCHANGED <<treeVars, counters, phase, pc, current, m_local_queues>>

Return ==
    /\ phase = "drain" /\ out[main] = <<>> /\ m_queue = <<>>
    /\ phase' = "idle"
    /\ num_work_left' = 0 /\ num_elements_in_queues' = 0    \* locals of solve()
    /\ UNCHANGED <<queueVars, treeVars, local>>

\* reset() leaves the own queues of the workers alone.
Reset ==
    /\ phase = "idle"
    /\ TreeReset /\ ClearQueue
    /\ UNCHANGED <<counters, phase, local>>

WorkerStep(t) ==
    \/ PopLocal(t) \/ TakeTicket(t) \/ PopGlobal(t) \/ Wait(t) \/ CountTaken(t)
    \/ WorkBegin(t) \/ WorkEnd(t) \/ Distribute(t) \/ CountNew(t) \/ Push(t) \/ Notify(t)

MainStep == Join \/ DrainDoneTask \/ DrainNode \/ DrainPush \/ Return

\* An exception ends the program.
Next ==
    /\ ~thrown
    /\ Solve \/ MainStep \/ Reset \/ \E t \in crew : WorkerStep(t) \/ Wake(t)

Spec == Init /\ [][Next]_vars

-----------------------------------------------------------------------------
(* What the solver promises.                                               *)

\* The queues hold nodes and done_tasks, the own queues nodes only, and neither
\* counter leaves the range that its fetch_subs allow for (an int in the code).
TypeOK ==
    /\ m_queue \in Seq(1 .. done_task) /\ waiting \subseteq Threads
    /\ done \in [Nodes -> BOOLEAN] /\ thrown \in BOOLEAN
    /\ phase \in {"idle", "workers", "drain"}
    /\ num_work_left \in -num_threads .. size
    /\ num_elements_in_queues \in -(num_threads + 1) .. size
    /\ m_local_queues \in [Threads -> Seq(1 .. size)]
    /\ pc \in [Threads -> {"joined", "next", "pop", "estimate", "work", "working",
                           "distribute", "add", "push", "notify", "returned"}]
    /\ current \in [Threads -> 0 .. done_task]
    /\ DOMAIN out = Threads \cup {main}

\* work() throws neither for a node that is done nor for a missing parent, as long
\* as the workers run: only the loop after the join may make it throw.
WorkersNeverThrow == thrown => phase = "drain"

\* A worker that is not waiting returns in the end, and a worker that waits has one
\* left that is not: the last notify_one is never lost, nor is the done_task of the
\* last waiter (push l.113-115, pop of mutex_std_queue.hpp).
NobodySleepsForever ==
    waiting # {} => \E t \in crew \ waiting : pc[t] # "returned"

\* What a worker keeps for itself it also works on: the loop after the join sees the
\* shared queue only, and reset() does not clear the own queues.
OwnQueuesLeftEmpty ==
    \A t \in Threads : pc[t] \in {"returned", "joined"} => m_local_queues[t] = <<>>

\* The nodes that num_elements_in_queues should count: those in the queues, those that have
\* been popped and not yet counted down, and not the children that are still to be counted.
CountedNodes ==
    {v \in Nodes :
        \/ v + 1 \in Range(m_queue)
        \/ \E t \in crew :
            \/ pc[t] = "estimate" /\ current[t] = v + 1
            \/ /\ v + 1 \in Range(m_local_queues[t]) \cup Range(out[t])
               /\ ~(pc[t] = "add" /\ current[t] \in parent(v))}

\* num_elements_in_queues is exact but for the root, which is taken without having been
\* added, and for the done_tasks that were taken.
EstimateCountsNodes ==
    phase = "workers" =>
        num_elements_in_queues = Cardinality(CountedNodes) - Cardinality({t \in crew : pc[t] = "returned"}) - 1
=============================================================================

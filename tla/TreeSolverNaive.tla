-------------------------- MODULE TreeSolverNaive --------------------------
(***************************************************************************)
(* TreeSolverNaive of exercise4/implementation/tree_solver_naive.hpp: one  *)
(* shared MutexStdQueue, and a counter of which every worker takes one     *)
(* unit before it pops: a worker that finds none left returns.             *)
(***************************************************************************)
EXTENDS TreeTask, Integers

VARIABLES num_work_left, solving, pc, current, out

local == <<pc, current, out>>
vars == <<queueVars, treeVars, num_work_left, solving, local>>

Init ==
    /\ QueueInit /\ TreeInit
    /\ num_work_left = 0
    /\ solving = FALSE
    /\ pc = [t \in Threads |-> "joined"]
    /\ current = [t \in Threads |-> 0]
    /\ out = [t \in Threads |-> <<>>]

Goto(t, from, to) == pc[t] = from /\ pc' = [pc EXCEPT ![t] = to]

Solve ==
    /\ ~solving /\ m_queue = <<>> /\ \A v \in Nodes : ~done[v]   \* as constructed or reset
    /\ solving' = TRUE
    /\ PushElement(1)
    /\ num_work_left' = size
    /\ pc' = [t \in Threads |-> IF t \in crew THEN "ticket" ELSE "joined"]
    /\ UNCHANGED <<treeVars, current, out>>

\* Mutant: the test is off by one.
TakeTicketOneTooMany(t) ==
    /\ Goto(t, "ticket", IF num_work_left < 0 THEN "returned" ELSE "pop")
    /\ num_work_left' = num_work_left - 1
    /\ UNCHANGED <<queueVars, treeVars, solving, current, out>>

TakeTicket(t) ==
    /\ Goto(t, "ticket", IF num_work_left <= 0 THEN "returned" ELSE "pop")
    /\ num_work_left' = num_work_left - 1
    /\ UNCHANGED <<queueVars, treeVars, solving, current, out>>

PopNode(t) ==
    /\ Goto(t, "pop", "work")
    /\ PopElement(t)
    /\ current' = [current EXCEPT ![t] = Head(m_queue) - 1]
    /\ UNCHANGED <<treeVars, num_work_left, solving, out>>

Wait(t) ==
    /\ pc[t] = "pop" /\ WaitForElement(t)
    /\ UNCHANGED <<treeVars, num_work_left, solving, local>>

Wake(t) == WakeSpuriously(t) /\ UNCHANGED <<treeVars, num_work_left, solving, local>>

WorkBegin(t) ==
    /\ Goto(t, "work", "working")
    /\ WorkChecks(current[t])
    /\ UNCHANGED <<queueVars, num_work_left, solving, current, out>>

\* The end of work() and the children it returns.
WorkEnd(t) ==
    /\ Goto(t, "working", "children")
    /\ WorkStore(current[t])
    /\ out' = [out EXCEPT ![t] = [i \in DOMAIN edges[current[t]] |-> edges[current[t]][i] + 1]]
    /\ UNCHANGED <<queueVars, num_work_left, solving, current>>

PushChild(t) ==
    /\ out[t] # <<>>
    /\ Goto(t, "children", "notify")
    /\ PushElement(Head(out[t]))
    /\ out' = [out EXCEPT ![t] = Tail(@)]
    /\ UNCHANGED <<treeVars, num_work_left, solving, current>>

Notify(t) ==
    /\ Goto(t, "notify", "children")
    /\ NotifyOne
    /\ UNCHANGED <<treeVars, num_work_left, solving, current, out>>

NoMoreChildren(t) ==
    /\ out[t] = <<>>
    /\ Goto(t, "children", "ticket")
    /\ UNCHANGED <<queueVars, treeVars, num_work_left, solving, current, out>>

Join ==
    /\ solving /\ \A t \in crew : pc[t] = "returned"
    /\ solving' = FALSE
    /\ pc' = [t \in Threads |-> "joined"]
    /\ current' = [t \in Threads |-> 0]
    /\ num_work_left' = 0
    /\ UNCHANGED <<queueVars, treeVars, out>>

Reset ==
    /\ ~solving
    /\ TreeReset /\ ClearQueue
    /\ UNCHANGED <<num_work_left, solving, local>>

WorkerStep(t) ==
    \/ TakeTicket(t) \/ PopNode(t) \/ Wait(t) \/ WorkBegin(t) \/ WorkEnd(t)
    \/ PushChild(t) \/ Notify(t) \/ NoMoreChildren(t)

\* An exception in a thread ends the program.
Next ==
    /\ ~thrown
    /\ Solve \/ Join \/ Reset \/ \E t \in crew : WorkerStep(t) \/ Wake(t)

Spec == Init /\ [][Next]_vars

-----------------------------------------------------------------------------
(* What the solver promises.                                               *)

\* The queue holds nodes only, and each worker takes at most one unit too many.
TypeOK ==
    /\ m_queue \in Seq(1 .. size) /\ waiting \subseteq Threads
    /\ done \in [Nodes -> BOOLEAN] /\ thrown \in BOOLEAN
    /\ num_work_left \in -Cardinality(crew) .. size
    /\ pc \in [Threads -> {"joined", "ticket", "pop", "work", "working",
                           "children", "notify", "returned"}]
    /\ current \in [Threads -> Nodes]
    /\ out \in [Threads -> Seq(1 .. size)]

\* work() throws neither for a node that is done nor for a missing parent.
WorkNeverThrows == ~thrown

\* A worker that waits in pop() has one left that will still push: the units taken are
\* as many as the nodes, and no notify_one is lost (tree_solver_naive.hpp:48-49).
NobodySleepsForever ==
    waiting # {} => \E t \in crew \ waiting : pc[t] # "returned"
=============================================================================

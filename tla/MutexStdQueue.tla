--------------------------- MODULE MutexStdQueue ---------------------------
(***************************************************************************)
(* The unbounded queue of exercise4/implementation/mutex_std_queue.hpp: a  *)
(* std::queue, a mutex and a condition variable.  The solvers compose it   *)
(* with their own state.                                                   *)
(*                                                                         *)
(* The body of a critical section is one action, since no call blocks      *)
(* while it holds the mutex except in the wait, which releases it.  The    *)
(* notify_one of a push comes after the unlock and is an action of its     *)
(* own: pops and further pushes come between.                              *)
(***************************************************************************)
EXTENDS Naturals, Sequences

VARIABLES
    m_queue,        (* the elements, oldest first                          *)
    waiting         (* the threads blocked in m_non_empty.wait             *)

queueVars == <<m_queue, waiting>>

QueueInit == m_queue = <<>> /\ waiting = {}

PushElement(e) == m_queue' = Append(m_queue, e) /\ UNCHANGED waiting

\* notify_one wakes one waiter, if there is one, and is not remembered.
NotifyOne ==
    /\ \/ waiting = {} /\ waiting' = waiting
       \/ \E w \in waiting : waiting' = waiting \ {w}
    /\ UNCHANGED m_queue

\* pop() with the predicate of the wait satisfied.
PopElement(t) ==
    /\ t \notin waiting
    /\ m_queue # <<>>
    /\ m_queue' = Tail(m_queue)
    /\ UNCHANGED waiting

\* pop() with the predicate not satisfied: the thread releases the mutex and blocks.
WaitForElement(t) ==
    /\ t \notin waiting
    /\ m_queue = <<>>
    /\ waiting' = waiting \cup {t}
    /\ UNCHANGED m_queue

\* A condition variable may wake a thread without a notification.
WakeSpuriously(t) ==
    /\ t \in waiting
    /\ waiting' = waiting \ {t}
    /\ UNCHANGED m_queue

ClearQueue == m_queue' = <<>> /\ UNCHANGED waiting
=============================================================================

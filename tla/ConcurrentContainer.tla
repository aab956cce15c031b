------------------------ MODULE ConcurrentContainer -------------------------
(***************************************************************************)
(* The unordered container of                                              *)
(* exercise4/implementation/concurrent_container.hpp.  push() walks over   *)
(* the slots, from where the thread has last found one, until its CAS      *)
(* fills an empty one; pop() until its CAS empties a full one.  When a     *)
(* walk has seen every slot once, push() and pop() yield and start again.  *)
(* Every load and CAS is an action.                                        *)
(*                                                                         *)
(* A start of a walk is used modulo the capacity only and is kept that     *)
(* way, as long as search_start + search_size does not leave the range of  *)
(* size_t.  m_size is off (keep_stats = false, the default).               *)
(***************************************************************************)
EXTENDS Naturals, Sequences, FiniteSets

CONSTANTS
    Threads, Items,
    Zero,               (* T{}, an empty slot                              *)
    Plans               (* records of a capacity and, for every thread, of *)
                        (* the calls it makes: the item that is pushed, or *)
                        (* Zero for a pop                                  *)

VARIABLES
    m_capacity, m_elements,
    calls,              (* the calls that a thread has not returned from   *)
    thread_offset,      (* the offset of each thread                       *)
    walk,               (* [steps, e] of the call a thread is in, or NoWalk*)
    undisturbed         (* history: the threads in whose walk no slot has  *)
                        (* changed yet, with what they look for            *)

containerVars == <<m_capacity, m_elements, calls, thread_offset, walk, undisturbed>>

NoWalk == <<>>
Slots == 0 .. m_capacity - 1

ContainerInit ==
    /\ \E plan \in Plans : m_capacity = plan.capacity /\ calls = plan.calls
    /\ m_elements = [i \in Slots |-> Zero]
    \* From the generator, at the first call of a thread.
    /\ thread_offset \in [Threads -> Slots]
    /\ \A t \in Threads : calls[t] = <<>> => thread_offset[t] = 0
    /\ walk = [t \in Threads |-> NoWalk]
    /\ undisturbed = {}

pushes(t) == Head(calls[t]) # Zero
idx(t) == (thread_offset[t] + walk[t].steps) % m_capacity

Aim(t) == <<t, IF pushes(t) THEN "room" ELSE "item">>
FirstStep == [steps |-> 0, e |-> Zero]

Call(t) ==
    /\ walk[t] = NoWalk /\ calls[t] # <<>>
    /\ walk' = [walk EXCEPT ![t] = FirstStep]
    /\ undisturbed' = undisturbed \cup {Aim(t)}
    /\ UNCHANGED <<m_capacity, m_elements, calls, thread_offset>>

Walking(t) == walk[t] # NoWalk /\ walk[t].steps < m_capacity

\* The CAS has succeeded: the call returns and the next walk starts from this slot.
Return(t) ==
    /\ thread_offset' = [thread_offset EXCEPT ![t] = idx(t)]
    /\ walk' = [walk EXCEPT ![t] = NoWalk]
    /\ calls' = [calls EXCEPT ![t] = Tail(@)]
    /\ undisturbed' = {}

NextSlot(t) ==
    /\ walk' = [walk EXCEPT ![t] = [steps |-> @.steps + 1, e |-> Zero]]
    /\ UNCHANGED <<m_capacity, m_elements, calls, thread_offset, undisturbed>>

\* Mutant: `expected` is set before the loop, and a CAS that fails leaves in it what it
\* has found, as in ConcurrentQueueCASElement.
PushStaleExpected(t) ==
    /\ Walking(t) /\ pushes(t)
    /\ \/ /\ m_elements[idx(t)] = walk[t].e
          /\ m_elements' = [m_elements EXCEPT ![idx(t)] = Head(calls[t])]
          /\ Return(t) /\ UNCHANGED m_capacity
       \/ /\ m_elements[idx(t)] # walk[t].e
          /\ walk' = [walk EXCEPT ![t] = [steps |-> @.steps + 1, e |-> m_elements[idx(t)]]]
          /\ UNCHANGED <<m_capacity, m_elements, calls, thread_offset, undisturbed>>

\* try_push: the CAS from T{} to the item.
Push(t) ==
    /\ Walking(t) /\ pushes(t)
    /\ \/ /\ m_elements[idx(t)] = Zero
          /\ m_elements' = [m_elements EXCEPT ![idx(t)] = Head(calls[t])]
          /\ Return(t) /\ UNCHANGED m_capacity
       \/ m_elements[idx(t)] # Zero /\ NextSlot(t)

\* try_pop: the load that looks for an item ...
LoadElement(t) ==
    /\ Walking(t) /\ ~pushes(t) /\ walk[t].e = Zero
    /\ \/ /\ m_elements[idx(t)] # Zero
          /\ walk' = [walk EXCEPT ![t].e = m_elements[idx(t)]]
          /\ UNCHANGED <<m_capacity, m_elements, calls, thread_offset, undisturbed>>
       \/ m_elements[idx(t)] = Zero /\ NextSlot(t)

\* ... and the CAS from that item to T{}; one that fails does not look here again.
Pop(t) ==
    /\ Walking(t) /\ ~pushes(t) /\ walk[t].e # Zero
    /\ \/ /\ m_elements[idx(t)] = walk[t].e
          /\ m_elements' = [m_elements EXCEPT ![idx(t)] = Zero]
          /\ Return(t) /\ UNCHANGED m_capacity
       \/ m_elements[idx(t)] # walk[t].e /\ NextSlot(t)

\* try_push and try_pop return false after all slots; push and pop
\* yield and call them again from the same slot, as Call(t).
Fail(t) ==
    /\ walk[t] # NoWalk /\ walk[t].steps = m_capacity
    /\ walk' = [walk EXCEPT ![t] = NoWalk]
    /\ undisturbed' = undisturbed \ {Aim(t)}
    /\ UNCHANGED <<m_capacity, m_elements, calls, thread_offset>>

ContainerStep(t) == Call(t) \/ Push(t) \/ LoadElement(t) \/ Pop(t) \/ Fail(t)
ContainerNext == \E t \in Threads : ContainerStep(t)

\* A thread that has calls to make is scheduled again.
ContainerFairness == \A t \in Threads : WF_containerVars(ContainerStep(t))

-----------------------------------------------------------------------------
\* The items in the slots are a bag: see Pool.
Content ==
    [e \in {m_elements[i] : i \in Slots} \ {Zero} |-> Cardinality({i \in Slots : m_elements[i] = e})]
ContainerPool == INSTANCE Pool WITH capacity <- m_capacity, content <- Content
ImplementsPool == ContainerPool!PoolSpec

\* When as much is popped as is pushed, every call returns.
AllReturned == \A t \in Threads : calls[t] = <<>>
=============================================================================

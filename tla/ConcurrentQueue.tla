-------------------------- MODULE ConcurrentQueue --------------------------
(***************************************************************************)
(* The bounded multi-producer multi-consumer ring buffer of                *)
(* exercise4/implementation/concurrent_queue.hpp.                          *)
(*                                                                         *)
(* A push claims a ticket by a CAS on m_producer_head, stores into the     *)
(* slot of its ticket and then waits for its turn to advance               *)
(* m_consumer_head.  A pop claims a ticket by a CAS on m_consumer_tail,    *)
(* reads a slot and waits for its turn to advance m_producer_tail.  Every  *)
(* load, store and CAS is an action of its own (all of them are seq_cst).  *)
(* A CAS that fails without changing anything is a stuttering step.        *)
(***************************************************************************)
EXTENDS Naturals, Sequences, FiniteSets

CONSTANTS
    Threads,        (* the threads that share the queue                    *)
    Items,          (* the elements a caller may push                      *)
    Empty,          (* T{}, which push() may not be called with            *)
    Capacities,     (* the capacities the queue may be constructed with    *)
    MaxTickets      (* bound: tickets handed out between two resets        *)

ASSUME QueueAssumption ==
    /\ Empty \notin Items
    /\ Capacities \subseteq Nat
    /\ MaxTickets \in Nat

VARIABLES
    m_capacity, m_elements,
    m_producer_head, m_producer_tail,
    m_consumer_head, m_consumer_tail,
    pc,             (* the next access a thread makes to shared memory     *)
    old,            (* old_producer_head or old_consumer_tail              *)
    arg,            (* the element a push was called with                  *)
    blocking,       (* TRUE in push() and pop(): a refused try is repeated *)
    pushed,         (* history: pushed[i + 1] is the element of ticket i   *)
    delivered       (* history: <<ticket, element read>> of every pop      *)

shared == <<m_capacity, m_elements, m_producer_head, m_producer_tail,
            m_consumer_head, m_consumer_tail>>
local == <<pc, old, arg, blocking>>
history == <<pushed, delivered>>
vars == <<shared, local, history>>

PushSteps == {"push_load", "push_check", "push_cas", "push_store", "push_publish"}
PopSteps  == {"pop_load", "pop_check", "pop_cas", "pop_read", "pop_release"}

Goto(t, from, to) == pc[t] = from /\ pc' = [pc EXCEPT ![t] = to]

\* The call returns and its local variables die.
Return(t, from) ==
    /\ Goto(t, from, "idle")
    /\ old' = [old EXCEPT ![t] = 0]
    /\ arg' = [arg EXCEPT ![t] = Empty]
    /\ blocking' = [blocking EXCEPT ![t] = FALSE]

\* try_push or try_pop returns false: push() and pop() try again.
Refuse(t, from, again) ==
    \/ ~blocking[t] /\ Return(t, from)
    \/ blocking[t] /\ Goto(t, from, again) /\ UNCHANGED <<old, arg, blocking>>

Init ==
    /\ m_capacity \in Capacities
    /\ m_elements = [s \in 0 .. m_capacity - 1 |-> Empty]
    /\ m_producer_head = 0 /\ m_producer_tail = 0
    /\ m_consumer_head = 0 /\ m_consumer_tail = 0
    /\ pc = [t \in Threads |-> "idle"]
    /\ old = [t \in Threads |-> 0]
    /\ arg = [t \in Threads |-> Empty]
    /\ blocking = [t \in Threads |-> FALSE]
    /\ pushed = <<>>
    /\ delivered = {}

-----------------------------------------------------------------------------
(* push(e) and try_push(e).                                                *)

BeginPush(t) ==
    /\ m_producer_head + Cardinality({u \in Threads : pc[u] \in PushSteps}) < MaxTickets
    /\ Goto(t, "idle", "push_load")
    /\ \E e \in Items : arg' = [arg EXCEPT ![t] = e]
    /\ \E b \in BOOLEAN : blocking' = [blocking EXCEPT ![t] = b]
    /\ UNCHANGED <<shared, old, history>>

PushLoad(t) ==
    /\ Goto(t, "push_load", "push_check")
    /\ old' = [old EXCEPT ![t] = m_producer_head]
    /\ UNCHANGED <<shared, arg, blocking, history>>

\* Mutant: one element too many is let in.
PushHasRoomForOneMore(t) ==
    /\ m_capacity # 0 /\ old[t] <= m_producer_tail + m_capacity
    /\ Goto(t, "push_check", "push_cas")
    /\ UNCHANGED <<shared, old, arg, blocking, history>>

\* The load of m_producer_tail and the test against the capacity.
PushHasRoom(t) ==
    /\ old[t] + 1 <= m_producer_tail + m_capacity
    /\ Goto(t, "push_check", "push_cas")
    /\ UNCHANGED <<shared, old, arg, blocking, history>>

\* Mutant: the last free slot is never used.
PushRefusedEarly(t) ==
    /\ old[t] + 1 >= m_producer_tail + m_capacity
    /\ Refuse(t, "push_check", "push_load")
    /\ UNCHANGED <<shared, history>>

PushRefused(t) ==
    /\ old[t] + 1 > m_producer_tail + m_capacity
    /\ Refuse(t, "push_check", "push_load")
    /\ UNCHANGED <<shared, history>>

PushClaim(t) ==
    /\ Goto(t, "push_cas", "push_store")
    /\ m_producer_head = old[t]
    /\ m_producer_head' = old[t] + 1
    /\ pushed' = Append(pushed, arg[t])
    /\ UNCHANGED <<m_capacity, m_elements, m_producer_tail, m_consumer_head,
                   m_consumer_tail, old, arg, blocking, delivered>>

\* The weak CAS fails, because the head has moved or spuriously, and loads
\* the current head into old_producer_head.
PushClaimFails(t) ==
    /\ Goto(t, "push_cas", "push_check")
    /\ old' = [old EXCEPT ![t] = m_producer_head]
    /\ UNCHANGED <<shared, arg, blocking, history>>

PushStore(t) ==
    /\ Goto(t, "push_store", "push_publish")
    /\ m_elements' = [m_elements EXCEPT ![old[t] % m_capacity] = arg[t]]
    /\ UNCHANGED <<m_capacity, m_producer_head, m_producer_tail, m_consumer_head,
                   m_consumer_tail, old, arg, blocking, history>>

\* Mutant: the push does not wait for its turn.
PushPublishOutOfTurn(t) ==
    /\ Return(t, "push_publish")
    /\ m_consumer_head' = old[t] + 1
    /\ UNCHANGED <<m_capacity, m_elements, m_producer_head, m_producer_tail,
                   m_consumer_tail, history>>

PushPublish(t) ==
    /\ Return(t, "push_publish")
    /\ m_consumer_head = old[t]
    /\ m_consumer_head' = old[t] + 1
    /\ UNCHANGED <<m_capacity, m_elements, m_producer_head, m_producer_tail,
                   m_consumer_tail, history>>

\* The loop that waits for the turn reads the head again.
PushAwaitsTurn(t) ==
    /\ pc[t] = "push_publish" /\ m_consumer_head # old[t]
    /\ UNCHANGED vars

-----------------------------------------------------------------------------
(* pop() and try_pop(e).                                                   *)

BeginPop(t) ==
    /\ Goto(t, "idle", "pop_load")
    /\ \E b \in BOOLEAN : blocking' = [blocking EXCEPT ![t] = b]
    /\ UNCHANGED <<shared, old, arg, history>>

PopLoad(t) ==
    /\ Goto(t, "pop_load", "pop_check")
    /\ old' = [old EXCEPT ![t] = m_consumer_tail]
    /\ UNCHANGED <<shared, arg, blocking, history>>

\* Mutant: the test against m_consumer_head is off by one.
PopHasElementTooEarly(t) ==
    /\ m_capacity # 0 /\ old[t] <= m_consumer_head
    /\ Goto(t, "pop_check", "pop_cas")
    /\ UNCHANGED <<shared, old, arg, blocking, history>>

PopHasElement(t) ==
    /\ old[t] + 1 <= m_consumer_head
    /\ Goto(t, "pop_check", "pop_cas")
    /\ UNCHANGED <<shared, old, arg, blocking, history>>

PopRefused(t) ==
    /\ old[t] + 1 > m_consumer_head
    /\ Refuse(t, "pop_check", "pop_load")
    /\ UNCHANGED <<shared, history>>

PopClaim(t) ==
    /\ Goto(t, "pop_cas", "pop_read")
    /\ m_consumer_tail = old[t]
    /\ m_consumer_tail' = old[t] + 1
    /\ UNCHANGED <<m_capacity, m_elements, m_producer_head, m_producer_tail,
                   m_consumer_head, old, arg, blocking, history>>

\* Mutant: the CAS is repeated without loading the tail again.
PopClaimFailsNoReload(t) ==
    /\ Goto(t, "pop_cas", "pop_cas")
    /\ UNCHANGED <<shared, old, arg, blocking, history>>

PopClaimFails(t) ==
    /\ Goto(t, "pop_cas", "pop_check")
    /\ old' = [old EXCEPT ![t] = m_consumer_tail]
    /\ UNCHANGED <<shared, arg, blocking, history>>

\* The slot read is that of new_consumer_tail, one past the claimed ticket.
PopRead(t) ==
    /\ Goto(t, "pop_read", "pop_release")
    /\ delivered' = delivered \cup
            {<<old[t], m_elements[(old[t] + 1) % m_capacity]>>}
    /\ UNCHANGED <<shared, old, arg, blocking, pushed>>

\* Mutant: the pop waits on the tail that it has advanced itself.
PopReleaseWrongTail(t) ==
    /\ Return(t, "pop_release")
    /\ m_consumer_tail = old[t]
    /\ m_producer_tail' = old[t] + 1
    /\ UNCHANGED <<m_capacity, m_elements, m_producer_head, m_consumer_head,
                   m_consumer_tail, history>>

PopRelease(t) ==
    /\ Return(t, "pop_release")
    /\ m_producer_tail = old[t]
    /\ m_producer_tail' = old[t] + 1
    /\ UNCHANGED <<m_capacity, m_elements, m_producer_head, m_consumer_head,
                   m_consumer_tail, history>>

PopAwaitsTurn(t) ==
    /\ pc[t] = "pop_release" /\ m_producer_tail # old[t]
    /\ UNCHANGED vars

-----------------------------------------------------------------------------
\* Mutant: the loop of reset() has its bound off by one.
ResetOneTooMany ==
    /\ \A t \in Threads : pc[t] = "idle"
    /\ m_producer_head' = 0 /\ m_producer_tail' = 0
    /\ m_consumer_head' = 0 /\ m_consumer_tail' = 0
    /\ m_elements' = [s \in 0 .. m_capacity |-> Empty]
    /\ pushed' = <<>> /\ delivered' = {}
    /\ UNCHANGED <<m_capacity, local>>

\* reset() is called while no other call runs, between two runs of a solver.
Reset ==
    /\ \A t \in Threads : pc[t] = "idle"
    /\ m_producer_head' = 0 /\ m_producer_tail' = 0
    /\ m_consumer_head' = 0 /\ m_consumer_tail' = 0
    /\ m_elements' = [s \in 0 .. m_capacity - 1 |-> Empty]
    /\ pushed' = <<>> /\ delivered' = {}
    /\ UNCHANGED <<m_capacity, local>>

Push(t) ==
    \/ BeginPush(t) \/ PushLoad(t) \/ PushHasRoom(t) \/ PushRefused(t)
    \/ PushClaim(t) \/ PushClaimFails(t) \/ PushStore(t) \/ PushPublish(t)
    \/ PushAwaitsTurn(t)

Pop(t) ==
    \/ BeginPop(t) \/ PopLoad(t) \/ PopHasElement(t) \/ PopRefused(t)
    \/ PopClaim(t) \/ PopClaimFails(t) \/ PopRead(t) \/ PopRelease(t)
    \/ PopAwaitsTurn(t)

Next == Reset \/ \E t \in Threads : Push(t) \/ Pop(t)

Spec == Init /\ [][Next]_vars

(***************************************************************************)
(* Fairness.  A thread that runs is scheduled again (the spinning threads  *)
(* yield), so every enabled step of a call that has begun is eventually    *)
(* taken.  A weak CAS may fail spuriously, but not for ever: strong        *)
(* fairness of the two claims.  Nobody is obliged to begin a call.         *)
(***************************************************************************)
CallStep(t) == (Push(t) \/ Pop(t)) /\ pc[t] # "idle"

Fairness ==
    \A t \in Threads : /\ WF_vars(CallStep(t))
                       /\ SF_vars(PushClaim(t)) /\ SF_vars(PopClaim(t))

FairSpec == Spec /\ Fairness

-----------------------------------------------------------------------------
Pushing(t) == pc[t] \in {"push_store", "push_publish"}
Popping(t) == pc[t] \in {"pop_read", "pop_release"}

\* Every variable has its type; m_elements has exactly m_capacity slots.
TypeOK ==
    /\ m_capacity \in Capacities
    /\ m_elements \in [0 .. m_capacity - 1 -> Items \cup {Empty}]
    /\ m_producer_head \in Nat /\ m_producer_tail \in Nat
    /\ m_consumer_head \in Nat /\ m_consumer_tail \in Nat
    /\ pc \in [Threads -> {"idle"} \cup PushSteps \cup PopSteps]
    /\ old \in [Threads -> Nat]
    /\ arg \in [Threads -> Items \cup {Empty}]
    /\ blocking \in [Threads -> BOOLEAN]
    /\ pushed \in Seq(Items)
    /\ delivered \subseteq Nat \X (Items \cup {Empty})

\* The invariant the class comment states and check_invariants() asserts, and
\* what makes it a bounded queue: no more tickets are out than there are slots.
HeadsAndTailsOrdered ==
    /\ m_producer_tail <= m_consumer_tail
    /\ m_consumer_tail <= m_consumer_head
    /\ m_consumer_head <= m_producer_head
    /\ m_producer_head <= m_producer_tail + m_capacity

\* Two calls that have claimed a ticket never own the same slot: no store hits
\* a slot that another thread is storing into or has claimed to read.
SlotsExclusive ==
    \A t, u \in Threads :
        /\ t # u
        /\ Pushing(t) \/ Popping(t)
        /\ Pushing(u) \/ Popping(u)
        => old[t] % m_capacity # old[u] % m_capacity

\* An element that consumers can see, or that a pop has claimed and not yet read,
\* is in the slot of its ticket and is the one its push was called with:
\* m_consumer_head never passes a ticket whose store is pending, and no later push
\* overwrites a slot before the pop that owns it has read.
PublishedIntact ==
    /\ \A i \in m_consumer_tail .. m_consumer_head - 1 :
        m_elements[i % m_capacity] = pushed[i + 1]
    /\ \A t \in Threads :
        pc[t] = "pop_read" => m_elements[old[t] % m_capacity] = pushed[old[t] + 1]

\* With one slot, every pop returns the element pushed with its ticket.  (With
\* more, the slot try_pop reads belongs to the next ticket: see PopReturnsItem.)
DeliversInOrder ==
    m_capacity = 1 =>
        \A d \in delivered : d[1] < Len(pushed) /\ d[2] = pushed[d[1] + 1]

\* pop() asserts that what it returns is not T{}: `assert(e != T{})`.
PopReturnsItem == \A d \in delivered : d[2] # Empty

\* try_push returns false only at a moment when every slot is taken, and try_pop
\* only at a moment when no element is visible, although each decides with a
\* head or tail that it loaded earlier.
RefusesOnlyWhenFullOrEmpty ==
    [][\A t \in Threads :
        /\ PushRefused(t) => m_producer_head = m_producer_tail + m_capacity
        /\ PopRefused(t) => m_consumer_head = m_consumer_tail]_vars

-----------------------------------------------------------------------------
(***************************************************************************)
(* The inductive invariant behind the safety properties: what the locals   *)
(* of a call in flight say about the shared heads and tails.               *)
(***************************************************************************)

\* A head or tail that was loaded is never ahead of the current one, and what
\* the capacity and visibility tests established stays true until the CAS.
LoadedValuesStale ==
    \A t \in Threads :
        /\ pc[t] = "push_check" => old[t] <= m_producer_head
        /\ pc[t] = "push_cas" => old[t] + 1 <= m_producer_tail + m_capacity
        /\ pc[t] = "pop_check" => old[t] <= m_consumer_tail
        /\ pc[t] = "pop_cas" => old[t] + 1 <= m_consumer_head

\* Claimed tickets lie between the counter they wait for and the one they took
\* them from, and no two calls own the same ticket.
TicketsOwned ==
    /\ \A t \in Threads :
        /\ Pushing(t) => m_consumer_head <= old[t] /\ old[t] < m_producer_head
        /\ Popping(t) => m_producer_tail <= old[t] /\ old[t] < m_consumer_tail
    /\ \A t, u \in Threads :
        /\ t # u /\ Pushing(t) /\ Pushing(u) => old[t] # old[u]
        /\ t # u /\ Popping(t) /\ Popping(u) => old[t] # old[u]

\* What a push is about to publish is in its slot; the histories agree with the
\* tickets handed out.
StoresPending ==
    /\ Len(pushed) = m_producer_head
    /\ \A d \in delivered : d[1] < m_producer_head
    /\ \A t \in Threads :
        /\ pc[t] \in PushSteps => arg[t] \in Items
        /\ Pushing(t) => pushed[old[t] + 1] = arg[t]
        /\ pc[t] = "push_publish" => m_elements[old[t] % m_capacity] = arg[t]

IInv ==
    /\ TypeOK
    /\ HeadsAndTailsOrdered
    /\ LoadedValuesStale
    /\ TicketsOwned
    /\ StoresPending
    /\ PublishedIntact

-----------------------------------------------------------------------------
\* The visible part of the buffer behaves like a bounded first-in-first-out
\* queue: publishing enqueues, the claim of a pop dequeues.
FIFO == INSTANCE BoundedFIFO WITH
            queue <- SubSeq(pushed, m_consumer_tail + 1, m_consumer_head),
            capacity <- m_capacity
ImplementsFIFO == FIFO!FifoSpec

\* A call that has claimed a ticket returns: nobody waits for ever for the turn
\* of a ticket before it.
ClaimedCallsReturn ==
    \A t \in Threads : (Pushing(t) \/ Popping(t)) ~> pc[t] = "idle"

\* The calls are lock-free as far as claiming goes: while a thread is in push()
\* and there is room, or in pop() and an element is visible, some claim succeeds.
ClaimsAreLockFree ==
    \A n \in 0 .. MaxTickets - 1 :
        /\ /\ m_producer_head = n /\ n < m_producer_tail + m_capacity
           /\ \E t \in Threads : blocking[t] /\ pc[t] \in {"push_load", "push_check", "push_cas"}
           ~> m_producer_head # n
        /\ /\ m_consumer_tail = n /\ n < m_consumer_head
           /\ \E t \in Threads : blocking[t] /\ pc[t] \in {"pop_load", "pop_check", "pop_cas"}
           ~> m_consumer_tail # n
=============================================================================

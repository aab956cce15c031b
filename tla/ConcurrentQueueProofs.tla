----------------------- MODULE ConcurrentQueueProofs -----------------------
(***************************************************************************)
(* Proofs about ConcurrentQueue for every set of threads, every set of     *)
(* elements, every capacity and every number of tickets.                   *)
(***************************************************************************)
EXTENDS ConcurrentQueue, SequenceTheorems, TLAPS

\* Two tickets less than the capacity apart have different slots.
LEMMA SlotsDiffer ==
    ASSUME NEW c \in Nat, NEW i \in Nat, NEW j \in Nat, i < j, j < i + c
    PROVE  i % c # j % c
<1>1. c > 0
    OBVIOUS
<1>2. i = c * (i \div c) + (i % c) /\ i \div c \in Nat
    BY <1>1
<1>3. j = c * (j \div c) + (j % c) /\ j \div c \in Nat
    BY <1>1
<1> DEFINE p == i \div c
           q == j \div c
<1>4. SUFFICES ASSUME i % c = j % c PROVE FALSE
    OBVIOUS
<1>5. j - i = c * q - c * p
    BY <1>2, <1>3, <1>4
<1> HIDE DEF p, q
<1>6. p \in Nat /\ q \in Nat
    BY <1>2, <1>3 DEF p, q
<1>7. CASE q <= p
    <2>1. c * q <= c * p
        BY <1>6, <1>7, <1>1
    <2> QED BY <2>1, <1>5, <1>6, <1>1
<1>8. CASE q > p
    <2>1. c * q >= c * (p + 1)
        BY <1>6, <1>8, <1>1
    <2>2. c * (p + 1) = c * p + c
        BY <1>6, <1>1
    <2> QED BY <2>1, <2>2, <1>5, <1>6, <1>1
<1> QED BY <1>6, <1>7, <1>8
-----------------------------------------------------------------------------
\* The initial states satisfy the inductive invariant.
LEMMA InitIInv == Init => IInv
<1> SUFFICES ASSUME Init PROVE IInv
    OBVIOUS
<1>0. \A t \in Threads : pc[t] = "idle" /\ ~Pushing(t) /\ ~Popping(t) /\ pc[t] \notin PushSteps
    BY DEF Init, Pushing, Popping, PushSteps, PopSteps
<1>1. TypeOK
    BY QueueAssumption DEF Init, TypeOK
<1>2. HeadsAndTailsOrdered
    <2>1. m_capacity \in Nat
        BY QueueAssumption DEF Init
    <2> QED BY <2>1 DEF Init, HeadsAndTailsOrdered
<1>3. LoadedValuesStale
    BY <1>0 DEF LoadedValuesStale
<1>4. TicketsOwned
    BY <1>0 DEF TicketsOwned
<1>5. StoresPending
    BY <1>0 DEF Init, StoresPending
<1>6. PublishedIntact
    BY <1>0 DEF Init, PublishedIntact
<1> QED BY <1>1, <1>2, <1>3, <1>4, <1>5, <1>6 DEF IInv

\* The steps that change nothing but the locals of one call.
LEMMA LocalStepIInv ==
    ASSUME IInv, NEW t \in Threads,
           \/ BeginPush(t) \/ PushLoad(t) \/ PushHasRoom(t) \/ PushRefused(t) \/ PushClaimFails(t)
           \/ BeginPop(t) \/ PopLoad(t) \/ PopHasElement(t) \/ PopRefused(t) \/ PopClaimFails(t)
    PROVE  IInv'
<1> USE QueueAssumption DEF IInv
<1>1. UNCHANGED <<shared, history>>
    BY DEF BeginPush, PushLoad, PushHasRoom, PushRefused, PushClaimFails, BeginPop, PopLoad,
           PopHasElement, PopRefused, PopClaimFails
<1>2. CASE BeginPush(t)
    BY <1>1, <1>2 DEF BeginPush, Goto, shared, history, TypeOK, HeadsAndTailsOrdered, LoadedValuesStale,
       TicketsOwned, StoresPending, PublishedIntact, Pushing, Popping, PushSteps, PopSteps
<1>3. CASE PushLoad(t)
    BY <1>1, <1>3 DEF PushLoad, Goto, shared, history, TypeOK, HeadsAndTailsOrdered, LoadedValuesStale,
       TicketsOwned, StoresPending, PublishedIntact, Pushing, Popping, PushSteps, PopSteps
<1>4. CASE PushHasRoom(t)
    BY <1>1, <1>4 DEF PushHasRoom, Goto, shared, history, TypeOK, HeadsAndTailsOrdered, LoadedValuesStale,
       TicketsOwned, StoresPending, PublishedIntact, Pushing, Popping, PushSteps, PopSteps
<1>5. CASE PushRefused(t)
    <2>1. CASE Return(t, "push_check")
        BY <1>1, <2>1 DEF Return, Goto, shared, history, TypeOK, HeadsAndTailsOrdered, LoadedValuesStale,
           TicketsOwned, StoresPending, PublishedIntact, Pushing, Popping, PushSteps, PopSteps
    <2>2. CASE Goto(t, "push_check", "push_load") /\ UNCHANGED <<old, arg, blocking>>
        BY <1>1, <2>2 DEF Goto, shared, history, TypeOK, HeadsAndTailsOrdered, LoadedValuesStale,
           TicketsOwned, StoresPending, PublishedIntact, Pushing, Popping, PushSteps, PopSteps
    <2> QED BY <1>5, <2>1, <2>2 DEF PushRefused, Refuse
<1>6. CASE PushClaimFails(t)
    BY <1>1, <1>6 DEF PushClaimFails, Goto, shared, history, TypeOK, HeadsAndTailsOrdered, LoadedValuesStale,
       TicketsOwned, StoresPending, PublishedIntact, Pushing, Popping, PushSteps, PopSteps
<1>7. CASE BeginPop(t)
    BY <1>1, <1>7 DEF BeginPop, Goto, shared, history, TypeOK, HeadsAndTailsOrdered, LoadedValuesStale,
       TicketsOwned, StoresPending, PublishedIntact, Pushing, Popping, PushSteps, PopSteps
<1>8. CASE PopLoad(t)
    BY <1>1, <1>8 DEF PopLoad, Goto, shared, history, TypeOK, HeadsAndTailsOrdered, LoadedValuesStale,
       TicketsOwned, StoresPending, PublishedIntact, Pushing, Popping, PushSteps, PopSteps
<1>9. CASE PopHasElement(t)
    BY <1>1, <1>9 DEF PopHasElement, Goto, shared, history, TypeOK, HeadsAndTailsOrdered, LoadedValuesStale,
       TicketsOwned, StoresPending, PublishedIntact, Pushing, Popping, PushSteps, PopSteps
<1>10. CASE PopRefused(t)
    <2>1. CASE Return(t, "pop_check")
        BY <1>1, <2>1 DEF Return, Goto, shared, history, TypeOK, HeadsAndTailsOrdered, LoadedValuesStale,
           TicketsOwned, StoresPending, PublishedIntact, Pushing, Popping, PushSteps, PopSteps
    <2>2. CASE Goto(t, "pop_check", "pop_load") /\ UNCHANGED <<old, arg, blocking>>
        BY <1>1, <2>2 DEF Goto, shared, history, TypeOK, HeadsAndTailsOrdered, LoadedValuesStale,
           TicketsOwned, StoresPending, PublishedIntact, Pushing, Popping, PushSteps, PopSteps
    <2> QED BY <1>10, <2>1, <2>2 DEF PopRefused, Refuse
<1>11. CASE PopClaimFails(t)
    BY <1>1, <1>11 DEF PopClaimFails, Goto, shared, history, TypeOK, HeadsAndTailsOrdered, LoadedValuesStale,
       TicketsOwned, StoresPending, PublishedIntact, Pushing, Popping, PushSteps, PopSteps
<1> QED BY <1>2, <1>3, <1>4, <1>5, <1>6, <1>7, <1>8, <1>9, <1>10, <1>11

\* A thread that owns a ticket shows that there is at least one slot.
LEMMA OwnerHasSlot ==
    ASSUME IInv, NEW t \in Threads, Pushing(t) \/ Popping(t)
    PROVE  /\ m_capacity \in Nat \ {0}
           /\ old[t] \in Nat
           /\ old[t] % m_capacity \in 0 .. m_capacity - 1
           /\ (old[t] + 1) % m_capacity \in 0 .. m_capacity - 1
<1>1. m_capacity \in Nat \ {0} /\ old[t] \in Nat
    BY QueueAssumption DEF IInv, TypeOK, HeadsAndTailsOrdered, TicketsOwned
<1> QED BY <1>1

\* A push takes the next ticket.
LEMMA PushClaimIInv ==
    ASSUME IInv, NEW t \in Threads, PushClaim(t)
    PROVE  IInv'
<1> USE QueueAssumption DEF IInv, PushClaim, shared, history, Goto, Pushing, Popping, PushSteps, PopSteps
<1>0. arg[t] \in Items /\ pushed \in Seq(Items) /\ Len(pushed) = m_producer_head
    BY DEF StoresPending, TypeOK
<1>1. /\ pushed' \in Seq(Items) /\ Len(pushed') = m_producer_head'
      /\ pushed'[m_producer_head + 1] = arg[t]
      /\ \A i \in 1 .. m_producer_head : pushed'[i] = pushed[i]
    BY <1>0
<1>2. TypeOK'
    BY <1>1 DEF TypeOK
<1>3. HeadsAndTailsOrdered'
    BY DEF TypeOK, HeadsAndTailsOrdered, LoadedValuesStale
<1>4. LoadedValuesStale'
    BY DEF TypeOK, LoadedValuesStale
<1>5. TicketsOwned'
    BY DEF TypeOK, HeadsAndTailsOrdered, TicketsOwned
<1>6. StoresPending'
    BY <1>1 DEF TypeOK, TicketsOwned, StoresPending
<1>7. PublishedIntact'
    <2>1. ASSUME NEW i \in m_consumer_tail .. m_consumer_head - 1
          PROVE  m_elements[i % m_capacity] = pushed'[i + 1]
        <3>1. i + 1 \in 1 .. m_producer_head
            BY DEF TypeOK, HeadsAndTailsOrdered
        <3> QED BY <3>1, <1>1 DEF PublishedIntact
    <2>2. ASSUME NEW u \in Threads, pc'[u] = "pop_read"
          PROVE  m_elements[old[u] % m_capacity] = pushed'[old[u] + 1]
        <3>1. pc[u] = "pop_read" /\ old[u] + 1 \in 1 .. m_producer_head
            BY <2>2 DEF TypeOK, HeadsAndTailsOrdered, TicketsOwned
        <3> QED BY <3>1, <1>1 DEF PublishedIntact
    <2> QED BY <2>1, <2>2 DEF PublishedIntact
<1> QED BY <1>2, <1>3, <1>4, <1>5, <1>6, <1>7

\* A push stores into the slot of its ticket, which no visible or pending
\* ticket shares.
LEMMA PushStoreIInv ==
    ASSUME IInv, NEW t \in Threads, PushStore(t)
    PROVE  IInv'
<1> USE QueueAssumption DEF IInv, PushStore, shared, history, Goto, Pushing, Popping, PushSteps, PopSteps
<1> DEFINE slot == old[t] % m_capacity
<1>0. /\ m_capacity \in Nat \ {0} /\ old[t] \in Nat /\ slot \in 0 .. m_capacity - 1
    BY OwnerHasSlot
<1>1. arg[t] \in Items /\ pushed[old[t] + 1] = arg[t]
    BY DEF StoresPending
<1>2. TypeOK'
    BY <1>0, <1>1 DEF TypeOK
<1>3. HeadsAndTailsOrdered'
    BY DEF HeadsAndTailsOrdered
<1>4. LoadedValuesStale'
    BY DEF TypeOK, LoadedValuesStale
<1>5. TicketsOwned'
    BY DEF TypeOK, TicketsOwned
<1>6. ASSUME NEW i \in Nat, i # old[t],
             m_producer_tail <= i, i < m_producer_head
      PROVE  m_elements'[i % m_capacity] = m_elements[i % m_capacity]
    <2>1. /\ m_producer_tail \in Nat /\ m_producer_head \in Nat
          /\ m_producer_tail <= old[t] /\ old[t] < m_producer_head
          /\ m_producer_head <= m_producer_tail + m_capacity
        BY DEF TypeOK, TicketsOwned, HeadsAndTailsOrdered
    <2>2. i % m_capacity # slot
        <3>1. m_capacity \in Nat /\ old[t] \in Nat /\ old[t] < i + m_capacity /\ i < old[t] + m_capacity
            BY <1>0, <1>6, <2>1
        <3>2. CASE i < old[t]
            <4>1. i % m_capacity # old[t] % m_capacity
                BY ONLY <1>6, <3>1, <3>2, SlotsDiffer
            <4> QED BY <4>1
        <3>3. CASE old[t] < i
            <4>1. i % m_capacity # old[t] % m_capacity
                BY ONLY <1>6, <3>1, <3>3, SlotsDiffer
            <4> QED BY <4>1
        <3> QED BY ONLY <1>6, <3>1, <3>2, <3>3
    <2>3. i % m_capacity \in 0 .. m_capacity - 1
        BY <1>0, <1>6
    <2> HIDE DEF slot
    <2> QED BY <2>2, <2>3 DEF TypeOK, slot
<1>7. m_elements'[slot] = arg[t]
    BY <1>0 DEF TypeOK
<1>8. StoresPending'
    <2> SUFFICES ASSUME NEW u \in Threads
                 PROVE  /\ pc'[u] \in PushSteps => arg[u] \in Items
                        /\ Pushing(u)' => pushed[old[u] + 1] = arg[u]
                        /\ pc'[u] = "push_publish" => m_elements'[old[u] % m_capacity] = arg[u]
        BY DEF StoresPending
    <2>1. pc'[u] \in PushSteps => arg[u] \in Items
        BY DEF StoresPending, TypeOK
    <2>2. Pushing(u)' => pushed[old[u] + 1] = arg[u]
        BY DEF StoresPending, TypeOK
    <2>3. CASE u = t
        BY <2>1, <2>2, <2>3, <1>7
    <2>4. CASE u # t /\ pc[u] = "push_publish"
        <3>1. /\ old[u] \in Nat /\ old[u] # old[t]
              /\ m_producer_tail <= old[u] /\ old[u] < m_producer_head
            BY <2>4 DEF TypeOK, TicketsOwned, HeadsAndTailsOrdered
        <3>2. m_elements'[old[u] % m_capacity] = m_elements[old[u] % m_capacity]
            BY <3>1, <1>6
        <3> QED BY <2>1, <2>2, <2>4, <3>2 DEF StoresPending
    <2>5. CASE u # t /\ pc[u] # "push_publish"
        BY <2>1, <2>2, <2>5 DEF TypeOK
    <2> QED BY <2>3, <2>4, <2>5
<1>9. PublishedIntact'
    <2>1. ASSUME NEW i \in m_consumer_tail .. m_consumer_head - 1
          PROVE  m_elements'[i % m_capacity] = pushed[i + 1]
        <3>1. /\ i \in Nat /\ i # old[t]
              /\ m_producer_tail <= i /\ i < m_producer_head
            BY DEF TypeOK, TicketsOwned, HeadsAndTailsOrdered
        <3>2. m_elements'[i % m_capacity] = m_elements[i % m_capacity]
            BY <3>1, <1>6
        <3> QED BY <3>2 DEF PublishedIntact
    <2>2. ASSUME NEW u \in Threads, pc'[u] = "pop_read"
          PROVE  m_elements'[old[u] % m_capacity] = pushed[old[u] + 1]
        <3>1. /\ pc[u] = "pop_read" /\ old[u] \in Nat /\ old[u] # old[t]
              /\ m_producer_tail <= old[u] /\ old[u] < m_producer_head
            BY <2>2 DEF TypeOK, TicketsOwned, HeadsAndTailsOrdered
        <3>2. m_elements'[old[u] % m_capacity] = m_elements[old[u] % m_capacity]
            BY <3>1, <1>6
        <3> QED BY <3>1, <3>2 DEF PublishedIntact
    <2> QED BY <2>1, <2>2 DEF PublishedIntact
<1> QED BY <1>2, <1>3, <1>4, <1>5, <1>8, <1>9

\* A push makes its ticket visible.
LEMMA PushPublishIInv ==
    ASSUME IInv, NEW t \in Threads, PushPublish(t)
    PROVE  IInv'
<1> USE QueueAssumption DEF IInv, PushPublish, shared, history, Return, Goto, Pushing, Popping, PushSteps, PopSteps
<1>1. TypeOK'
    BY DEF TypeOK
<1>2. HeadsAndTailsOrdered'
    BY DEF TypeOK, HeadsAndTailsOrdered, TicketsOwned
<1>3. LoadedValuesStale'
    BY DEF TypeOK, LoadedValuesStale
<1>4. TicketsOwned'
    BY DEF TypeOK, TicketsOwned
<1>5. StoresPending'
    BY DEF TypeOK, StoresPending
<1>6. PublishedIntact'
    <2>1. ASSUME NEW i \in m_consumer_tail .. m_consumer_head
          PROVE  m_elements[i % m_capacity] = pushed[i + 1]
        <3>1. CASE i = m_consumer_head
            BY <3>1 DEF StoresPending
        <3>2. CASE i # m_consumer_head
            BY <3>2 DEF PublishedIntact, TypeOK
        <3> QED BY <3>1, <3>2
    <2> QED BY <2>1 DEF PublishedIntact, TypeOK
<1> QED BY <1>1, <1>2, <1>3, <1>4, <1>5, <1>6

\* A pop takes the oldest visible ticket.
LEMMA PopClaimIInv ==
    ASSUME IInv, NEW t \in Threads, PopClaim(t)
    PROVE  IInv'
<1> USE QueueAssumption DEF IInv, PopClaim, shared, history, Goto, Pushing, Popping, PushSteps, PopSteps
<1>1. TypeOK'
    BY DEF TypeOK
<1>2. HeadsAndTailsOrdered'
    BY DEF TypeOK, HeadsAndTailsOrdered, LoadedValuesStale
<1>3. LoadedValuesStale'
    BY DEF TypeOK, LoadedValuesStale
<1>4. TicketsOwned'
    BY DEF TypeOK, HeadsAndTailsOrdered, TicketsOwned
<1>5. StoresPending'
    BY DEF TypeOK, StoresPending
<1>6. PublishedIntact'
    <2>1. /\ m_consumer_tail \in m_consumer_tail .. m_consumer_head - 1
          /\ old[t] = m_consumer_tail /\ m_consumer_tail' = m_consumer_tail + 1
        BY DEF TypeOK, LoadedValuesStale
    <2>2. \A i \in m_consumer_tail' .. m_consumer_head - 1 :
                m_elements[i % m_capacity] = pushed[i + 1]
        BY <2>1 DEF TypeOK, PublishedIntact
    <2>3. ASSUME NEW u \in Threads, pc'[u] = "pop_read"
          PROVE  m_elements[old[u] % m_capacity] = pushed[old[u] + 1]
        <3>1. u = t \/ pc[u] = "pop_read"
            BY <2>3 DEF TypeOK
        <3> QED BY <2>1, <3>1 DEF PublishedIntact
    <2> QED BY <2>2, <2>3 DEF PublishedIntact
<1> QED BY <1>1, <1>2, <1>3, <1>4, <1>5, <1>6

\* A pop reads, whichever slot it is.
LEMMA PopReadIInv ==
    ASSUME IInv, NEW t \in Threads, PopRead(t)
    PROVE  IInv'
<1> USE QueueAssumption DEF IInv, PopRead, shared, history, Goto, Pushing, Popping, PushSteps, PopSteps
<1> DEFINE slot == (old[t] + 1) % m_capacity
<1>0. slot \in 0 .. m_capacity - 1
    BY OwnerHasSlot
<1>1. TypeOK'
    <2> HIDE DEF slot
    <2>1. m_elements[slot] \in Items \cup {Empty} /\ old[t] \in Nat
        BY <1>0 DEF TypeOK
    <2>2. delivered' = delivered \cup {<<old[t], m_elements[slot]>>}
        BY DEF slot
    <2> QED BY <2>1, <2>2 DEF TypeOK
<1>2. HeadsAndTailsOrdered'
    BY DEF HeadsAndTailsOrdered
<1>3. LoadedValuesStale'
    BY DEF TypeOK, LoadedValuesStale
<1>4. TicketsOwned'
    BY DEF TypeOK, TicketsOwned
<1>5. StoresPending'
    BY DEF TypeOK, TicketsOwned, HeadsAndTailsOrdered, StoresPending
<1>6. PublishedIntact'
    BY DEF TypeOK, PublishedIntact
<1> QED BY <1>1, <1>2, <1>3, <1>4, <1>5, <1>6

\* A pop gives its slot back.
LEMMA PopReleaseIInv ==
    ASSUME IInv, NEW t \in Threads, PopRelease(t)
    PROVE  IInv'
<1> USE QueueAssumption DEF IInv, PopRelease, shared, history, Return, Goto, Pushing, Popping, PushSteps, PopSteps
<1>1. TypeOK'
    BY DEF TypeOK
<1>2. HeadsAndTailsOrdered'
    BY DEF TypeOK, HeadsAndTailsOrdered, TicketsOwned
<1>3. LoadedValuesStale'
    BY DEF TypeOK, LoadedValuesStale
<1>4. TicketsOwned'
    BY DEF TypeOK, TicketsOwned
<1>5. StoresPending'
    BY DEF TypeOK, StoresPending
<1>6. PublishedIntact'
    BY DEF TypeOK, PublishedIntact
<1> QED BY <1>1, <1>2, <1>3, <1>4, <1>5, <1>6

\* Nothing is in flight when the queue is reset.
LEMMA ResetIInv ==
    ASSUME IInv, Reset
    PROVE  IInv'
<1> USE QueueAssumption DEF IInv, Reset, local, shared, history
<1>1. TypeOK'
    BY DEF TypeOK
<1>2. HeadsAndTailsOrdered'
    BY DEF TypeOK, HeadsAndTailsOrdered
<1>3. LoadedValuesStale' /\ TicketsOwned' /\ StoresPending'
    BY DEF LoadedValuesStale, TicketsOwned, StoresPending, Pushing, Popping, PushSteps
<1>4. PublishedIntact'
    BY DEF PublishedIntact
<1> QED BY <1>1, <1>2, <1>3, <1>4
-----------------------------------------------------------------------------
\* The whole induction step.
LEMMA NextIInv == IInv /\ [Next]_vars => IInv'
<1> SUFFICES ASSUME IInv, [Next]_vars PROVE IInv'
    OBVIOUS
<1>1. CASE Reset
    BY <1>1, ResetIInv
<1>2. CASE UNCHANGED vars
    BY <1>2 DEF vars, shared, local, history, IInv, TypeOK, HeadsAndTailsOrdered,
                LoadedValuesStale, TicketsOwned, StoresPending, PublishedIntact, Pushing, Popping
<1>3. ASSUME NEW t \in Threads, Push(t)
      PROVE  IInv'
    BY <1>2, <1>3, LocalStepIInv, PushClaimIInv, PushStoreIInv, PushPublishIInv
       DEF Push, PushAwaitsTurn
<1>4. ASSUME NEW t \in Threads, Pop(t)
      PROVE  IInv'
    BY <1>2, <1>4, LocalStepIInv, PopClaimIInv, PopReadIInv, PopReleaseIInv
       DEF Pop, PopAwaitsTurn
<1> QED BY <1>1, <1>2, <1>3, <1>4 DEF Next

\* Every reachable state satisfies it.
THEOREM Invariance == Spec => []IInv
BY InitIInv, NextIInv, PTL DEF Spec

\* Every variable keeps its type, whatever the threads, elements and capacities.
THEOREM TypeCorrect == Spec => []TypeOK
BY Invariance, PTL DEF IInv

\* The invariant that the class comment of concurrent_queue.hpp states.
THEOREM OrderOfHeadsAndTails == Spec => []HeadsAndTailsOrdered
BY Invariance, PTL DEF IInv

\* Consumers only ever see, and claim, elements that are completely stored.
THEOREM PublishedElementsAreIntact == Spec => []PublishedIntact
BY Invariance, PTL DEF IInv

\* The inductive invariant implies that no two calls own the same slot: owned
\* tickets are distinct and less than the capacity apart.
THEOREM ExclusiveSlots == Spec => []SlotsExclusive
<1>1. IInv => SlotsExclusive
    <2> SUFFICES ASSUME IInv, NEW t \in Threads, NEW u \in Threads, t # u,
                        Pushing(t) \/ Popping(t), Pushing(u) \/ Popping(u)
                 PROVE  old[t] % m_capacity # old[u] % m_capacity
        BY DEF SlotsExclusive
    <2>1. /\ m_capacity \in Nat /\ old[t] \in Nat /\ old[u] \in Nat
          /\ old[t] < old[u] + m_capacity /\ old[u] < old[t] + m_capacity
        BY QueueAssumption DEF IInv, TypeOK, HeadsAndTailsOrdered, TicketsOwned
    <2>2. old[t] # old[u]
        BY DEF IInv, TypeOK, HeadsAndTailsOrdered, TicketsOwned, Pushing, Popping
    <2>3. CASE old[t] < old[u]
        BY ONLY <2>1, <2>3, SlotsDiffer
    <2>4. CASE old[u] < old[t]
        BY ONLY <2>1, <2>4, SlotsDiffer
    <2> QED BY ONLY <2>1, <2>2, <2>3, <2>4
<1> QED BY <1>1, Invariance, PTL

\* try_push and try_pop refuse only when the queue is full or empty.
THEOREM RefusalsAreJustified == Spec => RefusesOnlyWhenFullOrEmpty
<1>1. IInv => \A t \in Threads :
        /\ PushRefused(t) => m_producer_head = m_producer_tail + m_capacity
        /\ PopRefused(t) => m_consumer_head = m_consumer_tail
    BY QueueAssumption DEF IInv, TypeOK, HeadsAndTailsOrdered, LoadedValuesStale, PushRefused,
       PopRefused, Refuse, Return, Goto
<1> QED BY <1>1, Invariance, PTL DEF RefusesOnlyWhenFullOrEmpty

\* A queue with a single slot delivers what was pushed, in order.
THEOREM SingleSlotDelivers == Spec => []DeliversInOrder
<1>1. Init => DeliversInOrder
    BY DEF Init, DeliversInOrder
<1>2. IInv /\ DeliversInOrder /\ [Next]_vars => DeliversInOrder'
    <2> SUFFICES ASSUME IInv, DeliversInOrder, [Next]_vars, m_capacity' = 1,
                        NEW d \in delivered'
                 PROVE  d[1] < Len(pushed') /\ d[2] = pushed'[d[1] + 1]
        BY DEF DeliversInOrder
    <2>0. d[1] < Len(pushed')
        BY NextIInv DEF IInv, StoresPending
    <2>1. CASE Reset
        BY <2>1 DEF Reset
    <2>2. ASSUME NEW t \in Threads, PushClaim(t)
          PROVE  d[2] = pushed'[d[1] + 1]
        <3>1. /\ d \in delivered /\ m_capacity = 1 /\ arg[t] \in Items
              /\ d[1] \in Nat /\ d[1] + 1 <= Len(pushed) /\ pushed \in Seq(Items)
            BY <2>2 DEF PushClaim, Goto, IInv, TypeOK, StoresPending, PushSteps
        <3>2. pushed'[d[1] + 1] = pushed[d[1] + 1]
            BY <2>2, <3>1 DEF PushClaim
        <3> QED BY <3>1, <3>2 DEF DeliversInOrder
    <2>3. ASSUME NEW t \in Threads, PopRead(t)
          PROVE  d[2] = pushed'[d[1] + 1]
        <3>1. /\ m_capacity = 1 /\ pushed' = pushed /\ old[t] \in Nat /\ pc[t] = "pop_read"
              /\ delivered' = delivered \cup {<<old[t], m_elements[(old[t] + 1) % m_capacity]>>}
            BY <2>3 DEF PopRead, Goto, shared, IInv, TypeOK
        <3>2. (old[t] + 1) % 1 = old[t] % 1
            BY <3>1
        <3>3. m_elements[(old[t] + 1) % m_capacity] = pushed[old[t] + 1]
            BY <3>1, <3>2 DEF IInv, PublishedIntact
        <3> QED BY <3>1, <3>3 DEF DeliversInOrder
    <2>4. CASE UNCHANGED <<m_capacity, pushed, delivered>>
        BY <2>4 DEF DeliversInOrder
    <2> QED
        BY <2>0, <2>1, <2>2, <2>3, <2>4 DEF Next, Push, Pop, BeginPush, PushLoad, PushHasRoom,
           PushRefused, PushClaimFails, PushStore, PushPublish, BeginPop, PopLoad,
           PopHasElement, PopRefused, PopClaim, PopClaimFails, PopRelease,
           PushAwaitsTurn, PopAwaitsTurn, vars, shared, history
<1> QED BY <1>1, <1>2, Invariance, PTL DEF Spec
-----------------------------------------------------------------------------
(***************************************************************************)
(* The refinement of BoundedFIFO.                                          *)
(***************************************************************************)
\* A window of a sequence grows at its end.
LEMMA WindowGrows ==
    ASSUME NEW S, NEW s \in Seq(S), NEW m \in Nat, NEW n \in Nat, m <= n, n < Len(s)
    PROVE  /\ Len(SubSeq(s, m + 1, n)) = n - m
           /\ SubSeq(s, m + 1, n + 1) = Append(SubSeq(s, m + 1, n), s[n + 1])
<1>1. SubSeq(s, m + 1, n) \in Seq(S) /\ Len(SubSeq(s, m + 1, n)) = n - m
    <2>1. \A i \in m + 1 .. n : s[i] \in S
        OBVIOUS
    <2>2. m + 1 \in Int /\ n \in Int
        OBVIOUS
    <2> QED BY <2>1, <2>2, SubSeqProperties
<1>2. SubSeq(s, m + 1, n + 1) = SubSeq(s, m + 1, n) \o <<s[n + 1]>>
    <2>1. m + 1 \in 1 .. Len(s) /\ n + 1 \in m + 1 .. Len(s) /\ (n + 1) - 1 = n
        OBVIOUS
    <2> QED BY <2>1, SubSeqRecursiveSecond
<1>3. s[n + 1] \in S
    OBVIOUS
<1> QED BY <1>1, <1>2, <1>3, AppendIsConcat

\* A window shrinks at its front.
LEMMA WindowShrinks ==
    ASSUME NEW S, NEW s \in Seq(S), NEW m \in Nat, NEW n \in Nat, m < n, n <= Len(s)
    PROVE  /\ SubSeq(s, m + 1, n) # <<>>
           /\ SubSeq(s, m + 2, n) = Tail(SubSeq(s, m + 1, n))
<1>1. Len(SubSeq(s, m + 1, n)) = n - m
    <2>1. \A i \in m + 1 .. n : s[i] \in S
        OBVIOUS
    <2>2. m + 1 \in Int /\ n \in Int
        OBVIOUS
    <2> QED BY <2>1, <2>2, SubSeqProperties
<1>2. SubSeq(s, m + 1, n) # <<>>
    BY <1>1
<1>3. m + 1 \in 1 .. Len(s) /\ n \in m + 1 .. Len(s) /\ (m + 1) + 1 = m + 2
    OBVIOUS
<1>4. Tail(SubSeq(s, m + 1, n)) = SubSeq(s, (m + 1) + 1, n)
    BY <1>3, HeadTailOfSubSeq
<1> QED BY <1>2, <1>3, <1>4

\* A window does not see what is appended behind it.
LEMMA WindowIgnoresAppend ==
    ASSUME NEW S, NEW s \in Seq(S), NEW e \in S, NEW m \in Nat, NEW n \in Nat,
           m <= n, n <= Len(s)
    PROVE  SubSeq(Append(s, e), m + 1, n) = SubSeq(s, m + 1, n)
<1>1. CASE m = n
    <2>1. m + 1 \in Int /\ n \in Int /\ n < m + 1
        BY <1>1
    <2> QED BY <2>1, SubSeqEmpty
<1>2. CASE m < n
    <2>1. Append(s, e) = s \o <<e>> /\ <<e>> \in Seq(S)
        BY AppendIsConcat
    <2>2. m + 1 \in 1 .. Len(s) /\ n \in 1 .. Len(s)
        BY <1>2
    <2> QED BY <2>1, <2>2, SubSeqOfConcat1
<1> QED BY <1>1, <1>2

\* Every step of the queue is a step of the bounded FIFO or leaves it unchanged.
LEMMA FIFOStep ==
    ASSUME IInv, [Next]_vars
    PROVE  [FIFO!FifoNext]_(FIFO!fifoVars)
<1> DEFINE visible == SubSeq(pushed, m_consumer_tail + 1, m_consumer_head)
<1> USE DEF FIFO!FifoNext, FIFO!fifoVars, FIFO!Enqueue, FIFO!Dequeue, FIFO!Clear
<1>0. /\ pushed \in Seq(Items) /\ Len(pushed) = m_producer_head /\ m_capacity \in Nat
      /\ m_producer_tail \in Nat /\ m_producer_head \in Nat
      /\ m_consumer_tail \in Nat /\ m_consumer_head \in Nat
      /\ m_producer_tail <= m_consumer_tail /\ m_consumer_tail <= m_consumer_head
      /\ m_consumer_head <= m_producer_head
      /\ m_producer_head <= m_producer_tail + m_capacity
    BY QueueAssumption DEF IInv, TypeOK, HeadsAndTailsOrdered, StoresPending
<1>1. CASE Reset
    <2>1. SubSeq(<<>>, 1, 0) = <<>>
        BY SubSeqEmpty
    <2>2. visible' = <<>> /\ m_capacity' = m_capacity
        BY <1>1, <2>1 DEF Reset
    <2> QED BY <2>2
<1>2. ASSUME NEW t \in Threads, PushClaim(t)
      PROVE  visible' = visible /\ m_capacity' = m_capacity
    <2>1. /\ arg[t] \in Items /\ pushed' = Append(pushed, arg[t])
          /\ UNCHANGED <<m_capacity, m_consumer_tail, m_consumer_head>>
        BY <1>2 DEF PushClaim, Goto, IInv, StoresPending, PushSteps
    <2> QED BY <1>0, <2>1, WindowIgnoresAppend
<1>3. ASSUME NEW t \in Threads, PushPublish(t)
      PROVE  /\ Len(visible) < m_capacity /\ m_capacity' = m_capacity
             /\ \E e \in Items : visible' = Append(visible, e)
    <2>1. /\ m_consumer_head < m_producer_head /\ m_consumer_head' = m_consumer_head + 1
          /\ UNCHANGED <<m_capacity, pushed, m_consumer_tail>>
        BY <1>3 DEF PushPublish, Return, Goto, history, IInv, TypeOK, TicketsOwned, Pushing
    <2>2. /\ Len(visible) = m_consumer_head - m_consumer_tail
          /\ visible' = Append(visible, pushed[m_consumer_head + 1])
        BY <1>0, <2>1, WindowGrows
    <2>3. pushed[m_consumer_head + 1] \in Items
        BY <1>0, <2>1
    <2>4. Len(visible) < m_capacity
        <3> HIDE DEF visible
        <3> QED BY <1>0, <2>1, <2>2
    <2> QED BY <2>1, <2>2, <2>3, <2>4
<1>4. ASSUME NEW t \in Threads, PopClaim(t)
      PROVE  visible # <<>> /\ visible' = Tail(visible) /\ m_capacity' = m_capacity
    <2>1. /\ m_consumer_tail < m_consumer_head /\ m_consumer_tail' = m_consumer_tail + 1
          /\ UNCHANGED <<m_capacity, pushed, m_consumer_head>>
        BY <1>4 DEF PopClaim, Goto, history, IInv, TypeOK, LoadedValuesStale
    <2>2. /\ visible # <<>>
          /\ SubSeq(pushed, m_consumer_tail + 2, m_consumer_head) = Tail(visible)
        BY <1>0, <2>1, WindowShrinks
    <2>3. (m_consumer_tail + 1) + 1 = m_consumer_tail + 2
        BY <1>0
    <2>4. visible' = SubSeq(pushed, m_consumer_tail + 2, m_consumer_head)
        <3>1. visible' = SubSeq(pushed, (m_consumer_tail + 1) + 1, m_consumer_head)
            BY <2>1
        <3> QED BY <3>1, <2>3
    <2> QED BY <2>1, <2>2, <2>4
<1>5. CASE UNCHANGED <<m_capacity, pushed, m_consumer_tail, m_consumer_head>>
    BY <1>5
<1> HIDE DEF visible
<1>6. [FIFO!FifoNext]_(FIFO!fifoVars) <=>
        \/ (\E e \in Items : Len(visible) < m_capacity /\ visible' = Append(visible, e)
                              /\ m_capacity' = m_capacity)
        \/ visible # <<>> /\ visible' = Tail(visible) /\ m_capacity' = m_capacity
        \/ visible' = <<>> /\ m_capacity' = m_capacity
        \/ visible' = visible /\ m_capacity' = m_capacity
    BY DEF visible
<1> QED
    BY <1>1, <1>2, <1>3, <1>4, <1>5, <1>6 DEF Next, Push, Pop, BeginPush, PushLoad, PushHasRoom,
       PushRefused, PushClaimFails, PushStore, BeginPop, PopLoad, PopHasElement,
       PopRefused, PopClaimFails, PopRead, PopRelease, PushAwaitsTurn, PopAwaitsTurn,
       vars, shared, history

\* The ring buffer implements the bounded FIFO queue.
THEOREM QueueImplementsFIFO == Spec => ImplementsFIFO
<1>1. Init => FIFO!FifoInit
    <2>1. SubSeq(<<>>, 1, 0) = <<>>
        BY SubSeqEmpty
    <2> QED BY <2>1, QueueAssumption DEF Init, FIFO!FifoInit
<1>2. IInv /\ [Next]_vars => [FIFO!FifoNext]_(FIFO!fifoVars)
    BY FIFOStep
<1> QED BY <1>1, <1>2, Invariance, PTL DEF Spec, ImplementsFIFO, FIFO!FifoSpec
=============================================================================

--------------------------- MODULE DAGSolverProofs ---------------------------
(***************************************************************************)
(* Proofs about DAGSolver for every set of nodes, every task graph and     *)
(* every number of threads.                                                *)
(***************************************************************************)
EXTENDS DAGSolver, FiniteSetTheorems, SequenceTheorems, TLAPS

Elements == Nodes \cup {done_task}

In(e, q) == \E i \in DOMAIN q : q[i] = e
Once(q) == \A i, j \in DOMAIN q : q[i] = q[j] /\ q[i] \in Nodes => i = j

Pushes(t, v) == out[t] = <<v>>
Owns(t, v) == Holds(t, v) \/ Pushes(t, v)

\* The nodes that num_work_left still counts.
Uncounted ==
    {v \in Nodes : m_state[v] # "done" \/ \E t \in Threads : pc[t] = "count" /\ current[t] = v}

\* A thread pushes one node or done_tasks, and nothing is forgotten in its locals.
OutputsOK ==
    \A t \in Threads :
        /\ out[t] # <<>> => pc[t] \in {"push", "notify"}
        /\ pc[t] = "push" => out[t] # <<>>
        /\ \/ \E v \in Nodes : Pushes(t, v)
           \/ \A i \in DOMAIN out[t] : out[t][i] = done_task

\* No node is in two places.
PlacesOK ==
    /\ Once(m_queue)
    /\ \A t \in Threads, v \in Nodes : Owns(t, v) =>
        /\ ~In(v, m_queue)
        /\ \A u \in Threads : Owns(u, v) => u = t

\* Where a node is says which state it has.
StatesOK ==
    /\ \A v \in Nodes : In(v, m_queue) => m_state[v] = "in_queue"
    /\ \A t \in Threads, v \in Nodes : Pushes(t, v) => m_state[v] = "in_queue"
    /\ \A t \in Threads :
        /\ pc[t] = "check" => m_state[current[t]] = "in_queue"
        /\ pc[t] \in {"work", "working", "mark"} => m_state[current[t]] = "in_progress"
        /\ pc[t] = "count" => m_state[current[t]] = "done"

\* ... and the state says that it is somewhere, so that none has such a state between two
\* calls of solve().
Somewhere(v) == In(v, m_queue) \/ \E t \in Threads : Owns(t, v)
NothingLost ==
    \A v \in Nodes : m_state[v] \in {"in_queue", "in_progress"} => Somewhere(v)

\* What has been worked on, and that the parents of what is worked on are done.
WorkOK ==
    /\ \A t \in Threads :
        /\ pc[t] \in {"work", "working"} =>
            ~dag_done[current[t]] /\ \A p \in incoming(current[t]) : m_state[p] = "done"
        /\ pc[t] = "mark" => dag_done[current[t]]
    /\ \A v \in Nodes :
        /\ m_state[v] \in {"initial", "in_queue"} => ~dag_done[v]
        /\ m_state[v] = "done" => dag_done[v]

\* Every node is counted down once.
CountOK ==
    /\ \A t, u \in Threads : pc[t] = "count" /\ pc[u] = "count" /\ current[t] = current[u] => t = u
    /\ solving => num_work_left = Cardinality(Uncounted)

\* When a done_task is pushed all nodes are counted, and between two calls of solve()
\* nothing is left of either.
Ending(t) == pc[t] = "returned" \/ In(done_task, out[t])
EndOK ==
    /\ In(done_task, m_queue) \/ (\E t \in Threads : Ending(t)) => Uncounted = {}
    /\ ~solving => m_queue = <<>> /\ num_work_left = 0 /\ \A t \in Threads : pc[t] = "joined"

\* From then on one thread has the done_tasks that are still to be pushed, and there are
\* as many of them as threads that have not returned.
Returned == {t \in Threads : pc[t] = "returned"}
QuotaOK ==
    solving /\ num_work_left = 0 =>
        \E t \in Threads :
            /\ \A u \in Threads \ {t} : out[u] = <<>>
            /\ Len(m_queue) + Len(out[t]) + Cardinality(Returned) = Cardinality(Threads)

\* The inductive invariant.
IInv ==
    /\ TypeOK /\ WorkNeverThrows
    /\ OutputsOK /\ PlacesOK /\ StatesOK /\ NothingLost /\ WorkOK /\ CountOK /\ EndOK /\ QuotaOK
-----------------------------------------------------------------------------
(* Sequences of nodes and done_tasks.                                      *)

\* The empty sequence.
LEMMA EmptyHasNothing == Once(<<>>) /\ \A e : ~In(e, <<>>)
BY DEF Once, In

\* What one node, alone, is in.
LEMMA OneNode ==
    ASSUME NEW v \in Elements
    PROVE  /\ <<v>> \in Seq(Elements) /\ Len(<<v>>) = 1 /\ Head(<<v>>) = v /\ Tail(<<v>>) = <<>>
           /\ <<v>> # <<>> /\ Once(<<v>>) /\ \A e : In(e, <<v>>) <=> e = v
<1>1. <<v>> \in Seq(Elements) /\ Len(<<v>>) = 1 /\ Head(<<v>>) = v /\ Tail(<<v>>) = <<>> /\ <<v>> # <<>>
    OBVIOUS
<1>2. DOMAIN <<v>> = {1} /\ <<v>>[1] = v
    OBVIOUS
<1> QED BY <1>1, <1>2 DEF Once, In

\* Taking out the head.
LEMMA HeadTaken ==
    ASSUME NEW q \in Seq(Elements), q # <<>>, Once(q)
    PROVE  /\ Head(q) \in Elements /\ In(Head(q), q)
           /\ Tail(q) \in Seq(Elements) /\ Len(Tail(q)) = Len(q) - 1
           /\ Once(Tail(q))
           /\ \A e : In(e, Tail(q)) => In(e, q)
           /\ \A v \in Nodes : In(v, Tail(q)) <=> In(v, q) /\ v # Head(q)
<1>1. /\ Len(q) \in Nat /\ Len(q) >= 1 /\ DOMAIN q = 1 .. Len(q)
      /\ Head(q) = q[1] /\ Head(q) \in Elements
    BY HeadTailProperties
<1>2. /\ Tail(q) \in Seq(Elements) /\ Len(Tail(q)) = Len(q) - 1
      /\ DOMAIN Tail(q) = 1 .. Len(q) - 1
      /\ \A i \in 1 .. Len(q) - 1 : Tail(q)[i] = q[i + 1]
    BY HeadTailProperties
<1>3. In(Head(q), q)
    BY <1>1 DEF In
<1>4. Once(Tail(q))
    <2> SUFFICES ASSUME NEW i \in 1 .. Len(q) - 1, NEW j \in 1 .. Len(q) - 1,
                        q[i + 1] = q[j + 1], q[i + 1] \in Nodes
                 PROVE  i = j
        BY <1>2 DEF Once
    <2>1. i + 1 \in DOMAIN q /\ j + 1 \in DOMAIN q
        BY <1>1
    <2>2. i + 1 = j + 1
        BY <2>1 DEF Once
    <2> QED BY <2>2
<1>5. ASSUME NEW e, In(e, Tail(q)) PROVE \E i \in DOMAIN q : q[i] = e /\ i # 1
    <2>1. PICK i \in 1 .. Len(q) - 1 : q[i + 1] = e
        BY <1>2, <1>5 DEF In
    <2>2. i + 1 \in DOMAIN q /\ i + 1 # 1
        BY <1>1
    <2> QED BY <2>1, <2>2
<1>6. ASSUME NEW v \in Nodes, In(v, q), v # Head(q) PROVE In(v, Tail(q))
    <2>1. PICK i \in 1 .. Len(q) : q[i] = v
        BY <1>1, <1>6 DEF In
    <2>2. i # 1
        BY <1>1, <1>6, <2>1
    <2>3. i - 1 \in 1 .. Len(q) - 1 /\ (i - 1) + 1 = i
        BY <2>2, <1>1
    <2>4. Tail(q)[i - 1] = v
        BY <2>3, <2>1, <1>2
    <2> QED BY <2>3, <2>4, <1>2 DEF In
<1>7. \A v \in Nodes : In(v, Tail(q)) => v # Head(q)
    <2> SUFFICES ASSUME NEW v \in Nodes, In(v, Tail(q)), v = Head(q) PROVE FALSE
        OBVIOUS
    <2>1. PICK i \in DOMAIN q : q[i] = v /\ i # 1
        BY <1>5
    <2>2. q[1] = v /\ 1 \in DOMAIN q
        BY <1>1
    <2> QED BY <2>1, <2>2 DEF Once
<1> QED BY <1>1, <1>2, <1>3, <1>4, <1>5, <1>6, <1>7 DEF In

\* Appending what is not a node or not there.
LEMMA ElementAppended ==
    ASSUME NEW q \in Seq(Elements), NEW e \in Elements, Once(q), e \in Nodes => ~In(e, q)
    PROVE  /\ Append(q, e) \in Seq(Elements) /\ Len(Append(q, e)) = Len(q) + 1
           /\ Once(Append(q, e))
           /\ \A f : In(f, Append(q, e)) <=> In(f, q) \/ f = e
<1> DEFINE r == Append(q, e)
           k == Len(q)
<1>1. /\ k \in Nat /\ DOMAIN q = 1 .. k
      /\ r \in Seq(Elements) /\ Len(r) = k + 1 /\ DOMAIN r = 1 .. k + 1
      /\ \A i \in 1 .. k : r[i] = q[i]
      /\ r[k + 1] = e
    BY AppendProperties
<1> HIDE DEF r, k
<1>2. \A i \in DOMAIN r : (i \in DOMAIN q /\ r[i] = q[i]) \/ (i = k + 1 /\ r[i] = e)
    BY <1>1
<1>3. \A i \in DOMAIN q : i \in DOMAIN r /\ r[i] = q[i] /\ i # k + 1
    BY <1>1
<1>4. k + 1 \in DOMAIN r
    BY <1>1
<1>5. \A f : In(f, r) <=> In(f, q) \/ f = e
    BY <1>1, <1>2, <1>3, <1>4 DEF In
<1>6. Once(r)
    BY <1>2 DEF Once, In
<1> QED BY <1>1, <1>5, <1>6 DEF r, k
-----------------------------------------------------------------------------
\* There are finitely many nodes and threads, and at least one thread.
LEMMA Finite ==
    /\ IsFiniteSet(Nodes) /\ IsFiniteSet(Threads)
    /\ Cardinality(Threads) \in Nat /\ Cardinality(Threads) >= 1
BY GraphAssumption, FS_CardinalityType, FS_EmptySet

\* What is counted is finite.
LEMMA UncountedFinite == IsFiniteSet(Uncounted) /\ Cardinality(Uncounted) \in 0 .. Cardinality(Nodes)
<1>1. Uncounted \in SUBSET Nodes
    BY DEF Uncounted
<1> QED BY <1>1, Finite, FS_Subset, FS_CardinalityType

LEMMA ReturnedFinite == IsFiniteSet(Returned) /\ Cardinality(Returned) \in Nat
<1>1. Returned \in SUBSET Threads
    BY DEF Returned
<1> QED BY <1>1, Finite, FS_Subset, FS_CardinalityType

\* What is in the queue, about to be pushed or held is neither initial nor done.
LEMMA OwnedStates ==
    ASSUME IInv, NEW t \in Threads, NEW v \in Nodes, Owns(t, v)
    PROVE  m_state[v] \in {"in_queue", "in_progress"}
BY DEF IInv, StatesOK, Owns, Holds, Pushes

\* When num_work_left is zero every node is done and counted.
LEMMA NoneLeft ==
    ASSUME IInv, Uncounted = {}
    PROVE  \A v \in Nodes : /\ m_state[v] = "done" /\ ~In(v, m_queue)
                            /\ \A t \in Threads : ~Owns(t, v)
<1>1. \A v \in Nodes : m_state[v] = "done"
    BY DEF Uncounted
<1> QED BY <1>1, OwnedStates DEF IInv, StatesOK

\* num_work_left is zero when, and only when, nothing is left to count.
LEMMA ZeroMeansNone ==
    ASSUME IInv, solving
    PROVE  num_work_left = 0 <=> Uncounted = {}
BY UncountedFinite, FS_EmptySet DEF IInv, CountOK

\* The initial states satisfy the inductive invariant.
LEMMA InitIInv == Init => IInv
<1> SUFFICES ASSUME Init PROVE IInv
    OBVIOUS
<1>1. /\ m_queue = <<>> /\ waiting = {} /\ outgoing \in Graphs /\ ~solving /\ ~thrown /\ num_work_left = 0
      /\ \A t \in Threads : pc[t] = "joined" /\ out[t] = <<>>
      /\ \A v \in Nodes : m_state[v] = "initial" /\ ~dag_done[v]
    BY DEF Init, QueueInit
<1>2. TypeOK
    <2>1. 0 \in 0 .. Cardinality(Nodes) /\ start_node \in Nodes
        BY Finite, FS_CardinalityType, GraphAssumption
    <2>2. /\ m_queue \in Seq(Nodes \cup {done_task}) /\ out \in [Threads -> Seq(Nodes \cup {done_task})]
          /\ waiting \subseteq Threads /\ todo \in [Threads -> SUBSET Nodes]
          /\ num_work_left \in 0 .. Cardinality(Nodes)
        BY <2>1 DEF Init, QueueInit
    <2>3. /\ dag_done \in [Nodes -> BOOLEAN]
          /\ m_state \in [Nodes -> {"initial", "in_queue", "in_progress", "done"}]
          /\ solving \in BOOLEAN /\ thrown \in BOOLEAN
        BY DEF Init
    <2>4. /\ pc \in [Threads -> {"joined", "pop", "check", "work", "working", "mark", "count",
                                "children", "push", "notify", "returned"}]
          /\ current \in [Threads -> Nodes]
        BY <2>1 DEF Init
    <2> QED BY <1>1, <2>2, <2>3, <2>4 DEF TypeOK
<1>3. \A t \in Threads, v \in Nodes : ~Owns(t, v)
    BY <1>1 DEF Owns, Holds, Pushes
<1>4. Once(m_queue) /\ \A e : ~In(e, m_queue) /\ \A t \in Threads : ~In(e, out[t])
    BY <1>1, EmptyHasNothing
<1>5. OutputsOK /\ PlacesOK
    BY <1>1, <1>3, <1>4 DEF OutputsOK, PlacesOK
<1>6. StatesOK /\ WorkOK /\ NothingLost
    BY <1>1, <1>3, <1>4 DEF StatesOK, WorkOK, NothingLost, Owns
<1>7. CountOK /\ EndOK /\ QuotaOK
    BY <1>1, <1>4 DEF CountOK, EndOK, QuotaOK, Ending
<1> QED BY <1>1, <1>2, <1>5, <1>6, <1>7 DEF IInv, WorkNeverThrows

-----------------------------------------------------------------------------
\* Steps of the condition variable.
LEMMA WaitingIInv ==
    ASSUME IInv, waiting' \subseteq Threads, UNCHANGED <<m_queue, dagVars, local>>
    PROVE  IInv'
<1> USE DEF dagVars, local
<1>1. TypeOK'
    BY DEF IInv, TypeOK
<1>2. Uncounted' = Uncounted /\ Returned' = Returned
    BY DEF Uncounted, Returned
<1>3. \A t \in Threads, v \in Nodes : (Owns(t, v)' <=> Owns(t, v)) /\ (Pushes(t, v)' <=> Pushes(t, v))
    BY DEF Owns, Holds, Pushes
<1>4. OutputsOK' /\ PlacesOK'
    BY <1>3 DEF IInv, OutputsOK, PlacesOK
<1>5. StatesOK' /\ NothingLost'
    BY <1>3 DEF IInv, StatesOK, NothingLost, Somewhere
<1>6. WorkOK' /\ CountOK' /\ EndOK' /\ QuotaOK' /\ WorkNeverThrows'
    BY <1>2 DEF IInv, WorkOK, incoming, CountOK, EndOK, Ending, QuotaOK, WorkNeverThrows
<1> QED BY <1>1, <1>4, <1>5, <1>6 DEF IInv

\* Steps of a thread that holds nothing, between the children and the pushes.
LEMMA QuietIInv ==
    ASSUME IInv, NEW t \in Threads, NEW s \in {"pop", "children", "push"},
           pc[t] \in {"children", "notify"}, pc' = [pc EXCEPT ![t] = s],
           out[t] # <<>> <=> s = "push",
           waiting' \subseteq Threads, todo' \in [Threads -> SUBSET Nodes],
           UNCHANGED <<m_queue, dagVars, current, out>>
    PROVE  IInv'
<1> USE DEF dagVars
<1>1. pc'[t] = s /\ \A u \in Threads \ {t} : pc'[u] = pc[u]
    BY DEF IInv, TypeOK
<1>2. TypeOK'
    BY DEF IInv, TypeOK
<1>3. Uncounted' = Uncounted /\ Returned' = Returned
    BY <1>1 DEF Uncounted, Returned
<1>4. \A u \in Threads, v \in Nodes : (Owns(u, v)' <=> Owns(u, v)) /\ (Pushes(u, v)' <=> Pushes(u, v))
    BY <1>1 DEF Owns, Holds, Pushes
<1>5. OutputsOK' /\ PlacesOK'
    BY <1>1, <1>4 DEF IInv, OutputsOK, PlacesOK
<1>6. StatesOK' /\ NothingLost'
    BY <1>1, <1>4 DEF IInv, StatesOK, NothingLost, Somewhere
<1>7. WorkOK' /\ CountOK' /\ WorkNeverThrows'
    BY <1>1, <1>3 DEF IInv, WorkOK, incoming, CountOK, WorkNeverThrows
<1>8. EndOK' /\ QuotaOK'
    BY <1>1, <1>3 DEF IInv, EndOK, Ending, QuotaOK
<1> QED BY <1>2, <1>5, <1>6, <1>7, <1>8 DEF IInv
\* The node that is held goes on to be worked on: nobody else has it.
LEMMA AllParentsDoneIInv == ASSUME IInv, NEW t \in Threads, AllParentsDone(t) PROVE IInv'
<1>c. PICK c \in Nodes : c = current[t]
    BY DEF IInv, TypeOK
<1>0. /\ pc[t] = "check" /\ pc' = [pc EXCEPT ![t] = "work"] /\ m_state' = [m_state EXCEPT ![c] = "in_progress"]
      /\ UNCHANGED <<m_queue, waiting, outgoing, dag_done, num_work_left, solving, thrown, current, todo, out>>
      /\ \A p \in incoming(c) : m_state[p] = "done"
      /\ m_state[c] = "in_queue" 
    BY <1>c DEF AllParentsDone, Goto, queueVars, IInv, TypeOK, StatesOK
<1>1. TypeOK'
    BY <1>0 DEF IInv, TypeOK
<1>2. /\ pc'[t] = "work" /\ \A u \in Threads \ {t} : pc'[u] = pc[u]
      /\ m_state'[c] = "in_progress" /\ \A v \in Nodes \ {c} : m_state'[v] = m_state[v]
    BY <1>0 DEF IInv, TypeOK
<1>3. \A u \in Threads, v \in Nodes : Owns(u, v)' <=> Owns(u, v)
    BY <1>0, <1>2 DEF Owns, Holds, Pushes
<1>4. Owns(t, c) /\ ~In(c, m_queue) /\ \A u \in Threads \ {t} : ~Owns(u, c)
    BY <1>0, <1>c DEF IInv, PlacesOK, Owns, Holds
<1>5. OutputsOK' /\ PlacesOK'
    BY <1>0, <1>2, <1>3 DEF IInv, OutputsOK, PlacesOK, Pushes
<1>6. StatesOK'
    <2>1. \A v \in Nodes : In(v, m_queue) => v # c
        BY <1>4
    <2>2. \A u \in Threads, v \in Nodes : Pushes(u, v) => v # c
        BY <1>4, <1>0 DEF Owns, Pushes, IInv, OutputsOK
    <2>3. \A u \in Threads \ {t} : pc[u] \in {"check", "work", "working", "mark"} => current[u] # c
        BY <1>4, <1>c DEF Owns, Holds
    <2> QED BY <1>0, <1>2, <1>c, <2>1, <2>2, <2>3 DEF IInv, StatesOK, TypeOK, Pushes
<1>7. NothingLost'
    <2>1. \A v \in Nodes : Somewhere(v) => Somewhere(v)'
        BY <1>0, <1>3 DEF Somewhere
    <2>2. Somewhere(c)'
        BY <1>3, <1>4 DEF Somewhere
    <2> QED BY <1>0, <1>2, <2>1, <2>2 DEF IInv, NothingLost
<1>8. WorkOK'
    BY <1>0, <1>2, <1>c DEF IInv, WorkOK, StatesOK, incoming
<1>9. Uncounted' = Uncounted /\ Returned' = Returned
    BY <1>0, <1>2 DEF Uncounted, Returned
<1>10. CountOK' /\ EndOK' /\ QuotaOK'
    BY <1>0, <1>2, <1>9 DEF IInv, CountOK, EndOK, QuotaOK, Ending
<1> QED BY <1>0, <1>1, <1>5, <1>6, <1>7, <1>8, <1>10 DEF IInv, WorkNeverThrows

\* The node that is held becomes one that is about to be pushed.
LEMMA PutBackIInv == ASSUME IInv, NEW t \in Threads, PutBack(t) PROVE IInv'
<1>c. PICK c \in Nodes : c = current[t]
    BY DEF IInv, TypeOK
<1>0. /\ pc[t] = "check" /\ pc' = [pc EXCEPT ![t] = "push"] /\ out' = [out EXCEPT ![t] = <<c>>]
      /\ UNCHANGED <<m_queue, waiting, outgoing, dag_done, m_state, num_work_left, solving, thrown, current, todo>>
      /\ m_state[c] = "in_queue"
    BY <1>c DEF PutBack, Goto, queueVars, dagVars, IInv, TypeOK, StatesOK
<1>1. /\ pc'[t] = "push" /\ \A u \in Threads \ {t} : pc'[u] = pc[u]
      /\ out'[t] = <<c>> /\ \A u \in Threads \ {t} : out'[u] = out[u]
    BY <1>0 DEF IInv, TypeOK
<1>2. c \in Elements /\ <<c>> \in Seq(Elements) /\ <<c>> # <<>> /\ \A e : In(e, <<c>>) <=> e = c
    BY OneNode DEF Elements
<1>3. TypeOK'
    BY <1>0, <1>2 DEF IInv, TypeOK, Elements
<1>4. out[t] = <<>> /\ \A v \in Nodes : ~Pushes(t, v)
    BY <1>0 DEF IInv, OutputsOK, Pushes
<1>5. \A v \in Nodes : Pushes(t, v)' <=> v = c
    BY <1>1 DEF Pushes
<1>6. \A u \in Threads \ {t}, v \in Nodes : Pushes(u, v)' <=> Pushes(u, v)
    BY <1>1 DEF Pushes
<1>7. \A u \in Threads, v \in Nodes : Owns(u, v)' <=> Owns(u, v)
    BY <1>0, <1>1, <1>4, <1>5, <1>6, <1>c DEF Owns, Holds
<1>8. OutputsOK' /\ PlacesOK'
    BY <1>0, <1>1, <1>2, <1>5, <1>6, <1>7 DEF IInv, OutputsOK, PlacesOK
<1>9. StatesOK' /\ NothingLost'
    BY <1>0, <1>1, <1>5, <1>6, <1>7 DEF IInv, StatesOK, NothingLost, Somewhere
<1>10. Uncounted' = Uncounted /\ Returned' = Returned
    BY <1>0, <1>1 DEF Uncounted, Returned
<1>11. WorkOK' /\ CountOK'
    BY <1>0, <1>1, <1>10 DEF IInv, WorkOK, incoming, CountOK
<1>12. EndOK'
    BY <1>0, <1>1, <1>2, <1>10, GraphAssumption DEF IInv, EndOK, Ending
<1>13. QuotaOK'
    BY <1>0, ZeroMeansNone, NoneLeft DEF QuotaOK
<1> QED BY <1>0, <1>3, <1>8, <1>9, <1>11, <1>12, <1>13 DEF IInv, WorkNeverThrows

\* The checks of DAGTask::work(): the node is not done and its parents are.
LEMMA WorkBeginIInv == ASSUME IInv, NEW t \in Threads, WorkBegin(t) PROVE IInv'
<1>c. PICK c \in Nodes : c = current[t]
    BY DEF IInv, TypeOK
<1>0. /\ pc[t] = "work" /\ pc' = [pc EXCEPT ![t] = "working"]
      /\ UNCHANGED <<m_queue, waiting, outgoing, dag_done, m_state, num_work_left, solving, current, todo, out>>
      /\ thrown' = (dag_done[c] \/ \E p \in incoming(c) : ~dag_done[p])
    BY <1>c DEF WorkBegin, Goto, queueVars
<1>1. pc'[t] = "working" /\ \A u \in Threads \ {t} : pc'[u] = pc[u]
    BY <1>0 DEF IInv, TypeOK
<1>2. ~thrown'
    BY <1>0, <1>c DEF IInv, WorkOK, incoming
<1>3. TypeOK'
    BY <1>0, <1>2 DEF IInv, TypeOK
<1>4. \A u \in Threads, v \in Nodes : (Owns(u, v)' <=> Owns(u, v)) /\ (Pushes(u, v)' <=> Pushes(u, v))
    BY <1>0, <1>1 DEF Owns, Holds, Pushes
<1>5. OutputsOK' /\ PlacesOK'
    BY <1>0, <1>1, <1>4 DEF IInv, OutputsOK, PlacesOK
<1>6. StatesOK' /\ NothingLost'
    BY <1>0, <1>1, <1>4 DEF IInv, StatesOK, NothingLost, Somewhere
<1>7. Uncounted' = Uncounted /\ Returned' = Returned
    BY <1>0, <1>1 DEF Uncounted, Returned
<1>8. WorkOK' /\ CountOK'
    BY <1>0, <1>1, <1>7 DEF IInv, WorkOK, incoming, CountOK
<1>9. EndOK' /\ QuotaOK'
    BY <1>0, <1>1, <1>7 DEF IInv, EndOK, Ending, QuotaOK
<1> QED BY <1>2, <1>3, <1>5, <1>6, <1>8, <1>9 DEF IInv, WorkNeverThrows

\* The node is done, no other worker is at it.
LEMMA WorkEndIInv == ASSUME IInv, NEW t \in Threads, WorkEnd(t) PROVE IInv'
<1>c. PICK c \in Nodes : c = current[t]
    BY DEF IInv, TypeOK
<1>0. /\ pc[t] = "working" /\ pc' = [pc EXCEPT ![t] = "mark"] /\ dag_done' = [dag_done EXCEPT ![c] = TRUE]
      /\ UNCHANGED <<m_queue, waiting, outgoing, m_state, num_work_left, solving, thrown, current, todo, out>>
      /\ m_state[c] = "in_progress"
    BY <1>c DEF WorkEnd, Goto, queueVars, IInv, StatesOK
<1>1. /\ pc'[t] = "mark" /\ \A u \in Threads \ {t} : pc'[u] = pc[u]
      /\ dag_done'[c] = TRUE /\ \A v \in Nodes \ {c} : dag_done'[v] = dag_done[v]
    BY <1>0 DEF IInv, TypeOK
<1>2. TypeOK'
    BY <1>0 DEF IInv, TypeOK
<1>3. \A u \in Threads, v \in Nodes : (Owns(u, v)' <=> Owns(u, v)) /\ (Pushes(u, v)' <=> Pushes(u, v))
    BY <1>0, <1>1 DEF Owns, Holds, Pushes
<1>4. \A u \in Threads \ {t} : pc[u] \in {"work", "working"} => current[u] # c
    BY <1>0, <1>c DEF IInv, PlacesOK, Owns, Holds
<1>5. OutputsOK' /\ PlacesOK'
    BY <1>0, <1>1, <1>3 DEF IInv, OutputsOK, PlacesOK
<1>6. StatesOK' /\ NothingLost'
    BY <1>0, <1>1, <1>3 DEF IInv, StatesOK, NothingLost, Somewhere
<1>7. Uncounted' = Uncounted /\ Returned' = Returned
    BY <1>0, <1>1 DEF Uncounted, Returned
<1>8. WorkOK'
    BY <1>0, <1>1, <1>4, <1>c DEF IInv, TypeOK, WorkOK, incoming
<1>9. CountOK' /\ EndOK' /\ QuotaOK'
    BY <1>0, <1>1, <1>7 DEF IInv, CountOK, EndOK, Ending, QuotaOK
<1> QED BY <1>0, <1>2, <1>5, <1>6, <1>8, <1>9 DEF IInv, WorkNeverThrows

\* The node is marked and in no place any more.
LEMMA MarkDoneIInv == ASSUME IInv, NEW t \in Threads, MarkDone(t) PROVE IInv'
<1>c. PICK c \in Nodes : c = current[t]
    BY DEF IInv, TypeOK
<1>0. /\ pc[t] = "mark" /\ pc' = [pc EXCEPT ![t] = "count"] /\ m_state' = [m_state EXCEPT ![c] = "done"]
      /\ UNCHANGED <<m_queue, waiting, outgoing, dag_done, num_work_left, solving, thrown, current, todo, out>>
      /\ m_state[c] = "in_progress" /\ dag_done[c]
    BY <1>c DEF MarkDone, Goto, queueVars, IInv, StatesOK, WorkOK
<1>1. /\ pc'[t] = "count" /\ \A u \in Threads \ {t} : pc'[u] = pc[u]
      /\ m_state'[c] = "done" /\ \A v \in Nodes \ {c} : m_state'[v] = m_state[v]
    BY <1>0 DEF IInv, TypeOK
<1>2. TypeOK'
    BY <1>0 DEF IInv, TypeOK
<1>3. Owns(t, c) /\ out[t] = <<>> /\ ~In(c, m_queue) /\ \A u \in Threads \ {t} : ~Owns(u, c)
    BY <1>0, <1>c DEF IInv, OutputsOK, PlacesOK, Owns, Holds
<1>4. \A u \in Threads, v \in Nodes :
        (Owns(u, v)' <=> Owns(u, v) /\ u # t) /\ (Pushes(u, v)' <=> Pushes(u, v))
    BY <1>0, <1>1, <1>3 DEF Owns, Holds, Pushes
<1>5. OutputsOK' /\ PlacesOK'
    BY <1>0, <1>1, <1>4 DEF IInv, OutputsOK, PlacesOK
<1>6. StatesOK'
    <2>1. \A u \in Threads, v \in Nodes : Pushes(u, v) => v # c
        BY <1>3 DEF Owns, Pushes
    <2>2. \A u \in Threads \ {t} : pc[u] \in {"check", "work", "working", "mark"} => current[u] # c
        BY <1>3 DEF Owns, Holds
    <2> QED BY <1>0, <1>1, <1>3, <1>4, <1>c, <2>1, <2>2 DEF IInv, TypeOK, StatesOK
<1>7. NothingLost'
    <2>1. \A v \in Nodes \ {c} : ~Owns(t, v)
        BY <1>0, <1>3, <1>c DEF Owns, Holds, Pushes
    <2>2. \A v \in Nodes \ {c} : Somewhere(v) => Somewhere(v)'
        BY <1>0, <1>4, <2>1 DEF Somewhere
    <2> QED BY <1>0, <1>1, <2>2 DEF IInv, NothingLost
<1>8. WorkOK'
    <2>1. \A u \in Threads \ {t} : pc[u] \in {"work", "working"} => current[u] # c
        BY <1>3 DEF Owns, Holds
    <2> QED BY <1>0, <1>1, <1>c, <2>1 DEF IInv, TypeOK, WorkOK, incoming
<1>9. Uncounted' = Uncounted /\ Returned' = Returned
    BY <1>0, <1>1, <1>c DEF Uncounted, Returned
<1>10. CountOK'
    <2>1. \A u \in Threads : pc[u] = "count" => current[u] # c
        BY <1>0 DEF IInv, StatesOK
    <2> QED BY <1>0, <1>1, <1>9, <1>c, <2>1 DEF IInv, CountOK
<1>11. EndOK' /\ QuotaOK'
    BY <1>0, <1>1, <1>9 DEF IInv, EndOK, Ending, QuotaOK
<1> QED BY <1>0, <1>2, <1>5, <1>6, <1>7, <1>8, <1>10, <1>11 DEF IInv, WorkNeverThrows

\* The counter goes down by one node; at zero the done_tasks are made.
LEMMA CountDownIInv == ASSUME IInv, NEW t \in Threads, CountDown(t) PROVE IInv'
<1>c. PICK c \in Nodes : c = current[t]
    BY DEF IInv, TypeOK
<1> DEFINE n == Cardinality(Threads)
           dones == [i \in 1 .. n |-> done_task]
           last == num_work_left <= 1
<1>0. /\ pc[t] = "count" /\ pc' = [pc EXCEPT ![t] = IF last THEN "push" ELSE "children"]
      /\ num_work_left' = num_work_left - 1
      /\ out' = [out EXCEPT ![t] = IF last THEN dones ELSE <<>>]
      /\ todo' = [todo EXCEPT ![t] = outgoing[c]]
      /\ UNCHANGED <<m_queue, waiting, outgoing, dag_done, m_state, solving, thrown, current>>
      /\ m_state[c] = "done" /\ out[t] = <<>> /\ c \in Uncounted /\ solving
    BY <1>c DEF CountDown, Goto, queueVars, IInv, StatesOK, OutputsOK, Uncounted, EndOK
<1>1. /\ dones \in Seq(Elements) /\ Len(dones) = n /\ dones # <<>> /\ DOMAIN dones = 1 .. n
      /\ \A i \in DOMAIN dones : dones[i] = done_task
      /\ \A v \in Nodes : dones # <<v>>
    <2>1. dones \in Seq(Elements) /\ Len(dones) = n /\ DOMAIN dones = 1 .. n
        BY Finite DEF Elements
    <2>2. 1 \in DOMAIN dones /\ \A i \in DOMAIN dones : dones[i] = done_task
        BY <2>1, Finite
    <2>3. \A v \in Nodes : <<v>>[1] = v /\ v # done_task
        BY GraphAssumption
    <2> HIDE DEF dones
    <2> QED BY <2>1, <2>2, <2>3
<1> HIDE DEF dones, n
<1>2. /\ pc'[t] = (IF last THEN "push" ELSE "children") /\ \A u \in Threads \ {t} : pc'[u] = pc[u]
      /\ out'[t] = (IF last THEN dones ELSE <<>>) /\ \A u \in Threads \ {t} : out'[u] = out[u]
    BY <1>0 DEF IInv, TypeOK
<1>3. Uncounted' = Uncounted \ {c}
    <2>1. \A u \in Threads \ {t} : pc[u] = "count" => current[u] # c
        BY <1>0, <1>c DEF IInv, CountOK
    <2> QED BY <1>0, <1>2, <1>c, <2>1 DEF Uncounted
<1>4. /\ num_work_left = Cardinality(Uncounted) /\ num_work_left >= 1
      /\ num_work_left' = Cardinality(Uncounted')
      /\ num_work_left \in 0 .. Cardinality(Nodes) /\ num_work_left' \in 0 .. Cardinality(Nodes)
    <2>1. num_work_left = Cardinality(Uncounted) /\ num_work_left \in 0 .. Cardinality(Nodes)
        BY <1>0 DEF IInv, TypeOK, CountOK
    <2>2. Cardinality(Uncounted \ {c}) = Cardinality(Uncounted) - 1
        BY <1>0, UncountedFinite, FS_RemoveElement
    <2>3. Cardinality(Nodes) \in Nat /\ Cardinality(Uncounted) # 0
        BY <1>0, Finite, UncountedFinite, FS_EmptySet, FS_CardinalityType
    <2> QED BY <1>0, <1>3, <2>1, <2>2, <2>3
<1>5. last <=> Uncounted' = {}
    <2>1. IsFiniteSet(Uncounted')
        BY <1>3, UncountedFinite, FS_RemoveElement
    <2> QED BY <1>0, <1>4, <2>1, FS_EmptySet
<1>6. TypeOK'
    <2>1. outgoing[c] \in SUBSET Nodes
        BY GraphAssumption DEF IInv, TypeOK
    <2>2. <<>> \in Seq(Elements)
        OBVIOUS
    <2> QED BY <1>0, <1>1, <1>4, <2>1, <2>2 DEF IInv, TypeOK, Elements
<1>7. \A v \in Nodes : ~Owns(t, v) /\ ~Owns(t, v)'
    <2>1. \A v \in Nodes : <<v>> # <<>>
        OBVIOUS
    <2> QED BY <1>0, <1>1, <1>2, <2>1 DEF Owns, Holds, Pushes
<1>8. \A u \in Threads, v \in Nodes : (Owns(u, v)' <=> Owns(u, v)) /\ (Pushes(u, v)' <=> Pushes(u, v))
    <2>1. \A u \in Threads \ {t}, v \in Nodes :
            (Owns(u, v)' <=> Owns(u, v)) /\ (Pushes(u, v)' <=> Pushes(u, v))
        BY <1>0, <1>2 DEF Owns, Holds, Pushes
    <2> QED BY <1>7, <2>1 DEF Owns
<1>9. OutputsOK'
    <2>1. \A i \in DOMAIN <<>> : FALSE
        OBVIOUS
    <2>2. \A i \in DOMAIN out'[t] : out'[t][i] = done_task
        BY <1>1, <1>2, <2>1
    <2> QED BY <1>0, <1>1, <1>2, <1>8, <2>2 DEF IInv, OutputsOK
<1>10. PlacesOK' /\ StatesOK' /\ NothingLost' /\ WorkOK'
    BY <1>0, <1>2, <1>8 DEF IInv, PlacesOK, StatesOK, NothingLost, Somewhere, WorkOK, incoming
<1>11. CountOK'
    BY <1>0, <1>2, <1>4 DEF IInv, CountOK
<1>12. ~In(done_task, m_queue) /\ \A u \in Threads : ~Ending(u)
    BY <1>0 DEF IInv, EndOK
<1>13. EndOK'
    <2>1. \A u \in Threads \ {t} : ~Ending(u)'
        BY <1>2, <1>12 DEF Ending
    <2>2. ~last => ~Ending(t)'
        BY <1>2, EmptyHasNothing DEF Ending
    <2> QED BY <1>0, <1>5, <1>12, <2>1, <2>2 DEF EndOK
<1>14. QuotaOK'
    <2> SUFFICES ASSUME Uncounted' = {} PROVE QuotaOK'
        <3>1. IsFiniteSet(Uncounted')
            BY <1>3, UncountedFinite, FS_RemoveElement
        <3> QED BY <1>4, <3>1, FS_EmptySet DEF QuotaOK
    <2>1. last
        BY <1>5
    <2>2. \A v \in Nodes : m_state[v] = "done"
        BY <1>0 DEF Uncounted
    <2>3. m_queue = <<>>
        <3>1. \A v \in Nodes : ~In(v, m_queue)
            BY <2>2 DEF IInv, StatesOK
        <3>2. m_queue # <<>> => Head(m_queue) \in Elements /\ In(Head(m_queue), m_queue)
            BY HeadTaken DEF IInv, TypeOK, PlacesOK, Elements
        <3> QED BY <3>1, <3>2, <1>12 DEF Elements
    <2>4. \A u \in Threads \ {t} : out[u] = <<>>
        <3> SUFFICES ASSUME NEW u \in Threads, out[u] # <<>> PROVE FALSE
            OBVIOUS
        <3>1. \A v \in Nodes : ~Pushes(u, v)
            BY <2>2 DEF IInv, StatesOK
        <3>2. \A i \in DOMAIN out[u] : out[u][i] = done_task
            BY <3>1 DEF IInv, OutputsOK
        <3>3. 1 \in DOMAIN out[u]
            BY DEF IInv, TypeOK
        <3> QED BY <3>2, <3>3, <1>12 DEF Ending, In
    <2>5. Returned' = {}
        BY <1>2, <1>12 DEF Returned, Ending
    <2>6. Len(<<>>) + Len(dones) + 0 = n
        BY <1>1, Finite DEF n
    <2> QED BY <1>0, <1>2, <2>1, <2>3, <2>4, <2>5, <2>6, FS_EmptySet DEF QuotaOK, n
<1> QED BY <1>0, <1>6, <1>9, <1>10, <1>11, <1>13, <1>14 DEF IInv, WorkNeverThrows

\* A node that was nowhere is about to be pushed.
LEMMA ClaimChildIInv == ASSUME IInv, NEW t \in Threads, ClaimChild(t) PROVE IInv'
<1>1. PICK c \in todo[t] :
        /\ m_state[c] = "initial" /\ m_state' = [m_state EXCEPT ![c] = "in_queue"]
        /\ out' = [out EXCEPT ![t] = <<c>>] /\ todo' = [todo EXCEPT ![t] = @ \ {c}]
    BY DEF ClaimChild
<1>2. /\ pc[t] = "children" /\ pc' = [pc EXCEPT ![t] = "push"] /\ c \in Nodes
      /\ UNCHANGED <<m_queue, waiting, outgoing, dag_done, num_work_left, solving, thrown, current>>
      /\ out[t] = <<>>
    BY DEF ClaimChild, Goto, queueVars, IInv, TypeOK, OutputsOK
<1>3. /\ pc'[t] = "push" /\ \A u \in Threads \ {t} : pc'[u] = pc[u]
      /\ out'[t] = <<c>> /\ \A u \in Threads \ {t} : out'[u] = out[u]
      /\ m_state'[c] = "in_queue" /\ \A v \in Nodes \ {c} : m_state'[v] = m_state[v]
    BY <1>1, <1>2 DEF IInv, TypeOK
<1>4. c \in Elements /\ <<c>> \in Seq(Elements) /\ <<c>> # <<>> /\ \A e : In(e, <<c>>) <=> e = c
    BY <1>2, OneNode DEF Elements
<1>5. TypeOK'
    BY <1>1, <1>2, <1>4 DEF IInv, TypeOK, Elements
<1>6. \A u \in Threads : ~Owns(u, c)
    BY <1>1, <1>2, OwnedStates
<1>7. ~In(c, m_queue)
    BY <1>1, <1>2 DEF IInv, StatesOK
<1>8. /\ \A v \in Nodes : (Owns(t, v)' <=> v = c) /\ (Pushes(t, v)' <=> v = c)
      /\ \A v \in Nodes : ~Owns(t, v)
    BY <1>2, <1>3, <1>4 DEF Owns, Holds, Pushes
<1>9. \A u \in Threads \ {t}, v \in Nodes :
        (Owns(u, v)' <=> Owns(u, v)) /\ (Pushes(u, v)' <=> Pushes(u, v))
    BY <1>2, <1>3 DEF Owns, Holds, Pushes
<1>10. OutputsOK'
    BY <1>2, <1>3, <1>4, <1>8, <1>9 DEF IInv, OutputsOK
<1>11. PlacesOK'
    BY <1>2, <1>6, <1>7, <1>8, <1>9 DEF IInv, PlacesOK
<1>12. StatesOK'
    <2>1. \A u \in Threads : pc[u] \in {"check", "work", "working", "mark", "count"} => current[u] # c
        BY <1>1 DEF IInv, StatesOK
    <2> QED BY <1>2, <1>3, <1>7, <1>8, <1>9, <2>1 DEF IInv, TypeOK, StatesOK
<1>13. NothingLost'
    <2>1. \A v \in Nodes : Somewhere(v) => Somewhere(v)'
        BY <1>2, <1>8, <1>9 DEF Somewhere
    <2>2. Somewhere(c)'
        BY <1>2, <1>8 DEF Somewhere
    <2> QED BY <1>2, <1>3, <2>1, <2>2 DEF IInv, NothingLost
<1>14. Uncounted' = Uncounted /\ Returned' = Returned
    BY <1>1, <1>2, <1>3 DEF Uncounted, Returned
<1>15. WorkOK' /\ CountOK'
    BY <1>1, <1>2, <1>3, <1>14 DEF IInv, WorkOK, incoming, CountOK
<1>16. EndOK'
    BY <1>2, <1>3, <1>4, <1>14, GraphAssumption DEF IInv, EndOK, Ending
<1>17. QuotaOK'
    BY <1>1, <1>2, ZeroMeansNone, NoneLeft DEF QuotaOK
<1> QED BY <1>2, <1>5, <1>10, <1>11, <1>12, <1>13, <1>15, <1>16, <1>17 DEF IInv, WorkNeverThrows

\* A node goes from the queue to the worker.
LEMMA PopNodeIInv == ASSUME IInv, NEW t \in Threads, PopNode(t) PROVE IInv'
<1> DEFINE rest == Tail(m_queue)
<1>c. PICK c \in Nodes : c = Head(m_queue)
    BY HeadTaken DEF PopNode, IInv, TypeOK, PlacesOK, Elements
<1>0. /\ pc[t] = "pop" /\ pc' = [pc EXCEPT ![t] = "check"] /\ m_queue' = rest
      /\ current' = [current EXCEPT ![t] = c] /\ out[t] = <<>>
      /\ UNCHANGED <<waiting, outgoing, dag_done, m_state, num_work_left, solving, thrown, todo, out>>
    BY <1>c DEF PopNode, PopElement, Goto, dagVars, IInv, OutputsOK
<1>1. /\ rest \in Seq(Elements) /\ Once(rest) /\ In(c, m_queue)
      /\ In(done_task, rest) => In(done_task, m_queue)
      /\ \A v \in Nodes : In(v, rest) <=> In(v, m_queue) /\ v # c
    BY <1>c, HeadTaken DEF PopNode, IInv, TypeOK, PlacesOK, Elements
<1> HIDE DEF rest
<1>2. /\ pc'[t] = "check" /\ \A u \in Threads \ {t} : pc'[u] = pc[u]
      /\ current'[t] = c /\ \A u \in Threads \ {t} : current'[u] = current[u]
    BY <1>0 DEF IInv, TypeOK
<1>3. TypeOK'
    BY <1>0, <1>1 DEF IInv, TypeOK, Elements
<1>4. m_state[c] = "in_queue" /\ \A u \in Threads : ~Owns(u, c)
    BY <1>1 DEF IInv, StatesOK, PlacesOK
<1>5. /\ \A v \in Nodes : ~Owns(t, v) /\ ~Pushes(t, v)' /\ (Owns(t, v)' <=> v = c)
      /\ \A u \in Threads \ {t}, v \in Nodes :
            (Owns(u, v)' <=> Owns(u, v)) /\ (Pushes(u, v)' <=> Pushes(u, v))
    <2>1. \A v \in Nodes : <<v>> # <<>>
        OBVIOUS
    <2> QED BY <1>0, <1>2, <2>1 DEF Owns, Holds, Pushes
<1>6. OutputsOK'
    BY <1>0, <1>2, <1>5 DEF IInv, OutputsOK, Pushes
<1>7. PlacesOK'
    BY <1>0, <1>1, <1>4, <1>5 DEF IInv, PlacesOK
<1>8. StatesOK'
    BY <1>0, <1>1, <1>2, <1>4, <1>5 DEF IInv, StatesOK
<1>9. NothingLost'
    <2>1. \A v \in Nodes : Somewhere(v) => Somewhere(v)'
        BY <1>0, <1>1, <1>5 DEF Somewhere
    <2> QED BY <1>0, <2>1 DEF IInv, NothingLost
<1>10. Uncounted' = Uncounted /\ Returned' = Returned
    BY <1>0, <1>2 DEF Uncounted, Returned
<1>11. WorkOK' /\ CountOK'
    BY <1>0, <1>2, <1>10 DEF IInv, WorkOK, incoming, CountOK
<1>12. EndOK'
    <2>1. solving
        BY <1>0 DEF IInv, EndOK
    <2> QED BY <1>0, <1>1, <1>2, <1>10, <2>1 DEF IInv, EndOK, Ending
<1>13. QuotaOK'
    BY <1>0, <1>4, ZeroMeansNone, NoneLeft DEF QuotaOK
<1> QED BY <1>0, <1>3, <1>6, <1>7, <1>8, <1>9, <1>11, <1>12, <1>13 DEF IInv, WorkNeverThrows

\* A done_task goes from the queue to a worker, which returns.
LEMMA PopDoneTaskIInv == ASSUME IInv, NEW t \in Threads, PopDoneTask(t) PROVE IInv'
<1> DEFINE rest == Tail(m_queue)
<1>0. /\ pc[t] = "pop" /\ pc' = [pc EXCEPT ![t] = "returned"] /\ m_queue' = rest
      /\ UNCHANGED <<waiting, outgoing, dag_done, m_state, num_work_left, solving, thrown, current, todo, out>>
      /\ out[t] = <<>>
    BY DEF PopDoneTask, PopElement, Goto, dagVars, IInv, OutputsOK
<1>1. /\ rest \in Seq(Elements) /\ Once(rest) /\ In(done_task, m_queue) /\ Len(rest) = Len(m_queue) - 1
      /\ Len(m_queue) \in Nat
      /\ \A v \in Nodes : In(v, rest) <=> In(v, m_queue)
    BY HeadTaken, GraphAssumption DEF PopDoneTask, IInv, TypeOK, PlacesOK, Elements
<1> HIDE DEF rest
<1>2. pc'[t] = "returned" /\ \A u \in Threads \ {t} : pc'[u] = pc[u]
    BY <1>0 DEF IInv, TypeOK
<1>3. TypeOK'
    BY <1>0, <1>1 DEF IInv, TypeOK, Elements
<1>4. \A u \in Threads, v \in Nodes : (Owns(u, v)' <=> Owns(u, v)) /\ (Pushes(u, v)' <=> Pushes(u, v))
    BY <1>0, <1>2 DEF Owns, Holds, Pushes
<1>5. OutputsOK' /\ PlacesOK'
    BY <1>0, <1>1, <1>2, <1>4 DEF IInv, OutputsOK, PlacesOK
<1>6. StatesOK' /\ NothingLost'
    BY <1>0, <1>1, <1>2, <1>4 DEF IInv, StatesOK, NothingLost, Somewhere
<1>7. Uncounted' = Uncounted /\ Uncounted = {}
    <2>1. Uncounted' = Uncounted
        BY <1>0, <1>2 DEF Uncounted
    <2> QED BY <1>1, <2>1 DEF IInv, EndOK
<1>8. WorkOK' /\ CountOK'
    BY <1>0, <1>2, <1>7 DEF IInv, WorkOK, incoming, CountOK
<1>9. EndOK'
    BY <1>0, <1>7 DEF IInv, EndOK
<1>10. QuotaOK'
    <2>1. Returned' = Returned \cup {t} /\ t \notin Returned
        BY <1>0, <1>2 DEF Returned
    <2>2. Cardinality(Returned') = Cardinality(Returned) + 1 /\ Cardinality(Returned) \in Nat
        BY <2>1, ReturnedFinite, FS_AddElement
    <2> SUFFICES ASSUME solving, num_work_left = 0
                 PROVE  \E u \in Threads :
                            /\ \A w \in Threads \ {u} : out[w] = <<>>
                            /\ Len(rest) + Len(out[u]) + Cardinality(Returned') = Cardinality(Threads)
        BY <1>0 DEF QuotaOK
    <2>3. PICK u \in Threads :
            /\ \A w \in Threads \ {u} : out[w] = <<>>
            /\ Len(m_queue) + Len(out[u]) + Cardinality(Returned) = Cardinality(Threads)
        BY DEF IInv, QuotaOK
    <2> DEFINE i == Len(m_queue)
               j == Len(out[u])
               k == Cardinality(Returned)
    <2>4. i \in Nat /\ j \in Nat /\ k \in Nat /\ i + j + k = Cardinality(Threads)
        BY <1>1, <2>2, <2>3 DEF IInv, TypeOK
    <2>5. Len(rest) = i - 1 /\ Cardinality(Returned') = k + 1
        BY <1>1, <2>2
    <2> HIDE DEF i, j, k
    <2>6. (i - 1) + j + (k + 1) = Cardinality(Threads)
        BY <2>4
    <2>7. Len(rest) + Len(out[u]) + Cardinality(Returned') = Cardinality(Threads)
        BY <2>5, <2>6 DEF j
    <2> QED BY <2>3, <2>7
<1> QED BY <1>0, <1>3, <1>5, <1>6, <1>8, <1>9, <1>10 DEF IInv, WorkNeverThrows

\* A node or a done_task goes from the worker to the queue.
LEMMA PushIInv == ASSUME IInv, NEW t \in Threads, Push(t) PROVE IInv'
<1>e. PICK e \in Elements : e = Head(out[t])
    BY HeadTailProperties DEF Push, Goto, IInv, TypeOK, OutputsOK, Elements
<1>r. PICK rest \in Seq(Elements) : rest = Tail(out[t]) /\ Len(rest) = Len(out[t]) - 1
    BY HeadTailProperties DEF Push, Goto, IInv, TypeOK, OutputsOK, Elements
<1>0. /\ pc[t] = "push" /\ pc' = [pc EXCEPT ![t] = "notify"]
      /\ m_queue' = Append(m_queue, e) /\ out' = [out EXCEPT ![t] = rest] /\ out[t] # <<>>
      /\ UNCHANGED <<waiting, outgoing, dag_done, m_state, num_work_left, solving, thrown, current, todo>>
    BY <1>e, <1>r DEF Push, PushElement, Goto, dagVars, IInv, TypeOK, OutputsOK
<1>1. /\ pc'[t] = "notify" /\ \A u \in Threads \ {t} : pc'[u] = pc[u]
      /\ out'[t] = rest /\ \A u \in Threads \ {t} : out'[u] = out[u]
    BY <1>0, <1>r DEF IInv, TypeOK
\* It is a node, and the only one, or a done_task, and so is the rest.
<1>2. \/ e \in Nodes /\ out[t] = <<e>> /\ rest = <<>>
      \/ /\ e = done_task /\ In(done_task, out[t])
         /\ \A i \in DOMAIN rest : rest[i] = done_task
         /\ \A v \in Nodes : out[t] # <<v>>
    <2>1. ASSUME NEW v \in Nodes, out[t] = <<v>>
          PROVE  e \in Nodes /\ out[t] = <<e>> /\ rest = <<>>
        BY <2>1, <1>e, <1>r, OneNode DEF Elements
    <2>2. ASSUME \A i \in DOMAIN out[t] : out[t][i] = done_task, \A v \in Nodes : out[t] # <<v>>
          PROVE  /\ e = done_task /\ In(done_task, out[t])
                 /\ \A i \in DOMAIN rest : rest[i] = done_task
        <3>1. /\ out[t] \in Seq(Elements) /\ Len(out[t]) \in Nat /\ Len(out[t]) >= 1
              /\ DOMAIN out[t] = 1 .. Len(out[t]) /\ e = out[t][1]
            BY <1>0, <1>e DEF IInv, TypeOK, Elements
        <3>2. DOMAIN rest = 1 .. Len(out[t]) - 1 /\ \A i \in DOMAIN rest : rest[i] = out[t][i + 1]
            BY <3>1, <1>0, <1>r, HeadTailProperties
        <3> QED BY <3>1, <3>2, <2>2 DEF In
    <2> QED BY <2>1, <2>2 DEF IInv, OutputsOK, Pushes
<1>3. \A u \in Threads \ {t}, v \in Nodes :
        (Owns(u, v)' <=> Owns(u, v)) /\ (Pushes(u, v)' <=> Pushes(u, v))
    BY <1>0, <1>1 DEF Owns, Holds, Pushes
<1>4. \A v \in Nodes : ~Owns(t, v)' /\ ~Pushes(t, v)'
    <2>1. \A v \in Nodes : rest # <<v>>
        <3>1. \A v \in Nodes : <<v>> # <<>> /\ 1 \in DOMAIN <<v>> /\ <<v>>[1] = v
            OBVIOUS
        <3> QED BY <3>1, <1>2, GraphAssumption
    <2> QED BY <2>1, <1>1 DEF Owns, Holds, Pushes
<1>5. \A v \in Nodes : Owns(t, v) <=> v = e
    <2>1. \A v \in Nodes : Owns(t, v) <=> out[t] = <<v>>
        BY <1>0 DEF Owns, Holds, Pushes
    <2>2. \A v \in Nodes : <<v>> = <<e>> => v = e
        BY OneNode DEF Elements
    <2> QED BY <1>2, <2>1, <2>2, GraphAssumption
<1>6. e \in Nodes => ~In(e, m_queue) /\ m_state[e] = "in_queue" /\ \A u \in Threads \ {t} : ~Owns(u, e)
    <2>1. e \in Nodes => Owns(t, e) /\ Pushes(t, e)
        BY <1>2, <1>5, GraphAssumption DEF Pushes
    <2> QED BY <2>1 DEF IInv, PlacesOK, StatesOK
<1>7. /\ m_queue \in Seq(Elements) /\ m_queue' \in Seq(Elements) /\ Len(m_queue') = Len(m_queue) + 1
      /\ Once(m_queue') /\ \A f : In(f, m_queue') <=> In(f, m_queue) \/ f = e
    BY <1>0, <1>6, ElementAppended DEF IInv, TypeOK, PlacesOK, Elements
<1>8. TypeOK'
    BY <1>0, <1>7 DEF IInv, TypeOK, Elements
<1>9. OutputsOK'
    <2>1. \A i \in DOMAIN rest : rest[i] = done_task
        BY <1>2, EmptySeq
    <2> QED BY <1>0, <1>1, <1>3, <2>1 DEF IInv, OutputsOK
<1>10. PlacesOK'
    BY <1>3, <1>4, <1>6, <1>7 DEF IInv, PlacesOK
<1>11. StatesOK'
    BY <1>0, <1>1, <1>3, <1>4, <1>6, <1>7 DEF IInv, StatesOK
<1>12. NothingLost'
    <2>1. \A v \in Nodes : Somewhere(v) => Somewhere(v)'
        BY <1>3, <1>5, <1>7 DEF Somewhere
    <2> QED BY <1>0, <2>1 DEF IInv, NothingLost
<1>13. Uncounted' = Uncounted /\ Returned' = Returned
    BY <1>0, <1>1 DEF Uncounted, Returned
<1>14. WorkOK' /\ CountOK'
    BY <1>0, <1>1, <1>13 DEF IInv, WorkOK, incoming, CountOK
<1>15. EndOK'
    <2>1. e = done_task => Ending(t)
        BY <1>2, GraphAssumption DEF Ending
    <2>2. \A u \in Threads \ {t} : Ending(u)' => Ending(u)
        BY <1>1 DEF Ending
    <2>3. Ending(t)' => Ending(t)
        <3>1. In(done_task, rest) => rest # <<>>
            BY EmptyHasNothing
        <3>2. rest # <<>> => In(done_task, out[t])
            BY <1>2
        <3> QED BY <3>1, <3>2, <1>1 DEF Ending
    <2>4. solving
        BY <1>0 DEF IInv, EndOK
    <2> QED BY <1>0, <1>7, <1>13, <2>1, <2>2, <2>3, <2>4 DEF IInv, EndOK
<1>16. QuotaOK'
    <2> SUFFICES ASSUME solving, num_work_left = 0
                 PROVE  \E u \in Threads :
                            /\ \A w \in Threads \ {u} : out'[w] = <<>>
                            /\ Len(m_queue') + Len(out'[u]) + Cardinality(Returned) = Cardinality(Threads)
        BY <1>0, <1>13 DEF QuotaOK
    <2>1. PICK u \in Threads :
            /\ \A w \in Threads \ {u} : out[w] = <<>>
            /\ Len(m_queue) + Len(out[u]) + Cardinality(Returned) = Cardinality(Threads)
        BY DEF IInv, QuotaOK
    <2>2. u = t
        BY <2>1, <1>0
    <2>3. Len(out[t]) \in Nat /\ Len(m_queue) \in Nat
        BY DEF IInv, TypeOK
    <2>4. Len(m_queue') + Len(out'[t]) + Cardinality(Returned) = Cardinality(Threads)
        <3>1. Len(out'[t]) = Len(out[t]) - 1 /\ Len(m_queue') = Len(m_queue) + 1
            BY <1>1, <1>7, <1>r
        <3>2. Len(m_queue) + Len(out[t]) + Cardinality(Returned) = Cardinality(Threads)
            BY <2>1, <2>2
        <3> DEFINE i == Len(m_queue)
                   j == Len(out[t])
                   k == Cardinality(Returned)
        <3>3. i \in Nat /\ j \in Nat /\ k \in Nat
            BY <2>3, ReturnedFinite
        <3>4. i + j + k = Cardinality(Threads)
            BY <3>2
        <3> HIDE DEF i, j, k
        <3>5. (i + 1) + (j - 1) + k = Cardinality(Threads)
            BY <3>3, <3>4
        <3> QED BY <3>1, <3>5 DEF i, j, k
    <2> QED BY <1>1, <2>1, <2>2, <2>4
<1> QED BY <1>0, <1>8, <1>9, <1>10, <1>11, <1>12, <1>14, <1>15, <1>16 DEF IInv, WorkNeverThrows

-----------------------------------------------------------------------------
\* Every node is counted, the start node is in the queue.
LEMMA SolveIInv == ASSUME IInv, Solve PROVE IInv'
<1> DEFINE s == start_node
<1>a. ~solving /\ m_queue = <<>> /\ \A t \in Threads : pc[t] = "joined" /\ out[t] = <<>>
    BY DEF Solve, IInv, EndOK, OutputsOK
<1>b. \A v \in Nodes : ~Somewhere(v)
    <2>1. \A v \in Nodes : <<v>> # <<>>
        OBVIOUS
    <2> QED BY <1>a, <2>1, EmptyHasNothing DEF Somewhere, Owns, Holds, Pushes
<1>c. \A v \in Nodes : m_state[v] = "initial"
    <2>1. \A v \in Nodes : m_state[v] # "done"
        BY DEF Solve, IInv, WorkOK
    <2>2. \A v \in Nodes : m_state[v] \notin {"in_queue", "in_progress"}
        BY <1>b DEF IInv, NothingLost
    <2> QED BY <2>1, <2>2 DEF IInv, TypeOK
<1>0. /\ ~solving /\ m_queue = <<>> /\ (\A v \in Nodes : m_state[v] = "initial") /\ solving'
      /\ num_work_left' = Cardinality(Nodes) /\ m_queue' = <<s>>
      /\ m_state' = [m_state EXCEPT ![s] = "in_queue"] /\ pc' = [t \in Threads |-> "pop"]
      /\ UNCHANGED <<waiting, outgoing, dag_done, thrown, current, todo, out>>
    BY <1>a, <1>c DEF Solve, PushElement
<1>1. /\ s \in Nodes /\ s \in Elements /\ <<s>> \in Seq(Elements) /\ Once(<<s>>) /\ \A e : In(e, <<s>>) <=> e = s
      /\ s # done_task
    BY OneNode, GraphAssumption DEF Elements
<1>2. \A t \in Threads : pc[t] = "joined" /\ pc'[t] = "pop" /\ out[t] = <<>> /\ out'[t] = <<>>
    BY <1>0 DEF IInv, EndOK, OutputsOK
<1>3. m_state'[s] = "in_queue" /\ \A v \in Nodes \ {s} : m_state'[v] = "initial"
    BY <1>0, <1>1 DEF IInv, TypeOK
<1>4. Cardinality(Nodes) \in Nat /\ Nodes # {} /\ Cardinality(Nodes) # 0
    BY <1>1, Finite, FS_CardinalityType, FS_EmptySet
<1>5. TypeOK'
    BY <1>0, <1>1, <1>4 DEF IInv, TypeOK, Elements
<1>6. \A t \in Threads, v \in Nodes : ~Owns(t, v)' /\ ~Pushes(t, v)'
    BY <1>2 DEF Owns, Holds, Pushes
<1>7. OutputsOK'
    BY <1>2 DEF OutputsOK
<1>8. PlacesOK' /\ StatesOK'
    BY <1>0, <1>1, <1>2, <1>3, <1>6 DEF PlacesOK, StatesOK
<1>9. NothingLost'
    BY <1>0, <1>1, <1>3 DEF NothingLost, Somewhere
<1>10. Uncounted' = Nodes
    BY <1>1, <1>3 DEF Uncounted
<1>11. WorkOK'
    BY <1>0, <1>1, <1>2, <1>3 DEF IInv, WorkOK
<1>12. CountOK' /\ QuotaOK'
    BY <1>0, <1>2, <1>4, <1>10 DEF CountOK, QuotaOK
<1>13. EndOK'
    BY <1>0, <1>1, <1>2, EmptyHasNothing DEF EndOK, Ending
<1> QED BY <1>0, <1>5, <1>7, <1>8, <1>9, <1>11, <1>12, <1>13 DEF IInv, WorkNeverThrows

\* All threads have returned: so nothing is left in the queue.
LEMMA JoinedClean ==
    ASSUME IInv, Join
    PROVE  /\ m_queue = <<>> /\ num_work_left = 0 /\ Uncounted = {}
           /\ \A t \in Threads : pc[t] = "returned" /\ out[t] = <<>>
<1>1. solving /\ \A t \in Threads : pc[t] = "returned" /\ out[t] = <<>>
    BY DEF Join, IInv, OutputsOK
<1>2. Uncounted = {} /\ num_work_left = 0
    BY <1>1, ZeroMeansNone, GraphAssumption DEF IInv, EndOK, Ending
<1>3. Cardinality(Returned) = Cardinality(Threads)
    <2>1. Returned = Threads
        BY <1>1 DEF Returned
    <2> QED BY <2>1
<1>4. Len(m_queue) = 0
    <2>1. Len(m_queue) + Len(<<>>) + Cardinality(Returned) = Cardinality(Threads)
        BY <1>1, <1>2 DEF IInv, QuotaOK
    <2> QED BY <2>1, <1>3, Finite DEF IInv, TypeOK
<1> QED BY <1>1, <1>2, <1>4, EmptySeq DEF IInv, TypeOK

\* The threads have been joined.
LEMMA JoinIInv == ASSUME IInv, Join PROVE IInv'
<1>0. /\ solving' = FALSE /\ pc' = [t \in Threads |-> "joined"]
      /\ current' = [t \in Threads |-> start_node]
      /\ UNCHANGED <<m_queue, waiting, outgoing, dag_done, m_state, num_work_left, thrown, todo, out>>
      /\ m_queue = <<>> /\ num_work_left = 0 /\ Uncounted = {}
      /\ \A t \in Threads : pc[t] = "returned" /\ out[t] = <<>>
    BY JoinedClean DEF Join, queueVars
<1>1. TypeOK'
    <2>1. /\ pc' \in [Threads -> {"joined", "pop", "check", "work", "working", "mark", "count",
                                 "children", "push", "notify", "returned"}]
          /\ current' \in [Threads -> Nodes] /\ solving' \in BOOLEAN
        BY <1>0, GraphAssumption
    <2> QED BY <1>0, <2>1 DEF IInv, TypeOK
<1>2. \A t \in Threads : pc'[t] = "joined" /\ out'[t] = <<>>
    BY <1>0
<1>3. \A t \in Threads, v \in Nodes : ~Owns(t, v)' /\ ~Pushes(t, v)'
    BY <1>2 DEF Owns, Holds, Pushes
<1>4. OutputsOK' /\ PlacesOK' /\ StatesOK' /\ NothingLost'
    <2>1. \A v \in Nodes : m_state'[v] = "done"
        BY <1>0 DEF Uncounted
    <2> QED BY <1>0, <1>2, <1>3, <2>1 DEF IInv, OutputsOK, PlacesOK, StatesOK, NothingLost
<1>5. Uncounted' = {}
    BY <1>0 DEF Uncounted
<1>6. WorkOK' /\ CountOK' /\ EndOK' /\ QuotaOK'
    BY <1>0, <1>2, <1>5 DEF IInv, WorkOK, CountOK, EndOK, QuotaOK
<1> QED BY <1>0, <1>1, <1>4, <1>6 DEF IInv, WorkNeverThrows

\* Everything is initial again.
LEMMA ResetIInv == ASSUME IInv, Reset PROVE IInv'
<1>0. /\ ~solving /\ solving' = FALSE /\ num_work_left = 0 /\ m_queue' = <<>>
      /\ dag_done' = [v \in Nodes |-> FALSE] /\ m_state' = [v \in Nodes |-> "initial"]
      /\ UNCHANGED <<waiting, outgoing, num_work_left, thrown, pc, current, todo, out>>
    BY DEF Reset, ClearQueue, local, IInv, EndOK
<1>1. \A t \in Threads : pc[t] = "joined" /\ out[t] = <<>>
    BY <1>0 DEF IInv, EndOK, OutputsOK
<1>2. TypeOK'
    <2>1. /\ dag_done' \in [Nodes -> BOOLEAN] /\ m_queue' \in Seq(Nodes \cup {done_task})
          /\ m_state' \in [Nodes -> {"initial", "in_queue", "in_progress", "done"}]
          /\ solving' \in BOOLEAN
        BY <1>0, EmptySeq
    <2> QED BY <1>0, <2>1 DEF IInv, TypeOK
<1>3. \A t \in Threads, v \in Nodes : ~Owns(t, v)' /\ ~Pushes(t, v)'
    <2>1. \A v \in Nodes : <<v>> # <<>>
        OBVIOUS
    <2> QED BY <1>0, <1>1, <2>1 DEF Owns, Holds, Pushes
<1>4. OutputsOK' /\ PlacesOK' /\ StatesOK' /\ NothingLost'
    BY <1>0, <1>1, <1>3, EmptyHasNothing DEF OutputsOK, PlacesOK, StatesOK, NothingLost
<1>5. WorkOK' /\ CountOK' /\ EndOK' /\ QuotaOK'
    BY <1>0, <1>1, EmptyHasNothing DEF WorkOK, CountOK, EndOK, Ending, QuotaOK
<1> QED BY <1>0, <1>2, <1>4, <1>5 DEF IInv, WorkNeverThrows

-----------------------------------------------------------------------------
\* Every step preserves the inductive invariant.
LEMMA NextIInv == IInv /\ [Next]_vars => IInv'
<1> SUFFICES ASSUME IInv, [Next]_vars PROVE IInv'
    OBVIOUS
<1>1. CASE Solve
    BY <1>1, SolveIInv
<1>2. CASE Join
    BY <1>2, JoinIInv
<1>3. CASE Reset
    BY <1>3, ResetIInv
<1>4. ASSUME NEW t \in Threads, Wait(t) \/ Wake(t) PROVE IInv'
    <2>1. waiting' \subseteq Threads /\ UNCHANGED <<m_queue, dagVars, local>>
        BY <1>4 DEF Wait, Wake, WaitForElement, WakeSpuriously, IInv, TypeOK
    <2> QED BY <2>1, WaitingIInv
<1>5. ASSUME NEW t \in Threads, SkipChild(t) \/ NoMoreChildren(t) \/ Notify(t) PROVE IInv'
    <2>1. CASE SkipChild(t)
        <3>1. /\ pc[t] = "children" /\ pc' = [pc EXCEPT ![t] = "children"] /\ out[t] = <<>>
              /\ waiting' \subseteq Threads /\ todo' \in [Threads -> SUBSET Nodes]
              /\ UNCHANGED <<m_queue, dagVars, current, out>>
            BY <2>1 DEF SkipChild, queueVars, IInv, TypeOK, OutputsOK
        <3> QED BY <3>1, QuietIInv
    <2>2. CASE NoMoreChildren(t)
        <3>1. /\ pc[t] = "children" /\ pc' = [pc EXCEPT ![t] = "pop"] /\ out[t] = <<>>
              /\ waiting' \subseteq Threads /\ todo' \in [Threads -> SUBSET Nodes]
              /\ UNCHANGED <<m_queue, dagVars, current, out>>
            BY <2>2 DEF NoMoreChildren, Goto, queueVars, IInv, TypeOK, OutputsOK
        <3> QED BY <3>1, QuietIInv
    <2>3. CASE Notify(t)
        <3>1. PICK s \in {"children", "push"} : s = IF out[t] = <<>> THEN "children" ELSE "push"
            OBVIOUS
        <3>2. /\ pc[t] = "notify" /\ pc' = [pc EXCEPT ![t] = s] /\ (out[t] # <<>> <=> s = "push")
              /\ waiting' \subseteq Threads /\ todo' \in [Threads -> SUBSET Nodes]
              /\ UNCHANGED <<m_queue, dagVars, current, out>>
            BY <2>3, <3>1 DEF Notify, NotifyOne, Goto, IInv, TypeOK
        <3> QED BY <3>1, <3>2, QuietIInv
    <2> QED BY <1>5, <2>1, <2>2, <2>3
<1>6. ASSUME NEW t \in Threads, WorkerStep(t) PROVE IInv'
    BY <1>4, <1>5, <1>6, PopNodeIInv, PopDoneTaskIInv, AllParentsDoneIInv, PutBackIInv, WorkBeginIInv,
       WorkEndIInv, MarkDoneIInv, CountDownIInv, ClaimChildIInv, PushIInv DEF WorkerStep
<1>7. CASE UNCHANGED vars
    <2>1. waiting' \subseteq Threads /\ UNCHANGED <<m_queue, dagVars, local>>
        BY <1>7 DEF vars, queueVars, IInv, TypeOK
    <2> QED BY <2>1, WaitingIInv
<1> QED BY <1>1, <1>2, <1>3, <1>4, <1>6, <1>7 DEF Next

\* What the places and the states of the nodes say about each other holds throughout, for
\* every task graph and every number of threads.
THEOREM Invariance == Spec => []IInv
BY InitIInv, NextIInv, PTL DEF Spec

\* Every variable keeps its type, and num_work_left counts no node twice.
THEOREM TypeCorrect == Spec => []TypeOK
<1>1. IInv => TypeOK
    BY DEF IInv
<1> QED BY <1>1, Invariance, PTL

\* DAGTask::work() never throws: no node is worked on twice or before its parents,
\* whatever the interleaving of the workers.
THEOREM NeverThrows == Spec => []WorkNeverThrows
<1>1. IInv => WorkNeverThrows
    BY DEF IInv
<1> QED BY <1>1, Invariance, PTL

\* In how many places of the queue and of the pushes to come a node is.
LEMMA QueuedOnce ==
    ASSUME IInv, NEW v \in Nodes
    PROVE  Cardinality(Queued(v)) = IF In(v, m_queue) THEN 1 ELSE 0
<1>1. CASE In(v, m_queue)
    <2>1. PICK i \in DOMAIN m_queue : m_queue[i] = v
        BY <1>1 DEF In
    <2>2. Queued(v) = {i}
        BY <2>1 DEF Queued, IInv, PlacesOK, Once
    <2> QED BY <1>1, <2>2, FS_Singleton
<1>2. CASE ~In(v, m_queue)
    <2>1. Queued(v) = {}
        BY <1>2 DEF Queued, In
    <2> QED BY <1>2, <2>1, FS_EmptySet
<1> QED BY <1>1, <1>2

LEMMA PendingOnce ==
    ASSUME IInv, NEW v \in Nodes
    PROVE  Cardinality(Pending(v)) = IF \E t \in Threads : Pushes(t, v) THEN 1 ELSE 0
<1>1. ASSUME NEW t \in Threads, NEW i \in DOMAIN out[t], out[t][i] = v
      PROVE  Pushes(t, v) /\ i = 1
    <2>1. PICK w \in Nodes : out[t] = <<w>>
        BY <1>1, GraphAssumption DEF IInv, OutputsOK, Pushes
    <2>2. i = 1 /\ w = v
        BY <1>1, <2>1
    <2> QED BY <2>1, <2>2 DEF Pushes
<1>2. CASE \E t \in Threads : Pushes(t, v)
    <2>1. PICK t \in Threads : Pushes(t, v)
        BY <1>2
    <2>2. \A u \in Threads : Pushes(u, v) => u = t
        BY <2>1 DEF IInv, PlacesOK, Owns
    <2>3. 1 \in DOMAIN out[t] /\ out[t][1] = v /\ 1 \in 1 .. Cardinality(Threads)
        BY <2>1, Finite DEF Pushes
    <2>4. <<t, 1>> \in Pending(v)
        BY <2>3 DEF Pending
    <2>5. \A p \in Pending(v) : p = <<t, 1>>
        BY <1>1, <2>2 DEF Pending
    <2>6. Pending(v) = {<<t, 1>>}
        BY <2>4, <2>5
    <2> QED BY <1>2, <2>6, FS_Singleton
<1>3. CASE \A t \in Threads : ~Pushes(t, v)
    <2>1. Pending(v) = {}
        BY <1>1, <1>3 DEF Pending
    <2> QED BY <1>3, <2>1, FS_EmptySet
<1> QED BY <1>2, <1>3

LEMMA HeldOnce ==
    ASSUME IInv, NEW v \in Nodes
    PROVE  Cardinality({t \in Threads : Holds(t, v)}) = IF \E t \in Threads : Holds(t, v) THEN 1 ELSE 0
<1>1. CASE \E t \in Threads : Holds(t, v)
    <2>1. PICK t \in Threads : Holds(t, v)
        BY <1>1
    <2>2. \A u \in Threads : Holds(u, v) => u = t
        BY <2>1 DEF IInv, PlacesOK, Owns
    <2>3. {u \in Threads : Holds(u, v)} = {t}
        BY <2>1, <2>2
    <2> QED BY <1>1, <2>3, FS_Singleton
<1>2. CASE \A t \in Threads : ~Holds(t, v)
    <2>1. {t \in Threads : Holds(t, v)} = {}
        BY <1>2
    <2> QED BY <1>2, <2>1, FS_EmptySet
<1> QED BY <1>1, <1>2

\* During solve() a node is in one place while it is in the queue or in progress, and
\* nowhere before it is reached and after it is finished.
THEOREM OnePlace == Spec => []OnePlacePerNode
<1>1. IInv => OnePlacePerNode
    <2> SUFFICES ASSUME IInv PROVE OnePlacePerNode
        OBVIOUS
    <2>1. ASSUME NEW t \in Threads, pc[t] = "check" PROVE m_state[current[t]] = "in_queue"
        BY <2>1 DEF IInv, StatesOK
    <2>2. ASSUME solving, NEW v \in Nodes
          PROVE  Cardinality(Queued(v)) + Cardinality(Pending(v))
                        + Cardinality({t \in Threads : Holds(t, v)})
                    = IF m_state[v] \in {"in_queue", "in_progress"}
                            \/ \E t \in Threads : Holds(t, v) /\ pc[t] = "mark"
                      THEN 1 ELSE 0
        <3> DEFINE queued == In(v, m_queue)
                   pending == \E t \in Threads : Pushes(t, v)
                   held == \E t \in Threads : Holds(t, v)
                   active == m_state[v] \in {"in_queue", "in_progress"}
        <3>1. /\ Cardinality(Queued(v)) = IF queued THEN 1 ELSE 0
              /\ Cardinality(Pending(v)) = IF pending THEN 1 ELSE 0
              /\ Cardinality({t \in Threads : Holds(t, v)}) = IF held THEN 1 ELSE 0
            BY QueuedOnce, PendingOnce, HeldOnce
        <3>2. active <=> queued \/ pending \/ held
            BY <2>2, OwnedStates DEF IInv, StatesOK, NothingLost, Somewhere, Owns
        <3>3. ~(queued /\ pending) /\ ~(queued /\ held)
            BY DEF IInv, PlacesOK, Owns
        <3>4. ~(pending /\ held)
            <4> SUFFICES ASSUME NEW t \in Threads, Pushes(t, v), NEW u \in Threads, Holds(u, v) PROVE FALSE
                OBVIOUS
            <4>1. u = t
                BY DEF IInv, PlacesOK, Owns
            <4>2. <<v>> # <<>>
                OBVIOUS
            <4> QED BY <4>1, <4>2 DEF IInv, OutputsOK, Pushes, Holds
        <3>5. (\E t \in Threads : Holds(t, v) /\ pc[t] = "mark") => active
            BY <3>2
        <3> HIDE DEF queued, pending, held, active
        <3> QED BY <3>1, <3>2, <3>3, <3>4, <3>5 DEF active
    <2> QED BY <2>1, <2>2 DEF OnePlacePerNode
<1> QED BY <1>1, Invariance, PTL

\* done_tasks are pushed when every node is done, and there are as many as threads: none is
\* left behind, nor is a node, when the threads have been joined.
THEOREM DoneTasksLast == Spec => []DoneTasksComeLast
<1>1. IInv => DoneTasksComeLast
    <2> SUFFICES ASSUME IInv PROVE DoneTasksComeLast
        OBVIOUS
    <2>1. ASSUME Queued(done_task) # {} \/ \E t \in Threads : pc[t] = "returned", NEW v \in Nodes
          PROVE  dag_done[v] /\ Queued(v) = {}
        <3>1. Uncounted = {}
            BY <2>1 DEF IInv, EndOK, Ending, Queued, In
        <3>2. m_state[v] = "done" /\ ~In(v, m_queue)
            BY <3>1, NoneLeft
        <3> QED BY <3>2 DEF IInv, WorkOK, Queued, In
    <2>2. ~solving => m_queue = <<>> /\ num_work_left = 0
        BY DEF IInv, EndOK
    <2> QED BY <2>1, <2>2 DEF DoneTasksComeLast
<1> QED BY <1>1, Invariance, PTL

\* Every step of the solver is one of the ordered work, or changes nothing of it.
LEMMA WorkStep ==
    ASSUME IInv, [Next]_vars
    PROVE  [Ordered!WorkNext]_(Ordered!workVars)
<1> DEFINE worked == {v \in Nodes : dag_done[v]}
           parents == [v \in Nodes |-> incoming(v)]
<1>1. CASE Solve
    <2>1. worked = {}
        BY <1>1 DEF Solve
    <2>2. ~solving /\ solving' = TRUE /\ parents' = parents /\ worked' = worked
        BY <1>1 DEF Solve, incoming
    <2> QED BY <2>1, <2>2 DEF Ordered!WorkNext, Ordered!Begin
<1>2. CASE Join
    <2>1. worked = DOMAIN parents
        BY <1>2, JoinedClean, NoneLeft DEF IInv, WorkOK
    <2>2. solving /\ solving' = FALSE /\ parents' = parents /\ worked' = worked
        BY <1>2 DEF Join, incoming
    <2> QED BY <2>1, <2>2 DEF Ordered!WorkNext, Ordered!End, Ordered!Tasks
<1>3. CASE Reset
    <2>1. ~solving /\ solving' = solving /\ parents' = parents /\ worked' = {}
        BY <1>3 DEF Reset, incoming
    <2> QED BY <2>1 DEF Ordered!WorkNext, Ordered!StartOver
<1>4. ASSUME NEW t \in Threads, WorkEnd(t) PROVE Ordered!WorkNext
    <2>1. PICK c \in Nodes : c = current[t]
        BY DEF IInv, TypeOK
    <2>2. /\ c \notin worked /\ parents[c] \subseteq worked /\ solving
        BY <1>4, <2>1 DEF WorkEnd, Goto, IInv, WorkOK, EndOK, incoming
    <2>3. /\ worked' = worked \cup {c} /\ parents' = parents /\ solving' = solving
        BY <1>4, <2>1 DEF WorkEnd, Goto, incoming, IInv, TypeOK
    <2>4. c \in DOMAIN parents
        BY <2>1
    <2> QED BY <2>2, <2>3, <2>4 DEF Ordered!WorkNext, Ordered!WorkOn, Ordered!Tasks
<1>5. CASE UNCHANGED <<outgoing, dag_done, solving>>
    BY <1>5 DEF Ordered!workVars, incoming
<1>6. ASSUME NEW t \in Threads, WorkerStep(t) \/ Wake(t), ~WorkEnd(t)
      PROVE  UNCHANGED <<outgoing, dag_done, solving>>
    BY <1>6 DEF WorkerStep, Wake, PopNode, PopDoneTask, Wait, AllParentsDone, PutBack, WorkBegin, MarkDone,
       CountDown, ClaimChild, SkipChild, NoMoreChildren, Push, Notify, dagVars
<1>7. CASE UNCHANGED vars
    BY <1>5, <1>7 DEF vars, dagVars
<1> QED BY <1>1, <1>2, <1>3, <1>4, <1>5, <1>6, <1>7 DEF Next

\* The solver implements the ordered work on the graph: each node once, after its parents,
\* and all of them before solve() returns.
THEOREM SolverImplementsOrderedWork == Spec => ImplementsOrderedWork
<1>1. Init => Ordered!WorkInit
    BY DEF Init, Ordered!WorkInit
<1>2. IInv /\ [Next]_vars => [Ordered!WorkNext]_(Ordered!workVars)
    BY WorkStep
<1> QED BY <1>1, <1>2, Invariance, PTL DEF Spec, ImplementsOrderedWork, Ordered!WorkSpec
=============================================================================

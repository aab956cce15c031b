----------------------------- MODULE MCLiveness -----------------------------
(***************************************************************************)
(* Do calls return?  The lock-free queue, the lock-free union-find or the  *)
(* container, one of them in each behaviour, under the fairness each of    *)
(* them states.  The other ones stay idle, where it asks for nothing.      *)
(***************************************************************************)
EXTENDS MCConcurrentQueue

VARIABLES
    component,          \* which of them runs
    union_find, filtered_edges, num_filtered_edges, bfs_parents, block, todo, team, uf_pc, edge,
    side, uf_a, rank, path, kept, pos, lastRank, rejected, apart,
    capacity, slots, calls, thread_offset, walk, undisturbed

Connectivity == INSTANCE DynamicConnectivity
    WITH pc <- uf_pc, a <- uf_a, Nodes <- 0 .. 3, Queries <- {<<0, 2>>},
         Blocks <- <<{<<0, 1>>, <<3, 2>>, <<1, 2>>}, {<<0, 3>>}>>

ufVars == <<union_find, filtered_edges, num_filtered_edges, bfs_parents, block, todo, team, uf_pc,
            edge, side, uf_a, rank, path, kept, pos, lastRank, rejected, apart>>

Plan(n, c1, c2, c3) == [capacity |-> n, calls |-> (t1 :> c1) @@ (t2 :> c2) @@ (t3 :> c3)]
Idle == Plan(1, <<>>, <<>>, <<>>)
ContainerPlans == {
    Idle,
    Plan(1, <<a>>, <<b>>, <<empty, empty>>),
    Plan(1, <<a, a>>, <<empty>>, <<empty>>),
    Plan(1, <<a, b>>, <<empty>>, <<empty>>),
    Plan(2, <<a, empty>>, <<b, empty>>, <<>>),
    Plan(2, <<a, b>>, <<a>>, <<empty, empty, empty>>)}

Container == INSTANCE ConcurrentContainer
    WITH Threads <- ThreeThreads, Items <- TwoItems, Zero <- empty, Plans <- ContainerPlans,
         m_capacity <- capacity, m_elements <- slots

containerState == <<capacity, slots, calls, thread_offset, walk, undisturbed>>

LiveInit ==
    /\ Init /\ Connectivity!Init /\ Container!ContainerInit
    /\ component \in {"queue", "union_find", "container"}
    /\ component # "queue" => m_capacity = 0    \* the capacity does not matter then
    /\ component = "container" <=> calls # Idle.calls

LiveNext ==
    /\ \/ component = "queue" /\ Next /\ UNCHANGED <<ufVars, containerState>>
       \/ component = "union_find" /\ Connectivity!Next /\ UNCHANGED <<vars, containerState>>
       \/ component = "container" /\ Container!ContainerNext /\ UNCHANGED <<vars, ufVars>>
       \/ component = "container" /\ Container!AllReturned /\ UNCHANGED <<vars, ufVars, containerState>>
    /\ UNCHANGED component

LiveSpec ==
    /\ LiveInit /\ [][LiveNext]_<<component, vars, ufVars, containerState>>
    /\ Fairness /\ Connectivity!Fairness /\ Container!ContainerFairness

-----------------------------------------------------------------------------
\* Every call of addEdges, unite and connected returns (see DynamicConnectivity), and so
\* does every push() and pop() of the container when as much is popped as is pushed.
CallsReturn == Connectivity!CallsReturn /\ <>Container!AllReturned

\* The container is a pool of items: none is lost, doubled or made up, and a walk that
\* nobody disturbs finds room or an item if there is any.
ImplementsPool == Container!ImplementsPool
=============================================================================

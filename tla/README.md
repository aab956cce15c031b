# A TLA+ model of the "efficient parallel C++" lab exercises

The repository holds five exercises. Exercises 3 to 5 are concurrent data
structures and solvers, exercises 1 and 2 sequential data structures. The
modules here model the state machines of that code at the grain of its atomic
accesses and critical sections, TLC checks them on small instances, and TLAPS
proves what holds of the lock-free queue, the solvers of task graphs and trees
and the lock-free union-find structure for every number of threads, elements,
slots and nodes.

## Inventory

| Part | State | Operations | Hard about it |
|---|---|---|---|
| `ConcurrentQueue` (exercise4) | the ring `m_elements`, two consumer and two producer counters | push, pop, try_push, try_pop, reset | tickets are claimed by CAS, published in turn; wrap-around of the ring; stale loads |
| `MutexStdQueue` (exercise4) | `std::queue`, mutex, condition variable | push, pop, reset | notification after the unlock, lost or taken by another thread |
| `DAGSolver`, `DAGTask` (exercise4) | state of every node, counter of unfinished nodes, queue | solve, reset, work | who pushes a node with several parents, when to push the `done_task`s |
| `TreeSolverNaive`, `TreeSolver`, `TreeSolverSequential`, `TreeTask` (exercise4) | work counters, shared queue, one local queue per worker, size estimate | solve, reset, work | termination without a count of what is in flight; sharing between local queues |
| `ConcurrentContainer` (exercise4) | an array of slots, an offset per thread | push, pop, try_push, try_pop, reset | slots are filled and emptied by CAS during a walk; the offset is a number of full width |
| `DynamicConnectivity`, DC_F (exercise3) | `union_find` of atomics (negated rank or parent), `filtered_edges`, `bfs_parents` | addEdges, unite, connected, parentOf | lock-free link and rank update, path compression by everybody |
| `DynamicConnectivity`, DC_B to DC_E (exercise3) | plain parents, ranks, a mutex per node | addEdges, unite, try_lock_trees | compression and link under different mutexes |
| `graph_algorithms` (exercise3) | adjacency array, frontiers and flags per thread, kept from call to call | build_adj_array, bfs_from_roots, parallel and sequential | counting and filling in parallel; which barrier separates what |
| `DynamicConnectivity`, sequential (exercise3) | parents, ranks, `filtered_edges`, `bfs_parents` | addEdges, unite, connected, parentOf | what the parallel ones are compared with |
| lists (exercise5): `single_mutex_list`, `node_mutex_list`, `atomic_marked_list` | a linked list with one mutex, one per node, or a mark bit per node | insert, find, erase, size, clear | hand-over-hand locking; unlinking of marked nodes by everybody |
| `BloomFilterAdapter`, `ListBucket`, `HashMap` (exercise5) | 64 bits and a list per bucket | insert, find, erase, clear | the bits are set before the insertion |
| `ReferenceSolution`, `ComponentsCounter` (exercise3) | rank and parent of a node in one word; `filtered_edges`, `parents` | addEdges, unite, link, increase_rank, the count | relaxed CAS on the word; what the tests take as the truth |
| `leaking_atomic_list`, `atomic_shared_ptr_list`, `atomic_shared_ptr` (exercise5) | nodes linked by plain or counted atomic pointers | insert, find, erase; load, store, exchange, CAS | counts change after the pointer, one by one |
| `AlignedVector` (exercise1) | an aligned block, an offset, size and capacity | reserve, push_back, pop_back | bytes, elements and the offset in one formula |
| generators (exercises 3 and 4), `instance_generation` (exercise5), the constructors of `TreeTask` and `DAGTask` | drawn edges, the arrays made of a file | draw, direct, write, read | reverse edges are filled in place; what the solvers take for granted must come out |
| heaps and hash tables (exercise1), `IndexedPriorityQueue`, `Dijkstra`, `BFS` (exercise2) | arrays and positions | push, pop, change_key, insert, find, run | positions that follow their elements, bounds of the sift loops |

Solvers call their queue and the task object; `DynamicConnectivity` calls the
graph algorithms after its parallel region; the hash map calls a bucket, which
calls the filter and the list. Threads meet only in these objects.

What makes each part correct, in one line: the queue is a FIFO queue of bounded
size whose refusals are justified; a solver works on every node once, after its
parents, and returns; the union-find structure keeps a spanning forest of the
edges it was given and never a cycle; a list is a linearizable set; a heap, the
container and a hash table agree with a bag and a map.

## The modules

| Code | Modules | Abstract specification | Runs |
|---|---|---|---|
| `concurrent_queue.hpp` | `ConcurrentQueue`, proofs in `ConcurrentQueueProofs` | `BoundedFIFO` | `queue`, `queue_pop`, `liveness` |
| `mutex_std_queue.hpp` | `MutexStdQueue`, extended by the solvers | | `dag`, `tree` |
| `dag_solver.hpp`, `dag.hpp` | `DAGSolver`, proofs in `DAGSolverProofs` | `OrderedWork` | `dag` |
| `concurrent_container.hpp` | `ConcurrentContainer` | `Pool` | `liveness` |
| `tree_solver_naive.hpp`, `tree_solver.hpp`, `tree_solver_sequential.hpp`, `tree.hpp` | `TreeSolverNaive`, `TreeSolver`, `TreeSolverSequential` over `TreeTask`, composed in `MCTreeSolvers`, proofs in `TreeSolverProofs` | `OrderedWork` | `tree`, `tree_drain` |
| `dynamic_connectivity.{hpp,cpp}` | `DynamicConnectivity`, proofs in `DynamicConnectivityProofs` | `SpanningForest` | `union_find`, `liveness` |
| `dynamic_connectivity_{b,c,d,e}.cpp`, `dynamic_connectivity_mt.hpp` | `LockedUnionFind`, proofs in `UnionFindProofs` | `SpanningForest` | `union_find`, `union_find_locks` |
| `graph_algorithms.hpp` | `ForestBuild` | the step `BuildForest` of `DynamicConnectivity` | `union_find` |
| `reference_solution.{hpp,cpp}` | `ReferenceSolution` | `SpanningForest` | `union_find` |
| `dynamic_connectivity_sequential.{hpp,cpp}`, `num_components.hpp` | `SequentialConnectivity` | `SpanningForest` | `union_find` |
| `hash_map.h`, `bucket.h`, `bloom_filter.h` | `HashMap` | `ConcurrentSet` | `lists`, `marked_list` |
| `lists/{single_mutex,node_mutex,atomic_marked}_list.h` | `MutexLists` (the first two), `AtomicMarkedList`, each over `HashMap` | `ConcurrentSet` | `lists`, `marked_list` |
| `lists/_leaking_atomic_list.h`, `lists/_atomic_shared_ptr_list.h` | `UnmarkedLists`, over `HashMap` | `ConcurrentSet` | `lists` |
| `atomic_shared_ptr.h` | `AtomicSharedPtr` | | `lists` |
| `pq_a.h` to `pq_d.h` | `PriQueue`, proofs in `HeapProofs` | `MaxQueue` | `sequential` |
| `AlignedVector.h` | `AlignedVector`, proofs in `SequentialProofs` | | `sequential` |
| the readers in `tree.hpp` and `dag.hpp` | `TaskFiles`, used by `TreeTask`, `DAGSolver` and `Generators` | | `sequential`, `tree`, `dag` |
| `tools/graph_generator.cpp` (exercises 3 and 4), `tools/tree_generator.cpp` | `Generators` | what the solvers assume, `IsTree` and `IsTaskGraph` | `sequential` |
| `instance_generation.h` | `Generators`, its second part | | `sequential` |
| `indexed_priority_queue.hpp` | `IndexedPriorityQueue`, proofs in `HeapProofs` | `MaxQueue` | `sequential`, `lowered_key` |
| `dijkstra.hpp`, `bfs.hpp` and the graphs | `Searches`, over `IndexedPriorityQueue`; its first part holds the layouts of all five graph classes | shortest lengths, `ShortestFrom` | `sequential` |
| `hash_a.h`, `hash_b.h`, `hash_original.h` | `LinearProbing`, proofs in `SequentialProofs` | | `sequential` |

The `MC*` modules hold the values of the constants; five of them also let one
variable choose which implementation a behaviour runs (`runs` in
`MCUnionFind`, `solver` in `MCTreeSolvers`, `part` and `map.list` in `MCLists`, `which` in
`MCSequential`, `component` in `MCLiveness`), so that one question is asked of
all implementations of an interface at once.

Variables carry the names of the members, actions those of the functions or of
the step of a function. `pc[t]` is the access a thread makes next. Variables
marked *history* in the modules are not in the code: they record what was pushed
with each ticket, what a pop returned, which edges were refused, what a thread
could have seen since its call began. A definition commented *Mutant* is not
part of the model: it is a plausible mistake in the definition below it, and
substituting it breaks the property that it is listed with.

### Grain and abstractions

- **Lock-free code**: every load, store and CAS is an action; weak CAS may fail
  spuriously. The accesses are `seq_cst` except the Bloom filter's and the
  solver's size estimate, which are relaxed: the model puts these in an order,
  and says nothing about reorderings.
- **Critical sections** are one action where nothing inside them blocks
  (`MutexStdQueue`, `single_mutex_list`). `MutexStdQueue::push` notifies after
  the unlock, in a step of its own; `pop` may be woken spuriously.
  `node_mutex_list` takes one action from a `lock()` to the next one. A
  `try_lock` may fail although the mutex is free.
- **Plain integers that race** (the parents of DC_B to DC_E): each read and each
  write is an action. The language gives such a program no meaning at all; the
  model is what the compiled loads and stores do.
- **`DAGSolver`** reads the states of a node's parents one after the other; that
  is one action at the last read, because `done` is final and a negative answer
  may be given at any of the reads. The assertion at `dag_solver.hpp:74` names a
  variable that does not exist and compiles only with `NDEBUG`.
- **Elements** are pushed as v + 1 so that none is `T{}`. Where the encoding
  matters (`TreeSolver`, where one place forgets it) it is in the model; in
  `DAGSolver` it is not.
- **The estimate of `TreeSolver`**: `num_elements_in_queues` is not the number of
  elements in the queues, not even nearly so: the root is taken without having been
  added, a node is counted down after it was popped, children are counted before
  or after they move, and a `done_task` is counted down although nobody counted it.
  `EstimateCountsNodes` says what it is: the number of the nodes in `CountedNodes`,
  less one, less the workers that have returned.
- **Hash map**: a key is its hash, cut into bucket and filter bits; mapped values
  and handles are reduced to whether there is one. Nodes are numbered in the
  order of their creation, at most `nodes` of them. The atomic list reclaims
  nodes only in its destructor, so that no address is used twice. Its `clear()`
  cannot be instantiated. (With `std::hash<int>` the upper bits of small keys
  are all equal and every key has the same filter bits: the filter is then
  useless, not wrong.)
- **`connected()`** of DC_F runs at any time: its loop, which tries again when the
  first representative is a root no longer, is written for that. The tests call
  it between the calls of `addEdges` only; that of the locked builds, which has
  no such loop, is left out.
- **`BuildForest`** of `DynamicConnectivity` is the adjacency array and the
  search from the roots in one step: they run when the union-find is at rest.
  `ForestBuild` has them in detail and `SearchForestIsRooted` shows that they do
  what that step says. There an iteration that writes only what no other one
  does is taken with the rest of its loop, and every `fetch_add` that gives out a
  place is an action.
- **`ConcurrentContainer`**: a start of a walk is kept modulo the capacity. That
  is what the code uses of it unless `search_start + search_size` leaves the
  range of `size_t`, which a random start of full width could make it do; the
  model leaves that case out.
- **Hash tables** with linear probing: keys only, without the mapped values; of the
  pair that `insert` returns the position is modelled, not the boolean.
- **Heaps**: elements are a value, which is compared, and a handle. In
  PriQueueA, B and C the handle stands for what the comparison does not look at,
  so that the refinement can tell elements apart. Sifting is recursive, and an
  operation is one action, as in any sequential program.
- **Reference solution**: a representative that is found is compressed to with
  relaxed stores; the model puts them in an order. `find` climbs one node per
  action.
- **Lists without marks**: their nodes are never freed (`leaking_atomic_list`) or
  counted; the lifetime of the counted nodes is not in `UnmarkedLists`, the
  counts have a module of their own, `AtomicSharedPtr`. A weak CAS fails only if
  the pointer differs.
- **`atomic_shared_ptr`**: between the change of a pointer and that of its counts
  everything can happen, and each count is an action. `load()`, which says of
  itself that it is broken, and the CAS, which counts in the same way, are
  called only while no other thread replaces the pointer. A CAS that fails and
  drops the last pointer to a block makes a temporary `shared_ptr` of it (line
  206), under the comment that the block is freed there: but the destructor
  counts once more, finds zero and not one, and the block is lost with a count
  of -1. `BlocksCounted` names that case, `LostByCAS` (disagreement 6 below).
- **`AlignedVector`**: memory is counted in elements of `sizeof(T)`. With capacity
  0 no memory is allocated and the assertions at the end of `reserve` would
  fail; the instances have a positive capacity, as the heaps ask for. Moved-from
  elements are not destroyed, which only a destructor with an effect would show.
- **Generators**: a random number is any number in its range, so that every output
  is covered. Asked for more edges than there are pairs of nodes, the loops never
  end (`exercise4/tools/graph_generator.cpp:44`): the instances ask for fewer.
  Amounts of work and statistics are left out.
- **Searches**: lengths are whole numbers; `Infinity` is a number above every
  path. One action takes one node from the queue or the frontier.

## What the runs check

| Run | Instance | Shows |
|---|---|---|
| `queue` | 3 threads, 2 elements, capacities 0 to 2, 3 tickets between resets | the order of heads and tails, exclusive slots, intact elements, justified refusals; the visible part refines `BoundedFIFO` |
| `queue_pop` | as above, violation | `pop()` can return `T{}`, against its own assertion |
| `liveness` | 2 threads; queues of capacity 0 to 2 with one element; four nodes and two blocks of edges; containers of 1 and 2 slots with three threads | a call with a ticket returns; claims are lock-free; `addEdges`, `unite` and `connected` return, and so do the container's calls; the container refines `Pool` |
| `dag` | 3 workers, 7 graphs of 4 nodes, repeated solve and reset | `work()` never throws, nodes are in one place, `done_task`s come last, `solve()` refines `OrderedWork` and returns |
| `tree` | the three tree solvers, 1 to 5 workers, chain, fork, broom and a star of 9 nodes | no worker's call throws, no worker waits alone, own queues and the estimate account for every node, all refine `OrderedWork` |
| `tree_drain` | as above, violation | the loop after the join calls `work()` for a wrong node |
| `union_find` | 4 nodes, up to 3 threads; DC_F in two blocks with a query; DC_B with 3 threads; DC_C, D, E with one; the sequential one; the reference solution with 2 threads; the search forest of two growing sets of edges, built by 3 threads or by one | ranks and ids grow along parents (no cycle), trees are as large as their ranks say, kept edges are stored once each, at a place of their own, the count of components is right, answers are right, accepted edges are a spanning forest, and so is, rooted where it should be, what the search makes of them |
| `union_find_locks` | 3 nodes, 2 threads, DC_C, D, E, violation | concurrent path compression can close a cycle |
| `lists` | 2 threads, 3 keys, 1 or 2 buckets, 0 to 2 filter bits, all five lists; 2 threads with two `shared_ptr` each and an atomic one, 2 blocks | every answer is linearizable; each key is once in the list of its bucket and covered by its filter; memory in use is valid: walkers of `node_mutex_list` stand on nodes of the list, the manager of `atomic_marked_list` gets erased nodes only and, with one thread that changes the list or without erasures, no node is destroyed twice, a block is freed when nobody refers to it and not before, but for one that a failing CAS loses; marked pointers are final |
| `marked_list` | 2 threads insert and erase, violation | an inserted key can be lost |
| `sequential` | heaps of 5 with degrees 2 and 3, an indexed queue of 5 keys, all graphs of 3 nodes with lengths 0, 1, 3 and two of 5 nodes, hash tables of 2 and 4 cells; the searches by breadth on all three layouts of a graph; vectors of three layouts; trees and task graphs of up to 4 nodes and graphs of two components; benchmarks of up to 4 queries | heap order and positions, refinement of `MaxQueue`, right answers of searches on helpers used again, keys found where they are, and passed once by an iteration; a vector's elements inside its block and at the promised alignment; generated files are trees, acyclic graphs or the right number of components and are read back as written, and generated queries find what they expect |
| `lowered_key` | an indexed queue of 5 keys, violation | after a key is lowered the top need not be the largest |

### Why these bounds

- *Queue*: with two slots the third ticket wraps around to slot 0 while the
  owners of tickets 0 and 1 may still be at work, which takes three threads;
  one slot makes every ticket collide with the next; none makes every push fail.
  `reset()` starts the tickets again, so that the bound is on the tickets of one
  use. In `liveness` the elements do not matter and one is enough.
- *DAG*: `solve()` is called whenever the task is new or reset, whatever is in the
  queue and the states by then, so that a `reset()` that forgets one of them would
  show. A node with three parents and three workers reach every combination of
  claims and put-backs; four nodes are enough for a child that is claimed while
  an earlier parent waits.
- *Trees*: the branch that shares the excess of an own queue needs a worker with
  more children than its bound, hence the star; more workers than nodes is what
  makes `done_task`s overtake nodes.
- *Union-find*: a link of equal ranks with another link in between needs four
  nodes; the chord makes an edge that must be refused.
- *Search forest*: two edges at the same node make two threads take places in
  one list; the second call has another root and a tree that grew, so that flags
  and frontiers left by the first one would show.
- *Container*: with one slot every walk meets every other one, and two pops on it
  against two pushes see it filled again, with the same item or another one, between
  the load and the CAS of a pop; with two slots a thread can find room or an item
  behind the walk of another. As much is popped as is
  pushed, otherwise a call has nothing to wait for and rightly never returns.
- *Lists*: each map of the run has its own bound of nodes (2 or 3). Since the
  atomic list loses keys when insertions and erasures are mixed by several
  threads (`marked_list`), the passing run gives it one writer with a reader,
  threads that only insert, and threads that only erase. What the destructors do
  with its nodes is less than one would like, and `MemoryStaysValid` claims no more
  than holds (disagreement 7 below). With one thread that changes the list, or
  without erasures, no node is destroyed by both destructors; with two threads that
  erase, on three nodes, or one that erases and one that inserts, on four, a
  reclaimed node can become reachable from `m_head` again by the stale skip of
  `marked_list`, and is. That only erased nodes are reclaimed holds in all of them.
  That every erased node is destroyed does not, not even with one writer.
- *Heaps*: five elements fill three levels of a binary heap and a full and a
  partial group of children of a ternary one. The passing run changes priorities
  of the indexed queue only upwards, as Dijkstra's algorithm does.
- `CHECK_DEADLOCK FALSE` is given where a program really ends: the locked builds
  when all edges are added, the tree solvers when `work()` has thrown.

## Fairness

- Queue: a thread in a call is scheduled again (weak fairness of its steps; the
  code yields when it spins), and a weak CAS that is possible again and again
  succeeds at last (strong fairness of the two claims): a spurious failure is
  rare. Nobody is obliged to begin a call.
- `DynamicConnectivity`: weak fairness of the steps of a thread in a call. Its
  CAS are strong, a failure means that somebody else succeeded.
- `ConcurrentContainer`: weak fairness of the steps of every thread that has
  calls to make. Nothing else is needed: a failed CAS means that another call
  has returned, and the calls are bounded.
- `DAGSolver`: weak fairness of every worker's steps and of the join, not of
  spurious wake-ups. Termination must come from notifications.
- The tree solvers' liveness is checked as a safety property
  (`NobodySleepsForever`: a waiting worker is never the last one).

## What is proved

`ConcurrentQueueProofs` proves, for any sets of threads and elements, any
capacities and any bound of tickets (`QueueAssumption`: the capacities and the
bound are naturals and `T{}` is not an element):

- `Invariance`: `IInv` is inductive. `HeadsAndTailsOrdered` alone is not: a push
  that is about to publish moves `m_consumer_head` to its ticket plus one, and
  nothing says that this ticket is below `m_producer_head`, or that nobody else
  holds it. `IInv` adds what a thread's loaded value says about the present
  counters (`LoadedValuesStale`), where the claimed tickets lie and that they are
  distinct (`TicketsOwned`), and what stores are pending (`StoresPending`).
  There is one lemma per group of actions that touches the same variables.
- `TypeCorrect`, `OrderOfHeadsAndTails`, `PublishedElementsAreIntact` follow;
  `ExclusiveSlots` needs `SlotsDiffer`: two numbers less than c apart differ
  modulo c, the arithmetic of the ring.
- `RefusalsAreJustified`: an action property. A head loaded earlier is never
  ahead of the present one, so a refusal that it justifies is justified now.
- `SingleSlotDelivers`: with one slot the off-by-one of the read does no harm.
- `QueueImplementsFIFO`: publishing and claiming refine `BoundedFIFO`; every
  other step is a stutter.

`DAGSolverProofs` proves, for any finite set of nodes, any set of task graphs and
any number of threads (`GraphAssumption`; of the graphs only that a node's
children are nodes is used, not that they have no cycle, which is needed for
`solve()` to return):

- `Invariance`: `IInv` is inductive. `WorkNeverThrows` needs that a worker's node is
  nobody else's: `PlacesOK` says that no node is twice in the queue, the pushes to
  come and the hands of the workers, `StatesOK` and `NothingLost` that `m_state` tells
  where a node is, and is why the CAS that claims a child claims it once.
  `CountOK` says that `num_work_left` is the number of nodes that have not been
  counted down (by `FS_RemoveElement` one less with each); so the worker that
  reaches zero is the last one, and `EndOK` and `QuotaOK` follow the `done_task`s
  from there: pushed, to be pushed and popped they are as many as threads.
  There is a lemma for every action that moves or marks a node or a `done_task`, and
  one each for the steps of the condition variable and for the rest.
- `TypeCorrect`, `NeverThrows`, `OnePlace` and `DoneTasksLast` follow from it.
- `SolverImplementsOrderedWork`: the end of `work()` is the step of `OrderedWork`
  that works on a node, the join is its end.

`DynamicConnectivityProofs` proves, for any number of nodes, any set of threads,
any queries and any blocks of edges (`ConnectivityAssumption`: the nodes are
0 to n - 1, the edges are pairs of nodes):

- `Invariance`: `IInv` is inductive. `ParentsOutrank` alone is not, for two reasons.
  A link relies on ranks that were loaded while others linked and raised the same
  nodes: `Loaded` says that a node has at least the rank it was found with, and
  that `unite` compares ranks it has found (a rank of zero would be no rank). A
  compression relies on a path that was read long ago: `Climbs` says that every
  node on it has been linked, below the next one, and the last one below the
  representative. A linked node keeps its rank and the ranks of others only grow
  (`RanksGrow`), so that what was once below stays below (`BelowStable`).
  The proof has a lemma for every action that writes the array, the path or the
  ranks, and one (`QuietStep`) for the rest.
- `NoCycles` (`ParentsOutrank`): ranks with ids as tie-break are a strict order, so
  the parents of no node lead back to it, and every search for a representative
  passes each node once at most.
- `RanksOnlyGrow`: the action property behind it.

- `TreesInvariance`: `TreesInv` is inductive, on top of `IInv`. It says what
  is known of the trees, where the parents lead, and not only of the order:
  a search stays in the tree it began in (`Searches`), so that a root that is found,
  or was one, stands for the node that was asked for; `connected()` has seen two
  trees if it is about to answer false (`Answers`); and after a link of equal ranks
  the tree has enough nodes for the next rank, if the CAS that raises it is going to
  succeed (`Raises`). The last one is what other links and raises in between could
  spoil, and the reason why they do not is that they change the word that the CAS
  compares.
- `RanksAreJustified` (`TreesAsLargeAsRanks`): a root of rank r has at least
  2^(r - 1) nodes below it. `AnswersAreRight`: the action property of `connected()`.

- `StorageInvariance`: `StoreInv` is inductive, on top of `TreesInv`. That the array
  of n edges is large enough is not known from the counter, which another thread may
  advance at any time, but from `LinksCounted`: the counter, the kept edges that have no
  place yet and the roots are n together, as a link exchanges a root for a kept edge.
  `PlacesApart` says that a place between a `fetch_add` and the stores that follow it is
  one thread's and still empty, `EdgesOnce` that a kept edge is in one list or at one
  place (it is new when it is linked, as the ends of all older ones are in one tree:
  `EndsJoined`). `EdgesStored` (`FilteredEdgesStored`) follows when nothing is kept.
- `ImplementsForest` (`ImplementsSpanningForest`): the classes of `SpanningForest` are the
  trees by their roots. `TreesLinked`, what the CAS of a link does to the trees, is the
  step `Accept`; `RefusedInTree` is `Reject`; `TreesStay` says that raises and compressions,
  and everything else, are stutters.
- `ForestInvariance`: `BuiltInv` is inductive, on top of `StoreInv`. `EdgesSpan` says that
  the accepted edges connect each tree without mentioning paths: a set of nodes that no
  accepted edge leaves contains a tree or none of it. The layers of the search from the
  roots are such a set, as n + 1 layers cannot all have a node of their own (`LayersReach`,
  the pigeonhole principle); so every node but the roots gets a parent, which is
  `RootedForest` (`OnlyRootsAreParentless`). It lasts until the next block, as only the
  team links.
- `TypeCorrect` (`TypeOK`): a rank r needs 2^(r - 1) nodes, so it is at most n; a parent is
  above its child, so it is another node; the counter is at most n by `LinksCounted`.

The root of a node is a recursive function over the parents, and the tree of a root
is made of it. That it leads to a root at all is proved for every array whose
parents are above their children in some strict order: `ClimbEnds` (a climb that
meets no root within as many steps as there are nodes meets a node twice) and
`OneMapToTheRoots` (there is one map that is constant along parents and the
identity on roots). From there on a link, a raise and a compression are three
facts about that map (`RootsAfterLink`, `RootsAfterRaise`, `RootsAfterMove`). The
provers know no powers; `PowersOfTwo` counts subsets instead.

`UnionFindProofs` proves of the builds with locks, for any number of nodes, any edges and
any threads, what `WorkingBuild` admits: DC_B, which does not compress, with any
number of threads, and DC_C, DC_D and DC_E, which do, with one. With two threads that
compress it is false, as `union_find_locks` shows: a thread hangs a node below a root
that it found before and that is one no longer.

- `LockedInvariance`: `LockedInv` is inductive. The trees stay trees because a
  link needs both roots at the same time, which is what the mutexes are for: `LocksOK` says that
  who has locked a node holds its mutex, that the lower one was locked first, and that
  it still is a root when the second one is checked, `MutexesOK` that nobody else holds it.
  `SearchOK` says that the nodes that unite() goes on with stay in the trees of the edge it was
  called with, and that a compression goes to the root of the tree it is in: nobody
  links that root meanwhile, as nobody else is there. `ForestShape` bounds the heights: a
  parent has a higher rank, or the same one and a lower id, and the builds that
  do not count ranks leave them at zero (`UnrankedFlat`). `AcceptedStored` and `LockedPlaces`
  follow an accepted edge from the link into the list of its thread and into the array.
- `EitherTypeCorrect` (`EitherTypeOK`), together with `TypeCorrect` of DC_F: a rank is at
  most the number of links, `LinksAreCounted`.
- `LockedEdgesStored` (`EdgesStoredOnce`) and `LockedImplementsForest` (`AnyImplementsForest`)
  are proved for DC_F and the builds with locks together (`ParallelRuns`); of the
  sequential union-find and the reference solution they are model-checked. The
  trees after a link, a move and a compression are the same three facts about roots
  as above.

`TreeSolverProofs` proves, for any set of trees, any number of threads and each of
the three tree solvers (`TreeAssumption`: the trees are trees over 0 to n - 1, n is
less than the value of `done_task`, a solver has at least one thread and finitely many):

- `TreesInvariance`: `TreeInv` is inductive; it is `NaiveInv`, `LocalInv` or
  `SequentialInv`, as the solver that runs. They have in common that what can be
  worked on (not done, its parent done: `Ready`) is just what somebody has, in a
  queue, in hand or still to be pushed, and that nobody else has it (`NaivePlaces`,
  `LocalPlaces`). Hence `work()` never throws, and as long as a node is not done
  somebody has one: going up from it there is one whose parent is done.
- The counters say when this ends. In `TreeSolverNaive` a unit of `num_work_left` is
  taken before the pop, for each node and for each worker that returns (`NaiveCount`),
  so that who waits has taken a unit that a node answers to. In `TreeSolver` a unit is taken
  for each node popped and by each worker that finds nothing in its own queue
  (`LocalCount`). Until a worker finds no unit left no `done_task` is on its way and no worker has ended; from then on the `done_task`s that are queued, that
  one worker has still to push and that were taken are at least as many as workers
  (`LocalEnding`).
- `Attended` is what `notify_one` after the unlock leaves true: when somebody
  waits, there is for each element of the shared queue a thread that is about
  to notify, or that was woken and has not looked yet. So a notification that is
  lost, or taken by a thread that finds nothing, costs nothing, and with the counts
  `NobodySleeps` follows.
- `QueuesAccountedFor`: from `LocalEstimate`, which moves one node at a time between
  sets whose sizes are counted.
- `TreesTypeCorrect`: the ranges of the two counters need the counts, too.
- `TreesNeverThrow`: for the workers. In the loop after the join
  `work()` may throw, as `tree_drain` shows; `DrainCount` (as many elements as
  ready nodes) is what that loop keeps all the same, and it is enough for
- `TreesImplementOrderedWork`: the end of `work()` is the step of `OrderedWork` that works
  on a node, and `solve()` returns only when every node is done: when
  the loop has ended without throwing no node is ready, so that none is left.

`HashMapProofs` proves, for any number of threads, keys and buckets
(`MapAssumption`: finitely many threads, a hash for every key with as many blocks as
a filter needs, and what a map holds at first are distinct keys), of all five maps:

- `MapTypesCorrect`: with the allocations, which are one node for each insertion
  that is under way and one for each that is done; hence a walk has a node to append.
- `MarksAreFinal`: a CAS expects a pointer without a mark.

and of the three maps of a list with mutexes (`MutexMap`):

- `MutexInv` is inductive. `KeysInPlace` alone is not: erase() takes a node out by
  the pointer of the place before, and nothing says that the place is still in a list
  or still before that node. `Shape` says how the lists lie in memory: the nodes of a
  list were appended in the order of their numbers, as a pointer never leads back
  (`InOrder`), each node of a list is in the one of its key (`AtHome`), and no two have
  the same key (`KeptOnce`). `Exclusive` is what the mutexes are for: who holds one for
  writing holds it alone. Per thread, `WalkOK` says where it stands: it holds the mutex of
  the place behind and no other, that place is in the list of its key and points to the
  node it saw, and no node up to there has the key, as nobody can overtake it; `CallOK`
  that the bits of the filter were set before the list is entered; `SeenOK` that the
  history of the call knows what the map contains now.
- `MutexListsKeepKeys` (`KeysInPlace`), `WalkersStayInTheList` and `MutexListsStayValid`
  (`MemoryStaysValid`) follow.
- `MutexListsImplementSet` (`ImplementsSet`): an append and an unlink are the two steps of
  `ConcurrentSet` that change it; an answer is justified by the end of the walk.

`Chain`, the nodes that a place leads to, is the limit of a recursive function. It is
the least set with the first node that is closed under the pointer (`ChainLeast`), and
that is all the steps need: what is appended (`ChainAppended`), what is passed by
(`ChainRemoved`), and what stays (`ChainKept`). That the doubling loop of
`next_power_of_two` ends is `PowerFound`.

`SequentialProofs` proves of sequential parts, which are as large as their constants
are (`SequentialAssumption`: the size of a type is a multiple of its alignment, hashes
are not negative, `K()` is no key, a heap has a positive degree):

- `VectorsStayInPlace` (`VectorsInPlace`), of vectors with any offset, block and
  capacities. `VectorPlaces` ties the capacity to the bytes of the block: that
  many elements and the offset are what fits in, and the elements are what was pushed.
- `KeysStayFound` (`KeysAreFound`), of tables of any capacity, search length and hash.
  `KeysInCells` says more than that a key is found: no cell that its search passes is
  empty, as nothing is erased, and none holds the key, so that an insertion of another
  key, which fills the first empty cell of *its* search, leaves the search where it was.
  An iterator that moves on goes to the first occupied cell behind (`AdvancedToNext`), hence
  after i steps it has passed the i first ones (`Passed`), each once.

`HeapProofs` proves, from the same assumptions, of the heaps of any degree and length
(variants A, B and D; PriQueueC runs the loops of A, with a power of two as degree) and
of the indexed queue with any keys:

- `HeapsStayInOrder` (`HeapsInOrder`). Between the iterations of a sift loop one element is
  out of order: with the ones above it while it climbs (`UpOK`), with the ones below it
  while it falls (`DownOK`); that its parent is in order with its children is what lets the
  next exchange keep the rest. An iteration that changes anything moves the element
  to another level, so as many iterations as there are places are enough (`LoopEnds`), and when
  the loop has stopped the heap is in order. PriQueueB stops behind the one group of
  children that is not full, which is right because below it nobody has children (`NoneBelow`).
  In PriQueueD every exchange moves the positions of two handles as well.
  IndexedPriorityQueue moves a hole instead of exchanging: that is an exchange in the queue
  in which the hole is filled (`KeyClimb`, `KeyFall`), and so is the sift-down of pop(),
  which overlooks a last element that is an only child: it works on the queue cut by
  its last place (`Cut`), where there is nothing to overlook, as what falls was that
  element. Elsewhere it is the error of `lowered_key`; the theorem
  excludes lowered values of this queue (`~Lowers`), and of Dijkstra's algorithm, whose
  queue is only changed upwards, the order is model-checked.
- `QueuesImplementMaxQueue` (`ImplementsMaxQueue`): what a queue stands for is the set of its
  pairs of handle and value, each handle once (`OneEach`), and a sift loop keeps that set; so push() adds a
  pair, a change replaces one, and pop() takes out that of the root, which is a largest one
  (`FirstIsLargest`).

The runs check `TypeOK`, `FilteredEdgesStored`, `OnlyRootsAreParentless` and
`ImplementsSpanningForest` of `DynamicConnectivity`, and the same of the other
structures, as parts of `EitherTypeOK`, `EdgesStoredOnce` and `AnyImplementsForest` of
`MCUnionFind`.

Only model-checked: all liveness (it depends on fairness), `ConcurrentContainer` and
its refinement of `Pool` (a bag), the sequential union-find and the reference
solution, the construction of the search forest, of the lists `KeysInPlace` and `ImplementsSet` for `atomic_marked_list` (and there
only for the threads that `may` allows; otherwise they do not hold, see `marked_list`),
that its nodes are not destroyed twice, the counts of the shared pointers, the
order of the queue inside Dijkstra's algorithm, the lengths that the searches return, and the generators of inputs. Induction over the natural numbers is done through
the least element of a set of numbers (`LeastElement`), and recursive functions over
them are unfolded that way. There is no `RECURSIVE` operator in any module: the loops of
the heaps are functions of the number of iterations.

## Disagreements between the code and what it says

1. `concurrent_queue.hpp:104`: a pop reads the slot of the ticket after its own
   and can return `T{}` (`queue_pop`).
2. `tree_solver.hpp:186`: the loop after the join forgets the `+ 1` of the
   encoding (`tree_drain`).
3. `dynamic_connectivity_c.cpp:25`: compression to a root that is none any more
   closes a cycle (`union_find_locks`).
4. `atomic_marked_list.h:102`: after a failed skip the walk goes on from the old
   node with the new pointer, and an insertion can overwrite a key
   (`marked_list`).
5. `indexed_priority_queue.hpp:146`: the sift-down of `changePriority` ignores a
   last element that is an only child (`lowered_key`).

Two more were seen while modelling and are stated by what `MemoryStaysValid` leaves
out, in the run `lists`, not by a run of their own:

6. `atomic_shared_ptr.h:205`: "The block is freed in the destructor", says the comment
   on a CAS that fails and drops the last pointer to a block. It is not: the count is
   zero when the temporary `shared_ptr` is made, its destructor takes it to -1, and
   the block is never deleted (lines 242 and 243 are the same).
7. `atomic_marked_list.h:102`: a node that was erased can be destroyed by neither
   destructor or by both, although the tests expect as many deallocations as
   allocations (`list_test.cpp:312`, of one thread, which sees neither unless a weak
   CAS fails spuriously). By neither: on a list of a and b, `erase(a)` marks its node
   and fails to unlink it, spuriously; `erase(b)` fails to skip it, spuriously, and
   keeps the place in front of it; its last CAS then takes both nodes out and
   reclaims one. By both: a thread stands at the first of three nodes while another
   one erases and reclaims all three; its skip of the first fails and takes over the
   null that `m_head` holds by then, its skip of the second succeeds with it and links
   the third again.

## Not modelled

- `ConcurrentContainer::reset` and its statistics (`keep_stats`): reset is not
  thread-safe and takes away what pops wait for.
- `ConcurrentQueueCASElement`: its header says that it has bugs, that elements get
  lost and that it should not be used; nothing uses it.
- `TRY_LOCK_TREES_A` and `_B` of `dynamic_connectivity_mt.hpp`, which no build
  compiles; `connected()` of the locked builds and of the reference solution,
  called only between calls of `addEdges`.
- the thread-safe use of `atomic_shared_ptr::load()`, which its comment calls broken,
  and the nodes' counts in `atomic_shared_ptr_list`.
- `clear()` of `atomic_marked_list`, which cannot be instantiated, and `size()` and
  `empty()` of all lists, which only read.
- the counting allocator, the wrappers of other libraries' hash maps, and all
  input, output, benchmarks, plots, command lines and build files: no state that a
  property could be about.

## Plan

Done first, because the most can go wrong there: the lock-free queue with its
proofs, the solvers, the union-find structures, the lists; then the sequential
structures; then the container, the construction of the search forest and the
sequential references; then the reference solution, the abandoned lists and
their counted pointers, the vector and the generators of inputs, which close the
gap between what the solvers assume of a file and what is written to one. What
is left, in this order:

1. Liveness of the node-mutex and the atomic list; mapped values and handles of
   the hash map; the start of a walk in `ConcurrentContainer` at full width.
2. Proofs: `KeysInPlace` and `ImplementsSet` for `atomic_marked_list` with one thread
   that changes it; the sequential union-find and the reference solution; the
   lengths that the searches return, and the order of the queue meanwhile.

--------------------------- MODULE LockedUnionFind --------------------------
(***************************************************************************)
(* DynamicConnectivity::unite() of the implementations with locks, DC_B to *)
(* DC_E (exercise3/implementation/dynamic_connectivity_mt.hpp and          *)
(* dynamic_connectivity_{b,c,d,e}.cpp).  There is a mutex for every node,  *)
(* and two roots are locked with try_lock before one is linked to the      *)
(* other.  DC_C, DC_D and DC_E compress paths, DC_D and DC_E use ranks.    *)
(*                                                                         *)
(* The parents are plain integers that threads read while others write     *)
(* them; every read and every write is an action.  A try_lock may fail     *)
(* although the mutex is free, which the standard allows; a mutex that is  *)
(* locked, written under and unlocked without any other access in between  *)
(* is a single action, since nobody blocks on it.                          *)
(***************************************************************************)
EXTENDS Integers, Sequences, FiniteSets

CONSTANTS
    Nodes,          (* 0 .. n - 1                                          *)
    Threads,        (* the threads there are                               *)
    Edges,          (* the edges that are added                            *)
    Builds,         (* records of a variant, "DC_B" to "DC_E", and the set *)
                    (* of the OpenMP threads that run addEdges             *)
    Nobody          (* who holds a mutex that is free                      *)

Variants == {"DC_B", "DC_C", "DC_D", "DC_E"}

\* What MCUnionFind assumes of the constants.
BuildsAndEdges ==
    /\ Edges \subseteq Nodes \X Nodes
    /\ Builds \subseteq [variant : Variants, crew : SUBSET Threads]
    /\ Nobody \notin Threads

VARIABLES
    variant, crew,              (* the implementation, and its threads     *)
    union_find_parents, union_find_ranks,
    union_find_mutexes,         (* who holds the mutex of a node           *)
    untaken,                    (* the edges no thread has taken yet       *)
    at,                         (* the next step of a thread               *)
    ends,                       (* a and b of unite()                      *)
    which,                      (* 1 or 2: whose representative is sought  *)
    node, root, parent,         (* the locals of the two finds             *)
    locking,                    (* TRUE in try_lock_trees()                *)
    taken,                      (* the edge unite() was called with        *)
    kept,                       (* filtered_edges_local                    *)
    filtered_edges,             (* the edges in the array, in its order    *)
    accepted, refused           (* history: what unite() returned          *)

structure == <<variant, crew, union_find_parents, union_find_ranks, union_find_mutexes>>
cursor == <<node, root, parent>>
lockedHistory == <<accepted, refused>>
output == <<kept, filtered_edges>>
lockedVars == <<structure, untaken, at, ends, which, cursor, locking, taken, output, lockedHistory>>

compresses == variant # "DC_B"          \* USE_COMPRESSION
ranked == variant \in {"DC_D", "DC_E"}  \* USE_RANKS

LockedInit ==
    /\ \E build \in Builds : variant = build.variant /\ crew = build.crew
    /\ union_find_parents = [v \in Nodes |-> v]
    /\ union_find_ranks = [v \in Nodes |-> 0]
    /\ union_find_mutexes = [v \in Nodes |-> Nobody]
    /\ untaken = Edges
    /\ at = [t \in Threads |-> "loop"]
    /\ ends = [t \in Threads |-> <<0, 0>>] /\ taken = [t \in Threads |-> <<0, 0>>]
    /\ which = [t \in Threads |-> 1]
    /\ node = [t \in Threads |-> 0] /\ root = [t \in Threads |-> 0] /\ parent = [t \in Threads |-> 0]
    /\ locking = [t \in Threads |-> FALSE]
    /\ kept = [t \in Threads |-> <<>>] /\ filtered_edges = <<>>
    /\ accepted = {} /\ refused = {}

-----------------------------------------------------------------------------
Step(t, from, to) == at[t] = from /\ at' = [at EXCEPT ![t] = to]

\* Both representatives are looked for, from a and b as they are.
SearchFrom(t, ab) ==
    /\ at' = [at EXCEPT ![t] = "find"]
    /\ ends' = [ends EXCEPT ![t] = ab]
    /\ which' = [which EXCEPT ![t] = 1]
    /\ node' = [node EXCEPT ![t] = ab[1]]
    /\ UNCHANGED <<root, parent>>

\* The loop of addEdges calls unite() for the next edge.
TakeEdge(t) ==
    /\ at[t] = "loop"
    /\ \E e \in untaken :
        /\ untaken' = untaken \ {e}
        /\ taken' = [taken EXCEPT ![t] = e]
        /\ SearchFrom(t, e)
    /\ UNCHANGED <<structure, locking, output, lockedHistory>>

\* unite() returns; its locals die.
LeaveUnite(t) ==
    /\ at' = [at EXCEPT ![t] = "loop"]
    /\ ends' = [ends EXCEPT ![t] = <<0, 0>>] /\ taken' = [taken EXCEPT ![t] = <<0, 0>>]
    /\ which' = [which EXCEPT ![t] = 1]
    /\ node' = [node EXCEPT ![t] = 0] /\ root' = [root EXCEPT ![t] = 0]
    /\ parent' = [parent EXCEPT ![t] = 0]
    /\ locking' = [locking EXCEPT ![t] = FALSE]

-----------------------------------------------------------------------------
(* find_representative and find_representative_and_compress.               *)

\* The search of t has returned r: the other end is next, or the comparison.
SearchReturns(t, r) ==
    /\ ends' = [ends EXCEPT ![t][which[t]] = r]
    /\ \/ /\ which[t] = 1
          /\ which' = [which EXCEPT ![t] = 2]
          /\ node' = [node EXCEPT ![t] = ends[t][2]]
          /\ at' = [at EXCEPT ![t] = "find"]
       \/ /\ which[t] = 2
          /\ at' = [at EXCEPT ![t] = "compare"]
          /\ node' = [node EXCEPT ![t] = 0]
          /\ UNCHANGED which
    /\ root' = [root EXCEPT ![t] = 0] /\ parent' = [parent EXCEPT ![t] = 0]

FollowParent(t) ==
    /\ at[t] = "find"
    /\ union_find_parents[node[t]] # node[t]
    /\ node' = [node EXCEPT ![t] = union_find_parents[node[t]]]
    /\ UNCHANGED <<structure, untaken, at, ends, which, root, parent, locking, taken, output, lockedHistory>>

ReachRoot(t) ==
    /\ at[t] = "find"
    /\ union_find_parents[node[t]] = node[t]
    /\ \/ ~compresses /\ SearchReturns(t, node[t])
       \/ /\ compresses
          /\ at' = [at EXCEPT ![t] = "compress"]
          /\ root' = [root EXCEPT ![t] = node[t]]
          /\ node' = [node EXCEPT ![t] = ends[t][which[t]]]
          /\ UNCHANGED <<ends, which, parent>>
    /\ UNCHANGED <<structure, untaken, locking, taken, output, lockedHistory>>

\* The condition of the second loop, and the read of the parent after it.
CompressionEnds(t) ==
    /\ at[t] = "compress"
    /\ union_find_parents[node[t]] = root[t]
    /\ SearchReturns(t, root[t])
    /\ UNCHANGED <<structure, untaken, locking, taken, output, lockedHistory>>

CompressionGoesOn(t) ==
    /\ union_find_parents[node[t]] # root[t]
    /\ Step(t, "compress", "parent")
    /\ UNCHANGED <<structure, untaken, ends, which, cursor, locking, taken, output, lockedHistory>>

ReadParent(t) ==
    /\ Step(t, "parent", "shorten")
    /\ parent' = [parent EXCEPT ![t] = union_find_parents[node[t]]]
    /\ UNCHANGED <<structure, untaken, ends, which, node, root, locking, taken, output, lockedHistory>>

\* With the mutex of the node, it is hung below the root that was found, which
\* is not looked at again; without it, the node is passed over.
Shorten(t) ==
    /\ Step(t, "shorten", "compress")
    /\ \/ /\ union_find_mutexes[node[t]] = Nobody
          /\ union_find_parents' = [union_find_parents EXCEPT ![node[t]] = root[t]]
       \/ UNCHANGED union_find_parents
    /\ node' = [node EXCEPT ![t] = parent[t]]
    /\ UNCHANGED <<variant, crew, union_find_ranks, union_find_mutexes, untaken, ends, which, root, parent,
                   locking, taken, output, lockedHistory>>

-----------------------------------------------------------------------------
(* unite and try_lock_trees.                                               *)

RefuseEdge(t) ==
    /\ at[t] = "compare" /\ ends[t][1] = ends[t][2]
    /\ refused' = refused \cup {taken[t]}
    /\ LeaveUnite(t)
    /\ UNCHANGED <<structure, untaken, output, accepted>>

\* unite() calls try_lock_trees(), which looks for both representatives again.
TryToLock(t) ==
    /\ at[t] = "compare" /\ ends[t][1] # ends[t][2] /\ ~locking[t]
    /\ locking' = [locking EXCEPT ![t] = TRUE]
    /\ SearchFrom(t, ends[t])
    /\ UNCHANGED <<structure, untaken, taken, output, lockedHistory>>

\* a < b from here on.
Sorted(ab) == IF ab[1] > ab[2] THEN <<ab[2], ab[1]>> ELSE ab

LockLower(t) ==
    LET ab == Sorted(ends[t])
    IN  /\ ab[1] # ab[2] /\ locking[t]
        /\ union_find_mutexes[ab[1]] = Nobody
        /\ Step(t, "compare", "lower locked")
        /\ union_find_mutexes' = [union_find_mutexes EXCEPT ![ab[1]] = t]
        /\ ends' = [ends EXCEPT ![t] = ab]
    /\ UNCHANGED <<variant, crew, union_find_parents, union_find_ranks, untaken, which, cursor, locking, taken, output, lockedHistory>>

\* A try_lock has failed.
LowerNotLocked(t) ==
    /\ at[t] = "compare" /\ ends[t][1] # ends[t][2] /\ locking[t]
    /\ SearchFrom(t, Sorted(ends[t]))
    /\ UNCHANGED <<structure, untaken, locking, taken, output, lockedHistory>>

LockUpper(t) ==
    LET a == ends[t][1]
        b == ends[t][2]
    IN  /\ union_find_parents[a] = a
        /\ union_find_mutexes[b] = Nobody
        /\ Step(t, "lower locked", "both locked")
        /\ union_find_mutexes' = [union_find_mutexes EXCEPT ![b] = t]
    /\ UNCHANGED <<variant, crew, union_find_parents, union_find_ranks, untaken, ends, which, cursor, locking, taken, output, lockedHistory>>

\* The mutexes t holds are unlocked.
Unlocked(t) ==
    union_find_mutexes' =
        [v \in Nodes |-> IF union_find_mutexes[v] = t THEN Nobody ELSE union_find_mutexes[v]]

\* a is a root no longer, or the second try_lock has failed.
UpperNotLocked(t) ==
    /\ at[t] = "lower locked"
    /\ Unlocked(t)
    /\ SearchFrom(t, ends[t])
    /\ UNCHANGED <<variant, crew, union_find_parents, union_find_ranks, untaken, locking, taken, output, lockedHistory>>

UpperNoRoot(t) ==
    /\ at[t] = "both locked"
    /\ union_find_parents[ends[t][2]] # ends[t][2]
    /\ Unlocked(t)
    /\ SearchFrom(t, ends[t])
    /\ UNCHANGED <<variant, crew, union_find_parents, union_find_ranks, untaken, locking, taken, output, lockedHistory>>

\* The higher id is hung below the lower one, or the lower rank below the higher.
NewRoot(a, b) == IF ranked /\ union_find_ranks[a] < union_find_ranks[b] THEN b ELSE a

\* Mutant: that b is still a root is not checked.
LinkUnchecked(t) ==
    LET a == ends[t][1]
        b == ends[t][2]
        r == NewRoot(a, b)
    IN  /\ Step(t, "both locked", "linked")
        /\ union_find_parents' = [union_find_parents EXCEPT ![a + b - r] = r]
        /\ union_find_ranks' = IF ranked /\ union_find_ranks[a] = union_find_ranks[b]
                               THEN [union_find_ranks EXCEPT ![r] = @ + 1] ELSE union_find_ranks
        /\ accepted' = accepted \cup {taken[t]}
    /\ UNCHANGED <<variant, crew, union_find_mutexes, untaken, ends, which, cursor, locking, taken, output, refused>>

Link(t) ==
    LET a == ends[t][1]
        b == ends[t][2]
        r == NewRoot(a, b)
    IN  /\ union_find_parents[b] = b
        /\ Step(t, "both locked", "linked")
        /\ union_find_parents' = [union_find_parents EXCEPT ![a + b - r] = r]
        /\ union_find_ranks' = IF ranked /\ union_find_ranks[a] = union_find_ranks[b]
                               THEN [union_find_ranks EXCEPT ![r] = @ + 1] ELSE union_find_ranks
        /\ accepted' = accepted \cup {taken[t]}
    /\ UNCHANGED <<variant, crew, union_find_mutexes, untaken, ends, which, cursor, locking, taken, output, refused>>

Unlock(t) ==
    /\ at[t] = "linked"
    /\ Unlocked(t)
    /\ kept' = [kept EXCEPT ![t] = Append(@, taken[t])]
    /\ LeaveUnite(t)
    /\ UNCHANGED <<variant, crew, union_find_parents, union_find_ranks, untaken, filtered_edges, lockedHistory>>

\* The barrier at the end of the omp for, and the fetch_add; the edges are stored in
\* places that no other thread gets.
StoreKept(t) ==
    /\ untaken = {} /\ \A u \in crew : at[u] \in {"loop", "joined"}
    /\ Step(t, "loop", "joined")
    /\ filtered_edges' = filtered_edges \o kept[t]
    /\ kept' = [kept EXCEPT ![t] = <<>>]
    /\ UNCHANGED <<structure, untaken, ends, which, cursor, locking, taken, lockedHistory>>

-----------------------------------------------------------------------------
FindStep(t) == FollowParent(t) \/ ReachRoot(t)
CompressStep(t) == CompressionEnds(t) \/ CompressionGoesOn(t) \/ ReadParent(t) \/ Shorten(t)
TryLockTrees(t) ==
    \/ LockLower(t) \/ LowerNotLocked(t) \/ LockUpper(t) \/ UpperNotLocked(t) \/ UpperNoRoot(t)
UniteStep(t) == RefuseEdge(t) \/ TryToLock(t) \/ TryLockTrees(t) \/ Link(t) \/ Unlock(t)

LockedNext == \E t \in crew : TakeEdge(t) \/ FindStep(t) \/ CompressStep(t) \/ UniteStep(t) \/ StoreKept(t)

LockedSpec == LockedInit /\ [][LockedNext]_lockedVars

-----------------------------------------------------------------------------
\* The root that v's parents lead to, and v itself if they lead to none.
TreeOf(v) ==
    LET climb[i \in 0 .. Cardinality(Nodes)] ==
            IF i = 0 THEN v ELSE union_find_parents[climb[i - 1]]
    IN  climb[Cardinality(Nodes)]

TreeRoots == {v \in Nodes : union_find_parents[v] = v}

\* The nodes that are connected to v by edges in E.
ComponentOf(E, v) ==
    LET reached[i \in 0 .. Cardinality(Nodes)] ==
            IF i = 0 THEN {v}
            ELSE reached[i - 1] \cup {u \in Nodes : \E w \in reached[i - 1] : <<u, w>> \in E \/ <<w, u>> \in E}
    IN  reached[Cardinality(Nodes)]

Finished == untaken = {} /\ \A t \in crew : at[t] = "joined"

\* Every variable has its type; a mutex is held by the thread that locks the node.
LockedTypeOK ==
    /\ [variant |-> variant, crew |-> crew] \in Builds
    /\ union_find_parents \in [Nodes -> Nodes]
    /\ union_find_ranks \in [Nodes -> 0 .. Cardinality(Nodes)]
    /\ \A v \in Nodes : union_find_mutexes[v] # Nobody =>
        LET t == union_find_mutexes[v]
        IN  \/ at[t] = "lower locked" /\ v = ends[t][1]
            \/ at[t] \in {"both locked", "linked"} /\ v \in {ends[t][1], ends[t][2]}
    /\ untaken \subseteq Edges /\ accepted \subseteq Edges /\ refused \subseteq Edges
    /\ at \in [Threads -> {"loop", "find", "compress", "parent", "shorten", "compare",
                           "lower locked", "both locked", "linked", "joined"}]
    /\ ends \in [Threads -> (Nodes \X Nodes) \cup {<<0, 0>>}]

\* The nodes for which parentOf() returns -1: the roots, and what no root reaches.
Parentless ==
    {v \in Nodes : union_find_parents[v] = v \/ ComponentOf(accepted, v) \cap TreeRoots = {}}

\* After addEdges, as many nodes have no parent as there are components, as the test
\* of the number of components expects (exercise3/tests/correctness.cpp:116-119).
ComponentsAsExpected ==
    Finished => Cardinality(Parentless) = Cardinality({ComponentOf(Edges, v) : v \in Nodes})
=============================================================================

------------------------------ MODULE MCLists ------------------------------
(***************************************************************************)
(* Hash maps with each of the lists, with and without a Bloom filter, with *)
(* one and with two buckets; and, in behaviours of their own, variables of *)
(* type shared_ptr and an atomic one.                                      *)
(***************************************************************************)
EXTENDS MutexLists, TLC

CONSTANTS t1, t2, a, b, c, Parts, Blocks, Uses

VARIABLES
    part,           (* what runs: a map or the pointers                    *)
    use, pointer, local, ref_count, deleted, pending, inCAS

Marked == INSTANCE AtomicMarkedList
Unmarked == INSTANCE UnmarkedLists
Pointers == INSTANCE AtomicSharedPtr

TwoThreads == {t1, t2}
ThreeKeys == {a, b, c}

\* With two buckets, a and c share one; a and b have a bit of the filter in common.
ThreeHashes == (a :> [low |-> 2, blocks |-> <<7, 0>>]) @@ (b :> [low |-> 5, blocks |-> <<0, 9>>])
               @@ (c :> [low |-> 0, blocks |-> <<9, 9>>])

MapWith(list, capacity, filters, first, nodes, may) ==
    [list |-> list, capacity |-> capacity, filters |-> filters, first |-> first, nodes |-> nodes,
     may |-> may]
Everybody(ops) == [t \in Threads |-> ops]

\* atomic_marked_list and leaking_atomic_list with one thread that changes the list, with
\* threads that only insert, and with threads that only erase, which only
\* atomic_shared_ptr_list is made for besides.
Changing(t) == [Everybody({"find"}) EXCEPT ![t] = Operations]
MapsThatWork == {
    MapWith("single_mutex_list", 2, 2, <<a>>, 2, Everybody(Operations)),
    MapWith("node_mutex_list", 1, 0, <<a, b>>, 3, Everybody(Operations)),
    MapWith("atomic_marked_list", 1, 1, <<a, b>>, 3, Changing(t1)),
    MapWith("atomic_marked_list", 1, 0, <<>>, 3, Everybody({"insert", "find"})),
    MapWith("atomic_marked_list", 1, 0, <<a, b, c>>, 3, [Everybody({"erase"}) EXCEPT ![t1] = {"erase", "find"}]),
    MapWith("leaking_atomic_list", 1, 1, <<a, b>>, 3, Changing(t1)),
    MapWith("leaking_atomic_list", 2, 0, <<a>>, 3, Everybody({"insert", "find"})),
    MapWith("atomic_shared_ptr_list", 1, 0, <<a>>, 3, Changing(t2)),
    MapWith("atomic_shared_ptr_list", 1, 0, <<a>>, 1, Everybody({"erase", "find"}))}
MarkedListAlone == {MapWith("atomic_marked_list", 1, 0, <<a>>, 3, Everybody(Operations))}

\* shared_ptr without load() and CAS, both by a thread that is alone with the atomic one,
\* and load() by threads that do not replace it.
Plan(shared, first, others) ==
    [shared |-> shared, may |-> [t \in Threads |-> IF t = t1 THEN first ELSE others]]
LocalOperations == {"copy", "move", "reset"}
PlansThatWork == {
    Plan(shared, LocalOperations \cup {"make", "store", "exchange"}, LocalOperations \cup {"store", "exchange"}) :
        shared \in BOOLEAN} \cup {
    Plan(TRUE, LocalOperations \cup {"make", "store", "load", "CAS"}, LocalOperations),
    Plan(TRUE, LocalOperations \cup {"load"}, LocalOperations \cup {"load"})}

BothParts == {"map", "pointers"}
OnlyMaps == {"map"}
TwoBlocks == 1 .. 2

ListStep(t) ==
    \/ map.list = "single_mutex_list" /\ SingleStep(t)
    \/ map.list = "node_mutex_list" /\ NodeStep(t)
    \/ map.list = "atomic_marked_list" /\ Marked!MarkedStep(t)
    \/ map.list \in {"leaking_atomic_list", "atomic_shared_ptr_list"} /\ Unmarked!UnmarkedStep(t)

pointerVars == <<use, pointer, local, ref_count, deleted, pending, inCAS>>
listsVars == <<mapVars, part, pointerVars>>

\* What does not run has one beginning.
ListsInit ==
    /\ part \in Parts /\ MapInit /\ Pointers!PointerInit
    /\ part = "map" => use = CHOOSE u \in Uses : TRUE
    /\ part = "pointers" => map = CHOOSE m \in Maps : TRUE

ListsNext ==
    /\ UNCHANGED part
    /\ \/ /\ part = "map"
          /\ Clear \/ \E t \in Threads : MapStep(t) \/ ListStep(t)
          /\ UNCHANGED pointerVars
       \/ /\ part = "pointers"
          /\ Pointers!PointerNext
          /\ UNCHANGED mapVars

ListsSpec == ListsInit /\ [][ListsNext]_listsVars

-----------------------------------------------------------------------------
\* Where no stale skip can link a reclaimed node again (see README.md).
OneThreadChanges == Cardinality({t \in Threads : map.may[t] \cap {"insert", "erase"} # {}}) <= 1
NobodyErases == \A t \in Threads : "erase" \notin map.may[t]

\* No memory is freed while it is in use, and none twice: nobody who walks is left on an
\* erased node of node_mutex_list; atomic_marked_list hands only erased nodes to its
\* manager and, if one thread changes it or nobody erases, destroys none twice (that a
\* node is destroyed at all is not claimed); and a block is deleted when the last
\* shared_ptr to it is gone, not before, unless a failing CAS has lost it.
MemoryStaysValid ==
    /\ map.list = "node_mutex_list" => WalkersAreInTheList
    /\ map.list = "atomic_marked_list" => Marked!OnlyErasedAreReclaimed
    /\ map.list = "atomic_marked_list" /\ (OneThreadChanges \/ NobodyErases) =>
            Marked!NoneDestroyedTwice
    /\ part = "pointers" => Pointers!BlocksCounted

\* A mark is for ever, and so is the pointer it is on.
MarkedPointersAreFinal == [][\A n \in marked : n \in marked' /\ next'[n] = next[n]]_mapVars

\* insert(), find() and erase() of all maps are those of a set of keys.
Set == INSTANCE ConcurrentSet WITH members <- Members
ImplementsSet == Set!SetSpec

\* A key leaves the map only when it is erased: find() sees what the same thread has
\* inserted, as exercise5/tests/list_test.cpp:186-190 expects.
InsertedKeysStay ==
    [][\A k \in Members : k \notin Members' =>
        \/ \E t \in Threads : call[t] # NoCall /\ call[t].op = "erase" /\ call[t].key = k
        \/ \A t \in Threads : call[t] = NoCall]_mapVars
=============================================================================

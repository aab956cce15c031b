--------------------------- MODULE UnmarkedLists ---------------------------
(***************************************************************************)
(* The abandoned lists of exercise5/src/lists: _leaking_atomic_list.h,     *)
(* whose nodes are never freed, and _atomic_shared_ptr_list.h, whose links *)
(* are std::shared_ptr with the atomic functions of the library.  Nothing  *)
(* marks a node that is erased.  Both take the same steps; the comparison  *)
(* of a value, which never changes, goes with the access after it.         *)
(*                                                                         *)
(* The CAS of insert() is a weak one that is not in a loop of its own: if  *)
(* it failed spuriously, the walk would go on from the null pointer.  It   *)
(* does not on x86, nor in the library's functions, and does not here.     *)
(***************************************************************************)
EXTENDS HashMap

Start(t) == m_head(bucket(call[t].key))
Is(t, op) == call[t] # NoCall /\ call[t].op = op

-----------------------------------------------------------------------------
(* insert(): a CAS from null on m_head, and on the next of every node.     *)

\* The place was null and points to the new node now.
Linked(t, place) ==
    /\ next[place] = null
    /\ value' = IF at[t].new = null THEN Append(value, call[t].key) ELSE value
    /\ next' = [next EXCEPT ![place] = IF at[t].new = null THEN NewNode ELSE at[t].new]
    /\ Answer(t, "yes")
    /\ UNCHANGED <<around, marked, reclaimed, holders, call>> /\ Watch

InsertFirst(t) == pc[t] = "start" /\ Is(t, "insert") /\ Linked(t, Start(t))

InsertBehind(t) ==
    /\ pc[t] = "walk" /\ Is(t, "insert") /\ value[at[t].node] # call[t].key
    /\ Linked(t, at[t].node)

\* The CAS has failed and loaded what the place points to.
InsertWalks(t) ==
    LET place == IF pc[t] = "start" THEN Start(t) ELSE at[t].node
    IN  /\ pc[t] \in {"start", "walk"} /\ Is(t, "insert")
        /\ pc[t] = "walk" => value[place] # call[t].key
        /\ next[place] # null
        /\ value' = IF at[t].new = null THEN Append(value, call[t].key) ELSE value
        /\ at' = [at EXCEPT ![t].node = next[place], ![t].new = IF @ = null THEN NewNode ELSE @]
        /\ pc' = [pc EXCEPT ![t] = "walk"]
    /\ UNCHANGED <<around, next, marked, reclaimed, holders, call, answer>> /\ Watch

\* The new node is destroyed.
InsertMeetsKey(t) ==
    /\ pc[t] = "walk" /\ Is(t, "insert") /\ value[at[t].node] = call[t].key
    /\ Answer(t, "no")
    /\ UNCHANGED <<around, heap, holders, call>> /\ Watch

-----------------------------------------------------------------------------
(* find() and erase(): the pointer at a place is loaded, node after node.  *)

Load(t, place) ==
    /\ at' = [at EXCEPT ![t] = [@ EXCEPT !.prev = place, !.node = next[place]]]
    /\ pc' = [pc EXCEPT ![t] = "walk"]
    /\ UNCHANGED <<around, heap, holders, call, answer>> /\ Watch

LoadHead(t) == pc[t] = "start" /\ ~Is(t, "insert") /\ Load(t, Start(t))

LoadNext(t) ==
    /\ pc[t] = "walk" /\ ~Is(t, "insert") /\ at[t].node # null
    /\ value[at[t].node] # call[t].key
    /\ Load(t, at[t].node)

EndOfList(t) ==
    /\ pc[t] = "walk" /\ ~Is(t, "insert") /\ at[t].node = null
    /\ Answer(t, "no")
    /\ UNCHANGED <<around, heap, holders, call>> /\ Watch

FindMeetsKey(t) ==
    /\ pc[t] = "walk" /\ Is(t, "find") /\ at[t].node # null
    /\ value[at[t].node] = call[t].key
    /\ Answer(t, "yes")
    /\ UNCHANGED <<around, heap, holders, call>> /\ Watch

EraseMeetsKey(t) ==
    LET node == at[t].node
    IN  /\ pc[t] = "walk" /\ Is(t, "erase") /\ node # null
        /\ value[node] = call[t].key
        /\ at' = [at EXCEPT ![t].next = next[node]]
        /\ pc' = [pc EXCEPT ![t] = "unlink"]
    /\ UNCHANGED <<around, heap, holders, call, answer>> /\ Watch

\* The CAS from the node to the one behind it.
Unlink(t) ==
    /\ pc[t] = "unlink" /\ next[at[t].prev] = at[t].node
    /\ next' = [next EXCEPT ![at[t].prev] = at[t].next]
    /\ Answer(t, "yes")
    /\ UNCHANGED <<around, value, marked, reclaimed, holders, call>> /\ Watch

\* It fails.  atomic_shared_ptr_list takes it that another thread has erased the node;
\* leaking_atomic_list asserts that this does not happen.
UnlinkFails(t) ==
    /\ pc[t] = "unlink" /\ next[at[t].prev] # at[t].node
    /\ map.list = "atomic_shared_ptr_list"
    /\ Answer(t, "no")
    /\ UNCHANGED <<around, heap, holders, call>> /\ Watch

UnmarkedStep(t) ==
    \/ InsertFirst(t) \/ InsertBehind(t) \/ InsertWalks(t) \/ InsertMeetsKey(t)
    \/ LoadHead(t) \/ LoadNext(t) \/ EndOfList(t) \/ FindMeetsKey(t)
    \/ EraseMeetsKey(t) \/ Unlink(t) \/ UnlinkFails(t)
=============================================================================

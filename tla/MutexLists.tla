----------------------------- MODULE MutexLists ----------------------------
(***************************************************************************)
(* The two lists with mutexes.  exercise5/src/lists/single_mutex_list.h:   *)
(* every operation is a critical section of the list's only mutex, and so  *)
(* a single action.                                                        *)
(*                                                                         *)
(* exercise5/src/lists/node_mutex_list.h: m_head and every next pointer    *)
(* have a mutex of their own, locked hand over hand, shared by find() and  *)
(* exclusive in insert() and erase().  A thread that walks holds the mutex *)
(* of the place at[t].prev and stands on the node that place points to.    *)
(* An action begins with a lock() and goes on to the next one; unlock()s   *)
(* are part of it.                                                         *)
(***************************************************************************)
EXTENDS HashMap

-----------------------------------------------------------------------------
(* single_mutex_list                                                       *)

Place(t) == m_head(bucket(call[t].key))
Found(t) == {n \in Chain(Place(t)) : value[n] = call[t].key}

InsertNew(t) ==
    /\ pc[t] = "start" /\ call[t].op = "insert"
    /\ Found(t) = {}
    /\ LET last == CHOOSE p \in Chain(Place(t)) \cup {Place(t)} : next[p] = null
       IN  next' = [next EXCEPT ![last] = NewNode]
    /\ value' = Append(value, call[t].key)
    /\ Answer(t, "yes")
    /\ UNCHANGED <<around, marked, reclaimed, holders, call>> /\ Watch

InsertExisting(t) ==
    /\ pc[t] = "start" /\ call[t].op = "insert"
    /\ Found(t) # {}
    /\ Answer(t, "no")
    /\ UNCHANGED <<around, heap, holders, call>> /\ Watch

Find(t) ==
    /\ pc[t] = "start" /\ call[t].op = "find"
    /\ Answer(t, IF Found(t) # {} THEN "yes" ELSE "no")
    /\ UNCHANGED <<around, heap, holders, call>> /\ Watch

\* The first node with the key is taken out.
Erase(t) ==
    /\ pc[t] = "start" /\ call[t].op = "erase"
    /\ \E prev \in Chain(Place(t)) \cup {Place(t)} :
        /\ next[prev] \in Found(t)
        /\ next' = [next EXCEPT ![prev] = next[next[prev]]]
    /\ Answer(t, "yes")
    /\ UNCHANGED <<around, value, marked, reclaimed, holders, call>> /\ Watch

EraseMissing(t) ==
    /\ pc[t] = "start" /\ call[t].op = "erase" /\ Found(t) = {}
    /\ Answer(t, "no")
    /\ UNCHANGED <<around, heap, holders, call>> /\ Watch

SingleStep(t) == InsertNew(t) \/ InsertExisting(t) \/ Find(t) \/ Erase(t) \/ EraseMissing(t)

-----------------------------------------------------------------------------
(* node_mutex_list                                                         *)

\* Whether t may lock the mutex of a place: exclusively, or shared with readers.
CanLock(t, p) ==
    IF call[t].op = "find" THEN \A u \in holders[p] : call[u].op = "find"
    ELSE holders[p] = {}

\* t locks the mutex of `locked`, if that is not null, and unlocks that of `unlocked`.
HandOver(t, locked, unlocked) ==
    /\ locked # null => CanLock(t, locked)
    /\ holders' = [p \in Places |->
            IF p = locked THEN holders[p] \cup {t} ELSE IF p = unlocked THEN holders[p] \ {t} ELSE holders[p]]

Walks(t, op) == pc[t] = "walk" /\ call[t].op = op
OnKey(t) == at[t].node # null /\ value[at[t].node] = call[t].key

LockHead(t) ==
    LET h == m_head(bucket(call[t].key))
    IN  /\ pc[t] = "start"
        /\ HandOver(t, h, null)
        /\ at' = [at EXCEPT ![t].prev = h, ![t].node = next[h]]
    /\ pc' = [pc EXCEPT ![t] = "walk"]
    /\ UNCHANGED <<around, heap, call, answer>> /\ Watch

Advance(t) ==
    LET node == at[t].node
    IN  /\ pc[t] = "walk" /\ node # null /\ ~OnKey(t)
        /\ HandOver(t, node, at[t].prev)
        /\ at' = [at EXCEPT ![t].prev = node, ![t].node = next[node]]
    /\ UNCHANGED <<around, heap, pc, call, answer>> /\ Watch

AppendNode(t) ==
    /\ Walks(t, "insert") /\ at[t].node = null
    /\ next' = [next EXCEPT ![at[t].prev] = NewNode]
    /\ value' = Append(value, call[t].key)
    /\ HandOver(t, null, at[t].prev)
    /\ Answer(t, "yes")
    /\ UNCHANGED <<around, marked, reclaimed, call>> /\ Watch

FindExisting(t) ==
    /\ Walks(t, "insert") /\ OnKey(t)
    /\ HandOver(t, null, at[t].prev)
    /\ Answer(t, "no")
    /\ UNCHANGED <<around, heap, call>> /\ Watch

FindEnds(t) ==
    /\ Walks(t, "find") /\ (at[t].node = null \/ OnKey(t))
    /\ HandOver(t, null, at[t].prev)
    /\ Answer(t, IF OnKey(t) THEN "yes" ELSE "no")
    /\ UNCHANGED <<around, heap, call>> /\ Watch

\* Mutant: the mutex of the node is not locked.
RemoveUnlocked(t) ==
    LET node == at[t].node
    IN  /\ Walks(t, "erase") /\ OnKey(t)
        /\ next' = [next EXCEPT ![at[t].prev] = next[node]]
    /\ HandOver(t, null, at[t].prev)
    /\ Answer(t, "yes")
    /\ UNCHANGED <<around, value, marked, reclaimed, call>> /\ Watch

\* erase() locks the mutex of the node, too, before it takes the node out.
Remove(t) ==
    LET node == at[t].node
    IN  /\ Walks(t, "erase") /\ OnKey(t)
        /\ CanLock(t, node)
        /\ next' = [next EXCEPT ![at[t].prev] = next[node]]
    /\ HandOver(t, null, at[t].prev)
    /\ Answer(t, "yes")
    /\ UNCHANGED <<around, value, marked, reclaimed, call>> /\ Watch

NothingToErase(t) ==
    /\ Walks(t, "erase") /\ at[t].node = null
    /\ HandOver(t, null, at[t].prev)
    /\ Answer(t, "no")
    /\ UNCHANGED <<around, heap, call>> /\ Watch

NodeStep(t) ==
    \/ LockHead(t) \/ Advance(t) \/ AppendNode(t) \/ FindExisting(t) \/ FindEnds(t)
    \/ Remove(t) \/ NothingToErase(t)

\* A thread that walks holds the one mutex it stands behind, the place is in the list,
\* and it still points to the node the thread saw: nobody is left on an erased node.
WalkersAreInTheList ==
    \A t \in Threads : pc[t] = "walk" =>
        /\ at[t].prev \in Heads \cup InLists
        /\ next[at[t].prev] = at[t].node
        /\ \A p \in Places : t \in holders[p] <=> p = at[t].prev
=============================================================================

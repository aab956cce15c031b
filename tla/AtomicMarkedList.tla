-------------------------- MODULE AtomicMarkedList -------------------------
(***************************************************************************)
(* exercise5/src/lists/atomic_marked_list.h: a node is erased by a mark on *)
(* its next pointer, and unlinked by whoever passes by.  Every load and    *)
(* every CAS is an action; a weak CAS may fail spuriously.  at[t].prev is  *)
(* the place prev_next_ptr points to, or null.  Reclaimed nodes are kept   *)
(* until the list is destroyed, so that no address is used twice.          *)
(***************************************************************************)
EXTENDS HashMap

HeadPlace(t) == m_head(bucket(call[t].key))

\* The pointer at a place is p, without a mark, as a CAS on it expects.
Holds(place, p) == place \notin marked /\ next[place] = p

Goto(t, to) == pc' = [pc EXCEPT ![t] = to]

-----------------------------------------------------------------------------
(* The beginnings, and the walk that insert(), erase() and find() share.   *)

\* The CAS on m_head of an empty list.
InsertFirst(t) ==
    /\ pc[t] = "start" /\ call[t].op = "insert"
    /\ Holds(HeadPlace(t), null)
    /\ value' = IF at[t].new = null THEN Append(value, call[t].key) ELSE value
    /\ next' = [next EXCEPT ![HeadPlace(t)] = IF at[t].new = null THEN NewNode ELSE at[t].new]
    /\ Answer(t, "yes")
    /\ UNCHANGED <<around, marked, reclaimed, holders, call>> /\ Watch

\* It has failed, and loaded m_head.
InsertWalks(t) ==
    LET head == next[HeadPlace(t)]
        new == at[t].new
    IN  /\ pc[t] = "start" /\ call[t].op = "insert"
        /\ value' = IF new = null THEN Append(value, call[t].key) ELSE value
        /\ at' = [at EXCEPT ![t] = [@ EXCEPT !.new = IF new = null THEN NewNode ELSE new,
                                             !.prev = HeadPlace(t), !.prev_next = head, !.node = head]]
    /\ Goto(t, "walk")
    /\ UNCHANGED <<around, next, marked, reclaimed, holders, call, answer>> /\ Watch

LoadHead(t) ==
    LET head == next[HeadPlace(t)]
    IN  /\ pc[t] = "start" /\ call[t].op # "insert"
        /\ at' = [at EXCEPT ![t] =
            IF call[t].op = "find" THEN [@ EXCEPT !.node = head]
            ELSE [@ EXCEPT !.prev = HeadPlace(t), !.prev_next = head, !.node = head]]
    /\ Goto(t, "walk")
    /\ UNCHANGED <<around, heap, holders, call, answer>> /\ Watch

Visits(t) == pc[t] = "walk" /\ at[t].node # null

\* The node is marked: insert() and erase() try to skip it, unless they have lost the
\* place before it; find() never has one.
PassMarked(t) ==
    LET node == at[t].node
    IN  /\ Visits(t) /\ node \in marked
        /\ \/ /\ at[t].prev = null
              /\ at' = [at EXCEPT ![t].node = next[node]]
              /\ UNCHANGED pc
           \/ /\ at[t].prev # null
              /\ at' = [at EXCEPT ![t].next = next[node]]
              /\ Goto(t, "skip")
    /\ UNCHANGED <<around, heap, holders, call, answer>> /\ Watch

PassOther(t) ==
    LET node == at[t].node
    IN  /\ Visits(t) /\ node \notin marked /\ value[node] # call[t].key
        /\ at' = [at EXCEPT ![t] =
            IF call[t].op = "find" THEN [@ EXCEPT !.node = next[node]]
            ELSE [@ EXCEPT !.prev = node, !.prev_next = next[node], !.node = next[node]]]
    /\ UNCHANGED <<around, heap, holders, pc, call, answer>> /\ Watch

\* The node has the key: insert() and find() are done, erase() goes on to mark it.
MeetKey(t) ==
    LET node == at[t].node
    IN  /\ Visits(t) /\ node \notin marked /\ value[node] = call[t].key
        /\ \/ /\ call[t].op # "erase"
              /\ Answer(t, IF call[t].op = "find" THEN "yes" ELSE "no")
           \/ /\ call[t].op = "erase"
              /\ at' = [at EXCEPT ![t].next = next[node]]
              /\ Goto(t, "mark")
              /\ UNCHANGED answer
    /\ UNCHANGED <<around, heap, holders, call>> /\ Watch

\* The list ends without the key.
EndOfList(t) ==
    /\ pc[t] = "walk" /\ at[t].node = null /\ call[t].op # "insert"
    /\ Answer(t, "no")
    /\ UNCHANGED <<around, heap, holders, call>> /\ Watch

-----------------------------------------------------------------------------
(* try_skip_node: the place before a marked node is to point behind it.    *)

\* Mutant: the CAS does not see the mark on the place.
SkipBehindMarked(t) ==
    LET l == at[t]
    IN  /\ pc[t] = "skip"
        /\ next[l.prev] = l.prev_next
        /\ next' = [next EXCEPT ![l.prev] = l.next]
        /\ reclaimed' = reclaimed \cup {l.node}
        /\ at' = [at EXCEPT ![t] = [@ EXCEPT !.node = l.next, !.next = null]]
    /\ Goto(t, "walk")
    /\ UNCHANGED <<around, value, marked, holders, call, answer>> /\ Watch

\* The CAS has succeeded; prev_next keeps the value that was expected.
SkipSucceeds(t) ==
    LET l == at[t]
    IN  /\ pc[t] = "skip"
        /\ Holds(l.prev, l.prev_next)
        /\ next' = [next EXCEPT ![l.prev] = l.next]
        /\ reclaimed' = reclaimed \cup {l.node}
        /\ at' = [at EXCEPT ![t] = [@ EXCEPT !.node = l.next, !.next = null]]
    /\ Goto(t, "walk")
    /\ UNCHANGED <<around, value, marked, holders, call, answer>> /\ Watch

\* It has failed: the place points elsewhere (or the failure was spurious), and the
\* walk goes on from there; or the node the place is in is marked, and there is no
\* place any more.
SkipFails(t) ==
    LET l == at[t]
    IN  /\ pc[t] = "skip"
        /\ at' = [at EXCEPT ![t] =
            IF l.prev \in marked THEN [@ EXCEPT !.prev = null, !.prev_next = null, !.node = l.next, !.next = null]
            ELSE [@ EXCEPT !.prev_next = next[l.prev], !.node = l.next, !.next = null]]
    /\ Goto(t, "walk")
    /\ UNCHANGED <<around, heap, holders, call, answer>> /\ Watch

-----------------------------------------------------------------------------
(* The end of insert().                                                    *)

\* Mutant: the pointer is stored, whatever it was.
AppendOverwrites(t) ==
    LET l == at[t]
    IN  /\ pc[t] = "walk" /\ call[t].op = "insert" /\ l.node = null /\ l.prev # null
        /\ next' = [next EXCEPT ![l.prev] = l.new]
        /\ Answer(t, "yes")
    /\ UNCHANGED <<around, value, marked, reclaimed, holders, call>> /\ Watch

\* The new node replaces what the place points to.
AppendSucceeds(t) ==
    LET l == at[t]
    IN  /\ pc[t] = "walk" /\ call[t].op = "insert" /\ l.node = null /\ l.prev # null
        /\ Holds(l.prev, l.prev_next)
        /\ next' = [next EXCEPT ![l.prev] = l.new]
        /\ IF l.prev_next = null THEN Answer(t, "yes")
           ELSE /\ at' = [at EXCEPT ![t] = [@ EXCEPT !.node = l.prev_next, !.prev_next = null]]
                /\ Goto(t, "reclaim") /\ answer' = [answer EXCEPT ![t] = "yes"]
    /\ UNCHANGED <<around, value, marked, reclaimed, holders, call>> /\ Watch

Restart(t) ==
    /\ pc[t] = "walk" /\ call[t].op = "insert" /\ at[t].node = null
    /\ at' = [at EXCEPT ![t] = [NoLocals EXCEPT !.new = at[t].new]]
    /\ Goto(t, "start")
    /\ UNCHANGED <<around, heap, holders, call, answer>> /\ Watch

\* The nodes that have been replaced are reclaimed one after the other.
ReclaimReplaced(t) ==
    LET node == at[t].node
    IN  /\ pc[t] = "reclaim"
        /\ reclaimed' = reclaimed \cup {node}
        /\ IF next[node] = null THEN Answer(t, "yes")
           ELSE /\ at' = [at EXCEPT ![t].node = next[node]]
                /\ UNCHANGED <<pc, answer>>
    /\ UNCHANGED <<around, value, next, marked, holders, call>> /\ Watch

-----------------------------------------------------------------------------
(* The end of erase().                                                     *)

MarkSucceeds(t) ==
    /\ pc[t] = "mark"
    /\ Holds(at[t].node, at[t].next)
    /\ marked' = marked \cup {at[t].node}
    /\ answer' = [answer EXCEPT ![t] = "yes"]
    /\ Goto(t, "unlink")
    /\ UNCHANGED <<around, value, next, reclaimed, holders, at, call>> /\ Watch

MarkFails(t) ==
    LET node == at[t].node
    IN  /\ pc[t] = "mark" /\ ~Holds(node, at[t].next)
        /\ \/ node \in marked /\ Answer(t, "no")
           \/ /\ node \notin marked
              /\ at' = [at EXCEPT ![t].next = next[node]]
              /\ UNCHANGED <<pc, answer>>
    /\ UNCHANGED <<around, heap, holders, call>> /\ Watch

\* One try to skip the node, whatever comes of it.
Unlink(t) ==
    LET l == at[t]
    IN  /\ pc[t] = "unlink"
        /\ \/ /\ l.prev # null /\ Holds(l.prev, l.prev_next)
              /\ next' = [next EXCEPT ![l.prev] = l.next]
              /\ reclaimed' = reclaimed \cup {l.node}
           \/ UNCHANGED <<next, reclaimed>>
    /\ Answer(t, "yes")
    /\ UNCHANGED <<around, value, marked, holders, call>> /\ Watch

-----------------------------------------------------------------------------
(* The destructor, when no call is under way.                              *)

\* ~atomic_marked_list() destroys the nodes that m_head leads to, ~node_manager() those
\* that were reclaimed; one that was reclaimed twice is destroyed once.
DestroyedByList == InLists
DestroyedByManager == reclaimed

\* No node is destroyed by both.  One may be destroyed by neither: if its unlink fails
\* (spuriously) and a later CAS, with a place that was kept over a failed skip, passes
\* over it, it is in no list and was never reclaimed.
NoneDestroyedTwice == DestroyedByList \cap DestroyedByManager = {}

\* The manager destroys only nodes that were erased.
OnlyErasedAreReclaimed == DestroyedByManager \subseteq marked

WalkStep(t) ==
    \/ InsertFirst(t) \/ InsertWalks(t) \/ LoadHead(t) \/ PassMarked(t) \/ PassOther(t)
    \/ MeetKey(t) \/ EndOfList(t) \/ SkipSucceeds(t) \/ SkipFails(t)
MarkedStep(t) ==
    \/ WalkStep(t) \/ AppendSucceeds(t) \/ Restart(t) \/ ReclaimReplaced(t)
    \/ MarkSucceeds(t) \/ MarkFails(t) \/ Unlink(t)
=============================================================================

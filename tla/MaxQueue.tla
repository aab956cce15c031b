------------------------------ MODULE MaxQueue ------------------------------
(***************************************************************************)
(* What the priority queues promise: a finite map from handles to values   *)
(* whose pop() takes out one of the largest values.  No heap, no positions.*)
(***************************************************************************)
CONSTANTS Handles, Values
CONSTANT Below(_, _)    \* the comparison of the queue

VARIABLE content

Push(h, v) ==
    /\ h \notin DOMAIN content
    /\ content' = [g \in DOMAIN content \cup {h} |-> IF g = h THEN v ELSE content[g]]

Pop ==
    \E h \in DOMAIN content :
        /\ \A g \in DOMAIN content : ~Below(content[h], content[g])
        /\ content' = [g \in DOMAIN content \ {h} |-> content[g]]

Change(h, v) ==
    /\ h \in DOMAIN content
    /\ content' = [content EXCEPT ![h] = v]

Clear == content' = <<>>

Next ==
    \/ \E h \in Handles, v \in Values : Push(h, v) \/ Change(h, v)
    \/ Pop
    \/ Clear

MaxQueueSpec == content = <<>> /\ [][Next]_content
=============================================================================

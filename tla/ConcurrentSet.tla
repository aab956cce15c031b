--------------------------- MODULE ConcurrentSet ---------------------------
(***************************************************************************)
(* What the lists and the hash map promise: a set that changes one key at  *)
(* a time.  An insert() or erase() that returns true has changed the set   *)
(* during the call; any other answer says what was so of the key at some   *)
(* moment of the call.                                                     *)
(***************************************************************************)
CONSTANTS Keys, Threads, Calls, NoCall

VARIABLES members,      (* the keys of the set                             *)
          call,         (* the operation a thread is in, with its key      *)
          answer,       (* what it will return: "open", "yes" or "no"      *)
          seen          (* whether the key was a member, since the call began *)

setVars == <<members, call, answer, seen>>

SetInit ==
    /\ members \subseteq Keys
    /\ call = [t \in Threads |-> NoCall]
    /\ answer = [t \in Threads |-> "open"]
    /\ seen = [t \in Threads |-> {}]

\* The calls that go on have seen the set as it is after the step.
See == seen' = [t \in Threads |->
    IF call'[t] = NoCall THEN {}
    ELSE (IF call[t] = NoCall THEN {} ELSE seen[t]) \cup {call'[t].key \in members'}]

Begin(t) ==
    /\ call[t] = NoCall
    /\ \E c \in Calls : call' = [call EXCEPT ![t] = c]
    /\ UNCHANGED <<members, answer>> /\ See

Change(t) ==
    /\ call[t] # NoCall /\ answer[t] = "open"
    /\ LET k == call[t].key
       IN  \/ call[t].op = "insert" /\ k \notin members /\ members' = members \cup {k}
           \/ call[t].op = "erase" /\ k \in members /\ members' = members \ {k}
    /\ answer' = [answer EXCEPT ![t] = "yes"]
    /\ UNCHANGED call /\ See

Decide(t) ==
    /\ call[t] # NoCall /\ answer[t] = "open"
    /\ \/ call[t].op = "find" /\ TRUE \in seen[t] /\ answer' = [answer EXCEPT ![t] = "yes"]
       \/ call[t].op = "insert" /\ TRUE \in seen[t] /\ answer' = [answer EXCEPT ![t] = "no"]
       \/ call[t].op # "insert" /\ FALSE \in seen[t] /\ answer' = [answer EXCEPT ![t] = "no"]
    /\ UNCHANGED <<members, call>> /\ See

End(t) ==
    /\ call[t] # NoCall /\ answer[t] # "open"
    /\ call' = [call EXCEPT ![t] = NoCall] /\ answer' = [answer EXCEPT ![t] = "open"]
    /\ UNCHANGED members /\ See

\* clear(), while nobody is in a call.
Empty ==
    /\ \A t \in Threads : call[t] = NoCall
    /\ members' = {}
    /\ UNCHANGED <<call, answer, seen>>

SetNext == Empty \/ \E t \in Threads : Begin(t) \/ Change(t) \/ Decide(t) \/ End(t)

SetSpec == SetInit /\ [][SetNext]_setVars
=============================================================================

-------------------------- MODULE AtomicSharedPtr --------------------------
(***************************************************************************)
(* exercise5/src/atomic_shared_ptr.h: shared_ptr with a counted block, and *)
(* an atomic shared_ptr.  Every thread has two variables of type           *)
(* shared_ptr, a and b; the atomic one is shared.  An operation is one     *)
(* access to the atomic pointer, or none, and a sequence of changes of     *)
(* counts, which are an action each.                                       *)
(*                                                                         *)
(* load() and a failing CAS count a block that they do not own yet; the    *)
(* comment at load() says that this is broken.  [may] of the plans lets a  *)
(* thread call them only while no other one replaces the pointer.          *)
(***************************************************************************)
EXTENDS Integers, Sequences, FiniteSets

CONSTANTS
    Threads,
    Blocks,         (* 1 .. n: the blocks in the order of their allocation *)
    Uses            (* plans: [shared], whether the atomic pointer and     *)
                    (* every a refer to block 1 at the beginning; [may],   *)
                    (* the operations of each thread                       *)

VARIABLES
    use,
    pointer,        (* m_ptr of the atomic; 0 is the null pointer          *)
    local,          (* m_ptr of a and b of every thread                    *)
    ref_count,      (* m_ref_count of the blocks that were made            *)
    deleted,        (* the blocks that were deleted                        *)
    pending,        (* the counts a thread is going to change              *)
    inCAS           (* desired has been copied, and the CAS follows        *)

pointerVars == <<use, pointer, local, ref_count, deleted, pending, inCAS>>

PointerInit ==
    /\ use \in Uses
    /\ pointer = IF use.shared THEN 1 ELSE 0
    /\ local = [t \in Threads |-> [a |-> pointer, b |-> 0]]
    /\ ref_count = IF use.shared THEN <<1 + Cardinality(Threads)>> ELSE <<>>
    /\ deleted = {}
    /\ pending = [t \in Threads |-> <<>>] /\ inCAS = [t \in Threads |-> FALSE]

-----------------------------------------------------------------------------
\* fetch_add, fetch_sub in reset(), and the fetch_sub of the CAS.  Null is not counted.
Change(kind, block) == IF block = 0 THEN <<>> ELSE <<[kind |-> kind, block |-> block]>>
Inc(block) == Change("add", block)
Dec(block) == Change("reset", block)

\* The next change.  reset() deletes the block if the count was one; after a CAS, a
\* shared_ptr made of such a block is destroyed, and counts it once more.
Count(t) ==
    LET change == Head(pending[t])
        block == change.block
        last == ref_count[block] = 1
    IN  /\ pending[t] # <<>>
        /\ ref_count' = [ref_count EXCEPT ![block] = IF change.kind = "add" THEN @ + 1 ELSE @ - 1]
        /\ deleted' = IF change.kind = "reset" /\ last THEN deleted \cup {block} ELSE deleted
        /\ pending' = [pending EXCEPT ![t] =
            (IF change.kind = "CAS" /\ last THEN Dec(block) ELSE <<>>) \o Tail(@)]
    /\ UNCHANGED <<use, pointer, local, inCAS>>

\* t calls op, after what it called before: the new a and b, and the counts to change.
Call(t, op, a, b, counts) ==
    /\ op \in use.may[t] /\ pending[t] = <<>> /\ ~inCAS[t]
    /\ local' = [local EXCEPT ![t] = [a |-> a, b |-> b]]
    /\ pending' = [pending EXCEPT ![t] = counts]
    /\ UNCHANGED <<use, deleted>>

\* a = make_shared(), a.reset(), b = a, and b = std::move(a).
Make(t) ==
    /\ Len(ref_count) < Cardinality(Blocks)
    /\ ref_count' = Append(ref_count, 1)
    /\ Call(t, "make", Len(ref_count) + 1, local[t].b, Dec(local[t].a))
    /\ UNCHANGED <<pointer, inCAS>>
Reset(t) ==
    /\ Call(t, "reset", 0, local[t].b, Dec(local[t].a))
    /\ UNCHANGED <<pointer, ref_count, inCAS>>
Copy(t) ==
    /\ Call(t, "copy", local[t].a, local[t].a, Dec(local[t].b) \o Inc(local[t].a))
    /\ UNCHANGED <<pointer, ref_count, inCAS>>
Move(t) ==
    /\ Call(t, "move", 0, local[t].a, Dec(local[t].b))
    /\ UNCHANGED <<pointer, ref_count, inCAS>>

\* store(std::move(a)), b = exchange(std::move(a)), and b = load().
Store(t) ==
    /\ Call(t, "store", 0, local[t].b, Dec(pointer))
    /\ pointer' = local[t].a
    /\ UNCHANGED <<ref_count, inCAS>>
Exchange(t) ==
    /\ Call(t, "exchange", 0, pointer, Dec(local[t].b))
    /\ pointer' = local[t].a
    /\ UNCHANGED <<ref_count, inCAS>>
Load(t) ==
    /\ Call(t, "load", local[t].a, pointer, Inc(pointer) \o Dec(local[t].b))
    /\ UNCHANGED <<pointer, ref_count, inCAS>>

\* compare_exchange_weak or _strong(a, b): b is copied first.
CallCAS(t) ==
    /\ Call(t, "CAS", local[t].a, local[t].b, Inc(local[t].b))
    /\ inCAS' = [inCAS EXCEPT ![t] = TRUE]
    /\ UNCHANGED <<pointer, ref_count>>
CASSucceeds(t) ==
    LET l == local[t]
    IN  /\ inCAS[t] /\ pending[t] = <<>> /\ pointer = l.a
        /\ pointer' = l.b
        /\ pending' = [pending EXCEPT ![t] = Inc(l.b) \o Change("CAS", l.a) \o Dec(l.b)]
        /\ inCAS' = [inCAS EXCEPT ![t] = FALSE]
    /\ UNCHANGED <<use, local, ref_count, deleted>>
\* The weak one may fail although the pointers are equal.
CASFails(t) ==
    LET l == local[t]
    IN  /\ inCAS[t] /\ pending[t] = <<>>
        /\ local' = [local EXCEPT ![t].a = pointer]
        /\ pending' = [pending EXCEPT ![t] = Inc(pointer) \o Change("CAS", l.a) \o Dec(l.b)]
        /\ inCAS' = [inCAS EXCEPT ![t] = FALSE]
    /\ UNCHANGED <<use, pointer, ref_count, deleted>>

PointerNext == \E t \in Threads :
    \/ Count(t) \/ Make(t) \/ Reset(t) \/ Copy(t) \/ Move(t) \/ Store(t) \/ Exchange(t) \/ Load(t)
    \/ CallCAS(t) \/ CASSucceeds(t) \/ CASFails(t)

-----------------------------------------------------------------------------
\* The references to a block: pointers that are going to be counted are not among them,
\* those that were dropped and are still counted are.  A copy of b is one as well.
HowMany(S) == Cardinality(S)
References(x) ==
    LET IsOne(t, i, kinds) ==
            i \in DOMAIN pending[t] /\ pending[t][i].block = x /\ pending[t][i].kind \in kinds
        Waiting(kinds) == {w \in Threads \X (1 .. 4) : IsOne(w[1], w[2], kinds)}
    IN  HowMany({t \in Threads : local[t].a = x}) + HowMany({t \in Threads : local[t].b = x})
        + (IF pointer = x THEN 1 ELSE 0) + HowMany({t \in Threads : inCAS[t] /\ local[t].b = x})
        + HowMany(Waiting({"reset", "CAS"})) - HowMany(Waiting({"add"}))
InUse(x) == x = pointer \/ \E t \in Threads : x \in {local[t].a, local[t].b}

\* A CAS that fails and drops the last pointer to a block says that "the block is freed in
\* the destructor" of a temporary shared_ptr (line 205), but the count is zero by then, the
\* destructor counts once more, and nobody frees the block.
LostByCAS(x) == ref_count[x] = -1 /\ \E t \in Threads : "CAS" \in use.may[t]

\* A block that can be reached has not been deleted, and its count is the number of its
\* references; a deleted one has none, as ~Block() asserts; and one that cannot be reached,
\* with no change of a count under way, is deleted or was lost by a failing CAS.
BlocksCounted ==
    \A x \in DOMAIN ref_count :
        /\ InUse(x) => x \notin deleted /\ ref_count[x] = References(x)
        /\ x \in deleted => ref_count[x] = 0
        /\ ~InUse(x) /\ (\A t \in Threads : pending[t] = <<>>) => x \in deleted \/ LostByCAS(x)
=============================================================================

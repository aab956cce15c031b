---------------------------- MODULE AlignedVector ----------------------------
(***************************************************************************)
(* exercise1/pq/implementation/AlignedVector.h, the vector of the d-ary    *)
(* heaps: its elements begin `offset` places behind the beginning of an    *)
(* aligned block of memory.  Memory is counted in places for an element.   *)
(*                                                                         *)
(* Elements have no destructors here: those that reserve() moves are not   *)
(* destroyed before their memory is freed.  Without a capacity, the default, *)
(* no memory is allocated and the assertion at the end of reserve() fails. *)
(***************************************************************************)
EXTENDS Integers, Sequences

CONSTANTS
    Vectors,        (* what a vector is constructed with: [sizeof] and     *)
                    (* [alignof] the type, a multiple and a factor;        *)
                    (* [block_size], [offset], which is less, and          *)
                    (* [capacity], which is positive                       *)
    Elements, MaxCapacity, Garbage

VARIABLES
    vector,         (* one of Vectors                                      *)
    alloc,          (* [bytes] and [alignment] of the block                *)
    memory,         (* what is in its places, from 0 on                    *)
    capacity, m_size,
    pushed          (* history: what push_back() added, less pop_back()    *)

vectorVars == <<vector, alloc, memory, capacity, m_size, pushed>>

next_power_of_two(n) ==
    LET shifts == CHOOSE e \in 0 .. n : 2 ^ e >= n /\ (e = 0 \/ 2 ^ (e - 1) < n)
    IN  2 ^ shifts

alignment(v) == next_power_of_two(v.alignof * v.block_size)

\* The number of bytes, a multiple of the alignment.
sizeFor(v, new_cap) ==
    ((v.sizeof * (new_cap + v.offset) + alignment(v) - 1) \div alignment(v)) * alignment(v)

\* Mutant: the places before the first element are counted.
CapacityWithOffset(v, bytes) == bytes \div v.sizeof

capacityFor(v, bytes) == bytes \div v.sizeof - v.offset

\* A block for new_cap elements that holds the `n` in `old`.
Allocate(v, new_cap, old, n) ==
    LET bytes == sizeFor(v, new_cap)
    IN  /\ alloc' = [bytes |-> bytes, alignment |-> alignment(v)]
        /\ memory' = [i \in 0 .. bytes \div v.sizeof - 1 |->
                        IF i \in v.offset .. v.offset + n - 1 THEN old[i] ELSE Garbage]
        /\ capacity' = capacityFor(v, bytes)

VectorInit ==
    /\ vector \in Vectors
    /\ alloc = [bytes |-> 0, alignment |-> 1] /\ memory = <<>> /\ capacity = 0
    /\ m_size = 0 /\ pushed = <<>>

\* The constructor calls reserve(); the destructor frees the memory.
Construct ==
    /\ capacity = 0
    /\ Allocate(vector, vector.capacity, <<>>, 0)
    /\ UNCHANGED <<vector, m_size, pushed>>
Destroy ==
    /\ capacity > 0
    /\ alloc' = [bytes |-> 0, alignment |-> 1] /\ memory' = <<>>
    /\ capacity' = 0 /\ m_size' = 0 /\ pushed' = <<>>
    /\ UNCHANGED vector

Reserve(new_cap) ==
    /\ capacity > 0 /\ new_cap > capacity
    /\ Allocate(vector, new_cap, memory, m_size)
    /\ UNCHANGED <<vector, m_size, pushed>>

\* Within the capacity, as the assertion has it.
PushBack(x) ==
    /\ m_size < capacity
    /\ memory' = [memory EXCEPT ![vector.offset + m_size] = x]
    /\ m_size' = m_size + 1
    /\ pushed' = Append(pushed, x)
    /\ UNCHANGED <<vector, alloc, capacity>>

PopBack ==
    /\ m_size > 0
    /\ memory' = [memory EXCEPT ![vector.offset + m_size - 1] = Garbage]
    /\ m_size' = m_size - 1
    /\ pushed' = SubSeq(pushed, 1, m_size - 1)
    /\ UNCHANGED <<vector, alloc, capacity>>

VectorNext ==
    \/ Construct \/ Destroy \/ PopBack
    \/ \E new_cap \in 1 .. MaxCapacity : Reserve(new_cap)
    \/ \E x \in Elements : PushBack(x)

-----------------------------------------------------------------------------
\* The elements are those that were pushed, also after they have moved, the capacity is
\* inside the memory; and in a heap, where the offset is one less than the block, each
\* group of siblings begins at a boundary of the alignment, if that is the block's size.
ElementsInPlace ==
    /\ pushed = [i \in 1 .. m_size |-> memory[vector.offset + i - 1]]
    /\ capacity > 0 =>
        /\ (vector.offset + capacity) * vector.sizeof <= alloc.bytes
        /\ alloc.bytes % alloc.alignment = 0
    /\ (vector.offset = vector.block_size - 1 /\ alloc.alignment = vector.alignof * vector.block_size) =>
        \A k \in 0 .. (capacity - 1) \div vector.block_size :
            ((vector.offset + 1 + k * vector.block_size) * vector.sizeof) % alloc.alignment = 0
=============================================================================

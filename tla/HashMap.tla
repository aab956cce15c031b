------------------------------ MODULE HashMap ------------------------------
(***************************************************************************)
(* The HashMap of exercise5/src with its buckets: a Bloom filter each, if  *)
(* there are any (BloomFilterAdapter), and a list (ListBucket).  A key is  *)
(* its hash value: the lowest bits select the bucket, the highest ones,    *)
(* six at a time, the bits of the filter.  The lists are the nodes and     *)
(* pointers here and the operations in the modules that extend this one.   *)
(* A filter is read and written relaxed; the model orders these accesses.  *)
(***************************************************************************)
EXTENDS Integers, Sequences, FiniteSets

CONSTANTS
    Threads,
    Keys,
    Hash,           (* the hash of a key: its lowest bits, [low], and the  *)
                    (* numbers its blocks of six bits are, [blocks]        *)
    Maps,           (* the maps: [list], the list class; [capacity], that  *)
                    (* the constructor is called with; [filters], the      *)
                    (* number of bits a key has in the filter, 0 without a *)
                    (* filter; [may], the operations each thread calls;    *)
                    (* [first], the keys inserted at the beginning; [nodes], *)
                    (* the bound on the nodes that are ever created        *)
    NoCall

Lists == {"single_mutex_list", "node_mutex_list", "atomic_marked_list", "leaking_atomic_list",
          "atomic_shared_ptr_list"}
Operations == {"insert", "find", "erase"}
Calls == [op : Operations, key : Keys]

ASSUME MapAssumption ==
    /\ NoCall \notin Calls /\ IsFiniteSet(Threads)
    /\ \A k \in Keys : Hash[k].low \in Nat /\ Hash[k].blocks \in Seq(0 .. 63)
    /\ \A m \in Maps :
        /\ m.list \in Lists /\ m.capacity \in Nat /\ m.may \in [Threads -> SUBSET Operations]
        /\ \A k \in Keys : m.filters \in 0 .. Len(Hash[k].blocks)
        /\ m.first \in Seq(Keys) /\ m.nodes \in Nat /\ Len(m.first) <= m.nodes
        /\ \A i, j \in DOMAIN m.first : m.first[i] = m.first[j] => i = j

VARIABLES
    map,            (* the one of Maps that runs                           *)
    filter,         (* m_bloom_filter of each bucket: the bits that are set *)
    value,          (* the values of the nodes, which are numbered in the  *)
                    (* order of their creation                             *)
    next,           (* the pointer at a place: a node's next, or the       *)
                    (* m_head of a bucket; 0 is the null pointer           *)
    marked,         (* the nodes with the mark on their next               *)
    holders,        (* the threads that hold the mutex of a place          *)
    reclaimed,      (* the nodes handed to reclaim_node()                  *)
    pc, at,         (* the next step of a thread, and its locals           *)
    call, answer,   (* the operation it is in, what it will return         *)
    seen            (* history: whether the key was a member since the call began *)

mapVars == <<map, filter, value, next, marked, holders, reclaimed, pc, at, call, answer, seen>>
heap == <<value, next, marked, reclaimed>>
around == <<map, filter>>

-----------------------------------------------------------------------------
\* The powers are doubled from 1 on, until one is not below n.
next_power_of_two(n) ==
    LET power[p \in 1 .. 2 * n + 1] == IF p < n THEN power[2 * p] ELSE p
    IN  power[1]

\* m_capacity, for the capacity of the constructor, and the buckets.
num_buckets == next_power_of_two((6 * map.capacity) \div 5)
Buckets == 0 .. num_buckets - 1

\* The index of a key: hash & m_mask.
bucket(k) == Hash[k].low % num_buckets

\* Mutant: the bits above the block are not masked out.
filter_unmasked(k) == {IF i = 1 THEN Hash[k].blocks[1] ELSE 64 * Hash[k].blocks[i - 1] + Hash[k].blocks[i] :
                        i \in 1 .. map.filters}

\* The bits of a key in the filter, get_filter_mask().
filter_mask(k) == {Hash[k].blocks[i] : i \in 1 .. map.filters}

Nodes == 1 .. map.nodes
m_head(b) == -(b + 1)                     \* the place of m_head of the list of bucket b
Heads == {m_head(b) : b \in Buckets}
Places == Heads \cup Nodes
null == 0

\* The nodes a list holds: what the pointers lead to from its head.
PointeesOf(S) == S \cup {next[p] : p \in S \ {null}}
Chain(h) ==
    LET reached[i \in 0 .. map.nodes] == IF i = 0 THEN {h} ELSE PointeesOf(reached[i - 1])
    IN  reached[map.nodes] \ {h, null}
InLists == UNION {Chain(h) : h \in Heads}
Members == {value[n] : n \in InLists \ marked}

NoLocals == [prev |-> null, prev_next |-> null, node |-> null, next |-> null, new |-> null]

\* The map m after m.first has been inserted by one thread.
MapInit ==
    /\ map \in Maps
    /\ filter = [b \in Buckets |->
            UNION {filter_mask(map.first[i]) : i \in {j \in DOMAIN map.first : bucket(map.first[j]) = b}}]
    /\ value = map.first
    /\ LET In(b, i) == {j \in i + 1 .. Len(map.first) : bucket(map.first[j]) = b}
           FirstOf(S) == IF S = {} THEN null ELSE CHOOSE i \in S : \A j \in S : i <= j
       IN  next = [p \in Places |->
                IF p \in Heads THEN FirstOf(In(-p - 1, 0))
                ELSE IF p <= Len(map.first) THEN FirstOf(In(bucket(map.first[p]), p)) ELSE null]
    /\ marked = {} /\ reclaimed = {}
    /\ holders = [p \in Places |-> {}]
    /\ pc = [t \in Threads |-> "idle"] /\ at = [t \in Threads |-> NoLocals]
    /\ call = [t \in Threads |-> NoCall] /\ answer = [t \in Threads |-> "open"]
    /\ seen = [t \in Threads |-> {}]

-----------------------------------------------------------------------------
(* The history: the last conjunct of every action.                         *)
Watch ==
    LET now == Members'
    IN  seen' = [t \in Threads |->
            IF call'[t] = NoCall THEN {}
            ELSE (IF call[t] = NoCall THEN {} ELSE seen[t]) \cup {call'[t].key \in now}]

\* A call decides on its answer and its locals die.
Answer(t, a) ==
    /\ answer' = [answer EXCEPT ![t] = a]
    /\ pc' = [pc EXCEPT ![t] = "return"]
    /\ at' = [at EXCEPT ![t] = NoLocals]

\* The calls of insert() that may still create a node.
InsertsUnderWay ==
    {t \in Threads : call[t] # NoCall /\ call[t].op = "insert" /\ answer[t] = "open" /\ at[t].new = null}

BeginCall(t) ==
    /\ pc[t] = "idle"
    /\ \E c \in Calls :
        /\ c.op \in map.may[t]
        /\ c.op = "insert" => Len(value) + Cardinality(InsertsUnderWay) < map.nodes
        /\ call' = [call EXCEPT ![t] = c]
    /\ pc' = [pc EXCEPT ![t] = IF map.filters = 0 THEN "start" ELSE "filter"]
    /\ UNCHANGED <<around, heap, holders, at, answer>> /\ Watch

\* Mutant: the bits of the key are not set.
SetNoBits(t) ==
    /\ pc[t] = "filter" /\ call[t].op = "insert"
    /\ UNCHANGED filter
    /\ pc' = [pc EXCEPT ![t] = "start"]
    /\ UNCHANGED <<map, heap, holders, at, call, answer>> /\ Watch

\* bloom_filter_insert(), before the insertion into the list.
SetBits(t) ==
    /\ pc[t] = "filter" /\ call[t].op = "insert"
    /\ filter' = [filter EXCEPT ![bucket(call[t].key)] = @ \cup filter_mask(call[t].key)]
    /\ pc' = [pc EXCEPT ![t] = "start"]
    /\ UNCHANGED <<map, heap, holders, at, call, answer>> /\ Watch

\* bloom_filter_contains(), before find() and erase(); without all the bits the answer
\* is known.
TestBits(t) ==
    /\ pc[t] = "filter" /\ call[t].op # "insert"
    /\ \/ /\ filter_mask(call[t].key) \subseteq filter[bucket(call[t].key)]
          /\ pc' = [pc EXCEPT ![t] = "start"]
          /\ UNCHANGED <<at, answer>>
       \/ /\ ~ filter_mask(call[t].key) \subseteq filter[bucket(call[t].key)]
          /\ Answer(t, "no")
    /\ UNCHANGED <<around, heap, holders, call>> /\ Watch

ReturnAnswer(t) ==
    /\ pc[t] = "return"
    /\ pc' = [pc EXCEPT ![t] = "idle"]
    /\ call' = [call EXCEPT ![t] = NoCall] /\ answer' = [answer EXCEPT ![t] = "open"]
    /\ UNCHANGED <<around, heap, holders, at>> /\ Watch

\* clear(), which is not for concurrent use: the lists are cleared, the buckets destroyed
\* and constructed again.  That of atomic_marked_list cannot be instantiated, and the
\* abandoned lists have none.
Clear ==
    /\ map.list \in {"single_mutex_list", "node_mutex_list"}
    /\ \A t \in Threads : pc[t] = "idle"
    /\ next' = [p \in Places |-> IF p \in Heads THEN null ELSE next[p]]
    /\ filter' = [b \in Buckets |-> {}]
    /\ UNCHANGED <<map, value, marked, reclaimed, holders, pc, at, call, answer>> /\ Watch

\* The number a new node gets.
NewNode == Len(value) + 1

MapStep(t) == BeginCall(t) \/ SetBits(t) \/ TestBits(t) \/ ReturnAnswer(t)

-----------------------------------------------------------------------------
\* Every variable has its type.
MapTypeOK ==
    /\ map \in Maps
    /\ filter \in [Buckets -> SUBSET (0 .. 63)]
    /\ value \in Seq(Keys) /\ Len(value) <= map.nodes
    /\ next \in [Places -> {null} \cup DOMAIN value]
    /\ marked \cup reclaimed \subseteq DOMAIN value
    /\ holders \in [Places -> SUBSET Threads]
    /\ pc \in [Threads -> {"idle", "filter", "start", "walk", "skip", "append", "reclaim", "mark",
                           "unlink", "return"}]
    /\ at \in [Threads -> [prev : Places \cup {null}, prev_next : {null} \cup DOMAIN value,
                           node : {null} \cup DOMAIN value, next : {null} \cup DOMAIN value,
                           new : {null} \cup DOMAIN value]]
    /\ call \in [Threads -> Calls \cup {NoCall}] /\ answer \in [Threads -> {"open", "yes", "no"}]

\* No key is in the map twice, every key is in the list of its bucket, and the filter of
\* the bucket has its bits: find() and erase() miss nothing (BloomFilterAdapter).
KeysInPlace ==
    /\ \A m, n \in InLists \ marked : value[m] = value[n] => m = n
    /\ \A b \in Buckets : \A n \in Chain(m_head(b)) \ marked :
        bucket(value[n]) = b /\ filter_mask(value[n]) \subseteq filter[b]
=============================================================================

--------------------------- MODULE LinearProbing ---------------------------
(***************************************************************************)
(* The hash tables of exercise1/hash (HashOriginal, HashA, HashB): linear  *)
(* probing from the hash of a key, over at most max_search_length cells,   *)
(* around the end of the table.  A cell is empty if it holds K(), so that  *)
(* K() itself cannot be a key.  There is no erase.                         *)
(***************************************************************************)
EXTENDS Integers, FiniteSetsExt, Functions

CONSTANTS Keys,
    EmptyKey,           \* K()
    Tables              \* [capacity |-> .., max_search_length |-> .., hash |-> a function of the keys]

VARIABLES
    config,             \* one of Tables
    table,              \* the keys in the cells
    answer              \* the last insert() and where it pointed: [key |-> .., pos |-> ..]

probingVars == <<config, table, answer>>

NoAnswer == <<>>
None == -1              \* IteratorType(), which is end()

map(k) == config.hash[k] % config.capacity
Probes(k) == [j \in 0 .. config.max_search_length - 1 |-> (map(k) + j) % config.capacity]

\* The cell where a search for k stops: with the key or empty, or None.
StopFor(k) ==
    LET stops == {j \in DOMAIN Probes(k) : table[Probes(k)[j]] \in {k, EmptyKey}}
    IN  IF stops = {} THEN None ELSE Probes(k)[Min(stops)]

ProbingInit ==
    /\ config \in Tables
    /\ table = [i \in 0 .. config.capacity - 1 |-> EmptyKey]
    /\ answer = NoAnswer

\* Mutant: the search for a free cell does not compare keys.
InsertUnchecked(k) ==
    /\ LET free == {j \in DOMAIN Probes(k) : table[Probes(k)[j]] = EmptyKey}
       IN  /\ free # {}
           /\ table' = [table EXCEPT ![Probes(k)[Min(free)]] = k]
           /\ answer' = [key |-> k, pos |-> Probes(k)[Min(free)]]
    /\ UNCHANGED config

Insert(k) ==
    /\ LET stop == StopFor(k)
       IN  /\ IF stop # None /\ table[stop] = EmptyKey
              THEN table' = [table EXCEPT ![stop] = k]
              ELSE UNCHANGED table
           /\ answer' = [key |-> k, pos |-> stop]
    /\ UNCHANGED config

\* findPos(), find() and count() do not change the table.
findPos(k) == IF StopFor(k) # None /\ table[StopFor(k)] = k THEN StopFor(k) ELSE config.capacity

ProbingNext == \E k \in Keys : Insert(k)

\* An iterator is the position of its cell; it moves on to the next cell that is not empty.
isEmpty(pos) == table[pos] = EmptyKey
Advanced(pos) ==
    LET rest == {i \in DOMAIN table : i > pos /\ ~isEmpty(i)} IN IF rest = {} THEN None ELSE Min(rest)
begin == IF isEmpty(0) THEN Advanced(0) ELSE 0

\* Where the loop from begin() to end() is after i steps.
Iteration ==
    LET at[i \in 0 .. config.capacity] == IF i = 0 THEN begin ELSE IF at[i - 1] = None THEN None ELSE Advanced(at[i - 1])
    IN  at

-----------------------------------------------------------------------------
\* Every key is found in the cell that holds it, and in that one only; insert() returns
\* the cell of its key, or end() when all the cells that it may look at are taken; an
\* iteration passes every key once and then ends.
KeysAreFound ==
    /\ \A i \in DOMAIN table : table[i] # EmptyKey => findPos(table[i]) = i
    /\ answer # NoAnswer =>
          \/ answer.pos = findPos(answer.key)
          \/ /\ answer.pos = None
             /\ findPos(answer.key) = config.capacity
             /\ \A i \in {Probes(answer.key)[j] : j \in DOMAIN Probes(answer.key)} : table[i] # EmptyKey
    /\ LET passed == {i \in 0 .. config.capacity : Iteration[i] # None}
       IN  /\ {table[Iteration[i]] : i \in passed} = Range(table) \ {EmptyKey}
           /\ Cardinality(passed) = Cardinality(Range(table) \ {EmptyKey})
=============================================================================

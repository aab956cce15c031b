----------------------------- MODULE Generators -----------------------------
(***************************************************************************)
(* The programs that write the inputs of the solvers: the trees of         *)
(* exercise4/tools/tree_generator.cpp, the task graphs of                  *)
(* exercise4/tools/graph_generator.cpp and the edges, of graphs with a     *)
(* known number of components, of exercise3/tools/graph_generator.cpp.     *)
(* All draw a walk through the nodes at random, whose first visits make a  *)
(* spanning tree, and the latter two add edges until there are enough.     *)
(*                                                                         *)
(* With more edges than pairs of nodes the loop of add_edge never ends.    *)
(*                                                                         *)
(* And exercise5/src/instance_generation.h: the operations that the        *)
(* benchmarks call on a hash map, some to set it up and then the queries.  *)
(* Keys in the map are drawn from 0 on, other keys are negative.  The      *)
(* classes differ in what their probabilities allow a query to be; the     *)
(* skewed one draws its keys from another distribution and so any keys,    *)
(* too.                                                                    *)
(***************************************************************************)
EXTENDS TaskFiles, Integers

LOCAL INSTANCE SequencesExt
LOCAL INSTANCE FiniteSetsExt

CONSTANTS
    Programs,       (* what is called: [kind], "tree", "graph" or          *)
                    (* "components"; [parts], for each component the       *)
                    (* number of its nodes and the one of its edges, which *)
                    (* is at most that of the pairs of nodes               *)
    Benchmarks,     (* [success] and [modify], what the draws can be: sets *)
                    (* of BOOLEAN; [elements] and [queries], the numbers   *)
                    (* of elements and of queries                          *)
    KeyDraws, FailDraws

VARIABLES
    program,
    drawn           (* the locals: [phase]; [part], the component; [seen]  *)
                    (* and [prev] of the walk; [edges] of this component   *)
                    (* and [all] of those before; [distance] and [queue] of *)
                    (* the search; [written], what is the output           *)
VARIABLES
    benchmark,
    keys_in_map,
    setup, queries, (* operations: [kind] and [value]                      *)
    i               (* of the loop                                         *)

generatorVars == <<program, drawn>>
instanceVars == <<benchmark, keys_in_map, setup, queries, i>>

num_nodes == program.parts[drawn.part].nodes
start_id == FoldLeft(LAMBDA n, p : n + p.nodes, 0, SubSeq(program.parts, 1, drawn.part - 1))
total_nodes == FoldLeft(LAMBDA n, p : n + p.nodes, 0, program.parts)
Draws == 0 .. num_nodes - 1
Sorted(a, b) == IF a < b THEN <<a, b>> ELSE <<b, a>>

\* The beginning of the walk in a component; that of a tree begins at 0.
BeginPart(part, prev, all) ==
    [phase |-> "walk", part |-> part, seen |-> {prev}, prev |-> prev, edges |-> {}, all |-> all,
     distance |-> <<>>, queue |-> <<>>, written |-> <<>>]

GeneratorInit ==
    /\ program \in Programs
    /\ \E first \in 0 .. program.parts[1].nodes - 1 :
        /\ program.kind = "tree" => first = 0
        /\ drawn = BeginPart(1, first, {})

\* The next node of the walk.
Walk ==
    /\ drawn.phase = "walk" /\ drawn.seen # Draws
    /\ \E next \in Draws :
        LET edge == IF program.kind = "tree" THEN <<drawn.prev, next>>
                    ELSE Sorted(start_id + drawn.prev, start_id + next)
        IN  drawn' = [drawn EXCEPT !.prev = next, !.seen = @ \cup {next},
                        !.edges = IF next \in drawn.seen THEN @ ELSE @ \cup {edge}]
    /\ UNCHANGED program

\* One of the remaining edges: a pair that is new.
AddEdge ==
    /\ drawn.phase = "walk" /\ drawn.seen = Draws /\ program.kind # "tree"
    /\ Cardinality(drawn.edges) < program.parts[drawn.part].edges
    /\ \E a, b \in Draws :
        LET edge == <<start_id + a, start_id + b>>
        IN  /\ a < b /\ edge \notin drawn.edges
            /\ drawn' = [drawn EXCEPT !.edges = @ \cup {edge}]
    /\ UNCHANGED program

EdgesComplete ==
    /\ drawn.phase = "walk" /\ drawn.seen = Draws
    /\ program.kind # "tree" => Cardinality(drawn.edges) >= program.parts[drawn.part].edges

\* main() sorts the edges and appends the children to their parents.
FileOf(edges) ==
    [v \in Draws |-> SetToSortSeq({c \in Draws : <<v, c>> \in edges}, <)]

WriteTree ==
    /\ program.kind = "tree" /\ EdgesComplete
    /\ drawn' = [drawn EXCEPT !.phase = "written", !.written = FileOf(drawn.edges)]
    /\ UNCHANGED program

-----------------------------------------------------------------------------
(* The edges of a task graph are directed away from node 0.                *)

BeginSearch ==
    /\ program.kind = "graph" /\ EdgesComplete
    /\ drawn' = [drawn EXCEPT !.phase = "search", !.queue = <<0>>,
                    !.distance = [v \in Draws |-> IF v = 0 THEN 1 ELSE 0]]
    /\ UNCHANGED program

\* The neighbours that are new, in any order: that of an unordered_set.
VisitFront ==
    /\ drawn.phase = "search" /\ drawn.queue # <<>>
    /\ LET n == Head(drawn.queue)
           new == {c \in Draws : drawn.distance[c] = 0 /\ Sorted(n, c) \in drawn.edges}
       IN  \E order \in SetToSeqs(new) :
            drawn' = [drawn EXCEPT !.queue = Tail(@) \o order,
                        !.distance = [c \in Draws |-> IF c \in new THEN @[n] + 1 ELSE @[c]]]
    /\ UNCHANGED program

\* Mutant: the edges keep the direction they were drawn with.
DirectedAsDrawn(e) == e

\* From the nearer node to the other one, from the lower number if both are as near.
Directed(e) == IF drawn.distance[e[2]] < drawn.distance[e[1]] THEN <<e[2], e[1]>> ELSE e

WriteGraph ==
    /\ drawn.phase = "search" /\ drawn.queue = <<>>
    /\ drawn' = [drawn EXCEPT !.phase = "written", !.written = FileOf({Directed(e) : e \in drawn.edges})]
    /\ UNCHANGED program

-----------------------------------------------------------------------------
(* Components.                                                             *)

NextPart ==
    /\ program.kind = "components" /\ EdgesComplete /\ drawn.part < Len(program.parts)
    /\ \E first \in 0 .. program.parts[drawn.part + 1].nodes - 1 :
        drawn' = BeginPart(drawn.part + 1, first, drawn.all \cup drawn.edges)
    /\ UNCHANGED program

\* The nodes get numbers at random; the edges are shuffled, too, and are a set here.
WriteEdges ==
    /\ program.kind = "components" /\ EdgesComplete /\ drawn.part = Len(program.parts)
    /\ \E nodes \in SetToSeqs(0 .. total_nodes - 1) :
        drawn' = [drawn EXCEPT !.phase = "written",
            !.written = {<<nodes[e[1] + 1], nodes[e[2] + 1]>> : e \in drawn.all \cup drawn.edges}]
    /\ UNCHANGED program

Written == drawn.phase = "written" /\ UNCHANGED generatorVars

GeneratorNext ==
    \/ Walk \/ AddEdge \/ WriteTree \/ BeginSearch \/ VisitFront \/ WriteGraph \/ NextPart \/ WriteEdges
    \/ Written

-----------------------------------------------------------------------------
(* The operations on a hash map.                                           *)

Op(kind, key) == [kind |-> kind, value |-> key]

InstanceInit ==
    /\ benchmark \in Benchmarks
    /\ keys_in_map \in [1 .. benchmark.elements -> KeyDraws]
    /\ setup = <<>> /\ queries = <<>> /\ i = 0

\* The insertions, in any order.
Setup ==
    /\ setup = <<>>
    /\ \E order \in SetToSeqs(DOMAIN keys_in_map) :
        setup' = [k \in DOMAIN order |-> Op("Insert", keys_in_map[order[k]])]
    /\ UNCHANGED <<benchmark, keys_in_map, queries, i>>

\* The key of a query.
Keys(successful) == IF successful THEN {keys_in_map[k] : k \in DOMAIN keys_in_map} ELSE FailDraws

QueryOne(successful, key) ==
    /\ i < benchmark.queries
    /\ FALSE \in benchmark.modify \/ i + 1 = benchmark.queries
    /\ queries' = Append(queries, Op("Find", key))
    /\ i' = i + 1

\* Two operations that leave the map as it was.
QueryTwo(successful, key) ==
    /\ i + 1 < benchmark.queries /\ TRUE \in benchmark.modify
    /\ queries' = queries \o (IF successful THEN <<Op("Erase", key), Op("Insert", key)>>
                                            ELSE <<Op("Insert", key), Op("Erase", key)>>)
    /\ i' = i + 2

Query ==
    /\ setup # <<>>
    /\ \E successful \in benchmark.success : \E key \in Keys(successful) :
        QueryOne(successful, key) \/ QueryTwo(successful, key)
    /\ UNCHANGED <<benchmark, keys_in_map, setup>>

Generated == i = benchmark.queries /\ UNCHANGED instanceVars

InstanceNext == Setup \/ Query \/ Generated

-----------------------------------------------------------------------------
\* The connected components of the nodes 0 .. total_nodes - 1.
ComponentsOf(edges) ==
    LET near == [v \in 0 .. total_nodes - 1 |->
                    {v} \cup {w \in 0 .. total_nodes - 1 : <<v, w>> \in edges \/ <<w, v>> \in edges}]
    IN  {ReachableFrom(near, v) : v \in DOMAIN near}

\* What is written meets what its readers take for granted: a tree rooted at 0, a graph
\* without cycles below 0, each as TreeTask and DAGTask read it, or as many components
\* as were asked for, without loops and with no edge twice.
FilesFit ==
    drawn.phase = "written" =>
        CASE program.kind = "tree" -> IsTree(drawn.written) /\ TreeReadRight(drawn.written)
          [] program.kind = "graph" ->
                /\ IsTaskGraph([v \in Draws |-> Children(drawn.written, v)], 0)
                /\ GraphReadRight(drawn.written)
          [] program.kind = "components" ->
                /\ Cardinality(ComponentsOf(drawn.written)) = Len(program.parts)
                /\ \A e \in drawn.written : e[1] # e[2] /\ <<e[2], e[1]>> \notin drawn.written

\* The keys in a map after some operations, one after the other.
After(ops) ==
    FoldLeft(LAMBDA s, op : CASE op.kind = "Insert" -> s \cup {op.value}
                              [] op.kind = "Erase" -> s \ {op.value}
                              [] op.kind = "Find" -> s, {}, ops)
Before(k) == After(setup \o SubSeq(queries, 1, k - 1))

\* Called in this order, a query is successful just as its key says, every insertion
\* and erasure has something to do, the map is left as it was set up, and there are
\* never more queries than were asked for.
QueriesFit ==
    /\ Len(queries) = i /\ i <= benchmark.queries
    /\ \A k \in DOMAIN queries :
        CASE queries[k].kind = "Find" -> queries[k].value \in Before(k) <=> queries[k].value >= 0
          [] queries[k].kind = "Insert" -> queries[k].value \notin Before(k)
          [] queries[k].kind = "Erase" -> queries[k].value \in Before(k)
    /\ After(setup \o queries) = After(setup)
=============================================================================

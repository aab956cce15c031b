---------------------------- MODULE MCDAGSolver ----------------------------
(* Graphs of four nodes: the depth-first ones, the wide ones, and the ones    *)
(* in which a node has two or three parents, which its claim must wait for.   *)
EXTENDS DAGSolver, TLC

CONSTANTS t1, t2, t3, done

ThreeThreads == {t1, t2, t3}
FourNodes == 0 .. 3

Graph(edges) == [v \in FourNodes |-> {e[2] : e \in {f \in edges : f[1] = v}}]

Chain == {<<0, 1>>, <<1, 2>>, <<2, 3>>}
Star == {<<0, 1>>, <<0, 2>>, <<0, 3>>}
Broom == Star \cup {<<2, 3>>}
Diamond == {<<0, 1>>, <<0, 2>>, <<1, 3>>, <<2, 3>>}
DiamondWithShortcut == Diamond \cup {<<0, 3>>}
Triangle == {<<0, 1>>, <<0, 2>>, <<1, 2>>, <<2, 3>>}
Complete == Chain \cup Diamond \cup Star
SevenGraphs ==
    {Graph(e) : e \in {Chain, Star, Broom, Diamond, DiamondWithShortcut, Triangle, Complete}}
=============================================================================

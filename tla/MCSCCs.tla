------------------------------- MODULE MCSCCs -------------------------------
(* SCCs on every graph of three nodes, and on some of four. *)
EXTENDS SCCs, Graphs

Three == [1..3 -> SUBSET (1..3)]

\* Two cycles that share a node, two cycles in a row, a chord into a cycle.
Four == { <<{2, 3}, {1}, {4}, {1}>>, <<{2}, {1, 3}, {4}, {3}>>,
          <<{2, 4}, {3}, {2}, {3}>>, <<{2, 3}, {4}, {4}, {}>> }

MCGraphs == Three \cup Four
MCInputs == { <<1, 2, 3>>, <<3>>, <<4, 1>>, <<>> }

\* Reach is the transitive closure of the edges.
ASSUME ReachAgrees ==
    \A graph \in MCGraphs :
        LET nodes     == DOMAIN graph
            connected == ConnectionsIn([node |-> nodes, edge |->
                            {e \in nodes \X nodes : e[2] \in graph[e[1]]}])
        IN  \A n \in nodes : Reach(graph, n) = {m \in nodes : connected[n, m]}
=============================================================================

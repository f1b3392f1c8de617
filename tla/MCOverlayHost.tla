--------------------------- MODULE MCOverlayHost ---------------------------
(***************************************************************************)
(* An instance of OverlayHost for TLC: every dependency graph over three   *)
(* overlays with up to three edges (chains, forks, cycles of two and of    *)
(* three), the graph with every edge, and a few where an overlay depends   *)
(* on itself or on one that is disabled.                                   *)
(***************************************************************************)
EXTENDS OverlayHost

Three == 1 .. 3

Edges(g) == {e \in Three \X Three : e[2] \in g[e[1]]}

Graphs ==
    {g \in [Three -> SUBSET Three] : (\A o \in Three : o \notin g[o]) /\ Cardinality(Edges(g)) <= 3}
    \cup {[o \in Three |-> Three \ {o}]}

HostConfigs ==
    [deps : Graphs, enabled : {Three}]
    \cup [deps : {<<{1, 2}, {3}, {1}>>, <<{2}, {2}, {1, 2, 3}>>}, enabled : {Three}]
    \cup [deps : {<<{2}, {3}, {}>>, <<{}, {1}, {2}>>}, enabled : {{1, 3}}]
=============================================================================

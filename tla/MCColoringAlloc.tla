--------------------------- MODULE MCColoringAlloc ---------------------------
(* All small interference and move graphs, for ColoringAlloc. *)
EXTENDS ColoringAlloc

\* Every way to make each pair of some nodes interfere, move-related or
\* neither.  There is always a move between machine registers.
Related(f, x, kind) == {y \in Node \ {x} : {x, y} \in DOMAIN f /\ f[{x, y}] = kind}
GraphsOn(nodes) ==
  LET pairs2 == {e \in SUBSET nodes : Cardinality(e) = 2 /\ ~(e \subseteq Machine)}
  IN  {[adj |-> [x \in Node |-> Related(f, x, "interfere")],
        mov |-> [x \in Node |-> Related(f, x, "move")
                                  \cup (IF x \in Machine THEN Machine \ {x} ELSE {})],
        occur |-> nodes \cap Pseudo] :
         f \in [pairs2 -> {"interfere", "move", "none"}]}

\* A temporary of spill code occurs in one instruction next to its load or
\* store: at most one move, and fewer than K temporaries and machine
\* registers live with it.
IsSpillGraph(g) ==
  \A x \in Spilling : /\ Cardinality(g.mov[x]) <= 1
                      /\ Cardinality(g.adj[x] \cap (Spilling \cup Machine)) < K

\* The names of pseudo registers do not matter: the graphs in which the later
\* of two that are alike has as many neighbours or more stand for all.
Ordered(g) == \A x, y \in g.occur : x < y /\ (x \in Spilling <=> y \in Spilling) =>
                                    Cardinality(g.adj[x]) <= Cardinality(g.adj[y])

\* Both machine registers and every register of the program; or one of them,
\* two registers of the program and the temporaries.
SmallGraphs == {g \in GraphsOn(Machine \cup (Pseudo \ Spilling)) : Ordered(g)}
               \cup {g \in GraphsOn({0, 2, 3} \cup Spilling) : Ordered(g) /\ IsSpillGraph(g)}
=============================================================================

---------------------------- MODULE ColoringAlloc ----------------------------
(* One run of the graph-colouring register allocator                       *)
(* (src/src/backend/armv7/coloring_alloc.cpp, ColoringAllocator::run; the  *)
(* rv32 back end has the same text): simplify, coalesce, freeze and spill  *)
(* until no pseudo register is left, then select.  Nodes are registers;    *)
(* the machine's are below RegCount and keep themselves as colour.  The    *)
(* run starts from the interference and move graphs that build() makes.    *)
EXTENDS Integers, FiniteSets, Sequences

CONSTANTS Machine,      \* the allocable machine registers that occur
          Pseudo,       \* the pseudo registers
          Allocable,    \* every allocable machine register: the colours
          Spilling,     \* Func::spilling_reg, temporaries of spill code
          Graphs        \* the graphs [adj, mov, occur] to start from

ASSUME NodeAssumption ==
  /\ Machine \subseteq Allocable /\ Allocable \subseteq Nat /\ Pseudo \subseteq Nat
  /\ Allocable \cap Pseudo = {} /\ Spilling \subseteq Pseudo
ASSUME FiniteAssumption == IsFiniteSet(Allocable) /\ IsFiniteSet(Pseudo)

Node == Machine \cup Pseudo
\* What build() makes: both ends of an edge know it, no register interferes
\* with itself, and only registers that occur have edges.
IsGraph(g) ==
  /\ g.occur \subseteq Pseudo
  /\ g.adj \in [Node -> SUBSET (g.occur \cup Machine)]
  /\ g.mov \in [Node -> SUBSET (g.occur \cup Machine)]
  /\ \A x, y \in Node : /\ x \in g.adj[y] => y \in g.adj[x]
                        /\ x \in g.mov[y] => y \in g.mov[x]
                        /\ x \notin g.adj[x]
ASSUME GraphAssumption == \A g \in Graphs : IsGraph(g)
K == Cardinality(Allocable)         \* ALLOCABLE_REGISTER_COUNT
None == -1

VARIABLES
  graph,     \* the graphs build() made, and the pseudo registers that occur
  adj,       \* interfere_edge: [Node -> SUBSET Node]
  mov,       \* move_edge: [Node -> SUBSET Node]
  remain,    \* remain_pesudo_nodes
  root,      \* get_root: [Node -> Node]
  history,   \* simplify_history, a sequence of [node, nbrs]
  spilled,   \* spill_list
  pairs,     \* the pairs coalesce() has still to look at
  merged,    \* coalesce() has merged something
  colour,    \* ans: [Node -> Allocable or None]
  phase

vars == <<graph, adj, mov, remain, root, history, spilled, pairs, merged, colour, phase>>

Phase == {"prune", "simplify", "coalesce", "freeze", "select", "done", "retry"}

Degree(x) == Cardinality(adj[x])
\* Mutants of Low: one neighbour too many, one too few.
LowLax(x) == Degree(x) <= K
LowStrict(x) == Degree(x) < K - 1
Low(x) == Degree(x) < K

Init ==
  /\ graph \in Graphs
  /\ adj = graph.adj /\ mov = graph.mov
  /\ remain = graph.occur
  /\ root = [x \in Node |-> x]
  /\ history = <<>>
  /\ spilled = {} /\ pairs = {} /\ merged = FALSE
  /\ colour = [x \in Node |-> IF x \in Machine THEN x ELSE None]
  /\ phase = "prune"

-----------------------------------------------------------------------------
(* simplify() *)

\* A move between registers that interfere, or between machine registers,
\* will never be coalesced.
Prune ==
  /\ phase = "prune"
  /\ mov' = [x \in Node |->
               mov[x] \ (adj[x] \cup (IF x \in Machine THEN Machine ELSE {}))]
  /\ phase' = "simplify"
  /\ UNCHANGED <<graph, adj, remain, root, history, spilled, pairs, merged, colour>>

Simplifiable(x) == x \in remain /\ mov[x] = {} /\ Low(x)

\* A mutant: the neighbours keep the edge.
SimplifyKeepsEdges(x) ==
  /\ phase = "simplify"
  /\ Simplifiable(x)
  /\ history' = Append(history, [node |-> x, nbrs |-> adj[x]])
  /\ adj' = [adj EXCEPT ![x] = {}]
  /\ remain' = remain \ {x}
  /\ UNCHANGED <<graph, mov, root, spilled, pairs, merged, colour, phase>>

\* The queue holds the simplifiable nodes; its order is left open.
Simplify(x) ==
  /\ phase = "simplify"
  /\ Simplifiable(x)
  /\ history' = Append(history, [node |-> x, nbrs |-> adj[x]])
  /\ adj' = [y \in Node |-> IF y = x THEN {} ELSE adj[y] \ {x}]
  /\ remain' = remain \ {x}
  /\ UNCHANGED <<graph, mov, root, spilled, pairs, merged, colour, phase>>

\* The queue is empty.  run() stops when no pseudo register is left, and goes
\* on to coalesce() otherwise.
Simplified ==
  /\ phase = "simplify"
  /\ \A x \in remain : ~Simplifiable(x)
  /\ IF remain = {}
     THEN /\ phase' = IF spilled = {} THEN "select" ELSE "retry"
          /\ UNCHANGED <<pairs, merged>>
     ELSE /\ phase' = "coalesce"
          /\ pairs' = {p \in Node \X Node :
                         p[1] \in remain \cup Machine /\ p[2] \in mov[p[1]] /\ p[2] < p[1]}
          /\ merged' = FALSE
  /\ UNCHANGED <<graph, adj, mov, remain, root, history, spilled, colour>>

-----------------------------------------------------------------------------
(* coalesce() *)

\* Briggs: the merged node has fewer than K neighbours of significant degree.
\* A common neighbour loses one edge in the merge.
Significant(u, v) ==
  {x \in (adj[u] \cup adj[v]) \ {u, v} :
     IF x \in adj[u] \cap adj[v] THEN Degree(x) > K ELSE Degree(x) >= K}
ConservativeCheckLax(u, v) == Cardinality(Significant(u, v)) <= K   \* a mutant
ConservativeCheck(u, v) == Cardinality(Significant(u, v)) < K

\* A mutant: the neighbours of u do not hear of v.
MergeOneWay(u, v) ==
  /\ remain' = remain \ {u}
  /\ root' = [x \in Node |-> IF root[x] = u THEN v ELSE root[x]]
  /\ adj' = [x \in Node |-> IF x = u THEN {}
                            ELSE IF x = v THEN adj[v] \cup adj[u]
                            ELSE adj[x] \ {u}]
  /\ mov' = [x \in Node |-> IF x = u THEN {} ELSE mov[x] \ {u}]

Merge(u, v) ==    \* u disappears into v
  /\ remain' = remain \ {u}
  /\ root' = [x \in Node |-> IF root[x] = u THEN v ELSE root[x]]
  /\ adj' = [x \in Node |->
               IF x = u THEN {}
               ELSE IF x = v THEN adj[v] \cup adj[u]
               ELSE IF x \in adj[u] THEN (adj[x] \ {u}) \cup {v} ELSE adj[x]]
  /\ mov' = [x \in Node |->
               IF x = u THEN {}
               ELSE IF x = v THEN (mov[v] \cup mov[u]) \ {u, v}
               ELSE IF x \in mov[u] THEN (mov[x] \ {u}) \cup {v} ELSE mov[x]]

\* A mutant: the pairs were not interfering when the list was made.
CoalesceStale(pair) ==
  LET a == root[pair[1]]
      b == root[pair[2]]
      u == IF a \in Machine THEN b ELSE a
      v == IF a \in Machine THEN a ELSE b
  IN  /\ phase = "coalesce"
      /\ pair \in pairs
      /\ pairs' = pairs \ {pair}
      /\ IF a # b /\ ~(a \in Machine /\ b \in Machine) /\ ConservativeCheck(a, b)
         THEN Merge(u, v) /\ merged' = TRUE
         ELSE /\ merged' = (merged \/ a = b)
              /\ UNCHANGED <<adj, mov, remain, root>>
      /\ UNCHANGED <<graph, history, spilled, colour, phase>>

\* The pairs are taken by decreasing weight; weights are not modelled, so in
\* any order.
Coalesce(pair) ==
  LET a == root[pair[1]]
      b == root[pair[2]]
      u == IF a \in Machine THEN b ELSE a
      v == IF a \in Machine THEN a ELSE b
  IN  /\ phase = "coalesce"
      /\ pair \in pairs
      /\ pairs' = pairs \ {pair}
      /\ IF /\ a # b
            /\ ~(a \in Machine /\ b \in Machine)
            /\ b \notin adj[a]
            /\ ConservativeCheck(a, b)
         THEN Merge(u, v) /\ merged' = TRUE
         ELSE /\ merged' = (merged \/ a = b)
              /\ UNCHANGED <<adj, mov, remain, root>>
      /\ UNCHANGED <<graph, history, spilled, colour, phase>>

\* A mutant: simplify again even when nothing was merged.
CoalescedAgain ==
  /\ phase = "coalesce"
  /\ pairs = {}
  /\ phase' = "prune"
  /\ UNCHANGED <<graph, adj, mov, remain, root, history, spilled, pairs, merged, colour>>

Coalesced ==
  /\ phase = "coalesce"
  /\ pairs = {}
  /\ phase' = IF merged THEN "prune" ELSE "freeze"
  /\ UNCHANGED <<graph, adj, mov, remain, root, history, spilled, pairs, merged, colour>>

-----------------------------------------------------------------------------
(* freeze() and spill() *)

\* Give up the moves of a low-degree node, one of largest degree.
Freeze(x) ==
  /\ phase = "freeze"
  /\ x \in remain /\ Low(x)
  /\ \A y \in remain : Low(y) => Degree(y) <= Degree(x)
  /\ mov' = [y \in Node |-> IF y = x THEN {} ELSE mov[y] \ {x}]
  /\ phase' = "prune"
  /\ UNCHANGED <<graph, adj, remain, root, history, spilled, pairs, merged, colour>>

\* The heuristic cost is not modelled: any register that is not itself a
\* temporary of spill code.
Spill(x) ==
  /\ phase = "freeze"
  /\ \A y \in remain : ~Low(y)
  /\ x \in remain \ Spilling
  /\ remain' = remain \ {x}
  /\ adj' = [y \in Node |-> IF y = x THEN {} ELSE adj[y] \ {x}]
  /\ mov' = [y \in Node |-> IF y = x THEN {} ELSE mov[y] \ {x}]
  /\ spilled' = spilled \cup {x}
  /\ phase' = "prune"
  /\ UNCHANGED <<graph, root, history, pairs, merged, colour>>

-----------------------------------------------------------------------------
(* Selection, the second half of run() *)

Taken(entry) == {colour[root[y]] : y \in entry.nbrs}

\* Nodes are coloured in the reverse of the order they were removed in.  The
\* score that prefers one free colour to another is not modelled.
Select(c) ==
  /\ phase = "select"
  /\ history # <<>>
  /\ LET entry == history[Len(history)] IN
       /\ c \in Allocable \ Taken(entry)
       /\ colour' = [colour EXCEPT ![entry.node] = c]
  /\ history' = SubSeq(history, 1, Len(history) - 1)
  /\ UNCHANGED <<graph, adj, mov, remain, root, spilled, pairs, merged, phase>>

\* Merged registers get the colour of the node they were merged into.
Finish ==
  /\ phase = "select"
  /\ history = <<>>
  /\ colour' = [x \in Node |-> colour[root[x]]]
  /\ phase' = "done"
  /\ UNCHANGED <<graph, adj, mov, remain, root, history, spilled, pairs, merged>>

\* With anything spilled, run() adds spill code and reg_allocate starts over.
Stopped == phase \in {"done", "retry"} /\ UNCHANGED vars

Step == \/ Prune \/ Simplified \/ Coalesced \/ Finish
        \/ \E x \in Pseudo : Simplify(x) \/ Freeze(x) \/ Spill(x)
        \/ \E pair \in pairs : Coalesce(pair)
        \/ \E c \in Allocable : Select(c)

Next == Step \/ Stopped

Spec == Init /\ [][Next]_vars

FairSpec == Spec /\ WF_vars(Step)

-----------------------------------------------------------------------------
TypeOK ==
  /\ remain \subseteq Pseudo
  /\ adj \in [Node -> SUBSET (remain \cup Machine)]
  /\ mov \in [Node -> SUBSET (remain \cup Machine)]
  /\ root \in [Node -> Node]
  /\ history \in Seq([node : Pseudo, nbrs : SUBSET Node])
  /\ spilled \subseteq Pseudo
  /\ pairs \subseteq Node \X Node
  /\ merged \in BOOLEAN
  /\ colour \in [Node -> Allocable \cup {None}]
  /\ phase \in Phase

\* Registers that are live together end up in different machine registers,
\* the machine's own in themselves.
ProperColouring ==
  phase = "done" =>
    /\ \A x \in Node : \A y \in graph.adj[x] : colour[x] # colour[y]
    /\ \A x \in graph.occur : colour[x] \in Allocable
    /\ \A x \in Machine : colour[x] = x

\* The select loop indexes flag[] by the colour of every neighbour's root and
\* takes a colour that is not flagged: the neighbours have been coloured and
\* left one.
CanSelect ==
  phase = "select" /\ history # <<>> =>
    LET entry == history[Len(history)] IN
      /\ None \notin Taken(entry)
      /\ Allocable \ Taken(entry) # {}
      /\ colour[entry.node] = None /\ root[entry.node] = entry.node

\* assert(spill_node != -1): there is always something left to spill.
CanSpill ==
  phase = "freeze" /\ (\A y \in remain : ~Low(y)) => remain \ Spilling # {}

\* Both ends of an edge know it, whatever was merged or removed.
GraphsSymmetric ==
  \A x, y \in Node : /\ x \in adj[y] <=> y \in adj[x]
                     /\ x \notin adj[x]
                     /\ x \in mov[y] <=> y \in mov[x]

\* Coalescing never costs a spill (the point of conservative_check,
\* coloring_alloc.cpp:285-301): a graph that simplification alone could take
\* apart is allocated without one.  It holds where no machine register
\* interferes or is moved: the check counts a precoloured neighbour of low
\* degree as if it could be simplified.
NoMachine == \A x \in Machine : graph.adj[x] = {} /\ graph.mov[x] \subseteq Machine
Degenerate ==
  \A S \in SUBSET graph.occur :
    S # {} => \E x \in S : Cardinality(graph.adj[x] \cap S) < K
NoNeedlessSpill == NoMachine /\ Degenerate => spilled = {}

\* A run always ends.
Terminates == <>(phase \in {"done", "retry"})

-----------------------------------------------------------------------------
(* Why the colouring is proper.  A register is in the graph (Live), spilled,  *)
(* coloured, or waits in history; each stands for itself and for those merged *)
(* into it.                                                                   *)
Live == remain \cup Machine
Coloured == {x \in Node : colour[x] # None}
RootInv == /\ \A x \in Node : root[root[x]] = root[x]
           /\ \A x \in Live : root[x] = x
\* Entry i of history: not coloured yet, and its neighbours will be when its
\* turn comes.
Waits(x, i) == \E j \in DOMAIN history : i < j /\ history[j].node = x
HistoryInv ==
  \A i \in DOMAIN history :
    /\ history[i].node \notin remain
    /\ root[history[i].node] = history[i].node
    /\ colour[history[i].node] = None
    /\ \A j \in DOMAIN history : history[i].node = history[j].node => i = j
    /\ Cardinality(history[i].nbrs) < K
    /\ \A z \in history[i].nbrs : root[z] \in Live \cup spilled \cup Coloured \/ Waits(root[z], i)
ColourInv == /\ \A x \in Machine : colour[x] = x
             /\ \A x \in remain : colour[x] = None /\ x \notin spilled
             /\ \A x \in graph.occur : root[x] \in Live \cup spilled \cup Coloured \/ Waits(root[x], 0)
             /\ phase = "select" => remain = {} /\ spilled = {}
PairInv == phase = "coalesce" => \A p \in pairs : root[p[1]] \in Live /\ root[p[2]] \in Live
\* Where an edge of the first graph is: still in the graph, without effect
\* because an end is spilled, remembered by the end that was removed first, or
\* respected by the colours.
Recorded(a, b) == \E i \in DOMAIN history : history[i].node = a /\ \E z \in history[i].nbrs : root[z] = b
Covered(a, b) == \/ b \in adj[a]
                 \/ a \in spilled \/ b \in spilled
                 \/ Recorded(a, b) \/ Recorded(b, a)
                 \/ colour[a] # None /\ colour[b] # None /\ colour[a] # colour[b]
EdgeInv == \A x \in Node : \A y \in graph.adj[x] : root[x] # root[y] /\ Covered(root[x], root[y])
Running == RootInv /\ HistoryInv /\ ColourInv /\ PairInv /\ EdgeInv
\* The inductive invariant: no edge of build()'s graph is ever lost.
IInv == TypeOK /\ IsGraph(graph) /\ GraphsSymmetric /\ (phase # "done" => Running) /\ ProperColouring
=============================================================================

------------------------ MODULE ColoringAlloc_proofs -------------------------
(* Machine-checked proofs about ColoringAlloc, for every interference graph, *)
(* any number of registers and colours, and every order of its choices.      *)
EXTENDS ColoringAlloc, FiniteSetTheorems, SequenceTheorems, TLAPS

\* Machine and pseudo registers are different, and None is no register.
LEMMA Registers == /\ Machine \cap Pseudo = {} /\ Machine \subseteq Allocable
                   /\ Allocable \subseteq Nat /\ Node \subseteq Nat
                   /\ Machine \subseteq Node /\ Pseudo \subseteq Node
                   /\ None \notin Allocable
BY NodeAssumption DEF Node, None

LEMMA Finite == IsFiniteSet(Node) /\ IsFiniteSet(Allocable) /\ K \in Nat
<1>1. IsFiniteSet(Machine)
  BY NodeAssumption, FiniteAssumption, FS_Subset
<1>2. IsFiniteSet(Node)
  BY <1>1, FiniteAssumption, FS_Union DEF Node
<1>3. K \in Nat
  BY FiniteAssumption, FS_CardinalityType DEF K
<1>4. QED
  BY <1>2, <1>3, FiniteAssumption

LEMMA IInvInit == Init => IInv
<1> SUFFICES ASSUME Init PROVE IInv
  OBVIOUS
<1> USE Registers
<1>1. IsGraph(graph)
  BY GraphAssumption DEF Init
<1>2. TypeOK
  <2>1. history \in Seq([node : Pseudo, nbrs : SUBSET Node])
    BY DEF Init
  <2>2. /\ remain \subseteq Pseudo
        /\ adj \in [Node -> SUBSET (remain \cup Machine)]
        /\ mov \in [Node -> SUBSET (remain \cup Machine)]
        /\ root \in [Node -> Node]
    BY <1>1 DEF Init, IsGraph
  <2>3. colour \in [Node -> Allocable \cup {None}]
    BY DEF Init
  <2>4. QED
    BY <2>1, <2>2, <2>3 DEF Init, TypeOK, Phase
<1>3. GraphsSymmetric
  BY <1>1 DEF Init, IsGraph, GraphsSymmetric
<1>4. RootInv /\ HistoryInv /\ PairInv
  BY <1>1 DEF Init, IsGraph, RootInv, HistoryInv, PairInv, Live, Node
<1>5. ColourInv
  BY <1>1 DEF Init, IsGraph, ColourInv, Live, Node
<1>6. EdgeInv
  BY <1>1, <1>3 DEF Init, IsGraph, EdgeInv, Covered, GraphsSymmetric, Node
<1>7. ProperColouring
  BY DEF Init, ProperColouring
<1>8. QED
  BY <1>1, <1>2, <1>3, <1>4, <1>5, <1>6, <1>7 DEF IInv, Running

-----------------------------------------------------------------------------
(* Steps that change no edge. *)

LEMMA PruneStep == IInv /\ Prune => IInv'
<1> SUFFICES ASSUME IInv, Prune PROVE IInv'
  OBVIOUS
<1> USE Registers
<1>1. TypeOK /\ IsGraph(graph) /\ GraphsSymmetric /\ Running /\ phase' = "simplify"
  BY DEF IInv, Prune
<1>2. TypeOK'
  BY <1>1 DEF Prune, TypeOK, Phase
<1>3. GraphsSymmetric'
  BY <1>1 DEF Prune, TypeOK, GraphsSymmetric, Node
<1>4. Running'
  BY <1>1 DEF Prune, Running, RootInv, HistoryInv, ColourInv, PairInv, EdgeInv, Live, Coloured, Waits, Covered, Recorded, None, Node
<1>5. QED
  BY <1>1, <1>2, <1>3, <1>4 DEF IInv, ProperColouring, Prune, IsGraph

LEMMA CoalescedStep == IInv /\ Coalesced => IInv'
<1> SUFFICES ASSUME IInv, Coalesced PROVE IInv'
  OBVIOUS
<1>1. TypeOK /\ IsGraph(graph) /\ GraphsSymmetric /\ Running /\ phase' \in {"prune", "freeze"}
  BY DEF IInv, Coalesced
<1>2. TypeOK' /\ GraphsSymmetric'
  BY <1>1 DEF Coalesced, TypeOK, Phase, GraphsSymmetric
<1>3. Running'
  BY <1>1 DEF Coalesced, Running, RootInv, HistoryInv, ColourInv, PairInv, EdgeInv, Live, Coloured, Waits, Covered, Recorded
<1>4. QED
  BY <1>1, <1>2, <1>3 DEF IInv, ProperColouring, Coalesced, IsGraph

LEMMA FreezeStep == ASSUME NEW x, IInv, Freeze(x) PROVE IInv'
<1> USE Registers
<1>1. TypeOK /\ IsGraph(graph) /\ GraphsSymmetric /\ Running /\ phase' = "prune"
  BY DEF IInv, Freeze
<1>2. TypeOK'
  BY <1>1 DEF Freeze, TypeOK, Phase
<1>3. GraphsSymmetric'
  BY <1>1 DEF Freeze, TypeOK, GraphsSymmetric, Node
<1>4. Running'
  BY <1>1 DEF Freeze, Running, RootInv, HistoryInv, ColourInv, PairInv, EdgeInv, Live, Coloured, Waits, Covered, Recorded
<1>5. QED
  BY <1>1, <1>2, <1>3, <1>4 DEF IInv, ProperColouring, Freeze, IsGraph

LEMMA SimplifiedStep == IInv /\ Simplified => IInv'
<1> SUFFICES ASSUME IInv, Simplified PROVE IInv'
  OBVIOUS
<1> USE Registers
<1>1. TypeOK /\ IsGraph(graph) /\ GraphsSymmetric /\ Running
  BY DEF IInv, Simplified
<1>2. TypeOK'
  BY <1>1 DEF Simplified, TypeOK, Phase
<1>3. GraphsSymmetric'
  BY <1>1 DEF Simplified, GraphsSymmetric
<1>4. RootInv' /\ HistoryInv' /\ EdgeInv'
  BY <1>1 DEF Simplified, Running, RootInv, HistoryInv, EdgeInv, Live, Coloured, Waits, Covered, Recorded
<1>5. ColourInv'
  BY <1>1 DEF Simplified, Running, ColourInv, Live, Coloured, Waits
\* Both ends of a pair are in the graph, and stand for themselves.
<1>6. PairInv'
  <2> SUFFICES ASSUME phase' = "coalesce", NEW p \in pairs'
               PROVE  root[p[1]] \in Live /\ root[p[2]] \in Live
    BY <1>1 DEF Simplified, PairInv, Live
  <2>1. p \in Node \X Node /\ p[1] \in Live /\ p[2] \in mov[p[1]]
    BY DEF Simplified, Live
  <2>2. p[2] \in Live
    BY <1>1, <2>1 DEF TypeOK, Live
  <2>3. QED
    BY <1>1, <2>1, <2>2 DEF Running, RootInv
<1>7. QED
  BY <1>1, <1>2, <1>3, <1>4, <1>5, <1>6 DEF IInv, Running, ProperColouring, Simplified, IsGraph

-----------------------------------------------------------------------------
(* Steps that take a register out of the graph. *)

LEMMA SpillStep == ASSUME NEW x, IInv, Spill(x) PROVE IInv'
<1> USE Registers
<1>1. TypeOK /\ IsGraph(graph) /\ GraphsSymmetric /\ Running /\ phase' = "prune"
  BY DEF IInv, Spill
<1>2. x \in remain /\ x \in Pseudo /\ remain' = remain \ {x} /\ spilled' = spilled \cup {x}
      /\ root' = root /\ history' = history /\ colour' = colour /\ graph' = graph
      /\ adj' = [y \in Node |-> IF y = x THEN {} ELSE adj[y] \ {x}]
  BY <1>1 DEF Spill, TypeOK
<1>3. TypeOK'
  BY <1>1 DEF Spill, TypeOK, Phase, Node
<1>4. GraphsSymmetric'
  BY <1>1 DEF Spill, TypeOK, GraphsSymmetric, Node
<1>5. RootInv'
  BY <1>1, <1>2 DEF Running, RootInv, Live
<1>6. HistoryInv'
  BY <1>1, <1>2 DEF Running, HistoryInv, Live, Coloured, Waits
<1>7. ColourInv'
  BY <1>1, <1>2 DEF Running, ColourInv, Live, Coloured, Waits
<1>8. EdgeInv'
  <2> SUFFICES ASSUME NEW y \in Node, NEW z \in graph.adj[y]
               PROVE  root[y] # root[z] /\ Covered(root[y], root[z])'
    BY <1>2 DEF EdgeInv
  <2>1. root[y] # root[z] /\ Covered(root[y], root[z]) /\ root[y] \in Node
    BY <1>1 DEF Running, EdgeInv, TypeOK
  <2>2. Recorded(root[y], root[z])' = Recorded(root[y], root[z]) /\ Recorded(root[z], root[y])' = Recorded(root[z], root[y])
    BY <1>2 DEF Recorded
  <2>3. CASE x \in {root[y], root[z]}
    BY <1>2, <2>1, <2>3 DEF Covered
  <2>4. CASE x \notin {root[y], root[z]}
    BY <1>2, <2>1, <2>2, <2>4 DEF Covered
  <2>5. QED
    BY <2>3, <2>4
<1>9. PairInv'
  BY <1>1 DEF PairInv
<1>10. QED
  BY <1>1, <1>2, <1>3, <1>4, <1>5, <1>6, <1>7, <1>8, <1>9 DEF IInv, Running, ProperColouring, IsGraph

LEMMA SimplifyStep == ASSUME NEW x, IInv, Simplify(x) PROVE IInv'
<1> USE Registers
<1> DEFINE n == Len(history)
           e == [node |-> x, nbrs |-> adj[x]]
<1>1. TypeOK /\ IsGraph(graph) /\ GraphsSymmetric /\ Running /\ phase = "simplify"
  BY DEF IInv, Simplify
<1>2. /\ x \in remain /\ x \in Pseudo /\ Cardinality(adj[x]) < K
      /\ remain' = remain \ {x} /\ spilled' = spilled /\ root' = root /\ colour' = colour /\ graph' = graph
      /\ phase' = phase /\ mov' = mov /\ mov[x] = {}
      /\ adj' = [y \in Node |-> IF y = x THEN {} ELSE adj[y] \ {x}]
  BY <1>1 DEF Simplify, TypeOK, Simplifiable, Low, Degree
<1>3. e \in [node : Pseudo, nbrs : SUBSET Node]
  BY <1>1, <1>2 DEF TypeOK, Node
<1>4. /\ history' \in Seq([node : Pseudo, nbrs : SUBSET Node])
      /\ n \in Nat /\ DOMAIN history = 1 .. n /\ DOMAIN history' = 1 .. n + 1
      /\ \A i \in 1 .. n : history'[i] = history[i]
      /\ history'[n + 1] = e
  BY <1>1, <1>3, AppendProperties DEF Simplify, TypeOK
<1> HIDE DEF n
<1>5. TypeOK'
  BY <1>1, <1>2, <1>4 DEF Simplify, TypeOK, GraphsSymmetric, Node
<1>6. GraphsSymmetric'
  BY <1>1, <1>2 DEF TypeOK, GraphsSymmetric, Node
<1>7. RootInv'
  BY <1>1, <1>2 DEF Running, RootInv, Live
\* Who waited still waits, and x does now.
<1>8. \A y : \A i \in 0 .. n : Waits(y, i) \/ y = x => Waits(y, i)'
  BY <1>4 DEF Waits
<1>9. \A y, i : y \in Live \cup spilled \cup Coloured => (y \in Live \cup spilled \cup Coloured)' \/ y = x
  BY <1>2 DEF Live, Coloured
<1>10. HistoryInv'
  <2> SUFFICES ASSUME NEW i \in 1 .. n + 1
               PROVE  (/\ history[i].node \notin remain
                       /\ root[history[i].node] = history[i].node
                       /\ colour[history[i].node] = None
                       /\ \A j \in DOMAIN history : history[i].node = history[j].node => i = j
                       /\ Cardinality(history[i].nbrs) < K
                       /\ \A z \in history[i].nbrs : root[z] \in Live \cup spilled \cup Coloured \/ Waits(root[z], i))'
    BY <1>4 DEF HistoryInv
  <2>1. CASE i \in 1 .. n
    <3>1. history'[i] = history[i] /\ i \in DOMAIN history
      BY <1>4, <2>1
    <3>2. \A z \in history[i].nbrs : (root[z] \in Live \cup spilled \cup Coloured \/ Waits(root[z], i))'
      BY <1>1, <1>2, <1>8, <1>9, <2>1, <3>1 DEF Running, HistoryInv
    <3>3. history[i].node # x
      BY <1>1, <1>2, <3>1 DEF Running, HistoryInv
    <3>4. \A j \in 1 .. n + 1 : history'[i].node = history'[j].node => i = j
      BY <1>1, <1>4, <3>1, <3>3 DEF Running, HistoryInv
    <3>5. QED
      BY <1>1, <1>2, <1>4, <3>1, <3>2, <3>4 DEF Running, HistoryInv
  <2>2. CASE i = n + 1
    <3>1. history'[i] = e
      BY <1>4, <2>2
    <3>2. \A z \in adj[x] : z \in Live /\ z # x /\ root[z] = z
      BY <1>1, <1>2 DEF Running, RootInv, TypeOK, GraphsSymmetric, Live, Node
    <3>3. \A z \in adj[x] : root'[z] \in (Live \cup spilled \cup Coloured)'
      BY <1>2, <1>9, <3>2
    <3>4. \A j \in 1 .. n + 1 : history'[j].node = x => i = j
      <4>1. \A j \in 1 .. n : history'[j].node # x
        BY <1>1, <1>2, <1>4 DEF Running, HistoryInv
      <4>2. QED
        BY <1>4, <2>2, <4>1
    <3>5. root[x] = x /\ colour[x] = None
      BY <1>1, <1>2 DEF Running, RootInv, ColourInv, Live
    <3>6. QED
      BY <1>2, <1>4, <3>1, <3>3, <3>4, <3>5
  <2>3. QED
    BY <1>4, <2>1, <2>2
<1>11. ColourInv'
  BY <1>1, <1>2, <1>4, <1>8, <1>9 DEF Running, ColourInv
\* An edge of x is recorded in the new entry.
<1>12. EdgeInv'
  <2> SUFFICES ASSUME NEW y \in Node, NEW z \in graph.adj[y]
               PROVE  root[y] # root[z] /\ Covered(root[y], root[z])'
    BY <1>2 DEF EdgeInv
  <2>1. root[y] # root[z] /\ Covered(root[y], root[z]) /\ z \in Node
    BY <1>1 DEF Running, EdgeInv, IsGraph, Node
  <2>2. root[y] \in Node /\ root[z] \in Node /\ root[root[y]] = root[y] /\ root[root[z]] = root[z]
    BY <1>1, <2>1 DEF Running, RootInv, TypeOK
  <2>3. \A a, b : Recorded(a, b) => Recorded(a, b)'
    BY <1>2, <1>4 DEF Recorded
  <2>4. \A b \in adj[x] : root[b] = b => Recorded(x, b)'
    BY <1>2, <1>4 DEF Recorded
  <2>5. CASE root[z] \in adj[root[y]]
    <3>1. CASE root[y] = x
      BY <2>1, <2>2, <2>4, <2>5, <3>1, <1>2 DEF Covered
    <3>2. CASE root[z] = x
      BY <1>1, <2>1, <2>2, <2>4, <2>5, <3>2, <1>2 DEF Covered, GraphsSymmetric
    <3>3. CASE x \notin {root[y], root[z]}
      BY <1>2, <2>1, <2>2, <2>5, <3>3 DEF Covered
    <3>4. QED
      BY <3>1, <3>2, <3>3
  <2>6. CASE root[z] \notin adj[root[y]]
    BY <1>2, <2>1, <2>3, <2>6 DEF Covered
  <2>7. QED
    BY <2>5, <2>6
<1>13. PairInv'
  BY <1>1, <1>2 DEF PairInv
<1>14. QED
  BY <1>1, <1>2, <1>5, <1>6, <1>7, <1>10, <1>11, <1>12, <1>13 DEF IInv, Running, ProperColouring, IsGraph

\* u, a register of the program, disappears into v; they do not interfere.
LEMMA MergeStep ==
  ASSUME IInv, phase = "coalesce", NEW u \in remain, NEW v \in Live, u # v, v \notin adj[u], Merge(u, v),
         pairs' \subseteq pairs, merged' \in BOOLEAN, UNCHANGED <<graph, history, spilled, colour, phase>>
  PROVE  IInv'
<1> USE Registers
<1>1. TypeOK /\ IsGraph(graph) /\ GraphsSymmetric /\ Running
  BY DEF IInv
<1>2. /\ u \in Pseudo /\ u \in Live /\ root[u] = u /\ root[v] = v /\ u \notin Machine
      /\ remain' = remain \ {u} /\ Live' = Live \ {u} /\ v \in Live'
      /\ root' = [x \in Node |-> IF root[x] = u THEN v ELSE root[x]]
      /\ graph' = graph /\ history' = history /\ spilled' = spilled /\ colour' = colour
      /\ Coloured' = Coloured
  BY <1>1 DEF Merge, TypeOK, Running, RootInv, Live, Coloured
<1>3. Live \subseteq Node /\ u \in Node /\ v \in Node
  BY <1>1 DEF TypeOK, Live, Node
<1>4. /\ \A x \in Node : adj[x] \subseteq Live /\ mov[x] \subseteq Live
      /\ \A x, y \in Node : (x \in adj[y] <=> y \in adj[x]) /\ (x \in mov[y] <=> y \in mov[x]) /\ x \notin adj[x]
  BY <1>1 DEF TypeOK, GraphsSymmetric, Live
<1>5. adj' \in [Node -> SUBSET Live'] /\ mov' \in [Node -> SUBSET Live']
  <2>1. \A x \in Node : adj'[x] \subseteq Live'
    BY <1>2, <1>3, <1>4 DEF Merge
  <2>2. \A x \in Node : mov'[x] \subseteq Live'
    BY <1>2, <1>3, <1>4 DEF Merge
  <2>3. QED
    BY <2>1, <2>2 DEF Merge
<1>6. TypeOK'
  <2>1. root' \in [Node -> Node]
    BY <1>1, <1>2, <1>3 DEF TypeOK
  <2>2. QED
    BY <1>1, <1>2, <1>5, <2>1 DEF TypeOK, Phase, Live
<1>7. GraphsSymmetric'
  <2> SUFFICES ASSUME NEW x \in Node, NEW y \in Node
               PROVE  (x \in adj'[y] <=> y \in adj'[x]) /\ x \notin adj'[x] /\ (x \in mov'[y] <=> y \in mov'[x])
    BY DEF GraphsSymmetric
  <2>1. x \in adj'[y] <=> y \in adj'[x]
    BY <1>2, <1>3, <1>4 DEF Merge
  <2>2. x \notin adj'[x]
    BY <1>2, <1>3, <1>4 DEF Merge
  <2>3. x \in mov'[y] <=> y \in mov'[x]
    BY <1>2, <1>3, <1>4 DEF Merge
  <2>4. QED
    BY <2>1, <2>2, <2>3
<1>8. RootInv'
  BY <1>1, <1>2, <1>3 DEF Running, RootInv, TypeOK
\* Nobody that waits is merged, and what u stood for v stands for.
<1>9. \A i \in DOMAIN history : history[i].node \in Node \ Live /\ history[i].nbrs \subseteq Node
  <2> DEFINE E == [node : Pseudo, nbrs : SUBSET Node]
  <2>1. ASSUME NEW i \in DOMAIN history PROVE history[i] \in E
    <3>1. history \in Seq(E)
      BY <1>1 DEF TypeOK
    <3> HIDE DEF E
    <3>2. i \in 1 .. Len(history)
      BY <3>1
    <3>3. QED
      BY <3>1, <3>2, ElementOfSeq
  <2>2. QED
    BY <1>1, <2>1 DEF Running, HistoryInv, Live
<1>10. \A x \in Node : \A i : root[x] \in Live \cup spilled \cup Coloured \/ Waits(root[x], i)
                         => (root[x] \in Live \cup spilled \cup Coloured \/ Waits(root[x], i))'
  BY <1>2, <1>9 DEF Waits
<1>11. HistoryInv'
  <2> SUFFICES ASSUME NEW i \in DOMAIN history
               PROVE  (/\ history[i].node \notin remain
                       /\ root[history[i].node] = history[i].node
                       /\ colour[history[i].node] = None
                       /\ \A j \in DOMAIN history : history[i].node = history[j].node => i = j
                       /\ Cardinality(history[i].nbrs) < K
                       /\ \A z \in history[i].nbrs : root[z] \in Live \cup spilled \cup Coloured \/ Waits(root[z], i))'
    BY <1>2 DEF HistoryInv
  <2>1. \A z \in history[i].nbrs : (root[z] \in Live \cup spilled \cup Coloured \/ Waits(root[z], i))'
    BY <1>1, <1>9, <1>10 DEF Running, HistoryInv
  <2>2. root'[history[i].node] = history[i].node
    BY <1>1, <1>2, <1>9 DEF Running, HistoryInv
  <2>3. QED
    BY <1>1, <1>2, <2>1, <2>2 DEF Running, HistoryInv
<1>12. ColourInv'
  <2>1. \A x \in graph.occur : (root[x] \in Live \cup spilled \cup Coloured \/ Waits(root[x], 0))'
    BY <1>1, <1>10 DEF Running, ColourInv, IsGraph
  <2>2. QED
    BY <1>1, <1>2, <2>1 DEF Running, ColourInv
<1>13. PairInv'
  BY <1>1, <1>2 DEF Running, PairInv, TypeOK
\* An edge of u is now one of v.
<1>14. EdgeInv'
  <2> SUFFICES ASSUME NEW y \in Node, NEW z \in graph.adj[y]
               PROVE  root'[y] # root'[z] /\ Covered(root[y], root[z])'
    BY <1>2 DEF EdgeInv
  <2> DEFINE a == root[y]
             b == root[z]
  <2>1. a # b /\ Covered(a, b) /\ z \in Node /\ a \in Node /\ b \in Node
    BY <1>1 DEF Running, EdgeInv, IsGraph, TypeOK, Node
  <2>2. /\ root'[y] = IF a = u THEN v ELSE a
        /\ root'[z] = IF b = u THEN v ELSE b
    BY <1>2, <2>1
  <2>3. colour[u] = None /\ u \notin spilled /\ (v \in spilled => FALSE)
    BY <1>1, <1>2 DEF Running, ColourInv, TypeOK, Live
  <2>4. ASSUME NEW c, NEW d, Recorded(c, d)
        PROVE  c \notin Live /\ Recorded(c, IF d = u THEN v ELSE d)'
    BY <1>2, <1>9, <2>4 DEF Recorded
  <2> HIDE DEF a, b
  <2>5. CASE b \in adj[a]
    BY <1>2, <1>3, <1>4, <2>1, <2>2, <2>5 DEF Merge, Covered
  <2>6. CASE a \in spilled \/ b \in spilled
    BY <1>2, <2>1, <2>2, <2>3, <2>6 DEF Covered
  <2>7. CASE Recorded(a, b)
    BY <1>2, <2>1, <2>2, <2>4, <2>7 DEF Covered
  <2>8. CASE Recorded(b, a)
    BY <1>2, <2>1, <2>2, <2>4, <2>8 DEF Covered
  <2>9. CASE colour[a] # None /\ colour[b] # None /\ colour[a] # colour[b]
    BY <1>2, <2>2, <2>3, <2>9 DEF Covered
  <2>10. QED
    BY <2>1, <2>5, <2>6, <2>7, <2>8, <2>9 DEF Covered
<1>15. QED
  BY <1>1, <1>2, <1>6, <1>7, <1>8, <1>11, <1>12, <1>13, <1>14 DEF IInv, Running, ProperColouring, IsGraph

LEMMA CoalesceStep == ASSUME NEW pair \in pairs, IInv, Coalesce(pair) PROVE IInv'
<1> USE Registers
<1> DEFINE a == root[pair[1]]
           b == root[pair[2]]
           u == IF a \in Machine THEN b ELSE a
           v == IF a \in Machine THEN a ELSE b
<1>1. TypeOK /\ IsGraph(graph) /\ GraphsSymmetric /\ Running
  BY DEF IInv, Coalesce
<1>2. a \in Live /\ b \in Live /\ phase = "coalesce"
  BY <1>1 DEF Running, PairInv, Coalesce
<1>3. pairs' \subseteq pairs /\ merged' \in BOOLEAN /\ UNCHANGED <<graph, history, spilled, colour, phase>>
  BY <1>1 DEF Coalesce, TypeOK
<1>4. CASE a # b /\ ~(a \in Machine /\ b \in Machine) /\ b \notin adj[a] /\ ConservativeCheck(a, b)
  <2>1. u \in remain /\ v \in Live /\ u # v
    BY <1>2, <1>4 DEF Live
  <2>2. v \notin adj[u]
    BY <1>1, <1>2, <1>4 DEF GraphsSymmetric, TypeOK, Live, Node
  <2>3. Merge(u, v)
    BY <1>4 DEF Coalesce
  <2> HIDE DEF u, v
  <2>4. QED
    BY <1>2, <1>3, <2>1, <2>2, <2>3, MergeStep
<1>5. CASE ~(a # b /\ ~(a \in Machine /\ b \in Machine) /\ b \notin adj[a] /\ ConservativeCheck(a, b))
  <2>1. UNCHANGED <<adj, mov, remain, root>>
    BY <1>5 DEF Coalesce
  <2>2. TypeOK' /\ GraphsSymmetric'
    BY <1>1, <1>3, <2>1 DEF TypeOK, GraphsSymmetric
  <2>3. Running'
    BY <1>1, <1>3, <2>1 DEF Running, RootInv, HistoryInv, ColourInv, PairInv, EdgeInv, Live, Coloured, Waits, Covered, Recorded
  <2>4. QED
    BY <1>1, <1>2, <1>3, <2>2, <2>3 DEF IInv, ProperColouring, IsGraph
<1>6. QED
  BY <1>4, <1>5

-----------------------------------------------------------------------------
(* Selection. *)

\* An entry has fewer neighbours than there are colours: their roots cannot
\* have taken all of them.
LEMMA ColourLeft ==
  ASSUME TypeOK, NEW entry \in [node : Pseudo, nbrs : SUBSET Node], Cardinality(entry.nbrs) < K, None \notin Taken(entry)
  PROVE  Taken(entry) \subseteq Allocable /\ Allocable \ Taken(entry) # {}
<1> DEFINE S == entry.nbrs
           T == Taken(entry)
           f == [y \in S |-> colour[root[y]]]
<1>1. T \subseteq Allocable /\ T = {f[y] : y \in S}
  BY DEF Taken, TypeOK
<1>2. IsFiniteSet(S) /\ IsFiniteSet(T) /\ Cardinality(S) \in Nat /\ Cardinality(T) \in Nat
  BY <1>1, Finite, FS_Subset, FS_CardinalityType
<1>3. f \in Surjection(S, T)
  BY <1>1 DEF Surjection
<1>4. Cardinality(T) <= Cardinality(S)
  BY <1>2, <1>3, FS_Surjection
<1>5. ASSUME Allocable \ T = {} PROVE FALSE
  <2>1. T = Allocable
    BY <1>1, <1>5
  <2>2. QED
    BY <1>2, <1>4, <2>1, Finite DEF K
<1>6. QED
  BY <1>1, <1>5

\* The last entry's neighbours have their colours.
LEMMA LastEntry ==
  ASSUME IInv, phase = "select", history # <<>>, NEW entry, entry = history[Len(history)]
  PROVE  /\ Len(history) \in DOMAIN history /\ entry \in [node : Pseudo, nbrs : SUBSET Node]
         /\ Cardinality(entry.nbrs) < K
         /\ root[entry.node] = entry.node /\ colour[entry.node] = None
         /\ \A z \in entry.nbrs : root[z] \in Coloured
         /\ None \notin Taken(entry)
<1> USE Registers
<1>1. TypeOK /\ Running /\ remain = {} /\ spilled = {}
  BY DEF IInv, Running, ColourInv
<1> DEFINE E == [node : Pseudo, nbrs : SUBSET Node]
<1>2. history \in Seq(E)
  BY <1>1 DEF TypeOK
<1> HIDE DEF E
<1>3. Len(history) \in DOMAIN history /\ entry \in E
  BY <1>2, ElementOfSeq
<1>4. ~\E x : Waits(x, Len(history))
  BY <1>2 DEF Waits
<1>5. Machine \subseteq Coloured
  BY <1>1 DEF Running, ColourInv, Coloured, Node
<1>6. \A z \in entry.nbrs : root[z] \in Coloured
  BY <1>1, <1>3, <1>4, <1>5 DEF Running, HistoryInv, Live
<1>7. None \notin Taken(entry)
  BY <1>6 DEF Taken, Coloured
<1>8. QED
  BY <1>1, <1>3, <1>6, <1>7 DEF Running, HistoryInv, E

LEMMA SelectStep == ASSUME NEW c \in Allocable, IInv, Select(c) PROVE IInv'
<1> USE Registers
<1> DEFINE n == Len(history)
           entry == history[n]
           x == entry.node
           E == [node : Pseudo, nbrs : SUBSET Node]
<1>1. TypeOK /\ IsGraph(graph) /\ GraphsSymmetric /\ Running /\ phase = "select" /\ history # <<>>
  BY DEF IInv, Select
<1>2. remain = {} /\ spilled = {} /\ Live = Machine
  BY <1>1 DEF Running, ColourInv, Live
<1>3. /\ n \in DOMAIN history /\ entry \in E /\ root[x] = x /\ colour[x] = None
      /\ \A z \in entry.nbrs : root[z] \in Coloured
  BY <1>1, LastEntry
<1>4. /\ c \notin Taken(entry) /\ colour' = [colour EXCEPT ![x] = c] /\ c # None
      /\ UNCHANGED <<graph, adj, mov, remain, root, spilled, pairs, merged, phase>>
      /\ history' = SubSeq(history, 1, n - 1)
  BY DEF Select
<1>5. history \in Seq(E)
  BY <1>1 DEF TypeOK
<1>6. x \in Pseudo
  BY <1>3
<1> HIDE DEF E
<1>7. /\ history' \in Seq(E) /\ n \in Nat \ {0} /\ DOMAIN history = 1 .. n /\ DOMAIN history' = 1 .. n - 1
      /\ \A i \in 1 .. n - 1 : history'[i] = history[i]
  <2>1. n \in Nat \ {0} /\ DOMAIN history = 1 .. n
    BY <1>3, <1>5
  <2>2. \A i \in 1 .. n - 1 : history[i] \in E
    BY <1>5, <2>1, ElementOfSeq
  <2> HIDE DEF n
  <2>3. QED
    BY <1>4, <2>1, <2>2, SubSeqProperties
<1> HIDE DEF n, x, entry
<1>8. colour' \in [Node -> Allocable \cup {None}] /\ Coloured' = Coloured \cup {x}
  BY <1>1, <1>4, <1>6 DEF TypeOK, Coloured, Node
<1>9. TypeOK' /\ GraphsSymmetric'
  BY <1>1, <1>4, <1>7, <1>8 DEF TypeOK, GraphsSymmetric, E
<1>10. RootInv' /\ PairInv'
  BY <1>1, <1>4 DEF Running, RootInv, PairInv, Live
\* Who waited still waits or is x, who has a colour now.
<1>11. \A y : \A i \in 0 .. n : Waits(y, i) => Waits(y, i)' \/ y \in Coloured'
  BY <1>7, <1>8 DEF Waits, x, entry
<1>12. HistoryInv'
  <2> SUFFICES ASSUME NEW i \in 1 .. n - 1
               PROVE  (/\ history[i].node \notin remain
                       /\ root[history[i].node] = history[i].node
                       /\ colour[history[i].node] = None
                       /\ \A j \in DOMAIN history : history[i].node = history[j].node => i = j
                       /\ Cardinality(history[i].nbrs) < K
                       /\ \A z \in history[i].nbrs : root[z] \in Live \cup spilled \cup Coloured \/ Waits(root[z], i))'
    BY <1>7 DEF HistoryInv
  <2>1. history'[i] = history[i] /\ i \in DOMAIN history /\ i # n
    BY <1>7
  <2>2. history[i].node # x
    BY <1>1, <1>3, <2>1 DEF Running, HistoryInv, x, entry
  <2>3. \A z \in history[i].nbrs : (root[z] \in Live \cup spilled \cup Coloured \/ Waits(root[z], i))'
    BY <1>1, <1>4, <1>7, <1>8, <1>11, <2>1 DEF Running, HistoryInv, Live
  <2>4. \A j \in 1 .. n - 1 : history'[i].node = history'[j].node => i = j
    BY <1>1, <1>7, <2>1 DEF Running, HistoryInv
  <2>5. colour'[history[i].node] = None
    BY <1>1, <1>4, <2>1, <2>2 DEF Running, HistoryInv, TypeOK
  <2>6. QED
    BY <1>1, <1>4, <1>7, <2>1, <2>3, <2>4, <2>5 DEF Running, HistoryInv
<1>13. ColourInv'
  BY <1>1, <1>2, <1>4, <1>6, <1>7, <1>8, <1>11 DEF Running, ColourInv, Live, TypeOK
\* The ends of an edge of x that waited for x have their colours, and c is
\* another.
<1>14. EdgeInv'
  <2> SUFFICES ASSUME NEW y \in Node, NEW z \in graph.adj[y]
               PROVE  root[y] # root[z] /\ Covered(root[y], root[z])'
    BY <1>4 DEF EdgeInv
  <2>1. root[y] # root[z] /\ Covered(root[y], root[z])
    BY <1>1 DEF Running, EdgeInv
  <2>2. \A a : a # x => colour'[a] = colour[a]
    BY <1>1, <1>4 DEF TypeOK
  <2>3. colour'[x] = c
    BY <1>1, <1>4, <1>6 DEF TypeOK, Node
  <2>4. ASSUME NEW a, NEW b, Recorded(a, b)
        PROVE  Recorded(a, b)' \/ (a = x /\ \E w \in entry.nbrs : root[w] = b)
    BY <1>4, <1>7, <2>4 DEF Recorded, x, entry
  <2>5. ASSUME NEW w \in entry.nbrs
        PROVE  colour'[root[w]] # None /\ colour'[root[w]] # c
    BY <1>3, <1>4, <2>2, <2>5 DEF Taken, Coloured
  <2>6. PICK r1, r2 : r1 = root[y] /\ r2 = root[z]
    OBVIOUS
  <2>7. root'[y] = r1 /\ root'[z] = r2 /\ adj' = adj /\ spilled' = spilled
    BY <1>4, <2>6
  <2>8. SUFFICES Covered(r1, r2)'
    BY <2>1, <2>7
  <2>9. ASSUME NEW a, NEW b, Recorded(a, b)
        PROVE  Recorded(a, b)' \/ (colour'[a] # None /\ colour'[b] # None /\ colour'[a] # colour'[b])
    BY <1>4, <2>3, <2>4, <2>5, <2>9
  <2>10. CASE colour[r1] # None /\ colour[r2] # None /\ colour[r1] # colour[r2]
    BY <1>3, <2>2, <2>10 DEF Covered
  <2>11. QED
    BY <2>1, <2>6, <2>7, <2>9, <2>10 DEF Covered
<1>15. QED
  BY <1>1, <1>4, <1>9, <1>10, <1>12, <1>13, <1>14 DEF IInv, Running, ProperColouring, IsGraph

LEMMA FinishStep == IInv /\ Finish => IInv'
<1> SUFFICES ASSUME IInv, Finish PROVE IInv'
  OBVIOUS
<1> USE Registers
<1>1. TypeOK /\ IsGraph(graph) /\ GraphsSymmetric /\ Running /\ phase = "select" /\ history = <<>> /\ phase' = "done"
  BY DEF IInv, Finish
<1>2. remain = {} /\ spilled = {} /\ Live = Machine /\ colour' = [x \in Node |-> colour[root[x]]]
  BY <1>1 DEF Running, ColourInv, Live, Finish
<1>3. \A x : ~(\E i : Waits(x, i)) /\ \A y : ~Recorded(x, y)
  BY <1>1 DEF Waits, Recorded
<1>4. TypeOK' /\ GraphsSymmetric'
  BY <1>1, <1>2 DEF Finish, TypeOK, GraphsSymmetric, Phase
<1>5. ASSUME NEW x \in Node, NEW y \in graph.adj[x] PROVE colour[root[x]] # colour[root[y]]
  <2>1. root[x] # root[y] /\ Covered(root[x], root[y]) /\ y \in Node /\ root[x] \in Node /\ root[y] \in Node
    BY <1>1, <1>5 DEF Running, EdgeInv, IsGraph, TypeOK, Node
  <2>2. CASE root[y] \in adj[root[x]]
    <3>1. root[x] \in Machine /\ root[y] \in Machine
      BY <1>1, <1>2, <2>1, <2>2 DEF TypeOK, GraphsSymmetric
    <3>2. QED
      BY <1>1, <2>1, <3>1 DEF Running, ColourInv
  <2>3. CASE root[y] \notin adj[root[x]]
    BY <1>2, <1>3, <2>1, <2>3 DEF Covered
  <2>4. QED
    BY <2>2, <2>3
<1>6. ASSUME NEW x \in graph.occur PROVE x \in Node /\ colour[root[x]] \in Allocable
  <2>1. x \in Node /\ (root[x] \in Machine \/ root[x] \in Coloured)
    BY <1>1, <1>2, <1>3 DEF Running, ColourInv, IsGraph
  <2>2. QED
    BY <1>1, <2>1 DEF Running, ColourInv, TypeOK, Coloured
<1>7. \A x \in Machine : root[x] = x /\ colour[x] = x /\ x \in Node
  BY <1>1, <1>2 DEF Running, RootInv, ColourInv
<1>8. graph' = graph /\ \A x \in Node : graph.adj[x] \subseteq Node
  BY <1>1 DEF Finish, IsGraph, Node
<1>9. ProperColouring'
  BY <1>2, <1>5, <1>6, <1>7, <1>8 DEF ProperColouring
<1>10. QED
  BY <1>1, <1>4, <1>8, <1>9 DEF IInv, IsGraph

-----------------------------------------------------------------------------
(* The theorems. *)

LEMMA IInvNext == IInv /\ [Next]_vars => IInv'
<1> SUFFICES ASSUME IInv, [Next]_vars PROVE IInv'
  OBVIOUS
<1>1. CASE UNCHANGED vars
  BY <1>1 DEF vars, IInv, TypeOK, IsGraph, GraphsSymmetric, Running, ProperColouring, RootInv, HistoryInv, ColourInv,
              PairInv, EdgeInv, Live, Coloured, Waits, Covered, Recorded
<1>2. QED
  BY <1>1, PruneStep, SimplifiedStep, CoalescedStep, FinishStep, SimplifyStep, FreezeStep, SpillStep, CoalesceStep, SelectStep
     DEF Next, Step, Stopped

\* No edge of the graph that build() makes is ever lost, whatever is merged,
\* frozen, spilled or removed, and in whatever order.
THEOREM InductiveInvariant == Spec => []IInv
BY IInvInit, IInvNext, PTL DEF Spec

\* The allocator's state is well typed: what was removed has left both graphs.
THEOREM TypeCorrect == Spec => []TypeOK
<1>1. IInv => TypeOK
  BY DEF IInv
<1>2. QED
  BY InductiveInvariant, <1>1, PTL

\* merge() and the removals tell both ends of every edge.
THEOREM SymmetricEver == Spec => []GraphsSymmetric
<1>1. IInv => GraphsSymmetric
  BY DEF IInv
<1>2. QED
  BY InductiveInvariant, <1>1, PTL

\* The select loop of run() always finds its neighbours coloured and a colour
\* left, for any number of registers.
THEOREM SelectionSucceeds == Spec => []CanSelect
<1>1. IInv => CanSelect
  <2> SUFFICES ASSUME IInv, phase = "select", history # <<>>
               PROVE  LET entry == history[Len(history)]
                      IN  /\ None \notin Taken(entry)
                          /\ Allocable \ Taken(entry) # {}
                          /\ colour[entry.node] = None /\ root[entry.node] = entry.node
    BY DEF CanSelect
  <2> DEFINE entry == history[Len(history)]
  <2>1. /\ entry \in [node : Pseudo, nbrs : SUBSET Node] /\ Cardinality(entry.nbrs) < K
        /\ root[entry.node] = entry.node /\ colour[entry.node] = None /\ None \notin Taken(entry)
    BY LastEntry
  <2> HIDE DEF entry
  <2>2. Allocable \ Taken(entry) # {}
    BY <2>1, ColourLeft DEF IInv
  <2>3. QED
    BY <2>1, <2>2 DEF entry
<1>2. QED
  BY InductiveInvariant, <1>1, PTL

\* Registers that are live together get different machine registers, for every
\* function and every choice of the heuristics.
THEOREM Correct == Spec => []ProperColouring
<1>1. IInv => ProperColouring
  BY DEF IInv
<1>2. QED
  BY InductiveInvariant, <1>1, PTL

-----------------------------------------------------------------------------
(* Every step makes progress *)

\* Where a round of simplify, coalesce and freeze is.  One in which something
\* was merged starts over, but with fewer registers left.
Rank == CASE phase = "coalesce" /\ merged -> 0
          [] phase = "prune" -> 1
          [] phase = "simplify" -> 2
          [] phase = "coalesce" /\ ~merged -> 3
          [] phase = "freeze" -> 4
          [] phase = "select" -> 5
          [] phase \in {"done", "retry"} -> 6
Moves == {e \in Node \X Node : e[2] \in mov[e[1]]}
Fewer(S, T) == S \subseteq T /\ S # T

\* Fewer registers are left; or as many and fewer moves; or the round is further;
\* or fewer pairs are to be looked at, or fewer registers to be coloured.  All
\* of these are finite: a run ends.
Progress ==
  \/ Fewer(remain', remain)
  \/ /\ remain' = remain
     /\ \/ Fewer(Moves', Moves)
        \/ /\ Moves' = Moves
           /\ \/ Rank' > Rank
              \/ /\ Rank' = Rank
                 /\ \/ Fewer(pairs', pairs)
                    \/ pairs' = pairs /\ Len(history') < Len(history)

\* Until something is merged the pairs stand for themselves, and what is left
\* cannot be simplified.
RoundInv ==
  /\ phase = "coalesce" /\ ~merged => \A p \in pairs : root[p[1]] # root[p[2]]
  /\ (phase = "coalesce" /\ ~merged) \/ phase = "freeze" => \A x \in remain : ~Simplifiable(x)

LEMMA RoundKept == IInv /\ RoundInv /\ [Next]_vars => RoundInv'
<1> SUFFICES ASSUME IInv, RoundInv, [Next]_vars PROVE RoundInv'
  OBVIOUS
<1> USE Registers
<1>1. CASE Simplified
  <2>1. TypeOK /\ Running
    BY <1>1 DEF IInv, Simplified
  <2>2. \A x \in remain' : ~Simplifiable(x)'
    BY <1>1 DEF Simplified, Simplifiable, Low, Degree
  <2>3. ASSUME NEW p \in pairs', phase' = "coalesce" PROVE root'[p[1]] # root'[p[2]]
    <3>1. p[1] \in Live /\ p[2] \in mov[p[1]] /\ p[2] < p[1] /\ p[1] \in Node /\ root' = root
      BY <1>1, <2>3 DEF Simplified, Live
    <3>2. p[2] \in Live
      BY <2>1, <3>1 DEF TypeOK, Live
    <3>3. p[1] \in Nat /\ p[2] \in Nat
      BY <2>1, <3>1, <3>2 DEF TypeOK, Live
    <3>4. QED
      BY <2>1, <3>1, <3>2, <3>3 DEF Running, RootInv
  <2>4. QED
    BY <2>2, <2>3 DEF RoundInv
<1>2. ASSUME NEW pair \in pairs, Coalesce(pair) PROVE RoundInv'
  <2>1. CASE merged'
    BY <1>2, <2>1 DEF RoundInv, Coalesce
  <2>2. CASE ~merged'
    <3>1. /\ UNCHANGED <<adj, mov, remain, root>> /\ merged' = (merged \/ root[pair[1]] = root[pair[2]])
          /\ phase = "coalesce" /\ phase' = phase /\ pairs' \subseteq pairs
      BY <1>2, <2>2 DEF Coalesce
    <3>2. ~merged
      BY <2>2, <3>1
    <3>3. QED
      BY <3>1, <3>2 DEF RoundInv, Simplifiable, Low, Degree
  <2>3. QED
    BY <2>1, <2>2
<1>3. CASE Coalesced
  BY <1>3 DEF Coalesced, RoundInv, Simplifiable, Low, Degree
<1>4. CASE Prune \/ Finish \/ \E x \in Pseudo : Simplify(x) \/ Freeze(x) \/ Spill(x)
  BY <1>4 DEF RoundInv, Prune, Finish, Simplify, Freeze, Spill
<1>5. CASE \E c \in Allocable : Select(c)
  BY <1>5 DEF RoundInv, Select
<1>6. CASE UNCHANGED vars
  BY <1>6 DEF RoundInv, vars, Simplifiable, Low, Degree
<1>7. QED
  BY <1>1, <1>2, <1>3, <1>4, <1>5, <1>6 DEF Next, Step, Stopped

LEMMA StepProgresses == IInv /\ RoundInv /\ Step => Progress
<1> SUFFICES ASSUME IInv, RoundInv, Step PROVE Progress
  OBVIOUS
<1> USE Registers
<1>0. TypeOK
  BY DEF IInv
<1>1. CASE Prune
  <2>1. Rank = 1 /\ Rank' = 2 /\ remain' = remain
    BY <1>1 DEF Prune, Rank
  <2>2. Moves' \subseteq Moves
    BY <1>1 DEF Prune, Moves
  <2>3. QED
    BY <2>1, <2>2 DEF Progress, Fewer
<1>2. CASE Simplified
  <2>1. Rank = 2 /\ Rank' \in {3, 5, 6} /\ remain' = remain
    BY <1>2 DEF Simplified, Rank
  <2>2. Moves' = Moves
    BY <1>2 DEF Simplified, Moves
  <2>3. QED
    BY <2>1, <2>2 DEF Progress
<1>3. ASSUME NEW pair \in pairs, Coalesce(pair) PROVE Progress
  <2> DEFINE a == root[pair[1]]
             b == root[pair[2]]
             u == IF a \in Machine THEN b ELSE a
             v == IF a \in Machine THEN a ELSE b
  <2>1. CASE a # b /\ ~(a \in Machine /\ b \in Machine) /\ b \notin adj[a] /\ ConservativeCheck(a, b)
    <3>1. remain' = remain \ {u}
      BY <1>3, <2>1 DEF Coalesce, Merge
    <3>2. u \in remain
      BY <1>3, <2>1 DEF IInv, Running, PairInv, Coalesce, Live
    <3>3. QED
      BY <3>1, <3>2 DEF Progress, Fewer
  <2>2. CASE ~(a # b /\ ~(a \in Machine /\ b \in Machine) /\ b \notin adj[a] /\ ConservativeCheck(a, b))
    <3>1. /\ UNCHANGED <<adj, mov, remain, root>> /\ merged' = (merged \/ a = b)
          /\ phase = "coalesce" /\ phase' = phase /\ pairs' = pairs \ {pair}
      BY <1>3, <2>2 DEF Coalesce
    <3>2. merged' = merged
      BY <1>0, <3>1 DEF RoundInv, TypeOK
    <3>3. Rank' = Rank /\ Moves' = Moves
      BY <3>1, <3>2 DEF Rank, Moves
    <3>4. QED
      BY <3>1, <3>3 DEF Progress, Fewer
  <2>3. QED
    BY <2>1, <2>2
<1>4. CASE Coalesced
  <2>1. remain' = remain /\ Moves' = Moves
    BY <1>4 DEF Coalesced, Moves
  <2>2. CASE merged
    BY <1>4, <2>1, <2>2 DEF Coalesced, Rank, Progress
  <2>3. CASE ~merged
    BY <1>4, <2>1, <2>3 DEF Coalesced, Rank, Progress
  <2>4. QED
    BY <2>2, <2>3
<1>5. CASE Finish
  <2>1. remain' = remain /\ Moves' = Moves
    BY <1>5 DEF Finish, Moves
  <2>2. QED
    BY <1>5, <2>1 DEF Finish, Rank, Progress
<1>6. ASSUME NEW x \in Pseudo, Simplify(x) \/ Spill(x) PROVE Progress
  BY <1>6 DEF Simplify, Simplifiable, Spill, Progress, Fewer
\* A register that cannot be simplified although its degree is low has a move.
<1>7. ASSUME NEW x \in Pseudo, Freeze(x) PROVE Progress
  <2>1. x \in remain /\ mov[x] # {} /\ x \in Node /\ remain' = remain
    BY <1>7 DEF Freeze, RoundInv, Simplifiable
  <2>2. mov' = [y \in Node |-> IF y = x THEN {} ELSE mov[y] \ {x}]
    BY <1>7 DEF Freeze
  <2>3. PICK z \in Node : z \in mov[x]
    BY <1>0, <2>1 DEF TypeOK, Node
  <2>4. <<x, z>> \in Moves /\ <<x, z>> \notin Moves'
    BY <2>1, <2>2, <2>3 DEF Moves
  <2>5. Moves' \subseteq Moves
    BY <2>2 DEF Moves
  <2>6. QED
    BY <2>1, <2>4, <2>5 DEF Progress, Fewer
<1>8. ASSUME NEW c \in Allocable, Select(c) PROVE Progress
  <2>1. remain' = remain /\ Moves' = Moves /\ pairs' = pairs /\ phase' = phase /\ merged' = merged
    BY <1>8 DEF Select, Moves
  <2>2. Rank' = Rank
    BY <2>1 DEF Rank
  <2>3. Len(history') < Len(history)
    <3> DEFINE E == [node : Pseudo, nbrs : SUBSET Node]
    <3>1. history \in Seq(E) /\ history # <<>> /\ history' = SubSeq(history, 1, Len(history) - 1)
      BY <1>0, <1>8 DEF Select, TypeOK
    <3> HIDE DEF E
    <3>2. QED
      BY <3>1
  <2>4. QED
    BY <2>1, <2>2, <2>3 DEF Progress
<1>9. QED
  BY <1>1, <1>2, <1>3, <1>4, <1>5, <1>6, <1>7, <1>8 DEF Step

\* simplify, coalesce, freeze, spill and select between them always make
\* progress, whatever they choose.
THEOREM AlwaysProgresses == Spec => [][Progress]_vars
<1>1. Init => RoundInv
  BY DEF Init, RoundInv
<1>2. IInv /\ RoundInv /\ [Next]_vars => [Progress]_vars
  BY StepProgresses DEF Next, Stopped
<1>3. QED
  BY IInvInit, IInvNext, RoundKept, <1>1, <1>2, PTL DEF Spec
=============================================================================

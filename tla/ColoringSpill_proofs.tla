------------------------ MODULE ColoringSpill_proofs -------------------------
(* Machine-checked proofs about ColoringAlloc: when it does not spill, and   *)
(* that it finds something to spill.                                         *)
EXTENDS ColoringAlloc_proofs

\* A machine register is idle when nothing interferes with it or is moved to
\* it.
IdleMachine == {m \in Machine : graph.adj[m] = {} /\ graph.mov[m] \subseteq Machine}

\* A temporary of spill code occurs in one instruction, and the result of
\* __create_threads is moved from and to r0 only (program.cpp:180-184).  It has
\* at most one move; it is newer than the registers of the program that it is
\* moved from or to; and in any set of temporaries, where two that a move joins
\* count as one, some temporary has a colour to spare for all others that it
\* interferes with and all machine registers that are not idle.
Joined(x) == {x} \cup (graph.mov[x] \cap Spilling)
Near(x, y) == \E s \in Joined(x), t \in Joined(y) : s \in graph.adj[t]
OneMove == \A x \in Spilling : \A y, z \in graph.mov[x] : y = z
Newer == \A x \in Spilling : \/ graph.mov[x] \subseteq Machine \cup Spilling
                             \/ \A z \in graph.occur \ Spilling : z < x
NearIn(x, S) == {y \in S \ {x} : Near(x, y)}
ColoursToSpare ==
  \A S \in SUBSET (Spilling \cap graph.occur) : S # {} =>
    \E x \in S : Cardinality(NearIn(x, S)) + Cardinality(Machine \ IdleMachine) < K
TemporariesFit == OneMove /\ Newer /\ ColoursToSpare

IdleInv == \A m \in IdleMachine : /\ adj[m] = {} /\ mov[m] \subseteq Machine
                                  /\ phase # "prune" => mov[m] = {}

\* Simplification alone can still take the graph apart.
ElimInv ==
  NoMachine /\ Degenerate =>
    /\ spilled = {}
    /\ \A S \in SUBSET remain : S # {} => \E x \in S : Cardinality(adj[x] \cap S) < K

\* A temporary is only ever merged with what it is moved from or to, and
\* nothing but another temporary is merged into it.
FitInv ==
  TemporariesFit =>
    /\ \A x \in Node \ Spilling : root[x] \notin Spilling
    /\ \A x \in Spilling : root[x] = x \/ \E y \in graph.mov[x] : root[x] = root[y]
    /\ \A x \in Spilling \cap remain : mov[x] \subseteq {root[y] : y \in graph.mov[x]}
    /\ \A x, y \in Spilling : y \in adj[x] => Near(x, y)

PairFits(p) ==
  /\ p[1] \in Spilling => \E y \in graph.mov[p[1]] : root[y] = root[p[2]]
  /\ p[2] \in Spilling => \E y \in graph.mov[p[2]] : root[y] = root[p[1]]
  /\ p[2] \in Spilling => p[1] \in Machine \cup Spilling
PairGood(p) == /\ root[p[1]] \notin IdleMachine /\ root[p[2]] \notin IdleMachine
               /\ TemporariesFit => PairFits(p)
GoodPairs == phase = "coalesce" => \A p \in pairs : PairGood(p)

RemainInv == /\ remain \subseteq graph.occur
             /\ phase = "freeze" \/ (phase = "coalesce" /\ ~merged) => remain # {}

SpillInv == IdleInv /\ ElimInv /\ FitInv /\ GoodPairs /\ RemainInv

LEMMA FrozenGraph ==
  ASSUME graph' = graph
  PROVE  /\ IdleMachine' = IdleMachine /\ NoMachine' = NoMachine /\ Degenerate' = Degenerate
         /\ TemporariesFit' <=> TemporariesFit
         /\ \A x, y : Near(x, y)' <=> Near(x, y)
<1>1. IdleMachine' = IdleMachine /\ NoMachine' = NoMachine /\ Degenerate' = Degenerate
  BY DEF IdleMachine, NoMachine, Degenerate
<1>2. \A x, y : Near(x, y)' <=> Near(x, y)
  BY DEF Near, Joined
<1>3. OneMove' = OneMove /\ Newer' = Newer
  BY DEF OneMove, Newer
<1>4. ColoursToSpare' = ColoursToSpare
  <2>1. \A x, S : NearIn(x, S)' = NearIn(x, S)
    BY <1>2 DEF NearIn
  <2>2. QED
    BY <1>1, <2>1 DEF ColoursToSpare
<1>5. QED
  BY <1>1, <1>2, <1>3, <1>4 DEF TemporariesFit

\* What is needed of the state and of the first graph.
LEMMA SpillFacts ==
  ASSUME IInv, phase # "done"
  PROVE  /\ remain \subseteq Pseudo /\ Live \subseteq Node /\ Spilling \subseteq Pseudo
         /\ \A x \in Node : /\ adj[x] \subseteq Live /\ mov[x] \subseteq Live
                            /\ graph.adj[x] \subseteq Node /\ graph.mov[x] \subseteq Node
                            /\ root[x] \in Node
         /\ \A x, y \in Node : /\ x \in adj[y] <=> y \in adj[x]
                               /\ x \notin adj[x]
                               /\ x \in mov[y] <=> y \in mov[x]
                               /\ x \in graph.mov[y] <=> y \in graph.mov[x]
                               /\ x \in graph.adj[y] <=> y \in graph.adj[x]
         /\ \A x \in Live : root[x] = x
<1>1. TypeOK /\ IsGraph(graph) /\ GraphsSymmetric /\ RootInv
  BY DEF IInv, Running
<1>2. Live \subseteq Node /\ Spilling \subseteq Pseudo
  BY <1>1, NodeAssumption DEF TypeOK, Live, Node
<1>3. \A x \in Node : /\ adj[x] \subseteq Live /\ mov[x] \subseteq Live
                      /\ graph.adj[x] \subseteq Node /\ graph.mov[x] \subseteq Node
                      /\ root[x] \in Node
  BY <1>1 DEF TypeOK, IsGraph, Live, Node
<1>4. QED
  BY <1>1, <1>2, <1>3 DEF TypeOK, GraphsSymmetric, IsGraph, RootInv

LEMMA SpillInit == Init => SpillInv
<1> SUFFICES ASSUME Init PROVE SpillInv
  OBVIOUS
<1>1. IInv /\ phase # "done"
  BY IInvInit DEF Init
<1>2. /\ adj = graph.adj /\ mov = graph.mov /\ root = [x \in Node |-> x] /\ remain = graph.occur
      /\ spilled = {} /\ phase = "prune"
  BY DEF Init
<1>3. IdleInv /\ GoodPairs /\ RemainInv
  BY <1>2 DEF IdleInv, IdleMachine, GoodPairs, RemainInv
<1>4. ElimInv
  BY <1>2 DEF ElimInv, Degenerate
<1>5. FitInv
  <2>1. \A x \in Node : root[x] = x
    BY <1>2
  <2>2. Spilling \subseteq Node /\ \A x \in Node : graph.mov[x] \subseteq Node
    BY <1>1, SpillFacts, Registers
  <2>3. \A x \in Spilling : mov[x] \subseteq {root[y] : y \in graph.mov[x]}
    <3> TAKE x \in Spilling
    <3>1. \A y \in graph.mov[x] : root[y] = y
      BY <2>1, <2>2
    <3>2. QED
      BY <1>2, <3>1
  <2>4. \A x, y \in Spilling : y \in adj[x] => Near(x, y)
    BY <1>1, <1>2, <2>2, SpillFacts DEF Near, Joined
  <2>5. QED
    BY <2>1, <2>2, <2>3, <2>4 DEF FitInv
<1>6. QED
  BY <1>3, <1>4, <1>5 DEF SpillInv

-----------------------------------------------------------------------------
(* Steps that leave the interference graph alone *)

LEMMA SameGraph ==
  ASSUME IdleInv, ElimInv, FitInv, GoodPairs, IInv, phase # "done",
         UNCHANGED <<graph, adj, remain, root, spilled>>,
         \A x \in Node : mov'[x] \subseteq mov[x],
         phase' # "prune" => phase # "prune" \/ \A m \in IdleMachine : mov'[m] = {},
         phase' = "coalesce" => \A p \in pairs' : PairGood(p) \/ (phase = "coalesce" /\ p \in pairs)
  PROVE  IdleInv' /\ ElimInv' /\ FitInv' /\ GoodPairs'
<1>1. Spilling \subseteq Node /\ IdleMachine \subseteq Node
  BY SpillFacts, Registers DEF IdleMachine
<1>2. IdleInv'
  BY <1>1, FrozenGraph DEF IdleInv
<1>3. ElimInv'
  BY FrozenGraph DEF ElimInv
<1>4. FitInv'
  <2>1. \A x \in Spilling : mov'[x] \subseteq mov[x]
    BY <1>1
  <2>0. (TemporariesFit' <=> TemporariesFit) /\ \A z, y : Near(z, y)' <=> Near(z, y)
    BY FrozenGraph
  <2> SUFFICES ASSUME TemporariesFit
               PROVE  /\ \A z \in Node \ Spilling : root'[z] \notin Spilling
                      /\ \A z \in Spilling : root'[z] = z \/ \E y \in graph'.mov[z] : root'[z] = root'[y]
                      /\ \A z \in Spilling \cap remain' : mov'[z] \subseteq {root'[y] : y \in graph'.mov[z]}
                      /\ \A z, y \in Spilling : y \in adj'[z] => Near(z, y)
    BY <2>0 DEF FitInv
  <2>2. \A z \in Spilling \cap remain : mov[z] \subseteq {root[y] : y \in graph.mov[z]}
    BY DEF FitInv
  <2>3. \A z \in Spilling \cap remain' : mov'[z] \subseteq {root[y] : y \in graph.mov[z]}
    BY <2>1, <2>2
  <2>4. QED
    BY <2>1, <2>3 DEF FitInv
<1>5. \A p : PairGood(p)' = PairGood(p)
  BY FrozenGraph DEF PairGood, PairFits
<1>6. GoodPairs'
  BY <1>5 DEF GoodPairs
<1>7. QED
  BY <1>2, <1>3, <1>4, <1>6

\* The pairs that coalesce() starts with are moves of the graph as it is.
LEMMA PairsGood ==
  ASSUME IInv, SpillInv, phase = "simplify", NEW p \in Node \X Node, p[1] \in Live, p[2] \in mov[p[1]], p[2] < p[1]
  PROVE  PairGood(p)
<1>1. /\ p[1] \in Node /\ p[2] \in Node /\ p[2] \in Live /\ p[1] \in mov[p[2]]
      /\ root[p[1]] = p[1] /\ root[p[2]] = p[2]
  BY SpillFacts
<1>2. root[p[1]] \notin IdleMachine /\ root[p[2]] \notin IdleMachine
  BY <1>1 DEF SpillInv, IdleInv
<1>3. ASSUME TemporariesFit PROVE PairFits(p)
  <2>0. \A x \in Spilling : x \notin Machine /\ x \in Node
    BY SpillFacts, Registers
  <2>1. \A x \in Spilling \cap Live : mov[x] \subseteq {root[y] : y \in graph.mov[x]}
    BY <1>3, <2>0 DEF SpillInv, FitInv, Live
  <2>2. p[1] \in Spilling => \E y \in graph.mov[p[1]] : root[y] = root[p[2]]
    BY <1>1, <2>1
  <2>3. p[2] \in Spilling => \E y \in graph.mov[p[2]] : root[y] = root[p[1]]
    BY <1>1, <2>1
  <2>4. ASSUME p[2] \in Spilling, p[1] \notin Machine \cup Spilling PROVE FALSE
    <3>1. PICK y \in graph.mov[p[2]] : root[y] = p[1]
      BY <1>1, <2>3, <2>4
    <3>2. y \in Node /\ p[2] \in graph.mov[y]
      BY <1>1, <3>1, SpillFacts
    <3>3. y \notin Machine
      BY <2>4, <3>1, SpillFacts DEF Live
    <3>4. y \notin Spilling
      <4>1. SUFFICES ASSUME y \in Spilling PROVE FALSE
        OBVIOUS
      <4>2. PICK z \in graph.mov[y] : root[y] = root[z]
        BY <1>3, <2>4, <3>1, <4>1 DEF SpillInv, FitInv
      <4>3. z = p[2]
        BY <1>3, <3>2, <4>1, <4>2 DEF TemporariesFit, OneMove
      <4>4. QED
        BY <1>1, <2>4, <3>1, <4>2, <4>3
    <3>5. p[1] \in graph.occur \ Spilling
      BY <1>1, <2>4 DEF SpillInv, RemainInv, Live
    <3>6. p[1] < p[2]
      BY <1>3, <2>4, <3>1, <3>3, <3>4, <3>5 DEF TemporariesFit, Newer
    <3>7. p[1] \in Nat /\ p[2] \in Nat
      BY <1>1, Registers
    <3> DEFINE i == p[1]
               j == p[2]
    <3>8. i \in Nat /\ j \in Nat /\ i < j /\ j < i
      BY <3>6, <3>7
    <3> HIDE DEF i, j
    <3>9. QED
      BY <3>8
  <2>5. QED
    BY <2>2, <2>3, <2>4 DEF PairFits
<1>4. QED
  BY <1>2, <1>3 DEF PairGood

-----------------------------------------------------------------------------
(* Steps that take a register out of the graph *)

LEMMA Removed ==
  ASSUME IInv, IdleInv, ElimInv, FitInv, phase # "done", NEW x \in remain,
         UNCHANGED <<graph, root>>, remain' = remain \ {x},
         adj' = [y \in Node |-> IF y = x THEN {} ELSE adj[y] \ {x}],
         \A y \in Node : mov'[y] \subseteq mov[y],
         NoMachine /\ Degenerate => spilled' = spilled,
         phase' # "prune" => phase # "prune", phase' # "coalesce"
  PROVE  IdleInv' /\ ElimInv' /\ FitInv' /\ GoodPairs'
<1>1. Spilling \subseteq Node /\ IdleMachine \subseteq Node /\ remain \subseteq Node
  BY SpillFacts, Registers DEF IdleMachine
<1>2. IdleInv'
  BY <1>1, FrozenGraph DEF IdleInv
<1>3. ElimInv'
  <2> SUFFICES ASSUME NoMachine, Degenerate
               PROVE  /\ spilled' = {}
                      /\ \A S \in SUBSET remain' : S # {} => \E y \in S : Cardinality(adj'[y] \cap S) < K
    BY FrozenGraph DEF ElimInv
  <2>1. ASSUME NEW S \in SUBSET remain', NEW y \in S
        PROVE  adj'[y] \cap S = adj[y] \cap S
    BY <1>1
  <2>2. QED
    BY <2>1 DEF ElimInv
<1>4. FitInv'
  <2>1. \A y \in Spilling : mov'[y] \subseteq mov[y] /\ adj'[y] \subseteq adj[y]
    BY <1>1
  <2>0. (TemporariesFit' <=> TemporariesFit) /\ \A z, y : Near(z, y)' <=> Near(z, y)
    BY FrozenGraph
  <2> SUFFICES ASSUME TemporariesFit
               PROVE  /\ \A z \in Node \ Spilling : root'[z] \notin Spilling
                      /\ \A z \in Spilling : root'[z] = z \/ \E y \in graph'.mov[z] : root'[z] = root'[y]
                      /\ \A z \in Spilling \cap remain' : mov'[z] \subseteq {root'[y] : y \in graph'.mov[z]}
                      /\ \A z, y \in Spilling : y \in adj'[z] => Near(z, y)
    BY <2>0 DEF FitInv
  <2>2. \A z \in Spilling \cap remain : mov[z] \subseteq {root[y] : y \in graph.mov[z]}
    BY DEF FitInv
  <2>3. \A z \in Spilling \cap remain' : mov'[z] \subseteq {root[y] : y \in graph.mov[z]}
    BY <2>1, <2>2
  <2>4. QED
    BY <2>1, <2>3 DEF FitInv
<1>5. QED
  BY <1>2, <1>3, <1>4 DEF GoodPairs

\* Nothing is spilled that simplification could have removed.
LEMMA SpillNeeded ==
  ASSUME IInv, SpillInv, NEW x, Spill(x)
  PROVE  ~(NoMachine /\ Degenerate)
<1> SUFFICES ASSUME NoMachine, Degenerate PROVE FALSE
  OBVIOUS
<1>1. x \in remain /\ phase # "done" /\ \A y \in remain : ~Low(y)
  BY DEF Spill
<1>2. PICK y \in remain : Cardinality(adj[y] \cap remain) < K
  BY <1>1 DEF SpillInv, ElimInv
<1>3. y \in Node /\ adj[y] \subseteq Live /\ IdleMachine = Machine
  BY <1>1, SpillFacts, Registers DEF NoMachine, IdleMachine
<1>4. \A m \in Machine : m \in Node /\ m \notin adj[y]
  BY <1>1, <1>3, SpillFacts, Registers DEF SpillInv, IdleInv
<1>5. adj[y] \cap remain = adj[y]
  BY <1>3, <1>4 DEF Live
<1>6. QED
  BY <1>1, <1>2, <1>5 DEF Low, Degree

-----------------------------------------------------------------------------
(* Merging *)

LEMMA Sizes ==
  ASSUME NEW A \in SUBSET Node, NEW B \in SUBSET A
  PROVE  /\ Cardinality(A) \in Nat /\ Cardinality(B) \in Nat
         /\ Cardinality(B) <= Cardinality(A)
<1>1. IsFiniteSet(A)
  BY Finite, FS_Subset
<1>2. QED
  BY <1>1, FS_Subset, FS_CardinalityType

\* A neighbour that still has K neighbours in S after the merge is one that
\* conservative_check counted.
LEMMA CountedBefore ==
  ASSUME IInv, phase # "done", NEW u \in Node, NEW v \in Node, u # v, v \notin adj[u],
         NEW x \in adj[u] \cup adj[v], NEW S,
         ~(Cardinality((IF x \in adj[u] THEN (adj[x] \ {u}) \cup {v} ELSE adj[x]) \cap S) < K)
  PROVE  x \in Significant(u, v)
<1> DEFINE A == adj[x]
           B == IF x \in adj[u] THEN (A \ {u}) \cup {v} ELSE A
<1>1. x \in Node /\ x # u /\ x # v /\ A \in SUBSET Node /\ (u \in A <=> x \in adj[u]) /\ (v \in A <=> x \in adj[v])
  BY SpillFacts
<1>2. IsFiniteSet(A) /\ IsFiniteSet(A \ {u})
  BY <1>1, Finite, FS_Subset
<1>3. B \in SUBSET Node
  BY <1>1
<1>4. K \in Nat /\ Cardinality(A) \in Nat /\ Cardinality(B) \in Nat /\ ~(Cardinality(B) < K)
  <2>1. Cardinality(B \cap S) \in Nat /\ Cardinality(B) \in Nat /\ Cardinality(B \cap S) <= Cardinality(B)
    BY <1>3, Sizes
  <2>2. Cardinality(A) \in Nat /\ K \in Nat
    BY <1>1, Sizes, Finite
  <2>3. ~(Cardinality(B \cap S) < K)
    OBVIOUS
  <2> HIDE DEF A, B
  <2>4. QED
    BY <2>1, <2>2, <2>3
<1>5. CASE x \in adj[u] /\ x \in adj[v]
  <2>1. B = A \ {u} /\ u \in A
    BY <1>1, <1>5
  <2>2. Cardinality(B) = Cardinality(A) - 1
    BY <1>2, <2>1, FS_RemoveElement
  <2> HIDE DEF A, B
  <2>3. Cardinality(A) > K
    BY <1>4, <2>2
  <2>4. QED
    BY <1>1, <1>5, <2>3 DEF Significant, Degree, A
<1>6. CASE x \in adj[u] /\ x \notin adj[v]
  <2>1. B = (A \ {u}) \cup {v} /\ u \in A /\ v \notin A \ {u}
    BY <1>1, <1>6
  <2>2. Cardinality(A \ {u}) = Cardinality(A) - 1
    BY <1>2, <2>1, FS_RemoveElement
  <2>3. Cardinality(B) = Cardinality(A \ {u}) + 1
    <3> HIDE DEF A, B
    <3>1. QED
      BY <1>2, <2>1, FS_AddElement
  <2> HIDE DEF A, B
  <2>4. Cardinality(A) >= K
    BY <1>4, <2>2, <2>3
  <2>5. QED
    BY <1>1, <1>6, <2>4 DEF Significant, Degree, A
<1>7. CASE x \notin adj[u]
  <2>1. B = A
    BY <1>7
  <2> HIDE DEF A, B
  <2>2. Cardinality(A) >= K
    BY <1>4, <2>1
  <2>3. QED
    BY <1>1, <1>7, <2>2 DEF Significant, Degree, A
<1>8. QED
  BY <1>5, <1>6, <1>7

\* Briggs: if every register left in S has K neighbours there, the neighbours
\* of v in S were significant, so v has fewer.
LEMMA MergeElim ==
  ASSUME IInv, phase = "coalesce", NEW u \in remain, NEW v \in remain, u # v, v \notin adj[u],
         Merge(u, v), ConservativeCheck(u, v), spilled' = spilled, graph' = graph, ElimInv
  PROVE  ElimInv'
<1> SUFFICES ASSUME NoMachine, Degenerate, NEW S \in SUBSET remain', S # {}
             PROVE  spilled' = {} /\ \E y \in S : Cardinality(adj'[y] \cap S) < K
  BY FrozenGraph DEF ElimInv
<1>1. /\ spilled' = {} /\ u \in Node /\ v \in Node /\ S \subseteq remain \ {u} /\ S \subseteq Node
      /\ u \notin adj[v]
  BY SpillFacts DEF ElimInv, Merge, Live
<1>2. \A x \in S : adj'[x] = IF x = v THEN adj[v] \cup adj[u]
                             ELSE IF x \in adj[u] THEN (adj[x] \ {u}) \cup {v} ELSE adj[x]
  BY <1>1 DEF Merge
<1>3. CASE v \notin S
  <2>1. PICK y \in S : Cardinality(adj[y] \cap S) < K
    BY <1>1 DEF ElimInv
  <2>2. adj'[y] \cap S = adj[y] \cap S
    BY <1>1, <1>2, <1>3
  <2>3. QED
    BY <1>1, <2>1, <2>2
<1>4. CASE v \in S
  <2>1. SUFFICES ASSUME \A x \in S : ~(Cardinality(adj'[x] \cap S) < K) PROVE Cardinality(adj'[v] \cap S) < K
    BY <1>1, <1>4
  <2>2. adj'[v] = adj[v] \cup adj[u] /\ v \notin adj[v]
    BY <1>1, <1>2, <1>4, SpillFacts
  <2>3. ASSUME NEW x \in adj'[v] \cap S PROVE x \in Significant(u, v)
    <3>1. x \in adj[u] \cup adj[v] /\ x # v
      BY <1>1, <2>2, <2>3
    <3>2. ~(Cardinality((IF x \in adj[u] THEN (adj[x] \ {u}) \cup {v} ELSE adj[x]) \cap S) < K)
      BY <1>2, <2>1, <3>1
    <3>3. QED
      BY <1>1, <3>1, <3>2, CountedBefore
  <2>4. Significant(u, v) \in SUBSET Node
    BY <1>1, SpillFacts DEF Significant, Live
  <2>5. /\ Cardinality(adj'[v] \cap S) <= Cardinality(Significant(u, v))
        /\ Cardinality(adj'[v] \cap S) \in Nat /\ Cardinality(Significant(u, v)) \in Nat
    BY <2>3, <2>4, Sizes
  <2>6. QED
    BY <2>5, Finite DEF ConservativeCheck
<1>5. QED
  BY <1>3, <1>4

\* Who is merged with whom when the temporaries fit.
LEMMA TemporaryPartner ==
  ASSUME IInv, SpillInv, phase = "coalesce", TemporariesFit, NEW pair \in pairs,
         NEW u, NEW v, u # v, u \notin Machine,
         \/ u = root[pair[1]] /\ v = root[pair[2]]
         \/ u = root[pair[2]] /\ v = root[pair[1]] /\ v \in Machine
  PROVE  /\ u \in Spilling => \E y \in graph.mov[u] : root[y] = v
         /\ v \in Spilling => u \in Spilling /\ u \in graph.mov[v] /\ v \in graph.mov[u]
<1> DEFINE p1 == pair[1]
           p2 == pair[2]
<1>1. p1 \in Node /\ p2 \in Node /\ PairFits(pair)
  BY DEF IInv, TypeOK, SpillInv, GoodPairs, PairGood
<1>2. /\ \A x \in Node \ Spilling : root[x] \notin Spilling
      /\ \A x \in Spilling : root[x] = x \/ \E y \in graph.mov[x] : root[x] = root[y]
      /\ \A x \in Spilling : \A y, z \in graph.mov[x] : y = z
      /\ Machine \cap Spilling = {} /\ Spilling \subseteq Node
      /\ \A x \in Machine : root[x] = x
  BY SpillFacts, Registers DEF SpillInv, FitInv, TemporariesFit, OneMove, Live
\* A temporary that is still a root when its pair is looked at stands for itself.
<1>3. ASSUME NEW p \in Spilling, NEW y \in graph.mov[p], root[p] # root[y]
      PROVE  root[p] = p
  BY <1>2, <1>3
<1>4. ASSUME u = root[p1], v = root[p2], u \in Spilling
      PROVE  u = p1 /\ \E y \in graph.mov[u] : root[y] = v
  <2>1. p1 \in Spilling
    BY <1>1, <1>2, <1>4
  <2>2. PICK y \in graph.mov[p1] : root[y] = root[p2]
    BY <1>1, <2>1 DEF PairFits
  <2>3. root[p1] = p1
    BY <1>3, <1>4, <2>1, <2>2
  <2>4. QED
    BY <1>4, <2>2, <2>3
<1>5. ASSUME u = root[p2], v = root[p1], u \in Spilling
      PROVE  \E y \in graph.mov[u] : root[y] = v
  <2>1. p2 \in Spilling
    BY <1>1, <1>2, <1>5
  <2>2. PICK y \in graph.mov[p2] : root[y] = root[p1]
    BY <1>1, <2>1 DEF PairFits
  <2>3. root[p2] = p2
    BY <1>3, <1>5, <2>1, <2>2
  <2>4. QED
    BY <1>5, <2>2, <2>3
<1>6. ASSUME v \in Spilling
      PROVE  u \in Spilling /\ u \in graph.mov[v] /\ v \in graph.mov[u]
  <2>1. u = root[p1] /\ v = root[p2] /\ v \notin Machine
    BY <1>2, <1>6
  <2>2. p2 \in Spilling
    BY <1>1, <1>2, <1>6, <2>1
  <2>3. p1 \in Spilling
    <3>1. p1 \notin Machine
      BY <1>2, <2>1
    <3>2. QED
      BY <1>1, <2>2, <3>1 DEF PairFits
  <2>4. PICK y \in graph.mov[p2] : root[y] = u
    BY <1>1, <2>1, <2>2 DEF PairFits
  <2>5. PICK x \in graph.mov[p1] : root[x] = v
    BY <1>1, <2>1, <2>3 DEF PairFits
  <2>6. root[p2] = p2 /\ root[p1] = p1
    BY <1>3, <2>1, <2>2, <2>3, <2>4, <2>5
  <2>7. y = p1
    <3>1. y \in Node /\ p2 \in graph.mov[y]
      BY <1>1, <2>4, SpillFacts
    <3>2. y \in Spilling
      BY <1>2, <2>1, <2>3, <2>4, <2>6, <3>1
    <3>3. root[y] = y
      BY <1>3, <2>1, <2>4, <3>1, <3>2
    <3>4. QED
      BY <2>1, <2>4, <2>6, <3>3
  <2>8. p1 \in graph.mov[p2] /\ p2 \in graph.mov[p1]
    BY <1>1, <2>4, <2>7, SpillFacts
  <2>9. QED
    BY <2>1, <2>3, <2>6, <2>8
<1>7. QED
  BY <1>4, <1>5, <1>6

LEMMA MergeFit ==
  ASSUME IInv, SpillInv, phase = "coalesce", graph' = graph,
         NEW u \in remain, NEW v \in Live, u # v, Merge(u, v), TemporariesFit,
         u \in Spilling => \E y \in graph.mov[u] : root[y] = v,
         v \in Spilling => u \in Spilling /\ u \in graph.mov[v] /\ v \in graph.mov[u]
  PROVE  FitInv'
<1>1. /\ u \in Node /\ v \in Node /\ Spilling \subseteq Node /\ root[u] = u /\ root[v] = v
      /\ \A x \in Node : root'[x] = IF root[x] = u THEN v ELSE root[x]
      /\ remain' = remain \ {u}
      /\ \A x \in Spilling : graph.mov[x] \subseteq Node
      /\ \A x \in Spilling : \A y, z \in graph.mov[x] : y = z
  BY SpillFacts, Registers DEF Merge, Live, TemporariesFit, OneMove
<1>2. /\ \A x \in Node \ Spilling : root[x] \notin Spilling
      /\ \A x \in Spilling : root[x] = x \/ \E y \in graph.mov[x] : root[x] = root[y]
      /\ \A x \in Spilling \cap remain : mov[x] \subseteq {root[y] : y \in graph.mov[x]}
      /\ \A x, y \in Spilling : y \in adj[x] => Near(x, y)
  BY DEF SpillInv, FitInv
<1>3. \A x \in Node \ Spilling : root'[x] \notin Spilling
  BY <1>1, <1>2
<1>4. ASSUME NEW x \in Spilling
      PROVE  root'[x] = x \/ \E y \in graph.mov[x] : root'[x] = root'[y]
  <2>1. CASE x = u
    BY <1>1, <2>1
  <2>2. CASE x # u
    BY <1>1, <1>2, <2>2
  <2>3. QED
    BY <2>1, <2>2
<1>5. ASSUME NEW x \in Spilling \cap remain', NEW m \in mov'[x]
      PROVE  \E y \in graph.mov[x] : root'[y] = m
  <2>1. x \in Node /\ x # u /\ x \in remain
    BY <1>1
  <2>2. CASE x = v
    <3>1. mov'[v] = (mov[v] \cup mov[u]) \ {u, v}
      BY <1>1 DEF Merge
    <3>2. graph.mov[v] = {u} /\ graph.mov[u] = {v}
      BY <1>1, <2>2
    <3>3. mov[v] \subseteq {u} /\ mov[u] \subseteq {v}
      BY <1>1, <1>2, <2>1, <2>2, <3>2
    <3>4. QED
      BY <1>5, <2>2, <3>1, <3>3
  <2>3. CASE x # v /\ m \in mov[x] /\ m # u
    <3>1. PICK y \in graph.mov[x] : root[y] = m
      BY <1>2, <2>1, <2>3
    <3>2. QED
      BY <1>1, <2>3, <3>1
  <2>4. CASE x # v /\ x \in mov[u] /\ m = v
    <3>1. u \in mov[x]
      BY <1>1, <2>1, <2>4, SpillFacts
    <3>2. PICK y \in graph.mov[x] : root[y] = u
      BY <1>2, <2>1, <3>1
    <3>3. QED
      BY <1>1, <2>4, <3>2
  <2>5. mov'[x] = IF x = v THEN (mov[v] \cup mov[u]) \ {u, v}
                  ELSE IF x \in mov[u] THEN (mov[x] \ {u}) \cup {v} ELSE mov[x]
    BY <2>1 DEF Merge
  <2>6. u \in mov[x] <=> x \in mov[u]
    BY <1>1, <2>1, SpillFacts
  <2>7. QED
    BY <1>5, <2>2, <2>3, <2>4, <2>5, <2>6
<1>6. ASSUME NEW x \in Spilling, NEW y \in Spilling, y \in adj'[x]
      PROVE  Near(x, y)
  <2>1. /\ x \in Node /\ y \in Node /\ (x \in adj[u] <=> u \in adj[x])
    BY <1>1, SpillFacts
  <2>2. adj'[x] = IF x = u THEN {} ELSE IF x = v THEN adj[v] \cup adj[u]
                  ELSE IF x \in adj[u] THEN (adj[x] \ {u}) \cup {v} ELSE adj[x]
    BY <2>1 DEF Merge
  \* u and v count as one.
  <2>3. ASSUME v \in Spilling, NEW z, Near(u, z) \/ Near(z, u)
        PROVE  Near(v, z) \/ Near(z, v)
    <3>1. Joined(u) = {u, v} /\ Joined(v) = {u, v}
      BY <1>1, <2>3 DEF Joined
    <3>2. QED
      BY <2>3, <3>1 DEF Near
  <2>4. ASSUME NEW s \in Spilling, NEW t \in Spilling, Near(s, t)
        PROVE  Near(t, s)
    <3>1. Joined(s) \subseteq Node /\ Joined(t) \subseteq Node
      BY <1>1 DEF Joined
    <3>2. QED
      BY <2>4, <3>1, SpillFacts DEF Near
  <2>5. CASE y \in adj[x]
    BY <1>2, <2>5
  <2>6. CASE x = v /\ y \in adj[u]
    <3>1. Near(u, y)
      BY <1>2, <2>6
    <3>2. QED
      BY <2>3, <2>4, <2>6, <3>1
  <2>7. CASE y = v /\ x \in adj[u]
    <3>1. Near(u, x)
      BY <1>2, <2>7
    <3>2. QED
      BY <2>3, <2>4, <2>7, <3>1
  <2>8. QED
    BY <1>6, <2>2, <2>5, <2>6, <2>7
<1>7. \A x, y : Near(x, y)' <=> Near(x, y)
  BY FrozenGraph
<1>8. QED
  BY <1>3, <1>4, <1>5, <1>6, <1>7 DEF FitInv

LEMMA MergeSpill ==
  ASSUME IInv, SpillInv, phase = "coalesce", NEW pair \in pairs,
         NEW a, NEW b, a = root[pair[1]], b = root[pair[2]],
         a # b, ~(a \in Machine /\ b \in Machine), b \notin adj[a], ConservativeCheck(a, b),
         NEW u, NEW v, u = IF a \in Machine THEN b ELSE a, v = IF a \in Machine THEN a ELSE b,
         Merge(u, v), pairs' \subseteq pairs, merged', UNCHANGED <<graph, spilled, phase>>
  PROVE  SpillInv'
<1>1. a \in Live /\ b \in Live /\ a \notin IdleMachine /\ b \notin IdleMachine
  BY DEF IInv, Running, PairInv, SpillInv, GoodPairs, PairGood
<1>2. u \in remain /\ v \in Live /\ u # v /\ u \notin Machine /\ v \notin IdleMachine
  BY <1>1, Registers DEF Live
<1>3. u \in Node /\ v \in Node /\ v \notin adj[u] /\ IdleMachine \subseteq Node
  BY <1>1, <1>2, SpillFacts, Registers DEF IdleMachine
<1>4. IdleInv'
  <2>1. ASSUME NEW m \in IdleMachine PROVE adj'[m] = {} /\ mov'[m] = {}
    <3>1. m \in Node /\ m # u /\ m # v /\ adj[m] = {} /\ mov[m] = {}
      BY <1>2, <1>3 DEF SpillInv, IdleInv, IdleMachine
    <3>2. m \notin adj[u] /\ m \notin mov[u]
      BY <1>3, <3>1, SpillFacts
    <3>3. QED
      BY <3>1, <3>2 DEF Merge
  <2>2. QED
    BY <2>1, FrozenGraph DEF IdleInv
<1>5. ElimInv'
  <2>1. CASE NoMachine /\ Degenerate
    <3>1. a \notin Machine /\ b \notin Machine
      BY <1>1, <2>1 DEF NoMachine, IdleMachine
    <3>2. u = a /\ v = b /\ v \in remain
      BY <1>1, <3>1 DEF Live
    <3>3. QED
      BY <1>2, <1>3, <3>2, MergeElim DEF SpillInv
  <2>2. CASE ~(NoMachine /\ Degenerate)
    BY <2>2, FrozenGraph DEF ElimInv
  <2>3. QED
    BY <2>1, <2>2
<1>6. FitInv'
  <2>1. CASE TemporariesFit
    <3>1. \/ u = root[pair[1]] /\ v = root[pair[2]]
          \/ u = root[pair[2]] /\ v = root[pair[1]] /\ v \in Machine
      OBVIOUS
    <3>2. /\ u \in Spilling => \E y \in graph.mov[u] : root[y] = v
          /\ v \in Spilling => u \in Spilling /\ u \in graph.mov[v] /\ v \in graph.mov[u]
      BY <1>2, <2>1, <3>1, TemporaryPartner
    <3>3. QED
      BY <1>2, <2>1, <3>2, MergeFit
  <2>2. CASE ~TemporariesFit
    BY <2>2, FrozenGraph DEF FitInv
  <2>3. QED
    BY <2>1, <2>2
<1>7. GoodPairs'
  <2> SUFFICES ASSUME NEW p \in pairs PROVE PairGood(p)'
    BY DEF GoodPairs
  <2>1. p[1] \in Node /\ p[2] \in Node /\ PairGood(p)
    BY DEF IInv, TypeOK, SpillInv, GoodPairs
  <2>2. \A x \in Node : root'[x] = IF root[x] = u THEN v ELSE root[x]
    BY DEF Merge
  <2>3. root'[p[1]] \notin IdleMachine /\ root'[p[2]] \notin IdleMachine
    BY <1>2, <2>1, <2>2 DEF PairGood
  <2>4. PairFits(p) => PairFits(p)'
    <3>1. \A x \in Node : graph.mov[x] \subseteq Node
      BY SpillFacts
    <3>2. QED
      BY <2>1, <2>2, <3>1 DEF PairFits
  <2>5. QED
    BY <2>1, <2>3, <2>4, FrozenGraph DEF PairGood
<1>8. RemainInv'
  BY DEF SpillInv, RemainInv, Merge
<1>9. QED
  BY <1>4, <1>5, <1>6, <1>7, <1>8 DEF SpillInv

-----------------------------------------------------------------------------
(* Every step *)

LEMMA SpillNext == IInv /\ SpillInv /\ [Next]_vars => SpillInv'
<1> SUFFICES ASSUME IInv, SpillInv, [Next]_vars PROVE SpillInv'
  OBVIOUS
<1>0. IdleInv /\ ElimInv /\ FitInv /\ GoodPairs /\ RemainInv
  BY DEF SpillInv
<1>1. CASE Prune
  <2>1. \A m \in IdleMachine : mov'[m] = {}
    BY <1>0, <1>1, Registers DEF Prune, IdleInv, IdleMachine
  <2>2. IdleInv' /\ ElimInv' /\ FitInv' /\ GoodPairs'
    BY <1>0, <1>1, <2>1, SameGraph DEF Prune
  <2>3. QED
    BY <1>0, <1>1, <2>2 DEF SpillInv, RemainInv, Prune
<1>2. CASE Simplified
  <2>1. phase' = "coalesce" => \A p \in pairs' : PairGood(p)
    BY <1>2, PairsGood DEF Simplified, Live
  <2>2. IdleInv' /\ ElimInv' /\ FitInv' /\ GoodPairs'
    BY <1>0, <1>2, <2>1, SameGraph DEF Simplified
  <2>3. QED
    BY <1>0, <1>2, <2>2 DEF SpillInv, RemainInv, Simplified
<1>3. CASE Coalesced
  <2>1. IdleInv' /\ ElimInv' /\ FitInv' /\ GoodPairs'
    BY <1>0, <1>3, SameGraph DEF Coalesced
  <2>2. QED
    BY <1>0, <1>3, <2>1 DEF SpillInv, RemainInv, Coalesced
<1>4. ASSUME NEW x \in Pseudo, Simplify(x) PROVE SpillInv'
  <2>1. IdleInv' /\ ElimInv' /\ FitInv' /\ GoodPairs'
    BY <1>0, <1>4, Removed DEF Simplify, Simplifiable
  <2>2. QED
    BY <1>0, <1>4, <2>1 DEF SpillInv, RemainInv, Simplify
<1>5. ASSUME NEW x \in Pseudo, Freeze(x) PROVE SpillInv'
  <2>1. IdleInv' /\ ElimInv' /\ FitInv' /\ GoodPairs'
    BY <1>0, <1>5, SameGraph DEF Freeze
  <2>2. QED
    BY <1>0, <1>5, <2>1 DEF SpillInv, RemainInv, Freeze
<1>6. ASSUME NEW x \in Pseudo, Spill(x) PROVE SpillInv'
  <2>1. ~(NoMachine /\ Degenerate)
    BY <1>6, SpillNeeded
  <2>2. IdleInv' /\ ElimInv' /\ FitInv' /\ GoodPairs'
    BY <1>0, <1>6, <2>1, Removed DEF Spill
  <2>3. QED
    BY <1>0, <1>6, <2>2 DEF SpillInv, RemainInv, Spill
<1>7. ASSUME NEW pair \in pairs, Coalesce(pair) PROVE SpillInv'
  <2> DEFINE a == root[pair[1]]
             b == root[pair[2]]
             u == IF a \in Machine THEN b ELSE a
             v == IF a \in Machine THEN a ELSE b
             joins == a # b /\ ~(a \in Machine /\ b \in Machine) /\ b \notin adj[a] /\ ConservativeCheck(a, b)
  <2>1. /\ phase = "coalesce" /\ pairs' \subseteq pairs
        /\ UNCHANGED <<graph, history, spilled, colour, phase>>
        /\ joins => Merge(u, v) /\ merged'
        /\ ~joins => UNCHANGED <<adj, mov, remain, root>> /\ (merged => merged')
    BY <1>7 DEF Coalesce
  <2>2. CASE joins
    <3> HIDE DEF u, v, a, b
    <3>1. /\ a = root[pair[1]] /\ b = root[pair[2]] /\ u = (IF a \in Machine THEN b ELSE a)
          /\ v = (IF a \in Machine THEN a ELSE b)
      BY DEF u, v, a, b
    <3>2. QED
      BY <2>1, <2>2, <3>1, MergeSpill
  <2>3. CASE ~joins
    <3> HIDE DEF joins
    <3>1. IdleInv' /\ ElimInv' /\ FitInv' /\ GoodPairs'
      BY <1>0, <2>1, <2>3, SameGraph
    <3>2. QED
      BY <1>0, <2>1, <2>3, <3>1 DEF SpillInv, RemainInv
  <2>4. QED
    BY <2>2, <2>3
<1>8. ASSUME NEW c \in Allocable, Select(c) PROVE SpillInv'
  <2>1. IdleInv' /\ ElimInv' /\ FitInv' /\ GoodPairs'
    BY <1>0, <1>8, SameGraph DEF Select
  <2>2. QED
    BY <1>0, <1>8, <2>1 DEF SpillInv, RemainInv, Select
<1>9. CASE Finish
  <2>1. IdleInv' /\ ElimInv' /\ FitInv' /\ GoodPairs'
    BY <1>0, <1>9, SameGraph DEF Finish
  <2>2. QED
    BY <1>0, <1>9, <2>1 DEF SpillInv, RemainInv, Finish
<1>10. CASE UNCHANGED vars
  <2>1. \A p : PairGood(p)' <=> PairGood(p)
    BY <1>10, FrozenGraph DEF vars, PairGood, PairFits
  <2>2. QED
    BY <1>0, <1>10, <2>1, FrozenGraph DEF vars, SpillInv, IdleInv, ElimInv, FitInv, GoodPairs, RemainInv
<1>11. QED
  BY <1>1, <1>2, <1>3, <1>4, <1>5, <1>6, <1>7, <1>8, <1>9, <1>10 DEF Next, Step, Stopped

\* Where no machine register is in the way, a graph that simplification alone
\* can take apart is allocated without a spill, whatever is coalesced and frozen.
THEOREM NeverSpillsNeedlessly == Spec => []NoNeedlessSpill
<1>1. SpillInv => NoNeedlessSpill
  BY DEF SpillInv, ElimInv, NoNeedlessSpill
<1>2. QED
  BY <1>1, IInvInit, IInvNext, SpillInit, SpillNext, PTL DEF Spec

\* assert(spill_node != -1) holds wherever the temporaries of spill code and
\* the machine registers in use leave a colour: some register that is not a
\* temporary is left to spill.
THEOREM SpillsSomething == Spec => [](TemporariesFit => CanSpill)
<1>1. IInv /\ SpillInv => (TemporariesFit => CanSpill)
  <2> SUFFICES ASSUME IInv, SpillInv, TemporariesFit, phase = "freeze",
                      \A y \in remain : ~Low(y), remain \subseteq Spilling
               PROVE  FALSE
    BY DEF CanSpill
  <2>1. remain # {} /\ remain \in SUBSET (Spilling \cap graph.occur)
    BY DEF SpillInv, RemainInv
  <2>2. PICK x \in remain : Cardinality(NearIn(x, remain)) + Cardinality(Machine \ IdleMachine) < K
    BY <2>1 DEF TemporariesFit, ColoursToSpare
  <2>3. x \in Node /\ adj[x] \subseteq Live /\ remain \subseteq Node /\ Machine \subseteq Node
    BY SpillFacts, Registers DEF Live
  <2> DEFINE A == NearIn(x, remain)
             B == Machine \ IdleMachine
  <2>4. adj[x] \subseteq A \cup B
    <3>1. ASSUME NEW y \in adj[x], y \in remain PROVE y \in A
      BY <2>1, <2>3, <3>1, SpillFacts DEF SpillInv, FitInv, NearIn
    <3>2. ASSUME NEW y \in adj[x], y \in Machine PROVE y \in B
      BY <2>3, <3>2, SpillFacts DEF SpillInv, IdleInv
    <3>3. QED
      BY <2>3, <3>1, <3>2 DEF Live
  <2>5. IsFiniteSet(A) /\ IsFiniteSet(B) /\ A \cup B \in SUBSET Node /\ A \cap B = {}
    <3>1. A \in SUBSET remain /\ B \in SUBSET Machine
      BY DEF NearIn
    <3>2. remain \cap Machine = {}
      BY SpillFacts, Registers
    <3>3. QED
      BY <2>3, <3>1, <3>2, Finite, FS_Subset
  <2> HIDE DEF A, B
  <2>6. Cardinality(A \cup B) <= Cardinality(A) + Cardinality(B) /\ Cardinality(A) \in Nat /\ Cardinality(B) \in Nat
    <3>1. Cardinality(A \cup B) = Cardinality(A) + Cardinality(B) - Cardinality(A \cap B)
      BY <2>5, FS_Union
    <3>2. Cardinality(A \cap B) = 0
      BY <2>5, FS_EmptySet
    <3>3. Cardinality(A) \in Nat /\ Cardinality(B) \in Nat
      BY <2>5, FS_CardinalityType
    <3>4. QED
      BY <3>1, <3>2, <3>3
  <2>7. /\ Cardinality(adj[x]) <= Cardinality(A \cup B) /\ Cardinality(adj[x]) \in Nat
        /\ Cardinality(A \cup B) \in Nat
    BY <2>4, <2>5, Sizes
  <2>8. Cardinality(adj[x]) < K
    BY <2>2, <2>6, <2>7, Finite DEF A, B
  <2>9. QED
    BY <2>8 DEF Low, Degree
<1>2. QED
  BY <1>1, IInvInit, IInvNext, SpillInit, SpillNext, PTL DEF Spec
=============================================================================

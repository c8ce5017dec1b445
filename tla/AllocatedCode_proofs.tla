------------------------ MODULE AllocatedCode_proofs -------------------------
(* Machine-checked proofs about AllocatedCode, for every function and every *)
(* run of the allocator that spills nothing: the allocated code computes    *)
(* what the function computes.                                              *)
EXTENDS AllocatedCode, CalcLive_proofs

AllocP == INSTANCE ColoringAlloc_proofs WITH Allocable <- Machine

-----------------------------------------------------------------------------
(* What build() joins in a block *)

\* r is live before instruction i of a block: it is read from there on before
\* it is written, or is neither written and live at the end.
LiveFrom(insts, out, i, r) ==
  \/ \E k \in i .. Len(insts) : r \in insts[k].use /\ \A m \in i .. k - 1 : r \notin insts[m].def
  \/ r \in out /\ \A m \in i .. Len(insts) : r \notin insts[m].def
LiveBefore(insts, out, i) == {r \in Reg : LiveFrom(insts, out, i, r)}

LEMMA InstTypes ==
  ASSUME NEW insts \in Body, NEW i \in 1 .. Len(insts)
  PROVE  insts[i].def \subseteq Reg /\ insts[i].use \subseteq Reg
<1> DEFINE Ins == [def : SUBSET Reg, use : SUBSET Reg]
<1>1. insts \in Seq(Ins) /\ i \in 1 .. Len(insts)
  BY DEF Body
<1>2. insts[i] \in Ins
  <2> HIDE DEF Ins
  <2>1. QED
    BY <1>1
<1>3. QED
  BY <1>2

LEMMA LiveStep ==
  ASSUME NEW insts \in Body, NEW out \in SUBSET Reg, NEW i \in 1 .. Len(insts)
  PROVE  LiveBefore(insts, out, i) = (LiveBefore(insts, out, i + 1) \ insts[i].def) \cup insts[i].use
<1> DEFINE n == Len(insts)
<1>0. n \in Nat /\ i \in 1 .. n
  BY DEF Body
<1>1. insts[i].use \subseteq Reg
  BY InstTypes
<1>2. ASSUME NEW r
      PROVE  LiveFrom(insts, out, i, r) <=> r \in insts[i].use \/ (r \notin insts[i].def /\ LiveFrom(insts, out, i + 1, r))
  <2>0. /\ LiveFrom(insts, out, i, r) <=>
             \/ \E k \in i .. n : r \in insts[k].use /\ \A m \in i .. k - 1 : r \notin insts[m].def
             \/ r \in out /\ \A m \in i .. n : r \notin insts[m].def
        /\ LiveFrom(insts, out, i + 1, r) <=>
             \/ \E k \in i + 1 .. n : r \in insts[k].use /\ \A m \in i + 1 .. k - 1 : r \notin insts[m].def
             \/ r \in out /\ \A m \in i + 1 .. n : r \notin insts[m].def
    BY DEF LiveFrom
  <2> HIDE DEF n
  <2>1. i .. n = {i} \cup (i + 1 .. n) /\ i .. i - 1 = {}
    BY <1>0
  <2>2. \A k \in i + 1 .. n : i .. k - 1 = {i} \cup (i + 1 .. k - 1)
    BY <1>0
  <2>3. QED
    BY <2>0, <2>1, <2>2
<1>3. QED
  BY <1>1, <1>2 DEF LiveBefore

Names(insts, out) == out \cup UNION {insts[i].def \cup insts[i].use : i \in 1 .. Len(insts)}
\* Any two registers of S are joined.
Clique(S, edge) == \A x, y \in S : x # y => <<x, y>> \in edge
Above(insts, k) == IF k = Len(insts) THEN {} ELSE insts[Len(insts) - k].def
\* What the walk has after k instructions.
WalkGood(insts, out, k, s) ==
  /\ s.live = LiveBefore(insts, out, Len(insts) - k + 1)
  /\ Clique(s.live \cup Above(insts, k), s.edge)
  /\ \A x, y : <<x, y>> \in s.edge => <<y, x>> \in s.edge
  /\ s.edge \subseteq Names(insts, out) \X Names(insts, out)

LEMMA WalkStep ==
  ASSUME NEW insts \in Body, NEW out \in SUBSET Reg, NEW k \in 1 .. Len(insts), NEW s,
         WalkGood(insts, out, k - 1, s)
  PROVE  LET t == BuildInst(insts, Len(insts) - k + 1, s)
         IN  WalkGood(insts, out, k, t) /\ s.edge \subseteq t.edge
<1> DEFINE n == Len(insts)
           i == n - k + 1
           t == BuildInst(insts, i, s)
           use == insts[i].use
           kept == s.live \ insts[i].def
           live == kept \cup use
           above == IF i = 1 THEN {} ELSE insts[i - 1].def
<1>0. n \in Nat /\ i \in 1 .. n /\ n - (k - 1) + 1 = i + 1 /\ n - k = i - 1 /\ n - (k - 1) = i
  BY DEF Body
<1>1. /\ t.live = live
      /\ t.edge = s.edge \cup Meet(use \ kept, live) \cup Meet(above \ live, live) \cup Meet(use \cup above, use \cup above)
  BY DEF BuildInst
<1>2. Above(insts, k) = above /\ Above(insts, k - 1) = insts[i].def
  BY <1>0 DEF Above
<1>3. /\ s.live = LiveBefore(insts, out, i + 1)
      /\ Clique(s.live \cup insts[i].def, s.edge)
      /\ \A x, y : <<x, y>> \in s.edge => <<y, x>> \in s.edge
      /\ s.edge \subseteq Names(insts, out) \X Names(insts, out)
  BY <1>0, <1>2 DEF WalkGood
<1>4. live = LiveBefore(insts, out, i)
  BY <1>0, <1>3, LiveStep
<1>5. use \cup above \subseteq Names(insts, out)
  BY <1>0 DEF Names
<1>6. LiveBefore(insts, out, i) \subseteq Names(insts, out)
  BY <1>0 DEF LiveBefore, LiveFrom, Names
<1> HIDE DEF i, use, above, n, t
<1>7. Clique(live \cup above, t.edge)
  BY <1>1, <1>3 DEF Clique, Meet
<1>8. \A x, y : <<x, y>> \in t.edge => <<y, x>> \in t.edge
  BY <1>1, <1>3 DEF Meet
<1>9. t.edge \subseteq Names(insts, out) \X Names(insts, out)
  BY <1>1, <1>3, <1>4, <1>5, <1>6 DEF Meet
<1>10. s.edge \subseteq t.edge
  BY <1>1
<1>11. QED
  BY <1>0, <1>1, <1>2, <1>4, <1>7, <1>8, <1>9, <1>10 DEF WalkGood, t, i, n

\* An instruction's results are joined with each other and with what is live
\* after it.
LEMMA BlockJoined ==
  ASSUME NEW insts \in Body, NEW out \in SUBSET Reg
  PROVE  /\ \A i \in 1 .. Len(insts) :
              Clique(LiveBefore(insts, out, i + 1) \cup insts[i].def, BlockEdges(insts, out))
         /\ \A x, y : <<x, y>> \in BlockEdges(insts, out) => <<y, x>> \in BlockEdges(insts, out)
         /\ BlockEdges(insts, out) \subseteq Names(insts, out) \X Names(insts, out)
<1> DEFINE n == Len(insts)
           end == out \cup (IF n = 0 THEN {} ELSE insts[n].def)
           first == [live |-> out, edge |-> Meet(end, end)]
           Eq(f) == f = [k \in 0 .. n |-> IF k = 0 THEN first ELSE BuildInst(insts, n - k + 1, f[k - 1])]
           built == CHOOSE f : Eq(f)
           S == [live : SUBSET Reg, edge : SUBSET (Reg \X Reg)]
           g == [p \in Nat \X S |-> IF p[1] \in 1 .. n THEN BuildInst(insts, n - p[1] + 1, p[2]) ELSE p[2]]
<1>0. n \in Nat /\ \A i \in 1 .. n : insts[i].def \subseteq Reg /\ insts[i].use \subseteq Reg
  <2>1. n \in Nat
    BY DEF Body
  <2>2. QED
    BY <2>1, InstTypes
<1>1. first \in S
  BY <1>0 DEF Meet
<1>2. g \in [Nat \X S -> S]
  <2> SUFFICES ASSUME NEW k \in 1 .. n, NEW s \in S PROVE BuildInst(insts, n - k + 1, s) \in S
    OBVIOUS
  <2> DEFINE i == n - k + 1
  <2>1. i \in 1 .. n /\ (i # 1 => i - 1 \in 1 .. n)
    BY <1>0
  <2>2. s.live \subseteq Reg /\ s.edge \subseteq Reg \X Reg
    OBVIOUS
  <2> HIDE DEF i, n, S
  <2>3. /\ BuildInst(insts, i, s).live \subseteq Reg
        /\ BuildInst(insts, i, s).edge \subseteq Reg \X Reg
        /\ BuildInst(insts, i, s) = [live |-> BuildInst(insts, i, s).live, edge |-> BuildInst(insts, i, s).edge]
    BY <1>0, <2>1, <2>2 DEF BuildInst, Meet
  <2>4. QED
    BY <2>3 DEF S, i
<1> HIDE DEF g, S, first
<1>3. PICK h \in [Nat -> S] : Recurs(h, first, g)
  BY <1>1, <1>2, NatRecursion
<1>4. \E f : Eq(f)
  <2> DEFINE f == [k \in 0 .. n |-> h[k]]
  <2>1. ASSUME NEW k \in 1 .. n PROVE h[k] = BuildInst(insts, n - k + 1, h[k - 1])
    <3>1. k \in Nat \ {0} /\ k - 1 \in Nat /\ <<k, h[k - 1]>> \in Nat \X S
      BY <1>0
    <3>2. h[k] = g[<<k, h[k - 1]>>]
      BY <1>3, <3>1 DEF Recurs
    <3>3. QED
      BY <3>1, <3>2 DEF g
  <2>2. h[0] = first
    BY <1>3 DEF Recurs
  <2>3. \A k \in 0 .. n : f[k] = IF k = 0 THEN first ELSE BuildInst(insts, n - k + 1, f[k - 1])
    <3> TAKE k \in 0 .. n
    <3>1. CASE k = 0
      BY <2>2, <3>1
    <3>2. CASE k # 0
      <4>1. k \in 1 .. n /\ k - 1 \in 0 .. n
        BY <1>0, <3>2
      <4>2. QED
        BY <2>1, <3>2, <4>1
    <3>3. QED
      BY <3>1, <3>2
  <2>4. Eq(f)
    BY <2>3
  <2>5. QED
    BY <2>4
<1>5. Eq(built)
  <2> HIDE DEF Eq
  <2>1. QED
    BY <1>4
<1>6. BlockEdges(insts, out) = built[n].edge
  BY DEF BlockEdges, first
<1> HIDE DEF built
<1>7. built[0] = first /\ \A k \in 1 .. n : built[k] = BuildInst(insts, n - k + 1, built[k - 1])
  <2>1. 0 \in 0 .. n /\ \A k \in 1 .. n : k \in 0 .. n /\ k # 0
    BY <1>0
  <2>2. QED
    BY <1>5, <2>1
<1>8. WalkGood(insts, out, 0, first)
  <2>1. LiveBefore(insts, out, n + 1) = out
    <3>1. n + 1 .. n = {}
      BY <1>0
    <3>2. QED
      BY <3>1 DEF LiveBefore, LiveFrom
  <2>2. out \cup Above(insts, 0) = end /\ end \subseteq Names(insts, out)
    BY <1>0 DEF Above, Names
  <2> HIDE DEF end
  <2>3. first.live = out /\ first.edge = Meet(end, end)
    BY DEF first
  <2>4. n - 0 + 1 = n + 1
    BY <1>0
  <2>5. QED
    BY <2>1, <2>2, <2>3, <2>4 DEF WalkGood, Clique, Meet
<1> DEFINE Good == {k \in Nat : k <= n => WalkGood(insts, out, k, built[k])}
<1>9. Good = Nat
  <2>1. 0 \in Good
    BY <1>7, <1>8
  <2>2. ASSUME NEW k \in Good PROVE k + 1 \in Good
    <3>1. SUFFICES ASSUME k + 1 <= n PROVE WalkGood(insts, out, k + 1, built[k + 1])
      OBVIOUS
    <3>2. k + 1 \in 1 .. n /\ (k + 1) - 1 = k /\ WalkGood(insts, out, k, built[k])
      BY <1>0, <3>1
    <3>3. QED
      BY <1>7, <3>2, WalkStep
  <2> HIDE DEF Good
  <2>3. QED
    BY <2>1, <2>2, NatSet DEF Good
<1>10. \A k \in 0 .. n : WalkGood(insts, out, k, built[k])
  BY <1>0, <1>9
\* An edge once made stays.
<1>11. \A k \in 0 .. n : built[k].edge \subseteq built[n].edge
  <2> DEFINE Kept == {k \in Nat : k <= n => built[n - k].edge \subseteq built[n].edge}
  <2>1. 0 \in Kept
    BY <1>0
  <2>2. ASSUME NEW k \in Kept PROVE k + 1 \in Kept
    <3>1. SUFFICES ASSUME k + 1 <= n PROVE built[n - (k + 1)].edge \subseteq built[n].edge
      OBVIOUS
    <3> DEFINE j == n - k
    <3>2. j \in 1 .. n /\ n - (k + 1) = j - 1 /\ j - 1 \in 0 .. n /\ built[j].edge \subseteq built[n].edge
      BY <1>0, <3>1
    <3> HIDE DEF j
    <3>3. built[j] = BuildInst(insts, n - j + 1, built[j - 1]) /\ WalkGood(insts, out, j - 1, built[j - 1])
      BY <1>7, <1>10, <3>2
    <3>4. built[j - 1].edge \subseteq built[j].edge
      BY <3>2, <3>3, WalkStep
    <3>5. QED
      BY <3>2, <3>4
  <2>3. Kept = Nat
    <3> HIDE DEF Kept
    <3>1. QED
      BY <2>1, <2>2, NatSet DEF Kept
  <2>4. ASSUME NEW k \in 0 .. n PROVE built[k].edge \subseteq built[n].edge
    <3>1. n - k \in Nat /\ n - k <= n /\ n - (n - k) = k
      BY <1>0
    <3>2. n - k \in Kept
      <4> HIDE DEF Kept
      <4>1. QED
        BY <2>3, <3>1
    <3>3. QED
      BY <3>1, <3>2
  <2>5. QED
    BY <2>4
<1>12. ASSUME NEW i \in 1 .. n PROVE Clique(LiveBefore(insts, out, i + 1) \cup insts[i].def, built[n].edge)
  <2>1. n - i \in 0 .. n /\ n - (n - i) = i /\ n - i # n /\ n - (n - i) + 1 = i + 1
    BY <1>0
  <2>2. Clique(LiveBefore(insts, out, i + 1) \cup insts[i].def, built[n - i].edge)
    BY <1>10, <2>1 DEF WalkGood, Above
  <2>3. QED
    BY <1>11, <2>1, <2>2 DEF Clique
<1>13. WalkGood(insts, out, n, built[n])
  BY <1>0, <1>10
<1>14. QED
  BY <1>6, <1>12, <1>13 DEF WalkGood

-----------------------------------------------------------------------------
(* The allocator of AllocatedCode is that of ColoringAlloc_proofs *)

LEMMA SameCardinality ==
  \A S : Alloc!Cardinality(S) = AllocP!Cardinality(S) /\ (AllocP!IsFiniteSet(S) <=> IsFiniteSet(S))
BY DEF Alloc!Cardinality, AllocP!Cardinality, AllocP!IsFiniteSet, IsFiniteSet

LEMMA AllocAssumptions == AllocP!NodeAssumption /\ AllocP!FiniteAssumption /\ AllocP!GraphAssumption
<1>1. AllocP!NodeAssumption /\ AllocP!FiniteAssumption
  BY CodeAssumption, SameCardinality DEF AllocP!NodeAssumption, AllocP!FiniteAssumption
<1>2. AllocP!GraphAssumption
  BY CodeAssumption DEF AllocP!GraphAssumption, AllocP!IsGraph, AllocP!Node, Graphs
<1>3. QED
  BY <1>1, <1>2

LEMMA SameAllocator == Alloc!Step => AllocP!Next
<1> USE DEF Alloc!Node, AllocP!Node, Alloc!None, AllocP!None
<1>1. Alloc!Prune => AllocP!Prune
  BY DEF Alloc!Prune, AllocP!Prune
<1>2. Alloc!Simplified => AllocP!Simplified
  BY SameCardinality DEF Alloc!Simplified, AllocP!Simplified, Alloc!Simplifiable, AllocP!Simplifiable, Alloc!Low, AllocP!Low, Alloc!Degree, AllocP!Degree, Alloc!K, AllocP!K
<1>3. Alloc!Coalesced => AllocP!Coalesced
  BY DEF Alloc!Coalesced, AllocP!Coalesced
<1>4. Alloc!Finish => AllocP!Finish
  BY DEF Alloc!Finish, AllocP!Finish
<1>5. ASSUME NEW x PROVE Alloc!Simplify(x) => AllocP!Simplify(x)
  BY SameCardinality DEF Alloc!Simplify, AllocP!Simplify, Alloc!Simplifiable, AllocP!Simplifiable, Alloc!Low, AllocP!Low, Alloc!Degree, AllocP!Degree, Alloc!K, AllocP!K
<1>6. ASSUME NEW x PROVE Alloc!Freeze(x) => AllocP!Freeze(x)
  BY SameCardinality DEF Alloc!Freeze, AllocP!Freeze, Alloc!Low, AllocP!Low, Alloc!Degree, AllocP!Degree, Alloc!K, AllocP!K
<1>7. ASSUME NEW x PROVE Alloc!Spill(x) => AllocP!Spill(x)
  BY SameCardinality DEF Alloc!Spill, AllocP!Spill, Alloc!Low, AllocP!Low, Alloc!Degree, AllocP!Degree, Alloc!K, AllocP!K
<1>8. ASSUME NEW x PROVE Alloc!Coalesce(x) => AllocP!Coalesce(x)
  BY SameCardinality DEF Alloc!Coalesce, AllocP!Coalesce, Alloc!Merge, AllocP!Merge, Alloc!ConservativeCheck, AllocP!ConservativeCheck, Alloc!Significant, AllocP!Significant, Alloc!Degree, AllocP!Degree, Alloc!K, AllocP!K
<1>9. ASSUME NEW c PROVE Alloc!Select(c) => AllocP!Select(c)
  BY DEF Alloc!Select, AllocP!Select, Alloc!Taken, AllocP!Taken
<1>10. QED
  BY <1>1, <1>2, <1>3, <1>4, <1>5, <1>6, <1>7, <1>8, <1>9 DEF Alloc!Step, AllocP!Step, AllocP!Next

\* One run of the allocator keeps the invariant that is proved of it.
LEMMA AllocInit == AllocP!Init => AllocP!IInv
BY AllocP!IInvInit, AllocAssumptions

LEMMA AllocNext == AllocP!IInv /\ (Alloc!Step \/ UNCHANGED allocVars) => AllocP!IInv'
<1>1. UNCHANGED allocVars => UNCHANGED AllocP!vars
  BY DEF allocVars, AllocP!vars
<1>2. AllocP!IInv /\ [AllocP!Next]_(AllocP!vars) => AllocP!IInv'
  BY AllocP!IInvNext, AllocAssumptions
<1>3. QED
  BY <1>1, <1>2, SameAllocator

-----------------------------------------------------------------------------
(* The graphs of build() *)

\* Only what some instruction reads is ever live.
LEMMA LiveOccurs ==
  ASSUME IInv, BlocksScanned, NEW b \in Block
  PROVE  live_in[b] \cup live_out[b] \subseteq Occur
<1>0. TypeOK /\ Sound
  BY DEF IInv
<1>1. ASSUME NEW x \in Block, NEW r \in live_in[x] PROVE r \in Occur
  <2>0. r \in Reg /\ LiveAtStart(x, r) /\ func \in Funcs
    BY <1>0, <1>1 DEF TypeOK, Sound
  <2>1. ~Closed({}, r)
    BY <2>0 DEF LiveAtStart
  <2>2. PICK y \in Block : r \in live_use[y]
    BY <2>1 DEF Closed
  <2>3. UsesFirst(y, r)
    BY <2>0, <2>2, ScanMeans
  <2>4. QED
    BY <2>0, <2>3 DEF UsesFirst, Occur
<1>2. \A r \in live_out[b] : \E x \in Block : r \in live_in[x]
  BY <1>0 DEF Sound
<1>3. QED
  BY <1>1, <1>2

LEMMA NamesOccur ==
  ASSUME IInv, BlocksScanned, NEW b \in Block
  PROVE  /\ func.insts[b] \in Body /\ live_out[b] \in SUBSET Reg
         /\ Names(func.insts[b], live_out[b]) \subseteq Occur
<1>1. func \in Funcs /\ live_out[b] \in SUBSET Reg /\ live_out[b] \subseteq Occur
  BY LiveOccurs DEF IInv, TypeOK
<1>2. func.insts[b] \in Body
  BY <1>1, FuncsAssumption DEF Body
<1> DEFINE insts == func.insts[b]
<1>3. \A i \in 1 .. Len(insts) : insts[i].def \cup insts[i].use \subseteq Reg
  BY <1>2, InstTypes
<1>4. DOMAIN insts = 1 .. Len(insts)
  BY <1>2 DEF Body
<1>5. Names(insts, live_out[b]) \subseteq Occur
  BY <1>1, <1>3, <1>4 DEF Names, Occur
<1>6. QED
  BY <1>1, <1>2, <1>5

\* build() makes what the allocator expects, and whatever calc_live finds live
\* after an instruction interferes with its results.
LEMMA BuiltEdges ==
  ASSUME IInv, BlocksScanned
  PROVE  /\ Built \in Graphs
         /\ \A b \in Block : \A i \in 1 .. Len(func.insts[b]) :
              LET met == LiveBefore(func.insts[b], live_out[b], i + 1) \cup func.insts[b][i].def
              IN  \A x, y \in met : x # y => y \in Built.adj[x]
<1> DEFINE edges == UNION {BlockEdges(func.insts[b], live_out[b]) : b \in Block}
           move(x, y) == \E b \in Block : \E i \in func.moves[b] : IsMove(b, i, x, y) \/ IsMove(b, i, y, x)
<1>1. ASSUME NEW b \in Block
      PROVE  LET insts == func.insts[b]
                 made == BlockEdges(insts, live_out[b])
             IN  /\ \A i \in 1 .. Len(insts) : Clique(LiveBefore(insts, live_out[b], i + 1) \cup insts[i].def, made)
                 /\ \A x, y : <<x, y>> \in made => <<y, x>> \in made
                 /\ made \subseteq Occur \X Occur
  <2> DEFINE insts == func.insts[b]
             made == BlockEdges(insts, live_out[b])
  <2>1. insts \in Body /\ live_out[b] \in SUBSET Reg /\ Names(insts, live_out[b]) \subseteq Occur
    BY NamesOccur
  <2> HIDE DEF insts
  <2>2. /\ \A i \in 1 .. Len(insts) : Clique(LiveBefore(insts, live_out[b], i + 1) \cup insts[i].def, made)
        /\ \A x, y : <<x, y>> \in made => <<y, x>> \in made
        /\ made \subseteq Names(insts, live_out[b]) \X Names(insts, live_out[b])
    BY <2>1, BlockJoined
  <2>3. QED
    BY <2>1, <2>2 DEF insts
<1>2. /\ Built.adj = [x \in Reg |-> {y \in Reg \ {x} : <<x, y>> \in edges}]
      /\ Built.mov = [x \in Reg |-> {y \in Reg \ {x} : move(x, y)}]
      /\ Built.occur = Occur \cap Pseudo
      /\ Built = [adj |-> Built.adj, mov |-> Built.mov, occur |-> Built.occur]
  BY DEF Built
<1>3. Occur \subseteq Reg /\ Occur \subseteq (Occur \cap Pseudo) \cup Machine
  BY CodeAssumption DEF Occur
<1>4. edges \subseteq Occur \X Occur /\ \A x, y : <<x, y>> \in edges => <<y, x>> \in edges
  BY <1>1
<1>5. \A x, y \in Reg : move(x, y) => y \in Occur
  <2>1. \A b \in Block : func.moves[b] \subseteq DOMAIN func.insts[b]
    BY CodeAssumption DEF IInv, TypeOK
  <2>2. QED
    BY <2>1 DEF IsMove, Occur
<1>6. \A x, y : move(x, y) => move(y, x)
  OBVIOUS
<1>7. Built \in Graphs
  <2> HIDE DEF edges, move
  <2>1. /\ Built.adj \in [Reg -> SUBSET Reg] /\ Built.mov \in [Reg -> SUBSET Reg] /\ Built.occur \in SUBSET Pseudo
    BY <1>2
  <2>2. \A x, y \in Reg : /\ x \in Built.adj[y] => y \in Built.adj[x]
                          /\ x \in Built.mov[y] => y \in Built.mov[x]
                          /\ x \notin Built.adj[x]
                          /\ Built.adj[x] \cup Built.mov[x] \subseteq Built.occur \cup Machine
    <3> TAKE x, y \in Reg
    <3>1. \A u, w \in Reg : /\ u \in Built.adj[w] <=> u # w /\ <<w, u>> \in edges
                            /\ u \in Built.mov[w] <=> u # w /\ move(w, u)
      BY <1>2
    <3>2. Built.adj[x] \subseteq Reg /\ Built.mov[x] \subseteq Reg /\ Occur \subseteq Built.occur \cup Machine
      BY <1>2, <1>3
    <3>3. Built.adj[x] \cup Built.mov[x] \subseteq Occur
      BY <1>4, <1>5, <3>1, <3>2
    <3>4. QED
      BY <1>4, <1>6, <3>1, <3>2, <3>3
  <2>3. Built \in [adj : [Reg -> SUBSET Reg], mov : [Reg -> SUBSET Reg], occur : SUBSET Pseudo]
    BY <1>2, <2>1
  <2>4. QED
    BY <2>2, <2>3 DEF Graphs
<1>8. ASSUME NEW b \in Block, NEW i \in 1 .. Len(func.insts[b]),
             NEW x \in LiveBefore(func.insts[b], live_out[b], i + 1) \cup func.insts[b][i].def,
             NEW y \in LiveBefore(func.insts[b], live_out[b], i + 1) \cup func.insts[b][i].def, x # y
      PROVE  y \in Built.adj[x]
  <2>1. <<x, y>> \in edges
    BY <1>1, <1>8 DEF Clique
  <2>2. x \in Reg /\ y \in Reg
    BY <1>3, <1>4, <2>1
  <2> HIDE DEF edges
  <2>3. QED
    BY <1>2, <1>8, <2>1, <2>2
<1>9. QED
  BY <1>7, <1>8

-----------------------------------------------------------------------------
(* The two runs of the function *)

\* Both runs have the same value of every register that is live.
SameLive ==
  LET b == at[1] IN
    /\ at \in Block \X Nat /\ at[2] \in 1 .. Len(func.insts[b]) + 1
    /\ DOMAIN virt = Occur \cup Machine
    /\ phys \in [Machine -> Val]
    /\ \A r \in LiveBefore(func.insts[b], live_out[b], at[2]) : phys[colour[r]] = virt[r]

CodeInv ==
  /\ IInv /\ BlocksScanned
  /\ stage \in {"calc_live", "allocate", "execute"}
  /\ stage = "calc_live" => phase = "prune" /\ history = <<>> /\ spilled = {} /\ pairs = {} /\ merged = FALSE
  /\ stage # "calc_live" => Finished /\ graph = Built /\ AllocP!IInv
  /\ stage # "execute" => at = <<Entry, 1>>
  /\ stage = "execute" => phase = "done" /\ SameLive

\* What is live in a block occurs.
LEMMA LiveInBlock ==
  ASSUME IInv, BlocksScanned, NEW b \in Block, NEW i \in 1 .. Len(func.insts[b]) + 1
  PROVE  LiveBefore(func.insts[b], live_out[b], i) \subseteq Occur
<1> DEFINE insts == func.insts[b]
           n == Len(insts)
<1>1. insts \in Body /\ Names(insts, live_out[b]) \subseteq Occur
  BY NamesOccur
<1>2. n \in Nat
  BY <1>1 DEF Body
<1>3. \A k \in i .. n : k \in 1 .. n
  BY <1>2
<1>4. LiveBefore(insts, live_out[b], i) \subseteq Names(insts, live_out[b])
  BY <1>3 DEF LiveBefore, LiveFrom, Names
<1>5. QED
  BY <1>1, <1>4

\* What a block reads first, and what it does not write and its successors
\* need, is in live_in.
LEMMA LiveAtEntry ==
  ASSUME IInv, BlocksScanned, NEW b \in Block
  PROVE  LiveBefore(func.insts[b], live_out[b], 1) \subseteq live_in[b]
<1> SUFFICES ASSUME NEW r \in LiveBefore(func.insts[b], live_out[b], 1) PROVE r \in live_in[b]
  OBVIOUS
<1> DEFINE insts == func.insts[b]
<1>0. TypeOK /\ PassedOn /\ func \in Funcs /\ r \in Reg
  BY DEF IInv, TypeOK, LiveBefore
<1>1. insts \in Body /\ DOMAIN insts = 1 .. Len(insts)
  <2>1. insts \in Body
    BY NamesOccur
  <2>2. QED
    BY <2>1 DEF Body
<1>2. UsesFirst(b, r) \/ (r \in live_out[b] /\ \A m \in DOMAIN insts : r \notin insts[m].def)
  BY <1>1 DEF LiveBefore, LiveFrom, UsesFirst
<1>3. CASE UsesFirst(b, r)
  BY <1>0, <1>3, ScanMeans DEF PassedOn
<1>4. CASE r \in live_out[b] /\ \A m \in DOMAIN insts : r \notin insts[m].def
  <2>1. r \notin def[b]
    BY <1>0, <1>4, ScanMeans DEF WritesFirst
  <2>2. QED
    BY <1>0, <1>4, <2>1 DEF PassedOn
<1>5. QED
  BY <1>2, <1>3, <1>4

\* At the end of a block only live_out is live.
LEMMA LiveAtEnd ==
  ASSUME NEW insts \in Body, NEW out \in SUBSET Reg
  PROVE  LiveBefore(insts, out, Len(insts) + 1) = out
<1>1. Len(insts) + 1 .. Len(insts) = {}
  BY DEF Body
<1>2. QED
  BY <1>1 DEF LiveBefore, LiveFrom

LEMMA CodeInvInit == CodeInit => CodeInv
BY IInvInit DEF CodeInit, CodeInv, Init, BlocksScanned

LEMMA KeptByAnalysis == IInv /\ BlocksScanned /\ [Next]_vars => IInv' /\ BlocksScanned'
<1> SUFFICES ASSUME IInv, BlocksScanned, [Next]_vars PROVE BlocksScanned'
  BY IInvNext
<1>1. UNCHANGED <<func, live_use, def>>
  BY DEF Next, Stop, Propagate, vars
<1>2. \A b : LiveUse(func, b)' = LiveUse(func, b) /\ Def(func, b)' = Def(func, b)
  BY <1>1 DEF LiveUse, Def
<1>3. QED
  BY <1>1, <1>2 DEF BlocksScanned

LEMMA AnalyseStep == CodeInv /\ Analyse => CodeInv'
<1> SUFFICES ASSUME CodeInv, Analyse PROVE CodeInv'
  OBVIOUS
<1>1. [Next]_vars
  BY DEF Analyse, Next
<1>2. IInv' /\ BlocksScanned'
  BY <1>1, KeptByAnalysis DEF CodeInv
<1>3. QED
  BY <1>2 DEF CodeInv, Analyse, allocVars

LEMMA BuildStep == CodeInv /\ Build => CodeInv'
<1> SUFFICES ASSUME CodeInv, Build PROVE CodeInv'
  OBVIOUS
<1>1. IInv' /\ BlocksScanned'
  BY KeptByAnalysis DEF Build, CodeInv
<1>2. Built' = Built /\ Finished'
  BY DEF Build, vars, Built, IsMove, Occur, Finished
<1>3. AllocP!Init'
  <2>1. Built \in Graphs
    BY BuiltEdges DEF CodeInv
  <2>2. QED
    BY <2>1, CodeAssumption DEF AllocP!Init, AllocP!Node, AllocP!None, Build, CodeInv
<1>4. (AllocP!Init => AllocP!IInv)'
  BY AllocInit, PTL
<1>5. QED
  BY <1>1, <1>2, <1>3, <1>4 DEF CodeInv, Build

\* What the steps that only run the code leave alone.
LEMMA SameBuilt ==
  ASSUME CodeInv, UNCHANGED vars
  PROVE  /\ IInv' /\ BlocksScanned' /\ Finished' = Finished
         /\ Built' = Built /\ Occur' = Occur
<1>1. IInv' /\ BlocksScanned'
  BY KeptByAnalysis DEF CodeInv
<1>2. QED
  BY <1>1 DEF vars, Built, IsMove, Occur, Finished

LEMMA AllocateStep == CodeInv /\ Allocate => CodeInv'
<1> SUFFICES ASSUME CodeInv, Allocate PROVE CodeInv'
  OBVIOUS
<1>1. IInv' /\ BlocksScanned' /\ Finished' = Finished /\ Built' = Built
  BY SameBuilt DEF Allocate
<1>2. AllocP!IInv'
  BY AllocNext DEF CodeInv, Allocate
<1>3. graph' = graph
  <2>1. AllocP!Next
    BY SameAllocator DEF Allocate
  <2>2. QED
    BY <2>1 DEF AllocP!Next, AllocP!Step, AllocP!Stopped, AllocP!vars, AllocP!Prune, AllocP!Simplified,
                AllocP!Coalesced, AllocP!Finish, AllocP!Simplify, AllocP!Freeze, AllocP!Spill,
                AllocP!Coalesce, AllocP!Select
<1>4. QED
  BY <1>1, <1>2, <1>3 DEF CodeInv, Allocate

\* The colours of a finished run: registers that are live together are apart.
LEMMA ColouredApart ==
  ASSUME CodeInv, phase = "done", stage # "calc_live"
  PROVE  /\ \A x \in Occur \cup Machine : colour[x] \in Machine
         /\ \A x \in Reg : \A y \in Built.adj[x] : colour[x] # colour[y]
<1>1. AllocP!ProperColouring /\ graph = Built
  BY DEF CodeInv, AllocP!IInv
<1>2. Occur \subseteq (Occur \cap Pseudo) \cup Machine /\ Built.occur = Occur \cap Pseudo
  BY CodeAssumption DEF Occur, Built
<1>3. QED
  BY <1>1, <1>2, CodeAssumption DEF AllocP!ProperColouring, AllocP!Node

LEMMA CallStep == CodeInv /\ Call => CodeInv'
<1> SUFFICES ASSUME CodeInv, Call PROVE CodeInv'
  OBVIOUS
<1>1. IInv' /\ BlocksScanned' /\ Finished' = Finished /\ Built' = Built /\ Occur' = Occur
  BY SameBuilt DEF Call
<1>2. AllocP!IInv'
  BY AllocNext DEF CodeInv, Call
<1> DEFINE insts == func.insts[Entry]
<1>3. insts \in Body /\ LiveBefore(insts, live_out[Entry], 1) \subseteq Occur
  <2>1. insts \in Body
    BY NamesOccur, CodeAssumption DEF CodeInv
  <2>2. 1 \in 1 .. Len(insts) + 1
    BY <2>1 DEF Body
  <2>3. QED
    BY <2>1, <2>2, LiveInBlock, CodeAssumption DEF CodeInv
<1>4. SameLive'
  <2>1. /\ func' = func /\ live_out' = live_out /\ colour' = colour /\ at' = at /\ at = <<Entry, 1>>
        /\ phys' \in [Machine -> Val]
        /\ virt' = [r \in Occur \cup Machine |-> phys'[colour[r]]]
    BY DEF Call, CodeInv, vars, allocVars
  <2>2. at \in Block \X Nat /\ at[1] = Entry /\ at[2] = 1 /\ at[2] \in 1 .. Len(insts) + 1
    BY <1>3, <2>1, CodeAssumption DEF Body
  <2> HIDE DEF insts
  <2>3. \A r \in LiveBefore(insts, live_out[Entry], 1) : phys'[colour[r]] = virt'[r]
    BY <1>3, <2>1
  <2>4. QED
    BY <1>1, <2>1, <2>2, <2>3 DEF SameLive, insts
<1>5. QED
  BY <1>1, <1>2, <1>4 DEF CodeInv, Call, allocVars

\* What an instruction writes is apart from everything else that is live after
\* it, so no register that will be read changes but as the function says.
LEMMA ExecuteStep == CodeInv /\ Execute => CodeInv'
<1> SUFFICES ASSUME CodeInv, Execute PROVE CodeInv'
  OBVIOUS
<1> DEFINE b == at[1]
           i == at[2]
           insts == func.insts[b]
           out == live_out[b]
           D == insts[i].def
           after == LiveBefore(insts, out, i + 1)
<1>1. /\ IInv /\ BlocksScanned /\ SameLive /\ phase = "done" /\ stage = "execute" /\ UNCHANGED vars
      /\ UNCHANGED allocVars /\ stage' = stage
  BY DEF Execute, CodeInv
<1>2. IInv' /\ BlocksScanned' /\ Finished' = Finished /\ Built' = Built /\ Occur' = Occur
  BY <1>1, SameBuilt
<1>3. AllocP!IInv'
  BY <1>1, AllocNext DEF CodeInv
<1>4. b \in Block /\ at \in Block \X Nat
  BY <1>1 DEF SameLive
<1>5. insts \in Body /\ out \in SUBSET Reg /\ Names(insts, out) \subseteq Occur
  BY <1>1, <1>4, NamesOccur
<1>6. i \in 1 .. Len(insts) /\ Len(insts) \in Nat
  <2>1. i \in DOMAIN insts
    BY DEF Execute
  <2>2. QED
    BY <1>5, <2>1 DEF Body
<1>7. D \subseteq Occur /\ after \subseteq Occur /\ Occur \subseteq Reg
  <2>1. i + 1 \in 1 .. Len(insts) + 1
    BY <1>6
  <2>2. D \subseteq Names(insts, out)
    BY <1>6 DEF Names
  <2>3. QED
    BY <1>1, <1>4, <1>5, <2>1, <2>2, LiveInBlock DEF Occur
<1>8. LiveBefore(insts, out, i) = (after \ D) \cup insts[i].use
  BY <1>5, <1>6, LiveStep
<1>9. \A x, y \in after \cup D : x # y => colour[x] # colour[y]
  <2>1. \A x, y \in after \cup D : x # y => y \in Built.adj[x]
    BY <1>1, <1>4, <1>6, BuiltEdges
  <2>2. \A x \in Reg : \A y \in Built.adj[x] : colour[x] # colour[y]
    BY <1>1, ColouredApart
  <2>3. QED
    BY <1>7, <2>1, <2>2
<1>10. \A r \in after \cup D : r \in DOMAIN virt /\ colour[r] \in Machine
  BY <1>1, <1>7, ColouredApart DEF SameLive
<1>11. \A r \in LiveBefore(insts, out, i) : phys[colour[r]] = virt[r]
  BY <1>1 DEF SameLive
<1>12. SameOperands
  BY <1>8, <1>11 DEF SameOperands, Inst
<1>13. PICK vals \in [D -> Val] :
         /\ virt' = [r \in DOMAIN virt |-> IF r \in D THEN vals[r] ELSE virt[r]]
         /\ phys' \in [Machine -> Val]
         /\ \A m \in Machine :
              LET mine == {r \in D : colour[r] = m}
              IN  IF mine = {} THEN phys'[m] = phys[m] ELSE phys'[m] \in {vals[r] : r \in mine}
  BY <1>12 DEF Execute, Inst
<1>14. at' = <<b, i + 1>>
  BY DEF Execute
<1> HIDE DEF b, i, insts, out, D, after
<1>15. ASSUME NEW r \in after PROVE phys'[colour[r]] = virt'[r]
  <2> DEFINE m == colour[r]
             mine == {q \in D : colour[q] = m}
  <2>1. m \in Machine /\ r \in DOMAIN virt
    BY <1>10
  <2>2. IF mine = {} THEN phys'[m] = phys[m] ELSE phys'[m] \in {vals[q] : q \in mine}
    BY <1>13, <2>1
  <2>3. \A q \in mine : q = r
    BY <1>9
  <2>4. CASE r \in D
    <3>1. mine = {r}
      BY <2>3, <2>4
    <3>2. phys'[m] = vals[r]
      BY <2>2, <3>1
    <3>3. QED
      BY <1>13, <2>1, <2>4, <3>2
  <2>5. CASE r \notin D
    <3>1. mine = {}
      BY <2>3, <2>5
    <3>2. phys[m] = virt[r]
      BY <1>8, <1>11, <2>5
    <3>3. QED
      BY <1>13, <2>1, <2>2, <2>5, <3>1, <3>2
  <2>6. QED
    BY <2>4, <2>5
<1>16. SameLive'
  <2>1. at' \in Block \X Nat /\ at'[1] = b /\ at'[2] = i + 1 /\ i + 1 \in 1 .. Len(insts) + 1
    BY <1>4, <1>6, <1>14
  <2>2. func'.insts[b] = insts /\ live_out'[b] = out /\ colour' = colour
    BY <1>1 DEF insts, out, vars, allocVars
  <2>3. DOMAIN virt' = Occur \cup Machine
    BY <1>1, <1>13 DEF SameLive
  <2>4. QED
    BY <1>2, <1>13, <1>15, <2>1, <2>2, <2>3 DEF SameLive, after
<1>17. QED
  BY <1>1, <1>2, <1>3, <1>16 DEF CodeInv, allocVars

\* What is live at the start of a successor is live at the end of the block.
LEMMA GotoStep == CodeInv /\ Goto => CodeInv'
<1> SUFFICES ASSUME CodeInv, Goto PROVE CodeInv'
  OBVIOUS
<1> DEFINE b == at[1]
           insts == func.insts[b]
<1>1. /\ IInv /\ BlocksScanned /\ SameLive /\ phase = "done" /\ stage = "execute" /\ UNCHANGED vars
      /\ UNCHANGED allocVars /\ stage' = stage /\ Finished
      /\ virt' = virt /\ phys' = phys
  BY DEF Goto, CodeInv
<1>2. IInv' /\ BlocksScanned' /\ Finished' = Finished /\ Built' = Built /\ Occur' = Occur
  BY <1>1, SameBuilt
<1>3. AllocP!IInv'
  BY <1>1, AllocNext DEF CodeInv
<1>4. PICK s \in Block : <<b, s>> \in func.edge /\ at' = <<s, 1>>
  BY DEF Goto
<1>5. b \in Block
  BY <1>1 DEF SameLive
<1>6. insts \in Body /\ live_out[b] \in SUBSET Reg
  BY <1>1, <1>5, NamesOccur
<1>7. \A r \in live_out[b] : phys[colour[r]] = virt[r]
  <2>1. LiveBefore(insts, live_out[b], Len(insts) + 1) = live_out[b]
    BY <1>6, LiveAtEnd
  <2>2. at[2] = Len(insts) + 1
    BY DEF Goto
  <2>3. QED
    BY <1>1, <2>1, <2>2 DEF SameLive
<1>8. LiveBefore(func.insts[s], live_out[s], 1) \subseteq live_out[b]
  <2>1. LiveBefore(func.insts[s], live_out[s], 1) \subseteq live_in[s]
    BY <1>1, LiveAtEntry
  <2>2. live_in[s] \subseteq live_out[b]
    BY <1>1, <1>4, <1>5 DEF IInv, PassedOn, Finished
  <2>3. QED
    BY <2>1, <2>2
<1>9. SameLive'
  <2>1. at' \in Block \X Nat /\ at'[1] = s /\ at'[2] = 1
    BY <1>4
  <2>2. func.insts[s] \in Body
    BY <1>1, NamesOccur
  <2>3. 1 \in 1 .. Len(func.insts[s]) + 1
    BY <2>2 DEF Body
  <2>4. func' = func /\ live_out' = live_out /\ colour' = colour
    BY <1>1 DEF vars, allocVars
  <2>5. QED
    BY <1>1, <1>2, <1>7, <1>8, <2>1, <2>3, <2>4 DEF SameLive
<1>10. QED
  BY <1>1, <1>2, <1>3, <1>9 DEF CodeInv, allocVars

LEMMA StutterStep == CodeInv /\ UNCHANGED codeVars => CodeInv'
<1> SUFFICES ASSUME CodeInv, UNCHANGED codeVars PROVE CodeInv'
  OBVIOUS
<1>1. UNCHANGED vars /\ UNCHANGED allocVars /\ UNCHANGED <<stage, at, virt, phys>>
  BY DEF codeVars
<1>2. IInv' /\ BlocksScanned' /\ Finished' = Finished /\ Built' = Built /\ Occur' = Occur
  BY <1>1, SameBuilt
<1>3. AllocP!IInv => AllocP!IInv'
  BY <1>1, AllocNext
<1>4. SameLive => SameLive'
  BY <1>1, <1>2 DEF SameLive, vars, allocVars
<1>5. QED
  BY <1>1, <1>2, <1>3, <1>4 DEF CodeInv, allocVars

LEMMA CodeInvNext == CodeInv /\ [CodeNext]_codeVars => CodeInv'
BY AnalyseStep, BuildStep, AllocateStep, CallStep, ExecuteStep, GotoStep, StutterStep
DEF CodeNext, CodeStep, Halt

-----------------------------------------------------------------------------
(* The theorems *)

\* The analysis, the graphs, the colours and the two runs are in step all the
\* time.
THEOREM CodeInvariant == CodeSpec => []CodeInv
BY CodeInvInit, CodeInvNext, PTL DEF CodeSpec

\* Allocated code reads what the function reads: calc_live, build() and the
\* allocator never give the register of something that is read later to what an
\* instruction writes, for every function, every number of registers and every
\* order of the allocator's choices.
THEOREM AllocationKeepsOperands == CodeSpec => []OperandsKept
<1>1. CodeInv => OperandsKept
  <2> SUFFICES ASSUME CodeInv, stage = "execute", at[2] \in DOMAIN func.insts[at[1]] PROVE SameOperands
    BY DEF OperandsKept
  <2> DEFINE b == at[1]
             insts == func.insts[b]
  <2>1. IInv /\ BlocksScanned /\ SameLive /\ b \in Block
    BY DEF CodeInv, SameLive
  <2>2. insts \in Body /\ live_out[b] \in SUBSET Reg
    BY <2>1, NamesOccur
  <2>3. at[2] \in 1 .. Len(insts)
    BY <2>2 DEF Body
  <2> HIDE DEF b, insts
  <2>4. insts[at[2]].use \subseteq LiveBefore(insts, live_out[b], at[2])
    <3> DEFINE i == at[2]
    <3>1. i \in 1 .. Len(insts)
      BY <2>3
    <3> HIDE DEF i
    <3>2. LiveBefore(insts, live_out[b], i) = (LiveBefore(insts, live_out[b], i + 1) \ insts[i].def) \cup insts[i].use
      BY <2>2, <3>1, LiveStep
    <3>3. QED
      BY <3>2 DEF i, insts
  <2>5. QED
    BY <2>1, <2>4 DEF SameLive, SameOperands, Inst, b, insts
<1>2. QED
  BY CodeInvariant, <1>1, PTL

\* build() makes what ColoringAlloc takes for granted of its graphs, from
\* whatever calc_live finds.
THEOREM BuildMakesGraphs == CodeSpec => [](stage # "calc_live" => AllocP!IsGraph(graph))
<1>1. CodeInv => (stage # "calc_live" => AllocP!IsGraph(graph))
  BY DEF CodeInv, AllocP!IInv
<1>2. QED
  BY CodeInvariant, <1>1, PTL

\* To the analysis all this is one run of calc_live: what is proved of CalcLive
\* holds of every variable of it here.
THEOREM AnalysisImplemented == CodeSpec => Spec
<1>1. CodeInit => Init
  BY DEF CodeInit
<1>2. [CodeNext]_codeVars => [Next]_vars
  BY DEF CodeNext, CodeStep, Analyse, Build, Allocate, Call, Execute, Goto, Halt, codeVars, Next
<1>3. QED
  BY <1>1, <1>2, PTL DEF CodeSpec, Spec
=============================================================================

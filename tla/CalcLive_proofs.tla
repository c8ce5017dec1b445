--------------------------- MODULE CalcLive_proofs ---------------------------
(* Machine-checked proofs about CalcLive, for every control-flow graph and *)
(* every content of its blocks.                                            *)
EXTENDS CalcLive, Induction, TLAPS

-----------------------------------------------------------------------------
(* The work list *)

LEMMA IInvInit == Init => IInv
<1> SUFFICES ASSUME Init PROVE IInv
  OBVIOUS
<1>1. TypeOK
  BY DEF Init, TypeOK, LiveUse, Def
<1>2. Sound
  BY <1>1 DEF Init, TypeOK, Sound, LiveAtStart, Closed
<1>3. PassedOn
  BY <1>1 DEF Init, TypeOK, PassedOn
<1>4. QED
  BY <1>1, <1>2, <1>3 DEF IInv

LEMMA IInvNext == IInv /\ [Next]_vars => IInv'
<1> SUFFICES ASSUME IInv, [Next]_vars PROVE IInv'
  OBVIOUS
<1>1. ASSUME NEW b \in Block, NEW r \in Reg, Propagate(b, r) PROVE IInv'
  <2>0. TypeOK /\ Sound /\ PassedOn /\ r \in live_in[b]
    BY <1>1 DEF IInv, PassedOn, Propagate
  <2> DEFINE T == Told(b, r)
             R == Reached(b, r)
  <2>1. /\ \A p \in Block : live_out'[p] = IF p \in T THEN live_out[p] \cup {r}
                                           ELSE live_out[p]
        /\ \A p \in Block : live_in'[p] = IF p \in R THEN live_in[p] \cup {r}
                                          ELSE live_in[p]
        /\ update' = (update \ {<<b, r>>}) \cup (R \X {r})
        /\ func' = func /\ live_use' = live_use /\ def' = def
    BY <1>1 DEF Propagate
  <2>2. /\ T = {p \in Block : <<p, b>> \in func.edge /\ r \notin live_out[p]}
        /\ R = {p \in T : r \notin def[p] /\ r \notin live_in[p]}
    BY DEF Told, Reached, InEdge
  <2> HIDE DEF T, R
  <2>3. TypeOK'
    <3>1. live_out' \in [Block -> SUBSET Reg] /\ live_in' \in [Block -> SUBSET Reg]
      BY <1>1, <2>0 DEF Propagate, TypeOK
    <3>2. update' \subseteq Block \X Reg
      BY <2>0, <2>1, <2>2 DEF TypeOK
    <3>3. QED
      BY <2>0, <2>1, <3>1, <3>2 DEF TypeOK
  <2>4. \A x \in Block, y \in Reg : LiveAtStart(x, y)' <=> LiveAtStart(x, y)
    BY <2>1 DEF LiveAtStart, Closed
  <2>5. ASSUME NEW p \in R PROVE LiveAtStart(p, r)
    <3> SUFFICES ASSUME NEW S \in SUBSET Block, Closed(S, r) PROVE p \in S
      BY DEF LiveAtStart
    <3>1. b \in S
      BY <2>0 DEF Sound, LiveAtStart
    <3>2. QED
      BY <2>2, <3>1 DEF Closed
  <2>6. Sound'
    <3>1. ASSUME NEW x \in Block, NEW y \in live_in'[x] PROVE LiveAtStart(x, y)'
      <4>1. y \in live_in[x] => LiveAtStart(x, y) /\ y \in Reg
        BY <2>0 DEF Sound, TypeOK
      <4>2. y \notin live_in[x] => x \in R /\ y = r
        BY <2>1
      <4>3. LiveAtStart(x, y) /\ y \in Reg
        BY <2>5, <4>1, <4>2
      <4>4. QED
        BY <2>4, <4>3
    <3>2. ASSUME NEW x \in Block, NEW y \in live_out'[x]
          PROVE  \E s \in Block : <<x, s>> \in func.edge /\ y \in live_in'[s]
      <4>1. CASE y \in live_out[x]
        BY <2>0, <2>1, <4>1 DEF Sound
      <4>2. CASE y \notin live_out[x]
        BY <2>0, <2>1, <2>2, <4>2
      <4>3. QED
        BY <4>1, <4>2
    <3>3. QED
      BY <2>1, <3>1, <3>2 DEF Sound
  <2>7. PassedOn'
    <3>1. (\A x \in Block : live_use[x] \subseteq live_in[x])'
      BY <2>0, <2>1 DEF PassedOn
    <3>2. ASSUME NEW u \in update' PROVE u[2] \in live_in'[u[1]]
      <4>1. CASE u \in update
        <5>1. u[1] \in Block /\ u[2] \in live_in[u[1]]
          BY <2>0, <4>1 DEF PassedOn, TypeOK
        <5>2. QED
          BY <2>1, <5>1
      <4>2. CASE u \in R \X {r}
        <5>1. u[1] \in R /\ u[1] \in Block /\ u[2] = r
          BY <2>2, <4>2
        <5>2. QED
          BY <2>1, <5>1
      <4>3. QED
        BY <2>1, <4>1, <4>2
    <3>3. ASSUME NEW p \in Block, NEW x \in Block, NEW y \in live_in'[x],
                 <<p, x>> \in func.edge, <<x, y>> \notin update'
          PROVE  y \in live_out'[p]
      <4>1. CASE x = b /\ y = r
        BY <2>1, <2>2, <3>3, <4>1
      <4>2. CASE ~(x = b /\ y = r)
        <5>1. <<x, y>> \notin update
          BY <2>1, <3>3, <4>2
        <5>2. y \in live_in[x]
          BY <2>1, <3>3
        <5>3. QED
          BY <2>0, <2>1, <3>3, <5>1, <5>2 DEF PassedOn
      <4>3. QED
        BY <4>1, <4>2
    <3>4. (\A p \in Block : \A y \in live_out[p] : y \in def[p] \/ y \in live_in[p])'
      BY <2>0, <2>1, <2>2 DEF PassedOn
    <3>5. QED
      BY <2>1, <3>1, <3>2, <3>3, <3>4 DEF PassedOn
  <2>8. QED
    BY <2>3, <2>6, <2>7 DEF IInv
<1>2. CASE UNCHANGED vars
  <2>1. TypeOK'
    BY <1>2 DEF IInv, TypeOK, vars
  <2>2. \A x \in Block, y \in Reg : LiveAtStart(x, y)' <=> LiveAtStart(x, y)
    BY <1>2 DEF LiveAtStart, Closed, vars
  <2>3. \A x \in Block : \A y \in live_in[x] : y \in Reg
    BY DEF IInv, TypeOK
  <2>4. Sound'
    BY <1>2, <2>2, <2>3 DEF IInv, Sound, vars
  <2>5. PassedOn'
    BY <1>2 DEF IInv, PassedOn, vars
  <2>6. QED
    BY <2>1, <2>4, <2>5 DEF IInv
<1>3. QED
  BY <1>1, <1>2 DEF Next, Stop

\* Types, soundness of what is known and completeness up to the work list
\* hold throughout the analysis.
THEOREM InductiveInvariant == Spec => []IInv
  BY IInvInit, IInvNext, PTL DEF Spec

\* Every variable stays in its range.
THEOREM TypeCorrect == Spec => []TypeOK
<1>1. IInv => TypeOK
  BY DEF IInv
<1>2. QED
  BY InductiveInvariant, <1>1, PTL

\* When the work list is empty, live_in and live_out are the least solution
\* of the data-flow equations, for every control-flow graph.
THEOREM Correct == Spec => []LeastSolution
<1>1. IInv => LeastSolution
  <2> SUFFICES ASSUME IInv, Finished, NEW b \in Block, NEW r \in Reg
               PROVE  /\ r \in live_in[b] <=> LiveAtStart(b, r)
                      /\ r \in live_out[b]
                           <=> \E s \in Block : /\ <<b, s>> \in func.edge
                                                /\ LiveAtStart(s, r)
    BY DEF LeastSolution
  <2>0. TypeOK /\ Sound /\ PassedOn /\ update = {}
    BY DEF IInv, Finished
  <2> DEFINE S == {x \in Block : r \in live_in[x]}
  <2>1. Closed(S, r)
    <3>1. \A x \in Block : r \in live_use[x] => x \in S
      BY <2>0 DEF PassedOn
    <3>2. ASSUME NEW p \in Block, NEW x \in S, <<p, x>> \in func.edge, r \notin def[p]
          PROVE  p \in S
      <4>1. r \in live_out[p]
        BY <2>0, <3>2 DEF PassedOn
      <4>2. QED
        BY <2>0, <3>2, <4>1 DEF PassedOn
    <3>3. QED
      BY <3>1, <3>2 DEF Closed
  <2>2. \A x \in Block : r \in live_in[x] <=> LiveAtStart(x, r)
    <3>1. \A x \in Block : LiveAtStart(x, r) => x \in S
      BY <2>1 DEF LiveAtStart
    <3>2. QED
      BY <2>0, <3>1 DEF Sound
  <2>3. r \in live_out[b] <=> \E s \in Block : <<b, s>> \in func.edge /\ r \in live_in[s]
    BY <2>0 DEF Sound, PassedOn
  <2>4. QED
    BY <2>2, <2>3
<1>2. QED
  BY InductiveInvariant, <1>1, PTL

\* What the work list may still have to do: pairs on it, and pairs not yet found.
Pending == {u \in Block \X Reg : u \in update \/ u[2] \notin live_in[u[1]]}

\* A turn of the work list is done with its pair for good, so that there are at
\* most as many turns as pairs of a block and a register.
THEOREM EachPairOnce == Spec => [][\E u \in Pending : Pending' = Pending \ {u}]_vars
<1>1. IInv /\ [Next]_vars => [\E u \in Pending : Pending' = Pending \ {u}]_vars
  <2> SUFFICES ASSUME IInv, NEW b \in Block, NEW r \in Reg, Propagate(b, r)
               PROVE  <<b, r>> \in Pending /\ Pending' = Pending \ {<<b, r>>}
    BY DEF Next, Stop
  <2> DEFINE R == Reached(b, r)
  <2>1. /\ <<b, r>> \in update /\ r \in live_in[b]
        /\ live_in' = [p \in Block |-> IF p \in R THEN live_in[p] \cup {r} ELSE live_in[p]]
        /\ update' = (update \ {<<b, r>>}) \cup (R \X {r})
        /\ R \subseteq Block /\ \A p \in R : r \notin live_in[p]
    BY DEF IInv, PassedOn, Propagate, Reached, Told, InEdge
  <2> HIDE DEF R
  <2>2. ASSUME NEW x \in Block, NEW y \in Reg
        PROVE  <<x, y>> \in Pending' <=> <<x, y>> \in Pending /\ <<x, y>> # <<b, r>>
    <3>1. y \in live_in'[x] <=> y \in live_in[x] \/ (x \in R /\ y = r)
      BY <2>1
    <3>2. <<x, y>> \in update' <=> (<<x, y>> \in update /\ <<x, y>> # <<b, r>>) \/ (x \in R /\ y = r)
      BY <2>1
    <3>3. QED
      BY <2>1, <3>1, <3>2 DEF Pending
  <2>3. <<b, r>> \in Pending
    BY <2>1 DEF Pending
  <2>4. Pending \subseteq Block \X Reg /\ Pending' \subseteq Block \X Reg
    BY DEF Pending
  <2>5. Pending' = Pending \ {<<b, r>>}
    BY <2>2, <2>4
  <2>6. QED
    BY <2>3, <2>5
<1>2. QED
  BY InductiveInvariant, <1>1, PTL DEF Spec

-----------------------------------------------------------------------------
(* The scan of a block *)

\* r is read in the last k instructions before any of them writes it, or is
\* written in them but not read first.
Body == Seq([def : SUBSET Reg, use : SUBSET Reg])
ReadIn(insts, k, r) ==
  \E i \in Len(insts) - k + 1 .. Len(insts) :
    /\ r \in insts[i].use
    /\ \A j \in Len(insts) - k + 1 .. i - 1 : r \notin insts[j].def
WrittenIn(insts, k, r) ==
  /\ ~ReadIn(insts, k, r)
  /\ \E i \in Len(insts) - k + 1 .. Len(insts) : r \in insts[i].def
After(insts, k) ==
  [def |-> {r \in Reg : WrittenIn(insts, k, r)}, use |-> {r \in Reg : ReadIn(insts, k, r)}]

LEMMA OneMore ==
  ASSUME NEW insts \in Body, NEW k \in 1 .. Len(insts)
  PROVE  After(insts, k) = ScanInst(insts[Len(insts) - k + 1], After(insts, k - 1))
<1> DEFINE n == Len(insts)
           m == n - k + 1
<1>1. n \in Nat /\ m \in 1 .. n /\ n - (k - 1) + 1 = m + 1
  OBVIOUS
<1>2. insts[m].def \subseteq Reg /\ insts[m].use \subseteq Reg
  <2> DEFINE Inst == [def : SUBSET Reg, use : SUBSET Reg]
  <2>1. insts \in Seq(Inst) /\ m \in 1 .. Len(insts)
    BY <1>1 DEF Body
  <2>2. insts[m] \in Inst
    <3> HIDE DEF m, Inst
    <3>1. QED
      BY <2>1
  <2>3. QED
    BY <2>2
<1>3. ASSUME NEW r
      PROVE  ReadIn(insts, k, r) <=> \/ r \in insts[m].use
                                     \/ r \notin insts[m].def /\ ReadIn(insts, k - 1, r)
  <2>1. ReadIn(insts, k, r) <=> \E i \in m .. n : /\ r \in insts[i].use
                                                  /\ \A j \in m .. i - 1 : r \notin insts[j].def
    BY DEF ReadIn
  <2>2. ReadIn(insts, k - 1, r) <=>
          \E i \in m + 1 .. n : /\ r \in insts[i].use
                                /\ \A j \in m + 1 .. i - 1 : r \notin insts[j].def
    BY <1>1 DEF ReadIn
  <2> HIDE DEF m, n
  <2>3. ASSUME ReadIn(insts, k, r), r \notin insts[m].use
        PROVE  r \notin insts[m].def /\ ReadIn(insts, k - 1, r)
    <3>1. PICK i \in m .. n : r \in insts[i].use /\ \A j \in m .. i - 1 : r \notin insts[j].def
      BY <2>1, <2>3
    <3>2. i \in m + 1 .. n /\ m \in m .. i - 1
      BY <1>1, <2>3, <3>1
    <3>3. \A j \in m + 1 .. i - 1 : j \in m .. i - 1
      BY <1>1, <3>2
    <3>4. QED
      BY <2>2, <3>1, <3>2, <3>3
  <2>4. ASSUME r \in insts[m].use PROVE ReadIn(insts, k, r)
    <3>1. m \in m .. n /\ m .. m - 1 = {}
      BY <1>1
    <3>2. QED
      BY <2>1, <2>4, <3>1
  <2>5. ASSUME r \notin insts[m].def, ReadIn(insts, k - 1, r) PROVE ReadIn(insts, k, r)
    <3>1. PICK i \in m + 1 .. n :
            r \in insts[i].use /\ \A j \in m + 1 .. i - 1 : r \notin insts[j].def
      BY <2>2, <2>5
    <3>2. i \in m .. n /\ \A j \in m .. i - 1 : j = m \/ j \in m + 1 .. i - 1
      BY <1>1
    <3>3. \A j \in m .. i - 1 : r \notin insts[j].def
      BY <2>5, <3>1, <3>2
    <3>4. QED
      BY <2>1, <3>1, <3>2, <3>3
  <2>6. QED
    BY <2>3, <2>4, <2>5
<1>4. ASSUME NEW r
      PROVE  WrittenIn(insts, k, r) <=> /\ r \notin insts[m].use
                                        /\ r \in insts[m].def \/ WrittenIn(insts, k - 1, r)
  <2>1. WrittenIn(insts, k, r) <=> ~ReadIn(insts, k, r) /\ \E i \in m .. n : r \in insts[i].def
    BY DEF WrittenIn
  <2>2. WrittenIn(insts, k - 1, r) <=>
          ~ReadIn(insts, k - 1, r) /\ \E i \in m + 1 .. n : r \in insts[i].def
    BY <1>1 DEF WrittenIn
  <2>3. (\E i \in m .. n : r \in insts[i].def)
          <=> r \in insts[m].def \/ \E i \in m + 1 .. n : r \in insts[i].def
    <3> HIDE DEF m, n
    <3>1. m .. n = {m} \cup (m + 1 .. n)
      BY <1>1
    <3>2. QED
      BY <3>1
  <2>4. QED
    BY <1>3, <2>1, <2>2, <2>3
<1> HIDE DEF m, n
<1>5. QED
  BY <1>2, <1>3, <1>4 DEF After, ScanInst, m, n

\* The reverse scan finds what a block reads before it writes it, and what it
\* writes and does not read first.
LEMMA ScanFinds ==
  ASSUME NEW insts \in Body
  PROVE  Scan(insts) = After(insts, Len(insts))
<1> DEFINE n == Len(insts)
           nothing == [def |-> {}, use |-> {}]
           Eq(f) == f = [k \in 0 .. n |-> IF k = 0 THEN nothing
                                          ELSE ScanInst(insts[n - k + 1], f[k - 1])]
           h == [k \in 0 .. n |-> After(insts, k)]
           after == CHOOSE f : Eq(f)
<1>1. n \in Nat
  BY DEF Body
<1>2. After(insts, 0) = nothing
  <2>1. Len(insts) - 0 + 1 .. Len(insts) = {}
    BY <1>1
  <2>2. QED
    BY <2>1 DEF After, ReadIn, WrittenIn
<1>3. Eq(h)
  <2> SUFFICES ASSUME NEW k \in 0 .. n
               PROVE  After(insts, k) = IF k = 0 THEN nothing
                                        ELSE ScanInst(insts[n - k + 1], h[k - 1])
    OBVIOUS
  <2>1. CASE k = 0
    BY <1>2, <2>1
  <2>2. CASE k # 0
    <3>1. k \in 1 .. n /\ k - 1 \in 0 .. n
      BY <1>1, <2>2
    <3>2. h[k - 1] = After(insts, k - 1)
      BY <3>1
    <3>3. QED
      BY <2>2, <3>1, <3>2, OneMore
  <2>3. QED
    BY <2>1, <2>2
<1>4. Eq(after)
  <2> HIDE DEF Eq, h
  <2>1. QED
    BY <1>3
<1>5. Scan(insts) = after[n]
  BY DEF Scan
<1> HIDE DEF after
<1>6. after[0] = nothing /\ \A k \in 1 .. n : after[k] = ScanInst(insts[n - k + 1], after[k - 1])
  <2>1. 0 \in 0 .. n /\ \A k \in 1 .. n : k \in 0 .. n /\ k # 0
    BY <1>1
  <2>2. QED
    BY <1>4, <2>1
<1> DEFINE S == {k \in Nat : k <= n => after[k] = After(insts, k)}
<1>7. 0 \in S
  BY <1>2, <1>6
<1>8. ASSUME NEW k \in S PROVE k + 1 \in S
  <2>1. SUFFICES ASSUME k + 1 <= n PROVE after[k + 1] = After(insts, k + 1)
    OBVIOUS
  <2>2. k + 1 \in 1 .. n /\ (k + 1) - 1 = k /\ after[k] = After(insts, k)
    BY <1>1, <2>1
  <2>3. after[k + 1] = ScanInst(insts[n - (k + 1) + 1], after[k])
    BY <1>6, <2>2
  <2>4. After(insts, k + 1) = ScanInst(insts[n - (k + 1) + 1], After(insts, k))
    BY <2>2, OneMore
  <2>5. QED
    BY <2>2, <2>3, <2>4
<1>9. S = Nat
  <2> HIDE DEF S
  <2>1. QED
    BY <1>7, <1>8, NatSet DEF S
<1>10. QED
  BY <1>1, <1>5, <1>9

\* So live_use and def of a block are what its instructions do.
BlocksScanned == live_use = [b \in Block |-> LiveUse(func, b)] /\ def = [b \in Block |-> Def(func, b)]

LEMMA ScanMeans ==
  ASSUME func \in Funcs, BlocksScanned, NEW b \in Block, NEW r \in Reg
  PROVE  /\ r \in live_use[b] <=> UsesFirst(b, r)
         /\ r \in def[b] <=> WritesFirst(b, r)
<1> DEFINE insts == func.insts[b]
<1>1. insts \in Body
  BY FuncsAssumption DEF Body
<1>2. Len(insts) \in Nat /\ DOMAIN insts = 1 .. Len(insts) /\ Len(insts) - Len(insts) + 1 = 1
  BY <1>1 DEF Body
<1>3. Scan(insts) = After(insts, Len(insts))
  BY <1>1, ScanFinds
<1>4. ReadIn(insts, Len(insts), r) <=> UsesFirst(b, r)
  BY <1>2 DEF ReadIn, UsesFirst
<1>5. WrittenIn(insts, Len(insts), r) <=> WritesFirst(b, r)
  BY <1>2, <1>4 DEF WrittenIn, WritesFirst
<1> HIDE DEF insts
<1>6. /\ r \in live_use[b] <=> r \in Scan(insts).use
      /\ r \in def[b] <=> r \in Scan(insts).def
  BY DEF BlocksScanned, LiveUse, Def, insts
<1>7. QED
  BY <1>3, <1>4, <1>5, <1>6 DEF After

\* When the work list is empty, a register is in live_in of a block exactly
\* when some path from there reads it before it writes it.
THEOREM LiveMeansRead == Spec => []LiveIsRead
<1>1. Init => func \in Funcs /\ BlocksScanned
  BY DEF Init, BlocksScanned
<1>2. func \in Funcs /\ BlocksScanned /\ [Next]_vars => (func \in Funcs /\ BlocksScanned)'
  <2> SUFFICES ASSUME func \in Funcs, BlocksScanned, UNCHANGED <<func, live_use, def>>
               PROVE  (func \in Funcs /\ BlocksScanned)'
    BY DEF Next, Stop, Propagate, vars
  <2>1. \A b : LiveUse(func, b)' = LiveUse(func, b) /\ Def(func, b)' = Def(func, b)
    BY DEF LiveUse, Def
  <2>2. QED
    BY <2>1 DEF BlocksScanned
<1>3. func \in Funcs /\ BlocksScanned /\ LeastSolution => LiveIsRead
  <2> SUFFICES ASSUME func \in Funcs, BlocksScanned, LeastSolution, Finished,
                      NEW b \in Block, NEW r \in Reg
               PROVE  r \in live_in[b] <=> ReadOnSomePath(b, r)
    BY DEF LiveIsRead
  <2>1. \A x \in Block : /\ r \in live_use[x] <=> UsesFirst(x, r)
                         /\ r \in def[x] <=> WritesFirst(x, r)
    BY ScanMeans
  <2>2. LiveAtStart(b, r) <=> ReadOnSomePath(b, r)
    BY <2>1 DEF LiveAtStart, Closed, ReadOnSomePath
  <2>3. QED
    BY <2>2 DEF LeastSolution
<1>4. QED
  BY <1>1, <1>2, <1>3, Correct, PTL DEF Spec

=============================================================================

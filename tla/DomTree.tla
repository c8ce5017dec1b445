-------------------------------- MODULE DomTree --------------------------------
(* The control-flow graph of a function, its dominator tree and its loop tree *)
(* (dom_tree.cpp), as a record of functions on blocks: 0 stands for NULL.     *)
EXTENDS IR

\* dfs: the blocks in the order of the first visit.
RECURSIVE Preorder(_, _, _)
Preorder(out, seen, w) ==
  IF \E i \in DOMAIN seen : seen[i] = w THEN seen
  ELSE Fold(LAMBDA s, u : Preorder(out, s, u), Append(seen, w), out[w])

In(f, out) ==
  Table([b \in Blocks(f) |-> FlattenSeq([i \in DOMAIN f.bbs |->
      [j \in 1 .. Cardinality({k \in DOMAIN out[f.bbs[i]] : out[f.bbs[i]][k] = b}) |-> f.bbs[i]]])])
First(s) == IF s = <<>> THEN 0 ELSE Head(s)

\* dom_fa: the last block of the order whose removal cuts u off from the entry.
DomFa(idfn, out) ==
  LET cut == Listed([i \in DOMAIN idfn |-> ToSet(idfn) \ ToSet(Preorder(out, <<idfn[i]>>, idfn[1]))])
  IN  Table([u \in DOMAIN out |->
         LET is == {i \in DOMAIN idfn : u \in cut[i]} IN IF is = {} THEN 0 ELSE idfn[Max(is)]])

\* dfs over predecessors from the source w of a back edge to z: fills loop_fa.
RECURSIVE LoopDfs(_, _, _, _)
LoopDfs(in, fa, w, z) ==
  IF w = z THEN fa
  ELSE IF fa[w] # 0 THEN LoopDfs(in, fa, fa[w], z)
  ELSE Fold(LAMBDA l, u : LoopDfs(in, l, u, z), [fa EXCEPT ![w] = z], in[w])

\* build_dom_tree.  anc[b] holds the blocks that dominate b (dfn, dfn2).
DomTree(f) ==
  LET out == Table([b \in Blocks(f) |-> Out(f, b)])
      in == In(f, out)
      idfn == Preorder(out, <<>>, f.entry)
      fa == DomFa(idfn, out)
      ch == Table([b \in Blocks(f) |-> SelectSeq(idfn, LAMBDA u : fa[u] = b)])
      order == Preorder(ch, <<>>, f.entry)
      anc == Fold(LAMBDA a, b : [a EXCEPT ![b] = {b} \cup (IF fa[b] = 0 THEN {} ELSE a[fa[b]])],
                  Table([b \in Blocks(f) |-> {}]), order)
      heads == SelectSeq(Reverse(idfn), LAMBDA w : \E i \in DOMAIN in[w] : w \in anc[in[w][i]])
      BackEdges(l, w) == Fold(LAMBDA l1, u : IF w \in anc[u] THEN LoopDfs(in, l1, u, w) ELSE l1, l, in[w])
      loopFa == Fold(BackEdges, Table([b \in Blocks(f) |-> 0]), heads)
      Pre(w) == SelectSeq(in[w], LAMBDA u : w \notin anc[u])
      Latches(w) == SelectSeq(in[w], LAMBDA u : w \in anc[u])
  IN  [out |-> out, in |-> in, idfn |-> idfn, fa |-> fa, ch |-> ch, order |-> order, anc |-> anc, loopFa |-> loopFa,
       heads |-> ToSet(heads), pre |-> [w \in ToSet(heads) |-> First(Pre(w))], last |-> [w \in ToSet(heads) |-> First(Latches(w))],
       \* the assertions of build_dom_tree
       ok |-> \A i \in DOMAIN heads : LET w == heads[i] IN
                Len(Pre(w)) = 1 /\ First(Pre(w)) \in anc[w] /\ Len(Latches(w)) = 1]

Dom(T, a, b) == a \in T.anc[b]
SDom(T, a, b) == a # b /\ a \in T.anc[b]
LoopRt(T, b) == IF b \in T.heads THEN b ELSE T.loopFa[b]
\* in_loop: every block is in the loop NULL.
RECURSIVE InLoop(_, _, _)
InLoop(T, b, loop) == loop = 0 \/ (b # 0 /\ (b = loop \/ InLoop(T, T.loopFa[b], loop)))
LoopBlocks(T, loop) == {b \in DOMAIN T.out : InLoop(T, b, loop)}
LoopExit(T, loop) == UNION {ToSet(T.out[b]) : b \in LoopBlocks(T, loop)} \ LoopBlocks(T, loop)
\* loop_pre_exit: the sources of edges to the only exit
PreExits(T, loop) == LET exit == CHOOSE b \in LoopExit(T, loop) : TRUE
                     IN  SelectSeq(T.in[exit], LAMBDA u : InLoop(T, u, loop))
LoopSimple(T, loop) == Cardinality(LoopExit(T, loop)) = 1 /\ Len(PreExits(T, loop)) = 1
RECURSIVE LoopDepthOf(_, _)
LoopDepthOf(T, loop) == IF loop = 0 THEN 0 ELSE 1 + LoopDepthOf(T, T.loopFa[loop])
LoopDepth(T, b) == LoopDepthOf(T, LoopRt(T, b))

\* DF: b is in the frontier of everything from a predecessor a up the dominator
\* tree that does not strictly dominate b.
RECURSIVE Climb(_, _, _)
Climb(T, x, b) == IF x = 0 \/ SDom(T, x, b) THEN {} ELSE {x} \cup Climb(T, T.fa[x], b)
DF(T, x) == {b \in DOMAIN T.out : \E i \in DOMAIN T.in[b] : x \in Climb(T, T.in[b][i], b)}
=============================================================================

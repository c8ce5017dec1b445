--------------------------------- MODULE Loops ---------------------------------
(* The loop transformations (loop.cpp): do_while_to_while, loop_unroll and    *)
(* loop_parallel.  Each copies loops of a function and lets ssa_construction  *)
(* rename the registers that then have several definitions.  A state d of a   *)
(* pass holds the unit d.u and the registers d.dup to rename; the loops are   *)
(* those of the dominator tree T computed before the first copy.              *)
EXTENDS LoopInfo

\* loop_tree_dfs: loops, outer ones first.
RECURSIVE LoopTree(_, _, _)
LoopTree(f, T, fa) ==
  LET ws == SelectSeq(f.bbs, LAMBDA b : b \in T.heads /\ T.loopFa[b] = fa)
  IN  FlattenSeq([i \in DOMAIN ws |-> <<ws[i]>> \o LoopTree(f, T, ws[i])])
AddBBs(f, k) == [f EXCEPT !.nbb = @ + k, !.bbs = @ \o [i \in 1 .. k |-> f.nbb + i],
                          !.code = Table([b \in f.nbb + 1 .. f.nbb + k |-> <<>>]) @@ @]
Place_(L, b) == CHOOSE i \in DOMAIN L : L[i] = b
SetBB(f, b, is) == [f EXCEPT !.code[b] = Listed(is)]
\* partial_map
Swap(old, new, b) == IF b = old THEN new ELSE b
MapBB(f, b, old, new) == SetBB(f, b, [i \in DOMAIN f.code[b] |-> MapBlocks(f.code[b][i], LAMBDA a : Swap(old, new, a))])
MapPhis_(f, b, old, new) == SetBB(f, b, [i \in DOMAIN f.code[b] |->
  IF f.code[b][i].op = "phi" THEN MapBlocks(f.code[b][i], LAMBDA a : Swap(old, new, a)) ELSE f.code[b][i]])
MapBack(f, b, old, new) == SetBB(f, b, Append(Front(f.code[b]), MapBlocks(Back(f, b), LAMBDA a : Swap(old, new, a))))
OnlyExit(T, w) == CHOOSE b \in LoopExit(T, w) : TRUE
\* The operand of a phi for the edge from block b, and for the other edge.
From_(phi, b) == phi.s[Min({i \in DOMAIN phi.t : phi.t[i] = b})]
\* A mutant: the first operand, taken for the one of the back edge.
NotFromFirst(phi, b) == Head(phi.s)
NotFrom(phi, b) == phi.s[Min({i \in DOMAIN phi.t : phi.t[i] # b})]
Phis(f, b) == SelectSeq(f.code[b], LAMBDA x : x.op = "phi")
DefsIn(f, L) == {x.d : x \in UNION {ToSet(f.code[L[i]]) : i \in DOMAIN L}} \ {0}

-----------------------------------------------------------------------------
(* do_while_to_while.  First, a latch that only jumps back to the header and  *)
(* that only the exiting block branches to is removed.                        *)
Normalize(f, T, w) ==
  LET l == T.last[w]
      e == PreExits(T, w)[1]
  IN  IF /\ LoopSimple(T, w) /\ w # PreExits(T, w)[1]
         /\ Len(T.out[l]) = 1 /\ Len(T.in[l]) = 1 /\ Len(f.code[l]) = 1
         /\ l \in ToSet(Back(f, e).t)
      THEN KeepBlocks(MapBB(MapBack(f, e, l, w), w, l, e), Blocks(f) \ {l}) ELSE f
NormalizeDoWhile(f) == LET T == DomTree(f) IN Fold(LAMBDA g, w : Normalize(g, T, w), Asserts(f, T.ok), LoopTree(f, T, 0))

\* do { body } while (c): the first iteration is copied in front of the loop and
\* the loop entered at its test, with the phis of the header as copies before it.
RotateLoop(d, n, T, w) ==
  LET f == d.u.funcs[n]
      l == T.last[w]
      test == At(f, DefPos(f, Back(f, l).s[1]))
      L == LoopSeq(T, w)
      exit == OnlyExit(T, w)
      entry2 == f.nbb + 1
      entry1 == f.nbb + 2
      exit1 == f.nbb + 3
      exit2 == f.nbb + 4
      mp(b) == IF b = T.pre[w] THEN entry1 ELSE f.nbb + 4 + Place_(L, b)
      Copied(b, x) == IF x.op = "branch" /\ exit \in ToSet(x.t) THEN Jump(exit1)
                      ELSE IF b = w /\ x.op = "phi" THEN UnaryOp(x.d, From_(x, T.pre[w]), "id")
                      ELSE MapBlocks(x, mp)
      body == Table([i \in f.nbb + 5 .. f.nbb + 4 + Len(L) |->
                LET b == L[i - f.nbb - 4] IN [j \in DOMAIN f.code[b] |-> Copied(b, f.code[b][j])]])
      copies == LET ps == Phis(f, w) IN [i \in DOMAIN ps |-> UnaryOp(ps[i].d, NotFrom(ps[i], T.pre[w]), "id")]
      g0 == AddBBs(f, 4 + Len(L))
      g1 == [g0 EXCEPT !.code = (entry2 :> <<Jump(entry1)>>) @@ (entry1 :> <<Jump(mp(w))>>) @@ (exit1 :> <<Jump(exit2)>>) @@ body @@ @,
                       !.dw = @ \cup DOMAIN body]
      g2 == SetBB(MapBack(g1, T.pre[w], w, entry2), w, SelectSeq(g1.code[w], LAMBDA x : x.op # "phi"))
      g3 == SetBB(SetBB(g2, exit2, copies \o <<test, Back(g2, l)>>), l, Append(Front(g2.code[l]), Jump(exit2)))
  IN  IF /\ Len(T.out[l]) = 2 /\ test.op = "bin" /\ test.k \in {"<", "<="}
      THEN [d EXCEPT !.u.funcs[n] = Asserts(g3, Len(T.in[exit]) = 1), !.dup = @ \cup DefsIn(f, L)]
      ELSE d
DoWhileToWhile(u, n) ==
  LET f == NormalizeDoWhile(u.funcs[n])
      T == DomTree(f)
      ws == SelectSeq(LoopTree(f, T, 0), LAMBDA w : LoopDepth(T, w) <= 3 /\ LoopSimple(T, w) /\ w # PreExits(T, w)[1])
      d == Fold(LAMBDA e, w : RotateLoop(e, n, T, w), [u |-> [u EXCEPT !.funcs[n] = Asserts(f, T.ok)], dup |-> {}], ws)
  IN  IF Len(u.funcs[n].bbs) > 100 THEN u.funcs[n]
      ELSE IF d.u.funcs[n].bad THEN d.u.funcs[n] ELSE SSAConstruction(d.u, n, d.dup)

-----------------------------------------------------------------------------
(* loop_unroll: innermost loops with a simple condition whose header has no   *)
(* effect.  type 2: a known number of iterations, all copied in front of the  *)
(* loop, which remains for its last test.  type 1: a loop of k iterations at a *)
(* time, while another k iterations fit, in front of it.                      *)
ConstInt(f) == LET xs == {x \in ToSet(AllInstrs(f)) : x.op = "const"}
               IN  Table([r \in {x.d : x \in xs} |-> (CHOOSE x \in xs : x.d = r).c])
\* The number of iterations, at most 34.
RECURSIVE Trips(_, _, _, _, _, _)
Trips(cond, op, i, step, c, n) ==
  LET s == IF cond.rev THEN <<c, i>> ELSE <<i, c>>
  IN  IF n > 33 \/ Binary(cond.op, s[1], s[2]) = 0 THEN n ELSE Trips(cond, op, Binary(op, i, step), step, c, n + 1)
UnrollPlan(f, T, info, K, w) ==
  LET cond == info.cond[1]
      ind == info.var[cond.ind]
      L == LoopSeq(T, w)
      size == Fold(LAMBDA s, b : s + Len(f.code[b]) + 1, 0, L)
      n == IF ind.base \in DOMAIN K /\ cond.c \in DOMAIN K THEN Trips(cond, ind.op, K[ind.base], K[ind.step], K[cond.c], 0) ELSE 0
  IN  IF \/ info.cond = <<>>
         \/ \E x \in ToSet(f.code[w]) : x.op \in {"memwrite", "memeffect", "store", "call"}
         \/ ind.step \notin DOMAIN K
      THEN <<>>
      ELSE IF Abs(K[ind.step]) > 2 THEN <<>>
      ELSE IF n \in 1 .. 33 /\ size * n <= 1000 THEN <<2, n>>
      ELSE IF ind.op = "+" /\ size <= 200 THEN <<1, IF size > 20 \/ Len(L) > 2 THEN 2 ELSE 4>>
      ELSE <<>>
UnrollLoop(d, n, T, info, K, w) ==
  LET f == d.u.funcs[n]
      plan == UnrollPlan(f, T, info, K, w)
      full == plan[1] = 2
      k == plan[2]
      L == LoopSeq(T, w)
      cond == info.cond[1]
      entry == T.pre[w]
      exit == OnlyExit(T, w)
      l == T.last[w]
      entry2 == f.nbb + 1
      entry1 == f.nbb + 2
      exit1 == f.nbb + 3
      exit2 == f.nbb + 4
      mp(i, b) == f.nbb + 4 + i * Len(L) + Place_(L, b)
      MP(i, b) == IF b = entry THEN entry1 ELSE mp(i, b)
      cnt == f.nreg + 1
      step == f.nreg + 2
      limit == f.nreg + 3
      more == f.nreg + 4
      stay == f.nreg + 5
      Stay(x) == IF x.t[1] = exit THEN x.t[2] ELSE x.t[1]
      Guard(x) == <<IF cond.rev THEN BinaryOp(more, limit, cond.ind, cond.op) ELSE BinaryOp(more, cond.ind, limit, cond.op),
                    Branch(more, IF x.t[1] = exit THEN exit1 ELSE mp(0, x.t[1]), IF x.t[1] = exit THEN mp(0, x.t[2]) ELSE exit1)>>
      Copied(i, b, x) ==
        IF x.op = "jump" /\ x.t[1] = w THEN <<Jump(IF full /\ i = k - 1 THEN exit1 ELSE mp((i + 1) % k, w))>>
        ELSE IF b = w /\ x.op = "branch" THEN IF full \/ i > 0 THEN <<Jump(mp(i, Stay(x)))>> ELSE Guard(x)
        ELSE IF b = w /\ x.op = "phi" /\ i > 0 THEN <<UnaryOp(x.d, NotFrom(x, entry), "id")>>
        ELSE IF b = w /\ x.op = "phi" /\ full THEN <<UnaryOp(x.d, From_(x, entry), "id")>>
        ELSE <<MapBlocks(x, LAMBDA a : MP(i, a))>>
      body == Table([a \in f.nbb + 5 .. f.nbb + 4 + k * Len(L) |->
                LET i == (a - f.nbb - 5) \div Len(L)
                    b == L[1 + ((a - f.nbb - 5) % Len(L))]
                IN  FlattenSeq([j \in DOMAIN f.code[b] |-> Copied(i, b, f.code[b][j])])])
      \* What is left of the header.
      Rest(x) == IF x.op = "phi" THEN <<IF full THEN UnaryOp(x.d, NotFrom(x, entry), "id")
                                        ELSE [x EXCEPT !.s = [i \in DOMAIN @ |-> IF x.t[i] = entry THEN x.d ELSE @[i]]]>>
                 ELSE IF x.op = "branch" /\ full THEN <<LoadConst(stay, Bool(x.t[1] = exit)), [x EXCEPT !.s = <<stay>>]>>
                 ELSE <<x>>
      g0 == AddBBs(f, 4 + k * Len(L))
      g1 == [g0 EXCEPT !.nreg = @ + 5,
               !.code = (entry2 :> <<LoadConst(cnt, k), BinaryOp(step, info.var[cond.ind].step, cnt, "*"),
                                     BinaryOp(limit, cond.c, step, "-"), Jump(entry1)>>)
                        @@ (entry1 :> <<Jump(mp(0, w))>>) @@ (exit1 :> <<Jump(exit2)>>) @@ (exit2 :> <<Jump(w)>>) @@ body @@ @,
               !.dis = @ \cup DOMAIN body,
               !.dw = @ \cup {mp(i, b) : i \in 0 .. k - 1, b \in @ \cap ToSet(L)}]
      g2 == SetBB(MapBack(g1, entry, w, entry2), w, FlattenSeq([j \in DOMAIN f.code[w] |-> Rest(f.code[w][j])]))
      g3 == MapBB(MapPhis_(g2, mp(0, w), mp(0, l), mp(k - 1, l)), w, entry, exit2)
  IN  IF plan = <<>> THEN d ELSE [d EXCEPT !.u.funcs[n] = g3, !.dup = @ \cup DefsIn(f, L)]
LoopUnroll(u, n, LI) ==
  LET f == u.funcs[n]
      T == DomTree(f)
      ws == SelectSeq(f.bbs, LAMBDA w : /\ w \in T.heads /\ LoopSimple(T, w) /\ w \notin f.dw
                                        /\ \A b \in T.heads : T.loopFa[b] # w)
      ok == T.ok /\ \A i \in DOMAIN ws : Len(T.out[T.pre[ws[i]]]) = 1
      d == Fold(LAMBDA e, w : UnrollLoop(e, n, T, LI[w], ConstInt(f), w), [u |-> [u EXCEPT !.funcs[n] = Asserts(f, ok)], dup |-> {}], ws)
  IN  IF ok THEN SSAConstruction(d.u, n, d.dup) ELSE d.u.funcs[n]
===============================================================================

------------------------------ MODULE FuncInline ------------------------------
(* func_inline.cpp: every call of a function that does not call itself is    *)
(* replaced by a copy of its body, callees first.                            *)
EXTENDS SSA

Recursive(u, n) == \E p \in Positions(u.funcs[n]) : At(u.funcs[n], p).op = "call" /\ At(u.funcs[n], p).k = n

\* The instructions a copied instruction becomes in the caller.
CopyInstr(x, call, mpReg(_), mpBB(_), mpMem(_), next) ==
  LET y == MapUse(x, mpReg)
      d == IF x.d = 0 THEN 0 ELSE mpReg(x.d)
  IN CASE x.op = "arg" -> <<UnaryOp(d, call.s[x.c + 1], "id")>>
       [] x.op = "return" -> <<UnaryOp(call.d, y.s[1], "id"), Jump(next)>>
       [] x.op \in {"addr", "local"} -> <<[y EXCEPT !.d = d, !.c = mpMem(@)]>>
       [] OTHER -> <<[MapBlocks(y, mpBB) EXCEPT !.d = d]>>

(* s.u: the unit, s.mp: the caller's copies of a callee's local variables,   *)
(* which all inlined calls of the callee share.                              *)
AllocLocals(s, n, g) ==
  LET L == SelectSeq(s.u.funcs[g].objs, LAMBDA m : ~s.u.obj[m].arg)
      k == Len(s.u.obj)
  IN  IF g \in DOMAIN s.mp THEN s
      ELSE [s EXCEPT !.u.obj = @ \o [i \in DOMAIN L |-> s.u.obj[L[i]]],
                     !.u.funcs[n].objs = @ \o [i \in DOMAIN L |-> k + i],
                     !.mp = (g :> Table([m \in ToSet(L) |-> k + (CHOOSE i \in DOMAIN L : L[i] = m)])) @@ @]
InlineCall(s0, n, b, i) ==
  LET call == s0.u.funcs[n].code[b][i]
      g == call.k
      s == AllocLocals(s0, n, g)
      f == s.u.funcs[n]
      h == s.u.funcs[g]
      next == f.nbb + Len(h.bbs) + 1
      MpReg(r) == f.nreg + r
      MpBB(a) == f.nbb + (CHOOSE j \in DOMAIN h.bbs : h.bbs[j] = a)
      MpMem(m) == IF s.u.obj[m].global THEN m ELSE s.mp[g][m]
      Copied(a) == FlattenSeq([j \in DOMAIN h.code[a] |->
                     IF h.code[a][j].op = "local" /\ s.u.obj[h.code[a][j].c].arg THEN <<>>
                     ELSE CopyInstr(h.code[a][j], call, MpReg, MpBB, MpMem, next)])
      new == Table([c \in f.nbb + 1 .. next - 1 |-> Copied(h.bbs[c - f.nbb])])
      uses == UNION {UsesOf(At(h, p)) : p \in Positions(h)}
      joined == [f EXCEPT !.bbs = @ \o [j \in 1 .. Len(h.bbs) + 1 |-> f.nbb + j], !.nbb = next, !.nreg = @ + h.nreg,
                          !.code = (b :> Append(SubSeq(f.code[b], 1, i - 1), Jump(MpBB(h.entry))))
                                   @@ (next :> SubSeq(f.code[b], i + 1, Len(f.code[b]))) @@ new @@ @]
  IN  [s EXCEPT !.u.funcs[n] = Asserts(PhiSrcRewrite(joined, next, b), uses \subseteq DefinedRegs(h))]
\* On from instruction i of block b, into what follows an inlined call.
RECURSIVE InlineFrom(_, _, _, _)
InlineFrom(s, n, b, i) ==
  LET f == s.u.funcs[n]
      x == f.code[b][i]
      t == InlineCall(s, n, b, i)
  IN  IF i > Len(f.code[b]) THEN s
      ELSE IF x.op = "call" /\ x.k \in DOMAIN s.u.funcs /\ x.k # n /\ ~Recursive(s.u, x.k)
      THEN InlineFrom(t, n, t.u.funcs[n].nbb, 1)
      ELSE InlineFrom(s, n, b, i + 1)
Inline(u, n) == Fold(LAMBDA s, b : InlineFrom(s, n, b, 1), [u |-> u, mp |-> <<>>], u.funcs[n].bbs).u

\* Functions without calls first; a caller follows when its last callee is done.
Degrees(u) == [n \in DOMAIN u.funcs |-> Len(Callees(u, n))]
RECURSIVE InlineQueue(_, _, _, _)
InlineQueue(u0, u, q, deg) ==
  LET n == Head(q)
      times == [m \in DOMAIN deg |-> Len(SelectSeq(Callees(u0, m), LAMBDA c : c = n))]
      ready == SelectSeq(u0.order, LAMBDA m : times[m] > 0 /\ deg[m] = times[m])
  IN  IF q = <<>> THEN [u EXCEPT !.bad = @ \/ \E m \in DOMAIN deg : deg[m] # 0]
      ELSE InlineQueue(u0, Inline(u, n), Tail(q) \o ready, [m \in DOMAIN deg |-> deg[m] - times[m]])
InlineFuncs(u) ==
  LET start == SelectSeq(u.order, LAMBDA n : Degrees(u)[n] = 0)
      v == RemoveUnusedFunc(InlineQueue(u, u, start, Degrees(u)))
  IN  ForEach(v, LAMBDA f : DceBB(f).f)
===============================================================================

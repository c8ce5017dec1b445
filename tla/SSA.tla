--------------------------------- MODULE SSA ---------------------------------
(* Static single assignment (ssa.cpp) and the promotion of variables to      *)
(* registers (mem2reg.cpp).                                                  *)
EXTENDS DCE

\* The iterated dominance frontier: where a variable defined in D needs a phi.
RECURSIVE Frontier(_, _, _)
Frontier(T, D, F) == LET G == UNION {DF(T, x) : x \in D \cup F} IN IF G \subseteq F THEN F ELSE Frontier(T, D, F \cup G)
\* A phi under construction names its variable in .c.
NewPhi(v) == [Phi(v, <<>>, <<>>) EXCEPT !.k = "new", !.c = v]
InsertPhis(f, T, V) ==
  LET D(v) == {b \in Blocks(f) : \E i \in DOMAIN f.code[b] : f.code[b][i].d = v}
      Put(g, v) == LET F == Frontier(T, D(v), {})
                   IN  MapCode(g, LAMBDA b, is : IF b \in F THEN <<NewPhi(v)>> \o is ELSE is)
  IN  Fold(Put, f, Ascending(V \cap DefinedRegs(f)))

(* Renaming.  d.rd: reachingDef, d.pos: where a new register is defined.     *)
RD(d, r) == IF r \in DOMAIN d.rd THEN d.rd[r] ELSE 0
RECURSIVE Reaching(_, _, _, _)
Reaching(d, T, r, p) ==
  IF r = 0 \/ SDom(T, d.pos[r][1], p[1]) \/ (d.pos[r][1] = p[1] /\ d.pos[r][2] < p[2]) THEN r
  ELSE Reaching(d, T, RD(d, r), p)
\* updateReachingDef
UpdateReachingDef(d, T, v, p) == [d EXCEPT !.rd = (v :> Reaching(d, T, RD(d, v), p)) @@ @]
RenameUse(d, T, V, p, i) ==
  LET v == At(d.f, p).s[i]
      e == UpdateReachingDef(d, T, v, p)
  IN  IF v \in V THEN [e EXCEPT !.f.code[p[1]][p[2]].s[i] = e.rd[v]] ELSE d
RenameDef(d, T, V, p) ==
  LET v == At(d.f, p).d
      e == UpdateReachingDef(d, T, v, p)
      v1 == d.f.nreg + 1
  IN  IF v \notin V THEN d
      ELSE [e EXCEPT !.f.code[p[1]][p[2]].d = v1, !.f.nreg = v1, !.pos = (v1 :> p) @@ @,
                     !.rd = (v1 :> e.rd[v]) @@ (v :> v1) @@ @]
RenameInstr(d, T, V, p) ==
  LET x == At(d.f, p)
      uses == IF x.op = "phi" THEN d ELSE Fold(LAMBDA e, i : RenameUse(e, T, V, p, i), d, [i \in DOMAIN x.s |-> i])
  IN  RenameDef(uses, T, V, p)
\* The operands that an edge from b gives to the phis of c.
RenamePhi(d, T, V, b, q) ==
  LET x == At(d.f, q)
      end == <<b, Len(d.f.code[b])>>
      e == UpdateReachingDef(d, T, x.c, end)
      Old(g, i) == LET h == UpdateReachingDef(g, T, x.s[i], end)
                   IN  IF x.t[i] = b /\ x.s[i] \in V THEN [h EXCEPT !.f.code[q[1]][q[2]].s[i] = h.rd[x.s[i]]] ELSE g
  IN  IF x.op # "phi" THEN d
      ELSE IF x.k = "new"
      THEN [e EXCEPT !.f.code[q[1]][q[2]].s = Append(@, e.rd[x.c]), !.f.code[q[1]][q[2]].t = Append(@, b)]
      ELSE Fold(Old, d, [i \in DOMAIN x.s |-> i])
RenameBB(d, T, V, b) ==
  LET body == Fold(LAMBDA e, i : RenameInstr(e, T, V, <<b, i>>), d, [i \in DOMAIN d.f.code[b] |-> i])
      Edge(e, c) == Fold(LAMBDA g, i : RenamePhi(g, T, V, b, <<c, i>>), e, [i \in DOMAIN e.f.code[c] |-> i])
  IN  Fold(Edge, body, T.out[b])
\* ssa_construction, check(r) being r \in V
SSAConstruction(u, n, V) ==
  LET f == u.funcs[n]
      T == DomTree(f)
      d == Fold(LAMBDA e, b : RenameBB(e, T, V, b), [f |-> InsertPhis(f, T, V), rd |-> <<>>, pos |-> <<>>], T.order)
      Clean(x) == IF x.op = "phi" THEN Phi(x.d, x.s, x.t) ELSE x
  IN  RemoveUnusedDef([u EXCEPT !.funcs[n] = MapInstrs(Asserts(d.f, T.ok), Clean)], n)

-----------------------------------------------------------------------------
(* mem2reg.cpp                                                               *)
\* The objects whose address function f loads.
Addressed(f) == {At(f, p).c : p \in {q \in Positions(f) : At(f, q).op = "addr"}}
\* global_int_to_local: main gets a copy of every int that no other function uses.
GlobalIntToLocal(u) ==
  LET others == UNION {Addressed(u.funcs[n]) : n \in DOMAIN u.funcs \ {"main"}}
      S == SelectSeq(u.gl, LAMBDA m : IsSingleVar(u.obj[m]) /\ m \notin others)
      n0 == Len(u.obj)
      Copy(m) == n0 + (CHOOSE i \in DOMAIN S : S[i] = m)
      Ren(x) == IF x.op = "addr" /\ x.c \in ToSet(S) THEN [x EXCEPT !.c = Copy(@)] ELSE x
      Init(f, m) == LET r == f.nreg
                    IN  [f EXCEPT !.nreg = r + 3,
                           !.code[f.entry] = <<LoadAddr(r + 1, m), Load(r + 2, r + 1), LoadAddr(r + 3, Copy(m)), Store(r + 3, r + 2)>> \o @]
      main == Fold(Init, MapInstrs(u.funcs["main"], Ren), S)
  IN  [u EXCEPT !.obj = @ \o [i \in DOMAIN S |-> MemObject(1, <<>>, FALSE, FALSE, <<>>)],
                !.funcs["main"] = [main EXCEPT !.objs = @ \o [i \in DOMAIN S |-> n0 + i]]]
\* mem2reg_local_int: a register for every local int, 0 before the first store.
Mem2regLocalInt(u, n) ==
  LET f == u.funcs[n]
      locals == SelectSeq(f.objs, LAMBDA m : IsSingleVar(u.obj[m]) /\ m \in Addressed(f))
      RegOf(m) == f.nreg + (CHOOSE i \in DOMAIN locals : locals[i] = m)
      addrs == {At(f, p) : p \in {q \in Positions(f) : At(f, q).op = "addr" /\ At(f, q).c \in ToSet(locals)}}
      RM == [r \in {x.d : x \in addrs} |-> RegOf((CHOOSE x \in addrs : x.d = r).c)]
      Subst(x) == CASE x.op = "load" /\ x.s[1] \in DOMAIN RM -> UnaryOp(x.d, RM[x.s[1]], "id")
                    [] x.op = "store" /\ x.s[1] \in DOMAIN RM -> UnaryOp(RM[x.s[1]], x.s[2], "id")
                    [] OTHER -> x
      g == [MapInstrs(f, Subst) EXCEPT !.nreg = @ + Len(locals),
              !.code[f.entry] = [i \in DOMAIN locals |-> LoadConst(f.nreg + i, 0)] \o @]
  IN  SSAConstruction([u EXCEPT !.funcs[n] = g], n, {f.nreg + i : i \in DOMAIN locals})
\* mem2reg without the final gvn
Mem2reg(u) == RemoveUnusedMemobj(EachFunc(GlobalIntToLocal(u), Mem2regLocalInt))
=============================================================================

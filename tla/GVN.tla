---------------------------------- MODULE GVN ----------------------------------
(* Global value numbering and code motion (gvn.cpp).                         *)
EXTENDS SSA

-----------------------------------------------------------------------------
(* gvn.  A walk carries: f the function, id the last value number, num the   *)
(* number of an operator applied to numbers, con the numbers of constants,   *)
(* vn the number of a register, rv the register that holds a number here     *)
(* (rvn), add the numbers that are a register plus a constant (radd_c), mp   *)
(* the registers to replace and pre the constants pushed in front of entry.  *)
N(g, v) == [g |-> g, v |-> v]
Number(g, key) == IF key \in DOMAIN g.num THEN N(g, g.num[key])
                  ELSE N([g EXCEPT !.id = @ + 1, !.num = (key :> g.id + 1) @@ @], g.id + 1)
NewNumber(g) == N([g EXCEPT !.id = @ + 1], g.id + 1)
\* get_vn_c
ConstNumber(g, c) ==
  LET key == <<"const", c>>
      v == g.id + 1
      r == g.f.nreg + 1
  IN  IF key \in DOMAIN g.num THEN N(g, g.num[key])
      ELSE N([g EXCEPT !.id = v, !.num = (key :> v) @@ @, !.con = (v :> c) @@ @, !.rv = (v :> r) @@ @,
                       !.vn = (r :> v) @@ @, !.f.nreg = r, !.pre = <<LoadConst(r, c)>> \o @], v)
Vn(g, r) == IF r \in DOMAIN g.vn THEN g.vn[r] ELSE 0
IsConst(g, v) == v \in DOMAIN g.con

\* x = s + c: s may itself be a register plus a constant.
NumberAddConst(g, x, c) ==
  LET v == Vn(g, x.s[1])
      base == IF v \in DOMAIN g.add THEN g.add[v] ELSE <<x.s[1], 0>>
      k == ConstNumber(g, Wrap(c + base[2]))
      n == Number(k.g, <<"bin", "+", Vn(g, base[1]), k.v>>)
  IN  IF k.g.con[k.v] = 0 THEN [g |-> k.g, v |-> Vn(g, base[1]), x |-> x]
      ELSE [g |-> [n.g EXCEPT !.add = (n.v :> <<base[1], k.g.con[k.v]>>) @@ @], v |-> n.v,
            x |-> BinaryOp(x.d, base[1], k.g.rv[k.v], "+")]
NumberBin(g, x0) ==
  LET x == IF IsConst(g, Vn(g, x0.s[1])) /\ Commutes(x0.k) THEN [x0 EXCEPT !.s = <<@[2], @[1]>>] ELSE x0
      v1 == Vn(g, x.s[1])
      v2 == Vn(g, x.s[2])
      c2 == g.con[v2]
      As(n) == n @@ [x |-> x]
  IN  IF IsConst(g, v1) /\ IsConst(g, v2) THEN As(ConstNumber(g, Binary(x.k, g.con[v1], c2)))
      ELSE IF IsConst(g, v2) /\ x.k \in {"+", "-"} THEN NumberAddConst(g, x, IF x.k = "-" THEN Wrap(-c2) ELSE c2)
      ELSE IF IsConst(g, v2) /\ x.k = "*" /\ c2 = 0 THEN As(N(g, v2))
      ELSE IF IsConst(g, v2) /\ x.k \in {"*", "/"} /\ c2 = 1 THEN As(N(g, v1))
      ELSE As(Number(g, <<"bin", x.k, v1, v2>>))
NumberUn(g, x) ==
  LET v == Vn(g, x.s[1])
  IN  IF IsConst(g, v) THEN ConstNumber(g, Unary(x.k, g.con[v]))
      ELSE IF x.k = "id" THEN N(g, v) ELSE Number(g, <<"un", x.k, v>>)
\* The MemUse instructions in front of call i of code is belong to it (CallInstr::in).
UsesBefore(is, i) == [j \in 1 .. is[i].t[2] |-> is[i - is[i].t[2] + j - 1].s[1]]
\* get_vn, with the instruction it may have rewritten.
GetVn(g, is, i) ==
  LET x == is[i]
      v == [j \in DOMAIN x.s |-> Vn(g, x.s[j])]
      As(n) == n @@ [x |-> x]
  IN CASE x.op \in {"addr", "arg"} -> As(Number(g, <<x.op, x.c>>))
       [] x.op = "const" -> As(ConstNumber(g, x.c))
       [] x.op = "un" -> As(NumberUn(g, x))
       [] x.op = "bin" -> NumberBin(g, x)
       [] x.op = "memread" -> As(Number(g, <<"memread", v[1], v[2]>>))
       [] x.op = "index" -> As(Number(g, <<"index", v[1], v[2], x.c>>))
       [] x.op = "call" /\ x.t[1] = 1 ->
            LET uses == UsesBefore(is, i)
            IN  As(Number(g, <<"call", x.k, [j \in DOMAIN uses |-> Vn(g, uses[j])], v>>))
       [] OTHER -> As(NewNumber(g))
\* An unordered_map::at of a register whose number is not known throws.
NeedsVn(x) == IF x.op \in {"un", "bin", "memread", "index"} \/ (x.op = "call" /\ x.t[1] = 1) THEN ToSet(x.s) ELSE {}
GvnInstr(b, g0, i) ==
  LET is == g0.f.code[b]
      n == GetVn(g0, is, i)
      g == [n.g EXCEPT !.f = [Asserts(@, NeedsVn(is[i]) \subseteq DOMAIN g0.vn) EXCEPT !.code[b][i] = n.x],
                       !.vn = (is[i].d :> n.v) @@ @]
  IN  IF ~IsRegWrite(is[i]) THEN g0
      ELSE IF n.v \in DOMAIN g.rv THEN [g EXCEPT !.mp = (is[i].d :> g.rv[n.v]) @@ @]
      ELSE [g EXCEPT !.rv = (n.v :> is[i].d) @@ @]
\* Down the dominator tree; what a block provides is forgotten after it.
RECURSIVE GvnBB(_, _, _)
GvnBB(g, T, b) ==
  LET body == Fold(LAMBDA h, i : GvnInstr(b, h, i), g, [i \in DOMAIN g.f.code[b] |-> i])
      new == DOMAIN body.rv \ DOMAIN g.rv
      sub == Fold(LAMBDA h, c : GvnBB(h, T, c), body, T.ch[b])
  IN  [sub EXCEPT !.rv = Table([v \in {w \in DOMAIN @ : w \notin new \/ IsConst(sub, w)} |-> @[v]])]
\* Phis with equal operands are copies; equal phis of a block are one.
MapPhis(mp, is) ==
  LET phis == {i \in DOMAIN is : is[i].op = "phi"}
      Same(i) == CHOOSE j \in phis : is[j].t = is[i].t /\ is[j].s = is[i].s /\ \A k \in phis : k < j => is[k].s # is[i].s \/ is[k].t # is[i].t
      To(i) == IF Cardinality(ToSet(is[i].s)) = 1 THEN is[i].s[1] ELSE is[Same(i)].d
      moved == {i \in phis : To(i) # is[i].d}
  IN  Table([r \in {is[i].d : i \in moved} |-> To(CHOOSE i \in moved : is[i].d = r)]) @@ mp
MapUses(f, mp) == MapRegs(f, LAMBDA r : IF r \in DOMAIN mp THEN mp[r] ELSE r)
Gvn(u, n) ==
  LET f == u.funcs[n]
      T == DomTree(f)
      g == GvnBB([f |-> f, id |-> 0, num |-> <<>>, con |-> <<>>, vn |-> <<>>, rv |-> <<>>, add |-> <<>>,
                  mp |-> <<>>, pre |-> <<>>], T, f.entry)
      mp == Fold(LAMBDA m, b : MapPhis(m, g.f.code[b]), g.mp, f.bbs)
  IN  RemoveUnusedDef([u EXCEPT !.funcs[n] = MapUses([Asserts(g.f, T.ok) EXCEPT !.code[f.entry] = g.pre \o @], mp)], n)

-----------------------------------------------------------------------------
(* Code motion.                                                              *)
Pinned(u, x) == x.op \in {"phi", "call", "load", "memdef", "memeffect", "memwrite"}
                \/ (x.op = "memread" /\ ~IsSingleVar(u.obj[x.c]))
RECURSIVE Depth(_, _)
Depth(T, b) == IF T.fa[b] = 0 THEN 0 ELSE 1 + Depth(T, T.fa[b])
\* The highest block on the way up to depth d that is in no deeper loop than b.
RECURSIVE Hoist(_, _, _, _, _)
Hoist(T, b, c, best, d) ==
  IF Depth(T, c) <= d THEN best
  ELSE LET up == T.fa[c] IN Hoist(T, b, up, IF LoopDepth(T, up) <= LoopDepth(T, b) THEN up ELSE best, d)
\* gcm_schedule_early.  d.at: the block that defines a register; it is known (def_depth
\* has it) in that block and below.  An unordered_map::at of another one throws.
EarlyInstr(u, T, b, d, x) ==
  LET free == IsRegWrite(x) /\ ~Pinned(u, x) /\ b \notin d.f.dis
      known == {r \in ToSet(x.s) \cap DOMAIN d.at : Dom(T, d.at[r], b)}
      low == Max({0} \cup {Depth(T, d.at[r]) : r \in known})
      to == IF free THEN Hoist(T, b, b, b, low) ELSE b
  IN  [d EXCEPT !.f = IF to = b THEN Push(@, b, x) ELSE Push1(@, to, x),
                !.f.bad = @ \/ (free /\ known # ToSet(x.s)),
                !.at = IF IsRegWrite(x) THEN (x.d :> to) @@ @ ELSE @]
ScheduleEarly(u, n) ==
  LET f == u.funcs[n]
      T == DomTree(f)
      BB(d, b) == Fold(LAMBDA e, x : EarlyInstr(u, T, b, e, x), [d EXCEPT !.f.code[b] = <<>>], d.f.code[b])
  IN  Fold(BB, [f |-> Asserts(f, T.ok), at |-> <<>>], T.order).f

\* gcm_schedule_late.  d.lca: the lowest block that dominates the uses so far.
RECURSIVE Lca(_, _, _)
Lca(T, z, b) == IF Dom(T, z, b) THEN z ELSE Lca(T, T.fa[z], b)
UseAt(d, T, r, b) == IF r = 0 THEN d ELSE [d EXCEPT !.lca = (r :> IF r \in DOMAIN @ THEN Lca(T, @[r], b) ELSE b) @@ @]
UsesAt(d, T, x, b) == Fold(LAMBDA e, r : UseAt(e, T, r, b), d, x.s)
RECURSIVE OutOfLoops(_, _, _)
OutOfLoops(T, b, loop) == IF LoopRt(T, b) = loop THEN b ELSE OutOfLoops(T, T.fa[b], loop)
LateInstr(u, T, b, d, x) ==
  LET free == IsRegWrite(x) /\ ~Pinned(u, x) /\ x.op # "memread" /\ x.d \in DOMAIN d.lca
      lca == d.lca[x.d]
      to == IF LoopRt(T, b) = 0 \/ InLoop(T, lca, LoopRt(T, b)) THEN OutOfLoops(T, lca, LoopRt(T, b)) ELSE lca
  IN  IF free /\ ~Dom(T, b, lca) THEN [d EXCEPT !.f = Asserts(@, FALSE)]
      ELSE IF free /\ to # b THEN UsesAt([d EXCEPT !.f = PushFront(@, to, x)], T, x, to)
      ELSE LET e == [d EXCEPT !.f = PushFront(@, b, x)] IN IF x.op = "phi" THEN e ELSE UsesAt(e, T, x, b)
ScheduleLate(u, n) ==
  LET f == u.funcs[n]
      T == DomTree(f)
      PhiUse(d, b, x) == IF x.op # "phi" THEN d
                         ELSE Fold(LAMBDA e, i : IF x.t[i] = b THEN UseAt(e, T, x.s[i], b) ELSE e, d, [i \in DOMAIN x.t |-> i])
      BB(d, b) ==
        LET phis == Fold(LAMBDA e, c : Fold(LAMBDA e1, x : PhiUse(e1, b, x), e, d.f.code[c]), d, T.out[b])
        IN  Fold(LAMBDA e, x : LateInstr(u, T, b, e, x), [phis EXCEPT !.f.code[b] = <<>>], Reverse(phis.f.code[b]))
  IN  Fold(BB, [f |-> Asserts(f, T.ok), lca |-> <<>>], Reverse(T.order)).f
\* gvn, gcm and mem2reg on a unit
GvnUnit(u) == EachFunc(EachFunc(EachFunc(u, Gvn), ScheduleEarly), Gvn)
Gcm(u) == EachFunc(u, ScheduleLate)
=============================================================================

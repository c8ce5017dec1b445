------------------------------- MODULE ArraySSA -------------------------------
(* Array SSA (array_ssa.cpp): registers for the states of memory objects,    *)
(* the analyses it stands on (simple_type_check and get_array_rw, pass.cpp)  *)
(* and the rewriting it allows.                                              *)
EXTENDS GVN

-----------------------------------------------------------------------------
\* simple_type_check: the object a register holds an address in, 0 for none.
TypeOf(t, r) == IF r \in DOMAIN t THEN t[r] ELSE 0
TypeInstr(f, t, x) ==
  LET b == [i \in DOMAIN x.s |-> TypeOf(t, x.s[i])]
  IN CASE x.op = "arg" -> IF x.c \in DOMAIN f.aargs THEN f.aargs[x.c] ELSE 0
       [] x.op = "addr" -> x.c
       [] x.op = "index" -> b[1]
       [] x.op = "un" -> IF x.k = "id" THEN b[1] ELSE 0
       [] x.op = "bin" -> IF x.k = "+" THEN Max({b[1], b[2]}) ELSE 0
       [] OTHER -> 0
\* Its assertions: addresses only where addresses belong.
TypeFits(u, t, x) ==
  LET b == [i \in DOMAIN x.s |-> TypeOf(t, x.s[i])]
  IN CASE x.op = "bin" -> (b[1] = 0 \/ b[2] = 0) /\ (x.k # "+" => b[1] = 0 /\ b[2] = 0)
       [] x.op = "load" -> b[1] # 0
       [] x.op = "store" -> b[1] # 0 /\ b[2] = 0
       [] x.op = "index" -> b[1] # 0 /\ b[2] = 0
       [] x.op \in {"branch", "return"} -> b[1] = 0
       [] x.op = "call" -> \A i \in ArrayArgs(u, x.k) : b[i + 1] # 0
       [] OTHER -> x.op \in {"addr", "arg", "const", "un", "phi", "local", "jump"}
SimpleTypeCheck(u, n) ==
  LET f == u.funcs[n]
      T == DomTree(f)
      Instr1(t, x) == [ok |-> t.ok /\ TypeFits(u, t.t, x) /\ (\A r \in UsesOf(x) : x.op = "phi" \/ r \in DOMAIN t.t),
                       t |-> IF IsRegWrite(x) THEN (x.d :> TypeInstr(f, t.t, x)) @@ t.t ELSE t.t]
  IN  Fold(LAMBDA t, b : Fold(Instr1, t, f.code[b]), [ok |-> T.ok, t |-> <<>>], T.order)

-----------------------------------------------------------------------------
(* get_array_rw: per function gl (object -> written), args (argument ->      *)
(* written), maybe (argument -> arrays it can be) and alias (a set of pairs).*)
Rw(gl, args) == [gl |-> gl, args |-> args, maybe |-> <<>>, alias |-> {}]
LibRw(n) == Rw(LibIO(n), LibArrays(n))
RwOf(rw, n) == IF n \in DOMAIN rw THEN rw[n] ELSE LibRw(n)
\* |= on a map of flags
Set(m, key, w) == (key :> (w \/ (key \in DOMAIN m /\ m[key]))) @@ m
SetAll(m, more) == Fold(LAMBDA a, key : Set(a, key, more[key]), m, Arranged(DOMAIN more))
IsArg(u, m) == m # 0 /\ u.obj[m].arg /\ ~u.obj[m].global
ArgOf(f, m) == CHOOSE i \in DOMAIN f.aargs : f.aargs[i] = m
CallsOf(u, n, rec) == SelectSeq(AllInstrs(u.funcs[n]), LAMBDA x : x.op = "call" /\ x.k \in DOMAIN u.funcs /\ (x.k = n) = rec)

Touch(u, n, types, s, x) ==
  LET m == TypeOf(types, x.s[1])
  IN  CASE x.op = "call" -> [s EXCEPT !.gl = SetAll(@, RwOf(s.rw, x.k).gl)]
        [] x.op \in {"load", "store"} /\ u.obj[m].global -> [s EXCEPT !.gl = Set(@, m, x.op = "store")]
        [] x.op \in {"load", "store"} /\ IsArg(u, m) -> [s EXCEPT !.args = Set(@, ArgOf(u.funcs[n], m), x.op = "store")]
        [] OTHER -> s
\* update: what a callee does to its arguments its caller does to its own.
Update(u, n, types, s, call) ==
  LET theirs == IF call.k = n THEN s.args ELSE RwOf(s.rw, call.k).args
      Hand(a, i) == LET m == TypeOf(types, call.s[i + 1])
                    IN  IF IsArg(u, m) THEN Set(a, ArgOf(u.funcs[n], m), theirs[i]) ELSE a
  IN  [s EXCEPT !.args = Fold(Hand, @, Ascending(DOMAIN theirs))]
\* The loop over recursive calls ends after one round or never (pass.cpp:141).
Summary(u, rw, n, types) ==
  LET f == u.funcs[n]
      s0 == Fold(LAMBDA s, x : IF x.op \in {"call", "load", "store"} /\ (x.op = "call" => x.k # n) THEN Touch(u, n, types, s, x) ELSE s,
                 [gl |-> <<>>, args |-> <<>>, rw |-> rw], AllInstrs(f))
      s1 == Fold(LAMBDA s, x : Update(u, n, types, s, x), s0, CallsOf(u, n, FALSE))
      s2 == Fold(LAMBDA s, x : Update(u, n, types, s, x), s1, CallsOf(u, n, TRUE))
  IN  [rw |-> (n :> Rw(s2.gl, s2.args)) @@ rw, ends |-> s2.args = s1.args]

\* From the callers down: the arrays an argument may be, and the aliases.
Maybe(s, n, i) == IF i \in DOMAIN s[n].maybe THEN s[n].maybe[i] ELSE {}
PassMaybe(u, types, n, s, call) ==
  LET Arrays(i) == LET m == TypeOf(types[n], call.s[i + 1])
                   IN  IF IsArg(u, m) THEN Maybe(s, n, ArgOf(u.funcs[n], m)) ELSE {m}
      g == call.k
  IN  [s EXCEPT ![g].maybe = Table([i \in DOMAIN s[g].args |-> Maybe(s, g, i) \cup Arrays(i)])]
RECURSIVE PassRec(_, _, _, _)
PassRec(u, types, n, s) == LET t == Fold(LAMBDA a, x : PassMaybe(u, types, n, a, x), s, CallsOf(u, n, TRUE))
                           IN  IF t = s THEN s ELSE PassRec(u, types, n, t)
\* A mutant: two arguments are never the same array.
AliasesGlobal(f, s) ==
  LET M(i) == IF i \in DOMAIN s.maybe THEN s.maybe[i] ELSE {}
  IN  UNION {{<<f.aargs[i], m>>, <<m, f.aargs[i]>>} : <<i, m>> \in {p \in (DOMAIN s.args) \X UNION {M(i) : i \in DOMAIN s.args} : p[2] \in M(p[1])}}
Aliases(f, s) ==
  LET args == DOMAIN s.args
      M(i) == IF i \in DOMAIN s.maybe THEN s.maybe[i] ELSE {}
  IN  UNION {{<<f.aargs[i], m>>, <<m, f.aargs[i]>>} : <<i, m>> \in {p \in args \X UNION {M(i) : i \in args} : p[2] \in M(p[1])}}
        \cup {<<f.aargs[p[1]], f.aargs[p[2]]>> : p \in {q \in args \X args : q[1] # q[2] /\ M(q[1]) \cap M(q[2]) # {}}}
GetArrayRw(u) ==
  LET seq == CallOrder(u)
      check == Table([n \in ToSet(seq) |-> SimpleTypeCheck(u, n)])
      types == Table([n \in ToSet(seq) |-> check[n].t])
      Up(a, n) == LET s == Summary(u, a.rw, n, types[n]) IN [rw |-> s.rw, ends |-> a.ends /\ s.ends]
      up == Fold(Up, [rw |-> <<>>, ends |-> TRUE], seq)
      Down(s, n) == LET t == Fold(LAMBDA a, x : PassMaybe(u, types, n, a, x), PassRec(u, types, n, s), CallsOf(u, n, FALSE))
                    IN  [t EXCEPT ![n].alias = Aliases(u.funcs[n], t[n])]
  IN  [rw |-> Fold(Down, up.rw, Reverse(seq)), types |-> types, ok |-> up.ends /\ \A n \in ToSet(seq) : check[n].ok]

-----------------------------------------------------------------------------
(* into_array_ssa                                                            *)
Flag(S, w) == [m \in S |-> w]
\* The objects a call uses, with whether it may write them.
UsedBy(u, rw, types, n, call) ==
  LET g == RwOf(rw, call.k)
      args == Fold(LAMBDA a, i : Set(a, TypeOf(types, call.s[i + 1]), g.args[i]), g.gl, Ascending(DOMAIN g.args))
      Also(a, m) == SetAll(a, Flag({p[2] : p \in {q \in rw[n].alias : q[1] = m}}, args[m]))
  IN  Fold(Also, args, Ascending(DOMAIN args))
IntoInstr(u, rw, types, n, reg, x) ==
  LET m == TypeOf(types, x.s[1])
      known(S) == Ascending(S \cap DOMAIN reg)
      Effects(s) == [i \in DOMAIN s |-> MemEffect(reg[s[i]], reg[s[i]], s[i])]
      used == UsedBy(u, rw, types, n, x)
      uses == known(DOMAIN used)
      written == SelectSeq(uses, LAMBDA o : used[o])
  IN CASE x.op = "load" -> <<MemRead(x.d, reg[m], x.s[1], m)>>
       [] x.op = "store" -> <<MemWrite(reg[m], reg[m], x.s[1], x.s[2], m)>>
                              \o Effects(known({p[2] : p \in {q \in rw[n].alias : q[1] = m}}))
       [] x.op = "local" -> <<MemDef(reg[x.c], x.c), x>>
       [] x.op = "call" -> [i \in DOMAIN uses |-> MemUse(reg[uses[i]], uses[i])]
                             \o <<[x EXCEPT !.t = <<Bool(written = <<>>), Len(uses)>>]>> \o Effects(written)
       [] OTHER -> <<x>>
IntoArraySSA(u0) ==
  LET a == GetArrayRw(u0)
      mutable == UNION {{m \in DOMAIN a.rw[n].gl : a.rw[n].gl[m]} : n \in DOMAIN a.rw}
      u == [u0 EXCEPT !.const = {m \in ToSet(u0.gl) : ~u0.obj[m].arg /\ m \notin mutable},
                      !.bad = @ \/ ~a.ok]
      Into(v, n) ==
        LET f == v.funcs[n]
            objs == v.gl \o f.objs
            reg == Table([m \in ToSet(objs) |-> f.nreg + (CHOOSE i \in DOMAIN objs : objs[i] = m)])
            stores == {TypeOf(a.types[n], At(f, p).s[1]) : p \in {q \in Positions(f) : At(f, q).op = "store"}}
            g == [MapCode(f, LAMBDA b, is : FlattenSeq([i \in DOMAIN is |-> IntoInstr(v, a.rw, a.types[n], n, reg, is[i])]))
                    EXCEPT !.nreg = @ + Len(objs), !.bad = @ \/ stores \cap v.const # {}]
            h == [g EXCEPT !.code[f.entry] = Reverse([i \in DOMAIN v.gl |-> MemDef(reg[v.gl[i]], v.gl[i])]) \o @]
        IN  SSAConstruction([v EXCEPT !.funcs[n] = h], n, {reg[m] : m \in ToSet(objs)})
  IN  IF a.ok THEN EachFunc(u, Into) ELSE u

-----------------------------------------------------------------------------
(* from_array_ssa                                                            *)
\* infer_array_regs: the object whose state a register is; 0 on a cycle.
RECURSIVE InferReg(_, _, _)
InferReg(f, a, r) ==
  LET x == At(f, DefPos(f, r))
      Use(b, s) == LET c == InferReg(f, b, s)
                   IN  [c EXCEPT ![r] = IF c[s] = 0 THEN @ ELSE c[s]]
      start == (r :> 0) @@ a
  IN  IF r = 0 \/ r \in DOMAIN a THEN a
      ELSE CASE x.op \in {"memwrite", "memdef", "memeffect"} -> (r :> x.c) @@ a
             [] x.op = "phi" \/ x.op = "un" -> Fold(Use, start, x.s)
             [] OTHER -> start
InferArrayRegs(f) == Fold(LAMBDA a, x : InferReg(f, a, x.d), (0 :> 0), AllInstrs(f))

\* stack_array_to_global: a small local array that is read in one state, made by
\* constant stores after its definition, is a constant global.
ConstAddr(f, r) ==
  LET x == At(f, DefPos(f, r))
      D(i) == At(f, DefPos(f, x.s[i]))
      ab == IF D(1).op = "addr" THEN <<D(1), D(2)>> ELSE <<D(2), D(1)>>
  IN  CASE x.op = "addr" -> x.c :> 0
        [] x.op = "bin" -> IF x.k = "+" /\ ab[1].op = "addr" /\ ab[2].op = "const" THEN ab[1].c :> ab[2].c ELSE <<>>
        [] OTHER -> <<>>
\* The contents the state r is made of, or <<FALSE>>; later stores come first.
RECURSIVE Contents(_, _, _, _)
Contents(f, r, cells, t) ==
  LET x == At(f, DefPos(f, r))
      at == ConstAddr(f, x.s[2])
      v == At(f, DefPos(f, x.s[3]))
      pos == at[CHOOSE m \in DOMAIN at : TRUE]
  IN  CASE t = 64 -> <<FALSE>>
        [] x.op = "memdef" -> <<TRUE, cells>>
        [] x.op = "memwrite" -> IF v.op # "const" \/ at = <<>> THEN <<FALSE>>
                                ELSE Contents(f, x.s[1], cells @@ (pos :> v.c), t + 1)
        [] OTHER -> <<FALSE>>
StackArrays(u, n) ==
  LET f == u.funcs[n]
      of(m, ops) == {At(f, p) : p \in {q \in Positions(f) : At(f, q).op \in ops /\ At(f, q).c = m}}
      states(m) == {x.s[1] : x \in of(m, {"memread", "memuse"})}
      Fits(m) == LET o == u.obj[m]
                 IN  /\ ~o.arg /\ 1 < o.size /\ o.size <= 64
                     /\ of(m, {"memeffect"}) = {} /\ Cardinality(states(m)) = 1
                     /\ Contents(f, CHOOSE r \in states(m) : TRUE, <<>>, 0)[1]
  IN  SelectSeq(f.objs, Fits)
ToGlobal(u, n) ==
  LET f == u.funcs[n]
      S == StackArrays(u, n)
      Cells(m) == Contents(f, CHOOSE r \in {At(f, p).s[1] : p \in {q \in Positions(f) : At(f, q).op \in {"memread", "memuse"} /\ At(f, q).c = m}} : TRUE, <<>>, 0)[2]
      Copy(m) == LET c == Cells(m)
                 IN  MemObject(u.obj[m].size, [i \in 1 .. u.obj[m].size |-> IF i - 1 \in DOMAIN c THEN c[i - 1] ELSE 0],
                               TRUE, FALSE, u.obj[m].dims)
  IN  [u EXCEPT !.obj = @ \o [i \in DOMAIN S |-> Copy(S[i])], !.gl = @ \o [i \in DOMAIN S |-> Len(u.obj) + i]]
\* sag: stack-array-to-global is enabled.
FromInstr(a, sa, x) ==
  CASE x.op \in {"memdef", "memuse", "memeffect"} -> <<>>
    [] x.op = "memread" -> <<Load(x.d, x.s[2])>>
    [] x.op = "memwrite" -> IF x.c \in DOMAIN sa THEN <<>> ELSE <<Store(x.s[2], x.s[3])>>
    [] x.op = "call" -> <<[x EXCEPT !.t = <<0, 0>>]>>
    [] x.op \in {"phi", "un"} -> IF a[x.d] # 0 THEN <<>> ELSE <<x>>
    [] x.op = "addr" -> <<[x EXCEPT !.c = IF @ \in DOMAIN sa THEN sa[@] ELSE @]>>
    [] OTHER -> <<x>>
FromArraySSA(u0, sag) ==
  LET u1 == IF sag THEN Fold(ToGlobal, u0, u0.order) ELSE u0
      found == IF sag THEN FlattenSeq([i \in DOMAIN u0.order |-> StackArrays(u0, u0.order[i])]) ELSE <<>>
      sa == Table([m \in ToSet(found) |-> Len(u0.obj) + (CHOOSE i \in DOMAIN found : found[i] = m)])
      From(f) == LET a == InferArrayRegs(f)
                 IN  MapCode(f, LAMBDA b, is : FlattenSeq([i \in DOMAIN is |-> FromInstr(a, sa, is[i])]))
  IN  ForEach(u1, From)

-----------------------------------------------------------------------------
(* simplify_load_store: what a read of a known state returns.  d.new holds   *)
(* instructions to push in front of blocks, d.mp the registers to replace.   *)
\* The value a MemDef of a global has at a constant address.
InitialRead(u, n, def, addr) ==
  LET f == u.funcs[n]
      at == ConstAddr(f, addr)
  IN  IF def.op = "memdef" /\ u.obj[def.c].global /\ (def.c \in u.const \/ n = "main") /\ at # <<>>
      THEN <<InitialWord(u.obj[def.c], at[CHOOSE m \in DOMAIN at : TRUE])>> ELSE <<>>
SimplifyRead(u, n, d, x) ==
  LET f == u.funcs[n]
      Writes(r) == At(f, DefPos(f, r)).op = "memwrite" /\ At(f, DefPos(f, r)).s[2] = x.s[2]
      p == DefPos(f, x.s[1])
      def == At(f, p)
      init == InitialRead(u, n, def, x.s[2])
      r == d.f.nreg + 1
      New(b, y) == [d EXCEPT !.f = [PushFront(@, b, y) EXCEPT !.nreg = r], !.mp = (x.d :> r) @@ @]
  IN CASE x.op # "memread" -> d
       [] def.op = "memwrite" -> IF Writes(x.s[1]) THEN [d EXCEPT !.mp = (x.d :> def.s[3]) @@ @] ELSE d
       [] def.op = "phi" -> IF \A i \in DOMAIN def.s : Writes(def.s[i])
                            THEN New(p[1], Phi(r, [i \in DOMAIN def.s |-> At(f, DefPos(f, def.s[i])).s[3]], def.t)) ELSE d
       [] def.op = "memdef" -> IF init # <<>> THEN New(f.entry, LoadConst(r, init[1])) ELSE d
       [] OTHER -> d
SimplifyLoadStore(u, n) ==
  LET f == u.funcs[n]
      T == DomTree(f)
      d == Fold(LAMBDA e, b : Fold(LAMBDA e1, x : SimplifyRead(u, n, e1, x), e, f.code[b]), [f |-> f, mp |-> <<>>], T.order)
  IN  [f |-> RemoveUnusedDef([u EXCEPT !.funcs[n] = MapUses(Asserts(d.f, T.ok), d.mp)], n), changed |-> d.mp # <<>>]
=============================================================================

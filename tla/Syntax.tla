-------------------------------- MODULE Syntax --------------------------------
(* Syntax trees of SysY programs (src/src/frontend/SysY.g4) and what they     *)
(* mean: a big-step semantics that knows nothing of blocks or registers, the  *)
(* abstract specification the compiler is checked against.                    *)
EXTENDS IR

Num(v) == [n |-> "num", v |-> v]
Elem(x, ix) == [n |-> "var", x |-> x, ix |-> ix]
Var(x) == Elem(x, <<>>)
CallE(f, args) == [n |-> "call", f |-> f, args |-> args]
Un(op, e) == [n |-> "un", op |-> op, e |-> e]
Bin(op, l, r) == [n |-> "bin", op |-> op, l |-> l, r |-> r]
And(l, r) == [n |-> "and", l |-> l, r |-> r]
Or(l, r) == [n |-> "or", l |-> l, r |-> r]

Assign(lv, e) == [n |-> "assign", lv |-> lv, e |-> e]
ExpStmt(e) == [n |-> "exp", e |-> e]
Block(ss) == [n |-> "block", ss |-> ss]
If(c, s) == [n |-> "if", c |-> c, s |-> s]
IfElse(c, s, s0) == [n |-> "ifelse", c |-> c, s |-> s, s0 |-> s0]
While(c, s) == [n |-> "while", c |-> c, s |-> s]
Break == [n |-> "break"]
Continue == [n |-> "continue"]
Ret(e) == [n |-> "return", e |-> <<e>>]
RetVoid == [n |-> "return", e |-> <<>>]
\* init is <<>>, <<Scalar(e)>> or <<List(inits)>>
Scalar(e) == [n |-> "scalar", e |-> e]
List(es) == [n |-> "list", es |-> es]
VarDef(x, dims, init) == [n |-> "vardef", x |-> x, dims |-> dims, init |-> init]
ConstDef(x, dims, init) == [n |-> "constdef", x |-> x, dims |-> dims, init |-> init]
\* A parameter: om for "[]", the dimensions behind it.
Param(x) == [x |-> x, om |-> FALSE, dims |-> <<>>]
ArrayParam(x, dims) == [x |-> x, om |-> TRUE, dims |-> dims]
FuncDef(f, nonVoid, params, body) == [n |-> "func", f |-> f, nonVoid |-> nonVoid, params |-> params, body |-> body]

Product(s) == Fold(LAMBDA a, b : a * b, 1, s)
-----------------------------------------------------------------------------
(* The meaning.  A configuration: scopes (the globals first), each a function*)
(* from names to places [base, dims]; the store; the input that is left; what*)
(* was printed; how the last statement ended; the value returned.            *)

Place(base, dims) == [base |-> base, dims |-> dims]
RECURSIVE Resolve(_, _)
Resolve(scopes, x) == IF x \in DOMAIN Last(scopes) THEN Last(scopes)[x] ELSE Resolve(Front(scopes), x)
Alloc(c, x, dims) ==
  [c EXCEPT !.scopes[Len(c.scopes)] = (x :> Place(Len(c.store) + 1, dims)) @@ @,
            !.store = @ \o [j \in 1 .. Product(dims) |-> 0]]

RECURSIVE EvalE(_, _, _), EvalAll(_, _, _), EvalPlace(_, _, _), EvalCall(_, _, _, _), EvalS(_, _, _), EvalBlock(_, _, _),
          EvalInit(_, _, _, _, _), EvalInits(_, _, _, _, _, _)
V(c, v) == [c |-> c, v |-> v]
EvalE(p, c, e) ==
  CASE e.n = "num" -> V(c, e.v)
    [] e.n = "var" -> LET l == EvalPlace(p, c, e)      \* an array stands for its place
                      IN  IF l.v.dims = <<>> THEN V(l.c, l.c.store[l.v.base]) ELSE l
    [] e.n = "call" -> LET a == EvalAll(p, c, e.args) IN EvalCall(p, a.c, e.f, a.v)
    [] e.n = "un" -> LET x == EvalE(p, c, e.e)
                     IN  V(x.c, CASE e.op = "-" -> Wrap(-x.v) [] e.op = "+" -> x.v [] e.op = "!" -> Bool(x.v = 0))
    [] e.n = "bin" ->
         LET x == EvalE(p, c, e.l)
             y == EvalE(p, x.c, e.r)
         IN  V(y.c, CASE e.op = ">" -> Bool(x.v > y.v) [] e.op = ">=" -> Bool(x.v >= y.v) [] OTHER -> Binary(e.op, x.v, y.v))
    [] e.n = "and" -> LET x == EvalE(p, c, e.l)
                      IN  IF x.v = 0 THEN V(x.c, 0) ELSE LET y == EvalE(p, x.c, e.r) IN V(y.c, Bool(y.v # 0))
    [] e.n = "or" -> LET x == EvalE(p, c, e.l)
                     IN  IF x.v # 0 THEN V(x.c, 1) ELSE LET y == EvalE(p, x.c, e.r) IN V(y.c, Bool(y.v # 0))
EvalAll(p, c, es) ==
  IF es = <<>> THEN V(c, <<>>)
  ELSE LET x == EvalE(p, c, Head(es))
           r == EvalAll(p, x.c, Tail(es))
       IN  V(r.c, <<x.v>> \o r.v)
EvalPlace(p, c, e) ==
  LET ix == EvalAll(p, c, e.ix)
      pl == Resolve(c.scopes, e.x)
      Down(l, i) == Place(l.base + i * Product(Tail(l.dims)), Tail(l.dims))
  IN  V(ix.c, Fold(Down, pl, ix.v))
\* Array parameters keep the caller's place; their first dimension is unknown.
EvalCall(p, c, f, vs) ==
  IF \E i \in DOMAIN p : p[i].n = "func" /\ p[i].f = f
  THEN LET fd == p[CHOOSE i \in DOMAIN p : p[i].n = "func" /\ p[i].f = f]
           Bind(d, i) == IF fd.params[i].om
                         THEN [d EXCEPT !.scopes[2] = (fd.params[i].x :> vs[i]) @@ @]
                         ELSE LET a == Alloc(d, fd.params[i].x, <<>>) IN [a EXCEPT !.store[Len(a.store)] = vs[i]]
           body == EvalBlock(p, Fold(Bind, [c EXCEPT !.scopes = <<@[1], <<>> >>, !.ret = 0], [i \in DOMAIN vs |-> i]), fd.body)
       IN  V([body EXCEPT !.scopes = c.scopes, !.end = "next"], body.ret)
  ELSE CASE f \in {"getint", "getch"} -> V([c EXCEPT !.inp = Tail(@)], Head(c.inp))
         [] f = "getarray" -> V([c EXCEPT !.inp = SubSeq(@, Head(@) + 2, Len(@)),
                !.store = [a \in DOMAIN @ |-> LET j == a - vs[1].base IN IF j \in 0 .. Head(c.inp) - 1 THEN c.inp[j + 2] ELSE @[a]]],
                Head(c.inp))
         [] f \in {"putint", "putch"} -> V([c EXCEPT !.out = Append(@, <<f, vs[1]>>)], 0)
         [] f = "putarray" -> V([c EXCEPT !.out = Append(@, <<f, [j \in 1 .. vs[1] |-> c.store[vs[2].base + j - 1]]>>)], 0)
EvalBlock(p, c, ss) == IF ss = <<>> \/ c.end # "next" THEN c ELSE EvalBlock(p, EvalS(p, c, Head(ss)), Tail(ss))
Inner(p, c, ss) == [EvalBlock(p, [c EXCEPT !.scopes = Append(@, <<>>)], ss) EXCEPT !.scopes = c.scopes]
EvalS(p, c, s) ==
  CASE s.n = "assign" -> LET l == EvalPlace(p, c, s.lv)
                             x == EvalE(p, l.c, s.e)
                         IN  [x.c EXCEPT !.store[l.v.base] = x.v]
    [] s.n = "exp" -> EvalE(p, c, s.e).c
    [] s.n = "block" -> Inner(p, c, s.ss)
    [] s.n = "if" -> LET x == EvalE(p, c, s.c) IN IF x.v # 0 THEN Inner(p, x.c, <<s.s>>) ELSE x.c
    [] s.n = "ifelse" -> LET x == EvalE(p, c, s.c) IN Inner(p, x.c, <<IF x.v # 0 THEN s.s ELSE s.s0>>)
    [] s.n = "while" ->
         LET x == EvalE(p, c, s.c)
             b == Inner(p, x.c, <<s.s>>)
         IN  IF x.v = 0 THEN x.c
             ELSE IF b.end = "return" THEN b
             ELSE IF b.end = "break" THEN [b EXCEPT !.end = "next"]
             ELSE EvalS(p, [b EXCEPT !.end = "next"], s)
    [] s.n \in {"break", "continue"} -> [c EXCEPT !.end = s.n]
    [] s.n = "return" -> IF s.e = <<>> THEN [c EXCEPT !.end = "return"]
                         ELSE LET x == EvalE(p, c, s.e[1]) IN [x.c EXCEPT !.end = "return", !.ret = x.v]
    [] s.n \in {"vardef", "constdef"} ->
         LET dims == [i \in DOMAIN s.dims |-> EvalE(p, c, s.dims[i]).v]
             d == Alloc(c, s.x, dims)
         IN  IF s.init = <<>> THEN d ELSE EvalInit(p, d, s.init[1], Len(c.store) + 1, dims)
\* Initialisers from address a on: a list fills a (sub)array of shape dims.
EvalInit(p, c, t, a, dims) ==
  IF t.n = "scalar" THEN LET x == EvalE(p, c, t.e) IN [x.c EXCEPT !.store[a] = x.v]
  ELSE EvalInits(p, c, t.es, a, 0, dims)
EvalInits(p, c, ts, a, k, dims) ==
  IF ts = <<>> THEN c
  ELSE LET sub == IF Head(ts).n = "scalar" THEN <<>> ELSE Tail(dims)
       IN  EvalInits(p, EvalInit(p, c, Head(ts), a + k, sub), Tail(ts), a, k + Product(sub), dims)

\* What the program prints and returns.
MeaningOf(p, input) ==
  LET c0 == [scopes |-> << <<>> >>, store |-> <<>>, inp |-> input, out |-> <<>>, end |-> "next", ret |-> 0]
      c1 == EvalBlock(p, c0, SelectSeq(p, LAMBDA d : d.n # "func"))
      r == EvalCall(p, c1, "main", <<>>)
  IN  [st |-> "done", out |-> r.c.out, ret |-> r.v]
=============================================================================

------------------------------- MODULE FrontEnd -------------------------------
(* The front end (ast_visitor.cpp): one walk over the syntax tree that emits *)
(* the intermediate representation.  The visitor's fields are a record:      *)
(*   u: unit, f: cur_func or ".init", bb: cur_bb, tabs: the variable tables  *)
(*   from global_var to cur_local_table, fns: the interfaces of functions,   *)
(*   brk, cont: break_target, continue_target, rets: return_value,           *)
(*   rbb: return_bb, mode, ibb: init_bb, err: the first exception ("": none).*)
(* A visit returns [g, v]: the fields after it and its value.                *)
EXTENDS Syntax

CONSTANT FuncNames     \* the names of functions, in the order of std::map

R(g, v) == [g |-> g, v |-> v]
Fail(g, what) == IF g.err = "" THEN [g EXCEPT !.err = what] ELSE g
Check(g, ok, what) == IF ok THEN g ELSE Fail(g, what)
Local(g) == g.f # ".init"
Reg(g) == g.u.funcs[g.f].nreg + 1
Emit(g, x) == [g EXCEPT !.u.funcs[g.f].code[g.bb] = Append(@, x),
                        !.u.funcs[g.f].nreg = IF x.d > @ THEN x.d ELSE @]
Def(g, x) == R(Emit(g, x), x.d)
AddBB(g) == LET fn == NewBB(g.u.funcs[g.f]) IN R([g EXCEPT !.u.funcs[g.f] = fn], fn.nbb)
At_(g, b) == [g EXCEPT !.bb = b]
\* Targets of branches that are not known yet: pairs of a block and 1 or 2.
Patch(g, sites, b) ==
  [g EXCEPT !.u.funcs[g.f].code = [a \in DOMAIN @ |->
      LET n == Len(@[a]) IN IF \E i \in 1 .. 2 : <<a, i>> \in sites
        THEN [@[a] EXCEPT ![n].t = [i \in 1 .. 2 |-> IF <<a, i>> \in sites THEN b ELSE @[i]]] ELSE @[a]]]

-----------------------------------------------------------------------------
(* Types and tables (symbol_table.cpp).                                      *)
Type(dims, om) == [dims |-> dims, om |-> om]
IntType == Type(<<>>, FALSE)
IsArray(t) == t.dims # <<>> \/ t.om
Deref(t) == IF t.om THEN Type(t.dims, FALSE) ELSE Type(Tail(t.dims), FALSE)
CountDims(t) == Len(t.dims) + Bool(t.om)
CheckAssign(t, rhs) == IF t.om /\ ~rhs.om THEN rhs.dims # <<>> /\ Tail(rhs.dims) = t.dims
                       ELSE t.om = rhs.om /\ t.dims = rhs.dims
\* The words an index at position i (from 0) steps over.
Stride(t, i) == Product(SubSeq(t.dims, i + (IF t.om THEN 1 ELSE 2), Len(t.dims)))
Entry(obj, type, arg, const, init) == [obj |-> obj, type |-> type, arg |-> arg, const |-> const, init |-> init]
Known(g, x) == \E i \in DOMAIN g.tabs : x \in DOMAIN g.tabs[i]
Lookup(g, x) == g.tabs[Max({i \in DOMAIN g.tabs : x \in DOMAIN g.tabs[i]})][x]
Register(g, x, e) == [g EXCEPT !.tabs[Len(g.tabs)] = (x :> e) @@ @]
NewMemObject(g, o) ==
  LET n == Len(g.u.obj) + 1
      h == [g EXCEPT !.u.obj = Append(@, o)]
  IN  R(IF o.global THEN [h EXCEPT !.u.gl = Append(@, n)] ELSE [h EXCEPT !.u.funcs[g.f].objs = Append(@, n)], n)

-----------------------------------------------------------------------------
(* Constant expressions (init_value.cpp): values that leave the range of int *)
(* and divisions by zero are errors.                                         *)
CT(ok, v) == [ok |-> ok, v |-> v]
InRange(v) == -Half <= v /\ v < Half
RECURSIVE ConstExp(_, _)
ConstExp(g, e) ==
  CASE e.n = "num" -> CT(TRUE, e.v)
    [] e.n = "var" ->
         LET ix == [i \in DOMAIN e.ix |-> ConstExp(g, e.ix[i])]
             en == Lookup(g, e.x)
         IN  IF /\ Known(g, e.x) /\ en.const
                /\ Len(ix) = CountDims(en.type)
                /\ \A i \in DOMAIN ix : ix[i].ok /\ 0 <= ix[i].v /\ ix[i].v < en.type.dims[i]
             THEN CT(TRUE, en.init[1 + Fold(LAMBDA a, i : a * en.type.dims[i] + ix[i].v, 0, [i \in DOMAIN ix |-> i])])
             ELSE CT(FALSE, 0)
    [] e.n = "un" -> LET x == ConstExp(g, e.e)
                     IN  CT(x.ok, CASE e.op = "-" -> IF x.v = -Half THEN x.v ELSE -x.v
                                    [] e.op = "!" -> Bool(x.v = 0) [] e.op = "+" -> x.v)
    [] e.n = "bin" ->
         LET x == ConstExp(g, e.l)
             y == ConstExp(g, e.r)
             v == CASE e.op = "+" -> x.v + y.v [] e.op = "-" -> x.v - y.v [] e.op = "*" -> x.v * y.v
                    [] e.op = "/" -> Quotient(x.v, y.v) [] e.op = "%" -> Remainder(x.v, y.v)
         IN  IF x.ok /\ y.ok /\ ~(e.op \in {"/", "%"} /\ y.v = 0) /\ InRange(v) THEN CT(TRUE, v) ELSE CT(FALSE, 0)
    [] OTHER -> CT(FALSE, 0)
\* get_array_dims
Dims(g, es) == LET d == [i \in DOMAIN es |-> ConstExp(g, es[i])]
               IN  R(Check(g, \A i \in DOMAIN d : d[i].ok /\ d[i].v >= 0, "CompileTimeValueEvalFail"),
                     [i \in DOMAIN d |-> d[i].v])

-----------------------------------------------------------------------------
(* Values: registers, addresses of lvalues, or jump lists.                   *)
IRValue(lv, reg, type) == [k |-> "value", lv |-> lv, reg |-> reg, type |-> type]
Void == [k |-> "void"]
JumpList(t, f) == [k |-> "jump", t |-> t, f |-> f]
RValue(r) == R(r.g, IRValue(FALSE, r.v, IntType))

\* to_IRValue
ToIRValue(r) ==
  CASE r.v.k = "value" -> r
    [] r.v.k = "void" -> R(Fail(r.g, "VoidFuncReturnValueUsed"), IRValue(FALSE, 1, IntType))
    [] r.v.k = "jump" ->
         LET t == AddBB(r.g)
             f == AddBB(t.g)
             res == AddBB(f.g)
             g1 == Patch(Patch(res.g, r.v.t, t.v), r.v.f, f.v)
             one == Reg(g1)
             g2 == Emit(Emit(At_(g1, t.v), LoadConst(one, 1)), Jump(res.v))
             g3 == Emit(Emit(At_(g2, f.v), LoadConst(one + 1, 0)), Jump(res.v))
         IN  RValue(Def(At_(g3, res.v), Phi(one + 2, <<one, one + 1>>, <<t.v, f.v>>)))

\* get_value
GetValue(g, v) ==
  LET h == Check(g, ~IsArray(v.type), "ArrayTypedValueUsed")
  IN  IF v.lv THEN Def(h, Load(Reg(h), v.reg)) ELSE R(h, v.reg)
Value(r) == LET x == ToIRValue(r) IN GetValue(x.g, x.v)

\* to_CondJumpList: the branch's targets are patched later.
ToJumpList(r) ==
  IF r.v.k = "jump" THEN r
  ELSE LET x == Value(r)
           b == x.g.bb
       IN  R(At_(Emit(x.g, Branch(x.v, 0, 0)), 0), JumpList({<<b, 1>>}, {<<b, 2>>}))

RECURSIVE VisitExp(_, _), VisitIndex(_, _, _, _, _), VisitArgs(_, _)
Mode(g, m) == [g EXCEPT !.mode = m]

\* visitMul2, visitAdd2, visitRel2, visitEq2: operands are loaded after both visits.
VisitBin(g, e) ==
  LET l == ToIRValue(VisitExp(Mode(g, "normal"), e.l))
      r == ToIRValue(VisitExp(l.g, e.r))
      a == GetValue(r.g, l.v)
      b == GetValue(a.g, r.v)
      d == Reg(b.g)
      x == CASE e.op = ">" -> BinaryOp(d, b.v, a.v, "<")
             [] e.op = ">=" -> BinaryOp(d, b.v, a.v, "<=")
             [] OTHER -> BinaryOp(d, a.v, b.v, e.op)
  IN  RValue(Def(Mode(b.g, g.mode), x))

\* visitUnary3
VisitUn(g, e) ==
  IF g.mode = "condition" /\ e.op = "!"
  THEN LET j == ToJumpList(VisitExp(g, e.e)) IN R(j.g, JumpList(j.v.f, j.v.t))
  ELSE LET x == Value(VisitExp(Mode(g, "normal"), e.e))
           h == Mode(x.g, g.mode)
       IN  RValue(CASE e.op = "+" -> R(h, x.v)
                    [] e.op = "-" -> Def(h, UnaryOp(Reg(h), x.v, "neg"))
                    [] e.op = "!" -> Def(h, UnaryOp(Reg(h), x.v, "!")))

\* visitLAnd2, visitLOr2 in condition mode: the second operand starts a block.
VisitAnd(g, e) ==
  LET l == ToJumpList(VisitExp(g, e.l))
      b == AddBB(l.g)
      r == ToJumpList(VisitExp(Patch(At_(b.g, b.v), l.v.t, b.v), e.r))
  IN  R(r.g, JumpList(r.v.t, r.v.f \cup l.v.f))
VisitOr(g, e) ==
  LET l == ToJumpList(VisitExp(g, e.l))
      b == AddBB(l.g)
      r == ToJumpList(VisitExp(Patch(At_(b.g, b.v), l.v.f, b.v), e.r))
  IN  R(r.g, JumpList(r.v.t \cup l.v.t, r.v.f))

\* visitLVal; indices are visited from the last to the first.
VisitLVal(g, e) ==
  IF ~Known(g, e.x) THEN R(Fail(g, "UnrecognizedVarName"), IRValue(FALSE, 1, IntType))
  ELSE LET en == Lookup(g, e.x)
           h == Check(g, Len(e.ix) <= CountDims(en.type), "InvalidIndexOperator")
           a == Def(h, IF en.arg >= 0 THEN LoadArg(Reg(h), en.arg) ELSE LoadAddr(Reg(h), en.obj))
       IN  IF h.err # "" THEN R(h, IRValue(FALSE, 1, IntType)) ELSE VisitIndex(a, e.ix, Len(e.ix), en.type, en.type)
VisitIndex(a, ix, i, t0, t) ==
  IF i = 0 THEN R(a.g, IRValue(TRUE, a.v, t))
  ELSE LET x == Value(VisitExp(a.g, ix[i]))
           b == Def(x.g, ArrayIndex(Reg(x.g), a.v, x.v, Stride(t0, i - 1)))
       IN  VisitIndex(b, ix, i - 1, t0, Deref(t))

\* visitFuncRParams: a sequence of values that are not loaded yet.
VisitArgs(g, es) ==
  IF es = <<>> THEN R(g, <<>>)
  ELSE LET x == ToIRValue(VisitExp(Mode(g, "normal"), Head(es)))
           r == VisitArgs(Mode(x.g, g.mode), Tail(es))
       IN  R(r.g, <<x.v>> \o r.v)
\* visitUnary2
VisitCall(g, e) ==
  IF e.f \notin DOMAIN g.fns THEN R(Fail(g, "UnrecognizedFuncName"), Void)
  ELSE LET a == VisitArgs(g, e.args)
           fn == g.fns[e.f]
           ok == Len(a.v) = Len(fn.params) /\ \A i \in DOMAIN a.v : CheckAssign(fn.params[i], a.v[i].type)
           Hand(r, i) == LET x == IF IsArray(fn.params[i]) THEN R(r.g, a.v[i].reg) ELSE GetValue(r.g, a.v[i])
                         IN  R(x.g, Append(r.v, x.v))
           p == Fold(Hand, R(a.g, <<>>), [i \in DOMAIN a.v |-> i])
           c == Def(p.g, Call(Reg(p.g), e.f, p.v, Bool(~fn.nonVoid)))
       IN  IF ~ok THEN R(Fail(a.g, "InvalidFuncCallArg"), Void)
           ELSE IF fn.nonVoid THEN RValue(c) ELSE R(c.g, Void)

VisitExp(g, e) ==
  CASE g.err # "" -> R(g, IRValue(FALSE, 1, IntType))
    [] OTHER -> CASE e.n = "num" -> RValue(Def(g, LoadConst(Reg(g), e.v)))
                  [] e.n = "var" -> VisitLVal(g, e)
                  [] e.n = "call" -> VisitCall(g, e)
                  [] e.n = "un" -> VisitUn(g, e)
                  [] e.n = "bin" -> VisitBin(g, e)
                  [] e.n = "and" -> VisitAnd(g, e)
                  [] e.n = "or" -> VisitOr(g, e)
\* visitCond
VisitCond(g, e) == LET x == VisitExp(Mode(g, "condition"), e) IN ToJumpList(R(Mode(x.g, "normal"), x.v))

-----------------------------------------------------------------------------
(* Declarations.  An initialiser list becomes one entry per word: <<>> for a *)
(* word that is not mentioned, <<value>> otherwise.                          *)
\* dfs_const_init, dfs_var_init: a cell of length 2 when a list does not fit.
Misfit == <<0, 0>>
RECURSIVE Flatten(_, _)
Flatten(t, dims) ==
  LET child == Product(Tail(dims))
      Put(a, c) ==
        IF c.n = "scalar" THEN Append(a, <<c.e>>)
        ELSE IF Len(a) % child # 0 THEN Append(a, Misfit)
        ELSE a \o Flatten(c, Tail(dims))
      cells == Fold(Put, <<>>, t.es)
      total == Product(dims)
  IN  IF dims = <<>> THEN <<Misfit>>
      ELSE IF total = 0 THEN <<>>
      ELSE IF Len(cells) > total THEN <<Misfit>>
      ELSE cells \o [j \in 1 .. total - Len(cells) |-> <<>>]
\* parse_const_init, parse_var_init
Cells(t, dims) == IF t.n = "list" THEN Flatten(t, dims) ELSE IF dims = <<>> THEN << <<t.e>> >> ELSE <<Misfit>>
CellsOk(cells) == \A i \in DOMAIN cells : Len(cells[i]) < 2

\* Stores to the words of an object, one after the other (gen_var_init_ir; visitConstDef).
StoreWord(g, start, i, x) ==
  IF i = 1 THEN Emit(g, Store(start, x))
  ELSE LET k == Def(g, LoadConst(Reg(g), i - 1))
           a == Def(k.g, ArrayIndex(Reg(k.g), start, k.v, 1))
       IN  Emit(a.g, Store(a.v, x))
GenVarInit(g, cells, obj, ignoreZero) ==
  LET start == Def(g, LoadAddr(Reg(g), obj))
      zero == IF ignoreZero THEN start ELSE Def(start.g, LoadConst(Reg(start.g), 0))
      Word(h, i) == IF cells[i] # <<>> THEN StoreWord(h, start.v, i, cells[i][1])
                    ELSE IF ignoreZero THEN h ELSE StoreWord(h, start.v, i, zero.v)
  IN  Fold(Word, zero.g, [i \in DOMAIN cells |-> i])

Duplicate(g, x) == IF Local(g) THEN x \in DOMAIN Last(g.tabs) ELSE Known(g, x) \/ x \in DOMAIN g.fns
\* visitConstDef
VisitConstDef(g, s) ==
  LET d == Dims(g, s.dims)
      cells == Cells(s.init[1], d.v)
      cts == [i \in DOMAIN cells |-> IF cells[i] = <<>> THEN CT(TRUE, 0) ELSE ConstExp(g, cells[i][1])]
      vals == [i \in DOMAIN cts |-> cts[i].v]
      h == Check(d.g, CellsOk(cells) /\ ~Duplicate(g, s.x), "InvalidInitList")
      o == NewMemObject(h, MemObject(Product(d.v), IF Local(g) THEN <<>> ELSE vals, ~Local(g), FALSE, d.v))
      i0 == Emit(o.g, LocalVarDef(o.v))
      start == Def(i0, LoadAddr(Reg(i0), o.v))
      Word(k, i) == LET c == Def(k, LoadConst(Reg(k), vals[i])) IN StoreWord(c.g, start.v, i, c.v)
      done == IF Local(g) THEN Fold(Word, start.g, [i \in DOMAIN vals |-> i]) ELSE o.g
  IN  IF h.err # "" THEN h
      ELSE IF \E i \in DOMAIN cts : ~cts[i].ok THEN Fail(h, "CompileTimeValueEvalFail")
      ELSE Register(done, s.x, Entry(o.v, Type(d.v, FALSE), -1, TRUE, vals))
\* visitUninitVarDef, visitInitVarDef; globals are initialised in .init.
VisitVarDef(g, s) ==
  LET d == Dims(g, s.dims)
      h == Check(d.g, ~Duplicate(g, s.x), "DuplicateName")
      o == NewMemObject(h, MemObject(Product(d.v), <<>>, ~Local(g), FALSE, d.v))
      defd == IF Local(g) THEN Emit(o.g, LocalVarDef(o.v)) ELSE o.g
      named == Register(defd, s.x, Entry(o.v, Type(d.v, FALSE), -1, FALSE, <<>>))
      cells == Cells(s.init[1], d.v)
      Visit(r, i) == IF cells[i] = <<>> THEN R(r.g, Append(r.v, <<>>))
                     ELSE LET x == Value(VisitExp(r.g, cells[i][1])) IN R(x.g, Append(r.v, <<x.v>>))
      vals == Fold(Visit, R(At_(named, IF Local(g) THEN g.bb ELSE g.ibb), <<>>), [i \in DOMAIN cells |-> i])
      done == GenVarInit(vals.g, vals.v, o.v, ~Local(g))
  IN  IF h.err # "" THEN h
      ELSE IF s.init = <<>> THEN named
      ELSE IF ~CellsOk(cells) THEN Fail(named, "InvalidInitList")
      ELSE IF Local(g) THEN done ELSE [done EXCEPT !.ibb = done.bb]

-----------------------------------------------------------------------------
(* Statements: a visitor from fields to fields.                              *)
RECURSIVE VisitStmt(_, _), VisitBlock(_, _)
VisitBlock(g, ss) == Fold(VisitStmt, g, ss)
OpenScope(g) == [g EXCEPT !.tabs = Append(@, <<>>)]
CloseScope(g) == [g EXCEPT !.tabs = Front(@)]
\* A statement in a scope of its own that starts in block b.
Branched(g, b, s) == CloseScope(VisitStmt(OpenScope(At_(g, b)), s))
Unreachable(g) == LET b == AddBB(g) IN At_(b.g, b.v)

VisitIf(g, s) ==
  LET c == VisitCond(g, s.c)
      t == AddBB(c.g)
      h == Branched(t.g, t.v, s.s)
      out == AddBB(h)
      j == Emit(out.g, Jump(out.v))
  IN  At_(Patch(Patch(j, c.v.t, t.v), c.v.f, out.v), out.v)
VisitIfElse(g, s) ==
  LET c == VisitCond(g, s.c)
      t == AddBB(c.g)
      h1 == Branched(t.g, t.v, s.s)
      f == AddBB(h1)
      h0 == Branched(f.g, f.v, s.s0)
      out == AddBB(h0)
      j == Emit(At_(Emit(At_(out.g, h1.bb), Jump(out.v)), h0.bb), Jump(out.v))
  IN  At_(Patch(Patch(j, c.v.t, t.v), c.v.f, f.v), out.v)
VisitWhile(g, s) ==
  LET ce == AddBB(g)
      c == VisitCond(At_(Emit(ce.g, Jump(ce.v)), ce.v), s.c)
      out == AddBB(c.g)
      body == AddBB(out.g)
      back == AddBB(body.g)
      h == Branched([back.g EXCEPT !.brk = Append(@, out.v), !.cont = Append(@, back.v)], body.v, s.s)
      j == Emit(At_(Emit(h, Jump(back.v)), back.v), Jump(ce.v))
  IN  At_(Patch(Patch([j EXCEPT !.brk = g.brk, !.cont = g.cont], c.v.t, body.v), c.v.f, out.v), out.v)
VisitReturn(g, s) ==
  LET ok == g.fns[g.f].nonVoid = (s.e # <<>>)
      x == IF s.e = <<>> THEN R(g, 0) ELSE Value(VisitExp(g, s.e[1]))
      j == Emit(x.g, Jump(g.rbb))
  IN  IF ~ok THEN Fail(g, "InvalidReturn")
      ELSE Unreachable(IF s.e = <<>> THEN j ELSE [j EXCEPT !.rets = Append(@, <<x.v, x.g.bb>>)])
VisitAssign(g, s) ==
  LET l == VisitExp(g, s.lv)
      x == ToIRValue(VisitExp(l.g, s.e))
      v == GetValue(x.g, x.v)
      const == Known(g, s.lv.x) /\ Lookup(g, s.lv.x).const
  IN  IF l.v.k = "value" /\ ~const /\ CheckAssign(l.v.type, x.v.type)
      THEN Emit(v.g, Store(l.v.reg, v.v)) ELSE Fail(v.g, "AssignmentTypeError")

VisitStmt(g, s) ==
  IF g.err # "" THEN g
  ELSE CASE s.n = "assign" -> VisitAssign(g, s)
         [] s.n = "exp" -> VisitExp(g, s.e).g
         [] s.n = "block" -> CloseScope(VisitBlock(OpenScope(g), s.ss))
         [] s.n = "if" -> VisitIf(g, s)
         [] s.n = "ifelse" -> VisitIfElse(g, s)
         [] s.n = "while" -> VisitWhile(g, s)
         [] s.n = "break" -> IF g.brk = <<>> THEN Fail(g, "InvalidBreak") ELSE Unreachable(Emit(g, Jump(Last(g.brk))))
         [] s.n = "continue" -> IF g.cont = <<>> THEN Fail(g, "InvalidContinue") ELSE Unreachable(Emit(g, Jump(Last(g.cont))))
         [] s.n = "return" -> VisitReturn(g, s)
         [] s.n = "vardef" -> VisitVarDef(g, s)
         [] s.n = "constdef" -> VisitConstDef(g, s)

-----------------------------------------------------------------------------
(* Functions and the compilation unit.                                       *)
NewNormalFunc ==
  [entry |-> 1, bbs |-> <<1>>, code |-> (1 :> <<>>), nreg |-> 0, nbb |-> 1, objs |-> <<>>,
   aargs |-> <<>>, tl |-> {}, dis |-> {}, dw |-> {}, bad |-> FALSE]
\* A parameter: arrays get an object of size 0, scalars a variable that is stored to.
VisitParam(g, i, p) ==
  LET t == Type([j \in DOMAIN p.dims |-> ConstExp(g, p.dims[j]).v], p.om)
      o == NewMemObject(g, MemObject(IF p.om THEN 0 ELSE 1, <<>>, FALSE, p.om, IF p.om THEN <<-1>> \o t.dims ELSE <<>>))
      h == Emit(o.g, LocalVarDef(o.v))
      a == Def(h, LoadArg(Reg(h), i))
      b == Def(a.g, LoadAddr(Reg(a.g), o.v))
  IN  IF p.om
      THEN Register([h EXCEPT !.u.funcs[g.f].aargs = (i :> o.v) @@ @], p.x, Entry(0, t, i, FALSE, <<>>))
      ELSE Register(Emit(b.g, Store(b.v, a.v)), p.x, Entry(o.v, t, -1, FALSE, <<>>))
\* visitFuncDef
VisitFuncDef(g, s) ==
  LET types == [i \in DOMAIN s.params |-> Type([j \in DOMAIN s.params[i].dims |-> ConstExp(g, s.params[i].dims[j]).v], s.params[i].om)]
      new == [g EXCEPT !.u.funcs = (s.f :> NewNormalFunc) @@ @, !.f = s.f, !.bb = 1, !.rets = <<>>,
                       !.fns = (s.f :> [nonVoid |-> s.nonVoid, params |-> types]) @@ @, !.tabs = <<@[1], <<>> >>]
      start == IF s.f = "main" THEN Emit(new, Call(1, ".init", <<>>, 1)) ELSE new
      rbb == AddBB(start)
      ps == Fold(LAMBDA h, i : VisitParam(h, i - 1, s.params[i]), [rbb.g EXCEPT !.rbb = rbb.v], [i \in DOMAIN s.params |-> i])
      body == VisitBlock(ps, s.body)
      r0 == Reg(body)
      fall == IF s.nonVoid THEN Emit(Emit(body, LoadConst(r0, 0)), Jump(rbb.v)) ELSE Emit(body, Jump(rbb.v))
      rets == Append(body.rets, <<r0, body.bb>>)
      at == At_(fall, rbb.v)
      end == IF s.nonVoid
             THEN Emit(Emit(at, Phi(r0 + 1, [i \in DOMAIN rets |-> rets[i][1]], [i \in DOMAIN rets |-> rets[i][2]])), Return(r0 + 1, 0))
             ELSE Emit(Emit(at, LoadConst(r0, 0)), Return(r0, 1))
      ok == s.f = "main" => s.nonVoid /\ s.params = <<>>
  IN  IF body.err # "" THEN body
      ELSE [Check(end, ok, "InvalidMainFuncInterface") EXCEPT !.f = ".init", !.bb = 0, !.tabs = SubSeq(@, 1, 1)]

Lib == ("getint" :> [nonVoid |-> TRUE, params |-> <<>>]) @@ ("getch" :> [nonVoid |-> TRUE, params |-> <<>>])
    @@ ("getarray" :> [nonVoid |-> TRUE, params |-> <<Type(<<>>, TRUE)>>])
    @@ ("putint" :> [nonVoid |-> FALSE, params |-> <<IntType>>]) @@ ("putch" :> [nonVoid |-> FALSE, params |-> <<IntType>>])
    @@ ("putarray" :> [nonVoid |-> FALSE, params |-> <<IntType, Type(<<>>, TRUE)>>])
EmptyUnit == LET io == MemObject(0, <<>>, TRUE, TRUE, <<>>)
             IN  [funcs |-> (".init" :> NewNormalFunc), order |-> <<".init">>, obj |-> <<io, io>>, gl |-> <<Stdin, Stdout>>, const |-> {}, tl |-> FALSE, bad |-> FALSE]
\* visitCompUnit and the check for main (main.cpp)
Compile(prog) ==
  LET g0 == [u |-> EmptyUnit, f |-> ".init", bb |-> 0, ibb |-> 1, tabs |-> << <<>> >>, fns |-> Lib, brk |-> <<>>,
             cont |-> <<>>, rets |-> <<>>, rbb |-> 0, mode |-> "normal", err |-> ""]
      Visit(g, d) == IF g.err # "" THEN g ELSE IF d.n = "func" THEN VisitFuncDef(g, d) ELSE VisitStmt(g, d)
      g == Fold(Visit, g0, prog)
      h == [g EXCEPT !.u.order = SelectSeq(FuncNames, LAMBDA n : n \in DOMAIN g.u.funcs)]
  IN  Check(h, "main" \in DOMAIN g.u.funcs, "MissingMainFunction")
=============================================================================

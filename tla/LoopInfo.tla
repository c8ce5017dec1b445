------------------------------- MODULE LoopInfo -------------------------------
(* check_loop (loop.cpp): what is known of a loop of a function in array SSA. *)
(* The record of a loop: rw, what it does to each object; simple, whether its *)
(* header is its only exit; var, the phis of the header; cond, <<>> or the    *)
(* comparison that keeps it running; par, whether iterations are independent; *)
(* ok, whether check_loop's assertions about it hold.                         *)
EXTENDS ArraySSA

-----------------------------------------------------------------------------
(* ExprUtil: polynomials in registers.  t maps a product, the ascending       *)
(* sequence of its factors, to its coefficient, which is never 0.             *)
Poly(t, c) == [t |-> t, c |-> c]
Constant(v) == Poly(<<>>, v)
Unknown(r) == Poly(<<r>> :> 1, 0)
Coeff(e, k) == IF k \in DOMAIN e.t THEN e.t[k] ELSE 0
Trim(t) == [k \in {m \in DOMAIN t : t[m] # 0} |-> t[k]]
AddPoly(a, b, k) == Poly(Trim([m \in DOMAIN a.t \cup DOMAIN b.t |-> Coeff(a, m) + k * Coeff(b, m)]), a.c + k * b.c)
MulKeys(m1, m2) == SortSeq(m1 \o m2, <)
\* The constant as the coefficient of the empty product.
Full(e) == (<<>> :> e.c) @@ e.t
MulPoly(a, b) ==
  LET pairs == (DOMAIN Full(a)) \X (DOMAIN Full(b))
      keys == {MulKeys(p[1], p[2]) : p \in pairs}
      c(k) == Fold(LAMBDA s, p : s + Full(a)[p[1]] * Full(b)[p[2]], 0, Arranged({p \in pairs : MulKeys(p[1], p[2]) = k}))
  IN  Poly(Trim([k \in keys \ {<<>>} |-> c(k)]), c(<<>>))
Size(e) == Fold(LAMBDA s, k : s + Len(k), 0, Arranged(DOMAIN e.t))
IsConstPoly(e) == DOMAIN e.t = {}
IsZeroPoly(e) == IsConstPoly(e) /\ e.c = 0
\* as_linear: e = first + second * r, or <<>>
AsLinear(e, r) ==
  LET n(k) == Len(SelectSeq(k, LAMBDA x : x = r))
      without(k) == SelectSeq(k, LAMBDA x : x # r)
      once == {k \in DOMAIN e.t : n(k) = 1}
      b == {without(k) : k \in once}
      of(m) == e.t[CHOOSE k \in once : without(k) = m]
  IN  IF \E k \in DOMAIN e.t : n(k) > 1 THEN <<>>
      ELSE <<Poly([k \in DOMAIN e.t \ once |-> e.t[k]], e.c),
             Poly([m \in b \ {<<>>} |-> of(m)], IF <<>> \in b THEN of(<<>>) ELSE 0)>>

-----------------------------------------------------------------------------
\* What a loop does to objects: whole-object reads and writes, addresses.
NoRw == [r |-> {}, w |-> {}, rAny |-> FALSE, wAny |-> FALSE]
RwOfInstrs(xs) ==
  [m \in {x.c : x \in {y \in xs : y.op \in {"memuse", "memeffect", "memread", "memwrite"}}} |->
     LET of(op) == {x \in xs : x.op = op /\ x.c = m}
     IN  [r |-> {x.s[2] : x \in of("memread")}, w |-> {x.s[2] : x \in of("memwrite")},
          rAny |-> of("memuse") # {}, wAny |-> of("memeffect") # {}]]

\* is_c: defined before the loop w
Before(f, T, w, r) == SDom(T, DefPos(f, r)[1], w)
Uses(f, L, r) == Fold(LAMBDA n, x : n + Len(SelectSeq(x.s, LAMBDA s : s = r)), 0,
                      FlattenSeq([i \in DOMAIN L |-> f.code[L[i]]]))
LoopSeq(T, w) == SelectSeq(T.idfn, LAMBDA b : InLoop(T, b, w))
NoReduce == [mem |-> 0, base |-> 0, step |-> 0, op |-> "", ind |-> FALSE, red |-> FALSE]
\* r = phi(r0, base), r0 = r op step
LoopVar(f, T, A, w, phi) ==
  LET i == CHOOSE j \in DOMAIN phi.t : InLoop(T, phi.t[j], w)
      r0 == phi.s[i]
      x == At(f, DefPos(f, r0))
      step == IF x.s[2] = phi.d /\ Commutes(x.k) THEN x.s[1] ELSE x.s[2]
      own == phi.d \in {x.s[1]} \cup (IF Commutes(x.k) THEN {x.s[2]} ELSE {})
      c == Before(f, T, w, step)
      L == LoopSeq(T, w)
  IN  IF A[phi.d] # 0 THEN [NoReduce EXCEPT !.mem = A[phi.d]]
      ELSE IF x.op = "bin" /\ x.k \in {"+", "-", "*", "/"} /\ own
      THEN [mem |-> 0, base |-> phi.s[3 - i], step |-> step, op |-> x.k, ind |-> c,
            red |-> ~c /\ Uses(f, L, r0) = 1 /\ Uses(f, L, phi.d) = 1 /\ x.k = "+"]
      ELSE NoReduce

\* while (s1 op s2), turned so that the side defined before the loop is c.
SimpleCond(f, T, w, vars) ==
  LET br == Back(f, w)
      x == At(f, DefPos(f, br.s[1]))
      out == ~InLoop(T, br.t[1], w)
      op == IF ~out THEN x.k ELSE CASE x.k = "<" -> "<=" [] x.k = "<=" -> "<" [] OTHER -> x.k
      s == IF out THEN <<x.s[2], x.s[1]>> ELSE x.s
      rev == Before(f, T, w, s[1])
      ind == IF rev THEN s[2] ELSE s[1]
      c == IF rev THEN s[1] ELSE s[2]
  IN  IF x.op = "bin" /\ op \in {"<", "<="} /\ Before(f, T, w, c) /\ ind \in DOMAIN vars /\ vars[ind].ind
      THEN <<[op |-> op, rev |-> rev, ind |-> ind, c |-> c]>> ELSE <<>>

-----------------------------------------------------------------------------
(* parallel_for.                                                              *)
\* get_expr, <<>> for nullopt
RECURSIVE Expr(_, _, _, _)
Expr(f, T, w, r) ==
  LET x == At(f, DefPos(f, r))
      a == Expr(f, T, w, x.s[1])
      b == Expr(f, T, w, x.s[2])
      e == CASE x.k = "+" -> AddPoly(a[1], b[1], 1) [] x.k = "-" -> AddPoly(a[1], b[1], -1) [] x.k = "*" -> MulPoly(a[1], b[1])
  IN  IF x.op = "const" THEN <<Constant(x.c)>>
      ELSE IF ~Before(f, T, w, r) /\ x.op = "bin" /\ x.k \in {"+", "-", "*"} /\ a # <<>> /\ b # <<>>
      THEN IF Size(e) > 16 THEN <<>> ELSE <<e>>
      ELSE <<Unknown(r)>>
\* get_array_index_expr: the subscripts of an address, the last one first.
RECURSIVE Subscripts(_, _, _, _)
Subscripts(f, T, w, r) ==
  LET x == At(f, DefPos(f, r))
  IN  IF x.op = "index" THEN <<Expr(f, T, w, x.s[2])>> \o Subscripts(f, T, w, x.s[1]) ELSE <<>>
\* A mutant: the distance may be a whole step.
ApartLax(f, T, w, step, r, t1, t2) ==
  LET l1 == AsLinear(t1, r)
      l2 == AsLinear(t2, r)
      diff == AddPoly(l1[1], l2[1], -1)
      Fixed(e) == \A k \in DOMAIN e.t : \A i \in DOMAIN k : Before(f, T, w, k[i])
  IN  /\ l1 # <<>> /\ l2 # <<>>
      /\ IsZeroPoly(AddPoly(l1[2], l2[2], -1)) /\ Fixed(l1[2])
      /\ IF IsZeroPoly(l1[2])
         THEN IsConstPoly(diff) /\ diff.c # 0 /\ Fixed(l1[1])
         ELSE /\ Fixed(l1[1]) /\ Fixed(l2[1]) /\ IsConstPoly(l1[2])
              /\ IsConstPoly(step) /\ IsConstPoly(diff) /\ Abs(diff.c) <= Abs(step.c)
\* Whether subscripts that are linear in r differ in any two iterations.
Apart(f, T, w, step, r, t1, t2) ==
  LET l1 == AsLinear(t1, r)
      l2 == AsLinear(t2, r)
      diff == AddPoly(l1[1], l2[1], -1)
      Fixed(e) == \A k \in DOMAIN e.t : \A i \in DOMAIN k : Before(f, T, w, k[i])
  IN  /\ l1 # <<>> /\ l2 # <<>>
      /\ IsZeroPoly(AddPoly(l1[2], l2[2], -1)) /\ Fixed(l1[2])
      /\ IF IsZeroPoly(l1[2])
         THEN IsConstPoly(diff) /\ diff.c # 0 /\ Fixed(l1[1])
         ELSE /\ Fixed(l1[1]) /\ Fixed(l2[1]) /\ IsConstPoly(l1[2])
              /\ IsConstPoly(step) /\ IsConstPoly(diff) /\ Abs(diff.c) < Abs(step.c)
\* add_cond
Independent(f, T, w, vars, step, a1, a2) ==
  LET s1 == Subscripts(f, T, w, a1)
      s2 == Subscripts(f, T, w, a2)
  IN  \E i \in DOMAIN s1 \cap DOMAIN s2 : s1[i] # <<>> /\ s2[i] # <<>>
        /\ \E r \in DOMAIN vars : vars[r].ind /\ Apart(f, T, w, step, r, s1[i][1], s2[i][1])
ParallelFor(f, T, w, vars, cond, rw) ==
  LET step == Expr(f, T, w, vars[cond.ind].step)[1]
      Fine(v) == IF v.mem = 0 THEN v.ind \/ v.red
                 ELSE LET a == rw[v.mem]
                      IN  /\ ~a.wAny /\ (a.rAny => a.w = {})
                          /\ \A x \in a.w, y \in a.w \cup a.r : Independent(f, T, w, vars, step, x, y)
  IN  vars[cond.ind].op = "+" /\ \A r \in DOMAIN vars : Fine(vars[r])

-----------------------------------------------------------------------------
\* The assertions.  A phi of the header has an operand from before the loop and
\* one from inside; the header ends in a branch; addresses that are compared
\* have as many subscripts, and are of arrays.
RECURSIVE IsPlace(_, _)
IsPlace(f, r) == LET x == At(f, DefPos(f, r)) IN x.op \in {"addr", "arg"} \/ (x.op = "index" /\ IsPlace(f, x.s[1]))
HeaderFits(f, T, A, w, phis) ==
  /\ Back(f, w).op = "branch"
  /\ \A i \in DOMAIN phis :
       LET t == phis[i].t
       IN  /\ Len(t) = 2
           /\ A[phis[i].d] = 0 => \E j \in 1 .. 2 : InLoop(T, t[j], w) /\ ~InLoop(T, t[3 - j], w) /\ (j = 2 => SDom(T, t[1], w))
AddressesFit(f, T, w, vars, rw) ==
  \A r \in DOMAIN vars : LET a == rw[vars[r].mem]
    IN  vars[r].mem # 0 /\ ~a.wAny /\ (a.rAny => a.w = {}) =>
          \A x \in a.w, y \in a.w \cup a.r : /\ IsPlace(f, x) /\ IsPlace(f, y)
                                           /\ Len(Subscripts(f, T, w, x)) = Len(Subscripts(f, T, w, y))

CheckLoop(f, type) ==
  LET T == DomTree(f)
      A == InferArrayRegs(f)
      Info(w) ==
        LET L == LoopBlocks(T, w)
            rw == RwOfInstrs({At(f, p) : p \in {q \in Positions(f) : q[1] \in L}})
            phis == SelectSeq(f.code[w], LAMBDA x : x.op = "phi")
            simple == LoopSimple(T, w) /\ PreExits(T, w)[1] = w
            fits == simple => HeaderFits(f, T, A, w, phis)
            vars == IF simple /\ fits THEN Table([r \in {phis[i].d : i \in DOMAIN phis} |->
                      LoopVar(f, T, A, w, phis[CHOOSE i \in DOMAIN phis : phis[i].d = r])]) ELSE <<>>
            cond == IF simple /\ fits THEN SimpleCond(f, T, w, vars) ELSE <<>>
        IN  [simple |-> simple, var |-> vars, cond |-> cond,
             par |-> type = 2 /\ cond # <<>> /\ ParallelFor(f, T, w, vars, cond[1], rw),
            ok |-> fits /\ (type = 2 /\ cond # <<>> => AddressesFit(f, T, w, vars, rw))]
  IN  Table([w \in T.heads |-> Info(w)])
===============================================================================

--------------------------- MODULE LoopDependence ---------------------------
(* The dependence test by which check_loop decides that the iterations of  *)
(* a loop may run in parallel (src/src/optimizer/loop.cpp, ExprUtil and    *)
(* the add_cond of check_loop).                                            *)
(*                                                                         *)
(* A loop has two induction variables, i (the one its condition tests) and *)
(* j, and a loop-invariant register s.  An index expression is linear in   *)
(* them, an AddExpr without products; an access is the sequence of the     *)
(* index expressions of its dimensions, an ArrayIndexExpr.                 *)
EXTENDS Integers, Sequences

IndVar == {"i", "j"}

\* k is the constant, AddExpr::c
Term(ci, cj, cs, k) == [i |-> ci, j |-> cj, s |-> cs, k |-> k]
Minus(t, u) == [x \in DOMAIN t |-> t[x] - u[x]]

\* as_linear(r): t = Rest(t, r) + t[r] * r
Rest(t, r) == [t EXCEPT ![r] = 0]

IsConst(t) == t.i = 0 /\ t.j = 0 /\ t.s = 0      \* is_const()
IsInvariant(t) == t.i = 0 /\ t.j = 0             \* is_const(is_c)
AbsInt(n) == IF n < 0 THEN -n ELSE n

\* A mutant: a distance of one step passes.
IndependentInLax(t, u, r, step) ==
  LET a == Rest(t, r)
      c == Rest(u, r)
      d == Minus(a, c)
  IN  /\ t[r] = u[r]
      /\ IsConst(d)
      /\ \/ t[r] # 0 /\ IsInvariant(a) /\ IsInvariant(c) /\ AbsInt(d.k) <= AbsInt(step)
         \/ t[r] = 0 /\ IsInvariant(a) /\ d.k # 0

\* The test of one dimension against one induction variable r.  step is the
\* step of i, whichever variable r is.
IndependentIn(t, u, r, step) ==
  LET a == Rest(t, r)
      c == Rest(u, r)
      d == Minus(a, c)
  IN  /\ t[r] = u[r]
      /\ \/ /\ t[r] # 0                                           \* case 1
            /\ IsInvariant(a) /\ IsInvariant(c)
            /\ IsConst(d) /\ AbsInt(d.k) < AbsInt(step)
         \/ /\ t[r] = 0                                           \* case 2
            /\ IsConst(d) /\ d.k # 0
            /\ IsInvariant(a)

\* add_cond: one dimension and one induction variable must pass.
Independent(v1, v2, step) ==
  \E m \in DOMAIN v1 : \E r \in IndVar : IndependentIn(v1[m], v2[m], r, step)

\* A mutant: reads are not tested.
ParallelForWrites(write, read, step) == Independent(write, write, step)

\* Every write is tested against itself and the other writes, and against
\* every read that is not of the very same address.
ParallelFor(write, read, step) ==
  /\ Independent(write, write, step)
  /\ read # write => Independent(write, read, step)
=============================================================================

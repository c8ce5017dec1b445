----------------------------- MODULE ParallelLoops -----------------------------
(* loop_parallel (loop.cpp): a loop whose iterations are independent gets a   *)
(* copy per thread; thread i runs block i of the iterations, variables that   *)
(* the loop adds to start at 0 in each thread and are added up after the join. *)
(* What the threads then do at run time is the module LoopParallel.           *)
EXTENDS Loops

CONSTANTS ThreadCnt,     \* num-thread
          MinParTimes    \* min-par-loop-times
ASSUME ParallelAssumption == ThreadCnt \in Nat \ {0, 1} /\ MinParTimes \in Nat

\* seperate_loops: no branch goes into a deeper loop.
Separate(f, T) == \A b \in Blocks(f) : Back(f, b).op = "branch" => \A i \in 1 .. 2 : LoopDepth(T, Back(f, b).t[i]) <= LoopDepth(T, b)
Parallel(f, T, info, K, w) ==
  /\ info.par
  /\ \A r \in DOMAIN info.var : info.var[r].ind => info.var[r].op = "+"
  /\ ~info.cond[1].rev
  /\ LET step == info.var[info.cond[1].ind].step IN step \in DOMAIN K /\ K[step] = 1
  /\ \A b \in LoopBlocks(T, w) : \A j \in DOMAIN f.code[b] : f.code[b][j].op # "call"
MinTimes(T, w) ==
  LET cost == IF \E b \in T.heads : T.loopFa[b] = w THEN 10 ELSE 1
  IN  Max({ThreadCnt + 1, MinParTimes \div cost})

ParalleliseLoop(d, n, T, info, K, w) ==
  LET f == d.u.funcs[n]
      M == ThreadCnt
      L == LoopSeq(T, w)
      exit == OnlyExit(T, w)
      cond == info.cond[1]
      ind == info.var[cond.ind]
      ps == Phis(f, w)
      P == Len(ps)
      threads == [i \in 1 .. M |-> i - 1]
      \* blocks
      new == f.nbb + 1
      par == f.nbb + 2
      nopar == f.nbb + 3
      newExit == f.nbb + 4
      par2(i) == f.nbb + 5 + i
      exitPar(i) == par2(M + i)
      hit(i) == exitPar(M + i)             \* thread i, or a later one
      miss(i) == hit(M - 1 + i)
      mp(i, b) == miss(M - 1) - 1 + i * Len(L) + Place_(L, b)
      MP(i, b) == CASE b = T.pre[w] -> par2(i) [] b = exit -> exitPar(i) [] OTHER -> mp(i, b)
      total == 2 + 4 * M + M * Len(L)
      \* registers; t1 and t2 stand for those that one block uses
      times == f.nreg + 1
      thread == f.nreg + 2
      limit == f.nreg + 3
      cnt == f.nreg + 4
      size == f.nreg + 5
      t1 == f.nreg + 6
      t2 == f.nreg + 7
      offset(i) == f.nreg + 8 + 4 * i
      start(i) == offset(i) + 1
      imm(i) == offset(i) + 2
      tmp(i) == offset(i) + 3
      own(i, p) == offset(M) + 4 * (i * P + p)
      sum(p) == own(M, 0) + (1 + 3 * M) * p
      \* memory: a word per induction variable, a word per thread and sum
      obj(p) == Len(d.u.obj) + p
      var(p) == info.var[ps[p].d]
      Object(p) == IF var(p).ind THEN MemObject(1, <<>>, TRUE, FALSE, <<>>) ELSE MemObject(M, <<>>, TRUE, FALSE, <<M>>)
      Each(Op(_)) == FlattenSeq([p \in 1 .. P |-> Op(p)])
      First1(i, p) == IF var(p).ind THEN own(i, p) + 1 ELSE own(i, p)
      Enter(i, p) == IF var(p).ind
                     THEN <<BinaryOp(own(i, p), offset(i), var(p).step, "*"), BinaryOp(own(i, p) + 1, own(i, p), var(p).base, "+")>>
                     ELSE <<LoadConst(own(i, p), 0)>>
      Leave(i, p) == IF ~var(p).ind
                     THEN <<LoadAddr(own(i, p) + 2, obj(p)), ArrayIndex(own(i, p) + 3, own(i, p) + 2, imm(i), 1), Store(own(i, p) + 3, ps[p].d)>>
                     ELSE IF i = M - 1 THEN <<LoadAddr(own(i, p) + 2, obj(p)), Store(own(i, p) + 2, ps[p].d)>> ELSE <<>>
      Add(p, i) == LET r == sum(p) + 3 * i
                   IN  <<LoadConst(r + 1, i), ArrayIndex(r + 2, sum(p), r + 1, 1), Load(r + 3, r + 2), BinaryOp(ps[p].d, ps[p].d, r + 3, "+")>>
      Collect(p) == IF var(p).ind THEN <<LoadAddr(sum(p), obj(p)), Load(ps[p].d, sum(p))>>
                    ELSE <<UnaryOp(ps[p].d, var(p).base, "id"), LoadAddr(sum(p), obj(p))>> \o FlattenSeq([i \in 1 .. M |-> Add(p, i - 1)])
      Choose1(i) == IF i = M - 1 THEN <<Jump(par2(i))>>
                    ELSE <<LoadConst(tmp(i), i), BinaryOp(start(i), thread, tmp(i), "=="), Branch(start(i), hit(i), miss(i))>>
      Block1(i) == <<LoadConst(t1, i), BinaryOp(offset(i), size, t1, "*")>> \o
                   (IF i = M - 1 THEN <<UnaryOp(limit, cond.c, "id")>>
                    ELSE <<BinaryOp(t2, ind.base, offset(i), "+"), BinaryOp(limit, t2, size, "+")>> \o
                         (IF cond.op = "<=" THEN <<LoadConst(t1, 1), BinaryOp(limit, limit, t1, "-")>> ELSE <<>>))
      test == Back(f, w).s[1]
      Copied(i, b, x) ==
        LET y == MapBlocks(x, LAMBDA a : MP(i, a))
        IN  IF b = w /\ x.op = "phi"
            THEN [y EXCEPT !.s = [j \in DOMAIN @ |-> IF y.t[j] = par2(i) THEN First1(i, CHOOSE p \in 1 .. P : ps[p].d = x.d) ELSE @[j]]]
            ELSE IF b = w /\ x.d = test THEN MapUse(y, LAMBDA r : IF r = cond.c THEN limit ELSE r)
            ELSE y
      code == (new :> <<BinaryOp(times, cond.c, ind.base, "-"), LoadConst(t1, MinTimes(T, w)), BinaryOp(t2, t1, times, "<"), Branch(t2, par, nopar)>>)
           @@ (nopar :> <<Jump(w)>>)
           @@ (par :> <<LoadConst(cnt, M), BinaryOp(size, times, cnt, "/"), Call(thread, "__create_threads", <<cnt>>, 0)>> \o Choose1(0))
           @@ (newExit :> Append(Each(Collect), Jump(exit)))
           @@ [b \in {hit(i) : i \in 0 .. M - 2} |-> <<Jump(par2(b - hit(0)))>>]
           @@ [b \in {miss(i) : i \in 0 .. M - 2} |-> Choose1(b - miss(0) + 1)]
           @@ [b \in {par2(i) : i \in 0 .. M - 1} |-> LET i == b - par2(0) IN Block1(i) \o Each(LAMBDA p : Enter(i, p)) \o <<Jump(mp(i, w))>>]
           @@ [b \in {exitPar(i) : i \in 0 .. M - 1} |-> LET i == b - exitPar(0) IN <<LoadConst(imm(i), i)>> \o Each(LAMBDA p : Leave(i, p))
                   \o <<Call(t2, "__join_threads", <<imm(i), cnt>>, 1), Jump(newExit)>>]
           @@ [a \in mp(0, L[1]) .. f.nbb + total |->
                 LET i == (a - mp(0, L[1])) \div Len(L)
                     b == L[1 + ((a - mp(0, L[1])) % Len(L))]
                 IN  [j \in DOMAIN f.code[b] |-> Copied(i, b, f.code[b][j])]]
      g0 == AddBBs(f, total)
      g1 == [g0 EXCEPT !.nreg = sum(P + 1), !.code = Table(code) @@ @, !.dw = @ \cup {mp(i, b) : i \in 0 .. M - 1, b \in @ \cap ToSet(L)}]
      g2 == MapBB(MapBB(g1, T.pre[w], w, new), w, T.pre[w], nopar)
      ok == /\ Len(T.in[exit]) = 1
            /\ Len(SelectSeq(f.code[w], LAMBDA x : x.op = "bin" /\ x.d = test)) = 1
            /\ \A p \in 1 .. P : var(p).ind \/ (var(p).red /\ var(p).op = "+")
  IN  IF ~Parallel(f, T, info, K, w) THEN d
      ELSE IF ~ok THEN [d EXCEPT !.u.funcs[n] = Asserts(@, FALSE)]
      ELSE [d EXCEPT !.u.obj = @ \o [p \in 1 .. P |-> Object(p)], !.u.gl = @ \o [p \in 1 .. P |-> obj(p)],
                     !.u.funcs[n] = g2, !.dup = @ \cup DefsIn(f, L) \cup {limit, t1, t2}, !.exits = @ \cup {newExit}]
LoopParallelise(u, n, LI) ==
  LET f == u.funcs[n]
      T == DomTree(f)
      ok == T.ok /\ Separate(f, T)
      d == Fold(LAMBDA e, w : ParalleliseLoop(e, n, T, LI[w], ConstInt(f), w),
                [u |-> u, dup |-> {}, exits |-> {}], LoopTree(f, T, 0))
      g == SSAConstruction(d.u, n, d.dup)
      fine == ok /\ ~d.u.funcs[n].bad /\ \A b \in d.exits : Phis(g, b) = <<>>
  IN  [d.u EXCEPT !.funcs[n] = IF ok /\ ~d.u.funcs[n].bad THEN Asserts(g, fine) ELSE Asserts(f, FALSE)]
===============================================================================

--------------------------------- MODULE DCE ---------------------------------
(* Dead code elimination (dce.cpp): blocks, memory objects, definitions,     *)
(* loops and functions.  Operators take a unit u and the name n of a         *)
(* function of it where the function alone does not tell.                    *)
EXTENDS DomTree

\* del_edge: a phi of dst loses its first use for src.
DelEdge(f, src, dst) ==
  LET Del(x) == LET is == {i \in DOMAIN x.t : x.t[i] = src}
                IN  IF x.op # "phi" \/ is = {} THEN x
                    ELSE [x EXCEPT !.s = RemoveAt(@, Min(is)), !.t = RemoveAt(@, Min(is))]
  IN  IF dst \in Blocks(f) THEN [f EXCEPT !.code[dst] = Listed([i \in DOMAIN @ |-> Del(@[i])])] ELSE f
\* A mutant: the phis of the successors keep the block that is gone.
PhiSrcKept(f, cur, old) == f
\* phi_src_rewrite
PhiSrcRewrite(f, cur, old) ==
  LET Ren(x) == IF x.op = "phi" THEN MapBlocks(x, LAMBDA b : IF b = old THEN cur ELSE b) ELSE x
  IN  MapCode(f, LAMBDA b, is : IF b \in ToSet(Out(f, cur)) THEN [i \in DOMAIN is |-> Ren(is[i])] ELSE is)

(* dce_BB.  The walk: queue, visited, nxt (the block first visited from one) *)
(* and one_goto_entry.                                                       *)
VisitBB(d, x, pre, jump) ==
  IF x \in d.visited THEN [d EXCEPT !.one = @ \ {x}]
  ELSE [d EXCEPT !.visited = @ \cup {x}, !.q = Append(@, x), !.nxt[pre] = x,
                 !.one = IF jump THEN @ \cup {x} ELSE @]
ElimBranch(d, w, z, other) ==
  VisitBB([d EXCEPT !.changed = TRUE,
                    !.f = [DelEdge(d.f, w, other) EXCEPT !.code[w] = Append(Front(@), Jump(z))]], z, w, TRUE)
VisitTerminator(d, w) ==
  LET f == d.f
      x == Back(f, w)
      c == At(f, DefPos(f, x.s[1]))
  IN  IF f.code[w] = <<>> \/ ~IsControl(x)
      THEN [d EXCEPT !.f = [Push(Push(f, w, LoadConst(f.nreg + 1, 0)), w, Return(f.nreg + 1, 1)) EXCEPT !.nreg = @ + 1]]
      ELSE CASE x.op = "jump" -> VisitBB(d, x.t[1], w, TRUE)
             [] x.op = "return" -> d
             [] x.op = "branch" ->
                  IF x.t[1] = x.t[2] THEN [d EXCEPT !.f = Asserts(f, FALSE)]
                  ELSE IF c.op = "const"
                  THEN IF c.c # 0 THEN ElimBranch(d, w, x.t[1], x.t[2]) ELSE ElimBranch(d, w, x.t[2], x.t[1])
                  ELSE VisitBB(VisitBB(d, x.t[1], w, FALSE), x.t[2], w, FALSE)
RECURSIVE WalkBB(_)
WalkBB(d) == IF d.q = <<>> THEN d ELSE WalkBB(VisitTerminator([d EXCEPT !.q = Tail(@)], Head(d.q)))

\* A block that only bb jumps to is appended to bb; its phis become copies.
RECURSIVE MergeBB(_, _)
MergeBB(d, bb) ==
  LET n == d.nxt[bb]
      Copy(x) == IF x.op = "phi" THEN UnaryOp(x.d, x.s[1], "id") ELSE x
      fine == \A i \in DOMAIN d.f.code[n] : d.f.code[n][i].op = "phi" => d.f.code[n][i].t = <<bb>>
      joined == [d.f EXCEPT !.code[bb] = Front(@) \o [i \in DOMAIN d.f.code[n] |-> Copy(d.f.code[n][i])], !.code[n] = <<>>]
  IN  IF bb \notin d.visited \/ bb \in d.one \/ n \notin d.one \/ d.f.bad THEN d
      ELSE IF ~fine THEN [d EXCEPT !.f = Asserts(@, FALSE)]
      ELSE MergeBB([d EXCEPT !.f = PhiSrcRewrite(joined, bb, n), !.visited = @ \ {n}, !.changed = TRUE,
                             !.nxt[bb] = d.nxt[n]], bb)
DceBB(f0) ==
  LET d == WalkBB(VisitBB([f |-> f0, q |-> <<>>, visited |-> {}, nxt |-> Table([b \in {0} \cup Blocks(f0) |-> 0]), one |-> {}, changed |-> FALSE], f0.entry, 0, FALSE))
      Cut(f, w) == IF w \in d.visited THEN f ELSE Fold(LAMBDA g, u : DelEdge(g, w, u), f, Out(f, w))
      m == Fold(MergeBB, [d EXCEPT !.f = Fold(Cut, d.f, f0.bbs)], f0.bbs)
  IN  [f |-> KeepBlocks(m.f, m.visited), changed |-> m.changed]
RECURSIVE RepeatDceBB(_)
RepeatDceBB(f) == LET d == DceBB(f) IN IF d.changed /\ ~d.f.bad THEN RepeatDceBB(d.f) ELSE d.f

-----------------------------------------------------------------------------
(* remove_unused_def: what the effects of the function need.                 *)
HasEffect(u, n, x) ==
  \/ x.op \in {"local", "jump", "branch", "return", "store", "memdef", "memuse", "memeffect"}
  \/ x.op = "call" /\ x.t[1] = 0
  \/ x.op = "memwrite" /\ (u.obj[x.c].arg \/ (u.obj[x.c].global /\ n # "main"))
RECURSIVE Needed(_, _, _)
Needed(uses, S, new) == IF new = {} THEN S
  ELSE LET more == UNION {uses[r] : r \in new \cap DOMAIN uses} IN Needed(uses, S \cup more, more \ S)
RemoveUnusedDef(u, n) ==
  LET f == u.funcs[n]
      all == Positions(f)
      uses == Table([r \in DefinedRegs(f) |-> UNION {UsesOf(At(f, p)) : p \in {q \in all : At(f, q).d = r}}])
      roots == UNION {UsesOf(At(f, p)) : p \in {q \in all : HasEffect(u, n, At(f, q))}}
      used == Needed(uses, roots, roots)
  IN  Asserts(KeepInstrs(f, LAMBDA x : HasEffect(u, n, x) \/ x.d \in used), used \subseteq DOMAIN uses)

\* remove_unused_memobj: objects whose address nobody loads, with their definitions.
RemoveUnusedMemobj(u) ==
  LET used == UNION {{At(f, p).c : p \in {q \in Positions(f) : At(f, q).op = "addr"}}
                       \cup {f.aargs[i] : i \in DOMAIN f.aargs} : f \in {u.funcs[n] : n \in DOMAIN u.funcs}}
      Keep(m) == m \in used \/ u.obj[m].arg
      Strip(f) == [KeepInstrs(f, LAMBDA x : x.op = "local" => x.c \in used) EXCEPT !.objs = SelectSeq(@, Keep)]
  IN  [ForEach(u, Strip) EXCEPT !.gl = SelectSeq(@, Keep)]

\* remove_unused_loop: the first loop without effects whose definitions are used
\* in it only is replaced by a jump to its exit.
LoopUnused(u, n, T, w) ==
  LET f == u.funcs[n]
      L == LoopBlocks(T, w)
      inside == {At(f, p) : p \in {q \in Positions(f) : q[1] \in L}}
      outside == {At(f, p) : p \in {q \in Positions(f) : q[1] \notin L}}
  IN  /\ Cardinality(LoopExit(T, w)) = 1
      /\ \A x \in inside : /\ x.op = "memeffect" => n = "main" /\ ~(u.obj[x.c].global /\ u.obj[x.c].arg)
                           /\ x.op = "memwrite" => n = "main"
      /\ {x.d : x \in inside} \cap UNION {UsesOf(x) : x \in outside} = {}
RemoveUnusedLoop(u, n) ==
  LET f == u.funcs[n]
      T == DomTree(f)
      ws == SelectSeq(f.bbs, LAMBDA w : w \in T.heads /\ LoopUnused(u, n, T, w))
      w == Head(ws)
      exit == CHOOSE b \in LoopExit(T, w) : TRUE
      g == KeepBlocks([f EXCEPT !.code[w] = <<Jump(exit)>>], (Blocks(f) \ LoopBlocks(T, w)) \cup {w})
      v == [u EXCEPT !.funcs[n] = RepeatDceBB(g)]
  IN  IF ws = <<>> \/ f.bad THEN [f |-> Asserts(f, T.ok), changed |-> FALSE]
      ELSE IF v.funcs[n].bad THEN [f |-> v.funcs[n], changed |-> TRUE]
      ELSE [f |-> RemoveUnusedDef(v, n), changed |-> TRUE]

-----------------------------------------------------------------------------
(* get_call_order: callees first; remove_unused_func.                        *)
Callees(u, n) == LET xs == SelectSeq(AllInstrs(u.funcs[n]), LAMBDA x : x.op = "call" /\ x.k \in DOMAIN u.funcs /\ x.k # n)
                 IN  [i \in DOMAIN xs |-> xs[i].k]
RECURSIVE CallDfs(_, _, _)
CallDfs(u, s, n) ==
  IF n \in s.visited THEN s
  ELSE LET t == Fold(LAMBDA a, m : CallDfs(u, a, m), [s EXCEPT !.visited = @ \cup {n}], Callees(u, n))
       IN  [t EXCEPT !.order = Append(@, n)]
CallOrder(u) == CallDfs(u, [visited |-> {}, order |-> <<>>], "main").order
RemoveUnusedFunc(u) ==
  LET S == ToSet(CallOrder(u))
  IN  [u EXCEPT !.funcs = [n \in S |-> @[n]], !.order = SelectSeq(@, LAMBDA n : n \in S)]
=============================================================================

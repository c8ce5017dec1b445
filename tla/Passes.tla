-------------------------------- MODULE Passes --------------------------------
(* The remaining passes: array_to_struct (array_ssa.cpp), instruction         *)
(* scheduling (instr_schedule.cpp) and the small passes of pass.cpp.          *)
EXTENDS ParallelLoops, FuncInline

-----------------------------------------------------------------------------
(* estimate_BB_prob (loop.cpp) in fixed point, 1 being Unit.                  *)
Unit == 100000
ProbStep(f, T, p) ==
  LET Kept(b, i) == InLoop(T, Back(f, b).t[i], LoopRt(T, b))
      Part(b, i) == LET q == p[b] \div 40
                    IN  IF Kept(b, 1) = Kept(b, 2) THEN 10 * q ELSE IF Kept(b, i) THEN 17 * q ELSE 3 * q
      Give(g, b, q) == [g EXCEPT ![b] = @ + q]
      From1(g, b) ==
        LET x == Back(f, b)
            h == Give(g, b, p[b] \div 2)
        IN  CASE x.op = "jump" -> Give(h, x.t[1], p[b] \div 2)
              [] x.op = "branch" -> Give(Give(h, x.t[1], Part(b, 1)), x.t[2], Part(b, 2))
              [] x.op = "return" -> Give(h, f.entry, p[b] \div 2)
  IN  Fold(From1, Table([b \in DOMAIN p |-> 0]), f.bbs)
EstimateBBProb(f) ==
  LET T == DomTree(f)
  IN  Fold(LAMBDA p, t : ProbStep(f, T, p), Table([b \in Blocks(f) |-> Unit]), [t \in 1 .. 10 |-> t])

-----------------------------------------------------------------------------
(* array_to_struct: global arrays that are mostly indexed by the same         *)
(* registers become the fields of one array.                                  *)
\* The reads and writes of object m: <<function, block, instruction>>.
Accesses(u, m) ==
  UNION {{<<n, p[1], At(u.funcs[n], p)>> : p \in {q \in Positions(u.funcs[n]) :
           At(u.funcs[n], q).op \in {"memread", "memwrite", "memeffect", "memuse"} /\ At(u.funcs[n], q).c = m}} : n \in Funcs(u)}
Candidate(u, m) ==
  LET o == u.obj[m]
      as == Accesses(u, m)
  IN  /\ as # {} /\ ~o.arg /\ o.init = <<>> /\ Len(o.dims) = 1
      /\ \A a \in as : /\ a[3].op \in {"memread", "memwrite"}
                       /\ At(u.funcs[a[1]], DefPos(u.funcs[a[1]], a[3].s[2])).op = "index"
\* The index registers, with how often they are used.
Weights(u, prob, m) ==
  LET f(a) == u.funcs[a[1]]
      key(a) == <<a[1], At(f(a), DefPos(f(a), a[3].s[2])).s[2]>>
      places == UNION {{<<n, p>> : p \in {q \in Positions(u.funcs[n]) :
                  At(u.funcs[n], q).op \in {"memread", "memwrite"} /\ At(u.funcs[n], q).c = m}} : n \in Funcs(u)}
      of(l) == <<l[1], l[2][1], At(u.funcs[l[1]], l[2])>>
  IN  Table([k \in {key(of(l)) : l \in places} |->
         Fold(LAMBDA s, l : s + prob[l[1]][l[2][1]], 0, Arranged({l \in places : key(of(l)) = k}))])
Merge(u, W1, W2) ==
  LET total(A, B, in) == Fold(LAMBDA s, k : s + A[k], 0, Arranged({k \in DOMAIN A : (k \in DOMAIN B) = in}))
  IN  /\ DOMAIN W1 \cap DOMAIN W2 # {}
      /\ total(W1, W2, TRUE) + total(W2, W1, TRUE) >= 4 * (total(W1, W2, FALSE) + total(W2, W1, FALSE))
RECURSIVE Component(_, _, _)
Component(E, seen, S) == IF S \subseteq seen THEN seen
                         ELSE Component(E, seen \cup S, {e[2] : e \in {x \in E : x[1] \in S}})
\* sets: <<fields in order>> for each new object.
StructOf(u) ==
  LET prob == Table([n \in Funcs(u) |-> EstimateBBProb(u.funcs[n])])
      ms == {m \in ToSet(u.gl) : Candidate(u, m)}
      ws == Table([m \in ms |-> Weights(u, prob, m)])
      E == {e \in ms \X ms : e[1] # e[2] /\ u.obj[e[1]].dims = u.obj[e[2]].dims /\ Merge(u, ws[e[1]], ws[e[2]])}
      sets == {Component(E, {}, {e[1]}) : e \in E}
  IN  LET order == Ascending({Min(S) : S \in sets})
      IN  [i \in DOMAIN order |-> Ascending(CHOOSE S \in sets : Min(S) = order[i])]
StructInstr(u, types, mem, field, n, x) ==
  LET f == u.funcs[n]
      m == TypeOf(types, x.s[1])
      r == f.nreg
  IN CASE x.op = "addr" -> [f |-> f, xs |-> <<[x EXCEPT !.c = IF @ \in DOMAIN mem THEN mem[@] ELSE @]>>]
       [] x.op \in {"load", "store"} /\ m \in DOMAIN mem ->
            [f |-> [PushFront(f, f.entry, LoadConst(r + 1, field[m])) EXCEPT !.nreg = r + 2],
             xs |-> <<ArrayIndex(r + 2, x.s[1], r + 1, 1), [x EXCEPT !.s[1] = r + 2]>>]
       [] x.op = "index" /\ m \in DOMAIN mem ->
            [f |-> Asserts(f, x.c = 1), xs |-> <<[x EXCEPT !.c = @ * Last(u.obj[mem[m]].dims)]>>]
       [] OTHER -> [f |-> f, xs |-> <<x>>]
StructFunc(u, mem, field, n) ==
  LET types == SimpleTypeCheck(u, n)
      Instr1(b, g, x) == LET s == StructInstr([u EXCEPT !.funcs[n] = g], types.t, mem, field, n, x)
                         IN  [s.f EXCEPT !.code[b] = @ \o s.xs]
      \* Constants pushed in front of the entry stay there when it is its turn.
      BB(g, b) == Fold(LAMBDA h, x : Instr1(b, h, x), [g EXCEPT !.code[b] = <<>>], g.code[b])
  IN  Fold(BB, Asserts(u.funcs[n], types.ok), u.funcs[n].bbs)
ArrayToStruct(u0, sag) ==
  LET s == IntoArraySSA(u0)
      groups == StructOf(s)
      u == FromArraySSA(s, sag)
      k == Len(u.obj)
      fields == UNION {ToSet(groups[i]) : i \in DOMAIN groups}
      groupOf(m) == CHOOSE i \in DOMAIN groups : m \in ToSet(groups[i])
      mem == Table([m \in fields |-> k + groupOf(m)])
      field == Table([m \in fields |-> Place_(groups[groupOf(m)], m) - 1])
      New(i) == LET o == u.obj[groups[i][1]]
                IN  MemObject(o.size * Len(groups[i]), <<>>, TRUE, FALSE, Append(o.dims, Len(groups[i])))
      v == [u EXCEPT !.obj = @ \o [i \in DOMAIN groups |-> New(i)], !.gl = @ \o [i \in DOMAIN groups |-> k + i]]
  IN  EachFunc(v, LAMBDA w, n : StructFunc(w, mem, field, n))

-----------------------------------------------------------------------------
\* array_index_to_muladd
ArrayIndexToMulAdd(f) ==
  LET xs == {p \in Positions(f) : At(f, p).op = "index"}
      num(p) == Cardinality({q \in xs : q[1] < p[1] \/ (q[1] = p[1] /\ q[2] <= p[2])})
      offset(p) == f.nreg + 2 * num(p) - 1
      Split(b, is) == FlattenSeq([i \in DOMAIN is |-> IF is[i].op # "index" THEN <<is[i]>>
        ELSE <<BinaryOp(offset(<<b, i>>), is[i].s[2], offset(<<b, i>>) + 1, "*"), BinaryOp(is[i].d, is[i].s[1], offset(<<b, i>>), "+")>>])
      sizes == Arranged({LoadConst(offset(p) + 1, At(f, p).c) : p \in xs})
  IN  [MapCode(f, Split) EXCEPT !.nreg = @ + 2 * Cardinality(xs), !.code[f.entry] = sizes \o @]

\* instruction_scheduling: a constant moves to its first use in the block.
ScheduleBlock(is) ==
  LET Emit1(s, x) == LET now == SelectSeq(s.held, LAMBDA c : c.d \in ToSet(x.s))
                     IN  [held |-> SelectSeq(s.held, LAMBDA c : c.d \notin ToSet(x.s)), out |-> Append(s.out \o now, x)]
      Put(s, x) == IF x.op = "const" THEN [s EXCEPT !.held = Append(@, x)] ELSE Emit1(s, x)
      s == Fold(Put, [held |-> <<>>, out |-> <<>>], Front(is))
  IN  Append(s.out \o s.held, Last(is))
InstructionScheduling(f) == MapCode(f, LAMBDA b, is : ScheduleBlock(is))

\* code_reorder: depth first, the more probable successor first.
RECURSIVE ReorderDfs(_, _, _, _)
ReorderDfs(f, prob, seen, b) ==
  LET t == Out(f, b)
      next == IF Len(t) = 2 /\ prob[t[1]] <= prob[t[2]] THEN Reverse(t) ELSE t
  IN  IF b \in ToSet(seen) THEN seen ELSE Fold(LAMBDA s, c : ReorderDfs(f, prob, s, c), Append(seen, b), next)
CodeReorder(f) ==
  LET order == ReorderDfs(f, EstimateBBProb(f), <<>>, f.entry)
  IN  [f EXCEPT !.bbs = SelectSeq(@, LAMBDA b : b \notin ToSet(order)) \o order]

\* compute_thread_local: registers written between a fork and the next join.
LocalRegs(f, b, start) ==
  Fold(LAMBDA s, x : LET flag == IF x.op = "call" /\ x.k = "__create_threads" THEN TRUE
                                 ELSE IF x.op = "call" /\ x.k = "__join_threads" THEN FALSE ELSE s.flag
                     IN  [flag |-> flag, regs |-> IF flag /\ IsRegWrite(x) THEN s.regs \cup {x.d} ELSE s.regs],
       [flag |-> start, regs |-> {}], f.code[b])
RECURSIVE Forked(_, _, _)
Forked(f, seen, S) ==
  LET new == UNION {ToSet(Out(f, b)) : b \in S} \ seen
  IN  IF S = {} THEN seen ELSE Forked(f, seen \cup new, {b \in new : LocalRegs(f, b, TRUE).flag})
ComputeThreadLocal(u) ==
  LET Of(f) == LET forks == {b \in Blocks(f) : LocalRegs(f, b, FALSE).flag}
               IN  [f EXCEPT !.tl = UNION {LocalRegs(f, b, FALSE).regs : b \in Blocks(f)}
                                   \cup UNION {LocalRegs(f, b, TRUE).regs : b \in Forked(f, forks, forks) \ forks}]
  IN  [ForEach(u, Of) EXCEPT !.tl = TRUE]

\* cfg_check
CfgCheck(u) ==
  \A n \in Funcs(u) :
    LET f == u.funcs[n]
        defs == {p \in Positions(f) : At(f, p).op = "local"}
    IN  /\ \A b \in Blocks(f) : f.code[b] # <<>> /\ \A i \in DOMAIN f.code[b] : IsControl(f.code[b][i]) <=> i = Len(f.code[b])
        /\ \A p \in Positions(f) : ToSet(At(f, p).s) \subseteq DefinedRegs(f)
        /\ \A p \in Positions(f) : At(f, p).op = "addr" => At(f, p).c \in ToSet(IF u.obj[At(f, p).c].global THEN u.gl ELSE f.objs)
        /\ {At(f, p).c : p \in defs} = ToSet(f.objs) /\ Cardinality(defs) = Len(f.objs)
===============================================================================

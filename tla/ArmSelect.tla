------------------------------- MODULE ArmSelect ------------------------------
(* Instruction selection (program.cpp): Program::Program, Func::Func and      *)
(* Block::construct.  Phi instructions become moves at the end of the blocks  *)
(* they come from.  Pseudo registers are numbered from 16: the arguments, the *)
(* registers of the intermediate representation, then new ones.               *)
EXTENDS Arm, Passes

\* A selection in progress: m: the function, nargs, out: the block's code so
\* far, cmp: cmp_info, next: the block that follows (-1: none).
PseudoOf(s, r) == RegCount + s.nargs + r                     \* from_ir_reg
Out1(s, x) == [s EXCEPT !.out = Append(@, x)]
OutAll(s, xs) == [s EXCEPT !.out = @ \o xs]
NewPseudo(s) == [s EXCEPT !.m.nreg = @ + 1]                  \* the new one is s.m.nreg

\* A comparison leaves 0 or 1 in a register, with a conditional move.
Materialise(d, cmp, c) == <<MoveImm("movi", d, 0), cmp, SetCond(MoveImm("movi", d, 1), c)>>
SelectUnary(s, x) ==
  LET d == PseudoOf(s, x.d)
      src == PseudoOf(s, x.s[1])
  IN  OutAll(s, CASE x.k = "!" -> Materialise(d, RegImmCmp("cmpi", src, 0), "eq")
                  [] x.k = "neg" -> <<RegImm("rsbi", d, src, 0)>>
                  [] x.k = "id" -> <<MoveReg(d, src)>>)
SelectBinary(s, x) ==
  LET d == PseudoOf(s, x.d)
      s1 == PseudoOf(s, x.s[1])
      s2 == PseudoOf(s, x.s[2])
      name == [o \in {"+", "-", "*", "/"} |-> CASE o = "+" -> "add" [] o = "-" -> "sub" [] o = "*" -> "mul" [] o = "/" -> "div"]
  IN  CASE x.k \in DOMAIN name -> Out1(s, RegReg(name[x.k], d, s1, s2, NoShift))
        [] x.k \in {"<", "<=", "==", "!="} ->
             [OutAll(s, Materialise(d, RegRegCmp(s1, s2), CondOf(x.k))) EXCEPT
                !.cmp = (d :> [cond |-> CondOf(x.k), lhs |-> s1, rhs |-> s2]) @@ @]
        [] x.k = "%" -> LET k == s.m.nreg
                        IN  OutAll(NewPseudo(s), <<RegReg("div", k, s1, s2, NoShift), MulAdd("mls", d, s2, k, s1)>>)
\* A branch repeats the comparison that made its condition.
SelectBranch(s, x) ==
  LET c == PseudoOf(s, x.s[1])
      known == c \in DOMAIN s.cmp
      test == IF known THEN RegRegCmp(s.cmp[c].lhs, s.cmp[c].rhs) ELSE RegImmCmp("cmpi", c, 0)
      when == IF known THEN s.cmp[c].cond ELSE "ne"
  IN  OutAll(s, <<test>> \o
        (IF x.t[2] = s.next THEN <<SetCond(BranchTo(x.t[1]), when)>>
         ELSE IF x.t[1] = s.next THEN <<SetCond(BranchTo(x.t[2]), LogicalNot(when))>>
         ELSE <<SetCond(BranchTo(x.t[1]), when), BranchTo(x.t[2])>>))
\* The thread number must not be spilled: the threads share the stack.
SelectCall(s, x) ==
  LET n == Len(x.s)
      Pass1(i) == IF i > ArgRegs THEN PushReg(PseudoOf(s, x.s[i])) ELSE MoveReg(i - 1, PseudoOf(s, x.s[i]))
      t == OutAll(s, [i \in 1 .. n |-> Pass1(n + 1 - i)] \o <<FuncCall(x.k, n)>>
                     \o (IF n > ArgRegs THEN SpMove(n - ArgRegs) ELSE <<>>)
                     \o (IF x.c = 1 THEN <<>> ELSE <<MoveReg(PseudoOf(s, x.d), 0)>>))
  IN  IF x.k = "__create_threads" THEN [t EXCEPT !.m.spilling = @ \cup {PseudoOf(s, x.d)}] ELSE t
SelectInstr(u, f, s, x) ==
  LET d == PseudoOf(s, x.d)
      P(i) == PseudoOf(s, x.s[i])
      Object == CHOOSE i \in DOMAIN s.m.objOf : s.m.objOf[i] = x.c
  IN  CASE x.op = "addr" /\ u.obj[x.c].global ->
             [OutAll(s, LoadSymbolAddr(d, x.c)) EXCEPT !.m.sym = (d :> x.c) @@ @]
        [] x.op = "addr" /\ ~u.obj[x.c].global ->
             [Out1(s, LoadStackAddr(d, 0, Object)) EXCEPT !.m.stka = (d :> <<Object, 0>>) @@ @]
        [] x.op = "const" -> [OutAll(s, LoadImm(d, x.c)) EXCEPT !.m.const = (d :> x.c) @@ @]
        [] x.op = "arg" -> Out1(s, MoveReg(d, RegCount + x.c))
        [] x.op = "un" -> SelectUnary(s, x)
        [] x.op = "bin" -> SelectBinary(s, x)
        [] x.op = "load" -> Out1(s, Ldr(d, P(1), 0))
        [] x.op = "store" -> Out1(s, Str(P(2), P(1), 0))
        [] x.op = "jump" -> IF x.t[1] = s.next THEN s ELSE Out1(s, BranchTo(x.t[1]))
        [] x.op = "branch" -> SelectBranch(s, x)
        [] x.op = "return" -> OutAll(s, IF x.c = 1 THEN <<ReturnInst(0)>> ELSE <<MoveReg(0, P(1)), ReturnInst(1)>>)
        [] x.op = "call" -> SelectCall(s, x)
        [] x.op = "index" -> OutAll(NewPseudo(s), LoadImm(s.m.nreg, x.c) \o <<MulAdd("mla", d, P(2), s.m.nreg, P(1))>>)
        [] OTHER -> s                                        \* local, phi
Construct(u, f, s, b) ==
  LET t == Fold(LAMBDA v, x : SelectInstr(u, f, v, x),
                [s EXCEPT !.out = <<>>, !.next = Following(s.m, IndexIn(s.m.blocks, b))], f.code[b])
  IN  [t EXCEPT !.m.code[b] = t.out]

\* insert_before_jump
BeforeJump(is, x) == LET n == Max({0} \cup {i \in DOMAIN is : is[i].op # "b"})
                     IN  SubSeq(is, 1, n) \o <<x>> \o SubSeq(is, n + 1, Len(is))
InsertMove(s, b, d, src) == [s EXCEPT !.m.code[b] = BeforeJump(@, MoveReg(d, src))]
\* A mutant: the operands move straight to the phis, one after the other.
EliminatePhisInPlace(f, s) ==
  LET phis == SelectSeq(AllInstrs(f), LAMBDA x : x.op = "phi")
      moves == FlattenSeq([j \in DOMAIN phis |-> [i \in DOMAIN phis[j].s |->
                 [b |-> phis[j].t[i], d |-> PseudoOf(s, phis[j].d), src |-> PseudoOf(s, phis[j].s[i])]]])
  IN  Fold(LAMBDA t, m : InsertMove(t, m.b, m.d, m.src), s, moves)
\* Every operand of every phi first moves to a register of its own, and from
\* there to the phi's once all of them have.
EliminatePhis(f, s) ==
  LET phis == SelectSeq(AllInstrs(f), LAMBDA x : x.op = "phi")
      moves == FlattenSeq([j \in DOMAIN phis |-> [i \in DOMAIN phis[j].s |->
                 [b |-> phis[j].t[i], d |-> PseudoOf(s, phis[j].d), src |-> PseudoOf(s, phis[j].s[i])]]])
      mid(i) == s.m.nreg + i - 1
      all == [i \in DOMAIN moves |-> i]
      first == Fold(LAMBDA t, i : InsertMove(t, moves[i].b, mid(i), moves[i].src), s, all)
  IN  [Fold(LAMBDA t, i : InsertMove(t, moves[i].b, moves[i].d, mid(i)), first, all) EXCEPT !.m.nreg = @ + Len(moves)]

\* Func::Func.  Block 0 moves the arguments and goes to the real entry.
SelectFunc(u, f) ==
  LET ids == {0} \cup {At(f, p).c + 1 : p \in {q \in Positions(f) : At(f, q).op = "arg"}}
      n == Max(ids)
      objs == SelectSeq(f.objs, LAMBDA o : u.obj[o].size # 0)
      entry == [i \in 1 .. n |-> IF i <= ArgRegs THEN MoveReg(RegCount + i - 1, i - 1)
                                 ELSE LoadStack(RegCount + i - 1, 0, ArgRegs - i)]
               \o (IF f.bbs[1] = f.entry THEN <<>> ELSE <<BranchTo(f.entry)>>)
      prob == EstimateBBProb(f)
      m == [blocks |-> <<0>> \o f.bbs, code |-> Table([b \in {0} \cup Blocks(f) |-> entry]),
            prob |-> Table([b \in {0} \cup Blocks(f) |-> IF b = 0 THEN Unit ELSE prob[b]]),
            pred |-> Table([b \in {0} \cup Blocks(f) |-> {a \in Blocks(f) : b \in ToSet(Out(f, a))}
                                                         \cup (IF b = f.entry THEN {0} ELSE {})]),
            objs |-> Listed([i \in DOMAIN objs |-> u.obj[objs[i]].size]), objOf |-> objs, spilling |-> {},
            const |-> <<>>, sym |-> <<>>, stka |-> <<>>, nreg |-> RegCount + n + f.nreg + 1,
            save |-> <<>>, allocated |-> FALSE, bad |-> f.bad]
      s == Fold(LAMBDA t, b : Construct(u, f, t, b), [m |-> m, nargs |-> n, out |-> <<>>, cmp |-> <<>>, next |-> -1], f.bbs)
  IN  EliminatePhis(f, s).m
SelectProgram(u) == ForEach(u, LAMBDA f : SelectFunc(u, f))
===============================================================================

-------------------------------- MODULE ArmCpu --------------------------------
(* What the machine does with a program of the back end: the instructions as  *)
(* inst.hpp describes them and inst.cpp prints them, calls by the procedure   *)
(* call standard of the architecture.  A parallel section is run thread after *)
(* thread, as the interpreter of the intermediate representation does.        *)
(* Flags and registers that a call may change are undefined after it.         *)
EXTENDS Arm, Exec

\* A state: f, b, i: where; reg: machine registers; pse: pseudo registers of
\* the activation; base: sp after the prologue; flags: the operands compared
\* last (<<>>: undefined); stack: the callers' f, b, i, pse, base; and the
\* fields of the interpreter's state.  In a parallel section own and others are
\* the words that this thread and those before it have read and written, race
\* says that two of them have met in a word.
MachineStack == 3 * Stack
CodeAddress(depth) == 2 * Half + depth       \* no value of a word
Value1(s, r) == IF r < RegCount THEN s.reg[r] ELSE s.pse[r]
SetReg(s, r, v) == IF r < RegCount THEN [s EXCEPT !.reg[r] = v] ELSE [s EXCEPT !.pse[r] = v]
NextInst(s) == [s EXCEPT !.i = @ + 1]
\* A thread of a parallel section reads or writes a word: does it collide with
\* what the threads before it have done?
Touches(s, a, writes) ==
  IF s.fork = <<>> THEN s
  ELSE [s EXCEPT !.race = @ \/ a \in s.others.writes \/ (writes /\ a \in s.others.reads),
                 !.own = IF writes THEN [@ EXCEPT !.writes = @ \cup {a}] ELSE [@ EXCEPT !.reads = @ \cup {a}]]
NoWords == [reads |-> {}, writes |-> {}]
ReadWord(s, d, a) == IF InMemory(s, a) THEN NextInst(SetReg(Touches(s, a, FALSE), d, s.mem[a + 1])) ELSE Trap(s)
WriteWord(s, a, v) == IF InMemory(s, a) THEN [NextInst(Touches(s, a, TRUE)) EXCEPT !.mem[a + 1] = v] ELSE Trap(s)

\* A call: the prologue saves registers and makes room for the frame.
Activate(u, s, f) ==
  LET m == u.funcs[f]
      base == s.reg[SP] - Len(m.save) - FrameSize(m)
      saved(a) == a + 1 - (base + FrameSize(m))              \* the place in m.save of address a
  IN  [s EXCEPT !.f = f, !.b = m.blocks[1], !.i = 1, !.reg[SP] = base, !.base = base, !.flags = <<>>,
                !.pse = [r \in RegCount .. m.nreg - 1 |-> Junk],
                !.mem = IF m.save = <<>> THEN @
                        ELSE [a \in DOMAIN @ |-> IF saved(a - 1) \in DOMAIN m.save THEN s.reg[m.save[saved(a - 1)]] ELSE @[a]]]
CallFunc(u, s, f) ==
  Activate(u, [s EXCEPT !.stack = Append(@, [f |-> s.f, b |-> s.b, i |-> s.i, pse |-> s.pse, base |-> s.base]),
                        !.reg[LR] = CodeAddress(Len(s.stack) + 1)], f)
\* A return: the epilogue gives the frame back, and the saved registers.
ReturnTo(u, s) ==
  LET m == u.funcs[s.f]
      top == s.reg[SP] + FrameSize(m)
      depth == Len(s.stack)
      reg == [r \in DOMAIN s.reg |-> IF r = SP THEN top + Len(m.save)
                ELSE IF r \in ToSet(m.save) THEN s.mem[top + IndexIn(m.save, r)] ELSE s.reg[r]]
      back == [s EXCEPT !.reg = reg, !.flags = <<>>]
  IN  IF \/ ~InMemory(s, top + Len(m.save) - 1)
         \/ m.allocated /\ reg[LR] # CodeAddress(depth)
      THEN Trap(s)
      ELSE IF depth = 0 THEN [back EXCEPT !.st = IF s.fork = <<>> THEN "done" ELSE "trap", !.ret = reg[0]]
      ELSE NextInst(Last(s.stack) @@ [back EXCEPT !.stack = Front(@)])

\* A call of the library or of the runtime.
Clobbered(s, v) == [s EXCEPT !.reg = [r \in DOMAIN @ |-> IF r = 0 THEN v ELSE IF r \in CallerSave \cup {LR} THEN Junk ELSE @[r]],
                             !.flags = <<>>]
Array(s, a, n) == [j \in 1 .. n |-> s.mem[a + j]]
CallLib(s, x) ==
  LET a0 == s.reg[0]
      a1 == s.reg[1]
      Done(t, v) == NextInst(Clobbered(t, v))
  IN CASE x.f \in {"getint", "getch"} -> IF s.inp = <<>> THEN Done(s, 0) ELSE Done([s EXCEPT !.inp = Tail(@)], Head(s.inp))
       [] x.f = "getarray" ->
            LET n == Head(s.inp)
            IN  IF \A j \in 1 .. n : InMemory(s, a0 + j - 1)
                THEN Done([s EXCEPT !.inp = SubSeq(@, n + 2, Len(@)),
                             !.mem = [a \in DOMAIN @ |-> IF a - a0 \in 1 .. n THEN s.inp[a - a0 + 1] ELSE @[a]]], n)
                ELSE Trap(s)
       [] x.f \in {"putint", "putch"} -> Done([s EXCEPT !.out = Append(@, <<x.f, a0>>)], Junk)
       [] x.f = "putarray" -> IF a0 > 0 => (InMemory(s, a1) /\ InMemory(s, a1 + a0 - 1))
                              THEN Done([s EXCEPT !.out = Append(@, <<x.f, Array(s, a1, a0)>>)], Junk) ELSE Trap(s)
       [] x.f = "__create_threads" ->
            IF a0 < 1 \/ s.fork # <<>> THEN Trap(s)
            ELSE LET t == Done(s, a0 - 1) IN [t EXCEPT !.fork = [b |-> t.b, i |-> t.i, reg |-> t.reg, pse |-> t.pse],
                                                             !.own = NoWords, !.others = NoWords]
       [] x.f = "__join_threads" ->
            IF ~(0 <= a0 /\ a0 < a1) \/ s.fork = <<>> THEN Trap(s)
            ELSE IF a0 = 0 THEN [Done(s, Junk) EXCEPT !.fork = <<>>]
            ELSE SetReg(s.fork @@ [s EXCEPT !.flags = <<>>, !.own = NoWords,
                                 !.others = [reads |-> @.reads \cup s.own.reads, writes |-> @.writes \cup s.own.writes]], 0, a0 - 1)
       [] OTHER -> Done(s, Junk)

\* Shift: to the left, or to the right with the sign.
Shifted(sh, v) == IF sh[1] = "lsl" THEN Wrap(v * 2^sh[2]) ELSE v \div 2^sh[2]
Holds(c, fl) == CASE c = "eq" -> fl[1] = fl[2] [] c = "ne" -> fl[1] # fl[2] [] c = "ge" -> fl[1] >= fl[2]
                  [] c = "gt" -> fl[1] > fl[2] [] c = "le" -> fl[1] <= fl[2] [] c = "lt" -> fl[1] < fl[2]
\* What an instruction writes to its register; v: what it reads, old: what was there.
ResultOf(u, s, x, v, old) ==
  LET last == Shifted(x.sh, Last(v))
      symbol == AddrOf(u, s.f, 0, x.n)
      stack == s.base + Position(u.funcs[s.f], x.n) + x.k
  IN CASE x.op = "add" -> Wrap(v[1] + last)
       [] x.op = "sub" -> Wrap(v[1] - last)
       [] x.op = "rsb" -> Wrap(last - v[1])
       [] x.op = "mul" -> Wrap(v[1] * v[2])
       [] x.op = "div" -> IF v[2] = 0 THEN 0 ELSE Wrap(Quotient(v[1], v[2]))
       [] x.op = "mla" -> Wrap(v[1] * v[2] + v[3])
       [] x.op = "mls" -> Wrap(v[3] - v[1] * v[2])
       [] x.op = "addi" -> Wrap(v[1] + x.k)
       [] x.op = "subi" -> Wrap(v[1] - x.k)
       [] x.op = "rsbi" -> Wrap(x.k - v[1])
       [] x.op \in {"mov", "shift"} -> last
       [] x.op = "movi" -> Wrap(x.k)
       [] x.op = "mvni" -> BitNot(Wrap(x.k))
       [] x.op = "movw" -> x.k
       [] x.op = "movt" -> Concat(old % HalfWord, x.k)
       [] x.op = "lower16" -> symbol % HalfWord
       [] x.op = "upper16" -> Concat(old % HalfWord, symbol \div HalfWord)
       [] x.op = "stkaddr" -> stack
       [] x.op = "stkoff" -> stack - s.reg[SP]

\* One instruction.  What follows the last block does not exist.
Cycle(u, s) ==
  LET m == u.funcs[s.f]
      x == m.code[s.b][s.i]
      v == [j \in DOMAIN x.s |-> Value1(s, x.s[j])]
      stack == s.base + Position(m, x.n) + x.k
  IN  IF s.i > Len(m.code[s.b])
      THEN LET n == Following(m, IndexIn(m.blocks, s.b)) IN IF n = -1 THEN Trap(s) ELSE [s EXCEPT !.b = n, !.i = 1]
      ELSE IF UseCpsr(x) /\ s.flags = <<>> THEN [s EXCEPT !.st = "undefined"]
      ELSE IF UseCpsr(x) /\ ~Holds(x.cond, s.flags) THEN NextInst(s)
      ELSE CASE x.op = "cmp" -> NextInst([s EXCEPT !.flags = v])
             [] x.op = "cmpi" -> NextInst([s EXCEPT !.flags = <<v[1], Wrap(x.k)>>])
             [] x.op = "cmni" -> NextInst([s EXCEPT !.flags = <<v[1], -x.k>>])
             [] x.op = "ldr" -> ReadWord(s, x.d, v[1] + x.k)
             [] x.op = "ldrx" -> ReadWord(s, x.d, Wrap(v[1] + Shifted(x.sh, v[2])))
             [] x.op = "ldstk" -> ReadWord(s, x.d, stack)
             [] x.op = "str" -> WriteWord(s, v[2] + x.k, v[1])
             [] x.op = "strx" -> WriteWord(s, Wrap(v[2] + Shifted(x.sh, v[3])), v[1])
             [] x.op = "ststk" -> WriteWord(s, stack, v[1])
             [] x.op = "push" -> WriteWord([s EXCEPT !.reg[SP] = @ - 1], s.reg[SP] - 1, v[1])
             [] x.op = "chsp" -> NextInst([s EXCEPT !.reg[SP] = @ + x.k])
             [] x.op = "b" -> [s EXCEPT !.b = x.n, !.i = 1]
             [] x.op = "bl" -> IF x.f \in DOMAIN u.funcs THEN CallFunc(u, s, x.f) ELSE CallLib(s, x)
             [] x.op = "ret" -> ReturnTo(u, s)
             [] OTHER -> NextInst(SetReg(s, x.d, ResultOf(u, s, x, v, IF x.op \in {"movt", "upper16"} THEN Value1(s, x.d) ELSE 0)))
\* At most 2^n instructions.
RECURSIVE Cycles(_, _, _)
Cycles(u, n, s) == IF s.st # "run" THEN s
                   ELSE IF n = 0 THEN Cycle(u, s)
                   ELSE LET h == Cycles(u, n - 1, s) IN Cycles(u, n - 1, h)
Processor(u, input) ==
  LET globals == ScopeSize(u, u.gl)
      s == [f |-> "main", b |-> 0, i |-> 1, pse |-> <<>>, base |-> 0, flags |-> <<>>, stack |-> <<>>,
            reg |-> [r \in 0 .. RegCount - 1 |-> IF r = SP THEN globals + MachineStack
                                                 ELSE IF r = LR THEN CodeAddress(0) ELSE Junk],
            mem |-> SubSeq(InitialMemory(u), 1, globals) \o [j \in 1 .. MachineStack |-> Junk],
            inp |-> input, out |-> <<>>, fork |-> <<>>, ret |-> 0, st |-> "run",
            own |-> NoWords, others |-> NoWords, race |-> FALSE]
  IN  Cycles(u, Fuel + 1, Activate(u, s, "main"))
===============================================================================

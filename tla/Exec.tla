--------------------------------- MODULE Exec ---------------------------------
(* The interpreter of the intermediate representation (exec.cpp), which also *)
(* simulates a parallel section: __join_threads jumps back to the fork with  *)
(* the next lower thread number until thread 0 has joined.  A machine state  *)
(* is a record; the code's recursion over calls is the field stack.  Three   *)
(* fields are not in the code: old holds the registers as the block was      *)
(* entered; ver holds the memory as it was when a register of array SSA was  *)
(* written; stale is set when a register does not describe the memory an     *)
(* instruction finds.                                                        *)
EXTENDS IR

CONSTANTS Stack,       \* words of stack
          PhisTogether \* TRUE: the phis of a block are read before any is written, as
                       \* the code generator has it; FALSE: one by one, as exec.cpp has it
ASSUME StackAssumption == Stack \in Nat /\ PhisTogether \in BOOLEAN

Junk == Half           \* the contents of memory nobody has written

\* MemScope::size and MemObject::offset as compute_data_offset sets them.
Offset(u, ms, m) == LET n == CHOOSE i \in DOMAIN ms : ms[i] = m
                    IN  Fold(LAMBDA a, x : a + u.obj[x].size, 0, SubSeq(ms, 1, n - 1))
ScopeSize(u, ms) == Fold(LAMBDA a, x : a + u.obj[x].size, 0, ms)
AddrOf(u, f, sp, m) == IF u.obj[m].global THEN Offset(u, u.gl, m)
                                          ELSE sp + Offset(u, u.funcs[f].objs, m)
\* The initial value in the first words of an object, zeros after it.
InitialMemory(u) ==
  FlattenSeq([i \in DOMAIN u.gl |->
      [j \in 1 .. u.obj[u.gl[i]].size |->
          IF j \in DOMAIN u.obj[u.gl[i]].init THEN u.obj[u.gl[i]].init[j] ELSE 0]])
    \o [j \in 1 .. Stack |-> Junk]

Frame(u, f, args) == [f |-> f, b |-> u.funcs[f].entry, i |-> 1, last |-> 0, args |-> args, ver |-> <<>>, old |-> <<>>,
  regs |-> [r \in 1 .. u.funcs[f].nreg |-> IF r \in DOMAIN args THEN args[r] ELSE 0]]
Boot(u, input) == Frame(u, "main", <<>>) @@
  [stack |-> <<>>, sp |-> ScopeSize(u, u.gl), mem |-> InitialMemory(u), inp |-> input, out |-> <<>>,
   fork |-> <<>>, ret |-> 0, st |-> "run", stale |-> FALSE]

Trap(s) == [s EXCEPT !.st = "trap"]
InMemory(s, a) == a + 1 \in DOMAIN s.mem
\* wReg, with its assertion once compute_thread_local has run
Write(u, s, d, v) == IF u.tl /\ (d \in u.funcs[s.f].tl) # (s.fork # <<>>) THEN Trap(s)
                     ELSE [s EXCEPT !.regs[d] = v, !.i = @ + 1]
Goto(s, b) == [s EXCEPT !.last = s.b, !.b = b, !.i = 1, !.old = s.regs]
Skip(s) == [s EXCEPT !.i = @ + 1]
SetVer(s, d, v) == [s EXCEPT !.ver = (d :> v) @@ @]

\* Library calls: the result, and what is read, printed and stored.
LibCall(u, s, x, args) ==
  LET Done(t, v) == IF x.c = 1 THEN Skip(t) ELSE Write(u, t, x.d, v)
  IN CASE x.k \in {"getint", "getch"} -> IF s.inp = <<>> THEN Done(s, 0) ELSE Done([s EXCEPT !.inp = Tail(@)], Head(s.inp))
       [] x.k = "getarray" ->
            LET n == Head(s.inp)
            IN  IF \A j \in 1 .. n : InMemory(s, args[1] + j - 1)
                THEN Done([s EXCEPT !.inp = SubSeq(@, n + 2, Len(@)),
                             !.mem = [a \in DOMAIN @ |-> IF a - args[1] \in 1 .. n THEN s.inp[a - args[1] + 1] ELSE @[a]]], n)
                ELSE Trap(s)
       [] x.k \in {"putint", "putch"} -> Skip([s EXCEPT !.out = Append(@, <<x.k, args[1]>>)])
       [] x.k = "putarray" ->
            IF \A j \in 1 .. args[1] : InMemory(s, args[2] + j - 1)
            THEN Skip([s EXCEPT !.out = Append(@, <<x.k, [j \in 1 .. args[1] |-> s.mem[args[2] + j]]>>)])
            ELSE Trap(s)
       [] x.k = "__create_threads" -> IF args[1] < 1 \/ s.fork # <<>> THEN Trap(s)
            ELSE Done([s EXCEPT !.fork = <<s.b, s.i>>], args[1] - 1)
       [] x.k = "__join_threads" -> IF ~(0 <= args[1] /\ args[1] < args[2]) \/ s.fork = <<>> THEN Trap(s)
            ELSE IF args[1] = 0 THEN Skip([s EXCEPT !.fork = <<>>])
            ELSE LET back == [s EXCEPT !.b = s.fork[1], !.i = s.fork[2]]
                 IN  Write(u, back, u.funcs[s.f].code[s.fork[1]][s.fork[2]].d, args[1] - 1)
       [] OTHER -> Skip(s)

\* One instruction.
Step(u, s) ==
  LET x == u.funcs[s.f].code[s.b][s.i]
      v == [i \in DOMAIN x.s |-> IF x.s[i] = 0 THEN Junk ELSE s.regs[x.s[i]]]
      W1(w) == Write(u, s, x.d, w)
      Stale(t, r, a) == IF r \in DOMAIN s.ver /\ s.ver[r][a] = s.mem[a] THEN t ELSE [t EXCEPT !.stale = TRUE]
  IN CASE x.op # "phi" /\ (\E i \in DOMAIN x.s : x.s[i] = 0) -> Trap(s)     \* rReg
       [] x.op = "addr" -> W1(AddrOf(u, s.f, s.sp, x.c))
       [] x.op = "const" -> W1(x.c)
       [] x.op = "arg" -> W1(s.args[x.c + 1])
       [] x.op = "un" -> W1(Unary(x.k, v[1]))
       [] x.op = "bin" -> W1(Binary(x.k, v[1], v[2]))
       [] x.op = "index" -> W1(Wrap(v[1] + v[2] * x.c))
       [] x.op = "load" -> IF InMemory(s, v[1]) THEN W1(s.mem[v[1] + 1]) ELSE Trap(s)
       [] x.op = "store" -> IF InMemory(s, v[1]) THEN Skip([s EXCEPT !.mem[v[1] + 1] = v[2]]) ELSE Trap(s)
       [] x.op = "local" -> Skip(s)
       [] x.op = "phi" ->
            LET uses == {i \in DOMAIN x.t : x.t[i] = s.last}
                r == x.s[Max(uses)]
            IN  IF uses = {} THEN Skip(s)
                ELSE IF r \in DOMAIN s.ver THEN SetVer(Skip(s), x.d, s.ver[r])
                ELSE W1(IF r = 0 THEN Junk ELSE IF PhisTogether THEN s.old[r] ELSE s.regs[r])
       [] x.op = "jump" -> Goto(s, x.t[1])
       [] x.op = "branch" -> Goto(s, x.t[IF v[1] # 0 THEN 1 ELSE 2])
       [] x.op = "return" ->
            IF s.stack = <<>> THEN [s EXCEPT !.ret = v[1], !.st = IF s.fork = <<>> THEN "done" ELSE "trap"]
            ELSE LET fr == Last(s.stack)
                     t == fr @@ [s EXCEPT !.stack = Front(@), !.sp = @ - ScopeSize(u, u.funcs[fr.f].objs)]
                 IN  IF fr.inFork # (s.fork # <<>>) THEN Trap(s)
                     ELSE Write(u, t, u.funcs[fr.f].code[fr.b][fr.i].d, v[1])
       [] x.op = "call" ->
            IF x.k \in DOMAIN u.funcs
            THEN Frame(u, x.k, v) @@
                 [s EXCEPT !.sp = @ + ScopeSize(u, u.funcs[s.f].objs),
                    !.stack = Append(@, [f |-> s.f, b |-> s.b, i |-> s.i, last |-> s.last, args |-> s.args,
                                         regs |-> s.regs, old |-> s.old, ver |-> s.ver, inFork |-> s.fork # <<>>])]
            ELSE LibCall(u, s, x, v)
       [] x.op \in {"memdef", "memeffect"} -> SetVer(Skip(s), x.d, s.mem)
       [] x.op = "memuse" ->
            LET a0 == AddrOf(u, s.f, s.sp, x.c)
            IN  IF u.obj[x.c].arg \/ (x.s[1] \in DOMAIN s.ver
                     /\ \A a \in a0 + 1 .. a0 + u.obj[x.c].size : s.ver[x.s[1]][a] = s.mem[a])
                THEN Skip(s) ELSE [Skip(s) EXCEPT !.stale = TRUE]
       [] x.op = "memread" -> IF InMemory(s, v[2]) THEN Stale(W1(s.mem[v[2] + 1]), x.s[1], v[2] + 1) ELSE Trap(s)
       [] x.op = "memwrite" ->
            IF InMemory(s, v[2])
            THEN LET t == [s EXCEPT !.mem[v[2] + 1] = v[3]] IN SetVer(Skip(t), x.d, t.mem)
            ELSE Trap(s)

\* At most 2^n instructions.
RECURSIVE Run(_, _, _)
Run(u, n, s) == IF s.st # "run" THEN s
                ELSE IF n = 0 THEN Step(u, s)
                ELSE LET h == Run(u, n - 1, s) IN Run(u, n - 1, h)

CONSTANT Fuel          \* log2 of the instructions a program may execute
ASSUME FuelAssumption == Fuel \in Nat
Result(s) == [st |-> s.st, out |-> s.out, ret |-> s.ret]
Exec(u, input) == Run(u, Fuel, Boot(u, input))
=============================================================================

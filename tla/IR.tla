---------------------------------- MODULE IR ----------------------------------
(* The intermediate representation (src/src/optimizer/ir.hpp, ir.cpp): what  *)
(* the front end produces and every pass of the optimizer rewrites.          *)
(* Registers, blocks and memory objects are numbers, functions are names.    *)
(* Sizes and addresses are counted in words: every size is a multiple of 4.  *)
EXTENDS Integers, Sequences, FiniteSets, SequencesExt, TLC

CONSTANT W             \* width of a register in bits

ASSUME WordAssumption == W \in Nat /\ W > 1

Half == 2^(W - 1)
Wrap(x) == ((x + Half) % (2 * Half)) - Half
Bool(b) == IF b THEN 1 ELSE 0
Abs(x) == IF x < 0 THEN -x ELSE x
\* Op(x), where TLC evaluates x before Op.
Eager(Op(_), x) == CHOOSE y \in {Op(v) : v \in {x}} : TRUE
\* FoldLeft of SequencesExt, in time linear in Len(s).
Fold(Op(_, _), base, s) ==
  LET g[i \in 0 .. Len(s)] == IF i = 0 THEN base ELSE Eager(LAMBDA a : Op(a, s[i]), g[i - 1]) IN g[Len(s)]
\* The same function and the same sequence; TLC stores them as tables.
Table(g) == g @@ <<>>
Listed(s) == s \o <<>>
\* A set of numbers in ascending order: the order chosen for unordered containers;
\* a set in an order of no importance.
RECURSIVE Ascending(_), Arranged(_)
Ascending(S) == IF S = {} THEN <<>> ELSE <<Min(S)>> \o Ascending(S \ {Min(S)})
Arranged(S) == IF S = {} THEN <<>> ELSE LET x == CHOOSE y \in S : TRUE IN <<x>> \o Arranged(S \ {x})
\* Division and remainder as C defines them, towards zero.
Quotient(x, y) == IF (x < 0) = (y < 0) THEN Abs(x) \div Abs(y) ELSE -(Abs(x) \div Abs(y))
Remainder(x, y) == x - y * Quotient(x, y)

\* UnaryOp::compute
Unary(op, x) == CASE op = "!" -> Bool(x = 0)
                  [] op = "neg" -> Wrap(-x)
                  [] op = "id" -> x

\* BinaryOp::compute
Binary(op, x, y) ==
  CASE op = "+" -> Wrap(x + y)
    [] op = "-" -> Wrap(x - y)
    [] op = "*" -> Wrap(x * y)
    [] op = "/" -> IF y # 0 /\ ~(x = -Half /\ y = -1) THEN Quotient(x, y) ELSE 0
    [] op = "<" -> Bool(x < y)
    [] op = "<=" -> Bool(x <= y)
    [] op = "==" -> Bool(x = y)
    [] op = "!=" -> Bool(x # y)
    [] op = "%" -> IF y # 0 THEN Remainder(x, y) ELSE 0

Commutes(op) == op \in {"+", "*", "==", "!="}

-----------------------------------------------------------------------------
(* Instructions: the class, the register written (0: none), the registers    *)
(* used, a name (operator or function), a number (constant, argument, size   *)
(* or memory object) and blocks (targets, or the origins of a phi's uses).   *)

Instr(op, d, s, k, c, t) == [op |-> op, d |-> d, s |-> s, k |-> k, c |-> c, t |-> t]
LoadAddr(d, m) == Instr("addr", d, <<>>, "", m, <<>>)
LoadConst(d, x) == Instr("const", d, <<>>, "", x, <<>>)
LoadArg(d, i) == Instr("arg", d, <<>>, "", i, <<>>)
UnaryOp(d, x, op) == Instr("un", d, <<x>>, op, 0, <<>>)
BinaryOp(d, x, y, op) == Instr("bin", d, <<x, y>>, op, 0, <<>>)
ArrayIndex(d, x, y, size) == Instr("index", d, <<x, y>>, "", size, <<>>)
Load(d, a) == Instr("load", d, <<a>>, "", 0, <<>>)
Store(a, x) == Instr("store", 0, <<a, x>>, "", 0, <<>>)
LocalVarDef(m) == Instr("local", 0, <<>>, "", m, <<>>)
Jump(b) == Instr("jump", 0, <<>>, "", 0, <<b>>)
Branch(x, b1, b0) == Instr("branch", 0, <<x>>, "", 0, <<b1, b0>>)
Return(x, ignore) == Instr("return", 0, <<x>>, "", ignore, <<>>)
Call(d, f, args, ignore) == Instr("call", d, args, f, ignore, <<0, 0>>)  \* t: pure, the MemUses before it
Phi(d, s, t) == Instr("phi", d, s, "", 0, t)
\* Array SSA: registers for the states of a memory object m.
MemDef(d, m) == Instr("memdef", d, <<>>, "", m, <<>>)
MemUse(s, m) == Instr("memuse", 0, <<s>>, "", m, <<>>)
MemEffect(d, s, m) == Instr("memeffect", d, <<s>>, "", m, <<>>)
MemRead(d, mem, a, m) == Instr("memread", d, <<mem, a>>, "", m, <<>>)
MemWrite(d, mem, a, x, m) == Instr("memwrite", d, <<mem, a, x>>, "", m, <<>>)

IsControl(x) == x.op \in {"jump", "branch", "return"}
IsRegWrite(x) == x.d # 0
\* The registers that map_use visits; map itself changes one of the fields.
UsesOf(x) == ToSet(x.s) \ {0}
MapUse(x, Op(_)) == [x EXCEPT !.s = [i \in DOMAIN @ |-> Op(@[i])]]
MapBlocks(x, Op(_)) == IF x.op = "call" THEN x ELSE [x EXCEPT !.t = [i \in DOMAIN @ |-> Op(@[i])]]

-----------------------------------------------------------------------------
(* Functions: entry block, the order of the blocks, their instructions, the  *)
(* highest register and block, the local objects in order and the objects    *)
(* that stand for array arguments (<<argument, object>>).                    *)

NewReg(f) == [f EXCEPT !.nreg = @ + 1]           \* the new register is .nreg
NewBB(f) == [f EXCEPT !.nbb = @ + 1, !.bbs = Append(@, f.nbb + 1),
                      !.code = (f.nbb + 1 :> <<>>) @@ @]
Push(f, b, x) == [f EXCEPT !.code[b] = Append(@, x)]
PushFront(f, b, x) == [f EXCEPT !.code[b] = <<x>> \o @]
Push1(f, b, x) == [f EXCEPT !.code[b] = Append(Front(@), x) \o <<Last(@)>>]
Back(f, b) == Last(f.code[b])
Blocks(f) == ToSet(f.bbs)
\* Each block's instructions replaced by Op of them.
MapCode(f, Op(_, _)) == [f EXCEPT !.code = Table([b \in DOMAIN @ |-> Listed(Op(b, @[b]))])]
MapInstrs(f, Op(_)) == MapCode(f, LAMBDA b, is : [i \in DOMAIN is |-> Op(is[i])])
KeepInstrs(f, Test(_)) == MapCode(f, LAMBDA b, is : SelectSeq(is, Test))
KeepBlocks(f, S) ==
  [f EXCEPT !.bbs = SelectSeq(@, LAMBDA b : b \in S), !.code = Table([b \in S |-> @[b]])]

\* get_BB_out
Out(f, b) == IF f.code[b] = <<>> \/ ~IsControl(Back(f, b)) THEN <<>> ELSE Back(f, b).t
Positions(f) == {<<b, i>> \in Blocks(f) \X (1 .. Max({0} \cup {Len(f.code[b]) : b \in Blocks(f)})) :
                   i <= Len(f.code[b])}
At(f, p) == f.code[p[1]][p[2]]
AllInstrs(f) == FlattenSeq([i \in DOMAIN f.bbs |-> f.code[f.bbs[i]]])
\* build_defs, as the places of the definitions; cfg_check wants one of each.
DefPos(f, r) == CHOOSE p \in Positions(f) : At(f, p).d = r
DefinedRegs(f) == {At(f, p).d : p \in Positions(f)} \ {0}
MapRegs(f, M(_)) == MapInstrs(f, LAMBDA x : MapUse(x, M))

\* An assertion of the code about function f: .bad says that one has failed.
Asserts(f, ok) == [f EXCEPT !.bad = @ \/ ~ok]

-----------------------------------------------------------------------------
(* A unit: functions by name, the order of std::map, memory objects and the  *)
(* list of the global ones.  .const: the objects nobody writes.              *)
MemObject(size, init, global, arg, dims) ==
  [size |-> size, init |-> init, global |-> global, arg |-> arg, dims |-> dims]
Funcs(u) == ToSet(u.order)
ForEach(u, Op(_)) == [u EXCEPT !.funcs = [n \in DOMAIN @ |-> Op(@[n])]]
\* c.for_each(pass) for a pass that looks at the unit
EachFunc(u, Op(_, _)) == Fold(LAMBDA v, n : [v EXCEPT !.funcs[n] = Op(v, n)], u, u.order)
\* MemObject::is_single_var, MemObject::at
IsSingleVar(o) == ~o.arg /\ o.size = 1 /\ o.dims = <<>>
InitialWord(o, i) == IF i + 1 \in DOMAIN o.init /\ i < o.size THEN o.init[i + 1] ELSE 0

\* The library (CompileUnit::CompileUnit): the objects 1 and 2 stand for input
\* and output; which functions change them, which arguments are arrays.
Stdin == 1
Stdout == 2
LibIO(n) == CASE n \in {"getint", "getch", "getarray"} -> (Stdin :> TRUE)
              [] n \in {"putint", "putch", "putarray"} -> (Stdout :> TRUE)
              [] n \in {"__create_threads", "__join_threads"} -> (Stdin :> TRUE) @@ (Stdout :> TRUE)
LibArrays(n) == IF n = "getarray" THEN (0 :> TRUE) ELSE IF n = "putarray" THEN (1 :> FALSE) ELSE <<>>
ArrayArgs(u, n) == IF n \in DOMAIN u.funcs THEN DOMAIN u.funcs[n].aargs ELSE DOMAIN LibArrays(n)
=============================================================================

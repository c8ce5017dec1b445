---------------------------------- MODULE Arm ---------------------------------
(* Machine code of the armv7 back end (archinfo.hpp, inst.hpp, inst.cpp and   *)
(* the data of program.hpp).  Words are the unit of sizes and offsets, half   *)
(* words have W / 2 bits, immediates 8 bits as they have on the machine.      *)
EXTENDS IR

CONSTANTS CalleeSave,      \* the callee-saved registers that may be allocated
          OffsetRange      \* how far a load or a store reaches from its base

ASSUME RegisterAssumption == 14 \in CalleeSave /\ CalleeSave \subseteq (4 .. 11) \cup {14}
ASSUME OffsetAssumption == OffsetRange \in Nat

RegCount == 16
SP == 13
LR == 14
CallerSave == {0, 1, 2, 3, 12}
Allocable == CallerSave \cup CalleeSave
Colours == Cardinality(Allocable)
ArgRegs == 4
\* A register the allocator keeps track of.
Tracked(r) == r >= RegCount \/ r \in Allocable

\* is_legal_immediate: eight bits, rotated by an even number of places.
Unsigned(x) == x % (2 * Half)
Rotated(x, n) == ((Unsigned(x) * 2^n) % (2 * Half)) + (Unsigned(x) \div 2^(W - n))
IsLegalImmediate(x) == \E i \in 0 .. W \div 2 - 1 : Rotated(x, 2 * i) < 256
InOffsetRange(x) == -OffsetRange <= x /\ x <= OffsetRange
BitNot(x) == -x - 1
HalfWord == 2^(W \div 2)
Concat(bottom, top) == Wrap(bottom + HalfWord * top)
\* log2_map
IsPower(v) == v = -Half \/ \E i \in 0 .. W - 2 : v = 2^i
Log2(v) == IF v = -Half THEN W - 1 ELSE CHOOSE i \in 0 .. W - 2 : v = 2^i

-----------------------------------------------------------------------------
(* Instructions: the class, the condition, the register written (-1: none),   *)
(* the registers read, a number (immediate, offset, arguments), an object or  *)
(* block, a function and the shift of the last operand.                       *)
NoShift == <<"lsl", 0>>
Inst(op, d, s, k, n) == [op |-> op, cond |-> "al", d |-> d, s |-> s, k |-> k, n |-> n, f |-> "", sh |-> NoShift]
RegReg(op, d, lhs, rhs, sh) == [Inst(op, d, <<lhs, rhs>>, 0, 0) EXCEPT !.sh = sh]     \* add sub rsb mul div
RegImm(op, d, lhs, k) == Inst(op, d, <<lhs>>, k, 0)                                   \* addi subi rsbi
MulAdd(op, d, s1, s2, s3) == Inst(op, d, <<s1, s2, s3>>, 0, 0)                        \* mla mls
MoveReg(d, src) == Inst("mov", d, <<src>>, 0, 0)
ShiftInst(d, src, sh) == [Inst("shift", d, <<src>>, 0, 0) EXCEPT !.sh = sh]
MoveImm(op, d, k) == Inst(op, d, <<>>, k, 0)                                          \* movi mvni
MoveW(d, k) == Inst("movw", d, <<>>, k, 0)
MoveT(d, k) == Inst("movt", d, <<>>, k, 0)
LoadSymbolAddr(d, m) == <<Inst("lower16", d, <<>>, 0, m), Inst("upper16", d, <<>>, 0, m)>>
Ldr(d, base, k) == Inst("ldr", d, <<base>>, k, 0)
Str(src, base, k) == Inst("str", -1, <<src, base>>, k, 0)
ComplexLoad(d, base, offset, sh) == [Inst("ldrx", d, <<base, offset>>, 0, 0) EXCEPT !.sh = sh]
ComplexStore(src, base, offset, sh) == [Inst("strx", -1, <<src, base, offset>>, 0, 0) EXCEPT !.sh = sh]
LoadStack(d, k, o) == Inst("ldstk", d, <<>>, k, o)
StoreStack(src, k, o) == Inst("ststk", -1, <<src>>, k, o)
LoadStackAddr(d, k, o) == Inst("stkaddr", d, <<>>, k, o)
LoadStackOffset(d, k, o) == Inst("stkoff", d, <<>>, k, o)
PushReg(src) == Inst("push", -1, <<src>>, 0, 0)
ChangeSP(k) == Inst("chsp", -1, <<>>, k, 0)
RegRegCmp(lhs, rhs) == Inst("cmp", -1, <<lhs, rhs>>, 0, 0)
RegImmCmp(op, lhs, k) == Inst(op, -1, <<lhs>>, k, 0)                                  \* cmpi cmni
BranchTo(b) == Inst("b", -1, <<>>, 0, b)
FuncCall(name, n) == [Inst("bl", -1, <<>>, n, 0) EXCEPT !.f = name]
ReturnInst(value) == Inst("ret", -1, <<>>, value, 0)
SetCond(x, c) == [x EXCEPT !.cond = c]
SetConds(xs, c) == [i \in DOMAIN xs |-> SetCond(xs[i], c)]

LogicalNot(c) == CASE c = "eq" -> "ne" [] c = "ne" -> "eq" [] c = "ge" -> "lt"
                   [] c = "gt" -> "le" [] c = "le" -> "gt" [] c = "lt" -> "ge"
\* from_ir_binary_op
CondOf(op) == CASE op = "<=" -> "le" [] op = "<" -> "lt" [] op = "==" -> "eq" [] op = "!=" -> "ne"

\* def_reg and use_reg.  What is not executed keeps its register: a conditional
\* instruction also reads what it writes.
DefReg(x) == IF x.op = "bl" THEN CallerSave \cup {LR} ELSE {x.d} \ {-1}
\* A mutant: a conditional instruction only reads its operands.
UseRegAlways(x) == CASE x.op = "bl" -> {r \in 0 .. ArgRegs - 1 : r < x.k}
                     [] x.op = "ret" -> IF x.k = 1 THEN {0} ELSE {}
                     [] OTHER -> ToSet(x.s) \cup (IF x.op \in {"movt", "upper16"} THEN DefReg(x) ELSE {})
UseReg(x) == CASE x.op = "bl" -> IF x.cond # "al" THEN DefReg(x) ELSE {r \in 0 .. ArgRegs - 1 : r < x.k}
               [] x.op = "ret" -> IF x.k = 1 THEN {0} ELSE {}
               [] OTHER -> ToSet(x.s) \cup (IF x.cond # "al" \/ x.op \in {"movt", "upper16"} THEN DefReg(x) ELSE {})
\* regs, replace_reg
Renamed(x, M(_)) == [x EXCEPT !.d = IF @ = -1 THEN -1 ELSE M(@), !.s = [i \in DOMAIN @ |-> M(@[i])]]
ChangeCpsr(x) == x.op \in {"cmp", "cmpi", "cmni"}
UseCpsr(x) == x.cond # "al"
SideEffect(x) == x.op \in {"str", "strx", "ststk", "push", "chsp", "b", "bl", "ret"}
UpdateLive(x, live) == (live \ {r \in DefReg(x) : Tracked(r)}) \cup {r \in UseReg(x) : Tracked(r)}
MaintainSp(x, offset) == CASE x.op = "push" -> offset - 1 [] x.op = "chsp" -> offset + x.k [] OTHER -> offset

\* load_imm: dst = imm
LoadImm(d, x) ==
  IF IsLegalImmediate(x) THEN <<MoveImm("movi", d, x)>>
  ELSE IF IsLegalImmediate(BitNot(x)) THEN <<MoveImm("mvni", d, BitNot(x))>>
  ELSE <<MoveW(d, Unsigned(x) % HalfWord)>>
       \o (IF Unsigned(x) < HalfWord THEN <<>> ELSE <<MoveT(d, Unsigned(x) \div HalfWord)>>)
\* reg_imm_sum: dst = lhs + rhs, dst # lhs
RegImmSum(d, lhs, x) ==
  IF IsLegalImmediate(x) THEN <<RegImm("addi", d, lhs, x)>>
  ELSE IF IsLegalImmediate(-x) THEN <<RegImm("subi", d, lhs, -x)>>
  ELSE LoadImm(d, x) \o <<RegReg("add", d, lhs, d, NoShift)>>
\* sp_move, for a stack that shrinks
SpMove(x) ==
  IF x = 0 THEN <<>>
  ELSE IF IsLegalImmediate(x) \/ IsLegalImmediate(-x) THEN <<ChangeSP(x)>>
  ELSE LET byte(i) == ((x \div 256^i) % 256) * 256^i
       IN  SelectSeq([i \in 1 .. W \div 8 |-> ChangeSP(byte(i - 1))], LAMBDA y : y.k # 0)

-----------------------------------------------------------------------------
(* Functions (struct Func): blocks in order, code, prob and in_edge by block,  *)
(* the sizes of the stack objects (1, 2, ...), how many stack objects of the   *)
(* caller hold arguments (-1, -2, ...), spilling_reg, constant_reg,            *)
(* symbol_reg, stack_addr_reg, reg_n, what the prologue saves, and whether     *)
(* registers are the machine's.                                                *)
IndexIn(s, x) == CHOOSE i \in DOMAIN s : s[i] = x
MachineBlocks(m) == ToSet(m.blocks)
EachBlock(m, Op(_)) == [m EXCEPT !.code = Table([b \in DOMAIN @ |-> Listed(Op(@[b]))])]
Places(m) == UNION {{<<b, i>> : i \in DOMAIN m.code[b]} : b \in MachineBlocks(m)}
Following(m, i) == IF i < Len(m.blocks) THEN m.blocks[i + 1] ELSE -1
FrameSize(m) == Fold(LAMBDA a, n : a + n, 0, m.objs)
\* StackObject::position as gen_asm sets it.
Position(m, o) == IF o > 0 THEN Fold(LAMBDA a, n : a + n, 0, SubSeq(m.objs, o + 1, Len(m.objs)))
                  ELSE FrameSize(m) + Len(m.save) - o - 1

\* calc_live: the least solution (CalcLive).  live_use and def of a block.
ScanBack(is) ==
  Fold(LAMBDA s, x : [use |-> UpdateLive(x, s.use),
                      def |-> (s.def \cup {r \in DefReg(x) : Tracked(r)}) \ {r \in UseReg(x) : Tracked(r)}],
       [use |-> {}, def |-> {}], Reverse(is))
RECURSIVE LiveInFrom(_, _, _)
LiveInFrom(m, scan, in) ==
  LET out == Table([b \in DOMAIN in |-> UNION {in[c] : c \in {d \in DOMAIN in : b \in m.pred[d]}}])
      next == Table([b \in DOMAIN in |-> scan[b].use \cup (out[b] \ scan[b].def)])
  IN  IF next = in THEN out ELSE LiveInFrom(m, scan, next)
LiveOut(m) == LET scan == Table([b \in MachineBlocks(m) |-> ScanBack(m.code[b])])
              IN  LiveInFrom(m, scan, Table([b \in DOMAIN scan |-> scan[b].use]))
===============================================================================

------------------------------- MODULE ArmPasses ------------------------------
(* The passes over machine code: before register allocation (backend_passes   *)
(* and merge_inst: constants become immediates, shifts and additions operands *)
(* of the instructions that use them) and after it.                           *)
EXTENDS Arm

-----------------------------------------------------------------------------
(* more_constant_info: registers that hold the address of a stack object plus *)
(* a constant.                                                                *)
AddressOf(m, x) ==
  LET Shift(r, n) == <<m.stka[r][1], m.stka[r][2] + n>>
      lhs == x.s[1]
      rhs == Last(x.s)
  IN CASE x.op = "addi" /\ lhs \in DOMAIN m.stka -> <<Shift(lhs, x.k)>>
       [] x.op = "subi" /\ lhs \in DOMAIN m.stka -> <<Shift(lhs, -x.k)>>
       [] x.op = "add" /\ lhs \in DOMAIN m.stka /\ rhs \in DOMAIN m.const -> <<Shift(lhs, m.const[rhs])>>
       [] x.op = "sub" /\ lhs \in DOMAIN m.stka /\ rhs \in DOMAIN m.const -> <<Shift(lhs, -m.const[rhs])>>
       [] x.op = "add" /\ ~(lhs \in DOMAIN m.stka /\ rhs \in DOMAIN m.const) /\ rhs \in DOMAIN m.stka /\ lhs \in DOMAIN m.const ->
            <<Shift(rhs, m.const[lhs])>>
       [] OTHER -> <<>>
MoreConstantInfo(m) ==
  LET Note(v, x) == LET a == AddressOf(v, x) IN IF a = <<>> THEN v ELSE [v EXCEPT !.stka = (x.d :> a[1]) @@ @]
  IN  Fold(LAMBDA v, b : Fold(Note, v, v.code[b]), m, m.blocks)

-----------------------------------------------------------------------------
(* inline_constant                                                            *)
\* Backwards over a block: a division by a power of two becomes a shift, with
\* a correction of negative numbers, unless its flags would be in the way.
DivideBlock(m, b) ==
  LET Known(x) == x.op = "div" /\ x.s[2] \in DOMAIN m.const /\ IsPower(m.const[x.s[2]])
      Split(x, tmp, n) == <<RegImmCmp("cmpi", x.s[1], 0), MoveReg(tmp, x.s[1]),
                            SetCond(RegImm("addi", tmp, tmp, 2^n - 1), "lt"), ShiftInst(x.d, tmp, <<"asr", n>>)>>
      Back1(s, x) ==
        LET used == (s.used /\ ~ChangeCpsr(x)) \/ UseCpsr(x)
            t == [s EXCEPT !.used = used]
        IN  IF ~Known(x) \/ used THEN [t EXCEPT !.out = <<x>> \o @]
            ELSE LET v == m.const[x.s[2]]
                 IN  IF v = 1 THEN [t EXCEPT !.out = <<SetCond(MoveReg(x.d, x.s[1]), x.cond)>> \o @]
                     ELSE IF Log2(v) <= 8 THEN [t EXCEPT !.out = Split(x, s.nreg, Log2(v)) \o @, !.nreg = @ + 1]
                     ELSE [t EXCEPT !.out = <<x>> \o @]
      s == Fold(Back1, [out |-> <<>>, nreg |-> m.nreg, used |-> FALSE], Reverse(m.code[b]))
  IN  [m EXCEPT !.code[b] = s.out, !.nreg = s.nreg]
\* Constants become immediates, where the machine has such an immediate.
InlineSum(m, x) ==
  LET IsConst(r) == r \in DOMAIN m.const
      lhs == x.s[1]
      rhs == x.s[2]
      Imm(plus, minus, r, v) == IF IsLegalImmediate(v) THEN RegImm(plus, x.d, r, v)
                                ELSE IF minus # "" /\ IsLegalImmediate(-v) THEN RegImm(minus, x.d, r, -v) ELSE x
  IN CASE x.op = "add" /\ IsConst(lhs) -> Imm("addi", "subi", rhs, m.const[lhs])
       [] x.op = "add" /\ ~IsConst(lhs) /\ IsConst(rhs) -> Imm("addi", "subi", lhs, m.const[rhs])
       [] x.op = "sub" /\ IsConst(lhs) -> Imm("rsbi", "", rhs, m.const[lhs])
       [] x.op = "sub" /\ ~IsConst(lhs) /\ IsConst(rhs) -> Imm("subi", "addi", lhs, m.const[rhs])
       [] OTHER -> x
InlineProduct(m, x) ==
  LET IsConst(r) == r \in DOMAIN m.const
      Near(v) == IsPower(v) \/ IsPower(v - 1) \/ (v < Half - 1 /\ IsPower(v + 1))
      turn == IsConst(x.s[1]) /\ Near(m.const[x.s[1]])
      lhs == x.s[IF turn THEN 2 ELSE 1]
      rhs == x.s[IF turn THEN 1 ELSE 2]
      v == m.const[rhs]
  IN  IF ~IsConst(rhs) \/ ~Near(v) THEN [x EXCEPT !.s = <<lhs, rhs>>]
      ELSE IF v = 1 THEN MoveReg(x.d, lhs)
      ELSE IF IsPower(v) THEN ShiftInst(x.d, lhs, <<"lsl", Log2(v)>>)
      ELSE IF IsPower(v - 1) THEN RegReg("add", x.d, lhs, lhs, <<"lsl", Log2(v - 1)>>)
      ELSE RegReg("rsb", x.d, lhs, lhs, <<"lsl", Log2(v + 1)>>)
InlineMulAdd(m, x) ==
  LET Pow(r) == r \in DOMAIN m.const /\ IsPower(m.const[r])
      s1 == x.s[IF Pow(x.s[1]) THEN 2 ELSE 1]
      s2 == x.s[IF Pow(x.s[1]) THEN 1 ELSE 2]
  IN  IF Pow(s2) THEN RegReg(IF x.op = "mla" THEN "add" ELSE "sub", x.d, x.s[3], s1, <<"lsl", Log2(m.const[s2])>>)
      ELSE [x EXCEPT !.s = <<s1, s2, x.s[3]>>]
InlineMemory(m, x) ==
  CASE x.op = "ldr" /\ x.s[1] \in DOMAIN m.stka -> LoadStack(x.d, x.k + m.stka[x.s[1]][2], m.stka[x.s[1]][1])
    [] x.op = "str" /\ x.s[2] \in DOMAIN m.stka -> StoreStack(x.s[1], x.k + m.stka[x.s[2]][2], m.stka[x.s[2]][1])
    [] OTHER -> x
InlineMove(m, x) ==
  LET v == m.const[x.s[1]]
  IN  IF x.s[1] \notin DOMAIN m.const THEN x
      ELSE IF IsLegalImmediate(v) THEN MoveImm("movi", x.d, v)
      ELSE IF IsLegalImmediate(BitNot(v)) THEN MoveImm("mvni", x.d, BitNot(v)) ELSE x
InlineCmp(m, x) ==
  LET v == m.const[x.s[2]]
  IN  IF x.s[2] \notin DOMAIN m.const THEN x
      ELSE IF IsLegalImmediate(v) THEN RegImmCmp("cmpi", x.s[1], v)
      ELSE IF IsLegalImmediate(-v) THEN RegImmCmp("cmni", x.s[1], -v) ELSE x
InlineInst(m, x) ==
  SetCond(CASE x.op \in {"add", "sub"} -> InlineSum(m, x)
            [] x.op = "mul" -> InlineProduct(m, x)
            [] x.op \in {"mla", "mls"} -> InlineMulAdd(m, x)
            [] x.op \in {"ldr", "str"} -> InlineMemory(m, x)
            [] x.op = "mov" -> InlineMove(m, x)
            [] x.op = "cmp" -> InlineCmp(m, x)
            [] OTHER -> x, x.cond)
InlineConstant(m) == LET d == Fold(DivideBlock, m, m.blocks)
                     IN  EachBlock(d, LAMBDA is : [i \in DOMAIN is |-> InlineInst(d, is[i])])

-----------------------------------------------------------------------------
(* merge_inst: a register with one definition disappears into its uses, when  *)
(* all of them can do without it.                                             *)
InstAt(m, p) == m.code[p[1]][p[2]]
Definitions(m, r) == {p \in Places(m) : r \in DefReg(InstAt(m, p))}
Usages(m, r) == {p \in Places(m) : r \in UseReg(InstAt(m, p))}
\* What the definition at p reads is not written between it and the last use
\* in its block.
Unchanged(m, p, uses) ==
  LET last == Max({-1} \cup {q[2] : q \in {v \in uses : v[1] = p[1]}})
  IN  \A r \in UseReg(InstAt(m, p)) : \A q \in Definitions(m, r) : ~(q[1] = p[1] /\ p[2] <= q[2] /\ q[2] <= last)
\* Into(x, r, def): what x becomes, in a sequence; <<>> if it needs r.
MergeInst(m, Mergeable(_), Into(_, _, _)) ==
  LET regs == Ascending({InstAt(m, p).d : p \in {q \in Places(m) : Mergeable(InstAt(m, q)) /\ InstAt(m, q).d >= RegCount}})
      Merge1(v, r) ==
        LET defs == Definitions(v, r)
            p == CHOOSE q \in defs : TRUE
            uses == Usages(v, r)
            New(q) == Into(InstAt(v, q), r, InstAt(v, p))
        IN  IF /\ Cardinality(defs) = 1 /\ InstAt(v, p).cond = "al" /\ Mergeable(InstAt(v, p))
               /\ \A q \in uses : New(q) # <<>>
               /\ Unchanged(v, p, uses)
            THEN [v EXCEPT !.code = Table([b \in DOMAIN @ |-> Listed([i \in DOMAIN @[b] |->
                    IF <<b, i>> \in uses THEN SetCond(New(<<b, i>>)[1], @[b][i].cond) ELSE @[b][i]])])]
            ELSE v
  IN  Fold(Merge1, m, regs)
\* merge_shift_binary_op
SumShifts(a, b) == <<a[1], a[2] + b[2]>>
IntoShifted(x, r, def) ==
  LET src == def.s[1]
      Fits == x.sh[2] = 0 \/ (x.sh[1] = def.sh[1] /\ x.sh[2] + def.sh[2] < W)
      sh == IF x.sh[2] = 0 THEN def.sh ELSE SumShifts(def.sh, x.sh)
      Turned == CASE x.op = "add" -> "add" [] x.op = "sub" -> "rsb" [] x.op = "rsb" -> "sub"
      n == Len(x.s)
      base == x.s[n - 1]
      offset == x.s[n]
  IN  IF x.op \notin {"add", "sub", "rsb", "ldrx", "strx"} \/ (base = r) = (offset = r) THEN <<>>
      ELSE IF x.op \in {"add", "sub", "rsb"}
      THEN IF base = r THEN (IF x.sh[2] # 0 THEN <<>> ELSE <<RegReg(Turned, x.d, offset, src, def.sh)>>)
           ELSE (IF Fits THEN <<RegReg(Turned, x.d, base, src, sh)>> ELSE <<>>)
      ELSE LET Mem(a, s) == IF x.op = "ldrx" THEN ComplexLoad(x.d, a, src, s) ELSE ComplexStore(x.s[1], a, src, s)
           IN  IF offset = r THEN (IF Fits THEN <<Mem(base, sh)>> ELSE <<>>)
               ELSE (IF x.sh[2] = 0 THEN <<Mem(offset, def.sh)>> ELSE <<>>)
IsShift(x) == x.op = "shift"
MergeShiftBinaryOp(m) == MergeInst(m, IsShift, IntoShifted)
\* merge_add_ldr_str
IntoAddress(x, r, def) ==
  LET k == (IF def.op = "subi" THEN -def.k ELSE def.k) + x.k
  IN  IF x.op \notin {"ldr", "str"} \/ Last(x.s) # r THEN <<>>
      ELSE IF def.op = "add"
      THEN IF x.k # 0 THEN <<>>
           ELSE IF x.op = "ldr" THEN <<ComplexLoad(x.d, def.s[1], def.s[2], def.sh)>>
           ELSE <<ComplexStore(x.s[1], def.s[1], def.s[2], def.sh)>>
      ELSE IF ~InOffsetRange(k) THEN <<>>
      ELSE IF x.op = "ldr" THEN <<Ldr(x.d, def.s[1], k)>> ELSE <<Str(x.s[1], def.s[1], k)>>
IsAddition(x) == x.op \in {"add", "addi", "subi"}
MergeAddLdrStr(m) == MergeInst(m, IsAddition, IntoAddress)

-----------------------------------------------------------------------------
\* remove_unused: backwards, with the live registers and whether the flags are
\* still needed.
UnusedBlock(is, out) ==
  LET Keep(s, x) == \/ SideEffect(x) \/ (ChangeCpsr(x) /\ s.cpsr)
                    \/ \E r \in DefReg(x) : (r < RegCount /\ r \notin Allocable) \/ r \in s.live
      Back1(s, x) == IF ~Keep(s, x) THEN s
                     ELSE [live |-> UpdateLive(x, s.live), cpsr |-> (s.cpsr /\ ~ChangeCpsr(x)) \/ UseCpsr(x), is |-> <<x>> \o s.is]
  IN  Fold(Back1, [live |-> out, cpsr |-> FALSE, is |-> <<>>], Reverse(is)).is
RemoveUnused(m) == LET out == LiveOut(m)
                   IN  [m EXCEPT !.code = Table([b \in DOMAIN @ |-> UnusedBlock(@[b], out[b])])]
RemoveIdenticalMove(m) == EachBlock(m, LAMBDA is : SelectSeq(is, LAMBDA x : ~(x.op = "mov" /\ x.d = x.s[1])))

-----------------------------------------------------------------------------
(* remove_no_effect: what each register is known to hold: <<>>: nothing,      *)
(* <<"c", number>>, <<"a", global object>> or <<"w", stack object, offset>>,  *)
(* the word that is there.                                                    *)
Nothing == [r \in 0 .. RegCount - 1 |-> <<>>]
Held(x) == CASE x.op \in {"movi", "mvni", "movw"} -> <<"c", x.k>>
             [] x.op \in {"ldstk", "ststk"} -> <<"w", x.n, x.k>>
NoEffectInst(s, x, next) ==
  LET pair(o1, o2) == x.op = o1 /\ next # <<>> /\ next[1].op = o2 /\ next[1].d = x.d
      value == IF x.op = "movw" THEN <<"c", Concat(x.k, next[1].k)>> ELSE <<"a", x.n>>
      \* The pair is dropped, or what it leaves becomes known.
      settled == (x.cond = next[1].cond /\ s.held[x.d] = value) \/ (x.cond = "al" /\ next[1].cond = "al")
      both(n) == [s EXCEPT !.skip = 1, !.out = @ \o (IF n = 0 THEN <<>> ELSE <<x, next[1]>>)]
      Known(r, h) == [[s EXCEPT !.out = Append(@, x)] EXCEPT !.held[r] = h]
      Forget == [s EXCEPT !.out = Append(@, x),
                   !.held = [r \in DOMAIN @ |-> IF r \in DefReg(x) \cap Allocable \/ (SideEffect(x) /\ @[r] # <<>> /\ @[r][1] = "w")
                                                THEN <<>> ELSE @[r]]]
  IN  IF s.skip = 1 THEN [s EXCEPT !.skip = 0]
      ELSE CASE (pair("movw", "movt") \/ (pair("lower16", "upper16") /\ x.n = next[1].n)) /\ x.d \in Allocable
                  /\ settled ->
                  IF x.cond = next[1].cond /\ s.held[x.d] = value THEN both(0) ELSE [both(2) EXCEPT !.held[x.d] = value]
             [] x.op \in {"movi", "mvni", "movw", "ldstk"} /\ x.d \in Allocable
                  /\ ~(pair("movw", "movt") /\ settled)
                  /\ (s.held[x.d] = Held(x) \/ x.cond = "al") ->
                  IF s.held[x.d] = Held(x) THEN s ELSE Known(x.d, Held(x))
             [] x.op = "ststk" /\ x.s[1] \in Allocable /\ (s.held[x.s[1]] = Held(x) \/ x.cond = "al") ->
                  IF s.held[x.s[1]] = Held(x) THEN s
                  ELSE [s EXCEPT !.out = Append(@, x),
                          !.held = [r \in DOMAIN @ |-> IF r = x.s[1] THEN Held(x) ELSE IF @[r] = Held(x) THEN <<>> ELSE @[r]]]
             [] x.op = "mov" /\ x.d \in Allocable /\ x.s[1] \in Allocable /\ s.held[x.s[1]] # <<>>
                  /\ (s.held[x.d] = s.held[x.s[1]] \/ x.cond = "al") ->
                  IF s.held[x.d] = s.held[x.s[1]] THEN s ELSE Known(x.d, s.held[x.s[1]])
             [] OTHER -> Forget
\* get_branch_in_deg, get_in_deg
BranchInDeg(m, b) == Cardinality({p \in Places(m) : InstAt(m, p).op = "b" /\ InstAt(m, p).n = b})
FallsThrough(m, b) == \A i \in DOMAIN m.code[b] : m.code[b][i].op # "ret" /\ ~(m.code[b][i].op = "b" /\ m.code[b][i].cond = "al")
InDeg(m, i) == Bool(i = 1) + BranchInDeg(m, m.blocks[i]) + Bool(i > 1 /\ FallsThrough(m, m.blocks[i - 1]))
RemoveNoEffect(m) ==
  LET Next1(is, i) == IF i < Len(is) THEN <<is[i + 1]>> ELSE <<>>
      BlockOf(s, b) == LET is == m.code[b]
                           start == [s EXCEPT !.held = IF BranchInDeg(m, b) > 0 THEN Nothing ELSE @, !.out = <<>>]
                           t == Fold(LAMBDA v, i : NoEffectInst(v, is[i], Next1(is, i)), start, [i \in DOMAIN is |-> i])
                       IN  [t EXCEPT !.code = (b :> t.out) @@ @]
  IN  [m EXCEPT !.code = Fold(BlockOf, [held |-> Nothing, out |-> <<>>, skip |-> 0, code |-> <<>>], m.blocks).code]

-----------------------------------------------------------------------------
\* direct_jump: a jump to a block that only jumps, or is empty, goes on to where
\* that leads; blocks nothing leads to go.
RECURSIVE FinalTarget(_, _)
FinalTarget(m, b) ==
  LET is == m.code[b]
  IN  IF is = <<>> THEN FinalTarget(m, Following(m, IndexIn(m.blocks, b)))
      ELSE IF Len(is) = 1 /\ is[1].op = "b" /\ is[1].cond = "al" /\ is[1].n # b THEN FinalTarget(m, is[1].n) ELSE b
DirectJump(m) ==
  LET v == EachBlock(m, LAMBDA is : [i \in DOMAIN is |-> IF is[i].op = "b" THEN [is[i] EXCEPT !.n = FinalTarget(m, @)] ELSE is[i]])
      kept == SelectSeq([i \in DOMAIN v.blocks |-> i], LAMBDA i : InDeg(v, i) > 0)
  IN  [v EXCEPT !.blocks = Listed([i \in DOMAIN kept |-> v.blocks[kept[i]]]),
                !.bad = @ \/ v.code[Last(v.blocks)] = <<>> \/ FallsThrough(v, Last(v.blocks))]
\* remove_unreachable: what follows a return or a jump in its block.
RemoveUnreachable(m) ==
  LET Ends(x) == x.op = "ret" \/ (x.op = "b" /\ x.cond = "al")
  IN  EachBlock(m, LAMBDA is : IF \E i \in DOMAIN is : Ends(is[i]) THEN SubSeq(is, 1, Min({i \in DOMAIN is : Ends(is[i])})) ELSE is)
\* eliminate_branch: a jump to the next block goes; one that jumps over a block
\* of at most two instructions makes them conditional.
Absorbed(is) == /\ Len(is) <= 2
                /\ \A i \in DOMAIN is : /\ is[i].op # "ret" /\ ~UseCpsr(is[i])
                                        /\ ChangeCpsr(is[i]) => i = Len(is)
\* targets: what was jumped to before (branch_in_deg is not computed again).
RECURSIVE EliminateFrom(_, _, _)
EliminateFrom(m, targets, i) ==
  LET b == m.blocks[i]
      is == m.code[b]
      x == Last(is)
      next == m.blocks[i + 1]
  IN  IF i > Len(m.blocks) THEN m
      ELSE IF is = <<>> \/ x.op # "b" THEN EliminateFrom(m, targets, i + 1)
      ELSE IF x.n = Following(m, i) THEN EliminateFrom([m EXCEPT !.code[b] = Front(is)], targets, i)
      ELSE IF /\ i + 2 <= Len(m.blocks) /\ x.n = m.blocks[i + 2]
              /\ x.cond # "al" /\ next \notin targets /\ Absorbed(m.code[next])
      THEN EliminateFrom([m EXCEPT !.code[b] = Front(is) \o SetConds(m.code[next], LogicalNot(x.cond)),
                                   !.blocks = SelectSeq(@, LAMBDA c : c # next)], targets, i)
      ELSE EliminateFrom(m, targets, i + 1)
EliminateBranch(m) == LET v == RemoveUnreachable(m) IN EliminateFrom(v, {b \in MachineBlocks(v) : BranchInDeg(v, b) > 0}, 1)
===============================================================================

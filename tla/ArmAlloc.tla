-------------------------------- MODULE ArmAlloc -------------------------------
(* Register allocation and what it makes of a function: Func::gen_asm,        *)
(* reg_allocate, check_store_stack, replace_with_reg_alloc and                *)
(* replace_complex_inst (program.cpp), ColoringAllocator (coloring_alloc.cpp) *)
(* and SimpleColoringAllocator (simple_coloring_alloc.cpp), run to the end.   *)
(* ColoringAlloc has the first allocator step by step on any graph.           *)
EXTENDS ArmPasses

CONSTANT SimpleFrom      \* functions with more registers get the simple allocator: 2000
ASSUME SimpleAssumption == SimpleFrom \in Nat

TrackedDefs(x) == {r \in DefReg(x) : Tracked(r)}
TrackedUses(x) == {r \in UseReg(x) : Tracked(r)}
Total(S, w) == Fold(LAMBDA a, x : a + w[x], 0, Arranged(S))

-----------------------------------------------------------------------------
(* build: what interferes.  A pair <<A, B>> joins every register of A to      *)
(* every register of B.                                                       *)
\* The live registers before each instruction; one more for the end.
LiveBefore(is, out) == Reverse(Fold(LAMBDA s, x : Append(s, UpdateLive(x, Last(s))), <<out>>, Reverse(is)))
\* A mutant: what nobody reads meets nothing.
BlockEdgesOfLive(is, live) ==
  {<<live[Len(is) + 1], live[Len(is) + 1]>>} \cup
  UNION {LET kept == live[i + 1] \ TrackedDefs(is[i])
             use == TrackedUses(is[i])
         IN  {<<use \ kept, kept>>, <<use, use>>} : i \in DOMAIN is}
\* What an instruction writes meets what is live after it when the instruction
\* that follows is visited, also if nobody reads it.
BlockEdges(is, live) ==
  LET n == Len(is)
      edges(i) == LET x == is[i]
                      kept == live[i + 1] \ TrackedDefs(x)
                      use == TrackedUses(x)
                      def == IF i = 1 THEN {} ELSE TrackedDefs(is[i - 1])
                  IN  {<<use \ kept, kept>>, <<use \cup def, use \cup def>>, <<def \ live[i], live[i]>>}
      end == live[n + 1] \cup (IF n = 0 THEN {} ELSE TrackedDefs(is[n]))
  IN  {<<end, end>>} \cup UNION {edges(i) : i \in 1 .. n}
InterfereEdges(m) ==
  LET out == LiveOut(m)
      joined == UNION {BlockEdges(m.code[b], LiveBefore(m.code[b], out[b])) : b \in MachineBlocks(m)}
      occur == UNION {TrackedDefs(InstAt(m, p)) \cup TrackedUses(InstAt(m, p)) : p \in Places(m)}
  IN  Table([r \in occur |-> (UNION {e[2] : e \in {d \in joined : r \in d[1]}}
                              \cup UNION {e[1] : e \in {d \in joined : r \in d[2]}}) \ {r}])
\* How often two registers are joined by a move.
MoveEdges(m, occur) ==
  LET moves == {p \in Places(m) : LET x == InstAt(m, p)
                                  IN  x.op = "mov" /\ x.d # x.s[1] /\ Tracked(x.d) /\ Tracked(x.s[1])}
      ends(p) == {InstAt(m, p).d, InstAt(m, p).s[1]}
  IN  Table([r \in occur |-> LET mine == {p \in moves : r \in ends(p)}
                             IN  Table([o \in UNION {ends(p) : p \in mine} \ {r} |-> Cardinality({p \in mine : o \in ends(p)})])])
\* load_weight and store_weight, in hundredths.
WeightOf(m, r, Count(_)) == LET w == Table([p \in Places(m) |-> Count(InstAt(m, p)) * (m.prob[p[1]] \div 1000)])
                            IN  Total({p \in DOMAIN w : w[p] # 0}, w)
LoadWeight(m, r) == WeightOf(m, r, LAMBDA x : Cardinality({j \in DOMAIN x.s : x.s[j] = r}) + Bool(r \in UseReg(x) /\ r \in DefReg(x) /\ x.d = r /\ r \notin ToSet(x.s)))
StoreWeight(m, r) == WeightOf(m, r, LAMBDA x : Bool(x.d = r))
SpillCost(m, r) == IF r \in DOMAIN m.const THEN LoadWeight(m, r)
                   ELSE IF r \in DOMAIN m.sym THEN 2 * LoadWeight(m, r)
                   ELSE 5 * (LoadWeight(m, r) + StoreWeight(m, r))

-----------------------------------------------------------------------------
(* An allocation in progress.  I: interfere_edge, M: move_edge, parent,       *)
(* rest: remain_pesudo_nodes, hist: simplify_history, frozen:                 *)
(* freezed_move_edge, spilled: the spill list, m: the function.               *)
Deg(s, r) == Cardinality(s.I[r])
Started(m) == LET I == InterfereEdges(m)
              IN  [m |-> m, I |-> I, M |-> MoveEdges(m, DOMAIN I), parent |-> Table([r \in DOMAIN I |-> r]),
                   rest |-> {r \in DOMAIN I : r >= RegCount}, hist |-> <<>>, frozen |-> <<>>, spilled |-> <<>>]
Without(g, x) == Table([o \in DOMAIN g \ {x} |-> g[o]])
Isolate(s, x) == [s EXCEPT !.I = Table([r \in DOMAIN @ |-> IF r = x THEN {} ELSE @[r] \ {x}]), !.rest = @ \ {x}]
\* The queue of simplify: a register joins it when its degree becomes small enough.
Unmoved(s, r) == s.M[r] = <<>>
RECURSIVE SimplifyQueue(_, _)
SimplifyQueue(s, q) ==
  IF q = <<>> THEN s
  ELSE LET x == Head(q)
           t == [Isolate(s, x) EXCEPT !.hist = Append(@, <<x, s.I[x]>>)]
           new == {r \in s.I[x] : r >= RegCount /\ Deg(t, r) = Colours - 1 /\ Unmoved(t, r)}
       IN  SimplifyQueue(t, Tail(q) \o Ascending(new))
\* simplify
PruneMoves(s) ==
  [s EXCEPT !.M = Table([x \in DOMAIN @ |-> Table([y \in {z \in DOMAIN @[x] : z \notin s.I[x] /\ ~(x < RegCount /\ z < RegCount)} |-> @[x][y]])])]
Simplify(s) == LET t == PruneMoves(s)
               IN  SimplifyQueue(t, Ascending({r \in t.rest : Unmoved(t, r) /\ Deg(t, r) < Colours}))
\* coalesce, conservative_check, merge
RECURSIVE Root(_, _)
Root(s, x) == IF s.parent[x] = x THEN x ELSE Root(s, s.parent[x])
Conservative(s, u, v) ==
  LET heavy(i) == IF i \in s.I[u] \cap s.I[v] THEN Deg(s, i) > Colours ELSE Deg(s, i) >= Colours
  IN  Cardinality({i \in (s.I[u] \ {v}) \cup (s.I[v] \ {u}) : heavy(i)}) < Colours
MergeInto(s, u, v) ==
  LET moved == DOMAIN s.M[u] \ {v}
      old(x, y) == IF y \in DOMAIN s.M[x] THEN s.M[x][y] ELSE 0
  IN  [s EXCEPT !.parent[u] = v, !.rest = @ \ {u},
         !.I = Table([r \in DOMAIN @ |-> IF r = u THEN {} ELSE IF r = v THEN @[v] \cup @[u]
                                         ELSE IF u \in @[r] THEN (@[r] \ {u}) \cup {v} ELSE @[r]]),
         !.M = Table([r \in DOMAIN @ |->
                 IF r = u THEN <<>>
                 ELSE IF r = v THEN Table([y \in (DOMAIN @[v] \ {u}) \cup moved |-> old(v, y) + old(u, y)])
                 ELSE IF r \in moved THEN (v :> old(r, v) + old(r, u)) @@ Without(@[r], u)
                 ELSE Without(@[r], u)])]
CoalescePair(s, pair) ==
  LET u == Root(s, pair[1])
      v == Root(s, pair[2])
  IN  IF u = v \/ (u < RegCount /\ v < RegCount) \/ v \in s.I[u] \/ ~Conservative(s, u, v) THEN s
      ELSE IF u < RegCount THEN MergeInto(s, v, u) ELSE MergeInto(s, u, v)
Coalesce(s) ==
  LET nodes == Ascending(s.rest \cup {r \in DOMAIN s.I : r < RegCount})
      Below(x) == LET ys == Ascending({y \in DOMAIN s.M[x] : y < x}) IN [i \in DOMAIN ys |-> <<x, ys[i], s.M[x][ys[i]]>>]
      pairs == FlattenSeq([i \in DOMAIN nodes |-> Below(nodes[i])])
      most == Max({0} \cup {p[3] : p \in ToSet(pairs)})
      order == FlattenSeq([w \in 1 .. most |-> SelectSeq(pairs, LAMBDA p : p[3] = most + 1 - w)])
  IN  Fold(CoalescePair, s, order)
\* freeze
Freezable(s) == {r \in s.rest : Deg(s, r) < Colours}
Freeze(s) ==
  LET x == Min({r \in Freezable(s) : \A o \in Freezable(s) : Deg(s, o) <= Deg(s, r)})
      ys == Ascending(DOMAIN s.M[x])
  IN  [s EXCEPT !.frozen = @ \o [i \in DOMAIN ys |-> <<x, ys[i], s.M[x][ys[i]]>>],
                !.M = Table([r \in DOMAIN @ |-> IF r = x THEN <<>> ELSE Without(@[r], x)])]
\* spill: the degree divided by the cost, the first of the highest.
SpillNode(s) ==
  LET can == s.rest \ s.m.spilling
      cost == Table([r \in can |-> SpillCost(s.m, r) + 1])
      Better(best, r) == IF best = -1 \/ Deg(s, r) * cost[best] > Deg(s, best) * cost[r] THEN r ELSE best
  IN  Fold(Better, -1, Ascending(can))
Spill(s) ==
  LET x == SpillNode(s)
  IN  IF x = -1 THEN [s EXCEPT !.m.bad = TRUE]
      ELSE [Isolate(s, x) EXCEPT !.spilled = Append(@, x),
              !.M = Table([r \in DOMAIN @ |-> IF r = x THEN <<>> ELSE Without(@[r], x)])]
RECURSIVE Reduce(_)
Reduce(s) ==
  LET t == Simplify(s)
      c == Coalesce(t)
  IN  IF s.rest = {} \/ s.m.bad \/ t.rest = {} THEN (IF s.rest = {} \/ s.m.bad THEN s ELSE t)
      ELSE Reduce(IF c # t THEN c ELSE IF Freezable(t) # {} THEN Freeze(t) ELSE Spill(t))

-----------------------------------------------------------------------------
(* The registers, in the opposite order.  ans: what each node has got.        *)
MachineNodes(s) == {r \in DOMAIN s.I : r < RegCount}
Best(S, Score(_)) == Min({j \in S : \A o \in S : Score(o) <= Score(j)})
Chosen(s, ans, node, taken, Score(_)) ==
  LET free == Allocable \ taken
  IN  IF free = {} THEN [ans EXCEPT !.bad = TRUE] ELSE [ans EXCEPT !.reg = (node :> Best(free, Score)) @@ @]
SelectNodes(s) ==
  LET frozen(x) == SelectSeq([i \in DOMAIN s.frozen |-> <<Root(s, s.frozen[i][1]), Root(s, s.frozen[i][2]), s.frozen[i][3]>>],
                             LAMBDA e : e[1] # e[2] /\ x \in {e[1], e[2]})
      Give(ans, h) ==
        LET x == h[1]
            used == {ans.reg[r] : r \in DOMAIN ans.reg}
            moves == frozen(x)
            bonus(j) == Fold(LAMBDA a, e : LET o == IF e[1] = x THEN e[2] ELSE e[1]
                                           IN  IF o \in DOMAIN ans.reg /\ ans.reg[o] = j THEN a + e[3] ELSE a, 0, moves)
            score == [j \in Allocable |-> Bool(j \in CallerSave \cup used) + bonus(j)]
        IN  Chosen(s, ans, x, {ans.reg[Root(s, r)] : r \in h[2]}, LAMBDA j : score[j])
      ans == Fold(Give, [reg |-> Table([r \in MachineNodes(s) |-> r]), bad |-> FALSE], Reverse(s.hist))
  IN  [reg |-> Table([r \in DOMAIN s.I |-> IF ans.bad THEN 0 ELSE ans.reg[Root(s, r)]]), bad |-> ans.bad]

-----------------------------------------------------------------------------
(* add_spill_code: a constant or an address is made again before each use,    *)
(* the others live in the stack.                                              *)
SpillInst(s, x, spilled, slot) ==
  LET Of(t, r) ==
        LET tmp == t.m.nreg
            y == t.x
            use == r \in UseReg(y)
            def == r \in DefReg(y)
            To(q) == IF q = r THEN tmp ELSE q
            new == [t EXCEPT !.m.nreg = @ + 1, !.m.spilling = @ \cup {tmp}, !.x = Renamed(y, To)]
        IN  IF r \in DOMAIN t.m.const \cup DOMAIN t.m.sym
            THEN IF def THEN [t EXCEPT !.m.bad = TRUE]
                 ELSE IF ~use THEN t
                 ELSE IF r \in DOMAIN t.m.const
                 THEN [new EXCEPT !.before = @ \o LoadImm(tmp, t.m.const[r]), !.m.const = (tmp :> t.m.const[r]) @@ @]
                 ELSE [new EXCEPT !.before = @ \o LoadSymbolAddr(tmp, t.m.sym[r]), !.m.sym = (tmp :> t.m.sym[r]) @@ @]
            ELSE IF ~def /\ ~use THEN t
            ELSE [new EXCEPT !.before = IF use THEN Append(@, LoadStack(tmp, 0, slot[r])) ELSE @,
                             !.after = IF def THEN <<StoreStack(tmp, 0, slot[r])>> \o @ ELSE @]
      t == Fold(Of, [m |-> s.m, x |-> x, before |-> <<>>, after |-> <<>>], spilled)
  IN  [m |-> t.m, out |-> s.out \o t.before \o <<t.x>> \o t.after]
AddSpillCode(m, spilled) ==
  LET again == {r \in ToSet(spilled) : r \in DOMAIN m.const \cup DOMAIN m.sym}
      stack == SelectSeq(spilled, LAMBDA r : r \notin again)
      slot == Table([r \in ToSet(stack) |-> Len(m.objs) + IndexIn(stack, r)])
      start == [m EXCEPT !.objs = @ \o [i \in DOMAIN stack |-> 1]]
      BlockOf(v, b) ==
        LET t == Fold(LAMBDA s, x : IF DefReg(x) \cap again # {} THEN s ELSE SpillInst(s, x, spilled, slot),
                      [m |-> v, out |-> <<>>], v.code[b])
        IN  [t.m EXCEPT !.code[b] = t.out]
  IN  Fold(BlockOf, start, m.blocks)

\* ColoringAllocator, until it succeeds: the function and the registers.
RECURSIVE Allocate(_)
Allocate(m) ==
  LET s == Reduce(Started(m))
      ans == SelectNodes(s)
  IN  IF s.m.bad THEN [m |-> s.m, ans |-> <<>>]
      ELSE IF s.spilled # <<>> THEN Allocate(AddSpillCode(m, s.spilled))
      ELSE [m |-> [m EXCEPT !.bad = @ \/ ans.bad], ans |-> ans.reg]

-----------------------------------------------------------------------------
(* SimpleColoringAllocator: no moves, no costs; constants are spilled first.  *)
\* choose_spill
ChooseSpill(s) ==
  LET can == s.rest \ s.m.spilling
      cheap == {r \in can : r \in DOMAIN s.m.const \cup DOMAIN s.m.sym}
      from == IF cheap # {} THEN cheap ELSE can
  IN  IF can = {} THEN -1 ELSE Best(from, LAMBDA r : Deg(s, r))
\* remove(cur): the neighbours whose degree becomes small enough are queued.
RECURSIVE ReduceSimply(_)
ReduceSimply(s) ==
  LET x == ChooseSpill(s)
      t == Isolate(s, x)
      new == {r \in s.I[x] : r >= RegCount /\ Deg(t, r) = Colours - 1}
  IN  IF s.rest = {} THEN s
      ELSE IF x = -1 THEN [s EXCEPT !.m.bad = TRUE]
      ELSE ReduceSimply(SimplifyQueue([t EXCEPT !.spilled = Append(@, x)], Ascending(new)))
RECURSIVE AllocateSimply(_)
AllocateSimply(m) ==
  LET s0 == [Started(m) EXCEPT !.M = Table([r \in DOMAIN @ |-> <<>>])]
      s == ReduceSimply(SimplifyQueue(s0, Ascending({r \in s0.rest : Deg(s0, r) < Colours})))
      Give(ans, h) ==
        LET taken == {ans.reg[r] : r \in h[2]}
            first == (CallerSave \cup {ans.reg[r] : r \in DOMAIN ans.reg}) \ taken
        IN  Chosen(s, ans, h[1], taken, LAMBDA j : Bool(j \in first))
      ans == Fold(Give, [reg |-> Table([r \in MachineNodes(s) |-> r]), bad |-> FALSE], Reverse(s.hist))
  IN  IF s.m.bad THEN [m |-> s.m, ans |-> <<>>]
      ELSE IF s.spilled # <<>> THEN AllocateSimply(AddSpillCode(m, s.spilled))
      ELSE [m |-> [m EXCEPT !.bad = @ \/ ans.bad], ans |-> ans.reg]
RegAllocate(m) == IF m.nreg <= SimpleFrom THEN Allocate(m) ELSE AllocateSimply(m)

-----------------------------------------------------------------------------
(* Func::gen_asm.                                                             *)
\* Each instruction with the offset of sp that is left after it, replaced by
\* Op(function, instruction, offset of the stack object from sp).
OffsetOf(m, x, sp) == Position(m, x.n) + x.k - sp
RewriteStack(m, Op(_, _, _)) ==
  LET Inst1(s, x) ==
        LET sp == MaintainSp(x, s.sp)
            r == IF x.op \in {"ldstk", "ststk", "stkaddr", "stkoff"} THEN Op(s.m, x, OffsetOf(s.m, x, sp)) ELSE [m |-> s.m, is |-> <<x>>]
        IN  [sp |-> sp, m |-> r.m, out |-> s.out \o r.is]
      BlockOf(v, b) == LET t == Fold(Inst1, [sp |-> 0, m |-> v, out |-> <<>>], v.code[b]) IN [t.m EXCEPT !.code[b] = t.out]
  IN  Fold(BlockOf, m, m.blocks)
\* check_store_stack: a store that does not reach needs a register for the offset.
CheckStoreStack(m) ==
  RewriteStack(m, LAMBDA v, x, offset :
    IF x.op # "ststk" \/ InOffsetRange(offset) THEN [m |-> v, is |-> <<x>>]
    ELSE [m |-> [v EXCEPT !.nreg = @ + 1],
          is |-> SetConds(<<LoadStackOffset(v.nreg, x.k, x.n), ComplexStore(x.s[1], SP, v.nreg, NoShift)>>, x.cond)])
\* replace_complex_inst
ReplaceComplexInst(m) ==
  RewriteStack(m, LAMBDA v, x, offset :
    [m |-> v,
     is |-> SetConds(CASE x.op = "ldstk" /\ ~InOffsetRange(offset) -> LoadImm(x.d, offset) \o <<ComplexLoad(x.d, SP, x.d, NoShift)>>
                       [] x.op = "stkaddr" -> RegImmSum(x.d, SP, offset)
                       [] x.op = "stkoff" -> LoadImm(x.d, offset)
                       [] OTHER -> <<x>>, x.cond)])
ReplaceWithRegAlloc(m, ans) ==
  [EachBlock(m, LAMBDA is : [i \in DOMAIN is |-> Renamed(is[i], LAMBDA r : IF r >= RegCount THEN ans[r] ELSE r)]) EXCEPT !.allocated = TRUE]
\* Every allocation can move the stack objects, and every move can ask for
\* another register.
RECURSIVE Settle(_)
Settle(m) ==
  LET a == RegAllocate(m)
      save == Ascending({a.ans[r] : r \in DOMAIN a.ans} \cap CalleeSave)
      saved == [a.m EXCEPT !.save = save]
      checked == CheckStoreStack(saved)
  IN  IF a.m.bad THEN a.m
      ELSE IF checked # saved THEN Settle(checked)
      ELSE ReplaceWithRegAlloc(saved, a.ans)
AllocateRegisters(m) == Settle(m)
\* LoadStack::gen_asm, StoreStack::gen_asm
GenAsm(m) ==
  RewriteStack(m, LAMBDA v, x, offset :
    IF x.op = "ldstk" THEN [m |-> Asserts(v, InOffsetRange(offset)), is |-> <<SetCond(Ldr(x.d, SP, offset), x.cond)>>]
    ELSE [m |-> Asserts(v, x.op = "ststk" /\ InOffsetRange(offset)), is |-> <<SetCond(Str(x.s[1], SP, offset), x.cond)>>])
===============================================================================

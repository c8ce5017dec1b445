------------------------------- MODULE PassTable ------------------------------
(* The passes as functions of the unit, and the two meanings of a program:    *)
(* what the interpreter does with the unit, what the syntax tree says.        *)
EXTENDS Passes, ArmSelect, ArmAlloc, ArmCpu, FrontEnd, TLC

\* repeat(pass)
RECURSIVE RepeatSimplify(_, _), RepeatUnusedLoop(_, _)
RepeatSimplify(v, n) == LET r == SimplifyLoadStore(v, n)
                        IN  IF r.changed /\ ~r.f.bad THEN RepeatSimplify([v EXCEPT !.funcs[n] = r.f], n) ELSE r.f
RepeatUnusedLoop(v, n) == LET r == RemoveUnusedLoop(v, n)
                          IN  IF r.changed /\ ~r.f.bad THEN RepeatUnusedLoop([v EXCEPT !.funcs[n] = r.f], n) ELSE r.f
VisitUnit(p) == LET g == Compile(p) IN [g.u EXCEPT !.bad = g.err # ""]
FoundLoops(u, type) == Table([n \in Funcs(u) |-> CheckLoop(u.funcs[n], type)])
ParalleliseUnit(u, info) == Fold(LAMBDA v, n : LoopParallelise(v, n, info[n]), u, u.order)

PassList ==
  LET Each(Op(_)) == [u \in Any |-> Op(u)] IN
  [visit |-> Each(LAMBDA p : VisitUnit(p)),
   dce_BB |-> Each(LAMBDA u : ForEach(u, LAMBDA f : DceBB(f).f)),
   repeat_dce_BB |-> Each(LAMBDA u : ForEach(u, RepeatDceBB)),
   cfg_check |-> Each(LAMBDA u : [u EXCEPT !.bad = @ \/ ~CfgCheck(u)]),
   mem2reg |-> Each(LAMBDA u : GvnUnit(Mem2reg(u))),
   gvn |-> Each(LAMBDA u : EachFunc(u, Gvn)),
   gcm_schedule_early |-> Each(LAMBDA u : EachFunc(u, ScheduleEarly)),
   remove_unused_func |-> Each(LAMBDA u : RemoveUnusedFunc(u)),
   remove_unused_memobj |-> Each(LAMBDA u : RemoveUnusedMemobj(u)),
   into_array_ssa |-> Each(LAMBDA u : IntoArraySSA(u)),
   simplify_load_store |-> Each(LAMBDA u : EachFunc(u, RepeatSimplify)),
   remove_unused_loop |-> Each(LAMBDA u : EachFunc(u, RepeatUnusedLoop)),
   gcm |-> Each(LAMBDA u : Gcm(u)),
   check_loop_1 |-> Each(LAMBDA u : FoundLoops(u, 1)),
   check_loop_2 |-> Each(LAMBDA u : FoundLoops(u, 2)),
   from_array_ssa |-> Each(LAMBDA x : FromArraySSA(x[1], x[2])),
   func_inline |-> Each(LAMBDA u : InlineFuncs(u)),
   array_to_struct |-> Each(LAMBDA x : ArrayToStruct(x[1], x[2])),
   do_while_to_while |-> Each(LAMBDA u : EachFunc(u, DoWhileToWhile)),
   loop_parallel |-> Each(LAMBDA x : ParalleliseUnit(x[1], x[2])),
   loop_unroll |-> Each(LAMBDA x : EachFunc(x[1], LAMBDA v, n : LoopUnroll(v, n, x[2][n]))),
   array_index_to_muladd |-> Each(LAMBDA u : ForEach(u, ArrayIndexToMulAdd)),
   instruction_scheduling |-> Each(LAMBDA u : ForEach(u, InstructionScheduling)),
   code_reorder |-> Each(LAMBDA u : ForEach(u, CodeReorder)),
   compute_thread_local |-> Each(LAMBDA u : ComputeThreadLocal(u)),
   select |-> Each(LAMBDA u : SelectProgram(u)),
   more_constant_info |-> Each(LAMBDA u : ForEach(u, MoreConstantInfo)),
   inline_constant |-> Each(LAMBDA u : ForEach(u, InlineConstant)),
   merge_shift_binary_op |-> Each(LAMBDA u : ForEach(u, MergeShiftBinaryOp)),
   merge_add_ldr_str |-> Each(LAMBDA u : ForEach(u, MergeAddLdrStr)),
   remove_unused |-> Each(LAMBDA u : ForEach(u, RemoveUnused)),
   reg_allocate |-> Each(LAMBDA u : ForEach(u, AllocateRegisters)),
   replace_complex_inst |-> Each(LAMBDA u : ForEach(u, ReplaceComplexInst)),
   remove_identical_move |-> Each(LAMBDA u : ForEach(u, RemoveIdenticalMove)),
   remove_no_effect |-> Each(LAMBDA u : ForEach(u, RemoveNoEffect)),
   direct_jump |-> Each(LAMBDA u : ForEach(u, DirectJump)),
   eliminate_branch |-> Each(LAMBDA u : ForEach(u, EliminateBranch)),
   gen_asm |-> Each(LAMBDA u : ForEach(u, GenAsm))]
\* A unit with parallel sections, whose threads the interpreter runs in turn,
\* says nothing about the versions of memory.
Forks(u) == \E n \in DOMAIN u.funcs : \E p \in Positions(u.funcs[n]) : At(u.funcs[n], p).k = "__create_threads"
Interpreter == LET Simulation(u, s) == [res |-> Result(s), stale |-> s.stale /\ ~Forks(u), race |-> FALSE]
               IN  [x \in Any |-> Simulation(x[1], Exec(x[1], x[2]))]
Machine == LET Emulation(s) == [res |-> Result(s), stale |-> FALSE, race |-> s.race]
           IN  [x \in Any |-> Emulation(Processor(x[1], x[2]))]
SourceMeaning == LET M(x) == MeaningOf(x[1], x[2]) IN [x \in Any |-> M(x)]
===============================================================================

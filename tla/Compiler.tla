------------------------------- MODULE Compiler -------------------------------
(* The compiler: the front end, the passes in the order of optimize_passes    *)
(* (pass.cpp), the back end for armv7.  Each pass is a step on the unit.  A   *)
(* behaviour compiles one program with one set of disabled passes.            *)
EXTENDS Naturals, Sequences

CONSTANTS Programs,      \* the syntax trees to compile
          Inputs,        \* what each program is run on
          Options,       \* the sets of passes that may be disabled
          Pass,          \* by name, what a pass does to a unit: a function
          Simulate,      \* <<unit, input>> -> what the interpreter prints and returns
          Emulate,       \* <<unit, input>> -> the same of the machine
          Meaning        \* <<program, input>> -> what the program shall print and return

VARIABLES prog,          \* the number of the program
          off,           \* global_config.disabled_passes
          u,             \* the compilation unit
          info,          \* what check_loop found, by function
          pc,            \* the next stage
          obs            \* what the unit does now, for each input

vars == <<prog, off, u, info, pc, obs>>

\* array_ssa_passes; k = 2 for loop_parallel, 1 for loop_unroll
ArraySsaPasses(k) ==
  <<"remove_unused_func", "remove_unused_memobj", "into_array_ssa", "gvn", "gcm_schedule_early", "gvn",
    "simplify_load_store", "remove_unused_loop">> \o
  (CASE k = 0 -> <<"from_array_ssa">>
     [] k = 2 -> <<"gcm", "check_loop_2", "from_array_ssa", "loop_parallel">>
     [] k = 1 -> <<"gcm", "check_loop_1", "from_array_ssa", "loop_unroll">>)
\* Program::Program, optimize_before_reg_alloc and Func::gen_asm with
\* optimize_after_reg_alloc
MachineStages ==
  <<"select", "more_constant_info", "inline_constant", "merge_shift_binary_op", "merge_add_ldr_str", "remove_unused",
    "reg_allocate", "replace_complex_inst", "remove_unused", "remove_identical_move", "remove_no_effect", "direct_jump",
    "eliminate_branch", "gen_asm">>
\* optimize_passes, and main after it
Pipeline ==
  <<"visit", "dce_BB", "cfg_check", "mem2reg">> \o ArraySsaPasses(0)
    \o <<"func_inline", "repeat_dce_BB", "mem2reg">> \o ArraySsaPasses(0)
    \o <<"array_to_struct", "do_while_to_while">> \o ArraySsaPasses(2) \o ArraySsaPasses(1)
    \o <<"repeat_dce_BB", "array_index_to_muladd">> \o ArraySsaPasses(0) \o ArraySsaPasses(0)
    \o <<"gcm", "remove_unused_memobj", "instruction_scheduling", "code_reorder", "compute_thread_local">>
    \o MachineStages

\* PassIsEnabled: the passes that can be disabled, and the name the option has.
OptionOf == [mem2reg |-> "mem2reg", simplify_load_store |-> "simplify-load-store",
             remove_unused_loop |-> "remove-unused-loop", func_inline |-> "func-inline",
             array_to_struct |-> "array-to-struct", do_while_to_while |-> "do-while-to-while",
             loop_parallel |-> "loop-parallel", loop_unroll |-> "loop-unroll",
             array_index_to_muladd |-> "array-index-to-muladd",
             instruction_scheduling |-> "instruction-scheduling", code_reorder |-> "code-reorder"]
Disabled(name) == name \in DOMAIN OptionOf /\ OptionOf[name] \in off
FindsLoops == {"check_loop_1", "check_loop_2"}
UsesLoops == {"loop_parallel", "loop_unroll"}
\* These leave arrays of the stack, or move them to the global memory.
MovesArrays == {"from_array_ssa", "array_to_struct"}

\* An assertion has failed.
Aborted == u.bad \/ \E n \in DOMAIN u.funcs : u.funcs[n].bad
Ready(name) == pc <= Len(Pipeline) /\ Pipeline[pc] = name /\ ~Aborted
InMachineCode == pc > Len(Pipeline) - Len(MachineStages)
\* The unit becomes v, and is run.  Blocks without an end are only ended by
\* dce_BB: before it, nothing can run.
Becomes(v) == \E w \in {v} : /\ u' = w
                             /\ obs' = IF pc = 1 \/ w.bad \/ \E n \in DOMAIN w.funcs : w.funcs[n].bad THEN <<>>
                                       ELSE [i \in DOMAIN Inputs[prog] |->
                                               (IF InMachineCode THEN Emulate ELSE Simulate)[<<w, Inputs[prog][i]>>]]

Init == /\ prog \in DOMAIN Programs
        /\ off \in Options
        /\ u = [funcs |-> <<>>, bad |-> FALSE]
        /\ info = <<>>
        /\ pc = 1
        /\ obs = <<>>

\* ASTVisitor, and the assertions of a program that is not well formed.
Visit == /\ Ready("visit")
         /\ Becomes(Pass.visit[Programs[prog]])
         /\ pc' = pc + 1
         /\ UNCHANGED <<prog, off, info>>
RunPass(name) == /\ Ready(name)
                 /\ Becomes(CASE Disabled(name) -> u
                              [] name \in UsesLoops -> Pass[name][<<u, info>>]
                              [] name \in MovesArrays -> Pass[name][<<u, "stack-array-to-global" \notin off>>]
                              [] OTHER -> Pass[name][u])
                 /\ pc' = pc + 1
                 /\ UNCHANGED <<prog, off, info>>
\* check_loop; one of its assertions may fail.
FindLoops(name) == /\ Ready(name)
                   /\ info' = Pass[name][u]
                   /\ u' = [u EXCEPT !.bad = @ \/ \E n \in DOMAIN info' : \E w \in DOMAIN info'[n] : ~info'[n][w].ok]
                   /\ pc' = pc + 1
                   /\ UNCHANGED <<prog, off, obs>>

Next == \/ Visit
        \/ \E name \in DOMAIN Pass \ (FindsLoops \cup {"visit"}) : RunPass(name)
        \/ \E name \in FindsLoops : FindLoops(name)
Spec == Init /\ [][Next]_vars
-----------------------------------------------------------------------------
\* Every pass keeps what the program prints and returns: the unit, run by the
\* interpreter, does what the syntax tree means.
SemanticsPreserved ==
  pc > 2 /\ ~Aborted => \A i \in DOMAIN Inputs[prog] : obs[i].res = Meaning[<<Programs[prog], Inputs[prog][i]>>]
\* In array SSA a register describes the memory that the instruction using it
\* finds: the copies of memory objects are never mixed up.
VersionsTrue == \A i \in DOMAIN obs : ~obs[i].stale
\* In a parallel section no thread touches a word that another thread writes,
\* the stack that the threads share included.
NoThreadsCollide == \A i \in DOMAIN obs : ~obs[i].race
\* No assertion of a pass ever fails on a program.
NoAssertionFails == ~Aborted
===============================================================================

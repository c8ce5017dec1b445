# A verification development for the Kobayashi compiler

The Kobayashi compiler translates SysY, a subset of C, to ARMv7 and RV32
assembly. These modules specify it from the syntax tree down to ARMv7 code with
its registers allocated: every pass that `optimize_passes` and the ARMv7 back
end run, the analyses they stand on, and the thread runtime. TLC checks them on
small instances and the TLA+ proof system proves some of the results for every
value of the constants. Line numbers below are those of this repository.

There are two kinds of modules. The *component* modules are state machines in
which every order of a work list and every interleaving of threads is a
behaviour: `ThreadRuntime`, `LoopParallel`, `ColoringAlloc`, `CalcLive`,
`AllocatedCode`, `ArrayRW`. The *compiler* modules define each pass as a function on the
compilation unit; `Compiler` is the state machine that applies them in the
order of the source, and after each of them the unit is run.

## The system

| part | state | operations | interacts with |
|---|---|---|---|
| front end: `frontend/ast_visitor.cpp`, `symbol_table.cpp`, `init_value.cpp`, the ANTLR parser | scopes, loop stack, current block | one visitor method per syntax node; emits IR | IR |
| IR: `optimizer/ir.{hpp,cpp}` | functions, basic blocks, instructions, memory objects | copy, map registers or blocks | every pass |
| pass manager and array analyses: `pass.cpp` | per-function read/write sets | `optimize_passes`, `get_array_rw` | all passes, array SSA |
| dominators and loops: `dom_tree.cpp` | dominator and loop tree | `build_dom_tree` | SSA, GVN/GCM, loops |
| SSA: `ssa.cpp`, `mem2reg.cpp`; DCE: `dce.cpp`; GVN/GCM: `gvn.cpp`; array SSA: `array_ssa.cpp` | IR in SSA form | rewriting passes to a fixpoint | dominators |
| loops: `loop.cpp` | `LoopInfo` per loop header | `check_loop`, `loop_unroll`, `loop_parallel`, `do_while_to_while` | thread runtime |
| inlining, induction variables, scheduling | IR | `func_inline`, `ind_var_discovery`, `instruction_scheduling` | IR |
| interpreter: `exec.cpp` | registers, memory, the fork point | `exec`, with a simulation of fork and join | runtime contract |
| back ends: `backend/armv7`, `backend/rv32` | blocks of machine instructions, frame objects, def-use lists | selection, phi elimination, liveness, register allocation with retries, frame layout with retries, peepholes | IR in, assembly out |
| runtime: `runtime/armv7/thread.S` | a stack shared by all threads, the process table | `__create_threads`, `__join_threads` | code made by `loop_parallel` |

The modules are named after the parts; `PROJECT.json` has the whole list, also of
what is not modelled.

What is hard in it:

* Concurrency: `--enable-loop-parallel` makes loops into blocks that run as
  processes sharing memory *and the stack*. The runtime relies on a chain of
  `clone`s and `waitid`s and on which words of the stack are alive when; the
  compiler relies on a dependence test and on bounds that tile the iterations.
* Failure: `clone` can fail, at any point of the chain.
* Orders: the allocator's work lists, coalescing with pairs collected before
  earlier merges, selection in the reverse order of removal.
* Fixpoints: liveness over cyclic control flow; the allocator's four phases;
  retries of allocation and frame layout.
* Boundaries: 32-bit trip counts, `<` and `<=`, the last block, immediates and
  offsets that do not fit an instruction.
* Protocols between passes: each relies on a form that earlier ones leave
  (simple loops, one predecessor outside a header, no phi with a dead edge), and
  a dozen of them can be switched off.
* Parallel copies: phis are copied one after the other in several places.

`PROJECT.json` lists each hazard at its line with the properties that would
catch it.

## Modules

### `ForkJoin`: the contract

Two variables: whether a parallel section is running, and the blocks that have
run in it. `Fork`, `Run(b)`, `Join`: each block once, `Join` after all of them.
Both sides implement it: the runtime (`ThreadRuntime!ImplementsForkJoin`) and
the code around it (`LoopParallel!KeepsForkJoin`).

### `ThreadRuntime`: thread.S

One action per group of instructions between two points where threads can see
each other. `state` and `parent` are the process table; `pc`, `i` and `regs`
belong to a process (`i` is r6 in `__create_threads`, the value it returns in
r0, and r4 in `__join_threads`); `stack` is the six words below the stack
pointer of the compiled function, the same words for every process, because
the child is started on its parent's sp.

| action | thread.S |
|---|---|
| `Push` | 37-47, the four registers and the test `n - 1 <= 0` |
| `Clone` | 48-57, both returns of clone |
| `CloneFails` | 51-53, a negative r0 is not 0 |
| `Pop` | 58-60 |
| `EnterJoin` | 81-88, sp moved by 16 and, in thread 0 only, r4 and r7 pushed |
| `Reap`, `NoChild` | 89-94, one dead child taken, or ECHILD |
| `Return`, `Exit` | 95-104 |

`Call` and `Body` are the compiled code: a section is entered from any of
several call sites, with register contents of its own and with rubbish below
sp; a block takes one step. The kernel's part (`Children`, a free process
number) is modelled from how thread.S uses it.

### `LoopDependence` and `LoopParallel`: parallelising a loop

`LoopDependence` is the test of `check_loop` (`add_cond`, loop.cpp:420-492) on
index expressions that are linear in two induction variables and one
loop-invariant register; an access is a sequence of them, one per dimension.
`LoopParallel` is the code that `loop_parallel` emits for an accepted loop with
two induction variables, an array read and written in each iteration, and a sum.
Threads run their blocks with a step for each load and each store. Arithmetic
wraps at `W` bits, which is 4 in the runs so that the wrap of `loop_times` is
within reach. `Sequential` is what the loop did before, the reference for
`SameResult`.

### `ColoringAlloc`: one run of the register allocator

`ColoringAllocator::run`, from the graphs of `build()` to a colouring or a list
of spilled registers. `phase` is the position in the loop of `run`
(coloring_alloc.cpp:329-340); `pairs` is the vector that `coalesce` walks;
`root` is `get_root` with the paths compressed; `history` is
`simplify_history`, from which `Select` takes entries back to front. Move
weights, the spill heuristic and the score of a free colour are nondeterministic
choices, so what holds here holds for every heuristic. `Freeze` takes a node of
largest degree as the code does. The set of graphs is a constant; a graph says
which registers occur in the function, so that one run covers two machines.

### `CalcLive`: liveness

`Func::calc_live` (program.cpp:350-384): `Scan` is the reverse scan of a block,
`Init` the state after it, `Propagate` one turn of the work list. The queue is a
set: any order.

### `AllocatedCode`: a function before and after allocation

One round of `Func::reg_allocate`, and the code it makes. The module extends
`CalcLive`, has an instance of `ColoringAlloc`, and adds what is between them and
after them. `stage` says how far it is:

| stage | actions | source |
|---|---|---|
| `calc_live` | `Analyse`: one turn of the work list | program.cpp:371-384 |
| | `Build`: the interference and move graphs of `live_out` and the instructions | coloring_alloc.cpp:24-99 |
| `allocate` | `Allocate`: a step of `ColoringAlloc` | coloring_alloc.cpp:324-393 |
| | `Call`: the registers are replaced, the function is called | program.cpp:474-479 |
| `execute` | `Execute`, `Goto`: an instruction; the way to a successor | the processor |

The function runs twice in step. `virt` has a register for every name, machine
registers included; it is a history variable, the run before allocation. `phys`
has the registers of the machine. An instruction with the operands it has in the
other run has the same results; with others the machine may get any. Of two
results in one machine register either may stay. `OperandsKept` says that the
operands are always the same, so the allocated code computes, stores and
branches as the function does. `BuildInst` is the
body of the loop over the instructions of a block, which joins what an
instruction reads with what is live and what the instruction above writes
(coloring_alloc.cpp:76-85) with what is live below it; `BlockEdges` is the loop.
Every allocable machine register may have edges, which those that do not occur in
the function never do. A round that spills ends in phase `retry`; the spill code
and the next rounds are in `ArmAlloc`, on whole programs.

### `ArrayRW`: what a call does to arrays

`get_array_rw` (pass.cpp:70-202). Functions are numbered in the order of
`get_call_order`, so that one calls itself or lower numbers. `Scan`, then rounds
of `Update` for recursive calls (`Again`, `NextFunction`), function by function
from the callees; then `MaybeRound` and `Alias` from the callers. A round over
`rec_calls` walks the map it inserts into, so whether a new key is met in the
same walk is left open. The reference is the running program: `Activations` are
the pairs of a function and the arrays its arguments are bound to that calls
lead to (`Closure`). `IsProgram` says what a program can be: a function calls
itself, lower numbers or the library, and `main`, which has no parameters
(ast_visitor.cpp:475), passes no argument of its own.

### The compiler

`Compiler` has the variables `prog` (which program), `off` (which passes are
disabled), `u` (the unit), `info` (what `check_loop` found), `pc` (the stage) and
`obs` (what the unit does now on each input). One action applies one pass; the
stages are those of `optimize_passes` (pass.cpp:482-521) and of the back end.
The passes are a constant of the module, a function by name (`PassTable!PassList`),
because the same operators are used by other passes too.

| module | source | what it defines |
|---|---|---|
| `IR` | ir.hpp, ir.cpp | instructions, functions, units, the helpers of every pass |
| `Exec` | exec.cpp | the interpreter, with its simulation of fork and join |
| `Syntax` | SysY.g4 | syntax trees and their meaning, the abstract specification |
| `FrontEnd` | ast_visitor.cpp, init_value.cpp, symbol_table.cpp | the walk over the tree that emits the unit |
| `DomTree` | dom_tree.cpp | dominators, loops, frontiers |
| `DCE` | dce.cpp | dead blocks, objects, definitions, loops and functions |
| `SSA` | ssa.cpp, mem2reg.cpp | phi placement and renaming, variables to registers |
| `GVN` | gvn.cpp | value numbering, early and late scheduling |
| `ArraySSA` | array_ssa.cpp, pass.cpp | states of arrays as registers, what calls do to them, loads and stores removed |
| `FuncInline` | func_inline.cpp | inlining |
| `LoopInfo`, `Loops`, `ParallelLoops` | loop.cpp | `check_loop`, with its assertions about the shape of a loop; rotation and unrolling; parallel loops |
| `Passes` | pass.cpp, array_ssa.cpp, instr_schedule.cpp | the small passes |
| `Arm` | archinfo.hpp, inst.hpp | machine instructions, what they read and write, liveness |
| `ArmSelect` | program.cpp | instruction selection, phi elimination |
| `ArmPasses` | backend_passes.cpp, merge_inst.cpp | the peephole passes |
| `ArmAlloc` | coloring_alloc.cpp, simple_coloring_alloc.cpp, program.cpp | both allocators with spill code and retries, the frame |
| `ArmCpu` | inst.hpp, inst.cpp | what the machine does with the result |

Choices that keep it small, none of which a property depends on:

* Unordered containers are walked in ascending order, and ties of a sort are
  broken the same way. `ColoringAlloc` and `ArrayRW` have the other orders.
* Sizes and addresses count words. Strings (`putf`), the timing calls, the text of
  numbers, of assembly and of debug output, literal pools and alignment are left out.
* Probabilities of blocks and weights of registers are fixed-point numbers. The
  64-bit coefficients of subscript polynomials are unbounded.
* exec.cpp reads the phis of a block one by one; generated code reads them
  together, and so does `Exec` when `PhisTogether` is true, as in every run.
* Pseudo registers are numbered by the register of the intermediate
  representation they stand for, not by first use. Flags and caller-saved
  registers are undefined after a call, and reading undefined flags ends the run.
* The machine runs the threads of a section one after another, as the interpreter
  does, and notes the words each reads and writes: two threads that meet in a
  word are reported. `LoopParallel` and `ThreadRuntime` have the interleavings.

Not reachable from the compiler, and therefore not in the modules: the induction
variable and value range passes, `gcm_move_branch_out_of_loop`,
`code_reorder_naive`, `spill_constant_to_first_use`, the pass language, and short
circuits outside of conditions, which the grammar rules out.

## Runs

| run | instance | shows |
|---|---|---|
| `thread_ok` | 4 threads, 5 process numbers, 2 call sites, clone succeeds | every block runs exactly once; the runtime implements `ForkJoin` |
| `thread_fail` | 3 threads, clone may fail | barrier, registers, no orphans, a prefix of the blocks runs, every section ends; `IInv` |
| `loop_run` | 3 threads, 4-bit registers, 0 to 8 iterations, `<` and `<=`, 11 one-dimensional and 16 two-dimensional index expressions in every pair | same result as the sequential loop, blocks tile, no races, the contract is kept, the loop ends |
| `loop_zero_step` | second induction variable with step 0 | **violated**: the accepted iterations depend on each other |
| `color` | 2 machine and 3 other registers, or 1 and 4 of which 2 are spill temporaries; 2 colours; all graphs up to the names of registers | the colouring is proper, selection never fails, something can always be spilled, coalescing costs no spill, a run ends; `IInv` |
| `allocated_code` | 3 machine registers; every graph of 3 blocks that can be reached, one register; 2 loops with 3 registers, moves, calls and dead results | the work list ends with the least solution, which is what instructions read; allocated code finds the operands the function has |
| `array_rw` | 3 functions, 2 array arguments, a global and a local: 35200 programs | summaries are exact for loads and stores, every alias is found |
| `array_const` | a global passed to a function that writes its argument | **violated**: the global is marked constant |
| `array_rec` | self-recursion that permutes arguments | **violated**: the analysis does not end |
| `compile` | 6 programs and 48 loops, 3 sets of options, 16-bit registers, 2 threads | every pass keeps what the program prints and returns, array SSA describes the memory it reads, threads do not meet in a word, no assertion fails |
| `swap_loop` | two variables that change places in a loop | **violated**: `do_while_to_while` copies the phis of a header one after the other |
| `sub_shift` | `n * n - n * 4` | **violated**: `merge_shift_binary_op` reverses the subtraction |

The bounds. Three threads are a head, a middle and a tail, the three roles a
thread of the chain or a block of the loop can have; one process number more
than threads lets a number come back; two call sites with different registers
show a value restored from the wrong section. Three blocks give every loop
shape up to an irreducible one and a self-loop. Three machine registers, two of
them clobbered by a call, and three others need spilling in some of the functions
and sharing in most; with two values a register that is overwritten shows. Two colours and five registers
are enough for merges that make a later pair interfere, for a merge into a
machine register, for freezing and for spilling. A temporary of spill code lives
next to one instruction: the graphs with temporaries have at most one move and
fewer than K temporaries and machine registers at a time, which is what
`add_spill_code` (coloring_alloc.cpp:216-283) makes; there are fewer machine
registers than colours in them because only the argument registers, four of
fourteen, take part in moves (archinfo.hpp:35-68). Two arguments and two arrays
to pass show swaps, duplicates and arguments that are dropped; three functions a
caller, a function in the middle, and a leaf. The loops of `MCLoops` stay clear of
a number of iterations that wraps round and of a zero step.

`compile`. Each program is there for the passes it makes work: `Tables` (the front
end), `Vectors` (two arrays made one, a reduction, threads), `Calls` (inlining,
objects on the stack), `Matrices` (nested loops, unrolling, one row copied onto
the next; with everything on its 2955 registers go through the simple allocator),
`SameArray` (aliases, redundant loads), `Arguments` (phis that change places, six
arguments, constants that are no immediates), and a family of loops over every
comparison, both orders of its operands, four steps and three bodies. Every
program is run on inputs that make its loops run 0, 1, few and more times than
the unrolling factor or the number of threads. `W = 16` gives
half words of eight bits, so that constants of the programs need `movw` and
`movt`; `Fuel = 12` allows 4096 instructions (the machine twice as many) and `Stack = 64` words, which no
program reaches. The register file
of the model is smaller than the machine's, and loads and stores reach 6 words,
so that spilling and the retry for far frame offsets happen in programs of this
size; `SimpleFrom` is the code's 2000. The option sets are everything on; what
common.cpp switches off by default; and, with parallel loops off, those passes off
that replace what others would have worked on.

Deadlock is checked everywhere but in the compiler's runs, where a behaviour
ends with the last pass. `Done`, `Stopped` and `Stop` are the ends of the others.

Fairness. `ThreadRuntime!FairSpec` is weak fairness of the steps of each
process: the kernel schedules every runnable process. There is none on `Call`.
`LoopParallel!FairSpec` is the same for threads and for the sequential code
around them. The allocator and the analyses are sequential: weak fairness of
their next step says that the program runs. `AllocatedCode!FairCodeSpec` states it
of the analysis only, all that `Terminates` needs there; the function it
runs may loop forever. `Compiler` states none: its pipeline
is a finite list of functions that TLC evaluates to the end.

What the violated runs say:

* `loop_zero_step`: loop.cpp:449-450 compares with the step of the variable in
  the loop condition, whichever induction variable is being tested.
* `array_const`: pass.cpp:128-136 records a callee's writes in its caller only for
  arguments of the caller, not for globals.
* `array_rec`: the flag of pass.cpp:141 is never cleared. In `array_rw` programs
  that run into this stay in phase `rec`, and the properties speak of the end.
* `swap_loop`: loop.cpp:1339-1367 emits the copies of a header's phis in sequence.
  The same copies are made by `loop_unroll` (loop.cpp:782-788, 832).
* `sub_shift`: merge_inst.cpp:91-93 and 105-107 turn a subtraction round although
  the operands stay where they are.

### Other observations

No run is about these; the first three can be seen by giving `sub_shift.cfg` the list
named here in the place of `DifferenceList`.

* `ComplementList`: `remove_no_effect` compares the number of a `mov` or `mvn` but
  not which of the two it is (backend_passes.cpp:358-372), so that `mvn r, #0`
  after `mov r, #0` is removed: `a[0] = 0; a[1] = -1;` prints 0 0.
* `GuardedList`: `eliminate_branch` makes a block of a call and a store conditional;
  the call may change the flags that the store reads, and `change_cpsr` names
  comparisons only (backend_passes.cpp:586-600).
* `CounterList`, with `NoAssertionFails` and parallel loops on: the assertion at
  loop.cpp:1209 fails, because value numbering replaced an expression after the
  loop by the one in it, and the phi at the exit is neither an induction variable
  nor a reduction.
* thread.S:51-53 takes an error of clone for the return in the parent: the blocks
  of the threads that were not created are lost. `AllBlocksRan` is stated for a
  clone that succeeds.
* loop.cpp:979 subtracts in 32 bits and nothing checks the direction of the loop:
  with the limit far below the base a loop of no iteration runs some.
* The threads share one stack (thread.S:7) and program.cpp:180 keeps only the
  thread number out of it. With fewer registers than `compile` has
  (`CalleeSave = {4, 5, 14}`) `Vectors` spills a variable the threads write, and
  `NoThreadsCollide` fails after register allocation. With the full register file
  of the machine we have not seen it.
* Calls of library functions are in no list of calls (pass.cpp:99-101), so a
  function that only hands its argument to `getarray` is summarised as not touching
  it; `SummaryExact` is about loads and stores.
* `conservative_check` (coloring_alloc.cpp:285-301) counts a precoloured neighbour
  of low degree as if it could be simplified; with machine registers in the graph
  coalescing can therefore cost a spill. The allocation stays correct.
  `NoNeedlessSpill` is stated without them.
* `merge_inst` merges into other blocks but looks for a redefinition of what it
  reads in its own block only (merge_inst.cpp:35-44); a branch repeats the
  comparison of its condition from `cmp_info` (program.cpp:121-153).

## Proofs

`ThreadRuntime_proofs`, for every `N >= 1`, any set of processes (finite or not)
and any call sites:

* `InductiveInvariant`: `IInv` is an invariant. The properties are not inductive:
  a barrier needs to know that the processes form a chain. `ChainInv` says that
  thread i+1 is the child of thread i, which has not waited yet, that numbers
  are unique and that only the last thread has no child; `StackInv` that the
  words a thread is still to pop are those that were pushed at this call, and
  that what thread 0 pushes in `__join_threads` lies elsewhere; `RanInv` ties
  the blocks that have run to the positions of the threads; `CompleteInv` adds,
  when clone cannot fail, that the last thread of the chain is thread N-1.
* `TypeCorrect`, `BarrierHolds`, `RegistersSafe`, `NoOrphansEver`,
  `BlockOnceEver`, `PrefixAlways` follow from it; `AllBlocksAlwaysRan` and
  `Refinement` (the runtime implements `ForkJoin!Spec`) also assume
  `~CloneMayFail`: when clone fails, blocks are lost.
* `NobodyStuck`, if there are as many process numbers as threads (`EnoughPids`;
  where there are fewer clone fails, which the model with `~CloneMayFail` leaves
  out): inside a section some thread can always go on. The last thread of the
  chain waits for nobody (`TailExists`: as numbers grow along the chain, it has
  an end) and, if it has exited, the thread before it can reap it; if it is to clone,
  fewer than N threads exist and a number is free (`NumberFree`).
* `EveryStepCounts`: each step inside a section adds to `Behind`, the pairs of a
  block and a stage its thread has reached, where those after a thread that has
  waited count as done. A subset of `Block \X 0 .. 8` only grows 9 N times, so with
  `NobodyStuck` this is `SectionEnds` up to the last step, from fairness to
  termination, which is the prover's limit. Both hold whether or not clone fails.

`CalcLive_proofs`, for every control-flow graph and every body of blocks:
`InductiveInvariant`: what the analysis has found is live (`Sound`), and what is
live and not passed on is queued (`PassedOn`); `Correct`: with the queue empty
the result is the least solution of the data-flow equations. Live is defined by
sets of blocks closed under the equations, so no induction over paths is needed.
`LiveMeansRead` says the same of instructions: the scan of a block is a recursive
function of the number of instructions scanned, and `After` (what is read first,
and what is written and not read first, in the last k instructions) solves its
equations (`OneMore`, `ScanFinds`). `EachPairOnce`: a turn of the work list takes
its pair of a block and a register out of `Pending` (the pairs queued or not yet
found live) for good and adds none, so the loop ends.

`AllocatedCode_proofs`, for every function, any sets of machine and other
registers and any order of the choices of both components, puts the proofs of
`CalcLive` and `ColoringAlloc` together:

* `AnalysisImplemented`: the composition implements `CalcLive!Spec`.
* `BuildMakesGraphs`: the graphs are what `GraphAssumption` of `ColoringAlloc`
  supposes. That edges only join registers that occur needs the analysis to be
  sound: what is in `live_out` is read somewhere (`LiveOccurs`).
* `AllocationKeepsOperands`: `OperandsKept` is an invariant. `LiveBefore` is what is
  live before the i-th instruction of a block, said of the instructions alone.
  `WalkGood` is the invariant of the walk of `build()`: after k instructions `live`
  is `LiveBefore`, and it and the results of the instruction above are joined in
  pairs; an edge once made stays, so that in the end the results of every
  instruction are joined with each other and with all that is live after it
  (`BlockJoined`, `BuiltEdges`). `SameLive`, the invariant of the two runs, says
  that they agree on what is live where they are. An instruction keeps it
  because the colouring is proper on those edges; the way to a successor because
  what is live at the start of a block is in its `live_in` (`LiveAtEntry`) and, the
  work list being empty, in `live_out` of all its predecessors.
* `CodeInvariant` joins the three invariants. While the allocator runs, it is that of
  `ColoringAlloc_proofs` by instantiation: `SameAllocator` says that a step of the
  instance in the model is one of the instance the theorems are about.

`ColoringAlloc_proofs`, for every set of symmetric interference graphs
(`GraphAssumption`: what `build()` makes, see `BuildMakesGraphs`), any number of registers and colours and
any order of the allocator's choices:

* `InductiveInvariant`: `IInv` is an invariant. That the colouring is proper
  needs to know where each edge of `build()`'s graph went: `EdgeInv` says that
  the two ends are never merged and that the edge is still in the graph, was
  recorded in `history` by the end that was removed first, is void because an end
  is spilled, or is respected by the colours. That selection succeeds needs
  `HistoryInv`: an entry has fewer than K neighbours, and each of them, under the
  name it has been merged into, is still live, is spilled, is coloured, or waits
  later in `history`, so it is coloured before the entry. `PairInv` is for
  `coalesce`: a pair taken from its list still has live roots, although merging
  earlier pairs has renamed both.
* `TypeCorrect`, `SymmetricEver`, `SelectionSucceeds` and `Correct` (every edge
  of the first graph has two colours at the end) follow from it.
* `AlwaysProgresses`: every step makes progress, in this order: fewer registers
  left; as many and fewer moves; a later position in the round of `simplify`,
  `coalesce` and `freeze` (`Rank`); fewer pairs to coalesce or fewer registers to
  colour. A round that has merged something starts over, but with fewer registers.
  `RoundInv` is why a round in which nothing was merged does not: until then the
  pairs stand for themselves and what is left cannot be simplified. All of this is finite, so
  a run of the allocator ends.

`ColoringSpill_proofs`, on the same assumptions: when the allocator spills, and
that it finds something to spill.

* `NeverSpillsNeedlessly` is Briggs' argument. `ElimInv`: as long as no machine
  register is in the graph and simplification alone could take the first graph
  apart, nothing is spilled and simplification alone can still take apart what
  is left. A merge keeps this (`MergeElim`): in a set S
  of registers that does not have the merged one nothing changes; in one that
  has it, if all others have K neighbours in S, then those of the merged register
  in S were all counted by `conservative_check` (`CountedBefore`), so they are
  fewer than K.
* `SpillsSomething`: `assert(spill_node != -1)` holds if `TemporariesFit`, a
  condition on the first graph. It says that a temporary of spill code is moved
  from or to at most one register (`OneMove`), which is older than it or another
  temporary or a machine register (`Newer`), and that in any set of temporaries
  one has a colour to spare for those it interferes with and for the machine
  registers in use (`ColoursToSpare`). The compiler's graphs are such: a
  temporary occurs in one instruction, which has few operands; the result of
  `__create_threads`, which is in `spilling_reg` too (program.cpp:180), is only
  moved from and to r0; and of the 14 colours those of the argument registers and the few
  others that instructions name are the only ones with edges.
  The condition is needed: with K = 2, let the temporary 5 interfere with
  machine register 0 and with register 2, and 2 be moved to machine register 1;
  when 2 is merged into 1 only the temporary is left, with K neighbours (TLC
  finds this on graphs in which two machine registers have edges and there is a temporary).
  `FitInv` says why it suffices: a temporary is only merged
  with what it is moved from or to, and nothing but a temporary is merged into
  it, so temporaries interfere only if they or their partners did at first
  (`Near`).

`LoopParallel_proofs`, for any number of threads, any width of the registers and
every loop that the dependence test accepts:

* `KeepsContract`: the generated code keeps to `ForkJoin!Spec`, the contract
  that the runtime is proved to implement. `PcInv` is what it needs: nobody has
  joined before the section starts. Together with `Refinement` of
  `ThreadRuntime_proofs` this joins the two halves of a parallel section at the
  contract between them.
* `Tile`: no iteration is lost and none is run twice, for every base and limit
  with `c - base >= -2^(W-1)`. `BlockBounds` says that under this condition the
  limits of a block, computed in registers that wrap round, are those of
  arithmetic; the rest is division. Without it the number of iterations wraps
  round to a positive number (loop.cpp:979) and a loop of no iteration is run.
* `TypeCorrect`: all values are words of `W` bits.
* `Independence`, `RaceFree` and `ResultKept`: the test of `add_cond` is sound, so
  no two threads race and the threads leave what the loop leaves. They assume
  `Exact` of the loop: its step is not 0 (see `loop_zero_step`), `c - base` does not
  wrap, and nothing the loop computes for an index or an induction variable
  overflows, which is undefined in the source language. The reduction may wrap.
  TLC's loops include many that are Exact, and others for which the properties
  hold all the same.
  `IInv` says where each thread is in its block, that its induction variables are
  those of its iteration, that its share of the reduction is the difference
  between two partial sums of the sequential loop, that a loaded value is
  what the cell held before the loop, and that the cells written are those of
  the finished iterations, with their values. The blocks are disjoint
  (`WorkersBlocks`, from `Tile`), so the iteration a thread is at is nobody else's
  (`Remaining`), independence makes each load and store commute with the others
  (`LoadedValue`, `StoredValue`), and at the end the shares telescope
  (`Telescope`).

`ArrayRW_proofs`, for any number of functions, finitely many arrays and every
program (`IsProgram`):

* `TypeCorrect`.
* `SummariesExact`. `ClosureIsLeast`: the recursive function that defines
  `Activations` computes the least set closed under calls, for the activations
  are finite. `SummaryInv` says that at any time a summary only names what is
  reached (`Truthful`: what a callee reaches through the arguments passed to it,
  its caller reaches, `ThroughCall`), that the summaries of the functions
  visited have what their callees' say (`Summarised`), and, of the function
  being visited, that a pair of a recursive call and a key is still to be
  visited, is satisfied, or has set the flag: a new key can be missed by the
  round that inserts it, but then another round follows. So the loop ends, where
  it ends (`array_rec`), with a solution, and a solution covers all that is
  reached (`SummarisedCovers`).
* `AliasesFound`. `AliasInv`: a function whose callers are done has in its sets
  what they pass, its own sets no longer change, and its aliases are made of
  them. An argument whose set a caller copies must be one the caller records as
  used, which is `Summarised`: the second traversal relies on the first
  (`BoundIsKnown`).

`Induction` has the lemmas that make recursive functions accessible to the
provers: that a set of numbers which has 0 and is closed under successor has
all of them, that a set of subsets of a finite set has a minimal element, and
that recursion with a step in a set defines a function. They follow from the
library's theorem that inclusion orders finite sets well, so they need no
operator as a parameter. What a recursive *function* computes (`Sequential`,
`Summed`, `Closure`, `Scan`, `BlockEdges`) is proved with them.

Only model-checked: liveness (`SectionEnds`, and `Terminates` in each module that
states it). For the thread runtime, the analysis and the allocator `NobodyStuck`,
`EveryStepCounts`, `EachPairOnce` and `AlwaysProgresses` are the part of it that is
proved; that fairness and a measure that only falls lead to the end is beyond the
prover. Also `CanSpill` without `TemporariesFit`, on the graphs of the run; and the compiler modules, whose
passes are recursive operators on data, about which the prover can say nothing.

## Not modelled

* The generated parser and lexer, the ANTLR runtime: generated and third-party.
* The RV32 back end. The text of its allocator and of its liveness analysis is that
  of ARMv7; its selection and passes are a smaller variant for another
  instruction set, which would need a machine of its own (the counterpart of
  `ArmCpu`) and would say the same about the same hazards.
* Printing: the syntax of assembly, of the dump of the intermediate
  representation, of debug output. (`ChangeSP` prints `subsp,sp` for a negative
  change, inst.cpp:346; the only change made is positive, program.cpp:174.)
* The driver: arguments, files, logging, error messages. That a program is
  rejected is modelled (`FrontEnd`, field `err`), what is said about it is not.
* What nothing calls: see the end of the section on the compiler.

---------------------------- MODULE AllocatedCode ----------------------------
(* One round of register allocation from end to end, and the code that it    *)
(* makes (Func::reg_allocate and replace_with_reg_alloc of                   *)
(* src/src/backend/armv7/program.cpp, build() of coloring_alloc.cpp; the rv32 *)
(* back end has the same text).  calc_live finds what is live, build() makes *)
(* the graphs of it, the allocator colours them.  Then the function runs     *)
(* twice in step: with a register for every name, and with those of the      *)
(* machine.                                                                  *)
EXTENDS CalcLive, FiniteSets

CONSTANTS Machine,      \* the allocable machine registers
          Pseudo,       \* the pseudo registers
          Spilling,     \* Func::spilling_reg
          Entry,        \* the first block
          Val           \* what a register can hold

\* A function also says which of its instructions are a MoveReg.
ASSUME CodeAssumption ==
  /\ Reg = Machine \cup Pseudo /\ Machine \cap Pseudo = {} /\ Spilling \subseteq Pseudo
  /\ Machine \subseteq Nat /\ Pseudo \subseteq Nat /\ IsFiniteSet(Machine) /\ IsFiniteSet(Pseudo)
  /\ Entry \in Block
  /\ \A f \in Funcs : \A b \in Block : f.moves[b] \subseteq DOMAIN f.insts[b]

VARIABLES
  stage,     \* "calc_live", "allocate" or "execute"
  \* the allocator's variables, see ColoringAlloc
  graph, adj, mov, remain, root, history, spilled, pairs, merged, colour, phase,
  at,        \* the instruction to execute: <<block, position>>
  virt,      \* the registers of the function, before allocation
  phys       \* the registers of the machine

allocVars == <<graph, adj, mov, remain, root, history, spilled, pairs, merged, colour, phase>>
codeVars == <<vars, stage, allocVars, at, virt, phys>>

Graphs == {g \in [adj : [Reg -> SUBSET Reg], mov : [Reg -> SUBSET Reg], occur : SUBSET Pseudo] :
             \A x, y \in Reg : /\ x \in g.adj[y] => y \in g.adj[x]
                               /\ x \in g.mov[y] => y \in g.mov[x]
                               /\ x \notin g.adj[x]
                               /\ g.adj[x] \cup g.mov[x] \subseteq g.occur \cup Machine}
Alloc == INSTANCE ColoringAlloc WITH Allocable <- Machine

-----------------------------------------------------------------------------
(* build() *)

Meet(A, B) == (A \X B) \cup (B \X A)

\* A mutant: what nobody reads meets nothing.
BuildInstRead(insts, i, s) ==
  LET kept == s.live \ insts[i].def
      live == kept \cup insts[i].use
  IN  [live |-> live, edge |-> s.edge \cup Meet(live, live)]

\* A block is walked backwards; live is what is live before the instructions
\* walked so far.  What the instruction above writes joins them too, also if
\* nobody reads it.
BuildInst(insts, i, s) ==
  LET inst == insts[i]
      kept == s.live \ inst.def
      live == kept \cup inst.use
      above == IF i = 1 THEN {} ELSE insts[i - 1].def
  IN  [live |-> live,
       edge |-> s.edge \cup Meet(inst.use \ kept, live) \cup Meet(above \ live, live)
                       \cup Meet(inst.use \cup above, inst.use \cup above)]
BlockEdges(insts, out) ==
  LET n == Len(insts)
      end == out \cup (IF n = 0 THEN {} ELSE insts[n].def)
      built[k \in 0 .. n] ==               \* the last k instructions
        IF k = 0 THEN [live |-> out, edge |-> Meet(end, end)]
        ELSE BuildInst(insts, n - k + 1, built[k - 1])
  IN  built[n].edge

IsMove(b, i, x, y) == i \in func.moves[b] /\ x \in func.insts[b][i].def /\ y \in func.insts[b][i].use
Occur == {x \in Reg : \E b \in Block : \E i \in DOMAIN func.insts[b] :
                        x \in func.insts[b][i].def \cup func.insts[b][i].use}
Built ==
  LET edges == UNION {BlockEdges(func.insts[b], live_out[b]) : b \in Block}
      move(x, y) == \E b \in Block : \E i \in func.moves[b] : IsMove(b, i, x, y) \/ IsMove(b, i, y, x)
  IN  [adj |-> [x \in Reg |-> {y \in Reg \ {x} : <<x, y>> \in edges}],
       mov |-> [x \in Reg |-> {y \in Reg \ {x} : move(x, y)}],
       occur |-> Occur \cap Pseudo]

-----------------------------------------------------------------------------
(* The stages *)

CodeInit ==
  /\ Init
  /\ stage = "calc_live"
  /\ graph = <<>> /\ adj = <<>> /\ mov = <<>> /\ remain = {} /\ root = <<>>
  /\ history = <<>> /\ spilled = {} /\ pairs = {} /\ merged = FALSE
  /\ colour = <<>> /\ phase = "prune"
  /\ at = <<Entry, 1>> /\ virt = <<>> /\ phys = <<>>

Analyse ==
  /\ stage = "calc_live"
  /\ \E b \in Block, r \in Reg : Propagate(b, r)
  /\ UNCHANGED <<stage, allocVars, at, virt, phys>>

Build ==
  /\ stage = "calc_live" /\ Finished
  /\ stage' = "allocate"
  /\ graph' = Built
  /\ adj' = graph'.adj /\ mov' = graph'.mov
  /\ remain' = graph'.occur
  /\ root' = [x \in Reg |-> x]
  /\ colour' = [x \in Reg |-> IF x \in Machine THEN x ELSE -1]
  /\ UNCHANGED <<vars, history, spilled, pairs, merged, phase, at, virt, phys>>

\* ColoringAllocator::run, as far as the select loop.
Allocate ==
  /\ stage = "allocate"
  /\ Alloc!Step
  /\ UNCHANGED <<vars, stage, at, virt, phys>>

\* Every register is replaced by its colour, and the function is called.  The
\* machine registers hold the arguments, and a register that nothing has written
\* yet whatever is in its place.
Call ==
  /\ stage = "allocate" /\ phase = "done"
  /\ stage' = "execute"
  /\ phys' \in [Machine -> Val]
  /\ virt' = [r \in Occur \cup Machine |-> phys'[colour[r]]]
  /\ UNCHANGED <<vars, allocVars, at>>

Inst == func.insts[at[1]][at[2]]
SameOperands == \A r \in Inst.use : phys[colour[r]] = virt[r]

\* What an instruction writes, in registers and in memory, depends on what it
\* reads: with the same operands both runs get the same results.  With others the
\* machine may get anything.
Execute ==
  /\ stage = "execute" /\ at[2] \in DOMAIN func.insts[at[1]]
  /\ \E vals \in [Inst.def -> Val] :
       /\ virt' = [r \in DOMAIN virt |-> IF r \in Inst.def THEN vals[r] ELSE virt[r]]
       /\ phys' \in {s \in [Machine -> Val] :
            \A m \in Machine :
              LET mine == {r \in Inst.def : colour[r] = m}
              IN  IF mine = {} THEN s[m] = phys[m]
                  ELSE SameOperands => s[m] \in {vals[r] : r \in mine}}
  /\ at' = <<at[1], at[2] + 1>>
  /\ UNCHANGED <<vars, stage, allocVars>>

Goto ==
  /\ stage = "execute" /\ at[2] = Len(func.insts[at[1]]) + 1
  /\ \E s \in Block : <<at[1], s>> \in func.edge /\ at' = <<s, 1>>
  /\ UNCHANGED <<vars, stage, allocVars, virt, phys>>

CodeStep == Analyse \/ Build \/ Allocate \/ Call \/ Execute \/ Goto

\* The function has returned; or something was spilled, and reg_allocate starts
\* over with the function that has the spill code.
Halt ==
  /\ \/ stage = "allocate" /\ phase = "retry"
     \/ /\ stage = "execute" /\ at[2] = Len(func.insts[at[1]]) + 1
        /\ \A s \in Block : <<at[1], s>> \notin func.edge
  /\ UNCHANGED codeVars

CodeNext == CodeStep \/ Halt

CodeSpec == CodeInit /\ [][CodeNext]_codeVars

FairCodeSpec == CodeSpec /\ WF_codeVars(Analyse)

-----------------------------------------------------------------------------
\* Every instruction finds in the registers of the machine what it would find if
\* every register of the function were one of the machine's: nothing that is read
\* later is overwritten, on any path, also by an instruction whose result nobody
\* reads or by a call.  calc_live, build() and the allocator together.
OperandsKept ==
  stage = "execute" /\ at[2] \in DOMAIN func.insts[at[1]] => SameOperands
=============================================================================

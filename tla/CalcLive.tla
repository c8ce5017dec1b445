------------------------------ MODULE CalcLive ------------------------------
(* Liveness analysis of the back end (src/src/backend/armv7/program.cpp,   *)
(* Func::calc_live; the rv32 back end has the same text): a reverse scan   *)
(* of every block, then a work list of (block, register) pairs that are    *)
(* live at the start of the block and still to be told to its predecessors.*)
EXTENDS Integers, Sequences

CONSTANTS Block, Reg,
          Funcs        \* functions to analyse: [edge, insts] records

\* insts[b] is the sequence of the instructions of b, each with the sets of
\* registers it defines and uses; edge the pairs <<b, successor of b>>.
ASSUME FuncsAssumption ==
  \A f \in Funcs : /\ f.edge \subseteq Block \X Block
                   /\ f.insts \in [Block -> Seq([def : SUBSET Reg, use : SUBSET Reg])]

VARIABLES func, live_use, def, live_in, live_out, update

vars == <<func, live_use, def, live_in, live_out, update>>

\* A mutant: an instruction that reads what it writes does not use it.
ScanInstSwapped(inst, s) ==
  [def |-> (s.def \ inst.use) \cup inst.def,
   use |-> (s.use \cup inst.use) \ inst.def]

\* One instruction of the reverse scan: what it defines is no longer used
\* from above, what it uses is.
ScanInst(inst, s) ==
  [def |-> (s.def \cup inst.def) \ inst.use,
   use |-> (s.use \ inst.def) \cup inst.use]
Scan(insts) ==
  LET after[k \in 0 .. Len(insts)] ==     \* the last k instructions
        IF k = 0 THEN [def |-> {}, use |-> {}]
        ELSE ScanInst(insts[Len(insts) - k + 1], after[k - 1])
  IN  after[Len(insts)]

LiveUse(f, b) == {r \in Reg : r \in Scan(f.insts[b]).use}
Def(f, b) == {r \in Reg : r \in Scan(f.insts[b]).def}
InEdge(b) == {p \in Block : <<p, b>> \in func.edge}

Init ==
  /\ func \in Funcs
  /\ live_use = [b \in Block |-> LiveUse(func, b)]
  /\ def = [b \in Block |-> Def(func, b)]
  /\ live_in = live_use
  /\ live_out = [b \in Block |-> {}]
  /\ update = {u \in Block \X Reg : u[2] \in live_use[u[1]]}

\* The predecessors that hear of r for the first time, and those of them at
\* whose start it becomes live.
Told(b, r) == {p \in InEdge(b) : r \notin live_out[p]}
Reached(b, r) == {p \in Told(b, r) : r \notin def[p] /\ r \notin live_in[p]}

\* Mutants of Propagate: one round only; every predecessor is queued again.
PropagateNext(b, r, more) ==
  /\ <<b, r>> \in update
  /\ live_out' = [p \in Block |-> IF p \in Told(b, r)
                                  THEN live_out[p] \cup {r} ELSE live_out[p]]
  /\ live_in' = [p \in Block |-> IF p \in Reached(b, r)
                                 THEN live_in[p] \cup {r} ELSE live_in[p]]
  /\ update' = (update \ {<<b, r>>}) \cup (more \X {r})
  /\ UNCHANGED <<func, live_use, def>>
PropagateOnce(b, r) == PropagateNext(b, r, {})
PropagateAgain(b, r) == PropagateNext(b, r, {p \in InEdge(b) : r \notin def[p]})

\* The work list is a queue; any order is allowed here.
Propagate(b, r) ==
  /\ <<b, r>> \in update
  /\ live_out' = [p \in Block |-> IF p \in Told(b, r)
                                  THEN live_out[p] \cup {r} ELSE live_out[p]]
  /\ live_in' = [p \in Block |-> IF p \in Reached(b, r)
                                 THEN live_in[p] \cup {r} ELSE live_in[p]]
  /\ update' = (update \ {<<b, r>>}) \cup (Reached(b, r) \X {r})
  /\ UNCHANGED <<func, live_use, def>>

Finished == update = {}
Stop == Finished /\ UNCHANGED vars

Next == Stop \/ \E b \in Block, r \in Reg : Propagate(b, r)

Spec == Init /\ [][Next]_vars

FairSpec == Spec /\ WF_vars(\E b \in Block, r \in Reg : Propagate(b, r))

-----------------------------------------------------------------------------
TypeOK ==
  /\ func \in Funcs
  /\ live_use \in [Block -> SUBSET Reg] /\ def \in [Block -> SUBSET Reg]
  /\ live_in \in [Block -> SUBSET Reg] /\ live_out \in [Block -> SUBSET Reg]
  /\ update \subseteq Block \X Reg

\* The least solution of the data-flow equations for r: the blocks that
\* belong to every set of blocks that contains those that use r and, with a
\* block, the predecessors of it that do not define r.
Closed(S, r) ==
  /\ \A b \in Block : r \in live_use[b] => b \in S
  /\ \A p \in Block, b \in S : <<p, b>> \in func.edge /\ r \notin def[p] => p \in S
LiveAtStart(b, r) == \A S \in SUBSET Block : Closed(S, r) => b \in S

\* When the work list is empty the analysis has the least solution: exactly
\* the registers that are live, none that only a cycle of blocks keeps alive.
LeastSolution ==
  Finished =>
    \A b \in Block, r \in Reg :
      /\ r \in live_in[b] <=> LiveAtStart(b, r)
      /\ r \in live_out[b]
           <=> \E s \in Block : <<b, s>> \in func.edge /\ LiveAtStart(s, r)

\* The same said of instructions: r is live at the start of b when some path
\* of the function reads it before it writes it.
UsesFirst(b, r) ==
  \E k \in DOMAIN func.insts[b] :
    /\ r \in func.insts[b][k].use
    /\ \A m \in 1 .. k - 1 : r \notin func.insts[b][m].def
WritesFirst(b, r) ==
  ~UsesFirst(b, r) /\ \E k \in DOMAIN func.insts[b] : r \in func.insts[b][k].def
ReadOnSomePath(b, r) ==
  \A S \in SUBSET Block :
    /\ \A x \in Block : UsesFirst(x, r) => x \in S
    /\ \A p \in Block, s \in S :
         <<p, s>> \in func.edge /\ ~WritesFirst(p, r) => p \in S
    => b \in S
LiveIsRead ==
  Finished => \A b \in Block, r \in Reg : r \in live_in[b] <=> ReadOnSomePath(b, r)

\* The work list runs dry: no pair enters it twice.
Terminates == <>Finished

-----------------------------------------------------------------------------
(* The inductive invariant: what is known so far is live, and what is live  *)
(* and not passed on yet is on the work list.                               *)

Sound ==
  /\ \A b \in Block : \A r \in live_in[b] : LiveAtStart(b, r)
  /\ \A b \in Block : \A r \in live_out[b] :
       \E s \in Block : <<b, s>> \in func.edge /\ r \in live_in[s]
PassedOn ==
  /\ \A b \in Block : live_use[b] \subseteq live_in[b]
  /\ \A u \in update : u[2] \in live_in[u[1]]
  /\ \A p, b \in Block : \A r \in live_in[b] :
       <<p, b>> \in func.edge /\ <<b, r>> \notin update => r \in live_out[p]
  /\ \A p \in Block : \A r \in live_out[p] : r \in def[p] \/ r \in live_in[p]
IInv == TypeOK /\ Sound /\ PassedOn
=============================================================================

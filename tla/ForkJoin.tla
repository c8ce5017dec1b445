------------------------------ MODULE ForkJoin ------------------------------
(* The contract between the code that loop_parallel generates              *)
(* (src/src/optimizer/loop.cpp) and the thread runtime that executes it    *)
(* (src/runtime/armv7/thread.S): a call of __create_threads starts every   *)
(* block of the loop, the blocks run in any order, and __join_threads lets *)
(* the caller go on only when all of them have run, each exactly once.     *)
EXTENDS Naturals

CONSTANT Block              \* the blocks a parallel loop is cut into

VARIABLES phase,            \* "seq" outside, "par" inside a parallel section
          ran               \* the blocks that have run in this section

vars == <<phase, ran>>

TypeOK == phase \in {"seq", "par"} /\ ran \subseteq Block

Init == phase = "seq" /\ ran = {}

Fork == /\ phase = "seq"
        /\ phase' = "par"
        /\ ran' = {}

Run(b) == /\ phase = "par"
          /\ b \notin ran
          /\ ran' = ran \cup {b}
          /\ UNCHANGED phase

Join == /\ phase = "par"
        /\ ran = Block
        /\ phase' = "seq"
        /\ UNCHANGED ran

Next == Fork \/ Join \/ \E b \in Block : Run(b)

Spec == Init /\ [][Next]_vars

\* Every section that is entered is left: each block gets to run, and then
\* the caller returns.
Fairness == WF_vars(Join) /\ \A b \in Block : WF_vars(Run(b))

FairSpec == Spec /\ Fairness
=============================================================================

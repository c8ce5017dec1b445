--------------------------- MODULE MCAllocatedCode ---------------------------
(* Small functions for AllocatedCode: three machine registers, of which a   *)
(* call clobbers 0 and 1, and three registers of the function.              *)
EXTENDS AllocatedCode

Ins(d, u) == [def |-> d, use |-> u]
CallInst == Ins({0, 1}, {0})
\* An instruction that writes one register and reads one other is a MoveReg,
\* a predicated one when it also reads the first.
Fn(edge, insts) ==
  [edge |-> edge, insts |-> insts,
   moves |-> [b \in Block |-> {i \in DOMAIN insts[b] :
                /\ Cardinality(insts[b][i].def) = 1
                /\ Cardinality(insts[b][i].use \ insts[b][i].def) = 1}]]

\* Every graph on three blocks in which the first can reach the others, by 2 or
\* directly, and blocks have at most two successors; a register that each of the
\* blocks reads, writes, does both to, or (2 and 3) leaves alone.
Edges == {e \in SUBSET (Block \X Block) :
            /\ <<1, 2>> \in e /\ (<<1, 3>> \in e \/ <<2, 3>> \in e)
            /\ \A b \in Block : Cardinality({x \in e : x[1] = b}) <= 2}
Entries == {<<Ins({}, {3})>>, <<Ins({3}, {})>>}
OneName == Entries \cup {<<>>, <<Ins({3}, {3})>>}

\* Two loops: moves, plain and predicated, calls, results that nobody reads.
Loops == {{<<1, 2>>, <<2, 2>>, <<2, 3>>}, {<<1, 2>>, <<2, 3>>, <<3, 2>>}}
Starts == {<<Ins({3}, {0}), Ins({4}, {1})>>, <<Ins({3}, {0}), CallInst, Ins({4}, {0})>>,
           <<Ins({3}, {}), Ins({4}, {3})>>, <<Ins({4}, {})>>}
Rounds == {<<Ins({5}, {3}), Ins({4}, {5, 4})>>, <<Ins({5}, {4}), Ins({4}, {3}), Ins({3}, {5})>>,
           <<Ins({3}, {3, 4}), Ins({5}, {})>>, <<Ins({0}, {3}), CallInst, Ins({4}, {0})>>,
           <<Ins({5}, {3}), Ins({5}, {4})>>}
Ends == {<<Ins({0}, {4}), Ins({}, {0})>>, <<Ins({0}, {3}), Ins({}, {0})>>,
         <<Ins({5}, {3}), Ins({}, {4, 5})>>, <<>>}
MCFuncs == {Fn(e, <<s, r, x>>) : e \in Edges, s \in Entries, r \in OneName, x \in OneName}
           \cup {Fn(e, <<s, r, x>>) : e \in Loops, s \in Starts, r \in Rounds, x \in Ends}
=============================================================================

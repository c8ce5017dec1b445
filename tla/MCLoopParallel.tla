--------------------------- MODULE MCLoopParallel ---------------------------
(* Loops for LoopParallel, over 4-bit registers. *)
EXTENDS LoopParallel

\* Index expressions: constants, strides 1 and 2 of i, j, mixed and symbolic
\* ones.
Terms1 == {Term(0, 0, 0, 0), Term(0, 0, 0, 1), Term(0, 0, 1, 0),
           Term(1, 0, 0, 0), Term(1, 0, 0, 1), Term(2, 0, 0, 0), Term(-1, 0, 0, 0),
           Term(1, 0, 1, 0), Term(0, 1, 0, 0), Term(0, 1, 1, 0), Term(1, 1, 0, 0)}
Terms2 == {Term(0, 0, 0, 0), Term(0, 0, 0, 1), Term(1, 0, 0, 0), Term(0, 1, 0, 0)}
Access1 == {<<t>> : t \in Terms1}
Access2 == Terms2 \X Terms2

LoopsOf(Bounds, Steps, Accesses) ==
  {[base |-> b[1], c |-> b[2], leq |-> q, jbase |-> 1, jstep |-> s, accbase |-> 3,
    s |-> 2, write |-> w, read |-> r] :
     b \in Bounds, q \in BOOLEAN, s \in Steps, w \in Accesses, r \in Accesses}

\* 0 to 7 iterations; 4 and more are enough for two threads, 5 for three.
Bounds == {<<-2, 3>>, <<0, 6>>, <<-1, 6>>, <<1, 2>>, <<2, -1>>}

MCLoops == LoopsOf(Bounds, {-1, 1}, Access1)
             \cup LoopsOf({<<-1, 6>>}, {1}, Access2)
\* Different cells hold different values, as far as 4 bits allow.
MCBefore(a) == Wrap(3 * a[1] + (IF Len(a) = 2 THEN 5 * a[2] ELSE 0) + 1)

\* j does not move: a loop-invariant step that is 0 at run time.
MCZeroStep == LoopsOf({<<0, 6>>}, {0}, Access1)
=============================================================================

------------------------------ MODULE MCArrayRW ------------------------------
(* Programs of three functions for ArrayRW: main calls the second, which    *)
(* calls the first and itself; the first calls itself.                      *)
EXTENDS ArrayRW, TLC

CONSTANTS a, b, g, l

Pass(x, y) == a :> x @@ b :> y
CallOf(f, A) == [callee : {f}, args : {Pass(x, y) : x \in A, y \in A}]
AtMostOne(S) == {{}} \cup {{x} : x \in S}

Program(loads1, stores1, rec1, stores2, call2, rec2, main) ==
  [loads |-> <<loads1, {}, {}>>, stores |-> <<stores1, stores2, {}>>,
   calls |-> <<rec1, call2 \cup rec2, main>>]

MCPrograms ==
  {Program(l1, s1, r1, s2, c2, r2, m) :
     l1 \in {{}, {a, b}}, s1 \in {{}, {a}, {b}, {g}},
     r1 \in AtMostOne(CallOf(1, {a, b, g})),
     s2 \in {{}, {b}}, c2 \in AtMostOne(CallOf(1, {a, b, g}) \cup CallOf(Lib, {a})),
     r2 \in AtMostOne(CallOf(2, {a, b})),
     m \in {{x} : x \in CallOf(2, {g, l})}}

\* A global that is passed to the function that writes it.
MCPassed ==
  {Program({a, b}, {a}, {}, {}, c, {}, {[callee |-> 2, args |-> Pass(g, l)]}) :
     c \in AtMostOne(CallOf(1, {a, b}))}

\* Recursion that passes its arguments on in another order.
MCRecursive ==
  {Program({}, s, r, {}, {}, {}, {[callee |-> 2, args |-> Pass(g, l)]}) :
     s \in {{}, {a}, {a, b}}, r \in AtMostOne(CallOf(1, {a, b}))}
=============================================================================

--------------------------- MODULE MCThreadRuntime ---------------------------
(* Instances of ThreadRuntime for TLC. *)
EXTENDS ThreadRuntime, TLC

CONSTANTS p0, p1, p2, p3, p4, c1, c2

\* One process more than the threads need, so that clone has a choice and a
\* process number that was reaped can come back.
MCPid == {p0, p1, p2, p3, p4}
MCSmallPid == {p0, p1, p2, p3}
MCCaller == {c1, c2}
MCSymmetry == Permutations(MCPid \ {p0}) \cup Permutations(MCCaller)
=============================================================================

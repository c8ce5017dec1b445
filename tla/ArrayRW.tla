------------------------------- MODULE ArrayRW -------------------------------
(* The interprocedural array analysis (src/src/optimizer/pass.cpp,         *)
(* get_array_rw): which arrays a function may read or write through its    *)
(* arguments and by name, and which of its arguments may be the same       *)
(* array.  Functions are visited callees first, then callers first.        *)
EXTENDS Integers, FiniteSets

CONSTANTS F,           \* functions are 1 .. F, ret[i] can only call ret[0..i]
          Arg,         \* the numbers of array arguments
          Global,      \* global arrays
          Local,       \* arrays of one function
          Programs     \* [stores, loads, calls] records

Fn == 1 .. F
Main == F
Lib == 0               \* getarray, which writes its argument
Obj == Arg \cup Global \cup Local

ASSUME ObjAssumption == Arg \cap (Global \cup Local) = {} /\ Global \cap Local = {}
ASSUME FAssumption == F \in Nat \ {0}
ASSUME FiniteAssumption == IsFiniteSet(Obj)

\* What a program can be.  main has no arguments.
IsProgram(p) ==
  /\ \A f \in Fn : /\ p.stores[f] \subseteq Obj /\ p.loads[f] \subseteq Obj
                   /\ \A x \in p.calls[f] : x.callee \in Lib .. f /\ x.args \in [Arg -> Obj]
  /\ \A x \in p.calls[Main] : \A k \in Arg : x.args[k] \notin Arg
ASSUME ProgramsAssumption == \A p \in Programs : IsProgram(p)

VARIABLES
  prog,      \* the program
  phase,     \* "scan", "rec", "maybe", "alias", "done"
  cur,       \* the function being looked at
  flag,      \* the flag of the loop over rec_calls
  todo,      \* what the loop over rec_calls has still to visit in this round
  used,      \* [Fn -> SUBSET Arg], the keys of arg_rw
  writes,    \* [Fn -> SUBSET Arg], those with may_write
  gused,     \* [Fn -> SUBSET Global], the keys of global_rw
  gwrites,   \* [Fn -> SUBSET Global], those with value 1
  maybe,     \* [Fn -> [Arg -> SUBSET (Global \cup Local)]]
  alias      \* [Fn -> SUBSET (Obj \X Obj)]

vars == <<prog, phase, cur, flag, todo, used, writes, gused, gwrites, maybe, alias>>

Calls(f) == {x \in prog.calls[f] : x.callee # Lib}
NormalCalls(f) == {x \in Calls(f) : x.callee # f}
RecCalls(f) == {x \in Calls(f) : x.callee = f}

\* A mutant of Passed: the argument numbers are the callee's.
PassedSame(x, S) == S

\* The arguments of f that call x of f passes on as an argument in S.
Passed(x, S) == {x.args[k] : k \in S} \cap Arg

Init ==
  /\ prog \in Programs
  /\ phase = "scan" /\ cur = 1 /\ flag = FALSE /\ todo = {}
  /\ used = [f \in Fn |-> {}] /\ writes = [f \in Fn |-> {}]
  /\ gused = [f \in Fn |-> {}] /\ gwrites = [f \in Fn |-> {}]
  /\ maybe = [f \in Fn |-> [k \in Arg |-> {}]]
  /\ alias = [f \in Fn |-> {}]

-----------------------------------------------------------------------------
(* Callees first: reads and writes *)

\* A mutant of Touched: an array that is only written is not used.
TouchedLoads(f) == prog.loads[f]
Touched(f) == prog.loads[f] \cup prog.stores[f]

\* The instructions of cur and its calls of other functions, which are done.
\* A library function has no arrays of its own, and its arguments count only
\* where it is called: it is in neither list of calls.
Scan ==
  /\ phase = "scan"
  /\ LET touched == Touched(cur)
         other == NormalCalls(cur)
     IN  /\ gused' = [gused EXCEPT ![cur] =
               (touched \cap Global) \cup UNION {gused[x.callee] : x \in other}]
         /\ gwrites' = [gwrites EXCEPT ![cur] =
               (prog.stores[cur] \cap Global) \cup UNION {gwrites[x.callee] : x \in other}]
         /\ used' = [used EXCEPT ![cur] =
               (touched \cap Arg) \cup UNION {Passed(x, used[x.callee]) : x \in other}]
         /\ writes' = [writes EXCEPT ![cur] =
               (prog.stores[cur] \cap Arg) \cup UNION {Passed(x, writes[x.callee]) : x \in other}]
  /\ phase' = "rec" /\ flag' = FALSE
  /\ todo' = RecCalls(cur) \X used'[cur]
  /\ UNCHANGED <<prog, cur, maybe, alias>>

\* One turn of the loop of update() for a recursive call.  The map it walks
\* is the map it inserts into: a key that is new may be met in this walk.
Update(x, k) ==
  LET new == {x.args[k]} \cap Arg
      written == IF k \in writes[cur] THEN new ELSE {}
  IN  /\ phase = "rec" /\ <<x, k>> \in todo
      /\ used' = [used EXCEPT ![cur] = @ \cup new]
      /\ writes' = [writes EXCEPT ![cur] = @ \cup written]
      /\ flag' = (flag \/ ~(new \subseteq used[cur]) \/ ~(written \subseteq writes[cur]))
      /\ \E met \in SUBSET ({x} \X (new \ used[cur])) :
           todo' = (todo \ {<<x, k>>}) \cup met
      /\ UNCHANGED <<prog, phase, cur, gused, gwrites, maybe, alias>>

\* for (bool flag = 0;;): flag is set to 0 before the first round only.
Again ==
  /\ phase = "rec" /\ todo = {} /\ flag
  /\ todo' = RecCalls(cur) \X used[cur]
  /\ UNCHANGED <<prog, phase, cur, flag, used, writes, gused, gwrites, maybe, alias>>

NextFunction ==
  /\ phase = "rec" /\ todo = {} /\ ~flag
  /\ IF cur = F THEN phase' = "maybe" /\ cur' = F
                ELSE phase' = "scan" /\ cur' = cur + 1
  /\ UNCHANGED <<prog, flag, todo, used, writes, gused, gwrites, maybe, alias>>

-----------------------------------------------------------------------------
(* Callers first: what the arguments may be *)

\* What call x of cur may pass as argument k.
Binding(x, k) == IF x.args[k] \in Arg THEN maybe[cur][x.args[k]] ELSE {x.args[k]}
Told(calls) ==
  [f \in Fn |-> [k \in Arg |->
     maybe[f][k] \cup
       IF k \in used[f] THEN UNION {Binding(x, k) : x \in {y \in calls : y.callee = f}}
       ELSE {}]]

\* A mutant: one round only.
MaybeOnce ==
  /\ phase = "maybe"
  /\ maybe' = Told(RecCalls(cur))
  /\ phase' = "alias"
  /\ UNCHANGED <<prog, cur, flag, todo, used, writes, gused, gwrites, alias>>

\* while (update(sf.rec_calls));
MaybeRound ==
  /\ phase = "maybe"
  /\ maybe' = Told(RecCalls(cur))
  /\ phase' = IF maybe' = maybe THEN "alias" ELSE "maybe"
  /\ UNCHANGED <<prog, cur, flag, todo, used, writes, gused, gwrites, alias>>

\* update(sf.normal_calls), and the aliases of cur, whose callers are done.
Alias ==
  /\ phase = "alias"
  /\ maybe' = Told(NormalCalls(cur))
  /\ LET m == maybe'[cur]
         withObject == {p \in used[cur] \X (Global \cup Local) : p[2] \in m[p[1]]}
         withArg == {p \in used[cur] \X used[cur] :
                      p[1] # p[2] /\ m[p[1]] \cap m[p[2]] # {}}
     IN  alias' = [alias EXCEPT ![cur] =
                     withObject \cup {<<p[2], p[1]>> : p \in withObject} \cup withArg]
  /\ IF cur = 1 THEN phase' = "done" /\ cur' = cur
                ELSE phase' = "maybe" /\ cur' = cur - 1
  /\ UNCHANGED <<prog, flag, todo, used, writes, gused, gwrites>>

Done == phase = "done" /\ UNCHANGED vars

Step == \/ Scan \/ Again \/ NextFunction \/ MaybeRound \/ Alias
        \/ \E p \in todo : Update(p[1], p[2])
Next == Step \/ Done

Spec == Init /\ [][Next]_vars
FairSpec == Spec /\ WF_vars(Step)

-----------------------------------------------------------------------------
(* What happens when the program runs *)

\* An activation is a function and the arrays its arguments are bound to.
\* Activations(a) are those that follow from a by any number of calls.
Bind(env, o) == IF o \in Arg THEN env[o] ELSE o
Callees(a) == {<<x.callee, [k \in Arg |-> Bind(a[2], x.args[k])]>> : x \in Calls(a[1])}
Closure[s \in SUBSET (Fn \X [Arg -> Obj])] ==
  LET t == s \cup UNION {Callees(b) : b \in s}
  IN  IF t = s THEN s ELSE Closure[t]
Activations(a) == Closure[{a}]

Unbound == [k \in Arg |-> k]
From(f) == Activations(<<f, Unbound>>)
Stored(a) == {Bind(a[2], o) : o \in prog.stores[a[1]]}
Loaded(a) == {Bind(a[2], o) : o \in prog.loads[a[1]]}
Filled(a) == UNION {{Bind(a[2], x.args[k]) : k \in Arg} :
                      x \in {y \in prog.calls[a[1]] : y.callee = Lib}}

TypeOK ==
  /\ cur \in Fn /\ flag \in BOOLEAN
  /\ phase \in {"scan", "rec", "maybe", "alias", "done"}
  /\ todo \subseteq RecCalls(cur) \X used[cur]
  /\ used \in [Fn -> SUBSET Arg] /\ gused \in [Fn -> SUBSET Global]
  /\ \A f \in Fn : writes[f] \subseteq used[f] /\ gwrites[f] \subseteq gused[f]
  /\ maybe \in [Fn -> [Arg -> SUBSET (Global \cup Local)]]
  /\ alias \in [Fn -> SUBSET (Obj \X Obj)]

\* pass.hpp:115, the side effects of a function: its summary names exactly
\* the arguments that loads and stores of it and of what it calls reach,
\* through any number of calls, and the globals they reach by name.
SummaryExact ==
  phase \in {"maybe", "alias", "done"} =>
    \A f \in Fn :
      LET all == From(f) IN
        /\ writes[f] = Arg \cap UNION {Stored(a) : a \in all}
        /\ used[f] = Arg \cap UNION {Stored(a) \cup Loaded(a) : a \in all}
        /\ gwrites[f] = Global \cap UNION {prog.stores[a[1]] : a \in all}

\* pass.hpp:116, "arg array alias analysis": when two arguments of a running
\* function are one array, or an argument is a global or local array of a
\* caller, the analysis says that they may be.
AliasFound ==
  phase = "done" =>
    \A a \in From(Main) :
      \A k \in used[a[1]] :
        a[1] # Main =>
          /\ {<<k, a[2][k]>>, <<a[2][k], k>>} \subseteq alias[a[1]]
          /\ \A j \in used[a[1]] \ {k} : a[2][j] = a[2][k] => <<k, j>> \in alias[a[1]]

\* array_ssa.cpp:70-74 asserts that a store is never to an array it has
\* marked is_const, which is a global that no function is said to write
\* (array_ssa.cpp:9-21): nothing that runs writes one.
IsConst(m) == m \in Global /\ \A f \in Fn : m \notin gwrites[f]
ConstNeverWritten ==
  phase = "done" =>
    \A a \in From(Main) : \A m \in Stored(a) \cup Filled(a) : ~IsConst(m)

\* The analysis comes to an end, so that the compiler writes its output.
Terminates == <>(phase = "done")
=============================================================================

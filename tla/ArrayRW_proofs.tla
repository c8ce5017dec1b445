--------------------------- MODULE ArrayRW_proofs ---------------------------
(* Machine-checked proofs about ArrayRW, for every number of functions and   *)
(* arrays and every program.                                                 *)
EXTENDS ArrayRW, Induction

Env == [Arg -> Obj]
Act == Fn \X Env

-----------------------------------------------------------------------------
(* Programs *)

LEMMA ProgramFacts ==
  ASSUME prog \in Programs, NEW f \in Fn
  PROVE  /\ prog.stores[f] \subseteq Obj /\ prog.loads[f] \subseteq Obj
         /\ \A x \in Calls(f) : /\ x.callee \in Fn /\ x.callee <= f
                                /\ x.args \in [Arg -> Obj]
         /\ \A x \in Calls(Main) : \A k \in Arg : x.args[k] \notin Arg
         /\ Main \in Fn
<1>1. IsProgram(prog)
  BY ProgramsAssumption
<1>2. \A x \in prog.calls[f] : x.callee \in Lib .. f /\ x.args \in [Arg -> Obj]
  BY <1>1 DEF IsProgram
<1>3. \A x \in Calls(f) : x.callee \in Fn /\ x.callee <= f /\ x.args \in [Arg -> Obj]
  <2> TAKE x \in Calls(f)
  <2>1. x.callee \in 0 .. f /\ x.callee # 0 /\ x.args \in [Arg -> Obj]
    BY <1>2 DEF Calls, Lib
  <2>2. QED
    BY <2>1, FAssumption DEF Fn
<1>4. Main \in Fn
  BY FAssumption DEF Main, Fn
<1>5. QED
  BY <1>1, <1>3, <1>4 DEF IsProgram, Calls

LEMMA CallsBelow ==
  ASSUME prog \in Programs, NEW f \in Fn, NEW c \in Fn, f < c
  PROVE  \A x \in Calls(f) : x.callee \in Fn \ {c}
<1> TAKE x \in Calls(f)
<1>1. x.callee \in Fn /\ x.callee <= f
  BY ProgramFacts
<1>2. f \in Int /\ c \in Int /\ x.callee \in Int
  BY <1>1, FAssumption DEF Fn
<1>3. x.callee # c
  BY <1>1, <1>2
<1>4. QED
  BY <1>1, <1>3

LEMMA BindType ==
  ASSUME NEW env \in Env, NEW o \in Obj
  PROVE  Bind(env, o) \in Obj
BY DEF Bind, Env

LEMMA CalleesType ==
  ASSUME prog \in Programs, NEW a \in Act
  PROVE  Callees(a) \subseteq Act
<1> SUFFICES ASSUME NEW x \in Calls(a[1])
             PROVE  <<x.callee, [k \in Arg |-> Bind(a[2], x.args[k])]>> \in Act
  BY DEF Callees
<1>1. a[1] \in Fn /\ a[2] \in Env
  BY DEF Act
<1>2. x.callee \in Fn /\ x.args \in [Arg -> Obj]
  BY <1>1, ProgramFacts
<1>3. [k \in Arg |-> Bind(a[2], x.args[k])] \in Env
  BY <1>1, <1>2, BindType DEF Env
<1>4. QED
  BY <1>2, <1>3 DEF Act

-----------------------------------------------------------------------------
(* Activations: the least set that has one and what its calls lead to *)

Closed(S) == \A a \in S : Callees(a) \subseteq S
Further(s) == s \cup UNION {Callees(b) : b \in s}
Least(s) == {b \in Act : \A S \in SUBSET Act : s \subseteq S /\ Closed(S) => b \in S}

LEMMA ActFinite == IsFiniteSet(Act)
<1>1. IsFiniteSet(Fn)
  BY FAssumption, FS_Interval DEF Fn
<1>2. IsFiniteSet(Arg)
  BY FiniteAssumption, FS_Subset DEF Obj
<1>3. IsFiniteSet(Env)
  <2> DEFINE graphs == SUBSET (Arg \X Obj)
             graph == [e \in Env |-> {<<k, e[k]>> : k \in Arg}]
  <2>1. IsFiniteSet(graphs)
    BY <1>2, FiniteAssumption, FS_Product, FS_SUBSET
  <2>2. graph \in [Env -> graphs]
    BY DEF Env
  <2>3. ASSUME NEW d \in Env, NEW e \in Env, graph[d] = graph[e]
        PROVE  d = e
    <3>1. \A k \in Arg : d[k] = e[k]
      <4> TAKE k \in Arg
      <4>1. <<k, d[k]>> \in graph[e]
        BY <2>3
      <4>2. QED
        BY <4>1
    <3>2. QED
      BY <3>1 DEF Env
  <2> HIDE DEF graph, graphs
  <2>4. graph \in Injection(Env, graphs)
    BY <2>2, <2>3 DEF Injection, IsInjective
  <2>5. QED
    BY <2>1, <2>4, FS_Injection DEF ExistsInjection
<1>4. QED
  BY <1>1, <1>3, FS_Product DEF Act

\* Least solves the recursion of Closure.
LEMMA LeastSolves ==
  ASSUME prog \in Programs, NEW s \in SUBSET Act
  PROVE  /\ Further(s) \in SUBSET Act
         /\ Least(s) = IF Further(s) = s THEN s ELSE Least(Further(s))
<1>1. Further(s) \in SUBSET Act
  BY CalleesType DEF Further
<1>2. CASE Further(s) = s
  <2>1. Closed(s)
    BY <1>2 DEF Further, Closed
  <2>2. QED
    BY <1>1, <1>2, <2>1 DEF Least
<1>3. CASE Further(s) # s
  <2>1. ASSUME NEW S \in SUBSET Act, Closed(S)
        PROVE  s \subseteq S <=> Further(s) \subseteq S
    BY <2>1 DEF Further, Closed
  <2>2. Least(s) = Least(Further(s))
    BY <2>1 DEF Least
  <2>3. QED
    BY <1>1, <1>3, <2>2
<1>4. QED
  BY <1>2, <1>3

LEMMA ClosureEquation ==
  ASSUME prog \in Programs
  PROVE  \A s \in SUBSET Act : Closure[s] = IF Further(s) = s THEN s ELSE Closure[Further(s)]
<1> DEFINE L == [s \in SUBSET Act |-> Least(s)]
<1>1. L = [s \in SUBSET Act |-> IF Further(s) = s THEN s ELSE L[Further(s)]]
  BY LeastSolves
<1> HIDE DEF L
<1>2. Closure = [s \in SUBSET Act |-> IF Further(s) = s THEN s ELSE Closure[Further(s)]]
  BY <1>1 DEF Closure, Further, Act, Env
<1>3. QED
  BY <1>2

LEMMA ClosureIsLeast ==
  ASSUME prog \in Programs, NEW s \in SUBSET Act
  PROVE  Closure[s] = Least(s)
<1> DEFINE Bad == {r \in SUBSET Act : Closure[r] # Least(r)}
           T == {Act \ r : r \in Bad}
<1>1. SUFFICES ASSUME Bad # {} PROVE FALSE
  OBVIOUS
<1>2. T \in SUBSET SUBSET Act /\ T # {}
  BY <1>1
<1>3. PICK x \in T : \A y \in T : y \subseteq x => y = x
  <2> HIDE DEF T
  <2>1. QED
    BY <1>2, ActFinite, SubsetMin
<1>4. PICK r \in Bad : x = Act \ r
  OBVIOUS
<1> DEFINE t == Further(r)
<1>5. r \in SUBSET Act /\ t \in SUBSET Act /\ r \subseteq t
  BY LeastSolves DEF Further
<1>6. CASE t = r
  BY <1>4, <1>5, <1>6, ClosureEquation, LeastSolves
<1>7. CASE t # r
  <2>1. t \notin Bad
    <3>1. SUFFICES ASSUME t \in Bad PROVE FALSE
      OBVIOUS
    <3>2. Act \ t \in T
      BY <3>1
    <3>3. Act \ t \subseteq x /\ Act \ t # x
      BY <1>4, <1>5, <1>7
    <3>4. QED
      BY <1>3, <3>2, <3>3
  <2>2. Closure[t] = Least(t)
    BY <1>5, <2>1
  <2>3. Closure[r] = Closure[t] /\ Least(r) = Least(t)
    BY <1>5, <1>7, ClosureEquation, LeastSolves
  <2>4. QED
    BY <1>4, <2>2, <2>3
<1>8. QED
  BY <1>6, <1>7

\* The activations that follow from a: a, and what they call, and nothing else.
LEMMA ActivationsLeast ==
  ASSUME prog \in Programs, NEW a \in Act
  PROVE  /\ Activations(a) \subseteq Act /\ a \in Activations(a) /\ Closed(Activations(a))
         /\ \A S \in SUBSET Act : a \in S /\ Closed(S) => Activations(a) \subseteq S
<1>1. Activations(a) = Least({a})
  BY ClosureIsLeast DEF Activations
<1>2. Closed(Least({a}))
  <2> SUFFICES ASSUME NEW b \in Least({a}), NEW c \in Callees(b) PROVE c \in Least({a})
    BY DEF Closed
  <2>1. b \in Act /\ c \in Act
    BY CalleesType DEF Least
  <2>2. QED
    BY <2>1 DEF Least, Closed
<1>3. QED
  BY <1>1, <1>2 DEF Least

-----------------------------------------------------------------------------
(* What an activation leads to, seen from its caller *)

Compose(env, inner) == [k \in Arg |-> Bind(env, inner[k])]

LEMMA UnboundFacts ==
  /\ Unbound \in Env
  /\ \A o \in Obj : Bind(Unbound, o) = o
  /\ \A f \in Fn : <<f, Unbound>> \in Act
BY DEF Unbound, Env, Bind, Obj, Act

LEMMA ComposeFacts ==
  ASSUME NEW env \in Env, NEW inner \in Env
  PROVE  /\ Compose(env, inner) \in Env
         /\ \A o \in Obj : Bind(Compose(env, inner), o) = Bind(env, Bind(inner, o))
<1>1. \A k \in Arg : inner[k] \in Obj /\ Bind(env, inner[k]) \in Obj
  BY BindType DEF Env
<1>2. QED
  BY <1>1 DEF Compose, Env, Bind

LEMMA FromFacts ==
  ASSUME prog \in Programs, NEW f \in Fn
  PROVE  /\ From(f) \subseteq Act /\ <<f, Unbound>> \in From(f) /\ Closed(From(f))
         /\ \A S \in SUBSET Act : <<f, Unbound>> \in S /\ Closed(S) => From(f) \subseteq S
BY ActivationsLeast, UnboundFacts DEF From

\* What a callee leads to, with its arguments bound by the call, is what its
\* caller leads to.
LEMMA ThroughCall ==
  ASSUME prog \in Programs, NEW f \in Fn, NEW x \in Calls(f),
         NEW a \in From(x.callee)
  PROVE  <<a[1], Compose(x.args, a[2])>> \in From(f)
<1>1. x.callee \in Fn /\ x.args \in Env
  BY ProgramFacts DEF Env
<1> DEFINE g == x.callee
           env == x.args
           S == {b \in Act : <<b[1], Compose(env, b[2])>> \in From(f)}
<1>2. <<g, Unbound>> \in S
  <2>1. <<g, Compose(env, Unbound)>> \in Callees(<<f, Unbound>>)
    <3>1. [k \in Arg |-> Bind(Unbound, x.args[k])] = env
      BY <1>1, UnboundFacts DEF Env
    <3>2. Compose(env, Unbound) = env
      BY <1>1 DEF Compose, Unbound, Bind, Env
    <3>3. QED
      BY <3>1, <3>2 DEF Callees
  <2>2. <<g, Compose(env, Unbound)>> \in From(f)
    BY <2>1, FromFacts DEF Closed
  <2>3. QED
    BY <1>1, <2>2, UnboundFacts
<1>3. Closed(S)
  <2> SUFFICES ASSUME NEW b \in S, NEW c \in Callees(b) PROVE c \in S
    BY DEF Closed
  <2>1. b \in Act /\ c \in Act /\ b[1] \in Fn /\ b[2] \in Env
    BY CalleesType DEF Act
  <2>2. PICK y \in Calls(b[1]) : c = <<y.callee, [k \in Arg |-> Bind(b[2], y.args[k])]>>
    BY DEF Callees
  <2>3. \A k \in Arg : y.args[k] \in Obj
    BY <2>1, ProgramFacts
  <2> DEFINE outer == Compose(env, b[2])
  <2>4. <<y.callee, [k \in Arg |-> Bind(outer, y.args[k])]>> \in From(f)
    <3>1. <<b[1], outer>> \in From(f)
      OBVIOUS
    <3>2. <<y.callee, [k \in Arg |-> Bind(outer, y.args[k])]>> \in Callees(<<b[1], outer>>)
      BY DEF Callees
    <3>3. QED
      BY <3>1, <3>2, FromFacts DEF Closed
  <2>5. [k \in Arg |-> Bind(outer, y.args[k])] = Compose(env, c[2])
    <3>1. \A k \in Arg : Bind(outer, y.args[k]) = Bind(env, Bind(b[2], y.args[k]))
      BY <1>1, <2>1, <2>3, ComposeFacts
    <3>2. \A k \in Arg : c[2][k] = Bind(b[2], y.args[k])
      BY <2>2
    <3>3. QED
      BY <3>1, <3>2 DEF Compose
  <2>6. QED
    BY <2>1, <2>2, <2>4, <2>5
<1>4. From(g) \subseteq S
  <2>1. S \in SUBSET Act
    OBVIOUS
  <2> HIDE DEF S
  <2>2. QED
    BY <1>1, <1>2, <1>3, <2>1, FromFacts
<1>5. QED
  BY <1>4

-----------------------------------------------------------------------------
(* Types *)

Types ==
  /\ prog \in Programs /\ TypeOK
  /\ writes \in [Fn -> SUBSET Arg] /\ gwrites \in [Fn -> SUBSET Global]
  /\ phase # "rec" => todo = {}

LEMMA TypesInit == Init => Types
<1> SUFFICES ASSUME Init PROVE Types
  OBVIOUS
<1>1. 1 \in Fn
  BY FAssumption DEF Fn
<1>2. \A f \in Fn : writes[f] \subseteq used[f] /\ gwrites[f] \subseteq gused[f]
  BY DEF Init
<1>3. QED
  BY <1>1, <1>2 DEF Init, Types, TypeOK

LEMMA PassedMonotonic ==
  ASSUME NEW x, NEW S, NEW T, S \subseteq T
  PROVE  Passed(x, S) \subseteq Passed(x, T) /\ Passed(x, T) \subseteq Arg
BY DEF Passed

LEMMA ToldType ==
  ASSUME Types, NEW calls \in SUBSET Calls(cur)
  PROVE  /\ Told(calls) \in [Fn -> [Arg -> SUBSET (Global \cup Local)]]
         /\ \A f \in Fn : \A k \in Arg : maybe[f][k] \subseteq Told(calls)[f][k]
         /\ \A x \in calls : \A k \in used[x.callee] \cap Arg :
              Binding(x, k) \subseteq Told(calls)[x.callee][k]
         /\ \A f \in Fn : (\A x \in calls : x.callee # f) => Told(calls)[f] = maybe[f]
<1>1. cur \in Fn /\ maybe \in [Fn -> [Arg -> SUBSET (Global \cup Local)]]
  BY DEF Types, TypeOK
<1>2. \A x \in calls : x.callee \in Fn /\ \A k \in Arg : x.args[k] \in Obj
  BY <1>1, ProgramFacts DEF Types
<1>3. \A x \in calls : \A k \in Arg : Binding(x, k) \subseteq Global \cup Local
  BY <1>1, <1>2 DEF Binding, Obj
<1>4. QED
  BY <1>1, <1>2, <1>3 DEF Told

LEMMA TypesNext == Types /\ [Next]_vars => Types'
<1> SUFFICES ASSUME Types, [Next]_vars PROVE Types'
  OBVIOUS
<1>1. prog \in Programs /\ TypeOK /\ cur \in Fn /\ F \in Nat /\ Fn = 1 .. F
  BY FAssumption DEF Types, TypeOK, Fn
<1>2. \A x \in NormalCalls(cur) : x.callee \in Fn
  BY <1>1, ProgramFacts DEF NormalCalls
<1>3. CASE Scan
  <2> DEFINE other == NormalCalls(cur)
             u == (Touched(cur) \cap Arg) \cup UNION {Passed(x, used[x.callee]) : x \in other}
             w == (prog.stores[cur] \cap Arg) \cup UNION {Passed(x, writes[x.callee]) : x \in other}
             gu == (Touched(cur) \cap Global) \cup UNION {gused[x.callee] : x \in other}
             gw == (prog.stores[cur] \cap Global) \cup UNION {gwrites[x.callee] : x \in other}
  <2>1. u \subseteq Arg /\ w \subseteq u
    BY <1>1, <1>2, PassedMonotonic DEF TypeOK, Touched
  <2>2. gu \subseteq Global /\ gw \subseteq gu
    BY <1>1, <1>2 DEF TypeOK, Touched
  <2>3. /\ used' = [used EXCEPT ![cur] = u] /\ writes' = [writes EXCEPT ![cur] = w]
        /\ gused' = [gused EXCEPT ![cur] = gu] /\ gwrites' = [gwrites EXCEPT ![cur] = gw]
    BY <1>3 DEF Scan
  <2> HIDE DEF u, w, gu, gw
  <2>4. /\ used' \in [Fn -> SUBSET Arg] /\ gused' \in [Fn -> SUBSET Global]
        /\ writes' \in [Fn -> SUBSET Arg] /\ gwrites' \in [Fn -> SUBSET Global]
        /\ \A f \in Fn : writes'[f] \subseteq used'[f] /\ gwrites'[f] \subseteq gused'[f]
    BY <1>1, <2>1, <2>2, <2>3 DEF Types, TypeOK
  <2>5. QED
    BY <1>1, <1>3, <2>4 DEF Scan, Types, TypeOK, Calls, RecCalls
<1>4. ASSUME NEW p \in todo, Update(p[1], p[2]) PROVE Types'
  <2>1. /\ used' \in [Fn -> SUBSET Arg] /\ writes' \in [Fn -> SUBSET Arg]
        /\ \A f \in Fn : writes'[f] \subseteq used'[f] /\ used[f] \subseteq used'[f]
    BY <1>1, <1>4 DEF Update, Types, TypeOK
  <2>2. todo' \subseteq RecCalls(cur) \X used'[cur]
    BY <1>1, <1>4, <2>1 DEF Update, Types, TypeOK
  <2>3. QED
    BY <1>1, <1>4, <2>1, <2>2 DEF Update, Types, TypeOK, RecCalls, Calls
<1>5. CASE Again
  BY <1>1, <1>5 DEF Again, Types, TypeOK, RecCalls, Calls
<1>6. CASE NextFunction
  <2>1. cur' \in Fn
    BY <1>1, <1>6 DEF NextFunction
  <2>2. QED
    BY <1>1, <1>6, <2>1 DEF NextFunction, Types, TypeOK
<1>7. CASE MaybeRound
  <2>1. maybe' \in [Fn -> [Arg -> SUBSET (Global \cup Local)]]
    BY <1>7, ToldType DEF MaybeRound, RecCalls
  <2>2. QED
    BY <1>1, <1>7, <2>1 DEF MaybeRound, Types, TypeOK
<1>8. CASE Alias
  <2>1. maybe' \in [Fn -> [Arg -> SUBSET (Global \cup Local)]]
    BY <1>8, ToldType DEF Alias, NormalCalls
  <2>2. alias' \in [Fn -> SUBSET (Obj \X Obj)]
    BY <1>1, <1>8, <2>1 DEF Alias, TypeOK, Obj
  <2>3. cur' \in Fn
    BY <1>1, <1>8 DEF Alias
  <2>4. QED
    BY <1>1, <1>8, <2>1, <2>2, <2>3 DEF Alias, Types, TypeOK
<1>9. CASE UNCHANGED vars
  BY <1>1, <1>9 DEF vars, Types, TypeOK, RecCalls, Calls
<1>10. QED
  BY <1>3, <1>4, <1>5, <1>6, <1>7, <1>8, <1>9 DEF Next, Step, Done

\* A summary names arguments and globals, what is written is used, and the
\* loop over rec_calls visits keys that the map has.
THEOREM TypeCorrect == Spec => []TypeOK
<1>1. Types => TypeOK
  BY DEF Types
<1>2. QED
  BY <1>1, TypesInit, TypesNext, PTL DEF Spec

-----------------------------------------------------------------------------
(* Summaries.  A summary is truthful when loads and stores reach what it    *)
(* names.  It is closed when it has what the function itself touches and    *)
(* what the summaries of its callees say of the arguments passed on.        *)

WrittenBy(f) == Arg \cap UNION {Stored(a) : a \in From(f)}
UsedBy(f) == Arg \cap UNION {Stored(a) \cup Loaded(a) : a \in From(f)}
GlobalsWrittenBy(f) == Global \cap UNION {prog.stores[a[1]] : a \in From(f)}

Truthful(f) == /\ writes[f] \subseteq WrittenBy(f) /\ used[f] \subseteq UsedBy(f)
               /\ gwrites[f] \subseteq GlobalsWrittenBy(f)
Own(f) == /\ prog.stores[f] \cap Arg \subseteq writes[f]
          /\ (prog.stores[f] \cup prog.loads[f]) \cap Arg \subseteq used[f]
          /\ prog.stores[f] \cap Global \subseteq gwrites[f]
Covers(f, x) == /\ Passed(x, used[x.callee]) \subseteq used[f]
                /\ Passed(x, writes[x.callee]) \subseteq writes[f]
                /\ gwrites[x.callee] \subseteq gwrites[f]
Summarised(f) == Own(f) /\ \A x \in Calls(f) : Covers(f, x)

\* What Update would do for k has been done.
Updated(x, k) == /\ {x.args[k]} \cap Arg \subseteq used[cur]
                 /\ k \in writes[cur] => {x.args[k]} \cap Arg \subseteq writes[cur]

Later == phase \in {"maybe", "alias", "done"}

\* The loop over rec_calls may stop: a pair that is neither still to be
\* visited nor satisfied has set the flag, which nothing clears.
SummaryInv ==
  /\ \A f \in Fn : Truthful(f)
  /\ \A f \in Fn : f < cur \/ Later => Summarised(f)
  /\ phase = "rec" =>
       /\ Own(cur) /\ \A x \in NormalCalls(cur) : Covers(cur, x)
       /\ flag \/ \A x \in RecCalls(cur), k \in used[cur] : <<x, k>> \in todo \/ Updated(x, k)

LEMMA FrozenProgram ==
  ASSUME prog' = prog
  PROVE  /\ \A f : From(f)' = From(f) /\ Calls(f)' = Calls(f)
         /\ \A f : /\ WrittenBy(f)' = WrittenBy(f) /\ UsedBy(f)' = UsedBy(f)
                   /\ GlobalsWrittenBy(f)' = GlobalsWrittenBy(f)
<1>1. Closure' = Closure
  BY DEF Closure, Callees, Calls, Bind
<1>2. \A f : From(f)' = From(f) /\ Calls(f)' = Calls(f)
  BY <1>1 DEF From, Activations, Unbound, Calls
<1>3. \A a : Stored(a)' = Stored(a) /\ Loaded(a)' = Loaded(a)
  BY DEF Stored, Loaded, Bind
<1>4. QED
  BY <1>2, <1>3 DEF WrittenBy, UsedBy, GlobalsWrittenBy

\* A function reaches what it touches itself.
LEMMA OwnReached ==
  ASSUME prog \in Programs, NEW f \in Fn
  PROVE  /\ prog.stores[f] \cap Arg \subseteq WrittenBy(f)
         /\ (prog.stores[f] \cup prog.loads[f]) \cap Arg \subseteq UsedBy(f)
         /\ prog.stores[f] \cap Global \subseteq GlobalsWrittenBy(f)
<1>1. <<f, Unbound>> \in From(f)
  BY FromFacts
<1>2. \A o \in Arg : Bind(Unbound, o) = o
  BY UnboundFacts DEF Obj
<1>3. /\ prog.stores[f] \cap Arg \subseteq Stored(<<f, Unbound>>)
      /\ prog.loads[f] \cap Arg \subseteq Loaded(<<f, Unbound>>)
  BY <1>2 DEF Stored, Loaded
<1>4. QED
  BY <1>1, <1>3 DEF WrittenBy, UsedBy, GlobalsWrittenBy

\* And what its callees reach through the arguments it passes.
LEMMA CalleeReached ==
  ASSUME prog \in Programs, NEW f \in Fn, NEW x \in Calls(f)
  PROVE  /\ Passed(x, WrittenBy(x.callee)) \subseteq WrittenBy(f)
         /\ Passed(x, UsedBy(x.callee)) \subseteq UsedBy(f)
         /\ GlobalsWrittenBy(x.callee) \subseteq GlobalsWrittenBy(f)
<1>1. x.callee \in Fn /\ x.args \in Env
  BY ProgramFacts DEF Env
<1> DEFINE g == x.callee
           up(a) == <<a[1], Compose(x.args, a[2])>>
<1>2. \A a \in From(g) : up(a) \in From(f) /\ a[1] \in Fn /\ a[2] \in Env
  BY <1>1, ThroughCall, FromFacts DEF Act
<1>3. ASSUME NEW a \in From(g), NEW o \in Obj, Bind(a[2], o) \in Arg
      PROVE  Bind(up(a)[2], o) = x.args[Bind(a[2], o)]
  <2>1. Bind(up(a)[2], o) = Bind(x.args, Bind(a[2], o))
    BY <1>1, <1>2, ComposeFacts
  <2>2. QED
    BY <1>3, <2>1 DEF Bind
<1> HIDE DEF g
<1>4. ASSUME NEW a \in From(g), NEW k \in Arg
      PROVE  /\ k \in Stored(a) => x.args[k] \in Stored(up(a))
             /\ k \in Loaded(a) => x.args[k] \in Loaded(up(a))
  <2>1. prog.stores[a[1]] \subseteq Obj /\ prog.loads[a[1]] \subseteq Obj
    BY <1>2, ProgramFacts
  <2>2. QED
    BY <1>3, <2>1 DEF Stored, Loaded
<1>5. ASSUME NEW k \in WrittenBy(g), x.args[k] \in Arg
      PROVE  x.args[k] \in WrittenBy(f)
  <2>1. PICK a \in From(g) : k \in Stored(a)
    BY DEF WrittenBy
  <2>2. k \in Arg
    BY DEF WrittenBy
  <2>3. x.args[k] \in Stored(up(a)) /\ up(a) \in From(f)
    BY <1>2, <1>4, <2>1, <2>2
  <2> HIDE DEF up
  <2>4. QED
    BY <1>5, <2>3 DEF WrittenBy
<1>6. ASSUME NEW k \in UsedBy(g), x.args[k] \in Arg
      PROVE  x.args[k] \in UsedBy(f)
  <2>1. PICK a \in From(g) : k \in Stored(a) \cup Loaded(a)
    BY DEF UsedBy
  <2>2. k \in Arg
    BY DEF UsedBy
  <2>3. x.args[k] \in Stored(up(a)) \cup Loaded(up(a)) /\ up(a) \in From(f)
    BY <1>2, <1>4, <2>1, <2>2
  <2> HIDE DEF up
  <2>4. QED
    BY <1>6, <2>3 DEF UsedBy
<1>7. GlobalsWrittenBy(g) \subseteq GlobalsWrittenBy(f)
  <2>1. \A a \in From(g) : up(a) \in From(f) /\ up(a)[1] = a[1]
    BY <1>2
  <2> HIDE DEF up
  <2>2. QED
    BY <2>1 DEF GlobalsWrittenBy
<1>8. QED
  BY <1>5, <1>6, <1>7 DEF Passed, g

LEMMA SummaryInit == Init => SummaryInv
<1> SUFFICES ASSUME Init PROVE SummaryInv
  OBVIOUS
<1>1. \A f \in Fn : ~(f < cur) /\ Truthful(f)
  BY FAssumption DEF Init, Fn, Truthful
<1>2. QED
  BY <1>1 DEF Init, SummaryInv, Later

LEMMA ScanSummary ==
  ASSUME Types, SummaryInv, Scan
  PROVE  SummaryInv'
<1>1. /\ prog \in Programs /\ cur \in Fn /\ prog' = prog /\ cur' = cur
      /\ phase = "scan" /\ phase' = "rec" /\ Fn \subseteq Int
  BY FAssumption DEF Scan, Types, TypeOK, Fn
<1>2. /\ \A f \in Fn \ {cur} : /\ used'[f] = used[f] /\ writes'[f] = writes[f]
                              /\ gwrites'[f] = gwrites[f]
      /\ used'[cur] = ((prog.loads[cur] \cup prog.stores[cur]) \cap Arg)
                        \cup UNION {Passed(x, used[x.callee]) : x \in NormalCalls(cur)}
      /\ writes'[cur] = (prog.stores[cur] \cap Arg)
                          \cup UNION {Passed(x, writes[x.callee]) : x \in NormalCalls(cur)}
      /\ gwrites'[cur] = (prog.stores[cur] \cap Global)
                           \cup UNION {gwrites[x.callee] : x \in NormalCalls(cur)}
  BY <1>1 DEF Scan, Types, TypeOK, Touched
<1>3. \A x \in NormalCalls(cur) : x \in Calls(cur) /\ x.callee \in Fn \ {cur}
  BY <1>1, ProgramFacts DEF NormalCalls
<1>4. ASSUME NEW f \in Fn PROVE Truthful(f)'
  <2>1. CASE f = cur
    <3>1. \A x \in NormalCalls(cur) :
            /\ used[x.callee] \subseteq UsedBy(x.callee)
            /\ writes[x.callee] \subseteq WrittenBy(x.callee)
            /\ gwrites[x.callee] \subseteq GlobalsWrittenBy(x.callee)
      BY <1>3 DEF SummaryInv, Truthful
    <3>2. \A x \in NormalCalls(cur) :
            /\ Passed(x, used[x.callee]) \subseteq UsedBy(cur)
            /\ Passed(x, writes[x.callee]) \subseteq WrittenBy(cur)
            /\ gwrites[x.callee] \subseteq GlobalsWrittenBy(cur)
      <4> TAKE x \in NormalCalls(cur)
      <4>1. /\ Passed(x, UsedBy(x.callee)) \subseteq UsedBy(cur)
            /\ Passed(x, WrittenBy(x.callee)) \subseteq WrittenBy(cur)
            /\ GlobalsWrittenBy(x.callee) \subseteq GlobalsWrittenBy(cur)
        BY <1>1, <1>3, CalleeReached
      <4>2. QED
        BY <3>1, <4>1 DEF Passed
    <3>3. /\ used'[cur] \subseteq UsedBy(cur) /\ writes'[cur] \subseteq WrittenBy(cur)
          /\ gwrites'[cur] \subseteq GlobalsWrittenBy(cur)
      BY <1>1, <1>2, <3>2, OwnReached
    <3>4. QED
      BY <1>1, <2>1, <3>3, FrozenProgram DEF Truthful
  <2>2. CASE f # cur
    BY <1>1, <1>2, <2>2, FrozenProgram DEF SummaryInv, Truthful
  <2>3. QED
    BY <2>1, <2>2
<1>5. ASSUME NEW f \in Fn, f < cur PROVE Summarised(f)'
  <2>1. Summarised(f) /\ f # cur
    BY <1>1, <1>5 DEF SummaryInv
  <2>2. \A x \in Calls(f) : x.callee \in Fn \ {cur}
    BY <1>1, <1>5, CallsBelow
  <2>3. QED
    BY <1>1, <1>2, <1>5, <2>1, <2>2, FrozenProgram DEF Summarised, Own, Covers
<1>6. Own(cur)'
  BY <1>1, <1>2 DEF Own
<1>7. \A x \in NormalCalls(cur) : Covers(cur, x)'
  BY <1>1, <1>2, <1>3 DEF Covers
<1>8. \A x \in RecCalls(cur)', k \in used'[cur] : <<x, k>> \in todo'
  BY <1>1 DEF Scan, RecCalls, Calls
<1>9. NormalCalls(cur)' = NormalCalls(cur)
  BY <1>1 DEF NormalCalls, Calls
<1>10. QED
  BY <1>1, <1>4, <1>5, <1>6, <1>7, <1>8, <1>9 DEF SummaryInv, Later

LEMMA UpdateSummary ==
  ASSUME Types, SummaryInv, NEW x \in RecCalls(cur), NEW k \in used[cur], Update(x, k)
  PROVE  SummaryInv'
<1> DEFINE new == {x.args[k]} \cap Arg
           written == IF k \in writes[cur] THEN new ELSE {}
<1>1. /\ prog \in Programs /\ cur \in Fn /\ prog' = prog /\ cur' = cur /\ gwrites' = gwrites
      /\ phase = "rec" /\ phase' = "rec" /\ Fn \subseteq Int
  BY FAssumption DEF Update, Types, TypeOK, Fn
<1>2. /\ \A f \in Fn \ {cur} : used'[f] = used[f] /\ writes'[f] = writes[f]
      /\ used'[cur] = used[cur] \cup new /\ writes'[cur] = writes[cur] \cup written
  BY <1>1 DEF Update, Types, TypeOK
<1>3. flag' = (flag \/ ~(new \subseteq used[cur]) \/ ~(written \subseteq writes[cur]))
  BY DEF Update
<1>4. \A p \in todo : p # <<x, k>> => p \in todo'
  BY DEF Update
<1>5. x \in Calls(cur) /\ x.callee = cur /\ k \in Arg
  BY <1>1 DEF RecCalls, Types, TypeOK
<1>6. ASSUME NEW f \in Fn PROVE Truthful(f)'
  <2>1. CASE f = cur
    <3>1. Truthful(cur)
      BY <1>1 DEF SummaryInv
    <3>2. /\ Passed(x, UsedBy(cur)) \subseteq UsedBy(cur)
          /\ Passed(x, WrittenBy(cur)) \subseteq WrittenBy(cur)
      BY <1>1, <1>5, CalleeReached
    <3>3. new \subseteq UsedBy(cur) /\ written \subseteq WrittenBy(cur)
      BY <3>1, <3>2 DEF Truthful, Passed
    <3> HIDE DEF new, written
    <3>4. QED
      BY <1>1, <1>2, <2>1, <3>1, <3>3, FrozenProgram DEF Truthful
  <2>2. CASE f # cur
    BY <1>1, <1>2, <2>2, FrozenProgram DEF SummaryInv, Truthful
  <2>3. QED
    BY <2>1, <2>2
<1>7. ASSUME NEW f \in Fn, f < cur PROVE Summarised(f)'
  <2>1. Summarised(f) /\ f # cur
    BY <1>1, <1>7 DEF SummaryInv
  <2>2. \A y \in Calls(f) : y.callee \in Fn \ {cur}
    BY <1>1, <1>7, CallsBelow
  <2> HIDE DEF new, written
  <2>3. QED
    BY <1>1, <1>2, <1>7, <2>1, <2>2, FrozenProgram DEF Summarised, Own, Covers
<1>8. Own(cur)' /\ \A y \in NormalCalls(cur) : Covers(cur, y)'
  <2>1. \A y \in NormalCalls(cur) : y.callee \in Fn \ {cur}
    BY <1>1, ProgramFacts DEF NormalCalls
  <2>2. Own(cur) /\ \A y \in NormalCalls(cur) : Covers(cur, y)
    BY <1>1 DEF SummaryInv
  <2> HIDE DEF new, written
  <2>3. QED
    BY <1>1, <1>2, <2>1, <2>2 DEF Own, Covers
<1>9. ASSUME ~flag' PROVE \A y \in RecCalls(cur), j \in used'[cur] : <<y, j>> \in todo' \/ Updated(y, j)'
  <2>1. ~flag /\ new \subseteq used[cur] /\ written \subseteq writes[cur]
    BY <1>3, <1>9
  <2>2. used'[cur] = used[cur] /\ writes'[cur] = writes[cur]
    BY <1>2, <2>1
  <2>3. ASSUME NEW y \in RecCalls(cur), NEW j \in used[cur]
        PROVE  <<y, j>> \in todo' \/ Updated(y, j)
    <3>1. <<y, j>> \in todo \/ Updated(y, j)
      BY <1>1, <2>1 DEF SummaryInv
    <3>2. CASE <<y, j>> = <<x, k>>
      BY <2>1, <3>2 DEF Updated
    <3>3. CASE <<y, j>> # <<x, k>>
      BY <1>4, <3>1, <3>3
    <3>4. QED
      BY <3>2, <3>3
  <2>4. QED
    BY <1>1, <2>2, <2>3 DEF Updated
<1>10. NormalCalls(cur)' = NormalCalls(cur) /\ RecCalls(cur)' = RecCalls(cur)
  BY <1>1 DEF NormalCalls, RecCalls, Calls
<1>11. QED
  BY <1>1, <1>6, <1>7, <1>8, <1>9, <1>10 DEF SummaryInv, Later

LEMMA NextFunctionSummary ==
  ASSUME Types, SummaryInv, NextFunction
  PROVE  SummaryInv'
<1>1. /\ prog \in Programs /\ cur \in Fn /\ prog' = prog /\ used' = used /\ writes' = writes
      /\ gwrites' = gwrites /\ phase = "rec" /\ todo = {} /\ ~flag
      /\ cur < F => cur' = cur + 1
      /\ phase' # "rec" /\ (phase' = "maybe" <=> cur = F) /\ phase' \in {"maybe", "scan"}
      /\ Fn \subseteq Int /\ Fn = 1 .. F /\ F \in Nat
  BY FAssumption DEF NextFunction, Types, TypeOK, Fn
<1>2. Summarised(cur)
  <2>1. Own(cur) /\ \A x \in NormalCalls(cur) : Covers(cur, x)
    BY <1>1 DEF SummaryInv
  <2>2. ASSUME NEW x \in RecCalls(cur) PROVE Covers(cur, x)
    <3>1. \A k \in used[cur] : Updated(x, k)
      BY <1>1 DEF SummaryInv
    <3>2. x.callee = cur /\ writes[cur] \subseteq used[cur]
      BY <1>1 DEF RecCalls, Types, TypeOK
    <3>3. QED
      BY <3>1, <3>2 DEF Covers, Updated, Passed
  <2>3. QED
    BY <2>1, <2>2 DEF Summarised, NormalCalls, RecCalls
<1>3. \A f \in Fn : f <= cur => Summarised(f)
  BY <1>1, <1>2 DEF SummaryInv
<1>4. \A f \in Fn : f < cur' \/ Later' => f <= cur
  BY <1>1 DEF Later
<1>5. \A f \in Fn : Summarised(f) => Summarised(f)'
  BY <1>1, FrozenProgram DEF Summarised, Own, Covers
<1>6. \A f \in Fn : Truthful(f)'
  BY <1>1, FrozenProgram DEF SummaryInv, Truthful
<1>7. QED
  BY <1>1, <1>3, <1>4, <1>5, <1>6 DEF SummaryInv

LEMMA SummaryNext == Types /\ SummaryInv /\ [Next]_vars => SummaryInv'
<1> SUFFICES ASSUME Types, SummaryInv, [Next]_vars PROVE SummaryInv'
  OBVIOUS
<1>1. CASE Scan
  BY <1>1, ScanSummary
<1>2. ASSUME NEW p \in todo, Update(p[1], p[2]) PROVE SummaryInv'
  <2>1. p[1] \in RecCalls(cur) /\ p[2] \in used[cur]
    BY DEF Types, TypeOK
  <2>2. QED
    BY <1>2, <2>1, UpdateSummary
<1>3. CASE NextFunction
  BY <1>3, NextFunctionSummary
<1>4. ASSUME UNCHANGED <<prog, used, writes, gwrites>>,
             phase' = "rec" => UNCHANGED <<phase, cur, flag>> /\ (flag \/ todo' = todo),
             phase' # "rec" => /\ Later' => Later
                               /\ Later' \/ UNCHANGED cur
      PROVE  SummaryInv'
  <2>1. \A f \in Fn : Summarised(f) => Summarised(f)'
    BY <1>4, FrozenProgram DEF Summarised, Own, Covers
  <2>2. \A f \in Fn : Truthful(f)'
    BY <1>4, FrozenProgram DEF SummaryInv, Truthful
  <2>3. \A f \in Fn : (f < cur \/ Later)' => f < cur \/ Later
    BY <1>4 DEF Later
  <2>4. ASSUME phase' = "rec"
        PROVE  /\ Own(cur)' /\ \A x \in NormalCalls(cur)' : Covers(cur, x)'
               /\ (flag \/ \A x \in RecCalls(cur), k \in used[cur] : <<x, k>> \in todo \/ Updated(x, k))'
    BY <1>4, <2>4 DEF SummaryInv, Own, Covers, NormalCalls, RecCalls, Calls, Updated
  <2>5. QED
    BY <2>1, <2>2, <2>3, <2>4 DEF SummaryInv
<1>5. CASE Again
  BY <1>4, <1>5 DEF Again
<1>6. CASE MaybeRound
  BY <1>4, <1>6 DEF MaybeRound, Later
<1>7. CASE Alias
  BY <1>4, <1>7 DEF Alias, Later
<1>8. CASE UNCHANGED vars
  BY <1>4, <1>8 DEF vars, Later
<1>9. QED
  BY <1>1, <1>2, <1>3, <1>5, <1>6, <1>7, <1>8 DEF Next, Step, Done

\* Summaries that are closed name all that is reached, for what is not in
\* them cannot be passed on to a load or a store.
LEMMA SummarisedCovers ==
  ASSUME Types, \A f \in Fn : Summarised(f), NEW f \in Fn
  PROVE  /\ WrittenBy(f) \subseteq writes[f] /\ UsedBy(f) \subseteq used[f]
         /\ GlobalsWrittenBy(f) \subseteq gwrites[f]
<1>1. prog \in Programs /\ \A g \in Fn : used[g] \subseteq Arg /\ writes[g] \subseteq Arg
  BY DEF Types, TypeOK
<1> DEFINE Kept(a) == /\ \A k \in writes[a[1]] : a[2][k] \in Arg => a[2][k] \in writes[f]
                      /\ \A k \in used[a[1]] : a[2][k] \in Arg => a[2][k] \in used[f]
                      /\ gwrites[a[1]] \subseteq gwrites[f]
           S == {a \in Act : Kept(a)}
<1>2. <<f, Unbound>> \in S
  BY <1>1, UnboundFacts DEF Unbound
<1>3. Closed(S)
  <2> SUFFICES ASSUME NEW a \in S, NEW b \in Callees(a) PROVE b \in S
    BY DEF Closed
  <2>1. a \in Act /\ b \in Act /\ a[1] \in Fn /\ a[2] \in Env
    BY <1>1, CalleesType DEF Act
  <2>2. PICK x \in Calls(a[1]) : b = <<x.callee, [k \in Arg |-> Bind(a[2], x.args[k])]>>
    BY DEF Callees
  <2>3. Covers(a[1], x) /\ x.callee \in Fn /\ \A k \in Arg : x.args[k] \in Obj
    BY <1>1, <2>1, ProgramFacts DEF Summarised
  <2>4. ASSUME NEW k \in Arg, Bind(a[2], x.args[k]) \in Arg
        PROVE  x.args[k] \in Arg /\ Bind(a[2], x.args[k]) = a[2][x.args[k]]
    BY <2>3, <2>4 DEF Bind
  <2>5. \A k \in writes[x.callee] : x.args[k] \in Arg => x.args[k] \in writes[a[1]]
    BY <2>3 DEF Covers, Passed
  <2>6. \A k \in used[x.callee] : x.args[k] \in Arg => x.args[k] \in used[a[1]]
    BY <2>3 DEF Covers, Passed
  <2>7. Kept(a)
    OBVIOUS
  <2>8. b[1] = x.callee /\ \A k \in Arg : b[2][k] = Bind(a[2], x.args[k])
    BY <2>2
  <2>9. \A k \in writes[b[1]] : b[2][k] \in Arg => b[2][k] \in writes[f]
    BY <1>1, <2>3, <2>4, <2>5, <2>7, <2>8
  <2>10. \A k \in used[b[1]] : b[2][k] \in Arg => b[2][k] \in used[f]
    BY <1>1, <2>3, <2>4, <2>6, <2>7, <2>8
  <2>11. gwrites[b[1]] \subseteq gwrites[f]
    BY <2>3, <2>7, <2>8 DEF Covers
  <2>12. QED
    BY <2>1, <2>9, <2>10, <2>11
<1>4. \A a \in From(f) : a \in Act /\ Kept(a)
  <2>1. S \in SUBSET Act
    OBVIOUS
  <2>2. From(f) \subseteq S
    <3> HIDE DEF S
    <3>1. QED
      BY <1>1, <1>2, <1>3, <2>1, FromFacts
  <2>3. QED
    BY <2>2
<1>5. ASSUME NEW a \in From(f), NEW o \in Obj, Bind(a[2], o) \in Arg
      PROVE  o \in Arg /\ Bind(a[2], o) = a[2][o]
  BY <1>5 DEF Bind
<1>6. \A a \in From(f) : /\ prog.stores[a[1]] \subseteq Obj /\ prog.loads[a[1]] \subseteq Obj
                         /\ Own(a[1])
  BY <1>1, <1>4, ProgramFacts DEF Act, Summarised
<1>7. \A a \in From(f) : Stored(a) \cap Arg \subseteq writes[f]
  <2> TAKE a \in From(f)
  <2>1. ASSUME NEW o \in prog.stores[a[1]], Bind(a[2], o) \in Arg
        PROVE  Bind(a[2], o) \in writes[f]
    <3>1. o \in Arg /\ Bind(a[2], o) = a[2][o]
      BY <1>5, <1>6, <2>1
    <3>2. o \in writes[a[1]]
      BY <1>6, <3>1 DEF Own
    <3>3. QED
      BY <1>4, <2>1, <3>1, <3>2
  <2>2. QED
    BY <2>1 DEF Stored
<1>8. \A a \in From(f) : (Stored(a) \cup Loaded(a)) \cap Arg \subseteq used[f]
  <2> TAKE a \in From(f)
  <2>1. ASSUME NEW o \in prog.stores[a[1]] \cup prog.loads[a[1]], Bind(a[2], o) \in Arg
        PROVE  Bind(a[2], o) \in used[f]
    <3>1. o \in Arg /\ Bind(a[2], o) = a[2][o]
      BY <1>5, <1>6, <2>1
    <3>2. o \in used[a[1]]
      BY <1>6, <3>1 DEF Own
    <3>3. QED
      BY <1>4, <2>1, <3>1, <3>2
  <2>2. QED
    BY <2>1 DEF Stored, Loaded
<1>9. \A a \in From(f) : prog.stores[a[1]] \cap Global \subseteq gwrites[f]
  BY <1>4, <1>6 DEF Own
<1> HIDE DEF S, Kept
<1>10. WrittenBy(f) \subseteq writes[f]
  BY <1>7 DEF WrittenBy
<1>11. UsedBy(f) \subseteq used[f]
  BY <1>8 DEF UsedBy
<1>12. GlobalsWrittenBy(f) \subseteq gwrites[f]
  BY <1>9 DEF GlobalsWrittenBy
<1>13. QED
  BY <1>10, <1>11, <1>12

\* Once all functions have been visited, the summary of a function names the
\* arguments and the globals that it and what it calls load and store,
\* through any number of calls, and no others.
THEOREM SummariesExact == Spec => []SummaryExact
<1>1. Types /\ SummaryInv => SummaryExact
  <2> SUFFICES ASSUME Types, SummaryInv, Later PROVE SummaryExact
    BY DEF SummaryExact, Later
  <2>1. \A f \in Fn : Truthful(f) /\ Summarised(f)
    BY DEF SummaryInv
  <2>2. ASSUME NEW f \in Fn
        PROVE  /\ writes[f] = WrittenBy(f) /\ used[f] = UsedBy(f)
               /\ gwrites[f] = GlobalsWrittenBy(f)
    BY <2>1, SummarisedCovers DEF Truthful
  <2>3. QED
    BY <2>2 DEF SummaryExact, WrittenBy, UsedBy, GlobalsWrittenBy
<1>2. Types /\ SummaryInv /\ [Next]_vars => Types' /\ SummaryInv'
  BY TypesNext, SummaryNext
<1>3. QED
  BY <1>1, <1>2, TypesInit, SummaryInit, PTL DEF Spec

-----------------------------------------------------------------------------
(* Aliases.  The callees of a function have been told when what it passes   *)
(* is in their sets already, and it is known when its own sets, which       *)
(* nothing changes once its callers are done, are in its aliases.           *)

PassedBy(f, x, k) == IF x.args[k] \in Arg THEN maybe[f][x.args[k]] ELSE {x.args[k]}
HasTold(f, x) == \A k \in used[x.callee] : PassedBy(f, x, k) \subseteq maybe[x.callee][k]
InAlias(f) ==
  \A k \in used[f] :
    /\ \A o \in maybe[f][k] : <<k, o>> \in alias[f] /\ <<o, k>> \in alias[f]
    /\ \A j \in used[f] \ {k} : maybe[f][k] \cap maybe[f][j] # {} => <<k, j>> \in alias[f]
Known(f) == InAlias(f) /\ \A x \in Calls(f) : HasTold(f, x)

AliasInv ==
  Later => /\ \A f \in Fn : f > cur \/ phase = "done" => Known(f)
           /\ phase = "alias" => \A x \in RecCalls(cur) : HasTold(cur, x)

\* A function whose own sets stay the same stays known when others grow.
LEMMA StillKnown ==
  ASSUME Types, prog' = prog, used' = used, NEW f \in Fn, Known(f),
         maybe'[f] = maybe[f], alias'[f] = alias[f],
         \A g \in Fn : \A k \in Arg : maybe[g][k] \subseteq maybe'[g][k]
  PROVE  Known(f)'
<1>1. prog \in Programs /\ \A g \in Fn : used[g] \subseteq Arg
  BY DEF Types, TypeOK
<1>2. ASSUME NEW x \in Calls(f) PROVE HasTold(f, x)'
  <2>1. x.callee \in Fn /\ HasTold(f, x)
    BY <1>1, ProgramFacts DEF Known
  <2>2. \A k : PassedBy(f, x, k)' = PassedBy(f, x, k)
    BY DEF PassedBy
  <2>3. \A k \in used[x.callee] : PassedBy(f, x, k) \subseteq maybe'[x.callee][k]
    <3> TAKE k \in used[x.callee]
    <3>1. PassedBy(f, x, k) \subseteq maybe[x.callee][k]
      BY <2>1 DEF HasTold
    <3>2. maybe[x.callee][k] \subseteq maybe'[x.callee][k]
      BY <1>1, <2>1
    <3>3. QED
      BY <3>1, <3>2
  <2>4. QED
    BY <2>2, <2>3 DEF HasTold
<1>3. InAlias(f)'
  BY DEF Known, InAlias
<1>4. Calls(f)' = Calls(f)
  BY DEF Calls
<1>5. QED
  BY <1>2, <1>3, <1>4 DEF Known

LEMMA MaybeRoundAlias ==
  ASSUME Types, AliasInv, MaybeRound
  PROVE  AliasInv'
<1>1. /\ prog \in Programs /\ cur \in Fn /\ prog' = prog /\ cur' = cur /\ used' = used
      /\ alias' = alias /\ phase = "maybe" /\ phase' # "done" /\ Fn \subseteq Int
      /\ maybe' = Told(RecCalls(cur)) /\ \A f \in Fn : used[f] \subseteq Arg
      /\ phase' = "alias" => maybe' = maybe
  BY FAssumption DEF MaybeRound, Types, TypeOK, Fn
<1>2. RecCalls(cur) \in SUBSET Calls(cur) /\ \A x \in RecCalls(cur) : x.callee = cur
  BY DEF RecCalls
<1>3. /\ \A f \in Fn : \A k \in Arg : maybe[f][k] \subseteq maybe'[f][k]
      /\ \A x \in RecCalls(cur) : \A k \in used[cur] : Binding(x, k) \subseteq maybe'[cur][k]
      /\ \A f \in Fn \ {cur} : maybe'[f] = maybe[f]
  BY <1>1, <1>2, ToldType
<1>4. ASSUME NEW f \in Fn, f > cur PROVE Known(f)'
  <2>1. Known(f) /\ f # cur
    BY <1>1, <1>4 DEF AliasInv, Later
  <2>2. QED
    BY <1>1, <1>3, <2>1, StillKnown
<1>5. ASSUME phase' = "alias" PROVE \A x \in RecCalls(cur)' : HasTold(cur, x)'
  <2>1. maybe' = maybe
    BY <1>1, <1>5
  <2>2. \A x \in RecCalls(cur) : HasTold(cur, x)
    BY <1>2, <1>3, <2>1 DEF HasTold, PassedBy, Binding
  <2>3. RecCalls(cur)' = RecCalls(cur) /\ \A x : HasTold(cur, x)' = HasTold(cur, x)
    BY <1>1, <2>1 DEF RecCalls, Calls, HasTold, PassedBy
  <2>4. QED
    BY <2>2, <2>3
<1>6. QED
  BY <1>1, <1>4, <1>5 DEF AliasInv

LEMMA AliasAlias ==
  ASSUME Types, AliasInv, Alias
  PROVE  AliasInv'
<1>1. /\ prog \in Programs /\ cur \in Fn /\ prog' = prog /\ used' = used
      /\ phase = "alias" /\ Fn = 1 .. F /\ F \in Nat
      /\ maybe' = Told(NormalCalls(cur)) /\ \A f \in Fn : used[f] \subseteq Arg
      /\ maybe \in [Fn -> [Arg -> SUBSET (Global \cup Local)]]
      /\ alias \in [Fn -> SUBSET (Obj \X Obj)]
      /\ IF cur = 1 THEN phase' = "done" /\ cur' = cur
                    ELSE phase' = "maybe" /\ cur' = cur - 1
  BY FAssumption DEF Alias, Types, TypeOK, Fn
<1>2. NormalCalls(cur) \in SUBSET Calls(cur) /\ \A x \in NormalCalls(cur) : x.callee # cur
  BY DEF NormalCalls
<1>3. \A x \in Calls(cur) : x.callee \in Fn /\ x.callee <= cur
  BY <1>1, ProgramFacts
<1>4. /\ \A f \in Fn : \A k \in Arg : maybe[f][k] \subseteq maybe'[f][k]
      /\ \A x \in NormalCalls(cur) : \A k \in used[x.callee] :
           Binding(x, k) \subseteq maybe'[x.callee][k]
      /\ \A f \in Fn : f >= cur => maybe'[f] = maybe[f]
  <2>1. ASSUME NEW f \in Fn, f >= cur PROVE \A x \in NormalCalls(cur) : x.callee # f
    BY <1>1, <1>2, <1>3, <2>1
  <2>2. \A x \in NormalCalls(cur) : x.callee \in Fn
    BY <1>2, <1>3
  <2>3. QED
    BY <1>1, <1>2, <2>1, <2>2, ToldType
<1>5. \A f \in Fn : f # cur => alias'[f] = alias[f]
  BY <1>1 DEF Alias
<1>6. ASSUME NEW f \in Fn, f > cur PROVE Known(f)'
  <2>1. Known(f) /\ f # cur /\ f >= cur
    BY <1>1, <1>6 DEF AliasInv, Later
  <2>2. QED
    BY <1>1, <1>4, <1>5, <2>1, StillKnown
<1>7. PICK c \in Fn : c = cur
  BY <1>1
<1>8. \A x \in Calls(c) : HasTold(c, x)'
  <2> TAKE x \in Calls(c)
  <2>1. maybe'[c] = maybe[c] /\ x.callee \in Fn
    BY <1>1, <1>3, <1>4, <1>7
  <2>2. \A k : PassedBy(c, x, k) = Binding(x, k) /\ PassedBy(c, x, k)' = Binding(x, k)
    BY <1>7, <2>1 DEF PassedBy, Binding
  <2>3. \A k \in used[x.callee] : Binding(x, k) \subseteq maybe'[x.callee][k]
    <3>1. CASE x \in NormalCalls(cur)
      BY <1>4, <3>1
    <3>2. CASE x \in RecCalls(cur)
      BY <1>1, <1>7, <2>1, <2>2, <3>2 DEF AliasInv, Later, HasTold, RecCalls
    <3>3. QED
      BY <1>7, <3>1, <3>2 DEF NormalCalls, RecCalls
  <2>4. QED
    BY <1>1, <2>2, <2>3 DEF HasTold
<1> DEFINE m == maybe'[c]
           withObject == {p \in used[c] \X (Global \cup Local) : p[2] \in m[p[1]]}
           withArg == {p \in used[c] \X used[c] :
                        p[1] # p[2] /\ m[p[1]] \cap m[p[2]] # {}}
           pairs == withObject \cup {<<p[2], p[1]>> : p \in withObject} \cup withArg
<1>9. ASSUME NEW k \in used[c], NEW o \in m[k]
      PROVE  <<k, o>> \in pairs /\ <<o, k>> \in pairs
  <2>1. o \in Global \cup Local
    BY <1>1, <1>4, <1>7
  <2>2. <<k, o>> \in withObject
    BY <2>1
  <2>3. QED
    BY <2>2
<1>10. ASSUME NEW k \in used[c], NEW j \in used[c] \ {k}, m[k] \cap m[j] # {}
       PROVE  <<k, j>> \in pairs
  <2>1. <<k, j>> \in withArg
    BY <1>10
  <2>2. QED
    BY <2>1
<1>11. alias'[c] = pairs
  BY <1>1, <1>7 DEF Alias
<1>12. InAlias(c)'
  <2> HIDE DEF pairs
  <2>1. QED
    BY <1>1, <1>9, <1>10, <1>11 DEF InAlias
<1>13. Known(c)'
  <2>1. Calls(c)' = Calls(c)
    BY <1>1 DEF Calls
  <2>2. QED
    BY <1>8, <1>12, <2>1 DEF Known
<1>14. \A f \in Fn : (f > cur')  \/ phase' = "done" => f > cur \/ f = c
  BY <1>1, <1>7
<1>15. \A f \in Fn : (f > cur')  \/ phase' = "done" => Known(f)'
  BY <1>6, <1>13, <1>14
<1>16. phase' # "alias"
  BY <1>1
<1>17. QED
  BY <1>15, <1>16 DEF AliasInv

LEMMA AliasInit == Init => AliasInv
BY DEF Init, AliasInv, Later

LEMMA AliasNext == Types /\ AliasInv /\ [Next]_vars => AliasInv'
<1> SUFFICES ASSUME Types, AliasInv, [Next]_vars PROVE AliasInv'
  OBVIOUS
<1>1. CASE Scan
  BY <1>1 DEF Scan, AliasInv, Later
<1>2. ASSUME NEW p \in todo, Update(p[1], p[2]) PROVE AliasInv'
  BY <1>2 DEF Update, AliasInv, Later
<1>3. CASE Again
  BY <1>3 DEF Again, AliasInv, Later
<1>4. CASE NextFunction
  <2>1. Later' => cur' = F /\ phase' = "maybe"
    BY <1>4 DEF NextFunction, Later
  <2>2. \A f \in Fn : ~(f > F)
    BY FAssumption DEF Fn
  <2>3. QED
    BY <2>1, <2>2 DEF AliasInv
<1>5. CASE MaybeRound
  BY <1>5, MaybeRoundAlias
<1>6. CASE Alias
  BY <1>6, AliasAlias
<1>7. CASE UNCHANGED vars
  BY <1>7 DEF vars, AliasInv, Later, Known, InAlias, HasTold, PassedBy, Calls, RecCalls
<1>8. QED
  BY <1>1, <1>2, <1>3, <1>4, <1>5, <1>6, <1>7 DEF Next, Step, Done

\* What an argument that is used is bound to is in its set, for the caller's
\* set has it when the caller was given it, and main is given nothing.
LEMMA BoundIsKnown ==
  ASSUME Types, SummaryInv, AliasInv, phase = "done",
         NEW a \in From(Main), a[1] # Main, NEW k \in used[a[1]]
  PROVE  a[2][k] \in maybe[a[1]][k]
<1>1. /\ prog \in Programs /\ \A f \in Fn : used[f] \subseteq Arg
      /\ \A f \in Fn : Summarised(f) /\ Known(f)
  BY DEF Types, TypeOK, SummaryInv, AliasInv, Later
<1>2. Main \in Fn
  BY FAssumption DEF Main, Fn
<1> DEFINE S == {b \in Act : b[1] # Main => \A j \in used[b[1]] : b[2][j] \in maybe[b[1]][j]}
<1>3. <<Main, Unbound>> \in S
  BY <1>2, UnboundFacts
<1>4. Closed(S)
  <2> SUFFICES ASSUME NEW b \in S, NEW c \in Callees(b) PROVE c \in S
    BY DEF Closed
  <2>1. b \in Act /\ c \in Act /\ b[1] \in Fn /\ b[2] \in Env
    BY <1>1, CalleesType DEF Act
  <2>2. PICK x \in Calls(b[1]) : c = <<x.callee, [j \in Arg |-> Bind(b[2], x.args[j])]>>
    BY DEF Callees
  <2>3. x.callee \in Fn /\ HasTold(b[1], x) /\ Covers(b[1], x)
    BY <1>1, <2>1, ProgramFacts DEF Known, Summarised
  <2>4. ASSUME NEW j \in used[x.callee]
        PROVE  Bind(b[2], x.args[j]) \in PassedBy(b[1], x, j)
    <3>1. j \in Arg
      BY <1>1, <2>3
    <3>2. CASE x.args[j] \in Arg
      <4>1. b[1] # Main
        BY <1>1, <1>2, <3>1, <3>2, ProgramFacts
      <4>2. x.args[j] \in used[b[1]]
        BY <2>3, <3>2 DEF Covers, Passed
      <4>3. b[2][x.args[j]] \in maybe[b[1]][x.args[j]]
        BY <4>1, <4>2
      <4>4. QED
        BY <3>2, <4>3 DEF Bind, PassedBy
    <3>3. CASE x.args[j] \notin Arg
      BY <3>3 DEF Bind, PassedBy
    <3>4. QED
      BY <3>2, <3>3
  <2>5. \A j \in used[x.callee] : Bind(b[2], x.args[j]) \in maybe[x.callee][j]
    BY <2>3, <2>4 DEF HasTold
  <2>6. c[1] = x.callee /\ \A j \in Arg : c[2][j] = Bind(b[2], x.args[j])
    BY <2>2
  <2>7. \A j \in used[c[1]] : c[2][j] \in maybe[c[1]][j]
    BY <1>1, <2>3, <2>5, <2>6
  <2>8. QED
    BY <2>1, <2>7
<1>5. S \in SUBSET Act
  OBVIOUS
<1>6. From(Main) \subseteq S
  <2> HIDE DEF S
  <2>1. QED
    BY <1>1, <1>2, <1>3, <1>4, <1>5, FromFacts
<1>7. QED
  BY <1>6

\* When the analysis is done, an argument that is used has been recorded as a
\* possible alias of every array that a caller can bind it to, in both
\* directions, and of every other argument that can be bound to the same one.
THEOREM AliasesFound == Spec => []AliasFound
<1>1. Types /\ SummaryInv /\ AliasInv => AliasFound
  <2> SUFFICES ASSUME Types, SummaryInv, AliasInv, phase = "done",
                      NEW a \in From(Main), NEW k \in used[a[1]], a[1] # Main
               PROVE  /\ {<<k, a[2][k]>>, <<a[2][k], k>>} \subseteq alias[a[1]]
                      /\ \A j \in used[a[1]] \ {k} :
                           a[2][j] = a[2][k] => <<k, j>> \in alias[a[1]]
    BY DEF AliasFound
  <2>1. a[1] \in Fn
    <3>1. Main \in Fn /\ prog \in Programs
      BY FAssumption DEF Types, Main, Fn
    <3>2. From(Main) \subseteq Fn \X Env
      BY <3>1, FromFacts DEF Act
    <3>3. QED
      BY <3>2
  <2>2. InAlias(a[1])
    BY <2>1 DEF AliasInv, Later, Known
  <2>3. \A j \in used[a[1]] : a[2][j] \in maybe[a[1]][j]
    BY BoundIsKnown
  <2>4. QED
    BY <2>2, <2>3 DEF InAlias
<1>2. Types /\ SummaryInv /\ AliasInv /\ [Next]_vars => Types' /\ SummaryInv' /\ AliasInv'
  BY TypesNext, SummaryNext, AliasNext
<1>3. QED
  BY <1>1, <1>2, TypesInit, SummaryInit, AliasInit, PTL DEF Spec

=============================================================================

------------------------------ MODULE MCCompiler ------------------------------
(* Programs to compile, each for the passes it makes work.  Every program     *)
(* reads one number n, or an array of n numbers.                              *)
EXTENDS Compiler, PassTable

K(v) == Num(v)
Plus(x, y) == Bin("+", x, y)
Less(x, y) == Bin("<", x, y)
Inc(x) == Assign(Var(x), Plus(Var(x), K(1)))
Read(x) == VarDef(x, <<>>, <<Scalar(CallE("getint", <<>>))>>)
Put(e) == ExpStmt(CallE("putint", <<e>>))
IntVar(x, e) == VarDef(x, <<>>, <<Scalar(e)>>)
Main(body) == FuncDef("main", TRUE, <<>>, body)
For(i, n, body) == While(Less(Var(i), n), Block(body \o <<Inc(i)>>))

\* Constants, initialisers, array parameters, recursion, short circuits,
\* shadowing, break and continue.
Tables == <<
  IntVar("g", K(3)),
  ConstDef("c", <<K(2), K(2)>>, <<List(<<Scalar(K(5)), Scalar(K(6)), List(<<Scalar(K(7))>>)>>)>>),
  VarDef("b", <<Plus(K(1), K(1)), Elem("c", <<K(0), K(0)>>)>>, <<>>),
  FuncDef("f", TRUE, <<Param("n"), ArrayParam("a", <<K(5)>>)>>, <<
    If(Bin("<=", Var("n"), K(0)), Ret(K(0))),
    Assign(Elem("a", <<K(1), Var("n")>>), Bin("*", Var("n"), Elem("c", <<K(1), K(0)>>))),
    Ret(Plus(CallE("f", <<Bin("-", Var("n"), K(1)), Var("a")>>), Elem("a", <<K(1), Var("n")>>)))>>),
  Main(<<
    IntVar("i", K(0)), VarDef("x", <<K(2), K(2)>>, <<List(<<List(<<Scalar(Var("i"))>>), List(<<Scalar(Var("g"))>>)>>)>>),
    While(And(Less(Var("i"), K(5)), Or(Un("!", Bin("==", Var("i"), K(9))), Var("g"))), Block(<<
      Inc("i"),
      IfElse(Bin("==", Var("i"), K(2)), Continue, Block(<<IntVar("i", K(8)), Put(Var("i"))>>)),
      If(Bin(">=", Var("i"), K(4)), Break)>>)),
    Put(CallE("f", <<K(4), Var("b")>>)),
    ExpStmt(CallE("putarray", <<K(5), Elem("b", <<K(1)>>)>>)),
    ExpStmt(CallE("putarray", <<K(2), Elem("x", <<K(1)>>)>>)),
    Ret(Plus(CallE("getint", <<>>), Var("i")))>>)>>

\* Two arrays that become one, a sum, a bound that only the input tells.
Vectors == <<
  VarDef("a", <<K(8)>>, <<>>), VarDef("b", <<K(8)>>, <<>>),
  Main(<<
    Read("n"), IntVar("m", Bin("*", K(2), Var("n"))), IntVar("i", K(0)), IntVar("s", K(0)), IntVar("j", K(0)),
    For("i", K(8), <<Assign(Elem("a", <<Var("i")>>), Bin("*", Var("i"), Var("n"))),
                     Assign(Elem("b", <<Var("i")>>), Bin("-", Var("i"), Var("n")))>>),
    For("j", Var("m"), <<Assign(Var("s"), Plus(Var("s"), Bin("*", Elem("a", <<Var("j")>>), Elem("b", <<Var("j")>>))))>>),
    Put(Var("s")), Ret(Plus(Var("i"), Var("j")))>>)>>

\* Functions to inline, with a local array, and one that is never called;
\* a loop without effect; a table on the stack; a loop that ends in the middle.
Calls == <<
  IntVar("z", K(4)),
  FuncDef("g", TRUE, <<Param("x")>>, <<
    VarDef("t", <<K(3)>>, <<List(<<Scalar(K(7)), Scalar(K(8)), Scalar(K(9))>>)>>),
    If(Less(Var("x"), K(3)), Ret(Elem("t", <<Var("x")>>))), Ret(Var("z"))>>),
  FuncDef("f", FALSE, <<ArrayParam("a", <<>>), Param("k")>>, <<
    Assign(Elem("a", <<Var("k")>>), CallE("g", <<Var("k")>>)), Assign(Var("z"), Plus(Var("z"), Var("k")))>>),
  FuncDef("h", TRUE, <<>>, <<Ret(K(1))>>),
  Main(<<
    VarDef("a", <<K(4)>>, <<>>), IntVar("i", K(0)), IntVar("n", CallE("getarray", <<Var("a")>>)), IntVar("u", K(0)),
    For("u", K(9), <<>>),
    While(K(1), Block(<<
      If(Less(Var("n"), Var("i")), Assign(Elem("a", <<K(0)>>), Var("n"))),
      ExpStmt(CallE("f", <<Var("a"), Var("i")>>)), Inc("i"),
      If(Bin(">=", Var("i"), K(3)), Break)>>)),
    ExpStmt(CallE("putarray", <<K(3), Var("a")>>)), Ret(Plus(CallE("g", <<K(1)>>), Var("z")))>>)>>

\* Two-dimensional arrays: a table filled by two nested loops, a product whose
\* inner loops have constant bounds, one row copied onto the next.
Matrices == <<
  VarDef("a", <<K(3), K(3)>>, <<>>), VarDef("b", <<K(3), K(3)>>, <<>>),
  Main(<<
    Read("n"), IntVar("i", K(0)), IntVar("j", K(0)), IntVar("k", K(0)), IntVar("s", K(0)),
    For("i", K(3), <<Assign(Var("j"), K(0)),
      For("j", Var("n"), <<Assign(Elem("a", <<Var("i"), Var("j")>>), Plus(Var("i"), Var("j")))>>)>>),
    Assign(Var("i"), K(0)),
    For("i", K(3), <<Assign(Var("j"), K(0)),
      For("j", K(3), <<Assign(Var("k"), K(0)), Assign(Var("s"), K(0)),
        For("k", K(3), <<Assign(Var("s"), Plus(Var("s"), Bin("*", Elem("a", <<Var("i"), Var("k")>>), Elem("a", <<Var("k"), Var("j")>>))))>>),
        Assign(Elem("b", <<Var("i"), Var("j")>>), Var("s"))>>)>>),
    Assign(Var("i"), K(1)),
    For("i", K(3), <<Assign(Elem("b", <<Var("i"), K(0)>>), Elem("b", <<Bin("-", Var("i"), K(1)), K(1)>>))>>),
    ExpStmt(CallE("putarray", <<K(3), Elem("b", <<K(1)>>)>>)),
    Ret(Plus(Elem("b", <<K(2), K(0)>>), Elem("b", <<K(2), K(2)>>)))>>)>>

\* Two parameters that may be the same array; expressions computed twice, on
\* one path or on both; what is stored is loaded again.
SameArray == <<
  VarDef("a", <<K(4)>>, <<>>), VarDef("b", <<K(4)>>, <<>>),
  FuncDef("f", TRUE, <<ArrayParam("x", <<>>), ArrayParam("y", <<>>), Param("n")>>, <<
    IntVar("i", K(0)),
    For("i", Bin("-", Var("n"), K(1)), <<
      Assign(Elem("x", <<Plus(Var("i"), K(1))>>), Plus(Elem("y", <<Var("i")>>), K(1)))>>),
    Assign(Elem("x", <<K(0)>>), K(5)), Assign(Elem("y", <<K(0)>>), K(6)),
    Ret(Plus(Elem("x", <<K(0)>>), Elem("x", <<K(3)>>)))>>),
  FuncDef("g", TRUE, <<Param("p"), Param("q")>>, <<
    IntVar("r", Bin("*", Var("p"), Var("q"))),
    IfElse(Bin("==", Bin("%", Var("p"), K(2)), K(1)),
           Assign(Var("r"), Plus(Bin("/", Var("p"), Plus(Var("q"), K(1))), Bin("*", Var("q"), Var("p")))),
           Assign(Var("r"), Bin("-", Var("r"), Bin("*", Var("p"), Var("q"))))),
    Ret(Plus(Var("r"), Bin("/", Var("p"), Plus(Var("q"), K(1)))))>>),
  Main(<<
    Read("n"), Put(CallE("f", <<Var("a"), Var("a"), K(4)>>)), Put(CallE("f", <<Var("a"), Var("b"), K(4)>>)),
    Put(CallE("g", <<Var("n"), K(3)>>)), Ret(CallE("g", <<K(2), Var("n")>>))>>)>>

\* Two variables that change places, a truth value, six arguments, constants
\* that are no immediates, quotients and remainders of negative numbers.
Arguments == <<
  FuncDef("f", TRUE, <<Param("p"), Param("q"), Param("r"), Param("s"), Param("t"), Param("k")>>, <<
    If(Bin("<=", Var("k"), K(0)), Ret(Bin("-", Bin("*", Var("p"), Var("t")), Plus(Var("q"), Bin("*", Var("r"), Var("s")))))),
    Ret(CallE("f", <<Var("q"), Var("p"), Var("s"), Plus(Var("r"), Un("!", Var("p"))), Plus(Var("t"), K(4097)), Bin("-", Var("k"), K(1))>>))>>),
  Main(<<
    IntVar("a", K(0)), IntVar("b", Un("-", K(7))), IntVar("i", K(0)), Read("n"),
    While(Less(Bin("*", Var("i"), Var("i")), Var("n")), Block(<<
       IntVar("t", Var("a")), Assign(Var("a"), Var("b")), Assign(Var("b"), Var("t")), Inc("i")>>)),
    Put(CallE("f", <<Var("a"), Var("b"), Var("i"), Var("n"), Un("-", K(300)), Bin("%", Var("n"), K(4))>>)),
    Put(Bin("%", Var("b"), K(4))),
    Ret(Bin("/", Var("a"), K(4)))>>)>>

\* Two variables that change places in a loop with a test in the middle.
Exchange == <<Main(<<
  IntVar("a", K(1)), IntVar("b", K(2)), IntVar("i", K(0)), Read("n"),
  While(K(1), Block(<<IntVar("t", Var("a")),
     If(Less(Var("n"), Var("i")), Assign(Var("t"), Plus(Var("t"), K(3)))),
     Assign(Var("a"), Var("b")), Assign(Var("b"), Var("t")), Inc("i"),
     If(Bin(">=", Var("i"), K(3)), Break)>>)),
  Put(Var("a")), Ret(Var("b"))>>)>>

\* A product by a power of two, subtracted.
Difference == <<Main(<<Read("n"), Ret(Bin("-", Bin("*", Var("n"), Var("n")), Bin("*", Var("n"), K(4))))>>)>>

\* A loop for every comparison, step and statement: the counter starts at
\* -1, or at the number that is read, and leaves the other as the bound.
LoopOf(op, turned, step, body) ==
  LET down == step < 0
      i == Var("i")
      n == IF down THEN Un("-", K(1)) ELSE Var("m")
  IN  <<VarDef("a", <<K(12)>>, <<>>),
        Main(<<Read("m"), IntVar("i", IF down THEN Var("m") ELSE Un("-", K(1))), IntVar("s", K(0)),
               While(IF turned THEN Bin(op, n, i) ELSE Bin(op, i, n),
                     Block(<<body, Assign(i, Plus(i, K(step)))>>)),
               Put(Var("s")), ExpStmt(CallE("putarray", <<K(8), Var("a")>>)), Ret(i)>>)>>
Bodies == <<Assign(Elem("a", <<Plus(Var("i"), K(1))>>), Var("i")),
            Assign(Var("s"), Plus(Var("s"), Bin("*", Var("i"), K(3)))),
            Assign(Elem("a", <<Plus(Var("i"), K(2))>>), Plus(Elem("a", <<Plus(Var("i"), K(1))>>), K(1)))>>
LoopFamily == FlattenSeq([b \in DOMAIN Bodies |->
  FlattenSeq([s \in 1 .. 4 |-> LET step == <<1, 2, 3, -1>>[s]
                                   more == IF step > 0 THEN <<"<", "<=">> ELSE <<">", ">=">>
                                   turn == IF step > 0 THEN <<">", ">=">> ELSE <<"<", "<=">>
                               IN  [c \in 1 .. 4 |-> IF c < 3 THEN LoopOf(more[c], FALSE, step, Bodies[b])
                                                     ELSE LoopOf(turn[c - 2], TRUE, step, Bodies[b])]])])

\* The counter of a loop is used after it in an expression the loop computes too.
Counter == <<VarDef("a", <<K(16)>>, <<>>), Main(<<
  Read("n"), IntVar("i", K(0)),
  For("i", Var("n"), <<Assign(Elem("a", <<Bin("*", Var("i"), K(3))>>), Var("i"))>>),
  ExpStmt(CallE("putarray", <<K(8), Var("a")>>)), Ret(Bin("*", Var("i"), K(3)))>>)>>
\* Two stores of constants of which one is the complement of the other.
Complement == <<VarDef("a", <<K(2)>>, <<>>), Main(<<
  Assign(Elem("a", <<K(0)>>), K(0)), Assign(Elem("a", <<K(1)>>), Un("-", K(1))),
  ExpStmt(CallE("putarray", <<K(2), Var("a")>>)), Ret(K(0))>>)>>
\* A branch over a call and what is done with its result.
Guarded == <<VarDef("a", <<K(2)>>, <<>>), Main(<<
  Read("n"), IfElse(Less(Var("n"), K(2)), Block(<<>>), Assign(Elem("a", <<K(1)>>), CallE("getint", <<>>))),
  Ret(Elem("a", <<K(1)>>))>>)>>
\* The programs of the runs, what they read, and what is switched off.
ProgramList == <<Tables, Vectors, Calls, Matrices, SameArray, Arguments>> \o LoopFamily
ExchangeList == <<Exchange>>
DifferenceList == <<Difference>>
\* Programs the README describes; no run compiles them.
CounterList == <<Counter>>
ComplementList == <<Complement>>
GuardedList == <<Guarded>>
InputList == [p \in 1 .. 6 + Len(LoopFamily) |->
               IF p <= 6 THEN <<<<3, 5, 1, 9>>, <<0>>>> ELSE <<<<5>>, <<4>>, <<3>>, <<0>>, <<1>>>>]
NameList == <<".init", "f", "g", "h", "main">>
\* What common.cpp switches off when nothing is asked for.
DefaultOptions == {{"loop-parallel", "loop-unroll"}}
OptionSets == {{}, {"loop-parallel", "loop-unroll"},
                {"do-while-to-while", "loop-parallel", "array-to-struct", "array-index-to-muladd"}}
===============================================================================

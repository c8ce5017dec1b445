---------------------------- MODULE LoopParallel ----------------------------
(* Automatic parallelisation of a loop (src/src/optimizer/loop.cpp,        *)
(* loop_parallel): the code that replaces                                  *)
(*                                                                         *)
(*   for (i = base, j = jbase, acc = accbase; i < c; i += 1, j += jstep) { *)
(*     v = A[read]; A[write] = v + i + 1; acc += v; }                      *)
(*                                                                         *)
(* (or i <= c) by THREAD_CNT copies of the loop, each over a block of the  *)
(* iterations, between __create_threads and __join_threads.  Arithmetic is *)
(* that of W-bit registers.                                                *)
EXTENDS LoopDependence, FiniteSets

CONSTANTS W,          \* the width of a register
          N,          \* THREAD_CNT
          MinTimes,   \* MIN_PAR_LOOP_TIMES
          Loops,      \* the loops the compiler may meet
          Before(_)   \* what a cell of A holds before the loop

ASSUME NAssumption == N \in Nat \ {0}
ASSUME MinTimesAssumption == MinTimes \in Nat /\ MinTimes >= N + 1
ASSUME WAssumption == W \in Nat \ {0}

Tid == 0 .. N - 1
Half == 2 ^ (W - 1)
Int32 == -Half .. Half - 1
Wrap(x) == ((x + Half) % (2 * Half)) - Half

\* Both accesses are to one array, so they have the same dimensions.
IsLoop(x) ==
  /\ {x.base, x.c, x.jbase, x.jstep, x.accbase, x.s} \subseteq Int32 /\ x.leq \in BOOLEAN
  /\ DOMAIN x.read = DOMAIN x.write
  /\ \A m \in DOMAIN x.write : /\ x.write[m] \in [i : Int, j : Int, s : Int, k : Int]
                              /\ x.read[m] \in [i : Int, j : Int, s : Int, k : Int]
ASSUME LoopsAssumption == \A x \in Loops : IsLoop(x)
ASSUME BeforeAssumption ==
  \A x \in Loops : \A a \in [DOMAIN x.read -> Int32] : Before(a) \in Int32

\* The loops check_loop calls parallel_for and loop_parallel takes.
Accepted == {x \in Loops : ParallelFor(x.write, x.read, 1)}

VARIABLES l,          \* the loop
          phase,      \* "entry", "par", "nopar", "done"
          th,         \* [Tid -> a thread of the section]
          mem,        \* the cells of A that have been written
          outInd,     \* the "_ind" global objects
          outReduce,  \* the "_reduce" global object
          result      \* i, j and acc after the loop

vars == <<l, phase, th, mem, outInd, outReduce, result>>

-----------------------------------------------------------------------------
(* The body of the loop *)

Value(t, x) == t.i * x.i + t.j * x.j + t.s * l.s + t.k
Cell(access, x) ==      \* the cell that access reaches with the registers x
  [m \in DOMAIN access |-> Wrap(Value(access[m], x))]
Nothing == [a \in {} |-> 0]                  \* no cell has been written
Fetch(memory, a) == IF a \in DOMAIN memory THEN memory[a] ELSE Before(a)
Update(memory, a, v) ==
  [b \in DOMAIN memory \cup {a} |-> IF b = a THEN v ELSE memory[b]]
Stored(x, v) == Wrap(v + x.i + 1)

Goes(x, c) == IF l.leq THEN x.i <= c ELSE x.i < c
\* A mutant: a wider induction variable.
AdvanceWide(x, v) ==
  [i |-> Wrap(x.i + 1), j |-> x.j + l.jstep, acc |-> Wrap(x.acc + v)]
Advance(x, v) ==
  [i |-> Wrap(x.i + 1), j |-> Wrap(x.j + l.jstep), acc |-> Wrap(x.acc + v)]

\* What the loop does when nothing has been done to it.
Start == [i |-> l.base, j |-> l.jbase, acc |-> l.accbase]
Trips == LET n == IF l.leq THEN l.c - l.base + 1 ELSE l.c - l.base
         IN  IF n > 0 THEN n ELSE 0
\* After k iterations.
Sequential[k \in Nat] ==
  IF k = 0 THEN [x |-> Start, mem |-> Nothing]
  ELSE LET s == Sequential[k - 1]
           v == Fetch(s.mem, Cell(l.read, s.x))
       IN  [x |-> Advance(s.x, v),
            mem |-> Update(s.mem, Cell(l.write, s.x), Stored(s.x, v))]

-----------------------------------------------------------------------------
(* new_entry, new_entry_par and new_entry_i_par *)

LoopTimes == Wrap(l.c - l.base)
UsePar == MinTimes < LoopTimes
BlockSize == LoopTimes \div N
BlockOffset(t) == Wrap(BlockSize * t)

NewBase(t) == Wrap(l.base + BlockOffset(t))
\* A mutant: <= is treated as <.
NewCNoLeq(t) == IF t = N - 1 THEN l.c ELSE Wrap(NewBase(t) + BlockSize)
NewC(t) ==
  IF t = N - 1 THEN l.c
  ELSE LET c == Wrap(NewBase(t) + BlockSize)
       IN  IF l.leq THEN Wrap(c - 1) ELSE c

\* A mutant: every thread starts from the value before the loop.
ThreadStartBase(t) ==
  [i |-> NewBase(t),
   j |-> Wrap(Wrap(BlockOffset(t) * l.jstep) + l.jbase),
   acc |-> l.accbase]

\* Induction variables start where their block starts, reduction variables
\* at 0.
ThreadStart(t) ==
  [i |-> NewBase(t),
   j |-> Wrap(Wrap(BlockOffset(t) * l.jstep) + l.jbase),
   acc |-> 0]

Thread(x, c, v) ==
  [pc |-> IF Goes(x, c) THEN "load" ELSE "exit", x |-> x, c |-> c, v |-> v]
Idle == [pc |-> "idle", x |-> Start, c |-> l.c, v |-> 0]

Init ==
  /\ l \in Accepted
  /\ phase = "entry"
  /\ th = [t \in Tid |-> Idle]
  /\ mem = Nothing
  /\ outInd = [i |-> 0, j |-> 0]
  /\ outReduce = [t \in Tid |-> 0]
  /\ result = Start

\* A mutant: one thread too few.
EnterParOneLess ==
  /\ phase = "entry" /\ UsePar
  /\ phase' = "par"
  /\ th' = [t \in Tid |-> IF t = N - 1 THEN Idle ELSE Thread(ThreadStart(t), NewC(t), 0)]
  /\ UNCHANGED <<l, mem, outInd, outReduce, result>>

EnterPar ==
  /\ phase = "entry" /\ UsePar
  /\ phase' = "par"
  /\ th' = [t \in Tid |-> Thread(ThreadStart(t), NewC(t), 0)]
  /\ UNCHANGED <<l, mem, outInd, outReduce, result>>

EnterNoPar ==
  /\ phase = "entry" /\ ~UsePar
  /\ phase' = "nopar"
  /\ th' = [th EXCEPT ![0] = Thread(Start, l.c, 0)]
  /\ UNCHANGED <<l, mem, outInd, outReduce, result>>

Load(t) ==
  /\ th[t].pc = "load"
  /\ th' = [th EXCEPT ![t].v = Fetch(mem, Cell(l.read, th[t].x)),
                      ![t].pc = "store"]
  /\ UNCHANGED <<l, phase, mem, outInd, outReduce, result>>

Store(t) ==
  /\ th[t].pc = "store"
  /\ mem' = Update(mem, Cell(l.write, th[t].x), Stored(th[t].x, th[t].v))
  /\ th' = [th EXCEPT ![t] = Thread(Advance(th[t].x, th[t].v), th[t].c, th[t].v)]
  /\ UNCHANGED <<l, phase, outInd, outReduce, result>>

\* NewExit_i_Par: every thread leaves its share of the reduction, the last
\* one the induction variables.
ExitPar(t) ==
  /\ phase = "par" /\ th[t].pc = "exit"
  /\ outReduce' = [outReduce EXCEPT ![t] = th[t].x.acc]
  /\ outInd' = IF t = N - 1 THEN [i |-> th[t].x.i, j |-> th[t].x.j] ELSE outInd
  /\ th' = [th EXCEPT ![t].pc = "joined"]
  /\ UNCHANGED <<l, phase, mem, result>>

\* The reduction variable with the shares of t threads.
Summed[t \in 0 .. N] ==
  IF t = 0 THEN l.accbase ELSE Wrap(Summed[t - 1] + outReduce[t - 1])

\* A mutant: no __join_threads.
NewExitNoJoin ==
  /\ phase = "par" /\ th[0].pc = "joined"
  /\ phase' = "done"
  /\ result' = [i |-> outInd.i, j |-> outInd.j,
                acc |-> Summed[N]]
  /\ UNCHANGED <<l, th, mem, outInd, outReduce>>

\* NewExit, where thread 0 arrives when __join_threads lets it.
NewExit ==
  /\ phase = "par" /\ \A t \in Tid : th[t].pc = "joined"
  /\ phase' = "done"
  /\ result' = [i |-> outInd.i, j |-> outInd.j,
                acc |-> Summed[N]]
  /\ UNCHANGED <<l, th, mem, outInd, outReduce>>

ExitNoPar ==
  /\ phase = "nopar" /\ th[0].pc = "exit"
  /\ phase' = "done"
  /\ result' = th[0].x
  /\ UNCHANGED <<l, th, mem, outInd, outReduce>>

Step(t) == Load(t) \/ Store(t) \/ ExitPar(t)

\* The code after the loop is not modelled.
Done == phase = "done" /\ UNCHANGED vars

Next == \/ EnterPar \/ EnterNoPar \/ NewExit \/ ExitNoPar \/ Done
        \/ \E t \in Tid : Step(t)

Spec == Init /\ [][Next]_vars

FairSpec == /\ Spec
            /\ WF_vars(EnterPar \/ EnterNoPar \/ NewExit \/ ExitNoPar)
            /\ \A t \in Tid : WF_vars(Step(t))

-----------------------------------------------------------------------------
Registers == [i : Int32, j : Int32, acc : Int32]

TypeOK ==
  /\ l \in Accepted
  /\ phase \in {"entry", "par", "nopar", "done"}
  /\ th \in [Tid -> [pc : {"idle", "load", "store", "exit", "joined"},
                     x : Registers, c : Int32, v : Int32]]
  /\ \A a \in DOMAIN mem : mem[a] \in Int32
  /\ outInd \in [i : Int32, j : Int32]
  /\ outReduce \in [Tid -> Int32]
  /\ result \in Registers

\* The transformed loop computes what the loop computed: the array, both
\* induction variables and the reduction, in every interleaving.
SameResult ==
  phase = "done" => result = Sequential[Trips].x /\ mem = Sequential[Trips].mem

Iteration(k) == [i |-> Wrap(l.base + k), j |-> Wrap(l.jbase + k * l.jstep), acc |-> 0]

\* What the theorems about results assume of a loop: signed overflow is
\* undefined in the source language, and j moves (see loop_zero_step).
Exact ==
  LET X(k) == [i |-> l.base + k, j |-> l.jbase + k * l.jstep] IN
    /\ l.jstep # 0
    /\ l.c - l.base >= -Half /\ l.base + Trips \in Int32
    /\ \A k \in 0 .. Trips - 1 :
         /\ X(k).j \in Int32
         /\ \A m \in DOMAIN l.write : /\ Value(l.write[m], X(k)) \in Int32
                                    /\ Value(l.read[m], X(k)) \in Int32

\* loop.cpp:451 "b!=0, |a-c|<min|i-j| --> a+bi != c+bj": a loop that passes
\* the test writes no cell that another iteration reads or writes.
IterationsIndependent ==
  \A k, m \in 0 .. Trips - 1 :
    k # m => /\ Cell(l.write, Iteration(k)) # Cell(l.write, Iteration(m))
             /\ Cell(l.write, Iteration(k)) # Cell(l.read, Iteration(m))

\* No two threads are about to touch one cell, one of them writing it.
NoRace ==
  \A t, u \in Tid :
    t # u /\ phase = "par" /\ th[t].pc = "store" =>
      /\ th[u].pc = "store"
           => Cell(l.write, th[t].x) # Cell(l.write, th[u].x)
      /\ th[u].pc = "load"
           => Cell(l.write, th[t].x) # Cell(l.read, th[u].x)

\* Every iteration belongs to the block of exactly one thread.
InBlock(t, n) == NewBase(t) <= n /\ (IF l.leq THEN n <= NewC(t) ELSE n < NewC(t))
BlocksTile ==
  phase = "par" =>
    /\ \A n \in Int32 : n \in l.base .. l.base + Trips - 1
                          <=> \E t \in Tid : InBlock(t, n)
    /\ \A n \in Int32 : \A t, u \in Tid : InBlock(t, n) /\ InBlock(u, n) => t = u

\* The loop ends.
Terminates == <>(phase = "done")

\* The generated code keeps to the contract that ThreadRuntime implements:
\* a block is run by its thread, once, and NewExit waits for all of them.
FJ == INSTANCE ForkJoin WITH
        Block <- Tid,
        phase <- IF phase = "par" THEN "par" ELSE "seq",
        ran <- {t \in Tid : th[t].pc = "joined"}
KeepsForkJoin == FJ!Spec
=============================================================================

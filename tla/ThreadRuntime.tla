---------------------------- MODULE ThreadRuntime ----------------------------
(* The thread runtime of automatic parallelisation,                        *)
(* src/runtime/armv7/thread.S, at the granularity of the instructions that *)
(* touch what its threads share: one stack for all of them, and the table  *)
(* of processes.  __create_threads starts thread 0 (the caller) as a chain:*)
(* thread i clones thread i+1 with the same stack pointer, so every thread *)
(* pops the registers that thread 0 pushed.  __join_threads unwinds the    *)
(* chain: thread i waits for its only child, thread i+1, and exits; thread *)
(* 0 returns to the compiled code.                                         *)
EXTENDS Integers

CONSTANTS N,             \* the n of both calls: --set-num-thread
          Pid,           \* what clone can return
          Main,          \* the process of the compiled program
          Caller,        \* call sites of __create_threads
          Junk,          \* a word that is nobody's saved register
          CloneMayFail   \* clone can return an error (EAGAIN)

ASSUME NAssumption == N \in Nat \ {0}
ASSUME MainAssumption == Main \in Pid
ASSUME CloneMayFailAssumption == CloneMayFail \in BOOLEAN

Block == 0 .. N - 1      \* new_entry_par_2[i], i < THREAD_CNT
Reg == 4 .. 7            \* the callee-saved registers both calls push
Word == (Caller \X Reg) \cup {Junk}

\* Slot k is the word at sp - 4k, sp being the stack pointer of the compiled
\* function, which is the same at both calls.
Slot == 1 .. 6
CreateSlot(r) == 8 - r   \* push {r4, r5, r6, r7}: r7 is stored highest
\* sub sp, sp, #16; pusheq {r4, r7}
JoinReg == {4, 7}
\* (The same words as push uses, were sp not moved first; a mutant.)
JoinSlotOverlap(r) == IF r = 7 THEN 1 ELSE 2
JoinSlot(r) == IF r = 7 THEN 5 ELSE 6

\* What r4..r7 hold when the code around call site c calls.
Saved(c) == [r \in Reg |-> <<c, r>>]
Clobbered == [r \in Reg |-> Junk]

VARIABLES
  caller,    \* the call site whose section is running, or ran last
  state,     \* [Pid -> {"free", "alive", "zombie"}], the process table
  parent,    \* [Pid -> Pid], the process that cloned it
  pc,        \* [Pid -> Label]
  i,         \* [Pid -> Block]: r6 in create, r0 when it returns, r4 in join
  regs,      \* [Pid -> [Reg -> Word]]: r4..r7 as the compiled code sees them
  stack,     \* [Slot -> Word]: the words below sp, shared by every thread
  ran        \* the blocks the compiled code has finished in this section

vars == <<caller, state, parent, pc, i, regs, stack, ran>>

\* seq   the compiled code outside a parallel section (Main only)
\* push  the entry of __create_threads
\* L0    about to call clone
\* L1    about to pop and return
\* body  the compiled code of block i
\* join  the entry of __join_threads
\* wait  about to call waitid
\* L2    after it
Label == {"seq", "push", "L0", "L1", "body", "join", "wait", "L2"}

TypeOK ==
  /\ caller \in Caller
  /\ state \in [Pid -> {"free", "alive", "zombie"}]
  /\ parent \in [Pid -> Pid]
  /\ pc \in [Pid -> Label]
  /\ i \in [Pid -> Block]
  /\ regs \in [Pid -> [Reg -> Word]]
  /\ stack \in [Slot -> Word]
  /\ ran \subseteq Block

At(p, l) == state[p] = "alive" /\ pc[p] = l
Goto(p, l) == pc' = [pc EXCEPT ![p] = l]

\* The children the kernel still keeps for p, zombies included.
Children(p) == {q \in Pid \ {Main} : state[q] # "free" /\ parent[q] = p}

Init ==
  /\ caller \in Caller
  /\ state = [p \in Pid |-> IF p = Main THEN "alive" ELSE "free"]
  /\ parent = [p \in Pid |-> Main]
  /\ pc = [p \in Pid |-> "seq"]
  /\ i = [p \in Pid |-> 0]
  /\ regs = [p \in Pid |-> Saved(caller)]
  /\ stack = [k \in Slot |-> Junk]
  /\ ran = {}

-----------------------------------------------------------------------------
(* The compiled code *)

\* Sequential code reaches call site c.  Its own calls have left anything
\* in the words below sp.
Call(c) ==
  /\ At(Main, "seq")
  /\ caller' = c
  /\ regs' = [regs EXCEPT ![Main] = Saved(c)]
  /\ stack' = [k \in Slot |-> Junk]
  /\ ran' = {}
  /\ Goto(Main, "push")
  /\ UNCHANGED <<state, parent, i>>

\* The block that thread_id selects runs to its end.
Body(p) ==
  /\ At(p, "body")
  /\ ran' = ran \cup {i[p]}
  /\ Goto(p, "join")
  /\ UNCHANGED <<caller, state, parent, i, regs, stack>>

-----------------------------------------------------------------------------
(* __create_threads *)

Push(p) ==
  /\ At(p, "push")
  /\ stack' = [k \in Slot |-> IF \E r \in Reg : k = CreateSlot(r)
                              THEN regs[p][8 - k] ELSE stack[k]]
  /\ regs' = [regs EXCEPT ![p] = Clobbered]
  /\ i' = [i EXCEPT ![p] = 0]
  /\ Goto(p, IF N - 1 <= 0 THEN "L1" ELSE "L0")
  /\ UNCHANGED <<caller, state, parent, ran>>

\* Mutants of Clone: the child does not count; the loop ends a thread early.
CloneNoCount(p, q) ==
  /\ At(p, "L0") /\ state[q] = "free"
  /\ state' = [state EXCEPT ![q] = "alive"]
  /\ parent' = [parent EXCEPT ![q] = p]
  /\ pc' = [pc EXCEPT ![p] = "L1", ![q] = "L1"]
  /\ i' = [i EXCEPT ![q] = i[p]]
  /\ regs' = [regs EXCEPT ![q] = regs[p]]
  /\ UNCHANGED <<caller, stack, ran>>
CloneStopsEarly(p, q) ==
  /\ At(p, "L0") /\ state[q] = "free"
  /\ state' = [state EXCEPT ![q] = "alive"]
  /\ parent' = [parent EXCEPT ![q] = p]
  /\ pc' = [pc EXCEPT ![p] = "L1",
                      ![q] = IF i[p] + 2 >= N - 1 THEN "L1" ELSE "L0"]
  /\ i' = [i EXCEPT ![q] = i[p] + 1]
  /\ regs' = [regs EXCEPT ![q] = regs[p]]
  /\ UNCHANGED <<caller, stack, ran>>

\* clone returns twice: the parent leaves the loop, the child counts and
\* leaves it when it is the last thread.
Clone(p, q) ==
  /\ At(p, "L0")
  /\ state[q] = "free"
  /\ state' = [state EXCEPT ![q] = "alive"]
  /\ parent' = [parent EXCEPT ![q] = p]
  /\ pc' = [pc EXCEPT ![p] = "L1",
                      ![q] = IF i[p] + 1 = N - 1 THEN "L1" ELSE "L0"]
  /\ i' = [i EXCEPT ![q] = i[p] + 1]
  /\ regs' = [regs EXCEPT ![q] = regs[p]]
  /\ UNCHANGED <<caller, stack, ran>>

\* A mutant: the error is taken for the child's return.
CloneFailsGoesOn(p) ==
  /\ CloneMayFail
  /\ At(p, "L0")
  /\ i' = [i EXCEPT ![p] = i[p] + 1]
  /\ Goto(p, IF i[p] + 1 = N - 1 THEN "L1" ELSE "L0")
  /\ UNCHANGED <<caller, state, parent, regs, stack, ran>>

\* A negative result is not 0 either: bne .L1.
CloneFails(p) ==
  /\ CloneMayFail
  /\ At(p, "L0")
  /\ Goto(p, "L1")
  /\ UNCHANGED <<caller, state, parent, i, regs, stack, ran>>

Pop(p) ==
  /\ At(p, "L1")
  /\ regs' = [regs EXCEPT ![p] = [r \in Reg |-> stack[CreateSlot(r)]]]
  /\ Goto(p, "body")
  /\ UNCHANGED <<caller, state, parent, i, stack, ran>>

-----------------------------------------------------------------------------
(* __join_threads *)

\* Mutants of EnterJoin: to is where the threads go instead of to waitid.
EnterJoinTo(p, to) ==
  /\ At(p, "join")
  /\ stack' = IF i[p] = 0
              THEN [k \in Slot |-> IF k = JoinSlot(4) THEN regs[p][4]
                                   ELSE IF k = JoinSlot(7) THEN regs[p][7]
                                   ELSE stack[k]]
              ELSE stack
  /\ regs' = [regs EXCEPT ![p] = [r \in Reg |-> IF r \in JoinReg THEN Junk
                                                ELSE regs[p][r]]]
  /\ Goto(p, to)
  /\ UNCHANGED <<caller, state, parent, i, ran>>
EnterJoinNoWait(p) == EnterJoinTo(p, "L2")
EnterJoinMainWaits(p) == EnterJoinTo(p, IF i[p] = 0 THEN "wait" ELSE "L2")

EnterJoin(p) ==
  /\ At(p, "join")
  /\ stack' = IF i[p] = 0
              THEN [k \in Slot |-> IF k = JoinSlot(4) THEN regs[p][4]
                                   ELSE IF k = JoinSlot(7) THEN regs[p][7]
                                   ELSE stack[k]]
              ELSE stack
  /\ regs' = [regs EXCEPT ![p] = [r \in Reg |-> IF r \in JoinReg THEN Junk
                                                ELSE regs[p][r]]]
  /\ Goto(p, IF i[p] = N - 1 THEN "L2" ELSE "wait")
  /\ UNCHANGED <<caller, state, parent, i, ran>>

\* waitid(P_ALL, 0, NULL, WEXITED) takes one dead child out of the process
\* table; it blocks while there are only living ones.
Reap(p, q) ==
  /\ At(p, "wait")
  /\ q \in Children(p)
  /\ state[q] = "zombie"
  /\ state' = [state EXCEPT ![q] = "free"]
  /\ Goto(p, "L2")
  /\ UNCHANGED <<caller, parent, i, regs, stack, ran>>

\* Mutants of NoChild: waitid with WNOHANG; waiting again after ECHILD.
NoChildWnohang(p) ==
  /\ At(p, "wait")
  /\ \A q \in Children(p) : state[q] # "zombie"
  /\ Goto(p, "L2")
  /\ UNCHANGED <<caller, state, parent, i, regs, stack, ran>>
NoChildRetries(p) ==
  At(p, "wait") /\ Children(p) = {} /\ UNCHANGED vars

\* With no child at all waitid returns ECHILD, which the code ignores.
NoChild(p) ==
  /\ At(p, "wait")
  /\ Children(p) = {}
  /\ Goto(p, "L2")
  /\ UNCHANGED <<caller, state, parent, i, regs, stack, ran>>

Return(p) ==
  /\ At(p, "L2")
  /\ i[p] = 0
  /\ regs' = [regs EXCEPT ![p] = [r \in Reg |-> IF r \in JoinReg
                                                THEN stack[JoinSlot(r)]
                                                ELSE regs[p][r]]]
  /\ Goto(p, "seq")
  /\ UNCHANGED <<caller, state, parent, i, stack, ran>>

Exit(p) ==
  /\ At(p, "L2")
  /\ i[p] # 0
  /\ state' = [state EXCEPT ![p] = "zombie"]
  /\ UNCHANGED <<caller, parent, pc, i, regs, stack, ran>>

-----------------------------------------------------------------------------
Step(p) ==
  \/ Push(p) \/ CloneFails(p) \/ Pop(p) \/ Body(p)
  \/ EnterJoin(p) \/ NoChild(p) \/ Return(p) \/ Exit(p)
  \/ \E q \in Pid : Clone(p, q) \/ Reap(p, q)

Next == (\E c \in Caller : Call(c)) \/ \E p \in Pid : Step(p)

Spec == Init /\ [][Next]_vars

\* The kernel schedules every runnable process.  Nothing makes the program
\* enter another section.
FairSpec == Spec /\ \A p \in Pid : WF_vars(Step(p))

-----------------------------------------------------------------------------
Others == Pid \ {Main}

\* __join_threads is a barrier: once the compiled program is past its waitid
\* (thread.S:94) no other thread is left, not even one that has exited and
\* was not waited for; and so it stays until the next section has begun.
JoinBarrier ==
  At(Main, "L2") \/ At(Main, "seq") \/ At(Main, "push")
    => \A p \in Others : state[p] = "free"

\* Compiled code always runs with the registers it had at the call, in every
\* thread, although all of them restore from the same words and thread 0
\* pushes again (in __join_threads) while others may not have popped yet.
RegistersRestored ==
  \A p \in Pid : At(p, "body") \/ At(p, "join") \/ At(p, "seq")
                   => regs[p] = Saved(caller)

\* No thread leaves a child behind: neither a process that still runs nor a
\* zombie nobody can wait for.
NoOrphans ==
  \A p \in Others : state[p] = "zombie" => Children(p) = {}

\* No block has been run by the thread that is still to run it.
BlockOnce ==
  /\ \A p \in Pid : At(p, "body") => i[p] \notin ran
  /\ \A p, q \in Pid : p # q /\ At(p, "body") /\ At(q, "body") => i[p] # i[q]

\* Every block has been run when thread 0 is past the barrier.  (Not when
\* clone may fail: CloneFails is taken for the parent's return.)
AllBlocksRan == At(Main, "L2") => ran = Block

\* Whatever clone does, the blocks that have run by then are a prefix of the
\* loop: the threads that exist are a prefix of the chain.
PrefixRan ==
  At(Main, "L2") => 0 \in ran /\ \A b \in ran : 0 .. b \subseteq ran

\* Every parallel section that is entered is left: nobody waits forever.
SectionEnds == At(Main, "push") ~> At(Main, "seq")

\* The runtime implements the fork-join section that generated code is
\* written for: each block runs once between the two calls, and the section
\* is left only when every block has run.
FJ == INSTANCE ForkJoin WITH
        phase <- IF pc[Main] = "seq" THEN "seq" ELSE "par",
        ran <- ran
ImplementsForkJoin == FJ!Spec
-----------------------------------------------------------------------------
(* The inductive invariant: the processes form a chain numbered by i, of    *)
(* which Main is the head and the only childless process the tail.          *)

Live(p) == state[p] # "free"
Childless(p) == \A q \in Others : Live(q) => parent[q] # p
LeftBarrier(p) == Live(p) /\ pc[p] = "L2"
BeforeReap == {"L0", "L1", "body", "join", "wait"}

\* Thread i+1 is the child of thread i, which has not waited for it yet;
\* every i is used once; a process without a child is the last one.
ChainInv ==
  /\ state[Main] = "alive" /\ i[Main] = 0
  /\ \A p \in Others :
       Live(p) => /\ i[p] >= 1
                  /\ pc[p] \in BeforeReap \cup {"L2"}
                  /\ state[parent[p]] = "alive"
                  /\ pc[parent[p]] \in {"L1", "body", "join", "wait"}
                  /\ i[p] = i[parent[p]] + 1
                  /\ state[p] = "zombie" => pc[p] = "L2"
  /\ \A p, q \in Pid : Live(p) /\ Live(q) /\ i[p] = i[q] => p = q
  /\ \A p, q \in Pid : Live(p) /\ Live(q) /\ Childless(p) => i[q] <= i[p]
  /\ \A p \in Pid : At(p, "L0") => i[p] < N - 1

\* The words a thread will pop are the words thread 0 pushed.
StackInv ==
  /\ \A p \in Pid : \A l \in {"seq", "push", "body", "join"} :
       At(p, l) => regs[p] = Saved(caller)
  /\ \A p \in Pid : \A l \in {"L0", "L1"} :
       At(p, l) => \A r \in Reg : stack[CreateSlot(r)] = <<caller, r>>
  /\ \A l \in {"wait", "L2"} :
       At(Main, l) => /\ \A r \in JoinReg : stack[JoinSlot(r)] = <<caller, r>>
                      /\ \A r \in Reg \ JoinReg : regs[Main][r] = <<caller, r>>

\* What has run, seen from a thread: not its own block before it runs it,
\* nothing behind the tail, and no gap behind a thread that has waited.
RanInv ==
  /\ At(Main, "push") => ran = {}
  /\ \A p \in Pid : \A l \in {"L0", "L1", "body"} : At(p, l) => i[p] \notin ran
  /\ \A p \in Pid : \A l \in {"join", "wait", "L2"} :
       Live(p) /\ pc[p] = l => i[p] \in ran
  /\ \A p \in Pid : Live(p) /\ pc[p] \in BeforeReap /\ Childless(p)
                      => \A b \in ran : b <= i[p]
  /\ \A p \in Pid : LeftBarrier(p) => \A b \in ran : i[p] .. b \subseteq ran

\* When clone cannot fail the tail is thread N - 1, and whoever has waited
\* knows that every later block has run.
CompleteInv ==
  ~CloneMayFail =>
    /\ \A p \in Pid : \A l \in {"L1", "body", "join", "wait"} :
         At(p, l) /\ Childless(p) => i[p] = N - 1
    /\ \A p \in Pid : At(p, "wait") => i[p] # N - 1
    /\ \A p \in Pid : LeftBarrier(p) => i[p] .. N - 1 \subseteq ran

IInv == TypeOK /\ ChainInv /\ StackInv /\ RanInv /\ CompleteInv
=============================================================================

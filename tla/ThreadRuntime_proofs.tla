------------------------ MODULE ThreadRuntime_proofs ------------------------
(* Machine-checked proofs about ThreadRuntime, for any number of threads,  *)
(* any set of process numbers and any number of call sites, whether clone  *)
(* may fail or not.                                                        *)
EXTENDS ThreadRuntime, Induction, TLAPS

\* Init and every action keep each variable in its range.
LEMMA TypeInit == Init => TypeOK
  BY NAssumption, MainAssumption
     DEF Init, TypeOK, Block, Word, Saved, Label, Reg, Slot

LEMMA TypeNext == TypeOK /\ ChainInv /\ [Next]_vars => TypeOK'
<1> SUFFICES ASSUME TypeOK, ChainInv, [Next]_vars PROVE TypeOK'
  OBVIOUS
<1> USE NAssumption, MainAssumption
<1>1. ASSUME NEW c \in Caller, Call(c) PROVE TypeOK'
  BY <1>1 DEF TypeOK, Call, At, Goto, Saved, Word, Label, Reg
<1>2. ASSUME NEW p \in Pid, Push(p) PROVE TypeOK'
  BY <1>2 DEF TypeOK, Push, At, Goto, Clobbered, Word, Label, Reg, CreateSlot, Block
<1>3. ASSUME NEW p \in Pid, NEW q \in Pid, Clone(p, q) PROVE TypeOK'
  <2>1. i[p] < N - 1
    BY <1>3 DEF ChainInv, Clone
  <2>2. i[p] + 1 \in Block
    BY <2>1 DEF TypeOK, Block
  <2>3. QED
    BY <1>3, <2>2 DEF TypeOK, Clone, At, Label
<1>4. ASSUME NEW p \in Pid, CloneFails(p) PROVE TypeOK'
  BY <1>4 DEF TypeOK, CloneFails, At, Goto, Label
<1>5. ASSUME NEW p \in Pid, Pop(p) PROVE TypeOK'
  BY <1>5 DEF TypeOK, Pop, At, Goto, Label, Reg, Slot, CreateSlot
<1>6. ASSUME NEW p \in Pid, Body(p) PROVE TypeOK'
  BY <1>6 DEF TypeOK, Body, At, Goto, Label
<1>7. ASSUME NEW p \in Pid, EnterJoin(p) PROVE TypeOK'
  BY <1>7 DEF TypeOK, EnterJoin, At, Goto, Label, Reg, Slot, JoinSlot, JoinReg, Word
<1>8. ASSUME NEW p \in Pid, NEW q \in Pid, Reap(p, q) PROVE TypeOK'
  BY <1>8 DEF TypeOK, Reap, At, Goto, Label
<1>9. ASSUME NEW p \in Pid, NoChild(p) PROVE TypeOK'
  BY <1>9 DEF TypeOK, NoChild, At, Goto, Label
<1>10. ASSUME NEW p \in Pid, Return(p) PROVE TypeOK'
  BY <1>10 DEF TypeOK, Return, At, Goto, Label, Reg, Slot, JoinSlot, JoinReg
<1>11. ASSUME NEW p \in Pid, Exit(p) PROVE TypeOK'
  BY <1>11 DEF TypeOK, Exit, At
<1>12. CASE UNCHANGED vars
  BY <1>12 DEF TypeOK, vars
<1>13. QED
  BY <1>1, <1>2, <1>3, <1>4, <1>5, <1>6, <1>7, <1>8, <1>9, <1>10, <1>11, <1>12
     DEF Next, Step

\* The thread at the head of __create_threads, and anyone outside it, is
\* Main; while Main is there, or past its waitid, no other process exists.
LEMMA MainAlone ==
  ASSUME TypeOK, ChainInv,
         At(Main, "L2") \/ At(Main, "seq") \/ At(Main, "push")
  PROVE  \A p \in Others : state[p] = "free"
<1> USE MainAssumption
<1>1. Childless(Main)
  BY DEF ChainInv, Childless, At
<1>2. SUFFICES ASSUME NEW p \in Others, Live(p) PROVE FALSE
  BY DEF Live
<1>3. i[p] <= 0 /\ i[p] >= 1
  BY <1>1, <1>2 DEF ChainInv, Others, Live
<1>4. i[p] \in Int
  BY DEF TypeOK, Others, Block
<1>5. QED
  BY <1>3, <1>4

LEMMA OnlyMainOutside ==
  ASSUME TypeOK, ChainInv, NEW p \in Pid,
         At(p, "seq") \/ At(p, "push") \/ (LeftBarrier(p) /\ i[p] = 0)
  PROVE  p = Main
<1>1. SUFFICES ASSUME p \in Others PROVE FALSE
  BY DEF Others
<1>2. Live(p)
  BY DEF At, Live, LeftBarrier
<1>3. i[p] >= 1 /\ pc[p] \in BeforeReap \cup {"L2"}
  BY <1>1, <1>2 DEF ChainInv
<1>4. QED
  BY <1>3, NAssumption DEF At, LeftBarrier, BeforeReap, TypeOK, Block

\* The processes stay a chain.
LEMMA ChainNext == TypeOK /\ ChainInv /\ [Next]_vars => ChainInv'
<1> SUFFICES ASSUME TypeOK, ChainInv, [Next]_vars PROVE ChainInv'
  OBVIOUS
<1> USE NAssumption, MainAssumption
<1> USE DEF Others, Live, Childless, BeforeReap
<1>1. ASSUME NEW c \in Caller, Call(c) PROVE ChainInv'
  <2>1. \A p \in Others : state[p] = "free"
    BY <1>1, MainAlone DEF Call
  <2>2. QED
    BY <1>1, <2>1 DEF ChainInv, TypeOK, Call, At, Goto
<1>2. ASSUME NEW p \in Pid, Push(p) PROVE ChainInv'
  <2>1. p = Main
    BY <1>2, OnlyMainOutside DEF Push
  <2>2. \A q \in Others : state[q] = "free"
    BY <1>2, <2>1, MainAlone DEF Push
  <2>3. QED
    BY <1>2, <2>1, <2>2 DEF ChainInv, TypeOK, Push, At, Goto, Block
<1>3. ASSUME NEW p \in Pid, NEW q \in Pid, Clone(p, q) PROVE ChainInv'
  <2>1. q \in Others /\ q # p
    BY <1>3 DEF Clone, At, ChainInv
  <2>2. Childless(p)
    BY <1>3 DEF Clone, At, ChainInv
  <2>3. \A r \in Pid : Live(r) => i[r] <= i[p] /\ r # q
    BY <1>3, <2>2 DEF ChainInv, Clone, At
  <2>4. \A r \in Pid : i[r] \in Int
    BY DEF TypeOK, Block
  <2>5. /\ \A r \in Pid : state'[r] = IF r = q THEN "alive" ELSE state[r]
        /\ \A r \in Pid : parent'[r] = IF r = q THEN p ELSE parent[r]
        /\ \A r \in Pid : i'[r] = IF r = q THEN i[p] + 1 ELSE i[r]
        /\ \A r \in Pid : pc'[r] = IF r = q
                                   THEN IF i[p] + 1 = N - 1 THEN "L1" ELSE "L0"
                                   ELSE IF r = p THEN "L1" ELSE pc[r]
    BY <1>3, <2>1 DEF Clone, TypeOK
  <2>6. (state[Main] = "alive" /\ i[Main] = 0)'
    BY <2>1, <2>5 DEF ChainInv
  <2>7. (\A r \in Others :
           Live(r) => /\ i[r] >= 1
                      /\ pc[r] \in BeforeReap \cup {"L2"}
                      /\ state[parent[r]] = "alive"
                      /\ pc[parent[r]] \in {"L1", "body", "join", "wait"}
                      /\ i[r] = i[parent[r]] + 1
                      /\ state[r] = "zombie" => pc[r] = "L2")'
    <3> SUFFICES ASSUME NEW r \in Others, Live(r)'
                 PROVE  (/\ i[r] >= 1
                         /\ pc[r] \in BeforeReap \cup {"L2"}
                         /\ state[parent[r]] = "alive"
                         /\ pc[parent[r]] \in {"L1", "body", "join", "wait"}
                         /\ i[r] = i[parent[r]] + 1
                         /\ state[r] = "zombie" => pc[r] = "L2")'
      OBVIOUS
    <3>1. CASE r = q
      <4>1. i[p] \in Int /\ i[p] >= 0
        BY DEF TypeOK, Block
      <4>2. /\ state'[r] = "alive" /\ parent'[r] = p
            /\ i'[r] = i[p] + 1 /\ pc'[r] \in {"L0", "L1"}
        BY <2>5, <3>1
      <4>3. i'[p] = i[p] /\ pc'[p] = "L1" /\ state'[p] = "alive"
        BY <1>3, <2>1, <2>5 DEF Clone, At
      <4>4. QED
        BY <4>1, <4>2, <4>3
    <3>2. CASE r # q
      <4>1. Live(r) /\ parent[r] # q /\ parent[r] \in Pid
        BY <1>3, <2>5, <3>2 DEF ChainInv, Clone, TypeOK
      <4>2. /\ state'[r] = state[r] /\ parent'[r] = parent[r] /\ i'[r] = i[r]
            /\ state'[parent[r]] = state[parent[r]] /\ i'[parent[r]] = i[parent[r]]
        BY <2>5, <3>2, <4>1
      <4>3. pc'[r] \in {pc[r], "L1"} /\ pc'[parent[r]] \in {pc[parent[r]], "L1"}
        BY <2>5, <3>2, <4>1
      <4>4. state[r] = "zombie" => pc'[r] = pc[r]
        BY <1>3, <2>5, <3>2 DEF Clone, At
      <4>5. QED
        BY <4>1, <4>2, <4>3, <4>4 DEF ChainInv
    <3>3. QED
      BY <3>1, <3>2
  <2>8. (\A r, t \in Pid : Live(r) /\ Live(t) /\ i[r] = i[t] => r = t)'
    BY <2>3, <2>4, <2>5 DEF ChainInv
  <2>9. (\A r, t \in Pid : Live(r) /\ Live(t) /\ Childless(r) => i[t] <= i[r])'
    <3> SUFFICES ASSUME NEW r \in Pid, NEW t \in Pid,
                        Live(r)', Live(t)', Childless(r)'
                 PROVE  (i[t] <= i[r])'
      OBVIOUS
    <3>1. r # p
      BY <2>1, <2>5
    <3>2. CASE r = q
      BY <2>3, <2>4, <2>5, <3>2
    <3>3. CASE r # q
      <4>1. Childless(r) /\ Live(r)
        BY <2>5, <3>3, <1>3 DEF Clone
      <4>2. i[p] <= i[r]
        BY <1>3, <4>1 DEF ChainInv, Clone, At
      <4>3. i[p] = i[r]
        BY <2>3, <2>4, <4>1, <4>2
      <4>4. QED
        BY <1>3, <3>1, <4>1, <4>3 DEF ChainInv, Clone, At
    <3>4. QED
      BY <3>2, <3>3
  <2>10. (\A r \in Pid : At(r, "L0") => i[r] < N - 1)'
    <3> SUFFICES ASSUME NEW r \in Pid, At(r, "L0")' PROVE (i[r] < N - 1)'
      OBVIOUS
    <3>1. i[p] < N - 1
      BY <1>3 DEF ChainInv, Clone
    <3>2. QED
      BY <2>4, <2>5, <3>1 DEF ChainInv, At
  <2>11. QED
    BY <2>6, <2>7, <2>8, <2>9, <2>10 DEF ChainInv
<1>4. ASSUME NEW p \in Pid, CloneFails(p) PROVE ChainInv'
  BY <1>4 DEF ChainInv, TypeOK, CloneFails, At, Goto
<1>5. ASSUME NEW p \in Pid, Pop(p) PROVE ChainInv'
  BY <1>5 DEF ChainInv, TypeOK, Pop, At, Goto
<1>6. ASSUME NEW p \in Pid, Body(p) PROVE ChainInv'
  BY <1>6 DEF ChainInv, TypeOK, Body, At, Goto
<1>7. ASSUME NEW p \in Pid, EnterJoin(p) PROVE ChainInv'
  <2>1. i[p] = N - 1 => Childless(p)
    <3> SUFFICES ASSUME i[p] = N - 1, NEW q \in Others, Live(q), parent[q] = p
                 PROVE  FALSE
      OBVIOUS
    <3>1. i[q] = N
      BY DEF ChainInv
    <3>2. QED
      BY <3>1 DEF TypeOK, Block
  <2>2. QED
    BY <1>7, <2>1 DEF ChainInv, TypeOK, EnterJoin, At, Goto
<1>8. ASSUME NEW p \in Pid, NEW q \in Pid, Reap(p, q) PROVE ChainInv'
  <2>1. q \in Others /\ Live(q) /\ state[q] = "zombie" /\ parent[q] = p
    BY <1>8 DEF Reap, Children
  <2>2. Childless(q) /\ i[q] = i[p] + 1
    BY <2>1 DEF ChainInv
  <2>3. p # q
    BY <1>8, <2>1 DEF Reap, At
  <2>4. \A r \in Pid : Live(r) => i[r] <= i[q]
    BY <2>1, <2>2 DEF ChainInv
  <2>5. \A r \in Pid : i[r] \in Int
    BY DEF TypeOK, Block
  <2>6. \A r \in Pid : Live(r) /\ r # q => i[r] <= i[p]
    <3> SUFFICES ASSUME NEW r \in Pid, Live(r), r # q PROVE i[r] <= i[p]
      OBVIOUS
    <3>1. i[r] # i[q]
      BY <2>1 DEF ChainInv
    <3>2. QED
      BY <2>2, <2>4, <2>5, <3>1
  <2>7. /\ \A r \in Pid : state'[r] = IF r = q THEN "free" ELSE state[r]
        /\ \A r \in Pid : pc'[r] = IF r = p THEN "L2" ELSE pc[r]
        /\ parent' = parent /\ i' = i
    BY <1>8 DEF Reap, Goto, TypeOK
  <2>8. \A r \in Others : Live(r) /\ r # q => parent[r] # p
    \* a second child would have the same i as the first
    BY <2>1, <2>2 DEF ChainInv
  <2>9. \A r \in Others : Live(r) => parent[r] \in Pid /\ parent[r] # q
    BY <2>2 DEF TypeOK
  <2>10. (state[Main] = "alive" /\ i[Main] = 0)'
    BY <2>1, <2>7 DEF ChainInv
  <2>11. (\A r \in Others :
           Live(r) => /\ i[r] >= 1
                      /\ pc[r] \in BeforeReap \cup {"L2"}
                      /\ state[parent[r]] = "alive"
                      /\ pc[parent[r]] \in {"L1", "body", "join", "wait"}
                      /\ i[r] = i[parent[r]] + 1
                      /\ state[r] = "zombie" => pc[r] = "L2")'
    BY <2>7, <2>8, <2>9 DEF ChainInv
  <2>12. (\A r, t \in Pid : Live(r) /\ Live(t) /\ i[r] = i[t] => r = t)'
    BY <2>7 DEF ChainInv
  <2>13. (\A r, t \in Pid : Live(r) /\ Live(t) /\ Childless(r) => i[t] <= i[r])'
    <3> SUFFICES ASSUME NEW r \in Pid, NEW t \in Pid,
                        Live(r)', Live(t)', Childless(r)'
                 PROVE  i[t] <= i[r]
      BY <2>7
    <3>1. CASE r = p
      BY <2>6, <2>7, <3>1
    <3>2. CASE r # p
      <4>1. Childless(r) /\ Live(r) /\ Live(t)
        BY <2>1, <2>7, <3>2
      <4>2. QED
        BY <4>1 DEF ChainInv
    <3>3. QED
      BY <3>1, <3>2
  <2>14. (\A r \in Pid : At(r, "L0") => i[r] < N - 1)'
    BY <2>7 DEF ChainInv, At
  <2>15. QED
    BY <2>10, <2>11, <2>12, <2>13, <2>14 DEF ChainInv
<1>9. ASSUME NEW p \in Pid, NoChild(p) PROVE ChainInv'
  BY <1>9 DEF ChainInv, TypeOK, NoChild, At, Goto, Children
<1>10. ASSUME NEW p \in Pid, Return(p) PROVE ChainInv'
  <2>1. p = Main
    BY <1>10, OnlyMainOutside DEF Return, At, LeftBarrier
  <2>2. QED
    BY <1>10, <2>1 DEF ChainInv, TypeOK, Return, At, Goto
<1>11. ASSUME NEW p \in Pid, Exit(p) PROVE ChainInv'
  BY <1>11 DEF ChainInv, TypeOK, Exit, At
<1>12. CASE UNCHANGED vars
  BY <1>12 DEF ChainInv, At, vars
<1>13. QED
  BY <1>1, <1>2, <1>3, <1>4, <1>5, <1>6, <1>7, <1>8, <1>9, <1>10, <1>11, <1>12
     DEF Next, Step

\* The words below sp: nobody pushes over the saved registers while a thread
\* has not popped them.
LEMMA StackNext == TypeOK /\ ChainInv /\ StackInv /\ [Next]_vars => StackInv'
<1> SUFFICES ASSUME TypeOK, ChainInv, StackInv, [Next]_vars PROVE StackInv'
  OBVIOUS
<1> USE NAssumption, MainAssumption
<1> USE DEF Reg, CreateSlot, JoinSlot, JoinReg
<1>1. ASSUME NEW c \in Caller, Call(c) PROVE StackInv'
  <2>1. \A p \in Others : state[p] = "free"
    BY <1>1, MainAlone DEF Call
  <2>2. QED
    BY <1>1, <2>1 DEF StackInv, TypeOK, Call, At, Goto, Others
<1>2. ASSUME NEW p \in Pid, Push(p) PROVE StackInv'
  <2>1. p = Main
    BY <1>2, OnlyMainOutside DEF Push
  <2>2. \A q \in Others : state[q] = "free"
    BY <1>2, <2>1, MainAlone DEF Push
  <2>3. regs[p] = Saved(caller)
    BY <1>2 DEF StackInv, Push
  <2>4. \A r \in Reg : stack'[CreateSlot(r)] = <<caller, r>>
    BY <1>2, <2>3 DEF Push, Slot, Saved
  <2>5. /\ \A q \in Pid : q # Main => state'[q] = "free"
        /\ pc'[Main] \in {"L0", "L1"} /\ caller' = caller
    BY <1>2, <2>1, <2>2 DEF TypeOK, Push, Goto, Others
  <2>6. QED
    BY <2>4, <2>5 DEF StackInv, At
<1>3. ASSUME NEW p \in Pid, NEW q \in Pid, Clone(p, q) PROVE StackInv'
  <2>1. q # Main /\ q # p
    BY <1>3 DEF Clone, At, ChainInv
  <2>2. /\ \A r \in Pid : state'[r] = IF r = q THEN "alive" ELSE state[r]
        /\ \A r \in Pid : pc'[r] = IF r = q
                                   THEN IF i[p] + 1 = N - 1 THEN "L1" ELSE "L0"
                                   ELSE IF r = p THEN "L1" ELSE pc[r]
        /\ \A r \in Pid : r # q => regs'[r] = regs[r]
        /\ stack' = stack /\ caller' = caller
    BY <1>3, <2>1 DEF Clone, TypeOK
  <2>3. \A r \in Reg : stack[CreateSlot(r)] = <<caller, r>>
    BY <1>3 DEF StackInv, Clone
  <2>4. QED
    BY <2>1, <2>2, <2>3 DEF StackInv, At
<1>4. ASSUME NEW p \in Pid, CloneFails(p) PROVE StackInv'
  BY <1>4 DEF StackInv, TypeOK, CloneFails, At, Goto
<1>5. ASSUME NEW p \in Pid, Pop(p) PROVE StackInv'
  <2>1. regs'[p] = Saved(caller)
    BY <1>5 DEF StackInv, TypeOK, Pop, Saved
  <2>2. QED
    BY <1>5, <2>1 DEF StackInv, TypeOK, Pop, At, Goto
<1>6. ASSUME NEW p \in Pid, Body(p) PROVE StackInv'
  BY <1>6 DEF StackInv, TypeOK, Body, At, Goto
<1>7. ASSUME NEW p \in Pid, EnterJoin(p) PROVE StackInv'
  <2>1. regs[p] = Saved(caller)
    BY <1>7 DEF StackInv, EnterJoin
  <2>2. i[p] = 0 => p = Main
    <3>1. p \in Others => i[p] >= 1
      BY <1>7 DEF ChainInv, EnterJoin, At, Live
    <3>2. QED
      BY <3>1 DEF Others
  <2>3. i[Main] = 0
    BY DEF ChainInv
  <2>4. \A k \in 1 .. 4 : stack'[k] = stack[k]
    BY <1>7 DEF EnterJoin, TypeOK, Slot
  <2>5. p = Main => /\ \A r \in JoinReg : stack'[JoinSlot(r)] = <<caller, r>>
                    /\ \A r \in Reg \ JoinReg : regs'[Main][r] = <<caller, r>>
    BY <1>7, <2>1, <2>3 DEF EnterJoin, TypeOK, Slot, Saved
  <2>6. p # Main => stack' = stack /\ regs'[Main] = regs[Main]
    BY <1>7, <2>2 DEF EnterJoin, TypeOK
  <2>7. /\ \A r \in Pid : r # p => regs'[r] = regs[r] /\ pc'[r] = pc[r]
        /\ pc'[p] \in {"wait", "L2"} /\ state' = state /\ caller' = caller
    BY <1>7 DEF EnterJoin, TypeOK, Goto
  <2>8. (\A r \in Pid : \A l \in {"seq", "push", "body", "join"} :
            At(r, l) => regs[r] = Saved(caller))'
    BY <2>7 DEF StackInv, At, Saved
  <2>9. (\A r \in Pid : \A l \in {"L0", "L1"} :
            At(r, l) => \A x \in Reg : stack[CreateSlot(x)] = <<caller, x>>)'
    BY <2>4, <2>7 DEF StackInv, At
  <2>10. (\A l \in {"wait", "L2"} :
            At(Main, l) => /\ \A r \in JoinReg : stack[JoinSlot(r)] = <<caller, r>>
                           /\ \A r \in Reg \ JoinReg :
                                regs[Main][r] = <<caller, r>>)'
    <3>1. CASE p = Main
      BY <2>5, <2>7, <3>1
    <3>2. CASE p # Main
      BY <2>6, <2>7, <3>2 DEF StackInv, At
    <3>3. QED
      BY <3>1, <3>2
  <2>11. QED
    BY <2>8, <2>9, <2>10 DEF StackInv
<1>8. ASSUME NEW p \in Pid, NEW q \in Pid, Reap(p, q) PROVE StackInv'
  BY <1>8 DEF StackInv, TypeOK, Reap, At, Goto
<1>9. ASSUME NEW p \in Pid, NoChild(p) PROVE StackInv'
  BY <1>9 DEF StackInv, TypeOK, NoChild, At, Goto
<1>10. ASSUME NEW p \in Pid, Return(p) PROVE StackInv'
  <2>1. p = Main
    BY <1>10, OnlyMainOutside DEF Return, At, LeftBarrier, Live
  <2>2. regs'[p] = Saved(caller)
    BY <1>10, <2>1 DEF StackInv, TypeOK, Return, Saved
  <2>3. QED
    BY <1>10, <2>1, <2>2 DEF StackInv, TypeOK, Return, At, Goto
<1>11. ASSUME NEW p \in Pid, Exit(p) PROVE StackInv'
  BY <1>11 DEF StackInv, TypeOK, Exit, At
<1>12. CASE UNCHANGED vars
  BY <1>12 DEF StackInv, At, vars, Saved
<1>13. QED
  BY <1>1, <1>2, <1>3, <1>4, <1>5, <1>6, <1>7, <1>8, <1>9, <1>10, <1>11, <1>12
     DEF Next, Step

\* Init satisfies every part of the invariant.
LEMMA IInvInit == Init => IInv
<1> SUFFICES ASSUME Init PROVE IInv
  OBVIOUS
<1> USE NAssumption, MainAssumption
<1>1. /\ \A p \in Others : state[p] = "free"
      /\ \A p \in Pid : pc[p] = "seq" /\ i[p] = 0 /\ regs[p] = Saved(caller)
      /\ state[Main] = "alive" /\ ran = {}
  BY DEF Init, Others
<1>2. TypeOK
  BY TypeInit
<1>3. ChainInv
  BY <1>1 DEF ChainInv, Others, Live, At
<1>4. StackInv
  BY <1>1 DEF StackInv, At
<1>5. RanInv
  BY <1>1 DEF RanInv, At, LeftBarrier, BeforeReap
<1>6. CompleteInv
  BY <1>1 DEF CompleteInv, At, LeftBarrier
<1>7. QED
  BY <1>2, <1>3, <1>4, <1>5, <1>6 DEF IInv

\* The blocks that have run are those of the threads that are past them and
\* of the threads behind those that have waited.
LEMMA RanNext == TypeOK /\ ChainInv /\ RanInv /\ [Next]_vars => RanInv'
<1> SUFFICES ASSUME TypeOK, ChainInv, RanInv, [Next]_vars PROVE RanInv'
  OBVIOUS
<1> USE NAssumption, MainAssumption
<1> USE DEF LeftBarrier, Live, Others
<1>0. /\ \A p \in Pid : i[p] \in Int
      /\ \A b \in ran : b \in Int
  BY DEF TypeOK, Block
<1>1. ASSUME NEW c \in Caller, Call(c) PROVE RanInv'
  <2>1. \A p \in Others : state[p] = "free"
    BY <1>1, MainAlone DEF Call
  <2>2. QED
    BY <1>1, <2>1 DEF RanInv, TypeOK, Call, At, Goto, BeforeReap
<1>2. ASSUME NEW p \in Pid, Push(p) PROVE RanInv'
  <2>1. p = Main
    BY <1>2, OnlyMainOutside DEF Push
  <2>2. \A q \in Others : state[q] = "free"
    BY <1>2, <2>1, MainAlone DEF Push
  <2>3. ran' = {} /\ pc'[Main] \in {"L0", "L1"} /\ state' = state
    BY <1>2, <2>1 DEF RanInv, Push, Goto, TypeOK
  <2>4. QED
    BY <2>2, <2>3 DEF RanInv, At
<1>3. ASSUME NEW p \in Pid, NEW q \in Pid, Clone(p, q) PROVE RanInv'
  <2>1. q # Main /\ q # p
    BY <1>3 DEF Clone, At, ChainInv
  <2>2. /\ \A r \in Pid : state'[r] = IF r = q THEN "alive" ELSE state[r]
        /\ \A r \in Pid : parent'[r] = IF r = q THEN p ELSE parent[r]
        /\ \A r \in Pid : i'[r] = IF r = q THEN i[p] + 1 ELSE i[r]
        /\ \A r \in Pid : pc'[r] = IF r = q
                                   THEN IF i[p] + 1 = N - 1 THEN "L1" ELSE "L0"
                                   ELSE IF r = p THEN "L1" ELSE pc[r]
        /\ ran' = ran
    BY <1>3, <2>1 DEF Clone, TypeOK
  <2>3. Childless(p)
    BY <1>3 DEF Clone, At, ChainInv, Childless
  <2>4. \A b \in ran : b <= i[p]
    BY <1>3, <2>3 DEF RanInv, Clone, At, BeforeReap
  <2>5. i[p] \notin ran /\ i[p] + 1 \notin ran
    BY <1>0, <1>3, <2>4 DEF RanInv, Clone
  <2>6. \A r \in Pid : Childless(r)' => r # p /\ (r # q => Childless(r))
    BY <1>3, <2>1, <2>2 DEF Childless, Clone
  <2>7. (At(Main, "push") => ran = {})'
    BY <2>1, <2>2 DEF RanInv, At
  <2>8. (\A r \in Pid : \A l \in {"L0", "L1", "body"} : At(r, l) => i[r] \notin ran)'
    BY <2>2, <2>5, <1>3 DEF RanInv, At, Clone
  <2>9. (\A r \in Pid : \A l \in {"join", "wait", "L2"} :
            Live(r) /\ pc[r] = l => i[r] \in ran)'
    BY <2>2 DEF RanInv
  <2>10. (\A r \in Pid : Live(r) /\ pc[r] \in BeforeReap /\ Childless(r)
                           => \A b \in ran : b <= i[r])'
    <3> SUFFICES ASSUME NEW r \in Pid,
                        (Live(r) /\ pc[r] \in BeforeReap /\ Childless(r))',
                        NEW b \in ran
                 PROVE  b <= i'[r]
      BY <2>2
    <3>1. CASE r = q
      BY <1>0, <2>2, <2>4, <3>1
    <3>2. CASE r # q
      BY <2>2, <2>6, <3>2 DEF RanInv
    <3>3. QED
      BY <3>1, <3>2
  <2>11. (\A r \in Pid : LeftBarrier(r) => \A b \in ran : i[r] .. b \subseteq ran)'
    BY <2>2 DEF RanInv
  <2>12. QED
    BY <2>7, <2>8, <2>9, <2>10, <2>11 DEF RanInv
<1>4. ASSUME NEW p \in Pid, CloneFails(p) PROVE RanInv'
  BY <1>4 DEF RanInv, TypeOK, CloneFails, At, Goto, BeforeReap, Childless
<1>5. ASSUME NEW p \in Pid, Pop(p) PROVE RanInv'
  BY <1>5 DEF RanInv, TypeOK, Pop, At, Goto, BeforeReap, Childless
<1>6. ASSUME NEW p \in Pid, Body(p) PROVE RanInv'
  <2>1. /\ ran' = ran \cup {i[p]} /\ state' = state /\ i' = i
        /\ parent' = parent
        /\ \A r \in Pid : pc'[r] = IF r = p THEN "join" ELSE pc[r]
    BY <1>6 DEF Body, Goto, TypeOK
  <2>2. Live(p) /\ pc[p] = "body"
    BY <1>6 DEF Body, At
  <2>3. \A r \in Pid : Live(r) /\ r # p => i[r] # i[p]
    BY <2>2 DEF ChainInv
  <2>4. \A r \in Pid : Live(r) /\ Childless(r) => i[p] <= i[r]
    BY <2>2 DEF ChainInv
  <2>5. (At(Main, "push") => ran = {})'
    <3>1. At(Main, "push") => p = Main
      BY <1>6, <2>2, MainAlone
    <3>2. QED
      BY <2>1, <2>2, <3>1 DEF At
  <2>6. (\A r \in Pid : \A l \in {"L0", "L1", "body"} : At(r, l) => i[r] \notin ran)'
    BY <2>1, <2>3 DEF RanInv, At
  <2>7. (\A r \in Pid : \A l \in {"join", "wait", "L2"} :
            Live(r) /\ pc[r] = l => i[r] \in ran)'
    BY <2>1 DEF RanInv
  <2>8. (\A r \in Pid : Live(r) /\ pc[r] \in BeforeReap /\ Childless(r)
                           => \A b \in ran : b <= i[r])'
    BY <2>1, <2>2, <2>4 DEF RanInv, BeforeReap, Childless
  <2>9. (\A r \in Pid : LeftBarrier(r) => \A b \in ran : i[r] .. b \subseteq ran)'
    <3> SUFFICES ASSUME NEW r \in Pid, LeftBarrier(r)', NEW b \in ran'
                 PROVE  i[r] .. b \subseteq ran'
      BY <2>1
    <3>1. LeftBarrier(r) /\ r # p
      BY <2>1
    <3>2. CASE b \in ran
      BY <2>1, <3>1, <3>2 DEF RanInv
    <3>3. CASE b = i[p]
      <4>1. Childless(r)
        BY <3>1 DEF ChainInv, Childless
      <4>2. i[p] < i[r]
        BY <1>0, <2>3, <2>4, <3>1, <4>1
      <4>3. i[r] .. b = {}
        BY <1>0, <3>3, <4>2
      <4>4. QED
        BY <4>3
    <3>4. QED
      BY <2>1, <3>2, <3>3
  <2>10. QED
    BY <2>5, <2>6, <2>7, <2>8, <2>9 DEF RanInv
<1>7. ASSUME NEW p \in Pid, EnterJoin(p) PROVE RanInv'
  <2>1. /\ ran' = ran /\ state' = state /\ i' = i /\ parent' = parent
        /\ \A r \in Pid : pc'[r] = IF r = p
                                   THEN IF i[p] = N - 1 THEN "L2" ELSE "wait"
                                   ELSE pc[r]
    BY <1>7 DEF EnterJoin, Goto, TypeOK
  <2>2. Live(p) /\ pc[p] = "join" /\ i[p] \in ran
    BY <1>7 DEF EnterJoin, At, RanInv
  <2>3. (At(Main, "push") => ran = {})'
    BY <2>1 DEF RanInv, At
  <2>4. (\A r \in Pid : \A l \in {"L0", "L1", "body"} : At(r, l) => i[r] \notin ran)'
    BY <2>1 DEF RanInv, At
  <2>5. (\A r \in Pid : \A l \in {"join", "wait", "L2"} :
            Live(r) /\ pc[r] = l => i[r] \in ran)'
    BY <2>1, <2>2 DEF RanInv
  <2>6. (\A r \in Pid : Live(r) /\ pc[r] \in BeforeReap /\ Childless(r)
                           => \A b \in ran : b <= i[r])'
    BY <2>1, <2>2 DEF RanInv, BeforeReap, Childless
  <2>7. (\A r \in Pid : LeftBarrier(r) => \A b \in ran : i[r] .. b \subseteq ran)'
    <3>1. ASSUME i[p] = N - 1, NEW b \in ran, NEW a \in i[p] .. b
          PROVE  a \in ran
      <4>1. b <= N - 1 /\ a \in Int
        BY <1>0 DEF TypeOK, Block
      <4>2. a = i[p]
        BY <1>0, <3>1, <4>1
      <4>3. QED
        BY <2>2, <4>2
    <3>2. QED
      BY <2>1, <3>1 DEF RanInv
  <2>8. QED
    BY <2>3, <2>4, <2>5, <2>6, <2>7 DEF RanInv
<1>8. ASSUME NEW p \in Pid, NEW q \in Pid, Reap(p, q) PROVE RanInv'
  <2>1. q \in Others /\ Live(q) /\ state[q] = "zombie" /\ parent[q] = p
    BY <1>8 DEF Reap, Children
  <2>2. Childless(q) /\ i[q] = i[p] + 1 /\ LeftBarrier(q)
    BY <2>1 DEF ChainInv, Childless
  <2>3. Live(p) /\ pc[p] = "wait" /\ i[p] \in ran
    BY <1>8 DEF Reap, At, RanInv
  <2>4. /\ \A r \in Pid : state'[r] = IF r = q THEN "free" ELSE state[r]
        /\ \A r \in Pid : pc'[r] = IF r = p THEN "L2" ELSE pc[r]
        /\ parent' = parent /\ i' = i /\ ran' = ran
    BY <1>8 DEF Reap, Goto, TypeOK
  <2>5. (At(Main, "push") => ran = {})'
    BY <2>4 DEF RanInv, At
  <2>6. (\A r \in Pid : \A l \in {"L0", "L1", "body"} : At(r, l) => i[r] \notin ran)'
    BY <2>4 DEF RanInv, At
  <2>7. (\A r \in Pid : \A l \in {"join", "wait", "L2"} :
            Live(r) /\ pc[r] = l => i[r] \in ran)'
    BY <2>3, <2>4 DEF RanInv
  <2>8. (\A r \in Pid : Live(r) /\ pc[r] \in BeforeReap /\ Childless(r)
                           => \A b \in ran : b <= i[r])'
    <3> SUFFICES ASSUME NEW r \in Pid,
                        (Live(r) /\ pc[r] \in BeforeReap /\ Childless(r))'
                 PROVE  \A b \in ran : b <= i[r]
      BY <2>4
    <3>1. r # p /\ r # q
      BY <2>4 DEF BeforeReap
    <3>2. Childless(r) /\ Live(r) /\ pc[r] \in BeforeReap
      BY <2>1, <2>4, <3>1 DEF Childless
    <3>3. QED
      BY <3>2 DEF RanInv
  <2>9. (\A r \in Pid : LeftBarrier(r) => \A b \in ran : i[r] .. b \subseteq ran)'
    <3> SUFFICES ASSUME NEW r \in Pid, LeftBarrier(r)', NEW b \in ran
                 PROVE  i[r] .. b \subseteq ran
      BY <2>4
    <3>1. CASE r = p
      <4>1. i[q] .. b \subseteq ran
        BY <2>2, <2>1 DEF RanInv
      <4>2. \A a \in i[p] .. b : a = i[p] \/ a \in i[q] .. b
        BY <1>0, <2>2
      <4>3. QED
        BY <2>3, <3>1, <4>1, <4>2
    <3>2. CASE r # p
      BY <2>4, <3>2 DEF RanInv
    <3>3. QED
      BY <3>1, <3>2
  <2>10. QED
    BY <2>5, <2>6, <2>7, <2>8, <2>9 DEF RanInv
<1>9. ASSUME NEW p \in Pid, NoChild(p) PROVE RanInv'
  <2>1. /\ ran' = ran /\ state' = state /\ i' = i /\ parent' = parent
        /\ \A r \in Pid : pc'[r] = IF r = p THEN "L2" ELSE pc[r]
    BY <1>9 DEF NoChild, Goto, TypeOK
  <2>2. Live(p) /\ pc[p] = "wait" /\ i[p] \in ran /\ Childless(p)
    BY <1>9 DEF NoChild, At, RanInv, Children, Childless
  <2>3. \A b \in ran : b <= i[p]
    BY <2>2 DEF RanInv, BeforeReap
  <2>4. \A b \in ran : i[p] .. b \subseteq ran
    BY <1>0, <2>2, <2>3
  <2>5. (At(Main, "push") => ran = {})'
    BY <2>1 DEF RanInv, At
  <2>6. (\A r \in Pid : \A l \in {"L0", "L1", "body"} : At(r, l) => i[r] \notin ran)'
    BY <2>1 DEF RanInv, At
  <2>7. (\A r \in Pid : \A l \in {"join", "wait", "L2"} :
            Live(r) /\ pc[r] = l => i[r] \in ran)'
    BY <2>1, <2>2 DEF RanInv
  <2>8. (\A r \in Pid : Live(r) /\ pc[r] \in BeforeReap /\ Childless(r)
                           => \A b \in ran : b <= i[r])'
    BY <2>1 DEF RanInv, BeforeReap, Childless
  <2>9. (\A r \in Pid : LeftBarrier(r) => \A b \in ran : i[r] .. b \subseteq ran)'
    BY <2>1, <2>4 DEF RanInv
  <2>10. QED
    BY <2>5, <2>6, <2>7, <2>8, <2>9 DEF RanInv
<1>10. ASSUME NEW p \in Pid, Return(p) PROVE RanInv'
  <2>1. p = Main
    BY <1>10, OnlyMainOutside DEF Return, At
  <2>2. QED
    BY <1>10, <2>1 DEF RanInv, TypeOK, Return, At, Goto, BeforeReap, Childless
<1>11. ASSUME NEW p \in Pid, Exit(p) PROVE RanInv'
  BY <1>11 DEF RanInv, TypeOK, Exit, At, Childless
<1>12. CASE UNCHANGED vars
  BY <1>12 DEF RanInv, At, Childless, vars
<1>13. QED
  BY <1>1, <1>2, <1>3, <1>4, <1>5, <1>6, <1>7, <1>8, <1>9, <1>10, <1>11, <1>12
     DEF Next, Step

\* Without clone failures the chain always reaches thread N - 1, so a thread
\* that has waited has every later block behind it.
LEMMA CompleteNext ==
  TypeOK /\ ChainInv /\ RanInv /\ CompleteInv /\ [Next]_vars => CompleteInv'
<1> SUFFICES ASSUME TypeOK, ChainInv, RanInv, CompleteInv, [Next]_vars,
                    ~CloneMayFail
             PROVE  CompleteInv'
  BY DEF CompleteInv
<1> USE NAssumption, MainAssumption
<1> USE DEF LeftBarrier, Live, Others
<1>0. /\ \A p \in Pid : i[p] \in Block /\ i[p] \in Int
      /\ i[Main] = 0
  BY DEF TypeOK, Block, ChainInv
<1>1. ASSUME NEW c \in Caller, Call(c) PROVE CompleteInv'
  <2>1. \A p \in Others : state[p] = "free"
    BY <1>1, MainAlone DEF Call
  <2>2. pc'[Main] = "push" /\ state' = state
    BY <1>1 DEF Call, Goto, TypeOK
  <2>3. QED
    BY <2>1, <2>2 DEF CompleteInv, At
<1>2. ASSUME NEW p \in Pid, Push(p) PROVE CompleteInv'
  <2>1. p = Main
    BY <1>2, OnlyMainOutside DEF Push
  <2>2. \A q \in Others : state[q] = "free"
    BY <1>2, <2>1, MainAlone DEF Push
  <2>3. /\ pc'[Main] = IF N - 1 <= 0 THEN "L1" ELSE "L0"
        /\ state' = state /\ i'[Main] = 0
    BY <1>2, <2>1 DEF Push, Goto, TypeOK
  <2>4. QED
    BY <2>2, <2>3 DEF CompleteInv, At
<1>3. ASSUME NEW p \in Pid, NEW q \in Pid, Clone(p, q) PROVE CompleteInv'
  <2>1. q # Main /\ q # p
    BY <1>3 DEF Clone, At, ChainInv
  <2>2. /\ \A r \in Pid : state'[r] = IF r = q THEN "alive" ELSE state[r]
        /\ \A r \in Pid : parent'[r] = IF r = q THEN p ELSE parent[r]
        /\ \A r \in Pid : i'[r] = IF r = q THEN i[p] + 1 ELSE i[r]
        /\ \A r \in Pid : pc'[r] = IF r = q
                                   THEN IF i[p] + 1 = N - 1 THEN "L1" ELSE "L0"
                                   ELSE IF r = p THEN "L1" ELSE pc[r]
        /\ ran' = ran
    BY <1>3, <2>1 DEF Clone, TypeOK
  <2>3. \A r \in Pid : Childless(r)' => r # p /\ (r # q => Childless(r))
    BY <1>3, <2>1, <2>2 DEF Childless, Clone
  <2>4. QED
    BY <2>2, <2>3 DEF CompleteInv, At
<1>4. ASSUME NEW p \in Pid, CloneFails(p) PROVE CompleteInv'
  BY <1>4 DEF CloneFails
<1>5. ASSUME NEW p \in Pid, Pop(p) PROVE CompleteInv'
  BY <1>5 DEF CompleteInv, TypeOK, Pop, At, Goto, Childless
<1>6. ASSUME NEW p \in Pid, Body(p) PROVE CompleteInv'
  BY <1>6 DEF CompleteInv, TypeOK, Body, At, Goto, Childless
<1>7. ASSUME NEW p \in Pid, EnterJoin(p) PROVE CompleteInv'
  <2>1. /\ ran' = ran /\ state' = state /\ i' = i /\ parent' = parent
        /\ \A r \in Pid : pc'[r] = IF r = p
                                   THEN IF i[p] = N - 1 THEN "L2" ELSE "wait"
                                   ELSE pc[r]
    BY <1>7 DEF EnterJoin, Goto, TypeOK
  <2>2. At(p, "join") /\ i[p] \in ran
    BY <1>7 DEF EnterJoin, At, RanInv
  <2>3. Childless(p) => i[p] = N - 1
    BY <2>2 DEF CompleteInv
  <2>4. i[p] = N - 1 => i[p] .. N - 1 \subseteq ran
    BY <1>0, <2>2
  <2>5. QED
    BY <2>1, <2>3, <2>4 DEF CompleteInv, At, Childless
<1>8. ASSUME NEW p \in Pid, NEW q \in Pid, Reap(p, q) PROVE CompleteInv'
  <2>1. q \in Others /\ Live(q) /\ state[q] = "zombie" /\ parent[q] = p
    BY <1>8 DEF Reap, Children
  <2>2. i[q] = i[p] + 1 /\ LeftBarrier(q)
    BY <2>1 DEF ChainInv
  <2>3. i[p] \in ran
    BY <1>8 DEF Reap, At, RanInv
  <2>4. /\ \A r \in Pid : state'[r] = IF r = q THEN "free" ELSE state[r]
        /\ \A r \in Pid : pc'[r] = IF r = p THEN "L2" ELSE pc[r]
        /\ parent' = parent /\ i' = i /\ ran' = ran
    BY <1>8 DEF Reap, Goto, TypeOK
  <2>5. i[p] .. N - 1 \subseteq ran
    <3>1. i[q] .. N - 1 \subseteq ran
      BY <2>1, <2>2 DEF CompleteInv
    <3>2. \A a \in i[p] .. N - 1 : a = i[p] \/ a \in i[q] .. N - 1
      BY <1>0, <2>2
    <3>3. QED
      BY <2>3, <3>1, <3>2
  <2>6. \A r \in Pid : r # p /\ Childless(r)' => Childless(r)
    BY <2>1, <2>4 DEF Childless
  <2>7. QED
    BY <2>4, <2>5, <2>6 DEF CompleteInv, At
<1>9. ASSUME NEW p \in Pid, NoChild(p) PROVE CompleteInv'
  \* a thread that waits is not the last one, so it has a child
  <2>1. At(p, "wait") /\ Childless(p)
    BY <1>9 DEF NoChild, Children, Childless
  <2>2. QED
    BY <2>1 DEF CompleteInv
<1>10. ASSUME NEW p \in Pid, Return(p) PROVE CompleteInv'
  <2>1. p = Main
    BY <1>10, OnlyMainOutside DEF Return, At
  <2>2. QED
    BY <1>10, <2>1 DEF CompleteInv, TypeOK, Return, At, Goto, Childless
<1>11. ASSUME NEW p \in Pid, Exit(p) PROVE CompleteInv'
  BY <1>11 DEF CompleteInv, TypeOK, Exit, At, Childless
<1>12. CASE UNCHANGED vars
  BY <1>12 DEF CompleteInv, At, Childless, vars
<1>13. QED
  BY <1>1, <1>2, <1>3, <1>4, <1>5, <1>6, <1>7, <1>8, <1>9, <1>10, <1>11, <1>12
     DEF Next, Step

-----------------------------------------------------------------------------

\* The invariant that carries every result below holds in every reachable
\* state of the runtime.
THEOREM InductiveInvariant == Spec => []IInv
<1>1. IInv /\ [Next]_vars => IInv'
  BY TypeNext, ChainNext, StackNext, RanNext, CompleteNext DEF IInv
<1>2. QED
  BY IInvInit, <1>1, PTL DEF Spec

\* Every variable stays in its range: in particular thread ids stay below n,
\* so the compiled code's dispatch on thread_id always finds a block.
THEOREM TypeCorrect == Spec => []TypeOK
<1>1. IInv => TypeOK
  BY DEF IInv
<1>2. QED
  BY InductiveInvariant, <1>1, PTL

\* __join_threads is a barrier: past its waitid, thread 0 is the only process
\* of the program left, for any number of threads and even if clone fails.
THEOREM BarrierHolds == Spec => []JoinBarrier
<1>1. IInv => JoinBarrier
  BY MainAlone DEF IInv, JoinBarrier
<1>2. QED
  BY InductiveInvariant, <1>1, PTL

\* Compiled code never sees a register another thread has overwritten on the
\* stack they share.
THEOREM RegistersSafe == Spec => []RegistersRestored
<1>1. IInv => RegistersRestored
  BY DEF IInv, StackInv, RegistersRestored
<1>2. QED
  BY InductiveInvariant, <1>1, PTL

\* A thread exits only after its child has been reaped.
THEOREM NoOrphansEver == Spec => []NoOrphans
<1>1. IInv => NoOrphans
  BY DEF IInv, ChainInv, NoOrphans, Children, Others, Live
<1>2. QED
  BY InductiveInvariant, <1>1, PTL

\* No block is run twice: neither again later nor by two threads at once.
THEOREM BlockOnceEver == Spec => []BlockOnce
<1>1. IInv => BlockOnce
  BY DEF IInv, ChainInv, RanInv, BlockOnce, At, Live
<1>2. QED
  BY InductiveInvariant, <1>1, PTL

\* Whatever clone does, the blocks that ran before thread 0 goes on are a
\* prefix of the loop that contains block 0.
THEOREM PrefixAlways == Spec => []PrefixRan
<1>1. IInv => PrefixRan
  <2> SUFFICES ASSUME IInv, At(Main, "L2")
               PROVE  0 \in ran /\ \A b \in ran : 0 .. b \subseteq ran
    BY DEF PrefixRan
  <2>1. i[Main] = 0
    BY DEF IInv, ChainInv
  <2>2. QED
    BY <2>1, MainAssumption DEF IInv, RanInv, At, Live, LeftBarrier
<1>2. QED
  BY InductiveInvariant, <1>1, PTL

\* When clone does not fail, every block has run before thread 0 goes on.
LEMMA CompleteAtBarrier == ~CloneMayFail /\ IInv => AllBlocksRan
<1> SUFFICES ASSUME ~CloneMayFail, IInv, At(Main, "L2") PROVE ran = Block
  BY DEF AllBlocksRan
<1>1. i[Main] = 0
  BY DEF IInv, ChainInv
<1>2. 0 .. N - 1 \subseteq ran
  BY <1>1, MainAssumption DEF IInv, CompleteInv, At, Live, LeftBarrier
<1>3. QED
  BY <1>2 DEF IInv, TypeOK, Block

THEOREM AllBlocksAlwaysRan == ASSUME ~CloneMayFail PROVE Spec => []AllBlocksRan
<1>1. IInv => AllBlocksRan
  BY CompleteAtBarrier
<1>2. QED
  BY InductiveInvariant, <1>1, PTL

\* The runtime implements the fork-join section the compiler relies on, for
\* every number of threads, on a kernel whose clone succeeds.
THEOREM Refinement == ASSUME ~CloneMayFail PROVE Spec => ImplementsForkJoin
<1>1. Init => FJ!Init
  BY MainAssumption DEF Init, FJ!Init
<1>2. IInv /\ [Next]_vars => [FJ!Next]_(FJ!vars)
  <2> SUFFICES ASSUME IInv, [Next]_vars PROVE [FJ!Next]_(FJ!vars)
    OBVIOUS
  <2> USE MainAssumption, NAssumption
  <2> USE DEF FJ!vars, FJ!Next, FJ!Fork, FJ!Run, FJ!Join
  <2>0. TypeOK /\ ChainInv /\ RanInv
    BY DEF IInv
  <2>1. ASSUME NEW c \in Caller, Call(c) PROVE [FJ!Next]_(FJ!vars)
    BY <2>0, <2>1 DEF Call, At, Goto, TypeOK
  <2>2. ASSUME NEW p \in Pid, Body(p) PROVE [FJ!Next]_(FJ!vars)
    <3>1. i[p] \in Block /\ i[p] \notin ran
      BY <2>0, <2>2 DEF Body, RanInv, TypeOK
    <3>2. pc[Main] # "seq" /\ pc'[Main] # "seq"
      <4>1. pc[Main] # "seq"
        BY <2>0, <2>2, MainAlone DEF Body, At, Others, ChainInv
      <4>2. QED
        BY <2>0, <2>2, <4>1 DEF Body, Goto, TypeOK
    <3>3. ran' = ran \cup {i[p]}
      BY <2>2 DEF Body
    <3>4. QED
      BY <3>1, <3>2, <3>3
  <2>3. ASSUME NEW p \in Pid, Return(p) PROVE [FJ!Next]_(FJ!vars)
    <3>1. p = Main
      BY <2>0, <2>3, OnlyMainOutside DEF Return, At, LeftBarrier, Live
    <3>2. ran = Block
      BY <2>3, <3>1, CompleteAtBarrier DEF Return, AllBlocksRan
    <3>3. QED
      BY <2>0, <2>3, <3>1, <3>2 DEF Return, At, Goto, TypeOK
  <2>4. ASSUME ran' = ran, (pc[Main] = "seq") <=> (pc'[Main] = "seq")
        PROVE  [FJ!Next]_(FJ!vars)
    BY <2>4
  <2>5. ASSUME NEW p \in Pid, Push(p) PROVE [FJ!Next]_(FJ!vars)
    BY <2>0, <2>4, <2>5 DEF Push, At, Goto, TypeOK
  <2>6. ASSUME NEW p \in Pid, NEW q \in Pid, Clone(p, q)
        PROVE  [FJ!Next]_(FJ!vars)
    <3>1. q # Main
      BY <2>0, <2>6 DEF Clone, ChainInv
    <3>2. QED
      BY <2>0, <2>4, <2>6, <3>1 DEF Clone, At, TypeOK
  <2>7. ASSUME NEW p \in Pid, Pop(p) \/ EnterJoin(p) \/ NoChild(p)
        PROVE  [FJ!Next]_(FJ!vars)
    BY <2>0, <2>4, <2>7 DEF Pop, EnterJoin, NoChild, At, Goto, TypeOK
  <2>8. ASSUME NEW p \in Pid, Exit(p) PROVE [FJ!Next]_(FJ!vars)
    BY <2>4, <2>8 DEF Exit
  <2>9. ASSUME NEW p \in Pid, NEW q \in Pid, Reap(p, q)
        PROVE  [FJ!Next]_(FJ!vars)
    BY <2>0, <2>4, <2>9 DEF Reap, At, Goto, TypeOK
  <2>10. CASE UNCHANGED vars
    BY <2>4, <2>10 DEF vars
  <2>11. QED
    BY <2>1, <2>2, <2>3, <2>5, <2>6, <2>7, <2>8, <2>9, <2>10
       DEF Next, Step, CloneFails
<1>3. QED
  BY <1>1, <1>2, InductiveInvariant, PTL DEF Spec, FJ!Spec, ImplementsForkJoin

-----------------------------------------------------------------------------
(* A section is left: nobody waits for nothing, and every step counts *)

\* The process can go on: clone finds a free number or fails, waitid a dead
\* child or none.
CanMove(p) ==
  \/ \E l \in {"push", "L1", "body", "join", "L2"} : At(p, l)
  \/ At(p, "L0") /\ (CloneMayFail \/ \E q \in Pid : state[q] = "free")
  \/ At(p, "wait") /\ (Children(p) = {} \/ \E q \in Children(p) : state[q] = "zombie")
EnoughPids == IsFiniteSet(Pid) => Cardinality(Pid) >= N
SomeoneMoves == ~At(Main, "seq") => \E p \in Pid : CanMove(p)

\* How far a thread is, and what the threads of the section have behind them:
\* those after one that has waited are done.
Stage(p) == CASE pc[p] = "seq" -> 0 [] pc[p] = "push" -> 1 [] pc[p] = "L0" -> 2 [] pc[p] = "L1" -> 3
              [] pc[p] = "body" -> 4 [] pc[p] = "join" -> 5 [] pc[p] = "wait" -> 6
              [] pc[p] = "L2" -> IF state[p] = "zombie" THEN 8 ELSE 7
Behind == {x \in Block \X (0 .. 8) :
             \E p \in Pid : /\ Live(p)
                            /\ \/ i[p] = x[1] /\ x[2] <= Stage(p)
                               \/ i[p] < x[1] /\ pc[p] = "L2"}

LEMMA TailExists ==
  ASSUME IInv
  PROVE  \E p \in Pid : Live(p) /\ Childless(p)
<1>0. TypeOK /\ ChainInv
  BY DEF IInv
<1> SUFFICES ASSUME \A p \in Pid : Live(p) => ~Childless(p) PROVE FALSE
  OBVIOUS
<1> DEFINE S == {k \in Nat : \E p \in Pid : Live(p) /\ i[p] >= k}
<1>1. 0 \in S
  BY <1>0, MainAssumption DEF ChainInv, Live
<1>2. ASSUME NEW k \in S PROVE k + 1 \in S
  <2>1. PICK p \in Pid : Live(p) /\ i[p] >= k
    OBVIOUS
  <2>2. PICK q \in Others : Live(q) /\ parent[q] = p
    BY <2>1 DEF Childless
  <2>3. i[q] = i[p] + 1 /\ i[p] \in Int /\ q \in Pid
    BY <1>0, <2>2 DEF ChainInv, TypeOK, Block, Others
  <2>4. QED
    BY <2>1, <2>2, <2>3
<1>3. S = Nat
  <2> HIDE DEF S
  <2>1. QED
    BY <1>1, <1>2, NatSet DEF S
<1>4. PICK p \in Pid : i[p] >= N
  BY <1>3, NAssumption
<1>5. QED
  BY <1>0, <1>4, NAssumption DEF TypeOK, Block

\* While a thread is still to clone the next one a process number is free.
LEMMA NumberFree ==
  ASSUME IInv, EnoughPids, NEW p \in Pid, At(p, "L0"), Childless(p)
  PROVE  \E q \in Pid : state[q] = "free"
<1>0. TypeOK /\ ChainInv /\ N \in Nat \ {0}
  BY NAssumption DEF IInv
<1> SUFFICES ASSUME \A q \in Pid : Live(q) PROVE FALSE
  BY DEF Live
<1>1. \A q \in Pid : i[q] \in 0 .. N - 2
  <2>1. i[p] < N - 1 /\ \A q \in Pid : i[q] <= i[p] /\ i[q] \in 0 .. N - 1
    BY <1>0 DEF ChainInv, TypeOK, Block, At, Live
  <2>2. QED
    BY <1>0, <2>1
<1>2. \A q, r \in Pid : i[q] = i[r] => q = r
  BY <1>0 DEF ChainInv
<1>3. i \in Injection(Pid, 0 .. N - 2)
  BY <1>0, <1>1, <1>2 DEF Injection, IsInjective, TypeOK
<1>4. IsFiniteSet(0 .. N - 2) /\ Cardinality(0 .. N - 2) <= N - 1 /\ Cardinality(0 .. N - 2) \in Nat
  <2>1. 0 \in Int /\ N - 2 \in Int
    BY <1>0
  <2> DEFINE b == N - 2
  <2>2. b \in Int
    BY <2>1
  <2> HIDE DEF b
  <2>3. /\ IsFiniteSet(0 .. b)
        /\ Cardinality(0 .. b) = IF 0 > b THEN 0 ELSE b - 0 + 1
    BY <2>1, <2>2, FS_Interval
  <2>4. QED
    BY <1>0, <2>3 DEF b
<1>5. IsFiniteSet(Pid) /\ Cardinality(Pid) <= N - 1 /\ Cardinality(Pid) \in Nat
  BY <1>0, <1>3, <1>4, FS_Injection, FS_CardinalityType
<1>6. QED
  BY <1>0, <1>5 DEF EnoughPids

\* In a section some thread can always go on, for any number of threads, if
\* there are as many process numbers as threads.
THEOREM NobodyStuck == ASSUME EnoughPids PROVE Spec => []SomeoneMoves
<1>1. IInv => SomeoneMoves
  <2> SUFFICES ASSUME IInv, ~At(Main, "seq") PROVE \E p \in Pid : CanMove(p)
    BY DEF SomeoneMoves
  <2>0. TypeOK /\ ChainInv
    BY DEF IInv
  <2>1. PICK p \in Pid : Live(p) /\ Childless(p)
    BY TailExists
  <2>2. CASE p = Main
    <3>1. state[p] = "alive" /\ pc[p] \in Label \ {"seq"}
      BY <2>0, <2>2, MainAssumption DEF ChainInv, At, TypeOK
    <3>2. CASE pc[p] = "wait"
      <4>1. Children(p) = {}
        BY <2>1 DEF Childless, Children, Others, Live
      <4>2. QED
        BY <3>1, <3>2, <4>1 DEF CanMove, At
    <3>3. CASE pc[p] = "L0"
      BY <2>1, <3>1, <3>3, NumberFree DEF CanMove, At
    <3>4. QED
      BY <3>1, <3>2, <3>3 DEF CanMove, At, Label
  <2>3. CASE p # Main /\ state[p] = "alive"
    <3>1. p \in Others /\ pc[p] \in {"L0", "L1", "body", "join", "wait", "L2"}
      BY <2>0, <2>1, <2>3 DEF ChainInv, Others, BeforeReap
    <3>2. CASE pc[p] = "wait"
      <4>1. Children(p) = {}
        BY <2>1 DEF Childless, Children, Others, Live
      <4>2. QED
        BY <2>3, <3>2, <4>1 DEF CanMove, At
    <3>3. CASE pc[p] = "L0"
      BY <2>1, <2>3, <3>3, NumberFree DEF CanMove, At
    <3>4. QED
      BY <2>3, <3>1, <3>2, <3>3 DEF CanMove, At
  \* The tail has exited: its parent can take it out of the table.
  <2>4. CASE p # Main /\ state[p] # "alive"
    <3>1. p \in Others /\ state[p] = "zombie"
      BY <2>0, <2>1, <2>4 DEF TypeOK, Live, Others
    <3>2. /\ state[parent[p]] = "alive" /\ parent[p] \in Pid
          /\ pc[parent[p]] \in {"L1", "body", "join", "wait"}
      BY <2>0, <2>1, <3>1 DEF ChainInv, TypeOK, Others
    <3>3. p \in Children(parent[p])
      BY <3>1 DEF Children, Others
    <3>4. CanMove(parent[p])
      BY <3>1, <3>2, <3>3 DEF CanMove, At
    <3>5. QED
      BY <3>2, <3>4
  <2>5. QED
    BY <2>2, <2>3, <2>4
<1>2. QED
  BY InductiveInvariant, <1>1, PTL

\* What a step of p owes: p is further, and whoever is gone comes after it.
LEMMA FurtherCounts ==
  ASSUME IInv, TypeOK', NEW p \in Pid, Live(p), Live(p)', i'[p] = i[p],
         Stage(p)' > Stage(p), pc[p] = "L2" => pc'[p] = "L2",
         \A r \in Pid : Live(r) /\ r # p =>
           \/ /\ state'[r] = state[r] /\ i'[r] = i[r] /\ pc'[r] = pc[r]
           \/ pc'[p] = "L2" /\ i[p] < i[r]
  PROVE  Behind \subseteq Behind' /\ Behind # Behind'
<1>0. TypeOK /\ ChainInv
  BY DEF IInv
<1>1. \A r \in Pid : Stage(r) \in 0 .. 8 /\ Stage(r)' \in 0 .. 8
  BY <1>0 DEF TypeOK, Stage, Label
<1>2. \A r \in Pid : i[r] \in Int
  BY <1>0 DEF TypeOK, Block
<1>3. \A r \in Pid : /\ state'[r] = state[r] /\ pc'[r] = pc[r]
                     => Stage(r)' = Stage(r) /\ Live(r)' = Live(r)
  BY DEF Stage, Live
<1>4. Behind \subseteq Behind'
  <2> SUFFICES ASSUME NEW x \in Behind PROVE x \in Behind'
    OBVIOUS
  <2>1. /\ x \in Block \X (0 .. 8)
        /\ x[1] \in Int /\ x[2] \in Int
    BY DEF Behind, Block
  <2>2. PICK r \in Pid : /\ Live(r)
                         /\ \/ i[r] = x[1] /\ x[2] <= Stage(r)
                            \/ i[r] < x[1] /\ pc[r] = "L2"
    BY DEF Behind
  <2>3. CASE r = p
    <3>1. \/ i'[p] = x[1] /\ x[2] <= Stage(p)'
          \/ i'[p] < x[1] /\ pc'[p] = "L2"
      BY <1>1, <2>1, <2>2, <2>3
    <3>2. QED
      BY <2>1, <3>1 DEF Behind
  <2>4. CASE /\ r # p
             /\ state'[r] = state[r] /\ i'[r] = i[r] /\ pc'[r] = pc[r]
    <3>1. /\ Live(r)'
          /\ \/ i'[r] = x[1] /\ x[2] <= Stage(r)'
             \/ i'[r] < x[1] /\ pc'[r] = "L2"
      BY <1>3, <2>2, <2>4
    <3>2. QED
      BY <2>1, <3>1 DEF Behind
  <2>5. CASE pc'[p] = "L2" /\ i[p] < i[r]
    <3>1. i'[p] < x[1] /\ pc'[p] = "L2"
      BY <1>2, <2>1, <2>2, <2>5
    <3>2. QED
      BY <2>1, <3>1 DEF Behind
  <2>6. QED
    BY <2>2, <2>3, <2>4, <2>5
<1> DEFINE y == <<i[p], Stage(p)'>>
<1>5. y \in Behind'
  <2>1. y \in Block \X (0 .. 8) /\ y[1] = i'[p] /\ y[2] = Stage(p)'
    BY <1>0, <1>1 DEF TypeOK
  <2>2. y[2] <= Stage(p)'
    BY <1>1
  <2> HIDE DEF y
  <2>3. QED
    BY <2>1, <2>2 DEF Behind
<1>6. y \notin Behind
  <2> SUFFICES ASSUME y \in Behind PROVE FALSE
    OBVIOUS
  <2>1. PICK r \in Pid : /\ Live(r)
                         /\ \/ i[r] = i[p] /\ Stage(p)' <= Stage(r)
                            \/ i[r] < i[p] /\ pc[r] = "L2"
    BY DEF Behind
  <2>2. CASE i[r] = i[p] /\ Stage(p)' <= Stage(r)
    <3>1. r = p
      BY <1>0, <2>1, <2>2 DEF ChainInv
    <3>2. QED
      BY <1>1, <2>2, <3>1
  \* A thread that has waited has no child: it is the tail.
  <2>3. CASE i[r] < i[p] /\ pc[r] = "L2"
    <3>1. Childless(r)
      BY <1>0, <2>1, <2>3 DEF Childless, ChainInv
    <3>2. i[p] <= i[r]
      BY <1>0, <2>1, <3>1 DEF ChainInv
    <3>3. QED
      BY <1>2, <2>3, <3>2
  <2>4. QED
    BY <2>1, <2>2, <2>3
<1>7. QED
  BY <1>4, <1>5, <1>6

\* No step inside a section is taken in vain: each adds to Behind, a subset of
\* Block \X 0 .. 8, so that a section of N threads is left after at most 9 N.
THEOREM EveryStepCounts ==
  Spec => [][(\E p \in Pid : Step(p)) /\ pc'[Main] # "seq"
               => Behind \subseteq Behind' /\ Behind # Behind']_vars
<1> DEFINE Counts == (\E p \in Pid : Step(p)) /\ pc'[Main] # "seq"
                       => Behind \subseteq Behind' /\ Behind # Behind'
<1>1. IInv /\ [Next]_vars => [Counts]_vars
  <2> SUFFICES ASSUME IInv, Next, NEW p \in Pid, Step(p), pc'[Main] # "seq"
               PROVE  Behind \subseteq Behind' /\ Behind # Behind'
    OBVIOUS
  <2>0. TypeOK /\ ChainInv
    BY DEF IInv
  <2>1. TypeOK'
    BY <2>0, TypeNext
  <2>2. CASE Push(p)
    <3>1. p = Main /\ i[p] = 0
      BY <2>0, <2>2 DEF Push, At, ChainInv, Others, BeforeReap, Live
    <3>2. /\ Live(p) /\ Live(p)' /\ i'[p] = i[p] /\ pc[p] # "L2"
          /\ \A r \in Pid : r # p => /\ state'[r] = state[r] /\ i'[r] = i[r]
                                     /\ pc'[r] = pc[r]
      BY <2>0, <2>2, <3>1 DEF Push, At, Goto, TypeOK, Live
    <3>3. Stage(p)' > Stage(p)
      BY <2>0, <2>2 DEF Push, At, Goto, TypeOK, Stage
    <3>4. QED
      BY <2>1, <3>2, <3>3, FurtherCounts
  <2>3. CASE CloneFails(p) \/ Pop(p) \/ Body(p) \/ EnterJoin(p) \/ NoChild(p)
    <3>1. /\ Live(p) /\ Live(p)' /\ i'[p] = i[p] /\ pc[p] # "L2"
          /\ \A r \in Pid : r # p => /\ state'[r] = state[r] /\ i'[r] = i[r]
                                     /\ pc'[r] = pc[r]
      BY <2>0, <2>3
         DEF CloneFails, Pop, Body, EnterJoin, NoChild, At, Goto, TypeOK, Live
    <3>2. Stage(p)' > Stage(p)
      BY <2>0, <2>3
         DEF CloneFails, Pop, Body, EnterJoin, NoChild, At, Goto, TypeOK, Stage
    <3>3. QED
      BY <2>1, <3>1, <3>2, FurtherCounts
  <2>4. CASE Return(p)
    <3>1. p = Main
      BY <2>0, <2>4 DEF Return, At, ChainInv, Others, Live
    <3>2. QED
      BY <2>0, <2>4, <3>1 DEF Return, Goto, TypeOK
  <2>5. CASE Exit(p)
    <3>1. /\ Live(p) /\ Live(p)' /\ i'[p] = i[p] /\ pc'[p] = pc[p]
          /\ \A r \in Pid : r # p => /\ state'[r] = state[r] /\ i'[r] = i[r]
                                     /\ pc'[r] = pc[r]
      BY <2>0, <2>5 DEF Exit, At, TypeOK, Live
    <3>2. Stage(p)' > Stage(p)
      BY <2>0, <2>5 DEF Exit, At, TypeOK, Stage
    <3>3. QED
      BY <2>1, <3>1, <3>2, FurtherCounts
  <2>6. ASSUME NEW q \in Pid, Clone(p, q) PROVE Behind \subseteq Behind' /\ Behind # Behind'
    <3>1. p # q /\ ~Live(q)
      BY <2>6 DEF Clone, At, Live
    <3>2. /\ Live(p) /\ Live(p)' /\ i'[p] = i[p] /\ pc[p] # "L2"
          /\ \A r \in Pid : r # p /\ r # q =>
               /\ state'[r] = state[r] /\ i'[r] = i[r] /\ pc'[r] = pc[r]
      BY <2>0, <2>6, <3>1 DEF Clone, At, TypeOK, Live
    <3>3. Stage(p)' > Stage(p)
      BY <2>0, <2>6, <3>1 DEF Clone, At, TypeOK, Stage
    <3>4. QED
      BY <2>1, <3>1, <3>2, <3>3, FurtherCounts
  <2>7. ASSUME NEW q \in Pid, Reap(p, q) PROVE Behind \subseteq Behind' /\ Behind # Behind'
    <3>1. p # q /\ i[p] < i[q]
      BY <2>0, <2>7 DEF Reap, At, Children, ChainInv, TypeOK, Block, Others, Live
    <3>2. /\ Live(p) /\ Live(p)' /\ i'[p] = i[p] /\ pc[p] # "L2" /\ pc'[p] = "L2"
          /\ \A r \in Pid : r # p /\ r # q =>
               /\ state'[r] = state[r] /\ i'[r] = i[r] /\ pc'[r] = pc[r]
      BY <2>0, <2>7, <3>1 DEF Reap, At, Goto, TypeOK, Live
    <3>3. Stage(p)' > Stage(p)
      BY <2>0, <2>7, <3>1 DEF Reap, At, Goto, TypeOK, Stage
    <3>4. QED
      BY <2>1, <3>1, <3>2, <3>3, FurtherCounts
  <2>8. QED
    BY <2>2, <2>3, <2>4, <2>5, <2>6, <2>7 DEF Step
<1>2. QED
  BY <1>1, InductiveInvariant, PTL DEF Spec
=============================================================================

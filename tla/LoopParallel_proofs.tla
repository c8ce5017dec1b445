------------------------ MODULE LoopParallel_proofs -------------------------
(* Machine-checked proofs about LoopParallel, for any number of threads, any *)
(* width of the registers and every loop that the dependence test accepts.   *)
EXTENDS LoopParallel, Induction

-----------------------------------------------------------------------------
(* Arithmetic in registers *)

\* 2^(W-1) counts the subsets of a set.
LEMMA HalfNat == Half \in Nat \ {0}
<1>1. IsFiniteSet(1 .. W - 1) /\ Cardinality(1 .. W - 1) = W - 1
  <2>1. W - 1 \in Nat
    BY WAssumption
  <2>2. QED
    BY <2>1, FS_Interval
<1>2. /\ IsFiniteSet(SUBSET (1 .. W - 1))
      /\ Cardinality(SUBSET (1 .. W - 1)) = 2 ^ (W - 1)
  BY <1>1, FS_SUBSET
<1>3. Half \in Nat
  BY <1>2, FS_CardinalityType DEF Half
<1>4. Half # 0
  BY <1>2, FS_EmptySet DEF Half
<1>5. QED
  BY <1>3, <1>4

\* Int32 holds one number of each residue class modulo 2^W, and Wrap finds it.
LEMMA WrapClass ==
  ASSUME NEW x \in Int
  PROVE  /\ Wrap(x) \in Int32
         /\ \E q \in Int : Wrap(x) = x + q * (2 * Half)
<1> DEFINE M == 2 * Half
<1>1. M \in Nat \ {0} /\ x + Half \in Int /\ Half \in Nat \ {0}
  BY HalfNat
<1>2. \A a \in Int, m \in Nat \ {0} : /\ a % m \in 0 .. m - 1
                                     /\ a \div m \in Int
                                     /\ a = ((a \div m) * m) + (a % m)
  OBVIOUS
<1>3. Wrap(x) \in Int32
  <2> DEFINE r == (x + Half) % M
  <2>1. r \in 0 .. M - 1
    BY <1>1, <1>2
  <2>2. Wrap(x) = r - Half
    BY DEF Wrap
  <2> HIDE DEF r
  <2>3. QED
    BY <1>1, <2>1, <2>2 DEF Int32
<1>4. \E q \in Int : Wrap(x) = x + q * M
  <2> DEFINE r == (x + Half) % M
             d == (x + Half) \div M
  <2>1. r \in Int /\ d \in Int /\ x + Half = (d * M) + r
    <3> DEFINE a == x + Half
    <3>1. a \in Int /\ M \in Nat \ {0}
      BY <1>1
    <3> HIDE DEF a, M
    <3>2. a % M \in 0 .. M - 1 /\ a \div M \in Int /\ a = ((a \div M) * M) + (a % M)
      BY <1>2, <3>1
    <3>3. a % M \in Int
      BY <3>1, <3>2
    <3>4. QED
      BY <3>2, <3>3 DEF a
  <2>2. Wrap(x) = r - Half
    BY DEF Wrap
  <2> HIDE DEF r, d
  <2>3. -d \in Int /\ (-d) * M = -(d * M) /\ d * M \in Int
    BY <1>1, <2>1
  <2>4. Wrap(x) = x + (-d) * M
    BY <1>1, <2>1, <2>2, <2>3
  <2>5. QED
    BY <2>3, <2>4
<1>5. QED
  BY <1>3, <1>4

LEMMA WrapUnique ==
  ASSUME NEW x \in Int32, NEW y \in Int32, NEW q \in Int, x = y + q * (2 * Half)
  PROVE  x = y
<1> DEFINE M == 2 * Half
<1>1. x \in Int /\ y \in Int /\ M \in Nat \ {0} /\ x - y < M /\ y - x < M
  BY HalfNat DEF Int32
<1>2. \A m \in Nat \ {0} : q * m \in Int /\ (q > 0 => q * m >= m) /\ (q < 0 => q * m <= -m)
  OBVIOUS
<1> HIDE DEF M
<1>3. x = y + q * M
  BY DEF M
<1>4. q * M \in Int /\ (q > 0 => q * M >= M) /\ (q < 0 => q * M <= -M)
  BY <1>1, <1>2
<1>5. ~(q > 0) /\ ~(q < 0)
  BY <1>1, <1>3, <1>4
<1>6. q = 0
  BY <1>5
<1>7. QED
  BY <1>1, <1>3, <1>6

LEMMA WrapInt32 ==
  ASSUME NEW x \in Int32
  PROVE  x \in Int /\ Wrap(x) = x
<1>1. x \in Int
  BY HalfNat DEF Int32
<1>2. QED
  BY <1>1, WrapClass, WrapUnique

\* Only the class matters to what is computed next.
LEMMA WrapSame ==
  ASSUME NEW x \in Int, NEW y \in Int, NEW q \in Int, x = y + q * (2 * Half)
  PROVE  Wrap(x) = Wrap(y)
<1> DEFINE M == 2 * Half
<1>1. M \in Int
  BY HalfNat
<1>2. PICK a \in Int : Wrap(x) = x + a * M
  BY WrapClass
<1>3. PICK b \in Int : Wrap(y) = y + b * M
  BY WrapClass
<1> HIDE DEF M
<1>4. x = y + q * M
  BY DEF M
<1>5. Wrap(x) = Wrap(y) + (q + a - b) * M
  <2>1. (q + a - b) * M = q * M + a * M - b * M
    BY <1>1
  <2>2. q * M \in Int /\ a * M \in Int /\ b * M \in Int
    BY <1>1
  <2>3. QED
    BY <1>2, <1>3, <1>4, <2>1, <2>2
<1>6. q + a - b \in Int
  OBVIOUS
<1>7. QED
  BY <1>5, <1>6, WrapClass, WrapUnique DEF M

LEMMA WrapAdd ==
  ASSUME NEW x \in Int, NEW y \in Int
  PROVE  /\ Wrap(x) \in Int
         /\ Wrap(Wrap(x) + y) = Wrap(x + y)
         /\ Wrap(y + Wrap(x)) = Wrap(y + x)
         /\ Wrap(y - Wrap(x)) = Wrap(y - x)
<1> DEFINE M == 2 * Half
<1>1. M \in Int
  BY HalfNat
<1>2. PICK a \in Int : Wrap(x) = x + a * M
  BY WrapClass
<1> HIDE DEF M
<1>3. a * M \in Int /\ (-a) * M = -(a * M) /\ -a \in Int
  BY <1>1
<1>4. Wrap(x) \in Int
  BY <1>2, <1>3
<1>5. Wrap(x) + y = (x + y) + a * M /\ y + Wrap(x) = (y + x) + a * M
  BY <1>2, <1>3
<1>6. y - Wrap(x) = (y - x) + (-a) * M
  BY <1>2, <1>3
<1>7. Wrap(Wrap(x) + y) = Wrap(x + y) /\ Wrap(y + Wrap(x)) = Wrap(y + x)
  BY <1>4, <1>5, WrapSame DEF M
<1>8. Wrap(y - Wrap(x)) = Wrap(y - x)
  BY <1>3, <1>4, <1>6, WrapSame DEF M
<1>9. QED
  BY <1>4, <1>7, <1>8

-----------------------------------------------------------------------------
(* The contract with the thread runtime *)

\* Where the threads are: nobody has joined before the section starts.
PcInv ==
  /\ phase \in {"entry", "par", "nopar", "done"}
  /\ DOMAIN th = Tid
  /\ \A t \in Tid : "pc" \in DOMAIN th[t]
  /\ phase \in {"entry", "nopar"} => \A t \in Tid : th[t].pc # "joined"
  /\ phase = "par" => UsePar

LEMMA PcInit == Init => PcInv
BY DEF Init, PcInv, Idle

\* Nobody leaves "joined", and only ExitPar gets there.
LEMMA StepPc ==
  ASSUME PcInv, NEW t \in Tid, Step(t)
  PROVE  /\ UNCHANGED <<l, phase>>
         /\ DOMAIN th' = Tid
         /\ \A u \in Tid : "pc" \in DOMAIN th'[u]
         /\ \A u \in Tid \ {t} : th'[u] = th[u]
         /\ th[t].pc # "joined"
         /\ th'[t].pc = "joined" => phase = "par"
<1>1. CASE Load(t)
  BY <1>1 DEF Load, PcInv
<1>2. CASE Store(t)
  BY <1>2 DEF Store, PcInv, Thread
<1>3. CASE ExitPar(t)
  BY <1>3 DEF ExitPar, PcInv
<1>4. QED
  BY <1>1, <1>2, <1>3 DEF Step

LEMMA PcNext == PcInv /\ [Next]_vars => PcInv'
<1> SUFFICES ASSUME PcInv, [Next]_vars PROVE PcInv'
  OBVIOUS
<1>1. CASE EnterPar
  BY <1>1 DEF EnterPar, PcInv, Thread, UsePar, LoopTimes
<1>2. CASE EnterNoPar
  BY <1>2 DEF EnterNoPar, PcInv, Thread
<1>3. CASE NewExit
  BY <1>3 DEF NewExit, PcInv
<1>4. CASE ExitNoPar
  BY <1>4 DEF ExitNoPar, PcInv
<1>5. ASSUME NEW t \in Tid, Step(t) PROVE PcInv'
  BY <1>5, StepPc DEF PcInv, UsePar, LoopTimes
<1>6. CASE UNCHANGED vars
  BY <1>6 DEF vars, PcInv, UsePar, LoopTimes
<1>7. QED
  BY <1>1, <1>2, <1>3, <1>4, <1>5, <1>6 DEF Next, Done

LEMMA PcAlways == Spec => []PcInv
BY PcInit, PcNext, PTL DEF Spec

\* The generated code runs the block of each thread exactly once and goes on
\* only when all have run: what thread.S implements is what it relies on.
THEOREM KeepsContract == Spec => KeepsForkJoin
<1> DEFINE bar == IF phase = "par" THEN "par" ELSE "seq"
           ran == {t \in Tid : th[t].pc = "joined"}
<1>1. Init => FJ!Init
  BY DEF Init, Idle, FJ!Init
<1>2. PcInv /\ [Next]_vars => [FJ!Next]_(FJ!vars)
  <2> SUFFICES ASSUME PcInv, [Next]_vars PROVE FJ!Next \/ (bar' = bar /\ ran' = ran)
    BY DEF FJ!vars
  <2>1. CASE EnterPar
    <3>1. \A t \in Tid : th'[t].pc # "joined"
      BY <2>1 DEF EnterPar, Thread
    <3>2. FJ!Fork
      BY <2>1, <3>1 DEF EnterPar, FJ!Fork
    <3>3. QED
      BY <3>2 DEF FJ!Next
  <2>2. CASE EnterNoPar
    BY <2>2 DEF EnterNoPar, PcInv, Thread
  <2>3. CASE NewExit
    <3>1. FJ!Join
      BY <2>3 DEF NewExit, FJ!Join
    <3>2. QED
      BY <3>1 DEF FJ!Next
  <2>4. CASE ExitNoPar
    BY <2>4 DEF ExitNoPar
  <2>5. ASSUME NEW t \in Tid, Step(t) PROVE FJ!Next \/ (bar' = bar /\ ran' = ran)
    <3>1. CASE th'[t].pc = "joined"
      <4>1. FJ!Run(t)
        BY <2>5, <3>1, StepPc DEF FJ!Run
      <4>2. QED
        BY <4>1 DEF FJ!Next
    <3>2. CASE th'[t].pc # "joined"
      BY <2>5, <3>2, StepPc
    <3>3. QED
      BY <3>1, <3>2
  <2>6. CASE UNCHANGED vars
    BY <2>6 DEF vars
  <2>7. QED
    BY <2>1, <2>2, <2>3, <2>4, <2>5, <2>6 DEF Next, Done
<1>3. QED
  BY <1>1, <1>2, PcAlways, PTL DEF Spec, KeepsForkJoin, FJ!Spec

-----------------------------------------------------------------------------
(* The blocks *)

\* The loops whose limit is not so far below the base that the difference wraps
\* round to a positive number.
Fits(x) == x.base \in Int32 /\ x.c \in Int32 /\ x.c - x.base >= -Half

\* Facts about the integers that the provers need to be told.
LEMMA Quotient ==
  ASSUME NEW n \in Nat, NEW m \in Nat \ {0}
  PROVE  /\ n \div m \in Nat
         /\ (n \div m) * m <= n
         /\ n < (n \div m + 1) * m
OBVIOUS

LEMMA Monotonic ==
  ASSUME NEW b \in Nat, NEW t \in Nat, NEW u \in Nat, t <= u
  PROVE  b * t \in Nat /\ b * t <= b * u
OBVIOUS

\* The bounds of a block, computed in registers, are those of arithmetic.
LEMMA BlockBounds ==
  ASSUME Fits(l), UsePar, l.leq \in BOOLEAN, NEW t \in Tid
  PROVE  /\ BlockSize \in Nat \ {0}
         /\ BlockSize * N <= l.c - l.base
         /\ BlockOffset(t) = BlockSize * t
         /\ NewBase(t) = l.base + BlockSize * t
         /\ NewC(t) = IF t = N - 1 THEN l.c
                      ELSE l.base + BlockSize * (t + 1) - (IF l.leq THEN 1 ELSE 0)
<1> DEFINE d == l.c - l.base
           B == BlockSize
<1>1. Half \in Int
  BY HalfNat
<1>2. l.base \in Int /\ l.c \in Int /\ d \in Int
  BY <1>1 DEF Fits, Int32
<1>3. LoopTimes = d /\ d < Half
  <2>1. CASE d < Half
    <3>1. d \in Int32
      BY <1>1, <1>2, <2>1 DEF Fits, Int32
    <3>2. QED
      BY <1>1, <2>1, <3>1, WrapInt32 DEF LoopTimes
  <2>2. CASE ~(d < Half)
    <3>1. Half \in Nat \ {0} /\ d + Half >= 2 * Half /\ d + Half < 4 * Half
      BY <1>1, <1>2, <2>2 DEF Fits, Int32
    <3>2. \A a \in Nat, m \in Nat \ {0} : a >= m /\ a < 2 * m => a % m = a - m
      OBVIOUS
    <3>3. (d + Half) % (2 * Half) = d + Half - 2 * Half
      BY <1>2, <3>1, <3>2
    <3>4. Wrap(d) = d - 2 * Half
      BY <1>2, <3>1, <3>3 DEF Wrap
    <3>5. d < 2 * Half
      BY <1>1, <1>2 DEF Fits, Int32
    <3>6. QED
      BY <1>2, <3>1, <3>4, <3>5, MinTimesAssumption, NAssumption DEF UsePar, LoopTimes
  <2>3. QED
    BY <2>1, <2>2
<1>4. d \in Nat /\ d > N
  BY <1>2, <1>3, MinTimesAssumption, NAssumption DEF UsePar
<1>5. B \in Nat /\ B * N <= d /\ d < (B + 1) * N
  BY <1>3, <1>4, NAssumption, Quotient DEF BlockSize
<1>6. B # 0
  BY <1>4, <1>5, NAssumption
<1>7. \A u \in 0 .. N : B * u \in Nat /\ B * u <= d
  <2> TAKE u \in 0 .. N
  <2>1. B * u \in Nat /\ B * u <= B * N
    BY <1>5, NAssumption, Monotonic
  <2>2. QED
    BY <1>4, <1>5, <2>1, NAssumption
<1>8. t \in Nat /\ t \in 0 .. N /\ t + 1 \in 0 .. N
  BY NAssumption DEF Tid
<1>9. \A u \in 0 .. N : B * u \in Int32 /\ l.base + B * u \in Int32
  BY <1>1, <1>2, <1>3, <1>4, <1>7 DEF Fits, Int32
<1>10. BlockOffset(t) = B * t /\ NewBase(t) = l.base + B * t
  BY <1>1, <1>8, <1>9, WrapInt32 DEF NewBase, BlockOffset
<1>11. NewBase(t) + B = l.base + B * (t + 1)
  BY <1>2, <1>5, <1>8, <1>10
<1>12. B * (t + 1) >= 1
  BY <1>5, <1>6, <1>7, <1>8
<1>13. /\ Wrap(NewBase(t) + B) = l.base + B * (t + 1)
       /\ Wrap(l.base + B * (t + 1) - 1) = l.base + B * (t + 1) - 1
  <2>1. l.base + B * (t + 1) - 1 \in Int32
    BY <1>1, <1>2, <1>7, <1>8, <1>9, <1>12 DEF Fits, Int32
  <2>2. QED
    BY <1>1, <1>8, <1>9, <1>11, <2>1, WrapInt32
<1>14. NewC(t) = IF t = N - 1 THEN l.c
                 ELSE l.base + B * (t + 1) - (IF l.leq THEN 1 ELSE 0)
  <2> DEFINE e == l.base + B * (t + 1)
             w == Wrap(NewBase(t) + B)
  <2>1. e \in Int
    BY <1>2, <1>7, <1>8
  <2>2. w = e /\ Wrap(e - 1) = e - 1
    BY <1>2, <1>5, <1>7, <1>8, <1>13
  <2>3. NewC(t) = IF t = N - 1 THEN l.c ELSE IF l.leq THEN Wrap(w - 1) ELSE w
    BY Zenon DEF NewC
  <2> HIDE DEF e, w
  <2>4. NewC(t) = IF t = N - 1 THEN l.c ELSE e - (IF l.leq THEN 1 ELSE 0)
    <3>1. CASE l.leq
      BY <2>1, <2>2, <2>3, <3>1
    <3>2. CASE ~l.leq
      BY <2>1, <2>2, <2>3, <3>2
    <3>3. QED
      BY <3>1, <3>2
  <2>5. QED
    BY <1>2, <1>5, <1>7, <1>8, <2>1, <2>4 DEF e
<1>15. QED
  BY <1>5, <1>6, <1>10, <1>14

\* In a section, every iteration belongs to the block of one thread.
LEMMA BlocksNow ==
  ASSUME Fits(l), l.leq \in BOOLEAN, PcInv
  PROVE  BlocksTile
<1> SUFFICES ASSUME phase = "par"
             PROVE  /\ \A n \in Int32 : n \in l.base .. l.base + Trips - 1
                                          <=> \E t \in Tid : InBlock(t, n)
                    /\ \A n \in Int32 : \A t, u \in Tid :
                         InBlock(t, n) /\ InBlock(u, n) => t = u
  BY DEF BlocksTile
<1> DEFINE B == BlockSize
           e == l.c + (IF l.leq THEN 1 ELSE 0)
           In(t, n) == /\ l.base + B * t <= n
                       /\ n < IF t = N - 1 THEN e ELSE l.base + B * (t + 1)
<1>1. Fits(l) /\ UsePar /\ l.leq \in BOOLEAN
  BY DEF PcInv
<1>2. Half \in Int
  BY HalfNat
<1>3. l.base \in Int /\ l.c \in Int /\ e \in Int /\ Int32 \subseteq Int
  BY <1>1, <1>2 DEF Fits, Int32
<1>4. 0 \in Tid /\ N - 1 \in Tid /\ Tid \subseteq Nat /\ N \in Nat \ {0}
  BY NAssumption DEF Tid
<1>5. B \in Nat \ {0} /\ l.base + B * N <= e
  BY <1>1, <1>3, <1>4, BlockBounds
<1>6. \A t \in 0 .. N : B * t \in Nat /\ B * t <= B * N
  BY <1>4, <1>5, Monotonic
<1>7. ASSUME NEW t \in Tid, NEW n \in Int32 PROVE InBlock(t, n) <=> In(t, n)
  <2>1. B * (t + 1) \in Nat /\ B * t \in Nat
    BY <1>4, <1>5, <1>6 DEF Tid
  <2>2. /\ NewBase(t) = l.base + B * t
        /\ NewC(t) = IF t = N - 1 THEN l.c
                     ELSE l.base + B * (t + 1) - (IF l.leq THEN 1 ELSE 0)
    BY <1>1, BlockBounds
  <2>3. CASE l.leq
    BY <1>3, <2>1, <2>2, <2>3 DEF InBlock
  <2>4. CASE ~l.leq
    BY <1>3, <2>1, <2>2, <2>4 DEF InBlock
  <2>5. QED
    BY <2>3, <2>4
<1>8. l.base + Trips = e
  <2>1. B * N \in Nat /\ l.base + B * N <= l.c
    BY <1>1, <1>3, <1>4, <1>5, <1>6, BlockBounds
  <2>2. CASE l.leq
    BY <1>3, <2>1, <2>2 DEF Trips
  <2>3. CASE ~l.leq
    BY <1>3, <1>5, <2>1, <2>3 DEF Trips
  <2>4. QED
    BY <2>2, <2>3
<1>9. ASSUME NEW n \in Int32, NEW t \in Tid, InBlock(t, n)
      PROVE  l.base <= n /\ n < e
  <2>1. In(t, n)
    BY <1>7, <1>9
  <2>2. l.base <= n
    BY <1>3, <1>4, <1>6, <2>1 DEF Tid
  <2>3. CASE t = N - 1
    BY <2>1, <2>2, <2>3
  <2>4. CASE t # N - 1
    <3>1. t + 1 \in 0 .. N
      BY <1>4 DEF Tid
    <3>2. QED
      BY <1>3, <1>4, <1>5, <1>6, <2>1, <2>2, <2>4, <3>1
  <2>5. QED
    BY <2>3, <2>4
<1>10. ASSUME NEW n \in Int32, l.base <= n, n < e
       PROVE  \E t \in Tid : InBlock(t, n)
  <2> DEFINE q == (n - l.base) \div B
  <2>1. n \in Int /\ n - l.base \in Nat
    BY <1>3, <1>10
  <2>2. q \in Nat /\ q * B <= n - l.base /\ n - l.base < (q + 1) * B
    BY <1>5, <2>1, Quotient
  <2>3. CASE q < N - 1
    <3>1. q \in Tid
      BY <1>4, <2>2, <2>3 DEF Tid
    <3>2. In(q, n)
      <4>1. B * q = q * B /\ B * (q + 1) = (q + 1) * B
        BY <1>5, <2>2
      <4>2. l.base + B * q <= n /\ n < l.base + B * (q + 1)
        BY <1>3, <1>5, <2>1, <2>2, <4>1
      <4>3. q # N - 1
        BY <1>4, <2>2, <2>3
      <4>4. QED
        BY <4>2, <4>3
    <3>3. QED
      BY <1>7, <3>1, <3>2
  <2>4. CASE ~(q < N - 1)
    <3>1. N - 1 \in Nat /\ N - 1 <= q
      BY <1>4, <2>2, <2>4
    <3>2. B * (N - 1) <= B * q
      BY <1>5, <2>2, <3>1, Monotonic
    <3>3. In(N - 1, n)
      BY <1>3, <1>5, <1>10, <2>1, <2>2, <3>1, <3>2
    <3>4. QED
      BY <1>4, <1>7, <3>3
  <2>5. QED
    BY <2>3, <2>4
<1>11. ASSUME NEW n \in Int32, NEW t \in Tid, NEW u \in Tid, t < u, InBlock(t, n)
       PROVE  ~InBlock(u, n)
  <2>1. In(t, n)
    BY <1>7, <1>11
  <2>2. t # N - 1 /\ t + 1 \in Nat /\ u \in Nat /\ t + 1 <= u
    BY <1>4, <1>11 DEF Tid
  <2>3. B * (t + 1) \in Nat /\ B * u \in Nat /\ B * (t + 1) <= B * u
    BY <1>5, <2>2, Monotonic
  <2>4. n < l.base + B * u
    BY <1>3, <2>1, <2>2, <2>3
  <2>5. QED
    BY <1>3, <1>7, <2>3, <2>4
<1>12. ASSUME NEW n \in Int32, NEW t \in Tid, NEW u \in Tid, InBlock(t, n), InBlock(u, n)
       PROVE  t = u
  BY <1>4, <1>11, <1>12
<1>13. \A n \in Int32 : n \in l.base .. l.base + Trips - 1 <=> l.base <= n /\ n < e
  <2>1. Trips \in Int
    BY <1>3, <1>1 DEF Trips
  <2>2. \A n \in Int : n \in l.base .. l.base + Trips - 1 <=> l.base <= n /\ n < l.base + Trips
    BY <1>3, <2>1
  <2>3. QED
    BY <1>3, <1>8, <2>2
<1>14. QED
  BY <1>9, <1>10, <1>12, <1>13

\* The blocks of the threads tile the iterations: none is lost, none is run
\* twice, whatever is left over by the division goes to the last thread.
THEOREM Tile ==
  ASSUME \A x \in Accepted : Fits(x) /\ x.leq \in BOOLEAN
  PROVE  Spec => []BlocksTile
<1>1. l \in Accepted /\ PcInv => BlocksTile
  BY BlocksNow
<1>2. Init => l \in Accepted
  BY DEF Init
<1>3. l \in Accepted /\ [Next]_vars => (l \in Accepted)'
  <2>1. \A t \in Tid : Step(t) => l' = l
    BY DEF Step, Load, Store, ExitPar
  <2>2. [Next]_vars => l' = l
    BY <2>1 DEF Next, EnterPar, EnterNoPar, NewExit, ExitNoPar, Done, vars
  <2>3. QED
    BY <2>2 DEF Accepted
<1>4. QED
  BY <1>1, <1>2, <1>3, PcAlways, PTL DEF Spec

-----------------------------------------------------------------------------
(* Types *)

LEMMA LoopTypes ==
  ASSUME l \in Accepted
  PROVE  /\ l.base \in Int32 /\ l.c \in Int32 /\ l.jbase \in Int32 /\ l.jstep \in Int32
         /\ l.accbase \in Int32 /\ l.s \in Int32 /\ l.leq \in BOOLEAN
         /\ Int32 \subseteq Int
         /\ DOMAIN l.read = DOMAIN l.write
         /\ \A m \in DOMAIN l.write : /\ l.write[m] \in [i : Int, j : Int, s : Int, k : Int]
                                    /\ l.read[m] \in [i : Int, j : Int, s : Int, k : Int]
<1>1. IsLoop(l)
  BY LoopsAssumption DEF Accepted
<1>2. Int32 \subseteq Int
  BY HalfNat DEF Int32
<1>3. QED
  BY <1>1, <1>2 DEF IsLoop

LEMMA ValueType ==
  ASSUME l \in Accepted, NEW x, x.i \in Int, x.j \in Int, NEW m \in DOMAIN l.write
  PROVE  Value(l.write[m], x) \in Int /\ Value(l.read[m], x) \in Int
<1>1. \A t \in [i : Int, j : Int, s : Int, k : Int] : Value(t, x) \in Int
  <2> TAKE t \in [i : Int, j : Int, s : Int, k : Int]
  <2>1. t.i * x.i \in Int /\ t.j * x.j \in Int /\ t.s * l.s \in Int /\ t.k \in Int
    BY LoopTypes
  <2>2. QED
    BY <2>1 DEF Value
<1>2. QED
  BY <1>1, LoopTypes

LEMMA CellType ==
  ASSUME l \in Accepted, NEW x, x.i \in Int, x.j \in Int
  PROVE  /\ Cell(l.write, x) \in [DOMAIN l.read -> Int32]
         /\ Cell(l.read, x) \in [DOMAIN l.read -> Int32]
<1>1. \A m \in DOMAIN l.write : /\ Wrap(Value(l.write[m], x)) \in Int32
                               /\ Wrap(Value(l.read[m], x)) \in Int32
  BY ValueType, WrapClass
<1>2. DOMAIN l.read = DOMAIN l.write
  BY LoopTypes
<1>3. QED
  BY <1>1, <1>2 DEF Cell

\* A load finds a word, whatever has been written.
LEMMA FetchType ==
  ASSUME l \in Accepted, NEW x, x.i \in Int, x.j \in Int,
         NEW memory, \A a \in DOMAIN memory : memory[a] \in Int32
  PROVE  Fetch(memory, Cell(l.read, x)) \in Int32
<1>1. l \in Loops
  BY DEF Accepted
<1>2. Before(Cell(l.read, x)) \in Int32
  BY <1>1, CellType, BeforeAssumption
<1>3. QED
  BY <1>2 DEF Fetch

LEMMA AdvanceType ==
  ASSUME l \in Accepted, NEW x \in Registers, NEW v \in Int32
  PROVE  Advance(x, v) \in Registers /\ Stored(x, v) \in Int32
<1>1. x.i + 1 \in Int /\ x.j + l.jstep \in Int /\ x.acc + v \in Int /\ v + x.i + 1 \in Int
  BY LoopTypes DEF Registers
<1>2. QED
  BY <1>1, WrapClass DEF Advance, Stored, Registers

LEMMA StartType ==
  ASSUME l \in Accepted, NEW t \in Tid
  PROVE  Start \in Registers /\ ThreadStart(t) \in Registers /\ NewC(t) \in Int32
<1>1. Start \in Registers
  BY LoopTypes DEF Start, Registers
<1>2. LoopTimes \in Int /\ 0 \in Int32
  <2>1. l.c - l.base \in Int
    BY LoopTypes
  <2>2. QED
    BY <2>1, WrapClass, LoopTypes, HalfNat DEF LoopTimes, Int32
<1>3. BlockSize \in Int
  BY <1>2, NAssumption DEF BlockSize
<1>4. BlockSize * t \in Int
  BY <1>3, NAssumption DEF Tid
<1>5. BlockOffset(t) \in Int /\ BlockOffset(t) * l.jstep \in Int
  BY <1>4, WrapClass, LoopTypes DEF BlockOffset
<1>6. NewBase(t) \in Int32 /\ NewBase(t) \in Int
  <2>1. l.base + BlockOffset(t) \in Int
    BY <1>5, LoopTypes
  <2>2. QED
    BY <2>1, WrapClass, LoopTypes DEF NewBase
<1>7. ThreadStart(t) \in Registers
  <2>1. Wrap(BlockOffset(t) * l.jstep) + l.jbase \in Int
    BY <1>5, WrapClass, LoopTypes
  <2>2. Wrap(Wrap(BlockOffset(t) * l.jstep) + l.jbase) \in Int32
    BY <2>1, WrapClass
  <2>3. QED
    BY <1>2, <1>6, <2>2 DEF ThreadStart, Registers
<1>8. NewC(t) \in Int32
  <2>1. NewBase(t) + BlockSize \in Int
    BY <1>3, <1>6
  <2>2. Wrap(NewBase(t) + BlockSize) \in Int32 /\ Wrap(NewBase(t) + BlockSize) - 1 \in Int
    BY <2>1, WrapClass, LoopTypes
  <2>3. Wrap(Wrap(NewBase(t) + BlockSize) - 1) \in Int32
    BY <2>2, WrapClass
  <2>4. QED
    BY <2>2, <2>3, LoopTypes DEF NewC
<1>9. QED
  BY <1>1, <1>7, <1>8

\* Reducing the shares of the threads, one after the other.
LEMMA SummedEquations ==
  ASSUME l \in Accepted, outReduce \in [Tid -> Int32]
  PROVE  /\ Summed[0] = l.accbase
         /\ \A t \in Tid : /\ Summed[t] \in Int32
                           /\ Summed[t + 1] = Wrap(Summed[t] + outReduce[t])
         /\ Summed[N] \in Int32
<1> DEFINE share(t) == IF t \in Tid THEN outReduce[t] ELSE 0
           g == [p \in Nat \X Int32 |-> Wrap(p[2] + share(p[1] - 1))]
<1>1. g \in [Nat \X Int32 -> Int32]
  <2> SUFFICES ASSUME NEW p \in Nat \X Int32 PROVE Wrap(p[2] + share(p[1] - 1)) \in Int32
    OBVIOUS
  <2>1. share(p[1] - 1) \in Int /\ p[2] \in Int
    BY LoopTypes
  <2>2. p[2] + share(p[1] - 1) \in Int
    BY <2>1
  <2>3. QED
    BY <2>2, WrapClass
<1>2. \E f \in [Nat -> Int32] : Recurs(f, l.accbase, g)
  <2>1. l.accbase \in Int32
    BY LoopTypes
  <2> HIDE DEF g
  <2>2. QED
    BY <1>1, <2>1, NatRecursion
<1>3. PICK f \in [Nat -> Int32] : Recurs(f, l.accbase, g)
  BY <1>2
<1>4. N \in Nat
  BY NAssumption
<1>5. ASSUME NEW t \in 1 .. N PROVE f[t] = Wrap(f[t - 1] + outReduce[t - 1])
  <2>1. t \in Nat \ {0} /\ t - 1 \in Nat /\ t - 1 \in Tid
    BY <1>4 DEF Tid
  <2>2. f[t] = g[<<t, f[t - 1]>>]
    BY <1>3, <2>1 DEF Recurs
  <2>3. <<t, f[t - 1]>> \in Nat \X Int32
    BY <2>1
  <2>4. QED
    BY <2>1, <2>2, <2>3
<1> DEFINE h == [t \in 0 .. N |-> f[t]]
<1>6. h = [t \in 0 .. N |-> IF t = 0 THEN l.accbase ELSE Wrap(h[t - 1] + outReduce[t - 1])]
  <2> SUFFICES ASSUME NEW t \in 0 .. N
               PROVE  f[t] = IF t = 0 THEN l.accbase ELSE Wrap(h[t - 1] + outReduce[t - 1])
    OBVIOUS
  <2>1. CASE t = 0
    BY <1>3, <2>1 DEF Recurs
  <2>2. CASE t # 0
    <3>1. t \in 1 .. N /\ t - 1 \in 0 .. N
      BY <1>4, <2>2
    <3>2. h[t - 1] = f[t - 1]
      BY <3>1
    <3>3. QED
      BY <1>5, <2>2, <3>1, <3>2
  <2>3. QED
    BY <2>1, <2>2
<1> HIDE DEF h
<1>7. Summed = [t \in 0 .. N |-> IF t = 0 THEN l.accbase ELSE Wrap(Summed[t - 1] + outReduce[t - 1])]
  BY <1>6 DEF Summed
<1>8. Summed[0] = l.accbase
  BY <1>4, <1>7
<1>9. ASSUME NEW t \in Tid PROVE Summed[t + 1] = Wrap(Summed[t] + outReduce[t])
  <2>1. t + 1 \in 0 .. N /\ t + 1 # 0 /\ (t + 1) - 1 = t
    BY <1>4 DEF Tid
  <2>2. QED
    BY <1>7, <2>1
<1>10. \A t \in Nat : t <= N => Summed[t] \in Int32
  <2> DEFINE S == {t \in Nat : t <= N => Summed[t] \in Int32}
  <2>1. 0 \in S
    BY <1>8, LoopTypes
  <2>2. ASSUME NEW t \in S PROVE t + 1 \in S
    <3>1. SUFFICES ASSUME t + 1 <= N PROVE Summed[t + 1] \in Int32
      OBVIOUS
    <3>2. t \in Tid /\ Summed[t] \in Int32
      BY <1>4, <3>1 DEF Tid
    <3>3. Summed[t] + outReduce[t] \in Int
      BY <3>2, LoopTypes
    <3>4. QED
      BY <1>9, <3>2, <3>3, WrapClass
  <2>3. S = Nat
    <3>1. S \in SUBSET Nat
      OBVIOUS
    <3> HIDE DEF S
    <3>2. QED
      BY <2>1, <2>2, <3>1, NatSet
  <2>4. QED
    BY <2>3
<1>11. QED
  BY <1>4, <1>8, <1>9, <1>10 DEF Tid

ThreadType == [pc : {"idle", "load", "store", "exit", "joined"},
               x : Registers, c : Int32, v : Int32]

LEMMA ThreadTypes ==
  ASSUME NEW x \in Registers, NEW c \in Int32, NEW v \in Int32
  PROVE  Thread(x, c, v) \in ThreadType
BY DEF Thread, ThreadType

LEMMA TypeInit == Init => TypeOK
<1> SUFFICES ASSUME Init PROVE TypeOK
  OBVIOUS
<1>1. l \in Accepted
  BY DEF Init
<1>2. 0 \in Int32
  BY HalfNat DEF Int32
<1>3. 0 \in Tid
  BY NAssumption DEF Tid
<1>4. Start \in Registers /\ l.c \in Int32
  BY <1>1, <1>3, StartType, LoopTypes
<1>5. Idle \in ThreadType
  BY <1>2, <1>4 DEF Idle, ThreadType
<1>6. QED
  BY <1>1, <1>2, <1>4, <1>5 DEF Init, TypeOK, Nothing, ThreadType

LEMMA TypeNext == TypeOK /\ [Next]_vars => TypeOK'
<1> SUFFICES ASSUME TypeOK, [Next]_vars PROVE TypeOK'
  OBVIOUS
<1>1. l \in Accepted /\ th \in [Tid -> ThreadType]
  BY DEF TypeOK, ThreadType
<1>2. 0 \in Int32 /\ 0 \in Tid
  BY HalfNat, NAssumption DEF Int32, Tid
<1>3. CASE EnterPar
  <2>1. \A t \in Tid : Thread(ThreadStart(t), NewC(t), 0) \in ThreadType
    BY <1>1, <1>2, StartType, ThreadTypes
  <2>2. th' \in [Tid -> ThreadType]
    BY <1>3, <2>1 DEF EnterPar
  <2>3. QED
    BY <1>3, <2>2 DEF EnterPar, TypeOK, ThreadType
<1>4. CASE EnterNoPar
  <2>1. Thread(Start, l.c, 0) \in ThreadType
    BY <1>1, <1>2, StartType, ThreadTypes, LoopTypes
  <2>2. th' \in [Tid -> ThreadType]
    BY <1>1, <1>4, <2>1 DEF EnterNoPar
  <2>3. QED
    BY <1>4, <2>2 DEF EnterNoPar, TypeOK, ThreadType
<1>5. ASSUME NEW t \in Tid, Load(t) PROVE TypeOK'
  <2>1. th[t] \in ThreadType /\ th[t].x.i \in Int /\ th[t].x.j \in Int
    BY <1>1, LoopTypes DEF ThreadType, Registers
  <2>2. Fetch(mem, Cell(l.read, th[t].x)) \in Int32
    BY <1>1, <2>1, FetchType DEF TypeOK
  <2>3. th' \in [Tid -> ThreadType]
    BY <1>1, <1>5, <2>1, <2>2 DEF Load, ThreadType
  <2>4. QED
    BY <1>5, <2>3 DEF Load, TypeOK, ThreadType
<1>6. ASSUME NEW t \in Tid, Store(t) PROVE TypeOK'
  <2>1. th[t] \in ThreadType /\ th[t].x \in Registers /\ th[t].v \in Int32 /\ th[t].c \in Int32
    BY <1>1 DEF ThreadType
  <2>2. Advance(th[t].x, th[t].v) \in Registers /\ Stored(th[t].x, th[t].v) \in Int32
    BY <1>1, <2>1, AdvanceType
  <2>3. Thread(Advance(th[t].x, th[t].v), th[t].c, th[t].v) \in ThreadType
    BY <2>1, <2>2, ThreadTypes
  <2>4. th' \in [Tid -> ThreadType]
    BY <1>1, <1>6, <2>3 DEF Store
  <2>5. \A a \in DOMAIN mem' : mem'[a] \in Int32
    BY <1>6, <2>2 DEF Store, Update, TypeOK
  <2>6. QED
    BY <1>6, <2>4, <2>5 DEF Store, TypeOK, ThreadType
<1>7. ASSUME NEW t \in Tid, ExitPar(t) PROVE TypeOK'
  <2>1. th[t] \in ThreadType /\ th[t].x \in Registers
    BY <1>1 DEF ThreadType
  <2>2. th' \in [Tid -> ThreadType]
    BY <1>1, <1>7, <2>1 DEF ExitPar, ThreadType
  <2>3. outReduce' \in [Tid -> Int32] /\ outInd' \in [i : Int32, j : Int32]
    BY <1>7, <2>1 DEF ExitPar, TypeOK, Registers
  <2>4. QED
    BY <1>7, <2>2, <2>3 DEF ExitPar, TypeOK, ThreadType
<1>8. CASE NewExit
  <2>1. Summed[N] \in Int32
    BY <1>1, SummedEquations DEF TypeOK
  <2>2. result' \in Registers
    BY <1>8, <2>1 DEF NewExit, TypeOK, Registers
  <2>3. QED
    BY <1>8, <2>2 DEF NewExit, TypeOK
<1>9. CASE ExitNoPar
  <2>1. th[0].x \in Registers
    BY <1>1, <1>2 DEF ThreadType
  <2>2. QED
    BY <1>9, <2>1 DEF ExitNoPar, TypeOK
<1>10. CASE UNCHANGED vars
  BY <1>10 DEF vars, TypeOK
<1>11. QED
  BY <1>3, <1>4, <1>5, <1>6, <1>7, <1>8, <1>9, <1>10 DEF Next, Step, Done

\* Everything a register or a cell holds is a word, however far the index
\* expressions and induction variables run.
THEOREM TypeCorrect == Spec => []TypeOK
BY TypeInit, TypeNext, PTL DEF Spec

-----------------------------------------------------------------------------
(* The dependence test *)

TermType == [i : Int, j : Int, s : Int, k : Int]

LEMMA TripsType ==
  ASSUME l \in Accepted
  PROVE  /\ Trips \in Nat
         /\ Trips > 0 => Trips = (IF l.leq THEN l.c + 1 ELSE l.c) - l.base
<1>1. l.c \in Int /\ l.base \in Int /\ l.leq \in BOOLEAN
  BY LoopTypes
<1>2. CASE l.leq
  BY <1>1, <1>2 DEF Trips
<1>3. CASE ~l.leq
  BY <1>1, <1>3 DEF Trips
<1>4. QED
  BY <1>1, <1>2, <1>3

\* Index expressions that pass the test for r have different values whenever
\* the values of r differ, or always.
LEMMA TestSound ==
  ASSUME l \in Accepted,
         NEW t \in TermType, NEW u \in TermType, NEW r \in IndVar, IndependentIn(t, u, r, 1),
         NEW x, NEW y, x.i \in Int, x.j \in Int, y.i \in Int, y.j \in Int,
         x.i # y.i, x.j # y.j
  PROVE  Value(t, x) # Value(u, y)
<1> DEFINE a == Rest(t, r)
           c == Rest(u, r)
           d == Minus(a, c)
<1>1. /\ t.i \in Int /\ t.j \in Int /\ t.s \in Int /\ t.k \in Int
      /\ u.i \in Int /\ u.j \in Int /\ u.s \in Int /\ u.k \in Int
      /\ l.s \in Int
  BY LoopTypes DEF TermType
<1>2. DOMAIN t = {"i", "j", "s", "k"} /\ DOMAIN u = {"i", "j", "s", "k"}
  BY DEF TermType
<1>3. /\ a = [t EXCEPT ![r] = 0] /\ c = [u EXCEPT ![r] = 0]
      /\ DOMAIN a = {"i", "j", "s", "k"}
      /\ d = [n \in DOMAIN a |-> a[n] - c[n]]
  BY <1>2 DEF Rest, Minus
<1>4. d.i = a.i - c.i /\ d.j = a.j - c.j /\ d.s = a.s - c.s /\ d.k = a.k - c.k
  BY <1>3
<1>5. a.s = t.s /\ a.k = t.k /\ c.s = u.s /\ c.k = u.k
  BY <1>2, <1>3 DEF IndVar
<1>6. /\ r = "i" => a.i = 0 /\ a.j = t.j /\ c.i = 0 /\ c.j = u.j
      /\ r = "j" => a.i = t.i /\ a.j = 0 /\ c.i = u.i /\ c.j = 0
  BY <1>2, <1>3
<1>11. t[r] = u[r]
  BY DEF IndependentIn
<1>12. \/ t[r] # 0 /\ IsInvariant(a) /\ IsInvariant(c) /\ IsConst(d) /\ AbsInt(d.k) < AbsInt(1)
       \/ t[r] = 0 /\ IsConst(d) /\ d.k # 0 /\ IsInvariant(a)
  BY DEF IndependentIn
<1> HIDE DEF a, c, d
<1>7. IsConst(d) => t.s = u.s /\ d.k = t.k - u.k
  <2>1. d.s = t.s - u.s /\ d.k = t.k - u.k
    BY <1>4, <1>5
  <2>2. IsConst(d) => d.s = 0
    BY DEF IsConst
  <2>3. ASSUME d.s = 0 PROVE t.s = u.s
    <3>1. \A v, w \in Int : v - w = 0 => v = w
      OBVIOUS
    <3>2. QED
      BY <1>1, <2>1, <2>3, <3>1
  <2>4. QED
    BY <2>1, <2>2, <2>3
<1>8. /\ Value(t, x) = t.i * x.i + t.j * x.j + t.s * l.s + t.k
      /\ Value(u, y) = u.i * y.i + u.j * y.j + u.s * l.s + u.k
  BY DEF Value
<1>9. \A n, v, w \in Int : n # 0 /\ v # w => n * v # n * w
  OBVIOUS
<1>10. /\ \A v \in Int : 0 * v = 0
       /\ t.s * l.s \in Int /\ t.i * x.i \in Int /\ t.i * y.i \in Int
       /\ t.j * x.j \in Int /\ t.j * y.j \in Int
  BY <1>1
<1>13. CASE t[r] # 0 /\ IsInvariant(a) /\ IsInvariant(c) /\ IsConst(d) /\ AbsInt(d.k) < AbsInt(1)
  <2>1. t.k = u.k /\ t.s = u.s
    <3>1. d.k \in Int /\ AbsInt(d.k) < 1
      BY <1>1, <1>7, <1>13 DEF AbsInt
    <3>2. d.k = 0
      BY <3>1 DEF AbsInt
    <3>3. QED
      BY <1>1, <1>7, <1>13, <3>2
  <2>2. CASE r = "i"
    <3>1. t.j = 0 /\ u.j = 0 /\ t.i = u.i /\ t.i # 0
      BY <1>6, <1>11, <1>13, <2>2 DEF IsInvariant
    <3>2. Value(t, x) = t.i * x.i + t.s * l.s + t.k /\ Value(u, y) = t.i * y.i + t.s * l.s + t.k
      BY <1>1, <1>8, <1>10, <2>1, <3>1
    <3>3. t.i * x.i # t.i * y.i
      BY <1>1, <1>9, <3>1
    <3>4. QED
      BY <1>1, <1>10, <3>2, <3>3
  <2>3. CASE r = "j"
    <3>1. t.i = 0 /\ u.i = 0 /\ t.j = u.j /\ t.j # 0
      BY <1>6, <1>11, <1>13, <2>3 DEF IsInvariant
    <3>2. Value(t, x) = t.j * x.j + t.s * l.s + t.k /\ Value(u, y) = t.j * y.j + t.s * l.s + t.k
      BY <1>1, <1>8, <1>10, <2>1, <3>1
    <3>3. t.j * x.j # t.j * y.j
      BY <1>1, <1>9, <3>1
    <3>4. QED
      BY <1>1, <1>10, <3>2, <3>3
  <2>4. QED
    BY <2>2, <2>3 DEF IndVar
<1>14. CASE t[r] = 0 /\ IsConst(d) /\ d.k # 0 /\ IsInvariant(a)
  <2>1. t.i = 0 /\ t.j = 0 /\ u.i = 0 /\ u.j = 0
    <3>1. d.i = 0 /\ d.j = 0 /\ a.i = 0 /\ a.j = 0
      BY <1>14 DEF IsConst, IsInvariant
    <3>2. CASE r = "i"
      <4>1. t.i = 0 /\ u.i = 0 /\ t.j = 0 /\ d.j = t.j - u.j
        BY <1>4, <1>6, <1>11, <1>14, <3>1, <3>2
      <4>2. QED
        BY <1>1, <3>1, <4>1
    <3>3. CASE r = "j"
      <4>1. t.j = 0 /\ u.j = 0 /\ t.i = 0 /\ d.i = t.i - u.i
        BY <1>4, <1>6, <1>11, <1>14, <3>1, <3>3
      <4>2. QED
        BY <1>1, <3>1, <4>1
    <3>4. QED
      BY <3>2, <3>3 DEF IndVar
  <2>2. t.s = u.s /\ t.k # u.k
    BY <1>1, <1>7, <1>14
  <2>3. Value(t, x) = t.s * l.s + t.k /\ Value(u, y) = t.s * l.s + u.k
    BY <1>1, <1>8, <1>10, <2>1, <2>2
  <2>4. t.s * l.s \in Int
    BY <1>10
  <2> DEFINE w == t.s * l.s
  <2> HIDE DEF w
  <2>5. Value(t, x) = w + t.k /\ Value(u, y) = w + u.k /\ w \in Int
    BY <2>3, <2>4 DEF w
  <2>6. QED
    <3>1. t.k \in Int /\ u.k \in Int /\ t.k # u.k
      BY <1>1, <2>2
    <3>2. w + t.k # w + u.k
      <4>1. \A f, g, h \in Int : g # h => f + g # f + h
        OBVIOUS
      <4>2. w \in Int
        BY <2>5
      <4>3. QED
        BY <3>1, <4>1, <4>2
    <3>3. QED
      BY <2>5, <3>2, Zenon
<1>15. QED
  BY <1>12, <1>13, <1>14

\* The registers of an iteration, when nothing overflows.
LEMMA ExactIteration ==
  ASSUME l \in Accepted, Exact, NEW k \in 0 .. Trips - 1
  PROVE  LET X == [i |-> l.base + k, j |-> l.jbase + k * l.jstep] IN
         /\ Iteration(k).i = X.i /\ Iteration(k).j = X.j /\ X.i \in Int /\ X.j \in Int
         /\ \A m \in DOMAIN l.write : /\ Cell(l.write, Iteration(k))[m] = Value(l.write[m], X)
                                    /\ Cell(l.read, Iteration(k))[m] = Value(l.read[m], X)
<1> DEFINE X == [i |-> l.base + k, j |-> l.jbase + k * l.jstep]
<1>1. /\ X.j \in Int32
      /\ \A m \in DOMAIN l.write : Value(l.write[m], X) \in Int32 /\ Value(l.read[m], X) \in Int32
  BY DEF Exact
<1>2. X.i \in Int32
  <2>1. Trips \in Nat /\ l.base \in Int /\ k \in Int /\ l.base \in Int32 /\ l.base + Trips \in Int32
    BY TripsType, LoopTypes DEF Exact
  <2>2. QED
    BY <2>1, HalfNat DEF Int32
<1>3. Iteration(k).i = X.i /\ Iteration(k).j = X.j
  BY <1>1, <1>2, WrapInt32 DEF Iteration
<1>4. \A t : Value(t, Iteration(k)) = Value(t, X)
  BY <1>3 DEF Value
<1>5. \A m \in DOMAIN l.write : /\ Cell(l.write, Iteration(k))[m] = Value(l.write[m], X)
                               /\ Cell(l.read, Iteration(k))[m] = Value(l.read[m], X)
  BY <1>1, <1>4, WrapInt32, LoopTypes DEF Cell
<1>6. QED
  BY <1>1, <1>2, <1>3, <1>5, WrapInt32

\* One dimension that passes the test keeps the cells of two iterations apart.
LEMMA TestSeparates ==
  ASSUME l \in Accepted, Exact, Independent(l.write, l.write, 1) \/ Independent(l.write, l.read, 1),
         NEW k \in 0 .. Trips - 1, NEW n \in 0 .. Trips - 1, k # n
  PROVE  /\ Independent(l.write, l.write, 1)
              => Cell(l.write, Iteration(k)) # Cell(l.write, Iteration(n))
         /\ Independent(l.write, l.read, 1)
              => Cell(l.write, Iteration(k)) # Cell(l.read, Iteration(n))
<1> DEFINE X == [i |-> l.base + k, j |-> l.jbase + k * l.jstep]
           Y == [i |-> l.base + n, j |-> l.jbase + n * l.jstep]
<1>1. /\ X.i \in Int /\ X.j \in Int /\ Y.i \in Int /\ Y.j \in Int
      /\ \A m \in DOMAIN l.write : /\ Cell(l.write, Iteration(k))[m] = Value(l.write[m], X)
                                 /\ Cell(l.write, Iteration(n))[m] = Value(l.write[m], Y)
                                 /\ Cell(l.read, Iteration(n))[m] = Value(l.read[m], Y)
  BY ExactIteration
<1>2. X.i # Y.i /\ X.j # Y.j
  <2>1. k \in Int /\ n \in Int /\ l.jstep \in Int /\ l.jstep # 0 /\ l.base \in Int /\ l.jbase \in Int
    BY LoopTypes DEF Exact
  <2>2. \A s \in Int : s # 0 => k * s # n * s /\ k * s \in Int /\ n * s \in Int
    BY <2>1
  <2>3. k * l.jstep # n * l.jstep /\ k * l.jstep \in Int /\ n * l.jstep \in Int
    BY <2>1, <2>2
  <2>4. l.base + k # l.base + n
    BY <2>1
  <2>5. l.jbase + k * l.jstep # l.jbase + n * l.jstep
    <3> DEFINE v == k * l.jstep
               w == n * l.jstep
    <3>1. v \in Int /\ w \in Int /\ v # w /\ l.jbase \in Int
      BY <2>1, <2>3
    <3> HIDE DEF v, w
    <3>2. l.jbase + v # l.jbase + w
      BY <3>1
    <3>3. QED
      BY <3>2 DEF v, w
  <2>6. QED
    BY <2>4, <2>5
<1> HIDE DEF X, Y
<1>3. \A m \in DOMAIN l.write : l.write[m] \in TermType /\ l.read[m] \in TermType
  BY LoopTypes DEF TermType
<1>4. ASSUME Independent(l.write, l.write, 1)
      PROVE  Cell(l.write, Iteration(k)) # Cell(l.write, Iteration(n))
  <2>1. PICK m \in DOMAIN l.write, r \in IndVar : IndependentIn(l.write[m], l.write[m], r, 1)
    BY <1>4 DEF Independent
  <2>2. Value(l.write[m], X) # Value(l.write[m], Y)
    BY <1>1, <1>2, <1>3, <2>1, TestSound
  <2>3. QED
    BY <1>1, <2>2
<1>5. ASSUME Independent(l.write, l.read, 1)
      PROVE  Cell(l.write, Iteration(k)) # Cell(l.read, Iteration(n))
  <2>1. PICK m \in DOMAIN l.write, r \in IndVar : IndependentIn(l.write[m], l.read[m], r, 1)
    BY <1>5 DEF Independent
  <2>2. Value(l.write[m], X) # Value(l.read[m], Y)
    BY <1>1, <1>2, <1>3, <2>1, TestSound
  <2>3. QED
    BY <1>1, <2>2
<1>6. QED
  BY <1>4, <1>5

LEMMA AcceptedIndependent == l \in Accepted /\ Exact => IterationsIndependent
<1> SUFFICES ASSUME l \in Accepted, Exact,
                    NEW k \in 0 .. Trips - 1, NEW n \in 0 .. Trips - 1, k # n
             PROVE  /\ Cell(l.write, Iteration(k)) # Cell(l.write, Iteration(n))
                    /\ Cell(l.write, Iteration(k)) # Cell(l.read, Iteration(n))
  BY DEF IterationsIndependent
<1>1. /\ Independent(l.write, l.write, 1)
      /\ l.read # l.write => Independent(l.write, l.read, 1)
  BY DEF Accepted, ParallelFor
<1>2. QED
  BY <1>1, TestSeparates

-----------------------------------------------------------------------------
(* Why the threads compute what the loop computes.  A thread at iteration n *)
(* has the induction variables of n and, as its share of the reduction, the *)
(* difference between what the loop would have there and at the first       *)
(* iteration of its block; the cells written are those of the iterations    *)
(* that are finished, and hold what the loop writes there.                  *)

Workers == IF phase = "par" THEN Tid ELSE IF phase = "nopar" THEN {0} ELSE {}
From(t) == IF phase = "par" THEN BlockSize * t ELSE 0
Upto(t) == IF phase = "par" /\ t # N - 1 THEN BlockSize * (t + 1) ELSE Trips
Limit(t) == IF phase = "par" THEN NewC(t) ELSE l.c
Pos(t) == th[t].x.i - l.base
Finished == UNION {From(t) .. Pos(t) - 1 : t \in Workers}

Loaded(n) == Before(Cell(l.read, Iteration(n)))
Written(n) == Wrap(Loaded(n) + Iteration(n).i + 1)
Share(t) == Wrap(Sequential[Pos(t)].x.acc - (IF phase = "par" THEN Sequential[From(t)].x.acc ELSE 0))

WorkerInv(t) ==
  /\ Pos(t) \in From(t) .. Upto(t)
  /\ \/ th[t].pc \in {"load", "store"} /\ Pos(t) < Upto(t)
     \/ th[t].pc \in {"exit", "joined"} /\ Pos(t) = Upto(t)
  /\ th[t].c = Limit(t)
  /\ th[t].x.j = Wrap(l.jbase + Pos(t) * l.jstep)
  /\ th[t].x.acc = Share(t)
  /\ th[t].pc = "store" => th[t].v = Loaded(Pos(t))
  /\ th[t].pc = "joined" => /\ outReduce[t] = th[t].x.acc
                            /\ t = N - 1 => outInd = [i |-> th[t].x.i, j |-> th[t].x.j]

\* memory holds what the iterations in S write, and nothing else.
Holds(memory, S) ==
  /\ memory = [a \in {Cell(l.write, Iteration(n)) : n \in S} |-> memory[a]]
  /\ \A n \in S : memory[Cell(l.write, Iteration(n))] = Written(n)

Progress == /\ \A t \in Workers : WorkerInv(t)
            /\ \A t \in Tid \ Workers : th[t].pc \notin {"load", "store"}
            /\ phase # "done" => Holds(mem, Finished)
            /\ SameResult
IInv == TypeOK /\ PcInv /\ Exact /\ Progress

\* A load at iteration n finds what was there before the loop, as long as
\* other iterations only have written.
LEMMA LoadedValue ==
  ASSUME l \in Accepted, IterationsIndependent,
         NEW memory, NEW S \in SUBSET (0 .. Trips - 1), Holds(memory, S),
         NEW n \in (0 .. Trips - 1) \ S,
         NEW x, x.i = Iteration(n).i, x.j = Iteration(n).j
  PROVE  Fetch(memory, Cell(l.read, x)) = Loaded(n)
<1>1. Cell(l.read, x) = Cell(l.read, Iteration(n))
  BY DEF Cell, Value
<1>2. \A m \in S : Cell(l.write, Iteration(m)) # Cell(l.read, Iteration(n))
  BY DEF IterationsIndependent
<1>3. Cell(l.read, x) \notin DOMAIN memory
  BY <1>1, <1>2 DEF Holds
<1>4. QED
  BY <1>1, <1>3 DEF Fetch, Loaded

\* The store of iteration n adds its cell.
LEMMA StoredValue ==
  ASSUME l \in Accepted, IterationsIndependent,
         NEW memory, NEW S \in SUBSET (0 .. Trips - 1), Holds(memory, S),
         NEW n \in (0 .. Trips - 1) \ S,
         NEW x, x.i = Iteration(n).i, x.j = Iteration(n).j
  PROVE  Holds(Update(memory, Cell(l.write, x), Stored(x, Loaded(n))), S \cup {n})
<1> DEFINE a == Cell(l.write, Iteration(n))
           new == Update(memory, a, Written(n))
           cells(T) == {Cell(l.write, Iteration(m)) : m \in T}
<1>1. Cell(l.write, x) = a /\ Stored(x, Loaded(n)) = Written(n)
  BY DEF Cell, Value, Stored, Written
<1>2. \A m \in S : Cell(l.write, Iteration(m)) # a
  BY DEF IterationsIndependent
<1>3. DOMAIN memory = cells(S) /\ \A m \in S : memory[Cell(l.write, Iteration(m))] = Written(m)
  BY DEF Holds
<1>4. new = [b \in cells(S) \cup {a} |-> IF b = a THEN Written(n) ELSE memory[b]]
  BY <1>3 DEF Update
<1>5. cells(S \cup {n}) = cells(S) \cup {a}
  OBVIOUS
<1>6. new = [b \in cells(S \cup {n}) |-> new[b]]
  <2> HIDE DEF cells
  <2>1. QED
    BY <1>4, <1>5
<1>7. \A m \in S \cup {n} : new[Cell(l.write, Iteration(m))] = Written(m)
  <2>1. new[a] = Written(n)
    BY <1>4
  <2>2. ASSUME NEW m \in S PROVE new[Cell(l.write, Iteration(m))] = Written(m)
    BY <1>2, <1>3, <1>4
  <2>3. QED
    BY <2>1, <2>2
<1>8. Holds(new, S \cup {n})
  BY <1>6, <1>7 DEF Holds
<1>9. QED
  BY <1>1, <1>8

\* The induction variables of the iteration that follows n.
LEMMA AdvanceValue ==
  ASSUME l \in Accepted, NEW n \in Nat, NEW x, NEW v,
         x.i = Wrap(l.base + n), x.j = Wrap(l.jbase + n * l.jstep)
  PROVE  /\ Advance(x, v).i = Wrap(l.base + (n + 1))
         /\ Advance(x, v).j = Wrap(l.jbase + (n + 1) * l.jstep)
         /\ Advance(x, v).acc = Wrap(x.acc + v)
<1>1. l.base + n \in Int /\ (l.base + n) + 1 = l.base + (n + 1)
  BY LoopTypes
<1>2. Wrap(x.i + 1) = Wrap(l.base + (n + 1))
  <2> DEFINE y == l.base + n
  <2>1. y \in Int /\ x.i = Wrap(y) /\ y + 1 = l.base + (n + 1)
    BY <1>1
  <2> HIDE DEF y
  <2>2. Wrap(Wrap(y) + 1) = Wrap(y + 1)
    BY <2>1, WrapAdd
  <2>3. QED
    BY <2>1, <2>2
<1>3. /\ l.jbase + n * l.jstep \in Int /\ l.jstep \in Int
      /\ (l.jbase + n * l.jstep) + l.jstep = l.jbase + (n + 1) * l.jstep
  <2>1. l.jbase \in Int /\ l.jstep \in Int
    BY LoopTypes
  <2>2. \A s \in Int : n * s \in Int /\ (n + 1) * s = n * s + s
    OBVIOUS
  <2>3. QED
    BY <2>1, <2>2
<1>4. Wrap(x.j + l.jstep) = Wrap(l.jbase + (n + 1) * l.jstep)
  <2> DEFINE y == l.jbase + n * l.jstep
  <2>1. y \in Int /\ l.jstep \in Int /\ x.j = Wrap(y) /\ y + l.jstep = l.jbase + (n + 1) * l.jstep
    BY <1>3
  <2> HIDE DEF y
  <2>2. Wrap(Wrap(y) + l.jstep) = Wrap(y + l.jstep)
    BY <2>1, WrapAdd
  <2>3. QED
    BY <2>1, <2>2
<1>5. QED
  BY <1>2, <1>4 DEF Advance

-----------------------------------------------------------------------------
(* The sequential loop *)

Cells == [DOMAIN l.read -> Int32]
Memories == UNION {[D -> Int32] : D \in SUBSET Cells}
States == [x : Registers, mem : Memories]
After(s) == LET v == Fetch(s.mem, Cell(l.read, s.x))
            IN  [x |-> Advance(s.x, v), mem |-> Update(s.mem, Cell(l.write, s.x), Stored(s.x, v))]

LEMMA AfterType ==
  ASSUME l \in Accepted, NEW s \in States
  PROVE  After(s) \in States
<1>1. s.x \in Registers /\ s.mem \in Memories /\ s.x.i \in Int /\ s.x.j \in Int
  BY LoopTypes DEF States, Registers
<1>2. PICK D \in SUBSET Cells : s.mem \in [D -> Int32]
  BY <1>1 DEF Memories
<1>3. Fetch(s.mem, Cell(l.read, s.x)) \in Int32
  BY <1>1, <1>2, FetchType
<1> DEFINE v == Fetch(s.mem, Cell(l.read, s.x))
           a == Cell(l.write, s.x)
<1>4. Advance(s.x, v) \in Registers /\ Stored(s.x, v) \in Int32
  BY <1>1, <1>3, AdvanceType
<1>5. a \in Cells
  BY <1>1, CellType DEF Cells
<1>6. Update(s.mem, a, Stored(s.x, v)) \in [D \cup {a} -> Int32]
  BY <1>2, <1>4 DEF Update
<1>7. D \cup {a} \in SUBSET Cells
  BY <1>2, <1>5
<1>8. Update(s.mem, a, Stored(s.x, v)) \in Memories
  BY <1>6, <1>7 DEF Memories
<1>9. QED
  BY <1>4, <1>8 DEF After, States

\* The recursive definition has the values it describes.
LEMMA SequentialEquations ==
  ASSUME l \in Accepted
  PROVE  /\ Sequential[0] = [x |-> Start, mem |-> Nothing]
         /\ \A k \in Nat : Sequential[k + 1] = After(Sequential[k])
<1> DEFINE s == [x |-> Start, mem |-> Nothing]
           g == [p \in Nat \X States |-> After(p[2])]
<1>1. s \in States
  <2>1. 0 \in Tid
    BY NAssumption DEF Tid
  <2>2. Start \in Registers
    BY <2>1, StartType
  <2>3. Nothing \in Memories
    <3>1. Nothing \in [{} -> Int32] /\ {} \in SUBSET Cells
      BY DEF Nothing
    <3>2. QED
      BY <3>1 DEF Memories
  <2>4. QED
    BY <2>2, <2>3 DEF States
<1>2. g \in [Nat \X States -> States]
  BY AfterType
<1>3. PICK f \in [Nat -> States] : Recurs(f, s, g)
  <2> HIDE DEF s, g
  <2>1. QED
    BY <1>1, <1>2, NatRecursion
<1>4. f[0] = s /\ \A k \in Nat \ {0} : f[k] = After(f[k - 1])
  <2>1. f[0] = s
    BY <1>3 DEF Recurs
  <2>2. ASSUME NEW k \in Nat \ {0} PROVE f[k] = After(f[k - 1])
    <3>1. f[k] = g[<<k, f[k - 1]>>]
      BY <1>3 DEF Recurs
    <3>2. <<k, f[k - 1]>> \in Nat \X States
      BY <2>2
    <3>3. QED
      BY <3>1, <3>2
  <2>3. QED
    BY <2>1, <2>2
<1>5. f = [k \in Nat |-> IF k = 0 THEN s ELSE After(f[k - 1])]
  <2> HIDE DEF s
  <2>1. QED
    BY <1>4
<1>6. Sequential = [k \in Nat |-> IF k = 0 THEN s ELSE After(Sequential[k - 1])]
  BY <1>5 DEF Sequential, After
<1> HIDE DEF s
<1>7. Sequential[0] = s
  BY <1>6
<1>8. ASSUME NEW k \in Nat PROVE Sequential[k + 1] = After(Sequential[k])
  <2>1. k + 1 \in Nat /\ k + 1 # 0 /\ (k + 1) - 1 = k
    OBVIOUS
  <2>2. QED
    BY <1>6, <2>1
<1>9. QED
  BY <1>7, <1>8 DEF s

\* What the loop has after k iterations: the induction variables of iteration
\* k, the cells of the iterations before it, and the sum of what they loaded.
LEMMA SequentialValue ==
  ASSUME l \in Accepted, Exact, IterationsIndependent
  PROVE  /\ Sequential[0].x.acc = l.accbase
         /\ \A k \in 0 .. Trips :
              /\ Sequential[k].x = [i |-> Wrap(l.base + k), j |-> Wrap(l.jbase + k * l.jstep),
                                    acc |-> Sequential[k].x.acc]
              /\ Sequential[k].x.acc \in Int32
              /\ Holds(Sequential[k].mem, 0 .. k - 1)
         /\ \A k \in 0 .. Trips - 1 :
              Sequential[k + 1].x.acc = Wrap(Sequential[k].x.acc + Loaded(k))
<1>0. Trips \in Nat /\ l.base \in Int /\ l.jbase \in Int /\ l.jstep \in Int
  BY TripsType, LoopTypes
<1> DEFINE Described(k) ==
             /\ Sequential[k].x = [i |-> Wrap(l.base + k), j |-> Wrap(l.jbase + k * l.jstep),
                                   acc |-> Sequential[k].x.acc]
             /\ Sequential[k].x.acc \in Int32
             /\ Holds(Sequential[k].mem, 0 .. k - 1)
           S == {k \in Nat : k <= Trips => Described(k)}
<1>1. Sequential[0].x.acc = l.accbase
  BY SequentialEquations DEF Start
<1>2. Described(0)
  <2>1. Sequential[0].x = Start /\ Sequential[0].mem = Nothing
    BY SequentialEquations
  <2>2. Wrap(l.base + 0) = l.base /\ Wrap(l.jbase + 0 * l.jstep) = l.jbase
    <3>1. l.base + 0 = l.base /\ l.jbase + 0 * l.jstep = l.jbase
      BY <1>0
    <3>2. QED
      BY <3>1, WrapInt32, LoopTypes
  <2>3. Holds(Nothing, {})
    BY DEF Holds, Nothing
  <2>4. 0 .. 0 - 1 = {}
    OBVIOUS
  <2>5. QED
    BY <2>1, <2>2, <2>3, <2>4, LoopTypes DEF Start
<1>3. ASSUME NEW k \in Nat, k < Trips, Described(k)
      PROVE  /\ Described(k + 1)
             /\ Sequential[k + 1].x.acc = Wrap(Sequential[k].x.acc + Loaded(k))
  <2> DEFINE s == Sequential[k]
  <2>1. s.x.i = Iteration(k).i /\ s.x.j = Iteration(k).j
    BY <1>3 DEF Iteration
  <2>2. k \in (0 .. Trips - 1) \ (0 .. k - 1) /\ 0 .. k - 1 \in SUBSET (0 .. Trips - 1)
    BY <1>0, <1>3
  <2>3. Holds(s.mem, 0 .. k - 1)
    BY <1>3
  <2> HIDE DEF s
  <2>4. Fetch(s.mem, Cell(l.read, s.x)) = Loaded(k)
    BY <2>1, <2>2, <2>3, LoadedValue
  <2>5. Holds(Update(s.mem, Cell(l.write, s.x), Stored(s.x, Loaded(k))), (0 .. k - 1) \cup {k})
    BY <2>1, <2>2, <2>3, StoredValue
  <2>6. After(s) = [x |-> Advance(s.x, Loaded(k)),
                    mem |-> Update(s.mem, Cell(l.write, s.x), Stored(s.x, Loaded(k)))]
    BY <2>4 DEF After
  <2>7. Sequential[k + 1] = After(s)
    BY SequentialEquations DEF s
  <2>8. /\ Advance(s.x, Loaded(k)).i = Wrap(l.base + (k + 1))
        /\ Advance(s.x, Loaded(k)).j = Wrap(l.jbase + (k + 1) * l.jstep)
        /\ Advance(s.x, Loaded(k)).acc = Wrap(s.x.acc + Loaded(k))
    <3>1. s.x.i = Wrap(l.base + k) /\ s.x.j = Wrap(l.jbase + k * l.jstep)
      BY <1>3 DEF s
    <3>2. QED
      BY <3>1, AdvanceValue
  <2>9. Advance(s.x, Loaded(k)) = [i |-> Wrap(l.base + (k + 1)), j |-> Wrap(l.jbase + (k + 1) * l.jstep),
                                   acc |-> Wrap(s.x.acc + Loaded(k))]
    BY <2>8 DEF Advance
  <2>10. Wrap(s.x.acc + Loaded(k)) \in Int32
    <3>1. Loaded(k) \in Int32
      <4>1. Iteration(k).i \in Int /\ Iteration(k).j \in Int
        BY <2>2, ExactIteration
      <4>2. \A a \in DOMAIN Nothing : Nothing[a] \in Int32
        BY DEF Nothing
      <4>3. Fetch(Nothing, Cell(l.read, Iteration(k))) \in Int32
        BY <4>1, <4>2, FetchType
      <4>4. QED
        BY <4>3 DEF Fetch, Nothing, Loaded
    <3>2. s.x.acc \in Int /\ Loaded(k) \in Int
      BY <1>3, <3>1, LoopTypes DEF s
    <3>3. s.x.acc + Loaded(k) \in Int
      BY <3>2
    <3>4. QED
      BY <3>3, WrapClass
  <2>11. (0 .. k - 1) \cup {k} = 0 .. (k + 1) - 1
    BY <1>3
  <2>12. Holds(Sequential[k + 1].mem, 0 .. (k + 1) - 1)
    <3> DEFINE updated == Update(s.mem, Cell(l.write, s.x), Stored(s.x, Loaded(k)))
    <3>1. Sequential[k + 1].mem = updated
      BY <2>6, <2>7
    <3>2. Holds(updated, (0 .. k - 1) \cup {k})
      BY <2>5
    <3> HIDE DEF updated
    <3>3. Holds(Sequential[k + 1].mem, (0 .. k - 1) \cup {k})
      BY <3>1, <3>2
    <3>4. QED
      BY <3>3, <2>11
  <2>13. Sequential[k + 1].x = [i |-> Wrap(l.base + (k + 1)), j |-> Wrap(l.jbase + (k + 1) * l.jstep),
                                acc |-> Wrap(s.x.acc + Loaded(k))]
    BY <2>6, <2>7, <2>9
  <2>14. Sequential[k + 1].x.acc = Wrap(s.x.acc + Loaded(k))
    BY <2>13
  <2>15. QED
    BY <2>10, <2>12, <2>13, <2>14 DEF s
<1> HIDE DEF Described
<1>4. S = Nat
  <2>1. 0 \in S
    BY <1>2
  <2>2. ASSUME NEW k \in S PROVE k + 1 \in S
    <3>1. k \in Nat /\ k + 1 \in Nat /\ (k + 1 <= Trips => k < Trips /\ k <= Trips)
      BY <1>0
    <3>2. QED
      BY <1>3, <3>1
  <2>3. S \in SUBSET Nat
    OBVIOUS
  <2> HIDE DEF S
  <2>4. QED
    BY <2>1, <2>2, <2>3, NatSet
<1>5. \A k \in 0 .. Trips : Described(k)
  BY <1>0, <1>4
<1>6. \A k \in 0 .. Trips - 1 : Sequential[k + 1].x.acc = Wrap(Sequential[k].x.acc + Loaded(k))
  <2> TAKE k \in 0 .. Trips - 1
  <2>1. k \in Nat /\ k < Trips /\ k \in 0 .. Trips
    BY <1>0
  <2>2. QED
    BY <1>3, <1>5, <2>1
<1>7. QED
  BY <1>1, <1>5, <1>6 DEF Described

-----------------------------------------------------------------------------
(* The threads, step by step *)

\* Nothing that the invariant says of the loop alone changes while l does not.
LEMMA Frozen ==
  ASSUME l' = l
  PROVE  /\ Trips' = Trips /\ BlockSize' = BlockSize /\ UsePar' = UsePar
         /\ Exact' = Exact /\ Sequential' = Sequential
         /\ \A t : NewC(t)' = NewC(t)
         /\ \A n : Loaded(n)' = Loaded(n)
         /\ \A m, S : Holds(m, S)' <=> Holds(m, S)
BY DEF Trips, BlockSize, UsePar, LoopTimes, Exact, Value, Sequential, Start, Nothing, Fetch,
       Cell, Advance, Update, Stored, NewC, NewBase, BlockOffset, Iteration, Loaded, Written,
       Holds

\* The iterations of a worker: they are a block of those of the loop, the
\* condition of the worker's copy of the loop bounds them, and no other worker
\* has one of them.
Divided ==
  /\ \A t \in Workers :
       /\ t \in Tid /\ From(t) \in Nat /\ Upto(t) \in Nat
       /\ From(t) <= Upto(t) /\ Upto(t) <= Trips
  /\ \A t \in Workers : \A n \in Nat : From(t) <= n =>
       (n < Upto(t) <=> IF l.leq THEN l.base + n <= Limit(t) ELSE l.base + n < Limit(t))
  /\ \A t, u \in Workers : \A n \in From(t) .. Upto(t) - 1 :
       n \in From(u) .. Upto(u) - 1 => t = u
  /\ phase \in {"par", "nopar"} =>
       UNION {From(t) .. Upto(t) - 1 : t \in Workers} = 0 .. Trips - 1

LEMMA WorkersBlocks ==
  ASSUME l \in Accepted, Exact, PcInv
  PROVE  Divided
<1>0. /\ Trips \in Nat
      /\ Trips > 0 => Trips = (IF l.leq THEN l.c + 1 ELSE l.c) - l.base
      /\ l.base \in Int /\ l.c \in Int /\ l.leq \in BOOLEAN /\ Half \in Int /\ N \in Nat \ {0}
      /\ l.base + Trips \in Int32 /\ l.base \in Int32 /\ Fits(l)
  BY TripsType, LoopTypes, HalfNat, NAssumption DEF Exact, Fits
<1>1. CASE phase = "par"
  <2>1. UsePar /\ Workers = Tid /\ Tid \subseteq Nat
    BY <1>1, NAssumption DEF PcInv, Workers, Tid
  <2>2. ASSUME NEW t \in Tid
        PROVE  /\ From(t) = BlockSize * t
               /\ Upto(t) = IF t = N - 1 THEN Trips ELSE BlockSize * (t + 1)
               /\ From(t) \in Nat /\ Upto(t) \in Nat
               /\ From(t) <= Upto(t) /\ Upto(t) <= Trips
               /\ BlockSize * t \in Int /\ BlockSize * (t + 1) \in Int
    <3>1. /\ BlockSize \in Nat \ {0} /\ BlockSize * N <= l.c - l.base
          /\ t \in Nat /\ t + 1 \in Nat /\ t <= t + 1 /\ t + 1 <= N
      BY <1>0, <2>1, BlockBounds DEF Tid
    <3>2. /\ BlockSize * t \in Nat /\ BlockSize * t <= BlockSize * (t + 1)
          /\ BlockSize * (t + 1) \in Nat /\ BlockSize * (t + 1) <= BlockSize * N
          /\ BlockSize * N \in Nat
      BY <1>0, <3>1, Monotonic
    <3>3. l.c - l.base <= Trips
      BY <1>0 DEF Trips
    <3>4. BlockSize * (t + 1) <= Trips
      BY <1>0, <3>1, <3>2, <3>3
    <3>5. From(t) = BlockSize * t /\ Upto(t) = IF t = N - 1 THEN Trips ELSE BlockSize * (t + 1)
      BY <1>1 DEF From, Upto
    <3>6. QED
      BY <1>0, <3>2, <3>4, <3>5
  <2>3. ASSUME NEW t \in Tid, NEW n \in Nat, From(t) <= n
        PROVE  (IF l.leq THEN l.base + n <= NewC(t) ELSE l.base + n < NewC(t)) <=> n < Upto(t)
    <3>1. NewC(t) = IF t = N - 1 THEN l.c
                    ELSE l.base + BlockSize * (t + 1) - (IF l.leq THEN 1 ELSE 0)
      BY <1>0, <2>1, BlockBounds
    <3>2. BlockSize * N \in Nat /\ BlockSize * N <= l.c - l.base /\ BlockSize \in Nat \ {0}
      BY <1>0, <2>1, BlockBounds, Monotonic
    <3>3. Trips = (IF l.leq THEN l.c + 1 ELSE l.c) - l.base
      BY <1>0, <3>2 DEF Trips
    <3>4. CASE t = N - 1
      <4>1. NewC(t) = l.c /\ Upto(t) = Trips
        BY <2>2, <3>1, <3>4
      <4>2. QED
        BY <1>0, <3>3, <4>1
    <3>5. CASE t # N - 1
      <4>1. /\ NewC(t) = l.base + BlockSize * (t + 1) - (IF l.leq THEN 1 ELSE 0)
            /\ Upto(t) = BlockSize * (t + 1) /\ Upto(t) \in Nat
        BY <2>2, <3>1, <3>5
      <4>2. QED
        BY <1>0, <4>1
    <3>6. QED
      BY <3>4, <3>5
  <2>4. ASSUME NEW k \in 0 .. Trips - 1
        PROVE  /\ l.base + k \in Int32 /\ l.base + k \in l.base .. l.base + Trips - 1
               /\ \A t \in Tid : InBlock(t, l.base + k) <=> k \in From(t) .. Upto(t) - 1
    <3>1. k \in Nat /\ k <= Trips - 1 /\ l.base + k \in Int32 /\ l.base + k \in l.base .. l.base + Trips - 1
      BY <1>0 DEF Int32
    <3>2. ASSUME NEW t \in Tid
          PROVE  InBlock(t, l.base + k) <=> k \in From(t) .. Upto(t) - 1
      <4>1. NewBase(t) = l.base + From(t) /\ From(t) \in Nat
        BY <1>0, <2>1, <2>2, BlockBounds
      <4>2. NewBase(t) <= l.base + k <=> From(t) <= k
        BY <1>0, <3>1, <4>1
      <4>3. InBlock(t, l.base + k) <=> From(t) <= k /\ k < Upto(t)
        BY <2>3, <3>1, <4>2 DEF InBlock
      <4>4. QED
        BY <2>2, <3>1, <4>3
    <3>3. QED
      BY <3>1, <3>2
  <2>5. BlocksTile
    BY <1>0, BlocksNow
  <2>6. \A t \in Tid : From(t) .. Upto(t) - 1 \subseteq 0 .. Trips - 1
    <3> TAKE t \in Tid
    <3>1. From(t) \in Nat /\ Upto(t) \in Nat /\ Upto(t) <= Trips
      BY <2>2
    <3>2. QED
      BY <1>0, <3>1
  <2>7. ASSUME NEW t \in Tid, NEW u \in Tid, NEW n \in From(t) .. Upto(t) - 1,
               n \in From(u) .. Upto(u) - 1
        PROVE  t = u
    BY <1>1, <2>4, <2>5, <2>6, <2>7 DEF BlocksTile
  <2>8. ASSUME NEW n \in 0 .. Trips - 1
        PROVE  \E t \in Tid : n \in From(t) .. Upto(t) - 1
    BY <1>1, <2>4, <2>5 DEF BlocksTile
  <2>9. UNION {From(t) .. Upto(t) - 1 : t \in Tid} = 0 .. Trips - 1
    <3> DEFINE B(t) == From(t) .. Upto(t) - 1
    <3>1. \A t \in Tid : B(t) \subseteq 0 .. Trips - 1
      BY <2>6
    <3>2. \A n \in 0 .. Trips - 1 : \E t \in Tid : n \in B(t)
      BY <2>8
    <3> HIDE DEF B
    <3>3. UNION {B(t) : t \in Tid} = 0 .. Trips - 1
      BY <3>1, <3>2
    <3>4. QED
      BY <3>3 DEF B
  <2>10. \A t \in Workers :
           /\ t \in Tid /\ From(t) \in Nat /\ Upto(t) \in Nat
           /\ From(t) <= Upto(t) /\ Upto(t) <= Trips
    BY <2>1, <2>2
  <2>11. \A t \in Workers : \A n \in Nat : From(t) <= n =>
           (n < Upto(t) <=> IF l.leq THEN l.base + n <= Limit(t) ELSE l.base + n < Limit(t))
    BY <1>1, <2>1, <2>3 DEF Limit
  <2>12. \A t, u \in Workers : \A n \in From(t) .. Upto(t) - 1 :
           n \in From(u) .. Upto(u) - 1 => t = u
    BY <2>1, <2>7
  <2>13. UNION {From(t) .. Upto(t) - 1 : t \in Workers} = 0 .. Trips - 1
    BY <2>1, <2>9
  <2>14. QED
    BY <2>10, <2>11, <2>12, <2>13 DEF Divided
<1>2. CASE phase = "nopar"
  <2>1. Workers = {0} /\ 0 \in Tid /\ From(0) = 0 /\ Upto(0) = Trips
    BY <1>0, <1>2 DEF Workers, From, Upto, Tid
  <2>2. \A n \in Nat : (IF l.leq THEN l.base + n <= l.c ELSE l.base + n < l.c) <=> n < Trips
    BY <1>0 DEF Trips
  <2>3. \A t \in Workers : \A n \in Nat : From(t) <= n =>
          (n < Upto(t) <=> IF l.leq THEN l.base + n <= Limit(t) ELSE l.base + n < Limit(t))
    BY <1>2, <2>1, <2>2 DEF Limit
  <2>4. \A t \in Workers : /\ t \in Tid /\ From(t) \in Nat /\ Upto(t) \in Nat
                           /\ From(t) <= Upto(t) /\ Upto(t) <= Trips
    BY <1>0, <2>1
  <2>5. UNION {From(t) .. Upto(t) - 1 : t \in Workers} = 0 .. Trips - 1
    BY <2>1
  <2>6. \A t, u \in Workers : t = u
    BY <2>1
  <2>7. QED
    BY <2>3, <2>4, <2>5, <2>6 DEF Divided
<1>3. CASE phase \notin {"par", "nopar"}
  BY <1>3 DEF Workers, Divided
<1>4. QED
  BY <1>1, <1>2, <1>3

LEMMA WorkersBlocksNext == (l \in Accepted)' /\ Exact' /\ PcInv' => Divided'
BY WorkersBlocks, PTL

\* Where a worker is.
LEMMA Placed ==
  ASSUME IInv, NEW t \in Workers
  PROVE  /\ t \in Tid /\ th[t] \in ThreadType /\ l \in Accepted
         /\ From(t) \in Nat /\ Upto(t) \in Nat /\ From(t) <= Upto(t) /\ Upto(t) <= Trips
         /\ Pos(t) \in Nat /\ From(t) <= Pos(t) /\ Pos(t) <= Upto(t)
         /\ th[t].x.i = l.base + Pos(t)
         /\ th[t].x.i = Wrap(l.base + Pos(t)) /\ th[t].x.j = Wrap(l.jbase + Pos(t) * l.jstep)
         /\ th[t].x.i = Iteration(Pos(t)).i /\ th[t].x.j = Iteration(Pos(t)).j
<1>1. l \in Accepted /\ th \in [Tid -> ThreadType] /\ PcInv /\ Exact /\ WorkerInv(t)
  BY DEF IInv, TypeOK, ThreadType, Progress
<1>2. /\ t \in Tid /\ From(t) \in Nat /\ Upto(t) \in Nat
      /\ From(t) <= Upto(t) /\ Upto(t) <= Trips
  BY <1>1, WorkersBlocks DEF Divided
<1>3. th[t] \in ThreadType /\ th[t].x.i \in Int32 /\ th[t].x.i \in Int
  BY <1>1, <1>2, LoopTypes DEF ThreadType, Registers
<1>4. Pos(t) \in Nat /\ From(t) <= Pos(t) /\ Pos(t) <= Upto(t)
  BY <1>1, <1>2 DEF WorkerInv
<1>5. th[t].x.i = l.base + Pos(t)
  BY <1>1, <1>3, LoopTypes DEF Pos
<1>6. th[t].x.i = Wrap(l.base + Pos(t))
  BY <1>3, <1>5, WrapInt32
<1>7. th[t].x.j = Wrap(l.jbase + Pos(t) * l.jstep)
  BY <1>1 DEF WorkerInv
<1>8. QED
  BY <1>1, <1>2, <1>3, <1>4, <1>5, <1>6, <1>7 DEF Iteration

\* The iteration a worker is at is one of the loop's, and nobody has finished
\* it.
LEMMA Remaining ==
  ASSUME IInv
  PROVE  /\ Finished \in SUBSET (0 .. Trips - 1)
         /\ \A t \in Workers : Pos(t) < Upto(t) => Pos(t) \in (0 .. Trips - 1) \ Finished
<1>1. \A t \in Workers : From(t) .. Pos(t) - 1 \subseteq From(t) .. Upto(t) - 1
  <2> TAKE t \in Workers
  <2>1. From(t) \in Nat /\ Pos(t) \in Nat /\ Upto(t) \in Nat /\ Pos(t) <= Upto(t)
    BY Placed
  <2>2. QED
    BY <2>1
<1>2. \A t \in Workers : From(t) .. Upto(t) - 1 \subseteq 0 .. Trips - 1
  <2> TAKE t \in Workers
  <2>1. From(t) \in Nat /\ Upto(t) \in Nat /\ Upto(t) <= Trips /\ Trips \in Nat
    BY Placed, TripsType
  <2>2. QED
    BY <2>1
<1>3. Finished \in SUBSET (0 .. Trips - 1)
  BY <1>1, <1>2 DEF Finished
<1>4. ASSUME NEW t \in Workers, Pos(t) < Upto(t), NEW u \in Workers, Pos(t) \in From(u) .. Pos(u) - 1
      PROVE  FALSE
  <2>1. /\ From(t) \in Nat /\ Pos(t) \in Nat /\ Upto(t) \in Nat /\ From(t) <= Pos(t)
        /\ From(u) \in Nat /\ Pos(u) \in Nat
    BY Placed
  <2>2. Pos(t) \in From(t) .. Upto(t) - 1
    BY <1>4, <2>1
  <2>3. Pos(t) \in From(u) .. Upto(u) - 1
    BY <1>1, <1>4
  <2>4. t = u
    BY <2>2, <2>3, WorkersBlocks DEF IInv, TypeOK, Divided
  <2>5. QED
    BY <1>4, <2>1, <2>4
<1>5. \A t \in Workers : Pos(t) < Upto(t) => Pos(t) \in From(t) .. Upto(t) - 1
  <2> TAKE t \in Workers
  <2>1. From(t) \in Nat /\ Pos(t) \in Nat /\ Upto(t) \in Nat /\ From(t) <= Pos(t)
    BY Placed
  <2>2. QED
    BY <2>1
<1>6. QED
  BY <1>2, <1>3, <1>4, <1>5 DEF Finished

\* The copy of the loop that a worker runs goes on to the end of its block.
LEMMA GoesOn ==
  ASSUME l \in Accepted, Exact, PcInv, NEW t \in Workers,
         NEW n \in From(t) .. Upto(t), NEW x, x.i = l.base + n
  PROVE  Goes(x, Limit(t)) <=> n < Upto(t)
<1>1. n \in Nat /\ From(t) <= n
  BY WorkersBlocks DEF Divided
<1>2. n < Upto(t) <=> IF l.leq THEN l.base + n <= Limit(t) ELSE l.base + n < Limit(t)
  BY <1>1, WorkersBlocks DEF Divided
<1>3. QED
  BY <1>2 DEF Goes

LEMMA LoadNext ==
  ASSUME IInv, IterationsIndependent, NEW t \in Tid, Load(t)
  PROVE  Progress'
<1>1. l \in Accepted /\ th \in [Tid -> ThreadType] /\ Progress
  BY DEF IInv, TypeOK, ThreadType
<1>2. t \in Workers /\ WorkerInv(t) /\ phase # "done"
  <2>1. t \in Workers /\ WorkerInv(t)
    BY <1>1 DEF Load, Progress
  <2>2. QED
    BY <2>1 DEF Workers
<1>3. Pos(t) < Upto(t)
  BY <1>2, Placed DEF Load, WorkerInv
<1>4. Fetch(mem, Cell(l.read, th[t].x)) = Loaded(Pos(t))
  <2> DEFINE n == Pos(t)
  <2>1. n \in (0 .. Trips - 1) \ Finished /\ Finished \in SUBSET (0 .. Trips - 1)
    BY <1>2, <1>3, Remaining
  <2>2. th[t].x.i = Iteration(n).i /\ th[t].x.j = Iteration(n).j
    BY <1>2, Placed
  <2>3. Holds(mem, Finished)
    BY <1>1, <1>2 DEF Progress
  <2> HIDE DEF n
  <2>4. Fetch(mem, Cell(l.read, th[t].x)) = Loaded(n)
    BY <1>1, <2>1, <2>2, <2>3, LoadedValue
  <2>5. QED
    BY <2>4 DEF n
<1>5. l' = l /\ phase' = phase /\ mem' = mem /\ outReduce' = outReduce /\ outInd' = outInd
  BY DEF Load
<1>6. /\ \A u \in Tid : th'[u].x = th[u].x /\ th'[u].c = th[u].c
      /\ \A u \in Tid \ {t} : th'[u] = th[u]
      /\ th'[t].pc = "store" /\ th'[t].v = Loaded(Pos(t))
  BY <1>1, <1>4 DEF Load, ThreadType
<1>7. /\ Workers' = Workers /\ Workers \subseteq Tid
      /\ \A u \in Tid : From(u)' = From(u) /\ Upto(u)' = Upto(u) /\ Limit(u)' = Limit(u)
      /\ \A u \in Tid : Pos(u)' = Pos(u)
  <2>1. Workers \subseteq Tid
    BY Placed
  <2>2. QED
    BY <1>5, <1>6, <2>1, Frozen DEF Workers, From, Upto, Limit, Pos
<1>8. \A u \in Tid : Share(u)' = Share(u)
  BY <1>5, <1>7, Frozen DEF Share
<1>9. Finished' = Finished
  BY <1>7 DEF Finished
<1>10. ASSUME NEW u \in Workers PROVE WorkerInv(u)'
  <2>1. WorkerInv(u) /\ u \in Tid
    BY <1>1, <1>7 DEF Progress
  <2>2. CASE u = t
    BY <1>2, <1>3, <1>5, <1>6, <1>7, <1>8, <2>1, <2>2, Frozen DEF WorkerInv
  <2>3. CASE u # t
    BY <1>5, <1>6, <1>7, <1>8, <2>1, <2>3, Frozen DEF WorkerInv
  <2>4. QED
    BY <2>2, <2>3
<1>11. Holds(mem, Finished)'
  <2>1. Holds(mem', Finished')
    BY <1>1, <1>2, <1>5, <1>9 DEF Progress
  <2>2. QED
    BY <1>5, <2>1, Frozen
<1>12. \A u \in Tid \ Workers : th'[u].pc \notin {"load", "store"}
  BY <1>1, <1>2, <1>6 DEF Progress
<1>13. SameResult'
  BY <1>2, <1>5 DEF SameResult
<1>14. QED
  BY <1>5, <1>7, <1>10, <1>11, <1>12, <1>13 DEF Progress

\* Adding what an iteration loaded to a worker's share.
LEMMA ShareGrows ==
  ASSUME NEW a \in Int, NEW b \in Int, NEW v \in Int
  PROVE  Wrap(Wrap(a - b) + v) = Wrap(Wrap(a + v) - b)
<1>1. a - b \in Int /\ a + v \in Int /\ -b \in Int
  OBVIOUS
<1>2. Wrap(Wrap(a - b) + v) = Wrap((a - b) + v)
  BY <1>1, WrapAdd
<1>3. Wrap(Wrap(a + v) + (-b)) = Wrap((a + v) + (-b))
  BY <1>1, WrapAdd
<1>4. Wrap(a + v) \in Int
  BY <1>1, WrapAdd
<1>5. (a - b) + v = (a + v) + (-b) /\ Wrap(a + v) + (-b) = Wrap(a + v) - b
  BY <1>1, <1>4
<1>6. QED
  BY <1>2, <1>3, <1>5

\* A share one iteration further.
LEMMA NextShare ==
  ASSUME IInv, IterationsIndependent, NEW t \in Workers, Pos(t) < Upto(t)
  PROVE  LET b == IF phase = "par" THEN Sequential[From(t)].x.acc ELSE 0
         IN  Wrap(Share(t) + Loaded(Pos(t))) = Wrap(Sequential[Pos(t) + 1].x.acc - b)
<1> DEFINE b == IF phase = "par" THEN Sequential[From(t)].x.acc ELSE 0
           n == Pos(t)
           a == Sequential[n].x.acc
           v == Loaded(n)
<1>1. l \in Accepted /\ Exact
  BY DEF IInv, TypeOK
<1>2. Trips \in Nat /\ Int32 \subseteq Int
  BY <1>1, TripsType, LoopTypes
<1>3. From(t) \in 0 .. Trips /\ n \in 0 .. Trips /\ n \in 0 .. Trips - 1
  <2>1. /\ From(t) \in Nat /\ Upto(t) \in Nat /\ n \in Nat /\ From(t) <= n /\ n < Upto(t)
        /\ Upto(t) <= Trips
    BY Placed
  <2> HIDE DEF n
  <2>2. QED
    BY <1>2, <2>1
<1>4. a \in Int /\ b \in Int /\ Sequential[n + 1].x.acc = Wrap(a + v)
  <2> HIDE DEF n
  <2>1. /\ \A k \in 0 .. Trips : Sequential[k].x.acc \in Int32
        /\ \A k \in 0 .. Trips - 1 : Sequential[k + 1].x.acc = Wrap(Sequential[k].x.acc + Loaded(k))
    BY <1>1, SequentialValue
  <2>2. a \in Int /\ b \in Int
    BY <1>2, <1>3, <2>1
  <2>3. QED
    BY <1>3, <2>1, <2>2
<1>5. v \in Int
  <2>1. Iteration(n).i \in Int /\ Iteration(n).j \in Int
    BY <1>1, <1>3, ExactIteration
  <2>2. \A c \in DOMAIN Nothing : Nothing[c] \in Int32
    BY DEF Nothing
  <2>3. Fetch(Nothing, Cell(l.read, Iteration(n))) \in Int32
    BY <1>1, <2>1, <2>2, FetchType
  <2>4. QED
    BY <1>2, <2>3 DEF Fetch, Nothing, Loaded
<1>6. Share(t) = Wrap(a - b)
  BY DEF Share
<1> HIDE DEF a, b, v, n
<1>7. Wrap(Wrap(a - b) + v) = Wrap(Wrap(a + v) - b)
  BY <1>4, <1>5, ShareGrows
<1>8. Wrap(Share(t) + v) = Wrap(Sequential[n + 1].x.acc - b)
  BY <1>4, <1>6, <1>7
<1>9. QED
  BY <1>8 DEF b, v, n

LEMMA StoreNext ==
  ASSUME IInv, IterationsIndependent, NEW t \in Tid, Store(t)
  PROVE  Progress'
<1>1. l \in Accepted /\ th \in [Tid -> ThreadType] /\ Progress /\ Exact /\ PcInv
  BY DEF IInv, TypeOK, ThreadType
<1>2. t \in Workers /\ WorkerInv(t) /\ phase # "done"
  <2>1. t \in Workers /\ WorkerInv(t)
    BY <1>1 DEF Store, Progress
  <2>2. QED
    BY <2>1 DEF Workers
<1>3. /\ Pos(t) < Upto(t) /\ th[t].v = Loaded(Pos(t)) /\ th[t].c = Limit(t)
      /\ th[t].x.acc = Share(t)
  BY <1>2, Placed DEF Store, WorkerInv
<1> DEFINE n == Pos(t)
           y == Advance(th[t].x, Loaded(n))
<1>4. /\ n \in Nat /\ n + 1 \in From(t) .. Upto(t) /\ From(t) \in Nat /\ From(t) <= n
      /\ l.base + (n + 1) \in Int32
  <2>1. /\ From(t) \in Nat /\ Upto(t) \in Nat /\ n \in Nat /\ From(t) <= n /\ n < Upto(t)
        /\ Upto(t) <= Trips
    BY <1>2, <1>3, Placed
  <2>2. Trips \in Nat /\ l.base \in Int /\ l.base \in Int32 /\ l.base + Trips \in Int32
    BY <1>1, TripsType, LoopTypes DEF Exact
  <2> HIDE DEF n
  <2>3. QED
    BY <2>1, <2>2, HalfNat DEF Int32
<1>5. /\ y.i = l.base + (n + 1) /\ y.j = Wrap(l.jbase + (n + 1) * l.jstep)
      /\ y.acc = Wrap(Share(t) + Loaded(n))
  <2>1. th[t].x.i = Wrap(l.base + n) /\ th[t].x.j = Wrap(l.jbase + n * l.jstep)
    BY <1>2, Placed
  <2> HIDE DEF n
  <2>2. /\ y.i = Wrap(l.base + (n + 1)) /\ y.j = Wrap(l.jbase + (n + 1) * l.jstep)
        /\ y.acc = Wrap(th[t].x.acc + Loaded(n))
    BY <1>1, <1>4, <2>1, AdvanceValue
  <2>3. QED
    BY <1>3, <1>4, <2>2, WrapInt32
<1>6. Goes(y, Limit(t)) <=> n + 1 < Upto(t)
  <2> HIDE DEF n, y
  <2>1. QED
    BY <1>1, <1>2, <1>4, <1>5, GoesOn
<1>7. /\ th'[t] = Thread(y, Limit(t), Loaded(n))
      /\ \A u \in Tid \ {t} : th'[u] = th[u]
      /\ mem' = Update(mem, Cell(l.write, th[t].x), Stored(th[t].x, Loaded(n)))
      /\ l' = l /\ phase' = phase /\ outReduce' = outReduce /\ outInd' = outInd
  BY <1>1, <1>3 DEF Store
<1>8. /\ th'[t].x = y /\ th'[t].c = Limit(t)
      /\ th'[t].pc = IF n + 1 < Upto(t) THEN "load" ELSE "exit"
  <2> HIDE DEF n, y
  <2>1. QED
    BY <1>6, <1>7 DEF Thread
<1> HIDE DEF y
<1>9. /\ Workers' = Workers /\ Workers \subseteq Tid
      /\ \A u \in Tid : From(u)' = From(u) /\ Upto(u)' = Upto(u) /\ Limit(u)' = Limit(u)
      /\ \A u \in Tid \ {t} : Pos(u)' = Pos(u)
      /\ Pos(t)' = n + 1
  <2>1. Workers \subseteq Tid
    BY Placed
  <2>2. Pos(t)' = n + 1
    <3>1. Pos(t)' = th'[t].x.i - l.base
      BY <1>7 DEF Pos
    <3> HIDE DEF n
    <3>2. QED
      BY <1>1, <1>4, <1>5, <1>8, <3>1, LoopTypes
  <2>3. \A u \in Tid \ {t} : Pos(u)' = Pos(u)
    BY <1>7 DEF Pos
  <2>4. QED
    BY <1>7, <2>1, <2>2, <2>3, Frozen DEF Workers, From, Upto, Limit
<1>10. \A u \in Tid \ {t} : Share(u)' = Share(u)
  BY <1>7, <1>9, Frozen DEF Share
<1>11. Share(t)' = y.acc
  <2> DEFINE b == IF phase = "par" THEN Sequential[From(t)].x.acc ELSE 0
  <2>1. Share(t)' = Wrap(Sequential[n + 1].x.acc - b)
    BY <1>2, <1>7, <1>9, Frozen DEF Share
  <2>2. Wrap(Share(t) + Loaded(n)) = Wrap(Sequential[n + 1].x.acc - b)
    BY <1>2, <1>3, NextShare
  <2>3. QED
    BY <1>5, <2>1, <2>2
<1>12. Finished' = Finished \cup {n}
  <2> DEFINE old(u) == From(u) .. Pos(u) - 1
             new(u) == IF u = t THEN From(u) .. n ELSE old(u)
  <2>1. Finished' = UNION {new(u) : u \in Workers}
    <3>1. (n + 1) - 1 = n
      BY <1>4
    <3>2. \A u \in Workers : From(u)' .. (Pos(u)' - 1) = new(u)
      BY <1>9, <3>1
    <3>3. Finished' = UNION {From(u)' .. (Pos(u)' - 1) : u \in Workers}
      BY <1>9 DEF Finished
    <3> HIDE DEF new
    <3>4. QED
      BY <3>2, <3>3
  <2>2. new(t) = old(t) \cup {n} /\ t \in Workers
    BY <1>2, <1>4
  <2>3. \A u \in Workers : u # t => new(u) = old(u)
    OBVIOUS
  <2> HIDE DEF new, old
  <2>4. UNION {new(u) : u \in Workers} = (UNION {old(u) : u \in Workers}) \cup {n}
    BY <2>2, <2>3
  <2>5. QED
    BY <2>1, <2>4 DEF Finished, old
<1>13. ASSUME NEW u \in Workers PROVE WorkerInv(u)'
  <2>1. WorkerInv(u) /\ u \in Tid
    BY <1>1, <1>9 DEF Progress
  <2>2. CASE u = t
    <3>1. Pos(t)' \in From(t)' .. Upto(t)'
      BY <1>2, <1>4, <1>9, Placed
    <3>2. \/ th'[t].pc = "load" /\ Pos(t)' < Upto(t)'
          \/ th'[t].pc = "exit" /\ Pos(t)' = Upto(t)'
      <4>1. n + 1 \in Int /\ Upto(t) \in Int /\ n + 1 <= Upto(t)
        BY <1>2, <1>4, Placed
      <4> HIDE DEF n
      <4>2. QED
        BY <1>2, <1>8, <1>9, <4>1, Placed
    <3>3. th'[t].x.j = Wrap(l.jbase + Pos(t)' * l.jstep)
      BY <1>2, <1>5, <1>8, <1>9, Placed
    <3>4. th'[t].x.acc = Share(t)'
      BY <1>8, <1>11
    <3>5. QED
      BY <1>2, <1>7, <1>8, <1>9, <2>2, <3>1, <3>2, <3>3, <3>4 DEF WorkerInv
  <2>3. CASE u # t
    BY <1>7, <1>9, <1>10, <2>1, <2>3, Frozen DEF WorkerInv
  <2>4. QED
    BY <2>2, <2>3
<1>14. Holds(mem, Finished)'
  <2>1. n \in (0 .. Trips - 1) \ Finished /\ Finished \in SUBSET (0 .. Trips - 1)
    BY <1>2, <1>3, Remaining
  <2>2. th[t].x.i = Iteration(n).i /\ th[t].x.j = Iteration(n).j
    BY <1>2, Placed
  <2>3. Holds(mem, Finished)
    BY <1>1, <1>2 DEF Progress
  <2> HIDE DEF n
  <2>4. Holds(mem', Finished \cup {n})
    BY <1>1, <1>7, <2>1, <2>2, <2>3, StoredValue
  <2>5. Holds(mem', Finished')
    BY <1>12, <2>4
  <2>6. QED
    BY <1>7, <2>5, Frozen
<1>15. \A u \in Tid \ Workers : th'[u].pc \notin {"load", "store"}
  BY <1>1, <1>2, <1>7 DEF Progress
<1>16. SameResult'
  BY <1>2, <1>7 DEF SameResult
<1>17. QED
  BY <1>7, <1>9, <1>13, <1>14, <1>15, <1>16 DEF Progress

LEMMA ExitParNext ==
  ASSUME IInv, NEW t \in Tid, ExitPar(t)
  PROVE  Progress'
<1>1. l \in Accepted /\ th \in [Tid -> ThreadType] /\ Progress /\ outReduce \in [Tid -> Int32]
  BY DEF IInv, TypeOK, ThreadType
<1>2. t \in Workers /\ WorkerInv(t) /\ phase = "par" /\ Workers = Tid
  BY <1>1 DEF ExitPar, Progress, Workers
<1>3. l' = l /\ phase' = phase /\ mem' = mem
  BY DEF ExitPar
<1>4. /\ \A u \in Tid : th'[u].x = th[u].x /\ th'[u].c = th[u].c
      /\ \A u \in Tid \ {t} : th'[u] = th[u] /\ outReduce'[u] = outReduce[u]
      /\ th[t].pc = "exit" /\ th'[t].pc = "joined" /\ outReduce'[t] = th[t].x.acc
      /\ outInd' = IF t = N - 1 THEN [i |-> th[t].x.i, j |-> th[t].x.j] ELSE outInd
  BY <1>1 DEF ExitPar, ThreadType
<1>5. /\ Workers' = Workers
      /\ \A u \in Tid : From(u)' = From(u) /\ Upto(u)' = Upto(u) /\ Limit(u)' = Limit(u)
      /\ \A u \in Tid : Pos(u)' = Pos(u)
  BY <1>3, <1>4, Frozen DEF Workers, From, Upto, Limit, Pos
<1>6. \A u \in Tid : Share(u)' = Share(u)
  BY <1>3, <1>5, Frozen DEF Share
<1>7. Finished' = Finished
  BY <1>2, <1>5 DEF Finished
<1>8. ASSUME NEW u \in Tid PROVE WorkerInv(u)'
  <2>1. WorkerInv(u)
    BY <1>1, <1>2 DEF Progress
  <2>2. CASE u = t
    <3>1. Pos(t) = Upto(t)
      BY <1>2, <1>4 DEF WorkerInv
    <3>2. QED
      BY <1>2, <1>3, <1>4, <1>5, <1>6, <2>2, <3>1, Frozen DEF WorkerInv
  <2>3. CASE u # t
    BY <1>3, <1>4, <1>5, <1>6, <2>1, <2>3, Frozen DEF WorkerInv
  <2>4. QED
    BY <2>2, <2>3
<1>9. Holds(mem, Finished)'
  <2>1. Holds(mem', Finished')
    BY <1>1, <1>2, <1>3, <1>7 DEF Progress
  <2>2. QED
    BY <1>3, <2>1, Frozen
<1>10. SameResult'
  BY <1>2, <1>3 DEF SameResult
<1>11. QED
  BY <1>2, <1>3, <1>5, <1>8, <1>9, <1>10 DEF Progress

\* The memory of a loop is known from the iterations that have run.
LEMMA HoldsUnique ==
  ASSUME NEW a, NEW b, NEW S, Holds(a, S), Holds(b, S)
  PROVE  a = b
<1> DEFINE cells == {Cell(l.write, Iteration(n)) : n \in S}
<1>1. \A c \in cells : a[c] = b[c]
  BY DEF Holds
<1>2. a = [c \in cells |-> a[c]] /\ b = [c \in cells |-> b[c]]
  BY DEF Holds
<1> HIDE DEF cells
<1>3. [c \in cells |-> a[c]] = [c \in cells |-> b[c]]
  BY <1>1
<1>4. QED
  BY <1>2, <1>3

\* What the loop leaves, when every iteration has run.
LEMMA AllFinished ==
  ASSUME IInv, IterationsIndependent, phase \in {"par", "nopar"},
         \A t \in Workers : Pos(t) = Upto(t)
  PROVE  mem = Sequential[Trips].mem
<1>1. l \in Accepted /\ Exact /\ PcInv /\ Holds(mem, Finished)
  BY DEF IInv, TypeOK, Progress
<1>2. Finished = 0 .. Trips - 1
  BY <1>1, WorkersBlocks DEF Finished, Divided
<1>3. Trips \in 0 .. Trips
  BY <1>1, TripsType
<1>4. Holds(Sequential[Trips].mem, 0 .. Trips - 1)
  BY <1>1, <1>3, SequentialValue
<1>5. QED
  BY <1>1, <1>2, <1>4, HoldsUnique

LEMMA ExitNoParNext ==
  ASSUME IInv, IterationsIndependent, ExitNoPar
  PROVE  Progress'
<1>1. /\ l \in Accepted /\ Exact /\ Progress /\ phase = "nopar" /\ Workers = {0}
      /\ th \in [Tid -> ThreadType] /\ th[0].pc = "exit"
  BY DEF IInv, TypeOK, ThreadType, ExitNoPar, Workers
<1>2. /\ WorkerInv(0) /\ 0 \in Workers /\ 0 \in Tid /\ Pos(0) = Upto(0) /\ Upto(0) = Trips
      /\ Trips \in Nat
  <2>1. WorkerInv(0) /\ 0 \in Workers /\ Upto(0) = Trips /\ Trips \in Nat
    BY <1>1, TripsType DEF Progress, Upto
  <2>2. QED
    BY <1>1, <2>1, Placed DEF WorkerInv
<1>3. mem = Sequential[Trips].mem
  BY <1>1, <1>2, AllFinished
<1>4. th[0].x = Sequential[Trips].x
  <2>1. /\ th[0].x \in Registers
        /\ th[0].x.i = Wrap(l.base + Trips) /\ th[0].x.j = Wrap(l.jbase + Trips * l.jstep)
    BY <1>2, Placed DEF ThreadType
  <2>2. /\ Sequential[Trips].x = [i |-> Wrap(l.base + Trips), j |-> Wrap(l.jbase + Trips * l.jstep),
                                  acc |-> Sequential[Trips].x.acc]
        /\ Sequential[Trips].x.acc \in Int32
    BY <1>1, <1>2, SequentialValue
  <2>3. th[0].x.acc = Sequential[Trips].x.acc
    <3>1. th[0].x.acc = Wrap(Sequential[Trips].x.acc - 0)
      BY <1>1, <1>2 DEF WorkerInv, Share
    <3>2. Sequential[Trips].x.acc \in Int /\ Wrap(Sequential[Trips].x.acc) = Sequential[Trips].x.acc
      BY <2>2, WrapInt32
    <3>3. Sequential[Trips].x.acc - 0 = Sequential[Trips].x.acc
      BY <3>2
    <3>4. QED
      BY <3>1, <3>2, <3>3
  <2>4. QED
    BY <2>1, <2>2, <2>3 DEF Registers
<1>5. l' = l /\ th' = th /\ mem' = mem /\ phase' = "done" /\ result' = th[0].x
  BY DEF ExitNoPar
<1>6. Workers' = {}
  BY <1>5 DEF Workers
<1>7. SameResult'
  BY <1>3, <1>4, <1>5, Frozen DEF SameResult
<1>8. \A t \in Tid : th'[t].pc \notin {"load", "store"}
  BY <1>1, <1>5 DEF Progress
<1>9. QED
  BY <1>5, <1>6, <1>7, <1>8 DEF Progress

\* The sum after the shares of t threads is what the loop has before the block
\* of thread t.
LEMMA Telescope ==
  ASSUME IInv, IterationsIndependent, phase = "par", \A t \in Tid : th[t].pc = "joined"
  PROVE  Summed[N] = Sequential[Trips].x.acc
<1>1. /\ l \in Accepted /\ Exact /\ PcInv /\ Progress /\ Workers = Tid
      /\ outReduce \in [Tid -> Int32] /\ N \in Nat \ {0} /\ Trips \in Nat /\ Fits(l) /\ UsePar
      /\ l.leq \in BOOLEAN
  BY NAssumption, TripsType, LoopTypes DEF IInv, TypeOK, PcInv, Progress, Workers, Exact, Fits
<1> DEFINE Acc(k) == Sequential[k].x.acc
           S == {t \in Nat : t < N => Summed[t] = Acc(BlockSize * t)}
<1>2. \A k \in 0 .. Trips : Acc(k) \in Int32
  BY <1>1, SequentialValue
<1>3. ASSUME NEW t \in Tid, Summed[t] = Acc(From(t))
      PROVE  Summed[t + 1] = Acc(Upto(t))
  <2>1. /\ WorkerInv(t) /\ Pos(t) = Upto(t) /\ From(t) \in 0 .. Trips /\ Upto(t) \in 0 .. Trips
        /\ outReduce[t] = Share(t)
    <3>1. WorkerInv(t)
      BY <1>1 DEF Progress
    <3>2. Pos(t) = Upto(t) /\ outReduce[t] = Share(t)
      BY <3>1 DEF WorkerInv
    <3>3. From(t) \in Nat /\ Upto(t) \in Nat /\ From(t) <= Upto(t) /\ Upto(t) <= Trips
      BY <1>1, Placed
    <3>4. QED
      BY <1>1, <3>1, <3>2, <3>3
  <2> DEFINE a == Acc(From(t))
             b == Acc(Upto(t))
  <2>2. outReduce[t] = Wrap(b - a)
    BY <2>1 DEF Share
  <2>3. Summed[t + 1] = Wrap(a + Wrap(b - a))
    BY <1>1, <1>3, <2>2, SummedEquations
  <2>4. a \in Int /\ b \in Int /\ Wrap(b) = b
    BY <1>2, <2>1, WrapInt32
  <2> HIDE DEF a, b, Acc
  <2>5. Wrap(a + Wrap(b - a)) = Wrap(a + (b - a)) /\ a + (b - a) = b
    <3>1. b - a \in Int
      BY <2>4
    <3>2. QED
      BY <2>4, <3>1, WrapAdd
  <2>6. QED
    BY <2>3, <2>4, <2>5 DEF b
<1>4. S = Nat
  <2>1. 0 \in S
    <3>1. BlockSize * 0 = 0
      BY <1>1, NAssumption, BlockBounds DEF Tid
    <3>2. Summed[0] = l.accbase /\ Acc(0) = l.accbase
      BY <1>1, SummedEquations, SequentialValue
    <3>3. QED
      BY <3>1, <3>2
  <2>2. ASSUME NEW t \in S PROVE t + 1 \in S
    <3>1. SUFFICES ASSUME t + 1 < N PROVE Summed[t + 1] = Acc(BlockSize * (t + 1))
      OBVIOUS
    <3>2. t \in Tid /\ t # N - 1 /\ Summed[t] = Acc(BlockSize * t)
      BY <1>1, <3>1 DEF Tid
    <3>3. From(t) = BlockSize * t /\ Upto(t) = BlockSize * (t + 1)
      BY <3>2 DEF From, Upto
    <3> HIDE DEF Acc
    <3>4. QED
      BY <1>3, <3>2, <3>3
  <2>3. S \in SUBSET Nat
    OBVIOUS
  <2> HIDE DEF S
  <2>4. QED
    BY <2>1, <2>2, <2>3, NatSet
<1>5. N - 1 \in Tid /\ (N - 1) + 1 = N /\ N - 1 \in Nat /\ N - 1 < N
  BY <1>1 DEF Tid
<1>6. Summed[N - 1] = Acc(From(N - 1))
  <2>1. Summed[N - 1] = Acc(BlockSize * (N - 1))
    BY <1>4, <1>5
  <2>2. QED
    BY <2>1 DEF From
<1> HIDE DEF Acc
<1>7. Summed[(N - 1) + 1] = Acc(Upto(N - 1))
  BY <1>3, <1>5, <1>6
<1>8. QED
  BY <1>5, <1>7 DEF Upto, Acc

LEMMA NewExitNext ==
  ASSUME IInv, IterationsIndependent, NewExit
  PROVE  Progress'
<1>1. /\ l \in Accepted /\ Exact /\ Progress /\ phase = "par" /\ Workers = Tid
      /\ \A t \in Tid : th[t].pc = "joined" /\ WorkerInv(t)
      /\ N - 1 \in Tid /\ Trips \in Nat
  BY TripsType, NAssumption DEF IInv, TypeOK, NewExit, Workers, Progress, Tid
<1>2. \A t \in Workers : Pos(t) = Upto(t)
  BY <1>1 DEF WorkerInv
<1>3. mem = Sequential[Trips].mem
  BY <1>1, <1>2, AllFinished
<1>4. Summed[N] = Sequential[Trips].x.acc
  BY <1>1, Telescope
<1>5. outInd.i = Wrap(l.base + Trips) /\ outInd.j = Wrap(l.jbase + Trips * l.jstep)
  <2>1. outInd = [i |-> th[N - 1].x.i, j |-> th[N - 1].x.j]
    BY <1>1 DEF WorkerInv
  <2>2. Pos(N - 1) = Trips
    BY <1>1, <1>2 DEF Upto
  <2>3. QED
    BY <1>1, <2>1, <2>2, Placed
<1>6. Sequential[Trips].x = [i |-> Wrap(l.base + Trips), j |-> Wrap(l.jbase + Trips * l.jstep),
                             acc |-> Sequential[Trips].x.acc]
  BY <1>1, SequentialValue
<1>7. /\ l' = l /\ th' = th /\ mem' = mem /\ phase' = "done"
      /\ result' = [i |-> outInd.i, j |-> outInd.j, acc |-> Summed[N]]
  BY DEF NewExit
<1>8. Workers' = {}
  BY <1>7 DEF Workers
<1>9. SameResult'
  BY <1>3, <1>4, <1>5, <1>6, <1>7, Frozen DEF SameResult
<1>10. \A t \in Tid : th'[t].pc \notin {"load", "store"}
  BY <1>1, <1>7
<1>11. QED
  BY <1>7, <1>8, <1>9, <1>10 DEF Progress

LEMMA NothingHolds == Holds(Nothing, {})
BY DEF Holds, Nothing

\* A worker that has just been started, at the first iteration n of its block.
LEMMA Begun ==
  ASSUME l \in Accepted, Exact, NEW n \in Nat, NEW u \in Nat, n <= u,
         NEW x, x.i = l.base + n, NEW c, Goes(x, c) <=> n < u
  PROVE  LET r == Thread(x, c, 0) IN
         /\ r.x = x /\ r.c = c /\ r.x.i - l.base = n
         /\ \/ r.pc \in {"load", "store"} /\ n < u
            \/ r.pc \in {"exit", "joined"} /\ n = u
         /\ r.pc # "store" /\ r.pc # "joined"
<1>1. Thread(x, c, 0).x = x /\ Thread(x, c, 0).c = c
  BY DEF Thread
<1>2. x.i - l.base = n
  BY LoopTypes
<1>3. Thread(x, c, 0).pc = IF n < u THEN "load" ELSE "exit"
  BY DEF Thread
<1>4. n < u \/ n = u
  OBVIOUS
<1>5. QED
  BY <1>1, <1>2, <1>3, <1>4

LEMMA EnterNoParNext ==
  ASSUME IInv, EnterNoPar
  PROVE  Progress'
<1>1. /\ l \in Accepted /\ Exact /\ Progress /\ phase = "entry" /\ Workers = {} /\ 0 \in Tid
      /\ th \in [Tid -> ThreadType] /\ Trips \in Nat /\ PcInv'
  BY TripsType, NAssumption, PcNext DEF IInv, TypeOK, ThreadType, EnterNoPar, Workers, Tid, Next
<1>2. /\ l' = l /\ mem' = mem /\ phase' = "nopar"
      /\ th'[0] = Thread(Start, l.c, 0) /\ \A t \in Tid \ {0} : th'[t] = th[t]
  BY <1>1 DEF EnterNoPar
<1>3. Workers' = {0} /\ From(0)' = 0 /\ Upto(0)' = Trips /\ Limit(0)' = l.c
  BY <1>2, Frozen DEF Workers, From, Upto, Limit
<1>4. Goes(Start, l.c) <=> 0 < Trips
  BY <1>1, LoopTypes DEF Goes, Start, Trips
<1>5. /\ th'[0].x = Start /\ th'[0].c = l.c /\ th'[0].x.i - l.base = 0
      /\ \/ th'[0].pc \in {"load", "store"} /\ 0 < Trips
         \/ th'[0].pc \in {"exit", "joined"} /\ 0 = Trips
      /\ th'[0].pc # "store" /\ th'[0].pc # "joined"
  <2>1. Start.i = l.base + 0
    BY <1>1, LoopTypes DEF Start
  <2>2. QED
    BY <1>1, <1>2, <1>4, <2>1, Begun
<1>6. Pos(0)' = 0
  BY <1>2, <1>5 DEF Pos
<1>7. th'[0].x.j = Wrap(l.jbase + 0 * l.jstep)
  <2>1. l.jbase + 0 * l.jstep = l.jbase
    BY <1>1, LoopTypes
  <2>2. QED
    BY <1>1, <1>5, <2>1, LoopTypes, WrapInt32 DEF Start
<1>8. th'[0].x.acc = Share(0)'
  <2>1. Sequential[0].x.acc = l.accbase /\ l.accbase \in Int
    BY <1>1, SequentialEquations, LoopTypes DEF Start
  <2>2. l.accbase - 0 = l.accbase /\ Wrap(l.accbase) = l.accbase
    BY <1>1, <2>1, LoopTypes, WrapInt32
  <2>3. Share(0)' = Wrap(l.accbase - 0)
    BY <1>2, <1>6, <2>1, Frozen DEF Share
  <2>4. QED
    BY <1>5, <2>2, <2>3 DEF Start
<1>9. WorkerInv(0)'
  <2>1. 0 \in 0 .. Trips
    BY <1>1
  <2>2. QED
    BY <1>2, <1>3, <1>5, <1>6, <1>7, <1>8, <2>1 DEF WorkerInv
<1>10. Holds(mem, Finished)'
  <2>1. Finished' = {}
    <3>1. Finished' = UNION {From(t)' .. (Pos(t)' - 1) : t \in {0}}
      BY <1>3 DEF Finished
    <3>2. From(0)' .. (Pos(0)' - 1) = {}
      BY <1>3, <1>6
    <3>3. QED
      BY <3>1, <3>2
  <2>2. Finished = {}
    BY <1>1 DEF Finished
  <2>3. Holds(mem', Finished')
    BY <1>1, <1>2, <2>1, <2>2 DEF Progress
  <2>4. QED
    BY <1>2, <2>3, Frozen
<1>11. \A t \in Tid \ {0} : th'[t].pc \notin {"load", "store"}
  BY <1>1, <1>2 DEF Progress
<1>12. SameResult'
  BY <1>2 DEF SameResult
<1>13. QED
  BY <1>2, <1>3, <1>9, <1>10, <1>11, <1>12 DEF Progress

LEMMA EnterParNext ==
  ASSUME IInv, IterationsIndependent, EnterPar
  PROVE  Progress'
<1>1. /\ l \in Accepted /\ Exact /\ Progress /\ phase = "entry" /\ Workers = {} /\ UsePar
      /\ Trips \in Nat /\ Fits(l) /\ l.leq \in BOOLEAN
  BY TripsType, LoopTypes DEF IInv, TypeOK, EnterPar, Workers, Exact, Fits
<1>2. /\ l' = l /\ mem' = mem /\ phase' = "par"
      /\ \A t \in Tid : th'[t] = Thread(ThreadStart(t), NewC(t), 0)
  BY DEF EnterPar
<1>3. PcInv'
  BY PcNext DEF IInv, Next
<1>4. /\ Workers' = Tid
      /\ \A t \in Tid : From(t)' = BlockSize * t /\ Limit(t)' = NewC(t)
  BY <1>2, Frozen DEF Workers, From, Limit
<1>5. Divided'
  BY <1>1, <1>2, <1>3, WorkersBlocksNext, Frozen
<1>6. ASSUME NEW t \in Tid PROVE WorkerInv(t)' /\ Pos(t)' = From(t)' /\ From(t)' \in Int
  <2> DEFINE n == From(t)'
             u == Upto(t)'
             x == ThreadStart(t)
  <2>1. /\ n = BlockSize * t /\ n \in Nat /\ u \in Nat /\ n <= u /\ u <= Trips
        /\ n < u <=> IF l.leq THEN l.base + n <= NewC(t) ELSE l.base + n < NewC(t)
    BY <1>2, <1>4, <1>5, Frozen DEF Divided
  <2>2. /\ x.i = l.base + n /\ x.j = Wrap(Wrap(n * l.jstep) + l.jbase) /\ x.acc = 0
    BY <1>1, <2>1, BlockBounds DEF ThreadStart
  <2> HIDE DEF n, u, x
  <2>3. Goes(x, NewC(t)) <=> n < u
    BY <2>1, <2>2 DEF Goes
  <2>4. /\ th'[t].x = x /\ th'[t].c = NewC(t) /\ th'[t].x.i - l.base = n
        /\ \/ th'[t].pc \in {"load", "store"} /\ n < u
           \/ th'[t].pc \in {"exit", "joined"} /\ n = u
        /\ th'[t].pc # "store" /\ th'[t].pc # "joined"
    <3>1. th'[t] = Thread(x, NewC(t), 0)
      BY <1>2 DEF x
    <3>2. QED
      BY <1>1, <2>1, <2>2, <2>3, <3>1, Begun
  <2>5. Pos(t)' = n
    BY <1>2, <2>4 DEF Pos
  <2>6. th'[t].x.j = Wrap(l.jbase + n * l.jstep)
    <3>1. l.jbase \in Int /\ n * l.jstep \in Int
      BY <1>1, <2>1, LoopTypes
    <3>2. Wrap(Wrap(n * l.jstep) + l.jbase) = Wrap(n * l.jstep + l.jbase)
      BY <3>1, WrapAdd
    <3>3. n * l.jstep + l.jbase = l.jbase + n * l.jstep
      BY <3>1
    <3>4. QED
      BY <2>2, <2>4, <3>2, <3>3
  <2>7. th'[t].x.acc = Share(t)'
    <3>1. n \in 0 .. Trips
      BY <1>1, <2>1
    <3>2. Sequential[n].x.acc \in Int
      BY <1>1, <3>1, SequentialValue, LoopTypes
    <3>3. Share(t)' = Wrap(Sequential[n].x.acc - Sequential[n].x.acc)
      BY <1>2, <2>5, Frozen DEF Share, n
    <3>4. Sequential[n].x.acc - Sequential[n].x.acc = 0 /\ 0 \in Int32
      BY <3>2, HalfNat DEF Int32
    <3>5. QED
      BY <2>2, <2>4, <3>3, <3>4, WrapInt32
  <2>8. n \in n .. u
    BY <2>1
  <2>9. WorkerInv(t)'
    BY <1>2, <1>4, <2>4, <2>5, <2>6, <2>7, <2>8 DEF WorkerInv, n, u
  <2>10. QED
    BY <2>1, <2>5, <2>9 DEF n
<1>7. Holds(mem, Finished)'
  <2>1. Finished' = {}
    <3>1. Finished' = UNION {From(t)' .. (Pos(t)' - 1) : t \in Tid}
      BY <1>4 DEF Finished
    <3>2. \A t \in Tid : From(t)' .. (Pos(t)' - 1) = {}
      BY <1>6
    <3>3. QED
      BY <3>1, <3>2
  <2>2. Finished = {}
    BY <1>1 DEF Finished
  <2>3. Holds(mem', Finished')
    BY <1>1, <1>2, <2>1, <2>2 DEF Progress
  <2>4. QED
    BY <1>2, <2>3, Frozen
<1>8. SameResult'
  BY <1>2 DEF SameResult
<1>9. QED
  BY <1>2, <1>4, <1>6, <1>7, <1>8 DEF Progress

-----------------------------------------------------------------------------
(* What the parallel loop promises, for the loops that are Exact *)

LEMMA IInvInit == Init /\ Exact => IInv
<1> SUFFICES ASSUME Init, Exact PROVE IInv
  OBVIOUS
<1>1. TypeOK /\ PcInv
  BY TypeInit, PcInit
<1>2. Workers = {} /\ Finished = {}
  BY DEF Init, Workers, Finished
<1>3. Holds(mem, Finished)
  BY <1>2, NothingHolds DEF Init
<1>4. Progress
  BY <1>2, <1>3 DEF Init, Progress, Idle, SameResult
<1>5. QED
  BY <1>1, <1>4 DEF IInv

LEMMA IInvNext == IInv /\ [Next]_vars => IInv'
<1> SUFFICES ASSUME IInv, [Next]_vars PROVE IInv'
  OBVIOUS
<1>1. TypeOK' /\ PcInv'
  BY TypeNext, PcNext DEF IInv
<1>2. IterationsIndependent
  BY AcceptedIndependent DEF IInv, TypeOK
<1>3. l' = l
  <2>1. \A t \in Tid : Step(t) => l' = l
    BY DEF Step, Load, Store, ExitPar
  <2>2. QED
    BY <2>1 DEF Next, EnterPar, EnterNoPar, NewExit, ExitNoPar, Done, vars
<1>4. Exact'
  BY <1>3, Frozen DEF IInv
<1>5. Progress'
  <2>1. CASE EnterPar
    BY <1>2, <2>1, EnterParNext
  <2>2. CASE EnterNoPar
    BY <2>2, EnterNoParNext
  <2>3. CASE NewExit
    BY <1>2, <2>3, NewExitNext
  <2>4. CASE ExitNoPar
    BY <1>2, <2>4, ExitNoParNext
  <2>5. ASSUME NEW t \in Tid, Load(t) PROVE Progress'
    BY <1>2, <2>5, LoadNext
  <2>6. ASSUME NEW t \in Tid, Store(t) PROVE Progress'
    BY <1>2, <2>6, StoreNext
  <2>7. ASSUME NEW t \in Tid, ExitPar(t) PROVE Progress'
    BY <2>7, ExitParNext
  <2>8. CASE UNCHANGED vars
    <3>1. /\ Workers' = Workers
          /\ \A t : /\ From(t)' = From(t) /\ Upto(t)' = Upto(t) /\ Limit(t)' = Limit(t)
                    /\ Pos(t)' = Pos(t)
      BY <2>8, Frozen DEF vars, Workers, From, Upto, Limit, Pos
    <3>2. Finished' = Finished /\ \A t : Share(t)' = Share(t)
      BY <2>8, <3>1, Frozen DEF vars, Finished, Share
    <3>3. \A t : WorkerInv(t) => WorkerInv(t)'
      BY <2>8, <3>1, <3>2, Frozen DEF vars, WorkerInv
    <3>4. Holds(mem, Finished) => Holds(mem, Finished)'
      BY <2>8, <3>2, Frozen DEF vars
    <3>5. SameResult => SameResult'
      BY <2>8, Frozen DEF vars, SameResult
    <3>6. QED
      BY <2>8, <3>1, <3>3, <3>4, <3>5 DEF vars, IInv, Progress
  <2>9. QED
    BY <2>1, <2>2, <2>3, <2>4, <2>5, <2>6, <2>7, <2>8 DEF Next, Step, Done
<1>6. QED
  BY <1>1, <1>4, <1>5 DEF IInv

LEMMA IInvAlways == Spec /\ Exact => []IInv
BY IInvInit, IInvNext, PTL DEF Spec

\* loop.cpp:451: the iterations of a loop that the test lets through touch
\* different cells, whatever its bounds, coefficients and dimensions.
THEOREM Independence == Spec /\ Exact => []IterationsIndependent
<1>1. IInv => IterationsIndependent
  BY AcceptedIndependent DEF IInv, TypeOK
<1>2. QED
  BY <1>1, IInvAlways, PTL

\* So no two threads are ever about to touch one cell, one of them writing it.
THEOREM RaceFree == Spec /\ Exact => []NoRace
<1>1. IInv => NoRace
  <2> SUFFICES ASSUME IInv, NEW t \in Tid, NEW u \in Tid, t # u, phase = "par",
                      th[t].pc = "store", th[u].pc \in {"load", "store"}
               PROVE  /\ Cell(l.write, th[t].x) # Cell(l.write, th[u].x)
                      /\ Cell(l.write, th[t].x) # Cell(l.read, th[u].x)
    BY DEF NoRace
  <2>1. t \in Workers /\ u \in Workers /\ WorkerInv(t) /\ WorkerInv(u)
    BY DEF Workers, IInv, Progress
  <2>2. /\ Pos(t) < Upto(t) /\ Pos(u) < Upto(u)
    BY <2>1 DEF WorkerInv
  <2>3. /\ Pos(t) \in From(t) .. Upto(t) - 1 /\ Pos(u) \in From(u) .. Upto(u) - 1
    BY <2>1, <2>2, Placed
  <2>4. Pos(t) # Pos(u)
    BY <2>1, <2>3, WorkersBlocks DEF Divided, IInv, TypeOK
  <2>5. Pos(t) \in 0 .. Trips - 1 /\ Pos(u) \in 0 .. Trips - 1
    BY <2>1, <2>2, Remaining
  <2>6. IterationsIndependent
    BY AcceptedIndependent DEF IInv, TypeOK
  <2>7. /\ Cell(l.write, Iteration(Pos(t))) # Cell(l.write, Iteration(Pos(u)))
        /\ Cell(l.write, Iteration(Pos(t))) # Cell(l.read, Iteration(Pos(u)))
    BY <2>4, <2>5, <2>6 DEF IterationsIndependent
  <2>8. \A w \in {t, u} : /\ th[w].x.i = Iteration(Pos(w)).i
                          /\ th[w].x.j = Iteration(Pos(w)).j
    BY <2>1, Placed
  <2>9. \A w \in {t, u} : /\ Cell(l.write, th[w].x) = Cell(l.write, Iteration(Pos(w)))
                          /\ Cell(l.read, th[w].x) = Cell(l.read, Iteration(Pos(w)))
    BY <2>8 DEF Cell, Value
  <2>10. QED
    BY <2>7, <2>9
<1>2. QED
  BY <1>1, IInvAlways, PTL

\* And what the threads leave, together, is what the loop leaves: the array,
\* both induction variables and the reduction.
THEOREM ResultKept == Spec /\ Exact => []SameResult
<1>1. IInv => SameResult
  BY DEF IInv, Progress
<1>2. QED
  BY <1>1, IInvAlways, PTL
=============================================================================

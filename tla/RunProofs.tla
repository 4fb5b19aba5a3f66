-------------------------------- MODULE RunProofs --------------------------------
(***************************************************************************)
(* The run loop, for any symbols, prices, limits, pools and replies: what  *)
(* its orders do to the portfolio (Trading, Backtest) and what drives it   *)
(* on live prices (LiveRun).                                               *)
(***************************************************************************)
EXTENDS Backtest, LiveRun, FiniteSetTheorems, WellFoundedInduction, TLAPS

--------------------------------------------------------------------------------
(* Sums *)

\* The step of the recursion of Sums.
Taken(T) == CHOOSE s \in T : TRUE
SumStep(f, g, T) ==
    IF T = {} THEN 0 ELSE LET s == CHOOSE s \in T : TRUE IN f[s] + g[T \ {s}]

\* A set of natural numbers has a first.
LEMMA FirstNat ==
    ASSUME NEW I \in SUBSET Nat, I # {}
    PROVE  \E i \in I : \A j \in I : i <= j
<1>1. PICK i \in I : \A j \in I : <<j, i>> \notin OpToRel(<, Nat)
  BY WFMin, NatLessThanWellFounded
<1>2. \A j \in I : ~(j < i)
  BY <1>1 DEF OpToRel
<1> QED
  BY <1>2

\* The parts of a finite set are finite, and one element less is one less.
LEMMA PartSmaller ==
    ASSUME NEW D, IsFiniteSet(D), NEW T \in SUBSET D
    PROVE  /\ IsFiniteSet(T) /\ Cardinality(T) \in Nat
           /\ Cardinality(T) = 0 <=> T = {}
           /\ \A s \in T : T \ {s} \in SUBSET D /\ Cardinality(T \ {s}) = Cardinality(T) - 1
<1>1. IsFiniteSet(T)
  BY FS_Subset
<1>2. Cardinality(T) \in Nat
  BY <1>1, FS_CardinalityType
<1>3. Cardinality(T) = 0 <=> T = {}
  BY <1>1, FS_EmptySet
<1>4. ASSUME NEW s \in T PROVE T \ {s} \in SUBSET D /\ Cardinality(T \ {s}) = Cardinality(T) - 1
  BY <1>1, FS_RemoveElement
<1> QED
  BY <1>1, <1>2, <1>3, <1>4

\* What holds of the empty part, and of a part when it holds of those with one element
\* less, holds of every part of a finite set.
LEMMA PartInduction ==
    ASSUME NEW D, IsFiniteSet(D), NEW X, {} \in X,
           \A T \in SUBSET D : T # {} /\ (\A s \in T : T \ {s} \in X) => T \in X
    PROVE  \A T \in SUBSET D : T \in X
<1> SUFFICES ASSUME NEW T0 \in SUBSET D, T0 \notin X PROVE FALSE
  OBVIOUS
<1> DEFINE I == {Cardinality(T) : T \in (SUBSET D) \ X}
<1>1. I \in SUBSET Nat /\ I # {}
  BY PartSmaller
<1>2. PICK i \in I : \A j \in I : i <= j
  <2> HIDE DEF I
  <2> QED
    BY <1>1, FirstNat
<1>3. PICK T \in (SUBSET D) \ X : i = Cardinality(T)
  OBVIOUS
<1>4. ASSUME NEW s \in T PROVE T \ {s} \in X
  <2>1. Cardinality(T \ {s}) = i - 1 /\ i \in Nat /\ T \ {s} \in SUBSET D
    BY <1>3, PartSmaller
  <2>2. CASE T \ {s} \notin X
    <3>1. Cardinality(T \ {s}) \in I
      BY <2>1, <2>2
    <3> HIDE DEF I
    <3>2. i <= i - 1
      BY <1>2, <2>1, <3>1
    <3> QED
      BY <2>1, <3>2
  <2> QED
    BY <2>2
<1> QED
  BY <1>3, <1>4

\* The recursion of Sums has a solution: up to any size of the parts ...
LEMMA SumsUpTo ==
    ASSUME NEW f, IsFiniteSet(DOMAIN f), NEW n \in Nat
    PROVE  \E g : \A T \in SUBSET DOMAIN f : Cardinality(T) <= n => g[T] = SumStep(f, g, T)
<1> DEFINE D == DOMAIN f
           Solves(g, k) == \A T \in SUBSET D : Cardinality(T) <= k => g[T] = SumStep(f, g, T)
           I == {k \in Nat : ~ \E g : Solves(g, k)}
<1>1. \E g : Solves(g, 0)
  <2> DEFINE g == [T \in SUBSET D |-> 0]
  <2>1. ASSUME NEW T \in SUBSET D, Cardinality(T) <= 0 PROVE g[T] = SumStep(f, g, T)
    <3>1. T = {}
      BY <2>1, PartSmaller
    <3> QED
      BY <3>1 DEF SumStep
  <2> QED
    BY <2>1
<1>2. ASSUME NEW k \in Nat, NEW g, Solves(g, k) PROVE \E h : Solves(h, k + 1)
  <2> DEFINE h == [T \in SUBSET D |-> IF Cardinality(T) <= k THEN g[T] ELSE SumStep(f, g, T)]
  <2>1. ASSUME NEW T \in SUBSET D, Cardinality(T) <= k + 1 PROVE h[T] = SumStep(f, h, T)
    <3>1. h[T] = SumStep(f, g, T)
      BY <1>2
    <3>2. CASE T = {}
      BY <3>1, <3>2 DEF SumStep
    <3>3. CASE T # {}
      <4> DEFINE s == CHOOSE s \in T : TRUE
      <4>1. s \in T
        BY <3>3
      <4>2. T \ {s} \in SUBSET D /\ Cardinality(T \ {s}) <= k
        <5> HIDE DEF s
        <5>1. Cardinality(T) \in Nat /\ Cardinality(T \ {s}) = Cardinality(T) - 1 /\ T \ {s} \in SUBSET D
          BY <4>1, PartSmaller
        <5> QED
          BY <2>1, <5>1
      <4>3. h[T \ {s}] = g[T \ {s}]
        <5> HIDE DEF s
        <5> QED
          BY <4>2
      <4>4. SumStep(f, h, T) = f[s] + h[T \ {s}] /\ SumStep(f, g, T) = f[s] + g[T \ {s}]
        <5> HIDE DEF h
        <5> QED
          BY <3>3, Zenon DEF SumStep
      <4> QED
        BY <3>1, <4>3, <4>4
    <3> QED
      BY <3>2, <3>3
  <2> QED
    BY <2>1
<1> HIDE DEF Solves
<1>3. I = {}
  <2> SUFFICES ASSUME I # {} PROVE FALSE
    OBVIOUS
  <2>1. I \in SUBSET Nat
    OBVIOUS
  <2>2. PICK i \in I : \A j \in I : i <= j
    <3> HIDE DEF I
    <3> QED
      BY <2>1, FirstNat
  <2>3. i \in Nat /\ i # 0 /\ i - 1 \in Nat /\ ~(i <= i - 1)
    BY <1>1, <2>2
  <2>4. i - 1 \notin I
    <3> HIDE DEF I
    <3> QED
      BY <2>2, <2>3
  <2>5. \E g : Solves(g, i - 1)
    BY <2>3, <2>4
  <2>6. \E g : Solves(g, i - 1 + 1)
    BY <1>2, <2>3, <2>5
  <2> QED
    BY <2>2, <2>3, <2>6
<1> QED
  BY <1>3 DEF Solves

\* ... and so for all of them: Sums does what its recursion says.
LEMMA SumsDefined ==
    ASSUME NEW f, IsFiniteSet(DOMAIN f)
    PROVE  \A T \in SUBSET DOMAIN f : Sums(f)[T] = SumStep(f, Sums(f), T)
<1> DEFINE n == Cardinality(DOMAIN f)
           Solution(g) == g = [T \in SUBSET DOMAIN f |-> SumStep(f, g, T)]
<1>1. n \in Nat
  BY FS_CardinalityType
<1>2. PICK g : \A T \in SUBSET DOMAIN f : Cardinality(T) <= n => g[T] = SumStep(f, g, T)
  <2> HIDE DEF n
  <2> QED
    BY <1>1, SumsUpTo
<1>3. \A T \in SUBSET DOMAIN f : g[T] = SumStep(f, g, T)
  BY <1>2, FS_Subset
<1> DEFINE h == [T \in SUBSET DOMAIN f |-> g[T]]
<1>4. ASSUME NEW T \in SUBSET DOMAIN f PROVE h[T] = SumStep(f, h, T)
  <2>1. CASE T = {}
    BY <1>3, <2>1 DEF SumStep
  <2>2. CASE T # {}
    <3> DEFINE s == CHOOSE s \in T : TRUE
    <3>1. h[T] = f[s] + g[T \ {s}]
      BY <1>3, <2>2 DEF SumStep
    <3>2. h[T \ {s}] = g[T \ {s}]
      <4> HIDE DEF s
      <4> QED
        OBVIOUS
    <3>3. SumStep(f, h, T) = f[s] + h[T \ {s}]
      <4> HIDE DEF h
      <4> QED
        BY <2>2, Zenon DEF SumStep
    <3> QED
      BY <3>1, <3>2, <3>3
  <2> QED
    BY <2>1, <2>2
<1>5. Solution(h)
  <2>1. h = [T \in SUBSET DOMAIN f |-> h[T]]
    OBVIOUS
  <2> HIDE DEF h
  <2> QED
    BY <1>4, <2>1
<1>6. Sums(f) = CHOOSE g1 : Solution(g1)
  BY DEF Sums, SumStep
<1> HIDE DEF Solution, h
<1>7. Solution(Sums(f))
  BY <1>5, <1>6
<1> QED
  BY <1>7 DEF Solution

\* What the recursion says of a sum of integers.
Recurs(f, S) ==
    /\ Sums(f)[{}] = 0
    /\ \A T \in SUBSET S : T # {} =>
          Taken(T) \in T /\ Sums(f)[T] = f[Taken(T)] + Sums(f)[T \ {Taken(T)}]

\* Sums of integers recur so, and are integers.
LEMMA SumTyped ==
    ASSUME NEW S, IsFiniteSet(S), NEW f \in [S -> Int]
    PROVE  /\ Recurs(f, S)
           /\ \A T \in SUBSET S : Sums(f)[T] \in Int
           /\ SumOf(f) = Sums(f)[S]
<1>1. DOMAIN f = S
  OBVIOUS
<1>2. \A T \in SUBSET S : Sums(f)[T] = SumStep(f, Sums(f), T)
  BY <1>1, SumsDefined
<1>3. Recurs(f, S)
  <2>1. Sums(f)[{}] = 0
    BY <1>2 DEF SumStep
  <2>2. ASSUME NEW T \in SUBSET S, T # {}
        PROVE  Taken(T) \in T /\ Sums(f)[T] = f[Taken(T)] + Sums(f)[T \ {Taken(T)}]
    BY <1>2, <2>2 DEF SumStep, Taken
  <2> QED
    BY <2>1, <2>2 DEF Recurs
<1> DEFINE X == {T \in SUBSET S : Sums(f)[T] \in Int}
<1>4. {} \in X
  BY <1>3 DEF Recurs
<1>5. ASSUME NEW T \in SUBSET S, T # {}, \A s \in T : T \ {s} \in X PROVE T \in X
  <2> DEFINE s == Taken(T)
  <2>1. s \in T /\ Sums(f)[T] = f[s] + Sums(f)[T \ {s}]
    BY <1>3, <1>5 DEF Recurs
  <2> HIDE DEF s
  <2>2. Sums(f)[T \ {s}] \in Int /\ f[s] \in Int
    BY <1>5, <2>1
  <2> QED
    BY <2>1, <2>2
<1>6. \A T \in SUBSET S : T \in X
  <2> HIDE DEF X
  <2> QED
    BY <1>4, <1>5, PartInduction
<1> QED
  BY <1>1, <1>3, <1>6 DEF SumOf

\* The sum of sums is the sum of the two.
LEMMA SumAdds ==
    ASSUME NEW S, IsFiniteSet(S), NEW f \in [S -> Int], NEW g \in [S -> Int], NEW h \in [S -> Int],
           \A s \in S : h[s] = f[s] + g[s]
    PROVE  SumOf(h) = SumOf(f) + SumOf(g) /\ SumOf(f) \in Int /\ SumOf(g) \in Int
<1> DEFINE X == {T \in SUBSET S : Sums(h)[T] = Sums(f)[T] + Sums(g)[T]}
<1>0. Recurs(f, S) /\ Recurs(g, S) /\ Recurs(h, S)
  BY SumTyped
<1>1. {} \in X
  BY <1>0 DEF Recurs
<1>2. ASSUME NEW T \in SUBSET S, T # {}, \A s \in T : T \ {s} \in X PROVE T \in X
  <2> DEFINE s == Taken(T)
  <2>1. /\ s \in T
        /\ Sums(f)[T] = f[s] + Sums(f)[T \ {s}]
        /\ Sums(g)[T] = g[s] + Sums(g)[T \ {s}]
        /\ Sums(h)[T] = h[s] + Sums(h)[T \ {s}]
    BY <1>0, <1>2 DEF Recurs
  <2> HIDE DEF s
  <2>2. Sums(h)[T \ {s}] = Sums(f)[T \ {s}] + Sums(g)[T \ {s}]
    BY <1>2, <2>1
  <2>3. T \ {s} \in SUBSET S
    OBVIOUS
  <2>4. Sums(f)[T \ {s}] \in Int /\ Sums(g)[T \ {s}] \in Int /\ f[s] \in Int /\ g[s] \in Int
    <3>1. s \in S
      BY <2>1
    <3> QED
      BY <2>3, <3>1, SumTyped
  <2>5. h[s] = f[s] + g[s]
    BY <2>1
  <2> QED
    BY <2>1, <2>2, <2>4, <2>5
<1>3. \A T \in SUBSET S : T \in X
  <2> HIDE DEF X
  <2> QED
    BY <1>1, <1>2, PartInduction
<1>4. Sums(h)[S] = Sums(f)[S] + Sums(g)[S]
  BY <1>3
<1>5. /\ SumOf(f) = Sums(f)[S] /\ SumOf(g) = Sums(g)[S] /\ SumOf(h) = Sums(h)[S]
      /\ Sums(f)[S] \in Int /\ Sums(g)[S] \in Int
  BY SumTyped
<1> QED
  BY <1>4, <1>5

\* A sum of zeros is zero.
LEMMA SumZero ==
    ASSUME NEW S, IsFiniteSet(S), NEW f \in [S -> Int], \A s \in S : f[s] = 0
    PROVE  SumOf(f) = 0
<1>1. \A s \in S : f[s] = f[s] + f[s]
  OBVIOUS
<1> DEFINE n == SumOf(f)
<1>2. n = n + n /\ n \in Int
  BY <1>1, SumAdds
<1> HIDE DEF n
<1>3. n = 0
  BY <1>2
<1> QED
  BY <1>3 DEF n

\* One summand changes.
LEMMA SumChanges ==
    ASSUME NEW S, IsFiniteSet(S), NEW f \in [S -> Int], NEW x \in S, NEW v \in Int
    PROVE  SumOf([f EXCEPT ![x] = v]) = SumOf(f) - f[x] + v /\ SumOf(f) \in Int
<1> DEFINE h == [f EXCEPT ![x] = v]
           d(T) == IF x \in T THEN v - f[x] ELSE 0
           X == {T \in SUBSET S : Sums(h)[T] = Sums(f)[T] + d(T)}
<1>0. h \in [S -> Int] /\ h[x] = v /\ \A s \in S : s # x => h[s] = f[s]
  OBVIOUS
<1> HIDE DEF h
<1>1. Recurs(f, S) /\ Recurs(h, S)
  BY <1>0, SumTyped
<1>2. {} \in X
  BY <1>1 DEF Recurs
<1>3. ASSUME NEW T \in SUBSET S, T # {}, \A s \in T : T \ {s} \in X PROVE T \in X
  <2> DEFINE s == Taken(T)
  <2>1. /\ s \in T
        /\ Sums(f)[T] = f[s] + Sums(f)[T \ {s}]
        /\ Sums(h)[T] = h[s] + Sums(h)[T \ {s}]
    BY <1>1, <1>3 DEF Recurs
  <2> HIDE DEF s
  <2>2. Sums(h)[T \ {s}] = Sums(f)[T \ {s}] + d(T \ {s})
    BY <1>3, <2>1
  <2>3. T \ {s} \in SUBSET S /\ s \in S
    BY <2>1
  <2>4. Sums(f)[T \ {s}] \in Int
    BY <2>3, SumTyped
  <2>5. CASE s = x
    <3>1. d(T \ {s}) = 0 /\ d(T) = v - f[x] /\ h[s] = v /\ f[s] = f[x]
      BY <1>0, <2>1, <2>5
    <3> QED
      BY <2>1, <2>2, <2>3, <2>4, <3>1
  <2>6. CASE s # x
    <3>1. d(T \ {s}) = d(T) /\ h[s] = f[s]
      BY <1>0, <2>1, <2>3, <2>6
    <3>2. d(T) \in Int /\ f[s] \in Int
      BY <2>3
    <3> HIDE DEF d
    <3>3. Sums(h)[T] = Sums(f)[T] + d(T)
      BY <2>1, <2>2, <2>4, <3>1, <3>2
    <3> QED
      BY <3>3
  <2> QED
    BY <2>5, <2>6
<1>4. \A T \in SUBSET S : T \in X
  <2> HIDE DEF X
  <2> QED
    BY <1>2, <1>3, PartInduction
<1>5. Sums(h)[S] = Sums(f)[S] + (v - f[x])
  BY <1>4
<1>6. /\ SumOf(f) = Sums(f)[S] /\ SumOf(h) = Sums(h)[S] /\ Sums(f)[S] \in Int
  BY <1>0, SumTyped
<1>7. SumOf(h) = SumOf(f) - f[x] + v
  BY <1>5, <1>6
<1> QED
  BY <1>6, <1>7 DEF h

--------------------------------------------------------------------------------
(* Fills *)

\* Products of natural numbers are natural numbers, and grow with them.
LEMMA Times ==
    /\ \A a, b \in Nat : a * b \in Nat
    /\ \A a, b \in Int : a * b \in Int
    /\ \A a, b, c \in Nat : a <= b => a * c <= b * c
<1>1. \A a, b \in Nat : a * b \in Nat
  OBVIOUS
<1>2. \A a, b \in Int : a * b \in Int
  OBVIOUS
<1>3. \A a, b, c \in Nat : a <= b => a * c <= b * c
  OBVIOUS
<1> QED
  BY <1>1, <1>2, <1>3

\* The executor's prices and fees are not negative.
LEMMA ExecTyped ==
    ASSUME NEW p \in Price, NEW qty \in Nat, NEW side
    PROVE  p \in Nat /\ ExecPrice(side, p) \in Nat /\ ExecFee(side, qty, p) \in Nat
<1>1. p \in Nat /\ Whole + Spread \in Nat /\ Whole - Spread \in Nat /\ Whole \in Nat /\ Fee \in Nat
  BY TradingAssumption, RiskAssumption
<1> DEFINE w == IF side = "buy" THEN Whole + Spread ELSE Whole - Spread
<1>2. w \in Nat
  BY <1>1
<1> HIDE DEF w
<1>3. p * w \in Nat /\ qty * p \in Nat
  BY <1>1, <1>2, Times
<1>4. p * w * Whole \in Nat /\ qty * p * w \in Nat
  BY <1>1, <1>2, <1>3, Times
<1>5. qty * p * w * Fee \in Nat
  BY <1>1, <1>4, Times
<1> QED
  BY <1>1, <1>4, <1>5 DEF ExecPrice, ExecFee, w

\* A buy for c turns pf into new.
Bought(new, pf, s, qty, c, fee) ==
    /\ new \in PortfolioRecord
    /\ c \in Nat
    /\ new.cash = pf.cash - (c + fee)
    /\ new.positions = [pf.positions EXCEPT ![s] = pf.positions[s] + qty]
    /\ new.basis = [pf.basis EXCEPT ![s] = pf.basis[s] + c]
    /\ new.realized_pnl = pf.realized_pnl

\* A sell for c, of units that cost b, turns pf into new.
Sold(new, pf, s, qty, c, b, fee) ==
    /\ new \in PortfolioRecord
    /\ c \in Nat
    /\ b \in Nat
    /\ new.cash = pf.cash + (c - fee)
    /\ new.positions = [pf.positions EXCEPT ![s] = pf.positions[s] - qty]
    /\ new.basis = [pf.basis EXCEPT ![s] = pf.basis[s] - b]
    /\ new.realized_pnl = pf.realized_pnl + c - b - fee

\* What a buy does to a portfolio.
LEMMA BuyApplied ==
    ASSUME NEW pf \in PortfolioRecord, NEW s \in Symbol, NEW qty \in Nat, NEW price \in Nat,
           NEW fee \in Nat
    PROVE  Bought(ApplyBuy(pf, s, qty, price, fee), pf, s, qty, qty * price, fee)
<1> DEFINE c == qty * price
<1>1. c \in Nat
  BY Times
<1>2. ApplyBuy(pf, s, qty, price, fee) =
        [pf EXCEPT !.cash = pf.cash - (c + fee),
                   !.positions = [pf.positions EXCEPT ![s] = pf.positions[s] + qty],
                   !.basis = [pf.basis EXCEPT ![s] = pf.basis[s] + c]]
  BY DEF ApplyBuy, PortfolioRecord
<1> HIDE DEF c
<1>3. /\ pf.cash \in Int /\ pf.positions \in [Symbol -> Nat] /\ pf.basis \in [Symbol -> Nat]
      /\ pf.realized_pnl \in Int
  BY DEF PortfolioRecord
<1>4. /\ pf.cash - (c + fee) \in Int
      /\ [pf.positions EXCEPT ![s] = pf.positions[s] + qty] \in [Symbol -> Nat]
      /\ [pf.basis EXCEPT ![s] = pf.basis[s] + c] \in [Symbol -> Nat]
  BY <1>1, <1>3
<1> QED
  BY <1>1, <1>2, <1>4 DEF PortfolioRecord, Bought, c

\* The basis of what is sold is part of the basis.
LEMMA BasisShare ==
    ASSUME NEW b \in Nat, NEW qty \in Nat, NEW held \in Nat, held > 0, qty <= held
    PROVE  (b * qty) \div held \in Nat /\ (b * qty) \div held <= b
<1> DEFINE a == b * qty
           q == a \div held
<1>1. a \in Nat /\ a <= b * held
  <2>1. qty * b <= held * b
    BY Times
  <2> QED
    BY <2>1
<1> HIDE DEF a
<1>2. q \in Int /\ held * q <= a /\ a < held * (q + 1)
  BY <1>1
<1> HIDE DEF q
<1>3. q >= 0
  BY <1>1, <1>2
<1>4. q <= b
  <2>1. CASE q >= b + 1
    <3>1. held * q >= held * (b + 1)
      BY <1>2, <2>1
    <3> QED
      BY <1>1, <1>2, <3>1
  <2> QED
    BY <1>2, <2>1
<1> QED
  BY <1>2, <1>3, <1>4 DEF a, q

\* What a sell does to a portfolio.
LEMMA SellApplied ==
    ASSUME NEW pf \in PortfolioRecord, NEW s \in Symbol, NEW qty \in Nat, NEW price \in Nat,
           NEW fee \in Nat, pf.positions[s] > 0, qty <= pf.positions[s]
    PROVE  Sold(ApplySell(pf, s, qty, price, fee), pf, s, qty, qty * price,
                BasisOf(pf, s, qty), fee)
<1> DEFINE c == qty * price
           b == BasisOf(pf, s, qty)
<1>1. c \in Nat
  BY Times
<1>2. ApplySell(pf, s, qty, price, fee) =
        [pf EXCEPT !.cash = pf.cash + (c - fee),
                   !.positions = [pf.positions EXCEPT ![s] = pf.positions[s] - qty],
                   !.basis = [pf.basis EXCEPT ![s] = pf.basis[s] - b],
                   !.realized_pnl = pf.realized_pnl + c - b - fee]
  BY DEF ApplySell, PortfolioRecord
<1>3. /\ pf.cash \in Int /\ pf.positions \in [Symbol -> Nat] /\ pf.basis \in [Symbol -> Nat]
      /\ pf.realized_pnl \in Int
  BY DEF PortfolioRecord
<1>4. b \in Nat /\ b <= pf.basis[s]
  BY <1>3, BasisShare DEF BasisOf
<1> HIDE DEF c, b
<1>5. /\ pf.cash + (c - fee) \in Int
      /\ [pf.positions EXCEPT ![s] = pf.positions[s] - qty] \in [Symbol -> Nat]
      /\ [pf.basis EXCEPT ![s] = pf.basis[s] - b] \in [Symbol -> Nat]
      /\ pf.realized_pnl + c - b - fee \in Int
  BY <1>1, <1>3, <1>4
<1> QED
  BY <1>1, <1>2, <1>4, <1>5 DEF PortfolioRecord, Sold, c, b

--------------------------------------------------------------------------------
(* The inductive invariant of the portfolio *)

\* Cash and basis account for what went in, the result and the fees of the buys.
Balanced(pf, fees) == pf.cash + SumOf(pf.basis) = StartingCash * Unit + pf.realized_pnl - fees

\* Cash is overdrawn by no more than what one order may exceed its limit by.
Covered(pf) == pf.cash >= -(Risk.max_order_notional * Excess)

\* Both hold of the snapshot too, which a run that died leaves to the next; and a
\* fill of any kind starts the cooldown, so the last buy is at least as long ago.
TradeInv ==
    /\ TradeTypeOK
    /\ Balanced(portfolio, buy_fees.running) /\ Balanced(snapshot, buy_fees.saved)
    /\ Covered(portfolio) /\ Covered(snapshot)
    /\ \A s \in Symbol : since[s] <= since_buy[s]

\* The limits are natural numbers, and so is what an order may exceed its limit by.
LEMMA Limits ==
    /\ Risk.max_order_notional \in Nat /\ Cooldown \in Nat
    /\ Unit \in Nat /\ Whole \in Nat /\ Spread \in Nat /\ Fee \in Nat
    /\ Fee <= Whole /\ Spread <= Whole /\ Unit = Whole * Whole
    /\ Excess \in Nat
    /\ Risk.max_order_notional * Excess \in Nat
<1>1. /\ Risk.max_order_notional \in Nat /\ Cooldown \in Nat
      /\ Unit \in Nat /\ Whole \in Nat /\ Spread \in Nat /\ Fee \in Nat
      /\ Fee <= Whole /\ Spread <= Whole /\ Unit = Whole * Whole
  BY RiskAssumption, TradingAssumption DEF Cooldown
<1>2. Excess \in Nat
  <2>1. (Whole + Spread) * (Whole + Fee) = Whole * Whole + Whole * Fee + Spread * Whole + Spread * Fee
    BY <1>1
  <2>2. Whole * Fee \in Nat /\ Spread * Whole \in Nat /\ Spread * Fee \in Nat /\ Whole * Whole \in Nat
    BY <1>1, Times
  <2> QED
    BY <1>1, <2>1, <2>2 DEF Excess
<1> QED
  BY <1>1, <1>2, Times

\* A buy moves money from cash to the basis, and its fee out of both.
LEMMA BoughtBalanced ==
    ASSUME NEW pf \in PortfolioRecord, NEW s \in Symbol, NEW qty, NEW c, NEW fee \in Nat,
           NEW fees \in Int, Balanced(pf, fees), NEW new, Bought(new, pf, s, qty, c, fee)
    PROVE  Balanced(new, fees + fee)
<1> DEFINE total == StartingCash * Unit
<1>0. c \in Nat /\ total \in Int
  BY Times, Limits, TradingAssumption DEF Bought
<1>1. pf.cash \in Int /\ pf.basis \in [Symbol -> Int] /\ pf.realized_pnl \in Int /\ pf.basis[s] \in Int
  BY DEF PortfolioRecord
<1>2. /\ new.cash = pf.cash - (c + fee) /\ new.realized_pnl = pf.realized_pnl
      /\ new.basis = [pf.basis EXCEPT ![s] = pf.basis[s] + c]
  BY DEF Bought
<1> HIDE DEF total
<1>3. SumOf(new.basis) = SumOf(pf.basis) - pf.basis[s] + (pf.basis[s] + c) /\ SumOf(pf.basis) \in Int
  <2>1. pf.basis[s] + c \in Int
    BY <1>0, <1>1
  <2> QED
    BY <1>1, <1>2, <2>1, SumChanges, PortfolioAssumption
<1>4. pf.cash + SumOf(pf.basis) = total + pf.realized_pnl - fees
  BY DEF Balanced, total
<1>5. new.cash + SumOf(new.basis) = total + new.realized_pnl - (fees + fee)
  BY <1>0, <1>1, <1>2, <1>3, <1>4
<1> QED
  BY <1>5 DEF Balanced, total

\* A sell turns basis into cash and the difference, less the fee, into the result.
LEMMA SoldBalanced ==
    ASSUME NEW pf \in PortfolioRecord, NEW s \in Symbol, NEW qty, NEW c, NEW b, NEW fee \in Nat,
           NEW fees \in Int, Balanced(pf, fees), NEW new, Sold(new, pf, s, qty, c, b, fee)
    PROVE  Balanced(new, fees)
<1> DEFINE total == StartingCash * Unit
<1>0. c \in Nat /\ b \in Nat /\ total \in Int
  BY Times, Limits, TradingAssumption DEF Sold
<1>1. pf.cash \in Int /\ pf.basis \in [Symbol -> Int] /\ pf.realized_pnl \in Int /\ pf.basis[s] \in Int
  BY DEF PortfolioRecord
<1>2. /\ new.cash = pf.cash + (c - fee) /\ new.realized_pnl = pf.realized_pnl + c - b - fee
      /\ new.basis = [pf.basis EXCEPT ![s] = pf.basis[s] - b]
  BY DEF Sold
<1> HIDE DEF total
<1>3. SumOf(new.basis) = SumOf(pf.basis) - pf.basis[s] + (pf.basis[s] - b) /\ SumOf(pf.basis) \in Int
  <2>1. pf.basis[s] - b \in Int
    BY <1>0, <1>1
  <2> QED
    BY <1>1, <1>2, <2>1, SumChanges, PortfolioAssumption
<1>4. pf.cash + SumOf(pf.basis) = total + pf.realized_pnl - fees
  BY DEF Balanced, total
<1>5. new.cash + SumOf(new.basis) = total + new.realized_pnl - fees
  <2>1. SumOf(new.basis) = SumOf(pf.basis) - b
    BY <1>0, <1>1, <1>3
  <2>2. (pf.cash + (c - fee)) + (SumOf(pf.basis) - b) = (total + pf.realized_pnl - fees) + (c - fee) - b
    BY <1>0, <1>1, <1>3, <1>4
  <2>3. (total + pf.realized_pnl - fees) + (c - fee) - b = total + (pf.realized_pnl + c - b - fee) - fees
    BY <1>0, <1>1
  <2> QED
    BY <1>2, <2>1, <2>2, <2>3
<1> QED
  BY <1>5 DEF Balanced, total

\* What a buy that fills has passed.
LEMMA GatedBuy ==
    ASSUME TradeTypeOK, NEW s \in Symbol, NEW p \in Price, NEW qty \in 1..MaxQty, BuyFill(s, p, qty)
    PROVE  /\ qty * p <= Risk.max_order_notional
           /\ qty * p * Unit <= portfolio.cash
           /\ since[s] >= Cooldown
<1> DEFINE o == SizedOrder(s, "buy", qty, p)
           ctx == Context(s, Mark(s, p))
<1>1. o.symbol = s /\ o.side = "buy" /\ o.qty = qty /\ o.price = p
  BY DEF SizedOrder
<1>2. ctx.pf = portfolio /\ ctx.since = since[s]
  BY DEF Context
<1>3. Check(o, ctx)
  <2>1. Check(o, Context(o.symbol, Mark(s, p)))
    BY DEF BuyFill, Accepted
  <2> QED
    BY <1>1, <2>1
<1> HIDE DEF o, ctx
<1>4. ~NotionalCapHit(o) /\ ~InsufficientCash(o, ctx) /\ ~InCooldown(ctx)
  BY <1>1, <1>3 DEF Check, EntryLimit
<1> DEFINE n == qty * p
<1>5. n \in Nat /\ n * Unit \in Nat /\ portfolio.cash \in Int /\ since[s] \in Nat
  <2>1. qty \in Nat /\ p \in Nat
    BY ExecTyped, TradingAssumption
  <2>2. n \in Nat
    BY <2>1, Times
  <2>3. n * Unit \in Nat
    <3> HIDE DEF n
    <3> QED
      BY <2>2, Limits, Times
  <2> QED
    BY <2>2, <2>3, Limits DEF TradeTypeOK, PortfolioRecord
<1>6. ~(n > Risk.max_order_notional)
  BY <1>1, <1>4 DEF NotionalCapHit, OrderNotional
<1>7. ~(n * Unit > portfolio.cash)
  BY <1>1, <1>2, <1>4 DEF InsufficientCash, OrderNotional
<1>8. ~(Cooldown > 0 /\ since[s] < Cooldown)
  BY <1>2, <1>4 DEF InCooldown, Cooldown
<1> HIDE DEF n
<1>9. n <= Risk.max_order_notional /\ n * Unit <= portfolio.cash /\ since[s] >= Cooldown
  BY <1>5, <1>6, <1>7, <1>8, Limits
<1> QED
  BY <1>9 DEF n

\* A buy costs its notional and the excess of spread and fee on it.
LEMMA BuyCost ==
    ASSUME NEW p \in Nat, NEW qty \in Nat
    PROVE  qty * ExecPrice("buy", p) + ExecFee("buy", qty, p) = qty * p * Excess + qty * p * Unit
<1> DEFINE n == qty * p
           w == Whole + Spread
<1>1. n \in Nat /\ w \in Nat /\ Whole \in Nat /\ Fee \in Nat /\ Unit \in Nat
  BY Limits, Times
<1>2. qty * ExecPrice("buy", p) = n * w * Whole
  <2>1. ExecPrice("buy", p) = p * w * Whole
    BY DEF ExecPrice
  <2>2. \A a, b, c, d \in Nat : a * (b * c * d) = a * b * c * d
    OBVIOUS
  <2> HIDE DEF w
  <2> QED
    BY <1>1, <2>1, <2>2
<1>3. ExecFee("buy", qty, p) = n * w * Fee
  BY DEF ExecFee
<1>4. Excess = w * (Whole + Fee) - Unit
  BY DEF Excess
<1> HIDE DEF n, w
<1>5. n * Excess + n * Unit = n * w * (Whole + Fee)
  <2>1. \A a, b, c, d \in Int : a * (b * c - d) + a * d = a * b * c
    OBVIOUS
  <2>2. Whole + Fee \in Int
    BY <1>1
  <2> QED
    BY <1>1, <1>4, <2>1, <2>2
<1>6. n * w * Whole + n * w * Fee = n * w * (Whole + Fee)
  BY <1>1
<1> QED
  BY <1>2, <1>3, <1>5, <1>6 DEF n

\* What a fill does: the portfolio, the fees of the buys, and that it was paid for.
LEMMA BuyFilled ==
    ASSUME TradeInv, NEW s \in Symbol, NEW p \in Price, NEW qty \in 1..MaxQty, BuyFill(s, p, qty)
    PROVE  /\ Bought(portfolio', portfolio, s, qty, qty * ExecPrice("buy", p), ExecFee("buy", qty, p))
           /\ portfolio' \in PortfolioRecord /\ Balanced(portfolio, buy_fees.running)'
           /\ buy_fees' \in [running : Nat, saved : Nat] /\ buy_fees'.saved = buy_fees.saved
           /\ Covered(portfolio)'
           /\ latest' \in [Symbol -> Nat] /\ fills' \in Nat /\ fills' = fills + 1
<1> DEFINE price == ExecPrice("buy", p)
           fee == ExecFee("buy", qty, p)
<1>1. qty \in Nat /\ p \in Nat /\ price \in Nat /\ fee \in Nat
  BY ExecTyped, TradingAssumption
<1>2. /\ portfolio \in PortfolioRecord /\ buy_fees \in [running : Nat, saved : Nat]
      /\ latest \in [Symbol -> Nat] /\ fills \in Nat
  BY DEF TradeInv, TradeTypeOK
<1>3. /\ portfolio' = ApplyBuy(portfolio, s, qty, price, fee)
      /\ buy_fees' = [buy_fees EXCEPT !.running = buy_fees.running + fee]
      /\ latest' = [latest EXCEPT ![s] = p] /\ fills' = fills + 1
  BY DEF BuyFill, Mark
<1>4. Bought(portfolio', portfolio, s, qty, qty * price, fee)
  <2> HIDE DEF price, fee
  <2> QED
    BY <1>1, <1>2, <1>3, BuyApplied
<1>5. /\ buy_fees' \in [running : Nat, saved : Nat] /\ buy_fees'.saved = buy_fees.saved
      /\ buy_fees'.running = buy_fees.running + fee
  <2> HIDE DEF fee
  <2> QED
    BY <1>1, <1>2, <1>3
<1>6. Balanced(portfolio, buy_fees.running)'
  <2>1. Balanced(portfolio, buy_fees.running) /\ buy_fees.running \in Int
    BY <1>2 DEF TradeInv
  <2> DEFINE c == qty * price
  <2>2. Balanced(portfolio', buy_fees.running + fee)
    <3> HIDE DEF price, fee
    <3> QED
      BY <1>1, <1>2, <1>4, <2>1, BoughtBalanced
  <2> QED
    BY <1>5, <2>2 DEF Balanced
<1>7. Covered(portfolio)'
  <2> DEFINE n == qty * p
             m == Risk.max_order_notional
             c == qty * price
  <2>1. n <= m /\ n * Unit <= portfolio.cash
    BY GatedBuy DEF TradeInv
  <2>2. n \in Nat /\ m \in Nat /\ Excess \in Nat /\ Unit \in Nat
    BY <1>1, Limits, Times
  <2>3. c + fee = n * Excess + n * Unit
    BY <1>1, BuyCost
  <2>4. portfolio'.cash = portfolio.cash - (c + fee) /\ portfolio.cash \in Int
    BY <1>2, <1>4 DEF Bought, PortfolioRecord
  <2> HIDE DEF n, m, c, fee
  <2>5. n * Excess <= m * Excess /\ n * Excess \in Nat /\ m * Excess \in Nat /\ n * Unit \in Nat
    BY <2>1, <2>2, Times
  <2> DEFINE a == n * Excess
             b == m * Excess
             d == n * Unit
  <2>6. portfolio'.cash = portfolio.cash - (a + d) /\ d <= portfolio.cash /\ a <= b
        /\ a \in Nat /\ b \in Nat /\ d \in Nat /\ portfolio.cash \in Int
    BY <2>1, <2>3, <2>4, <2>5
  <2> HIDE DEF a, b, d
  <2>7. portfolio'.cash >= -b
    BY <2>6
  <2> QED
    BY <2>7 DEF Covered, b, m
<1>8. latest' \in [Symbol -> Nat] /\ fills' \in Nat /\ fills' = fills + 1
  BY <1>1, <1>2, <1>3
<1>9. portfolio' \in PortfolioRecord
  BY <1>4 DEF Bought
<1> QED
  BY <1>4, <1>5, <1>6, <1>7, <1>8, <1>9

\* A sell brings in no less than its fee.
LEMMA SellPays ==
    ASSUME NEW p \in Nat, NEW qty \in Nat
    PROVE  qty * ExecPrice("sell", p) >= ExecFee("sell", qty, p)
<1> DEFINE n == qty * p
           w == Whole - Spread
<1>1. n \in Nat /\ w \in Nat /\ Whole \in Nat /\ Fee \in Nat /\ Fee <= Whole
  BY Limits, Times
<1>2. qty * ExecPrice("sell", p) = n * w * Whole
  <2>1. ExecPrice("sell", p) = p * w * Whole
    BY DEF ExecPrice
  <2>2. \A a, b, c, d \in Nat : a * (b * c * d) = a * b * c * d
    OBVIOUS
  <2> HIDE DEF w
  <2> QED
    BY <1>1, <2>1, <2>2
<1>3. ExecFee("sell", qty, p) = n * w * Fee
  BY DEF ExecFee
<1> HIDE DEF n, w
<1> DEFINE a == n * w
<1>4. a \in Nat
  BY <1>1, Times
<1>5. n * w * Whole = Whole * a /\ n * w * Fee = Fee * a
  BY <1>1, <1>4
<1> HIDE DEF a
<1>6. Fee * a <= Whole * a
  BY <1>1, <1>4, Times
<1>7. Fee * a \in Nat /\ Whole * a \in Nat
  BY <1>1, <1>4, Times
<1> QED
  BY <1>2, <1>3, <1>5, <1>6, <1>7

\* The same for a sell.
LEMMA SellFilled ==
    ASSUME TradeInv, NEW s \in Symbol, NEW p \in Price, NEW qty \in 1..MaxQty, SellFill(s, p, qty)
    PROVE  /\ Sold(portfolio', portfolio, s, qty, qty * ExecPrice("sell", p),
                   BasisOf(portfolio, s, qty), ExecFee("sell", qty, p))
           /\ portfolio' \in PortfolioRecord /\ Balanced(portfolio', buy_fees.running)
           /\ Covered(portfolio)'
           /\ latest' \in [Symbol -> Nat] /\ fills' \in Nat /\ fills' = fills + 1
           /\ portfolio.positions[s] > 0 /\ qty <= portfolio.positions[s]
<1> DEFINE price == ExecPrice("sell", p)
           fee == ExecFee("sell", qty, p)
           b == BasisOf(portfolio, s, qty)
<1>1. qty \in Nat /\ p \in Nat /\ price \in Nat /\ fee \in Nat
  BY ExecTyped, TradingAssumption
<1>2. /\ portfolio \in PortfolioRecord /\ buy_fees.running \in Int
      /\ latest \in [Symbol -> Nat] /\ fills \in Nat
  BY DEF TradeInv, TradeTypeOK
<1>3. /\ portfolio' = ApplySell(portfolio, s, qty, price, fee)
      /\ portfolio.positions[s] > 0 /\ qty <= portfolio.positions[s]
      /\ latest' = [latest EXCEPT ![s] = p] /\ fills' = fills + 1
  BY DEF SellFill, Sellable, Mark
<1>4. Sold(portfolio', portfolio, s, qty, qty * price, b, fee)
  <2> HIDE DEF price, fee
  <2> QED
    BY <1>1, <1>2, <1>3, SellApplied
<1>5. Balanced(portfolio', buy_fees.running)
  <2>1. Balanced(portfolio, buy_fees.running)
    BY DEF TradeInv
  <2> HIDE DEF price, fee, b
  <2> QED
    BY <1>1, <1>2, <1>4, <2>1, SoldBalanced
<1>6. Covered(portfolio)'
  <2> DEFINE c == qty * price
             m == Risk.max_order_notional * Excess
  <2>1. c >= fee
    BY <1>1, SellPays
  <2>2. portfolio'.cash = portfolio.cash + (c - fee) /\ c \in Nat /\ portfolio.cash \in Int
    BY <1>2, <1>4 DEF Sold, PortfolioRecord
  <2>3. portfolio.cash >= -m /\ m \in Nat
    BY Limits DEF TradeInv, Covered
  <2> HIDE DEF c, fee, m
  <2>4. portfolio'.cash >= -m
    BY <1>1, <2>1, <2>2, <2>3
  <2> QED
    BY <2>4 DEF Covered, m
<1>7. latest' \in [Symbol -> Nat] /\ fills' \in Nat /\ fills' = fills + 1
  BY <1>1, <1>2, <1>3
<1>8. portfolio' \in PortfolioRecord
  BY <1>4 DEF Sold
<1> QED
  BY <1>3, <1>4, <1>5, <1>6, <1>7, <1>8

--------------------------------------------------------------------------------
(* The steps of a run *)

\* A buy that fills keeps the invariant, whatever it makes of the cooldowns.
LEMMA BuyKeeps ==
    ASSUME TradeInv, NEW s \in Symbol, NEW p \in Price, NEW qty \in 1..MaxQty, BuyFill(s, p, qty),
           UNCHANGED <<snapshot, restarts>>,
           since' \in [Symbol -> 0..Cooldown], since_buy' \in [Symbol -> 0..Cooldown],
           \A x \in Symbol : since'[x] <= since_buy'[x]
    PROVE  TradeInv'
<1>1. /\ portfolio' \in PortfolioRecord /\ Balanced(portfolio, buy_fees.running)'
      /\ buy_fees' \in [running : Nat, saved : Nat] /\ buy_fees'.saved = buy_fees.saved
      /\ Covered(portfolio)'
      /\ latest' \in [Symbol -> Nat] /\ fills' \in Nat
  BY BuyFilled
<1>2. TradeTypeOK'
  BY <1>1 DEF TradeInv, TradeTypeOK
<1>3. Balanced(snapshot, buy_fees.saved)' /\ Covered(snapshot)'
  BY <1>1 DEF TradeInv, Balanced, Covered
<1> QED
  BY <1>1, <1>2, <1>3 DEF TradeInv

\* So does a sell that fills.
LEMMA SellKeeps ==
    ASSUME TradeInv, NEW s \in Symbol, NEW p \in Price, NEW qty \in 1..MaxQty, SellFill(s, p, qty),
           UNCHANGED <<snapshot, restarts, buy_fees>>,
           since' \in [Symbol -> 0..Cooldown], since_buy' \in [Symbol -> 0..Cooldown],
           \A x \in Symbol : since'[x] <= since_buy'[x]
    PROVE  TradeInv'
<1>1. /\ portfolio' \in PortfolioRecord /\ Balanced(portfolio', buy_fees.running)
      /\ Covered(portfolio)'
      /\ latest' \in [Symbol -> Nat] /\ fills' \in Nat
  BY SellFilled
<1>2. TradeTypeOK'
  BY <1>1 DEF TradeInv, TradeTypeOK
<1>3. Balanced(portfolio, buy_fees.running)'
  BY <1>1 DEF Balanced
<1>4. Balanced(snapshot, buy_fees.saved)' /\ Covered(snapshot)'
  BY DEF TradeInv, Balanced, Covered
<1> QED
  BY <1>1, <1>2, <1>3, <1>4 DEF TradeInv

\* A tick without a fill touches only what the loop knows of prices.
LEMMA TickKeeps ==
    ASSUME TradeInv, NEW s \in Symbol, NEW p \in Price, latest' = Mark(s, p),
           UNCHANGED <<portfolio, snapshot, since, fills, restarts, buy_fees, since_buy>>
    PROVE  TradeInv'
<1>1. p \in Nat
  BY TradingAssumption
<1>2. TradeTypeOK'
  BY <1>1 DEF TradeInv, TradeTypeOK, Mark
<1> QED
  BY <1>2 DEF TradeInv, Balanced, Covered

\* The invariant holds when the first run starts.
LEMMA TradeStarts == ASSUME TradeInit PROVE TradeInv
<1> DEFINE total == StartingCash * Unit
           none == [s \in Symbol |-> 0]
<1>1. total \in Nat
  BY Times, Limits, TradingAssumption
<1>2. /\ portfolio = [cash |-> total, positions |-> none, basis |-> none, realized_pnl |-> 0]
      /\ snapshot = portfolio
  BY DEF TradeInit, NewPortfolio
<1>3. SumOf(none) = 0
  <2>1. none \in [Symbol -> Int] /\ \A s \in Symbol : none[s] = 0
    OBVIOUS
  <2> HIDE DEF none
  <2> QED
    BY <2>1, SumZero, PortfolioAssumption
<1>4. none \in [Symbol -> Nat]
  OBVIOUS
<1> HIDE DEF total, none
<1>5. portfolio \in PortfolioRecord
  BY <1>1, <1>2, <1>4 DEF PortfolioRecord
<1>6. TradeTypeOK
  BY <1>2, <1>5, Limits DEF TradeTypeOK, TradeInit
<1>7. Balanced(portfolio, 0)
  BY <1>1, <1>2, <1>3 DEF Balanced, total
<1>8. Covered(portfolio)
  <2> DEFINE m == Risk.max_order_notional * Excess
  <2>1. m \in Nat
    BY Limits
  <2> HIDE DEF m
  <2>2. portfolio.cash >= -m
    BY <1>1, <1>2, <2>1
  <2> QED
    BY <2>2 DEF Covered, m
<1>9. buy_fees.running = 0 /\ buy_fees.saved = 0 /\ \A s \in Symbol : since[s] <= since_buy[s]
  BY Limits DEF TradeInit
<1> QED
  BY <1>2, <1>6, <1>7, <1>8, <1>9 DEF TradeInv

\* Every step of a run keeps it.
LEMMA TradeStep == ASSUME TradeInv, TradeNext PROVE TradeInv'
<1> USE DEF TradeInv
<1>0. since \in [Symbol -> 0..Cooldown] /\ since_buy \in [Symbol -> 0..Cooldown] /\ Cooldown \in Nat
  BY Limits DEF TradeTypeOK
<1>1. ASSUME NEW s \in Symbol, NEW p \in Price, TickOnly(s, p) PROVE TradeInv'
  BY <1>1, TickKeeps DEF TickOnly
<1>2. ASSUME NEW s \in Symbol, NEW p \in Price, NEW qty \in 1..MaxQty, Buy(s, p, qty) PROVE TradeInv'
  <2>1. /\ BuyFill(s, p, qty) /\ UNCHANGED <<snapshot, restarts>>
        /\ since' = [since EXCEPT ![s] = 0] /\ since_buy' = [since_buy EXCEPT ![s] = 0]
    BY <1>2 DEF Buy
  <2>2. /\ since' \in [Symbol -> 0..Cooldown] /\ since_buy' \in [Symbol -> 0..Cooldown]
        /\ \A x \in Symbol : since'[x] <= since_buy'[x]
    BY <1>0, <2>1
  <2> QED
    BY <2>1, <2>2, BuyKeeps
<1>3. ASSUME NEW s \in Symbol, NEW p \in Price, NEW qty \in 1..MaxQty, Sell(s, p, qty) PROVE TradeInv'
  <2>1. /\ SellFill(s, p, qty) /\ UNCHANGED <<snapshot, restarts, buy_fees, since_buy>>
        /\ since' = [since EXCEPT ![s] = 0]
    BY <1>3 DEF Sell
  <2>2. /\ since' \in [Symbol -> 0..Cooldown] /\ since_buy' \in [Symbol -> 0..Cooldown]
        /\ \A x \in Symbol : since'[x] <= since_buy'[x]
    BY <1>0, <2>1
  <2> QED
    BY <2>1, <2>2, SellKeeps
<1>4. ASSUME Pass PROVE TradeInv'
  <2>1. /\ UNCHANGED <<portfolio, snapshot, latest, fills, restarts, buy_fees>>
        /\ since' = [s \in Symbol |-> IF since[s] < Cooldown THEN since[s] + 1 ELSE since[s]]
        /\ since_buy' = [s \in Symbol |->
                           IF since_buy[s] < Cooldown THEN since_buy[s] + 1 ELSE since_buy[s]]
    BY <1>4 DEF Pass
  <2>2. /\ since' \in [Symbol -> 0..Cooldown] /\ since_buy' \in [Symbol -> 0..Cooldown]
        /\ \A x \in Symbol : since'[x] <= since_buy'[x]
    BY <1>0, <2>1
  <2>3. TradeTypeOK'
    BY <2>1, <2>2 DEF TradeTypeOK
  <2> QED
    BY <2>1, <2>2, <2>3 DEF Balanced, Covered
<1>5. ASSUME Resume PROVE TradeInv'
  <2>1. TradeTypeOK'
    BY <1>0, <1>5 DEF Resume, TradeTypeOK
  <2>2. portfolio' = portfolio /\ snapshot' = portfolio
        /\ buy_fees'.running = buy_fees.running /\ buy_fees'.saved = buy_fees.running
    BY <1>5 DEF Resume, TradeTypeOK
  <2>3. \A x \in Symbol : since'[x] <= since_buy'[x]
    BY <1>0, <1>5 DEF Resume
  <2> QED
    BY <2>1, <2>2, <2>3 DEF Balanced, Covered
<1>6. ASSUME Recover PROVE TradeInv'
  <2>1. TradeTypeOK'
    BY <1>0, <1>6 DEF Recover, TradeTypeOK
  <2>2. portfolio' = snapshot /\ snapshot' = snapshot
        /\ buy_fees'.running = buy_fees.saved /\ buy_fees'.saved = buy_fees.saved
    BY <1>6 DEF Recover, TradeTypeOK
  <2>3. \A x \in Symbol : since'[x] <= since_buy'[x]
    BY <1>0, <1>6 DEF Recover
  <2> QED
    BY <2>1, <2>2, <2>3 DEF Balanced, Covered
<1> QED
  BY <1>1, <1>2, <1>3, <1>4, <1>5, <1>6 DEF TradeNext

\* And every tick of a replay.
LEMMA ReplayStep == ASSUME TradeInv, Replay PROVE TradeInv'
<1>0. /\ since \in [Symbol -> 0..Cooldown] /\ since_buy \in [Symbol -> 0..Cooldown]
      /\ \A x \in Symbol : since[x] <= since_buy[x]
  BY DEF TradeInv, TradeTypeOK
<1>1. ASSUME NEW s \in Symbol, NEW p \in Price, ReplayHold(s, p) PROVE TradeInv'
  BY <1>1, TickKeeps DEF ReplayHold, unreplayed
<1>2. ASSUME NEW s \in Symbol, NEW p \in Price, NEW qty \in 1..MaxQty, ReplayBuy(s, p, qty)
      PROVE  TradeInv'
  <2>1. BuyFill(s, p, qty) /\ UNCHANGED <<snapshot, restarts, since, since_buy>>
    BY <1>2 DEF ReplayBuy, unreplayed
  <2> QED
    BY <1>0, <2>1, BuyKeeps
<1>3. ASSUME NEW s \in Symbol, NEW p \in Price, NEW qty \in 1..MaxQty, ReplaySell(s, p, qty)
      PROVE  TradeInv'
  <2>1. SellFill(s, p, qty) /\ UNCHANGED <<snapshot, restarts, buy_fees, since, since_buy>>
    BY <1>3 DEF ReplaySell, unreplayed
  <2> QED
    BY <1>0, <2>1, SellKeeps
<1> QED
  BY <1>1, <1>2, <1>3 DEF Replay

\* TradeInv of every state of a run or a backtest.
LEMMA TradeInvariant == ReplaySpec => []TradeInv
<1>1. ReplayInit => TradeInv
  BY TradeStarts DEF ReplayInit
<1>2. TradeInv /\ [ReplayNext]_<<tradeVars, replayVars>> => TradeInv'
  <2> SUFFICES ASSUME TradeInv, [ReplayNext]_<<tradeVars, replayVars>> PROVE TradeInv'
    OBVIOUS
  <2>1. CASE TradeNext
    BY <2>1, TradeStep
  <2>2. CASE Replay
    BY <2>2, ReplayStep
  <2>3. CASE UNCHANGED <<tradeVars, replayVars>>
    BY <2>3 DEF TradeInv, TradeTypeOK, Balanced, Covered, tradeVars
  <2> QED
    BY <2>1, <2>2, <2>3 DEF ReplayNext
<1> QED
  BY <1>1, <1>2, PTL DEF ReplaySpec

\* The portfolio is what portfolio.rs says it is, and no position is ever short.
THEOREM TradeTyped == ReplaySpec => []TradeTypeOK
<1>1. TradeInv => TradeTypeOK
  BY DEF TradeInv
<1> QED
  BY <1>1, TradeInvariant, PTL

\* Over any fills and restarts no money appears or disappears from the ledger: what
\* Portfolio::apply takes from cash it puts into the cost basis, the result or a fee.
THEOREM MoneyConserved == ReplaySpec => []LedgerBalances
<1>1. TradeInv => LedgerBalances
  BY DEF TradeInv, Balanced, LedgerBalances
<1> QED
  BY <1>1, TradeInvariant, PTL

\* The gate's check of the cash against the limit price leaves it overdrawn by no more
\* than spread and fee on the largest order, however many orders fill.
THEOREM OverdraftNeverGrows == ReplaySpec => []OverdraftBounded
<1>1. TradeInv => OverdraftBounded
  BY DEF TradeInv, Covered, OverdraftBounded
<1> QED
  BY <1>1, TradeInvariant, PTL

\* order_cooldown keeps buys of a symbol apart in one run, whatever sells between them.
THEOREM CooldownSeparatesBuys == ReplaySpec => BuysSeparated
<1> DEFINE Apart == \A s \in Symbol :
              restarts' = restarts /\ portfolio'.positions[s] > portfolio.positions[s] =>
                  since_buy[s] >= Cooldown
<1>1. TradeInv /\ [ReplayNext]_<<tradeVars, replayVars>> => [Apart]_tradeVars
  <2> SUFFICES ASSUME TradeInv, [ReplayNext]_<<tradeVars, replayVars>>, NEW x \in Symbol,
                      restarts' = restarts, portfolio'.positions[x] > portfolio.positions[x]
               PROVE  since_buy[x] >= Cooldown
    OBVIOUS
  <2>0. /\ portfolio.positions \in [Symbol -> Nat] /\ since \in [Symbol -> 0..Cooldown]
        /\ since_buy \in [Symbol -> 0..Cooldown] /\ since[x] <= since_buy[x]
        /\ TradeTypeOK /\ Cooldown \in Nat /\ restarts \in Nat
    BY Limits DEF TradeInv, TradeTypeOK, PortfolioRecord
  <2>1. ASSUME portfolio' = portfolio PROVE FALSE
    BY <2>0, <2>1
  <2>2. ASSUME NEW s \in Symbol, NEW p \in Price, NEW qty \in 1..MaxQty, BuyFill(s, p, qty)
        PROVE  since_buy[x] >= Cooldown
    <3>1. portfolio'.positions = [portfolio.positions EXCEPT ![s] = portfolio.positions[s] + qty]
      BY <2>2, BuyFilled DEF Bought
    <3>2. x = s
      BY <2>0, <3>1
    <3>3. since[x] >= Cooldown
      BY <2>0, <2>2, <3>2, GatedBuy
    <3> QED
      BY <2>0, <3>3
  <2>3. ASSUME NEW s \in Symbol, NEW p \in Price, NEW qty \in 1..MaxQty, SellFill(s, p, qty)
        PROVE  FALSE
    <3>1. portfolio'.positions = [portfolio.positions EXCEPT ![s] = portfolio.positions[s] - qty]
      BY <2>3, SellFilled DEF Sold
    <3>2. qty \in Nat
      OBVIOUS
    <3> QED
      BY <2>0, <3>1, <3>2
  <2>4. CASE TradeNext
    <3>1. CASE Resume \/ Recover
      BY <2>0, <3>1 DEF Resume, Recover
    <3> QED
      BY <2>1, <2>2, <2>3, <2>4, <3>1 DEF TradeNext, TickOnly, Buy, Sell, Pass
  <2>5. CASE Replay
    BY <2>1, <2>2, <2>3, <2>5 DEF Replay, ReplayHold, ReplayBuy, ReplaySell
  <2>6. CASE UNCHANGED <<tradeVars, replayVars>>
    BY <2>1, <2>6 DEF tradeVars
  <2> QED
    BY <2>4, <2>5, <2>6 DEF ReplayNext
<1> HIDE DEF Apart
<1>2. ReplaySpec => [][Apart]_tradeVars
  BY <1>1, TradeInvariant, PTL DEF ReplaySpec
<1> QED
  BY <1>2 DEF Apart, BuysSeparated

--------------------------------------------------------------------------------
(* The report of a backtest *)

\* What is still held cost this much, by the books of the report.
Costs == [s \in Symbol |-> book[s].cost]

\* The books hold what the portfolio holds, at a cost that together with the cash
\* accounts for what the closed trades won and lost; the decider sells all or nothing.
BookInv ==
    /\ book \in [Symbol -> [qty : Nat, cost : Int]]
    /\ report \in [profit : Int, loss : Int, closed : Nat]
    /\ command = "backtest" =>
          /\ \A s \in Symbol : book[s].qty = portfolio.positions[s]
          /\ portfolio.cash + SumOf(Costs) = StartingCash * Unit + report.profit + report.loss
          /\ decider = "rule" => fills = 2 * report.closed + OpenPositionCount(portfolio)

\* The first units of a symbol open a position, the last ones close it.
LEMMA PositionsCounted ==
    ASSUME NEW pf \in PortfolioRecord, NEW new \in PortfolioRecord, NEW s \in Symbol, NEW q \in Nat,
           new.positions = [pf.positions EXCEPT ![s] = q]
    PROVE  /\ OpenPositionCount(pf) \in Nat
           /\ pf.positions[s] = 0 /\ q > 0 => OpenPositionCount(new) = OpenPositionCount(pf) + 1
           /\ pf.positions[s] > 0 /\ q = 0 => OpenPositionCount(new) = OpenPositionCount(pf) - 1
<1>1. IsFiniteSet(Held(pf))
  BY PortfolioAssumption, FS_Subset DEF Held
<1>2. OpenPositionCount(pf) \in Nat
  BY <1>1, FS_CardinalityType DEF OpenPositionCount
<1>3. pf.positions \in [Symbol -> Nat]
  BY DEF PortfolioRecord
<1>4. ASSUME pf.positions[s] = 0, q > 0 PROVE OpenPositionCount(new) = OpenPositionCount(pf) + 1
  <2>1. Held(new) = Held(pf) \cup {s} /\ s \notin Held(pf)
    BY <1>3, <1>4 DEF Held
  <2> QED
    BY <1>1, <2>1, FS_AddElement DEF OpenPositionCount
<1>5. ASSUME pf.positions[s] > 0, q = 0 PROVE OpenPositionCount(new) = OpenPositionCount(pf) - 1
  <2>1. Held(new) = Held(pf) \ {s} /\ s \in Held(pf)
    BY <1>3, <1>5 DEF Held
  <2> QED
    BY <1>1, <2>1, FS_RemoveElement DEF OpenPositionCount
<1> QED
  BY <1>2, <1>4, <1>5

\* The cost of one book changes.
LEMMA CostChanges ==
    ASSUME book \in [Symbol -> [qty : Nat, cost : Int]], NEW s \in Symbol, NEW v \in Int,
           book' \in [Symbol -> [qty : Nat, cost : Int]], book'[s].cost = v,
           \A x \in Symbol : x # s => book'[x] = book[x]
    PROVE  SumOf(Costs)' = SumOf(Costs) - book[s].cost + v /\ SumOf(Costs) \in Int
<1> DEFINE old == Costs
           new == Costs'
<1>1. old \in [Symbol -> Int] /\ old[s] = book[s].cost
  BY DEF Costs
<1>2. new = [old EXCEPT ![s] = v]
  BY DEF Costs
<1> HIDE DEF old, new
<1>3. SumOf(new) = SumOf(old) - old[s] + v /\ SumOf(old) \in Int
  BY <1>1, <1>2, SumChanges, PortfolioAssumption
<1>4. SumOf(Costs') = SumOf(Costs) - book[s].cost + v /\ SumOf(Costs) \in Int
  BY <1>1, <1>3 DEF old, new
<1> QED
  BY <1>4

\* A buy enters the book at its cost and fee.
LEMMA ReplayBuyKeeps ==
    ASSUME TradeInv, BookInv, command = "backtest",
           NEW s \in Symbol, NEW p \in Price, NEW qty \in 1..MaxQty, ReplayBuy(s, p, qty)
    PROVE  BookInv'
<1> DEFINE c == qty * ExecPrice("buy", p)
           fee == ExecFee("buy", qty, p)
           total == StartingCash * Unit
<1>0. qty \in Nat /\ qty > 0 /\ fee \in Nat /\ total \in Int
  BY ExecTyped, Times, Limits, TradingAssumption
<1>1. /\ Bought(portfolio', portfolio, s, qty, c, fee) /\ fills' = fills + 1
      /\ UNCHANGED <<report, command, decider>>
      /\ decider = "rule" => RuleDecision(s, p) = "buy"
      /\ book' = [book EXCEPT ![s].qty = @ + qty, ![s].cost = @ + c + fee]
  BY BuyFilled DEF ReplayBuy, unreplayed, Booked
<1> HIDE DEF c, fee, total
<1>2. /\ portfolio' \in PortfolioRecord /\ c \in Nat
      /\ portfolio'.cash = portfolio.cash - (c + fee)
      /\ portfolio'.positions = [portfolio.positions EXCEPT ![s] = portfolio.positions[s] + qty]
  BY <1>1 DEF Bought
<1>3. /\ portfolio \in PortfolioRecord /\ portfolio.positions \in [Symbol -> Nat]
      /\ portfolio.cash \in Int /\ fills \in Nat
  BY DEF TradeInv, TradeTypeOK, PortfolioRecord
<1>4. /\ book \in [Symbol -> [qty : Nat, cost : Int]]
      /\ report \in [profit : Int, loss : Int, closed : Nat]
      /\ \A x \in Symbol : book[x].qty = portfolio.positions[x]
      /\ portfolio.cash + SumOf(Costs) = total + report.profit + report.loss
      /\ decider = "rule" => fills = 2 * report.closed + OpenPositionCount(portfolio)
  BY DEF BookInv, total
<1>5. /\ book' \in [Symbol -> [qty : Nat, cost : Int]]
      /\ book'[s].qty = book[s].qty + qty /\ book'[s].cost = book[s].cost + c + fee
      /\ \A x \in Symbol : x # s => book'[x] = book[x]
  <2> DEFINE q == book[s].qty + qty
             v == book[s].cost + c + fee
  <2>1. q \in Nat /\ v \in Int
    BY <1>0, <1>2, <1>4
  <2>2. book' = [book EXCEPT ![s].qty = q, ![s].cost = v]
    BY <1>1
  <2> HIDE DEF q, v
  <2>3. book' \in [Symbol -> [qty : Nat, cost : Int]]
    BY <1>4, <2>1, <2>2
  <2>4. book'[s].qty = q /\ book'[s].cost = v
    BY <1>4, <2>2
  <2>5. \A x \in Symbol : x # s => book'[x] = book[x]
    BY <1>4, <2>2
  <2> QED
    BY <2>3, <2>4, <2>5 DEF q, v
<1>6. \A x \in Symbol : book'[x].qty = portfolio'.positions[x]
  BY <1>2, <1>3, <1>4, <1>5
<1>7. portfolio'.cash + SumOf(Costs)' = total + report.profit + report.loss
  <2>1. book'[s].cost = book[s].cost + c + fee /\ book[s].cost + c + fee \in Int /\ book[s].cost \in Int
    BY <1>0, <1>2, <1>4, <1>5
  <2>2. SumOf(Costs)' = SumOf(Costs) - book[s].cost + (book[s].cost + c + fee) /\ SumOf(Costs) \in Int
    BY <1>4, <1>5, <2>1, CostChanges
  <2>3. report.profit \in Int /\ report.loss \in Int
    BY <1>4
  <2> QED
    BY <1>0, <1>2, <1>3, <1>4, <2>1, <2>2, <2>3
<1>8. ASSUME decider = "rule" PROVE fills' = 2 * report.closed + OpenPositionCount(portfolio')
  <2>1. portfolio.positions[s] = 0
    BY <1>1, <1>3, <1>8 DEF RuleDecision
  <2>2. OpenPositionCount(portfolio') = OpenPositionCount(portfolio) + 1 /\ OpenPositionCount(portfolio) \in Nat
    BY <1>0, <1>2, <1>3, <2>1, PositionsCounted
  <2> QED
    BY <1>1, <1>3, <1>4, <1>8, <2>2
<1> QED
  BY <1>1, <1>4, <1>5, <1>6, <1>7, <1>8 DEF BookInv, total

\* A sell leaves it at that share of the cost, the difference going to the report.
LEMMA ReplaySellKeeps ==
    ASSUME TradeInv, BookInv, command = "backtest",
           NEW s \in Symbol, NEW p \in Price, NEW qty \in 1..MaxQty, ReplaySell(s, p, qty)
    PROVE  BookInv'
<1> DEFINE price == ExecPrice("sell", p)
           c == qty * price
           fee == ExecFee("sell", qty, p)
           share == ClosedBasis(s, qty)
           pnl == Pnl(s, qty, price, fee)
           total == StartingCash * Unit
<1>0. qty \in Nat /\ qty > 0 /\ fee \in Nat /\ total \in Int
  BY ExecTyped, Times, Limits, TradingAssumption
<1>1. /\ Sold(portfolio', portfolio, s, qty, c, BasisOf(portfolio, s, qty), fee) /\ fills' = fills + 1
      /\ qty <= portfolio.positions[s]
      /\ UNCHANGED <<command, decider>>
      /\ decider = "rule" => qty = portfolio.positions[s]
      /\ book' = Closed(s, qty) /\ report' = Analyzed(pnl) /\ book[s].qty > 0
  BY SellFilled DEF ReplaySell, unreplayed
<1>2. /\ portfolio' \in PortfolioRecord /\ c \in Nat
      /\ portfolio'.cash = portfolio.cash + (c - fee)
      /\ portfolio'.positions = [portfolio.positions EXCEPT ![s] = portfolio.positions[s] - qty]
  BY <1>1 DEF Sold
<1>3. /\ portfolio \in PortfolioRecord /\ portfolio.positions \in [Symbol -> Nat]
      /\ portfolio.cash \in Int /\ fills \in Nat
  BY DEF TradeInv, TradeTypeOK, PortfolioRecord
<1>4. /\ book \in [Symbol -> [qty : Nat, cost : Int]]
      /\ report \in [profit : Int, loss : Int, closed : Nat]
      /\ \A x \in Symbol : book[x].qty = portfolio.positions[x]
      /\ portfolio.cash + SumOf(Costs) = total + report.profit + report.loss
      /\ decider = "rule" => fills = 2 * report.closed + OpenPositionCount(portfolio)
  BY DEF BookInv, total
<1>5. ClosedQty(s, qty) = qty
  <2>1. qty <= book[s].qty /\ book[s].qty \in Nat
    BY <1>1, <1>4
  <2> QED
    BY <1>0, <2>1 DEF ClosedQty
<1>6. share \in Int
  <2> DEFINE n == book[s].cost * qty
  <2>1. n \in Int /\ book[s].qty \in Nat
    BY <1>0, <1>4, Times
  <2>2. share = n \div book[s].qty
    BY <1>5 DEF ClosedBasis
  <2> HIDE DEF n, share
  <2> QED
    BY <1>1, <2>1, <2>2
<1>7. pnl = c - fee - share
  BY <1>5 DEF Pnl
<1> HIDE DEF c, fee, total, share, pnl, price
<1>8. /\ book' \in [Symbol -> [qty : Nat, cost : Int]]
      /\ book'[s].qty = book[s].qty - qty /\ book'[s].cost = book[s].cost - share
      /\ \A x \in Symbol : x # s => book'[x] = book[x]
  <2>1. book' = [book EXCEPT ![s].qty = @ - qty, ![s].cost = @ - share]
    BY <1>1, <1>5 DEF Closed, share
  <2> DEFINE q == book[s].qty - qty
             v == book[s].cost - share
  <2>2. q \in Nat /\ v \in Int
    BY <1>0, <1>1, <1>4, <1>6
  <2>3. book' = [book EXCEPT ![s].qty = q, ![s].cost = v]
    BY <2>1
  <2> HIDE DEF q, v
  <2>4. book' \in [Symbol -> [qty : Nat, cost : Int]]
    BY <1>4, <2>2, <2>3
  <2>5. book'[s].qty = q /\ book'[s].cost = v
    BY <1>4, <2>3
  <2>6. \A x \in Symbol : x # s => book'[x] = book[x]
    BY <1>4, <2>3
  <2> QED
    BY <2>4, <2>5, <2>6 DEF q, v
<1>9. \A x \in Symbol : book'[x].qty = portfolio'.positions[x]
  BY <1>2, <1>3, <1>4, <1>8
<1>10. /\ report' \in [profit : Int, loss : Int, closed : Nat]
       /\ report'.closed = report.closed + 1
       /\ report'.profit + report'.loss = report.profit + report.loss + pnl
  <2>1. pnl \in Int
    BY <1>0, <1>2, <1>6, <1>7
  <2>2. /\ report.profit \in Int /\ report.loss \in Int /\ report.closed \in Nat
        /\ report' = [profit |-> IF pnl > 0 THEN report.profit + pnl ELSE report.profit,
                      loss |-> IF pnl < 0 THEN report.loss + pnl ELSE report.loss,
                      closed |-> report.closed + 1]
    BY <1>1, <1>4 DEF Analyzed
  <2>3. CASE pnl > 0
    BY <2>1, <2>2, <2>3
  <2>4. CASE pnl < 0
    BY <2>1, <2>2, <2>4
  <2>5. CASE pnl = 0
    BY <2>1, <2>2, <2>5
  <2> QED
    BY <2>1, <2>3, <2>4, <2>5
<1>11. portfolio'.cash + SumOf(Costs)' = total + report'.profit + report'.loss
  <2>1. book'[s].cost = book[s].cost - share /\ book[s].cost - share \in Int /\ book[s].cost \in Int
    BY <1>4, <1>6, <1>8
  <2>2. SumOf(Costs)' = SumOf(Costs) - book[s].cost + (book[s].cost - share) /\ SumOf(Costs) \in Int
    BY <1>4, <1>8, <2>1, CostChanges
  <2> DEFINE costs == SumOf(Costs)
             new == SumOf(Costs')
             won == report.profit + report.loss
             cash == portfolio.cash
  <2>3. new = costs - share /\ costs \in Int
    BY <1>6, <2>1, <2>2
  <2>4. /\ won \in Int /\ cash \in Int /\ cash + costs = total + won
        /\ report'.profit + report'.loss = won + pnl
        /\ report'.profit \in Int /\ report'.loss \in Int
    BY <1>0, <1>3, <1>4, <1>10
  <2>5. portfolio'.cash = cash + (c - fee)
    BY <1>2
  <2> HIDE DEF costs, new, won, cash
  <2>6. portfolio'.cash + new = total + (report'.profit + report'.loss)
    BY <1>0, <1>2, <1>6, <1>7, <2>3, <2>4, <2>5
  <2> QED
    BY <1>0, <2>4, <2>6 DEF new
<1>12. ASSUME decider = "rule" PROVE fills' = 2 * report'.closed + OpenPositionCount(portfolio')
  <2>1. portfolio.positions[s] > 0 /\ portfolio.positions[s] - qty = 0
    BY <1>0, <1>1, <1>3, <1>12
  <2>2. OpenPositionCount(portfolio') = OpenPositionCount(portfolio) - 1 /\ OpenPositionCount(portfolio) \in Nat
    BY <1>2, <1>3, <2>1, PositionsCounted
  <2>3. report.closed \in Nat
    BY <1>4
  <2> QED
    BY <1>1, <1>3, <1>4, <1>10, <1>12, <2>2, <2>3
<1> QED
  BY <1>1, <1>8, <1>9, <1>10, <1>11, <1>12 DEF BookInv, total

\* The books stay so over every step.
LEMMA BookInvariant == ReplaySpec => []BookInv
<1>1. ReplayInit => BookInv
  <2> SUFFICES ASSUME ReplayInit PROVE BookInv
    OBVIOUS
  <2> DEFINE total == StartingCash * Unit
             none == [s \in Symbol |-> 0]
  <2>1. /\ total \in Int
        /\ portfolio = [cash |-> total, positions |-> none, basis |-> none, realized_pnl |-> 0]
        /\ book = [s \in Symbol |-> [qty |-> 0, cost |-> 0]]
        /\ report = [profit |-> 0, loss |-> 0, closed |-> 0] /\ fills = 0
    BY Times, Limits, TradingAssumption DEF ReplayInit, TradeInit, NewPortfolio
  <2>2. SumOf(Costs) = 0
    <3>1. Costs \in [Symbol -> Int] /\ \A s \in Symbol : Costs[s] = 0
      BY <2>1 DEF Costs
    <3> QED
      BY <3>1, SumZero, PortfolioAssumption
  <2>3. OpenPositionCount(portfolio) = 0
    <3>1. Held(portfolio) = {}
      BY <2>1 DEF Held
    <3> QED
      BY <3>1, FS_EmptySet DEF OpenPositionCount
  <2> QED
    BY <2>1, <2>2, <2>3 DEF BookInv
<1>2. TradeInv /\ BookInv /\ [ReplayNext]_<<tradeVars, replayVars>> => BookInv'
  <2> SUFFICES ASSUME TradeInv, BookInv, [ReplayNext]_<<tradeVars, replayVars>> PROVE BookInv'
    OBVIOUS
  <2>1. CASE command = "run" /\ UNCHANGED replayVars
    BY <2>1 DEF BookInv, replayVars
  <2>2. CASE command = "backtest" /\ Replay
    <3>1. ASSUME NEW s \in Symbol, NEW p \in Price, ReplayHold(s, p) PROVE BookInv'
      BY <3>1 DEF BookInv, ReplayHold, unreplayed, Costs
    <3> QED
      BY <2>2, <3>1, ReplayBuyKeeps, ReplaySellKeeps DEF Replay
  <2>3. CASE UNCHANGED <<tradeVars, replayVars>>
    BY <2>3 DEF BookInv, Costs, tradeVars, replayVars
  <2> QED
    BY <2>1, <2>2, <2>3 DEF ReplayNext
<1> QED
  BY <1>1, <1>2, TradeInvariant, PTL DEF ReplaySpec

\* The report of a backtest accounts for the whole return of its portfolio, whose books
\* are kept otherwise, and with RuleDecider counts one trade for every buy and sell.
THEOREM ReportAccounts == ReplaySpec => []ReportReconciles
<1>1. TradeInv /\ BookInv => ReportReconciles
  <2> SUFFICES ASSUME TradeInv, BookInv, command = "backtest"
               PROVE  /\ Equity(portfolio, Worth(latest)) - StartingCash * Unit =
                            report.profit + report.loss
                            + SumOf([s \in Symbol |-> book[s].qty * latest[s] * Unit - book[s].cost])
                      /\ decider = "rule" => fills = 2 * report.closed + OpenPositionCount(portfolio)
    BY DEF ReportReconciles
  <2> DEFINE total == StartingCash * Unit
             open == [s \in Symbol |-> book[s].qty * latest[s] * Unit - book[s].cost]
             worth == [s \in Symbol |-> portfolio.positions[s] * Worth(latest)[s]]
  <2>1. /\ portfolio.cash \in Int /\ total \in Int
        /\ report.profit \in Int /\ report.loss \in Int
        /\ portfolio.cash + SumOf(Costs) = total + report.profit + report.loss
    BY Times, Limits, TradingAssumption DEF TradeInv, TradeTypeOK, PortfolioRecord, BookInv
  <2>2. /\ open \in [Symbol -> Int] /\ worth \in [Symbol -> Int] /\ Costs \in [Symbol -> Int]
        /\ \A s \in Symbol : worth[s] = open[s] + Costs[s]
    <3>1. ASSUME NEW s \in Symbol
          PROVE  /\ open[s] \in Int /\ worth[s] \in Int /\ Costs[s] \in Int
                 /\ worth[s] = open[s] + Costs[s]
      <4> DEFINE q == book[s].qty
                 l == latest[s]
                 k == book[s].cost
      <4>1. q \in Nat /\ l \in Nat /\ k \in Int /\ Unit \in Nat
        BY Limits DEF TradeInv, TradeTypeOK, BookInv
      <4>2. worth[s] = q * (l * Unit)
        BY DEF BookInv, Worth
      <4>3. open[s] = q * l * Unit - k /\ Costs[s] = k
        BY DEF Costs
      <4> HIDE DEF q, l, k, open, worth
      <4>4. q * (l * Unit) = q * l * Unit /\ q * l * Unit \in Int
        BY <4>1
      <4> QED
        BY <4>1, <4>2, <4>3, <4>4
    <3> QED
      BY <3>1 DEF Costs
  <2> HIDE DEF open, worth, total
  <2>3. SumOf(worth) = SumOf(open) + SumOf(Costs) /\ SumOf(open) \in Int /\ SumOf(Costs) \in Int
    BY <2>2, SumAdds, PortfolioAssumption
  <2>4. Equity(portfolio, Worth(latest)) = portfolio.cash + SumOf(worth)
    BY DEF Equity, worth
  <2>5. Equity(portfolio, Worth(latest)) - total = report.profit + report.loss + SumOf(open)
    BY <2>1, <2>3, <2>4
  <2> QED
    BY <2>5 DEF BookInv, open, total
<1> QED
  BY <1>1, TradeInvariant, BookInvariant, PTL

--------------------------------------------------------------------------------
(* The calls of an AiDecider *)

\* Between the look at the budget and the reply to the first attempt there is room for
\* one more call.
CallInv ==
    /\ calls \in Nat
    /\ run \in [pc : {"feed", "decide", "calling", "stopped", "panicked"}, attempt : 0..1]
    /\ Ai.max_calls_per_run > 0 =>
          calls <= Ai.max_calls_per_run +
                     (IF run.pc = "calling" /\ run.attempt = 0 THEN 0 ELSE 1)

\* A step that calls no provider keeps it.
LEMMA NoCallMade ==
    ASSUME CallInv, calls' = calls,
           \/ run' = run
           \/ /\ run' \in [pc : {"feed", "decide", "stopped", "panicked"}, attempt : {0}]
    PROVE  CallInv'
BY AiAssumption DEF CallInv

\* However often replies are refused and retried, a run makes at most one call more
\* than max_calls_per_run.
THEOREM BudgetOfCalls == Spec => []CallsBounded
<1>1. Init => CallInv
  BY AiAssumption DEF Init, CallInv, NoCalls
<1>2. CallInv /\ [Next]_vars => CallInv'
  <2> SUFFICES ASSUME CallInv, [Next]_vars PROVE CallInv'
    OBVIOUS
  <2>1. ASSUME Polling \/ Interrupt \/ (ChainStep /\ UNCHANGED runVars) \/ UNCHANGED vars PROVE CallInv'
    <3>1. calls' = calls /\ run' = run
      BY <2>1 DEF Polling, Interrupt, runVars, vars
    <3> QED
      BY <3>1, NoCallMade
  <2>2. ASSUME Take PROVE CallInv'
    BY <2>2, NoCallMade DEF Take
  <2>3. ASSUME DecideByRule \/ DecideNothing \/ ProviderFails PROVE CallInv'
    BY <2>3, NoCallMade DEF DecideByRule, DecideNothing, ProviderFails, Decided
  <2>4. ASSUME CallProvider PROVE CallInv'
    <3>1. /\ run' = [pc |-> "calling", attempt |-> 0] /\ calls' = Counted(calls)
          /\ calls \in Nat /\ ~BudgetSpent(calls)
      BY <2>4 DEF CallProvider, CallInv
    <3> QED
      BY <3>1, AiAssumption DEF CallInv, Counted, BudgetSpent
  <2>5. ASSUME NEW r \in Reply, ProviderReplies(r) PROVE CallInv'
    <3>1. CASE ~Rejected(r, TickSymbol)
      BY <2>5, <3>1, NoCallMade DEF ProviderReplies, Decided
    <3>2. CASE Rejected(r, TickSymbol) /\ run.attempt = 0
      <4>1. /\ run.pc = "calling" /\ run.attempt = 0
            /\ run' = [run EXCEPT !.attempt = 1] /\ calls' = Counted(calls)
        BY <2>5, <3>2 DEF ProviderReplies
      <4> QED
        BY <4>1, AiAssumption DEF CallInv, Counted
    <3>3. CASE Rejected(r, TickSymbol) /\ run.attempt # 0
      BY <2>5, <3>3, NoCallMade DEF ProviderReplies, Decided
    <3> QED
      BY <3>1, <3>2, <3>3
  <2>6. ASSUME NEW r \in Reply, ReplyPanics(r) PROVE CallInv'
    BY <2>6, NoCallMade DEF ReplyPanics
  <2> QED
    BY <2>1, <2>2, <2>3, <2>4, <2>5, <2>6 DEF Next, LoopStep
<1>3. CallInv => CallsBounded
  BY AiAssumption DEF CallInv, CallsBounded
<1> QED
  BY <1>1, <1>2, <1>3, PTL DEF Spec

--------------------------------------------------------------------------------
(* The prices of a ChainFeed *)

\* A pool that prices the i-th symbol.
Prices(i, p) == p \in Pool /\ Matches(p, Symbols[i])

\* What the chain may say of a pool, and what the feed keeps.
ChainRecord == [live : BOOLEAN, liquidity : Nat,
                amount : {Holding(p, a) : p \in Pool, a \in Amount \cup {1}}]
FeedRecord ==
    [pc : {"idle", "head", "scan", "rank", "quote", "asleep", "cycle", "ready"},
     idx : 0..(Len(Symbols) - 1), i : 0..Len(Symbols),
     pool : [DOMAIN Symbols -> Pool \cup {NoPool}], attempt : Nat,
     chosen : Pool \cup {NoPool}, found : SUBSET Pool,
     ranked : SUBSET [pool : Pool, liquidity : Nat], deadline : BOOLEAN]

\* What was remembered, found, ranked or chosen for a symbol is a pool of the symbol.
FeedOK(f) ==
    /\ f \in FeedRecord
    /\ f.pc # "idle" => f.i \in DOMAIN Symbols
    /\ \A i \in DOMAIN Symbols : f.pool[i] # NoPool => Prices(i, f.pool[i])
    /\ f.pc \in {"head", "scan", "rank"} =>
          /\ \A p \in f.found : Prices(f.i, p)
          /\ \A r \in f.ranked : Prices(f.i, r.pool)
    /\ f.pc = "quote" => Prices(f.i, f.chosen)

FeedInv ==
    /\ chain \in [Pool -> ChainRecord]
    /\ FeedOK(feed)
    /\ PricedByItsPair

\* There is a symbol, and they are numbered from 1.
LEMMA SymbolsNumbered ==
    /\ Len(Symbols) \in Nat \ {0} /\ DOMAIN Symbols = 1..Len(Symbols)
    /\ MaxRetries \in Nat
<1>1. Symbols \in Seq(STRING) /\ Symbols # <<>> /\ MaxRetries \in Nat
  BY FeedAssumption DEF ChainValid
<1> QED
  BY <1>1

\* read_one starts with a pool of the symbol or with none.
LEMMA TryKeeps ==
    ASSUME NEW f \in FeedRecord, f.i \in DOMAIN Symbols,
           \A i \in DOMAIN Symbols : f.pool[i] # NoPool => Prices(i, f.pool[i])
    PROVE  FeedOK(Try(f))
<1> DEFINE g == Try(f)
<1>1. g = [f EXCEPT !.pc = IF f.pool[f.i] = NoPool THEN "head" ELSE "quote",
                    !.chosen = f.pool[f.i], !.found = {}, !.ranked = {}]
  BY DEF Try
<1>2. /\ g.pc = (IF f.pool[f.i] = NoPool THEN "head" ELSE "quote") /\ g.chosen = f.pool[f.i]
      /\ g.found = {} /\ g.ranked = {} /\ g.pool = f.pool /\ g.i = f.i
      /\ g \in FeedRecord
  BY <1>1 DEF FeedRecord
<1> HIDE DEF g
<1>3. FeedOK(g)
  BY <1>2 DEF FeedOK
<1> QED
  BY <1>3 DEF g

\* Backing off forgets nothing and finds nothing.
LEMMA FailedKeeps ==
    ASSUME NEW f, FeedOK(f), f.i \in DOMAIN Symbols
    PROVE  FeedOK(Failed(f))
<1> DEFINE g == Failed(f)
           n == IF f.attempt + 1 > MaxRetries THEN 0 ELSE f.attempt + 1
<1>0. f \in FeedRecord /\ n \in Nat /\ g = [f EXCEPT !.pc = "asleep", !.attempt = n]
  <2>1. f \in FeedRecord /\ f.attempt \in Nat
    BY DEF FeedOK, FeedRecord
  <2> QED
    BY <2>1 DEF Failed
<1> HIDE DEF g, n
<1>1. /\ g.pc = "asleep" /\ g.pool = f.pool /\ g.i = f.i /\ g \in FeedRecord
  BY <1>0 DEF FeedRecord
<1>2. FeedOK(g)
  BY <1>1 DEF FeedOK
<1> QED
  BY <1>2 DEF g

\* Every step of the feed keeps the pools of the symbols apart.
LEMMA FeedStepKeeps == ASSUME FeedInv, FeedStep PROVE FeedInv'
<1>0. /\ FeedOK(feed) /\ feed \in FeedRecord /\ chain \in [Pool -> ChainRecord]
      /\ feed.pc # "idle" => feed.i \in DOMAIN Symbols
      /\ \A i \in DOMAIN Symbols : feed.pool[i] # NoPool => Prices(i, feed.pool[i])
      /\ PricedByItsPair
  BY DEF FeedInv, FeedOK
<1>a. ASSUME UNCHANGED <<tick, chain>>, FeedOK(feed') PROVE FeedInv'
  BY <1>a DEF FeedInv, PricedByItsPair
<1>1. CASE NextTick
  <2> DEFINE called == [feed EXCEPT !.i = feed.idx + 1, !.idx = Advance(feed.idx + 1),
                                    !.deadline = @ \/ feed.idx = 0, !.attempt = 0]
  <2>1. feed.idx + 1 \in DOMAIN Symbols /\ Advance(feed.idx + 1) \in 0..(Len(Symbols) - 1)
    BY <1>0, SymbolsNumbered DEF FeedRecord, Advance
  <2>2. called \in FeedRecord /\ called.i \in DOMAIN Symbols /\ called.pool = feed.pool
    <3> DEFINE at == feed.idx + 1
               next == Advance(feed.idx + 1)
               timed == feed.deadline \/ feed.idx = 0
    <3>1. at \in DOMAIN Symbols /\ at \in 0..Len(Symbols) /\ next \in 0..(Len(Symbols) - 1)
      BY <2>1, SymbolsNumbered
    <3>2. timed \in BOOLEAN
      OBVIOUS
    <3>3. called = [feed EXCEPT !.i = at, !.idx = next, !.deadline = timed, !.attempt = 0]
      BY <1>0 DEF FeedRecord
    <3> HIDE DEF called, at, next, timed
    <3> QED
      BY <1>0, <3>1, <3>2, <3>3 DEF FeedRecord
  <2>3. feed' = [called EXCEPT !.pc = "cycle"] \/ feed' = Try(called)
    BY <1>1 DEF NextTick
  <2> HIDE DEF called
  <2>4. CASE feed' = [called EXCEPT !.pc = "cycle"]
    <3>1. feed' \in FeedRecord /\ feed'.pc = "cycle" /\ feed'.i = called.i /\ feed'.pool = feed.pool
      BY <2>2, <2>4 DEF FeedRecord
    <3>2. FeedOK(feed')
      BY <1>0, <2>2, <3>1 DEF FeedOK
    <3> QED
      BY <1>1, <1>a, <3>2 DEF NextTick
  <2>5. CASE feed' = Try(called)
    <3>1. FeedOK(feed')
      BY <1>0, <2>2, <2>5, TryKeeps
    <3> QED
      BY <1>1, <1>a, <3>1 DEF NextTick
  <2> QED
    BY <2>3, <2>4, <2>5
<1>2. CASE Wake
  <2>1. FeedOK(feed')
    BY <1>0, <1>2, TryKeeps DEF Wake
  <2> QED
    BY <1>2, <1>a, <2>1 DEF Wake
<1>3. CASE RequestFails
  <2>1. FeedOK(feed')
    BY <1>0, <1>3, FailedKeeps DEF RequestFails
  <2> QED
    BY <1>3, <1>a, <2>1 DEF RequestFails
<1>4. CASE ReadHead
  <2> DEFINE all == {p \in Initialised : Matches(p, Token)}
  <2>1. all \in SUBSET Pool /\ \A p \in all : Prices(feed.i, p)
    BY DEF Initialised, Prices, Token
  <2>2. feed.pc = "head" /\ feed' = [feed EXCEPT !.pc = "scan", !.found = all]
    BY <1>4 DEF ReadHead
  <2> HIDE DEF all
  <2>3. /\ feed' \in FeedRecord /\ feed'.pc = "scan" /\ feed'.found = all
        /\ feed'.ranked = feed.ranked /\ feed'.i = feed.i /\ feed'.pool = feed.pool
    BY <1>0, <2>1, <2>2 DEF FeedRecord
  <2>4. FeedOK(feed')
    BY <1>0, <2>1, <2>2, <2>3 DEF FeedOK
  <2> QED
    BY <1>4, <1>a, <2>4 DEF ReadHead
<1>5. CASE Scanned
  <2>1. CASE feed' = Failed(feed)
    <3>1. FeedOK(feed')
      BY <1>0, <1>5, <2>1, FailedKeeps DEF Scanned
    <3> QED
      BY <1>5, <1>a, <3>1 DEF Scanned
  <2>2. CASE feed' = [feed EXCEPT !.pc = "rank"]
    <3>1. /\ feed' \in FeedRecord /\ feed'.pc = "rank" /\ feed'.found = feed.found
          /\ feed'.ranked = feed.ranked /\ feed'.i = feed.i /\ feed'.pool = feed.pool
      BY <1>0, <2>2 DEF FeedRecord
    <3>2. FeedOK(feed')
      BY <1>0, <1>5, <3>1 DEF FeedOK, Scanned
    <3> QED
      BY <1>5, <1>a, <3>2 DEF Scanned
  <2> QED
    BY <1>5, <2>1, <2>2 DEF Scanned
<1>6. ASSUME NEW p \in Pool, Rank(p) \/ RankFails(p) PROVE FeedInv'
  <2> DEFINE r == [pool |-> p, liquidity |-> chain[p].liquidity]
  <2>1. feed.pc = "rank" /\ p \in feed.found /\ UNCHANGED <<tick, chain>>
    BY <1>6 DEF Rank, RankFails
  <2>2. r \in [pool : Pool, liquidity : Nat] /\ r.pool = p /\ Prices(feed.i, p)
    BY <1>0, <2>1 DEF FeedOK, ChainRecord
  <2>3. \/ feed' = [feed EXCEPT !.found = feed.found \ {p}, !.ranked = feed.ranked]
        \/ feed' = [feed EXCEPT !.found = feed.found \ {p}, !.ranked = feed.ranked \cup {r}]
    <3>1. feed.ranked = [feed EXCEPT !.found = feed.found \ {p}].ranked
      BY <1>0 DEF FeedRecord
    <3>2. CASE RankFails(p)
      BY <1>0, <3>2 DEF RankFails, FeedRecord
    <3>3. CASE Rank(p)
      BY <1>0, <3>3 DEF Rank, FeedRecord
    <3> QED
      BY <1>6, <3>2, <3>3
  <2> HIDE DEF r
  <2>4. /\ feed' \in FeedRecord /\ feed'.pc = "rank" /\ feed'.found \subseteq feed.found
        /\ feed'.ranked \subseteq feed.ranked \cup {r} /\ feed'.i = feed.i /\ feed'.pool = feed.pool
    <3> DEFINE found == feed.found \ {p}
    <3>1. found \in SUBSET Pool /\ found \subseteq feed.found /\ feed.ranked \in SUBSET [pool : Pool, liquidity : Nat]
      BY <1>0 DEF FeedRecord
    <3>2. ASSUME NEW ranked, ranked = feed.ranked \/ ranked = feed.ranked \cup {r},
                 feed' = [feed EXCEPT !.found = found, !.ranked = ranked]
          PROVE  /\ feed' \in FeedRecord /\ feed'.pc = "rank" /\ feed'.found \subseteq feed.found
                 /\ feed'.ranked \subseteq feed.ranked \cup {r} /\ feed'.i = feed.i /\ feed'.pool = feed.pool
      <4>1. ranked \in SUBSET [pool : Pool, liquidity : Nat] /\ ranked \subseteq feed.ranked \cup {r}
        BY <2>2, <3>1, <3>2
      <4>2. feed'.found = found /\ feed'.ranked = ranked /\ feed'.i = feed.i /\ feed'.pool = feed.pool
            /\ feed'.pc = feed.pc
        BY <1>0, <3>2 DEF FeedRecord
      <4>3. feed' \in FeedRecord
        <5> HIDE DEF found
        <5> QED
          BY <1>0, <3>1, <3>2, <4>1 DEF FeedRecord
      <4> QED
        BY <2>1, <3>1, <4>1, <4>2, <4>3
    <3> QED
      BY <2>3, <3>2
  <2>5. FeedOK(feed')
    BY <1>0, <2>1, <2>2, <2>4 DEF FeedOK
  <2> QED
    BY <1>a, <2>1, <2>5
<1>7. CASE Ranked
  <2>1. CASE feed' = Failed(feed)
    <3>1. FeedOK(feed')
      BY <1>0, <1>7, <2>1, FailedKeeps DEF Ranked
    <3> QED
      BY <1>7, <1>a, <3>1 DEF Ranked
  <2>2. ASSUME NEW r \in Deepest(feed.ranked), feed' = [feed EXCEPT !.pc = "quote", !.chosen = r.pool]
        PROVE  FeedInv'
    <3>1. r \in feed.ranked /\ feed.pc = "rank"
      BY <1>7, <2>2 DEF Deepest, Ranked
    <3>2. Prices(feed.i, r.pool) /\ r.pool \in Pool
      BY <1>0, <3>1 DEF FeedOK, Prices
    <3>3. /\ feed' \in FeedRecord /\ feed'.pc = "quote" /\ feed'.chosen = r.pool
          /\ feed'.i = feed.i /\ feed'.pool = feed.pool
      BY <1>0, <2>2, <3>2 DEF FeedRecord
    <3>4. FeedOK(feed')
      BY <1>0, <3>1, <3>2, <3>3 DEF FeedOK
    <3> QED
      BY <1>7, <1>a, <3>4 DEF Ranked
  <2> QED
    BY <1>7, <2>1, <2>2 DEF Ranked
<1>8. CASE ReadQuote
  <2> DEFINE p == feed.chosen
  <2>1. Prices(feed.i, p) /\ feed.i \in DOMAIN Symbols /\ p \in Pool
    BY <1>0, <1>8 DEF ReadQuote, FeedOK, Prices
  <2>2. feed' = [feed EXCEPT !.pc = "ready", !.pool = [feed.pool EXCEPT ![feed.i] = p],
                             !.chosen = NoPool, !.found = {}, !.ranked = {}]
    BY <1>0, <1>8 DEF ReadQuote, FeedRecord
  <2>3. tick' = [at |-> feed.i, price |-> Quote(p, Token), pool |-> p, amount |-> chain[p].amount]
        /\ chain' = chain
    BY <1>8 DEF ReadQuote, chainVars
  <2> HIDE DEF p
  <2>4. /\ feed' \in FeedRecord /\ feed'.pc = "ready" /\ feed'.i = feed.i
        /\ feed'.pool = [feed.pool EXCEPT ![feed.i] = p]
    BY <1>0, <2>1, <2>2 DEF FeedRecord
  <2>5. FeedOK(feed')
    <3>1. feed.pool \in [DOMAIN Symbols -> Pool \cup {NoPool}]
      BY <1>0 DEF FeedRecord
    <3>2. \A i \in DOMAIN Symbols : feed'.pool[i] # NoPool => Prices(i, feed'.pool[i])
      BY <1>0, <2>1, <2>4, <3>1
    <3> QED
      BY <2>1, <2>4, <3>2 DEF FeedOK
  <2>6. PricedByItsPair'
    <3> DEFINE token == Symbols[feed.i]
               a == chain[p].amount
    <3>1. \/ p.currency0 = token /\ p.currency1 = Denom
          \/ p.currency0 = Denom /\ p.currency1 = token
      BY <2>1 DEF Prices, Matches
    <3>2. {p.currency0, p.currency1} = {token, Denom}
      BY <3>1
    <3>3. Quote(p, token) = <<a[Denom], a[token]>>
      BY <3>1 DEF Quote
    <3>4. tick'.at = feed.i /\ tick'.pool = p /\ tick'.amount = a /\ tick'.price = Quote(p, token)
      BY <2>3 DEF Token
    <3> QED
      BY <3>2, <3>3, <3>4 DEF PricedByItsPair
  <2> QED
    BY <1>0, <2>3, <2>5, <2>6 DEF FeedInv
<1>9. CASE ZeroQuote
  <2>1. FeedOK(feed')
    BY <1>0, <1>9, FailedKeeps DEF ZeroQuote
  <2> QED
    BY <1>9, <1>a, <2>1 DEF ZeroQuote
<1> QED
  BY <1>1, <1>2, <1>3, <1>4, <1>5, <1>6, <1>7, <1>8, <1>9 DEF FeedStep

\* Whatever moved, failed or was tried before, a tick is priced by a pool of its token
\* and the denominator, the right way round.
THEOREM TicksPricedByTheirPair == Spec => []PricedByItsPair
<1>1. Init => FeedInv
  <2> SUFFICES ASSUME Init PROVE FeedInv
    OBVIOUS
  <2>1. chain \in [Pool -> ChainRecord]
    BY DEF Init, FeedInit, ChainRecord
  <2>2. feed = Idle /\ tick = NotRead
    BY DEF Init, FeedInit
  <2>3. feed \in FeedRecord /\ feed.pc = "idle" /\ \A i \in DOMAIN Symbols : feed.pool[i] = NoPool
    BY <2>2, SymbolsNumbered DEF Idle, FeedRecord
  <2> QED
    BY <2>1, <2>2, <2>3 DEF FeedInv, FeedOK, PricedByItsPair
<1>2. FeedInv /\ [Next]_vars => FeedInv'
  <2> SUFFICES ASSUME FeedInv, [Next]_vars PROVE FeedInv'
    OBVIOUS
  <2>1. CASE Polling
    BY <2>1, FeedStepKeeps DEF Polling
  <2>2. CASE Take
    <3>1. feed' = [feed EXCEPT !.pc = "idle"] /\ UNCHANGED <<tick, chain>> /\ FeedOK(feed)
      BY <2>2 DEF Take, FeedInv
    <3>2. feed' \in FeedRecord /\ feed'.pc = "idle" /\ feed'.pool = feed.pool
      BY <3>1 DEF FeedOK, FeedRecord
    <3>3. FeedOK(feed')
      BY <3>1, <3>2 DEF FeedOK
    <3> QED
      BY <3>1, <3>3 DEF FeedInv, PricedByItsPair
  <2>3. CASE ChainStep
    <3>1. chain' \in [Pool -> ChainRecord]
      <4>1. CASE Settle
        BY <4>1 DEF Settle, FeedInv
      <4>2. ASSUME NEW p \in Pool, NEW l \in 0..1, NEW a \in Amount, ChainMove(p, l, Holding(p, a))
            PROVE  chain' \in [Pool -> ChainRecord]
        <5>1. chain' = [chain EXCEPT ![p] = [live |-> TRUE, liquidity |-> l, amount |-> Holding(p, a)]]
          BY <4>2 DEF ChainMove
        <5>2. [live |-> TRUE, liquidity |-> l, amount |-> Holding(p, a)] \in ChainRecord
          BY DEF ChainRecord
        <5> QED
          BY <5>1, <5>2 DEF FeedInv
      <4> QED
        BY <2>3, <4>1, <4>2 DEF ChainStep
    <3>2. UNCHANGED <<feed, tick>>
      BY <2>3 DEF ChainStep, Settle, ChainMove
    <3> QED
      BY <3>1, <3>2 DEF FeedInv, PricedByItsPair
  <2>4. ASSUME UNCHANGED <<chain, feed, tick>> PROVE FeedInv'
    BY <2>4 DEF FeedInv, PricedByItsPair
  <2> QED
    BY <2>1, <2>2, <2>3, <2>4 DEF Next, LoopStep, DecideByRule, DecideNothing, CallProvider,
       ProviderFails, ProviderReplies, ReplyPanics, Interrupt, vars
<1>3. FeedInv => PricedByItsPair
  BY DEF FeedInv
<1> QED
  BY <1>1, <1>2, <1>3, PTL DEF Spec
================================================================================

---------------------------- MODULE StrategiesProofs ----------------------------
(***************************************************************************)
(* Mirrored trades, snipes and the wallets' budgets, for any trades,       *)
(* configurations, wallets and limits.                                     *)
(***************************************************************************)
EXTENDS Strategies, TLAPS

\* Orders, their routes, and the accounts of a wallet.
Order == [symbol : Symbol, side : {"buy", "sell"}, qty : Int, price : Int]
Chosen == [o : Order, wallet : Wallet, venue : {"rfq", "amm"}]
State == [tx_used : Nat, notional_used : Nat, started : Int, breached : BOOLEAN]
Spends == [count : Nat, total : Nat, age : Int]

\* Types.
TypeInv ==
    /\ copy \in CopyConfig
    /\ position \in [Symbol -> Int]
    /\ order \in SUBSET Chosen
    /\ budget \in [Wallet -> State]
    /\ now \in Int
    /\ spent \in [Wallet -> Spends]

\* An order on its way sells no more than is held, and buys no less than nothing.
Covered(o) ==
    /\ o.side = "sell" => o.qty <= position[o.symbol]
    /\ o.side = "buy" => o.qty >= 0

\* So is every order on its way.
OrdersCovered == \A j \in order : Covered(j.o)

\* The counters try_reserve compares are what the wallet has accepted.
Counted ==
    \A w \in Wallet : /\ budget[w].tx_used = spent[w].count
                      /\ budget[w].notional_used = spent[w].total

\* NeverShort needs the orders on their way, WalletWithinLimits the counters.
IInv == TypeInv /\ OrdersCovered /\ NeverShort /\ Counted /\ WalletWithinLimits

--------------------------------------------------------------------------------

\* A quantity brought under max_mirror_notional is not brought above what it was.
LEMMA CapLowers ==
    ASSUME NEW q \in Int, NEW p \in Int, NEW cap \in Int, p > 0, cap >= 0, q * p > cap
    PROVE  cap \div p \in Int /\ cap \div p <= q
<1> DEFINE d == cap \div p
<1>1. d \in Int /\ d * p <= cap
  OBVIOUS
<1> HIDE DEF d
<1>2. d * p < q * p
  BY <1>1
<1>3. ASSUME d > q PROVE FALSE
  <2>1. d >= q + 1
    BY <1>1, <1>3
  <2>2. d * p >= (q + 1) * p
    BY <1>1, <2>1
  <2> QED
    BY <1>1, <1>2, <2>2
<1> QED
  BY <1>1, <1>3 DEF d

\* Router::choose refuses a notional that is not positive: what it routes has a
\* positive quantity.
LEMMA RoutedPositive ==
    ASSUME NEW q \in Int, NEW p \in Int, p > 0, q * p > 0
    PROVE  q >= 0
  OBVIOUS

\* Division by a positive number is a number.
LEMMA Quotient == ASSUME NEW a \in Int, NEW b \in Int, b > 0 PROVE a \div b \in Int
  OBVIOUS

\* Every Sizing gives a quantity, of a trade with a positive price.
LEMMA SizedNumber ==
    ASSUME TypeInv, NEW t \in Trade, t.price > 0
    PROVE  Sized(t) \in Int
<1>0. /\ copy.sizing.kind \in {"fraction", "notional", "equity"}
      /\ copy.sizing.of \in Int /\ copy.sizing.fallback \in Int
      /\ t.qty \in Int /\ t.price \in Int
      /\ t.leader_equity \subseteq Int /\ \A e, f \in t.leader_equity : e = f
      /\ Whole \in Int /\ Whole > 0
  BY StrategiesAssumption DEF TypeInv
<1> DEFINE of == copy.sizing.of
           fallback == copy.sizing.fallback
           qty == t.qty
           price == t.price
<1>1. of \in Int /\ fallback \in Int /\ qty \in Int /\ price \in Int /\ price > 0
  BY <1>0
<1>2. CASE copy.sizing.kind = "fraction"
  <2>1. Sized(t) = (qty * of) \div Whole
    BY <1>2 DEF Sized
  <2> HIDE DEF qty, of
  <2>2. qty * of \in Int
    BY <1>1
  <2> QED
    BY <1>0, <2>1, <2>2, Quotient
<1>3. CASE copy.sizing.kind = "notional"
  <2>1. Sized(t) = of \div price
    BY <1>3 DEF Sized
  <2> HIDE DEF price, of
  <2> QED
    BY <1>1, <2>1, Quotient
<1>4. CASE copy.sizing.kind = "equity"
  <2>1. CASE \E e \in t.leader_equity : e > 0
    <3> DEFINE e == CHOOSE e \in t.leader_equity : TRUE
    <3>1. Sized(t) = (qty * of) \div e
      BY <1>4, <2>1 DEF Sized
    <3>2. e \in t.leader_equity
      BY <2>1
    <3>3. e \in Int /\ e > 0
      BY <1>0, <2>1, <3>2
    <3> HIDE DEF qty, of, e
    <3>4. qty * of \in Int
      BY <1>1
    <3> QED
      BY <3>1, <3>3, <3>4, Quotient
  <2>2. CASE ~\E e \in t.leader_equity : e > 0
    <3>1. Sized(t) = (qty * fallback) \div Whole
      BY <1>4, <2>2 DEF Sized
    <3> HIDE DEF qty, fallback
    <3>2. qty * fallback \in Int
      BY <1>1
    <3> QED
      BY <1>0, <3>1, <3>2, Quotient
  <2> QED
    BY <2>1, <2>2
<1> QED
  BY <1>0, <1>2, <1>3, <1>4

\* CopyTrader::mirror: a sell is of at most what is held, under every sizing and cap.
LEMMA MirroredCovered ==
    ASSUME TypeInv, NEW t \in Trade, NEW o \in Mirrored(t, position[t.symbol])
    PROVE  /\ o \in Order /\ o.price > 0
           /\ o.side = "sell" => o.qty <= position[o.symbol]
<1> DEFINE held == position[t.symbol]
           qty == Sellable(t, held)
<1>0. /\ t.symbol \in Symbol /\ t.side \in {"buy", "sell"} /\ t.qty \in Int /\ t.price \in Int
      /\ copy.max_mirror_notional \in Nat /\ held \in Int
  BY StrategiesAssumption DEF TypeInv
<1>1. /\ o = [symbol |-> t.symbol, side |-> t.side, qty |-> Capped(t, qty), price |-> t.price]
      /\ ~Skipped(t, held)
  BY DEF Mirrored, Some, None
<1>2. t.price > 0
  BY <1>0, <1>1 DEF Skipped
<1>3. Sized(t) \in Int
  BY <1>2, SizedNumber
<1>4. qty \in Int /\ (t.side = "sell" => qty <= held)
  <2> HIDE DEF held
  <2> QED
    BY <1>0, <1>3 DEF Sellable, Lesser
<1> HIDE DEF qty, held
<1>5. Capped(t, qty) \in Int /\ Capped(t, qty) <= qty
  <2>1. CASE qty * t.price > copy.max_mirror_notional
    <3>1. Capped(t, qty) = copy.max_mirror_notional \div t.price
      BY <2>1 DEF Capped
    <3>2. copy.max_mirror_notional \in Int /\ copy.max_mirror_notional >= 0
      BY <1>0
    <3> QED
      BY <1>0, <1>2, <1>4, <2>1, <3>1, <3>2, CapLowers
  <2>2. CASE ~(qty * t.price > copy.max_mirror_notional)
    BY <1>4, <2>2 DEF Capped
  <2> QED
    BY <2>1, <2>2
<1> DEFINE c == Capped(t, qty)
<1>6. o = [symbol |-> t.symbol, side |-> t.side, qty |-> c, price |-> t.price] /\ c \in Int /\ c <= qty
  BY <1>1, <1>5
<1> HIDE DEF c
<1>7. o \in Order /\ o.price > 0 /\ o.qty = c /\ o.side = t.side /\ o.symbol = t.symbol
  BY <1>0, <1>2, <1>6 DEF Order
<1>8. o.side = "sell" => o.qty <= held
  BY <1>0, <1>4, <1>6, <1>7
<1> QED
  BY <1>7, <1>8 DEF held

\* RugScreen::entry_order only buys.
LEMMA SnipedTyped ==
    ASSUME NEW ev \in PoolEvent, NEW price \in Price, NEW o \in Snipe(ev, price)
    PROVE  o \in Order /\ o.price > 0 /\ o.side = "buy"
<1>0. ev.symbol \in Symbol /\ Sniper.entry_notional \in Int /\ price \in Int
  BY StrategiesAssumption
<1>1. /\ o = [symbol |-> ev.symbol, side |-> "buy", qty |-> Sniper.entry_notional \div price,
              price |-> price]
      /\ price > 0
  BY DEF Snipe, Some, None
<1>2. Sniper.entry_notional \div price \in Int
  BY <1>0, <1>1, Quotient
<1> QED
  BY <1>0, <1>1, <1>2 DEF Order

--------------------------------------------------------------------------------

\* An empty portfolio and fresh budgets.
LEMMA Initially == Init => IInv
<1> SUFFICES ASSUME Init PROVE IInv
  OBVIOUS
<1>1. NewBudget(0) \in State /\ Nothing \in Spends
  BY DEF NewBudget, State, Nothing, Spends
<1>2. TypeInv
  BY <1>1 DEF Init, TypeInv, None
<1>3. OrdersCovered /\ NeverShort
  BY DEF Init, OrdersCovered, NeverShort, None
<1>4. \A w \in Wallet : budget[w] = NewBudget(0) /\ spent[w] = Nothing
  BY DEF Init
<1>5. Counted
  BY <1>4 DEF Counted, NewBudget, Nothing
<1>6. \A w \in Wallet : Entry(w).max_tx_count \in Nat /\ Entry(w).max_notional \in Nat
  BY StrategiesAssumption DEF Entry, Wallet
<1>7. WalletWithinLimits
  BY <1>4, <1>6 DEF WalletWithinLimits, Nothing
<1> QED
  BY <1>2, <1>3, <1>5, <1>7 DEF IInv

\* The limits of a wallet are numbers.
LEMMA LimitsNumbers ==
    ASSUME NEW w \in Wallet
    PROVE  Entry(w).max_tx_count \in Nat /\ Entry(w).max_notional \in Nat /\ Entry(w).max_duration \in Nat
  BY StrategiesAssumption DEF Entry, Wallet

\* A wallet's part of Counted and WalletWithinLimits.
Limits(w, b, s) ==
    /\ b.tx_used = s.count /\ b.notional_used = s.total
    /\ Entry(w).max_tx_count > 0 => s.count <= Entry(w).max_tx_count
    /\ Entry(w).max_notional > 0 => s.total <= Entry(w).max_notional
    /\ Entry(w).max_duration > 0 /\ s.count > 0 => s.age < Entry(w).max_duration

\* The wallets alone, for the steps that change one of them.
BudgetInv == /\ budget \in [Wallet -> State] /\ spent \in [Wallet -> Spends]
             /\ \A w \in Wallet : Limits(w, budget[w], spent[w])

\* One wallet's budget changes.
LEMMA OneBudget ==
    ASSUME BudgetInv, NEW w \in Wallet, NEW b \in State, NEW s \in Spends, Limits(w, b, s),
           budget' = [budget EXCEPT ![w] = b], spent' = [spent EXCEPT ![w] = s]
    PROVE  BudgetInv'
<1>1. budget' \in [Wallet -> State] /\ spent' \in [Wallet -> Spends]
  BY DEF BudgetInv
<1>2. ASSUME NEW v \in Wallet PROVE Limits(v, budget'[v], spent'[v])
  BY DEF BudgetInv
<1> QED
  BY <1>1, <1>2 DEF BudgetInv, Limits

\* WalletBudget::try_reserve: a spend is counted and stays within every limit that is
\* set, or the budget latches and nothing is counted.
LEMMA ReserveWithin ==
    ASSUME BudgetInv, now \in Int, NEW w \in Wallet, NEW n \in Int, TryReserve(w, n)
    PROVE  BudgetInv'
<1>0. /\ budget[w] \in State /\ spent[w] \in Spends /\ Limits(w, budget[w], spent[w])
      /\ budget \in [Wallet -> State] /\ spent \in [Wallet -> Spends]
  BY DEF BudgetInv
<1>1. Clamped(n) \in Nat
  BY DEF Clamped
<1>2. CASE Accepts(w, n)
  <2> DEFINE c == Clamped(n)
             b == [budget[w] EXCEPT !.tx_used = @ + 1, !.notional_used = @ + c]
             s == [count |-> spent[w].count + 1, total |-> spent[w].total + c,
                   age |-> now - budget[w].started]
  <2>1. budget' = [budget EXCEPT ![w] = b] /\ spent' = [spent EXCEPT ![w] = s]
    BY <1>0, <1>2 DEF TryReserve, State
  <2>2. /\ ~(Entry(w).max_duration > 0 /\ now - budget[w].started >= Entry(w).max_duration)
        /\ ~(Entry(w).max_tx_count > 0 /\ budget[w].tx_used >= Entry(w).max_tx_count)
        /\ ~(Entry(w).max_notional > 0 /\ budget[w].notional_used + c > Entry(w).max_notional)
    BY <1>2 DEF Accepts, Breach, OverNotional
  <2> HIDE DEF c
  <2>3. c \in Nat
    BY <1>1 DEF c
  <2>4. b \in State /\ b.tx_used = budget[w].tx_used + 1 /\ b.notional_used = budget[w].notional_used + c
    <3> DEFINE x == budget[w].tx_used + 1
               y == budget[w].notional_used + c
    <3>1. x \in Nat /\ y \in Nat
      BY <1>0, <2>3 DEF State
    <3>2. b = [budget[w] EXCEPT !.tx_used = x, !.notional_used = y]
      OBVIOUS
    <3> HIDE DEF x, y, b
    <3>3. b \in State /\ b.tx_used = x /\ b.notional_used = y
      BY <1>0, <3>1, <3>2 DEF State
    <3> QED
      BY <3>3 DEF x, y
  <2>5. s \in Spends
    BY <1>0, <2>3 DEF State, Spends
  <2>6. /\ s.count = spent[w].count + 1 /\ s.total = spent[w].total + c /\ s.age = now - budget[w].started
        /\ spent[w].count \in Nat /\ spent[w].total \in Nat /\ budget[w].started \in Int
    BY <1>0 DEF State, Spends
  <2> HIDE DEF b, s
  <2>7. Limits(w, b, s)
    BY <1>0, <2>2, <2>3, <2>4, <2>6, LimitsNumbers DEF Limits
  <2> QED
    BY <2>1, <2>4, <2>5, <2>7, OneBudget
<1>3. CASE ~Accepts(w, n)
  <2> DEFINE b == [budget[w] EXCEPT !.breached = TRUE]
  <2>1. budget' = [budget EXCEPT ![w] = b] /\ spent' = [spent EXCEPT ![w] = spent[w]]
    BY <1>0, <1>3 DEF TryReserve, State
  <2>2. b \in State /\ b.tx_used = budget[w].tx_used /\ b.notional_used = budget[w].notional_used
    BY <1>0 DEF State
  <2> HIDE DEF b
  <2>3. Limits(w, b, spent[w])
    BY <1>0, <2>2 DEF Limits
  <2> QED
    BY <1>0, <2>1, <2>2, <2>3, OneBudget
<1> QED
  BY <1>2, <1>3

\* BudgetInv is what IInv says of the wallets.
LEMMA BudgetPart ==
    BudgetInv <=> /\ budget \in [Wallet -> State] /\ spent \in [Wallet -> Spends]
                  /\ Counted /\ WalletWithinLimits
  BY Zenon DEF BudgetInv, Limits, Counted, WalletWithinLimits

--------------------------------------------------------------------------------

\* What IInv says beside the wallets.
OrderInv == /\ copy \in CopyConfig /\ position \in [Symbol -> Int] /\ order \in SUBSET Chosen
            /\ now \in Int /\ OrdersCovered /\ NeverShort

\* An order that a step builds is covered.
LEMMA TakeCovered ==
    ASSUME OrderInv, NEW o \in Order, o.price > 0,
           o.side = "sell" => o.qty <= position[o.symbol], Take(o)
    PROVE  OrderInv'
<1>1. UNCHANGED <<copy, position, now>>
  BY DEF Take
<1>2. NeverShort'
  BY <1>1 DEF OrderInv, NeverShort
<1>3. CASE order' = order
  <2>1. OrdersCovered'
    BY <1>1, <1>3 DEF OrderInv, OrdersCovered, Covered
  <2> QED
    BY <1>1, <1>2, <1>3, <2>1 DEF OrderInv
<1>4. CASE ~(Willing(o.symbol) = {} \/ Notional(o) <= 0)
  <2>1. PICK w \in Wallet : order' = {[o |-> o, wallet |-> w, venue |-> Venue(Notional(o))]}
    BY <1>4 DEF Take, Willing, Some
  <2> DEFINE j == [o |-> o, wallet |-> w, venue |-> Venue(Notional(o))]
  <2>2. Venue(Notional(o)) \in {"rfq", "amm"}
    BY DEF Venue
  <2>3. j \in Chosen /\ j.o = o
    BY <2>2 DEF Chosen
  <2>4. o.qty \in Int /\ o.price \in Int
    BY DEF Order
  <2>5. o.qty * o.price > 0
    BY <1>4, <2>4 DEF Notional
  <2>6. o.qty >= 0
    <3> DEFINE q == o.qty
               p == o.price
    <3>1. q \in Int /\ p \in Int /\ p > 0 /\ q * p > 0
      BY <2>4, <2>5
    <3> HIDE DEF q, p
    <3>2. q >= 0
      BY <3>1, RoutedPositive
    <3> QED
      BY <3>2 DEF q
  <2>7. Covered(o)'
    BY <1>1, <2>6 DEF Covered
  <2>8. OrdersCovered' /\ order' \in SUBSET Chosen
    BY <2>1, <2>3, <2>7 DEF OrdersCovered, Covered
  <2> QED
    BY <1>1, <1>2, <2>8 DEF OrderInv
<1> QED
  BY <1>3, <1>4 DEF Take

\* A covered order that fills leaves every position at zero or above.
LEMMA SettleCovered ==
    ASSUME OrderInv, Settle
    PROVE  OrderInv'
<1>1. PICK j \in order :
          /\ order' = None
          /\ position' = IF Accepts(j.wallet, Notional(j.o))
                           THEN [position EXCEPT ![j.o.symbol] =
                                   @ + (IF j.o.side = "buy" THEN j.o.qty ELSE -j.o.qty)]
                           ELSE position
          /\ UNCHANGED <<copy, orders, now>>
  BY DEF Settle
<1>2. OrdersCovered' /\ order' \in SUBSET Chosen
  BY <1>1 DEF OrdersCovered, None
<1> DEFINE o == j.o
<1>3. o \in Order /\ Covered(o) /\ position \in [Symbol -> Int]
  BY DEF OrderInv, OrdersCovered, Chosen
<1> DEFINE d == IF o.side = "buy" THEN o.qty ELSE -o.qty
<1>4. position' = position \/ position' = [position EXCEPT ![o.symbol] = @ + d]
  BY <1>1
<1> HIDE DEF o
<1>5. o.symbol \in Symbol /\ o.qty \in Int /\ o.side \in {"buy", "sell"}
  BY <1>3 DEF Order
<1>6. d \in Int /\ position[o.symbol] + d >= 0
  BY <1>3, <1>5 DEF Covered, OrderInv, NeverShort
<1> HIDE DEF d
<1>7. position' \in [Symbol -> Int] /\ NeverShort'
  BY <1>3, <1>4, <1>5, <1>6 DEF OrderInv, NeverShort
<1> QED
  BY <1>1, <1>2, <1>7 DEF OrderInv

\* IInv is inductive.
LEMMA Inductive == IInv /\ [Next]_vars => IInv'
<1> SUFFICES ASSUME IInv, [Next]_vars PROVE IInv'
  OBVIOUS
<1>0. TypeInv /\ OrderInv /\ BudgetInv
  BY BudgetPart DEF IInv, TypeInv, OrderInv
<1>1. ASSUME OrderInv', BudgetInv' PROVE IInv'
  <2>1. (budget \in [Wallet -> State] /\ spent \in [Wallet -> Spends] /\ Counted /\ WalletWithinLimits)'
    BY <1>1, BudgetPart, PTL
  <2> QED
    BY <1>1, <2>1 DEF IInv, TypeInv, OrderInv
<1>2. UNCHANGED <<budget, spent>> => BudgetInv'
  BY <1>0 DEF BudgetInv, Limits
<1>3. UNCHANGED <<copy, position, order, now>> => OrderInv'
  BY <1>0 DEF OrderInv, OrdersCovered, Covered, NeverShort
<1>4. ASSUME NEW t \in Trade, ObserveTrade(t) PROVE IInv'
  <2>1. PICK o \in Mirrored(t, position[t.symbol]) : Take(o)
    BY <1>4 DEF ObserveTrade
  <2>2. OrderInv'
    BY <1>0, <2>1, MirroredCovered, TakeCovered
  <2> QED
    BY <1>1, <1>2, <2>1, <2>2 DEF Take
<1>5. ASSUME NEW ev \in PoolEvent, NEW price \in Price, ObservePool(ev, price) PROVE IInv'
  <2>1. PICK o \in Snipe(ev, price) : Take(o)
    BY <1>5 DEF ObservePool
  <2>2. o \in Order /\ o.price > 0 /\ o.side # "sell"
    BY SnipedTyped
  <2>3. OrderInv'
    BY <1>0, <2>1, <2>2, TakeCovered
  <2> QED
    BY <1>1, <1>2, <2>1, <2>3 DEF Take
<1>6. CASE Settle
  <2>1. PICK j \in order : TryReserve(j.wallet, Notional(j.o))
    BY <1>6 DEF Settle
  <2>2. j.wallet \in Wallet /\ j.o \in Order
    BY <1>0 DEF OrderInv, Chosen
  <2>3. Notional(j.o) \in Int
    <3> DEFINE q == j.o.qty
               p == j.o.price
    <3>1. q \in Int /\ p \in Int /\ Notional(j.o) = q * p
      BY <2>2 DEF Order, Notional
    <3> HIDE DEF q, p
    <3> QED
      BY <3>1
  <2>4. BudgetInv'
    BY <1>0, <2>1, <2>2, <2>3, ReserveWithin DEF OrderInv
  <2> QED
    BY <1>0, <1>1, <1>6, <2>4, SettleCovered
<1>7. ASSUME NEW w \in Wallet, NEW n \in Spend, OtherSpend(w, n) PROVE IInv'
  <2>1. n \in Int /\ now \in Int
    BY <1>0, StrategiesAssumption DEF OrderInv
  <2>2. BudgetInv'
    BY <1>0, <1>7, <2>1, ReserveWithin DEF OtherSpend
  <2> QED
    BY <1>1, <1>3, <1>7, <2>2 DEF OtherSpend
<1>8. ASSUME NEW w \in Wallet, ResetBudget(w) PROVE IInv'
  <2>1. NewBudget(now) \in State /\ Nothing \in Spends
    BY <1>0 DEF OrderInv, NewBudget, State, Nothing, Spends
  <2>2. Limits(w, NewBudget(now), Nothing)
    BY LimitsNumbers DEF Limits, NewBudget, Nothing
  <2>3. BudgetInv'
    BY <1>0, <1>8, <2>1, <2>2, OneBudget DEF ResetBudget
  <2> QED
    BY <1>1, <1>3, <1>8, <2>3 DEF ResetBudget
<1>9. CASE Tick
  <2>1. now' \in Int /\ UNCHANGED <<copy, position, order, budget, spent>>
    BY <1>0, <1>9 DEF Tick, OrderInv
  <2>2. OrderInv'
    BY <1>0, <2>1 DEF OrderInv, OrdersCovered, Covered, NeverShort
  <2> QED
    BY <1>1, <1>2, <2>1, <2>2
<1>10. CASE UNCHANGED vars
  BY <1>1, <1>2, <1>3, <1>10 DEF vars
<1> QED
  BY <1>4, <1>5, <1>6, <1>7, <1>8, <1>9, <1>10 DEF Next

--------------------------------------------------------------------------------

\* CopyTrader::mirror keeps every position at zero or above, whatever the leaders
\* trade, under every sizing, cap and budget, with snipes in between.
THEOREM PositionsNeverShort == Spec => []NeverShort
<1>1. IInv => NeverShort
  BY DEF IInv
<1> QED
  BY <1>1, Initially, Inductive, PTL DEF Spec

\* WalletBudget::try_reserve keeps every wallet within its limits, whoever else spends
\* between the choice of a wallet and its charge, and through resets.
THEOREM WalletsWithinLimits == Spec => []WalletWithinLimits
<1>1. IInv => WalletWithinLimits
  BY DEF IInv
<1> QED
  BY <1>1, Initially, Inductive, PTL DEF Spec
================================================================================

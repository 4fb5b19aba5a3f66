------------------------------- MODULE Portfolio -------------------------------
(***************************************************************************)
(* The ledger of crates/core/src/portfolio.rs as operators on its struct.  *)
(*                                                                         *)
(* Decimals are exact: quantities and prices are whole numbers and money   *)
(* is counted in units of 1 / Unit, fine enough for what PaperExecutor     *)
(* makes of them.  Instead of avg_cost a symbol has its cost basis,        *)
(* quantity * avg_cost, which a buy adds to and a sell takes a share of;   *)
(* avg_cost is absent exactly where the quantity is zero.                  *)
(***************************************************************************)
EXTENDS Integers, FiniteSets

CONSTANT Symbol

ASSUME PortfolioAssumption == IsFiniteSet(Symbol)

\* iter().sum(): the sum of f over each part of its domain (MapThenSumSet, written as a
\* function of the part so that it can be reasoned about), and over all of it.
Sums(f) ==
    LET sum[T \in SUBSET DOMAIN f] ==
          IF T = {} THEN 0
          ELSE LET s == CHOOSE s \in T : TRUE IN f[s] + sum[T \ {s}]
    IN  sum
SumOf(f) == Sums(f)[DOMAIN f]

\* Portfolio::new.
NewPortfolio(starting) ==
    [cash |-> starting, positions |-> [s \in Symbol |-> 0],
     basis |-> [s \in Symbol |-> 0], realized_pnl |-> 0]

Held(pf) == {s \in Symbol : pf.positions[s] # 0}
OpenPositionCount(pf) == Cardinality(Held(pf))

\* equity, given the worth of one unit of each symbol (0 when no price is known).
Equity(pf, worth) == pf.cash + SumOf([s \in Symbol |-> pf.positions[s] * worth[s]])

\* unrealized_pnl: positions without a known price contribute nothing.
UnrealizedPnl(pf, worth) ==
    SumOf([s \in {s \in Held(pf) : worth[s] # 0} |-> pf.positions[s] * worth[s] - pf.basis[s]])

\* apply, for a buy: cash_delta is the price and the fee.
ApplyBuy(pf, s, qty, price, fee) ==
    [pf EXCEPT !.cash = @ - (qty * price + fee),
               !.positions[s] = @ + qty,
               !.basis[s] = @ + qty * price]

\* The part of the basis that qty of the units held carry.
BasisOf(pf, s, qty) == (pf.basis[s] * qty) \div pf.positions[s]

\* Mutant: the fee is charged to cash and not to the result.
MutApplySell(pf, s, qty, price, fee) ==
    [pf EXCEPT !.cash = @ + (qty * price - fee),
               !.positions[s] = @ - qty,
               !.basis[s] = @ - BasisOf(pf, s, qty),
               !.realized_pnl = @ + qty * price - BasisOf(pf, s, qty)]

\* apply, for a sell of no more than is held.
ApplySell(pf, s, qty, price, fee) ==
    [pf EXCEPT !.cash = @ + (qty * price - fee),
               !.positions[s] = @ - qty,
               !.basis[s] = @ - BasisOf(pf, s, qty),
               !.realized_pnl = @ + qty * price - BasisOf(pf, s, qty) - fee]
================================================================================

-------------------------------- MODULE Trading --------------------------------
(***************************************************************************)
(* What a run does to its portfolio: run_loop of crates/cli/src/runner.rs  *)
(* taking ticks, sizing a decision to an order, passing it through the     *)
(* risk gate and the PaperExecutor of crates/execution, and applying the   *)
(* fill; across runs, which resume from the snapshot and from nothing      *)
(* else.                                                                   *)
(*                                                                         *)
(* Deciders are inputs: a tick may lead to any buy worth at most the       *)
(* equity, any sell of at most the position, or nothing.  PaperExecutor's  *)
(* spread and fee are fractions in units of 1 / Whole, so with Unit =      *)
(* Whole * Whole every price and fee is a whole number of money units.     *)
(***************************************************************************)
EXTENDS RiskGate

CONSTANTS
    StartingCash,   \* [general] starting_cash, whole
    Price,          \* whole prices a tick may carry
    MaxQty,         \* bound: quantity of one order
    Spread, Fee,    \* PaperExecutor, in 1 / Whole
    Slippage,       \* Order.max_slippage that size() asks for, in 1 / Whole
    MaxFills,       \* bound: fills in all runs together
    MaxRestarts     \* bound: runs after the first

ASSUME TradingAssumption ==
    /\ StartingCash \in Nat
    /\ Price \subseteq Nat \ {0}
    /\ MaxQty \in Nat
    /\ Spread \in 0..Whole
    /\ Fee \in 0..Whole
    /\ Slippage \in Nat
    /\ MaxFills \in Nat
    /\ MaxRestarts \in Nat
    /\ Unit = Whole * Whole

VARIABLES
    portfolio,   \* the running Portfolio
    snapshot,    \* the one the next run resumes from
    latest,      \* last price seen of each symbol in this run, 0 when none
    since,       \* time since the last fill of each symbol in this run (last_order),
                 \* counted up to order_cooldown
    fills,       \* fills so far
    restarts,    \* runs after the first
    buy_fees,    \* history: fees of the buys in portfolio and in snapshot
    since_buy    \* history: like since, over buys alone

tradeVars == <<portfolio, snapshot, latest, since, fills, restarts, buy_fees, since_buy>>

Cooldown == Risk.order_cooldown

PortfolioRecord ==
    [cash : Int, positions : [Symbol -> Nat], basis : [Symbol -> Nat], realized_pnl : Int]

\* Positions are long only: a run never sells what it does not hold.
TradeTypeOK ==
    /\ portfolio \in PortfolioRecord
    /\ snapshot \in PortfolioRecord
    /\ latest \in [Symbol -> Nat]
    /\ since \in [Symbol -> 0..Cooldown]
    /\ fills \in Nat /\ restarts \in Nat
    /\ buy_fees \in [running : Nat, saved : Nat]
    /\ since_buy \in [Symbol -> 0..Cooldown]

TradeInit ==
    /\ portfolio = NewPortfolio(StartingCash * Unit)
    /\ snapshot = portfolio
    /\ latest = [s \in Symbol |-> 0]
    /\ since = [s \in Symbol |-> Cooldown]
    /\ fills = 0
    /\ restarts = 0
    /\ buy_fees = [running |-> 0, saved |-> 0]
    /\ since_buy = [s \in Symbol |-> Cooldown]

--------------------------------------------------------------------------------
(* Helpers *)

\* price_of once the tick's price has been inserted.
Mark(s, p) == [latest EXCEPT ![s] = p]
Worth(mark) == [s \in Symbol |-> mark[s] * Unit]

\* size: a limit order at the tick's price.
SizedOrder(s, side, qty, p) ==
    [symbol |-> s, side |-> side, qty |-> qty, price |-> p, max_slippage |-> Slippage]

Context(s, mark) ==
    [pf |-> portfolio, equity |-> Equity(portfolio, Worth(mark)),
     unrealized |-> UnrealizedPnl(portfolio, Worth(mark)), since |-> since[s]]

\* PaperExecutor::execute: the price beside the mid by the spread, the fee on that,
\* and a refusal when that is further from the limit than the order tolerates.
ExecPrice(side, p) == p * (IF side = "buy" THEN Whole + Spread ELSE Whole - Spread) * Whole
ExecFee(side, qty, p) == qty * p * (IF side = "buy" THEN Whole + Spread ELSE Whole - Spread) * Fee
ExecAccepts(o) == Spread <= o.max_slippage

Accepted(o, mark) == Check(o, Context(o.symbol, mark)) /\ ExecAccepts(o)

--------------------------------------------------------------------------------
(* A tick of the run loop *)

\* A tick that ends in no fill: Hold, nothing to size, rejected by gate or executor.
TickOnly(s, p) ==
    /\ latest' = Mark(s, p)
    /\ UNCHANGED <<portfolio, snapshot, since, fills, restarts, buy_fees, since_buy>>

\* A buy that fills, and what it does to the portfolio.
BuyFill(s, p, qty) ==
    /\ fills < MaxFills
    /\ qty * p * Unit <= Equity(portfolio, Worth(Mark(s, p)))
    /\ Accepted(SizedOrder(s, "buy", qty, p), Mark(s, p))
    /\ portfolio' = ApplyBuy(portfolio, s, qty, ExecPrice("buy", p), ExecFee("buy", qty, p))
    /\ buy_fees' = [buy_fees EXCEPT !.running = @ + ExecFee("buy", qty, p)]
    /\ latest' = Mark(s, p)
    /\ fills' = fills + 1

Buy(s, p, qty) ==
    /\ BuyFill(s, p, qty)
    /\ since' = [since EXCEPT ![s] = 0]
    /\ since_buy' = [since_buy EXCEPT ![s] = 0]
    /\ UNCHANGED <<snapshot, restarts>>

\* size: a fraction of the position.  Bound: splits that leave a whole basis.
Sellable(s, qty) ==
    /\ portfolio.positions[s] > 0 /\ qty <= portfolio.positions[s]
    /\ (portfolio.basis[s] * qty) % portfolio.positions[s] = 0

SellFill(s, p, qty) ==
    /\ fills < MaxFills
    /\ Sellable(s, qty)
    /\ Accepted(SizedOrder(s, "sell", qty, p), Mark(s, p))
    /\ portfolio' = ApplySell(portfolio, s, qty, ExecPrice("sell", p), ExecFee("sell", qty, p))
    /\ latest' = Mark(s, p)
    /\ fills' = fills + 1

Sell(s, p, qty) ==
    /\ SellFill(s, p, qty)
    /\ since' = [since EXCEPT ![s] = 0]
    /\ UNCHANGED <<snapshot, restarts, buy_fees, since_buy>>

\* Time passes.
Pass ==
    /\ since' = [s \in Symbol |-> IF since[s] < Cooldown THEN since[s] + 1 ELSE since[s]]
    /\ since_buy' = [s \in Symbol |->
                       IF since_buy[s] < Cooldown THEN since_buy[s] + 1 ELSE since_buy[s]]
    /\ UNCHANGED <<portfolio, snapshot, latest, fills, restarts, buy_fees>>

--------------------------------------------------------------------------------
(* From one run to the next *)

\* A run ends cleanly, saving its portfolio, and the next one resumes from it.
Resume ==
    /\ restarts < MaxRestarts
    /\ restarts' = restarts + 1
    /\ snapshot' = portfolio
    /\ buy_fees' = [buy_fees EXCEPT !.saved = buy_fees.running]
    /\ latest' = [s \in Symbol |-> 0]
    /\ since' = [s \in Symbol |-> Cooldown]
    /\ since_buy' = since'
    /\ UNCHANGED <<portfolio, fills>>

\* A run dies and the next one resumes from what an earlier one saved.
Recover ==
    /\ restarts < MaxRestarts
    /\ restarts' = restarts + 1
    /\ portfolio' = snapshot
    /\ buy_fees' = [buy_fees EXCEPT !.running = buy_fees.saved]
    /\ latest' = [s \in Symbol |-> 0]
    /\ since' = [s \in Symbol |-> Cooldown]
    /\ since_buy' = since'
    /\ UNCHANGED <<snapshot, fills>>

TradeNext ==
    \/ \E s \in Symbol, p \in Price : TickOnly(s, p)
    \/ \E s \in Symbol, p \in Price, qty \in 1..MaxQty : Buy(s, p, qty) \/ Sell(s, p, qty)
    \/ Pass
    \/ Resume
    \/ Recover

TradeSpec == TradeInit /\ [][TradeNext]_tradeVars

--------------------------------------------------------------------------------
(* Properties *)

\* No money appears or disappears: over any sequence of buys, partial sells and
\* resumed runs, cash and cost basis account for the starting cash, the realized
\* result and the fees of the buys.
LedgerBalances ==
    portfolio.cash + SumOf(portfolio.basis) =
        StartingCash * Unit + portfolio.realized_pnl - buy_fees.running

\* The gate checks a buy against the cash at the limit price, but it fills above it
\* and pays a fee: cash may go below zero, by no more than that excess on one order
\* of the largest size.
Excess == (Whole + Spread) * (Whole + Fee) - Unit
OverdraftBounded == portfolio.cash >= -(Risk.max_order_notional * Excess)

\* Two buys of one symbol in one run are at least the cooldown apart (risk.rs:38),
\* whatever sells come between; last_order does not survive the run.
BuysSeparated ==
    [][\A s \in Symbol :
          restarts' = restarts /\ portfolio'.positions[s] > portfolio.positions[s] =>
              since_buy[s] >= Cooldown]_tradeVars
================================================================================

-------------------------------- MODULE Backtest --------------------------------
(***************************************************************************)
(* sherwood backtest beside sherwood run: the same run_loop with an empty  *)
(* portfolio, no store and no cooldown, and a Recording from which         *)
(* crates/cli/src/backtest.rs computes its report.  The report keeps books *)
(* of its own, by average cost with the fees in it, where Portfolio leaves *)
(* the fees of buys out of the cost.                                       *)
(*                                                                         *)
(* A backtest is driven by the RuleDecider of crates/decision/src/lib.rs   *)
(* or by an AI, which may propose anything.  Rates are in units of         *)
(* 1 / Whole.  A feed may end after any tick, so the report is kept up to  *)
(* date with every fill instead of being folded over them at the end.      *)
(***************************************************************************)
EXTENDS Trading

CONSTANT Rule   \* RuleConfig: entry_momentum, take_profit, stop_loss

ASSUME RuleAssumption ==
    Rule.entry_momentum \in Int /\ Rule.take_profit \in Int /\ Rule.stop_loss \in Int

VARIABLES
    command,   \* "run", or a "backtest"
    decider,   \* general.decider
    book,      \* per symbol, the Book of the report: quantity and cost
    report     \* gross_profit, gross_loss and how many trades were closed

replayVars == <<command, decider, book, report>>
unreplayed == <<snapshot, restarts, since, since_buy, command, decider>>

ReplayInit ==
    /\ TradeInit
    /\ command \in {"run", "backtest"}
    /\ decider \in {"rule", "ai"}
    /\ command = "run" => decider = "ai"   \* a run's decider is an input: anything
    /\ book = [s \in Symbol |-> [qty |-> 0, cost |-> 0]]
    /\ report = [profit |-> 0, loss |-> 0, closed |-> 0]

--------------------------------------------------------------------------------
(* RuleDecider::decide; the loop reports ample liquidity, and as 24h change the
   change since the symbol's last tick *)

Momentum(s, p) ==
    IF latest[s] > 0 THEN (p - latest[s]) * Whole >= Rule.entry_momentum * latest[s]
    ELSE 0 >= Rule.entry_momentum

\* The return on the average cost of the position.
Gain(s, p) == p * Unit * portfolio.positions[s] - portfolio.basis[s]

TakesProfit(s, p) == Gain(s, p) * Whole >= Rule.take_profit * portfolio.basis[s]
StopsLoss(s, p) == Gain(s, p) * Whole <= Rule.stop_loss * portfolio.basis[s]

RuleDecision(s, p) ==
    CASE portfolio.positions[s] > 0 ->
           IF portfolio.basis[s] > 0 /\ (TakesProfit(s, p) \/ StopsLoss(s, p)) THEN "sell" ELSE "hold"
      [] OTHER -> IF Momentum(s, p) THEN "buy" ELSE "hold"

--------------------------------------------------------------------------------
(* closed_trade_pnls, one fill at a time *)

\* Mutant: the fee of a buy is left out of the cost, as Portfolio does.
MutBooked(s, qty, price, fee) == [book EXCEPT ![s].qty = @ + qty, ![s].cost = @ + qty * price]

\* A buy.
Booked(s, qty, price, fee) == [book EXCEPT ![s].qty = @ + qty, ![s].cost = @ + qty * price + fee]

\* A sell closes the part of the book it covers, at that part of the cost.
ClosedQty(s, qty) == IF qty < book[s].qty THEN qty ELSE book[s].qty
ClosedBasis(s, qty) == (book[s].cost * ClosedQty(s, qty)) \div book[s].qty

Pnl(s, qty, price, fee) == ClosedQty(s, qty) * price - fee - ClosedBasis(s, qty)

Closed(s, qty) ==
    [book EXCEPT ![s].qty = @ - ClosedQty(s, qty), ![s].cost = @ - ClosedBasis(s, qty)]

\* analyze: wins and losses are summed apart.
Analyzed(pnl) ==
    [report EXCEPT !.profit = IF pnl > 0 THEN @ + pnl ELSE @,
                   !.loss = IF pnl < 0 THEN @ + pnl ELSE @,
                   !.closed = @ + 1]

--------------------------------------------------------------------------------
(* A tick of the replay; no cooldown, so no time between orders *)

ReplayHold(s, p) ==
    /\ decider = "rule" /\ RuleDecision(s, p) = "sell" =>
          ~Accepted(SizedOrder(s, "sell", portfolio.positions[s], p), Mark(s, p))
    /\ latest' = Mark(s, p)
    /\ UNCHANGED <<portfolio, fills, buy_fees, book, report, unreplayed>>

ReplayBuy(s, p, qty) ==
    /\ decider = "rule" => RuleDecision(s, p) = "buy"
    /\ BuyFill(s, p, qty)
    /\ book' = Booked(s, qty, ExecPrice("buy", p), ExecFee("buy", qty, p))
    /\ UNCHANGED <<report, unreplayed>>

\* Bound: splits that leave a whole cost.
ReplaySell(s, p, qty) ==
    /\ decider = "rule" => RuleDecision(s, p) = "sell" /\ qty = portfolio.positions[s]
    /\ SellFill(s, p, qty)
    /\ book[s].qty > 0 /\ (book[s].cost * qty) % book[s].qty = 0
    /\ report' = Analyzed(Pnl(s, qty, ExecPrice("sell", p), ExecFee("sell", qty, p)))
    /\ book' = Closed(s, qty)
    /\ UNCHANGED <<buy_fees, unreplayed>>

Replay ==
    \E s \in Symbol, p \in Price :
        \/ ReplayHold(s, p)
        \/ \E qty \in 1..MaxQty : ReplayBuy(s, p, qty) \/ ReplaySell(s, p, qty)

ReplayNext ==
    \/ command = "run" /\ TradeNext /\ UNCHANGED replayVars
    \/ command = "backtest" /\ Replay

ReplaySpec == ReplayInit /\ [][ReplayNext]_<<tradeVars, replayVars>>

--------------------------------------------------------------------------------
(* Properties *)

\* The report accounts for the whole return: whatever was bought, sold in part or still
\* held when the feed ends, the change of the equity is what the closed trades won and
\* lost and what the open ones are worth above their cost.  With RuleDecider, which
\* sells all it holds, every closed trade is one buy and one sell.
ReportReconciles ==
    command = "backtest" =>
        /\ Equity(portfolio, Worth(latest)) - StartingCash * Unit =
              report.profit + report.loss
              + SumOf([s \in Symbol |-> book[s].qty * latest[s] * Unit - book[s].cost])
        /\ decider = "rule" => fills = 2 * report.closed + OpenPositionCount(portfolio)
================================================================================

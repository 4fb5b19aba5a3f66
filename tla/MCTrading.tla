------------------------------- MODULE MCTrading -------------------------------
EXTENDS Backtest, TLC

\* Limits that a few orders reach: one order can spend all the cash, one symbol may
\* be open at a time, and two units bought low are worth more than an order may be.
MCRisk == [max_order_notional |-> 4, max_position_fraction |-> 10,
           max_daily_loss |-> 2, max_unrealized_loss |-> 3,
           max_open_positions |-> 1, order_cooldown |-> 2, max_slippage |-> 2,
           allowlist |-> {}, denylist |-> {}, kill_switch |-> FALSE]
MCPrice == {1, 2, 3}

\* A rise or fall of one is a signal.
MCRule == [entry_momentum |-> 3, take_profit |-> 2, stop_loss |-> -1]
================================================================================

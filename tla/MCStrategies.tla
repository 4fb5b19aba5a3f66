------------------------------ MODULE MCStrategies ------------------------------
EXTENDS Strategies

\* One wallet with all three limits, one that trades anything, once.
MCWallets ==
    <<[name |-> "main", key_ref |-> "vault", allowed_symbols |-> {"NVDA"},
       max_tx_count |-> 2, max_notional |-> 6, max_duration |-> 1],
      [name |-> "spare", key_ref |-> "vault", allowed_symbols |-> {},
       max_tx_count |-> 1, max_notional |-> 0, max_duration |-> 0]>>

MCRouter == [rfq_min_notional |-> Some(4), rfq_available |-> TRUE]

Following(sizing) ==
    [leaders |-> {"whale"}, sizing |-> sizing, min_leader_notional |-> 2,
     max_mirror_notional |-> 4, mirror_unheld_sells |-> FALSE]

MCCopyConfig ==
    {Following([kind |-> "fraction", of |-> 1, fallback |-> 0]),
     Following([kind |-> "notional", of |-> 4, fallback |-> 0]),
     [Following([kind |-> "equity", of |-> 8, fallback |-> 1])
        EXCEPT !.mirror_unheld_sells = TRUE]}

LeaderTrade(leader, symbol, side, qty, price, equity) ==
    [leader |-> leader, symbol |-> symbol, side |-> side, qty |-> qty, price |-> price,
     leader_equity |-> equity]

MCTrade ==
    {LeaderTrade("whale", "NVDA", "buy", 4, 2, Some(16)),
     LeaderTrade("whale", "NVDA", "sell", 8, 1, None),
     LeaderTrade("whale", "NVDA", "sell", 2, 2, Some(4)),
     LeaderTrade("whale", "NEW", "sell", 4, 1, Some(0)),
     LeaderTrade("whale", "NVDA", "buy", 1, 1, None),
     LeaderTrade("minnow", "NVDA", "buy", 4, 2, None)}

MCSniper ==
    [min_initial_liquidity |-> 5, max_deployer_supply_fraction |-> 1,
     require_lp_locked |-> TRUE, min_lp_lock_secs |-> 30, reject_if_mintable |-> TRUE,
     reject_if_freezable |-> TRUE, max_tax |-> 1, entry_notional |-> 2]

CleanPool ==
    [symbol |-> "NEW", initial_liquidity |-> 5, deployer_supply_fraction |-> 1,
     lp_locked |-> TRUE, lp_lock_secs |-> 30, mint_enabled |-> FALSE, can_freeze |-> FALSE,
     buy_tax |-> None, sell_tax |-> Some(1)]

\* A clean pool, and one that each check of the screen refuses.
MCPoolEvent ==
    {CleanPool,
     [CleanPool EXCEPT !.initial_liquidity = 4],
     [CleanPool EXCEPT !.deployer_supply_fraction = 2],
     [CleanPool EXCEPT !.lp_locked = FALSE],
     [CleanPool EXCEPT !.lp_lock_secs = 29],
     [CleanPool EXCEPT !.mint_enabled = TRUE],
     [CleanPool EXCEPT !.can_freeze = TRUE],
     [CleanPool EXCEPT !.sell_tax = Some(2)]}

MCPrice == {0, 1, 2}
MCSpend == {-1, 3}
================================================================================

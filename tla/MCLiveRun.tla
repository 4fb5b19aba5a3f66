------------------------------- MODULE MCLiveRun -------------------------------
EXTENDS LiveRun

\* NVDA sorts before the denominator and AMD after it; the last pool is of NVDA and
\* something else.
MCSymbols == <<"NVDA", "AMD">>
MCPool == {[currency0 |-> "NVDA", currency1 |-> "USDG", fee |-> 1],
           [currency0 |-> "USDG", currency1 |-> "AMD", fee |-> 1],
           [currency0 |-> "NVDA", currency1 |-> "USDG", fee |-> 2],
           [currency0 |-> "NVDA", currency1 |-> "WETH", fee |-> 1]}

MCAi == [base_url |-> "http", model |-> "other", api_key |-> "vault", temperature |-> 0,
         max_tokens |-> 300, max_calls_per_run |-> 2, request_timeout_secs |-> 20,
         universe |-> {"NVDA"}]

MCReply ==
    {[json |-> FALSE, action |-> "hold", fraction |-> None, wide |-> FALSE],
     [json |-> TRUE, action |-> "buy", fraction |-> Some(2), wide |-> FALSE],
     [json |-> TRUE, action |-> "sell", fraction |-> Some(3), wide |-> FALSE],
     [json |-> TRUE, action |-> "buy", fraction |-> None, wide |-> FALSE],
     [json |-> TRUE, action |-> "hold", fraction |-> None, wide |-> TRUE]}
================================================================================

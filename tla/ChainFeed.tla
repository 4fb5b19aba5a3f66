------------------------------- MODULE ChainFeed -------------------------------
(***************************************************************************)
(* ChainFeed::next_tick of crates/chain/src/feed.rs over the pool          *)
(* discovery and quoting of crates/chain/src/univ4.rs, against a chain     *)
(* that changes and a node that fails between any two requests.            *)
(*                                                                         *)
(* The chain is external.  A pool holds an amount of each of its two       *)
(* currencies; what it reports (sqrtPriceX96) is the amount of currency1   *)
(* per currency0, a price is a pair <<numerator, denominator>>, and a      *)
(* block number is the set of pools initialised by then.  An amount of 0   *)
(* stands for a ratio below the precision of the conversion.               *)
(*                                                                         *)
(* A request has a timeout (HttpClient::new), so every one ends, in an     *)
(* answer or in an error; the feed treats all errors alike.                *)
(***************************************************************************)
EXTENDS AppConfig, FiniteSets

CONSTANTS
    Symbols,      \* chain.symbols, a sequence of token addresses
    Denom,        \* chain.denom
    Pool,         \* pools there can be, [currency0, currency1, fee]
    Amount,       \* amounts of currency1 a pool may hold
    MaxRetries,   \* ChainFeedConfig.max_retries
    MaxMoves      \* bound: changes of the chain

ASSUME FeedAssumption ==
    /\ Symbols \in Seq(STRING)
    /\ ChainValid([enabled |-> TRUE, symbols |-> Symbols, rpc_url |-> "http",
                   poll_interval_secs |-> 15])
    /\ MaxRetries \in Nat
    /\ MaxMoves \in Nat
    /\ Amount \subseteq Nat

VARIABLES
    chain,    \* per pool, what the chain knows of it
    node,     \* "flaky", or "steady" once every request is answered for good
    moves,    \* changes of the chain so far
    feed,     \* the ChainFeed and the read it is in
    tick      \* history: the last tick, and what it was read from

chainVars == <<chain, node, moves>>
feedVars == <<feed, tick>>

NoPool == [currency0 |-> "", currency1 |-> "", fee |-> 0]
NotRead == [at |-> 0]

--------------------------------------------------------------------------------
(* The chain (external) *)

\* What a pool holds: some of currency1 for each unit of currency0.
Holding(p, a) == [c \in {p.currency0, p.currency1} |-> IF c = p.currency0 THEN 1 ELSE a]

Initialised == {p \in Pool : chain[p].live}

\* A pool is initialised, or its liquidity or its amounts change.
ChainMove(p, liquidity, amount) ==
    /\ node = "flaky" /\ moves < MaxMoves
    /\ chain' = [chain EXCEPT ![p] = [live |-> TRUE, liquidity |-> liquidity, amount |-> amount]]
    /\ moves' = moves + 1
    /\ UNCHANGED <<node, feed, tick>>

Quotable(p) == chain[p].live /\ chain[p].liquidity > 0

\* From here on the node answers, and every symbol can be priced.
Settle ==
    /\ node = "flaky"
    /\ \A i \in DOMAIN Symbols : \E p \in Pool :
          {p.currency0, p.currency1} = {Symbols[i], Denom} /\ Quotable(p)
    /\ \A p \in Pool : \A c \in DOMAIN chain[p].amount : chain[p].amount[c] > 0
    /\ node' = "steady"
    /\ UNCHANGED <<chain, moves, feed, tick>>

--------------------------------------------------------------------------------
(* Discovery and quoting *)

\* Mutant: discover_pools, which constrains the token alone.
MutMatches(p, token) == token \in {p.currency0, p.currency1}

\* The two filters of discover_pools_for_pair.
Matches(p, token) ==
    \/ p.currency0 = token /\ p.currency1 = Denom
    \/ p.currency0 = Denom /\ p.currency1 = token

\* quote_pool: currency1 per currency0, inverted when the token is currency1.
Quote(p, token) ==
    LET per0 == <<chain[p].amount[p.currency1], chain[p].amount[p.currency0]>>
    IN  IF p.currency0 = token THEN per0 ELSE <<per0[2], per0[1]>>

\* A zero price is an error of the inversion, and a price of its own otherwise.
QuoteFails(p, token) == p.currency0 # token /\ chain[p].amount[p.currency1] = 0

\* rank_by_liquidity and the choice of the first.
Deepest(ranked) == {r \in ranked : \A q \in ranked : q.liquidity <= r.liquidity}

--------------------------------------------------------------------------------
(* next_tick *)

Idle == [pc |-> "idle", idx |-> 0, i |-> 0, pool |-> [i \in DOMAIN Symbols |-> NoPool],
         attempt |-> 0, chosen |-> NoPool, found |-> {}, ranked |-> {}, deadline |-> FALSE]

FeedInit ==
    /\ chain = [p \in Pool |-> [live |-> FALSE, liquidity |-> 0, amount |-> Holding(p, 1)]]
    /\ node = "flaky"
    /\ moves = 0
    /\ feed = Idle
    /\ tick = NotRead

Token == Symbols[feed.i]

\* The top of read_one's loop: with the cached pool of the symbol, or in search of one.
Try(f) ==
    [f EXCEPT !.pc = IF f.pool[f.i] = NoPool THEN "head" ELSE "quote",
              !.chosen = f.pool[f.i], !.found = {}, !.ranked = {}]

\* Mutant: the last symbol is read again and again.
MutAdvance(i) == IF i < Len(Symbols) THEN i ELSE Len(Symbols) - 1

\* (idx + 1) % len.
Advance(i) == i % Len(Symbols)

\* The call, with wait_for_cycle at the start of every round but the first.
NextTick ==
    /\ feed.pc = "idle"
    /\ LET called == [feed EXCEPT !.i = feed.idx + 1, !.idx = Advance(feed.idx + 1),
                                  !.deadline = @ \/ feed.idx = 0, !.attempt = 0]
       IN  feed' = IF feed.idx = 0 /\ feed.deadline THEN [called EXCEPT !.pc = "cycle"]
                   ELSE Try(called)
    /\ UNCHANGED <<tick, chain, node, moves>>

\* An error in the loop: back off, or past max_retries sleep longer and count anew.
Failed(f) ==
    [f EXCEPT !.pc = "asleep", !.attempt = IF @ + 1 > MaxRetries THEN 0 ELSE @ + 1]

\* The end of wait_for_cycle's sleep, of a backoff or of the long sleep.
Wake ==
    /\ feed.pc \in {"cycle", "asleep"}
    /\ feed' = Try(feed)
    /\ UNCHANGED <<tick, chain, node, moves>>

\* Any request but a getLiquidity fails.
RequestFails ==
    /\ node = "flaky" /\ feed.pc \in {"head", "scan", "quote"}
    /\ feed' = Failed(feed)
    /\ UNCHANGED <<tick, chain, node, moves>>

\* eth_blockNumber, the last block of the scan.
ReadHead ==
    /\ feed.pc = "head"
    /\ feed' = [feed EXCEPT !.pc = "scan", !.found = {p \in Initialised : Matches(p, Token)}]
    /\ UNCHANGED <<tick, chain, node, moves>>

\* Both eth_getLogs: no pool is an error.
Scanned ==
    /\ feed.pc = "scan"
    /\ feed' = IF feed.found = {} THEN Failed(feed) ELSE [feed EXCEPT !.pc = "rank"]
    /\ UNCHANGED <<tick, chain, node, moves>>

\* getLiquidity of one candidate: one that is empty, or cannot be read, is dropped.
Rank(p) ==
    /\ feed.pc = "rank" /\ p \in feed.found
    /\ feed' = [feed EXCEPT !.found = @ \ {p},
                            !.ranked = IF chain[p].liquidity = 0 THEN @
                                       ELSE @ \cup {[pool |-> p, liquidity |-> chain[p].liquidity]}]
    /\ UNCHANGED <<tick, chain, node, moves>>

RankFails(p) ==
    /\ node = "flaky" /\ feed.pc = "rank" /\ p \in feed.found
    /\ feed' = [feed EXCEPT !.found = @ \ {p}]
    /\ UNCHANGED <<tick, chain, node, moves>>

\* find_best_pool returns the deepest, or an error when none is left.
Ranked ==
    /\ feed.pc = "rank" /\ feed.found = {}
    /\ IF feed.ranked = {} THEN feed' = Failed(feed)
       ELSE \E r \in Deepest(feed.ranked) :
              feed' = [feed EXCEPT !.pc = "quote", !.chosen = r.pool]
    /\ UNCHANGED <<tick, chain, node, moves>>

\* getSlot0: the read returns, and only now the pool is remembered.
ReadQuote ==
    /\ feed.pc = "quote" /\ ~QuoteFails(feed.chosen, Token)
    /\ tick' = [at |-> feed.i, price |-> Quote(feed.chosen, Token), pool |-> feed.chosen,
                amount |-> chain[feed.chosen].amount]
    /\ feed' = [feed EXCEPT !.pc = "ready", !.pool[feed.i] = feed.chosen,
                            !.chosen = NoPool, !.found = {}, !.ranked = {}]
    /\ UNCHANGED chainVars

ZeroQuote ==
    /\ feed.pc = "quote" /\ QuoteFails(feed.chosen, Token)
    /\ feed' = Failed(feed)
    /\ UNCHANGED <<tick, chain, node, moves>>

FeedStep ==
    \/ NextTick \/ Wake \/ RequestFails \/ ReadHead \/ Scanned \/ Ranked
    \/ ReadQuote \/ ZeroQuote
    \/ \E p \in Pool : Rank(p) \/ RankFails(p)

ChainStep ==
    \/ Settle
    \/ \E p \in Pool, l \in 0..1, a \in Amount : ChainMove(p, l, Holding(p, a))

--------------------------------------------------------------------------------
(* Properties *)

\* A tick is priced by a pool of exactly its token and the denominator, and says how
\* much of the denominator the pool held per unit of the token, whichever of the two
\* is currency0 and whatever failed, moved or was tried before (univ4.rs:217 tells of
\* a token priced by a pool of something else).
PricedByItsPair ==
    tick # NotRead =>
        LET token == Symbols[tick.at]
        IN  /\ {tick.pool.currency0, tick.pool.currency1} = {token, Denom}
            /\ tick.price = <<tick.amount[Denom], tick.amount[token]>>
================================================================================

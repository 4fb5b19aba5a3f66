------------------------------- MODULE Strategies -------------------------------
(***************************************************************************)
(* The order sources and the order path that sherwood's crates offer       *)
(* beside the run loop's deciders: CopyTrader::mirror (crates/copytrade),  *)
(* RugScreen::entry_order (crates/sniper), the wallets with their spending *)
(* budgets (crates/wallets) and the venue router (crates/router).  An      *)
(* order is built, a wallet and a venue are chosen for it as LivePreview   *)
(* of crates/cli/src/runner.rs chooses them, the wallet's budget is        *)
(* charged and the fill reaches the ledger, one order at a time; other     *)
(* users of the wallets spend meanwhile.  The caller that joins these      *)
(* steps is the binary a user builds: the repository has none.             *)
(*                                                                         *)
(* Fractions are in units of 1 / Whole.  Decimal division is exact here:   *)
(* the trades and settings of a run divide evenly.                         *)
(***************************************************************************)
EXTENDS AppConfig, FiniteSets

CONSTANTS
    Symbol,
    Wallets,      \* the [[wallets]] array
    Router,       \* RouterConfig
    CopyConfig,   \* the CopyConfigs a run may have
    Trade,        \* leader trades that may be observed
    Sniper,       \* SniperConfig
    PoolEvent,    \* new pools that may be seen
    Price,        \* prices a new pool may be entered at
    Spend,        \* what another user of a wallet may ask for
    Whole,        \* parts a fraction is counted in
    MaxOrders,    \* bound: orders ever built
    MaxSpends,    \* bound: spends accepted on one wallet between two resets
    MaxTime       \* bound: the clock

Wallet == {Wallets[i].name : i \in DOMAIN Wallets}
Entry(w) == Wallets[CHOOSE i \in DOMAIN Wallets : Wallets[i].name = w]

ASSUME StrategiesAssumption ==
    /\ WalletsValid(Wallets)
    /\ RouterValid(Router)
    /\ Whole \in Nat \ {0}
    /\ \A i \in DOMAIN Wallets : /\ Wallets[i].max_tx_count \in Nat
                                 /\ Wallets[i].max_notional \in Nat
                                 /\ Wallets[i].max_duration \in Nat
    /\ \A c \in CopyConfig : /\ c.max_mirror_notional \in Nat /\ c.min_leader_notional \in Nat
                             /\ c.sizing.kind \in {"fraction", "notional", "equity"}
                             /\ c.sizing.of \in Int /\ c.sizing.fallback \in Int
    /\ \A t \in Trade : /\ t.symbol \in Symbol /\ t.side \in {"buy", "sell"}
                        /\ t.qty \in Int /\ t.price \in Int
                        /\ t.leader_equity \subseteq Int
                        /\ \A e, f \in t.leader_equity : e = f   \* an Option
    /\ \A ev \in PoolEvent : ev.symbol \in Symbol
    /\ Sniper.entry_notional \in Int
    /\ Price \subseteq Int /\ Spend \subseteq Int

VARIABLES
    copy,       \* the CopyTrader's configuration
    position,   \* what is held of each symbol
    order,      \* the order on its way, with its wallet and venue: a set of at most one
    orders,     \* CopyTrader.seq and the snipes: orders built
    budget,     \* per wallet, the State of its WalletBudget
    now,        \* the clock
    spent       \* history: per wallet, how many spends it accepted since it was last
                \* reset, what they came to and how old the wallet was at the last

vars == <<copy, position, order, orders, budget, now, spent>>

Nothing == [count |-> 0, total |-> 0, age |-> 0]
NewBudget(t) == [tx_used |-> 0, notional_used |-> 0, started |-> t, breached |-> FALSE]

Init ==
    /\ copy \in CopyConfig
    /\ position = [s \in Symbol |-> 0]
    /\ order = None
    /\ orders = 0
    /\ budget = [w \in Wallet |-> NewBudget(0)]
    /\ now = 0
    /\ spent = [w \in Wallet |-> Nothing]

--------------------------------------------------------------------------------
(* CopyTrader::mirror *)

Lesser(a, b) == IF a < b THEN a ELSE b

\* UnknownLeader, ZeroQuantity, BelowMinNotional, UnheldSell.
Skipped(t, held) ==
    \/ t.leader \notin copy.leaders
    \/ t.qty <= 0 \/ t.price <= 0
    \/ t.qty * t.price < copy.min_leader_notional
    \/ t.side = "sell" /\ held <= 0 /\ ~copy.mirror_unheld_sells

\* The three Sizings; a leader of unknown equity is followed by the fallback fraction.
Sized(t) ==
    CASE copy.sizing.kind = "fraction" -> (t.qty * copy.sizing.of) \div Whole
      [] copy.sizing.kind = "notional" -> copy.sizing.of \div t.price
      [] copy.sizing.kind = "equity" ->
           IF \E e \in t.leader_equity : e > 0
             THEN (t.qty * copy.sizing.of) \div (CHOOSE e \in t.leader_equity : TRUE)
             ELSE (t.qty * copy.sizing.fallback) \div Whole

\* Mutant: a sell is sized like a buy.
MutSellable(t, held) == Sized(t)

\* Never more than is held.
Sellable(t, held) == IF t.side = "sell" THEN Lesser(Sized(t), held) ELSE Sized(t)

\* The order's quantity under max_mirror_notional.
Capped(t, qty) ==
    IF qty * t.price > copy.max_mirror_notional THEN copy.max_mirror_notional \div t.price ELSE qty

\* The order mirror makes of a trade, if it makes one.
Mirrored(t, held) ==
    LET qty == Sellable(t, held)
    IN  IF Skipped(t, held) \/ (t.side = "sell" /\ qty <= 0)
          THEN None
          ELSE Some([symbol |-> t.symbol, side |-> t.side, qty |-> Capped(t, qty), price |-> t.price])

--------------------------------------------------------------------------------
(* RugScreen *)

\* A tax that is not known counts as none.
Tax(ev) == LET known == ev.buy_tax \cup ev.sell_tax \cup {0}
           IN  CHOOSE t \in known : \A u \in known : u <= t

\* screen: no flag is raised.
Clean(ev) ==
    /\ ev.initial_liquidity >= Sniper.min_initial_liquidity
    /\ ev.deployer_supply_fraction <= Sniper.max_deployer_supply_fraction
    /\ Sniper.require_lp_locked => ev.lp_locked
    /\ ev.lp_locked => ev.lp_lock_secs >= Sniper.min_lp_lock_secs
    /\ ~(Sniper.reject_if_mintable /\ ev.mint_enabled)
    /\ ~(Sniper.reject_if_freezable /\ ev.can_freeze)
    /\ Tax(ev) <= Sniper.max_tax

\* entry_order.
Snipe(ev, price) ==
    IF Clean(ev) /\ price > 0
      THEN Some([symbol |-> ev.symbol, side |-> "buy", qty |-> Sniper.entry_notional \div price,
                 price |-> price])
      ELSE None

--------------------------------------------------------------------------------
(* The wallets and the router *)

Notional(o) == o.qty * o.price

\* wallet_for_symbol: whichever allows the symbol and is not breached comes first in
\* the HashMap.
Willing(symbol) ==
    {w \in Wallet :
       /\ Entry(w).allowed_symbols = {} \/ symbol \in Entry(w).allowed_symbols
       /\ ~budget[w].breached}

\* Router::choose, which refuses a notional that is not positive.
Venue(notional) ==
    IF \E t \in Router.rfq_min_notional : Router.rfq_available /\ notional >= t
      THEN "rfq" ELSE "amm"

Clamped(notional) == IF notional > 0 THEN notional ELSE 0

\* Mutant: what was used is compared, not what it would come to.
MutOverNotional(w, notional) ==
    Entry(w).max_notional > 0 /\ budget[w].notional_used > Entry(w).max_notional

OverNotional(w, notional) ==
    /\ Entry(w).max_notional > 0
    /\ budget[w].notional_used + Clamped(notional) > Entry(w).max_notional

\* try_reserve's three caps; zero is no limit.
Breach(w, notional) ==
    \/ Entry(w).max_duration > 0 /\ now - budget[w].started >= Entry(w).max_duration
    \/ Entry(w).max_tx_count > 0 /\ budget[w].tx_used >= Entry(w).max_tx_count
    \/ OverNotional(w, notional)

Accepts(w, notional) == ~budget[w].breached /\ ~Breach(w, notional)

\* try_reserve records the spend, or latches.
TryReserve(w, notional) ==
    IF Accepts(w, notional)
      THEN /\ spent[w].count < MaxSpends
           /\ budget' = [budget EXCEPT ![w].tx_used = @ + 1,
                                       ![w].notional_used = @ + Clamped(notional)]
           /\ spent' = [spent EXCEPT ![w] =
                          [count |-> @.count + 1, total |-> @.total + Clamped(notional),
                           age |-> now - budget[w].started]]
      ELSE budget' = [budget EXCEPT ![w].breached = TRUE] /\ UNCHANGED spent

--------------------------------------------------------------------------------
(* Steps *)

\* An order was built: a wallet and a venue are chosen for it, or it is dropped.
Take(o) ==
    /\ orders < MaxOrders
    /\ orders' = orders + 1
    /\ IF Willing(o.symbol) = {} \/ Notional(o) <= 0
         THEN UNCHANGED order
         ELSE \E w \in Willing(o.symbol) :
                order' = Some([o |-> o, wallet |-> w, venue |-> Venue(Notional(o))])
    /\ UNCHANGED <<copy, position, budget, now, spent>>

ObserveTrade(t) ==
    /\ order = None
    /\ \E o \in Mirrored(t, position[t.symbol]) : Take(o)

ObservePool(ev, price) ==
    /\ order = None
    /\ \E o \in Snipe(ev, price) : Take(o)

\* The chosen wallet is charged; if it takes the spend, the order fills at its limit.
Settle ==
    \E j \in order :
      /\ TryReserve(j.wallet, Notional(j.o))
      /\ order' = None
      /\ position' = IF Accepts(j.wallet, Notional(j.o))
                       THEN [position EXCEPT ![j.o.symbol] =
                               @ + (IF j.o.side = "buy" THEN j.o.qty ELSE -j.o.qty)]
                       ELSE position
      /\ UNCHANGED <<copy, orders, now>>

\* Somebody else spends from a wallet.
OtherSpend(w, notional) ==
    /\ TryReserve(w, notional)
    /\ UNCHANGED <<copy, position, order, orders, now>>

\* reset_budget.
ResetBudget(w) ==
    /\ budget' = [budget EXCEPT ![w] = NewBudget(now)]
    /\ spent' = [spent EXCEPT ![w] = Nothing]
    /\ UNCHANGED <<copy, position, order, orders, now>>

Tick ==
    /\ now < MaxTime
    /\ now' = now + 1
    /\ UNCHANGED <<copy, position, order, orders, budget, spent>>

Next ==
    \/ \E t \in Trade : ObserveTrade(t)
    \/ \E ev \in PoolEvent, price \in Price : ObservePool(ev, price)
    \/ Settle
    \/ \E w \in Wallet, n \in Spend : OtherSpend(w, n)
    \/ \E w \in Wallet : ResetBudget(w)
    \/ Tick

Spec == Init /\ [][Next]_vars

--------------------------------------------------------------------------------
(* Properties *)

\* Over any sequence of mirrored trades and snipes, however sized, a position never
\* goes below zero: neither the risk gate nor Portfolio::apply refuses a sell of more
\* than is held, so the mirror has to.
NeverShort == \A s \in Symbol : position[s] >= 0

\* Whoever spends from a wallet between its choice and its charge, what a wallet
\* accepts from one reset to the next stays within each of its three limits that is
\* set.
WalletWithinLimits ==
    \A w \in Wallet :
      /\ Entry(w).max_tx_count > 0 => spent[w].count <= Entry(w).max_tx_count
      /\ Entry(w).max_notional > 0 => spent[w].total <= Entry(w).max_notional
      /\ Entry(w).max_duration > 0 /\ spent[w].count > 0 =>
           spent[w].age < Entry(w).max_duration
================================================================================

-------------------------------- MODULE RiskGate --------------------------------
(***************************************************************************)
(* RiskGate::check of crates/core/src/risk.rs.  Every rejection is one     *)
(* predicate; the gate reports the first that holds, in the order of the   *)
(* code, so an order is accepted exactly when none does.                   *)
(*                                                                         *)
(* Prices are whole, money is in units of 1 / Unit (module Portfolio), a   *)
(* position fraction in units of 1 / Whole.                                *)
(***************************************************************************)
EXTENDS Portfolio

CONSTANTS
    Risk,    \* RiskConfig
    Unit,    \* money units per whole unit of cash
    Whole    \* parts a fraction is counted in

ASSUME RiskAssumption ==
    /\ Risk \in [max_order_notional : Nat, max_position_fraction : Nat,
                 max_daily_loss : Nat, max_unrealized_loss : Nat,
                 max_open_positions : Nat \ {0}, order_cooldown : Nat, max_slippage : Nat,
                 allowlist : SUBSET Symbol, denylist : SUBSET Symbol,
                 kill_switch : BOOLEAN]
    /\ Unit \in Nat \ {0}
    /\ Whole \in Nat \ {0}

(***************************************************************************)
(* An order is [symbol, side, qty, price, max_slippage], the price being   *)
(* the limit price or the reference price.  The context is [pf, equity,    *)
(* unrealized, since]; since is the time from the last accepted order for  *)
(* the symbol and at least order_cooldown when there was none.             *)
(***************************************************************************)

OrderNotional(o) == o.qty * o.price

Untradable(o) ==
    \/ o.symbol \in Risk.denylist
    \/ Risk.allowlist # {} /\ o.symbol \notin Risk.allowlist

DailyLossHit(pf) == pf.realized_pnl <= -(Risk.max_daily_loss * Unit)

\* Reject every order, buys and sells alike.
HardStop(o, ctx) ==
    \/ Risk.kill_switch
    \/ Untradable(o)
    \/ o.max_slippage > Risk.max_slippage
    \/ DailyLossHit(ctx.pf)

\* Mutant: the cap is on the quantity.
MutNotionalCapHit(o) == o.qty > Risk.max_order_notional

NotionalCapHit(o) == OrderNotional(o) > Risk.max_order_notional

InsufficientCash(o, ctx) == OrderNotional(o) * Unit > ctx.pf.cash

UnrealizedLossHit(ctx) == ctx.unrealized <= -(Risk.max_unrealized_loss * Unit)

TooManyOpenPositions(o, ctx) ==
    /\ ctx.pf.positions[o.symbol] = 0
    /\ OpenPositionCount(ctx.pf) >= Risk.max_open_positions

\* Mutant: the cooldown ends a second early.
MutInCooldown(ctx) == Risk.order_cooldown > 0 /\ ctx.since + 1 < Risk.order_cooldown

InCooldown(ctx) == Risk.order_cooldown > 0 /\ ctx.since < Risk.order_cooldown

PositionCapHit(o, ctx) ==
    LET resulting == (ctx.pf.positions[o.symbol] + o.qty) * o.price * Unit
    IN  ctx.equity > 0 /\ resulting * Whole > Risk.max_position_fraction * ctx.equity

\* Gate new exposure only.
EntryLimit(o, ctx) ==
    \/ InsufficientCash(o, ctx)
    \/ UnrealizedLossHit(ctx)
    \/ TooManyOpenPositions(o, ctx)
    \/ InCooldown(ctx)
    \/ PositionCapHit(o, ctx)

\* check returns Ok(()).
Check(o, ctx) ==
    /\ ~HardStop(o, ctx)
    /\ ~NotionalCapHit(o)
    /\ o.side = "buy" => ~EntryLimit(o, ctx)
================================================================================

------------------------------- MODULE AppConfig -------------------------------
(***************************************************************************)
(* AppConfig::validate of crates/config/src/lib.rs, one predicate per      *)
(* section: which settings a process of this program can be started with.  *)
(* The other modules draw their configuration from a set of candidates     *)
(* and keep the ones that are valid here.                                  *)
(*                                                                         *)
(* An Option is a set of at most one element.  A text is kept as the kind  *)
(* of text it is: "" (nothing but blanks), "http" (an http(s) URL),        *)
(* "vault" (a vault: reference) or "other".  Fractions are in units of     *)
(* 1 / whole.                                                              *)
(***************************************************************************)
EXTENDS Integers, Sequences, SequencesExt

\* require_in_half_open, require_in_closed and require_at_least; Decimal::MAX is no bound.
InHalfOpen(v, low, high) == low < v /\ v <= high
InClosed(v, low, high) == low <= v /\ v <= high
AtLeast(v, low) == low <= v

Some(v) == {v}
None == {}

\* [general]; starting_cash is open above.
GeneralValid(g) ==
    /\ g.mode = "paper"
    /\ g.starting_cash > 0
    /\ g.decider \in {"rule", "ai"}

\* ChainSection::validate: a section that is off may say anything.
ChainValid(c) ==
    c.enabled => /\ c.symbols # <<>>
                 /\ c.rpc_url # ""
                 /\ c.poll_interval_secs # 0

\* AiSection::validate; the budget max_calls_per_run and the universe are free.
AiValid(a, whole) ==
    /\ a.base_url = "http"
    /\ a.model # ""
    /\ a.api_key = "vault"
    /\ InClosed(a.temperature, 0, 2 * whole)
    /\ a.max_tokens # 0
    /\ a.request_timeout_secs # 0

\* RiskSection::validate.
RiskValid(r, whole) ==
    /\ r.max_order_notional > 0
    /\ InHalfOpen(r.max_position_fraction, 0, whole)
    /\ AtLeast(r.max_daily_loss, 0)
    /\ AtLeast(r.max_unrealized_loss, 0)
    /\ r.max_open_positions # 0
    /\ InClosed(r.max_slippage, 0, whole)
    /\ r.allowlist \cap r.denylist = {}

\* ServerSection::validate.
ServerValid(s) ==
    /\ s.static_dir \subseteq {"has index.html"}
    /\ s.approval_mode \in {"auto", "manual"}
    /\ s.bind = "loopback"
    /\ \A r \in {s.token_ref} \cup s.operator_token_ref \cup s.viewer_token_ref : r # "other"

\* RouterSection::validate, which is Router::new.
RouterValid(r) ==
    /\ \A t \in r.rfq_min_notional : t > 0
    /\ r.rfq_min_notional = None => ~r.rfq_available

\* WalletEntry::validate for every entry, and no name twice.
WalletsValid(ws) ==
    /\ \A i \in DOMAIN ws : /\ ws[i].name # ""
                            /\ ws[i].key_ref # ""
                            /\ AtLeast(ws[i].max_notional, 0)
    /\ \A i, j \in DOMAIN ws : ws[i].name = ws[j].name => i = j

\* [copytrade], looked at only when it names a leader.
CopyValid(c, whole) ==
    c.leaders # {} =>
        /\ \A f \in c.fixed_fraction : InHalfOpen(f, 0, whole)
        /\ \A v \in c.min_leader_notional \cup c.max_mirror_notional : AtLeast(v, 0)
        /\ \A s \in c.slippage : InClosed(s, 0, whole)

\* [sniper], looked at only when it is enabled.
SniperValid(s) ==
    s.enabled => \A v \in s.min_initial_liquidity \cup s.entry_notional : v > 0
================================================================================

----------------------------- MODULE SessionBudget -----------------------------
(***************************************************************************)
(* The per-session budget of crates/server/src/budget.rs: three caps, each *)
(* off when zero, checked and charged under one mutex, and a latch that    *)
(* only reset() clears.  crates/wallets/src/budget.rs has the same shape   *)
(* without the clock.                                                      *)
(*                                                                         *)
(* Elapsed time is counted in ticks and saturates at MaxDuration, the only *)
(* value it is compared with.                                              *)
(***************************************************************************)
EXTENDS Integers

CONSTANTS
    MaxOrders,     \* BudgetCaps.max_orders
    MaxNotional,   \* BudgetCaps.max_notional
    MaxDuration,   \* BudgetCaps.max_duration, in ticks
    Notional,      \* notionals a hook may ask for
    MaxCount       \* bound: orders recorded in one session

ASSUME BudgetAssumption ==
    /\ MaxOrders \in Nat
    /\ MaxNotional \in Nat
    /\ MaxDuration \in Nat
    /\ Notional \subseteq Int
    /\ MaxCount \in Nat

VARIABLES
    orders_used,     \* State.orders_used
    notional_used,   \* State.notional_used
    elapsed,         \* State.started.elapsed()
    breached,        \* State.breached
    tripped          \* history: the cap that refused the first order since reset

vars == <<orders_used, notional_used, elapsed, breached, tripped>>

\* BudgetBreach.
Caps == {"duration", "order_count", "notional"}

TypeOK ==
    /\ orders_used \in Nat
    /\ notional_used \in Nat
    /\ elapsed \in 0..MaxDuration
    /\ breached \in BOOLEAN
    /\ tripped \in Caps \cup {"none"}

Init ==
    /\ orders_used = 0
    /\ notional_used = 0
    /\ elapsed = 0
    /\ breached = FALSE
    /\ tripped = "none"

--------------------------------------------------------------------------------
(* Helpers *)

\* would_be: a negative notional counts as zero.
WouldBe(n) == notional_used + (IF n > 0 THEN n ELSE 0)

DurationSpent == MaxDuration > 0 /\ elapsed >= MaxDuration
\* Mutant: the order that reaches the cap is let past it.
MutOrdersSpent == MaxOrders > 0 /\ orders_used > MaxOrders

OrdersSpent == MaxOrders > 0 /\ orders_used >= MaxOrders
NotionalSpent(n) == MaxNotional > 0 /\ WouldBe(n) > MaxNotional

Refuses(n) == breached \/ DurationSpent \/ OrdersSpent \/ NotionalSpent(n)

\* Mutant: a session that ran out of time reports another cap.
MutFirstBreach == IF OrdersSpent THEN "order_count" ELSE "notional"

\* first_breach: the cap a latched session reports.
FirstBreach ==
    CASE OrdersSpent -> "order_count"
      [] ~OrdersSpent /\ DurationSpent -> "duration"
      [] OTHER -> "notional"

\* The BudgetBreach try_record returns, in the order the code tests the caps.
Breach(n) ==
    CASE breached -> FirstBreach
      [] ~breached /\ DurationSpent -> "duration"
      [] ~breached /\ ~DurationSpent /\ OrdersSpent -> "order_count"
      [] OTHER -> "notional"

--------------------------------------------------------------------------------
(* Operations *)

Record(n) ==
    /\ ~Refuses(n)
    /\ orders_used' = orders_used + 1
    /\ notional_used' = WouldBe(n)
    /\ UNCHANGED <<elapsed, breached, tripped>>

\* Mutant: a refused order leaves the session open.
MutRefuse(n) ==
    /\ Refuses(n)
    /\ tripped' = IF breached THEN tripped ELSE Breach(n)
    /\ UNCHANGED <<orders_used, notional_used, elapsed, breached>>

Refuse(n) ==
    /\ Refuses(n)
    /\ breached' = TRUE
    /\ tripped' = IF breached THEN tripped ELSE Breach(n)
    /\ UNCHANGED <<orders_used, notional_used, elapsed>>

TryRecord(n) == Record(n) \/ Refuse(n)

Reset ==
    /\ orders_used' = 0
    /\ notional_used' = 0
    /\ elapsed' = 0
    /\ breached' = FALSE
    /\ tripped' = "none"

Tick ==
    /\ elapsed < MaxDuration
    /\ elapsed' = elapsed + 1
    /\ UNCHANGED <<orders_used, notional_used, breached, tripped>>

Next ==
    \/ \E n \in Notional : orders_used < MaxCount /\ TryRecord(n)
    \/ Reset
    \/ Tick

Spec == Init /\ [][Next]_vars

--------------------------------------------------------------------------------
(* Properties *)

\* Between two resets the recorded orders never exceed a cap that is set, whatever
\* mix of accepted, refused and negative-notional orders came before.
WithinCaps ==
    /\ MaxOrders > 0 => orders_used <= MaxOrders
    /\ MaxNotional > 0 => notional_used <= MaxNotional

\* Once any order has been refused, nothing more is recorded until an admin resets
\* the session (budget.rs:4, "once tripped, denies every further place-order").
RefusalLatches ==
    [][tripped # "none" => tripped' = "none" \/ UNCHANGED <<orders_used, notional_used>>]_vars

\* The cap a latched session reports for every later order is one that has really
\* been hit since: a spent one, or the notional cap when that cap refused the first.
\* (The report may change: a notional refusal turns into "duration" as time passes.)
ReportedCapIsReal ==
    breached => \/ FirstBreach = tripped
                \/ FirstBreach = "duration" /\ DurationSpent
                \/ FirstBreach = "order_count" /\ OrdersSpent
================================================================================

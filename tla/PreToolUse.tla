------------------------------- MODULE PreToolUse -------------------------------
(***************************************************************************)
(* The PreToolUse hook of crates/server/src/routes.rs and what it meets:   *)
(* concurrent POST /v1/hook/pretooluse requests against the control state, *)
(* the approval queue and the session budget, while admins and operators   *)
(* change all three, agents hang up and the server restarts.               *)
(*                                                                         *)
(* A request evaluates the gate under one read lock, releases it, and only *)
(* then queues for approval, waits, and charges the budget; every step     *)
(* works on what the first one saw.  RiskGate::check is reduced to what    *)
(* the control plane can change under a waiting order, the kill switch and *)
(* the notional cap; the rest depends on the request alone and is the      *)
(* input "passes" (module RiskGate has it in full).  An order tool's       *)
(* arguments are Options, sets of at most one number, and "readable" says  *)
(* whether symbol, side and numbers are there and parse.  Admin requests   *)
(* are taken as they hold the write lock, a reload with whatever           *)
(* configuration its file held; module ControlState has their steps.       *)
(***************************************************************************)
EXTENDS Control, Integers, FiniteSets

CONSTANTS
    Hook, Operator, Timeout, Retain, MaxSeq,                     \* ApprovalStore
    MaxOrders, MaxNotional, MaxDuration, MaxCount,               \* SessionBudget
    Args       \* [readable, quantity, notional, limit_price, ref_price, passes] of an order tool

ASSUME HookAssumption ==
    /\ Timeout \in Nat /\ Retain \in Nat /\ MaxSeq \in Nat
    /\ MaxOrders \in Nat /\ MaxNotional \in Nat /\ MaxDuration \in Nat /\ MaxCount \in Nat
    /\ \A a \in Args : \A option \in {a.quantity, a.notional, a.limit_price, a.ref_price} :
          option \subseteq Int /\ \A v, w \in option : v = w

VARIABLES
    entries, seq, ticket, op, verdict, outcome,                  \* ApprovalStore
    orders_used, notional_used, elapsed, breached, tripped,      \* SessionBudget
    control,   \* the Control record behind the RwLock
    hook,      \* per request, where its handler is and what it answered
    allowed,   \* history: place-orders answered "allow" since the last budget reset
    stopped    \* history: whether the kill switch was engaged, by an admin or a file,
               \* and not released by an admin since, and the orders that had
               \* passed the gate by then

--------------------------------------------------------------------------------
(* parse_order, and the notional the handler and the gate make of the order *)

The(option) == CHOOSE v \in option : TRUE
Positive(n) == IF n > 0 THEN n ELSE 0

\* A quantity, or a notional with a price to size it by.  Bound: whole quantities.
CanSize(args) ==
    args.quantity # {} \/ (args.notional # {} /\ \E p \in args.limit_price : p > 0)

Quantity(args) ==
    IF args.quantity # {} THEN The(args.quantity)
    ELSE The(args.notional) \div The(args.limit_price)

Parses(args) == args.readable /\ CanSize(args) /\ Quantity(args) > 0

\* The limit price, or the caller's reference price; the gate rejects an order
\* without either.  A limit price below zero is a number too.
Priced(args) == args.limit_price \cup args.ref_price # {}

OrderNotional(args) ==
    Quantity(args) * The(IF args.limit_price # {} THEN args.limit_price ELSE args.ref_price)

Notional == {OrderNotional(args) : args \in {a \in Args : Parses(a) /\ Priced(a)}}

--------------------------------------------------------------------------------

A == INSTANCE ApprovalStore
B == INSTANCE SessionBudget

approvalVars == <<entries, seq, ticket, op, verdict, outcome>>
budgetVars == <<orders_used, notional_used, elapsed, breached, tripped>>
vars == <<approvalVars, budgetVars, control, hook, allowed, stopped>>

\* A call of a read-only (or cancel) tool, or of place-order.
ToolCall == [tool : {"read"}] \cup [tool : {"place"}, args : Args]

NoRequest == [pc |-> "idle", notional |-> 0, id |-> 0, answer |-> "none"]
NothingAllowed == [count |-> 0, notional |-> 0]
NotStopped == [engaged |-> FALSE, orders |-> {}]

TypeOK ==
    /\ A!TypeOK
    /\ B!TypeOK
    /\ control \in ControlRecord
    /\ hook \in [Hook -> [pc : {"idle", "enqueue", "held", "charge", "answered"},
                          notional : Notional \cup {0}, id : 0..MaxSeq,
                          answer : {"none", "allow", "deny"}]]
    /\ allowed \in [count : Nat, notional : Nat]
    /\ stopped \in [engaged : BOOLEAN, orders : SUBSET Hook]

Init ==
    /\ A!Init
    /\ B!Init
    /\ \E c \in Config : control = Boot(c)
    /\ hook = [h \in Hook |-> NoRequest]
    /\ allowed = NothingAllowed
    /\ stopped = [NotStopped EXCEPT !.engaged = control.kill]

--------------------------------------------------------------------------------
(* POST /v1/hook/pretooluse *)

\* HookGate::evaluate under the read lock: the allowlist, then parse_order and the
\* risk gate.
GateAllows(call) ==
    /\ call.tool \in control.cfg.listed
    /\ call.tool = "place" => /\ Parses(call.args) /\ ~control.kill /\ Priced(call.args)
                              /\ OrderNotional(call.args) <= control.cfg.max_notional
                              /\ call.args.passes

\* Bound: MaxSeq approvals, one kept for every request on its way to the queue.
RoomToEnqueue == seq + Cardinality({g \in Hook : hook[g].pc = "enqueue"}) < MaxSeq

Answer(h, a) == hook' = [hook EXCEPT ![h].pc = "answered", ![h].answer = a]

\* Reads and denials are answered at once; an allowed place-order goes on, to the
\* approval queue when approval_mode was manual at this moment.
Evaluate(h, call) ==
    /\ hook[h].pc \in {"idle", "answered"}
    /\ control.cfg.approval_mode = "manual" => RoomToEnqueue
    /\ hook' = [hook EXCEPT ![h] =
                  IF ~GateAllows(call) \/ call.tool # "place"
                  THEN [NoRequest EXCEPT !.pc = "answered",
                                         !.answer = IF GateAllows(call) THEN "allow" ELSE "deny"]
                  ELSE [NoRequest EXCEPT !.pc = IF control.cfg.approval_mode = "manual"
                                                THEN "enqueue" ELSE "charge",
                                         !.notional = OrderNotional(call.args)]]
    /\ stopped' = [stopped EXCEPT !.orders = @ \ {h}]
    /\ UNCHANGED <<approvalVars, budgetVars, control, allowed>>

Enqueue(h) ==
    /\ hook[h].pc = "enqueue"
    /\ A!Enqueue(h)
    /\ hook' = [hook EXCEPT ![h].pc = "held", ![h].id = seq + 1]
    /\ UNCHANGED <<budgetVars, control, allowed, stopped>>

HeldDecided(h) ==
    /\ hook[h].pc = "held"
    /\ A!WaitDecided(h)
    /\ IF ticket[h].rx = "approved"
       THEN hook' = [hook EXCEPT ![h].pc = "charge"]
       ELSE Answer(h, "deny")
    /\ UNCHANGED <<budgetVars, control, allowed, stopped>>

\* Mutant: the timeout fails open.
MutHeldTimeout(h) ==
    /\ hook[h].pc = "held"
    /\ A!WaitTimeout(h)
    /\ hook' = [hook EXCEPT ![h].pc = "charge"]
    /\ UNCHANGED <<budgetVars, control, allowed, stopped>>

HeldTimeout(h) ==
    /\ hook[h].pc = "held"
    /\ A!WaitTimeout(h)
    /\ Answer(h, "deny")
    /\ UNCHANGED <<budgetVars, control, allowed, stopped>>

Allow(h) ==
    /\ Answer(h, "allow")
    /\ allowed' = [count |-> allowed.count + 1,
                   notional |-> allowed.notional + Positive(hook[h].notional)]

\* Mutant: a breach is logged and the order let through.
MutCharge(h) ==
    /\ hook[h].pc = "charge"
    /\ B!TryRecord(hook[h].notional)
    /\ Allow(h)
    /\ UNCHANGED <<approvalVars, control, stopped>>

Charge(h) ==
    /\ hook[h].pc = "charge"
    /\ \/ B!Record(hook[h].notional) /\ Allow(h)
       \/ B!Refuse(hook[h].notional) /\ Answer(h, "deny") /\ UNCHANGED allowed
    /\ UNCHANGED <<approvalVars, control, stopped>>

\* The agent hangs up while its order is held.
HangUp(h) ==
    /\ hook[h].pc = "held"
    /\ A!Abandon(h)
    /\ hook' = [hook EXCEPT ![h] = NoRequest]
    /\ UNCHANGED <<budgetVars, control, allowed, stopped>>

--------------------------------------------------------------------------------
(* The other parts *)

PostApproval(o) ==
    /\ A!PostApproval(o)
    /\ UNCHANGED <<budgetVars, control, hook, allowed, stopped>>

Sweep ==
    /\ A!SweepExpired
    /\ UNCHANGED <<budgetVars, control, hook, allowed, stopped>>

PostSessionReset ==
    /\ B!Reset
    /\ allowed' = NothingAllowed
    /\ UNCHANGED <<approvalVars, control, hook, stopped>>

PastGate == {h \in Hook : hook[h].pc \in {"enqueue", "held", "charge"}}

Stopping == IF stopped.engaged THEN stopped ELSE [engaged |-> TRUE, orders |-> PastGate]

\* post_kill and apply_reload, holding the write lock.
PostKill(engage) ==
    /\ control' = WithKill(control, engage)
    /\ stopped' = IF engage THEN Stopping ELSE NotStopped
    /\ UNCHANGED <<approvalVars, budgetVars, hook, allowed>>

ApplyReload(c) ==
    /\ control' = Reloaded(control, c)
    /\ stopped' = IF c.kill THEN Stopping ELSE stopped
    /\ UNCHANGED <<approvalVars, budgetVars, hook, allowed>>

Tick ==
    /\ A!Tick
    /\ B!Tick \/ (elapsed = MaxDuration /\ UNCHANGED budgetVars)
    /\ UNCHANGED <<control, hook, allowed, stopped>>

\* Everything but config.toml is in memory: the queue and the budget start afresh
\* and every open connection breaks, which the hook script takes for a deny.
Restart ==
    /\ \E c \in Config : control' = Boot(c)
    /\ A!Forget
    /\ B!Reset
    /\ hook' = [h \in Hook |-> NoRequest]
    /\ allowed' = NothingAllowed
    /\ stopped' = [NotStopped EXCEPT !.engaged = control'.kill]

HookStep(h) == Enqueue(h) \/ HeldDecided(h) \/ HeldTimeout(h) \/ Charge(h)

Next ==
    \/ \E h \in Hook, call \in ToolCall : Evaluate(h, call)
    \/ \E h \in Hook : HookStep(h) \/ HangUp(h)
    \/ \E o \in Operator : PostApproval(o)
    \/ Sweep
    \/ PostSessionReset
    \/ \E engage \in BOOLEAN : PostKill(engage)
    \/ \E c \in Config : ApplyReload(c)
    \/ Tick
    \/ Restart

Spec == Init /\ [][Next]_vars

--------------------------------------------------------------------------------
(* Properties *)

\* Whatever the interleaving of held, approved, abandoned and refused orders with
\* resets and restarts, the place-orders allowed since the last reset are exactly
\* the ones charged, and so stay within the caps.
AllowedWithinBudget ==
    /\ allowed.count = orders_used
    /\ allowed.notional = notional_used
    /\ B!WithinCaps

\* An order that was sent to the queue is allowed only if the operator approved that
\* very approval: a timeout, a sweep, a denial or a switch to auto mode while it
\* was held never let it through.
HeldOrdersApproved ==
    \A h \in Hook :
        hook[h].id # 0 /\ (hook[h].pc = "charge" \/ hook[h].answer = "allow") =>
            verdict[hook[h].id] = "approved"

\* Once the kill switch is engaged no order gets past the gate until an admin releases
\* it (docs/RUNBOOK.md:15), whatever is reloaded or approved meanwhile: an order on its
\* way to an "allow" had passed the gate before.  Those are not stopped.
KillHeldOnly ==
    stopped.engaged => PastGate \subseteq stopped.orders
================================================================================

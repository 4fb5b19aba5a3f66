--------------------------------- MODULE Ledger ---------------------------------
(***************************************************************************)
(* How trades become durable: the run loop of crates/cli/src/runner.rs     *)
(* publishing on the Bus of crates/events, the StoreSubscriber of          *)
(* crates/store that writes what it receives, the portfolio snapshot taken *)
(* when a run ends, and the reconciliations that write the same database,  *)
(* over HTTP (routes.rs) or from the command line (reconcile_cmd.rs).      *)
(*                                                                         *)
(* A fill is an identity; a portfolio, the fills table and the audit log   *)
(* count how often they hold each one.  What a fill does to cash and       *)
(* positions is in module Trading.  The bus is the store subscriber's view *)
(* of the broadcast channel: sending to a full channel overwrites its      *)
(* oldest event.                                                           *)
(***************************************************************************)
EXTENDS Naturals, Sequences

CONSTANTS
    Capacity,    \* Bus::new(1000)
    HttpRec,     \* concurrent POST /v1/reconcile requests
    CliRec,      \* concurrent `sherwood reconcile` commands
    Tx,          \* transactions an operator has broadcast and may reconcile
    MaxTicks,    \* bound: ticks of all runs together that lead to a decision
    MaxRuns,     \* bound: runs started
    MaxRecs,     \* bound: a transaction recorded this often is not begun again
    MaxFaults    \* bound: database errors and crashes

ASSUME LedgerAssumption ==
    /\ Capacity \in Nat \ {0}
    /\ MaxTicks \in Nat
    /\ MaxRuns \in Nat
    /\ MaxRecs \in Nat
    /\ MaxFaults \in Nat
    /\ Tx \cap (1..MaxTicks) = {}   \* a transaction hash is no tick

Recorder == HttpRec \cup CliRec

PaperFill == {<<"fill", t>> : t \in 1..MaxTicks}
TxFill == {<<"fill", x>> : x \in Tx}
Fill == PaperFill \cup TxFill
Event == Fill \cup ({"decided", "rejected"} \X (1..MaxTicks))
              \cup {<<"run_ended", r>> : r \in 1..MaxRuns}

VARIABLES
    snapshot,    \* last row of portfolio_snapshots: <<>> or <<portfolio>>
    fills,       \* fills table
    audit,       \* audit_log rows, by the event they record
    run,         \* run_loop: its place, portfolio and whether it holds the Bus
    bus,         \* events the store subscriber has yet to receive
    sub,         \* StoreSubscriber::handle: its place and event
    receipt,     \* per transaction, what its receipt says: "none", "ok" or "reverted"
    rec,         \* per reconciliation, its place, fill and loaded portfolio
    tick,        \* ticks decided so far
    runs,        \* runs started so far
    faults,      \* database errors and crashes so far
    published,   \* history: events run loops published
    disturbed,   \* history: a fault, an overwritten event, or a reconciliation that
                 \* overlapped a run or another one
    recorded     \* history: fills whose reconciliation reported success

vars == <<snapshot, fills, audit, run, bus, sub, receipt, rec, tick, runs, faults,
          published, disturbed, recorded>>
storeVars == <<snapshot, fills, audit>>
runVars == <<run, bus, sub, tick, runs, published>>

NoFills == [f \in Fill |-> 0]
Portfolio == [Fill -> Nat]
Off == [pc |-> "off", portfolio |-> NoFills, bus_open |-> FALSE]
NoEvent == <<"none", 0>>
Waiting == [pc |-> "recv", ev |-> NoEvent]
NoRec == [pc |-> "idle", fill |-> NoEvent, portfolio |-> NoFills]

LedgerTypeOK ==
    /\ snapshot = <<>> \/ (Len(snapshot) = 1 /\ snapshot[1] \in Portfolio)
    /\ fills \in Portfolio
    /\ audit \in [Event -> Nat]
    /\ run \in [pc : {"off", "tick", "order", "save", "end", "drain", "failed"},
                portfolio : Portfolio, bus_open : BOOLEAN]
    /\ bus \in Seq(Event) /\ Len(bus) <= Capacity
    /\ sub \in [pc : {"recv", "append_fill", "append_audit"}, ev : Event \cup {NoEvent}]
    /\ receipt \in [Tx -> {"none", "ok", "reverted"}]
    /\ rec \in [Recorder -> [pc : {"idle", "poll", "load", "append_fill", "save", "append_audit"},
                             fill : TxFill \cup {NoEvent}, portfolio : Portfolio]]
    /\ tick \in 0..MaxTicks /\ runs \in 0..MaxRuns /\ faults \in 0..MaxFaults
    /\ published \subseteq Event
    /\ disturbed \in BOOLEAN
    /\ recorded \subseteq TxFill

Init ==
    /\ snapshot = <<>>
    /\ fills = NoFills
    /\ audit = [e \in Event |-> 0]
    /\ run = Off
    /\ bus = <<>>
    /\ sub = Waiting
    /\ receipt = [x \in Tx |-> "none"]
    /\ rec = [r \in Recorder |-> NoRec]
    /\ tick = 0 /\ runs = 0 /\ faults = 0
    /\ published = {}
    /\ disturbed = FALSE
    /\ recorded = {}

--------------------------------------------------------------------------------
(* Store and bus *)

With(counts, x) == [counts EXCEPT ![x] = @ + 1]

LoadPortfolio == IF snapshot = <<>> THEN NoFills ELSE snapshot[1]

\* Bus::publish.
Publish(e) ==
    /\ bus' = IF Len(bus) < Capacity THEN Append(bus, e) ELSE Append(Tail(bus), e)
    /\ published' = published \cup {e}
    /\ disturbed' = (disturbed \/ Len(bus) = Capacity)

Fault ==
    /\ faults < MaxFaults
    /\ faults' = faults + 1
    /\ disturbed' = TRUE

\* The reconciliations that are past their receipt.
Busy == {r \in Recorder : rec[r].pc \notin {"idle", "poll"}}

--------------------------------------------------------------------------------
(* run_loop *)

\* Mutant: recorded fills are replayed on top of the snapshot.
MutStartRun ==
    /\ run.pc = "off"
    /\ runs < MaxRuns
    /\ runs' = runs + 1
    /\ run' = [pc |-> "tick", bus_open |-> TRUE,
               portfolio |-> [f \in Fill |-> LoadPortfolio[f] + fills[f]]]
    /\ bus' = <<>>
    /\ sub' = Waiting
    /\ disturbed' = (disturbed \/ Busy # {})
    /\ UNCHANGED <<storeVars, receipt, rec, tick, faults, published, recorded>>

\* Spawn the subscribers and resume from the last snapshot.
StartRun ==
    /\ run.pc = "off"
    /\ runs < MaxRuns
    /\ runs' = runs + 1
    /\ run' = [pc |-> "tick", bus_open |-> TRUE, portfolio |-> LoadPortfolio]
    /\ bus' = <<>>
    /\ sub' = Waiting
    /\ disturbed' = (disturbed \/ Busy # {})
    /\ UNCHANGED <<storeVars, receipt, rec, tick, faults, published, recorded>>

\* A tick whose decision is not Hold (a Hold leaves no trace).
Decide ==
    /\ run.pc = "tick"
    /\ tick < MaxTicks
    /\ tick' = tick + 1
    /\ Publish(<<"decided", tick + 1>>)
    /\ run' = [run EXCEPT !.pc = "order"]
    /\ UNCHANGED <<storeVars, sub, receipt, rec, runs, faults, recorded>>

\* The order it was sized to clears the gate and fills.
FillOrder ==
    /\ run.pc = "order"
    /\ run' = [run EXCEPT !.pc = "tick", !.portfolio = With(@, <<"fill", tick>>)]
    /\ Publish(<<"fill", tick>>)
    /\ UNCHANGED <<storeVars, sub, receipt, rec, tick, runs, faults, recorded>>

RejectOrder ==
    /\ run.pc = "order"
    /\ run' = [run EXCEPT !.pc = "tick"]
    /\ Publish(<<"rejected", tick>>)
    /\ UNCHANGED <<storeVars, sub, receipt, rec, tick, runs, faults, recorded>>

\* size() made no order of it, or the executor refused it.
NoOrder ==
    /\ run.pc = "order"
    /\ run' = [run EXCEPT !.pc = "tick"]
    /\ UNCHANGED <<storeVars, bus, sub, receipt, rec, tick, runs, faults, published, disturbed, recorded>>

\* The feed is exhausted, or the shutdown flag was set.
StopFeed ==
    /\ run.pc = "tick"
    /\ run' = [run EXCEPT !.pc = "save"]
    /\ UNCHANGED <<storeVars, bus, sub, receipt, rec, tick, runs, faults, published, disturbed, recorded>>

\* save_portfolio; its error is returned at once, past the publish and the drain.
SavePortfolio ==
    /\ run.pc = "save"
    /\ \/ /\ snapshot' = <<run.portfolio>>
          /\ run' = [run EXCEPT !.pc = "end"]
          /\ UNCHANGED <<faults, disturbed>>
       \/ /\ Fault
          /\ run' = [run EXCEPT !.pc = "failed"]
          /\ UNCHANGED snapshot
    /\ UNCHANGED <<fills, audit, bus, sub, receipt, rec, tick, runs, published, recorded>>

\* Mutant: a handle to the bus outlives the loop.
MutEndRun ==
    /\ run.pc = "end"
    /\ Publish(<<"run_ended", runs>>)
    /\ run' = [run EXCEPT !.pc = "drain"]
    /\ UNCHANGED <<storeVars, sub, receipt, rec, tick, runs, faults, recorded>>

\* Publish RunEnded, drop the bus, and wait for the subscribers.
EndRun ==
    /\ run.pc = "end"
    /\ Publish(<<"run_ended", runs>>)
    /\ run' = [run EXCEPT !.pc = "drain", !.bus_open = FALSE]
    /\ UNCHANGED <<storeVars, sub, receipt, rec, tick, runs, faults, recorded>>

\* The process ends; nothing of it is left.
Exit ==
    /\ run' = Off
    /\ bus' = <<>>
    /\ sub' = Waiting
    /\ UNCHANGED <<storeVars, receipt, rec, tick, runs, published, recorded>>

\* Mutant: the subscribers are not awaited.
MutDrained == run.pc = "drain" /\ Exit /\ UNCHANGED <<faults, disturbed>>

\* run_subscriber returns once the bus is closed and its backlog drained.
Drained ==
    /\ run.pc = "drain"
    /\ ~run.bus_open /\ bus = <<>> /\ sub.pc = "recv"
    /\ Exit
    /\ UNCHANGED <<faults, disturbed>>

\* The error reaches main and the runtime drops whatever its tasks were at.
Failed == run.pc = "failed" /\ Exit /\ UNCHANGED <<faults, disturbed>>

CrashRun == run.pc # "off" /\ Fault /\ Exit

--------------------------------------------------------------------------------
(* run_subscriber driving StoreSubscriber::handle *)

Receive ==
    /\ run.pc # "off"
    /\ sub.pc = "recv"
    /\ bus # <<>>
    /\ sub' = [pc |-> IF Head(bus) \in Fill THEN "append_fill" ELSE "append_audit",
               ev |-> Head(bus)]
    /\ bus' = Tail(bus)
    /\ UNCHANGED <<storeVars, run, receipt, rec, tick, runs, faults, published, disturbed, recorded>>

\* Mutant: the audit row is written although append_fill failed.
MutSubAppendFill ==
    /\ sub.pc = "append_fill"
    /\ fills' \in {fills, With(fills, sub.ev)}
    /\ sub' = [sub EXCEPT !.pc = "append_audit"]
    /\ UNCHANGED <<snapshot, audit, run, bus, receipt, rec, tick, runs, faults, published, disturbed,
                   recorded>>

SubAppendFill ==
    /\ sub.pc = "append_fill"
    /\ fills' = With(fills, sub.ev)
    /\ sub' = [sub EXCEPT !.pc = "append_audit"]
    /\ UNCHANGED <<snapshot, audit, run, bus, receipt, rec, tick, runs, faults, published, disturbed,
                   recorded>>

SubAppendAudit ==
    /\ sub.pc = "append_audit"
    /\ audit' = With(audit, sub.ev)
    /\ sub' = Waiting
    /\ UNCHANGED <<snapshot, fills, run, bus, receipt, rec, tick, runs, faults, published, disturbed,
                   recorded>>

\* Either write may fail; the error is logged and the event given up.
SubFails ==
    /\ sub.pc # "recv"
    /\ Fault
    /\ sub' = Waiting
    /\ UNCHANGED <<storeVars, run, bus, receipt, rec, tick, runs, published, recorded>>

StoreSubscriber == Receive \/ SubAppendFill \/ SubAppendAudit

--------------------------------------------------------------------------------
(* Reconciliation of a transaction *)

\* The chain mines a transaction.
Mine(x, status) ==
    /\ receipt[x] = "none"
    /\ receipt' = [receipt EXCEPT ![x] = status]
    /\ UNCHANGED <<storeVars, runVars, rec, faults, disturbed, recorded>>

\* The request, or the command, with the trade the operator expects.
BeginReconcile(r, x) ==
    /\ rec[r].pc = "idle"
    /\ fills[<<"fill", x>>] < MaxRecs
    /\ rec' = [rec EXCEPT ![r] = [pc |-> "poll", fill |-> <<"fill", x>>, portfolio |-> NoFills]]
    /\ UNCHANGED <<storeVars, runVars, receipt, faults, disturbed, recorded>>

Receipt(r) == receipt[rec[r].fill[2]]

\* wait_and_reconcile ends without a fill: the transaction reverted, there was no
\* receipt when the time was up, or the node could not be asked.
Unconfirmed(r) ==
    /\ rec[r].pc = "poll"
    /\ rec' = [rec EXCEPT ![r] = NoRec]
    /\ UNCHANGED <<storeVars, runVars, receipt, faults, disturbed, recorded>>

\* Mutant: a receipt is a confirmation.
MutConfirmed(r) ==
    /\ rec[r].pc = "poll" /\ Receipt(r) # "none"
    /\ rec' = [rec EXCEPT ![r].pc = IF r \in HttpRec THEN "load" ELSE "append_fill"]
    /\ disturbed' = (disturbed \/ run.pc # "off" \/ Busy # {})
    /\ UNCHANGED <<storeVars, runVars, receipt, faults, recorded>>

\* A poll finds it confirmed.  HTTP then loads the portfolio, while the command line
\* appends the fill first.
Confirmed(r) ==
    /\ rec[r].pc = "poll" /\ Receipt(r) = "ok"
    /\ rec' = [rec EXCEPT ![r].pc = IF r \in HttpRec THEN "load" ELSE "append_fill"]
    /\ disturbed' = (disturbed \/ run.pc # "off" \/ Busy # {})
    /\ UNCHANGED <<storeVars, runVars, receipt, faults, recorded>>

\* Without a snapshot HTTP records nothing and the command line starts one.
RecLoad(r) ==
    /\ rec[r].pc = "load"
    /\ rec' = [rec EXCEPT ![r] =
                 IF r \in HttpRec /\ snapshot = <<>> THEN NoRec
                 ELSE [@ EXCEPT !.pc = IF r \in HttpRec THEN "append_fill" ELSE "save",
                                !.portfolio = With(LoadPortfolio, rec[r].fill)]]
    /\ UNCHANGED <<storeVars, runVars, receipt, faults, disturbed, recorded>>

RecAppendFill(r) ==
    /\ rec[r].pc = "append_fill"
    /\ fills' = With(fills, rec[r].fill)
    /\ rec' = [rec EXCEPT ![r].pc = IF r \in HttpRec THEN "save" ELSE "load"]
    /\ UNCHANGED <<snapshot, audit, runVars, receipt, faults, disturbed, recorded>>

RecSave(r) ==
    /\ rec[r].pc = "save"
    /\ snapshot' = <<rec[r].portfolio>>
    /\ rec' = [rec EXCEPT ![r].pc = "append_audit"]
    /\ UNCHANGED <<fills, audit, runVars, receipt, faults, disturbed, recorded>>

RecAppendAudit(r) ==
    /\ rec[r].pc = "append_audit"
    /\ audit' = With(audit, rec[r].fill)
    /\ recorded' = recorded \cup {rec[r].fill}
    /\ rec' = [rec EXCEPT ![r] = NoRec]
    /\ UNCHANGED <<snapshot, fills, runVars, receipt, faults, disturbed>>

\* Any of its calls fails, or its process dies.
RecFails(r) ==
    /\ r \in Busy
    /\ Fault
    /\ rec' = [rec EXCEPT ![r] = NoRec]
    /\ UNCHANGED <<storeVars, runVars, receipt, recorded>>

Reconcile(r) ==
    \/ \E x \in Tx : BeginReconcile(r, x)
    \/ Unconfirmed(r)
    \/ Confirmed(r)
    \/ RecLoad(r)
    \/ RecAppendFill(r)
    \/ RecSave(r)
    \/ RecAppendAudit(r)
    \/ RecFails(r)

--------------------------------------------------------------------------------

RunEnds == SavePortfolio \/ EndRun \/ Drained \/ Failed

Next ==
    \/ StartRun \/ Decide \/ FillOrder \/ RejectOrder \/ NoOrder \/ StopFeed
    \/ RunEnds
    \/ CrashRun
    \/ StoreSubscriber
    \/ SubFails
    \/ \E x \in Tx, status \in {"ok", "reverted"} : Mine(x, status)
    \/ \E r \in Recorder : Reconcile(r)

Spec == Init /\ [][Next]_vars

\* tokio polls a ready task; the loop and its subscriber make progress.
FairSpec == Spec /\ WF_vars(RunEnds) /\ WF_vars(StoreSubscriber)

--------------------------------------------------------------------------------
(* Properties *)

\* The audit log never claims a fill the fills table does not have, and neither it nor
\* the portfolio has one of a transaction that did not succeed on the chain, whatever
\* write failed, wherever a process died and whenever the receipt came.
AuditFollowsFill ==
    /\ \A f \in Fill : audit[f] <= fills[f]
    /\ \A x \in Tx : fills[<<"fill", x>>] + LoadPortfolio[<<"fill", x>>] > 0 => receipt[x] = "ok"

\* A paper fill is counted at most once, in the tables, in the running portfolio and
\* in the snapshot a later run resumes from, over any number of crashes and restarts.
PaperFillsOnce ==
    \A f \in PaperFill :
        /\ fills[f] <= 1
        /\ run.portfolio[f] <= 1
        /\ LoadPortfolio[f] <= 1

\* With no run and no reconciliation in progress, everything the runs published has
\* its audit row, and the snapshot holds exactly the fills of the fills table
\* (README.md:37, "every decision, order, and fill is written"), over any sequence of
\* runs and reconciliations, unless a fault, a full channel or two writers at once
\* came in between: nothing repairs what those leave apart.
SettledAgree ==
    ~disturbed /\ run.pc = "off" /\ Busy = {} =>
        /\ \A e \in published : audit[e] = 1
        /\ LoadPortfolio = fills

\* A fill whose reconciliation reported success is part of the portfolio
\* (crates/server/src/routes.rs:414, "updated portfolio snapshot").
RecordedIsApplied ==
    \A f \in recorded : LoadPortfolio[f] >= 1

\* A run that has stopped trading ends: the subscriber drains its backlog and the
\* loop stops waiting for it.
StoppedRunEnds == (run.pc \in {"save", "end", "drain"}) ~> (run.pc = "off")
================================================================================

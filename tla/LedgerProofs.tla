------------------------------ MODULE LedgerProofs ------------------------------
(***************************************************************************)
(* What the tables, the snapshot and the running portfolio hold, for any   *)
(* number of runs, ticks, reconciliations and faults and any capacity of   *)
(* the bus.                                                                *)
(***************************************************************************)
EXTENDS Ledger, FiniteSetTheorems, TLAPS

\* What a run loop publishes.
RunEvent ==
    PaperFill \cup ({"decided", "rejected"} \X (1..MaxTicks))
              \cup {<<"run_ended", r>> : r \in 1..MaxRuns}

--------------------------------------------------------------------------------
(* Types, and what is implied by where a process is *)

\* What each program counter implies, and what may be on the bus.
Placed ==
    /\ bus \in Seq(RunEvent)
    /\ run.pc = "order" => tick \in 1..MaxTicks
    /\ run.pc # "off" => runs \in 1..MaxRuns
    /\ run.pc = "off" => bus = <<>> /\ sub.pc = "recv"
    /\ sub.pc # "recv" => sub.ev \in RunEvent
    /\ sub.pc = "append_fill" => sub.ev \in PaperFill
    /\ \A r \in Recorder : rec[r].pc # "idle" => rec[r].fill \in TxFill
    /\ published \subseteq RunEvent

\* The part of the invariant about types.
TInv == LedgerTypeOK /\ Placed

--------------------------------------------------------------------------------
(* An event of a run is published once and handled once *)

\* Events are numbered by tick and run; the numbers to come are unused.
NumbersFresh ==
    /\ \A t \in 1..MaxTicks : t > tick => <<"decided", t>> \notin published
    /\ \A t \in 1..MaxTicks : t > tick \/ (t = tick /\ run.pc = "order") =>
          <<"fill", t>> \notin published /\ <<"rejected", t>> \notin published
    /\ \A r \in 1..MaxRuns :
          r > runs \/ (r = runs /\ run.pc \in {"tick", "order", "save", "end"}) =>
          <<"run_ended", r>> \notin published

\* Nothing is known anywhere of an event that was not published.
Untold ==
    /\ \A e \in RunEvent \ published : audit[e] = 0
    /\ \A i \in 1..Len(bus) : bus[i] \in published
    /\ sub.pc # "recv" => sub.ev \in published
    /\ \A f \in PaperFill \ published :
          /\ fills[f] = 0 /\ run.portfolio[f] = 0 /\ LoadPortfolio[f] = 0
          /\ \A r \in Recorder : rec[r].portfolio[f] = 0

\* What is still on its way is not in the tables yet.
OnItsWayOnce ==
    /\ \A i, j \in 1..Len(bus) : bus[i] = bus[j] => i = j
    /\ \A i \in 1..Len(bus) :
          /\ audit[bus[i]] = 0
          /\ bus[i] \in PaperFill => fills[bus[i]] = 0
          /\ sub.pc # "recv" => sub.ev # bus[i]
    /\ sub.pc # "recv" => audit[sub.ev] = 0
    /\ sub.pc = "append_fill" => fills[sub.ev] = 0
    /\ sub.pc = "append_audit" /\ sub.ev \in PaperFill => fills[sub.ev] = 1

\* No store counts a paper fill twice, and the audit log only what the table has.
CountedOnce ==
    /\ \A e \in RunEvent : audit[e] <= 1
    /\ \A f \in PaperFill :
          /\ audit[f] <= fills[f]
          /\ fills[f] <= 1 /\ run.portfolio[f] <= 1 /\ LoadPortfolio[f] <= 1
          /\ \A r \in Recorder : rec[r].portfolio[f] <= 1

\* The part of the invariant about the events of a run.
OInv == NumbersFresh /\ Untold /\ OnItsWayOnce /\ CountedOnce

--------------------------------------------------------------------------------
(* Transactions *)

\* The reconciliations of x that have appended the fill and owe the audit row.
Owed(x) ==
    {r \in Recorder : /\ rec[r].fill = <<"fill", x>>
                      /\ \/ rec[r].pc \in {"save", "append_audit"}
                         \/ rec[r].pc = "load" /\ r \notin HttpRec}

\* Every audit row of a transaction, written or still owed, has its row in the table.
RowsOwed ==
    \A x \in Tx : /\ IsFiniteSet(Owed(x))
                  /\ audit[<<"fill", x>>] + Cardinality(Owed(x)) <= fills[<<"fill", x>>]

\* Whoever holds the fill of a transaction has seen it succeed.
Received ==
    \A x \in Tx : receipt[x] # "ok" =>
        /\ fills[<<"fill", x>>] = 0
        /\ run.portfolio[<<"fill", x>>] = 0
        /\ LoadPortfolio[<<"fill", x>>] = 0
        /\ \A r \in Recorder : /\ rec[r].portfolio[<<"fill", x>>] = 0
                               /\ rec[r].fill = <<"fill", x>> => rec[r].pc \in {"idle", "poll"}

--------------------------------------------------------------------------------
(* Undisturbed, the three agree up to what is under way *)

\* Runs and reconciliations do not overlap.
OneWriter ==
    /\ run.pc # "off" => Busy = {}
    /\ \A r, q \in Busy : r = q

\* A published event is in the audit log or on its way to it.
NothingLost ==
    \A e \in published :
        \/ audit[e] = 1
        \/ \E i \in 1..Len(bus) : bus[i] = e
        \/ sub.pc # "recv" /\ sub.ev = e

\* The fill is still to be appended.
ToAppend(f) ==
    \/ \E i \in 1..Len(bus) : bus[i] = f
    \/ sub.pc = "append_fill" /\ sub.ev = f

\* Two accounts of the fills agree; or the first is one ahead, at f.
Same(p, q) == \A f \in Fill : p[f] = q[f]
SameBut(p, q, f) == \A g \in Fill : p[g] = IF g = f THEN q[g] + 1 ELSE q[g]

\* The running portfolio is ahead of the fills table by what is still to be appended.
RunAgrees ==
    /\ run.pc # "failed"
    /\ run.pc # "off" =>
         \A f \in Fill : run.portfolio[f] = IF ToAppend(f) THEN fills[f] + 1 ELSE fills[f]
    /\ run.pc \in {"end", "drain"} => Same(LoadPortfolio, run.portfolio)

\* A reconciliation is about to change one of the two, has changed one, or both.
RecAgrees(r) ==
    /\ \/ rec[r].pc = "append_audit"
       \/ rec[r].pc = "load" /\ r \in HttpRec
       \/ rec[r].pc = "append_fill" /\ r \notin HttpRec
       => Same(LoadPortfolio, fills)
    /\ rec[r].pc = "load" /\ r \notin HttpRec => SameBut(fills, LoadPortfolio, rec[r].fill)
    /\ rec[r].pc = "append_fill" /\ r \in HttpRec => SameBut(rec[r].portfolio, fills, rec[r].fill)
    /\ rec[r].pc = "save" => Same(rec[r].portfolio, fills)

\* Fills table, snapshot and audit log agree up to the step under way.
Agreed ==
    /\ OneWriter
    /\ NothingLost
    /\ RunAgrees
    /\ run.pc = "off" /\ Busy = {} => Same(LoadPortfolio, fills)
    /\ \A r \in Busy : RecAgrees(r)

\* A disturbed ledger is not claimed to agree.
AInv == ~disturbed => Agreed

--------------------------------------------------------------------------------
(* Lemmas about events, the bus and the counts *)

\* An event of a run is never the fill of a transaction: ticks are no hashes.
LEMMA EventFacts ==
    /\ PaperFill \subseteq RunEvent /\ PaperFill \subseteq Fill
    /\ TxFill \subseteq Fill
    /\ RunEvent \subseteq Event /\ Fill \subseteq Event
    /\ TxFill \cap RunEvent = {}
    /\ \A e \in RunEvent : e \in Fill => e \in PaperFill
    /\ \A f \in Fill : f \in PaperFill \/ f \in TxFill
    /\ \A t \in 1..MaxTicks : /\ <<"decided", t>> \in RunEvent \ Fill
                              /\ <<"rejected", t>> \in RunEvent \ Fill
                              /\ <<"fill", t>> \in PaperFill
    /\ \A r \in 1..MaxRuns : <<"run_ended", r>> \in RunEvent \ Fill
    /\ \A x \in Tx : <<"fill", x>> \in TxFill
    /\ \A f \in TxFill : \E x \in Tx : f = <<"fill", x>>
BY LedgerAssumption DEF RunEvent, Event, Fill, PaperFill, TxFill

\* Publishing appends one event and may push out the oldest.
LEMMA PublishFacts ==
    ASSUME NEW e \in RunEvent, bus \in Seq(RunEvent), Len(bus) <= Capacity, Publish(e)
    PROVE  /\ bus' \in Seq(RunEvent) /\ Len(bus') <= Capacity
           /\ Len(bus') \in Nat \ {0} /\ bus'[Len(bus')] = e
           /\ \E d \in {0, 1} : \A i \in 1..Len(bus') : i # Len(bus') =>
                 i + d \in 1..Len(bus) /\ bus'[i] = bus[i + d]
           /\ ~disturbed' => /\ ~disturbed
                             /\ \A i \in 1..Len(bus) : i \in 1..Len(bus') /\ bus'[i] = bus[i]
<1>0. Capacity \in Nat \ {0}
  BY LedgerAssumption
<1>1. CASE Len(bus) < Capacity
  <2>1. bus' = Append(bus, e)
    BY <1>1 DEF Publish
  <2>2. /\ bus' \in Seq(RunEvent) /\ Len(bus') = Len(bus) + 1 /\ Len(bus) \in Nat
        /\ bus'[Len(bus')] = e
        /\ \A i \in 1..Len(bus) : bus'[i] = bus[i]
    BY <2>1
  <2>3. \A i \in 1..Len(bus') : i # Len(bus') => i + 0 \in 1..Len(bus) /\ bus'[i] = bus[i + 0]
    BY <2>2
  <2>4. ~disturbed' => ~disturbed
    BY Zenon DEF Publish
  <2>5. \E d \in {0, 1} : \A i \in 1..Len(bus') : i # Len(bus') =>
           i + d \in 1..Len(bus) /\ bus'[i] = bus[i + d]
    <3> WITNESS 0 \in {0, 1}
    <3> QED
      BY <2>3
  <2> QED
    BY <1>0, <1>1, <2>2, <2>4, <2>5
<1>2. CASE Len(bus) = Capacity
  <2>1. bus' = Append(Tail(bus), e)
    BY <1>0, <1>2 DEF Publish
  <2>2. /\ Tail(bus) \in Seq(RunEvent) /\ Len(Tail(bus)) = Len(bus) - 1 /\ Len(bus) \in Nat \ {0}
        /\ \A i \in 1..(Len(bus) - 1) : Tail(bus)[i] = bus[i + 1]
    BY <1>0, <1>2
  <2>3. /\ bus' \in Seq(RunEvent) /\ Len(bus') = Len(bus)
        /\ bus'[Len(bus')] = e
        /\ \A i \in 1..(Len(bus) - 1) : bus'[i] = Tail(bus)[i]
    BY <2>1, <2>2
  <2>4. disturbed'
    BY <1>2, Zenon DEF Publish
  <2>5. \E d \in {0, 1} : \A i \in 1..Len(bus') : i # Len(bus') =>
           i + d \in 1..Len(bus) /\ bus'[i] = bus[i + d]
    <3> WITNESS 1 \in {0, 1}
    <3> TAKE i \in 1..Len(bus')
    <3> HAVE i # Len(bus')
    <3>0. Len(bus') = Len(bus) /\ Len(bus) \in Nat
      BY <2>2, <2>3
    <3>1. i \in 1..(Len(bus) - 1) /\ i + 1 \in 1..Len(bus)
      BY <3>0
    <3> QED
      BY <2>2, <2>3, <3>1
  <2> QED
    BY <1>2, <2>2, <2>3, <2>4, <2>5
<1> QED
  BY <1>0, <1>1, <1>2

\* Receiving takes the oldest event.
LEMMA ReceiveFacts ==
    ASSUME bus \in Seq(RunEvent), Receive
    PROVE  /\ Len(bus) \in Nat \ {0} /\ sub'.ev = bus[1] /\ bus[1] \in RunEvent
           /\ sub'.pc = IF bus[1] \in Fill THEN "append_fill" ELSE "append_audit"
           /\ bus' \in Seq(RunEvent) /\ Len(bus') = Len(bus) - 1
           /\ \A i \in 1..Len(bus') : i + 1 \in 1..Len(bus) /\ bus'[i] = bus[i + 1]
<1>1. bus # <<>> /\ bus' = Tail(bus)
  BY DEF Receive
<1>2. /\ Len(bus) \in Nat \ {0} /\ bus[1] \in RunEvent /\ Head(bus) = bus[1]
      /\ bus' \in Seq(RunEvent) /\ Len(bus') = Len(bus) - 1
      /\ \A i \in 1..(Len(bus) - 1) : bus'[i] = bus[i + 1]
  BY <1>1
<1> QED
  BY <1>2 DEF Receive

\* Counting once more.
LEMMA WithFacts ==
    ASSUME NEW S, NEW counts \in [S -> Nat], NEW x \in S
    PROVE  /\ With(counts, x) \in [S -> Nat]
           /\ \A y \in S : With(counts, x)[y] = IF y = x THEN counts[y] + 1 ELSE counts[y]
BY DEF With

\* load_portfolio returns a portfolio, empty when there is no snapshot.
LEMMA LoadFacts ==
    /\ NoFills \in Portfolio /\ \A f \in Fill : NoFills[f] = 0
    /\ LedgerTypeOK => LoadPortfolio \in Portfolio
    /\ \A p : snapshot' = <<p>> => LoadPortfolio' = p
BY DEF NoFills, Portfolio, LedgerTypeOK, LoadPortfolio

--------------------------------------------------------------------------------
(* Types *)

\* Where a run, and a reconciliation, can be.
RunPC == {"off", "tick", "order", "save", "end", "drain", "failed"}

\* The initial state has its types.
LEMMA TypesInitially == Init => TInv
<1> SUFFICES ASSUME Init PROVE TInv
  OBVIOUS
<1>1. LedgerTypeOK
  <2>1. /\ Off \in [pc : RunPC, portfolio : Portfolio, bus_open : BOOLEAN]
        /\ NoRec \in [pc : {"idle", "poll", "load", "append_fill", "save", "append_audit"},
                      fill : TxFill \cup {NoEvent}, portfolio : Portfolio]
        /\ Waiting \in [pc : {"recv", "append_fill", "append_audit"}, ev : Event \cup {NoEvent}]
    BY LoadFacts DEF Off, NoRec, Waiting, RunPC
  <2>2. bus \in Seq(Event) /\ Len(bus) <= Capacity
    BY LedgerAssumption DEF Init
  <2>3. disturbed \in BOOLEAN
    BY Zenon DEF Init
  <2>4. /\ fills \in Portfolio /\ audit \in [Event -> Nat]
        /\ receipt \in [Tx -> {"none", "ok", "reverted"}]
        /\ tick \in 0..MaxTicks /\ runs \in 0..MaxRuns /\ faults \in 0..MaxFaults
    BY LoadFacts, LedgerAssumption DEF Init
  <2>5. snapshot = <<>> /\ run = Off /\ sub = Waiting /\ published = {} /\ recorded = {}
        /\ rec = [r \in Recorder |-> NoRec]
    BY DEF Init
  <2> QED
    BY <2>1, <2>2, <2>3, <2>4, <2>5 DEF LedgerTypeOK, RunPC
<1>2. Placed
  BY DEF Init, Placed, Off, Waiting, NoRec
<1> QED
  BY <1>1, <1>2 DEF TInv

\* A fault is counted within its bound.
LEMMA FaultTypes ==
    ASSUME faults \in 0..MaxFaults, Fault PROVE faults' \in 0..MaxFaults /\ disturbed' \in BOOLEAN
<1>1. faults' \in 0..MaxFaults
  BY LedgerAssumption DEF Fault
<1>2. disturbed' \in BOOLEAN
  BY Zenon DEF Fault
<1> QED
  BY <1>1, <1>2

\* Steps of the run loop that publish.
LEMMA PublishTypes ==
    ASSUME TInv, NEW e \in RunEvent, Publish(e),
           run' \in [pc : RunPC \ {"off"}, portfolio : Portfolio, bus_open : BOOLEAN],
           run.pc # "off",
           tick' \in 0..MaxTicks, run'.pc = "order" => tick' \in 1..MaxTicks,
           UNCHANGED <<storeVars, sub, receipt, rec, runs, faults, recorded>>
    PROVE  TInv'
<1>1. /\ bus' \in Seq(RunEvent) /\ Len(bus') <= Capacity
  BY PublishFacts DEF TInv, Placed, LedgerTypeOK
<1>2. bus' \in Seq(Event)
  BY <1>1, EventFacts
<1>3. published' \subseteq RunEvent /\ published' \subseteq Event
  BY EventFacts DEF Publish, TInv, Placed
<1>4. disturbed' \in BOOLEAN
  BY Zenon DEF Publish
<1>5. LedgerTypeOK'
  BY <1>1, <1>2, <1>3, <1>4 DEF TInv, LedgerTypeOK, storeVars, RunPC
<1>6. Placed'
  BY <1>1, <1>3 DEF TInv, Placed, storeVars, RunPC, LedgerTypeOK
<1> QED
  BY <1>5, <1>6 DEF TInv

\* The end of a process, and the start of the next.
LEMMA FreshTypes ==
    ASSUME TInv, run' \in [pc : RunPC, portfolio : Portfolio, bus_open : BOOLEAN],
           run'.pc # "order",
           runs' \in 0..MaxRuns, run'.pc # "off" => runs' \in 1..MaxRuns,
           bus' = <<>>, sub' = Waiting, faults' \in 0..MaxFaults, disturbed' \in BOOLEAN,
           UNCHANGED <<storeVars, receipt, rec, tick, published, recorded>>
    PROVE  TInv'
<1>1. bus' \in Seq(RunEvent) /\ bus' \in Seq(Event) /\ Len(bus') <= Capacity
  BY LedgerAssumption
<1>2. /\ sub' \in [pc : {"recv", "append_fill", "append_audit"}, ev : Event \cup {NoEvent}]
      /\ sub'.pc = "recv"
  BY DEF Waiting
<1>3. LedgerTypeOK'
  BY <1>1, <1>2 DEF TInv, LedgerTypeOK, storeVars, RunPC
<1>4. Placed'
  BY <1>1, <1>2 DEF TInv, Placed, storeVars
<1> QED
  BY <1>3, <1>4 DEF TInv

\* A run that is off and a reconciliation that is idle have their types.
LEMMA OffTyped ==
    /\ Off \in [pc : RunPC, portfolio : Portfolio, bus_open : BOOLEAN] /\ Off.pc = "off"
    /\ NoRec \in [pc : {"idle", "poll", "load", "append_fill", "save", "append_audit"},
                  fill : TxFill \cup {NoEvent}, portfolio : Portfolio]
    /\ NoRec.pc = "idle" /\ NoRec.portfolio = NoFills
BY LoadFacts DEF Off, NoRec, RunPC

\* The loop moves on.
LEMMA LoopTypes ==
    ASSUME TInv, \/ StartRun \/ Decide \/ FillOrder \/ RejectOrder \/ NoOrder \/ StopFeed
                 \/ SavePortfolio \/ EndRun \/ Drained \/ Failed \/ CrashRun
    PROVE  TInv'
<1> USE DEF TInv
<1>0. /\ run \in [pc : RunPC, portfolio : Portfolio, bus_open : BOOLEAN]
      /\ tick \in 0..MaxTicks /\ runs \in 0..MaxRuns /\ faults \in 0..MaxFaults
      /\ MaxTicks \in Nat /\ MaxRuns \in Nat /\ MaxFaults \in Nat
      /\ disturbed \in BOOLEAN
  BY LedgerAssumption DEF LedgerTypeOK, RunPC
<1>1. CASE StartRun
  <2>1. /\ run' \in [pc : RunPC, portfolio : Portfolio, bus_open : BOOLEAN]
        /\ run'.pc = "tick"
    BY <1>1, LoadFacts DEF StartRun, RunPC
  <2>2. runs' \in 1..MaxRuns /\ runs' \in 0..MaxRuns
    BY <1>0, <1>1 DEF StartRun
  <2>3. disturbed' \in BOOLEAN
    BY <1>1, Zenon DEF StartRun
  <2>4. /\ bus' = <<>> /\ sub' = Waiting
        /\ UNCHANGED <<storeVars, receipt, rec, tick, faults, published, recorded>>
    BY <1>1 DEF StartRun
  <2> QED
    BY <1>0, <2>1, <2>2, <2>3, <2>4, FreshTypes
<1>2. CASE Decide
  <2>1. tick + 1 \in 1..MaxTicks /\ tick' = tick + 1
    BY <1>0, <1>2 DEF Decide
  <2>2. /\ run' \in [pc : RunPC \ {"off"}, portfolio : Portfolio, bus_open : BOOLEAN]
        /\ run.pc # "off"
    BY <1>0, <1>2 DEF Decide, RunPC
  <2>3. tick' \in 1..MaxTicks /\ tick' \in 0..MaxTicks /\ Publish(<<"decided", tick'>>)
    BY <1>0, <1>2, <2>1 DEF Decide
  <2>4. <<"decided", tick'>> \in RunEvent
    BY <2>3, EventFacts
  <2> QED
    BY <1>2, <2>2, <2>3, <2>4, PublishTypes DEF Decide
<1>3. CASE FillOrder
  <2>1. tick \in 1..MaxTicks /\ <<"fill", tick>> \in Fill /\ <<"fill", tick>> \in RunEvent
    BY <1>3, EventFacts DEF FillOrder, Placed
  <2>2. With(run.portfolio, <<"fill", tick>>) \in Portfolio
    BY <1>0, <2>1, WithFacts DEF Portfolio
  <2>3. /\ run' \in [pc : RunPC \ {"off"}, portfolio : Portfolio, bus_open : BOOLEAN]
        /\ run.pc # "off" /\ run'.pc = "tick"
    BY <1>0, <1>3, <2>2 DEF FillOrder, RunPC
  <2> QED
    BY <1>0, <1>3, <2>1, <2>3, PublishTypes DEF FillOrder
<1>4. CASE RejectOrder
  <2>1. tick \in 1..MaxTicks /\ <<"rejected", tick>> \in RunEvent
    BY <1>4, EventFacts DEF RejectOrder, Placed
  <2>2. /\ run' \in [pc : RunPC \ {"off"}, portfolio : Portfolio, bus_open : BOOLEAN]
        /\ run.pc # "off" /\ run'.pc = "tick"
    BY <1>0, <1>4 DEF RejectOrder, RunPC
  <2> QED
    BY <1>0, <1>4, <2>1, <2>2, PublishTypes DEF RejectOrder
<1>5. CASE EndRun
  <2>1. runs \in 1..MaxRuns /\ <<"run_ended", runs>> \in RunEvent
    BY <1>5, EventFacts DEF EndRun, Placed
  <2>2. /\ run' \in [pc : RunPC \ {"off"}, portfolio : Portfolio, bus_open : BOOLEAN]
        /\ run.pc # "off" /\ run'.pc = "drain"
    BY <1>0, <1>5 DEF EndRun, RunPC
  <2> QED
    BY <1>0, <1>5, <2>1, <2>2, PublishTypes DEF EndRun
<1>6. CASE NoOrder \/ StopFeed
  <2>1. /\ run' \in [pc : RunPC \ {"off", "order"}, portfolio : Portfolio, bus_open : BOOLEAN]
        /\ run.pc # "off"
        /\ UNCHANGED <<storeVars, bus, sub, receipt, rec, tick, runs, faults, published, disturbed, recorded>>
    BY <1>0, <1>6 DEF NoOrder, StopFeed, RunPC
  <2> QED
    BY <2>1 DEF LedgerTypeOK, Placed, storeVars, RunPC
<1>7. CASE SavePortfolio
  <2>1. /\ run' \in [pc : RunPC \ {"off", "order"}, portfolio : Portfolio, bus_open : BOOLEAN]
        /\ run.pc # "off"
        /\ snapshot' = <<run.portfolio>> \/ snapshot' = snapshot
        /\ UNCHANGED <<fills, audit, bus, sub, receipt, rec, tick, runs, published, recorded>>
    BY <1>0, <1>7 DEF SavePortfolio, RunPC
  <2>2. faults' \in 0..MaxFaults /\ disturbed' \in BOOLEAN
    BY <1>0, <1>7, FaultTypes DEF SavePortfolio
  <2>3. snapshot' = <<>> \/ (Len(snapshot') = 1 /\ snapshot'[1] \in Portfolio)
    BY <1>0, <2>1 DEF LedgerTypeOK
  <2> QED
    BY <2>1, <2>2, <2>3 DEF LedgerTypeOK, Placed, RunPC
<1>8. CASE Drained \/ Failed \/ CrashRun
  <2>1. faults' \in 0..MaxFaults /\ disturbed' \in BOOLEAN
    BY <1>0, <1>8, FaultTypes DEF Drained, Failed, CrashRun
  <2>2. Exit
    BY <1>8 DEF Drained, Failed, CrashRun
  <2> QED
    BY <1>0, <2>1, <2>2, OffTyped, FreshTypes DEF Exit
<1> QED
  BY <1>1, <1>2, <1>3, <1>4, <1>5, <1>6, <1>7, <1>8

\* The subscriber writes.
LEMMA SubTypes ==
    ASSUME TInv, Receive \/ SubAppendFill \/ SubAppendAudit \/ SubFails PROVE TInv'
<1> USE DEF TInv
<1>0. /\ sub \in [pc : {"recv", "append_fill", "append_audit"}, ev : Event \cup {NoEvent}]
      /\ bus \in Seq(RunEvent) /\ Len(bus) <= Capacity
      /\ fills \in [Fill -> Nat] /\ audit \in [Event -> Nat] /\ faults \in 0..MaxFaults
  BY DEF LedgerTypeOK, Placed, Portfolio
<1>1. CASE Receive
  <2>1. /\ bus' \in Seq(RunEvent) /\ Len(bus') <= Capacity /\ sub'.ev \in RunEvent
        /\ sub'.pc # "recv" /\ (sub'.pc = "append_fill" => sub'.ev \in PaperFill)
    BY <1>0, <1>1, ReceiveFacts, EventFacts, LedgerAssumption
  <2>2. /\ bus' \in Seq(Event)
        /\ sub' \in [pc : {"recv", "append_fill", "append_audit"}, ev : Event \cup {NoEvent}]
    BY <1>1, <2>1, EventFacts DEF Receive
  <2>3. LedgerTypeOK'
    BY <1>1, <2>1, <2>2 DEF LedgerTypeOK, Receive, storeVars
  <2>4. Placed'
    BY <1>1, <2>1 DEF Placed, Receive, storeVars
  <2> QED
    BY <2>3, <2>4
<1>2. CASE SubAppendFill
  <2>1. sub.ev \in Fill /\ sub.ev \in RunEvent
    BY <1>2, EventFacts DEF SubAppendFill, Placed
  <2>2. fills' \in Portfolio
    BY <1>0, <1>2, <2>1, WithFacts DEF SubAppendFill, Portfolio
  <2>3. sub' \in [pc : {"append_audit"}, ev : Event \cup {NoEvent}] /\ sub'.ev = sub.ev
    BY <1>0, <1>2 DEF SubAppendFill
  <2>4. LedgerTypeOK'
    BY <1>2, <2>2, <2>3 DEF LedgerTypeOK, SubAppendFill
  <2>5. Placed'
    BY <1>2, <2>1, <2>3 DEF Placed, SubAppendFill
  <2> QED
    BY <2>4, <2>5
<1>3. CASE SubAppendAudit \/ SubFails
  <2>1. /\ sub' \in [pc : {"recv"}, ev : Event \cup {NoEvent}]
        /\ UNCHANGED <<snapshot, fills, run, bus, receipt, rec, tick, runs, published, recorded>>
    BY <1>3 DEF SubAppendAudit, SubFails, Waiting, storeVars
  <2>2. audit' \in [Event -> Nat]
    <3>1. CASE SubAppendAudit
      <4>1. sub.ev \in Event
        BY <3>1, EventFacts DEF Placed, SubAppendAudit
      <4> QED
        BY <1>0, <3>1, <4>1, WithFacts DEF SubAppendAudit
    <3>2. CASE SubFails
      BY <1>0, <3>2 DEF SubFails, storeVars
    <3> QED
      BY <1>3, <3>1, <3>2
  <2>3. faults' \in 0..MaxFaults /\ disturbed' \in BOOLEAN
    <3>1. CASE SubAppendAudit
      BY <3>1 DEF SubAppendAudit, LedgerTypeOK
    <3>2. CASE SubFails
      BY <1>0, <3>2, FaultTypes DEF SubFails
    <3> QED
      BY <1>3, <3>1, <3>2
  <2>4. LedgerTypeOK'
    BY <2>1, <2>2, <2>3 DEF LedgerTypeOK
  <2>5. Placed'
    BY <2>1 DEF Placed
  <2> QED
    BY <2>4, <2>5
<1> QED
  BY <1>1, <1>2, <1>3

\* A reconciliation.
RecRecord == [pc : {"idle", "poll", "load", "append_fill", "save", "append_audit"},
              fill : TxFill \cup {NoEvent}, portfolio : Portfolio]

\* The reconciliations, and the chain.
LEMMA RecTypes ==
    ASSUME TInv, NEW r \in Recorder, Reconcile(r) PROVE TInv'
<1> USE DEF TInv
<1>0. /\ rec \in [Recorder -> RecRecord]
      /\ fills \in [Fill -> Nat] /\ audit \in [Event -> Nat] /\ faults \in 0..MaxFaults
      /\ LoadPortfolio \in Portfolio /\ TxFill \subseteq Fill /\ Fill \subseteq Event
      /\ rec[r] \in RecRecord
  BY LoadFacts, EventFacts DEF LedgerTypeOK, Portfolio, RecRecord
<1>1. UNCHANGED <<runVars, receipt>>
  BY DEF Reconcile, BeginReconcile, Unconfirmed, Confirmed, RecLoad, RecAppendFill, RecSave,
         RecAppendAudit, RecFails
<1>2. /\ rec' \in [Recorder -> RecRecord]
      /\ \A s \in Recorder : rec'[s].pc # "idle" => rec'[s].fill \in TxFill
  <2>1. ASSUME NEW q \in RecRecord, rec' = [rec EXCEPT ![r] = q], q.pc # "idle" => q.fill \in TxFill
        PROVE  <1>2
    BY <1>0, <2>1 DEF Placed
  <2>2. ASSUME NEW x \in Tx, BeginReconcile(r, x) PROVE <1>2
    <3> DEFINE q == [pc |-> "poll", fill |-> <<"fill", x>>, portfolio |-> NoFills]
    <3>1. q \in RecRecord /\ q.fill \in TxFill
      BY EventFacts, LoadFacts DEF RecRecord
    <3>2. rec' = [rec EXCEPT ![r] = q]
      BY <2>2 DEF BeginReconcile
    <3> HIDE DEF q
    <3> QED
      BY <2>1, <3>1, <3>2
  <2>3. CASE Unconfirmed(r) \/ RecAppendAudit(r) \/ RecFails(r)
    <3>1. rec' = [rec EXCEPT ![r] = NoRec]
      BY <2>3 DEF Unconfirmed, RecAppendAudit, RecFails
    <3>2. NoRec \in RecRecord /\ NoRec.pc = "idle"
      BY OffTyped DEF RecRecord
    <3> QED
      BY <2>1, <3>1, <3>2
  <2>4. ASSUME NEW pc \in {"load", "append_fill", "save", "append_audit"}, rec[r].pc # "idle",
               rec' = [rec EXCEPT ![r].pc = pc]
        PROVE  <1>2
    <3> DEFINE q == [rec[r] EXCEPT !.pc = pc]
    <3>1. q \in RecRecord /\ q.fill \in TxFill
      BY <1>0, <2>4 DEF RecRecord, Placed
    <3>2. rec' = [rec EXCEPT ![r] = q]
      BY <1>0, <2>4
    <3> HIDE DEF q
    <3> QED
      BY <2>1, <3>1, <3>2
  <2>5. CASE Confirmed(r) \/ RecAppendFill(r) \/ RecSave(r)
    BY <2>4, <2>5 DEF Confirmed, RecAppendFill, RecSave
  <2>6. CASE RecLoad(r)
    <3> DEFINE q == [rec[r] EXCEPT !.pc = IF r \in HttpRec THEN "append_fill" ELSE "save",
                                   !.portfolio = With(LoadPortfolio, rec[r].fill)]
    <3>1. rec[r].fill \in TxFill
      BY <2>6 DEF RecLoad, Placed
    <3>2. With(LoadPortfolio, rec[r].fill) \in Portfolio
      BY <1>0, <3>1, WithFacts DEF Portfolio
    <3>3. q \in RecRecord /\ q.fill \in TxFill
      BY <1>0, <3>1, <3>2 DEF RecRecord
    <3>4. rec' = [rec EXCEPT ![r] = NoRec] \/ rec' = [rec EXCEPT ![r] = q]
      BY <1>0, <2>6 DEF RecLoad
    <3>5. NoRec \in RecRecord /\ NoRec.pc = "idle"
      BY OffTyped DEF RecRecord
    <3> HIDE DEF q
    <3> QED
      BY <2>1, <3>3, <3>4, <3>5
  <2> QED
    BY <2>2, <2>3, <2>5, <2>6 DEF Reconcile
<1>3. /\ fills' \in [Fill -> Nat] /\ audit' \in [Event -> Nat] /\ recorded' \subseteq TxFill
  <2>1. CASE RecAppendFill(r)
    BY <1>0, <2>1, WithFacts DEF RecAppendFill, Placed, LedgerTypeOK
  <2>2. CASE RecAppendAudit(r)
    BY <1>0, <2>2, WithFacts DEF RecAppendAudit, Placed, LedgerTypeOK
  <2>3. CASE ~RecAppendFill(r) /\ ~RecAppendAudit(r)
    BY <1>0, <2>3 DEF Reconcile, BeginReconcile, Unconfirmed, Confirmed, RecLoad, RecSave, RecFails,
           storeVars, LedgerTypeOK
  <2> QED
    BY <2>1, <2>2, <2>3
<1>4. snapshot' = <<>> \/ (Len(snapshot') = 1 /\ snapshot'[1] \in Portfolio)
  <2>1. CASE RecSave(r)
    BY <1>0, <2>1 DEF RecSave, RecRecord
  <2>2. CASE ~RecSave(r)
    BY <2>2 DEF Reconcile, BeginReconcile, Unconfirmed, Confirmed, RecLoad, RecAppendFill,
           RecAppendAudit, RecFails, storeVars, LedgerTypeOK
  <2> QED
    BY <2>1, <2>2
<1>5. faults' \in 0..MaxFaults /\ disturbed' \in BOOLEAN
  <2>1. CASE RecFails(r)
    BY <1>0, <2>1, FaultTypes DEF RecFails
  <2>2. CASE Confirmed(r)
    <3>1. disturbed' \in BOOLEAN
      BY <2>2, Zenon DEF Confirmed
    <3> QED
      BY <1>0, <2>2, <3>1 DEF Confirmed
  <2>3. CASE ~RecFails(r) /\ ~Confirmed(r)
    BY <2>3 DEF Reconcile, BeginReconcile, Unconfirmed, RecLoad, RecAppendFill, RecSave,
           RecAppendAudit, LedgerTypeOK
  <2> QED
    BY <2>1, <2>2, <2>3
<1>6. LedgerTypeOK'
  BY <1>1, <1>2, <1>3, <1>4, <1>5 DEF LedgerTypeOK, Portfolio, RecRecord, runVars
<1>7. Placed'
  BY <1>1, <1>2 DEF Placed, runVars
<1> QED
  BY <1>6, <1>7

\* Every step keeps the types.
LEMMA TypesInductive == TInv /\ [Next]_vars => TInv'
<1> SUFFICES ASSUME TInv, [Next]_vars PROVE TInv'
  OBVIOUS
<1>1. ASSUME NEW x \in Tx, NEW status \in {"ok", "reverted"}, Mine(x, status) PROVE TInv'
  BY <1>1 DEF TInv, LedgerTypeOK, Placed, Mine, storeVars, runVars
<1>2. CASE UNCHANGED vars
  BY <1>2 DEF TInv, LedgerTypeOK, Placed, vars
<1> QED
  BY <1>1, <1>2, LoopTypes, SubTypes, RecTypes DEF Next, RunEnds, StoreSubscriber

--------------------------------------------------------------------------------
(* An event of a run is handled once *)

\* Nothing is published before the first run.
LEMMA OnceInitially == Init => OInv
<1> SUFFICES ASSUME Init PROVE OInv
  OBVIOUS
<1>1. /\ published = {} /\ bus = <<>> /\ sub.pc = "recv"
      /\ fills = NoFills /\ run.portfolio = NoFills /\ LoadPortfolio = NoFills
      /\ \A r \in Recorder : rec[r].portfolio = NoFills
      /\ audit = [e \in Event |-> 0]
  BY DEF Init, Off, Waiting, NoRec, LoadPortfolio
<1>2. NumbersFresh
  BY <1>1 DEF NumbersFresh
<1>3. \A e \in RunEvent : audit[e] = 0
  BY <1>1, EventFacts
<1>4. \A f \in PaperFill : NoFills[f] = 0
  BY LoadFacts, EventFacts
<1>5. Untold
  BY <1>1, <1>3, <1>4 DEF Untold
<1>6. OnItsWayOnce
  BY <1>1 DEF OnItsWayOnce
<1>7. CountedOnce
  BY <1>1, <1>3, <1>4, EventFacts DEF CountedOnce
<1> QED
  BY <1>2, <1>5, <1>6, <1>7 DEF OInv

\* The loop publishes an event it has not published, and counts the fill it publishes.
LEMMA PublishOnce ==
    ASSUME TInv, OInv, NEW e \in RunEvent, e \notin published, Publish(e),
           \/ run'.portfolio = run.portfolio
           \/ e \in PaperFill /\ run'.portfolio = With(run.portfolio, e),
           UNCHANGED <<storeVars, sub, rec>>
    PROVE  Untold' /\ OnItsWayOnce' /\ CountedOnce'
<1> USE DEF TInv, OInv
<1>1. /\ bus' \in Seq(RunEvent)
      /\ Len(bus') \in Nat \ {0} /\ bus'[Len(bus')] = e
      /\ \E d \in {0, 1} : \A i \in 1..Len(bus') : i # Len(bus') =>
            i + d \in 1..Len(bus) /\ bus'[i] = bus[i + d]
  BY PublishFacts DEF Placed, LedgerTypeOK
<1>2. PICK d \in {0, 1} : \A i \in 1..Len(bus') : i # Len(bus') =>
            i + d \in 1..Len(bus) /\ bus'[i] = bus[i + d]
  BY <1>1
<1>3. /\ published' = published \cup {e} /\ LoadPortfolio' = LoadPortfolio
      /\ UNCHANGED <<audit, fills, sub, rec>>
  BY DEF Publish, storeVars, LoadPortfolio
<1>4. run.portfolio \in [Fill -> Nat]
  BY DEF LedgerTypeOK, Portfolio
<1>5. \A f \in PaperFill : f # e => run'.portfolio[f] = run.portfolio[f]
  BY <1>4, WithFacts, EventFacts
<1>6. \A f \in PaperFill : run'.portfolio[f] <= 1
  <2>1. \A f \in PaperFill : run.portfolio[f] <= 1
    BY DEF CountedOnce
  <2>2. ASSUME e \in PaperFill PROVE run.portfolio[e] = 0
    BY <2>2 DEF Untold
  <2>3. ASSUME e \in PaperFill PROVE run'.portfolio[e] <= 1
    BY <1>4, <2>2, <2>3, WithFacts, EventFacts
  <2> QED
    BY <1>5, <2>1, <2>3
<1>7. audit[e] = 0 /\ (e \in PaperFill => fills[e] = 0)
  BY DEF Untold
<1>8. \A i \in 1..Len(bus) : bus[i] # e
  BY DEF Untold
<1>9. Untold'
  <2>1. \A i \in 1..Len(bus') : bus'[i] \in published'
    BY <1>1, <1>2, <1>3 DEF Untold
  <2> QED
    BY <1>3, <1>5, <2>1 DEF Untold
<1>10. OnItsWayOnce'
  <2>1. ASSUME NEW i \in 1..Len(bus'), NEW j \in 1..Len(bus'), bus'[i] = bus'[j] PROVE i = j
    <3>1. CASE i # Len(bus') /\ j # Len(bus')
      <4>1. i + d \in 1..Len(bus) /\ j + d \in 1..Len(bus) /\ bus[i + d] = bus[j + d]
        BY <1>2, <2>1, <3>1
      <4>2. i + d = j + d
        BY <4>1 DEF OnItsWayOnce
      <4>3. i \in Nat /\ j \in Nat /\ d \in Nat
        BY <1>1
      <4> QED
        BY <4>2, <4>3
    <3> QED
      BY <1>1, <1>2, <1>8, <2>1, <3>1
  <2>2. ASSUME NEW i \in 1..Len(bus')
        PROVE  /\ audit[bus'[i]] = 0
               /\ bus'[i] \in PaperFill => fills[bus'[i]] = 0
               /\ sub.pc # "recv" => sub.ev # bus'[i]
    <3>1. CASE i = Len(bus')
      BY <1>1, <1>7, <3>1 DEF Untold
    <3>2. CASE i # Len(bus')
      BY <1>2, <3>2 DEF OnItsWayOnce
    <3> QED
      BY <3>1, <3>2
  <2> QED
    BY <1>3, <2>1, <2>2 DEF OnItsWayOnce
<1>11. CountedOnce'
  BY <1>3, <1>6 DEF CountedOnce
<1> QED
  BY <1>9, <1>10, <1>11

\* The loop moves on.
LEMMA LoopOnce ==
    ASSUME TInv, OInv,
           \/ StartRun \/ Decide \/ FillOrder \/ RejectOrder \/ NoOrder \/ StopFeed
           \/ SavePortfolio \/ EndRun \/ Drained \/ Failed \/ CrashRun
    PROVE  OInv'
<1> USE DEF TInv
<1>0. /\ run \in [pc : RunPC, portfolio : Portfolio, bus_open : BOOLEAN]
      /\ tick \in 0..MaxTicks /\ runs \in 0..MaxRuns
      /\ MaxTicks \in Nat /\ MaxRuns \in Nat
      /\ run.pc = "order" => tick \in 1..MaxTicks
      /\ run.pc # "off" => runs \in 1..MaxRuns
  BY LedgerAssumption DEF LedgerTypeOK, RunPC, Placed
<1>1. CASE StartRun
  <2>1. /\ run'.pc = "tick" /\ run'.portfolio = LoadPortfolio /\ bus' = <<>> /\ sub' = Waiting
        /\ runs' = runs + 1 /\ LoadPortfolio' = LoadPortfolio
        /\ UNCHANGED <<fills, audit, rec, tick, published>>
    BY <1>1 DEF StartRun, storeVars, LoadPortfolio
  <2>2. NumbersFresh'
    BY <1>0, <2>1 DEF OInv, NumbersFresh
  <2>3. Untold' /\ OnItsWayOnce'
    BY <2>1 DEF OInv, Untold, OnItsWayOnce, Waiting
  <2>4. CountedOnce'
    BY <2>1 DEF OInv, CountedOnce
  <2> QED
    BY <2>2, <2>3, <2>4 DEF OInv
<1>2. CASE Decide
  <2>1. /\ tick + 1 \in 1..MaxTicks /\ tick' = tick + 1 /\ run'.pc = "order" /\ run.pc = "tick"
        /\ run'.portfolio = run.portfolio /\ UNCHANGED <<runs, storeVars, sub, rec>>
    BY <1>0, <1>2 DEF Decide
  <2>2. tick' \in 1..MaxTicks /\ Publish(<<"decided", tick'>>) /\ tick' > tick
    BY <1>0, <1>2, <2>1 DEF Decide
  <2>3. <<"decided", tick'>> \in RunEvent /\ <<"decided", tick'>> \notin published
    BY <2>2, EventFacts DEF OInv, NumbersFresh
  <2>4. published' = published \cup {<<"decided", tick'>>}
    BY <2>2 DEF Publish
  <2>5. NumbersFresh'
    BY <1>0, <2>1, <2>4 DEF OInv, NumbersFresh
  <2> QED
    BY <2>1, <2>2, <2>3, <2>5, PublishOnce DEF OInv
<1>3. CASE FillOrder
  <2>1. /\ run.pc = "order" /\ run'.pc = "tick"
        /\ run'.portfolio = With(run.portfolio, <<"fill", tick>>)
        /\ tick \in 1..MaxTicks
        /\ Publish(<<"fill", tick>>) /\ UNCHANGED <<tick, runs, storeVars, sub, rec>>
    BY <1>0, <1>3 DEF FillOrder
  <2>2. <<"fill", tick>> \in PaperFill /\ <<"fill", tick>> \in RunEvent /\ <<"fill", tick>> \notin published
    BY <2>1, EventFacts DEF OInv, NumbersFresh
  <2>3. published' = published \cup {<<"fill", tick>>}
    BY <2>1 DEF Publish
  <2>4. NumbersFresh'
    BY <1>0, <2>1, <2>3 DEF OInv, NumbersFresh
  <2> QED
    BY <2>1, <2>2, <2>4, PublishOnce DEF OInv
<1>4. CASE RejectOrder
  <2>1. /\ run.pc = "order" /\ run'.pc = "tick" /\ run'.portfolio = run.portfolio
        /\ tick \in 1..MaxTicks
        /\ Publish(<<"rejected", tick>>) /\ UNCHANGED <<tick, runs, storeVars, sub, rec>>
    BY <1>0, <1>4 DEF RejectOrder
  <2>2. <<"rejected", tick>> \in RunEvent /\ <<"rejected", tick>> \notin published
    BY <2>1, EventFacts DEF OInv, NumbersFresh
  <2>3. published' = published \cup {<<"rejected", tick>>}
    BY <2>1 DEF Publish
  <2>4. NumbersFresh'
    BY <1>0, <2>1, <2>3 DEF OInv, NumbersFresh
  <2> QED
    BY <2>1, <2>2, <2>4, PublishOnce DEF OInv
<1>5. CASE EndRun
  <2>1. /\ run.pc = "end" /\ run'.pc = "drain" /\ run'.portfolio = run.portfolio
        /\ runs \in 1..MaxRuns
        /\ Publish(<<"run_ended", runs>>) /\ UNCHANGED <<tick, runs, storeVars, sub, rec>>
    BY <1>0, <1>5 DEF EndRun
  <2>2. <<"run_ended", runs>> \in RunEvent /\ <<"run_ended", runs>> \notin published
    BY <2>1, EventFacts DEF OInv, NumbersFresh
  <2>3. published' = published \cup {<<"run_ended", runs>>}
    BY <2>1 DEF Publish
  <2>4. NumbersFresh'
    BY <1>0, <2>1, <2>3 DEF OInv, NumbersFresh
  <2> QED
    BY <2>1, <2>2, <2>4, PublishOnce DEF OInv
<1>6. CASE NoOrder \/ StopFeed \/ SavePortfolio
  <2>1. /\ run'.pc \notin {"off", "order"} /\ run'.portfolio = run.portfolio
        /\ run.pc # "off" /\ (run'.pc = "end" => run.pc = "save")
        /\ run.pc \in {"tick", "order", "save"}
        /\ UNCHANGED <<fills, audit, bus, sub, rec, tick, runs, published>>
    BY <1>0, <1>6 DEF NoOrder, StopFeed, SavePortfolio, RunPC, storeVars
  <2>2. LoadPortfolio' = LoadPortfolio \/ LoadPortfolio' = run.portfolio
    BY <1>6, LoadFacts DEF NoOrder, StopFeed, SavePortfolio, storeVars, LoadPortfolio
  <2>3. NumbersFresh'
    BY <1>0, <2>1 DEF OInv, NumbersFresh
  <2>4. Untold' /\ OnItsWayOnce'
    BY <2>1, <2>2 DEF OInv, Untold, OnItsWayOnce
  <2>5. CountedOnce'
    BY <2>1, <2>2 DEF OInv, CountedOnce
  <2> QED
    BY <2>3, <2>4, <2>5 DEF OInv
<1>7. CASE Drained \/ Failed \/ CrashRun
  <2>1. /\ run'.pc = "off" /\ run'.portfolio = NoFills /\ bus' = <<>> /\ sub' = Waiting
        /\ LoadPortfolio' = LoadPortfolio
        /\ UNCHANGED <<fills, audit, rec, tick, runs, published>>
    BY <1>7 DEF Drained, Failed, CrashRun, Exit, Off, storeVars, LoadPortfolio
  <2>2. NumbersFresh'
    BY <1>0, <2>1 DEF OInv, NumbersFresh
  <2>3. \A f \in PaperFill : NoFills[f] = 0
    BY LoadFacts, EventFacts
  <2>4. Untold' /\ OnItsWayOnce'
    BY <2>1, <2>3 DEF OInv, Untold, OnItsWayOnce, Waiting
  <2>5. CountedOnce'
    BY <2>1, <2>3 DEF OInv, CountedOnce
  <2> QED
    BY <2>2, <2>4, <2>5 DEF OInv
<1> QED
  BY <1>1, <1>2, <1>3, <1>4, <1>5, <1>6, <1>7

\* The subscriber writes what it was told, once.
LEMMA SubOnce ==
    ASSUME TInv, OInv, Receive \/ SubAppendFill \/ SubAppendAudit \/ SubFails
    PROVE  OInv'
<1> USE DEF TInv
<1>0. /\ sub \in [pc : {"recv", "append_fill", "append_audit"}, ev : Event \cup {NoEvent}]
      /\ bus \in Seq(RunEvent)
      /\ fills \in [Fill -> Nat] /\ audit \in [Event -> Nat]
      /\ PaperFill \subseteq Fill /\ PaperFill \subseteq RunEvent /\ RunEvent \subseteq Event
  BY EventFacts DEF LedgerTypeOK, Placed, Portfolio
<1>1. /\ UNCHANGED <<run, tick, runs, published, rec>> /\ LoadPortfolio' = LoadPortfolio
  BY DEF Receive, SubAppendFill, SubAppendAudit, SubFails, storeVars, LoadPortfolio
<1>2. NumbersFresh'
  BY <1>1 DEF OInv, NumbersFresh
<1>3. CASE Receive
  <2>1. /\ Len(bus) \in Nat \ {0} /\ sub'.ev = bus[1] /\ bus[1] \in RunEvent
        /\ sub'.pc \in {"append_fill", "append_audit"}
        /\ sub'.pc = "append_fill" <=> bus[1] \in PaperFill
        /\ Len(bus') = Len(bus) - 1
        /\ \A i \in 1..Len(bus') : i + 1 \in 1..Len(bus) /\ bus'[i] = bus[i + 1]
        /\ 1 \in 1..Len(bus)
    BY <1>0, <1>3, ReceiveFacts, EventFacts
  <2>2. UNCHANGED <<fills, audit>>
    BY <1>3 DEF Receive, storeVars
  <2>3. Untold'
    BY <1>1, <2>1, <2>2 DEF OInv, Untold
  <2>4. ASSUME NEW i \in 1..Len(bus'), NEW j \in 1..Len(bus'), bus'[i] = bus'[j] PROVE i = j
    <3>1. i + 1 = j + 1
      BY <2>1, <2>4 DEF OInv, OnItsWayOnce
    <3>2. i \in Nat /\ j \in Nat
      BY <2>1
    <3> QED
      BY <3>1, <3>2
  <2>5. ASSUME NEW i \in 1..Len(bus')
        PROVE  /\ audit[bus'[i]] = 0 /\ (bus'[i] \in PaperFill => fills[bus'[i]] = 0)
               /\ bus[1] # bus'[i]
    <3>1. i + 1 # 1 /\ i + 1 \in 1..Len(bus) /\ bus'[i] = bus[i + 1]
      BY <2>1
    <3> QED
      BY <2>1, <3>1 DEF OInv, OnItsWayOnce
  <2>6. audit[bus[1]] = 0 /\ (bus[1] \in PaperFill => fills[bus[1]] = 0)
    BY <2>1 DEF OInv, OnItsWayOnce
  <2>7. OnItsWayOnce'
    BY <2>1, <2>2, <2>4, <2>5, <2>6 DEF OnItsWayOnce
  <2>8. CountedOnce'
    BY <1>1, <2>2 DEF OInv, CountedOnce
  <2> QED
    BY <1>2, <2>3, <2>7, <2>8 DEF OInv
<1>4. CASE SubAppendFill
  <2>1. /\ sub.pc = "append_fill" /\ sub'.pc = "append_audit" /\ sub'.ev = sub.ev
        /\ UNCHANGED <<audit, bus>> /\ fills' = With(fills, sub.ev)
    BY <1>0, <1>4 DEF SubAppendFill
  <2>2. sub.ev \in PaperFill /\ sub.ev \in Fill
    BY <1>0, <2>1 DEF Placed
  <2>3. \A f \in Fill : fills'[f] = IF f = sub.ev THEN fills[f] + 1 ELSE fills[f]
    BY <1>0, <2>1, <2>2, WithFacts
  <2>4. fills[sub.ev] = 0 /\ fills'[sub.ev] = 1 /\ audit[sub.ev] = 0 /\ sub.ev \in published
    BY <2>1, <2>2, <2>3 DEF OInv, OnItsWayOnce, Untold
  <2>5. Untold'
    BY <1>0, <1>1, <2>1, <2>3, <2>4 DEF OInv, Untold
  <2>6. OnItsWayOnce'
    BY <1>0, <2>1, <2>3, <2>4 DEF OInv, OnItsWayOnce
  <2>7. CountedOnce'
    BY <1>0, <1>1, <2>1, <2>3, <2>4 DEF OInv, CountedOnce
  <2> QED
    BY <1>2, <2>5, <2>6, <2>7 DEF OInv
<1>5. CASE SubAppendAudit
  <2>1. /\ sub.pc = "append_audit" /\ sub' = Waiting
        /\ UNCHANGED <<fills, bus>> /\ audit' = With(audit, sub.ev)
    BY <1>5 DEF SubAppendAudit
  <2>2. sub.ev \in RunEvent /\ sub.ev \in Event
    BY <1>0, <2>1 DEF Placed
  <2>3. \A e \in Event : audit'[e] = IF e = sub.ev THEN audit[e] + 1 ELSE audit[e]
    BY <1>0, <2>1, <2>2, WithFacts
  <2>4. /\ audit[sub.ev] = 0 /\ audit'[sub.ev] = 1 /\ sub.ev \in published
        /\ sub.ev \in PaperFill => fills[sub.ev] = 1
    BY <2>1, <2>2, <2>3 DEF OInv, OnItsWayOnce, Untold
  <2>5. Untold'
    BY <1>0, <1>1, <2>1, <2>3, <2>4 DEF OInv, Untold, Waiting
  <2>6. \A i \in 1..Len(bus) : bus[i] \in Event /\ bus[i] # sub.ev
    BY <1>0, <2>1 DEF OInv, OnItsWayOnce
  <2>7. OnItsWayOnce'
    BY <2>1, <2>3, <2>6 DEF OInv, OnItsWayOnce, Waiting
  <2>8. \A f \in PaperFill : audit'[f] <= fills[f]
    BY <1>0, <2>3, <2>4 DEF OInv, CountedOnce
  <2>9. CountedOnce'
    BY <1>0, <1>1, <2>1, <2>3, <2>4, <2>8 DEF OInv, CountedOnce
  <2> QED
    BY <1>2, <2>5, <2>7, <2>9 DEF OInv
<1>6. CASE SubFails
  <2>1. sub' = Waiting /\ UNCHANGED <<fills, audit, bus>>
    BY <1>6 DEF SubFails, storeVars
  <2>2. Untold' /\ OnItsWayOnce'
    BY <1>1, <2>1 DEF OInv, Untold, OnItsWayOnce, Waiting
  <2>3. CountedOnce'
    BY <1>1, <2>1 DEF OInv, CountedOnce
  <2> QED
    BY <1>2, <2>2, <2>3 DEF OInv
<1> QED
  BY <1>3, <1>4, <1>5, <1>6

\* What a step of a reconciliation may do to the tables, the snapshot and its own record:
\* the one fill it is about is a transaction's.
RecEffect(r) ==
    /\ UNCHANGED <<runVars, receipt>>
    /\ \A s \in Recorder : s # r => rec'[s] = rec[s]
    /\ \/ rec'[r].portfolio = rec[r].portfolio
       \/ rec'[r].portfolio = NoFills
       \/ rec[r].fill \in TxFill /\ rec'[r].portfolio = With(LoadPortfolio, rec[r].fill)
    /\ \/ fills' = fills
       \/ rec[r].fill \in TxFill /\ fills' = With(fills, rec[r].fill)
    /\ \/ audit' = audit
       \/ rec[r].fill \in TxFill /\ audit' = With(audit, rec[r].fill)
    /\ LoadPortfolio' = LoadPortfolio \/ LoadPortfolio' = rec[r].portfolio

\* Every step of a reconciliation, over HTTP or from the command line, is one of those.
LEMMA RecStep ==
    ASSUME TInv, NEW r \in Recorder, Reconcile(r) PROVE RecEffect(r)
<1> USE DEF TInv, RecEffect
<1>0. /\ rec \in [Recorder -> RecRecord] /\ rec[r] \in RecRecord
      /\ rec[r].pc # "idle" => rec[r].fill \in TxFill
  BY DEF LedgerTypeOK, Placed, RecRecord
<1>1. ASSUME NEW x \in Tx, BeginReconcile(r, x) PROVE RecEffect(r)
  BY <1>0, <1>1 DEF BeginReconcile, storeVars, LoadPortfolio
<1>2. CASE Unconfirmed(r) \/ RecFails(r)
  BY <1>0, <1>2 DEF Unconfirmed, RecFails, NoRec, storeVars, LoadPortfolio
<1>3. CASE Confirmed(r)
  BY <1>0, <1>3 DEF Confirmed, RecRecord, storeVars, LoadPortfolio
<1>4. CASE RecLoad(r)
  BY <1>0, <1>4 DEF RecLoad, RecRecord, NoRec, storeVars, LoadPortfolio
<1>5. CASE RecAppendFill(r)
  BY <1>0, <1>5 DEF RecAppendFill, RecRecord, LoadPortfolio
<1>6. CASE RecSave(r)
  BY <1>0, <1>6, LoadFacts DEF RecSave, RecRecord
<1>7. CASE RecAppendAudit(r)
  BY <1>0, <1>7 DEF RecAppendAudit, NoRec, LoadPortfolio
<1> QED
  BY <1>1, <1>2, <1>3, <1>4, <1>5, <1>6, <1>7 DEF Reconcile

\* A reconciliation leaves the events of the runs alone.
LEMMA RecOnce ==
    ASSUME TInv, OInv, NEW r \in Recorder, Reconcile(r) PROVE OInv'
<1> USE DEF TInv
<1>0. /\ PaperFill \subseteq Fill /\ PaperFill \subseteq RunEvent /\ RunEvent \subseteq Event
      /\ TxFill \subseteq Fill /\ TxFill \subseteq Event /\ TxFill \cap RunEvent = {}
      /\ fills \in [Fill -> Nat] /\ audit \in [Event -> Nat] /\ LoadPortfolio \in [Fill -> Nat]
      /\ bus \in Seq(RunEvent) /\ (sub.pc # "recv" => sub.ev \in RunEvent)
      /\ sub.pc = "append_fill" => sub.ev \in PaperFill
      /\ UNCHANGED <<run, bus, sub, tick, runs, published>>
  BY EventFacts, LoadFacts, RecStep DEF RecEffect, LedgerTypeOK, Portfolio, Placed, runVars
<1>a. ASSUME NEW g \in TxFill
      PROVE  /\ \A e \in RunEvent : With(audit, g)[e] = audit[e]
             /\ \A f \in PaperFill : /\ With(fills, g)[f] = fills[f]
                                     /\ With(LoadPortfolio, g)[f] = LoadPortfolio[f]
  <2>1. g \in Event /\ g \in Fill /\ g \notin RunEvent
    BY <1>0
  <2> HIDE DEF TInv
  <2>4. audit \in [Event -> Nat]
    BY <1>0
  <2>5. fills \in [Fill -> Nat] /\ LoadPortfolio \in [Fill -> Nat]
    BY <1>0
  <2>2. \A e \in Event : With(audit, g)[e] = IF e = g THEN audit[e] + 1 ELSE audit[e]
    BY <2>1, <2>4, WithFacts
  <2>3. \A f \in Fill : /\ With(fills, g)[f] = IF f = g THEN fills[f] + 1 ELSE fills[f]
                        /\ With(LoadPortfolio, g)[f] = IF f = g THEN LoadPortfolio[f] + 1 ELSE LoadPortfolio[f]
    BY <2>1, <2>5, WithFacts
  <2> QED
    BY <1>0, <2>1, <2>2, <2>3
<1>1. \A e \in RunEvent : audit'[e] = audit[e]
  BY <1>a, RecStep DEF RecEffect
<1>2. \A f \in PaperFill : fills'[f] = fills[f]
  BY <1>a, RecStep DEF RecEffect
<1>3. \A f \in PaperFill : \/ LoadPortfolio'[f] = LoadPortfolio[f]
                           \/ LoadPortfolio'[f] = rec[r].portfolio[f]
  BY RecStep DEF RecEffect
<1>4. ASSUME NEW s \in Recorder, NEW f \in PaperFill
      PROVE  \/ rec'[s].portfolio[f] = rec[s].portfolio[f]
             \/ rec'[s].portfolio[f] = 0
             \/ rec'[s].portfolio[f] = LoadPortfolio[f]
  <2>1. CASE s # r
    BY <2>1, RecStep DEF RecEffect
  <2>2. CASE rec'[r].portfolio = With(LoadPortfolio, rec[r].fill) /\ rec[r].fill \in TxFill
    BY <1>a, <2>1, <2>2
  <2> QED
    BY <1>0, <2>1, <2>2, RecStep, LoadFacts DEF RecEffect
<1>5. NumbersFresh'
  BY <1>0 DEF OInv, NumbersFresh
<1>6. Untold'
  <2>1. \A f \in PaperFill \ published :
          /\ fills'[f] = 0 /\ run'.portfolio[f] = 0 /\ LoadPortfolio'[f] = 0
          /\ \A s \in Recorder : rec'[s].portfolio[f] = 0
    <3> SUFFICES ASSUME NEW f \in PaperFill, f \notin published
                 PROVE  /\ fills'[f] = 0 /\ run'.portfolio[f] = 0 /\ LoadPortfolio'[f] = 0
                        /\ \A s \in Recorder : rec'[s].portfolio[f] = 0
      OBVIOUS
    <3>1. /\ fills[f] = 0 /\ run.portfolio[f] = 0 /\ LoadPortfolio[f] = 0
          /\ \A s \in Recorder : rec[s].portfolio[f] = 0
      BY DEF OInv, Untold
    <3> QED
      BY <1>0, <1>2, <1>3, <1>4, <3>1
  <2> QED
    BY <1>0, <1>1, <2>1 DEF OInv, Untold
<1>7. \A i \in 1..Len(bus) : bus[i] \in RunEvent
  BY <1>0
<1>8. OnItsWayOnce'
  BY <1>0, <1>1, <1>2, <1>7 DEF OInv, OnItsWayOnce
<1>9. CountedOnce'
  <2>1. \A f \in PaperFill :
          /\ run'.portfolio[f] <= 1 /\ LoadPortfolio'[f] <= 1
          /\ \A s \in Recorder : rec'[s].portfolio[f] <= 1
    <3> SUFFICES ASSUME NEW f \in PaperFill
                 PROVE  /\ run'.portfolio[f] <= 1 /\ LoadPortfolio'[f] <= 1
                        /\ \A s \in Recorder : rec'[s].portfolio[f] <= 1
      OBVIOUS
    <3>1. /\ run.portfolio[f] <= 1 /\ LoadPortfolio[f] <= 1
          /\ \A s \in Recorder : rec[s].portfolio[f] <= 1
      BY DEF OInv, CountedOnce
    <3>2. LoadPortfolio'[f] <= 1
      BY <1>3, <3>1
    <3>3. ASSUME NEW s \in Recorder PROVE rec'[s].portfolio[f] <= 1
      <4>1. 0 <= 1
        OBVIOUS
      <4> QED
        BY <1>4, <3>1, <4>1
    <3> QED
      BY <1>0, <3>1, <3>2, <3>3
  <2> QED
    BY <1>0, <1>1, <1>2, <2>1 DEF OInv, CountedOnce
<1> QED
  BY <1>5, <1>6, <1>8, <1>9 DEF OInv

\* Every step keeps it.
LEMMA OnceInductive == TInv /\ OInv /\ [Next]_vars => OInv'
<1> SUFFICES ASSUME TInv, OInv, [Next]_vars PROVE OInv'
  OBVIOUS
<1>1. CASE UNCHANGED vars \/ \E x \in Tx, status \in {"ok", "reverted"} : Mine(x, status)
  <2>1. /\ UNCHANGED <<run, bus, sub, tick, runs, published, fills, audit, rec>>
        /\ LoadPortfolio' = LoadPortfolio
    BY <1>1 DEF Mine, storeVars, runVars, vars, LoadPortfolio
  <2> QED
    BY <2>1 DEF OInv, NumbersFresh, Untold, OnItsWayOnce, CountedOnce
<1> QED
  BY <1>1, LoopOnce, SubOnce, RecOnce DEF Next, RunEnds, StoreSubscriber

--------------------------------------------------------------------------------
(* Transactions *)

\* No transaction is on record before the first step.
LEMMA TxInitially == Init => RowsOwed /\ Received
<1> SUFFICES ASSUME Init PROVE RowsOwed /\ Received
  OBVIOUS
<1>1. /\ rec = [r \in Recorder |-> NoRec] /\ run.portfolio = NoFills /\ fills = NoFills
      /\ LoadPortfolio = NoFills /\ audit = [e \in Event |-> 0]
  BY DEF Init, Off, LoadPortfolio
<1>2. \A x \in Tx : /\ <<"fill", x>> \in Fill /\ <<"fill", x>> \in Event
                    /\ NoFills[<<"fill", x>>] = 0 /\ audit[<<"fill", x>>] = 0
  BY <1>1, EventFacts, LoadFacts
<1>3. \A x \in Tx : Owed(x) = {}
  BY <1>1 DEF Owed, NoRec
<1>4. IsFiniteSet({}) /\ Cardinality({}) = 0
  BY FS_EmptySet
<1>5. RowsOwed
  <2> SUFFICES ASSUME NEW x \in Tx
               PROVE  /\ IsFiniteSet(Owed(x))
                      /\ audit[<<"fill", x>>] + Cardinality(Owed(x)) <= fills[<<"fill", x>>]
    BY DEF RowsOwed
  <2>1. /\ IsFiniteSet(Owed(x)) /\ Cardinality(Owed(x)) = 0
        /\ audit[<<"fill", x>>] = 0 /\ fills[<<"fill", x>>] = 0
    BY <1>1, <1>2, <1>3, <1>4
  <2> QED
    BY <2>1
<1>6. Received
  BY <1>1, <1>2 DEF Received, NoRec
<1> QED
  BY <1>5, <1>6

\* The run loop and its subscriber write no fill of a transaction; they pass on what the
\* snapshot holds.
LEMMA LoopLeavesTx ==
    ASSUME TInv,
           \/ StartRun \/ Decide \/ FillOrder \/ RejectOrder \/ NoOrder \/ StopFeed
           \/ SavePortfolio \/ EndRun \/ Drained \/ Failed \/ CrashRun
           \/ Receive \/ SubAppendFill \/ SubAppendAudit \/ SubFails
    PROVE  /\ UNCHANGED <<rec, receipt>>
           /\ \A f \in TxFill :
                /\ fills'[f] = fills[f] /\ audit'[f] = audit[f]
                /\ run'.portfolio[f] \in {run.portfolio[f], LoadPortfolio[f], 0}
                /\ LoadPortfolio'[f] \in {LoadPortfolio[f], run.portfolio[f]}
<1> USE DEF TInv
<1>0. /\ run \in [pc : RunPC, portfolio : Portfolio, bus_open : BOOLEAN]
      /\ fills \in [Fill -> Nat] /\ audit \in [Event -> Nat] /\ run.portfolio \in [Fill -> Nat]
      /\ TxFill \subseteq Fill /\ TxFill \cap RunEvent = {} /\ PaperFill \subseteq RunEvent
      /\ PaperFill \subseteq Fill /\ RunEvent \subseteq Event /\ TxFill \subseteq Event
  BY EventFacts DEF LedgerTypeOK, RunPC, Portfolio
<1>1. UNCHANGED <<rec, receipt>>
  BY DEF StartRun, Decide, FillOrder, RejectOrder, NoOrder, StopFeed, SavePortfolio, EndRun,
         Drained, Failed, CrashRun, Exit, Receive, SubAppendFill, SubAppendAudit, SubFails
<1>2. ASSUME NEW f \in TxFill PROVE fills'[f] = fills[f]
  <2>1. CASE SubAppendFill
    <3>1. sub.ev \in Fill /\ f # sub.ev /\ f \in Fill
      BY <1>0, <2>1 DEF SubAppendFill, Placed
    <3>2. fills \in [Fill -> Nat]
      BY <1>0
    <3> QED
      BY <2>1, <3>1, <3>2, WithFacts DEF SubAppendFill
  <2>2. CASE ~SubAppendFill
    BY <2>2 DEF StartRun, Decide, FillOrder, RejectOrder, NoOrder, StopFeed, SavePortfolio, EndRun,
           Drained, Failed, CrashRun, Exit, Receive, SubAppendAudit, SubFails, storeVars
  <2> QED
    BY <2>1, <2>2
<1>3. ASSUME NEW f \in TxFill PROVE audit'[f] = audit[f]
  <2>1. CASE SubAppendAudit
    <3>1. sub.ev \in Event /\ f # sub.ev /\ f \in Event
      BY <1>0, <2>1 DEF SubAppendAudit, Placed
    <3>2. audit \in [Event -> Nat]
      BY <1>0
    <3> QED
      BY <2>1, <3>1, <3>2, WithFacts DEF SubAppendAudit
  <2>2. CASE ~SubAppendAudit
    BY <2>2 DEF StartRun, Decide, FillOrder, RejectOrder, NoOrder, StopFeed, SavePortfolio, EndRun,
           Drained, Failed, CrashRun, Exit, Receive, SubAppendFill, SubFails, storeVars
  <2> QED
    BY <2>1, <2>2
<1>4. ASSUME NEW f \in TxFill PROVE run'.portfolio[f] \in {run.portfolio[f], LoadPortfolio[f], 0}
  <2>1. CASE FillOrder
    <3>1. <<"fill", tick>> \in Fill /\ f # <<"fill", tick>> /\ f \in Fill
      BY <1>0, <2>1, EventFacts DEF FillOrder, Placed
    <3>2. run.portfolio \in [Fill -> Nat]
      BY <1>0
    <3>3. run'.portfolio = With(run.portfolio, <<"fill", tick>>)
      BY <1>0, <2>1 DEF FillOrder
    <3> QED
      BY <3>1, <3>2, <3>3, WithFacts
  <2>2. CASE Drained \/ Failed \/ CrashRun
    BY <1>0, <2>2, LoadFacts DEF Drained, Failed, CrashRun, Exit, Off
  <2>3. CASE ~(FillOrder \/ Drained \/ Failed \/ CrashRun)
    <3>0. CASE StartRun
      BY <3>0 DEF StartRun
    <3>1. CASE Receive \/ SubAppendFill \/ SubAppendAudit \/ SubFails
      BY <3>1 DEF Receive, SubAppendFill, SubAppendAudit, SubFails
    <3>2. CASE Decide \/ RejectOrder \/ NoOrder \/ StopFeed \/ SavePortfolio \/ EndRun
      <4>1. run'.portfolio = run.portfolio
        BY <1>0, <3>2 DEF Decide, RejectOrder, NoOrder, StopFeed, SavePortfolio, EndRun
      <4> QED
        BY <4>1
    <3> QED
      BY <2>3, <3>0, <3>1, <3>2
  <2> QED
    BY <2>1, <2>2, <2>3
<1>5. ASSUME NEW f \in TxFill PROVE LoadPortfolio'[f] \in {LoadPortfolio[f], run.portfolio[f]}
  <2>1. snapshot' = snapshot \/ snapshot' = <<run.portfolio>>
    BY DEF StartRun, Decide, FillOrder, RejectOrder, NoOrder, StopFeed, SavePortfolio, EndRun,
           Drained, Failed, CrashRun, Exit, Receive, SubAppendFill, SubAppendAudit, SubFails, storeVars
  <2>2. LoadPortfolio' = LoadPortfolio \/ LoadPortfolio' = run.portfolio
    BY <2>1, LoadFacts DEF LoadPortfolio
  <2> QED
    BY <2>2
<1> QED
  BY <1>1, <1>2, <1>3, <1>4, <1>5

\* The audit row of a reconciled fill is written after its fill.
LEMMA RowsInductive == TInv /\ RowsOwed /\ [Next]_vars => RowsOwed'
<1> SUFFICES ASSUME TInv, RowsOwed, [Next]_vars PROVE RowsOwed'
  OBVIOUS
<1> USE DEF TInv
<1>0. /\ rec \in [Recorder -> RecRecord] /\ fills \in [Fill -> Nat] /\ audit \in [Event -> Nat]
      /\ TxFill \subseteq Fill /\ TxFill \subseteq Event
      /\ \A x \in Tx : <<"fill", x>> \in TxFill
  BY EventFacts DEF LedgerTypeOK, RecRecord, Portfolio
<1>a. ASSUME NEW x \in Tx
      PROVE  /\ fills[<<"fill", x>>] \in Nat /\ audit[<<"fill", x>>] \in Nat
             /\ IsFiniteSet(Owed(x)) /\ Cardinality(Owed(x)) \in Nat
             /\ audit[<<"fill", x>>] + Cardinality(Owed(x)) <= fills[<<"fill", x>>]
  <2>1. /\ IsFiniteSet(Owed(x)) 
        /\ audit[<<"fill", x>>] + Cardinality(Owed(x)) <= fills[<<"fill", x>>]
    BY DEF RowsOwed
  <2>2. Cardinality(Owed(x)) \in Nat
    BY <2>1, FS_CardinalityType
  <2> QED
    BY <1>0, <2>1, <2>2
<1>1. ASSUME rec' = rec, \A f \in TxFill : fills'[f] = fills[f] /\ audit'[f] = audit[f]
      PROVE  RowsOwed'
  <2>1. \A x \in Tx : Owed(x)' = Owed(x)
    BY <1>1 DEF Owed
  <2> QED
    BY <1>0, <1>1, <2>1 DEF RowsOwed
<1>2. ASSUME NEW r \in Recorder, Reconcile(r) PROVE RowsOwed'
  <2>0. /\ rec[r] \in RecRecord
        /\ rec[r].pc # "idle" => rec[r].fill \in TxFill
        /\ \A s \in Recorder : s # r => rec'[s] = rec[s]
    BY <1>0, <1>2, RecStep DEF Placed, RecEffect
  <2>1. ASSUME \A x \in Tx : r \in Owed(x)' <=> r \in Owed(x), UNCHANGED <<fills, audit>>
        PROVE  RowsOwed'
    <3>1. \A x \in Tx : Owed(x)' = Owed(x)
      BY <2>0, <2>1 DEF Owed
    <3> QED
      BY <1>0, <2>1, <3>1 DEF RowsOwed
  <2>2. ASSUME NEW x \in Tx, BeginReconcile(r, x) PROVE RowsOwed'
    <3>1. \A y \in Tx : r \notin Owed(y) /\ r \notin Owed(y)'
      BY <1>0, <2>2 DEF BeginReconcile, Owed
    <3> QED
      BY <2>1, <2>2, <3>1 DEF BeginReconcile, storeVars
  <2>3. CASE Unconfirmed(r)
    <3>1. \A y \in Tx : r \notin Owed(y) /\ r \notin Owed(y)'
      BY <1>0, <2>3 DEF Unconfirmed, Owed, NoRec
    <3> QED
      BY <2>1, <2>3, <3>1 DEF Unconfirmed, storeVars
  <2>4. CASE Confirmed(r)
    <3>1. \A y \in Tx : r \notin Owed(y) /\ r \notin Owed(y)'
      BY <1>0, <2>0, <2>4 DEF Confirmed, Owed, RecRecord
    <3> QED
      BY <2>1, <2>4, <3>1 DEF Confirmed, storeVars
  <2>5. CASE RecLoad(r)
    <3>1. \A y \in Tx : r \in Owed(y)' <=> r \in Owed(y)
      BY <1>0, <2>0, <2>5 DEF RecLoad, Owed, RecRecord, NoRec
    <3> QED
      BY <2>1, <2>5, <3>1 DEF RecLoad, storeVars
  <2>6. CASE RecSave(r)
    <3>1. \A y \in Tx : r \in Owed(y)' <=> r \in Owed(y)
      BY <1>0, <2>0, <2>6 DEF RecSave, Owed, RecRecord
    <3> QED
      BY <2>1, <2>6, <3>1 DEF RecSave
  <2>7. CASE RecAppendFill(r)
    <3>1. rec[r].fill \in TxFill /\ rec[r].fill \in Fill
      BY <1>0, <2>0, <2>7 DEF RecAppendFill
    <3>2. \A f \in Fill : fills'[f] = IF f = rec[r].fill THEN fills[f] + 1 ELSE fills[f]
      <4>1. fills \in [Fill -> Nat]
        BY <1>0
      <4> QED
        BY <2>7, <3>1, <4>1, WithFacts DEF RecAppendFill
    <3>3. \A y \in Tx : Owed(y)' = IF rec[r].fill = <<"fill", y>> THEN Owed(y) \cup {r} ELSE Owed(y)
      BY <1>0, <2>0, <2>7 DEF RecAppendFill, Owed, RecRecord
    <3>4. \A y \in Tx : r \notin Owed(y)
      BY <2>7 DEF RecAppendFill, Owed
    <3>5. ASSUME NEW y \in Tx
          PROVE  /\ IsFiniteSet(Owed(y))'
                 /\ audit'[<<"fill", y>>] + Cardinality(Owed(y)') <= fills'[<<"fill", y>>]
      <4>1. CASE rec[r].fill = <<"fill", y>>
        <5>1. /\ IsFiniteSet(Owed(y) \cup {r})
              /\ Cardinality(Owed(y) \cup {r}) = Cardinality(Owed(y)) + 1
          BY <1>a, <3>4, FS_AddElement
        <5>2. fills'[<<"fill", y>>] = fills[<<"fill", y>>] + 1 /\ audit' = audit
          BY <2>7, <3>1, <3>2, <4>1 DEF RecAppendFill
        <5>3. Cardinality(Owed(y)') = Cardinality(Owed(y)) + 1 /\ IsFiniteSet(Owed(y)')
          BY <3>3, <4>1, <5>1
        <5> QED
          BY <1>a, <5>2, <5>3
      <4>2. CASE rec[r].fill # <<"fill", y>>
        <5>1. fills'[<<"fill", y>>] = fills[<<"fill", y>>] /\ audit' = audit
          BY <1>0, <2>7, <3>2, <4>2 DEF RecAppendFill
        <5> QED
          BY <1>a, <3>3, <4>2, <5>1
      <4> QED
        BY <4>1, <4>2
    <3> QED
      BY <3>5 DEF RowsOwed
  <2>8. CASE RecAppendAudit(r)
    <3>1. rec[r].fill \in TxFill /\ rec[r].fill \in Event
      BY <1>0, <2>0, <2>8 DEF RecAppendAudit
    <3>2. \A f \in Event : audit'[f] = IF f = rec[r].fill THEN audit[f] + 1 ELSE audit[f]
      <4>1. audit \in [Event -> Nat]
        BY <1>0
      <4> QED
        BY <2>8, <3>1, <4>1, WithFacts DEF RecAppendAudit
    <3>3. \A y \in Tx : Owed(y)' = IF rec[r].fill = <<"fill", y>> THEN Owed(y) \ {r} ELSE Owed(y)
      BY <1>0, <2>0, <2>8 DEF RecAppendAudit, Owed, NoRec
    <3>4. \A y \in Tx : rec[r].fill = <<"fill", y>> => r \in Owed(y)
      BY <2>8 DEF RecAppendAudit, Owed
    <3>5. ASSUME NEW y \in Tx
          PROVE  /\ IsFiniteSet(Owed(y))'
                 /\ audit'[<<"fill", y>>] + Cardinality(Owed(y)') <= fills'[<<"fill", y>>]
      <4>1. CASE rec[r].fill = <<"fill", y>>
        <5>1. /\ IsFiniteSet(Owed(y) \ {r})
              /\ Cardinality(Owed(y) \ {r}) = Cardinality(Owed(y)) - 1
          BY <1>a, <3>4, <4>1, FS_RemoveElement
        <5>2. audit'[<<"fill", y>>] = audit[<<"fill", y>>] + 1 /\ fills' = fills
          BY <2>8, <3>1, <3>2, <4>1 DEF RecAppendAudit
        <5>3. Cardinality(Owed(y)') = Cardinality(Owed(y)) - 1 /\ IsFiniteSet(Owed(y)')
          BY <3>3, <4>1, <5>1
        <5> QED
          BY <1>a, <5>2, <5>3
      <4>2. CASE rec[r].fill # <<"fill", y>>
        <5>1. audit'[<<"fill", y>>] = audit[<<"fill", y>>] /\ fills' = fills
          BY <1>0, <2>8, <3>2, <4>2 DEF RecAppendAudit
        <5> QED
          BY <1>a, <3>3, <4>2, <5>1
      <4> QED
        BY <4>1, <4>2
    <3> QED
      BY <3>5 DEF RowsOwed
  <2>9. CASE RecFails(r)
    <3>1. UNCHANGED <<fills, audit>>
      BY <2>9 DEF RecFails, storeVars
    <3>2. ASSUME NEW y \in Tx
          PROVE  /\ IsFiniteSet(Owed(y))'
                 /\ audit'[<<"fill", y>>] + Cardinality(Owed(y)') <= fills'[<<"fill", y>>]
      <4>1. Owed(y)' = Owed(y) \ {r}
        BY <1>0, <2>0, <2>9 DEF RecFails, Owed, NoRec
      <4>2. CASE r \in Owed(y)
        <5>1. /\ IsFiniteSet(Owed(y) \ {r})
              /\ Cardinality(Owed(y) \ {r}) = Cardinality(Owed(y)) - 1
          BY <1>a, <4>2, FS_RemoveElement
        <5> QED
          BY <1>a, <3>1, <4>1, <5>1
      <4>3. CASE r \notin Owed(y)
        <5>1. Owed(y)' = Owed(y)
          BY <4>1, <4>3
        <5> QED
          BY <1>a, <3>1, <5>1
      <4> QED
        BY <4>2, <4>3
    <3> QED
      BY <3>2 DEF RowsOwed
  <2> QED
    BY <1>2, <2>2, <2>3, <2>4, <2>5, <2>6, <2>7, <2>8, <2>9 DEF Reconcile
<1>3. CASE UNCHANGED vars \/ \E x \in Tx, status \in {"ok", "reverted"} : Mine(x, status)
  BY <1>1, <1>3 DEF Mine, storeVars, vars
<1> QED
  BY <1>1, <1>2, <1>3, LoopLeavesTx DEF Next, RunEnds, StoreSubscriber

\* Only a reconciliation that has seen the receipt holds the fill of a transaction.
LEMMA ReceivedInductive == TInv /\ Received /\ [Next]_vars => Received'
<1> SUFFICES ASSUME TInv, Received, [Next]_vars PROVE Received'
  OBVIOUS
<1> USE DEF TInv
<1>0. /\ rec \in [Recorder -> RecRecord] /\ fills \in [Fill -> Nat] /\ LoadPortfolio \in [Fill -> Nat]
      /\ TxFill \subseteq Fill /\ receipt \in [Tx -> {"none", "ok", "reverted"}]
      /\ \A x \in Tx : <<"fill", x>> \in TxFill
      /\ \A f \in Fill : NoFills[f] = 0
  BY EventFacts, LoadFacts DEF LedgerTypeOK, RecRecord, Portfolio
<1>1. ASSUME UNCHANGED <<rec, receipt>>,
             \A f \in TxFill :
                /\ fills'[f] = fills[f]
                /\ run'.portfolio[f] \in {run.portfolio[f], LoadPortfolio[f], 0}
                /\ LoadPortfolio'[f] \in {LoadPortfolio[f], run.portfolio[f]}
      PROVE  Received'
  BY <1>0, <1>1 DEF Received
<1>2. ASSUME NEW r \in Recorder, Reconcile(r) PROVE Received'
  <2> SUFFICES ASSUME NEW x \in Tx, receipt'[x] # "ok"
               PROVE  /\ fills'[<<"fill", x>>] = 0
                      /\ run'.portfolio[<<"fill", x>>] = 0
                      /\ LoadPortfolio'[<<"fill", x>>] = 0
                      /\ \A s \in Recorder :
                           /\ rec'[s].portfolio[<<"fill", x>>] = 0
                           /\ rec'[s].fill = <<"fill", x>> => rec'[s].pc \in {"idle", "poll"}
    BY DEF Received
  <2>0. RecEffect(r) /\ rec[r] \in RecRecord /\ receipt' = receipt
    BY <1>0, <1>2, RecStep DEF RecEffect
  <2>1. /\ fills[<<"fill", x>>] = 0 /\ run.portfolio[<<"fill", x>>] = 0
        /\ LoadPortfolio[<<"fill", x>>] = 0
        /\ \A s \in Recorder :
              /\ rec[s].portfolio[<<"fill", x>>] = 0
              /\ rec[s].fill = <<"fill", x>> => rec[s].pc \in {"idle", "poll"}
        /\ <<"fill", x>> \in Fill /\ <<"fill", x>> \in TxFill
    BY <1>0, <2>0 DEF Received
  <2>2. run'.portfolio[<<"fill", x>>] = 0
    BY <2>0, <2>1 DEF RecEffect, runVars
  <2>3. LoadPortfolio'[<<"fill", x>>] = 0
    BY <2>0, <2>1 DEF RecEffect
  <2>4. ASSUME NEW g \in TxFill, g # <<"fill", x>>
        PROVE  With(fills, g)[<<"fill", x>>] = 0 /\ With(LoadPortfolio, g)[<<"fill", x>>] = 0
    <3> HIDE DEF TInv
    <3>1. /\ g \in Fill /\ fills \in [Fill -> Nat] /\ LoadPortfolio \in [Fill -> Nat]
          /\ <<"fill", x>> \in Fill
      BY <1>0
    <3>2. With(fills, g)[<<"fill", x>>] = fills[<<"fill", x>>]
      <4>1. \A f \in Fill : With(fills, g)[f] = IF f = g THEN fills[f] + 1 ELSE fills[f]
        BY <3>1, WithFacts
      <4> QED
        BY <2>4, <3>1, <4>1
    <3>3. With(LoadPortfolio, g)[<<"fill", x>>] = LoadPortfolio[<<"fill", x>>]
      <4>1. \A f \in Fill : With(LoadPortfolio, g)[f] = IF f = g THEN LoadPortfolio[f] + 1 ELSE LoadPortfolio[f]
        BY <3>1, WithFacts
      <4> QED
        BY <2>4, <3>1, <4>1
    <3> QED
      BY <2>1, <3>2, <3>3
  <2>5. fills'[<<"fill", x>>] = 0
    <3>1. CASE RecAppendFill(r)
      BY <2>0, <2>1, <2>4, <3>1 DEF RecAppendFill, RecEffect, Placed
    <3>2. CASE ~RecAppendFill(r)
      BY <1>2, <2>1, <3>2 DEF Reconcile, BeginReconcile, Unconfirmed, Confirmed, RecLoad, RecSave,
             RecAppendAudit, RecFails, storeVars
    <3> QED
      BY <3>1, <3>2
  <2>6. rec'[r].portfolio[<<"fill", x>>] = 0
    <3>1. CASE RecLoad(r)
      <4>1. rec[r].fill # <<"fill", x>> /\ rec[r].fill \in TxFill
        BY <2>1, <3>1 DEF RecLoad, Placed
      <4> QED
        BY <1>0, <2>0, <2>1, <2>4, <4>1 DEF RecEffect
    <3>2. CASE ~RecLoad(r)
      <4>1. rec'[r].portfolio = rec[r].portfolio \/ rec'[r].portfolio = NoFills
        <5>1. ASSUME NEW y \in Tx, BeginReconcile(r, y) PROVE <4>1
          BY <1>0, <5>1 DEF BeginReconcile
        <5>2. CASE Unconfirmed(r) \/ RecAppendAudit(r) \/ RecFails(r)
          BY <1>0, <5>2 DEF Unconfirmed, RecAppendAudit, RecFails, NoRec
        <5>3. CASE Confirmed(r) \/ RecAppendFill(r) \/ RecSave(r)
          BY <1>0, <2>0, <5>3 DEF Confirmed, RecAppendFill, RecSave, RecRecord
        <5> QED
          BY <1>2, <3>2, <5>1, <5>2, <5>3 DEF Reconcile
      <4> QED
        BY <1>0, <2>1, <4>1
    <3> QED
      BY <3>1, <3>2
  <2>7. rec'[r].fill = <<"fill", x>> => rec'[r].pc \in {"idle", "poll"}
    <3>1. CASE Confirmed(r)
      <4>1. receipt[rec[r].fill[2]] = "ok" /\ rec'[r].fill = rec[r].fill
        BY <1>0, <2>0, <3>1 DEF Confirmed, Receipt, RecRecord
      <4> QED
        BY <2>0, <4>1
    <3>2. CASE Unconfirmed(r) \/ RecAppendAudit(r) \/ RecFails(r)
      BY <1>0, <3>2 DEF Unconfirmed, RecAppendAudit, RecFails, NoRec
    <3>3. CASE RecLoad(r)
      BY <1>0, <2>0, <2>1, <3>3 DEF RecLoad, NoRec, RecRecord
    <3>4. CASE RecAppendFill(r) \/ RecSave(r)
      BY <1>0, <2>0, <2>1, <3>4 DEF RecAppendFill, RecSave, RecRecord
    <3>5. ASSUME NEW y \in Tx, BeginReconcile(r, y) PROVE <2>7
      BY <1>0, <3>5 DEF BeginReconcile
    <3> QED
      BY <1>2, <3>1, <3>2, <3>3, <3>4, <3>5 DEF Reconcile
  <2> QED
    BY <2>0, <2>1, <2>2, <2>3, <2>5, <2>6, <2>7 DEF RecEffect
<1>3. ASSUME NEW x \in Tx, NEW status \in {"ok", "reverted"}, Mine(x, status) PROVE Received'
  <2>1. /\ UNCHANGED <<rec, fills, run>> /\ LoadPortfolio' = LoadPortfolio
        /\ \A y \in Tx : receipt'[y] # "ok" => receipt[y] # "ok"
    BY <1>0, <1>3 DEF Mine, storeVars, runVars, LoadPortfolio
  <2> QED
    BY <2>1 DEF Received
<1>4. CASE UNCHANGED vars
  BY <1>4 DEF vars, Received, LoadPortfolio
<1> QED
  BY <1>1, <1>2, <1>3, <1>4, LoopLeavesTx DEF Next, RunEnds, StoreSubscriber

--------------------------------------------------------------------------------
(* Undisturbed, the portfolio, the snapshot and the tables agree *)

\* There is nothing to agree on at first.
LEMMA AgreedInitially == Init => AInv
<1> SUFFICES ASSUME Init PROVE Agreed
  BY DEF AInv
<1>1. /\ run.pc = "off" /\ Busy = {} /\ published = {} /\ LoadPortfolio = fills
  BY DEF Init, Off, NoRec, Busy, LoadPortfolio
<1> QED
  BY <1>1 DEF Agreed, OneWriter, NothingLost, RunAgrees, Same

\* The loop publishes an event, with the fill it counts.
LEMMA PublishAgrees ==
    ASSUME TInv, OInv, Agreed, ~disturbed', run.pc # "off", run'.pc \notin {"off", "failed"},
           run'.pc \in {"end", "drain"} => run.pc = "end" /\ run'.portfolio = run.portfolio,
           NEW e \in RunEvent, e \notin published, Publish(e),
           \/ e \notin Fill /\ run'.portfolio = run.portfolio
           \/ e \in PaperFill /\ run'.portfolio = With(run.portfolio, e),
           UNCHANGED <<storeVars, sub, rec>>
    PROVE  Agreed'
<1> USE DEF TInv
<1>1. /\ Len(bus') \in Nat \ {0} /\ bus'[Len(bus')] = e
      /\ \E d \in {0, 1} : \A i \in 1..Len(bus') : i # Len(bus') =>
            i + d \in 1..Len(bus) /\ bus'[i] = bus[i + d]
      /\ \A i \in 1..Len(bus) : i \in 1..Len(bus') /\ bus'[i] = bus[i]
  BY PublishFacts DEF Placed, LedgerTypeOK
<1>2. PICK d \in {0, 1} : \A i \in 1..Len(bus') : i # Len(bus') =>
            i + d \in 1..Len(bus) /\ bus'[i] = bus[i + d]
  BY <1>1
<1>3. /\ published' = published \cup {e} /\ LoadPortfolio' = LoadPortfolio /\ Busy' = Busy
      /\ UNCHANGED <<audit, fills, sub, rec>>
  BY DEF Publish, storeVars, LoadPortfolio, Busy
<1>4. Busy = {}
  BY DEF Agreed, OneWriter
<1>5. \A f : (\E i \in 1..Len(bus') : bus'[i] = f) <=> f = e \/ \E i \in 1..Len(bus) : bus[i] = f
  <2>1. Len(bus') \in 1..Len(bus')
    BY <1>1
  <2>2. ASSUME NEW i \in 1..Len(bus') PROVE bus'[i] = e \/ \E j \in 1..Len(bus) : bus[j] = bus'[i]
    BY <1>1, <1>2
  <2>3. ASSUME NEW i \in 1..Len(bus) PROVE \E j \in 1..Len(bus') : bus'[j] = bus[i]
    BY <1>1
  <2> QED
    BY <1>1, <2>1, <2>2, <2>3
<1>6. NothingLost'
  BY <1>3, <1>5 DEF Agreed, NothingLost
<1>7. \A f : ToAppend(f)' <=> f = e \/ ToAppend(f)
  BY <1>3, <1>5 DEF ToAppend
<1>8. ~ToAppend(e)
  BY DEF OInv, Untold, ToAppend
<1>9. run.portfolio \in [Fill -> Nat] /\ fills \in [Fill -> Nat]
  BY DEF LedgerTypeOK, Portfolio
<1>10. ASSUME NEW f \in Fill
       PROVE  run'.portfolio[f] = IF ToAppend(f)' THEN fills'[f] + 1 ELSE fills'[f]
  <2>1. run.portfolio[f] = IF ToAppend(f) THEN fills[f] + 1 ELSE fills[f]
    BY DEF Agreed, RunAgrees
  <2>2. CASE f = e
    <3>1. run'.portfolio = With(run.portfolio, e) /\ e \in Fill
      BY <2>2
    <3>2. run'.portfolio[e] = run.portfolio[e] + 1
      BY <1>9, <3>1, WithFacts
    <3> QED
      BY <1>3, <1>7, <1>8, <2>1, <2>2, <3>2
  <2>3. CASE f # e
    <3>1. run'.portfolio[f] = run.portfolio[f]
      <4>1. CASE e \in PaperFill /\ run'.portfolio = With(run.portfolio, e)
        <5>1. e \in Fill
          BY <4>1, EventFacts
        <5> QED
          BY <1>9, <2>3, <4>1, <5>1, WithFacts
      <4> QED
        BY <4>1
    <3> QED
      BY <1>3, <1>7, <2>1, <2>3, <3>1
  <2> QED
    BY <2>2, <2>3
<1>11. run'.pc \in {"end", "drain"} => Same(LoadPortfolio', run'.portfolio)
  BY <1>3 DEF Agreed, RunAgrees
<1>12. RunAgrees'
  BY <1>10, <1>11 DEF RunAgrees, Same
<1> QED
  BY <1>3, <1>4, <1>6, <1>12 DEF Agreed, OneWriter

\* The loop moves on.
LEMMA LoopAgrees ==
    ASSUME TInv, OInv, AInv,
           \/ StartRun \/ Decide \/ FillOrder \/ RejectOrder \/ NoOrder \/ StopFeed
           \/ SavePortfolio \/ EndRun \/ Drained \/ Failed \/ CrashRun
    PROVE  AInv'
<1> SUFFICES ASSUME ~disturbed' PROVE Agreed'
  BY DEF AInv
<1> USE DEF TInv
<1>0. /\ run \in [pc : RunPC, portfolio : Portfolio, bus_open : BOOLEAN]
      /\ tick \in 0..MaxTicks /\ runs \in 0..MaxRuns /\ MaxTicks \in Nat /\ MaxRuns \in Nat
      /\ run.pc = "order" => tick \in 1..MaxTicks
      /\ run.pc # "off" => runs \in 1..MaxRuns
      /\ run.pc = "off" => bus = <<>> /\ sub.pc = "recv"
  BY LedgerAssumption DEF LedgerTypeOK, RunPC, Placed
<1>1. ~disturbed
  BY Zenon DEF StartRun, Decide, FillOrder, RejectOrder, NoOrder, StopFeed, SavePortfolio, EndRun,
         Drained, Failed, CrashRun, Publish, Fault
<1>2. Agreed
  BY <1>1 DEF AInv
<1>3. CASE StartRun
  <2>1. Busy = {}
    BY <1>3, Zenon DEF StartRun
  <2>2. /\ run'.pc = "tick" /\ run'.portfolio = LoadPortfolio /\ bus' = <<>> /\ sub' = Waiting
        /\ LoadPortfolio' = LoadPortfolio /\ Busy' = Busy /\ run.pc = "off"
        /\ UNCHANGED <<fills, audit, rec, published>>
    BY <1>3 DEF StartRun, storeVars, LoadPortfolio, Busy
  <2>3. NothingLost'
    BY <1>0, <1>2, <2>2 DEF Agreed, NothingLost
  <2>4. \A f \in Fill : ~ToAppend(f)'
    BY <2>2 DEF ToAppend, Waiting
  <2>5. RunAgrees'
    BY <1>2, <2>1, <2>2, <2>4 DEF Agreed, RunAgrees, Same
  <2> QED
    BY <2>1, <2>2, <2>3, <2>5 DEF Agreed, OneWriter
<1>4. CASE Decide
  <2>1. /\ tick + 1 \in 1..MaxTicks /\ tick' = tick + 1 /\ run'.pc = "order" /\ run.pc = "tick"
        /\ run'.portfolio = run.portfolio /\ UNCHANGED <<storeVars, sub, rec>>
    BY <1>0, <1>4 DEF Decide
  <2>2. tick' \in 1..MaxTicks /\ Publish(<<"decided", tick'>>) /\ tick' > tick
    BY <1>0, <1>4, <2>1 DEF Decide
  <2>3. /\ <<"decided", tick'>> \in RunEvent /\ <<"decided", tick'>> \notin Fill
        /\ <<"decided", tick'>> \notin published
    BY <2>2, EventFacts DEF OInv, NumbersFresh
  <2> QED
    BY <1>2, <2>1, <2>2, <2>3, PublishAgrees
<1>5. CASE FillOrder
  <2>1. /\ run.pc = "order" /\ run'.pc = "tick"
        /\ run'.portfolio = With(run.portfolio, <<"fill", tick>>)
        /\ tick \in 1..MaxTicks
        /\ Publish(<<"fill", tick>>) /\ UNCHANGED <<storeVars, sub, rec>>
    BY <1>0, <1>5 DEF FillOrder
  <2>2. <<"fill", tick>> \in PaperFill /\ <<"fill", tick>> \in RunEvent /\ <<"fill", tick>> \notin published
    BY <2>1, EventFacts DEF OInv, NumbersFresh
  <2> QED
    BY <1>2, <2>1, <2>2, PublishAgrees
<1>6. CASE RejectOrder
  <2>1. /\ run.pc = "order" /\ run'.pc = "tick" /\ run'.portfolio = run.portfolio
        /\ tick \in 1..MaxTicks
        /\ Publish(<<"rejected", tick>>) /\ UNCHANGED <<storeVars, sub, rec>>
    BY <1>0, <1>6 DEF RejectOrder
  <2>2. /\ <<"rejected", tick>> \in RunEvent /\ <<"rejected", tick>> \notin Fill
        /\ <<"rejected", tick>> \notin published
    BY <2>1, EventFacts DEF OInv, NumbersFresh
  <2> QED
    BY <1>2, <2>1, <2>2, PublishAgrees
<1>7. CASE EndRun
  <2>1. /\ run.pc = "end" /\ run'.pc = "drain" /\ run'.portfolio = run.portfolio
        /\ runs \in 1..MaxRuns
        /\ Publish(<<"run_ended", runs>>) /\ UNCHANGED <<storeVars, sub, rec>>
    BY <1>0, <1>7 DEF EndRun
  <2>2. /\ <<"run_ended", runs>> \in RunEvent /\ <<"run_ended", runs>> \notin Fill
        /\ <<"run_ended", runs>> \notin published
    BY <2>1, EventFacts DEF OInv, NumbersFresh
  <2> QED
    BY <1>2, <2>1, <2>2, PublishAgrees
<1>8. CASE NoOrder \/ StopFeed \/ SavePortfolio
  <2>1. ~Fault
    BY Zenon DEF Fault
  <2>2. /\ run'.portfolio = run.portfolio /\ run'.pc \notin {"off", "failed", "drain"}
        /\ run.pc # "off"
        /\ UNCHANGED <<fills, audit, bus, sub, rec, published>>
    BY <1>0, <1>8, <2>1 DEF NoOrder, StopFeed, SavePortfolio, storeVars
  <2>3. run'.pc = "end" => LoadPortfolio' = run.portfolio
    BY <1>0, <1>8, <2>1, LoadFacts DEF NoOrder, StopFeed, SavePortfolio
  <2>4. Busy' = Busy /\ Busy = {}
    BY <1>2, <2>2 DEF Agreed, OneWriter, Busy
  <2>5. RunAgrees'
    BY <1>2, <2>2, <2>3 DEF Agreed, RunAgrees, ToAppend, Same
  <2>6. NothingLost'
    BY <1>2, <2>2 DEF Agreed, NothingLost
  <2> QED
    BY <2>2, <2>4, <2>5, <2>6 DEF Agreed, OneWriter
<1>9. CASE Drained
  <2>1. /\ run.pc = "drain" /\ bus = <<>> /\ sub.pc = "recv"
        /\ run'.pc = "off" /\ bus' = <<>> /\ sub' = Waiting /\ LoadPortfolio' = LoadPortfolio
        /\ UNCHANGED <<fills, audit, rec, published>>
    BY <1>9 DEF Drained, Exit, Off, storeVars, LoadPortfolio
  <2>2. Busy' = Busy /\ Busy = {}
    BY <1>2, <2>1 DEF Agreed, OneWriter, Busy
  <2>3. \A f \in Fill : ~ToAppend(f)
    BY <2>1 DEF ToAppend
  <2>4. Same(LoadPortfolio', fills')
    BY <1>2, <2>1, <2>3 DEF Agreed, RunAgrees, Same
  <2>5. NothingLost'
    BY <1>2, <2>1 DEF Agreed, NothingLost
  <2> QED
    BY <2>1, <2>2, <2>4, <2>5 DEF Agreed, OneWriter, RunAgrees, Same
<1>10. CASE Failed
  BY <1>2, <1>10 DEF Failed, Agreed, RunAgrees
<1>11. CASE CrashRun
  <2>1. disturbed'
    BY <1>11, Zenon DEF CrashRun, Fault
  <2> QED
    BY <2>1
<1> QED
  BY <1>3, <1>4, <1>5, <1>6, <1>7, <1>8, <1>9, <1>10, <1>11

\* The subscriber writes.
LEMMA SubAgrees ==
    ASSUME TInv, OInv, AInv, Receive \/ SubAppendFill \/ SubAppendAudit \/ SubFails
    PROVE  AInv'
<1> SUFFICES ASSUME ~disturbed' PROVE Agreed'
  BY DEF AInv
<1> USE DEF TInv
<1>0. /\ sub \in [pc : {"recv", "append_fill", "append_audit"}, ev : Event \cup {NoEvent}]
      /\ bus \in Seq(RunEvent) /\ fills \in [Fill -> Nat] /\ audit \in [Event -> Nat]
      /\ RunEvent \subseteq Event /\ published \subseteq RunEvent
      /\ run.pc = "off" => bus = <<>> /\ sub.pc = "recv"
  BY EventFacts DEF LedgerTypeOK, Placed, Portfolio
<1>1. ~disturbed
  BY Zenon DEF Receive, SubAppendFill, SubAppendAudit, SubFails, Fault
<1>2. Agreed
  BY <1>1 DEF AInv
<1>3. /\ UNCHANGED <<run, published, rec>> /\ LoadPortfolio' = LoadPortfolio /\ Busy' = Busy
      /\ run.pc # "off"
  BY <1>0 DEF Receive, SubAppendFill, SubAppendAudit, SubFails, storeVars, LoadPortfolio, Busy
<1>4. Busy = {}
  BY <1>2, <1>3 DEF Agreed, OneWriter
<1>5. ASSUME NothingLost',
             \A f \in Fill : run.portfolio[f] = IF ToAppend(f)' THEN fills'[f] + 1 ELSE fills'[f]
      PROVE  Agreed'
  <2>1. RunAgrees'
    BY <1>2, <1>3, <1>5 DEF Agreed, RunAgrees, Same
  <2> QED
    BY <1>3, <1>4, <1>5, <2>1 DEF Agreed, OneWriter
<1>6. \A f \in Fill : run.portfolio[f] = IF ToAppend(f) THEN fills[f] + 1 ELSE fills[f]
  BY <1>2, <1>3 DEF Agreed, RunAgrees
<1>7. CASE Receive
  <2>1. /\ Len(bus) \in Nat \ {0} /\ sub'.ev = bus[1]
        /\ sub'.pc = IF bus[1] \in Fill THEN "append_fill" ELSE "append_audit"
        /\ Len(bus') = Len(bus) - 1
        /\ \A i \in 1..Len(bus') : i + 1 \in 1..Len(bus) /\ bus'[i] = bus[i + 1]
        /\ sub.pc = "recv" /\ UNCHANGED <<fills, audit>>
    BY <1>0, <1>7, ReceiveFacts DEF Receive, storeVars
  <2>2. \A f : (\E i \in 1..Len(bus) : bus[i] = f) <=>
                  f = bus[1] \/ \E i \in 1..Len(bus') : bus'[i] = f
    <3>1. 1 \in 1..Len(bus)
      BY <2>1
    <3>2. ASSUME NEW i \in 1..Len(bus), i # 1 PROVE \E j \in 1..Len(bus') : bus'[j] = bus[i]
      <4>1. i - 1 \in 1..Len(bus') /\ (i - 1) + 1 = i
        BY <2>1, <3>2
      <4>2. bus'[i - 1] = bus[(i - 1) + 1]
        BY <2>1, <4>1
      <4> QED
        BY <4>1, <4>2
    <3>3. ASSUME NEW i \in 1..Len(bus') PROVE \E j \in 1..Len(bus) : bus[j] = bus'[i]
      BY <2>1
    <3> QED
      BY <3>1, <3>2, <3>3
  <2>3. NothingLost'
    BY <1>2, <1>3, <2>1, <2>2 DEF Agreed, NothingLost
  <2>4. \A f \in Fill : ToAppend(f)' <=> ToAppend(f)
    BY <2>1, <2>2 DEF ToAppend
  <2> QED
    BY <1>5, <1>6, <2>1, <2>3, <2>4
<1>8. CASE SubAppendFill
  <2>1. /\ sub.pc = "append_fill" /\ sub'.pc = "append_audit" /\ sub'.ev = sub.ev
        /\ UNCHANGED <<audit, bus>> /\ fills' = With(fills, sub.ev)
    BY <1>0, <1>8 DEF SubAppendFill
  <2>2. sub.ev \in Fill
    BY <2>1, EventFacts DEF Placed
  <2>3. \A f \in Fill : fills'[f] = IF f = sub.ev THEN fills[f] + 1 ELSE fills[f]
    <3>1. fills \in [Fill -> Nat]
      BY <1>0
    <3> HIDE DEF TInv
    <3> QED
      BY <2>1, <2>2, <3>1, WithFacts
  <2>4. \A i \in 1..Len(bus) : bus[i] # sub.ev
    BY <2>1 DEF OInv, OnItsWayOnce
  <2>5. \A f \in Fill : IF f = sub.ev THEN ToAppend(f) /\ ~ToAppend(f)' ELSE ToAppend(f)' <=> ToAppend(f)
    BY <2>1, <2>4 DEF ToAppend
  <2>6. NothingLost'
    BY <1>2, <1>3, <2>1 DEF Agreed, NothingLost
  <2>7. ASSUME NEW f \in Fill
        PROVE  run.portfolio[f] = IF ToAppend(f)' THEN fills'[f] + 1 ELSE fills'[f]
    BY <1>6, <2>3, <2>5
  <2> QED
    BY <1>5, <2>6, <2>7
<1>9. CASE SubAppendAudit
  <2>1. /\ sub.pc = "append_audit" /\ sub' = Waiting
        /\ UNCHANGED <<fills, bus>> /\ audit' = With(audit, sub.ev)
    BY <1>9 DEF SubAppendAudit
  <2>2. sub.ev \in Event
    BY <1>0, <2>1 DEF Placed
  <2>3. \A e \in Event : audit'[e] = IF e = sub.ev THEN audit[e] + 1 ELSE audit[e]
    <3>1. audit \in [Event -> Nat]
      BY <1>0
    <3> HIDE DEF TInv
    <3> QED
      BY <2>1, <2>2, <3>1, WithFacts
  <2>4. audit[sub.ev] = 0 /\ audit'[sub.ev] = 1
    BY <2>1, <2>2, <2>3 DEF OInv, OnItsWayOnce
  <2>5. NothingLost'
    BY <1>0, <1>2, <1>3, <2>1, <2>3, <2>4 DEF Agreed, NothingLost
  <2>6. \A f \in Fill : ToAppend(f)' <=> ToAppend(f)
    BY <2>1 DEF ToAppend, Waiting
  <2> QED
    BY <1>5, <1>6, <2>1, <2>5, <2>6
<1>10. CASE SubFails
  <2>1. disturbed'
    BY <1>10, Zenon DEF SubFails, Fault
  <2> QED
    BY <2>1
<1> QED
  BY <1>7, <1>8, <1>9, <1>10

\* A reconciliation moves on.
LEMMA ReconcileAgrees ==
    ASSUME TInv, AInv, NEW r \in Recorder, Reconcile(r) PROVE AInv'
<1> SUFFICES ASSUME ~disturbed' PROVE Agreed'
  BY DEF AInv
<1> USE DEF TInv
<1>0. /\ rec \in [Recorder -> RecRecord] /\ rec[r] \in RecRecord
      /\ fills \in [Fill -> Nat] /\ audit \in [Event -> Nat] /\ LoadPortfolio \in [Fill -> Nat]
      /\ published \subseteq RunEvent /\ RunEvent \subseteq Event /\ TxFill \cap RunEvent = {}
      /\ TxFill \subseteq Event /\ TxFill \subseteq Fill
      /\ rec[r].pc # "idle" => rec[r].fill \in TxFill
  BY EventFacts, LoadFacts DEF LedgerTypeOK, Placed, Portfolio, RecRecord
<1>1. ~disturbed
  BY Zenon DEF Reconcile, BeginReconcile, Unconfirmed, Confirmed, RecLoad, RecAppendFill, RecSave,
         RecAppendAudit, RecFails, Fault
<1>2. Agreed
  BY <1>1 DEF AInv
<1>3. RecEffect(r) /\ UNCHANGED <<run, bus, sub, published>>
  BY RecStep DEF RecEffect, runVars
<1>4. NothingLost'
  <2>1. ASSUME NEW e \in RunEvent, NEW g \in TxFill PROVE With(audit, g)[e] = audit[e]
    <3>1. g \in Event /\ e \in Event /\ e # g /\ audit \in [Event -> Nat]
      BY <1>0
    <3>2. \A y \in Event : With(audit, g)[y] = IF y = g THEN audit[y] + 1 ELSE audit[y]
      BY <3>1, WithFacts
    <3> QED
      BY <3>1, <3>2
  <2>2. \A e \in RunEvent : audit'[e] = audit[e]
    BY <1>3, <2>1 DEF RecEffect
  <2> QED
    BY <1>0, <1>2, <1>3, <2>2 DEF Agreed, NothingLost
<1>5. \A s \in Recorder : s # r => rec'[s] = rec[s] /\ (s \in Busy' <=> s \in Busy)
  BY <1>3 DEF RecEffect, Busy
<1>6. Busy \subseteq Recorder /\ Busy' \subseteq Recorder
  BY DEF Busy
\* Asking and giving up before the receipt is there.
<1>7. ASSUME r \notin Busy, r \notin Busy', UNCHANGED <<fills>>, LoadPortfolio' = LoadPortfolio
      PROVE  Agreed'
  <2>1. Busy' = Busy
    BY <1>5, <1>6, <1>7
  <2>2. \A s \in Busy : RecAgrees(s)'
    BY <1>2, <1>5, <1>6, <1>7 DEF Agreed, RecAgrees, Same, SameBut
  <2>3. RunAgrees'
    BY <1>2, <1>3, <1>7 DEF Agreed, RunAgrees, ToAppend, Same
  <2> QED
    BY <1>2, <1>3, <1>4, <1>7, <2>1, <2>2, <2>3 DEF Agreed, OneWriter, Same
\* From the receipt on it is alone.
<1>8. ASSUME run.pc = "off", Busy \subseteq {r},
             IF r \in Busy' THEN RecAgrees(r)' ELSE Same(LoadPortfolio, fills)'
      PROVE  Agreed'
  <2>1. Busy' \subseteq {r}
    BY <1>5, <1>6, <1>8
  <2>2. RunAgrees'
    BY <1>3, <1>8 DEF RunAgrees
  <2> QED
    BY <1>3, <1>4, <1>8, <2>1, <2>2 DEF Agreed, OneWriter
<1>9. ASSUME r \in Busy PROVE run.pc = "off" /\ Busy \subseteq {r} /\ RecAgrees(r)
  BY <1>2, <1>9 DEF Agreed, OneWriter
<1>10. ASSUME NEW x \in Tx, BeginReconcile(r, x) PROVE Agreed'
  <2>1. r \notin Busy /\ r \notin Busy' /\ UNCHANGED fills /\ LoadPortfolio' = LoadPortfolio
    BY <1>0, <1>10 DEF BeginReconcile, Busy, storeVars, LoadPortfolio
  <2> QED
    BY <1>7, <2>1
<1>11. CASE Unconfirmed(r)
  <2>1. r \notin Busy /\ r \notin Busy' /\ UNCHANGED fills /\ LoadPortfolio' = LoadPortfolio
    BY <1>0, <1>11 DEF Unconfirmed, Busy, NoRec, storeVars, LoadPortfolio
  <2> QED
    BY <1>7, <2>1
<1>12. CASE Confirmed(r)
  <2>1. run.pc = "off" /\ Busy = {}
    BY <1>12, Zenon DEF Confirmed
  <2>2. /\ UNCHANGED fills /\ LoadPortfolio' = LoadPortfolio
        /\ rec'[r].pc = IF r \in HttpRec THEN "load" ELSE "append_fill"
    BY <1>0, <1>12 DEF Confirmed, storeVars, LoadPortfolio, RecRecord
  <2>3. Same(LoadPortfolio, fills)
    BY <1>2, <2>1 DEF Agreed
  <2>4. RecAgrees(r)' /\ r \in Busy'
    BY <2>2, <2>3 DEF RecAgrees, Busy, Same
  <2> QED
    BY <1>8, <2>1, <2>4
<1>13. CASE RecLoad(r)
  <2>1. /\ UNCHANGED fills /\ LoadPortfolio' = LoadPortfolio /\ r \in Busy /\ rec[r].fill \in Fill
        /\ rec[r].pc = "load"
    BY <1>0, <1>13 DEF RecLoad, storeVars, LoadPortfolio, Busy
  <2>2. \A f \in Fill : With(LoadPortfolio, rec[r].fill)[f] =
                           IF f = rec[r].fill THEN LoadPortfolio[f] + 1 ELSE LoadPortfolio[f]
    BY <1>0, <2>1, WithFacts
  <2>3. CASE r \in HttpRec /\ snapshot = <<>>
    <3>1. r \notin Busy'
      BY <1>0, <1>13, <2>3 DEF RecLoad, NoRec, Busy
    <3>2. Same(LoadPortfolio, fills)'
      BY <1>9, <2>1, <2>3 DEF RecAgrees, Same
    <3> QED
      BY <1>8, <1>9, <2>1, <3>1, <3>2
  <2>4. CASE ~(r \in HttpRec /\ snapshot = <<>>)
    <3>1. /\ rec'[r].pc = IF r \in HttpRec THEN "append_fill" ELSE "save"
          /\ rec'[r].portfolio = With(LoadPortfolio, rec[r].fill) /\ rec'[r].fill = rec[r].fill
      BY <1>0, <1>13, <2>4 DEF RecLoad, RecRecord
    <3>2. r \in Busy'
      BY <3>1 DEF Busy
    <3>3. CASE r \in HttpRec
      <4>1. Same(LoadPortfolio, fills)
        BY <1>9, <2>1, <3>3 DEF RecAgrees
      <4>2. SameBut(rec'[r].portfolio, fills', rec'[r].fill)
        BY <2>1, <2>2, <3>1, <4>1 DEF Same, SameBut
      <4>3. RecAgrees(r)'
        BY <3>1, <3>3, <4>2 DEF RecAgrees
      <4> QED
        BY <1>8, <1>9, <2>1, <3>2, <4>3
    <3>4. CASE r \notin HttpRec
      <4>1. SameBut(fills, LoadPortfolio, rec[r].fill)
        BY <1>9, <2>1, <3>4 DEF RecAgrees
      <4>2. Same(rec'[r].portfolio, fills')
        BY <2>1, <2>2, <3>1, <4>1 DEF Same, SameBut
      <4>3. RecAgrees(r)'
        BY <3>1, <3>4, <4>2 DEF RecAgrees
      <4> QED
        BY <1>8, <1>9, <2>1, <3>2, <4>3
    <3> QED
      BY <3>3, <3>4
  <2> QED
    BY <2>3, <2>4
<1>14. CASE RecAppendFill(r)
  <2>1. /\ LoadPortfolio' = LoadPortfolio /\ r \in Busy /\ rec[r].fill \in Fill
        /\ rec[r].pc = "append_fill" /\ fills' = With(fills, rec[r].fill)
        /\ rec'[r].pc = IF r \in HttpRec THEN "save" ELSE "load"
        /\ rec'[r].portfolio = rec[r].portfolio /\ rec'[r].fill = rec[r].fill
    BY <1>0, <1>14 DEF RecAppendFill, LoadPortfolio, Busy, RecRecord
  <2>2. \A f \in Fill : fills'[f] = IF f = rec[r].fill THEN fills[f] + 1 ELSE fills[f]
    BY <1>0, <2>1, WithFacts
  <2>3. r \in Busy'
    BY <2>1 DEF Busy
  <2>4. CASE r \in HttpRec
    <3>1. SameBut(rec[r].portfolio, fills, rec[r].fill)
      BY <1>9, <2>1, <2>4 DEF RecAgrees
    <3>2. Same(rec'[r].portfolio, fills')
      BY <2>1, <2>2, <3>1 DEF Same, SameBut
    <3>3. RecAgrees(r)'
      BY <2>1, <2>4, <3>2 DEF RecAgrees
    <3> QED
      BY <1>8, <1>9, <2>1, <2>3, <3>3
  <2>5. CASE r \notin HttpRec
    <3>1. Same(LoadPortfolio, fills)
      BY <1>9, <2>1, <2>5 DEF RecAgrees
    <3>2. SameBut(fills', LoadPortfolio', rec'[r].fill)
      BY <2>1, <2>2, <3>1 DEF Same, SameBut
    <3>3. RecAgrees(r)'
      BY <2>1, <2>5, <3>2 DEF RecAgrees
    <3> QED
      BY <1>8, <1>9, <2>1, <2>3, <3>3
  <2> QED
    BY <2>4, <2>5
<1>15. CASE RecSave(r)
  <2>1. /\ LoadPortfolio' = rec[r].portfolio /\ r \in Busy /\ r \in Busy' /\ rec[r].pc = "save"
        /\ rec'[r].pc = "append_audit" /\ UNCHANGED fills
    BY <1>0, <1>15, LoadFacts DEF RecSave, Busy, RecRecord
  <2>2. Same(LoadPortfolio', fills')
    BY <1>9, <2>1 DEF RecAgrees, Same
  <2>3. RecAgrees(r)'
    BY <2>1, <2>2 DEF RecAgrees
  <2> QED
    BY <1>8, <1>9, <2>1, <2>3
<1>16. CASE RecAppendAudit(r)
  <2>1. /\ LoadPortfolio' = LoadPortfolio /\ r \in Busy /\ r \notin Busy' /\ UNCHANGED fills
        /\ rec[r].pc = "append_audit"
    BY <1>0, <1>16 DEF RecAppendAudit, Busy, NoRec, LoadPortfolio
  <2>2. Same(LoadPortfolio, fills)'
    BY <1>9, <2>1 DEF RecAgrees, Same
  <2> QED
    BY <1>8, <1>9, <2>1, <2>2
<1>17. CASE RecFails(r)
  <2>1. disturbed'
    BY <1>17, Zenon DEF RecFails, Fault
  <2> QED
    BY <2>1
<1> QED
  BY <1>10, <1>11, <1>12, <1>13, <1>14, <1>15, <1>16, <1>17 DEF Reconcile

\* Every step keeps it.
LEMMA AgreedInductive == TInv /\ OInv /\ AInv /\ [Next]_vars => AInv'
<1> SUFFICES ASSUME TInv, OInv, AInv, [Next]_vars PROVE AInv'
  OBVIOUS
<1>1. CASE UNCHANGED vars \/ \E x \in Tx, status \in {"ok", "reverted"} : Mine(x, status)
  <2>1. UNCHANGED <<run, bus, sub, published, fills, audit, rec, snapshot, disturbed>>
    BY <1>1 DEF Mine, storeVars, runVars, vars
  <2>2. LoadPortfolio' = LoadPortfolio /\ Busy' = Busy
    BY <2>1 DEF LoadPortfolio, Busy
  <2>3. \A f : ToAppend(f)' <=> ToAppend(f)
    BY <2>1 DEF ToAppend
  <2>4. Agreed => Agreed'
    BY <2>1, <2>2, <2>3 DEF Agreed, OneWriter, NothingLost, RunAgrees, RecAgrees, Same, SameBut
  <2> QED
    BY <2>1, <2>4, Zenon DEF AInv
<1> QED
  BY <1>1, LoopAgrees, SubAgrees, ReconcileAgrees DEF Next, RunEnds, StoreSubscriber

--------------------------------------------------------------------------------
(* Theorems *)

\* Types: what each table, queue and process holds.
THEOREM LedgerTyped == Spec => []LedgerTypeOK
<1>1. TInv => LedgerTypeOK
  BY DEF TInv
<1> QED
  BY <1>1, TypesInitially, TypesInductive, PTL DEF Spec

\* The audit log claims no fill the fills table lacks, and nobody holds the fill of a
\* transaction that did not succeed, for any interleaving of the run, its subscriber and
\* any number of reconciliations, and for any faults.
THEOREM AuditFollows == Spec => []AuditFollowsFill
<1>1. TInv /\ OInv /\ RowsOwed /\ Received => AuditFollowsFill
  <2> SUFFICES ASSUME TInv, OInv, RowsOwed, Received PROVE AuditFollowsFill
    OBVIOUS
  <2>1. ASSUME NEW f \in PaperFill PROVE audit[f] <= fills[f]
    BY DEF OInv, CountedOnce
  <2>2. ASSUME NEW x \in Tx PROVE audit[<<"fill", x>>] <= fills[<<"fill", x>>]
    <3>1. /\ IsFiniteSet(Owed(x))
          /\ audit[<<"fill", x>>] + Cardinality(Owed(x)) <= fills[<<"fill", x>>]
      BY DEF RowsOwed
    <3>2. Cardinality(Owed(x)) \in Nat
      BY <3>1, FS_CardinalityType
    <3>3. audit[<<"fill", x>>] \in Nat /\ fills[<<"fill", x>>] \in Nat
      BY EventFacts DEF TInv, LedgerTypeOK, Portfolio
    <3> QED
      BY <3>1, <3>2, <3>3
  <2>3. \A f \in Fill : audit[f] <= fills[f]
    BY <2>1, <2>2, EventFacts
  <2>4. ASSUME NEW x \in Tx, receipt[x] # "ok"
        PROVE  ~(fills[<<"fill", x>>] + LoadPortfolio[<<"fill", x>>] > 0)
    <3>1. fills[<<"fill", x>>] = 0 /\ LoadPortfolio[<<"fill", x>>] = 0
      BY <2>4 DEF Received
    <3> QED
      BY <3>1
  <2> QED
    BY <2>3, <2>4 DEF AuditFollowsFill
<1> QED
  BY <1>1, TypesInitially, TypesInductive, OnceInitially, OnceInductive, TxInitially, RowsInductive,
     ReceivedInductive, PTL DEF Spec

\* A paper fill is counted at most once in the tables, the running portfolio and the
\* snapshot, over any number of crashes and restarts.
THEOREM PaperFillsCountedOnce == Spec => []PaperFillsOnce
<1>1. OInv => PaperFillsOnce
  BY DEF OInv, CountedOnce, PaperFillsOnce
<1> QED
  BY <1>1, TypesInitially, TypesInductive, OnceInitially, OnceInductive, PTL DEF Spec

\* After any undisturbed sequence of runs and reconciliations, everything published is in
\* the audit log and the snapshot is the fills table.
THEOREM LedgerSettles == Spec => []SettledAgree
<1>1. TInv /\ AInv => SettledAgree
  <2> SUFFICES ASSUME TInv, AInv, ~disturbed, run.pc = "off", Busy = {}
               PROVE  (\A e \in published : audit[e] = 1) /\ LoadPortfolio = fills
    BY DEF SettledAgree
  <2>1. Agreed
    BY DEF AInv
  <2>2. \A e \in published : audit[e] = 1
    BY <2>1 DEF Agreed, NothingLost, TInv, Placed
  <2>3. Same(LoadPortfolio, fills)
    BY <2>1 DEF Agreed
  <2>4. LoadPortfolio \in [Fill -> Nat] /\ fills \in [Fill -> Nat]
    BY LoadFacts DEF TInv, LedgerTypeOK, Portfolio
  <2>5. LoadPortfolio = fills
    BY <2>3, <2>4 DEF Same
  <2> QED
    BY <2>2, <2>5
<1> QED
  BY <1>1, TypesInitially, TypesInductive, OnceInitially, OnceInductive, AgreedInitially,
     AgreedInductive, PTL DEF Spec
================================================================================

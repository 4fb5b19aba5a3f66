---------------------------- MODULE PreToolUseProofs ----------------------------
(***************************************************************************)
(* The PreToolUse hook with its queue, budget and control state, for any   *)
(* number of requests, operators, configurations and arguments.            *)
(***************************************************************************)
EXTENDS PreToolUse, TLAPS

\* The queue: an entry carries its verdict, and a ticket is for an approval that was
\* opened and shows its verdict.
QueueInv ==
    /\ A!TypeOK
    /\ \A i \in DOMAIN entries : entries[i].state = verdict[i]
    /\ \A h \in Hook : ticket[h].waiting => ticket[h].id \in 1..seq /\ ticket[h].rx = verdict[ticket[h].id]

\* Approvals stay approved, and opened ones open, until the process ends.
ApprovalsKept ==
    /\ seq' \in Nat /\ seq <= seq'
    /\ \A i \in 1..seq : verdict[i] = "approved" => verdict'[i] = "approved"

\* What the operators, the sweeper and the clock leave of the queue.
QueueKept ==
    /\ QueueInv' /\ ApprovalsKept /\ UNCHANGED seq
    /\ \A h \in Hook : ticket'[h].waiting = ticket[h].waiting /\ ticket'[h].id = ticket[h].id

--------------------------------------------------------------------------------
(* The queue *)

\* The queue a process starts with.
LEMMA QueueInitially == A!Init => QueueInv
<1> SUFFICES ASSUME A!Init PROVE QueueInv
  OBVIOUS
<1>1. seq = 0 /\ DOMAIN entries = {} /\ entries = [i \in DOMAIN entries |-> entries[i]]
  BY DEF A!Init
<1>2. A!NoTicket \in A!Ticket /\ ~A!NoTicket.waiting
  BY HookAssumption DEF A!NoTicket, A!Ticket, A!ApprovalState
<1>3. ticket \in [Hook -> A!Ticket] /\ op \in [Operator -> A!OpState]
  BY <1>2, HookAssumption DEF A!Init, A!OpState
<1>4. /\ verdict \in [A!Id -> {"unopened"} \cup A!ApprovalState]
      /\ outcome \in [A!Id -> {"none", "abandoned"} \cup A!Terminal]
  BY DEF A!Init
<1>5. A!TypeOK
  BY <1>1, <1>3, <1>4, HookAssumption DEF A!TypeOK
<1> QED
  BY <1>1, <1>2, <1>5 DEF QueueInv, A!Init

\* ApprovalStore::new of a restarted process.
LEMMA ForgetQueue == ASSUME A!Forget PROVE QueueInv'
<1>1. seq' = 0 /\ DOMAIN entries' = {} /\ entries' = [i \in DOMAIN entries' |-> entries'[i]]
  BY DEF A!Forget
<1>2. A!NoTicket \in A!Ticket /\ ~A!NoTicket.waiting
  BY HookAssumption DEF A!NoTicket, A!Ticket, A!ApprovalState
<1>3. ticket' \in [Hook -> A!Ticket] /\ op' \in [Operator -> A!OpState]
  BY <1>2, HookAssumption DEF A!Forget, A!OpState
<1>4. /\ verdict' \in [A!Id -> {"unopened"} \cup A!ApprovalState]
      /\ outcome' \in [A!Id -> {"none", "abandoned"} \cup A!Terminal]
  BY DEF A!Forget
<1>5. A!TypeOK'
  BY <1>1, <1>3, <1>4, HookAssumption DEF A!TypeOK
<1> QED
  BY <1>1, <1>2, <1>5 DEF QueueInv, A!Forget

\* enqueue hands out an id nothing refers to yet.
LEMMA EnqueueQueue ==
    ASSUME QueueInv, NEW h \in Hook, A!Enqueue(h)
    PROVE  /\ QueueInv' /\ ApprovalsKept
           /\ ticket'[h].waiting /\ ticket'[h].id = seq + 1 /\ seq' = seq + 1
           /\ \A g \in Hook \ {h} : ticket'[g] = ticket[g]
<1> DEFINE id == seq + 1
           new == [waiting |-> TRUE, id |-> id, rx |-> "pending", waited |-> 0]
<1> USE DEF QueueInv
<1>1. id \in A!Id /\ seq' = id /\ id \in 1..MaxSeq /\ seq \in Nat /\ id \in Nat
  BY HookAssumption DEF A!Enqueue, A!TypeOK, A!Id
<1>2. new \in A!Ticket
  BY <1>1, HookAssumption DEF A!Ticket, A!ApprovalState
<1>3. /\ ticket' \in [Hook -> A!Ticket]
      /\ ticket'[h] = new
      /\ \A g \in Hook \ {h} : ticket'[g] = ticket[g]
  BY <1>2 DEF A!Enqueue, A!TypeOK
<1>4. /\ DOMAIN entries' = DOMAIN entries \cup {id}
      /\ entries'[id] = [state |-> "pending", age |-> 0]
      /\ \A i \in DOMAIN entries : entries'[i] = entries[i]
      /\ id \notin DOMAIN entries
      /\ entries' = [i \in DOMAIN entries' |-> entries'[i]]
  <2>1. id \notin DOMAIN entries
    BY <1>1 DEF A!TypeOK
  <2> QED
    BY <2>1 DEF A!Enqueue
<1>5. /\ verdict' \in [A!Id -> {"unopened"} \cup A!ApprovalState]
      /\ verdict'[id] = "pending"
      /\ \A i \in A!Id \ {id} : verdict'[i] = verdict[i]
      /\ outcome' = outcome
  BY <1>1 DEF A!Enqueue, A!TypeOK, A!ApprovalState
<1>6. A!TypeOK'
  <2>1. \A i \in DOMAIN entries' : entries'[i] \in A!Entry
    BY <1>4, HookAssumption DEF A!TypeOK, A!Entry, A!ApprovalState
  <2>2. DOMAIN entries' \subseteq 1..seq'
    BY <1>1, <1>4 DEF A!TypeOK
  <2>3. seq' \in 0..MaxSeq
    BY <1>1, HookAssumption
  <2>4. /\ op' \in [Operator -> A!OpState]
        /\ outcome' \in [A!Id -> {"none", "abandoned"} \cup A!Terminal]
    BY DEF A!TypeOK, A!Enqueue
  <2> QED
    BY <1>3, <1>4, <1>5, <2>1, <2>2, <2>3, <2>4 DEF A!TypeOK
<1>7. \A i \in 1..seq : i \in A!Id /\ i # id /\ i \in 1..seq'
  BY <1>1, HookAssumption DEF A!Id
<1>8. \A i \in DOMAIN entries' : entries'[i].state = verdict'[i]
  BY <1>4, <1>5, <1>7 DEF A!TypeOK
<1>9. \A g \in Hook : ticket'[g].waiting =>
          ticket'[g].id \in 1..seq' /\ ticket'[g].rx = verdict'[ticket'[g].id]
  BY <1>1, <1>3, <1>5, <1>7
<1>10. ApprovalsKept
  BY <1>1, <1>5, <1>7 DEF ApprovalsKept
<1> QED
  BY <1>1, <1>3, <1>6, <1>8, <1>9, <1>10

\* A wait ends, whichever way.
LEMMA WaitQueue ==
    ASSUME QueueInv, NEW h \in Hook, A!WaitDecided(h) \/ A!WaitTimeout(h) \/ A!Abandon(h)
    PROVE  QueueInv' /\ UNCHANGED <<seq, verdict>> /\ \A g \in Hook \ {h} : ticket'[g] = ticket[g]
<1> USE DEF QueueInv
<1>1. /\ ticket[h].id \in A!Id /\ UNCHANGED <<entries, seq, op, verdict>>
      /\ ticket' = [ticket EXCEPT ![h] = A!NoTicket]
  BY HookAssumption DEF A!TypeOK, A!Id, A!WaitDecided, A!WaitTimeout, A!Abandon
<1>2. /\ ticket' \in [Hook -> A!Ticket]
      /\ ~ticket'[h].waiting
      /\ \A g \in Hook \ {h} : ticket'[g] = ticket[g]
  <2>1. A!NoTicket \in A!Ticket /\ ~A!NoTicket.waiting
    BY HookAssumption DEF A!NoTicket, A!Ticket, A!ApprovalState
  <2> QED
    BY <1>1, <2>1 DEF A!TypeOK
<1>3. outcome' \in [A!Id -> {"none", "abandoned"} \cup A!Terminal]
  BY <1>1 DEF A!TypeOK, A!WaitDecided, A!WaitTimeout, A!Abandon, A!Terminal
<1>4. A!TypeOK'
  BY <1>1, <1>2, <1>3 DEF A!TypeOK
<1> QED
  BY <1>1, <1>2, <1>4

\* A set of pending approvals gets a verdict, the waiters are told, history is trimmed.
LEMMA VerdictQueue ==
    ASSUME QueueInv, NEW I \in SUBSET A!Id, NEW s \in A!Terminal,
           \A i \in I : A!Pending(i),
           NEW es, es = [i \in DOMAIN entries |-> IF i \in I THEN A!Decided(s) ELSE entries[i]],
           entries' = A!Trim(es),
           ticket' = A!Send(I, s),
           verdict' = [i \in A!Id |-> IF i \in I THEN s ELSE verdict[i]],
           op' \in [Operator -> A!OpState],
           UNCHANGED <<seq, outcome>>
    PROVE  QueueKept
<1> USE DEF QueueInv
<1>1. /\ DOMAIN es = DOMAIN entries
      /\ \A i \in DOMAIN es : es[i] = IF i \in I THEN A!Decided(s) ELSE entries[i]
      /\ DOMAIN entries \subseteq A!Id /\ I \subseteq DOMAIN entries /\ 1..seq \subseteq A!Id
      /\ seq \in Nat
  <2>1. DOMAIN entries \subseteq A!Id /\ 1..seq \subseteq A!Id /\ seq \in Nat
    BY HookAssumption DEF A!TypeOK, A!Id
  <2>2. I \subseteq DOMAIN entries
    BY DEF A!Pending
  <2> QED
    BY <2>1, <2>2
<1>2. /\ DOMAIN entries' \subseteq DOMAIN entries
      /\ \A i \in DOMAIN entries' : entries'[i] = es[i]
      /\ entries' = [i \in DOMAIN entries' |-> entries'[i]]
  BY <1>1 DEF A!Trim
<1>3. /\ ticket' \in [Hook -> A!Ticket]
      /\ \A h \in Hook : /\ ticket'[h].waiting = ticket[h].waiting
                         /\ ticket'[h].id = ticket[h].id
                         /\ ticket[h].waiting =>
                              ticket'[h].rx = IF ticket[h].id \in I THEN s ELSE ticket[h].rx
  <2>1. ticket \in [Hook -> A!Ticket] /\ s \in A!ApprovalState
    BY DEF A!TypeOK, A!ApprovalState
  <2> QED
    BY <2>1 DEF A!Send, A!Ticket
<1>4. A!Decided(s) \in A!Entry /\ A!Decided(s).state = s
  BY HookAssumption DEF A!Decided, A!Entry, A!ApprovalState
<1>5. A!TypeOK'
  <2>1. \A i \in DOMAIN entries' : entries'[i] \in A!Entry
    BY <1>1, <1>2, <1>4 DEF A!TypeOK
  <2>2. verdict' \in [A!Id -> {"unopened"} \cup A!ApprovalState]
    BY DEF A!TypeOK, A!ApprovalState
  <2>3. DOMAIN entries' \subseteq 1..seq'
    BY <1>2 DEF A!TypeOK
  <2> QED
    BY <1>2, <1>3, <2>1, <2>2, <2>3 DEF A!TypeOK
<1>6. \A i \in I : verdict[i] = "pending"
  BY <1>1 DEF A!Pending
<1>7. \A i \in DOMAIN entries' : entries'[i].state = verdict'[i]
  BY <1>1, <1>2, <1>4
<1>8. \A h \in Hook : ticket'[h].waiting =>
          ticket'[h].id \in 1..seq' /\ ticket'[h].rx = verdict'[ticket'[h].id]
  BY <1>1, <1>3
<1>9. ApprovalsKept
  BY <1>1, <1>6 DEF ApprovalsKept
<1> QED
  BY <1>3, <1>5, <1>7, <1>8, <1>9 DEF QueueKept

\* decide, the list after it and the refusal; sweep_expired; the clock.
LEMMA OthersQueue ==
    ASSUME QueueInv,
           \/ \E o \in Operator : A!PostApproval(o)
           \/ A!SweepExpired
           \/ A!Tick
    PROVE  QueueKept
<1> USE DEF QueueInv
<1>0. seq \in Nat /\ 1..seq \subseteq A!Id
  BY HookAssumption DEF A!TypeOK, A!Id
<1>1. ASSUME NEW o \in Operator, NEW id \in 1..seq, NEW s \in {"approved", "denied"},
             A!DecideOk(o, id, s)
      PROVE  QueueKept
  <2> DEFINE es == [i \in DOMAIN entries |-> IF i \in {id} THEN A!Decided(s) ELSE entries[i]]
  <2>1. id \in A!Id /\ id \in 0..MaxSeq /\ s \in A!Terminal
    BY <1>0, HookAssumption DEF A!Id, A!Terminal
  <2>2. A!Pending(id)
    BY <1>1 DEF A!DecideOk
  <2>3. [entries EXCEPT ![id] = A!Decided(s)] = es
    BY DEF A!TypeOK
  <2>4. verdict' = [i \in A!Id |-> IF i \in {id} THEN s ELSE verdict[i]]
    BY <1>1, <2>1 DEF A!DecideOk, A!TypeOK
  <2>5. op' \in [Operator -> A!OpState]
    BY <1>1, <2>1 DEF A!DecideOk, A!TypeOK, A!OpState
  <2>6. entries' = A!Trim(es) /\ ticket' = A!Send({id}, s) /\ UNCHANGED <<seq, outcome>>
    BY <1>1, <2>3 DEF A!DecideOk
  <2>7. {id} \in SUBSET A!Id
    BY <2>1
  <2> HIDE DEF es
  <2> QED
    BY <2>1, <2>2, <2>4, <2>5, <2>6, <2>7, VerdictQueue DEF es
<1>2. CASE A!SweepExpired
  <2>1. A!Stale \in SUBSET A!Id /\ \A i \in A!Stale : A!Pending(i)
    BY <1>0 DEF A!TypeOK, A!Stale, A!Pending
  <2>2. "expired" \in A!Terminal /\ op' \in [Operator -> A!OpState]
    BY <1>2 DEF A!SweepExpired, A!TypeOK, A!Terminal
  <2> QED
    BY <1>2, <2>1, <2>2, VerdictQueue DEF A!SweepExpired
<1>3. ASSUME NEW o \in Operator,
             (\E id \in 1..seq : A!DecideRefused(o, id)) \/ A!ListDecided(o)
      PROVE  QueueKept
  <2>1. /\ op' \in [Operator -> A!OpState]
        /\ UNCHANGED <<entries, seq, ticket, verdict, outcome>>
    BY <1>3, HookAssumption DEF A!TypeOK, A!OpState, A!DecideRefused, A!ListDecided
  <2>2. QueueInv'
    BY <2>1 DEF A!TypeOK
  <2> QED
    BY <1>0, <2>1, <2>2 DEF QueueKept, ApprovalsKept
<1>4. CASE A!Tick
  <2>1. /\ DOMAIN entries' = DOMAIN entries
        /\ entries' = [i \in DOMAIN entries' |-> entries'[i]]
        /\ \A i \in DOMAIN entries : entries'[i] \in A!Entry /\ entries'[i].state = entries[i].state
    <3>1. entries' = [i \in DOMAIN entries |->
                       IF entries[i].state = "pending" /\ entries[i].age <= Timeout
                       THEN [entries[i] EXCEPT !.age = @ + 1] ELSE entries[i]]
      BY <1>4 DEF A!Tick
    <3>2. \A i \in DOMAIN entries :
            entries[i].age <= Timeout => [entries[i] EXCEPT !.age = @ + 1] \in A!Entry
      BY HookAssumption DEF A!TypeOK, A!Entry
    <3>3. \A i \in DOMAIN entries : [entries[i] EXCEPT !.age = @ + 1].state = entries[i].state
      BY DEF A!TypeOK, A!Entry
    <3> QED
      BY <3>1, <3>2, <3>3 DEF A!TypeOK
  <2>2. /\ ticket' \in [Hook -> A!Ticket]
        /\ \A h \in Hook : /\ ticket'[h].waiting = ticket[h].waiting
                           /\ ticket'[h].id = ticket[h].id
                           /\ ticket'[h].rx = ticket[h].rx
    <3>1. \A h \in Hook : ticket[h].waited < Timeout =>
            [ticket[h] EXCEPT !.waited = @ + 1] \in A!Ticket
      BY HookAssumption DEF A!TypeOK, A!Ticket
    <3> QED
      BY <1>4, <3>1 DEF A!TypeOK, A!Ticket, A!Tick
  <2>3. UNCHANGED <<seq, op, verdict, outcome>>
    BY <1>4 DEF A!Tick
  <2>4. A!TypeOK'
    BY <2>1, <2>2, <2>3 DEF A!TypeOK
  <2>5. QueueInv'
    BY <2>1, <2>2, <2>3, <2>4
  <2> QED
    BY <1>0, <2>2, <2>3, <2>5 DEF QueueKept, ApprovalsKept
<1> QED
  BY <1>1, <1>2, <1>3, <1>4 DEF A!PostApproval

--------------------------------------------------------------------------------
(* The inductive invariant *)

\* A request.
HookPC == {"idle", "enqueue", "held", "charge", "answered"}
HookRecord == [pc : HookPC, notional : Notional \cup {0}, id : 0..MaxSeq,
               answer : {"none", "allow", "deny"}]

\* A request waits with the ticket of its approval, has answered only at its end, and
\* an order that was queued goes on only when its approval is approved.
HookOK(h) ==
    /\ hook[h].id # 0 => hook[h].id \in 1..seq
    /\ hook[h].pc = "held" => ticket[h].waiting /\ ticket[h].id = hook[h].id
    /\ hook[h].answer # "none" => hook[h].pc = "answered"
    /\ hook[h].id # 0 /\ (hook[h].pc = "charge" \/ hook[h].answer = "allow") =>
          verdict[hook[h].id] = "approved"

\* Every request is as it should be.
HookInv == \A h \in Hook : HookOK(h)

\* The switch is on exactly while an admin's or a file's stop is in force.
KillInv ==
    /\ stopped.engaged <=> control.kill
    /\ KillHeldOnly

\* The queue, the requests, the budget and the switch, each with what its step needs of the others.
IInv ==
    /\ TypeOK
    /\ QueueInv
    /\ HookInv
    /\ AllowedWithinBudget
    /\ KillInv

--------------------------------------------------------------------------------
(* Requests *)

\* An order that parses and has a price has a whole notional.
LEMMA NotionalInt == Notional \subseteq Int
<1> SUFFICES ASSUME NEW a \in Args, Parses(a), Priced(a) PROVE OrderNotional(a) \in Int
  BY DEF Notional
<1>1. /\ a.quantity \subseteq Int /\ a.notional \subseteq Int /\ a.limit_price \subseteq Int
      /\ a.ref_price \subseteq Int
      /\ \A v, w \in a.limit_price : v = w
  BY HookAssumption
<1>2. \A S : S # {} => The(S) \in S
  BY DEF The
<1>3. Quantity(a) \in Int
  <2>1. CASE a.quantity # {}
    BY <1>1, <1>2, <2>1 DEF Quantity
  <2>2. CASE a.quantity = {}
    <3>1. a.notional # {} /\ \E p \in a.limit_price : p > 0
      BY <2>2 DEF Parses, CanSize
    <3>2. The(a.notional) \in Int /\ The(a.limit_price) \in Int /\ The(a.limit_price) > 0
      BY <1>1, <1>2, <3>1
    <3>3. The(a.notional) \div The(a.limit_price) \in Int
      BY <3>2
    <3> QED
      BY <2>2, <3>3 DEF Quantity
  <2> QED
    BY <2>1, <2>2
<1>4. The(IF a.limit_price # {} THEN a.limit_price ELSE a.ref_price) \in Int
  BY <1>1, <1>2 DEF Priced
<1> QED
  BY <1>3, <1>4 DEF OrderNotional

\* The answer ends the request and leaves its approval and notional on record.
LEMMA AnswerFacts ==
    ASSUME hook \in [Hook -> HookRecord], NEW h \in Hook, NEW a \in {"allow", "deny"}, Answer(h, a)
    PROVE  /\ hook' \in [Hook -> HookRecord]
           /\ hook'[h].pc = "answered" /\ hook'[h].answer = a /\ hook'[h].id = hook[h].id
           /\ \A g \in Hook \ {h} : hook'[g] = hook[g]
<1>1. hook[h] \in HookRecord
  OBVIOUS
<1>2. [hook[h] EXCEPT !.pc = "answered", !.answer = a] \in HookRecord
  BY <1>1 DEF HookRecord, HookPC
<1>3. hook' = [hook EXCEPT ![h] = [hook[h] EXCEPT !.pc = "answered", !.answer = a]]
  BY <1>1 DEF Answer, HookRecord
<1> QED
  BY <1>1, <1>2, <1>3 DEF HookRecord

\* What the gate makes of a call.
LEMMA EvaluateFacts ==
    ASSUME hook \in [Hook -> HookRecord], NEW h \in Hook, NEW call \in ToolCall, Evaluate(h, call)
    PROVE  /\ hook' \in [Hook -> HookRecord]
           /\ hook[h].pc \in {"idle", "answered"}
           /\ hook'[h].id = 0
           /\ hook'[h].pc \in {"enqueue", "charge"} => ~control.kill /\ hook'[h].answer = "none"
           /\ hook'[h].pc \in {"enqueue", "charge", "answered"}
           /\ \A g \in Hook \ {h} : hook'[g] = hook[g]
           /\ UNCHANGED <<approvalVars, budgetVars, control, allowed>>
<1> DEFINE q == IF ~GateAllows(call) \/ call.tool # "place"
                THEN [NoRequest EXCEPT !.pc = "answered",
                                       !.answer = IF GateAllows(call) THEN "allow" ELSE "deny"]
                ELSE [NoRequest EXCEPT !.pc = IF control.cfg.approval_mode = "manual"
                                              THEN "enqueue" ELSE "charge",
                                       !.notional = OrderNotional(call.args)]
<1>1. /\ hook' = [hook EXCEPT ![h] = q] /\ hook[h].pc \in {"idle", "answered"}
      /\ UNCHANGED <<approvalVars, budgetVars, control, allowed>>
  BY DEF Evaluate
<1>2. /\ q \in HookRecord /\ q.id = 0 /\ q.pc \in {"enqueue", "charge", "answered"}
      /\ q.pc \in {"enqueue", "charge"} => ~control.kill /\ q.answer = "none"
  <2>1. CASE ~GateAllows(call) \/ call.tool # "place"
    <3>1. q = [pc |-> "answered", notional |-> 0, id |-> 0,
               answer |-> IF GateAllows(call) THEN "allow" ELSE "deny"]
      BY <2>1 DEF NoRequest
    <3> HIDE DEF q
    <3> QED
      BY <3>1, HookAssumption DEF HookRecord, HookPC
  <2>2. CASE GateAllows(call) /\ call.tool = "place"
    <3>1. call.args \in Args /\ Parses(call.args) /\ Priced(call.args) /\ ~control.kill
      BY <2>2 DEF GateAllows, ToolCall
    <3>2. OrderNotional(call.args) \in Notional
      BY <3>1 DEF Notional
    <3>3. q = [pc |-> IF control.cfg.approval_mode = "manual" THEN "enqueue" ELSE "charge",
               notional |-> OrderNotional(call.args), id |-> 0, answer |-> "none"]
      BY <2>2 DEF NoRequest
    <3> HIDE DEF q
    <3> QED
      BY <3>1, <3>2, <3>3, HookAssumption DEF HookRecord, HookPC
  <2> QED
    BY <2>1, <2>2
<1> HIDE DEF q
<1> QED
  BY <1>1, <1>2

\* A request's own steps: where they lead and what they leave on record.
LEMMA HookFacts ==
    ASSUME hook \in [Hook -> HookRecord], QueueInv, NEW h \in Hook, HookStep(h) \/ HangUp(h)
    PROVE  /\ hook' \in [Hook -> HookRecord]
           /\ hook[h].pc \in {"enqueue", "held", "charge"}
           /\ \A g \in Hook \ {h} : hook'[g] = hook[g]
           /\ UNCHANGED <<control, stopped>>
           /\ hook'[h].answer \in {hook[h].answer, "none"} \/ hook'[h].pc = "answered"
           /\ hook'[h].id = hook[h].id \/ Enqueue(h) \/ hook'[h].id = 0
<1>0. hook[h] \in HookRecord
  OBVIOUS
<1>1. CASE Enqueue(h)
  <2>1. seq + 1 \in 0..MaxSeq
    BY <1>1, HookAssumption DEF Enqueue, A!Enqueue, QueueInv, A!TypeOK
  <2>2. [hook[h] EXCEPT !.pc = "held", !.id = seq + 1] \in HookRecord
    BY <1>0, <2>1 DEF HookRecord, HookPC
  <2>3. hook' = [hook EXCEPT ![h] = [hook[h] EXCEPT !.pc = "held", !.id = seq + 1]]
    BY <1>0, <1>1 DEF Enqueue, HookRecord
  <2>4. hook[h].pc = "enqueue" /\ UNCHANGED <<control, stopped>>
    BY <1>1 DEF Enqueue
  <2> QED
    BY <1>0, <1>1, <2>2, <2>3, <2>4 DEF HookRecord
<1>2. CASE HeldDecided(h)
  <2>1. hook[h].pc = "held" /\ UNCHANGED <<control, stopped>>
    BY <1>2 DEF HeldDecided
  <2>2. CASE Answer(h, "deny")
    BY <1>0, <2>1, <2>2, AnswerFacts
  <2>3. CASE hook' = [hook EXCEPT ![h].pc = "charge"]
    <3>1. [hook[h] EXCEPT !.pc = "charge"] \in HookRecord
      BY <1>0 DEF HookRecord, HookPC
    <3>2. hook' = [hook EXCEPT ![h] = [hook[h] EXCEPT !.pc = "charge"]]
      BY <1>0, <2>3 DEF HookRecord
    <3> QED
      BY <1>0, <2>1, <3>1, <3>2 DEF HookRecord
  <2> QED
    BY <1>2, <2>2, <2>3 DEF HeldDecided
<1>3. CASE HeldTimeout(h)
  <2>1. hook[h].pc = "held" /\ Answer(h, "deny") /\ UNCHANGED <<control, stopped>>
    BY <1>3 DEF HeldTimeout
  <2> QED
    BY <1>0, <2>1, AnswerFacts
<1>4. CASE Charge(h)
  <2>1. /\ hook[h].pc = "charge" /\ UNCHANGED <<control, stopped>>
        /\ Answer(h, "allow") \/ Answer(h, "deny")
    BY <1>4 DEF Charge, Allow
  <2> QED
    BY <1>0, <2>1, AnswerFacts
<1>5. CASE HangUp(h)
  <2>1. /\ hook[h].pc = "held" /\ UNCHANGED <<control, stopped>>
        /\ hook' = [hook EXCEPT ![h] = NoRequest]
    BY <1>5 DEF HangUp
  <2>2. NoRequest \in HookRecord /\ NoRequest.id = 0 /\ NoRequest.answer = "none"
    BY HookAssumption DEF NoRequest, HookRecord, HookPC
  <2> QED
    BY <1>0, <2>1, <2>2
<1> QED
  BY <1>1, <1>2, <1>3, <1>4, <1>5 DEF HookStep

--------------------------------------------------------------------------------
(* Each part of the invariant is preserved *)

\* A request begins.
Calls == \E h \in Hook, call \in ToolCall : Evaluate(h, call)

\* The queue's part.
LEMMA QueuePart == IInv /\ [Next]_vars => QueueInv'
<1> SUFFICES ASSUME IInv, [Next]_vars PROVE QueueInv'
  OBVIOUS
<1>0. QueueInv
  BY DEF IInv
<1>1. ASSUME NEW h \in Hook, HookStep(h) \/ HangUp(h) PROVE QueueInv'
  <2>1. CASE Enqueue(h)
    BY <1>0, <2>1, EnqueueQueue DEF Enqueue
  <2>2. CASE HeldDecided(h) \/ HeldTimeout(h) \/ HangUp(h)
    BY <1>0, <2>2, WaitQueue DEF HeldDecided, HeldTimeout, HangUp
  <2>3. CASE Charge(h)
    BY <1>0, <2>3 DEF Charge, approvalVars, QueueInv, A!TypeOK
  <2> QED
    BY <1>1, <2>1, <2>2, <2>3 DEF HookStep
<1>2. CASE Sweep \/ Tick \/ \E o \in Operator : PostApproval(o)
  BY <1>0, <1>2, OthersQueue DEF Sweep, Tick, PostApproval, QueueKept
<1>3. CASE Restart
  BY <1>3, ForgetQueue DEF Restart
<1>4. CASE \/ Calls \/ PostSessionReset \/ UNCHANGED vars
           \/ \E engage \in BOOLEAN : PostKill(engage)
           \/ \E c \in Config : ApplyReload(c)
  <2>1. UNCHANGED approvalVars
    BY <1>4 DEF Calls, Evaluate, PostSessionReset, PostKill, ApplyReload, vars
  <2> QED
    BY <1>0, <2>1 DEF approvalVars, QueueInv, A!TypeOK
<1> QED
  BY <1>1, <1>2, <1>3, <1>4 DEF Next, Calls

\* The types of what is not in the queue or the budget.
Typed ==
    /\ control \in ControlRecord
    /\ hook \in [Hook -> HookRecord]
    /\ stopped \in [engaged : BOOLEAN, orders : SUBSET Hook]

\* The requests' records and the control state are well typed.
LEMMA TypesPart == IInv /\ [Next]_vars => Typed'
<1> SUFFICES ASSUME IInv, [Next]_vars PROVE Typed'
  OBVIOUS
<1>0. /\ Typed /\ QueueInv
      /\ NoRequest \in HookRecord /\ NotStopped \in [engaged : BOOLEAN, orders : SUBSET Hook]
  BY HookAssumption DEF IInv, TypeOK, Typed, HookRecord, HookPC, NoRequest, NotStopped
<1>1. ASSUME NEW h \in Hook, HookStep(h) \/ HangUp(h) PROVE Typed'
  BY <1>0, <1>1, HookFacts DEF Typed
<1>2. ASSUME NEW h \in Hook, NEW call \in ToolCall, Evaluate(h, call) PROVE Typed'
  <2>1. hook' \in [Hook -> HookRecord] /\ UNCHANGED control
    BY <1>0, <1>2, EvaluateFacts DEF Typed
  <2>2. stopped' = [stopped EXCEPT !.orders = @ \ {h}]
    BY <1>2 DEF Evaluate
  <2> QED
    BY <1>0, <2>1, <2>2 DEF Typed
<1>3. Stopping \in [engaged : BOOLEAN, orders : SUBSET Hook]
  BY <1>0 DEF Stopping, PastGate, Typed
<1>4. ASSUME NEW engage \in BOOLEAN, PostKill(engage) PROVE Typed'
  <2>1. control' \in ControlRecord
    BY <1>0, <1>4 DEF PostKill, WithKill, ControlRecord, Typed
  <2>2. stopped' \in [engaged : BOOLEAN, orders : SUBSET Hook] /\ hook' = hook
    BY <1>0, <1>3, <1>4 DEF PostKill
  <2> QED
    BY <1>0, <2>1, <2>2 DEF Typed
<1>5. ASSUME NEW c \in Config, ApplyReload(c) PROVE Typed'
  <2>1. (control.kill \/ c.kill) \in BOOLEAN
    BY Zenon
  <2>2. control' = [control EXCEPT !.kill = control.kill \/ c.kill, !.cfg = c]
    BY <1>0, <1>5 DEF ApplyReload, Reloaded, Typed, ControlRecord
  <2>3. control' \in ControlRecord
    BY <1>0, <2>1, <2>2 DEF ControlRecord, Typed
  <2>4. stopped' \in [engaged : BOOLEAN, orders : SUBSET Hook] /\ hook' = hook
    BY <1>0, <1>3, <1>5 DEF ApplyReload, Typed
  <2> QED
    BY <1>0, <2>3, <2>4 DEF Typed
<1>6. CASE Restart
  <2>1. PICK c \in Config : control' = Boot(c)
    BY <1>6 DEF Restart
  <2>2. control' \in ControlRecord /\ control'.kill \in BOOLEAN
    BY <2>1, ConfigAssumption DEF Boot, ControlRecord, Mode
  <2>3. /\ stopped' = [NotStopped EXCEPT !.engaged = control'.kill]
        /\ hook' = [h \in Hook |-> NoRequest]
    BY <1>6 DEF Restart
  <2> QED
    BY <1>0, <2>2, <2>3 DEF Typed
<1>7. CASE \/ \E o \in Operator : PostApproval(o)
           \/ Sweep \/ PostSessionReset \/ Tick \/ UNCHANGED vars
  BY <1>0, <1>7 DEF PostApproval, Sweep, PostSessionReset, Tick, vars, Typed
<1> QED
  BY <1>1, <1>2, <1>4, <1>5, <1>6, <1>7 DEF Next

\* A queued order goes on only when its own approval is approved.
LEMMA HookPart == IInv /\ [Next]_vars => HookInv'
<1> SUFFICES ASSUME IInv, [Next]_vars PROVE HookInv'
  OBVIOUS
<1>0. /\ hook \in [Hook -> HookRecord] /\ QueueInv /\ HookInv
      /\ seq \in Nat /\ 1..seq \subseteq A!Id
      /\ ticket \in [Hook -> A!Ticket]
  BY HookAssumption DEF IInv, TypeOK, HookRecord, HookPC, QueueInv, A!TypeOK, A!Id
<1>1. ASSUME ApprovalsKept, NEW g \in Hook, hook'[g] = hook[g],
             ticket'[g].waiting = ticket[g].waiting, ticket'[g].id = ticket[g].id
      PROVE  HookOK(g)'
  <2>1. \A i \in 1..seq : i \in 1..seq'
    BY <1>0, <1>1 DEF ApprovalsKept
  <2> QED
    BY <1>0, <1>1, <2>1 DEF HookInv, HookOK, ApprovalsKept
<1>2. ASSUME seq' = seq, verdict' = verdict PROVE ApprovalsKept
  BY <1>0, <1>2 DEF ApprovalsKept
<1>3. ASSUME NEW h \in Hook, HookStep(h) \/ HangUp(h) PROVE HookInv'
  <2>0. /\ \A g \in Hook \ {h} : hook'[g] = hook[g]
        /\ hook[h].pc \in {"enqueue", "held", "charge"} /\ hook[h].answer = "none"
        /\ hook[h] \in HookRecord
    BY <1>0, <1>3, HookFacts DEF HookInv, HookOK
  <2>1. /\ ApprovalsKept
        /\ \A g \in Hook \ {h} : ticket'[g] = ticket[g]
    <3>1. CASE Enqueue(h)
      BY <1>0, <3>1, EnqueueQueue DEF Enqueue
    <3>2. CASE HeldDecided(h) \/ HeldTimeout(h) \/ HangUp(h)
      BY <1>0, <1>2, <3>2, WaitQueue DEF HeldDecided, HeldTimeout, HangUp
    <3>3. CASE Charge(h)
      BY <1>2, <3>3 DEF Charge, approvalVars
    <3> QED
      BY <1>3, <3>1, <3>2, <3>3 DEF HookStep
  <2>2. \A g \in Hook \ {h} : HookOK(g)'
    BY <1>1, <2>0, <2>1
  <2>3. HookOK(h)'
    <3>1. CASE Enqueue(h)
      <4>1. ticket'[h].waiting /\ ticket'[h].id = seq + 1 /\ seq' = seq + 1
        BY <1>0, <3>1, EnqueueQueue DEF Enqueue
      <4>2. hook'[h].pc = "held" /\ hook'[h].id = seq + 1 /\ hook'[h].answer = "none"
        BY <1>0, <2>0, <3>1 DEF Enqueue, HookRecord
      <4> QED
        BY <1>0, <4>1, <4>2 DEF HookOK
    <3>2. CASE HeldDecided(h)
      <4>1. /\ hook[h].pc = "held" /\ UNCHANGED <<seq, verdict>>
            /\ ticket[h].waiting /\ ticket[h].id = hook[h].id
            /\ hook[h].id # 0 => hook[h].id \in 1..seq
        BY <1>0, <3>2 DEF HeldDecided, A!WaitDecided, HookInv, HookOK
      <4>2. CASE ticket[h].rx = "approved"
        <5>1. hook'[h].pc = "charge" /\ hook'[h].id = hook[h].id /\ hook'[h].answer = "none"
          BY <1>0, <2>0, <3>2, <4>2 DEF HeldDecided, HookRecord
        <5>2. verdict[hook[h].id] = "approved"
          BY <1>0, <4>1, <4>2 DEF QueueInv
        <5> QED
          BY <4>1, <5>1, <5>2 DEF HookOK
      <4>3. CASE ticket[h].rx # "approved"
        <5>1. hook'[h].pc = "answered" /\ hook'[h].id = hook[h].id /\ hook'[h].answer = "deny"
          BY <1>0, <3>2, <4>3, AnswerFacts DEF HeldDecided
        <5> QED
          BY <4>1, <5>1 DEF HookOK
      <4> QED
        BY <4>2, <4>3
    <3>3. CASE HeldTimeout(h)
      <4>1. UNCHANGED <<seq, verdict>> /\ (hook[h].id # 0 => hook[h].id \in 1..seq)
        BY <1>0, <3>3 DEF HeldTimeout, A!WaitTimeout, HookInv, HookOK
      <4>2. hook'[h].pc = "answered" /\ hook'[h].id = hook[h].id /\ hook'[h].answer = "deny"
        BY <1>0, <3>3, AnswerFacts DEF HeldTimeout
      <4> QED
        BY <4>1, <4>2 DEF HookOK
    <3>4. CASE Charge(h)
      <4>1. /\ UNCHANGED <<seq, verdict>> /\ (hook[h].id # 0 => hook[h].id \in 1..seq)
            /\ hook[h].id # 0 => verdict[hook[h].id] = "approved"
        BY <1>0, <3>4 DEF Charge, approvalVars, HookInv, HookOK
      <4>2. hook'[h].pc = "answered" /\ hook'[h].id = hook[h].id
        BY <1>0, <3>4, AnswerFacts DEF Charge, Allow
      <4> QED
        BY <4>1, <4>2 DEF HookOK
    <3>5. CASE HangUp(h)
      <4>1. hook'[h] = NoRequest
        BY <1>0, <3>5 DEF HangUp
      <4> QED
        BY <4>1 DEF NoRequest, HookOK
    <3> QED
      BY <1>3, <3>1, <3>2, <3>3, <3>4, <3>5 DEF HookStep
  <2> QED
    BY <2>2, <2>3 DEF HookInv
<1>4. ASSUME NEW h \in Hook, NEW call \in ToolCall, Evaluate(h, call) PROVE HookInv'
  <2>1. /\ hook'[h].id = 0
        /\ hook'[h].pc \in {"enqueue", "charge"} => hook'[h].answer = "none"
        /\ hook'[h].pc \in {"enqueue", "charge", "answered"}
        /\ \A g \in Hook \ {h} : hook'[g] = hook[g]
        /\ UNCHANGED approvalVars
    BY <1>0, <1>4, EvaluateFacts
  <2>2. HookOK(h)'
    BY <2>1 DEF HookOK
  <2>3. \A g \in Hook \ {h} : HookOK(g)'
    BY <1>1, <1>2, <2>1 DEF approvalVars
  <2> QED
    BY <2>2, <2>3 DEF HookInv
<1>5. CASE Sweep \/ Tick \/ \E o \in Operator : PostApproval(o)
  <2>1. QueueKept /\ UNCHANGED hook
    BY <1>0, <1>5, OthersQueue DEF Sweep, Tick, PostApproval
  <2> QED
    BY <1>1, <2>1 DEF QueueKept, HookInv
<1>6. CASE Restart
  BY <1>6 DEF Restart, NoRequest, HookInv, HookOK
<1>7. CASE \/ PostSessionReset \/ UNCHANGED vars
           \/ \E engage \in BOOLEAN : PostKill(engage)
           \/ \E c \in Config : ApplyReload(c)
  <2>1. UNCHANGED approvalVars /\ UNCHANGED hook
    BY <1>7 DEF PostSessionReset, PostKill, ApplyReload, vars
  <2> QED
    BY <1>1, <1>2, <2>1 DEF approvalVars, HookInv
<1> QED
  BY <1>3, <1>4, <1>5, <1>6, <1>7 DEF Next

\* What was allowed is what was charged, within the caps.
LEMMA BudgetPart ==
    IInv /\ [Next]_vars =>
        B!TypeOK' /\ allowed' \in [count : Nat, notional : Nat] /\ AllowedWithinBudget'
<1> SUFFICES ASSUME IInv, [Next]_vars
             PROVE  B!TypeOK' /\ allowed' \in [count : Nat, notional : Nat] /\ AllowedWithinBudget'
  OBVIOUS
<1> DEFINE Goal == B!TypeOK' /\ allowed' \in [count : Nat, notional : Nat] /\ AllowedWithinBudget'
<1>0. /\ B!TypeOK /\ allowed \in [count : Nat, notional : Nat] /\ AllowedWithinBudget
      /\ hook \in [Hook -> HookRecord]
      /\ MaxOrders \in Nat /\ MaxNotional \in Nat /\ MaxDuration \in Nat
  BY HookAssumption DEF IInv, TypeOK, HookRecord, HookPC
<1>1. ASSUME NEW h \in Hook, Charge(h) PROVE Goal
  <2> DEFINE n == hook[h].notional
  <2>0. n \in Int
    <3>1. hook[h].notional \in Notional \cup {0}
      BY <1>0 DEF HookRecord
    <3>2. CASE hook[h].notional \in Notional
      BY <3>2, NotionalInt
    <3>3. CASE hook[h].notional = 0
      BY <3>3
    <3> QED
      BY <3>1, <3>2, <3>3
  <2>1. Positive(n) \in Nat
    BY <2>0 DEF Positive
  <2> HIDE DEF n
  <2>2. CASE B!Record(n) /\ Allow(h)
    <3>1. /\ orders_used' = orders_used + 1 /\ notional_used' = notional_used + Positive(n)
          /\ UNCHANGED <<elapsed, breached, tripped>>
          /\ MaxOrders > 0 => ~(orders_used >= MaxOrders)
          /\ MaxNotional > 0 => ~(notional_used + Positive(n) > MaxNotional)
      BY <2>2 DEF B!Record, B!Refuses, B!OrdersSpent, B!NotionalSpent, B!WouldBe, Positive
    <3>2. allowed' = [count |-> allowed.count + 1, notional |-> allowed.notional + Positive(n)]
      BY <2>2 DEF Allow, n
    <3>3. orders_used \in Nat /\ notional_used \in Nat
      BY <1>0 DEF B!TypeOK
    <3>4. B!TypeOK'
      BY <1>0, <2>1, <3>1, <3>3 DEF B!TypeOK
    <3>5. allowed' \in [count : Nat, notional : Nat]
      BY <1>0, <2>1, <3>2
    <3>6. allowed'.count = orders_used' /\ allowed'.notional = notional_used'
      BY <1>0, <3>1, <3>2 DEF AllowedWithinBudget
    <3>7. B!WithinCaps'
      BY <1>0, <2>1, <3>1, <3>3 DEF B!WithinCaps
    <3> QED
      BY <3>4, <3>5, <3>6, <3>7 DEF AllowedWithinBudget
  <2>3. CASE B!Refuse(n) /\ UNCHANGED allowed
    <3>1. /\ UNCHANGED <<orders_used, notional_used, elapsed, allowed>> /\ breached' = TRUE
          /\ tripped' = IF breached THEN tripped ELSE B!Breach(n)
      BY <2>3 DEF B!Refuse
    <3>2. B!Breach(n) \in B!Caps
      BY DEF B!Breach, B!FirstBreach, B!Caps
    <3>3. tripped' \in B!Caps \cup {"none"}
      BY <1>0, <3>1, <3>2 DEF B!TypeOK
    <3>4. breached' \in BOOLEAN
      BY <3>1, Zenon
    <3>5. B!TypeOK'
      BY <1>0, <3>1, <3>3, <3>4 DEF B!TypeOK
    <3> QED
      BY <1>0, <3>1, <3>5 DEF AllowedWithinBudget, B!WithinCaps
  <2> QED
    BY <1>1, <2>2, <2>3 DEF Charge, n
<1>2. ASSUME UNCHANGED <<budgetVars, allowed>> PROVE Goal
  BY <1>0, <1>2 DEF budgetVars, B!TypeOK, AllowedWithinBudget, B!WithinCaps
<1>3. CASE Restart \/ PostSessionReset
  <2>1. B!Reset /\ allowed' = NothingAllowed
    BY <1>3 DEF Restart, PostSessionReset
  <2>2. B!TypeOK'
    <3>1. breached' \in BOOLEAN
      BY <2>1, Zenon DEF B!Reset
    <3> QED
      BY <1>0, <2>1, <3>1 DEF B!Reset, B!TypeOK
  <2> QED
    BY <1>0, <2>1, <2>2 DEF B!Reset, NothingAllowed, AllowedWithinBudget, B!WithinCaps
<1>4. CASE Tick
  <2>1. CASE B!Tick
    <3>1. elapsed' \in 0..MaxDuration /\ UNCHANGED <<orders_used, notional_used, breached, tripped, allowed>>
      BY <1>0, <1>4, <2>1 DEF Tick, B!Tick, B!TypeOK
    <3> QED
      BY <1>0, <3>1 DEF B!TypeOK, AllowedWithinBudget, B!WithinCaps
  <2> QED
    BY <1>2, <1>4, <2>1 DEF Tick
<1>5. ASSUME NEW h \in Hook, HookStep(h) \/ HangUp(h) PROVE Goal
  BY <1>1, <1>2, <1>5 DEF HookStep, Enqueue, HeldDecided, HeldTimeout, HangUp
<1>6. CASE \/ \E h \in Hook, call \in ToolCall : Evaluate(h, call)
           \/ \E o \in Operator : PostApproval(o)
           \/ Sweep
           \/ \E engage \in BOOLEAN : PostKill(engage)
           \/ \E c \in Config : ApplyReload(c)
           \/ UNCHANGED vars
  <2>1. UNCHANGED <<budgetVars, allowed>>
    BY <1>6 DEF Evaluate, PostApproval, Sweep, PostKill, ApplyReload, vars
  <2> QED
    BY <1>2, <2>1
<1> QED
  BY <1>3, <1>4, <1>5, <1>6 DEF Next

\* While the switch is on, nothing new is past the gate.
LEMMA KillPart == IInv /\ [Next]_vars => KillInv'
<1> SUFFICES ASSUME IInv, [Next]_vars PROVE KillInv'
  OBVIOUS
<1>0. /\ Typed /\ QueueInv /\ KillInv
      /\ control.kill \in BOOLEAN /\ stopped.engaged \in BOOLEAN
  BY DEF IInv, TypeOK, Typed, HookRecord, HookPC, ControlRecord
<1>1. ASSUME UNCHANGED <<control, stopped>>, PastGate' \subseteq PastGate PROVE KillInv'
  BY <1>0, <1>1 DEF KillInv, KillHeldOnly
<1>2. ASSUME NEW h \in Hook, HookStep(h) \/ HangUp(h) PROVE KillInv'
  <2>1. UNCHANGED <<control, stopped>> /\ PastGate' \subseteq PastGate
    BY <1>0, <1>2, HookFacts DEF Typed, PastGate
  <2> QED
    BY <1>1, <2>1
<1>3. ASSUME NEW h \in Hook, NEW call \in ToolCall, Evaluate(h, call) PROVE KillInv'
  <2>1. /\ control' = control /\ hook[h].pc \in {"idle", "answered"}
        /\ hook'[h].pc \in {"enqueue", "charge"} => ~control.kill
        /\ hook'[h].pc \in {"enqueue", "charge", "answered"}
        /\ \A g \in Hook \ {h} : hook'[g] = hook[g]
    BY <1>0, <1>3, EvaluateFacts DEF Typed
  <2>2. stopped'.engaged = stopped.engaged /\ stopped'.orders = stopped.orders \ {h}
    BY <1>0, <1>3 DEF Evaluate, Typed
  <2>3. ASSUME stopped.engaged PROVE PastGate' \subseteq stopped'.orders
    <3>1. control.kill /\ PastGate \subseteq stopped.orders
      BY <1>0, <2>3 DEF KillInv, KillHeldOnly
    <3>2. h \notin PastGate /\ h \notin PastGate'
      BY <2>1, <3>1 DEF PastGate
    <3>3. PastGate' \subseteq PastGate
      BY <2>1, <3>2 DEF PastGate
    <3> QED
      BY <2>2, <3>1, <3>2, <3>3
  <2> QED
    BY <1>0, <2>1, <2>2, <2>3 DEF KillInv, KillHeldOnly
<1>4. Stopping.engaged /\ PastGate \subseteq Stopping.orders
  BY <1>0 DEF Stopping, KillInv, KillHeldOnly
<1>5. ASSUME NEW engage \in BOOLEAN, PostKill(engage) PROVE KillInv'
  <2>1. PastGate' = PastGate /\ control'.kill = engage
    BY <1>0, <1>5 DEF PostKill, PastGate, WithKill, Typed, ControlRecord
  <2>2. CASE engage
    BY <1>4, <1>5, <2>1, <2>2 DEF PostKill, KillInv, KillHeldOnly
  <2>3. CASE ~engage
    <3>1. ~stopped'.engaged
      BY <1>5, <2>3 DEF PostKill, NotStopped
    <3> QED
      BY <2>1, <2>3, <3>1 DEF KillInv, KillHeldOnly
  <2> QED
    BY <2>2, <2>3
<1>6. ASSUME NEW c \in Config, ApplyReload(c) PROVE KillInv'
  <2>0. c.kill \in BOOLEAN
    BY ConfigAssumption
  <2>1. PastGate' = PastGate /\ (control'.kill <=> control.kill \/ c.kill)
    BY <1>0, <1>6 DEF ApplyReload, PastGate, Reloaded, Typed, ControlRecord
  <2>2. CASE c.kill
    BY <1>4, <1>6, <2>1, <2>2 DEF ApplyReload, KillInv, KillHeldOnly
  <2>3. CASE ~c.kill
    <3>1. stopped' = stopped
      BY <1>6, <2>3 DEF ApplyReload
    <3> QED
      BY <1>0, <2>1, <2>3, <3>1 DEF KillInv, KillHeldOnly
  <2> QED
    BY <2>0, <2>2, <2>3
<1>7. CASE Restart
  <2>1. stopped'.engaged = control'.kill /\ hook' = [h \in Hook |-> NoRequest]
    BY <1>7 DEF Restart, NotStopped
  <2>2. PastGate' = {}
    BY <2>1 DEF PastGate, NoRequest
  <2> QED
    BY <2>1, <2>2 DEF KillInv, KillHeldOnly
<1>8. CASE \/ \E o \in Operator : PostApproval(o)
           \/ Sweep \/ PostSessionReset \/ Tick \/ UNCHANGED vars
  <2>1. UNCHANGED <<control, stopped, hook>>
    BY <1>8 DEF PostApproval, Sweep, PostSessionReset, Tick, vars
  <2> QED
    BY <1>1, <2>1 DEF PastGate
<1> QED
  BY <1>2, <1>3, <1>5, <1>6, <1>7, <1>8 DEF Next

\* The server as it starts.
LEMMA Initially == Init => IInv
<1> SUFFICES ASSUME Init PROVE IInv
  OBVIOUS
<1>1. QueueInv
  BY QueueInitially DEF Init
<1>2. /\ B!TypeOK /\ allowed \in [count : Nat, notional : Nat] /\ AllowedWithinBudget
  <2>1. breached \in BOOLEAN
    BY Zenon DEF Init, B!Init
  <2>2. B!TypeOK
    BY <2>1, HookAssumption DEF Init, B!Init, B!TypeOK
  <2> QED
    BY <2>2, HookAssumption DEF Init, B!Init, NothingAllowed, AllowedWithinBudget, B!WithinCaps
<1>3. PICK c \in Config : control = Boot(c)
  BY DEF Init
<1>4. control \in ControlRecord /\ control.kill \in BOOLEAN
  BY <1>3, ConfigAssumption DEF Boot, ControlRecord, Mode
<1>5. stopped = [NotStopped EXCEPT !.engaged = control.kill] /\ hook = [h \in Hook |-> NoRequest]
  BY DEF Init
<1>6. NoRequest \in HookRecord
  BY HookAssumption DEF NoRequest, HookRecord, HookPC
<1>7. stopped \in [engaged : BOOLEAN, orders : SUBSET Hook] /\ stopped.engaged = control.kill
  BY <1>4, <1>5 DEF NotStopped
<1>8. TypeOK
  BY <1>1, <1>2, <1>4, <1>5, <1>6, <1>7 DEF TypeOK, QueueInv, HookRecord, HookPC
<1>9. HookInv
  BY <1>5 DEF HookInv, HookOK, NoRequest
<1>10. PastGate = {}
  BY <1>5 DEF PastGate, NoRequest
<1>11. KillInv
  BY <1>7, <1>10 DEF KillInv, KillHeldOnly
<1> QED
  BY <1>1, <1>2, <1>8, <1>9, <1>11 DEF IInv

\* Every step of the server preserves the invariant.
LEMMA Inductive == IInv /\ [Next]_vars => IInv'
<1> SUFFICES ASSUME IInv, [Next]_vars PROVE IInv'
  OBVIOUS
<1>1. QueueInv' /\ HookInv' /\ KillInv' /\ Typed'
  BY QueuePart, HookPart, KillPart, TypesPart
<1>2. B!TypeOK' /\ allowed' \in [count : Nat, notional : Nat] /\ AllowedWithinBudget'
  BY BudgetPart
<1>3. TypeOK'
  BY <1>1, <1>2 DEF TypeOK, QueueInv, Typed, HookRecord, HookPC
<1> QED
  BY <1>1, <1>2, <1>3 DEF IInv

--------------------------------------------------------------------------------
(* Theorems *)

\* Types: the handlers' records, the queue, the budget and the control state.
THEOREM TypeCorrect == Spec => []TypeOK
<1>1. IInv => TypeOK
  BY DEF IInv
<1> QED
  BY <1>1, Initially, Inductive, PTL DEF Spec

\* The place-orders allowed since the last reset are exactly the ones charged, within
\* the caps, whatever the interleaving of requests, resets and restarts.
THEOREM AllowedIsCharged == Spec => []AllowedWithinBudget
<1>1. IInv => AllowedWithinBudget
  BY DEF IInv
<1> QED
  BY <1>1, Initially, Inductive, PTL DEF Spec

\* A queued order is allowed only when that very approval was approved.
THEOREM OnlyApprovedGoOn == Spec => []HeldOrdersApproved
<1>1. IInv => HeldOrdersApproved
  BY DEF IInv, HookInv, HookOK, HeldOrdersApproved
<1> QED
  BY <1>1, Initially, Inductive, PTL DEF Spec

\* While the kill switch is engaged no order passes the gate, whatever is reloaded or
\* approved meanwhile.
THEOREM KillHolds == Spec => []KillHeldOnly
<1>1. IInv => KillHeldOnly
  BY DEF IInv, KillInv
<1> QED
  BY <1>1, Initially, Inductive, PTL DEF Spec
================================================================================

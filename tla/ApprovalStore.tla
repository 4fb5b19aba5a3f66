----------------------------- MODULE ApprovalStore -----------------------------
(***************************************************************************)
(* The approval queue of crates/server/src/approvals.rs: the entries, the  *)
(* Ticket a waiting PreToolUse hook holds, the operator's POST             *)
(* /v1/approvals/{id} and the sweeper serve() spawns.                      *)
(*                                                                         *)
(* Entries are pushed with an increasing seq and never reordered, so the   *)
(* Vec is a function from the ids present to entries and a position is an  *)
(* id.  Time is kept as ages in ticks that saturate once no comparison can *)
(* tell them apart: an entry's at Timeout + 1 (the sweeper tests           *)
(* age > Timeout), a ticket's at Timeout (tokio fires at Timeout).         *)
(***************************************************************************)
EXTENDS Naturals, FiniteSets

CONSTANTS
    Hook,       \* concurrent PreToolUse requests
    Operator,   \* concurrent POST /v1/approvals/{id} requests
    Timeout,    \* ApprovalStore.timeout, in ticks
    Retain,     \* ApprovalStore.retain
    MaxSeq      \* bound: approvals ever enqueued

ASSUME ApprovalAssumption ==
    /\ Timeout \in Nat
    /\ Retain \in Nat
    /\ MaxSeq \in Nat

VARIABLES
    entries,   \* Inner.entries: id -> [state, age]
    seq,       \* Inner.seq
    ticket,    \* per hook, the Ticket and its watch::Receiver
    op,        \* per operator request, its progress and its reply
    verdict,   \* history: the last state the queue gave each id
    outcome    \* history: what Ticket::wait returned for each id

vars == <<entries, seq, ticket, op, verdict, outcome>>

Id == 1..MaxSeq
Terminal == {"approved", "denied", "expired"}
ApprovalState == {"pending"} \cup Terminal
Entry == [state : ApprovalState, age : 0..(Timeout + 1)]
Ticket == [waiting : BOOLEAN, id : 0..MaxSeq, rx : ApprovalState, waited : 0..Timeout]
OpState == [pc : {"idle", "list"}, id : 0..MaxSeq,
            reply : {"none", "ok", "not_found", "vanished"}]

NoTicket == [waiting |-> FALSE, id |-> 0, rx |-> "pending", waited |-> 0]

TypeOK ==
    /\ seq \in 0..MaxSeq
    /\ DOMAIN entries \subseteq 1..seq
    /\ \A i \in DOMAIN entries : entries[i] \in Entry
    /\ entries = [i \in DOMAIN entries |-> entries[i]]
    /\ ticket \in [Hook -> Ticket]
    /\ op \in [Operator -> OpState]
    /\ verdict \in [Id -> {"unopened"} \cup ApprovalState]
    /\ outcome \in [Id -> {"none", "abandoned"} \cup Terminal]

Init ==
    /\ entries = [i \in {} |-> [state |-> "pending", age |-> 0]]
    /\ seq = 0
    /\ ticket = [h \in Hook |-> NoTicket]
    /\ op = [o \in Operator |-> [pc |-> "idle", id |-> 0, reply |-> "none"]]
    /\ verdict = [i \in Id |-> "unopened"]
    /\ outcome = [i \in Id |-> "none"]

--------------------------------------------------------------------------------
(* Helpers *)

Pending(i) == i \in DOMAIN entries /\ entries[i].state = "pending"

\* A terminal entry's created_at is only a sort key, which its id already is.
Decided(s) == [state |-> s, age |-> 0]

\* Mutant: the oldest entries go, decided or not.
MutTrim(es) ==
    [i \in {j \in DOMAIN es : Cardinality({k \in DOMAIN es : k >= j}) <= Retain} |-> es[i]]

\* Mutant: one terminal entry too few is kept.
MutTrimShort(es) ==
    LET decided == {i \in DOMAIN es : es[i].state \in Terminal}
        drop    == {i \in decided : Cardinality({j \in decided : j >= i}) >= Retain}
    IN  [i \in DOMAIN es \ drop |-> es[i]]

\* trim: of the terminal entries keep the Retain last ones by position.
Trim(es) ==
    LET decided == {i \in DOMAIN es : es[i].state \in Terminal}
        drop    == {i \in decided : Cardinality({j \in decided : j >= i}) > Retain}
    IN  [i \in DOMAIN es \ drop |-> es[i]]

\* Sender::send: the receivers of the ids in I see s.
Send(I, s) ==
    [h \in Hook |-> IF ticket[h].waiting /\ ticket[h].id \in I
                    THEN [ticket[h] EXCEPT !.rx = s]
                    ELSE ticket[h]]

--------------------------------------------------------------------------------
(* Operations *)

\* Mutant: the id is taken before the counter moves.
MutEnqueue(h) ==
    /\ ~ticket[h].waiting
    /\ seq < MaxSeq
    /\ seq' = seq + 1
    /\ entries' = [i \in DOMAIN entries \cup {seq} |->
                     IF i = seq THEN [state |-> "pending", age |-> 0] ELSE entries[i]]
    /\ ticket' = [ticket EXCEPT ![h] = [waiting |-> TRUE, id |-> seq,
                                        rx |-> "pending", waited |-> 0]]
    /\ verdict' = [verdict EXCEPT ![seq + 1] = "pending"]
    /\ UNCHANGED <<op, outcome>>

\* enqueue, and the first poll of Ticket::wait.
Enqueue(h) ==
    /\ ~ticket[h].waiting
    /\ seq < MaxSeq
    /\ seq' = seq + 1
    /\ entries' = [i \in DOMAIN entries \cup {seq + 1} |->
                     IF i = seq + 1 THEN [state |-> "pending", age |-> 0] ELSE entries[i]]
    /\ ticket' = [ticket EXCEPT ![h] = [waiting |-> TRUE, id |-> seq + 1,
                                        rx |-> "pending", waited |-> 0]]
    /\ verdict' = [verdict EXCEPT ![seq + 1] = "pending"]
    /\ UNCHANGED <<op, outcome>>

\* Ticket::wait finds its channel terminal.  tokio's timeout polls the channel
\* before the timer, so a decision already sent wins over an elapsed timer.
WaitDecided(h) ==
    /\ ticket[h].waiting
    /\ ticket[h].rx \in Terminal
    /\ outcome' = [outcome EXCEPT ![ticket[h].id] = ticket[h].rx]
    /\ ticket' = [ticket EXCEPT ![h] = NoTicket]
    /\ UNCHANGED <<entries, seq, op, verdict>>

\* Ticket::wait gives up: the channel is still pending and the timer fired.
WaitTimeout(h) ==
    /\ ticket[h].waiting
    /\ ticket[h].rx \notin Terminal
    /\ ticket[h].waited >= Timeout
    /\ outcome' = [outcome EXCEPT ![ticket[h].id] = "expired"]
    /\ ticket' = [ticket EXCEPT ![h] = NoTicket]
    /\ UNCHANGED <<entries, seq, op, verdict>>

\* Mutant: no timer around the wait.
MutWait(h) == WaitDecided(h)

Wait(h) == WaitDecided(h) \/ WaitTimeout(h)

\* The agent drops its connection and axum drops the waiting handler.
Abandon(h) ==
    /\ ticket[h].waiting
    /\ outcome' = [outcome EXCEPT ![ticket[h].id] = "abandoned"]
    /\ ticket' = [ticket EXCEPT ![h] = NoTicket]
    /\ UNCHANGED <<entries, seq, op, verdict>>

\* Mutant: a terminal approval is decided again.
MutDecideOk(o, id, s) ==
    /\ op[o].pc = "idle"
    /\ id \in DOMAIN entries
    /\ entries' = Trim([entries EXCEPT ![id] = Decided(s)])
    /\ ticket' = Send({id}, s)
    /\ verdict' = [verdict EXCEPT ![id] = s]
    /\ op' = [op EXCEPT ![o] = [pc |-> "list", id |-> id, reply |-> "none"]]
    /\ UNCHANGED <<seq, outcome>>

\* post_approval, first half: decide() returns Ok(true).
DecideOk(o, id, s) ==
    /\ op[o].pc = "idle"
    /\ Pending(id)
    /\ entries' = Trim([entries EXCEPT ![id] = Decided(s)])
    /\ ticket' = Send({id}, s)
    /\ verdict' = [verdict EXCEPT ![id] = s]
    /\ op' = [op EXCEPT ![o] = [pc |-> "list", id |-> id, reply |-> "none"]]
    /\ UNCHANGED <<seq, outcome>>

\* post_approval: decide() returns Ok(false), answered 404.
DecideRefused(o, id) ==
    /\ op[o].pc = "idle"
    /\ ~Pending(id)
    /\ op' = [op EXCEPT ![o] = [pc |-> "idle", id |-> 0, reply |-> "not_found"]]
    /\ UNCHANGED <<entries, seq, ticket, verdict, outcome>>

\* post_approval, second half: list() again, under a lock taken afresh.
ListDecided(o) ==
    /\ op[o].pc = "list"
    /\ op' = [op EXCEPT ![o] = [pc |-> "idle", id |-> 0,
                                reply |-> IF op[o].id \in DOMAIN entries THEN "ok"
                                          ELSE "vanished"]]
    /\ UNCHANGED <<entries, seq, ticket, verdict, outcome>>

PostApproval(o) ==
    \/ \E id \in 1..seq, s \in {"approved", "denied"} : DecideOk(o, id, s)
    \/ \E id \in 1..seq : DecideRefused(o, id)
    \/ ListDecided(o)

\* Mutant: only approvals a hook still waits on expire.
MutStaleWaited ==
    {i \in DOMAIN entries : /\ entries[i].state = "pending" /\ entries[i].age > Timeout
                            /\ \E h \in Hook : ticket[h].waiting /\ ticket[h].id = i}

Stale == {i \in DOMAIN entries : entries[i].state = "pending" /\ entries[i].age > Timeout}

\* Mutants: expiry not sent to the waiter; history not trimmed.
MutSweepSilent ==
    /\ entries' = Trim([i \in DOMAIN entries |->
                          IF i \in Stale THEN Decided("expired") ELSE entries[i]])
    /\ verdict' = [i \in Id |-> IF i \in Stale THEN "expired" ELSE verdict[i]]
    /\ UNCHANGED <<seq, op, ticket, outcome>>

\* sweep_expired, called every five seconds by the task serve() spawns.
SweepExpired ==
    /\ entries' = Trim([i \in DOMAIN entries |->
                          IF i \in Stale THEN Decided("expired") ELSE entries[i]])
    /\ ticket' = Send(Stale, "expired")
    /\ verdict' = [i \in Id |-> IF i \in Stale THEN "expired" ELSE verdict[i]]
    /\ UNCHANGED <<seq, op, outcome>>

\* Time passes for the pending entries and the waiting tickets.
Tick ==
    /\ entries' = [i \in DOMAIN entries |->
                     IF entries[i].state = "pending" /\ entries[i].age <= Timeout
                     THEN [entries[i] EXCEPT !.age = @ + 1] ELSE entries[i]]
    /\ ticket' = [h \in Hook |->
                    IF ticket[h].waiting /\ ticket[h].waited < Timeout
                    THEN [ticket[h] EXCEPT !.waited = @ + 1] ELSE ticket[h]]
    /\ UNCHANGED <<seq, op, verdict, outcome>>

\* ApprovalStore::new in a restarted process: the queue lives in memory only.  The
\* history starts again with it, so this is a step of the composition, not of Next.
Forget ==
    /\ entries' = [i \in {} |-> Decided("expired")]
    /\ seq' = 0
    /\ ticket' = [h \in Hook |-> NoTicket]
    /\ op' = [o \in Operator |-> [pc |-> "idle", id |-> 0, reply |-> "none"]]
    /\ verdict' = [i \in Id |-> "unopened"]
    /\ outcome' = [i \in Id |-> "none"]

Next ==
    \/ \E h \in Hook : Enqueue(h) \/ Wait(h) \/ Abandon(h)
    \/ \E o \in Operator : PostApproval(o)
    \/ SweepExpired
    \/ Tick

Spec == Init /\ [][Next]_vars

\* The clock runs and a handler whose future is ready is polled again.
\* Operators and agents owe nothing.
Fairness ==
    /\ WF_vars(Tick)
    /\ \A h \in Hook : WF_vars(Wait(h))
    /\ \A o \in Operator : WF_vars(ListDecided(o))

FairSpec == Spec /\ Fairness

--------------------------------------------------------------------------------
(* Properties *)

\* A pending approval is never trimmed away: an approval the queue has opened and
\* not yet decided is still there for the operator and the sweeper, even when its
\* hook has gone, and an entry the queue shows carries its last verdict.
PendingKept ==
    /\ \A i \in Id : verdict[i] = "pending" => Pending(i)
    /\ \A i \in DOMAIN entries : entries[i].state = verdict[i]

\* A waiting hook's channel shows exactly the verdict the queue gave its approval,
\* also when trim has already dropped the entry and with it the sender.
WaiterSeesVerdict ==
    \A h \in Hook : ticket[h].waiting => ticket[h].rx = verdict[ticket[h].id]

\* The queue implements the lifecycle of ADR-0005: one verdict per approval, one
\* outcome per hook, and "approved" only for an approved approval.
Lifecycle == INSTANCE ApprovalLifecycle WITH status <- verdict
ImplementsLifecycle == Lifecycle!Spec

\* Every held order is answered: the operator's decision or the ticket's own
\* timeout ends the wait, without any help from the sweeper.
HeldOrdersAnswered ==
    \A h \in Hook : ticket[h].waiting ~> ~ticket[h].waiting

\* As long as the sweeper's interval keeps firing every approval reaches a terminal
\* state, also one whose hook has gone away.
PendingEventuallyDecided ==
    WF_vars(SweepExpired) =>
        \A i \in Id : (verdict[i] = "pending") ~> (verdict[i] \in Terminal)

\* trim never lets the decided entries of a long-lived server pass Retain, and it is
\* only for later ones that it gives one up: the approval an operator has just decided
\* is missing from the list post_approval then takes (routes.rs:843, "approval
\* vanished after decision") only when the retained history is full of later ones.
DecisionShown ==
    /\ Cardinality({i \in DOMAIN entries : entries[i].state \in Terminal}) <= Retain
    /\ \A o \in Operator :
          op[o].pc = "list" /\ op[o].id \notin DOMAIN entries =>
              Cardinality({i \in Id : i > op[o].id /\ verdict[i] \in Terminal}) >= Retain
================================================================================

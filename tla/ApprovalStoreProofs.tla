-------------------------- MODULE ApprovalStoreProofs --------------------------
(***************************************************************************)
(* The approval queue for any number of hooks, operators and approvals:    *)
(* nothing pending is lost, a waiting hook sees the queue's verdict, and   *)
(* the queue implements the lifecycle of ADR-0005.                         *)
(***************************************************************************)
EXTENDS ApprovalStore, FiniteSetTheorems, WellFoundedInduction, TLAPS

\* Ids are handed out in order and histories start with them.
OpenedInOrder ==
    \A i \in Id : /\ i <= seq <=> verdict[i] # "unopened"
                  /\ i > seq => outcome[i] = "none"

\* A ticket's approval has been opened, has not been answered and is nobody else's.
TicketsFresh ==
    /\ \A h \in Hook : ticket[h].waiting => ticket[h].id \in 1..seq
                                            /\ outcome[ticket[h].id] = "none"
    /\ \A h, g \in Hook : ticket[h].waiting /\ ticket[g].waiting /\ ticket[h].id = ticket[g].id
                             => h = g

\* The inductive invariant: types, ids handed out in order, tickets on ids nobody
\* else waits for and not yet answered, and the two properties themselves.
IInv ==
    /\ TypeOK
    /\ OpenedInOrder
    /\ TicketsFresh
    /\ PendingKept
    /\ WaiterSeesVerdict

USE ApprovalAssumption

--------------------------------------------------------------------------------

\* trim removes terminal entries only and changes none.
LEMMA TrimFacts ==
    ASSUME NEW es
    PROVE  /\ DOMAIN Trim(es) \subseteq DOMAIN es
           /\ \A i \in DOMAIN Trim(es) : Trim(es)[i] = es[i]
           /\ \A i \in DOMAIN es : es[i].state \notin Terminal => i \in DOMAIN Trim(es)
           /\ Trim(es) = [i \in DOMAIN Trim(es) |-> Trim(es)[i]]
BY DEF Trim

\* What a sender tells the tickets.
LEMMA SendFacts ==
    ASSUME TypeOK, NEW I \in SUBSET Id, NEW s \in Terminal
    PROVE  /\ Send(I, s) \in [Hook -> Ticket]
           /\ \A h \in Hook :
                 /\ Send(I, s)[h].waiting = ticket[h].waiting
                 /\ Send(I, s)[h].id = ticket[h].id
                 /\ ticket[h].waiting =>
                       Send(I, s)[h].rx = IF ticket[h].id \in I THEN s ELSE ticket[h].rx
<1>1. ticket \in [Hook -> Ticket] /\ s \in ApprovalState
  BY DEF TypeOK, ApprovalState
<1> QED
  BY <1>1 DEF Send, Ticket

\* ApprovalStore::new: the empty queue satisfies the invariant.
LEMMA Initially == Init => IInv
<1> SUFFICES ASSUME Init PROVE IInv
  OBVIOUS
<1>1. seq = 0 /\ DOMAIN entries = {} /\ entries = [i \in DOMAIN entries |-> entries[i]]
  BY DEF Init
<1>2. NoTicket \in Ticket
  BY DEF NoTicket, Ticket, ApprovalState
<1>3. TypeOK
  <2>1. ticket \in [Hook -> Ticket]
    BY <1>2 DEF Init
  <2>2. op \in [Operator -> OpState]
    BY DEF Init, OpState
  <2>3. /\ verdict \in [Id -> {"unopened"} \cup ApprovalState]
        /\ outcome \in [Id -> {"none", "abandoned"} \cup Terminal]
    BY DEF Init
  <2> QED
    BY <1>1, <2>1, <2>2, <2>3 DEF TypeOK
<1>4. \A h \in Hook : ~ticket[h].waiting
  BY DEF Init, NoTicket
<1>5. OpenedInOrder
  BY <1>1 DEF Init, OpenedInOrder, Id
<1>6. TicketsFresh /\ PendingKept /\ WaiterSeesVerdict
  BY <1>1, <1>4 DEF Init, TicketsFresh, PendingKept, WaiterSeesVerdict
<1> QED
  BY <1>3, <1>5, <1>6 DEF IInv

--------------------------------------------------------------------------------
(* One lemma per kind of step. *)

\* enqueue hands out an id nothing refers to yet.
LEMMA EnqueueStep == ASSUME IInv, NEW h \in Hook, Enqueue(h) PROVE IInv'
<1> DEFINE id == seq + 1
           new == [waiting |-> TRUE, id |-> id, rx |-> "pending", waited |-> 0]
<1> USE DEF IInv
<1>1. id \in Id /\ seq' = id /\ id \in 1..MaxSeq /\ seq \in Nat
  BY DEF Enqueue, TypeOK, Id
<1>2. new \in Ticket
  BY <1>1 DEF Ticket, ApprovalState
<1>3. /\ ticket' \in [Hook -> Ticket]
      /\ ticket'[h] = new
      /\ \A g \in Hook \ {h} : ticket'[g] = ticket[g]
  BY <1>2 DEF Enqueue, TypeOK
<1>4. /\ DOMAIN entries' = DOMAIN entries \cup {id}
      /\ entries'[id] = [state |-> "pending", age |-> 0]
      /\ \A i \in DOMAIN entries : entries'[i] = entries[i]
      /\ id \notin DOMAIN entries
      /\ entries' = [i \in DOMAIN entries' |-> entries'[i]]
  <2>1. id \notin DOMAIN entries
    BY <1>1 DEF TypeOK
  <2> QED
    BY <2>1 DEF Enqueue
<1>5. /\ verdict' \in [Id -> {"unopened"} \cup ApprovalState]
      /\ verdict'[id] = "pending"
      /\ \A i \in Id \ {id} : verdict'[i] = verdict[i]
      /\ outcome' = outcome
  BY <1>1 DEF Enqueue, TypeOK, ApprovalState
<1>6. TypeOK'
  <2>1. \A i \in DOMAIN entries' : entries'[i] \in Entry
    BY <1>4 DEF TypeOK, Entry, ApprovalState
  <2>2. DOMAIN entries' \subseteq 1..seq'
    BY <1>1, <1>4 DEF TypeOK
  <2>3. seq' \in 0..MaxSeq
    BY <1>1
  <2>4. /\ op' \in [Operator -> OpState]
        /\ outcome' \in [Id -> {"none", "abandoned"} \cup Terminal]
    BY DEF TypeOK, Enqueue
  <2> QED
    BY <1>3, <1>4, <1>5, <2>1, <2>2, <2>3, <2>4 DEF TypeOK
<1>7. OpenedInOrder'
  BY <1>1, <1>5 DEF OpenedInOrder, Id
<1>8. TicketsFresh'
  <2>1. outcome[id] = "none"
    BY <1>1 DEF OpenedInOrder
  <2>2. \A g \in Hook : ticket[g].waiting => ticket[g].id # id
    BY <1>1 DEF TicketsFresh
  <2> QED
    BY <1>1, <1>3, <1>5, <2>1, <2>2 DEF TicketsFresh
<1>9. PendingKept' /\ WaiterSeesVerdict'
  <2>1. PendingKept'
    BY <1>1, <1>4, <1>5 DEF PendingKept, Pending, TypeOK, Id
  <2>2. \A g \in Hook : ticket[g].waiting => ticket[g].id \in Id \ {id}
    BY <1>1 DEF TicketsFresh, Id
  <2>3. WaiterSeesVerdict'
    BY <1>3, <1>5, <2>2 DEF WaiterSeesVerdict
  <2> QED
    BY <2>1, <2>3
<1> QED
  BY <1>6, <1>7, <1>8, <1>9

\* The three ways a wait ends differ in the outcome only.
LEMMA WaitEnds ==
    ASSUME IInv, NEW h \in Hook, ticket[h].waiting,
           NEW s \in Terminal \cup {"abandoned"},
           outcome' = [outcome EXCEPT ![ticket[h].id] = s],
           ticket' = [ticket EXCEPT ![h] = NoTicket],
           UNCHANGED <<entries, seq, op, verdict>>
    PROVE  IInv'
<1> USE DEF IInv
<1>1. ticket[h].id \in Id /\ ticket[h].id \in Nat /\ ticket[h].id <= seq /\ seq \in Nat
  BY DEF TicketsFresh, TypeOK, Id
<1>2. /\ ticket' \in [Hook -> Ticket]
      /\ ~ticket'[h].waiting
      /\ \A g \in Hook \ {h} : ticket'[g] = ticket[g]
  <2>1. NoTicket \in Ticket /\ ~NoTicket.waiting
    BY DEF NoTicket, Ticket, ApprovalState
  <2> QED
    BY <2>1 DEF TypeOK
<1>3. /\ outcome' \in [Id -> {"none", "abandoned"} \cup Terminal]
      /\ \A i \in Id : i # ticket[h].id => outcome'[i] = outcome[i]
  BY <1>1 DEF TypeOK
<1>4. TypeOK'
  BY <1>2, <1>3 DEF TypeOK
<1>5. OpenedInOrder'
  <2> SUFFICES ASSUME NEW i \in Id
               PROVE /\ i <= seq <=> verdict[i] # "unopened"
                     /\ i > seq => outcome'[i] = "none"
    BY DEF OpenedInOrder
  <2>1. i > seq => i # ticket[h].id
    BY <1>1 DEF Id
  <2> QED
    BY <1>3, <2>1 DEF OpenedInOrder
<1>6. TicketsFresh'
  <2>1. \A g \in Hook \ {h} : ticket[g].waiting => ticket[g].id \in Id /\ ticket[g].id # ticket[h].id
    BY DEF TicketsFresh, TypeOK, Id
  <2> QED
    BY <1>2, <1>3, <2>1 DEF TicketsFresh
<1>7. PendingKept' /\ WaiterSeesVerdict'
  BY <1>2 DEF PendingKept, Pending, WaiterSeesVerdict
<1> QED
  BY <1>4, <1>5, <1>6, <1>7

\* decide and sweep_expired: a set of pending approvals gets a verdict, the waiters
\* are told and the history is trimmed.
LEMMA VerdictGiven ==
    ASSUME IInv, NEW I \in SUBSET Id, NEW s \in Terminal,
           \A i \in I : Pending(i),
           NEW es, es = [i \in DOMAIN entries |-> IF i \in I THEN Decided(s) ELSE entries[i]],
           entries' = Trim(es),
           ticket' = Send(I, s),
           verdict' = [i \in Id |-> IF i \in I THEN s ELSE verdict[i]],
           op' \in [Operator -> OpState],
           UNCHANGED <<seq, outcome>>
    PROVE  IInv'
<1> USE DEF IInv
<1>1. /\ DOMAIN es = DOMAIN entries
      /\ \A i \in DOMAIN es : es[i] = IF i \in I THEN Decided(s) ELSE entries[i]
      /\ DOMAIN entries \subseteq Id
      /\ I \subseteq DOMAIN entries
  <2>1. DOMAIN entries \subseteq Id
    BY DEF TypeOK, Id
  <2>2. I \subseteq DOMAIN entries
    BY DEF Pending
  <2> QED
    BY <2>1, <2>2
<1>2. /\ DOMAIN entries' \subseteq DOMAIN entries
      /\ \A i \in DOMAIN entries' : entries'[i] = es[i]
      /\ \A i \in DOMAIN entries : es[i].state \notin Terminal => i \in DOMAIN entries'
      /\ entries' = [i \in DOMAIN entries' |-> entries'[i]]
  BY <1>1, TrimFacts
<1>3. /\ ticket' \in [Hook -> Ticket]
      /\ \A h \in Hook : /\ ticket'[h].waiting = ticket[h].waiting
                         /\ ticket'[h].id = ticket[h].id
                         /\ ticket[h].waiting =>
                              ticket'[h].rx = IF ticket[h].id \in I THEN s ELSE ticket[h].rx
  BY SendFacts
<1>4. Decided(s) \in Entry /\ Decided(s).state = s
  BY DEF Decided, Entry, ApprovalState
<1>5. TypeOK'
  <2>1. \A i \in DOMAIN entries' : entries'[i] \in Entry
    BY <1>1, <1>2, <1>4 DEF TypeOK
  <2>2. verdict' \in [Id -> {"unopened"} \cup ApprovalState]
    BY DEF TypeOK, ApprovalState
  <2>3. DOMAIN entries' \subseteq 1..seq'
    BY <1>2 DEF TypeOK
  <2> QED
    BY <1>2, <1>3, <2>1, <2>2, <2>3 DEF TypeOK
<1>6. \A i \in I : verdict[i] = "pending"
  BY <1>1 DEF PendingKept, Pending
<1>7. OpenedInOrder'
  BY <1>6 DEF OpenedInOrder, Terminal
<1>8. TicketsFresh'
  BY <1>3 DEF TicketsFresh
<1>9. PendingKept'
  <2>1. ASSUME NEW i \in Id, verdict'[i] = "pending" PROVE Pending(i)'
    <3>1. i \notin I /\ verdict[i] = "pending"
      BY <2>1 DEF Terminal
    <3>2. i \in DOMAIN entries /\ entries[i].state = "pending" /\ es[i] = entries[i]
      BY <1>1, <3>1 DEF PendingKept, Pending
    <3> QED
      BY <1>2, <3>2 DEF Pending, Terminal
  <2>2. ASSUME NEW i \in DOMAIN entries' PROVE entries'[i].state = verdict'[i]
    BY <1>1, <1>2, <1>4 DEF PendingKept
  <2> QED
    BY <2>1, <2>2 DEF PendingKept
<1>10. WaiterSeesVerdict'
  <2>1. \A h \in Hook : ticket[h].waiting => ticket[h].id \in Id
    BY DEF TicketsFresh, TypeOK, Id
  <2> QED
    BY <1>3, <2>1 DEF WaiterSeesVerdict
<1> QED
  BY <1>5, <1>7, <1>8, <1>9, <1>10

\* decide gives its one approval the operator's verdict.
LEMMA DecideStep ==
    ASSUME IInv, NEW o \in Operator, NEW id \in 1..seq, NEW s \in {"approved", "denied"},
           DecideOk(o, id, s)
    PROVE  IInv'
<1> DEFINE es == [i \in DOMAIN entries |-> IF i \in {id} THEN Decided(s) ELSE entries[i]]
<1>1. id \in Id /\ id \in 0..MaxSeq /\ s \in Terminal
  BY DEF IInv, TypeOK, Id, Terminal
<1>2. Pending(id)
  BY DEF DecideOk
<1>3. [entries EXCEPT ![id] = Decided(s)] = es
  BY DEF IInv, TypeOK
<1>4. verdict' = [i \in Id |-> IF i \in {id} THEN s ELSE verdict[i]]
  BY <1>1 DEF DecideOk, IInv, TypeOK
<1>5. op' \in [Operator -> OpState]
  BY <1>1 DEF DecideOk, IInv, TypeOK, OpState
<1>6. entries' = Trim(es) /\ ticket' = Send({id}, s) /\ UNCHANGED <<seq, outcome>>
  BY <1>3 DEF DecideOk
<1>7. {id} \in SUBSET Id
  BY <1>1
<1> HIDE DEF es
<1> QED
  BY <1>1, <1>2, <1>4, <1>5, <1>6, <1>7, VerdictGiven DEF es

\* sweep_expired gives every stale approval the verdict expired.
LEMMA SweepStep == ASSUME IInv, SweepExpired PROVE IInv'
<1>1. Stale \in SUBSET Id /\ \A i \in Stale : Pending(i)
  BY DEF IInv, TypeOK, Id, Stale, Pending
<1>2. "expired" \in Terminal /\ op' \in [Operator -> OpState]
  BY DEF SweepExpired, IInv, TypeOK, Terminal
<1> QED
  BY <1>1, <1>2, VerdictGiven DEF SweepExpired

\* Requests that only read the queue, and the clock.
LEMMA QuietSteps ==
    ASSUME IInv,
           \/ \E o \in Operator, id \in 1..seq : DecideRefused(o, id)
           \/ \E o \in Operator : ListDecided(o)
           \/ UNCHANGED vars
    PROVE  IInv'
<1>1. /\ op' \in [Operator -> OpState]
      /\ UNCHANGED <<entries, seq, ticket, verdict, outcome>>
  BY DEF IInv, TypeOK, OpState, DecideRefused, ListDecided, vars
<1> QED
  BY <1>1 DEF IInv, TypeOK, OpenedInOrder, TicketsFresh, PendingKept, Pending, WaiterSeesVerdict

\* Time changes ages only.
LEMMA TickStep == ASSUME IInv, Tick PROVE IInv'
<1> USE DEF IInv
<1>1. /\ DOMAIN entries' = DOMAIN entries
      /\ entries' = [i \in DOMAIN entries' |-> entries'[i]]
      /\ \A i \in DOMAIN entries : entries'[i] \in Entry /\ entries'[i].state = entries[i].state
  <2>1. entries' = [i \in DOMAIN entries |->
                     IF entries[i].state = "pending" /\ entries[i].age <= Timeout
                     THEN [entries[i] EXCEPT !.age = @ + 1] ELSE entries[i]]
    BY DEF Tick
  <2>2. \A i \in DOMAIN entries :
          entries[i].age <= Timeout => [entries[i] EXCEPT !.age = @ + 1] \in Entry
    BY DEF TypeOK, Entry
  <2>3. \A i \in DOMAIN entries : [entries[i] EXCEPT !.age = @ + 1].state = entries[i].state
    BY DEF TypeOK, Entry
  <2> QED
    BY <2>1, <2>2, <2>3 DEF TypeOK
<1>2. /\ ticket' \in [Hook -> Ticket]
      /\ \A h \in Hook : /\ ticket'[h].waiting = ticket[h].waiting
                         /\ ticket'[h].id = ticket[h].id
                         /\ ticket'[h].rx = ticket[h].rx
  <2>1. \A h \in Hook : ticket[h].waited < Timeout =>
          [ticket[h] EXCEPT !.waited = @ + 1] \in Ticket
    BY DEF TypeOK, Ticket
  <2> QED
    BY <2>1 DEF TypeOK, Ticket, Tick
<1>3. UNCHANGED <<seq, op, verdict, outcome>>
  BY DEF Tick
<1>4. TypeOK'
  BY <1>1, <1>2, <1>3 DEF TypeOK
<1>5. OpenedInOrder' /\ TicketsFresh' /\ WaiterSeesVerdict'
  BY <1>2, <1>3 DEF OpenedInOrder, TicketsFresh, WaiterSeesVerdict
<1>6. PendingKept'
  BY <1>1, <1>3 DEF PendingKept, Pending
<1> QED
  BY <1>4, <1>5, <1>6

--------------------------------------------------------------------------------

\* Every step of the queue preserves the invariant.
LEMMA Inductive == IInv /\ [Next]_vars => IInv'
<1> SUFFICES ASSUME IInv, [Next]_vars PROVE IInv'
  OBVIOUS
<1>1. ASSUME NEW h \in Hook, WaitDecided(h) PROVE IInv'
  <2>1. ticket[h].rx \in Terminal \cup {"abandoned"}
    BY <1>1 DEF WaitDecided
  <2> QED
    BY <1>1, <2>1, WaitEnds DEF WaitDecided
<1>2. ASSUME NEW h \in Hook, WaitTimeout(h) PROVE IInv'
  <2>1. "expired" \in Terminal \cup {"abandoned"}
    BY DEF Terminal
  <2> QED
    BY <1>2, <2>1, WaitEnds DEF WaitTimeout
<1>3. ASSUME NEW h \in Hook, Abandon(h) PROVE IInv'
  <2>1. "abandoned" \in Terminal \cup {"abandoned"}
    OBVIOUS
  <2> QED
    BY <1>3, <2>1, WaitEnds DEF Abandon
<1>4. ASSUME NEW h \in Hook, Enqueue(h) PROVE IInv'
  BY <1>4, EnqueueStep
<1>5. ASSUME NEW o \in Operator, PostApproval(o) PROVE IInv'
  BY <1>5, DecideStep, QuietSteps DEF PostApproval
<1>6. CASE SweepExpired
  BY <1>6, SweepStep
<1>7. CASE Tick
  BY <1>7, TickStep
<1>8. CASE UNCHANGED vars
  BY <1>8, QuietSteps
<1> QED
  BY <1>1, <1>2, <1>3, <1>4, <1>5, <1>6, <1>7, <1>8 DEF Next, Wait

\* Every reachable state of the queue is well typed: enqueue never runs past its
\* ids, and no ticket or entry refers to an id that was not handed out.
THEOREM TypeCorrect == Spec => []TypeOK
<1>1. IInv => TypeOK
  BY DEF IInv
<1> QED
  BY <1>1, Initially, Inductive, PTL DEF Spec

\* trim never takes a pending approval, and what the queue shows is its verdict.
THEOREM PendingNeverLost == Spec => []PendingKept
<1>1. IInv => PendingKept
  BY DEF IInv
<1> QED
  BY <1>1, Initially, Inductive, PTL DEF Spec

\* A hook that waits is shown exactly the verdict of its approval, whether the
\* operator or the sweeper gave it and whether or not trim has dropped the entry.
THEOREM WaiterNeverMisled == Spec => []WaiterSeesVerdict
<1>1. IInv => WaiterSeesVerdict
  BY DEF IInv
<1> QED
  BY <1>1, Initially, Inductive, PTL DEF Spec

--------------------------------------------------------------------------------
(* Refinement: the verdicts and outcomes move as ADR-0005 lets them. *)

\* The empty queue is the initial state of the lifecycle.
LEMMA InitRefines == Init => Lifecycle!Init
BY DEF Init, Lifecycle!Init

\* Every step of the queue is a step of the lifecycle or leaves it unchanged.
LEMMA StepRefines == IInv /\ [Next]_vars => [Lifecycle!Next]_(Lifecycle!vars)
<1> SUFFICES ASSUME IInv, [Next]_vars
             PROVE  Lifecycle!Next \/ UNCHANGED <<verdict, outcome>>
  BY DEF Lifecycle!vars
<1>1. ASSUME NEW h \in Hook, Enqueue(h) PROVE Lifecycle!Next
  <2>1. seq + 1 \in Id /\ verdict[seq + 1] = "unopened"
    BY <1>1 DEF Enqueue, IInv, TypeOK, OpenedInOrder, Id
  <2>2. Lifecycle!Open(seq + 1)
    BY <1>1, <2>1 DEF Enqueue, Lifecycle!Open
  <2> QED
    BY <2>1, <2>2 DEF Lifecycle!Next
<1>2. ASSUME NEW h \in Hook, ticket[h].waiting
      PROVE  /\ ticket[h].id \in Id
             /\ verdict[ticket[h].id] # "unopened"
             /\ outcome[ticket[h].id] = "none"
             /\ ticket[h].rx = verdict[ticket[h].id]
  <2>1. ticket[h].id \in 1..seq /\ outcome[ticket[h].id] = "none"
    BY <1>2 DEF IInv, TicketsFresh
  <2>2. ticket[h].id \in Id /\ ticket[h].id <= seq
    BY <2>1 DEF IInv, TypeOK, Id
  <2> QED
    BY <1>2, <2>1, <2>2 DEF IInv, OpenedInOrder, WaiterSeesVerdict
<1>3. ASSUME NEW h \in Hook, WaitDecided(h) PROVE Lifecycle!Next
  <2>1. Lifecycle!Answer(ticket[h].id, ticket[h].rx)
    BY <1>2, <1>3 DEF WaitDecided, Lifecycle!Answer, Terminal, Lifecycle!Terminal
  <2> QED
    BY <1>2, <1>3, <2>1 DEF WaitDecided, Lifecycle!Next, Terminal, Lifecycle!Terminal
<1>4. ASSUME NEW h \in Hook, WaitTimeout(h) PROVE Lifecycle!Next
  <2>1. ticket[h].rx = "pending"
    BY <1>4 DEF WaitTimeout, IInv, TypeOK, Ticket, ApprovalState
  <2>2. Lifecycle!Answer(ticket[h].id, "expired")
    BY <1>2, <1>4, <2>1 DEF WaitTimeout, Lifecycle!Answer
  <2> QED
    BY <1>2, <1>4, <2>2 DEF WaitTimeout, Lifecycle!Next, Lifecycle!Terminal
<1>5. ASSUME NEW h \in Hook, Abandon(h) PROVE Lifecycle!Next
  <2>1. Lifecycle!Answer(ticket[h].id, "abandoned")
    BY <1>2, <1>5 DEF Abandon, Lifecycle!Answer
  <2> QED
    BY <1>2, <1>5, <2>1 DEF Abandon, Lifecycle!Next
<1>6. ASSUME NEW o \in Operator, NEW id \in 1..seq, NEW s \in {"approved", "denied"},
             DecideOk(o, id, s)
      PROVE  Lifecycle!Next
  <2>1. id \in Id /\ id \in DOMAIN entries
    BY <1>6 DEF IInv, TypeOK, Id, DecideOk, Pending
  <2>2. verdict[id] = "pending"
    BY <1>6, <2>1 DEF IInv, PendingKept, DecideOk, Pending
  <2>3. Lifecycle!Decide(id, s)
    BY <1>6, <2>2 DEF DecideOk, Lifecycle!Decide
  <2> QED
    BY <2>1, <2>3 DEF Lifecycle!Next, Lifecycle!Terminal
<1>7. ASSUME SweepExpired PROVE Lifecycle!Next
  <2>1. Stale \in SUBSET Id /\ \A i \in Stale : verdict[i] = "pending"
    BY DEF IInv, TypeOK, Id, Stale, PendingKept
  <2>2. Lifecycle!Expire(Stale)
    BY <1>7, <2>1 DEF SweepExpired, Lifecycle!Expire
  <2> QED
    BY <2>1, <2>2 DEF Lifecycle!Next
<1>8. ASSUME NEW o \in Operator, NEW id, DecideRefused(o, id) \/ ListDecided(o)
      PROVE  UNCHANGED <<verdict, outcome>>
  BY <1>8 DEF DecideRefused, ListDecided
<1>9. CASE Tick \/ UNCHANGED vars
  BY <1>9 DEF Tick, vars
<1> QED
  BY <1>1, <1>3, <1>4, <1>5, <1>6, <1>7, <1>8, <1>9 DEF Next, Wait, PostApproval

\* The queue implements the approval lifecycle for every number of hooks, operators
\* and approvals: one verdict per approval, at most one outcome per hook, and an
\* order is let through as approved only if its approval was.
THEOREM RefinesLifecycle == Spec => ImplementsLifecycle
<1>1. Init => Lifecycle!Init
  BY InitRefines
<1>2. IInv /\ [Next]_vars => [Lifecycle!Next]_(Lifecycle!vars)
  BY StepRefines
<1> QED
  BY <1>1, <1>2, Initially, Inductive, PTL DEF Spec, ImplementsLifecycle, Lifecycle!Spec

--------------------------------------------------------------------------------
(* trim: how much history is kept, and what it is given up for. *)

\* The decided entries that are kept, and the approvals decided with a later id.
History(es) == {i \in DOMAIN es : es[i].state \in Terminal}
Later(i) == {k \in Id : k > i /\ verdict[k] \in Terminal}

\* A decided approval that is gone has Retain decided ones after it, and what an
\* operator's request is about to list was decided.
ShownInv ==
    /\ Cardinality(History(entries)) <= Retain
    /\ \A i \in Id : verdict[i] \in Terminal /\ i \notin DOMAIN entries =>
                       Cardinality(Later(i)) >= Retain
    /\ \A o \in Operator : op[o].pc = "list" => op[o].id \in Id /\ verdict[op[o].id] \in Terminal

\* Sets of ids are finite.
LEMMA IdsFinite ==
    ASSUME NEW I \in SUBSET Id
    PROVE  IsFiniteSet(I) /\ Cardinality(I) \in Nat
<1>1. IsFiniteSet(Id)
  BY FS_Interval DEF Id
<1>2. IsFiniteSet(I)
  BY <1>1, FS_Subset
<1> QED
  BY <1>2, FS_CardinalityType

\* A set of ids has a first.
LEMMA FirstOf ==
    ASSUME NEW I \in SUBSET Nat, I # {}
    PROVE  \E i \in I : \A j \in I : i <= j
<1>1. PICK i \in I : \A j \in I : <<j, i>> \notin OpToRel(<, Nat)
  BY WFMin, NatLessThanWellFounded
<1>2. \A j \in I : ~(j < i)
  BY <1>1 DEF OpToRel
<1> QED
  BY <1>2

\* trim keeps at most Retain terminal entries, and what it drops is older than Retain
\* others.
LEMMA TrimBounded ==
    ASSUME NEW es, DOMAIN es \in SUBSET Id
    PROVE  /\ Cardinality(History(Trim(es))) <= Retain
           /\ \A i \in DOMAIN es \ DOMAIN Trim(es) :
                /\ i \in History(es)
                /\ Cardinality({j \in History(es) : j > i}) >= Retain
<1> DEFINE decided == History(es)
           from(i) == {j \in decided : j >= i}
           kept == {i \in decided : ~(Cardinality(from(i)) > Retain)}
<1>0. decided \in SUBSET Id /\ \A i \in Id : i \in Nat
  BY DEF History, Id
<1>1. /\ DOMAIN Trim(es) = DOMAIN es \ {i \in decided : Cardinality(from(i)) > Retain}
      /\ \A i \in DOMAIN Trim(es) : Trim(es)[i] = es[i]
  BY DEF Trim, History
<1>2. History(Trim(es)) = kept
  <2>1. \A i : i \in History(Trim(es)) <=> i \in DOMAIN Trim(es) /\ Trim(es)[i].state \in Terminal
    BY DEF History
  <2>2. \A i : i \in decided <=> i \in DOMAIN es /\ es[i].state \in Terminal
    BY DEF History
  <2> HIDE DEF decided
  <2>3. \A i : i \in History(Trim(es)) <=> i \in kept
    BY <1>1, <2>1, <2>2
  <2> QED
    BY <2>3
<1>3. \A i : from(i) \in SUBSET Id
  BY <1>0
<1> HIDE DEF decided
<1>4. Cardinality(kept) <= Retain
  <2>1. CASE kept = {}
    <3> HIDE DEF kept
    <3> QED
      BY <2>1, FS_EmptySet
  <2>2. CASE kept # {}
    <3>1. kept \in SUBSET Nat
      BY <1>0
    <3>2. PICK m \in kept : \A j \in kept : m <= j
      BY <2>2, <3>1, FirstOf
    <3>3. m \in Nat /\ \A j \in kept : j \in Nat
      BY <3>1
    <3>4. kept \subseteq from(m)
      BY <3>2, <3>3
    <3>5. IsFiniteSet(from(m)) /\ Cardinality(from(m)) \in Nat
      BY <1>3, IdsFinite
    <3>6. Cardinality(from(m)) <= Retain
      BY <3>2, <3>5
    <3>7. Cardinality(kept) <= Cardinality(from(m))
      BY <3>4, <3>5, FS_Subset
    <3>8. Cardinality(kept) \in Nat
      <4>1. kept \in SUBSET Id
        BY <1>0
      <4> HIDE DEF kept
      <4> QED
        BY <4>1, IdsFinite
    <3> QED
      BY <3>5, <3>6, <3>7, <3>8
  <2> QED
    BY <2>1, <2>2
<1>5. ASSUME NEW i \in DOMAIN es \ DOMAIN Trim(es)
      PROVE  i \in decided /\ Cardinality({j \in decided : j > i}) >= Retain
  <2>1. i \in decided /\ Cardinality(from(i)) > Retain
    BY <1>1
  <2>2. IsFiniteSet(from(i)) /\ Cardinality(from(i)) \in Nat
    BY <1>3, IdsFinite
  <2>3. {j \in decided : j > i} = from(i) \ {i} /\ i \in from(i)
    BY <1>0, <2>1
  <2>4. Cardinality(from(i) \ {i}) = Cardinality(from(i)) - 1
    BY <2>2, <2>3, FS_RemoveElement
  <2> QED
    BY <2>1, <2>2, <2>3, <2>4
<1> QED
  BY <1>2, <1>4, <1>5 DEF decided

\* Verdicts that stand keep what was given up for them.
LEMMA LaterKept ==
    ASSUME NEW i, \A k \in Id : verdict[k] \in Terminal => verdict'[k] \in Terminal,
           Cardinality(Later(i)) >= Retain
    PROVE  Cardinality(Later(i)') >= Retain
<1>1. Later(i) \subseteq Later(i)' /\ Later(i) \in SUBSET Id /\ Later(i)' \in SUBSET Id
  BY DEF Later
<1>2. IsFiniteSet(Later(i)') /\ Cardinality(Later(i)') \in Nat /\ Cardinality(Later(i)) \in Nat
  BY <1>1, IdsFinite
<1>3. Cardinality(Later(i)) <= Cardinality(Later(i)')
  BY <1>1, <1>2, FS_Subset
<1> QED
  BY <1>2, <1>3

\* A step that decides nothing.
LEMMA NothingDecided ==
    ASSUME IInv, ShownInv, DOMAIN entries \subseteq DOMAIN entries',
           \A i \in DOMAIN entries : entries'[i].state = entries[i].state,
           \A i \in DOMAIN entries' \ DOMAIN entries : entries'[i].state \notin Terminal,
           \A i \in Id : verdict'[i] \in Terminal <=> verdict[i] \in Terminal,
           \A o \in Operator : op'[o].pc = "list" => op'[o] = op[o]
    PROVE  ShownInv'
<1>1. History(entries') = History(entries)
  BY DEF History
<1>2. \A i \in Id : Later(i)' = Later(i)
  BY DEF Later
<1>3. \A i \in Id : verdict'[i] \in Terminal /\ i \notin DOMAIN entries' =>
                      Cardinality(Later(i)') >= Retain
  BY <1>2 DEF ShownInv
<1> QED
  BY <1>1, <1>3 DEF ShownInv

\* decide and sweep_expired decide a set of pending approvals, and trim.
LEMMA SomeDecided ==
    ASSUME IInv, ShownInv, NEW I \in SUBSET Id, NEW s \in Terminal,
           \A i \in I : Pending(i),
           NEW es, es = [i \in DOMAIN entries |-> IF i \in I THEN Decided(s) ELSE entries[i]],
           entries' = Trim(es),
           verdict' = [i \in Id |-> IF i \in I THEN s ELSE verdict[i]],
           \A o \in Operator : op'[o].pc = "list" => op'[o].id \in I \/ op'[o] = op[o]
    PROVE  ShownInv'
<1>1. DOMAIN es = DOMAIN entries /\ DOMAIN es \in SUBSET Id
  BY DEF IInv, TypeOK, Id
<1>2. /\ Cardinality(History(entries')) <= Retain
      /\ \A i \in DOMAIN es \ DOMAIN entries' :
           /\ i \in History(es)
           /\ Cardinality({j \in History(es) : j > i}) >= Retain
  BY <1>1, TrimBounded
<1>3. \A k \in Id : verdict[k] \in Terminal => verdict'[k] \in Terminal
  OBVIOUS
<1>4. History(es) \subseteq {k \in Id : verdict'[k] \in Terminal}
  <2> SUFFICES ASSUME NEW k \in History(es) PROVE k \in Id /\ verdict'[k] \in Terminal
    OBVIOUS
  <2>1. k \in DOMAIN entries /\ k \in Id /\ es[k].state \in Terminal
    BY <1>1 DEF History
  <2>2. k \notin I => verdict'[k] = verdict[k] /\ es[k] = entries[k] /\ entries[k].state = verdict[k]
    BY <2>1 DEF IInv, PendingKept
  <2>3. k \in I => verdict'[k] = s
    BY <2>1
  <2> QED
    BY <2>1, <2>2, <2>3
<1>5. ASSUME NEW i \in Id, verdict'[i] \in Terminal, i \notin DOMAIN entries'
      PROVE  Cardinality(Later(i)') >= Retain
  <2>1. CASE i \in DOMAIN entries
    <3> DEFINE after == {j \in History(es) : j > i}
    <3>1. Cardinality(after) >= Retain
      BY <1>1, <1>2, <1>5, <2>1
    <3>2. after \subseteq Later(i)' /\ Later(i)' \in SUBSET Id /\ after \in SUBSET Id
      BY <1>4 DEF Later
    <3> HIDE DEF after
    <3>3. IsFiniteSet(Later(i)') /\ Cardinality(Later(i)') \in Nat /\ Cardinality(after) \in Nat
      BY <3>2, IdsFinite
    <3>4. Cardinality(after) <= Cardinality(Later(i)')
      BY <3>2, <3>3, FS_Subset
    <3> QED
      BY <3>1, <3>3, <3>4
  <2>2. CASE i \notin DOMAIN entries
    <3>1. i \notin I
      BY <2>2 DEF Pending
    <3>2. verdict[i] \in Terminal
      BY <1>5, <3>1
    <3>3. Cardinality(Later(i)) >= Retain
      BY <2>2, <3>2 DEF ShownInv
    <3> QED
      BY <1>3, <3>3, LaterKept
  <2> QED
    BY <2>1, <2>2
<1>6. ASSUME NEW o \in Operator, op'[o].pc = "list"
      PROVE  op'[o].id \in Id /\ verdict'[op'[o].id] \in Terminal
  <2>1. CASE op'[o].id \in I
    BY <2>1
  <2>2. CASE op'[o] = op[o]
    BY <1>3, <1>6, <2>2 DEF ShownInv
  <2> QED
    BY <1>6, <2>1, <2>2
<1> QED
  BY <1>2, <1>5, <1>6 DEF ShownInv

\* Every step of the queue preserves ShownInv.
LEMMA ShownInductive == IInv /\ ShownInv /\ [Next]_vars => ShownInv'
<1> SUFFICES ASSUME IInv, ShownInv, [Next]_vars PROVE ShownInv'
  OBVIOUS
<1>1. ASSUME NEW h \in Hook, Enqueue(h) PROVE ShownInv'
  <2>1. seq + 1 \in Id /\ seq + 1 \notin DOMAIN entries /\ verdict[seq + 1] = "unopened"
    BY <1>1 DEF Enqueue, IInv, TypeOK, OpenedInOrder, Id
  <2>2. \A i \in Id : verdict'[i] \in Terminal <=> verdict[i] \in Terminal
    BY <1>1, <2>1 DEF Enqueue, IInv, TypeOK, Terminal
  <2>3. /\ DOMAIN entries \subseteq DOMAIN entries'
        /\ \A i \in DOMAIN entries : entries'[i].state = entries[i].state
        /\ \A i \in DOMAIN entries' \ DOMAIN entries : entries'[i].state \notin Terminal
    BY <1>1, <2>1 DEF Enqueue, Terminal
  <2>4. op' = op
    BY <1>1 DEF Enqueue
  <2> QED
    BY <2>2, <2>3, <2>4, NothingDecided
<1>2. ASSUME NEW h \in Hook, Wait(h) \/ Abandon(h) PROVE ShownInv'
  <2>1. UNCHANGED <<entries, op, verdict>>
    BY <1>2 DEF Wait, WaitDecided, WaitTimeout, Abandon
  <2> QED
    BY <2>1, NothingDecided
<1>3. ASSUME NEW o \in Operator, NEW id \in 1..seq, NEW s \in {"approved", "denied"},
             DecideOk(o, id, s)
      PROVE  ShownInv'
  <2> DEFINE es == [i \in DOMAIN entries |-> IF i \in {id} THEN Decided(s) ELSE entries[i]]
  <2>1. {id} \in SUBSET Id /\ s \in Terminal /\ Pending(id)
    BY <1>3 DEF IInv, TypeOK, Id, Terminal, DecideOk
  <2>2. [entries EXCEPT ![id] = Decided(s)] = es
    BY DEF IInv, TypeOK
  <2>3. entries' = Trim(es)
    BY <1>3, <2>2 DEF DecideOk
  <2>4. verdict' = [i \in Id |-> IF i \in {id} THEN s ELSE verdict[i]]
    BY <1>3, <2>1 DEF DecideOk, IInv, TypeOK
  <2>5. \A q \in Operator : op'[q].pc = "list" => op'[q].id \in {id} \/ op'[q] = op[q]
    BY <1>3 DEF DecideOk, IInv, TypeOK
  <2> HIDE DEF es
  <2> QED
    BY <2>1, <2>3, <2>4, <2>5, SomeDecided DEF es
<1>4. CASE SweepExpired
  <2>1. Stale \in SUBSET Id /\ \A i \in Stale : Pending(i)
    BY DEF IInv, TypeOK, Id, Stale, Pending
  <2>2. "expired" \in Terminal /\ op' = op
    BY <1>4 DEF SweepExpired, Terminal
  <2> QED
    BY <1>4, <2>1, <2>2, SomeDecided DEF SweepExpired
<1>5. ASSUME NEW o \in Operator, (\E id \in 1..seq : DecideRefused(o, id)) \/ ListDecided(o)
      PROVE  ShownInv'
  <2>1. UNCHANGED <<entries, verdict>> /\ \A q \in Operator : op'[q].pc = "list" => op'[q] = op[q]
    BY <1>5 DEF DecideRefused, ListDecided, IInv, TypeOK
  <2> QED
    BY <2>1, NothingDecided
<1>6. CASE Tick
  <2>1. /\ DOMAIN entries' = DOMAIN entries
        /\ \A i \in DOMAIN entries : entries'[i].state = entries[i].state
    <3>1. \A i \in DOMAIN entries : [entries[i] EXCEPT !.age = @ + 1].state = entries[i].state
      BY DEF IInv, TypeOK, Entry
    <3> QED
      BY <1>6, <3>1 DEF Tick
  <2>2. UNCHANGED <<op, verdict>>
    BY <1>6 DEF Tick
  <2> QED
    BY <2>1, <2>2, NothingDecided
<1>7. CASE UNCHANGED vars
  BY <1>7, NothingDecided DEF vars
<1> QED
  BY <1>1, <1>2, <1>3, <1>4, <1>5, <1>6, <1>7 DEF Next, PostApproval

\* The history the queue keeps is bounded by Retain, and post_approval misses the
\* approval it has just decided only when Retain later ones were decided meanwhile.
THEOREM DecisionsShown == Spec => []DecisionShown
<1>1. Init => ShownInv
  <2> SUFFICES ASSUME Init PROVE ShownInv
    OBVIOUS
  <2>1. History(entries) = {}
    BY DEF Init, History
  <2>2. Cardinality(History(entries)) <= Retain
    BY <2>1, FS_EmptySet
  <2> QED
    BY <2>2 DEF Init, ShownInv, Terminal
<1>2. ShownInv => DecisionShown
  <2> SUFFICES ASSUME ShownInv PROVE DecisionShown
    OBVIOUS
  <2>1. Cardinality({i \in DOMAIN entries : entries[i].state \in Terminal}) <= Retain
    BY DEF ShownInv, History
  <2>2. ASSUME NEW o \in Operator, op[o].pc = "list", op[o].id \notin DOMAIN entries
        PROVE  Cardinality({i \in Id : i > op[o].id /\ verdict[i] \in Terminal}) >= Retain
    BY <2>2 DEF ShownInv, Later
  <2> QED
    BY <2>1, <2>2 DEF DecisionShown
<1> QED
  BY <1>1, <1>2, ShownInductive, Initially, Inductive, PTL DEF Spec
================================================================================

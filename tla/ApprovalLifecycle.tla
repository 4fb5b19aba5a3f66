-------------------------- MODULE ApprovalLifecycle --------------------------
(***************************************************************************)
(* What the approval gate promises (docs/adr/0005): an approval is opened  *)
(* pending and moves once, to approved, denied or expired; the hook that   *)
(* asked gets at most one outcome, and whatever the races between the      *)
(* operator, the waiter's own timeout and the sweeper, that outcome is an  *)
(* approval only when the approval itself was approved.                    *)
(***************************************************************************)

CONSTANT Id

VARIABLES
    status,   \* state of each approval; "unopened" before it is enqueued
    outcome   \* what the waiting hook was told; "none" until it is told

vars == <<status, outcome>>

Terminal == {"approved", "denied", "expired"}

TypeOK ==
    /\ status \in [Id -> {"unopened", "pending"} \cup Terminal]
    /\ outcome \in [Id -> {"none", "abandoned"} \cup Terminal]

Init ==
    /\ status = [i \in Id |-> "unopened"]
    /\ outcome = [i \in Id |-> "none"]

Open(i) ==
    /\ status[i] = "unopened"
    /\ status' = [status EXCEPT ![i] = "pending"]
    /\ UNCHANGED outcome

Decide(i, s) ==
    /\ status[i] = "pending"
    /\ s \in {"approved", "denied"}
    /\ status' = [status EXCEPT ![i] = s]
    /\ UNCHANGED outcome

\* The sweeper expires every approval of a set at once.
Expire(I) ==
    /\ \A i \in I : status[i] = "pending"
    /\ status' = [i \in Id |-> IF i \in I THEN "expired" ELSE status[i]]
    /\ UNCHANGED outcome

\* The hook's own timer may answer "expired" whatever the queue says later.
Answer(i, s) ==
    /\ status[i] # "unopened"
    /\ outcome[i] = "none"
    /\ \/ s = status[i] /\ s \in Terminal
       \/ s = "expired" /\ status[i] = "pending"
       \/ s = "abandoned"
    /\ outcome' = [outcome EXCEPT ![i] = s]
    /\ UNCHANGED status

Next ==
    \/ \E i \in Id : Open(i)
    \/ \E i \in Id, s \in Terminal : Decide(i, s)
    \/ \E I \in SUBSET Id : Expire(I)
    \/ \E i \in Id, s \in Terminal \cup {"abandoned"} : Answer(i, s)

Spec == Init /\ [][Next]_vars
==============================================================================

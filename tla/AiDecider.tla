------------------------------- MODULE AiDecider -------------------------------
(***************************************************************************)
(* decide_with_provider of crates/decision/src/ai.rs: what it makes of a   *)
(* model's reply, its guards and its budget of calls.                      *)
(*                                                                         *)
(* A reply is [json, action, fraction, wide]: whether it is the JSON       *)
(* object asked for (code fences stripped, no unknown field), its action,  *)
(* its fraction in units of 1 / Parts as an Option, and whether byte 200   *)
(* of its reason is inside a character, where String::truncate panics.     *)
(* Names of symbols are compared, never taken apart: those that            *)
(* looks_like_injection or the length limit reject are the set Flagged.    *)
(***************************************************************************)
EXTENDS AppConfig

CONSTANTS
    Ai,        \* [ai]
    Reply,     \* what a model may answer
    Flagged,   \* symbols that look like an instruction
    Parts,     \* parts a fraction is counted in
    CallCap    \* bound: calls are counted up to this

ASSUME AiAssumption ==
    /\ AiValid(Ai, Parts)
    /\ Ai.max_calls_per_run \in Nat
    /\ CallCap \in Nat /\ CallCap > Ai.max_calls_per_run + 1
    /\ \A r \in Reply : r.fraction = None \/ \E f \in r.fraction : r.fraction = Some(f) /\ f \in Int

Hold == [action |-> "hold"]

\* from_provider.
NoCalls == 0

\* The guard on the one text of the prompt that comes from outside.
LooksLikeInjection(symbol) == symbol \in Flagged

\* The error arms of parse_output, in its order.
Unparsable(r) == ~r.json
OutOfUniverse(symbol) == Ai.universe # {} /\ symbol \notin Ai.universe
BadFraction(r) ==
    r.action \in {"buy", "sell"} /\ ~ \E f \in r.fraction : InHalfOpen(f, 0, Parts)
UnknownAction(r) == r.action \notin {"hold", "buy", "sell"}

\* Between the universe and the action the reason is cut at 200 bytes.
Panics(r, symbol) == ~Unparsable(r) /\ ~OutOfUniverse(symbol) /\ r.wide

\* parse_output returns Err.
Rejected(r, symbol) ==
    Unparsable(r) \/ OutOfUniverse(symbol) \/ UnknownAction(r) \/ BadFraction(r)

\* parse_output returns Ok: the reply's action and fraction.
DecisionOf(r, symbol) ==
    IF r.action = "hold" THEN Hold
    ELSE [action |-> r.action, symbol |-> symbol, fraction |-> CHOOSE f \in r.fraction : TRUE]

\* Mutant: the comparison is off by one.
MutBudgetSpent(calls) == Ai.max_calls_per_run > 0 /\ calls > Ai.max_calls_per_run

\* The budget, looked at once per decision and not again before the retry.
BudgetSpent(calls) == Ai.max_calls_per_run > 0 /\ calls >= Ai.max_calls_per_run

\* fetch_add, counted as far as it matters.
Counted(calls) == IF calls < CallCap THEN calls + 1 ELSE calls
================================================================================

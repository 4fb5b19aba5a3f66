-------------------------------- MODULE LiveRun --------------------------------
(***************************************************************************)
(* sherwood run on live prices: run_loop of crates/cli/src/runner.rs       *)
(* driven by a ChainFeed and a decider, until Ctrl-C is seen.  What the    *)
(* loop then does with a decision is module Trading; here it is whether    *)
(* it gets ticks and decisions at all, and whether it stops.               *)
(*                                                                         *)
(* next_tick blocks the task the loop runs in, and the shutdown flag is    *)
(* looked at only when it has returned.                                    *)
(***************************************************************************)
EXTENDS ChainFeed, AiDecider

CONSTANT Decider   \* general.decider, possible values

VARIABLES
    general,    \* [general], of which the decider matters
    run,        \* where the loop is, and the attempt of the decision it is in
    calls,      \* AtomicU32 of the AiDecider
    decision,   \* the last decision
    shutdown    \* the flag of install_shutdown_handler

runVars == <<general, run, calls, decision, shutdown>>
vars == <<chain, node, moves, feed, tick, general, run, calls, decision, shutdown>>

Init ==
    /\ FeedInit
    /\ general \in {g \in [mode : {"paper"}, starting_cash : {1}, decider : Decider] :
                       GeneralValid(g)}
    /\ run = [pc |-> "feed", attempt |-> 0]
    /\ calls = NoCalls
    /\ decision = Hold
    /\ shutdown = FALSE

Ended == run.pc \in {"stopped", "panicked"}

\* The feed works for the loop.
Polling ==
    /\ run.pc = "feed" /\ FeedStep
    /\ UNCHANGED runVars

\* Mutant: the flag is looked at when a decision has been made.
MutTake ==
    /\ run.pc = "feed" /\ feed.pc = "ready"
    /\ run' = [pc |-> "decide", attempt |-> 0]
    /\ feed' = [feed EXCEPT !.pc = "idle"]
    /\ UNCHANGED <<tick, chain, node, moves, general, calls, decision, shutdown>>

\* next_tick has returned: stop, or go on to decide.
Take ==
    /\ run.pc = "feed" /\ feed.pc = "ready"
    /\ run' = [pc |-> IF shutdown THEN "stopped" ELSE "decide", attempt |-> 0]
    /\ feed' = [feed EXCEPT !.pc = "idle"]
    /\ UNCHANGED <<tick, chain, node, moves, general, calls, decision, shutdown>>

Decided(d) == run' = [pc |-> "feed", attempt |-> 0] /\ decision' = d

TickSymbol == Symbols[tick.at]

\* RuleDecider answers by itself (what it answers is an input of module Trading).
DecideByRule ==
    /\ run.pc = "decide" /\ general.decider = "rule"
    /\ Decided(Hold)
    /\ UNCHANGED <<chain, node, moves, feed, tick, general, calls, shutdown>>

\* The budget is spent or the symbol is flagged: Hold, and no call.
DecideNothing ==
    /\ run.pc = "decide" /\ general.decider = "ai"
    /\ BudgetSpent(calls) \/ LooksLikeInjection(TickSymbol)
    /\ Decided(Hold)
    /\ UNCHANGED <<chain, node, moves, feed, tick, general, calls, shutdown>>

\* The first of the two attempts; the call is counted before it is made.
CallProvider ==
    /\ run.pc = "decide" /\ general.decider = "ai"
    /\ ~BudgetSpent(calls) /\ ~LooksLikeInjection(TickSymbol)
    /\ run' = [pc |-> "calling", attempt |-> 0]
    /\ calls' = Counted(calls)
    /\ UNCHANGED <<chain, node, moves, feed, tick, general, decision, shutdown>>

\* complete() returns an error: a timeout, a status, no content.
ProviderFails ==
    /\ run.pc = "calling"
    /\ Decided(Hold)
    /\ UNCHANGED <<chain, node, moves, feed, tick, general, calls, shutdown>>

\* A reply that parses; one that does not, once and twice; one that parse_output panics on.
ProviderReplies(r) ==
    /\ run.pc = "calling" /\ ~Panics(r, TickSymbol)
    /\ IF ~Rejected(r, TickSymbol) THEN Decided(DecisionOf(r, TickSymbol)) /\ UNCHANGED calls
       ELSE IF run.attempt = 0
            THEN /\ run' = [run EXCEPT !.attempt = 1]
                 /\ calls' = Counted(calls)
                 /\ UNCHANGED decision
            ELSE Decided(Hold) /\ UNCHANGED calls
    /\ UNCHANGED <<chain, node, moves, feed, tick, general, shutdown>>

ReplyPanics(r) ==
    /\ run.pc = "calling" /\ Panics(r, TickSymbol)
    /\ run' = [pc |-> "panicked", attempt |-> 0]
    /\ UNCHANGED <<chain, node, moves, feed, tick, general, calls, decision, shutdown>>

\* Ctrl-C.
Interrupt ==
    /\ ~shutdown /\ shutdown' = TRUE
    /\ UNCHANGED <<chain, node, moves, feed, tick, general, run, calls, decision>>

LoopStep ==
    \/ Polling \/ Take \/ DecideByRule \/ DecideNothing \/ CallProvider \/ ProviderFails
    \/ \E r \in Reply : ProviderReplies(r) \/ ReplyPanics(r)

Next == LoopStep \/ Interrupt \/ (ChainStep /\ UNCHANGED runVars) \/ (Ended /\ UNCHANGED vars)

(***************************************************************************)
(* The loop is one task and every wait of it ends: requests and calls have *)
(* timeouts, sleeps have a length.  Nothing is assumed of the chain, the   *)
(* node or the operator.                                                   *)
(***************************************************************************)
Spec == Init /\ [][Next]_vars /\ WF_vars(LoopStep)

--------------------------------------------------------------------------------
(* Properties *)

\* A run makes at most one call more than its budget: the budget is looked at before
\* a decision, and the retry of the last one is not counted against it (ai.rs:145).
CallsBounded == Ai.max_calls_per_run > 0 => calls <= Ai.max_calls_per_run + 1

\* Ctrl-C ends the run, once the node answers and every symbol has a pool: the flag is
\* not seen inside next_tick, but no read that can succeed is left waiting for ever.
InterruptStops == (shutdown /\ node = "steady") ~> Ended

\* Every symbol keeps getting ticks once it can, after any number of failed reads.
SymbolsKeepTicking ==
    \A i \in DOMAIN Symbols : node = "steady" ~> (Ended \/ tick.at = i)
================================================================================

----------------------------- MODULE LivePreflight -----------------------------
(***************************************************************************)
(* Arming live mode: post_mode of crates/server/src/routes.rs, the         *)
(* pre-flight of crates/cli/src/live_preflight.rs it waits for, and the    *)
(* probe of crates/chain/src/probe.rs that one runs per token, request by  *)
(* request, while the token contracts and the node change underneath.      *)
(*                                                                         *)
(* The contracts are external.  A token lets everybody transfer ("open"),  *)
(* or only listed addresses receive, or only listed ones send.  Addresses  *)
(* are numbers, 0 the zero address.  A balance of 2 covers the 1000 base   *)
(* units of the simulated transfer, a balance of 1 does not.               *)
(***************************************************************************)
EXTENDS LogScan, FiniteSets, SequencesExt

CONSTANTS
    Symbols, Denom,   \* [chain] symbols and denom
    Logs,             \* per token and block, the senders of its transfers
    HeadBlock,        \* eth_blockNumber
    Sample,           \* ProbeOptions.sample_blocks
    MaxHolders,       \* ProbeOptions.max_holders_scanned
    AllowLive,        \* [server] allow_live
    MaxChanges        \* bound: changes of the contracts

ASSUME PreflightAssumption ==
    /\ Symbols \in Seq(DOMAIN Logs) /\ Denom \in DOMAIN Logs
    /\ HeadBlock \in Nat /\ Sample \in Nat
    /\ MaxHolders \in Nat /\ MaxChanges \in Nat

VARIABLES
    mode,      \* control.mode
    req,       \* the request to arm, where it is and what it has
    token,     \* per token, its gate, balances, and whether the fresh address has some
    changes,   \* changes of the contracts so far
    could      \* history: tokens that the fresh address could receive, and could send,
               \* at some moment since the request began

vars == <<mode, req, token, changes, could>>

Token == DOMAIN Logs
Address == 0..3
FromBlock == Max({0, HeadBlock - Sample})

\* The symbols, then the denominator.
Listed == Append(Symbols, Denom)

\* Mutant: only what is traded is checked.
MutPreflightTokens ==
    {i \in 1..Len(Symbols) : \A j \in 1..(i - 1) : Listed[j] # Listed[i]}

\* preflight_tokens: each of them once, where it is first listed.
PreflightTokens == {i \in 1..Len(Listed) : \A j \in 1..(i - 1) : Listed[j] # Listed[i]}
After(i) == {k \in PreflightTokens : k > i}

Idle == [pc |-> "idle", i |-> 0, stack |-> <<>>, out |-> <<>>, tries |-> 0,
         todo |-> {}, best |-> [holder |-> 0, balance |-> 0]]

Receivable(t) == token[t].gate \in {"open", "senders"}
Sendable(t) == token[t].gate \in {"open", "receivers"}
CanNow == [receive |-> {t \in Token : Receivable(t)}, send |-> {t \in Token : Sendable(t)}]

Init ==
    /\ mode = "paper"
    /\ req = Idle
    /\ token = [t \in Token |-> [gate |-> "open", balance |-> [a \in Address |-> 2], fresh |-> FALSE]]
    /\ changes = 0
    /\ could = [receive |-> {}, send |-> {}]

--------------------------------------------------------------------------------
(* The contracts (external) *)

Change(t, state) ==
    /\ changes < MaxChanges /\ token[t] # state
    /\ token' = [token EXCEPT ![t] = state]
    /\ changes' = changes + 1
    /\ could' = [receive |-> could.receive \cup (IF state.gate = "receivers" THEN {} ELSE {t}),
                 send |-> could.send \cup (IF state.gate = "senders" THEN {} ELSE {t})]
    /\ UNCHANGED <<mode, req>>

ContractStep ==
    \E t \in Token :
        \/ \E g \in {"open", "receivers", "senders"} : Change(t, [token[t] EXCEPT !.gate = g])
        \/ \E a \in Address \ {0}, b \in 0..1 : Change(t, [token[t] EXCEPT !.balance[a] = b])
        \/ Change(t, [token[t] EXCEPT !.fresh = TRUE])

--------------------------------------------------------------------------------
(* post_mode *)

\* Paper needs no pre-flight; any admin may ask for it at any time.
PostPaper ==
    /\ mode # "paper" /\ mode' = "paper"
    /\ UNCHANGED <<req, token, changes, could>>

\* Live: forbidden unless configured; check() with nothing to check refuses.
PostLive ==
    /\ req.pc = "idle" /\ AllowLive /\ PreflightTokens # {}
    /\ req' = [Idle EXCEPT !.pc = "meta", !.i = Min(PreflightTokens)]
    /\ could' = CanNow
    /\ UNCHANGED <<mode, token, changes>>

\* check() returned Ok: the write lock, and the mode.
Arm ==
    /\ req.pc = "arm"
    /\ mode' = "live"
    /\ req' = Idle
    /\ UNCHANGED <<token, changes, could>>

--------------------------------------------------------------------------------
(* check_transfer_open, one request at a time *)

T == Listed[req.i]
Asking == req.pc \in {"meta", "scan", "holders", "to_fresh", "from_fresh"}

Refuse == req' = Idle
Answered(r) == req' = [r EXCEPT !.tries = 0]
StartScan(r) == [r EXCEPT !.pc = "scan", !.stack = FullRange(FromBlock, HeadBlock), !.out = <<>>]

\* A 429 that is retried.
Throttled ==
    /\ Asking /\ Retried(req.tries)
    /\ req' = [req EXCEPT !.tries = @ + 1]
    /\ UNCHANGED <<mode, token, changes, could>>

\* name, symbol, decimals, the proxy slots and the head block: each must be answered
\* (totalSupply and paused need not, and decide nothing).
Meta(response) ==
    /\ req.pc = "meta"
    /\ IF Classify(response) = "ok" THEN Answered(StartScan(req)) ELSE Refuse
    /\ UNCHANGED <<mode, token, changes, could>>

\* The addresses to look at: the first senders by address, without the zero address.
Candidates(out) ==
    LET senders == UNION {Logs[T][b] : b \in Range(out)} \ {0}
    IN  {a \in senders : Cardinality({b \in senders : b < a}) < MaxHolders}

\* One eth_getLogs of get_logs_bisecting.
Scan(response) ==
    /\ req.pc = "scan" /\ req.stack # <<>>
    /\ LET r == Head(req.stack)
       IN  CASE Classify(response) = "ok" ->
                  Answered([req EXCEPT !.stack = Tail(@), !.out = @ \o Blocks(r.from, r.to)])
             [] Splits(r, response) -> Answered([req EXCEPT !.stack = Halves(r) \o Tail(@)])
             [] OTHER -> Refuse
    /\ UNCHANGED <<mode, token, changes, could>>

ScanDone ==
    /\ req.pc = "scan" /\ req.stack = <<>>
    /\ req' = [req EXCEPT !.pc = "holders", !.todo = Candidates(req.out)]
    /\ UNCHANGED <<mode, token, changes, could>>

\* Mutant: an address that cannot be read is asked for again.
MutBalance(response) ==
    /\ req.pc = "holders" /\ req.todo # {}
    /\ LET a == Min(req.todo)
           b == token[T].balance[a]
       IN  IF Classify(response) # "ok" THEN Answered(req)
           ELSE Answered([req EXCEPT !.todo = @ \ {a},
                            !.best = IF b > @.balance THEN [holder |-> a, balance |-> b] ELSE @])
    /\ UNCHANGED <<mode, token, changes, could>>

\* pick_holder: the richest of them, an error leaves one out.
Balance(response) ==
    /\ req.pc = "holders" /\ req.todo # {}
    /\ LET a == Min(req.todo)
           b == token[T].balance[a]
       IN  Answered([req EXCEPT !.todo = @ \ {a},
                       !.best = IF Classify(response) = "ok" /\ b > @.balance
                                THEN [holder |-> a, balance |-> b] ELSE @])
    /\ UNCHANGED <<mode, token, changes, could>>

\* No funded holder: Inconclusive.
HolderPicked ==
    /\ req.pc = "holders" /\ req.todo = {}
    /\ IF req.best.holder = 0 THEN Refuse ELSE req' = [req EXCEPT !.pc = "to_fresh", !.out = <<>>]
    /\ UNCHANGED <<mode, token, changes, could>>

\* The node has run a simulated transfer: which of the two it answers is the contract's.
Executed(response) == Classify(response) \in {"ok", "Reverted"}

\* simulate_transfer(holder, fresh, 1000): Ok, or Restricted, or Inconclusive.
ToFreshOk == Receivable(T) /\ token[T].balance[req.best.holder] = 2

ToFresh(response) ==
    /\ req.pc = "to_fresh"
    /\ IF Executed(response) /\ ToFreshOk
       THEN Answered([req EXCEPT !.pc = "from_fresh"]) ELSE Refuse
    /\ UNCHANGED <<mode, token, changes, could>>

\* simulate_transfer(fresh, holder, 1) reverts for lack of balance and for nothing else.
BalanceGated == Sendable(T) /\ ~token[T].fresh

\* The verdict: Permissionless, and on to the next token, or a refusal.
FromFresh(response) ==
    /\ req.pc = "from_fresh"
    /\ IF Executed(response) /\ BalanceGated
       THEN IF After(req.i) # {}
            THEN req' = [Idle EXCEPT !.pc = "meta", !.i = Min(After(req.i))]
            ELSE req' = [Idle EXCEPT !.pc = "arm"]
       ELSE Refuse
    /\ UNCHANGED <<mode, token, changes, could>>

ProbeStep ==
    \/ Throttled \/ ScanDone \/ HolderPicked
    \/ \E response \in Response :
          Meta(response) \/ Scan(response) \/ Balance(response)
          \/ ToFresh(response) \/ FromFresh(response)

Next == ContractStep \/ PostPaper \/ PostLive \/ Arm \/ ProbeStep

\* Every request has a timeout and every sleep a length.
Spec == Init /\ [][Next]_vars /\ WF_vars(ProbeStep \/ Arm)

--------------------------------------------------------------------------------
(* Properties *)

\* Live mode is armed only if, since the request came in, there was a moment when a
\* fresh address could receive each of the symbols and the denominator, and one when
\* it could send it (ADR-0006).  The two need not be the same moment, and either may
\* be over when the mode is set: the check is awaited before the lock is taken.
ArmedAfterOpen ==
    [][mode' = "live" /\ mode # "live" =>
          Range(Symbols) \cup {Denom} \subseteq could.receive \cap could.send]_vars

\* A scan that succeeds has the logs of every block of the range once, in order, however
\* often the node refused a range or was busy.
ScanComplete == req.pc = "holders" => req.out = Blocks(FromBlock, HeadBlock)

\* The request to arm is answered: neither the retries nor the halving go on for ever.
ArmingAnswered == req.pc # "idle" ~> req.pc = "idle"
================================================================================

# A TLA+ model of sherwood-agent

sherwood-agent is a trading agent: a decision layer proposes orders, a risk gate
and spend caps stand between a proposal and a venue, an operator may have to
approve, and everything is to end up in a tamper-evident audit log. These modules
model the parts where steps of several actors meet (the HTTP control plane, the
approval queue, the store and its writers, the chain node, the vault file) and the
arithmetic every order goes through (portfolio, risk gate, wallets, report).

Paths below are relative to the repository's root. `PROJECT.json` maps every
definition to its lines.

## The system

| part | state | operations | meets |
|---|---|---|---|
| PreToolUse hook, `crates/server/src/routes.rs`, `crates/execution/src/hook.rs` | none of its own; one request per tool call | evaluate the gate under a read lock, queue, wait, charge the budget | control state, approval queue, budget |
| control state, `crates/server/src/state.rs`, `routes.rs`, `crates/cli/src/config_store.rs` | `RwLock<Control>`: mode, risk gate with the kill switch, allowlist, approval mode; `config.toml` | `POST /v1/kill`, `/v1/mode`, `/v1/config`, `/v1/config/reload`; start-up | hook requests read it; admins write it; the file is shared with the operator's editor |
| approval queue, `crates/server/src/approvals.rs` | entries in memory behind a mutex, one watch channel each | `enqueue`, `Ticket::wait`, `decide`, `sweep_expired`, `list`, `trim` | hooks wait, operators decide, a task sweeps every 5 s |
| session budget, `crates/server/src/budget.rs` | counters, start time, latch, behind a mutex | `try_record`, `reset`, `view` | hooks charge, an admin resets |
| run loop, `crates/cli/src/runner.rs` | the running portfolio, last prices, last orders | tick, decide, size, check, fill; save at the end | bus, store, decider, executor |
| portfolio and risk gate, `crates/core` | cash, positions, average costs, realized result | `apply`, `equity`, `unrealized_pnl`; `RiskGate::check` | run loop and hook |
| paper executor, `crates/execution/src/lib.rs` | prices | `execute` | run loop |
| event bus, `crates/events` | a broadcast channel of 1000 events | `publish`, `run_subscriber` | run loop publishes, the store subscriber persists |
| store, `crates/store` | SQLite: snapshots, fills, hash-chained `audit_log` | `save_portfolio`, `load_portfolio`, `append_fill`, `append_audit`, `verify_audit_chain` | several processes: `run`, `serve`, `reconcile` |
| reconciliation, `routes.rs`, `crates/cli/src/reconcile_cmd.rs` | none | load, append fill, save, append audit | store |
| receipt polling, `routes.rs`, `crates/chain/src/rpc.rs` | none | ask for a receipt until there is one or the deadline passes | the chain; before reconciliation |
| event stream, `routes.rs` | a cursor per connection | poll the last 200 audit rows, send the newer ones | audit log |
| deciders, `crates/decision` | the AI's call counter | rule; guard, call, retry, check a reply, fall back to Hold | run loop, model provider |
| backtest, `crates/cli/src/backtest.rs` | recorded fills, books by average cost | replay, report | run loop |
| chain feed and pools, `crates/chain/src/feed.rs`, `univ4.rs` | a pool per symbol, the symbol whose turn it is | discover, rank, quote, back off | node, run loop |
| live pre-flight, `crates/cli/src/live_preflight.rs`, `crates/chain/src/probe.rs`, `rpc.rs` | none | per token: metadata, log scan, balances, two simulated transfers | node, token contracts, `POST /v1/mode` |
| wallets, router, copy trading, sniper, `crates/wallets`, `router`, `copytrade`, `sniper` | a budget per wallet | choose a wallet and a venue, reserve; mirror a trade; screen a pool | each other, through a caller that is not in the repository |
| vault and backup, `crates/secrets`, `crates/cli/src/backup_cmd.rs` | one encrypted file | load, rewrite, copy away and back | `secrets` command, `serve`, `backup`, `restore` |
| authentication and rate limit, `crates/server/src/auth.rs`, `limit.rs`, `crates/cli/src/serve_cmd.rs` | role tokens read at the start; one window | resolve or mint tokens; admit, authorise | vault, every request |
| configuration, `crates/config` | none | `validate` | every part |
| swap encoding, signer, dashboard | | | not modelled (last section) |

What is hard here: a request works on what it read before an await (the gate
before the approval, the file before the lock, the snapshot before the save);
two timers and an operator race over one approval; a file has two writers and
one temporary name; a trade becomes durable through a lossy bus in two writes,
while the snapshot is a third, taken once; the server keeps everything but
`config.toml` in memory and may stop at any step; prices, logs and contracts are
read request by request from a node that changes, throttles and fails; the vault
has several writers, no lock, and is truncated before it is written.

What makes each part correct:

* queue: nothing pending is lost; one verdict per approval; a hook gets through
  only on an approval; every hook and every approval is settled in the end;
* budget: the caps hold between resets; a refusal lasts;
* control state: only an admin releases the kill switch; the file is never
  damaged; the server runs what the file says;
* hook: what was allowed is what was charged and, when held, approved;
* store: the chain verifies; edits and deletions are found; fills, audit rows
  and snapshot agree; nothing counts twice; a run ends;
* event stream: each row once, in order, none skipped;
* trading: money balances; cash and cooldown respect the limits; a backtest's report
  accounts for the whole return;
* live run: a tick is priced by the pools of its own pair; every symbol gets ticks;
  the provider is not called without end; Ctrl-C ends the run;
* pre-flight: live mode only after every token was seen to move both ways; a scan that
  was halved misses nothing; the request is answered;
* vault and tokens: no stored secret is lost; a revoked token stays out; a limit
  limits;
* order sources and wallets: nothing goes short; no wallet spends past its limits.

## Modules

| module | models | depends on |
|---|---|---|
| `ApprovalLifecycle` | abstract: what the approval gate promises | |
| `ApprovalStore` | `approvals.rs`, `post_approval`, the sweeper | refines `ApprovalLifecycle` |
| `SessionBudget` | `server/src/budget.rs` | |
| `Control` | the `Control` record and what lock holders make of it | |
| `ControlState` | the admin requests, `FileConfigStore`, the reloader, restart | extends `Control` |
| `PreToolUse` | the hook handler against all of the above | extends `Control`, instantiates `ApprovalStore` and `SessionBudget` |
| `AuditLog` | `append_audit` and `verify_audit_chain` | |
| `EventStream` | the cursor of `GET /v1/events` | extends `AuditLog` |
| `Ledger` | run loop, bus, store subscriber, snapshot, receipts, reconciliations | |
| `Portfolio`, `RiskGate` | `core/src/portfolio.rs`, `core/src/risk.rs` as operators | |
| `Trading` | ticks, orders and fills of successive runs | extends `RiskGate`, `Portfolio` |
| `Backtest` | `RuleDecider`, the replay and its report | extends `Trading` |
| `AppConfig` | `AppConfig::validate`, one predicate per section | |
| `ChainFeed` | `feed.rs` over the pool discovery and quotes of `univ4.rs` | extends `AppConfig` |
| `AiDecider` | `ai.rs`: guards, reply checks, call budget, as operators | extends `AppConfig` |
| `LiveRun` | `run_loop` on live prices until Ctrl-C | extends `ChainFeed`, `AiDecider` |
| `LogScan` | one `HttpClient` request, `get_logs_bisecting` | |
| `LivePreflight` | `post_mode`, the pre-flight and the probe, request by request | extends `LogScan` |
| `Vault` | the vault file, its rewrites, backup and restore of it | |
| `RateLimiter` | the fixed window of `limit.rs` | |
| `Serving` | start of `serve`, tokens, roles, requests | extends `Vault`, `RateLimiter` |
| `Strategies` | copy trading, sniper, wallets and router | extends `AppConfig` |
| `ApprovalStoreProofs` | theorems about the approval queue | extends `ApprovalStore` |
| `ServerStateProofs` | theorems about the budget, the control state and its file | extends `SessionBudget`, `ControlState` |
| `PreToolUseProofs` | theorems about the hook | extends `PreToolUse` |
| `AuditLogProofs` | theorems about the chain and the stream that reads it | extends `EventStream` |
| `LedgerProofs` | theorems about fills, audit rows and snapshots | extends `Ledger` |
| `RunProofs` | theorems about ticks, orders, reports, calls and prices | extends `Backtest`, `LiveRun` |
| `ServingProofs` | theorems about the vault, tokens, limiter and the request to arm live mode | extends `Serving`, `LivePreflight` |
| `StrategiesProofs` | theorems about positions and wallets | extends `Strategies` |
| `MC*` | values for TLC: configurations, notionals, symmetry | |

### How state and actions correspond to the code

**ApprovalStore.** `entries` is the `Vec<Entry>`: ids increase with position, so a
function from ids is the list. `ticket[h]` is a hook's `Ticket` with what its
watch receiver shows; `op[o]` is a `POST /v1/approvals/{id}` between `decide()`
and `list()`, which take the mutex separately. One action per critical section:
`Enqueue`, `DecideOk`/`DecideRefused`, `ListDecided`, `SweepExpired`; `WaitDecided`
and `WaitTimeout` are the two ways `Ticket::wait` returns and `Abandon` is the
handler being dropped. `verdict` and `outcome` are history: what the queue last
said of an id and what its hook was told. Time is a tick that ages pending
entries and waiting tickets; ages saturate where no comparison can tell them
apart, so the state space is finite without bounding time. `created_at` and the
ticket's timer advance together; the code reads the wall clock for one and the
monotonic clock for the other, and a clock that jumps is not modelled.

**SessionBudget.** `Record` and `Refuse` are the two results of `try_record`, one
critical section. Elapsed time saturates at the cap. `tripped` is history.

**Control, ControlState.** Each admin request is a small program counter in `req`,
with one action per step that another request can come between: the pre-flight
before the lock in `post_mode`; open, write and rename in `FileConfigStore::write`;
the read and the apply in `apply_reload`. Files are inodes with contents, so that
opening an existing temporary file truncates what another writer is using. An
empty `config.toml` parses to the default configuration. `Restart` may come
between any two steps. `edited` remembers a hand edit not read yet, `raced` that two
configuration requests overlapped.

**PreToolUse.** `Evaluate` is everything under the read lock and the early returns
after it; `Enqueue`, `HeldDecided`, `HeldTimeout` and `Charge` follow. An order tool's
arguments are Options, and `Parses`, `Quantity`, `Priced` and `OrderNotional` are what
`parse_order`, the handler and the gate make of them. The parts of `RiskGate::check`
that depend on the caller's context alone are the input `passes`. Actions of the queue
and the budget are the instantiated ones, so a mutation or a proof there is one here.
`allowed` and `stopped` are history; `stopped` remembers which orders had passed the
gate when the kill switch was engaged.

**AuditLog.** A hash is the tuple of what it hashes (SHA-256 taken as injective).
`ReadLast`, `Insert`, `Commit` and `Rollback` are the steps of the transaction under
SQLite's SHARED and RESERVED locks and the exclusive commit. Changes made outside
the program are not actions: `EditsPinpointed` and `GapsDetected` quantify over every
way to change a table the program wrote.

**EventStream.** `Poll` reads the last `PollRows` rows and sends those past the cursor;
`Reconnect` is a new stream with cursor zero. `burst` is history.

**Ledger.** A fill is an identity and each store counts it. The bus is the store
subscriber's queue; publishing to a full one drops the oldest. `SavePortfolio`,
`EndRun`, `Drained` are the end of `run_loop` in its order (an error of the save
skips the rest, `Failed`). `Mine` is the chain giving a transaction its receipt; a
reconciliation polls until it sees one (`Confirmed`), sees a revert or runs out of
time (`Unconfirmed`), and only then writes. HTTP and command-line reconciliation make
the same four calls in a different order. Any call may fail and any process die
(`SubFails`, `RecFails`, `CrashRun`).

**Portfolio, RiskGate, Trading.** Money is counted in units fine enough that the
executor's spread and fee are whole; a symbol's cost basis stands for
`quantity * avg_cost`. A sum over the symbols is `SumOf`, the value at the whole set of
the recursive function `Sums`. `TradeNext` are the steps of runs and restarts alone, which
`Backtest` takes from an empty portfolio. `RiskGate` has one predicate per rejection.
`Buy` and `Sell` are whole ticks: price, decision, size, gate, execution, `apply`, `last_order`.
`Resume` is a run that saved and the next one; `Recover` a run that died. A
decider may propose anything `size` can make an order of.

**Backtest.** The same ticks from an empty portfolio and without cooldown, decided by
`RuleDecision` or by anything. `book` and `report` are the report's own accounts, kept
up to date with every fill because a feed may end after any tick.

**ChainFeed, AiDecider, LiveRun.** One request to the node is one action: `ReadHead`,
`Scanned`, `Rank` of one pool, `ReadQuote`; `RequestFails` is any of them failing, and
`Failed` and `Wake` the backoff. Pools appear, lose liquidity and move between any two
(`ChainMove`); `Settle` is the moment from which they no longer do and every symbol can
be quoted. A token's position in its pair is by the order of addresses, and a quote is
inverted or not accordingly. In `LiveRun`, `Take` is the loop receiving a tick and
looking at the shutdown flag, which it does nowhere else (`general` are the settings of
the loop, `TickSymbol` the symbol of the tick it got); `CallProvider`,
`ProviderFails`, `ProviderReplies` and `ReplyPanics` are the AI's attempts.

**LogScan, LivePreflight.** The recursion that halves a refused range is a stack of
ranges, and what it merged is the list of blocks it read, a block standing for its logs.
`PreflightTokens` are the positions at which the list of symbols and denominator has a
token for the first time. `req` is the request to arm: token by token `Meta`, `Scan` (with
`ScanDone`), `Balance`, `HolderPicked`, `ToFresh`, `FromFresh`, then `Arm`; a 429 is retried
(`Throttled`), any other failure refuses. Contracts change between any two requests.
What the two simulated calls show is the code's reading of a result or a revert.
`could` is history: the tokens that could be received, and sent, at some moment of the
request.

**Vault, RateLimiter, Serving.** A rewrite of the vault is load, truncate, write, and
may die after any of them, leaving a torn file. `Backup` copies the file, `Restore`
writes the copy over it. The server resolves the roles' tokens one by one
(`Loaded`; `Generate`, `StoreToken`, `TruncateForToken`, `TokenStored` when there is
none), binds, and then holds them in memory: `Request` and `Limited` are the limiter
and the role check of one request. `stored` (what the commands that ended made of the
vault; `Reported` is what one more change makes of it), `known` and `admitted` (the times
of the requests let through) are history.

**Strategies.** `ObserveTrade` and `ObservePool` are a whole `mirror` or
`entry_order` followed by the choice of a wallet and a venue as `LivePreview` makes
it; `Settle` reserves and fills. Others spend from the wallets in between
(`OtherSpend`). The caller is the one the crates are written for; the repository
has none.

**AppConfig.** Constants of the modules above satisfy these predicates by `ASSUME`, so
a run cannot start from settings the program refuses.

## Runs

| run | bounds | shows |
|---|---|---|
| `approvals` | 2 hooks, 1 operator, 3 approvals, timeout 1, retain 1 | nothing pending is lost, waiters see the verdict, a decision is shown until as many later ones push it out and the history is bounded, refinement of `ApprovalLifecycle`; held orders are answered, and with the sweeper every approval is decided |
| `budget` | caps 4 orders, 5 notional, 2 ticks; notionals -1, 0, 1, 2, 6 | caps hold, refusals latch, the cap reported afterwards was really hit |
| `control` | 2 requests, 3 configurations, 4 inodes | the kill switch is released by admins (or a restart) only; without overlapping configuration requests the file stays whole and the server runs what it says |
| `hook` | 2 hooks, 1 operator, 2 approvals, 2 configurations, 8 shapes of arguments, caps of 1 order, 1 notional and 1 tick, so that each refuses | allowed = charged, within caps; held orders approved; past an engaged kill switch only what had passed the gate before |
| `audit` | 3 processes, 5 rows, 2 contents, polls of 2 rows | the chain verifies and loses nothing; every edit and every gap is found at its first row; the stream sends each row once and skips one only past a burst |
| `ledger` | 2 runs, 1 tick, bus of 2, one HTTP and one command-line reconciliation of 1 transaction, 2 faults | audit follows fills and receipts, paper fills count once, undisturbed everything agrees, a stopped run ends |
| `ledger_reconcile` | 1 run, 2 HTTP reconciliations of 2 transactions | violated: a reported reconciliation is overwritten (a finding) |
| `trading` | 2 symbols, prices 1-3, limits a few orders reach, 4 fills, 1 restart | money balances, overdraft bounded, the report accounts for the return, buys of a run separated by the cooldown |
| `live_run` | 2 symbols, one before and one after the denominator in address order; 4 pools, two of one pair and one foreign; amounts 0 and 2; 1 retry; 3 moves; 2 paid calls; 5 kinds of reply | prices belong to the tick's pair, calls are bounded, symbols keep ticking, Ctrl-C ends the run |
| `preflight` | 1 symbol and the denominator, blocks 0-4, sample of 3, 2 halvings, one 429 retry, 2 holders, 2 contract changes | the halved scan is complete and in order, live only after every token was open, the request is answered |
| `serving` | server and command line, 2 names, 3 values, 2 passphrases, 3 rewrites, limits 0 and 1, window 2, times up to 4 | secrets are kept, at most two limits per sliding window, a token revoked before the start stays out |
| `strategies` | 2 wallets, 3 sizings, 6 leader trades, 8 pools, 3 orders, 2 other spends | no short position, no wallet past its limits |

**Conditional properties.** Some promises hold until something the code does not
guard against has happened. History variables record that, so that one run has both
the promise and its exception: `raced` (two configuration requests at once) in
`TruncatedOnlyByRace` and `RunningMatchesFile`; `disturbed` (a database error or
crash, an event overwritten on the full bus, or a reconciliation overlapping another
writer) in `SettledAgree`; `tripped` (the cap that refused first) in
`ReportedCapIsReal`; `burst` (more rows between two polls than one reads) in
`StreamHasNoGaps`; `overlap` (two rewrites of the vault at once) in `SecretsKept` and
`RevokedStaysOut`; `node = "steady"` in the liveness of `LiveRun`.

What happens when the condition is taken away, and what else the models showed:

* a hook that timed out and an operator who then approves disagree for good, until the
  sweeper is first (`crates/server/src/approvals.rs:104`); that is why `WaiterSeesVerdict`
  is about waiting hooks and the lifecycle has an `Answer` of its own;
* two configuration requests share one temporary file, so that a truncated file may be
  renamed over `config.toml` (`crates/cli/src/config_store.rs:18`), and two reloads that
  read the file before they take the lock may apply in the other order
  (`routes.rs:693`);
* the kill switch is not read again for an order that is held (`routes.rs:219`), where
  docs/RUNBOOK.md:15 and docs/SECURITY.md:94 read as if it stopped everything; `KillHeldOnly`
  says exactly which orders may pass;
* the notional cap stands before the side of an order (`crates/core/src/risk.rs:175`), so
  that a sell that reduces a large position is refused, against risk.rs:10 and docs/SECURITY.md:70;
* a subscriber more than the bus's capacity behind loses fills and audit rows the
  snapshot contains (`crates/events/src/lib.rs:161`), against README.md:37;
* a latched session with no spent cap reports the notional cap with a total below it
  (`crates/server/src/budget.rs:166`): the refused order was never added;
* deciding the oldest of more approvals than are retained drops the entry just
  decided, and `post_approval` answers 500 (`routes.rs:843`), which is why
  `DecisionShown` excepts entries that later ones pushed out;
* rows deleted from the end of `audit_log` leave a chain that verifies, against
  `crates/store/src/lib.rs:8-10` (`GapsDetected` excepts exactly that);
* a restart forgets a kill switch engaged over the API (`KillReleasedByAdmin` excepts
  `Restart`), and a resumed run forgets `last_order` (`BuysSeparated` is about one run)
  but keeps the realized loss its breaker looks at;
* more than 200 audit rows between two polls are skipped by the event stream, and a
  browser that reconnects is sent the tail again;
* the pre-flight sees each token at a moment of its own, and what it saw may be over
  when live mode is armed: `ArmedAfterOpen` says that each token could receive at one
  moment and send at one moment of the request, not at the same one and not still;
* "no symbols configured also refuses" (`crates/cli/src/live_preflight.rs:10`) does not
  happen: the denominator is always on the list;
* the AI's call budget is compared before an attempt and counted in it, so a retry may
  go one past it (`crates/decision/src/ai.rs:55`): `CallsBounded` allows one; and a reason cut
  inside a character panics (`ai.rs:245`), which ends the run (`ReplyPanics`);
* `ChainFeed::next_tick` retries inside itself while no symbol can be priced, and the
  loop does not see Ctrl-C until it returns (`crates/chain/src/feed.rs:140`): without
  `node = "steady"`, `InterruptStops` fails;
* pools whose liquidity cannot be read drop out of the ranking, and the choice is kept:
  a price stays one of the pair's, but not always of its deepest pool;
* the vault is rewritten in place (`crates/secrets/src/lib.rs:198`): a crash leaves a torn
  file, which fails closed, and two rewrites at once may lose or bring back a secret;
  a token changed in the vault reaches a running server only when it restarts;
* `max_mirror_notional = 0` is a valid setting and makes orders of quantity zero, and
  `mirror_unheld_sells` changes nothing that `mirror` returns.

**Why the bounds are enough.** Each race needs two requests of a kind and one of
every other; retention 1 and bus capacity 2 put the limits within reach of three
approvals and one tick, where the code's 50 and 1000 would only lengthen the
traces; a timeout of one tick separates "before", "at" and "after" (the two timers
differ in exactly that: `>=` and `>`). Five rows show a first, middle and last one, and
a poll of two leaves a burst of three to be missed. The prices and limits of `MCTrading`
are chosen so that every rejection of the gate occurs but the ones constant in a run
(lists, slippage, kill switch), and so that one order can spend all cash. Two symbols
on either side of the denominator give both directions of a quote; two pools of one
pair give the ranking something to choose and a foreign pair something to confuse.
Four blocks halved twice end in single blocks. Two processes are all that can overlap on
the vault, and three rewrites are a token minted, replaced and replaced again. The
trades of `MCStrategies` meet each skip, cap and flag. Bounds are named in the modules:
`MaxSeq`, `MaxCount`, `MaxRows`, `MaxTicks`, `MaxRuns`, `MaxRecs`, `MaxFaults`, `MaxQty`,
`MaxFills`, `MaxRestarts`, `MaxMoves`, `CallCap`, `MaxChanges`, `MaxRewrites`, `MaxTime`,
`MaxOrders` and `MaxSpends` of `Strategies`. Deadlock is checked everywhere but in the
ledger runs, `serving` and `strategies`, where the bounded work is over and nobody has to
begin more.

**Fairness.** Weak fairness of the clock, of a handler whose future is ready (tokio
polls it), of the run loop's last steps and its subscriber, of the loop on live prices
(`LoopStep`: one task, in which every wait ends, by a timeout or a sleep) and of the
pre-flight's next request (`ProbeStep \/ Arm`: requests have timeouts and retries are
counted). None of operators, agents, admins, the chain, the node or of starting runs. The
sweeper's interval is fair only where a property says so (`WF_vars(SweepExpired) => ...`):
`HeldOrdersAnswered` does without it because `Ticket::wait` has its own timer.

**Symmetry** is used for sets of requests, processes, inodes and secrets the modules never
distinguish, in safety runs only.

## Proofs

Every safety invariant, safety action property and the refinement that the passing runs
check is also a theorem, for every value of the constants that satisfies the named
assumptions.

| module | theorem | states (of its module's specification) |
|---|---|---|
| `ApprovalStoreProofs` | `TypeCorrect`, `PendingNeverLost`, `WaiterNeverMisled` | `[]TypeOK`, `[]PendingKept`, `[]WaiterSeesVerdict` |
| | `DecisionsShown` | `[]DecisionShown` |
| | `RefinesLifecycle` | `ImplementsLifecycle` |
| `ServerStateProofs` | `BudgetTyped`, `CapsHold`, `ReportIsHonest` | `[]TypeOK`, `[]WithinCaps`, `[]ReportedCapIsReal` |
| | `RefusalIsFinal` | `RefusalLatches` |
| | `ControlTyped`, `NeverTruncated`, `RunningIsFile` | `[]ControlTypeOK`, `[]TruncatedOnlyByRace`, `[]RunningMatchesFile` |
| | `KillKept` | `KillReleasedByAdmin` |
| `PreToolUseProofs` | `TypeCorrect`, `AllowedIsCharged`, `OnlyApprovedGoOn`, `KillHolds` | `[]TypeOK`, `[]AllowedWithinBudget`, `[]HeldOrdersApproved`, `[]KillHeldOnly` |
| `AuditLogProofs` | `ChainAlwaysVerifies`, `EditsAlwaysPinpointed`, `GapsAlwaysDetected` | `[]ChainVerifies`, `[]EditsPinpointed`, `[]GapsDetected` |
| | `StreamNeverSkips` | `[]StreamHasNoGaps` |
| `LedgerProofs` | `LedgerTyped`, `AuditFollows`, `PaperFillsCountedOnce`, `LedgerSettles` | `[]LedgerTypeOK`, `[]AuditFollowsFill`, `[]PaperFillsOnce`, `[]SettledAgree` |
| `RunProofs` | `TradeTyped`, `MoneyConserved`, `OverdraftNeverGrows` | `[]TradeTypeOK`, `[]LedgerBalances`, `[]OverdraftBounded` |
| | `CooldownSeparatesBuys`, `ReportAccounts` | `BuysSeparated`, `[]ReportReconciles` |
| | `BudgetOfCalls`, `TicksPricedByTheirPair` | `[]CallsBounded`, `[]PricedByItsPair` |
| `ServingProofs` | `VaultKeepsSecrets`, `RevokedTokensStayOut`, `SlidingWindowBounded` | `[]SecretsKept`, `[]RevokedStaysOut`, `[]SlidingBound` |
| | `ScanNeverSkips`, `ArmedOnlyAfterOpen` | `[]ScanComplete`, `ArmedAfterOpen` |
| `StrategiesProofs` | `PositionsNeverShort`, `WalletsWithinLimits` | `[]NeverShort`, `[]WalletWithinLimits` |

**Assumptions.** Each module names what it needs of its constants; TLC evaluates all of
them on the runs.

* Limits, bounds and timeouts are natural numbers (`ApprovalAssumption`,
  `BudgetAssumption`, `HookAssumption`, `AuditAssumption`, `LedgerAssumption`,
  `LimiterAssumption`, `ScanAssumption`, `PreflightAssumption`): the code's types are
  unsigned. `PollAssumption`: a poll reads at least one row (the code reads 200). The bus
  holds at least one event (the code: 1000).
* `ConfigAssumption`, `ControlAssumption`: a configuration has a kill switch and an
  approval mode, and is neither the empty nor the unreadable text that a file may hold
  instead.
* `HookAssumption`: an optional argument has at most one value, an integer. Notionals
  may be negative.
* `LedgerAssumption`: a transaction hash is not the number of a tick, so that a paper
  fill and a reconciled one are never the same fill.
* `ServingAssumption`: the server is one of the processes, and there is an admin token to
  resolve; the other roles need not have one.
* `PortfolioAssumption`: finitely many symbols, so that cost bases can be summed.
  `RiskAssumption`, `TradingAssumption`, `RuleAssumption`: prices are positive, the limits
  natural numbers, spread and fee at most the whole of an order, and money is counted
  finely enough for both.
* `StrategiesAssumption`, `FeedAssumption`, `AiAssumption`: what the predicates of
  `AppConfig` accept (a wallet or a chain section that passes validation), and the types of
  what arrives from outside.

**Arguments.** No invariant below is inductive by itself; what had to be added says why
the code is right.

* *Queue.* `PendingKept` needs that `trim` drops terminal entries only (`TrimFacts`).
  `WaiterSeesVerdict` needs that no two tickets share an id and that an id is new when
  it is handed out (`OpenedInOrder`, `TicketsFresh`); the same facts give "one outcome
  per approval" in the refinement, where every step maps to `Open`, `Decide`, `Expire`,
  `Answer` or a stutter. `decide` and `sweep_expired` share a lemma (`VerdictGiven`).
  `DecisionShown` needs a count: whatever left the history has at least `Retain` later
  terminal entries, since `trim` drops the oldest (`ShownInv`, `TrimBounded`).
* *Budget.* `WithinCaps` is inductive with `TypeOK`, because what is charged is what was
  checked. `Latched`: a refusal leaves `breached` set until `Reset`. `Hit`: the cap that
  refused stays hit, since counts and time only grow before a reset.
* *Control state.* Until two configuration requests overlap, at most one request is
  between open and rename (`OneAtOnce`), the temporary file is another inode than the
  configuration (`FilesApart`), the configuration is whole (`FileWhole`), and the running
  server, or the reload about to be applied, has what the file says unless somebody edited
  it (`InStep`). Their conjunction under `~raced` is inductive; after a race only the types
  are, and that is the point of `raced`.
* *Hook.* The queue's state is its history (`QueueInv`, over the instantiated
  `ApprovalStore`), and each hook's position agrees with its ticket: a hook that holds an id
  and is past the wait has an approval of that id (`HookInv`), which no later step takes
  back (`ApprovalsKept`). The order that is charged is added to the budget and to `allowed`
  in one step, so the two agree between resets.
* *Audit chain.* That the table verifies is not inductive: a transaction in progress
  could insert anything. `ReadIsCurrent` says what every open transaction has read is
  still the end of the chain; it holds because a commit waits for all other readers,
  and `OneWriter` gives it after an insert. A commit then appends the row the chain
  needs (`AppendKeepsChain`). Every row is the one its position and predecessor determine
  (`RowsMade`), so the first edited row is the first whose hash is wrong, and in a table
  with rows missing the first row that moved no longer names its place.
* *Stream.* What was sent is the run from one to the cursor until a burst (`StreamInv`);
  the rows of one poll continue it, since `From` is the cursor's successor unless more than
  a poll's rows arrived.
* *Ledger.* "Counted once" for a paper fill needs that its number is new (`NumbersFresh`),
  that nothing unpublished is recorded anywhere (`Untold`), and that what is on the bus or
  with the subscriber is there once and not yet in the tables (`OnItsWayOnce`). For a
  reconciled transaction, audit rows and the reconciliations that still owe one are
  together no more than the fills (`RowsOwed`), and nothing is recorded without a receipt
  (`Received`). `SettledAgree` is the last: while nothing disturbed the ledger there is one
  writer, everything published is in the audit log or on its way to it, and each writer's
  copy of the portfolio differs from the fills table by exactly the fill it has in hand
  (`Agreed`).
* *Trading.* Cash and cost basis account for money in the running portfolio and in the
  saved one (`Balanced`), and a buy and a sell change both sides alike (`Bought`, `Sold`,
  `SumChanges`). The overdraft is bounded because an order is checked against cash by its
  notional and can exceed that by spread and fee only. In a backtest the report's own books
  agree with the portfolio position by position (`BookInv`), and under the rule each fill
  either opened a position that is still open or belongs to a closed trade.
* *Live run.* A call is only made while the count is below the budget, with one retry
  (`CallInv`). Whatever the feed carries from the log scan over the ranking to the quote is
  a pool of the pair it is working on (`FeedOK`), and the side the quote is read from is the
  one the pair's address order says.
* *Vault and tokens.* Until two rewrites overlap, one process rewrites at a time
  (`OneRewrite`) and file, copy and pending rewrite each hold what the commands before them
  made of the vault, or are torn (`VaultMeans`). A server's tokens are all among those the
  vault held since it started (`TokensKnown`).
* *Rate limit.* A sliding window meets at most two fixed ones, and of each of these at most
  the limit was admitted (`Windowed`): the proof compares positions in
  `admitted`, which lists the times of the requests let through.
* *Pre-flight.* `ReadUpTo`: what was read is every block before some block, and the ranges
  on the stack follow each other from that one to the head (`Contiguous`), which halving
  (`SplitContiguous`) and reading (`TailContiguous`, `BlocksFollow`) keep. `SeenInv`: each
  token passed could be received and sent at some moment of the request; the one being
  probed could be received once its first transfer went through.
* *Strategies.* A mirrored sell on its way is covered by the position (`OrdersCovered`),
  because only one order is under way; the code's counters are what was spent
  (`Counted`), because `try_reserve` checks and charges in one critical section.

The library's induction theorems take operators as parameters, which the installed
provers cannot instantiate. Where a fact is by induction (a sum over the symbols, the last
place of a sequence, the first position of a token), it is proved from the least
counterexample (`WFMin` on the natural numbers; `PartInduction`, `FirstNat`).

**Model-checked only.**

* Liveness: `HeldOrdersAnswered`, `PendingEventuallyDecided`, `StoppedRunEnds`,
  `InterruptStops`, `SymbolsKeepTicking` and `ArmingAnswered`. Fairness is defined by
  `ENABLED`, which the prover does not support.
* `RecordedIsApplied` is violated by the code (a finding).

## Plan

All parts of the system with state of their own are modelled, and their safety properties
proved. Left to do:

1. An abstract ledger (a set of trades, each applied once) that `Ledger` implements when
   nothing fails, from `Agreed`; an abstract gate (an order goes through at most once,
   charged, and approved when held) that `PreToolUse` implements.
2. Bounded progress in place of liveness: how many steps a pre-flight request or a stopped
   run can still take (a decreasing measure is a safety property, and within the prover's
   reach).

## Not modelled

Byte-level encodings (ABI, RLP, keccak, permit, swap calldata, fixed-point prices),
cryptography and the signer, HTTP and TLS, the dashboard, logging and the wording of
messages. The AI provider, the chain and the venue are inputs. Metrics are counters
nothing depends on (they leave out requests that were limited, `crates/server/src/mw.rs:24`).
A request in `ControlState` and `PreToolUse` is one that passed its role check, which is in
`Serving`. Of a backtest's report, drawdown and percentages are left out. CSV prices of zero
or less are not drawn. Backup and restore are modelled for the vault; the database's files
are copied without SQLite's locks and without a rollback journal, and what SQLite makes of
such a copy is its own recovery. A wall clock that jumps, loss of durability of a file rename
after a power failure, and the server's graceful shutdown (which waits for open event
streams) are not modelled. Negative (short) positions do not occur in a run and are
left out of `Portfolio`.

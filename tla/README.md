# A formal model of the transaction engine

The repository is a seamless-wallet transaction engine for a sweepstakes casino,
written in Go over PostgreSQL and Redis.  Operators call it over HTTP to stake,
pay, reverse, sell, grant and redeem coins of a player's wallet, and they retry
whatever they are not sure of.  The repository also carries the Python scripts of a
few design skills under `.agents/skills`.  This directory holds TLA+ models of both,
TLC configurations that check them on small instances, and proofs, checked by TLAPS,
that the main properties of the engine hold for every size of instance.

- [Inventory](#inventory)
- [What is modelled](#what-is-modelled)
- [Runs](#runs)
- [What the comments say and the code does not](#what-the-comments-say-and-the-code-does-not)
- [Proofs](#proofs)
- [What is not modelled](#what-is-not-modelled)
- [What is left](#what-is-left)

## Inventory

| Component | State it keeps | Operations | What makes it hard, and right |
|---|---|---|---|
| Wallet arithmetic (`internal/domain`) | none | allocate and apply a bet, win, purchase, grant, redemption | SC stakes straddle two balances; promotional SC must become cashable only through play |
| Money flows (`internal/repository`: `engine.go`, `casino.go`, `promo.go`, `queries.go`) | `wallets`, `ledger_transactions`, `ledger_entries`, `ledger_transaction_dedup`, `promo_grants` | ProcessBet, ProcessWin, ProcessRollback, ProcessPurchase, ProcessRedeem, ProcessPromoGrant, GetBalances | retries of a call whose fate is unknown; concurrent calls on one wallet; ids reused; crash between COMMIT and the cached reply. Right: each id moves money once, the wallet equals its ledger, receipts tell of what is in the ledger |
| Idempotency store (`internal/cache`) | Redis: fingerprint and marker or payload per id, with a TTL | Acquire (Lua), Store (SET XX), Release (DEL) | the marker may expire under its owner; Store and Release act on whoever's marker is there |
| Spin (`spin.go`, `settle.go`) | the same tables | ProcessSpin: lock, guards, draw, then settle both legs in one CTE | a retry must replay the stored outcome although it has drawn again; both legs or none |
| Game mathematics (`internal/game`) | none | Validate, Spin, Evaluate, Uint64N | uniform draws; a paytable whose lines are checked |
| Responsible gaming (`rg.go`) | `player_limits` (append-only), `player_rg_counters` | SetLimit, QueryLimits, CheckPurchase, guards and counter updates inside the money flows | tightening at once, loosening after 24 h; counters that are caches of the ledger; windows that roll over |
| KYC and registration (`kyc.go`, `casino.go`) | `users`, `kyc_decisions` | RecordDecision, CreatePlayer | webhooks duplicated and out of order |
| GGR aggregator (`internal/worker`) | `daily_ggr`, a watermark | one cycle in one transaction | rows that commit after the watermark passed their start time; replicas |
| Dedup pruner | deletes from `ledger_transaction_dedup` | sweep | a retry later than the retention |
| Reconciler | a cursor over wallets | sweep: wallet against the sum of its entries | must not report drift that is not there, nor miss any |
| Partitioner | daily partitions | ensureFrom | runway when the worker is down |
| Supervision (`cmd/engine`, `recover.go`) | goroutines | start-up checks, workers restarted after a panic, graceful shutdown | order of start and stop |
| Request guards (`internal/api`) | Redis: nonces, sliding windows | HMAC, rate limit (fails open), replay guard (fails closed), geofence | order of the guards; a nonce spent by a request that failed |
| Catalogue search (`ui-ux-pro-max/scripts`: `core.py`, `search.py`, `validate_data.py`) | the rows and the indexes of each CSV file, cached in memory | search, search_stack, load snapshot, fit, resolve, the style contract | the file is rewritten while it is read; retired styles lead to others. Right: an answer is of one content of the file, never a retired style |
| Design system generator (`design_system.py`, `reasoning_contract.py`) | none | generate: rule, conditions, style, mode, palette, advice | five searches and a rule are combined in an order that decides whether dark and light agree |
| Design system persistence (`design_system.py`) | files of a folder | persist: MASTER and page documents, exclusive or forced | agents persist at once, are killed anywhere |
| Image scripts (`design/scripts`: logo, icon, corporate identity) | files of a folder | one picture, a set, sizes, mockups; order, poll, save | the service refuses, is slow, answers late; files named by the second |
| Handlers, admin, configuration, telemetry | none of their own | decoding, error mapping, read-only reports | - |

How they interact.  A request passes the guards of `internal/api` and reaches one
of the flows.  The flow claims the id in Redis, then runs one PostgreSQL
transaction (READ COMMITTED): lock the wallet row, read status, exclusion and
limits, compute the new wallet in memory, UPDATE it, INSERT the ledger and dedup
rows, bump the counters, COMMIT.  Redis is then given the receipt, or the key is
released.  A duplicate key reported by the INSERT (23505) means that an earlier
attempt committed: the flow looks its ledger row up and answers as if it had done
the work (*ghost-spin recovery*).  SetLimit and KYC decisions lock the `users`
row and never the wallet row, so they interleave with the guards of a flow.
Workers read what the flows commit.  Nothing but the database and Redis is shared.
The skills' scripts are separate processes that share nothing with the engine, and
with each other only the files of the catalogue and of the design-system folder.

## What is modelled

| Module | Models |
|---|---|
| `Wallet` | the pure money rules of `internal/domain`, over plans `[Currencies -> Int]` |
| `WalletEngine` | the six money flows, the idempotency store, failures, crashes, expiry, changes of a player's standing |
| `ExactlyOnce` | the abstract promise: each id moves one wallet once, and nobody is told of success before |
| `LedgerAudit` | properties that sum over the ledger (what the reconciler audits) |
| `SpinRound` | ProcessSpin: a round drawn by the server, its two legs, its recovery; it implements `ExactlyOnce` too |
| `ResponsibleGaming` | SetLimit, the guards of the money flows, the loss and deposit counters and their windows |
| `PlayerStatus` | CreatePlayer and RecordDecision, racing, repeated and out of order |
| `RequestGuards` | sliding-window limiter, timestamp and nonce, in the order of the router |
| `LedgerCalls` | the clock and the transactions as the workers see them |
| `GGRAggregator`, `DedupPruner`, `Partitioner` | the three workers that write, one module each |
| `Upkeep` | the three of them side by side, around the same transactions |
| `CatalogueSearch` | the search engine's caches, identities, variants and ranking, and the style contract of the guardrail |
| `DesignGenerator` | how a design system is put together |
| `DesignStore` | persistence of design systems by several agents |
| `ImageBatch` | the image commands |
| `PythonLists` | how those four pick from a list: the first, the last, those that meet a condition |
| `Skills` | the four side by side, one of them running in a behaviour |
| `MCWalletEngine`, `MCSpinRound`, `MCResponsibleGaming`, `MCPlayerStatus`, `MCRequestGuards`, `MCUpkeep`, `MCSkills` | requests, wallets, catalogues and the like for TLC; three of them state claims that fail |
| `MoneyProofs`, `WalletEngineProofs`, `SpinRoundProofs`, `ResponsibleGamingProofs`, `PlayerStatusProofs`, `UpkeepProofs`, `RequestGuardsProofs`, `SkillsProofs` | the proofs |

### The money flows: state

`WalletEngine` has the shared state of the deployment and the local state of
each call.

| Variable | In the code |
|---|---|
| `redis[k]` | the value under `idem:<operator>:<id>`: absent, `fp|PROCESSING`, or `fp|payload`; `by` is a history field that says whose marker it is |
| `balance[p]` | the committed `wallets` row |
| `holder[p]` | the transaction that holds its row lock |
| `ledger` | committed `ledger_transactions` rows, each with its player entries as one signed `delta` |
| `entries[p]` | the sum of a player's PLAYER_WALLET entries, credits minus debits (a running total next to `ledger`, so that most properties need no summation; `AuditPasses` says that summing `ledger` gives the same) |
| `dedup` | committed dedup rows |
| `standing[p]` | `users.status` and self-exclusion, as the guards read them |
| `pc`, `req`, `seen`, `delta`, `reply`, `receipt` | where a call is, its body, the wallet it locked, the plan it computed, what it answers |

An *attempt* is one HTTP call; a retry is another attempt that carries the same
request.  The ledger UUID of a row is the attempt that inserted it, so a
reference to a bet is the name of an attempt.  Writes inside a transaction are
invisible until COMMIT under READ COMMITTED, with two exceptions that the model
has: the row lock, and the unique index of the dedup table, on which a second
INSERT of an id waits for the first (`InFlight`).

### The money flows: actions and code

| Place | Action | Code |
|---|---|---|
| `idle` | `Arrive` | validate(), checkWinCeiling |
| `arrived` | `Claim`, `AnswerPending`, `AnswerCached`, `AnswerMismatch`, `BarrierDown` | the outcomes of Acquire's script, and its failure |
| `begin` | `LockWallet` | BEGIN, selectWalletForUpdate |
| `locked` | `Admit`, `Refuse` | requirePlayerActive, the guards, Allocate and Apply |
| `insert` | `InsertLedgerTx`, `DuplicateLedgerTx`, `UpdateRejected` | updateWalletBalances, insertLedgerTx |
| `commit` | `Commit`, `CommitUnacknowledged` | tx.Commit, with and without its acknowledgement |
| `recover` | `Recover`, `RecoverConflict` | recoverGhostSpin |
| `recache`, `store` | `CacheResult` | cacheResultQuietly; a recovered receipt is written twice |
| `release` | `Release` | releaseQuietly |
| any | `Fail`, `Crash`, `Expire`, `ChangeStanding` | a statement fails; the process dies; a TTL or an eviction; SetLimit, a KYC decision, a change of status |

The six flows differ in `Valid`, `StandingAllows`, `CanMove`, `Movement` and
`Announced`; everything else is one skeleton in the code and here.

Abstractions.  The steps between two statements that nobody else can observe are
one action: the guards and the allocation are `Admit`; the UPDATE and the INSERTs
are `InsertLedgerTx`.  Limits refuse or not by choice (`Limited`), as their
counters are not modelled.  A fingerprint is the pair of the player and the body
(no collisions); it does not bind the endpoint, so a body sent to `/bet` and then to
`/win` under one id has one fingerprint, and `reuses` sends such a pair.  The wallets start from `Opening` with an empty ledger.  A player
always has a wallet row.  Receipts carry the ledger id, the id, kind, player and
amount; the balances they carry and the house entries that mirror every player
entry are left out.  The start of a self-exclusion (SetLimit takes the `users` row
FOR UPDATE) waits for a transaction in `commit`, whose foreign key shares that row;
one that waits inside the INSERT holds that share too, which the model ignores: it
allows a few interleavings more.  A plain UPDATE of `users.status` waits for nothing.

### The round

`SpinRound` has the shared state of `WalletEngine` without `entries` and `dedup`:
every leg in `ledger` has its anchor, which the same statement wrote.  A *leg* is
`<<id, "bet">>` or `<<id, "win">>`, for the code's suffixes `:bet` and `:win`; both
rows carry the outcome, as their metadata do.  An outcome is the multiplier it
pays, in tenths, so that truncation shows; the reels are left out.

| Place | Action | Code |
|---|---|---|
| `idle`, `arrived` | `Arrive`, `Claim`, `Taken`, `BarrierDown` | validate, game.Lookup, Acquire |
| `begin` | `Queue` | BEGIN, and the snapshot of `sqlLockWalletAndStatus` |
| `queued` | `LockWalletAndStatus` | the lock is granted |
| `locked` | `Draw`, `Refuse` | status, exclusion and loss limit, then game.Spin |
| `drawn` | `SettleSpin`, `DuplicateRound`, `Refuse`, `UpdateRejected` | AllocateBet, ApplyBet, AllocateWin, ApplyWin, settleSpinStatement |
| `commit` | `Commit`, `CommitUnacknowledged` | adjustLossCounters, tx.Commit |
| `recover` | `Recover`, `RecoverConflict` | recoverGhostSpinRound |
| `recache`, `store`, `release` | `CacheSpin`, `Release` | cacheSpinQuietly, releaseQuietly |
| any | `Fail`, `Crash`, `Expire`, `ChangeStatus`, `ForeignBet` | as above; ForeignBet is a bet of ProcessBet whose id is that of a bet leg, with metadata that may show any outcome |

Two details decide what the model shows.  The status is read in the statement
that waits for the wallet lock: READ COMMITTED re-evaluates the locked row when the
wait ends and keeps the joined `users` row of the statement's snapshot, so `Queue`
and `LockWalletAndStatus` are two steps.  And the draw precedes the check for
funds and the INSERT, so that every call draws, a retry of a settled round too;
`drawn` is kept after the transaction only to be able to say that it is not used.
Refusals for an exclusion or a limit are a choice at `locked`; metadata that is
not an object or is too long is one of the failures at `drawn`.

### Limits, counters and windows

`ResponsibleGaming` has one player.  `limits` is `player_limits`, `counter` is
`player_rg_counters` by type and period, and `ledger` keeps of each committed play
what the two aggregates of `rg.go` sum: the stake less the win, and the deposit.  A
limit request is `BeginSet` (BEGIN fixes `created_at` and every `now()` of the
transaction), `LockPlayer` (the `users` row, after which the clock is read) and then
`RecordLimit`, `RefuseLimit` or `ReplayLimit`; a play is `BeginPlay`, `Guard` (wallet lock,
exclusion, ceiling), `Post` (its ledger rows, whose foreign key shares the `users` row)
and then `Settle` (the counter, COMMIT) or `Undo`.  Limit requests lock the `users` row and
not the wallet, so they land between these.  Any number of requests of the player may be
in flight together, and the one that began first may lock last: its row is then the
older of the two.

Time is in ticks, of which `DayLength` make a day; a week and a month begin on the days
of `WeekStarts` and `MonthStarts`.  One tick stands for both the database's and the
program's clock, and it may pass at any point of a request or a play.  So a play has
several instants, as it has in the code: its entries are dated by BEGIN, the guard
computes its window at another `time.Now()`, `bumpCounter` reads the counter at a third
(`clock.read`) and dates the row it writes by a fourth.  Two fields are no columns and
serve the properties only: `done` is the moment of a limit's COMMIT, `put` the instant
at which an entry's counter was written.

### Players and identity decisions

`PlayerStatus` has the committed `users`, `wallets` and `kyc_decisions`.  CreatePlayer
is `LookupUser`, `InsertUser` or `InsertConflict`, `CommitPlayer`; an INSERT that meets
an uncommitted row of the same key waits.  RecordDecision is `LockUser` (the verdict
is computed there, in memory), `InsertDecision` or `DuplicateEvent`, `CommitDecision`,
and `RecoverReplay` for an event that was recorded before.  `Order` is the operator's
manual UPDATE, `Fail` any failure, and `CommitUnacknowledged` a COMMIT of which the
caller does not hear.

### The workers

`LedgerCalls` reduces a money transaction to its id, the instant of its BEGIN (which
stamps every row it writes) and its end.  Each worker extends it with its own
tables, and `Upkeep` joins them: a transaction's COMMIT needs its dedup row to be new
(`RecordId`) and sends its rows to a partition or to the default one (`Route`).

| Worker | Actions | Code |
|---|---|---|
| aggregator | `BeginCycle`, `LockState`, `AggregateGGR`, `AdvanceWatermark`, `AbandonCycle` | one transaction per cycle; `now()` is that of its BEGIN, before it waits for the watermark row |
| pruner | `StartSweep`, `PruneBatch`, `AbandonSweep` | autocommitted DELETEs of the oldest rows |
| partitioner | `StartCycle`, `EnsureNext`, `EnsureDone`, `EnsureBlocked`, `AbandonRunway` | one DDL statement per parent and day; a day whose rows are in the default partition already is refused |

`daily_ggr` is represented by `tally`, how often each transaction's rows were added to
it.  Two assumptions on time that the code makes silently are constants: a
transaction is open for at most `TxSpan`, and a retry comes at most `RetryHorizon` after
any earlier call of its id.

### The request guards

`RequestGuards` has the deliveries of one operator.  A delivery goes through
`operator` (sliding window), `stamp` (timestamp), `nonce` (SETNX), `handler` (geofence and
validation) and `player` (sliding window of the player).  Each step that calls Redis
reads its own clock first and acts up to `Lag` later.  The limiter fails open
(`FailOpen`), the replay guard closed (`FailClosed`, with the key set or not).  The
signature binds stamp, nonce and body, so a message is one value.  The clocks of the
replicas and of Redis are one.

### The design skills

`CatalogueSearch` is a process that answers questions about one CSV file, with the file
as the sequence of contents it has had.  A load takes the signature, reads, and takes
the signature again (`core.py`); the read may see anything the file was in between.
Row cache and index cache are kept per signature.  A
variant is a generation of rows (active, legacy, ...) and, for shadcn, the component base
the question names; a new application of a stack that is all legacy is led to the
successor row, and an API identifier to the one row that has it.  Scores are left open: a
search finds the rows about its subject, and whether the best of them clears the
threshold is a choice.  `StyleContract` is the guardrail of `validate_data.py` on parents and
redirects, `Resolve` and `Destination` are what the generator and the search do with a
retired style.

`DesignGenerator` takes any rows as the results of the five searches and computes the
category's rule, its conditions, the style, the mode, the palette and the advice, in
the order of `design_system.py`.  `DesignStore` has a folder, a temporary file per
agent, exclusive publication by link and forced publication by rename; an agent may
fail while it writes or publishes and be killed at every step, and a killed one leaves
its temporary file.  Removing the temporary file is taken to succeed.  Projects and pages
are filed under their slugs, which several names may share.
`ImageBatch` runs one command: asks for each picture, polls when it was only ordered,
and saves under a name made of the item and the second, or of the size; the second may
pass or not between two pictures.  `Skills` runs one of the
four in a behaviour, since they share nothing.

## Runs

| Run | Asks | Properties |
|---|---|---|
| `reuses` | two ids, one of them sent for bets of two players and, with the same body, for a win, the other for a grant; the players cross on the first: is a receipt misdirected, the promise of `ExactlyOnce` broken, a call left waiting? | `ReceiptIsBacked`, `KeepsPromise`, `EveryCallReturns` |
| `cashier` | purchase, bet, win, redemption and rollbacks under two ids, balances at the limit of their column: is an update lost, money moved twice, a balance overdrawn, promotional SC cashed, a bet reversed twice, the audit ever off? | `TypeOK`, `NeverOverdrawn`, `WinningsAreStakedLast`, `RedeemableIsWon`, `AuditPasses`, `AtMostOneReversal`, `WalletMatchesLedger`, `SnapshotIsCurrent`, `AtMostOnce` |
| `rounds` | rounds of two players, one id retried and sent with another stake, next to a plain bet that may take the id of its bet leg, an overflowing column: is a round ever more or less than one movement of both legs, a settled outcome replaced, or not paid? | `TypeOK`, `PaidAsDrawn`, `NoReroll`, `KeepsPromise` (of `SpinRound`) |
| `limits` | limits set, raised, excluded, lifted by two requests that overlap while rounds, rollbacks and deposits run, some of them across midnight: does an exclusion end early, a limit loosen early, a stake pass that the ledger says is too much, a refusal come without cause? | `TypeOK`, `ExclusionOutlastsLifts`, `LooseningWaits`, `StakesFitTheLimit`, `RefusalsAreJustified` |
| `players` | two registrations whose keys or names collide, three deliveries of three events with late, repeated and misdirected decisions: does the baseline depend on their order? | `TypeOK`, `BaselineIsNewest`, `TrailExplainsBaseline`, `AnswersMatchTrail`, `OnePlayerPerKey` |
| `upkeep` | two transactions of one id around the three workers: is a row counted twice or never, a pruned id applied again, a row misfiled without an outage? | `TypeOK`, `RevenueIsExact`, `AppliedOnce`, `MisfiledOnlyInAnOutage` |
| `requests` | three deliveries of two messages through both windows: does a message pass twice, is a window overfull, a throttled nonce spent, the advised wait too short? | `TypeOK`, `MessagePassesOnce`, `WindowNeverOverfull`, `ThrottledKeepsNonce`, `RetryAfterIsHonest` |
| `skills` | a catalogue of three rows of many shapes that is rewritten and removed while it answers, a generator on every combination of results, three agents on one folder, every image command: is an answer of no content of the file, a retired style recommended, a design half dark, a report untrue? | `AnswersAreFaithful`, `NoRetiredStyle`, `DesignIsOneMode`, `StoreReportsHold`, `BatchIsHonest` |

### Bounds, and why they are enough

*Money.*  Three attempts are an original, a retry that finds its traces, and an
interloper.  Each question has the smallest set of requests in which it can go wrong.
A wallet opens with 1 GC, 1 unplayed SC and 2 redeemable SC, so that a stake of 2 SC
straddles both balances and a second one finds no funds.  In `cashier` a win paid
before any stake overflows the redeemable column (`MaxBalance`), and the same win
after one does not.  In `rounds` two spins meet: an outcome pays nothing, half the
stake or twice the stake, and a stake of 3 SC uses the whole wallet, so that the win is
credited on a balance the bet has just emptied.  An odd stake that pays half is
truncated, and a stake of 1 that pays half has no win leg.

*Limits.*  Two limit requests and three plays over two days of one tick each: a play can
begin on the first day and settle on the second, a counter be stale on the second day,
an exclusion end, a raise take effect, and two requests overlap in either order of
their BEGINs and locks.  A round stakes 3 and wins 1, so that limits of 5 and 6 tell the
stakes from the losses.  `LastTick` is what ends a behaviour; the last action of a
complete behaviour is the stuttering `Finished`.

*Workers.*  A day of three ticks and a clock of six, so that there are two days and a
cycle, a retention and a runway each end within them.  Two calls of one id, one
aggregator, `TxSpan` 1 below `SafetyLag` 2, and `RetryHorizon` 2 + `TxSpan` 1 =
`Retention` 3: the least values for which the properties are claimed, and each mutant
moves one of them by one.

*Requests.*  The operator's window holds two, the player's one, so that of three
deliveries one is throttled.  A nonce lives for `MaxAge + ClockSkew + Lag + 1`, the least
that suffices.  Behaviours end with the clock, so deadlock is not checked.

*Skills.*  Three rows, of which one is in use, one takes every shape of a retired or
supplemental one and the third all but those that name a successor by its domain, include
a chain, a circle and a redirect to another redirect.  Three
contents of the file suffice for a mixture; `Attempts` is the code's number of reads
scaled down.  Two page names share a slug.  Image sets have up to four items, of which two
fall on one entry, and a list of sizes names one of them twice; `MaxPolls` is the code's
number of polls scaled down.  A command ends, so deadlock is not checked.

Attempts, calls, agents and the like are interchangeable (symmetry), except where
liveness is checked.

### Fairness

Only `reuses` assumes any: weak fairness of `Step(a)` for each call.  A goroutine
that can run is run, PostgreSQL wakes a waiter when the row it waits for is free,
and the lock holder itself is such a step, so weak fairness suffices.  Nothing is
assumed of faults, expiry or changes of standing, and a call that has not arrived
need never arrive.  The workers' progress is not claimed: a cycle may fail every time,
and nothing in the code limits how often.

### Mutants

Each property is sensitive to the code: the mutants of `PROJECT.json` (operators
marked "Mutated form of" in the modules) drop a lock, a guard, the dedup row, a
comparison or an unlock, and each makes TLC report the property.

## What the comments say and the code does not

Four statements fail in runs of their own, with a behaviour that TLC prints.

| Run | Statement | What happens |
|---|---|---|
| `claim_receipts` | idempotency.go:74-77, "a success receipt that disagreed with the ledger" is what binding a key to its request ends | once the key is gone, recovery compares the player and the kind of the ledger row and nothing else, and puts the retry's amount on the receipt of the old transaction (0 for a rollback) |
| `claim_limits` | rg.go:185-188, the lock on the users row keeps a decision from racing another SetLimit | rows are ordered by `created_at`, the `now()` of a BEGIN that precedes the lock. An exclusion that began before a lift and locks after it is accepted, recorded under the lift, and excludes nobody |
| `claim_periods` | rg.go:14-18, a counter is "Never trusted blind: a missing or stale row is re-seeded from the ledger" | a row is stale only by its window. A DAY limit that is replaced by a WEEK limit and then set again finds its old row, which nothing maintained in between, and lets a bet pass that is over the limit |
| `claim_revenue` | aggregator.go:103-106, a second replica "reads the advanced watermark and finds an empty window" | its `now()` is that of its BEGIN. If it began earlier and locked later, it moves the watermark back, and the next cycle counts rows again |

The models show more of them.  They are described here and have no run: each is a plain
consequence of one or two lines.

- idempotency.go:272-275, Store spares a fresh marker of a retry.  SET XX replaces any
  value, so the retry's marker is replaced by the first attempt's payload.  Harmless
  here: the payload is of the same id, and `ReceiptIsBacked` holds.
- .cursorrules:24-25, a retry receives the original result.  A retry whose cached
  payload is gone meets the guards before the INSERT: the funds the bet took are
  missing, and it is refused.
- engine.go:613-615, a rolled-back bet was never settled.  Nothing looks for the win.
- engine.go:221-223, a limit change cannot slip past the guards.  SetLimit locks the
  users row, so an exclusion may commit after the guard and before the INSERT.
- settle.go:44-46, a queued spin sees a suspension.  The status is of the snapshot
  taken before the wait: the spin goes on as ACTIVE.
- spin.go:93, SpinResult is the authoritative record of the round.  A retry with
  another stake is shown that stake, and a win derived from it.
- engine.go:108-119, the fingerprint binds who and what.  It does not bind the kind of
  call: a body sent to `/bet` and again, under the same id, to `/win` is answered from
  the cache with the bet's receipt.  `ReceiptIsBacked` states how far a cached receipt
  may differ from the call it answers.
- A round that is recovered names no win leg (`Recover`).  If a plain bet took the id of
  a round's bet leg, the round is answered as recovered, with the outcome that the bet's
  metadata shows (`ForeignBet`): a round that nobody drew.
- rg.go:709-713, when a counter row is stale "the ledger re-derivation already includes
  this transaction".  It does not if the transaction began before midnight and reads the
  counter after it; and the row that was read for one day may be written as the next
  day's.  `StakesFitTheLimit` and `RefusalsAreJustified` are claimed for windows whose start
  no transaction spans (`Undisturbed`, `Astray`).
- A play that bumps its counter also looks up the limit as of its BEGIN.  A limit that takes effect
  while it is under way misses its stake (`Overtaken`).
- rg.go:58-59, a limit is removed with an inactive row.  For a loss or deposit limit the
  row has no period and `player_limits_period_shape` refuses it (`Misshapen`).
- rg.go:339-341, "Setting or extending an exclusion is always MORE protective".  A second
  one with an earlier end shortens the first; `ExclusionOutlastsLifts` says so.
- Migration 000011, "increases and removals wait 24h".  What governs is looked up as of
  the request's BEGIN: a request that began while a larger limit governed, and records
  after a smaller one has taken effect, replaces the smaller one at once.  `LooseningWaits`
  states that exception.
- A limit of 10 a month may be replaced by one of 9 a day at once: only amounts are
  compared (`DecreaseOrNew`).
- replay.go asks for a nonce life of at least `maxAge + clockSkew`.  It must be longer,
  by the time a call to Redis may take (`TTLAssumption`); the ten minutes of the
  configuration are ample.
- A replay guard that fails after its SETNX was applied answers 500 "so retries can
  succeed"; the retry with the same nonce is refused as a replay.  A 429 of the player's
  window comes after the nonce is spent, unlike the operator's.
- A verified decision that is newer sets `ACTIVE` whatever the status was: it reopens a
  player an operator has closed or suspended by hand (`Verified`).
- A day whose rows have reached the default partition never gets one of its own: every
  later cycle stops at it (`EnsureBlocked`).
- Of the skills: the guardrail accepts a redirect from one retired style to another
  (`NoRetiredStyle` states that exception); the generator does not follow redirects
  within the style domain, which the search does; a light design may get a dark
  palette; two forcing agents can leave a MASTER and a page of different
  runs; project names with the same slug share a folder; a killed agent leaves its
  temporary file; two page names with one slug share a file; an Atlas poll that fails
  once loses the order; an icon size given twice is reported twice and has one file, and
  so are two mockups of one catalogue entry that are saved in one second.

## Proofs

### The money flows

`MoneyProofs` and `WalletEngineProofs` hold for all finite or infinite sets of
attempts, ids, players and requests, any bounds and any opening wallets, from the
assumptions of `WalletEngine` alone: requests are well formed, `"ACTIVE"` is a
standing, the bounds are naturals, opening wallets fit their columns, and `None`
is neither an attempt nor a request.

The inductive invariants build on one another.

1. `TypeInv` is `TypeOK` and what typing needs to be inductive: a call past its
   arrival has a request, a transaction in flight holds its wallet's lock, and so
   on.  It gives `TypeCorrect`.
2. `SnapshotIsCurrent` is inductive on top of it: a writer needs the lock that
   the reader holds.  With "only Commit writes" (`OnlyCommitWrites`), the absolute
   values that COMMIT writes are an increment of the current row, hence
   `WalletMatchesLedger`.
3. `DedupInv`: the dedup rows are the ids of the ledger, and an INSERT that has
   passed the index stays alone with its id until it ends.  Hence `AtMostOnce`.
4. `NeverOverdrawn` follows from `CanBet`, `CanRedeem` and the arithmetic lemmas
   of `MoneyProofs`; `SnapshotIsCurrent` is not needed, since the plan is covered
   by the wallet the call has seen.  `WinningsAreStakedLast` follows in the same
   way from `BetPlanIsCovered`.
5. `AtMostOneReversal` needs an invariant on calls in flight: between its guard and
   its COMMIT a rollback is the only one of that bet, because another one would
   hold the same wallet lock.  The bet's player is what ties the lock to the bet.
6. `ReceiptIsBacked` needs the same of every receipt in Redis and in every call, of
   what Redis holds under a fingerprint, and that the ledger only grows.  A receipt
   comes into a call by settling, by recovery, or from a key with the call's fingerprint;
   the call it was issued for keeps it (`AnswersStay`).
7. `PromiseStep` maps each step to `ExactlyOnce`: a COMMIT is `Settle` (its funds
   change by the delta, by 2; its id is new, by 3), the end of a successful call is
   `Answer` (its id is settled, by 6), and all else stutters.  Hence
   `EngineKeepsPromise == Spec => KeepsPromise`.

8. `AuditsPass` compares the balance with a sum over the ledger, not with the running
   total.  `SumsInv`: `ledger` is finite, and each total is that sum.  A COMMIT adds one
   row that was not there (its id is new, by 3), and the sum grows by its delta.
9. `CashableCoinsAreWon`: `RedeemableIsWon` is not inductive, since a rollback gives
   back redeemable coins that a bet took.  `CashInv` counts what the *standing* bets took
   (bets without a rollback) on top of the wins; a rollback ends one standing bet and
   restores what its row says it took, and `AtMostOneReversal`'s invariant (5) keeps it
   from doing so twice.  `PlanInv` is what each flow's plan may do to the column.

Sums.  `MapThenSumSet` is a fold over an arbitrary choice of elements, and induction over
sets needs a theorem that takes an operator.  `MoneyProofs` gets by without: the subsets of
a finite set for which a claim fails have a smallest member (`SmallestSubset`, by the
well-foundedness of strict inclusion), and a function that obeys the fold's equation
on all subsets (`Adds`) exists and is unique by that argument (`AddsExists`, `AddsAgree`).  It
follows that the sum does not depend on the choice: it grows by each element added
(`SumAdds`), shrinks by each one removed, and is bounded where the summands are
(`SumIsBounded`).

### The workers

`UpkeepProofs` holds for any calls, ids, clocks, batch sizes, days and spans.  `LedgerInv`
is the type invariant of the ledger's side and what a transaction's record satisfies: it
began in the past and is not open beyond its span.  `UpkeepTypes` adds the partitions:
by `RunwayInv` a cycle that is under way began on a day of the clock, so that the days
it creates stay among `Days`.

10. `RevenueCorrect` assumes one aggregator and `TxSpan < SafetyLag`.  `CycleInv` says
    that a cycle under way has read the current watermark and, once rolled up, has
    picked all that is due.  What is still open began after `now - TxSpan` and so lies
    beyond every cycle's window: a COMMIT changes neither what is due nor what the
    watermark has passed.  Without the first assumption `claim_revenue` is the
    counterexample.
11. `AppliedOnceCorrect` assumes `RetryHorizon + TxSpan <= Retention`.  `DedupInv`: calls
    of one id begin within the horizon of each other, and a committed one has its row
    until the retention has passed.  A second COMMIT would have to come later than that.
12. `FiledCorrect` assumes nothing of time.  `FilingInv`: no day has both a partition
    and strays, and the statements a cycle has behind it have their partitions; so
    the days a completed cycle covers are never strays' days.

### Players and identity decisions

`PlayerStatusProofs` holds for any calls, keys, events and instants, from the
assumptions of `PlayerStatus`.  `TypeInv` is the type invariant with the places each
kind of call can be at.

13. `OnePlayerCorrect`: by `RowsInv` nothing under way has the key or the name of a
    player, nor of another row that is not committed; so a COMMIT adds a player of
    a new key.
14. `BaselineCorrect` and `TrailCorrect`: by `LockInv` a verdict held in memory is that
    of the row as it stands, since no other delivery has its lock, and by `TrailInv`
    the rows of the trail are about players and only a VERIFIED one was applied.
    Hence the baseline is the newest verification whatever the order of delivery.
15. `AnswersCorrect`: what a delivery is told is in the trail, which only grows.

### The round

`SpinRoundProofs` holds for any calls, ids, players, outcomes and bounds, from the
assumptions of `SpinRound`.

16. `RoundsArePaidAsDrawn`: by `LegsInv` no leg of a round about to be committed is in
    the ledger or in another such round, so that COMMIT adds a whole round and gives
    no older one a second partner.  `WinForIsFloor` is the arithmetic of the payout.
17. `NoRoundIsRolledAgain`: by `ReceiptInv` and `ReplyInv` the ledger backs every
    receipt, held, cached or told; what a later call draws reaches none of them.
18. `RoundsKeepPromise`: `LockInv` makes the absolute balances of the settling statement
    an increment of the row, so a COMMIT settles one id.  A plain bet under the id of a
    leg settles that id too (`StakeSettles`), as the movement it is, and a round that
    comes after it finds the leg taken.

### Limits

`ResponsibleGamingProofs` holds for any finite set of limit requests, any plays, amounts
and calendars.  Requests may overlap, and ticks pass anywhere.

19. `ExclusionsLast`: by `RankInv` each BEGIN and each COMMIT has a moment of its own, and
    a row's rank is the moment of its BEGIN.  `TopInv`: while an active exclusion with no
    active one after it lasts, no row of its type ranks above it except lifts that
    *crossed* it, asked for before it was recorded and dated after it.  Any other
    lift that would rank above it began when the exclusion was there to be found, and
    `LiftTooEarly` refuses it.  What a crossing lift does is `claim_limits`.
20. `LimitsLoosenLate`: by `TimesInv` a row takes effect no earlier than its BEGIN, and
    one that does not loosen what its request found takes effect at once.  So a row that
    governs in place of a smaller one waited its day, or began before the smaller one
    had taken effect.
21. `GamingTypes`: a counter is a natural number because it is floored at zero when it
    is adjusted and seeded from a sum of the ledger, floored again.
22. `StakesFit` and `RefusalsJustified` are action properties about `Guard`, which looks at
    the counter and not at the ledger.  `CountsInv` relates the two.  A counter whose
    window is the current one (`Fresh`) holds at most the stakes of that window if no
    transaction spans its start, and at least the window's net if moreover the limit's
    period was never changed and no limit overtook a transaction: a seed is exact, an
    adjustment adds the same to both, and the floor at zero only raises the counter.
    `ReadBetween`: if neither the entry nor the write is astray, what was read between
    them is of the same window.  `WindowsFollow` is the arithmetic of the calendar: the
    window of a later instant does not begin earlier.  The sums are those of
    `MoneyProofs`.

### The request guards

`RequestGuardsProofs` holds for any deliveries, messages, spans and delays, from the
assumptions of `RequestGuards`.

23. `EachMessagePassesOnce`: by `NonceInv` a delivery at the nonce store had a good stamp
    when it read its clock, and what has passed is remembered until no copy can come
    (`TTLAssumption`).  So a copy that arrives finds the nonce spent.
24. `LimiterHolds`: by `EntriesInv` an admission whose entry has left the window is older
    than `Window - Lag`, and the window holds at most `Limit`.  The deliveries admitted
    in a stretch that ends now are therefore no more than the entries.
25. `AdvisedWaitSuffices`: once the oldest entry has left there is room, the window being
    at most full (`EntriesInv`).  `ThrottledNonceIsKept`: a delivery whose nonce is set
    goes to no place before the nonce store.

### The design skills

`SkillsProofs` holds for any catalogue, contents, questions, rules, palettes, agents,
projects, pages and commands, from the assumptions of the four modules: a content is a
list of rows, a question is about styles or a stack, a palette is dark or not, a batch is
a list.  The scripts pick from lists by conditions; `PythonLists` says so with sets of
positions, and `MinRule`, `MaxRule`, `NthRule` and `KeptRule` are what that takes: a
nonempty set of naturals has a least member (by the well-foundedness of strict
inclusion, as for the sums), and counting the members up to each one numbers them.

26. `ReportsAreTrue` assumes that a page is not named as the master is and `None` is no
    document (`NamesDiffer`).  By `AgentInv` what is about to be published is whole, and an
    agent past a path has seen it taken; paths are never emptied, so this stays.
27. `SearchesAreFaithful`: `AnswersAreFaithful` is not inductive.  By `CacheInv` the rows
    cached are what the file held under their signature, and so fits each cached index; by
    `QuestionInv` the rows in hand were the file's at one moment since the question
    (`Fresh`), because they are kept only between two equal signatures or come from
    the cache of the current one.  An index reused under the signature of those rows is then
    the one that fits them, and no position lies beyond them.
28. `NoStyleIsRetired` rests on the same invariant and on two facts about lists of any
    length that satisfy `StyleContract`.  `DestinationRule`: from whatever row
    `StyleIdentity` finds, the search comes to one in use or to the target of a redirect.
    `ResolveRule`: identities are disjoint, so a name leads to one row (`LookupRule`); a
    parent is in use, so the walk stops after one step.  `walk` is a recursive
    function: the proof exhibits one that satisfies its equation, and the least step at which
    another one differed would contradict it.
29. `DesignsAreOneMode` is a matter of one step, by the cases of `SelectPalette`
    (`PaletteRule`).
30. `BatchesAreHonest`: `Accounted`: the items before the one in hand are told or missed,
    never both, and no other is.  `Stored`: what is reported lies under the name it was
    saved with and *survives* there, as its own picture or that of a later item alike.  By
    `NameIsAlike` two items of one name are of one size, or of one catalogue entry; so
    when a name is taken again, it is by an item alike (`SurvivesRule`).

### Only model-checked

`EveryCallReturns`: liveness under fairness is beyond the prover.  Every invariant and every
action property that the passing runs check is a theorem, under the hypotheses named above.

## What is not modelled

- Game mathematics (`internal/game`): whether draws are uniform and what the paytable
  returns are questions of statistics.  A round takes any outcome it may draw.
- Worker supervision, start-up checks, migrations: they run once, in one thread.  A
  worker that panics is a cycle that is abandoned.
- The reconciler's batches and cursor: it only reads.  What it audits is `AuditPasses`.
- The geofence and the handlers: verdicts on one request, without state.
- QueryLimits, CheckPurchase, the admin reports: reads.
- Balances in receipts, house entries and `promo_grants` rows, the loss counters of a
  spin: the first mirror what is modelled, the last are in `ResponsibleGaming` only.
- Cryptography (HMAC, TLS), HTTP encoding, logging, metrics, tracing, configuration,
  deployment and load tests.
- The other scripts under `.agents/skills` (scrapers, slide and token generators,
  validators): sequential transformations of text that run once.  Of those modelled,
  scores, synonyms, prompts and the layout of documents are left out.

## What is left

1. `ResponsibleGaming` composed with `WalletEngine`, in place of `Limited`.
2. Liveness of the workers under an assumption on how often a cycle may fail.

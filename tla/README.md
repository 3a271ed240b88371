# Crypto analyst trader: a verification project

TLA+ modules of the trader, TLC runs over small instances of them, and TLAPS
proofs for all instances. Everything is translated from the TypeScript under
`src/`; paths below are relative to `src/src` unless they begin with `docs/` or
`tests/`.

## 1. The system

The program is a risk-gated daily trader for one Bybit linear account: a modular
monolith of domain functions, ports, adapters and use cases, with SQLite as its
only durable state. It has no server: every command is a process that starts,
takes what it needs from the database and the exchange, writes, and ends. What
two processes know of each other, they know from the database. The hard part is
therefore not computation but *who may add exposure, and what became of it*:
orders are sent over a network that may lose the answer, processes die between
two writes, leases expire while a process sleeps, evidence is read while the
account it is about moves, and a plan that was approved may have grown old by
the time it is executed.

### Components

| Component | Code | State it keeps | Operations |
|---|---|---|---|
| Execution journal | `adapters/sqlite/execution-store.ts`, `sqlite-authority.ts`, `transaction.ts`, migrations 002, 004, 005; `domain/execution/{reconciliation,approval,execution-attempt,identity-binding}.ts` | account lease with epoch, HALT row with revision, lineages, owned intents, attempts, late identity bindings, reconciliation results | `acquireLease` `renewLease` `releaseLease` `prepareLineage` `prepareOwnedIntent` `appendAttempt` `appendIdentityBinding` `appendReconciliation` `raiseHalt` `clearHalt` and reads |
| Accounting store | `adapters/sqlite/accounting-store.ts`, migration 003 | immutable facts, conflicts, checkpoints | `ingestFact` `ingestFactAndAdvanceCheckpoint` `updateCheckpoint` and reads |
| Demo entry and recovery | `application/demo-{entry-use-case,recovery}.ts` | none of its own (a review in memory) | `prepare` `execute`; `recoverPriorDemoRuns` `reconcileRun` `clearHaltIfSafe` |
| Bybit V5 adapter | `adapters/bybit-v5/*` | none; a clock offset and a rate budget in its transport | create, cancel, observe, list fills, leverage, evidence reads |
| Prepared-leg store | `adapters/sqlite/prepared-leg-store.ts`, migrations 006, 007 | create and cancel intents of legs, attempts, results | `preparePreparedLegCreate` `preparePreparedLegCancel` and appends |
| Prepared-leg boundary | `application/mainnet-prepared-{leg-boundary,leg-cancel,grid-boundary}.ts` | none | place, recover and cancel the legs of a grid one by one |
| Operator store | `adapters/sqlite/operator-mainnet-test-store.ts`, migrations 008-010, 014 | receipts, outcomes, intents, attempts, reconciliations, attestations, grants, HALT events | one transaction per record; `clearOperatorHalt` |
| Operator trade | `application/mainnet-operator-*.ts` | none | typed command, approved plan, status, attestation, recovery; no lease |
| Evidence | `application/{account,market,liquidation}-evidence-collection.ts`, `mainnet-entry-evidence.ts` | immutable bundles | reads of a moving world around a cutoff |
| Risk and planning | `domain/risk/*`, `application/portfolio-risk-preflight.ts`, `domain/execution/prepared-grid-capacity.ts` | none | preflight of a plan, capacity of each leg |
| Daily preparation | `application/daily-prepare.ts`, `domain/review/prepared-*`, `cli/daily-command.ts` | prepared plans, approvals, shadow reports | `prepare` `review` `approve` |
| History ingestion | `application/history-{ingestion,coverage,attribution}.ts`, `adapters/sqlite/history-store.ts`, migration 011 | pages, windows, streams, checkpoints, conflicts | resumable page-wise sync, report |
| History accounting | `application/history-accounting-*.ts`, anchor and report stores, migrations 012, 013 | anchors, reports | capture, report, proof |
| Keychain and agent connect | `adapters/macos-keychain*.ts`, `adapters/bybit-agent-connect.ts`, `scripts/credentials*.ts` | three records per environment | `preflight` `save` `remove`; a browser session |
| SQLite opening | `adapters/sqlite/{connection,migrations}.ts`, migrations 001-015 | the file, its schema marker and its environment identity | open, migrate, hand out |
| Plan lifecycle, accounting ingestion, analytics and quality, canonical identity | the rest of `domain/` | none | pure computations |

### How they interact

* A **Demo start** acquires the account lease, runs **recovery** over every prior
  lineage, and only then plans or executes. Each of its writes presents the
  authority of its lease grant (run id and epoch), which the journal compares with
  the one lease row of the account inside the same transaction.
* Before an order is sent its intent is committed (**write-ahead**); after the
  exchange answered, an attempt is committed; after that, recovery reads the
  exchange and records a result. A result that is not final raises **HALT** in the
  same transaction, and HALT stands in front of every new intent.
* **Accounting facts** share the database and HALT but need no lease: a fact that
  contradicts a stored one raises HALT at any moment.
* **Prepared legs** use the journal's lease and HALT and rows of their own. The
  **operator trade** uses no lease: what keeps two commands apart are the pending
  sources in its store, the evidence each read, and HALT.
* The **exchange** acts on its own: an order arrives late or never, fills in part,
  is cancelled, or loses its take-profit while nobody looks.
* The **daily preparation** reads market, liquidation and account evidence, asks the
  risk boundary, and stores a plan that a person approves later, from another
  process. Prepared legs and operator plans are made from such approvals.
* Everything durable lives in one SQLite file per environment; each process opens
  it, migrates it if its release is newer, and works under its identity.

### What is hard here

Interleavings of processes over one lease or over none; crashes and stalls between
two writes; takeover of an expired lease; lost or misread answers of the exchange;
evidence that was true when read; a clearance whose evidence went stale; facts
that arrive in several versions; windows read over several runs; commands that
fail halfway over three Keychain records. `PROJECT.json` lists each hazard at its
line with the properties that would catch it going wrong.

### What makes each part correct

* Journal: while HALT is down every known order is settled, every conflict
  corrected and every intent before a takeover accounted for; results, attempts
  and bindings tell one story about each exchange order.
* Demo entry and recovery: at most one order of the account may still add
  exposure; an intent is never called failed while its order may fill.
* Accounting: no version of a fact is lost; a checkpoint covers stored facts only.
* Prepared legs: each call goes out once, whoever retries; a result that calls an
  order over stays true; recorded fills are never forgotten; a leg without a result
  keeps the gate shut or the lease with its run.
* Operator trade: no order is sent twice or beside another of its symbol; a source
  is released only when its order is over, and in the end it is.
* Evidence: what a bundle calls complete is true of its cutoff.
* Risk: the reported gross is the worst that can come; an approved plan fits to its
  last leg. Preparation: an approval is exactly one consent to a plan made of a
  target that was read whole.
* History: nothing is called traversed that is not stored; an accepted proof is of
  a true account.
* Keychain: a command leaves one whole set or says that it did not. Database: its
  rows are of its own environment; an upgrade is whole or nothing.

## 2. Modules

| Module | Stands for | State and actions |
|---|---|---|
| `ExposureGate` | what the journal promises, abstractly | `gate` and the `fate` of each intent; `Admit` `Settle` `Doubt` `Shut` `Reopen` |
| `ExecutionJournal` | the journal | one variable per table, the facts it consults (`evidenced`, `disputed`), two history variables (`grants`, `admitted`); one action per store operation, plus one per way an operation commits a conflict |
| `AccountingStore` | the accounting store, extends the journal | `fact`, `conflicts`, `checkpoint`, two history variables |
| `DemoEntry` | starts of the Demo entry with their recovery, over the journal and one exchange account | `start` (a program counter and memory per start), `venue` (each order at the exchange), `levered`, the history variable `mistaken` |
| `PreparedLegStore` | the prepared-leg store, extends the journal | one variable per table, by leg; one operator per transaction |
| `PreparedGrid` | grid creation and sweep, single-leg creation, recovery and cancel, over the store and one exchange | `proc` (a program counter and memory per process), `order`, two history variables |
| `OperatorStore` | the operator store | `source` (a plan's rows), receipts, grants, HALT's origins; one operator per transaction |
| `OperatorTrade` | commands, approved plans, status runs, attestations and recoveries over it and one exchange | `run`, `venue`, the status run at work, the evidence each process holds, the history variable `mistaken` |
| `StatusRead` | one status observation, read by read, of an order that moves | what each lookup showed, the verdict |
| `HistorySync` | history runs: selection, windows, pages, checkpoints, report | `sync` per run, `saved` windows, records offered and stored |
| `AccountEvidence`, `MarketEvidence`, `LiquidationEvidence` | the three collections, request by request, against an account, a market and a provider that go on | what was read, what is true, how the bundle ends |
| `AccountingEpoch` | wallet captures, imports, the report between two anchors under both policies, its storage and its proof | `wallet`, `books`, `instant`, `outcome` |
| `OperatorEvidence` | the evidence of an operator's order from its first read to the request, and the age of each fact | moments, routes, what was refreshed |
| `PortfolioRisk` | the preflight of a plan and the check of each leg, against the orders and positions of the account | `holding`, `review`, the owner's orders |
| `CredentialStore` | the commands over the three Keychain records, every one of which may fail, and the agent session they take credentials from | `keychain`, `command`, `session` |
| `DatabaseOpening` | opening, place, identity, ladder of fifteen migrations, rows | `file`, `place`, `opener`, `writer`, `kept` |
| `PreparedReview` | a run of the daily preparation, the state of its plan, and the approve command | `preparation`, `plans`, `consent`, `approvals` |
| `MC*` | TLC instances: symmetry sets, mappings, families and bounds; `MCRecords` hosts the eleven modules from `StatusRead` on | |
| `ExecutionJournalProofs`, `AccountingProofs`, `DemoEntryProofs`, `PreparedGridProofs`, `GridResultProofs`, `OperatorTradeProofs`, `LocalStoreProofs`, `EvidenceProofs` | proofs (section 4) | |

`AccountingStore`, `DemoEntry` and `PreparedLegStore` all use the actions of
`ExecutionJournal` itself, so the composition is the code's own: a store call in a
use case is the journal's action with the caller's authority as its argument.

Choices that matter everywhere:

* A store operation is one action, because `runInTransaction` runs it in one
  `BEGIN IMMEDIATE` transaction. An await on the exchange is a step of its own, and
  a process may crash between any two. Operations that are refused without a write
  are stuttering steps, and appear as branches of the callers that stop on them.
* Where only an expiry matters there is no clock: an expiry is an event that may
  happen at any moment and never reverts, which covers every relation between
  clocks and timeouts. Where ages are compared (`OperatorEvidence`, `MarketEvidence`,
  `AccountingEpoch`, `PreparedReview`) there is one, in whole ticks.
* An authority is named by the grant it came from; `Authoritative(g)` compares run
  id and epoch with the lease row, as the code does, so a reused epoch is visible.
* Identifiers, decimals, canonical JSON and hashes are model values: equal values
  stand for equal bytes.
* The exchange may do anything an order can do. "Not found" and "unreadable" are
  always possible answers; evidence that may be refused for reasons outside the
  model is an alternative that is always there, and evidence that is accepted is
  constrained by what the code compares.

What is particular to a module:

* `DemoEntry`: for the approval of a review, time runs from the moment it is shown
  until the order is sent, which is when anything reads it. `clearHaltIfSafe` notes the
  HALT revision, the number of lineages and the number of results, and `clearHalt`
  compares them; in these instances that comparison refuses nothing that the checks
  inside the transaction would let through (TLC finds the same states without it), so no
  property is claimed of it.
* `DemoEntry`, `OperatorTrade`: an order the exchange took may be acknowledged under
  another `orderLinkId` (`misnamed` in `Answers`). `mapOrderAcknowledgement` makes a
  precondition error of that, and both callers count a precondition as a known
  rejection (`KnownRejected`, `Classified`): the Demo entry records `FAILED` and gives up
  its lease, the operator trade records `rejected` and its source stops blocking, while
  the order may be live (section 5). `mistaken` holds the orders this happened to. From
  then on the journal is wrong of them, so the properties of exposure are stated of the
  others (`Understood`), *beside* any number of mistaken ones and whatever the code does
  because of them. `NeverResent` and `OneUnknownOutcome` need no exception.
* `PreparedGrid`: `Goto(p, step)` is the return or the next statement; `Fail`,
  `FailReconciling` and `Continue` are the ways an operation on one leg ends, with
  the lease released only where the code releases it. `PROTECTED` stands for
  `PROTECTION_CONFIRMED` and `VERIFIED_CLOSED`, which no later decision tells apart.
  `Fill` takes any amount. Siblings of a sweep are judged by their results in the
  journal; the code uses its own report, which is worse when a recovery just failed,
  and that doubt is one `Observe` may cast in any case. A cancel of a leg that is filled
  in part first appends a fresh `PROTECTED` of what it has just read (`Vouching`), and
  asks for the cancel after that. Nothing under `src/` lifts a
  takeover's demand in the Mainnet scope, so a lease that was taken over serves
  reconciliation only.
* `OperatorTrade`: an ambiguous request may still arrive. The evidence of a command
  has a time, the exchange's; the evidence of an approved plan is looked at again
  before the request.
* `AccountEvidence`: an order placed and cancelled between the two passes is invisible
  to both; coins the catalogue no longer lists are not covered. `MarketEvidence`: the
  exchange publishes on time, its time servers may lag a tick; open interest is read
  once and not checked at its end, which `tests/market-evidence-collection.test.ts:304`
  accepts. When the second time cannot be read, the bundle made with the first one is
  refused for its newer instrument (`domain/market/market-evidence-bundle.ts:702`),
  although the code and its test mean it to be an incomplete bundle; the model ends in
  "failed". `LiquidationEvidence`: the provider has published an hour once it is over.
* `HistorySync`: a run's queue is the set of windows it has still to read; `Before`
  orders them as the code sorts them, and any of the `Heads` may be next where the sort
  leaves a tie. `taken` is the window whose page is on the way. A window a run died in
  stays "paging", which the report does not count as pending
  (`application/history-ingestion.ts:1234`), and a record that arrives late at the last
  moment of a window is not looked for again when another window begins right behind it,
  since the report takes the two for joined. `CompleteIsTrue` says what a report of
  COMPLETE is worth: it leaves such moments, and the streams with a paging window, out,
  so the report over a paging stream is a hazard without a property. No reader produces `HISTORY_EXPIRED`.
* `AccountingEpoch`: two events of one instant do not race; what is imported had been
  published; the authentication of anchors and the freshness options of a proof are
  left out. The time of a closed profit is that of the closing fill. A selected
  transaction in a coin the account does not include blocks the report, accounted for
  or not (`application/history-accounting-epoch.ts:1152`).
* `OperatorEvidence`: a bad answer refuses, so data is abstracted to its age; the checks
  made early are subsumed by the ones made again later. The age of the account on the
  full route counts from its collection's end. The target state is not among the ages
  checked again after admission; it is bounded by the two others.
* `PortfolioRisk`: prices are one, positions one-way, evidence is the account at the
  moment it is gathered; one thing is wrong with an account at a time. A grid passes
  no supplemental evidence (`application/mainnet-prepared-leg-boundary.ts:2480`), so a
  plan approved on it is blocked leg by leg, which is safe.
* `CredentialStore`: a Keychain command succeeds, fails without effect, fails with
  effect, or exits zero with something else stored
  (`tests/macos-keychain.test.ts:499`, `:1394`, `:1424`), and has no effect after it
  ended. Reads never lie. Commands come one after another: the code has no lock, and
  two saves at once could leave a mixed set with both reporting success, which the
  exchange would refuse.
* `DatabaseOpening`: processes of two releases never have the file open at a time
  (`docs/operator-runbook.md` says to stop the application before an upgrade). `Stop`
  covers every error, a busy file, a crash and a close. Older releases are the same
  code with a shorter ladder. Without that assumption, a process of a newer release
  that looked at the identity before there was one could climb the ladder of a file
  that had become another environment's, before it is refused. The joins by which
  migration 4 finds the owner of an artifact come down to the scope of the row that names
  it, so what the model tells of an owner is whether it was found.
* `PreparedReview`: the market, liquidation and planning stages come down to how they
  end; a plan stands for its content hash. Like `AccountEvidence`, it shows that a
  reading can miss what went away while it lasted: a position that is closed, or an
  order that is filled, between the two reads of pass B. `lasting` is what was there at
  the cutoff and still there at the end of the reading, and of that nothing is missed.
  A plan may be stored although the run reports a failure, when closing the store
  fails. How long an approval lasts is checked by the prepared-leg boundary.

## 3. Runs

| Run | Instance | Shows |
|---|---|---|
| `journal` | 2 runs, 2 intents, 2 attempts, 2 exchange orders, in two families: one order, up to 4 grants and HALT revisions in all (a takeover with HALT up, down and up around it); or one run with one grant, two attempts and two orders | `OpenGateSettled`, `NoForgottenIntent`, `OpenGateUndisputed`, `OneOrderStory`, and the refinement `ImplementsGate` |
| `demo_entry` | 2 starts with run ids of their own, up to 3 grants, 3 HALT revisions, 4 together: both reviewed at 1x, or one of them from its input with the leverage to set | `SingleExposure`, `OpenGateNoStrayOrder`, `FailedIsFinal`, `FreeLeaseSettled`, with any of the answers misnamed |
| `demo_entry_rerun` | two starts of one input | refutes `SingleExposure` (section 5) |
| `own_runs` | 2 grants, 3 HALT revisions, in three families: 2 runs and a grid of 2 legs filled whole; 2 runs and one leg filled in two parts, with recovery and cancel; 2 processes that share a run id, and so a lease, and one leg | `OverMeansOver`, `NoForgottenLeg`, `OneCallEach` in all; `DoubtKeepsOwnLease` and `FillsStayKnownToOwn` where run ids are not shared |
| `leg_takeover` | 2 runs, 1 leg | refutes `RecoveryRestoresAttempt` (section 5) |
| `accounting` | 3 events in 3 versions without a checkpoint, 5 HALT revisions (two corrections need two more events); or 2 events in 2 versions beside a checkpoint of 2 revisions, 2 writers | `NoVersionLost`, `CoveredFactsStored`, and the refinement `ImplementsJournal` |
| `operator_trade` | pairs of processes, each with status runs between any two steps: two commands in two symbols; an approved plan executed twice under a HALT of someone else; a command and its recovery; a command and an approved plan | `NeverResent`, `OneExposurePerSymbol`, `OneUnknownOutcome`, `EvidenceInOrder`, `ReleasedMeansOver`, `RecoveryAfterExposure` |
| `operator_release` | a command and the recovery of its source | `OverIsReleased`, under fairness |
| `operator_recovery_race` | a source to recover, a command of another symbol, the recovery | refutes `ApprovalStandsAlone` |
| `operator_capacity` | two commands in two symbols, side by side | refutes `CapacityProven` |
| `records` | one instance of each of the modules `MCRecords` hosts; a behaviour is about one of them (below) | the sixteen properties of these modules |
| `report_conflict` | two anchors, an order with fills before and in the epoch | refutes `ReconciledAgain` |

The larger instances have 1,292,919 (`demo_entry`), 2,456,542 (`own_runs`), 2,333,897
(`operator_trade`) and 258,478 (`operator_release`) distinct states.

Journal instances need two of everything that can be confused, and a third grant
only where a yielded lease is taken again. The instances of `records`:

* `StatusRead`: an order of two contracts, every interleaving of its life with the reads.
* `HistorySync` (`HistoryBound`): two runs over one source that begin at moment 2 and
  end by 4, windows of two moments, replays that overlap and one that begins right behind
  another; at most two runs or windows in trouble at a time, three revisions of a window,
  one record that is restated while at most one run is at work. Two runs give the resumed
  window, the window written beside, and the replay.
* `AccountEvidence` (`AccountBound`): a listed coin and one that enters the catalogue;
  an order and a position of each, four changes in all.
* `MarketEvidence` (`MarketBound`): two bar lengths, a funding and an interest interval,
  four ticks: each interval ends at a different moment of the reading.
* `LiquidationEvidence`: three contracts in batches of two under a quota of three calls
  and two waits: a batch that is whole, one that is cut, one that is not asked for.
* `AccountingEpoch` (`EpochBound`): transfers that cancel out, an order in two fills, a
  coin that is left out; two anchors, two imports, one restated row, one report. The
  pairs of `Together` are what one behaviour may move, each for the check it exercises.
* `OperatorEvidence`: limits of 2, 1 and 3 moments in a time of 4, so that each age can
  be the first to run out.
* `PortfolioRisk` (`RiskBound`): two legs of sizes 1 and 2, a reduction by half, three
  markets, accounts with one thing out of the ordinary, owner's orders of every kind.
* `CredentialStore` (`CredentialBound`): one command on each Keychain an interrupted one
  leaves, up to three failures among its Keychain commands: the write that fails, its
  rollback, and one more.
* `DatabaseOpening` (`DatabaseBound`): a process of release 3 (before artifacts had
  scopes) and two of release 15, two at work at a time, two rows, two environments, one
  account in each: that no row goes to another account is shown by the theorems, for any
  accounts, as far as the model resolves owners (section 2).
  Without the bound on processes, TLC finds the same over 3.0 million states.
* `PreparedReview` (`ReviewBound`): two runs, the second perhaps under replaced keys, one
  approve command, clocks that differ by a tick. Trades happen while the account is read.

Deadlock is not checked, because a process that is done stays done, a command that
ended is not begun again, and the counters that keep the instances finite run out.

### Fairness

`OverIsReleased` says that a source whose order is over is released. The code
schedules no status run; an operator asks (`docs/operator-runbook.md`). `Fairness`
in `OperatorTrade` therefore assumes of the sources in `Asked` only that the operator
asks again and again, in the end declares what was closed by hand, that a lookup is
not answered by a failed read every time, and that a run which was answered is not
killed every time. Each may fail any finite number of times, or infinitely often in
between, so it is strong fairness, and of three steps: `BeginStatus`, `SeeOrder` (a
read that shows the order as it is) and `AppendVerdict` of the verdict of such a
read. Nothing is assumed of commands or recoveries. All other properties are safety
properties and need none.

## 4. Proofs

All theorems hold for any sets of runs, plans, intents, attempts, orders, starts,
processes, legs, scopes, environments, coins, contracts, streams, markets, accounts and
credentials, any bounds, and any assignment of plans to intents. They assume the named
assumptions on the constants (mappings are functions into their sets, `None` and `Unset`
are no members of data sets, bounds are naturals, lengths and sizes are positive, what
`Accounts`, `OwnersOrders` and `FoundRecords` may hold is of its type) and the hypotheses
stated with each. Four assumptions say more: a quote may be no older than the
other evidence (`EvidenceAges`, as the code's limits are), the clocks differ by no more than
the time the instance has (`ReviewTimes`), part of a reserve is left to trade with
(`RiskAssumption`), and the first history run begins within the time the instance has
(`HistoryAssumption`). The bounds of the `MC*` modules are in no theorem.

**Journal** (`ExecutionJournalProofs`): `TypeCorrect`, `ResultsFollow`,
`BindingsAreUnique`, `OrdersTellOneStory`, `TakeoversAreFenced`, and with `OneScope`
`OpenGateIsSettled`, `NothingForgotten`, `OpenGateIsUndisputed`. The order story needs
that attempts and bindings are never overwritten and that an attempt names its
intent's own client order id. The open gate needs, besides `OpenGateSettled` itself,
that a result exists only for an intent that was admitted, because the clearance
inspects admitted intents only. `NothingForgotten` further needs that a takeover
shuts the gate and demands reconciliation, and that an intent admitted later records
the grants before it. `OneScope` because HALT belongs to the account while `clearHalt`
inspects the caller's scope; one scope is what the trader supports.

**Refinement** (`ExecutionJournalProofs`): `JournalImplementsGate`. Each journal action
maps to one gate action or a stutter under `GateState` and `Fates`; the invariants
above supply the guards of `Reopen` and `Settle`.

**Accounting** (`AccountingProofs`): `AccountingImplementsJournal` maps every delivery to
a conflicting fact, a correction or a stutter of the journal, so the journal's
theorems carry over to the store with real facts; `NoVersionIsLost` follows from them
and from an invariant that says of every delivered version that it is stored or
recorded in a conflict. `CoverageIsStored`: a checkpoint is moved by the transaction
that finds the facts it names, and a stored fact is never taken out again.

**Demo entry** (`DemoEntryProofs`): `StartsUseTheJournal`, `ExposureIsSingle`,
`NoStrayOrder`, `FailureIsFinal`, `FreeLeaseIsSettled`, for any number of starts. The
first says that every step of a start is a step of the journal or leaves it alone, so
that the journal's invariants may be used. The rest is one invariant. Only the start
that took the lease last can write; what it found when it was admitted therefore
stays as it was while it holds; an intent that is not settled keeps HALT up from the
next lease on, or keeps the lease from being free, so nobody is admitted beside it;
and a final result is the truth about its order, or the order is a mistaken one, so a
settled intent of the others cannot come back to life. A mistaken order may, without
harm to the argument: nothing a start does depends on an order whose intent is settled,
and whether an intent is settled is all the invariant asks of the journal. Most of a start's steps are `Silent` (they write nothing and move one program
counter) or `Calm` (what they write concerns no order), which leaves the steps that
write to the journal or ask the exchange, each with a lemma of its own. Hypotheses: `OwnRuns`, that no two starts share a run id, which
excludes exactly what `demo_entry_rerun` shows to go wrong, and `OneScope`.

**Prepared legs, calls** (`PreparedGridProofs`): `GridTypeCorrect`, and
`OneCallForEachIntent` for any sharing of run ids. Most steps are *quiet*: they leave
calls and intents alone and take their process to a step outside `Committed`. The rest
needs `CallInv`: a call was sent only for an intent on record, whoever stands between
an intent and its call finds the call unsent, and no two processes stand there for one
leg. `OneCallEach` alone is not inductive, since nothing in it says that the process
about to call is the one that committed the intent; the transaction that finds no
source and leaves one is what does.

**Prepared legs, results** (`GridResultProofs`): `OverStaysOver` for any processes, since
it rests on the exchange alone: an order that ended never changes. `NoLegIsForgotten`
and `FillsAreRemembered` under `OwnRuns`, `DoubtIsNotReleased` under `OwnRuns` and
`WholeGrids`. These rest on the lease: only its holder can write, and with run ids of
their own the holder is one process. A pending leg then sits with the process that
committed its intent, or that process is dead and the lease is not free; a holder over
an unfilled order has no recorded fill; and a holder remembers every doubt of its
sweep until someone takes over. Both hypotheses are needed: processes that share a run
id, and operations on one leg of several, release the lease for each other. TLC checks
the same three properties in the families of `own_runs`, and `NoForgottenLeg` also
where a run id is shared by two processes over one leg, which the theorem leaves out.

**Operator trade** (`OperatorTradeProofs`), in three layers. `TradesAreTyped`,
`OrdersAreSentOnce`: a source belongs to the process whose run id it carries, and that
process passes the request once. `ReleasesAreTrue`, `HaltHoldsForDoubt`,
`RecoveriesFollowExposure`, `ForeignHaltIsNotLowered`: everything that releases a source
(a clean verdict, an attestation, a grant, a disposal) was written when the order had
ended, however old the reads behind it are, and an ended order stays ended. Here a
mistaken order counts as ended (`Ended`): the code lets go of its source as of one that
is over. It stays mistaken, and its attempt stays `rejected` (`MistakesRecorded`), so no
order of unknown fate is a mistaken one, which is why `HaltHoldsForDoubt` and
`OneDoubtAtATime` speak of all plans.
`OneOrderPerSymbol`, `OneDoubtAtATime`, `EvidenceFollows`, `ApprovalsStandAlone`: an order
that has not ended keeps its source pending, and a pending source keeps the gates of
the others shut. The third layer assumes `Unmixed`: typed commands run beside a plan
issued for an attestation only within one symbol; across symbols there is the race of
`operator_recovery_race`, which the hypothesis leaves out.

**Database** (`LocalStoreProofs`): `DatabaseIsTyped`, `RowsStayOwn`, `UpgradesAreWhole`
and the action property `OwnersUpgrade` (only a process of the file's environment moves
its schema; TLC checked it on the unbounded instance). Two things ever happen to the
file itself: its marker goes to the release of the processes that have it open, which
is one release, and its identity goes from none to one, after that. So a process whose
early look at the identity is stale finds the ladder climbed, and cannot climb it for
another environment. A draft in a transaction is the file some steps further up;
`SchemaClimbs` says that one step takes the schema of a version to that of the next,
including the ninth, which drops a column.

**Credentials** (`LocalStoreProofs`): `SetsAreWholeOrTold`, for any number of failing
Keychain calls. Of each stage of a command the invariant (`Sound`) says what the command
knows of the three records: that they are as it found them until it writes; that the
records before the one at hand are the new ones; that what it took a snapshot of is what
it would put back. `Honest` says of a command that ended that what it said is true. The
stages differ more than the records do, so the proof goes by stage.

**History** (`LocalStoreProofs`): `HistoryIsTyped`, `TraversedWindowsAreStored`, and the
action property `CompleteReportsAreTrue`. The invariant is `Behind`: whatever number
counts as a cursor, in a checkpoint or in the queue of a run, the pages behind it are
stored. Runs that know nothing of each other may overwrite each other's cursors, even
with smaller ones, because each of them has that property by itself. A report of COMPLETE
then rests on an argument over the windows of a stream: if one ends where no other goes
on, the report counts a gap. It is proved by taking the first moment that is not covered.

**Reports of an epoch** (`AccountingProofs`): `AcceptedReportsAreTrue` and
`ScopedReportsNameAll`. What an import has read to the end is in the journal and does not
change any more (`TraversalInv`), because an import ends before the present; the times of
a capture follow one another, so nothing moves between a reading and its boundary that the
report would not call ambiguous. A scoped report is a function of what it names
(`ScopedContent`), so two reports of one id are one.

**A status observation** (`EvidenceProofs`): `VerdictsHoldUp`. Each lookup bounds what the
order may have become since (`Onwards`: an order that ended stays as it is, a position
that is closed stays closed), and `Released` says what a verdict was concluded from.

**Evidence of the account** (`EvidenceProofs`): `EvidenceIsTrue`. What pass A showed and
was not there at the cutoff is gone for good, so pass B cannot show it (`PassesEnclose`),
and what is there at the cutoff and still there is read by pass B or still to be read
(`PassBCovers`); equal passes are therefore the state at the cutoff.

**Evidence of the market** (`EvidenceProofs`): `CompleteMarketsAreWhole`. Each series was
read after the time it is compared with, and no interval of it ended between that time and
the cutoff (`HoldsUp`). This is arithmetic on intervals, for every length of bar: what
`clock \div length` is at two times decides whether a boundary lies between them.

**Evidence of the liquidations** (`EvidenceProofs`): `ZerosAreProven`, for any batches and
quota: of a contract that has been asked for, every liquidation of the window is in the
rows, and no contract is left when a sweep ends whole.

**Evidence of an order** (`EvidenceProofs`): `OrdersLeaveFresh`, on all routes. What is
read has a time of its own that is not later than its answer; whoever hands the evidence
on has a quote hardly younger than the state of the symbol. The rest is arithmetic on
ages, from the reference each check takes to the moment of the request.

**The plan against the account** (`EvidenceProofs`): `ReportedGrossIsTheWorst` and
`PassedLegsFit`, for any account, markets, orders, legs and reserve. Both rest on one
quantity, the exposure: what is held plus what the orders that may increase it have
left. A fill never raises it, whichever orders it turns against each other; a leg that is
placed raises it by its size, which is what was requested for it. So the report covers
the exposure and the legs still to come (`ReportCovers`), and the plan goes on fitting
with the legs placed counted once (`PlanFits`); that one leg fits alone when the whole
does is `LegOfWhole`, where the reserve is kept of what the rest leaves. A sum over a set
is `TotalOf`, and `TotalSplit` says that any element may be the first that is added.

**The review** (`EvidenceProofs`): `ConsentsAreExact`. What lasts from the cutoff is still
there while the account is read, so what pass B shows empty has nothing that lasts
(`EmptyMeansGone`); a stored plan that may be approved has missed nothing, and a plan is
stored once under its id.

Sums and coverage are proved although they are inductions: not with the library's
induction theorems, which take an operator, but by the least counterexample
(`LeastOfNat`, `LeastNatural`, from the well-foundedness of the naturals), which needs
a set only. The existence of the recursive function of a sum is proved the same way
(`TotalUpToExists`).

Four attempts changed what they were about, each with TLC's counterexample or the code at
hand. `CompleteIsTrue` was false of replays one of which begins right behind another,
which the instance did not have; it is now stated with that seam, and the instance has
it. `AcceptedIsTrue` needs that a selected transaction in another coin blocks the report;
the code has that check and the model did not. The order in which a run works through its
windows was a function of a sort that leaves ties; it is a relation now. And a plan whose
legs ask for nothing is refused by the code (`portfolio-risk-capacity.ts:184`); the model
assumes it of `LegSizes`.

**What stays with TLC.** `OverIsReleased`, because liveness under fairness and `ENABLED`
are out of the prover's reach. `DoubtKeepsOwnLease` and `FillsStayKnownToOwn`, which are
`DoubtKeepsLease` and `FillsStayKnown` where run ids are not shared: the theorems state
those under `OwnRuns`. `RecordsTypeOK`, the conjunction of the type invariants of the
parts: each part's has a theorem or is a conjunct of an invariant proved, but for the
quota of the liquidation collection (its charges are bounded by a sum over the sequence
of charges) and `EpochTypeOK` (the balance of an anchor is a sum over, and the fills of a
closed profit are the cardinality of, sets that nothing says are finite). The five refuted
properties have no theorems; `OneExposurePerSymbol`, `OneUnknownOutcome` and
`EvidenceInOrder` have them under `Unmixed`.

## 5. What the runs refute

* **A fenced start sends its order** (`demo_entry_rerun`). `releaseLease` deletes the
  lease row and the next `acquireLease` starts again at epoch 1, so a grant that was
  taken over is authoritative again once its run id holds a lease of that epoch.
  The run id is a digest of the input (`runIdForInput`), so starting the same input
  twice is enough: two orders that may add exposure exist at once.
  `docs/architecture/system-design.md:336` says the epoch fences them.
* **A takeover cannot restore an attempt** (`leg_takeover`). A test is titled
  "recovery creates one deterministic attempt identity after
  dispatch-before-attempt interruption"
  (`tests/application-mainnet-prepared-leg.test.ts:2270`). It does while the old
  lease lasts. `appendPreparedLegAttempt` refuses an attempt whose intent has
  another lease epoch, so a recovery that had to take the lease over finds the
  filled order, cannot record the attempt and leaves the leg `PROTECTION_PENDING`,
  and so does every later recovery.
* **A recovering order leaves beside a live one** (`operator_recovery_race`).
  `prepareCreateIntent` compares only the first pending source with the source of the
  recovery grant (`operator-mainnet-test-store.ts:3260`), so a command of another symbol
  that created its source after the grant was found is not seen.
  `docs/operator-runbook.md:356` says the account-wide gate is kept.
* **The second order rests on an old balance** (`operator_capacity`). The time of an
  attempt leaves out what passes between its target state and its admission
  (`mainnet-operator-test.ts:810`), so evidence read before the first order was accepted
  passes for newer. `docs/operator-runbook.md:351` asks for strictly newer evidence.
* **A report cannot be made again** (`report_conflict`). The id of a v1 report names the
  transactions and closed profits of the epoch and not the executions that decide on
  it (`history-accounting-report.ts:562`); an import that makes the report ready leaves
  its id as it was, and storing it is a conflict for good. `docs/operator-runbook.md:1261`
  says to run reconciliation again.

Read beside these, without a run of their own.

*An accepted order is called rejected.* A create that the exchange answers with success
and another `orderLinkId` ends in `mapOrderAcknowledgement` as a precondition error
(`adapters/bybit-v5/order-mappers.ts:263`), normalised with the retry "reconcile"
(`adapters/bybit-v5/error-mapping.ts:179`) and asserted as such by
`tests/bybit-v5-execution-adapter.test.ts:884`. The Demo entry counts every precondition
error as a known rejection (`application/demo-entry-use-case.ts:802`), records `FAILED`
and releases its lease; the operator trade records `rejected`
(`application/mainnet-operator-test.ts:421`), and its own check of the name, which would
call the attempt ambiguous (`:408`), is never reached; the prepared legs take the same
answer for ambiguous (`application/mainnet-prepared-leg-boundary.ts:2654`).
`ports/exchange-execution.ts:155` says of an acknowledgement that "Callers must reconcile
it using the original identities", and `docs/product-principles.md:213` that "An
ambiguous write outcome is investigated by client and exchange order identifiers before
any repeat". The models follow the code; without the exception for mistaken orders
`FailedIsFinal`, `FreeLeaseSettled` and `ReleasedMeansOver` are false of the first such
answer, and `SingleExposure` and `OneExposurePerSymbol` of the order after it.

*Smaller ones.* The failure table of
`docs/operator-runbook.md:862` and `ports/persistence.ts:623` let a run whose lease was
lost append reconciliation, where the store asks for the current authority
(`execution-store.ts:2057`). And the preparation of an operator's plan gives the
candidate the time of its quote (`mainnet-operator-test-preparation-composition.ts:697`),
while the plan refuses a collection that ended later than it was prepared
(`operator-mainnet-test-plan.ts:439`), as
`docs/engineering/provider-quote-bracket-preparation-time.md:13` explains; with clocks
that move, such a preparation ends as stale, which is safe.

## 6. Limits

* One scope: see `OneScope` in section 4. The journal is modelled with any number.
* Mistaken orders (section 5): nothing is shown of the exposure of an order whose
  acknowledgement named another `orderLinkId`, in the Demo entry and the operator trade.
* Two processes that share a run id share its lease. No call goes out twice and
  final results stay true; fills may be forgotten and a doubt released, because a
  process with an older observation may append its result last, and a recovery of one
  may release the lease another still works under.
* "Stops on a non-open, filled, ambiguous or otherwise unproven result"
  (`docs/operator-runbook.md:138`) is in the model as `GoesOn`, `PrefixConfirmed` and
  `TargetClean`, any of which suffices between runs with ids of their own; it is not
  stated as a property, because no single change of the code breaks it there.
* Recovery of the Demo entry gives up for good in some cases by design (an ambiguous
  create is never retried), so no liveness is stated of it.
* Modelled in part: `DemoEntry` and `PreparedGrid` take the answers of the exchange
  adapter as inputs; `StatusRead` reads them request by request. Which observation
  belongs to which of our sources, and the money components of a report's
  performance projection, are left out, as are hedge positions and take-profit
  children in `PortfolioRisk`.
* Not modelled: the plan lifecycle (a pure state machine nothing outside the domain
  calls), accounting ingestion (it turns exchange facts into the deliveries of
  `AccountingStore`), plan computation, decision and quality policies, analytics,
  decimals, canonical encoding, command-line parsing apart from the daily command,
  file and network I/O, report layouts; see `PROJECT.json`.

## 7. Plan

Done: the journal with its abstract gate, the accounting store, the Demo entry, the
prepared legs, the operator trade, the evidence collections, history, risk, credentials,
the database and the daily review, with proofs of each. Left:

1. `PlanLifecycle`: the pure lifecycle as a state machine, and accounting ingestion
   over `AccountingStore`, when something calls the former.
2. `OperatorTrade` without `Unmixed`, should the recovery grant be compared with every
   pending source; `ApprovalStandsAlone` would then hold of all symbols.
3. `CredentialStore` with two commands at a time, should the code get a lock.

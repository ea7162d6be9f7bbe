# PNLX: verification project

TLA+ models of the PNLX protocol (a private perpetuals exchange on Soroban), the
TLC runs that check them and the theorems TLAPS proves about them.

Contents: 1 the system, 2 the modules, 3 how the code is read, 4 the runs,
5 bounds, 6 fairness and deadlock, 7 the proofs, 8 where code and documents
disagree, 9 what was noticed beside, 10 what is not modelled, 11 what could
follow.

## 1. The system

PNLX keeps orders and positions private. Traders' notes, intents and positions
are commitments; Noir circuits and a RISC Zero guest prove that a hidden batch,
close, liquidation or withdrawal is right; contracts act on proofs that a ledger
recorded. A server holds the order book, makes the batches, has them proved and
relays them. The browser holds the openings of its notes and positions.

| part | state | operations | talks to |
| --- | --- | --- | --- |
| `governance` | pause switch; per circuit an approved hash and a recording contract | set_paused, set_verifier | asked by everyone |
| `proof-verifier`, `risc0-proof-verifier` | key or image, hash recorded under | verify_and_record, rotate_vk, set_image_id | governance, ledger |
| `proof-ledger` | recorded (circuit, hash, digest, inputs) | record, has_proof | governance |
| `intent-registry` | intents, Cancelled flags, submission sequences | submit, cancel (operator); consume, rollover (settler) | batch-settlement |
| `shielded-pool` | commitments, nullifiers, withdrawals, token balance, fee reserve | deposits, withdrawals, accrue and distribute fees | governance, ledger, token |
| `position-state` | frontier of the tree of position commitments, roots, spent nullifiers | append_many, spend_position (writers), reset | writers |
| `batch-settlement` | settled batches, residual margins, claims | settle, claim_residual | all of the above, market |
| `liquidity-vault` | series of shares, balances, pending withdrawals | deposit, withdraw, request, claim, allocate, settle, record_loss | token |
| `position-close`, `liquidation`, `conditional-order` | closed and liquidated positions, triggers | settle, settle_pair, liquidate, register, trigger | position-state, market, ledger |
| `funding-settlement`, `market`, `price-oracle` | funding index, market configuration, price records and rounds | settle, advance_funding, mark_price, submit_price | ledger, oracle |
| batch executor, relayer, protocol store | orders and their lifecycle, local tree, cooldowns | run a market: match, prove, relay, commit; cancel, replace | matcher, chain |
| matcher and matcher jobs | jobs in a shared collection, a proof directory per batch | queue, claim, match, prove, retry, answer | store, prover |
| persistence | memory, snapshots under an id, one checkpoint; or a file | save, flush, prune, start | MongoDB |
| maker liquidity, vault manager | vault notes, allocations, a lease | answer orders, fund, drain, settle, reconcile | vault, batches, closes |
| funding engine, market records | records with a funding index, premium samples | sample, settle, refresh, list, edit | market, funding-settlement |
| prices | price cache, one upstream, event streams, polled marks, candles | join, leave, reconnect, poll | Hermes, Hyperliquid, market contract |
| prover | a directory per request, the registry of artifacts | check, build, register, upload, relay | nargo, bb, verifiers |
| browser | openings and status of notes, tasks, account key, chart | deposit, order, cancel, claim, withdraw, close, recover | server |
| scripts | registry and partial records | deploy, finalize, add a vault | network |

What is hard here: contract calls of different users interleave transaction by
transaction; each transaction is all or nothing, but a business operation (a
batch, a residual's refund, a vault allocation) is several of them; old proofs
stay in the ledger; commitments replace one another (residuals) and carry rights
with them (a place in the queue, a margin); the vault's arithmetic rounds at
every step and keeps totals as numbers of their own; the same rule is written
twice or three times, in TypeScript, Noir and Rust; the server awaits the chain
and the prover between reading and acting, and may crash at any await; a relay
can land though its answer was lost; the browser's storage can be wiped.

`PROJECT.json` lists every component, modelled or not, and under `hazards` the
places where these difficulties bite, with the properties that would catch each.

## 2. Modules

Contracts:

| module | models | builds on |
| --- | --- | --- |
| `ProofGate` | governance, verifiers, ledger; the acceptance rule all consumers share (`ProofAccepted`) | |
| `IntentRegistry` | intent-registry | |
| `ShieldedPool` | shielded-pool, one token | `ProofGate` |
| `PositionState` | position-state; the tree is the sequence of its leaves | `ProofGate` |
| `MerkleFrontier` | what `PositionState` takes for granted: the contract's frontier, the server's field tree and its proofs, the tree of margin notes and the circuits' walk up a proof mean one tree | |
| `BatchSettlement` | batch-settlement with the three contracts it drives; its properties and the mapping to `IntentLineage` | the first four |
| `IntentLineage` | abstract: what an order is promised | |
| `LiquidityVault` | liquidity-vault | |
| `Market` | market and funding-settlement; the price a market reads is the environment | `ProofGate` |
| `PositionLifecycle` | position-close, liquidation, conditional-order with position-state and the markets; their properties and the mapping to `PositionBook` | `PositionState`, `Market` |
| `PositionBook` | abstract: positions open, and under each nullifier one of them ends, once | |
| `PriceOracle` | price-oracle for one asset, and how a market reads it | |

Server, browser, scripts:

| module | models | builds on |
| --- | --- | --- |
| `BatchMatcher` | the matching of a book: priority, margins, fees, residuals, limits; a reference definition of a fair match | |
| `MatcherJobs` | matcher processes, jobs, the executor's polling | `BatchMatcher` |
| `OrderSizing` | from the ticket's margin and leverage to orders, the server's check and the fills | `BatchMatcher` |
| `BatchPipeline` | the server's records, what a settlement makes of them, and a market's run with its awaits beside submissions, cancellations and replacements; relays, crashes, restarts, cooldowns | `BatchMatcher` |
| `ProtocolSnapshots` | saves, checkpoints, pruning, starts of an old and a new process; MongoDB and file | |
| `MakerOrders`, `VaultManager` | vault notes and allocations, the server's maker orders and paired closes; the manager's pass over the vault contract (`Vault == INSTANCE LiquidityVault`) | `BatchMatcher`, the one before |
| `FundingEngine` | sampling, settlement with lost and late answers, market records and their refresh | `Market` |
| `PositionEnds` | the rules of TypeScript and circuits for a close, a liquidation and a conditional order, with a mark that moves while a proof is made | |
| `ProofRequests` | what the prover checks of the other requests beside what their circuits assert | |
| `ProofArtifacts` | the directories builds share, uploads, records and their relay | |
| `PrivateBalance` | an account's notes in browser, backup, server and pool, and its client tasks | |
| `AccountKeys` | the account's encryption key over browsers and tabs, recovery of openings | |
| `PriceFeeds`, `MarkStream`, `PriceChart` | live price streams; the marks of the contract; the chart and the candles behind it | |
| `VaultHistory` | the scan of the ledger for the vault's transfers | |
| `Deployment` | deployment, finalization, adding a vault | |

Proofs: `FiniteSums` (sums over finite sets, and the two inductions they need),
`SettlementProofs` (the settlement contracts), `LifecycleProofs` (positions, funding, ends of positions), `VaultOracleProofs`
(vault, oracle, chart), `BalanceProofs` (private balance, funding engine),
`OperationProofs` (the vault's notes, the matcher's jobs, deployment, the sizing
of orders), `ServerProofs` (artifacts, price streams, marks, vault history, batch
executor, snapshots, requests to the prover, account keys).
Lemmas on the gate and the tree that the second and third share are in
`PositionState`.

Instances for TLC: `MCSettlement`, `MCAdministration`, `MCPositions`,
`MCFunding`, `MCBatches`, `MCMaker`, `MCServices`, each with a configuration of
its name, and `MCPipeline`, which `MCBatches` builds on. `MCTwoMarkets`,
`MCEarlyClaim`, `MCStaleIndex`, `MCInsolvent` and `MCSecondSecret` are further
configurations.

**Parts.** Several instances hold systems that share no state. A constant of the
behaviour, `part`, says which of them moves while the others rest in one initial
state, in which no fair action of theirs is enabled, so such a run is the sum of
runs and not their product.

The definitions whose names continue a definition's name with an underscore
(`SetLiquid_KeepsTotal`) are variants: what a plausible mistake in the code
would make of the definition after them. No specification uses them; each
property is known to fail when one of them takes the definition's place.

## 3. How the code is read

**A transaction is an action.** Soroban reverts everything when any call in a
transaction panics; so each entry point is one action whose guard is the
conjunction of every check on the way, in the code's order, and calls that
another contract makes in the middle of its own transaction
(`RecordNullifiers`, `AppendMany`, `FillIntents`, `AccrueFees`, ...) are
operators over single variables that the caller's action conjoins. A refused
call is a step not taken.

**An await ends an action.** On the server and in the browser what runs between
two awaits is one action; whatever was read before an await is kept in the
task's own state and used after it. A relay that is called synchronously blocks
the process and is one step with its answer, but the transaction may land
without the answer, or later. A crash forgets memory and keeps what had been
saved.

**Proofs are statements.** The contracts bind a proof to its arguments by the
hash of the public inputs. A statement is the record of those inputs, and a
constant `Provable` gives for each circuit the statements some proof exists
for. Of a close or a liquidation one more thing is taken from the circuits
(`Membership`): the position is a leaf under the root, and its nullifier is a hash
of its rho with some spend secret. The spend secret is a witness that the
commitment does not contain (position-close main.nr:107-120, liquidation-check
main.nr:73-86), so a position has several nullifiers, and positions that share a
rho have them in common. Nothing else is assumed of the circuits, so the
instances contain statements that no honest matcher would prove (residuals that
grow, a batch in the wrong order, two orders over one note) and the contracts'
own checks are what keeps the properties. What else the circuits assert is the
subject of `PositionEnds` and `ProofRequests`.

**Names.** Variables follow the storage keys (`poolBalance` for the token
balance of the pool, `payloadOf` and `cancelled` for the registry's entries).
An absent entry is a model value (`NoBatch`, `NoPayload`) or zero where the code
reads an absent entry as zero (`residualMargin`, `sequence`).

**History.** A few variables are not in the code, and no action reads them: `key`
in a ledger entry, the key or image that checked the proof; `conditional` in a
close's record, whether the entry point asked for a trigger; `reindexed` and
`adjusted`, the markets whose funding index an upsert replaced or an operator
moved; `charged`, the periods of settled funding; `round` and `basis` in a price
record; `mishaps`, how many calls failed, which only bounds and properties read;
`missed`, the transfers the scan lets go; `due` and `dueSince`, the newest tick not
overtaken when it came that a chart should have, and the newest since the last
request.

**Markets of positions.** No public input of a close, a liquidation or a trigger
names the market; it is an argument of the call, and the mark price is compared
with that market's. So the models let the caller choose it.

**Field elements.** The contracts reduce 32-byte arguments modulo the field when
they hash public inputs, and use them unreduced as storage keys. The models
assume the canonical form, which is what the circuits put out.

**Two closes in one transaction** are a sequence of two legs (`SettleCloses`):
the second may prove membership under the root that the first has just made.

**The vault.** Series 0 is not stored: its liquid assets are what the balance
holds beyond `otherLiquid`. The model keeps it that way, with all the kept
totals as variables, because their agreement with what they total is the
property.

**Commitments of residuals.** In the server modules an order commitment is a
sequence: the order a client named, followed by what each fill left
(`BatchPipeline`); a vault note is named by where it comes from (`MakerOrders`).

**Stores.** MongoDB is two collections with single-document writes; a save is
its insertions, the move of the checkpoint and the pruning, each a step.

**Two times the same rule.** `PositionEnds` and `ProofRequests` hold the rule as
TypeScript has it and as the circuit has it, with the rounding and the clamps of
each, and the properties compare them.

**Files.** bb writes its files in one step, and the same inputs make the same
bytes (`ProofArtifacts`); a torn file is not modelled.

## 4. Runs

TLC explores every reachable state of each instance. This section says what
each property claims and why the code could fail it; the hazards of
`PROJECT.json` name the properties that watch them.

`settlement` (MCSettlement), two parts. *contracts*: two batches, five commitments
each of which can be an order or the residual of another, two of them over the
same note, two note commitments, balances up to 2, three places in the queue.
Statements include complete and partial fills, a residual of a residual,
residuals that shrink, stay and grow, one residual for two orders, fills in the
wrong order; a tree that is new or has to be migrated first. *sizing*: every
ticket of margins 10 to 44 and leverages up to one more than the market offers,
over wallets of one, two and three notes, up to two fills.

- `ResidualLedger`, `OrdersKeepTheirPromise`: claim_residual accepts any intent
  whose Cancelled flag is set, and fills set that flag too. The margin of an
  order is traded or paid back, once; seen through `IntentLineage` the contracts
  implement the life of an order.
- `ReceiptsHold`, `OnePlaceOneOrder`: notes, leaves and places are not used
  twice, whichever way settlements, withdrawals and rollovers interleave.
- `FeesAreKept`: the reserve is covered by the balance and equals what was
  accrued and not yet paid.
- `SizedOrdersTrade`: whatever the ticket computed, the server takes and no fill
  poisons the batch it is in.

`administration` (MCAdministration), three parts. *contracts*: one deposit and
one batch, and an administrator who rotates keys, images, hashes and recording
contracts, and grants and revokes writers at any moment. *account*: two units are deposited, orders of one and of two units are
placed, filled, cancelled, claimed and withdrawn, with two tasks at once, two
requests that fail, storage that is wiped and pages that reload. *oracle*:
three publishers, two rounds, two prices far apart and of different age, and a
committee whose rules and members change while rounds are open; publishers are
symmetric but for the administrator.

- `RotationRevokes` (for circuits all of whose verifiers are Noir). For the RISC
  Zero circuit `set_image_id` leaves the recorded hash alone
  (risc0-proof-verifier lib.rs:109), so proofs under a replaced image keep
  counting until governance approves another hash: `SetImageId` is modelled as
  it is, and the property does not claim otherwise.
- `ServerFollowsPool`, `MoneyStaysInReach`: deposit, residual claim and
  withdrawal are each a chain of client steps over four places; what the pool
  holds for the account can still be opened, and claims can be finished,
  wherever the chain broke.
- `MarkRestsOnFreshQuotes` joins oracle and market: a record carries the time of
  its oldest quote, so that the market's check of age is one of all the quotes.
  `RoundsDecide`: a price is the majority's of its own round, published once. A
  round with an outlier in it may never complete (its completing quote panics);
  that the publishers then go on with another round is outside the code.

`positions` (MCPositions), four parts. *contracts*: a batch opens a trader's and
a maker's position, another batch a third; closes proved against older and newer
roots, two rival closes under one nullifier, a liquidation of the same position
under another, a close of a close's successor, pairs, triggered pairs, a
liquidation that rivals the pairs, two markets, registrations for the right and
the wrong position and market, pauses and the migration of the tree. *ends*: one
position of every opening around the rounding and clamping points, five marks,
three funding indices, an order of either kind. *requests*: every request of the
prover over small amounts. *trees*: the position tree of eight leaves, with
appends of one to three, and a tree of four margin notes.

- `EndsInPlace`: position-close, liquidation and position-state have a record
  each, and none asks the others' before it writes its own; a nullifier ends one
  position, once. The index a record gives is where the successor is, with batches
  and second legs in between.
- `ConditionalClosesAsOrdered`: anyone may register, trigger and relay; a
  triggered close is of the position and market that was registered.
- `KeepsTheBook`: all of it implements `PositionBook`, whose ends are per nullifier
  too. That a *position* ends once is what `PositionEndsOnce` says, and it does not
  hold (section 8).
- `PositionsCanEnd`: close and liquidation are written by different hands, in
  TypeScript and in two circuits; a position that is owed no funding always
  meets the condition of one of them. `InsolventIsLiquidatable` (section 8) is
  the same question where it fails.
- `ClosedAtItsTrigger`: the price moves between trigger, proof and relay.
- `AcceptedIsProvable`: a request that passes the prover's checks fails in the
  circuit only for what those checks leave to it (`LeftToCircuit` names it).
- `TreesAgree`: every root the contract's frontier makes is the server's, and
  every membership proof leads to it.

`funding` (MCFunding), four parts. *engine*: one market, steps of the index in
-1..2, lost answers, late settlements, relistings, operators who advance or edit
by hand. *feeds*: two browsers and two markets under either provider. *marks*:
one market, two browsers, two overlapping polls. *chart*: four ticks in candles
of three.

- `FundingIsOneWalk`: the settled steps of a market are a walk from its first
  index to the one it has. A market whose index an `upsert` replaced is excepted:
  market lib.rs:58 writes the whole configuration.
- `PeriodsChargedOnce`: no stretch of time is charged twice, although an answer
  is lost and the settlement lands after the next one was priced.
- `StreamIsKept`, `MarksAgree`, `ChartKeepsUp`: no order of joins, leaves,
  closes, timers, answers and failures leaves a browser without its upstream,
  with another mark than the server's, or without a tick that was not overtaken
  when it came.

`batches` (MCBatches), two parts. *jobs*: books of two or three orders with
limits, sizes and margins around the rounding points, two matcher processes, a
crash and a failure, a view of the market that moves. *pipeline*: a market with
three client orders of which one replaces another and residuals arise; one lost
answer or crash at any await.

- `MatchIsFair`: greedy matching trades as much as any single price could, in
  priority, within limits, and conserves margin - against a reference definition.
- `ResultIsProved`: jobs of one batch share a directory, and a proof made of an
  older view of the market is found there.
- `PollsEnd` (liveness): a job that was posted is answered.
- `StoreFollowsChain`, `TreeIsPrefix`: memory and what was saved are never ahead
  of the chain, and the local tree is a beginning of the chain's.
- `SettledIsCommitted`: without failure nothing settled stays uncommitted,
  whatever clients do between the awaits of a run.
- `CrossedMarketsTrade` (liveness): cooldowns and failures do not keep a crossed
  market from trading for ever; excepted are a batch that settled and was never
  committed and an order that is open here and closed there, which the code
  leaves to an operator.

`maker` (MCMaker): a provider's capital of four of which half may be out, a
trader's order and the vault's answer, funding intervals, one failed call or
killed process at any await of server or manager.

- `ReservedOnce`: notes are reserved by compare-and-set while drains, releases
  of orphaned notes and withdrawals look at the same notes.
- `AllocationsAreAccounted`: open and closed allocations, notes and wallet sum
  up to the vault's principal.
- `RedemptionIsServed` (liveness): a provider who asks is paid once every trader
  has closed, unless something failed.

`services` (MCServices), six parts: the *vault* of two providers, series 0 to 2;
the *snapshots* of an old and a new server, an operation that throws half way,
deletions that fail; the *deployment* with failed and lost calls, its
finalization and two vault operators; the *keys* of two tabs in two browsers;
the *artifacts* of two statements that share a name, built by server and tool;
the *history* scanned by two processes, with pages of two transfers.

- `VaultIsSound`: every kept total is the sum it stands for, and no series holds
  assets that no share has a claim on. `SharePriceKept`: no step dilutes a share.
- `RestartFindsAll`: whenever a server starts it finds a whole checkpoint, with
  everything a flush had answered for.
- `DeployedIsWired`: the registry, or a record that finalize is done with, names
  contracts that are all initialised and wired.
- `OpeningsInReach`: the next load of a page at rest can read every open
  position.
- `AcceptedIsProved`: a record the chain accepts was verified with the files of
  the statement it makes, however builds overlapped.
- `HistoryIsKept`: the cursor passes no transfer that is not kept, but for three
  kinds the code lets go (section 9).

The five runs that end in a violation are in section 8.

## 5. Bounds

Counters and amounts are bounded in the guards by constants named `Max...`;
`Attempts`, `Retention`, `PageLimit`, `Margin`, `Depth`, `TreeCapacity` are the
code's own limits made small.

- Settlement: two batches are enough for a residual to be filled, refilled and
  claimed, for a nullifier to be used twice and for a leaf index to be wrong;
  three places are a maker, a taker and the next taker.
- Vault: assets of 4 against 3 shares make every mint and payout round. One limit
  lets half of them out, the other none.
- Positions: a tree of five leaves holds two batches and two successors, so that
  indices differ between every two orders of events. The numbers of the *ends*
  part lie on both sides of every rounding and clamp; `MaintenanceRate` and
  `RateScale` make a maintenance of one and of more.
- Trees: depths 3 and 2 have full and ragged levels; the code has 20 for
  positions and 8 for notes.
- Oracle: `MaxRecords` and `MaxSubmissions` are 64 and 16 in the code and 2 and 3
  in the run: records are dropped there, and three quotes have majorities of two.
- Funding: three indices have walks with cycles. The run ends with the first
  thing an operator does by hand (`NoHands`), after whose effect the properties
  except the market anyway. Time passes only while no refresh and no listing is
  under way (`TimePasses`): a unit of time stands for many seconds, and each of
  them waits for single requests.
- Sizing: a fill is at least 1/`Reserve` of the order and not beyond the sizing
  price; section 9 says what happens otherwise. No market asks for more margin than
  its largest leverage leaves (`MaxLeverage * InitialRate <= RateScale`).
- Deployment: two attempts stand for four, and three faults reach every call.
- Price streams: one publication of a market is enough for `StreamIsKept`, which
  is about connections and timers; that no price is followed by an older one
  (`ShownInOrder`) is proved for any number of them, after an exploration with
  two (1.3M).
- Chart: a candle of three ticks and the first tick of the next one have a late
  tick inside a candle, a snapshot that sets the live candle back and one that
  ends it; the theorem is for candles of any width.
- Failures: one mishap in `batches` and `maker` reaches every await. What two
  failures of one batch or one pass do together is not explored there.

Larger instances that were explored without an error, and are too long to be
kept as runs: snapshots with three saves (2.6M states); deployment with four
attempts and five faults (0.5M); keys with two positions, two browsers and two
keys (4.6M) and with three tabs (1.3M); the history with four ledgers and four
transfers (7.2M); the matcher's jobs over 385 books (0.8M); vault and oracle without the other parts and with symmetric
owners and publishers (0.3M and 0.6M).

## 6. Fairness and deadlock

Safety runs assume no fairness. The liveness runs assume what the code's
scheduling gives:

- `BatchPipeline`: the timer ticks, the save that is queued is done, a run that
  has begun goes on (what is awaited answers), cooldowns end (they are times), and
  a transaction the chain accepts lands. Matching waits for what is to be saved;
  its fairness is written out as []<> because nothing but it and a crash ends
  that step. No fairness of clients and none of failures.
- `MatcherJobs`: a process that runs works on what it claimed and is started
  again after a crash (its supervisor's doing), and the executor keeps polling.
- `VaultManager`: the server's batches begin and end (`[]<>` of both, which is
  weak fairness since a batch can always begin); the manager's pass, which a
  timer repeats, goes on; saves are done; a close in progress is answered.
  Traders close their positions and a provider claims what is due to him: the
  promise is for a market that comes to rest, and nothing in the code makes a
  trader close.

Deadlock is not checked: bounded counters, a protocol whose batches are all
settled and whose notes are all spent, a finished deployment and a request that
was answered really stop.

## 7. Proofs

The proof modules prove, for every value of the constants under the assumptions
the modules name:

| theorem | states | argument |
| --- | --- | --- |
| `TypeCorrect` | `TypeOK` | inductive; `FillIntentsTyped` for the loops, `WithdrawAsset`'s guard for the balance |
| `ReserveBacked` | `FeeReserveBacked` | inductive with types: only withdraw_asset, accrue_fees and distributions move balance or reserve, each behind its check |
| `PauseIsRespected` | `PauseFreezes` | each action that changes them has `ProofAccepted` in its guard |
| `ResidualsPaidOnce` | `ResidualLedger` | strengthened by `ResidualInv`: filled intents are in `cancelled`, residuals are registered when they get a margin |
| `PlacesAreUnique` | `OnePlaceOneOrder` | inductive: a rollover deactivates its source in the same step |
| `RotationIsRevocation` | `RotationRevokes` | `KeyInv`: a Noir verifier's recorded hash is the hash of its key, and every entry it made has key = hash |
| `NotesUsedOnce`, `LeavesStayInPlace`, `ReceiptsStayTrue` | `NoteUsedOnce`, `LeavesInPlace`, together `ReceiptsHold` | `NoteInv`: what a batch or a withdrawal spent is in `nullifiers`, which only grows and refuses repetitions; `LeafInv`: leaves are only appended while a batch exists, since settling needs the tree already migrated |
| `VaultTypeCorrect` | `VaultTypeOK` | inductive |
| `FeesStayKept` | `FeesAreKept` | `FeesAccounted` is inductive: a settlement accrues what its batch is then counted with (`SumChange`), and a distribution moves the same amount from the reserve to what was paid; with `ReserveBacked` |
| `PromiseIsKept` | `OrdersKeepTheirPromise` | refinement: `LiveInv` (in `LineageInv`) says that one intent at most speaks for a place - active, with margin to claim, or claimed - so the mapping has no choice, and each action moves the orders a step of `IntentLineage` or none; its margins are `Nat` |
| `VaultOwned` | `NothingOwnerless` | inductive with types: principal leaves only series with shares, and the last redemption takes all |
| `VaultBalances` | `VaultIsSound` | inductive with `VaultOwned`: every step changes one owner's or one series' entry, and a sum changes by what its entry does (`SumChange`) |
| `SharesKeepTheirPrice` | `SharePriceKept` | per step: `OneSeriesMoved` isolates series; `DepositFair` and `RedeemFair` are the two roundings |
| `LifecycleTypeCorrect` | `LifecycleTypeOK` | inductive; `EachLegItsOwn` says what the legs of a transaction write |
| `NullifiersEndOnce`, `SuccessorsStayInPlace`, `EndsStayInPlace` | `OneEndPerNullifier`, `SuccessorsInPlace`, together `EndsInPlace` | `EndInv`: the three contracts agree nullifier by nullifier on what ended and as whose, whatever the nullifiers a position has; `TreeInv`: every root is a beginning of the tree; `TreeGrows`: steps append |
| `OrdersBindCloses` | `ConditionalClosesAsOrdered` | `OrderInv`: a trigger is of a registered order, and neither is ever written twice |
| `BookIsKept` | `KeepsTheBook` | refinement: each action is one step of the book or none (`StepsAreBooked`), from `EndInv` and `TreeInv` |
| `FundingWalks` | `FundingIsOneWalk` | a settlement adds one to the count of leaving the index and of reaching the next |
| `OracleTypeCorrect` | `OracleTypeOK` | inductive; `MedianIs`: the counting loop always finds a median |
| `MajoritiesDecide`, `RoundsArePublishedOnce`, `RoundsAreDecided` | `MajorityDecides`, `RoundsPublishOnce`, together `RoundsDecide` | `MedianIsDecided`: fewer than a majority lie on either side of a median; `RoundsInv`: a published round is closed, so its quotes stay what they were |
| `MarksRestOnFreshQuotes` | `MarkRestsOnFreshQuotes` | each record's time is that of the oldest quote of its basis and its price between two of them; the mean of prices that each lie between two quotes lies between two (`SumAtLeast` and its like) |
| `EveryPositionCanEnd` | `PositionsCanEnd` | `CloseOrLiquidation`: the signed profit of TypeScript is the circuits' profit less their loss, of which one is nothing; with no credit from funding the clamps lose nothing |
| `OrdersCloseAtTheirTrigger` | `ClosedAtItsTrigger` | `EndsInv`: an order that fired was triggered at that price (`FiredWhenTriggered`), and a close on its way under it carries the recorded price (`LetThrough`) |
| `AcceptedRecordsAreProved` | `AcceptedIsProved` | `RelayIsBound`: what is on its way to the chain was bound to its files; nothing is said of where the files are by now |
| `StreamsAreKept` | `StreamIsKept` | inductive with the facts that there is one upstream (`OneUpstream`) and that a reconnection waits only without one (`ReconnectWaits`) |
| `ServerCreditsWhatIsThere` | `ServerFollowsPool` | `BalanceInv`: what each client task carries from one request to the next is already in the pool or nullified by the time the server is told |
| `MoneyIsReachable` | `MoneyStaysInReach` | `BalanceInv` again: what is in the pool, or may come there with a batch, is backed up (`BackedUp`), and a browser that has the note of a claim holds it as claiming until the server credits it (`ClaimsHeld`) |
| `StoreTrailsChain` | `StoreFollowsChain` | `PipelineInv`: what a run read and what it awaits is behind the chain too, so what it commits is; a settlement's effects on records are those on the registry, order by order |
| `RestartLosesNothing` | `RestartFindsAll` | `SnapshotsInv`: the version of the checkpoint names one content, a process that has that version holds all of it, and only such a process commits - something written whole, under an id of its own, which no other process deletes or prunes before |
| `AcceptedRequestsAreProvable` | `AcceptedIsProvable` | kind by kind, no assertion of the circuit fails that the plan does not leave to it; for funding, `DeltasAgree` and `PartsAdd`: the circuit's sign and magnitude add up as the engine's integers do |
| `PeriodsAreChargedOnce` | `PeriodsChargedOnce` | `EngineInv`: a step on its way is from the only index the server has (`StepFits`), two indexes are about only while the update between them is new (`OneIndex`), and whoever has, or may still write, the contract's index has an update for every charge (`KnowsCharges`); so a step that the contract accepts begins after them all (`PeriodIsNew`), and one that lands late leaves the contract with an index the server can write no more |
| `MarksAreTold` | `MarksAgree` | inductive as it stands (`MarksInv` adds types): joins and answers tell what they write, in one step; a browser that leaves takes the timer with it only if it was the last |
| `PricesAreShownInOrder` | `ShownInOrder` | `PricesInv`: with Hermes a browser was never sent more than the cache has for its market, and whatever reaches the browsers passes the cache's comparison first |
| `OpeningsStayInReach` | `OpeningsInReach` | `KeysInv`: what was tried was open once, so a position matched since is not among it; and a tab that has tried either is about to make its key, or its browser has another key than the registered one, or reads the openings, since a key is replaced together with them (`TriedAreRead`) |
| `NotesAreReservedOnce` | `ReservedOnce` | `ReservationInv`: a free note is not spent and a locked one only by a trade of the order that locked it (`LocksOK`), what the manager takes away is retired before it awaits (`PassOK`), and a deposit is named by an interval no note was named by (`IntervalsOK`) |
| `ResultsAreProved` | `ResultIsProved` | `JobsInv`: what a process proves is a draft of a job, and a directory never changes the proof it holds; a job is completed only by a draft that is that proof |
| `DeploymentsAreWired` | `DeployedIsWired` | `DeployInv`: whatever landed rests on what landed before (`ChainIsClosed`), and a script is at a call only when those before it landed, save initialisations in finalize (`ScriptsInv`); `DeployCallsWire` and `FinalizeCallsWire` find in the lists of calls what has to be wired |
| `TicketsAreTraded` | `SizedOrdersTrade` | `SizingInv`: what is posted is sized for the ticket; then arithmetic with every rounding: the notional is one that the margin without the reserve carries with the fee (`SizedNotional`), and what is set aside for a fill is more than that margin's share of it, since the fill's share of the reserve covers the rounding (`SizedFillIsSafe`) |
| `ChartsKeepUp` | `ChartKeepsUp` | `ChartInv`: the buffer of a request ends with the newest tick that came since (`TicksKept`), what is due was pending or is overtaken, and each candle's close lies in its candle, so the newest is the last (`ChartShaped`) |
| `HistoryStaysKept` | `HistoryIsKept` | `ScansCover`: what a scan left behind of its range is in the history or let go; `PageFacts` is the arithmetic of one page |

Some properties are stated by a theorem and not by a run of their own: `TypeOK`
and its like, `FeeReserveBacked`, `PauseFreezes`, `NothingOwnerless`,
`ShownInOrder` and the parts of the conjunctions above.

Sums (the books of the vault, the fees, the mean of a price) are folds over
finite sets. The library's induction theorems cannot be used here, so
`FiniteSums` derives what it needs from well-foundedness: a set of naturals with
a counterexample has a least one (`AllNaturals`), and a family of finite sets that
has the empty one and grows by single elements has all (`AllSubsets`).

Checked by TLC only:

- all liveness, which needs fairness and ENABLED: `PollsEnd`,
  `CrossedMarketsTrade`, `RedemptionIsServed`;
- what is computed by recursion over data: `TreesAgree` (levels of a tree) and
  `MatchIsFair` (a walk over a book);
- `TreeIsPrefix` and `SettledIsCommitted`, which rest on what the matcher makes
  of a book; `StoreTrailsChain` holds whatever it makes;
- `AllocationsAreAccounted`: a closed allocation is empty only if notes, wallet,
  contract and the manager's records add up at every await of a pass.

Assumed and not proved: hashes do not collide, so that a nullifier is hashed from
one rho, while a position may have any number of nullifiers
(`LifecycleAssumption`; no proof needs even the rho); the circuits' statements have the types
of the contracts' arguments, and a close or liquidation is of a leaf under its
root (`Membership`; `ShieldedPoolAssumption`, `BatchSettlementAssumption`,
`MarketAssumption`); scales and the maintenance rate are positive
(`EndsAssumption`), and so are prices (`FundingEngineAssumption`; the market
contract and the server refuse others, lib.rs:435 and markets.service.ts:424);
owners and batches are finitely many, so that their sums are sums
(`LiquidityVault`, `BatchSettlement`), and an order of an account takes a
positive margin (`PrivateBalanceAssumption`), as the client demands. The reserve
kept for rounding is positive and no market asks for more initial margin than its
largest leverage leaves (`SizingAssumption`; trade-submit.ts and the markets of
server/src/config/assets.ts). "none" is no digest of a job (`JobsAssumption`); the
manifest's circuits are a list, and "withdraw" is one of them
(`DeploymentAssumption`).

## 8. Where code and documents disagree

Each is a run whose one property states what a line of the repository says; TLC
shows a behaviour in which nothing fails.

- `two_markets`, `RootsAgree`: markets settle at the same time
  (batch-executor.service.ts:59), the one that settles second on chain may commit
  first, and the local tree has another order than the chain's. From then on
  `assertPositionRootSynchronized` (332) refuses every run.
- `early_claim`, `RecordsFollowVault`: a provider claims between the vault's
  settlement and the manager's second look at its balance
  (settle-vault-maker.ts:117-124); the allocation stays open in the records and
  the manager stops (manage-vault-maker-liquidity.ts:149).
- `stale_index`, `IndexFollowsChain`: a price refresh that read a market's record
  before a funding cycle writes it back after it (markets.service.ts:142-175);
  the contract refuses every later step as a "stale funding index".
- `insolvent`, `InsolventIsLiquidatable`: a position that funding owes money and
  whose loss exceeds its margin can be neither closed nor liquidated, because the
  liquidation circuit forgets the loss beyond the margin before it adds the
  funding (liquidation-check main.nr:93-101), while the client says that it "must
  be liquidated".
- `second_secret`, `PositionEndsOnce`: "position already spent"
  (position-state lib.rs:177 and its test at 455, position-close lib.rs:262) is said of
  a nullifier, and a position has one for every spend secret, which is a witness of
  the circuits that the commitment does not contain (position-close main.nr:107-120,
  liquidation-check main.nr:73-86). One position is closed under one nullifier and
  liquidated under another.

## 9. Noticed beside

Behaviours met while modelling. Each is in a model as the code has it, or is
outside a named bound; no property claims the contrary.

Contracts. A pending request whose payout rounds to nothing cannot be claimed and
blocks allocations (liquidity-vault lib.rs:645). An outlier keeps its round from
completing (price-oracle lib.rs:264). The market of a close is not bound
(position-close lib.rs:441).

Orders and batches. A partial fill below 1/32 of an order at exactly the largest
leverage loses its share of the reserve, fails the margin check and with it the
batch; so does a short filled above the price it was sized at. An order whose
cancellation landed but was reported as failed, or whose note was withdrawn,
stays open here and fails every batch it is in. Open orders are checked before
the relay and not after it (batch-executor.service.ts:174). A settlement that
landed and was not committed leaves the market to an operator. A job of five
attempts is not queued again.

Ends of positions. A maintenance that rounds to nothing makes dust that cannot be
liquidated. Closes and liquidations under a proof do not check the funding
payment a second time. A triggered order whose price moved away closes only when
the mark is again exactly the trigger's. The contracts let a funding index go
below zero, the server takes no such record (markets.service.ts:433) and a batch
proof has it unsigned. The tree of margin notes is full after 256
(field-merkle.ts:5,204).

Vault history. A transfer the node does not confirm is skipped for good
(liquidity-vault.history.ts:188-192), a full page that ends inside the last ledger
ends the scan (169), and ledgers near the end of the node's window are passed
over after a long stop: `missed` in `VaultHistory`. Two processes may set the
cursor back.

Persistence. A checkpoint that moved but whose answer was lost has its records
deleted (mongo/store.ts:374), and the next start stops on the count. An operation
that throws half way leaves its half for the next save.

Prover. The name of a request leaves inputs out, so a build removes an earlier
proof's files of that name. `registerProofArtifact` writes bytes before it checks
them (prover.service.ts:99-113).

Funding. A market's `upsert`, in server and contract, replaces the index. A
settlement whose answer was lost leaves the server's index behind until an
operator updates it. The file store keeps no premium samples.

Maker. A paired position that was liquidated makes the trader's close be refused.
A failed submission of a maker order keeps its note locked until the orphan check.
A partial fill of a maker order leaves a residual nobody names. A server that
stops between such a settlement's commit and its finalization stops every later
run of the market: the orphan check cancels the order, which the store refuses
(maker-liquidity.service.ts:348, store.ts:285).

Browser. Openings matched under a key that no browser has any more are asked for
once; a page reloaded between the mark of its attempt and its new key does not
ask again (use-trading-data.ts:409-446). Two devices register each other's key
away. A POST /intents whose answer is lost leaves the note "available".

Prices. Updates of Hyperliquid carry the time of their arrival, so an older
fallback may follow a newer price. Hermes has no idle timeout. A snapshot from the
server's cache sets the live candle back behind ticks already drawn, until the
next tick (use-market-candles.ts:471).

Deployment. A call that is not idempotent, landed and was reported as failed
aborts the deployment and leaves a `.partial` record; finalize on such a record
passes over initialisations that failed four times, and says it is finalized.

## 10. Not modelled

- disclosure-verifier and disclosures (stateless), ultrahonk-verifier and the
  arithmetic of proof systems, test-oracle, the contracts' interfaces.
- Storage lifetimes; i128 overflow (a panic, hence a step not taken); upgrades;
  the market's price check in `settle` (it can refuse at any moment, which is a
  step not taken).
- Two vault managers at once, which needs a lost lease; several series under the
  manager; deposits to the vault while the manager works.
- A manual close at a mark that is independent of the position's market.
- The set-up of a local network, `--reuse-vault-from`, the smoke scripts.
- The browser's presentation, older candles of the chart, the race of a wallet
  that disconnects while its session is validated; the asset points of the
  vault's history; the repair of notes from an export.
- Encodings, hashes, encryption, parsing of provider messages: model values.

`PROJECT.json` has a line for each component.

## 11. What could follow

1. A theorem for `AllocationsAreAccounted`, with `FiniteSums` for its amounts.
2. `TreeIsPrefix` and `SettledIsCommitted` from what the matcher promises of its
   residuals, stated as an assumption on the matching of a book.
3. Two managers with an expiring lease over `VaultManager`.

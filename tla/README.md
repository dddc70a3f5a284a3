# CredAgent: a TLA+ verification project

CredAgent lends stablecoins from a pool against collateral. Three Solana programs
hold the money and the rules; a Node service (the MCP server and its bridge) builds
and submits their transactions; four agents decide what to submit; a Python API
computes credit scores; from a web page the borrower takes and repays his loans. The modules here model the
parts that hold money, authority or a decision about them, check them with TLC on
small instances and prove the main results with TLAPS for every value of the
constants.

Paths below are relative to the repository root.

## 1. Inventory

### On chain (`programs/`)

| component | state | operations | what makes it correct |
|---|---|---|---|
| `lending_pool` | one `pool_state` and vault per token mint; a `Loan` per pool and id; an `EscrowVaultState` and an `InstallmentSchedule` per loan id | `initialize_pool`, `deposit`, `withdraw`, `lock_collateral`, `conditional_disburse`, `create_schedule`, `pull_installment`, `repay`, `mark_default`, `release_collateral`, `liquidate_escrow`, `accrue_interest`, `set_next_loan_id`; handlers not dispatched: `update_collateral_price`, `set_collateral_price_oracle` | the books agree with the vault and with the loans; an open loan is covered; collateral leaves once, to whoever the outcome names; interest is charged up to the moment of payment; a schedule never runs ahead of its loan |
| `agent_permissions` | `perm_state` (admin, pause, breaker, 24h loss window, pending rotation), an `AgentIdentity` per wallet | `register_agent`, `check_permission_and_spend`, `record_loss`, `reset_circuit_breaker`, `emergency_pause`, `unpause`, `request_/finalize_/cancel_admin_rotation`, `set_daily_limit`, `set_agent_tier`, `deactivate_agent` | bounded spending per agent; a tripped breaker holds the pause; the admin key changes only after an announced delay |
| `credit_score_oracle` | `OracleState`, an `OracleAuthority` per agent, a `CreditScore` and `CreditHistory` per borrower, DID mappings | `update_score`, `batch_update_scores` (disabled), `record_loan_issued/repaid/defaulted`, `grant_/revoke_oracle_role`, `pause`, `unpause`, `set_validity_period`, `set_history_authority`, `register_did` | a score is published by an active oracle, carries its own tier and expires within the allowed period; revocation is final; a pause freezes scores and histories |

`lending_pool` reads a `CreditScore` account of the oracle (gate 1) and calls
`agent_permissions` in the disbursing transaction (gate 4). The programs share
nothing else. A transaction is atomic: any failed check reverts all of it, over
both programs.

### Off chain

Everything here is one event loop per process: one step at a time, and at every
`await` another request, poll or timer may come in.

| component | state | operations | what makes it correct |
|---|---|---|---|
| `SafetyMiddleware` (`wdk-service/src`) | pause flag, breaker, tiers, daily limits and spending, losses, in memory | `executeTool` (pause, tier, limit, then the bridge, then the charge), `recordLoss`, `pause`, `unpause`, `resetCircuitBreaker`, `setDepositsSnapshot` | overspending under concurrent requests is bounded; a tripped breaker is left only by reset and unpause; a pause takes effect |
| `SafetyLayer` | - | `validateTransfer` and the other parameter checks | - |
| MCP bridge (`mcpBridge.js`) | rate buckets, a loan counter file under a promise-chain mutex | one function per tool; build, sign, submit | a loan is disbursed for one execution; what is answered as done is on the chain |
| MCP server (`mcpServer.js`) | the services above, the pool history file, event streams | HTTP routes, session routes, start and stop | what it approves and records is on the chain; it starts with every wallet it has told of |
| `auth.js` | API keys, sessions, failed attempts | authenticate, record failure, lock out, create and revoke sessions, cleanup | guesses are bounded; sessions end |
| `walletService.js`, `tokenOps.js`, `seedPhrase.js`, `validation.js` | agents, seeds, `wallets.json` | restore, create, persist; transfers, queries | a wallet whose address was told is never lost or replaced |
| `bridgeService.js` | an EVM account, transfers | `initialize`, `bridge`, quotes | - |
| lending agent (`agent/src/lendingAgent.js`) | negotiations, decisions | `evaluateLoan`, `negotiate`, `executeLoan` | offers stay within their policy; APPROVED means a loan on the chain as offered |
| collection agent | schedule table | `registerSchedule`, `pollOnce`, default flow, simulation | a default comes after its notices and is real; no schedule leaves collection without cause |
| credit agent | score cache, cooldowns | `scoreBorrower` | what is cached as published was published |
| yield agent | its rate, bridged capital | `evaluateAndAdjust`, `evaluateAndBridge`, `evaluateRecall` | what it takes for bridged was sent |
| ML API (`ml-api/`) | two caches, a model | features, score, terms, explain, commit | the evidence behind a score is recent and complete |
| dashboard (`frontend/src`) | the loan book and the pool as last polled, the offer under negotiation, flags of what is under way | poll, negotiate, accept (prepare, lock, execute, approve), repay and release, deposit | it shows what was, never shows or asks more than a loan's debt, and says a loan started only when it did |
| `auditLog.js`; scripts, tests | entries, last hash; - | append, prune; drive | - |

### What is hard here

* **Interleaving on chain.** Borrower, lender, agents, admin and anyone at all
  submit transactions in any order: a repayment between two pulls, a pause between
  a decision and its disbursement, a withdrawal before a default.
* **Relations between accounts.** A loan, its escrow and its schedule are three
  accounts changed by different instructions and addressed by different seeds.
* **Sums.** Four pool counters and the vault balance have to agree with the sum
  over all loans, through interest, partial payments and write-offs.
* **Time.** Interest streams by an index that is only as fresh as the last
  accrual; limits and losses have windows; scores, prices, caches, sessions and
  rotations have ages.
* **Awaits.** State is read before an `await` and used or written after it: the
  daily limit, the next loan id, a negotiation, a poll's schedule, a score's
  cooldown, an agent's seed, the yield agent's entry, the page's offer and its book.
* **Lost answers and partial failure.** A decision is several transactions, each of
  which may fail, only be built, or land without its answer arriving.
* **Crash and restart.** Wallets come back from a file that is written in place;
  limits, pause, sessions and negotiations do not come back at all.

`PROJECT.json` lists each hazard at its line with the properties that cover it.

## 2. Modules

| module | models | instance and proofs |
|---|---|---|
| `LendingPool` | `lending_pool`, any number of pools | `MCLendingPool`; `CredAgentProofs` |
| `LoanLifecycle` | what a pool promises about a loan id and its collateral (abstract) | implemented by `LendingPool` |
| `AgentPermissions` | `agent_permissions` | `MCAgentPermissions`; `AgentPermissionsProofs` |
| `CreditScoreOracle` | `credit_score_oracle` | `MCCredAgent`, `MCCreditAgent`; `CreditAgentProofs` |
| `CredAgent` | the three programs: a disbursement reads the score account and is charged to its agent in one step | `MCCredAgent`; `CredAgentProofs` |
| `LoanOrigination` | lending agent, loan counter, the lending tools of the bridge and the lending routes of the server, over three guards of the chain | `MCLoanOrigination`; `LoanOriginationProofs` |
| `CollectionAgent` | collection agent, its three tools, the loan and its escrow | `MCCollectionAgent`; `CollectionAgentProofs` |
| `AuthManager` | `auth.js` with the session routes | `MCAuthManager`; `AgentRuntimeProofs` |
| `Gateway` | `POST /mcp/call` and `SafetyMiddleware` | `MCGateway`; `GatewayProofs` |
| `CreditScoring` | the pure functions of the ML API: features, score, tier, terms | used by `CreditAgent` |
| `CreditAgent` | credit agent and the ML API's caches over `CreditScoreOracle` | `MCCreditAgent`; `CreditAgentProofs` |
| `WalletService` | the wallets, their file, the start of the server | used by `AgentRuntime` |
| `YieldOptimizer` | yield agent and the bridge service | used by `AgentRuntime` |
| `AgentRuntime` | both in one process that crashes and starts again | `MCAgentRuntime`; `AgentRuntimeProofs` |
| `Dashboard` | the page of a borrower (`useCredAgent.ts`, `App.tsx`) and the server's routes it asks, over `LendingPool` | `MCDashboard`; `CredAgentProofs` |
| `SetSums` | lemmas on the sum of a function over a finite set | used by the proofs |

### How state and actions correspond to the code: on chain

* An account is a record with the field names of its Rust struct; a PDA is an
  index into a function, and what it is seeded with is what it is indexed by:
  `loan[p][id]`, but `escrow[id]` and `schedule[id]`. Status `"None"` (or
  `exists`, `registered`) is an account that has not been initialised.
* An instruction is one action. `require!`, account constraints and `checked_*`
  arithmetic are conjuncts of its guard, since each reverts the transaction.
  Money is a natural number below `MAX_U64`.
* The accrual that `conditional_disburse`, `repay`, `pull_installment` and
  `mark_default` begin with is part of these actions (`Accrued`).
* Signers: where the program compares the signer with a stored key the action is
  a step of that key's holder.
* `IsPaused(p)` of a pool is FALSE because `initialize_pool` writes it and no
  instruction does afterwards.
* `UpdateCollateralPrice` models a handler that exists in `admin.rs` and that
  `lib.rs` does not dispatch. The constant `PriceFeedDispatched` says whether it
  is. With FALSE, as in the code, no pool ever lends (theorem
  `UnpricedPoolNeverLends`); the runs set it to TRUE and so check the rest of the
  program as it is meant to run. The other theorems hold for both values.
* `PullInstallment(p, q, id)` takes the pool that is credited and the pool of the
  loan separately, as `pull_installment` ties neither to the other.
* `batch_update_scores` is dispatched and ends in an error on every path, so it is
  no action. `grant_oracle_role` creates its account with `init`, which fails for a
  wallet that was ever granted the role: that is why revocation is final.
* In `LendingPool` alone gate 1 may read any score of the constant `Scores`. In
  `CredAgent` it reads the account of the oracle, and `ScoresAssumption` says that
  `Scores` covers what the oracle can publish.
* `spent`, `granted` and `announced` in `AgentPermissions` are history variables:
  no action reads them.

### How state and actions correspond to the code: off chain

* A request, a poll or a call is a process: a record whose `at` says which awaited
  call it is at, with the local variables it still needs. The code between two
  awaits is one action. Private fields (`#agentLimits`, `#schedules`) are the
  variables, under the names of the code.
* A tool call has the outcomes the caller tells apart: it succeeds, it fails, or
  its transaction lands and the answer says that it failed (a confirmation that
  timed out). A tool that only builds an instruction succeeds without the chain
  moving.
* `LoanOrigination`: `executeLoan` is lock, disburse, schedule, history, each an
  action with its failures. The chain below keeps the next id, the escrow of that
  id and the collateral ratio; the rest of its gates look alike to the agent: a
  call that fails. The counter file with its promise chain is there, and
  `counterStuck` is the promise that was once rejected and stays so.
* `CollectionAgent`: `schedule` is the sequence of the schedule objects and `table`
  the map to them, since registering a loan again replaces the object while a poll
  goes on with the one it has. A poll keeps the time it began at (`since`).
* `Gateway`: `executeTool` is `Forward` or `ForwardDisburse` before the bridge, and
  `ToolSucceeds` or `ToolFails` after it. The tools are one of each kind the
  checks tell apart. Methods that no route offers (`pause`, `setDepositsSnapshot`
  and so on) are steps of the operator.
* `WalletService`: creating a wallet has a step for the seed, the address, the
  directory, the opening and the writing of the file. `writeFile` cuts the file
  first, so that between the two steps it is not JSON, and a shorter text written
  over a longer one leaves a tail. `told` records which addresses callers were
  told; `mishap` records that two creations of one agent or two writes overlapped
  or that the file could not be read.
* `Dashboard`: each borrower of `Pages` has one page open, as a wallet signs in one
  browser; the others act on the chain alone. `load` is a poll on its way through the server: a poll of the pool has its answer, a
  poll of the book reads the index and the last id first (`fetchLiveLoanRows`) and
  then loan after loan, each read a step. Polls are started every five seconds
  whether or not the one before has answered, so any number of them may be under way.
  `repaying` is a call of `repayLoan`, `accept` one of
  `acceptOfferAndEnableAutopay`, with the server's execution it waits for: `offer` is
  what the page prepared, `made` what the session held when the server executed.
  `useLoanActions` keeps one `repayingLoanId`, so a click on a second loan frees the
  button of the first.
* A transaction of the page lands, is executed and fails, or ends in an error. One that
  lands after the page took it for lost is a step of `Elsewhere`, like those of agents
  and of other wallets; so is a server that goes on after the page has given up.
  `OtherRequest` is any other request that gives the borrower an offer or ends his
  session (`/demo/run`, another page). `RecordRepaid` changes nothing here: the history
  it writes is the oracle's, and no page reads it.
* Amounts pass through doubles on their way to the page and back: `ROUNDING` is what
  they may be off by in raw units.
* `CreditAgent`: `confirmed` (the pushes of the last cooldown that were confirmed to the
  running process), `earlier` (those confirmed to processes before it) and `restarts` are
  history variables: no action depends on them, but for the bound `MaxRestarts`.
  `RestartAgent` loses what `creditAgent.js:21` keeps in memory and none of these.
* `CreditScoring` works in fixed point where the code has floats, and cuts where it
  rounds: a score may differ by a point.
* Definitions named as a *Variant* are the wrong versions of the action they stand
  before (a check left out, a comparison off by one); no specification uses them.
  They show that the properties tell the right version from them.

## 3. Runs

`tlc -config X.cfg M` with the module and configuration `PROJECT.json` names.

| run | what it shows |
|---|---|
| `pool` | `BooksBalance`: counters and vault agree with the loans. `CollateralHeld`: an open loan is covered. `ScheduleTracksLoan`: schedule and loan stay in step although repayments bypass the schedule. `ClosedInFull`, `FreshIndex`: no payment on stale interest. `ImplementsLifecycle`: every step implements `LoanLifecycle`. |
| `permissions` | `DailySpendBounded`: never more than twice the largest limit within any 24 hours, the bound being reached. `BreakerPauses`, `BreakerTrips`, `RotationDelayed`. |
| `system` | over the three programs, `LendingIsCharged`, `PauseStopsLending` and `LoansRestOnScores`; and of the oracle among them `ScoreLifetime`: a score lives an allowed period and carries its own tier, however often it is replaced and the period changed; `RevocationIsFinal`, `PausedIsFrozen`. |
| `origination` | `OfferWithinPolicy`: no negotiation, replaced session or concurrent execution leads out of the policy of the tier. `ApprovedOnChain`: APPROVED is never said of a loan that is not on the chain as offered. `OneExecutionPerLoan`: no loan for two executions, although nothing keeps two from reading the same id. `HistoryBehindLoans`. |
| `collection` | `DefaultedIsReal`: DEFAULTED only with the chain behind it. `NoticeBeforeDefault`: the default flow starts only after the reminders, also when another poll pulled meanwhile. `PullsBounded`: overlapping polls run ahead by at most one instalment each. `ClosedForCause`: whatever fails, is refused or loses its answer, a schedule leaves collection only with its instalments pulled or with the default of its loan on the chain. |
| `auth` | `TriesBounded`: fewer than twice the permitted failures within the length of a lock-out; the limit itself is not the bound, since the timer may lift a lock-out early. `SessionsEnd`. |
| `gateway` | `OverspendBounded`: overlapping disbursements take an agent past its limit, by at most a limit for each request under way. `RecoveryInTwoSteps`, `PauseTakesEffect`. |
| `credit` | `CacheIsPublished`: what the cache calls published was confirmed by the chain with the same tier. `PushesBounded`: overlapping calls pass the cooldown together, but no more than there are; a restart of the agent forgets the cooldown and not what the chain has confirmed, and lets as many pass again. `EvidenceIsRecent`: two caches on top of each other keep evidence no longer than both their terms. |
| `runtime` | `RestartKeepsWallets`: a server that starts has every wallet that was told, or does not start. `SignsAsTold`: while it runs an agent signs with the wallet that was told. `BridgedWasSent`: over lost answers, recalls and restarts. |
| `dashboard` | `EstimateCovered`: what a page shows of an open loan as outstanding and as repaid is never more than the loan's whole debt, although the index is older than the loans, answers of two polls come out of order and the loan may be closed by then. `ShownIsPast`: loans and earnings were as they are shown. `PaymentWithinDebt`: what it sends for a loan, from a row that two clicks and others may have made old, is at most the loan's whole debt and the roundings. `StartedIsReal`: while the offer changes between prepare, lock and execute, the autopay is asked for, and the loan said to have started, only with a loan of this borrower and of the principal that was carried out, and with its schedule, on the chain. |

Two runs check a sentence of the repository that the code does not keep, and find
the counterexample:

| run | sentence | what happens |
|---|---|---|
| `two_pools` | "loan_id ties escrow to exactly one loan" (`lock_collateral.rs:17`) | the same id in two pools is backed by one escrow; when one loan ends the other's collateral goes |
| `history_unused` | "Protocol-native credit history should outweigh heuristics when present" (`ml-api/features.py:398`) | `_fetch_credit_history` returns nothing on every path: the lines that decode the answer stand unreachable behind the return of the next function |

### What the models show without a run of its own

Each is what a module's actions do; no property of a passing run can say
otherwise.

* **No price feed.** `docs/ARCHITECTURE.md:122` describes a golden path that
  disburses. The price of the collateral starts at 0, has to be positive, and no
  instruction that `lib.rs:13-97` dispatches sets it (`UnpricedPoolNeverLends`).
* **Overpayment.** Repayments beside a schedule leave less than an ordinary
  instalment to pay; the pull takes the whole instalment, and a last one
  (`create_schedule.rs:179`) fails, while `:105` promises that it sweeps the rest.
* **A default that cannot be recorded.** `mark_default.rs:72` subtracts the debt
  with its interest from `total_deposited`, which withdrawals may have lowered
  below it: the instruction that `:31` calls permissionless after the grace period
  fails.
* **Pulls under a pause.** `agent_permissions/src/lib.rs:346` says that a pause halts
  "new disbursements and pulls"; `pull_installment` (`create_schedule.rs:146`) reads
  no pause flag.
* **A breaker without a snapshot.** `lib.rs:278` promises a pause at 10% of losses.
  In the first window, and after a reset within one, there is no snapshot of the
  deposits and losses count against nothing (`lib.rs:290`); a loss of 6.5536 times
  the deposits wraps around a `u16` (`lib.rs:305`). `BreakerTrips` says what is left.
* **A middleware breaker that is not told.** `SECURITY.md:55` counts the JS mirror of
  the breaker as a mitigation. The schemas of `mark_default` and `liquidate_escrow`
  admit no amount, so that a default records a loss of 0, and nothing but a test
  calls `setDepositsSnapshot`.
* **Limits end with the process.** A restart forgets the pause, the breaker, what was
  spent and the sessions (`Restart` of `Gateway`).
* **The lending agent passes the gateway by.** It is given the bridge itself
  (`mcpServer.js:830`). The pause, tiers and limits of the middleware are those of
  `/mcp/call`; what holds the agent back is the programs.
* **The collection agent's tier.** `mark_default` asks for Manage
  (`safetyMiddleware.js:31`), which the collection agent does not have: through the
  gateway it is refused.
* **Pulls that were only built.** `pull_installment` of the bridge builds an
  instruction, and the collection agent counts its success as a payment
  (`collectionAgent.js:105`), whereas `agent/skills/collection-tracker/SKILL.md:42-43`
  asks it to confirm the payment on the chain.
* **A lost answer of `mark_default`.** The loan is Defaulted, the agent takes the call
  for failed (`collectionAgent.js:187`) and repeats it in vain, so that the escrow is
  never liquidated by it. A liquidation that fails after the mark closes the schedule
  for an operator (`collectionAgent.js:203`), and is not tried again.
* **Two creations of one agent at once** both pass `WALLET_EXISTS`
  (`walletService.js:98`) and mix their seeds: the address of one is told, the seed of
  the other saved. `SignsAsTold` and `RestartKeepsWallets` exclude that, as they
  exclude overlapping writes.
* **A repayment that reverted.** `confirmTransaction` returns the error of a
  transaction that was executed and failed, and `useCredAgent.ts:682` does not read it:
  the page goes on to `record-repaid` although nothing was repaid (`RepayReverts`),
  where the comment at `:694` says that the repayment "already succeeded on-chain". The
  lock, the approval and the deposit are awaited in the same way.
* **A part payment is recorded as a loan repaid.** `record-repaid` follows every
  repayment, whether or not it closed the loan (`useCredAgent.ts:684`).
* **A closed loan goes on growing in the book.** The server computes what a loan owes
  from the index whatever its status (`mcpServer.js:410`, `:451`), so that the estimate
  of a repaid or defaulted loan is above zero and grows. The page offers to pay only
  rows it shows open, hence `EstimateCovered` speaks of these; such a loan may be closed
  by then, and its debt is what it took.
* **Two clicks may send a debt twice.** Each amount is within the debt
  (`PaymentWithinDebt`), both together need not be: the program takes what is left, and
  refuses a payment of a closed loan.
* **An older answer replaces a newer one.** Polls do not look at each other, so that a
  loan shown as repaid may be shown open again, and an answer without a book empties
  the rows (`ShowNoBook`). `ShownIsPast` says that what is shown was so once.
* **The offer may change under the acceptance.** Collateral and autopay are those of
  the prepared offer, the loan is that of the session at the time of the execution
  (`Execute`); an execution without its answer leaves the collateral locked under an
  id that only a loan that ends can release.
* **An approval replaces the one before** (`useCredAgent.ts:861`): the autopay of a
  second loan takes the place of what was approved for the first.
* **The bridge's seed** is drawn at its initialization and kept nowhere
  (`bridgeService.js:81`): a restart draws another.
* **`loanId || 1`** (`agent/src/index.js:63`) registers a schedule for loan 1 when an
  execution has no id.

### Bounds and why they are enough

* `pool`: `MaxLoanId = 2`: two loans share the pool's counters, which is what the
  sums and the skipping of ids need. One borrower per run: the borrower of a loan is
  only ever compared with the borrower of its escrow. `MaxTime = 3` covers a loan due
  at 1 or later, a grace period, a stale price, an expired score and a default.
  `BPS_DENOMINATOR = 10`, `PRECISION = 10`, a year of one unit: the index doubles
  within a run, so interest is visible in whole tokens; integer division rounds at the
  same places. The rates are far higher than real ones, which makes debts outgrow
  deposits within three clock readings. `MAX_U64 = 13` bounds every amount and is hit:
  overflow guards are taken. One deposit size, one principal, one payment equal to
  the principal (it leaves the interest unpaid) and pulls of half of it, so that every
  mixture of full, partial and excessive payment occurs. The two rates lie on both
  sides of the least rate of the starter profile.
* `permissions`: `MaxTime = 5` with days of 2 and a delay of 4: two daily windows and
  a rotation with an interrupted request. `U16_RANGE = 65` with `BPS = 10`, as 65536
  bps are 6.5536 times the whole.
* `system`: one agent, one oracle, one borrower and one loan id over two clock readings. The
  starter principal is below the principal asked for, so that a score below BB is
  refused and one above it is not; a score expires between the two readings. Scores lie
  on both sides of the BB threshold, one below the least score and one above the
  greatest. One validity period is allowed and those on both sides of it are tried; the
  theorems hold for every period. That the period in force is changed between a push and
  the disbursement is therefore left to `SystemScoresLive` and `LoansAlwaysRestOnScores`:
  a second period takes the run past what can be explored. `MAX_COUNT` bounds the scores explored, which the
  program counts in a `u64`.
* `origination`: two requests and two borrowers, one of them with a wallet the
  service signs for, on two loan ids: two executions of one session, of two
  sessions, and a borrower who locks collateral from his own wallet in between. The
  price of the collateral is set so that some pledges meet the chain's ratio: at
  `MOCK_XAUT_PRICE_USD` itself the agent's lock never does. One round of
  negotiation, with a counter-offer that asks for more of everything.
* `collection`: two polls, one loan of two instalments, one registration, two
  reminders. The clock goes past the last due date and the grace period, as a
  default needs.
* `auth`: two permitted failures, a lock-out of 2 and a clock of 7: a second lock-out
  begins and ends, and the timer meets the first. Two sessions.
* `gateway`: two overlapping requests over two days, two principals of which two of
  the larger pass only by overlapping; one restart; losses that trip the breaker.
* `credit`: two calls, one borrower, terms of 2 or 3 clock units over a clock of 3:
  each cache can be stale under a fresh one. `MAX_COUNT = 4` pushes, and
  one restart of the agent (`MaxRestarts`): both calls push before it and again after it.
* `runtime`: three agents of which the server creates one, four seeds, two requests:
  a second creation of an agent that failed before, and writes of different length.
  Any number of crashes. `MAX_SENT` admits two transfers of 6000.
* `dashboard`: one pool, two loan ids, two borrowers of whom one has a page, two polls
  and two clicks, two offers of principal 2 and 4, over three clock readings. The
  constraint `OnePartAtATime` follows the figures, the book with the repayments, and the
  offers one at a time: they share no variable but those of the pool, and `Elsewhere`
  takes by itself every step of the pool that another part could take. With the figures
  and the book two polls or clicks are under way at once, loans are of 4 and of the
  borrower of the page: a book is read loan after loan while the index grows, loans close
  and others open, and either answer may come last. With the offers there are two clock
  readings, and no payment at the second: the offer changes on its way, and the id the
  page prepared for may become a loan of the other borrower. `ROUNDING = 0`; that
  amounts are rounded, and more than two polls and clicks, are left to the theorems.
* Deadlock is not checked: when the clock is at its bound and every loan, poll or
  request is done, the instance may have nothing left to do.

### Fairness

* `Gateway`: the bridge answers every call it was given.
* `AuthManager`: time passes and the cleanup timer, which nothing stops, fires.
* The other specifications state none and are checked for safety only. Nothing under
  `src/` schedules `release_collateral`, `liquidate_escrow` or `pollOnce`, and
  `mark_default` may be refused for ever (`mark_default.rs:72`,
  `safetyMiddleware.js:31`), so that neither the release of collateral nor the end of a
  collection is promised by the code.

## 4. Theorems

All are proved for every value of the constants that satisfies the `ASSUME`s of the
modules; TLC evaluates these in every run. The proofs of one module often need those
of another, so they stand where the modules meet: the pool's in `CredAgentProofs`, the
oracle's in `CreditAgentProofs`, those about authentication in `AgentRuntimeProofs`,
those about the dashboard with the pool's.

Most invariants are not inductive as the runs check them. The entries below say what
each proof adds.

**Sums** (`SetSums`). The models sum with the fold of the community modules. A fold is
a recursive function over sets; `SmallestSet` gives a set of least cardinality among
those that would refute a lemma, and the lemma follows by looking at one element less:
sums of naturals are naturals, do not depend on the order, grow by what one element
grows by, and split over a part of the set.

**`lending_pool`**

* `TypeCorrect`. `TypeOK` is inductive: the guards alone keep every counter a
  natural number. Lemmas on rounding (`UtilizationRange`, `IndexGrows`,
  `AccruedFacts`) bound what the interest arithmetic returns.
* `UnpricedPoolNeverLends`, assuming that prices are not dispatched. The invariant is
  that every price is 0 and no loan was ever opened; every other instruction leaves
  the price alone and needs an open loan.
* `CollateralIsHeld` and `RefinesLifecycle`, for one pool (`OnePool`, which run
  `two_pools` shows to be needed). The invariant `CollateralHeld` is not inductive:
  nothing in it prevents a loan from being opened over an escrow that was already
  released. `Custody` adds that ids from `next_loan_id` on have no loan, that an
  escrow exists only for ids up to the cursor, and which pairs of loan and escrow
  status occur. `StepEffect` reduces each instruction to its effect on these, and both
  theorems follow from the effects.
* `InterestIsFresh` and `LoansCloseInFull`, for one pool. `ClockBehind`: no pool was
  accrued in the future, so an accrual brings it to exactly `now`.
* `SchedulesTrackLoans`, for one pool. `Tracked` adds to the property that all
  instalments together are at most the principal: so the last pull, which sweeps what
  is left and closes the loan, still covers those before it.
* `BooksAlwaysBalance`, for one pool, whose number of loans is not bounded: the counter
  of what is borrowed is the sum of the open principals, and the vault what the
  counters say. The proof follows the change of each sum by the one loan an
  instruction touches.

**`agent_permissions`**

* `PermissionsTypeCorrect`, `BreakerAlwaysPauses`, `BreakerAlwaysTrips`,
  `RotationIsDelayed`. `Breaker` joins the two breaker invariants with the fact that a
  window without trips is below the threshold; `Announcement` ties the pending key to
  the time since when it is pending.
* `DailySpendIsBounded`. A day of 24 hours meets at most two windows of the program. The
  invariant `Spending` says of an agent's history that what falls into the present
  window is what the account counts, that any stretch before it which a day can join
  with it is within the grant, and that any earlier day is within twice the grant.

**`credit_score_oracle`**: `OracleTypeCorrect`, `ScoresLiveAsPublished`,
`RevokedForGood`, `PausedOracleIsFrozen`. The lifetime of a score needs that the period
in force is always an allowed one, which is part of `TypeOK`.

**The three programs together**

* `SystemIsPool`, `SystemIsPermissions`, `SystemIsOracle`: each step of the composition
  is a step or a stutter of each part, so all of the above hold of the system
  (`SystemHoldsCollateral` is an instance). For the pool this needs that every score
  gate 1 reads is one of `Scores`, which is `SystemScoresSound`.
* `PauseAlwaysStopsLending` and `LoansAlwaysRestOnScores` are facts of several parts:
  the second joins gate 1 with the lifetime and the tier of the scores.
* `SystemScoresLive`, `SystemRevokesForGood` and `SystemPauseFreezes` state the oracle's
  promises of the composition. `SoundOracle` and `RolesTyped` are the invariant: accounts
  are of their types, and the period in force is an allowed one.
* `LendingAlwaysCharged`: a disbursement and its charge are one step, so the sum of the
  principals grows by what the sum of the spending does. The sums have to be over
  finite sets, hence the hypotheses `IsFiniteSet(Pools)` and `IsFiniteSet(Wallets)`.

**The dashboard**

* `LedgerNeverTakesBack` is a fact of the pool that the others rest on: in no step does
  a loan change its borrower, principal or snapshot, repay less, lose its schedule or
  leave the status it ended in, a loan that is granted starts open and for more than
  nothing, and no index or earning falls (`GoesOn`, `Grows`). So
  what was read of a loan before an await still bounds what it is after it.
* `DashboardTypeCorrect` and `DashboardIsPool`. The pages add steps of their own and take
  those of the pool; what the handlers carry over their awaits are ids, amounts and
  offers that the pool's actions take (`HandlersCarry`). `DashboardHoldsCollateral`
  carries the custody of the collateral over to it, for one pool.
* `EstimatesAlwaysCovered` and `ShownAlwaysPast` are not inductive: a page is right only
  if the poll that fills it was. `RowsPast` and `FiguresPast` say of the rows and
  figures of every page, and of what every poll has read so far, that they are of the
  past (`BooksAlwaysPast`). `ShownAlwaysPast` is about the past only: an older answer
  may replace a newer one. `DebtsBound` adds, for one pool, that what a row read says
  is within the debt of its loan. A row read at an older index says less than is owed,
  since what is owed only grows with the index (`OwedGrows`), and less still when the
  loan is younger than the index. `DebtNeverFalls` carries it on over the steps of the
  pool: the debt of an open loan grows, and a loan that closes has taken it.
* `PaymentsWithinDebt`, for one pool and any number of clicks, follows from the same
  invariant: an amount is computed from a row that was covered when the click came, and
  stays so while it is under way.
* `StartedLoansAreReal`, from `StartsAreBacked`: from the moment the server goes on to the
  schedule the chain holds the borrower's loan under the id, with the principal the
  server carried out; from the approval on also its schedule.

**Origination**

* `OriginationTypeCorrect` and `OffersStayWithinPolicy`. The rate falls by at most
  `MAX_RATE_REDUCTION_BPS` a round, so the bound of an execution, which took its copy
  at some round, is that of the last one. `OriginationAssumption` asks that
  the base rates of all tiers, 400 to 1500 bps, lie between the floor and the ceiling
  of the rate, as they do with the constants of `lendingAgent.js`.
* `ApprovedLoansAreOnChain`, `OneExecutionForEachLoan` and `HistoryNeverAhead` are parts
  of, or follow from, one invariant (`LoansAlwaysAccounted`): an execution past its
  disbursement holds a loan of the chain that nobody else holds, the chain's next id
  is past every loan, and the loans on record together with the executions that are
  about to record one are at most the scheduled loans of a borrower (`RecordsClaimed`).

**Collection**

* `SchedulesBalance` is the invariant, from which `CollectionTypeCorrect`,
  `DefaultedAlwaysReal`, `NoticeAlwaysFirst` and `PullsAlwaysBounded` follow. Each
  schedule is balanced with the polls that hold it: instalments and reminders together
  with the polls that may still add one stay below the total plus the polls. The
  property alone is not inductive, since a poll between its check and its pull has
  looked at a schedule that others have moved on since.
* `ClosedAlwaysForCause`, from `CauseInv`: a schedule that is closed has its instalments
  pulled or the default on the chain, a poll that liquidates has a schedule whose loan
  defaulted, and neither is ever undone.

**Authentication**

* `TriesAlwaysBounded`, from `AttemptsCounted`. The record of an address counts its last
  failures; the failures that it does not count any more are fewer than the limit, or
  a lock-out has passed since (`FewForgotten`), because a record is dropped only when
  its lock-out is over or its first failure two lock-outs old. So of twice the limit of
  failures in a row the first and the last are a lock-out apart (`Spread`), which is
  the bound. `AuthTypeCorrect`.

**Credit agent and ML API**

* `EvidenceAlwaysRecent`, from `CreditCachesHold`: features were made of answers that
  were less than a term old then, and are used for less than a term.
* `CachedAsPublished`: a call that has landed carries the score and the tier it asked
  for and the tier the program gave; both count the thresholds passed, and these are
  the same (`SameThresholds`, an assumption that the runs evaluate: `scoring.py:37-40`
  and `state.rs:17-20`).
* `PushesAlwaysBounded`. Between two restarts the pushes confirmed in the cooldown and the
  calls past their check of it, forced ones apart, are together at most the calls; each
  restart of the agent in that cooldown adds as many at most. A call passes the
  check only when no cooldown runs, and then nothing is counted (`CooledDown`).

**The gateway**

* `GatewayTypeCorrect`, and `BreakerIsLeftInTwoSteps` from the invariant that an
  active breaker holds the pause.
* `DailyOverspendIsBounded`, for any number of requests. The bound itself is not
  inductive: a state at the bound with a disbursement still under way would pass it.
  `WithinRoom` counts what is under way: either what was spent leaves one limit for
  each disbursement that is under way, or it does once one of these, which was
  admitted below the limit, is charged. `StepKinds` reduces every step to one of four
  effects on an agent: its disbursements stay, one is admitted, one ends, or the
  process forgets them all.

**Wallets and yield agent**

* `RuntimeRunsWallets`: the composed process implements `WalletSpec`.
* `AgentsSignAsTold` and `WalletsSurviveRestarts`. The invariant `Keeps` places what
  was told in three places: the maps of the running process, the text a write has
  taken, and the file if it is whole. It needs that creations under way are of
  different agents and that at most one of them is writing, which is what `mishap`
  gives up, and that an agent whose creation has not derived its address yet was
  never told.
* `BridgedCapitalWasSent`: an entry is at most what its chain has received.

### Model-checked only

* `SessionsEnd` and `PauseTakesEffect` are liveness under fairness, which the prover does
  not reach.
* The counterexamples of `two_pools` and `history_unused` are behaviours, found by TLC.

Every invariant and every other action property that a passing run checks is also the
statement of a theorem. The types of origination, collection, authentication and the
dashboard are proved and are no part of a run.

## 5. Not modelled

* Signers and key custody; events; rent; token accounts of depositors and
  borrowers (they can always fund a transfer, or choose not to submit it).
* A counter-offer that is not a number: `Number` (`mcpServer.js:1147-1149`) may give NaN,
  which no comparison of `negotiate` caps. `OfferWithinPolicy` is about numbers.
* `interest_rate_bps` and `start_time` of a loan: stored and never read. Debt
  follows the pool's index alone.
* The u128 overflow of the index: `compute_new_index` fails above 2^128, some
  20 orders of magnitude from any index these rates reach.
* `set_collateral_price_oracle`, not dispatched: it replaces a signer's key.
* The wallet service's hourly count (`#checkRate`) and the bridge's rate buckets:
  counters of one agent that end in a refusal, which the models have as a call that
  fails. The parameter patterns of `SafetyLayer` and of the tools, for the same reason.
* Transfers and balance queries of the wallet and token services: they read a wallet
  and call an RPC. The encryption of the wallet file and the derivation of keys.
* The server's feeds of agents and decisions, event streams and notifications, and the
  list of pool snapshots it keeps (`mcpServer.js:485-492`): charts that nothing decides
  by. Of the dashboard the same charts and feeds, the layout, and the liquidity position
  of a depositor, which is displayed and not used.
* The audit logs. `auditLog.js:39` numbers an entry by the length of a log that is
  pruned at its limit, so that numbers repeat; sequential code that needs no model.
* The ML API's classifier, whose probability of default is any number, its
  explanations, the commitments and proof files of `zk_proofs.py`, the HTTP layer.
* `agent/src/index.js`, a driver that no other file uses; the scripts and the tests.

## 6. Plan

What is there, in the order it was built: the three programs with their proofs and
composition; origination, collection, authentication, the gateway; credit scoring with
the oracle; wallets and yield agent; the proofs about gateway and runtime; sums over
sets, and with them the books, the spending and the charge; the proofs about
origination, collection, authentication and the credit agent; the dashboard over the
pool with its proofs, and the oracle's promises of the composed system.

What would come next:

1. The dashboard over the composed system, so that `record-repaid` writes the history
   the next score reads, and what a reverted repayment does to it can be seen.
2. `LoanOrigination` over the whole of `LendingPool` in place of three of its guards,
   on an instance small enough for both.
3. What two pools keep: which of the theorems about one pool survive when the ids of
   the pools are kept apart by their operators.
4. The rest of the server: event streams, the kept pool snapshots, the transfers
   of the wallet service with their hourly limit.

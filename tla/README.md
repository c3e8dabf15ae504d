# TrustTrail in TLA+

Specifications of TrustTrail: the on-chain repayment record, the lending pool that prices loans from it, the backend
that reads outside histories, prepares transactions and hands out test tokens, and the parts of the web app that sign
and send. TLC checks the specifications on small instances; TLAPS proves the main results for every value of the
constants. Paths below are relative to the repository (`src/` in `PROJECT.json`).

## 1. The system

| Part | Where | State it keeps | Operations |
| --- | --- | --- | --- |
| Pool program | `programs/pool` | `PoolConfig` (total, fees, bad debt, an index and index units per tier), USDC vault, LP mint, a config and a vault per collateral, `BorrowerState`, `Loan` | init_pool, add_collateral, accrue_interest, deposit, withdraw, borrow, repay, liquidate |
| TrustTrail program | `programs/trusttrail` | `UserReputationV2`, `WriterWhitelist`, `GlobalConfig`; attestations (SAS) through a CPI | initialize, init_score_v2, add/remove_writer, record_event, set_imported_score, set_exposure |
| History import | `backend/src/history/importService.ts`, `store.ts` | Postgres `imports`, `import_loans` | prepareImport, submitImport, public views |
| Import preview | `preview.ts`, `previewWorker.ts`, `runWorker.ts` | Postgres `import_previews`, an in-process lock, a worker thread | previewImport |
| Outside history | `adapters/`, `heliusClient.ts`, `buildLoans.ts`, `prices.ts`, `importPlan.ts` | none | transactions → events → loans → priced loans → plan |
| Score views | `backend/src/score`, `scoring.ts`, `app/src/partner.ts` | none | score, standing, record, coverage, another lender's offer |
| Faucet | `backend/src/faucet` | Postgres `faucet_claims` | claim |
| Prepared transactions | `backend/src/pool` | none (reads the chain) | prepareBorrow, prepareRepay, prepareDeposit, prepareWithdraw, views |
| Price updates | `freshPrice.ts`, `priceRoutes.ts` | a shared Hermes answer per feed | post, use and close an update; GET /price-update |
| Admin scripts | `backend/src/admin` | none | setup, recomputeExposure, reports |
| Web app | `app/` | what its pages show | signs and sends |

How they interact. `borrow` reads the borrower's TrustTrail account and takes the live standing; `repay` and
`liquidate` call TrustTrail's `record_event` in their own transaction, with the pool's PDA as the whitelisted writer,
and TrustTrail creates the attestation by a call into SAS. The backend prepares transactions that the wallet signs;
imports carry the backend's signature too and are valid only with the wallet's. The backend reads the chain through an
RPC node and keeps what it must remember in Postgres. Only the preview lock and the price cache are shared memory.

What is hard, part by part, and what correct means:

- *Pool.* Instructions are atomic, so the difficulty is in sequences: the total, the tiers' index units and the loans'
  own debts are three records of one quantity, each rounded its own way at accrual, opening and closing; the collateral
  of many loans lies in one vault; shares are priced from the difference. Claims must be backed by loans, fees by
  assets, collateral by its vault; no step but a loss lowers the share price; a liquidator gets no more than the bonus, and the pool
  all that the collateral can pay.
- *TrustTrail.* Decaying penalties, two blended histories, saturating counters and a 90-day block, cached at one moment
  and read at another. The account must follow from the attestations, the cache must never be too good, no import may
  lift the block, and outcomes must move the score the right way.
- *Two implementations.* The score and the pool's arithmetic exist in Rust and again in TypeScript; the app promises
  what the second says and the first decides.
- *Import.* Ten awaits between reading the import date and marking the row confirmed, on a table other calls change. No
  loan may be counted twice; public rows must be true and permanent.
- *Preview.* A cache read before the lock is taken, limits counted before the row is reserved, a worker that may answer,
  fail, exit or hang against a timer. One read at a time, limits that hold, every call answered.
- *Outside history.* Five protocols, each with its own encoding of "everything"; liquidations signed by others; a history
  that is cut. The loans must be the borrow cycles that really happened.
- *Faucet.* Reserve, mint, undo across two systems that fail independently.
- *Prepared transactions.* What was read against what the transaction finds when it lands, with several tabs open.

`PROJECT.json` lists the hazards line by line, with the properties that cover each.

## 2. Modules

```
Scoring ─┬─ PoolMath ─┬─ Pool ─┬─ PoolService ── Prepared
         │            │        └──────────┐
         │            └─ CreditLedger     │        Lending implements CreditLedger
         ├─ TrustTrail ─┬─ ScoreView      │
         │              └──────────── Lending
         ├─ Import                                    Faucet    Preview
BuildLoans ── Adapters ─┬─ History
                Prices ─┘
```

| Module | Models | State and actions |
| --- | --- | --- |
| `Scoring` | `scoring.rs`, score constants | operators only |
| `PoolMath` | `rates.rs`, `math.rs`, `terms.rs` | operators only |
| `Pool` | `state.rs`, `oracle.rs` and the instructions of the pool | one action per instruction, each starting with `AccruedNow` as each handler starts with `accrue_now`; `Init` is `init_pool` |
| `PoolService` | `backend/src/pool/state.ts`, `service.ts`, `lender.ts`: the second implementation and the views | operators over `Pool`'s accounts |
| `Prepared` | the prepare calls, `freshPrice.ts`, `useSendPrepared.ts`, the borrow, repay and lender pages | `tabs` (what a page shows and the request it works on), `network` (signed transactions), `accounts` (those a prepared transaction creates and closes); the chain is `Pool` |
| `TrustTrail` | `state.rs` and the instructions of TrustTrail | one action per instruction; an attestation is a record keyed by the Loan's address |
| `ScoreView` | `scoring.ts`, `standing.ts`, `scoreService.ts`, `attestations.ts`, `exposureFix.ts`, `recomputeExposure.ts`, `partner.ts` | operators over `TrustTrail`'s accounts |
| `Lending` | the calls between the programs | `Borrow` takes the live tier; `Repay` and `Liquidate` are the pool's action and `RecordEvent` in one step |
| `CreditLedger` | what the two programs promise together | open loans and a history of outcomes |
| `Import` | `importService.ts`, `importPlan.ts`, `importTx.ts`, `store.ts`, `coverage.ts`, the network | one action per stretch between two awaits; `calls` holds each HTTP call's locals |
| `Faucet` | `faucet.ts` | the same |
| `Preview` | `preview.ts`, `previewWorker.ts`, `runWorker.ts`, the route | the same, and a worker per call |
| `BuildLoans` | `buildLoans.ts`, `loopscaleTerms.ts` | operators; the loop over events is a fold |
| `Adapters` | the five adapters, `common.ts`, `jupiterState.ts`, paging in `heliusClient.ts` | operators from transactions to events |
| `Prices` | `prices.ts` | operators |
| `History` | an outside protocol (external), `index.ts`, `readPreview`, `planImport` | a step is one transaction on the wallet's position, after which the backend reads the whole history; `cycles` is the reader's specification: the borrow cycles that closed, noted as they happen |

The theorems are in modules of their own: `PoolProofs`, `TrustTrailProofs`, `LendingProofs`, `ImportProofs`, `FaucetProofs`,
`PreviewProofs` and `PreparedProofs` each extend the module they are about (`TrustTrailProofs` with the views of `ScoreView`,
`PreviewProofs` with `Prices` and an instance of `BuildLoans`, the loans and prices a preview is made of), and `SumTheorems`
holds the lemmas on sums over finite sets that they share. Two variables are ghosts, read by properties only: `Prepared`'s `emptied` counts how
often the pool's last share was burned, and `History`'s `cycles` is the reader's specification; so is the
field `charged` of its `position`, the interest so far. `ServiceInit` is the service
before its first request, over any chain.

Conventions. An instruction that fails a `require!`, a checked operation or an account constraint is rolled back, so it
is a disabled action; `None` from a checked operation is `~Fits`. Signer and account checks are the parameters of the
actions. Operators whose comment begins with "Mutant" are plausible mistakes, used to test that each property can fail.

Units. `DAY` and `USDC_UNIT` are constants: the formulas use times and principals only as ratios, so an instance with a
day as the clock unit computes what the program computes on whole days. Debts and indexes do round, so `WAD` is a
constant too, and the instances choose it small (100) to make every rounding visible. The proofs hold for every value.

What is abstracted. Addresses are model values; token accounts of users have no balance, except the wallet's in
`Prepared`; a price update is `[feed_id, price, conf, publish_time]` and the caller may choose any that Pyth has signed;
one decimal shift (`PRICE_MUL`/`PRICE_DIV`) stands for decimals and exponent; SAS is a set of records that refuses a used
nonce. In `Import` a score is the set of loans it was computed from, and pricing drops any subset of the closed loans:
`History` computes it; `importHistory` answers a set of rows whose `Newest` is the first of the code's order. In `Faucet` the signature column is left out: it is never read. In `Adapters` an instruction is
the fields the adapters read from it, as the protocol encodes them; decoding of bytes is left out.

The environment of the backend. A transaction is valid until `TX_LIFETIME` after its blockhash and lands at most once, or
never. A call runs no longer than `MAX_CALL`. Sending may fail after forwarding; confirming may fail after landing; a
restart ends every call at any step, and Postgres rolls back its open transaction. A row deleted by an uncommitted
transaction blocks other writers of that row; a `DELETE` that waited looks again at the rows it saw and at no others (READ
COMMITTED). A database call of `Preview` or `Faucet` may fail with or without its effect.

## 3. What TLC checks

| Run | Instance | What it shows |
| --- | --- | --- |
| `pool` | one borrower, two loans of 200 or 400 at two tiers, prices at which the collateral covers the loan, the debt only, or neither; days 1, 26, 33, 300 | the three records of the debt agree (`ClaimsBacked`, `UnitsAreOpenLoans`), collateral is in its vault (`CollateralHeld`), the backend shows the program's books (`ViewIsBooks`), and just what it shows as closable or withdrawable is (`ViewIsProgram`), the liquidator's reward is bounded and the pool is paid the debt or what the collateral is worth, a loan does not open liquidatable beyond the units of rounding |
| `pool_lenders` | two lenders, six deposits or withdrawals, up to two loans that may end as bad debt | fees stay covered by assets; a share loses value only by a loss beyond the fee reserve |
| `trusttrail` | one wallet, two loans of two sizes with or without due dates, two imports, two exposures | the score page shows the program's standing (`ViewIsStanding`), cached standing is a floor, the 90-day block holds |
| `trusttrail_history` | five loans, one import; counters end at 4, sums at 300,000 | the account follows from its attestations, also where the fifth loan has filled a counter and the volume repaid; a penalty re-decayed at every record stays within 5 bps and 0.2% of the penalties per record of one decayed once; an import of the same loans is worth what they are natively; an on-time repayment helps and a bad outcome hurts |
| `lending` | one borrower, two loans, before and after due date, grace period and block | one record per closed loan, limits rest on records, the pair implements `CreditLedger` |
| `imports` | one wallet, one outside loan, two calls at a time, three imports, two cooldown periods | no loan counted twice, confirmed rows are on-chain, the public history only grows |
| `faucet` | one wallet, three claims, two cooldown periods | one claim at a time; two mints in 24 hours need a claim answered with an error; a success is never forgotten |
| `preview` | one wallet, three calls from two addresses, an hour, a day and the cache's time crossed | clock values 1, 2, 3, 4, where 3 is an hour after 1 and not after 2, so that a call of 2 may count after the read of a call of 3: one read at a time and the lock never left held; both limits over the reads really started; answers served from the cache; `retryAt` is far enough; every call is answered |
| `history` | each of five protocols, four transactions, one to a page, a debt that bears a unit of interest in five, a history of at most six units or three pages, two price sources | the loans read are the cycles that closed; a cut history loses nothing else without saying so; no debt is counted by two imports; a Jupiter liquidation that took more than the interest is seen; prices come from the nearest source |
| `prepared` | one wallet with two tabs, another lender and borrower, two requests a tab, one outside event | what a current page prepares lands, and what it refuses would fail; a withdrawal pays its quote however late; no two loans under one answer |
| `import_kept`, `faucet_once` | the same instances | counterexamples, below |

Why these bounds are enough to be interesting. In the pool, errors of the books come from closing one loan while another
of the same or another tier is open, with accrual between, so two loans are needed and suffice; a term is 30 days and the
grace 3, so a loan of day 1 is on time on 26, late on 33 and in default on 300, when its interest is several units.
`MAX_U64` is set just above the honest totals, so the overflow guards are reached. In `trusttrail_history` the fifth loan of one
outcome fills its counter and the volume repaid; the weight sums cannot be filled by five loans, since the width must hold
`FULL_WEIGHT_BPS`: `HistoryIsAttested` proves the rest. In TrustTrail, 100/130/230/400 half
days fall within and past the import cooldown, the exposure deadline and the 90-day block of each other. In the backend,
two calls at a time allow a prepare or submit and an intruder; three faucet claims two that race and one after the
cooldown; three previews of one wallet a read, a second one and a caller the cache should serve. The races of `Preview`
come from calls of one wallet and from the limits across addresses; calls of different wallets share only the lock and
the daily limit, which the same calls exercise. Four transactions let a position be opened, grown, closed and opened
again. In `Prepared` one outside event between a read and a landing is what stale state needs; `OnePage` keeps each
tab on one page, since pages share nothing.

Every property of a run has a mutant in `PROJECT.json`: a plausible mistake in a definition that makes TLC refute it.

`CHECK_DEADLOCK FALSE` where it stands: the clock, the calls and the loans are finite, so an instance really stops.

Conditions carried by properties, and why:

- `OpensHealthy`: a debt is rounded up twice, so health at opening holds up to `⌈index/WAD⌉` units.
- `PenaltyPathIndependent`, `SummaryMatchesNative`: the penalties add up to no more than `MAX_U64`, past which the program's
  sum saturates and no longer says what they were.
- `OnTimeHelps`, `BadOutcomeHurts`: each record moves weight from the imported to the native score, so a repayment can
  lower, and a liquidation raise, the score of a wallet whose import is better, or whose exposure is smaller, than its
  native record. The conditions name exactly those wallets. `BadOutcomeHurts` allows one point more when the
  rounding of the sums hides the whole of a small penalty, a case the proof found and no bounded history reached.
- `RetryAtIsEnough` counts the rows no later than the caller's own call: at the time a refused caller is told, those are
  below the limit. Calls that came in meanwhile may have filled it again, which no answer can promise away.
- `History`: *DistinctSeconds* — two events of one position in one second keep fetch order, and which is right is not in
  the data. *NoRollover* — a Loopscale repay in a transaction that borrows again is given the new term's due date, and a
  Jupiter repay-all there shows only the vault's net change (`jupiterLend.ts:48`). *NotJupiter* — a Jupiter liquidation is
  read from the position's state, so its loan is closed by a synthetic event and a later repay of the rest closes another.
  A debt bears interest between transactions, and a cycle is reckoned as the code does, in amounts borrowed and repaid:
  interest left over when these are equal neither keeps a cycle open nor counts as debt. `LiquidationSeen` speaks of
  liquidations that took more than all the interest the position was ever charged. Without that condition TLC refutes it:
  borrow 1, owe 2, 1 is liquidated, repay the 1 that is left. `buildLoans.ts:56` takes a repay of everything for a
  liquidation when less was repaid than borrowed, but what was repaid includes interest (`jupiterLend.ts:48`), so the loan
  reads as repaid on time, and the position's state, read next, has no debt and was not liquidated since.
  Two equal events in one transaction are one event after `dedupe`; a refinance to an unknown duration falls back to the first due date; a history cut by age is not flagged as capped; events of an unknown mint and
  more than one failed transaction are left out.
- `QuoteHolds`: not for a quote whose two reads straddled a change, nor across a written-off loss, nor once the pool was
  emptied: the deposit after that is one to one again, and interest that rounding left behind is no longer the old shares'.
  (Without the last condition a sole lender with two tabs withdraws, deposits anew, and the other tab's shares are worth less.)
  A straddled read may even give a negative number of shares, which fails to encode as a u64: no transaction is prepared. `AnswerIsProgram`
  speaks of answers whose page is still current: figures on a page may be stale, and it is read again before the next
  request. "Max" for less than one share is refused. The two reads of the market are two steps of `Prepared`; the later ones
  of a call (`service.ts:251-300`: borrower, Hermes, balance, accounts) are one step with the answer. No property can tell:
  an answer with a change between its reads is not fresh, and `OneLoanPerAddress` rests on the program's check of the address.
- `ConfirmedStays`: two prepares that fall in one slot give the same message, so one transaction may get two public rows.

Two runs are counterexamples: each states a sentence of the repository and TLC refutes it.

| Run | The sentence | What happens |
| --- | --- | --- |
| `import_kept` | `backend/src/history/store.ts:4` "Every import is kept" | a second prepare deletes the pending row of an import that is in flight; `submitImport` ignores that nothing was confirmed. `ThroughBackend` in `MCImportClaims` leaves out wallets that send by themselves, so that the trace shows this cause and no other |
| `faucet_once` | `backend/src/faucet/faucet.ts:76` "Nothing was minted: give the claim back" | the answer of a mint that landed is lost, the claim is given back, the wallet claims again |

Smaller divergences, seen while modelling and not made runs: a loan of a few base units owes one more after rounding and
can be liquidatable at once (`docs/security-model.md:17`, `terms.rs:68`); a default of $100 or less has weight 0 in every part
of the score (`scoring.rs:69`); a loan closed after the history was read and before its import landed is never new and was never
counted (`importPlan.ts:17`); an outside loan closes when the amounts repaid reach those borrowed, though interest may still be owed
(`buildLoans.ts:54`, `docs/history-import.md:37` "when the debt reaches zero"); a Jupiter Lend liquidation no larger than the
interest paid can be missed by both of the "two ways" of `adapters/jupiterLend.ts:2` (`LiquidationSeen`, above); `withdraw` has
no utilization check, so the idle tenth of `docs/lending-pool.md:65` is a guard of
`Borrow` and not an invariant.

Fairness. Only `Preview` states it: `FairSpec` has weak fairness of `Serve(c)` for each call, that is of the API's own
steps. A database query is answered or fails, and a timer fires: Node and the driver give both, and each leaves the call at
a definite next step. The worker owes nothing: it may hang for ever, and `EveryCallAnswered` holds because the timer settles the
promise; `void worker.terminate()` is not awaited, so a worker that will not die delays nobody. Weak fairness suffices since
nothing but the call's own steps and a restart, which ends it, disables them. For the programs no liveness is claimed: Solana lands what
it lands, and nothing in the repository obliges anyone to repay, to liquidate, or to put a removed writer back.

## 4. What TLAPS proves

All from the named assumptions on the constants: units and scales are positive (`UnitAssumption`, `ScaleAssumption`), the
input sets hold numbers, a counter can reach 1 and a sum the weight of one full loan (`InputAssumption`,
`TrustTrailAssumption`, `FaucetAssumption`, `PageAssumption`), "no account", "no value" and "no price" are none
(`AccountAssumption`, `NullAssumption`, `ViewAssumption`, `PriceAssumption`), an
attestation of our schema and signer is one the program wrote (`ViewAssumption`), an outside loan has an owner and there are
finitely many protocols (`ImportAssumption`), and four that say something of the code: `PlanAssumption` (a call and a
blockhash together are shorter than the 15 days of `IMPORT_COOLDOWN_SECS`: minutes), `CooldownAssumption` (a call is shorter
than the faucet's day), `PreviewAssumption` (limits are positive) and `KeepAssumption` (an hour is no longer than a day, a
call no longer than a day, and an answer is served for less time than its row is kept: 6 hours by default against two days; a
deployment that sets `IMPORT_PREVIEW_CACHE_HOURS` to about 48 or more would break it, and would silently get two days).

| Module | Theorems |
| --- | --- |
| `SumTheorems` | lemmas: a sum over a finite set, with one element more or less, scaled, split, grouped by a key, counted |
| `PoolProofs` | `SplitIsExact`, `RewardBounded` (a liquidation's arithmetic); `Inductive`, `TypeCorrect`, `FeesCovered`, `SharePrice`, `RewardIsBounded`; `AccountsKept`, `UnitsAccounted`, `CollateralAccounted`, `TotalBacked`, `CloseCovered`, `NewLoansHealthy`; `LoansAreCounted` |
| `TrustTrailProofs` | lemmas on `Scoring`: a penalty only falls with time, native score, blend and tier are monotone; `Inductive`, `TypeCorrect`, `CacheNeverFlatters`, `CooldownKept`, `HistoryIsAttested`, `OnTimeNeverHurts`, `BadOutcomeNeverPays`, `PenaltyKeepsPath`; `ViewIsTrue`, `SummaryIsNative`, of `ScoreView` |
| `LendingProofs` | `Inductive`, `OneRecord`, `LimitAttested`, `RecordRefined`, `PoolRefined`, `LedgerImplemented` |
| `ImportProofs` | `NothingCountedTwice`, `PublicIsOnChain`, `HistoryOnlyGrows` |
| `FaucetProofs` | `OneClaimAtATime`, `SuccessNeverForgotten`, `ExtraMintNeedsFailure` |
| `PreviewProofs` | `OneRead`, `AnsweredOnce`, `ReadsWithinLimits`, `RetryAtHolds`; of what a preview reads, `LoansInOrder`, `PricesAreNear`, `PositionPriced` |
| `PreparedProofs` | `ReadsAgree`, `ViewsAgree`, `BooksAreShown`, `ServiceInductive`, `QuotesHold`, `LoansStayOne` |

*Sums.* A sum over a set is a fold, which the library defines by choosing an element after another. `SumTheorems` proves that
any choice gives the same number: `NaturalInduction` and `SubsetInduction` are stated over sets (the least number, the
smallest subset, for which a claim fails), which needs no operator as a parameter. `SumAdd` and `SumRemove` are then what
every invariant over sums rests on.

*Pool, the totals.* `Solvent` alone is not inductive: removing a closed loan's debt is a saturating subtraction, and accrual
replaces the total by the re-priced sum, so the total could drop under the fees unless the re-priced sum covers it, the first
half of `ClaimsBacked`: indexes only grow, units are taken with a rounded-up debt, each tier's re-pricing rounds down, and
`⌊a+b⌋ ≥ ⌊a⌋ + ⌊b⌋` while the debt removed is a ceiling. `SoundBooks` states both for a pair of books and a balance, since
every instruction works on the accrued books before it moves money; one lemma per action lifts it to the state, and the
share price is proved in the same steps: accrual adds at most a tenth of the interest to the fees, a closed loan brings at
least what leaves the total, a loss takes from the fees first, deposits and withdrawals round down.

*Pool, the loans.* `Accounts` says that the loans are finitely many, one to an address and numbered below their borrower's
counter, and that each tier's units and each vault's collateral are the sums over the open ones. Opening adds one term,
closing removes it, anything else changes none. `CloseCovered` follows (one term is at most the sum, so the checked
subtraction of `repay` and `liquidate` cannot fail), and `TotalBacked`, the second half: the re-priced units are the
sum of the loans' units, and a loan's own debt is rounded up where the tier's is rounded down. `LoansAreCounted`: the
loans a borrower ever made are those numbered below its counter, one to a number: no address is used twice, none is skipped.

*TrustTrail.* The cache is a floor because time alone only improves a standing (`DecayFalls`: within a half-life the line
between two rows falls, across half-lives halving a smaller number; then `NativeRises`, `BlendRises`, `TierRises`) and every instruction that
changes an account refreshes it. The block needs `DatesKept`: the account's date of the last bad outcome is at least every bad record's,
so `ComputeTier`, which sees one date, refuses for all of them. `HistoryIsAttested`: each record adds one term to the sum over
the attestations, and a saturated counter stays saturated since the terms are not negative. `BadOutcomeNeverPays`: a bad
outcome adds the same number to the penalty and to the exposure; where the native score is at least the imported one, the
weight that moves to it cannot bring back what the penalty took, up to one rounding (`PenaltyOutweighs`).

*TrustTrail, penalties over time.* `PenaltyKeepsPath` compares a total re-decayed at each record with the records' penalties
decayed once. `SumsKept` is inductive: the held total differs by at most the slack of the records so far. A step decays what
was held from its date, so it needs that decaying twice is nearly decaying once: within a half-life the table's lines nearly
multiply (`LinesMultiply`: the product of two rows' factors is within 18 parts in 10,000 of the row of the sum), across one
the halving costs a rounding, and a record's own decay loses less than 1 bps. The bound the model first stated (1 bps and 10
parts in 10,000 per record) had never failed on a bounded run, and the proof could not close it: with seven bad loans,
penalties of 15, 10, 49, 21, 47, 43, 42 bps closed on days 90, 179, 184, 195, 196, 197, 335 leave 71 on day 379 one way and
63 the other, one more than that bound allowed. `SummaryIsNative` follows for the import's sums.

*Score view.* `ViewIsTrue` first proves that the second implementation of the tables, the decay, the blend and the gates
computes the program's numbers (`DecayAgrees`, `WeightAgrees`, `TierAgrees`, `StandingAgrees`). `GateNamed`: below Gold, the
next tier is not among those passed, so one of the gates shown is not met. Any records can be listed newest first
(`ListingExists`), and a list without repetitions of as many members lists them all, so the sum the exposure script makes of
the page's list is the sum over the attestations (`SumReindexed`), which `HistoryIsAttested` keeps at or above the exposure
held. The other lender's offer falls with the tier, and its cached tier is a floor; the surcharge needs a liquidation counter
that a bad record leaves above zero.

*The two programs.* `RecordRefined` and `PoolRefined` map every step of `Lending` to a step or a stutter of each program, so
their theorems carry over. The invariant keeps loans distinct by address, a record for each closed loan with the outcome the
clock gives, and the limit as the largest on-time record. `LedgerImplemented` needs all of it: a loan opens within
`CreditLedger`'s limit by `LimitAttested`, outside its block by TrustTrail's `CooldownKept` through the refinement,
under a fresh id by the counter; it closes once since the map from Loan accounts to ledger loans is one-to-one.

*Import.* `PlanOk` and `ReadOk`: a plan that may still land was made against the wallet's present date, or another import
landed since its call began, and then it expires before the cooldown is over. What is public needs three more facts: a row of
the table is what its prepare planned, a confirmed row's transaction landed, and a call that is about to confirm has seen its
own transaction land, whatever other calls did to the table between two of its awaits.

*Faucet.* While a call holds a claim, the wallet's row is that claim, since no other call can reserve within a day and calls
are shorter.

*Preview.* The lock follows the phase of one call; the row of an answered read stays in the table, done, until no call it
could serve is left (`RowKept`, `NeverLate`). `WithinLimits` counts reads that really started, while the code counts rows, so
the invariant ties them: each read has its own row, kept until it is too old to count (`ReadKept`); a call that passed a
count still has room when it reserves, since under the lock no other call reserves in between (`RoomFor`); windows that start
before the clock of the counting call hold what they held. `RetryAtHolds`: at `retryAt` the oldest counted row has left.

*Outside histories.* `LoansInOrder` speaks of any sequence of events, whatever the adapters made of the chain. Sorting is
proved to list every event once in the order of time, and the loop over them is followed state by state: the open
loan of each position is one whose borrow, peak and due date are events already read (`BInv`), no finished loan of that
position ends after it opened, and so loans of one position never overlap, a liquidation is never shown as repaid and on
time means by the due date. `PricesAreNear`: a price is as near as Birdeye's best, and as near as the first Binance trade
unless an earlier loan of the list peaked later in the same minute. The condition came from the proof: the minute is cached
for the loan that is priced first, and when that one peaked later, a trade between the two peaks is lost and the
next may be far. Loans of one position follow each other, so `PositionPriced` needs no condition, which is why no run of
`History` (one position) could show it.

*Prepared transactions.* The second implementation first: `AccrueRead` proves that the backend's accrual, a fold over the
tiers in another order of operations, gives the program's books (`ReadsAgree`). `ViewsAgree` says the same of what is made of
them: amounts up to the offer are those the guards of `borrow` let through, a health below the threshold after a division is
the program's comparison of products, and withdrawable equals value just when the vault can pay. `BooksAreShown` is the
state invariant: what the views show of total, offer and loans by tier are the books of any reachable pool, where the counts by
tier need the loans regrouped by borrower (`LoansAreCounted`). Then what happens to an
answer before it lands: `SInv` gives each tab and each signed transaction its shape, and a step of the service leaves the chain
alone, moves the clock, or is a step of `Pool`. `QuotesHold` needs more than `SharePrice`, which is about recorded books:
`PricesKept` adds that the worth of a share *with the interest up to the clock* falls by no step short of a loss, since a
longer accrual grows assets, so a quote once covered by its shares stays covered while the pool is not emptied.
`LoansStayOne` rests on `Accounts`: the address asked for is the borrower's next, and all loans are below it. `ServiceSpec`
starts from any chain that satisfies the pool's two invariants, as the instance does, and `Pool`'s own `Init` is one.

Only model-checked.

- Liveness and `ENABLED` are beyond TLAPS: `EveryCallAnswered`; `AnswerIsProgram` and `ViewIsProgram`, which say that an
  instruction is enabled (`ViewsAgree` proves their arithmetic against the guards, one by one).
- The five invariants of `History` run the whole reader, five adapters and a pager over sequences of transactions, against the
  protocols as the specification's own ghost records them. The library's induction takes an operator as a parameter, so
  each of these folds would need an induction of its own over sets, as `SumTheorems` and `LoansInOrder` make for theirs. What
  is proved is the part after the adapters: building the loans and pricing them, for events of any kind.

## 5. Not modelled

- `initialize` of TrustTrail: written once by the upgrade authority, no handler changes it; the admin is a fixed actor.
- Donations to the vault (`docs/security-model.md:46` names the limit).
- `auth.ts`: the message a wallet signs before a prepare. The wallet of a call is its parameter.
- Decoding of bytes, Jupiter's SDK state and HTTP retries; `cachedHistory` keeping a failed read for its lifetime.
- `priceRoutes.ts`: the shared Hermes answer is shown and never used by a prepared transaction.
- Setup scripts, SAS scripts, reports: run by hand, once. `setupPool` decides each step by what it reads, so its deposit
  could be sent twice after a landing it did not see.
- `server.ts`, `db.ts`, the pages that only show an answer, styling, generated interfaces: no state of their own.

Left for later: a model of `setupPool` with lost answers.

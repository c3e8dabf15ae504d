---------------------------- MODULE PoolService ----------------------------
(*****************************************************************************)
(* What the backend says of the pool: its second implementation of the       *)
(* program's rates, debt and share math (backend/src/pool/state.ts) and the  *)
(* answers of GET /pool, /loans/:wallet, /pool/loans and /lender/:wallet     *)
(* (service.ts, lender.ts).  Names are the source's; numbers are bigints, so *)
(* nothing overflows and "/" truncates toward zero, which on the naturals is *)
(* \div; assets put together from two reads may lie below zero.  An answer's *)
(* strings, addresses and unit conversions are left out.                     *)
(*****************************************************************************)
EXTENDS Pool

\* What an answer gives in place of a number it cannot compute.
CONSTANT Null

ASSUME NullAssumption == Null \notin Int \cup PriceUpdates

-----------------------------------------------------------------------------
(* Accounts read back (state.ts, accounts.ts): the fields the backend keeps. *)

PoolState == {"total_borrowed", "protocol_fees", "last_accrual", "tier_index",
              "tier_scaled_debt", "bad_debt"}
parsePool(account) == Restrict(account, PoolState)

CollateralState == {"feed_id", "min_tier", "max_age", "threshold", "bonus"}
parseCollateral(account) == Restrict(account, CollateralState)

LoanState == {"borrower", "loan_id", "tier_at_open", "principal", "scaled_debt",
              "collateral_mint", "collateral_amount", "opened_at", "due_at", "status"}
parseLoan(account) == Restrict(account, LoanState)

\* An account that does not exist yet reads as zeros, as in the state.
parseBorrowerState(account) == Restrict(account, {"largest_repaid", "next_loan_id"})

\* Null for an account that is not a fully verified update.
parsePriceUpdate(account) ==
  IF account = Null THEN Null
  ELSE Restrict(account, {"feed_id", "price", "conf", "publish_time"})

-----------------------------------------------------------------------------
(* The arithmetic (state.ts) *)

utilizationBps(borrowed, idle) ==
  LET total == borrowed + idle IN IF total = 0 THEN 0 ELSE (borrowed * BPS) \div total

borrowRoom(borrowed, idle) ==
  Larger((MAX_BORROW_UTIL_BPS * (borrowed + idle)) \div BPS - borrowed, 0)

baseRateBps(util) ==
  IF util <= KINK_UTIL_BPS
  THEN BASE_RATE_BPS + (util * (KINK_RATE_BPS - BASE_RATE_BPS)) \div KINK_UTIL_BPS
  ELSE KINK_RATE_BPS + ((Smaller(util, BPS) - KINK_UTIL_BPS)
                          * (MAX_RATE_BPS - KINK_RATE_BPS)) \div (BPS - KINK_UTIL_BPS)

tierRateBps(base, spread) == IF base + spread > 0 THEN base + spread ELSE 0

\* The spreads are read from the account, which only init_pool writes.
tierRatesBps(p, idle) ==
  LET base == baseRateBps(utilizationBps(p.total_borrowed, idle))
  IN  [t \in Tiers |-> tierRateBps(base, TierSpreadBps[t])]

growIndex(index, rate, dt) == index + (index * rate * dt) \div (BPS * YEAR_SECS)

\* Mutant: the debt is re-priced but the indexes the loans are read with are not.
accrueTotalsOnly(p, at, idle) ==
  LET rates == tierRatesBps(p, idle)
      owed(t) == (p.tier_scaled_debt[t] * growIndex(p.tier_index[t], rates[t], at - p.last_accrual))
                   \div WAD
  IN  IF at <= p.last_accrual THEN p
      ELSE [p EXCEPT !.total_borrowed = FoldFunction(+, 0, [t \in Tiers |-> owed(t)]),
                     !.last_accrual = at]

\* The pool as the next instruction will see it.
accrue(p, at, idle) ==
  LET rates == tierRatesBps(p, idle)
      index == [t \in Tiers |-> growIndex(p.tier_index[t], rates[t], at - p.last_accrual)]
      total == FoldFunction(+, 0, [t \in Tiers |-> (p.tier_scaled_debt[t] * index[t]) \div WAD])
      interest == IF total > p.total_borrowed THEN total - p.total_borrowed ELSE 0
  IN  IF at <= p.last_accrual THEN p
      ELSE [p EXCEPT !.tier_index = index,
                     !.total_borrowed = total,
                     !.protocol_fees = @ + (interest * RESERVE_FACTOR_BPS) \div BPS,
                     !.last_accrual = at]

\* Mutant: the fee reserve counted among what lenders own.
totalAssetsWithFees(p, idle) == idle + p.total_borrowed
totalAssets(p, idle) == idle + p.total_borrowed - p.protocol_fees

\* What lenders earn in a year, in bps of what they own.
lenderApyBps(p, idle) ==
  LET assets == totalAssets(p, idle)
      rates == tierRatesBps(p, idle)
      interest(t) == ((p.tier_scaled_debt[t] * p.tier_index[t]) \div WAD) * rates[t]
      yearly == FoldFunction(+, 0, [t \in Tiers |-> interest(t)])
  IN  IF assets <= 0 THEN 0
      ELSE ((yearly * (BPS - RESERVE_FACTOR_BPS)) \div BPS) \div assets

debtNow(scaled, index) == (scaled * index + WAD - 1) \div WAD

maxLoan(tier, largestRepaid) ==
  LET growth == Larger(largestRepaid * 2, MIN_LOAN_CAP)
  IN  IF TierMaxLoan[tier] < growth THEN TierMaxLoan[tier] ELSE growth

\* 10^shift is PRICE_MUL above zero and 1 / PRICE_DIV below.
collateralValue(amount, price) == (amount * price * PRICE_MUL) \div PRICE_DIV

\* Mutant: the smallest collateral rounded down.
minCollateralDown(loan, ratio, price) ==
  (CeilDiv(loan * ratio, BPS) * PRICE_DIV) \div (price * PRICE_MUL)

\* Both divisions round up.  Updates whose confidence reaches the price, which
\* the code would divide by or take below zero, are not among the inputs.
minCollateral(loan, ratio, price) ==
  LET needed == (loan * ratio + BPS - 1) \div BPS
      per == price * PRICE_MUL
  IN  (needed * PRICE_DIV + per - 1) \div per

Magnitude(n) == IF n < 0 THEN -n ELSE n
\* A bigint's "/".
Quotient(n, d) ==
  LET q == Magnitude(n) \div Magnitude(d) IN IF n < 0 <=> d < 0 THEN q ELSE -q

sharesForDeposit(amount, assets, supply) ==
  IF supply = 0 \/ assets = 0 THEN amount ELSE Quotient(amount * supply, assets)

assetsForShares(burned, assets, supply) ==
  IF supply = 0 THEN 0 ELSE Quotient(burned * assets, supply)

sharesForWithdraw(amount, assets, supply) ==
  IF assets = 0 THEN 0 ELSE Quotient(amount * supply, assets)

-----------------------------------------------------------------------------
(* service.ts and lender.ts: the market, and what the answers say of it.    *)

\* readMarket: the pool, the clock and the collaterals of a first read, the
\* vault and the collaterals' sponsored feeds of a second.
Market(stored, clock, vaultBalance, feeds) ==
  LET p == accrue(parsePool(stored), clock, vaultBalance)
      update(c) == parsePriceUpdate(feeds[c])
  IN  [now |-> clock, pool |-> p, idle |-> vaultBalance,
       rates |-> tierRatesBps(p, vaultBalance),
       collaterals |-> [c \in {c \in Mints : collateral[c] # NoConfig} |->
         [config |-> parseCollateral(collateral[c]),
          lowPrice |-> IF update(c) = Null THEN Null ELSE update(c).price - update(c).conf]]]

getPoolView(m) ==
  [totalBorrowed |-> m.pool.total_borrowed, totalAssets |-> totalAssets(m.pool, m.idle),
   badDebt |-> m.pool.bad_debt, reserve |-> m.pool.protocol_fees,
   utilization |-> utilizationBps(m.pool.total_borrowed, m.idle),
   lenderApy |-> lenderApyBps(m.pool, m.idle),
   borrowRoom |-> borrowRoom(m.pool.total_borrowed, m.idle),
   tiers |-> [t \in Tiers |-> [apr |-> m.rates[t], maxLoan |-> TierMaxLoan[t],
                               collateral |-> TierCollateralBps[t]]]]

healthBps(value, debt) == IF debt > 0 THEN (value * BPS) \div debt ELSE Null

\* Mutant: a late loan shown as in default as soon as it is due.
graceEndsWhenDue(l) == l.due_at
graceEndsAt(l) == l.due_at + DEFAULT_GRACE_SECS

\* Null where the sponsored feed could not be read.
loanView(m, l) ==
  LET debt == debtNow(l.scaled_debt, m.pool.tier_index[l.tier_at_open])
      c == m.collaterals[l.collateral_mint]
  IN  [debt |-> debt, apr |-> m.rates[l.tier_at_open],
       health |-> IF c.lowPrice = Null THEN Null
                  ELSE healthBps(collateralValue(l.collateral_amount, c.lowPrice), debt),
       liqThreshold |-> c.config.threshold,
       state |-> IF m.now <= l.due_at THEN "active"
                 ELSE IF m.now <= graceEndsAt(l) THEN "late" ELSE "defaulted"]

\* rep is the tier and whether there is a score account: TrustTrail's standing.
readBorrower(b, tier, hasScoreAccount) ==
  LET bs == parseBorrowerState(borrower_state[b])
  IN  [tier |-> IF hasScoreAccount THEN tier ELSE UNPROVEN,
       hasScoreAccount |-> hasScoreAccount,
       largestRepaid |-> bs.largest_repaid, nextLoanId |-> bs.next_loan_id]

openLoans(b) == {parseLoan(l) : l \in {l \in loans : l.borrower = b /\ l.status = OPEN}}

\* /loans/:wallet: what the wallet may ask /borrow/prepare for, and its loans.
getLoansView(m, b, of) ==
  [offer |-> [maxLoan |-> Smaller(maxLoan(of.tier, of.largestRepaid),
                                  borrowRoom(m.pool.total_borrowed, m.idle)),
              tierMaxLoan |-> TierMaxLoan[of.tier], collateral |-> TierCollateralBps[of.tier],
              apr |-> m.rates[of.tier],
              collaterals |-> {c \in DOMAIN m.collaterals :
                                 m.collaterals[c].config.min_tier <= of.tier}],
   loans |-> {[loan |-> l.loan_id, view |-> loanView(m, l)] : l \in openLoans(b)}]

\* /pool/loans: every Loan account, counted by the tier it was opened in.
getPoolLoansView(m) ==
  [t \in Tiers |->
     LET made == {l \in {parseLoan(account) : account \in loans} : l.tier_at_open = t}
         count(status) == Cardinality({l \in made : l.status = status})
     IN  [loans |-> Cardinality(made), lent |-> SumFunctionOnSet([l \in made |-> l.principal], made),
          open |-> count(OPEN), repaid |-> count(REPAID),
          liquidated |-> count(LOAN_LIQUIDATED), defaulted |-> count(LOAN_DEFAULTED)]]

readPosition(m, lender) ==
  [shares |-> lp[lender], supply |-> lp_supply, assets |-> totalAssets(m.pool, m.idle)]

\* /lender/:wallet
getLenderView(m, p) ==
  LET value == assetsForShares(p.shares, p.assets, p.supply)
  IN  [value |-> value,
       shareOfPool |-> IF p.supply = 0 THEN 0 ELSE (p.shares * BPS) \div p.supply,
       withdrawable |-> Smaller(value, m.idle)]

-----------------------------------------------------------------------------
(* Properties *)

Seen(update) == Market(pool, now, vault, [c \in Mints |-> update])

\* Read in one piece, the market is the books as the next instruction will see
\* them: the offer is the largest loan that passes the program's limit, vault and
\* cap, and the loans counted by the tier they were opened in are those that the
\* accounts of the wallets that ever borrowed have counted (service.ts, borrow.rs).
ViewIsBooks ==
  LET m == Seen(Null)
      shown == getPoolLoansView(m)
      borrowed == {b \in Borrowers : borrower_state[b].next_loan_id > 0}
  IN  /\ m.pool = Accrued(pool, vault)
      /\ \A b \in Borrowers, t \in Tiers :
           LET max == getLoansView(m, b, readBorrower(b, t, TRUE)).offer.maxLoan
           IN  \A x \in {max, max + 1} \ {0} :
                 (/\ x <= MaxLoan(t, borrower_state[b].largest_repaid) /\ x <= vault
                  /\ WithinBorrowCap(m.pool.total_borrowed, vault, x)) <=> x = max
      /\ SumFunctionOnSet([t \in Tiers |-> shown[t].loans], Tiers)
           = SumFunctionOnSet([b \in borrowed |-> borrower_state[b].next_loan_id], borrowed)
      /\ SumFunctionOnSet([t \in Tiers |-> shown[t].open], Tiers)
           = SumFunctionOnSet([b \in borrowed |-> borrower_state[b].open_loans], borrowed)

\* What the answers say of the loans and shares is what the instructions would
\* do: a liquidator can close at a price just the loans shown as defaulted or
\* under the threshold at it, and every share can leave when the page offers it
\* (service.ts, lender.ts, PoolPage.tsx Position).
ViewIsProgram ==
  /\ \A update \in PriceUpdates : \A l \in OpenLoans :
       LET v == loanView(Seen(update), l)
       IN  UsablePrice(update, collateral[l.collateral_mint]) =>
             (ENABLED Liquidate(l, update)
                <=> v.state = "defaulted" \/ v.health < v.liqThreshold)
  /\ \A lender \in Lenders :
       LET m == Seen(Null)
           v == getLenderView(m, readPosition(m, lender))
       IN  lp[lender] > 0 =>
             (ENABLED Withdraw(lender, lp[lender]) <=> v.withdrawable = v.value)
=============================================================================

------------------------------ MODULE PoolMath ------------------------------
(*****************************************************************************)
(* The pure arithmetic of the lending pool program: the interest curve       *)
(* (programs/pool/src/rates.rs), the lender share math (math.rs) and the     *)
(* loan terms (terms.rs).  Quantities are naturals; Rust's "/" is \div on    *)
(* them.  A None of the code (a value that does not fit u64) is a FALSE of   *)
(* Fits at the call.                                                         *)
(*****************************************************************************)
EXTENDS Scoring

CONSTANTS
  WAD,                  \* fixed-point 1.0 of the borrow indexes
  PRICE_MUL, PRICE_DIV, \* 10^shift of terms.rs, as a multiplier or a divisor
  MAX_U64               \* largest u64

ASSUME ScaleAssumption ==
  /\ WAD \in Nat \ {0}
  /\ MAX_U64 \in Nat
  /\ PRICE_MUL \in Nat \ {0}
  /\ PRICE_DIV \in Nat \ {0}
  /\ PRICE_MUL = 1 \/ PRICE_DIV = 1

YEAR_SECS == 365 * DAY
LOAN_TERM_SECS == 30 * DAY
DEFAULT_GRACE_SECS == 3 * DAY
RESERVE_FACTOR_BPS == 1000
MIN_LOAN_CAP == 200 * USDC_UNIT

CeilDiv(a, b) == (a + b - 1) \div b
Fits(n) == n <= MAX_U64

-----------------------------------------------------------------------------
(* rates.rs *)

BASE_RATE_BPS == 200
KINK_RATE_BPS == 550
MAX_RATE_BPS == 3600
KINK_UTIL_BPS == 9500
MAX_BORROW_UTIL_BPS == 9000
TierSpreadBps == [t \in Tiers |-> CASE t = 0 -> 400 [] t = 1 -> 200
                                    [] t = 2 -> 0   [] t = 3 -> -150]

UtilizationBps(borrowed, idle) ==
  IF borrowed + idle = 0 THEN 0 ELSE (borrowed * BPS) \div (borrowed + idle)

BaseRateBps(util) ==
  LET u == Smaller(util, BPS)
  IN  IF u <= KINK_UTIL_BPS
      THEN BASE_RATE_BPS + (u * (KINK_RATE_BPS - BASE_RATE_BPS)) \div KINK_UTIL_BPS
      ELSE KINK_RATE_BPS + ((u - KINK_UTIL_BPS) * (MAX_RATE_BPS - KINK_RATE_BPS))
                             \div (BPS - KINK_UTIL_BPS)

TierRateBps(base, spread) == Larger(base + spread, 0)

WithinBorrowCap(borrowed, idle, amount) ==
  (borrowed + amount) * BPS <= MAX_BORROW_UTIL_BPS * (borrowed + idle)

GrowIndex(index, rate, dt) == index + (index * rate * dt) \div (BPS * YEAR_SECS)

-----------------------------------------------------------------------------
(* math.rs: the first deposit, and a deposit into a pool that owns nothing, *)
(* is one share per unit; every division rounds against the lender.        *)

SharesForDeposit(amount, assets, supply) ==
  IF supply = 0 \/ assets = 0 THEN amount ELSE (amount * supply) \div assets

\* Mutant: rounded in favour of the lender who leaves.
AssetsForSharesUp(shares, assets, supply) == CeilDiv(shares * assets, supply)
AssetsForShares(shares, assets, supply) == (shares * assets) \div supply

-----------------------------------------------------------------------------
(* terms.rs *)

TierCollateralBps == [t \in Tiers |-> CASE t = 0 -> 15000 [] t = 1 -> 14000
                                        [] t = 2 -> 13000 [] t = 3 -> 12000]

TierMaxLoan == [t \in Tiers |-> USDC_UNIT * (CASE t = 0 -> 200 [] t = 1 -> 250
                                    [] t = 2 -> 1000 [] t = 3 -> 5000)]

MaxLoan(tier, largest_repaid) ==
  Smaller(TierMaxLoan[tier], Larger(2 * largest_repaid, MIN_LOAN_CAP))

\* Value in USDC of an amount of collateral, and the amount worth a value;
\* both round down.
CollateralValue(amount, price) == (amount * price * PRICE_MUL) \div PRICE_DIV
CollateralForValue(value, price) == ((value * PRICE_DIV) \div PRICE_MUL) \div price

EnoughCollateral(value, loan, ratio) == value * BPS >= loan * ratio

\* Mutant: rounded in favour of the borrower.
ScaledDebtDown(amount, index) == (amount * WAD) \div index

\* Index units of an amount, and USDC owed for index units: both round up.
ScaledDebt(amount, index) == CeilDiv(amount * WAD, index)
DebtNow(scaled, index) == CeilDiv(scaled * index, WAD)

IsLiquidatable(value, debt, threshold) == ~EnoughCollateral(value, debt, threshold)
InDefault(now, due_at) == now > due_at + DEFAULT_GRACE_SECS

RepayOutcome(now, due_at) ==
  IF now <= due_at THEN ON_TIME
  ELSE IF InDefault(now, due_at) THEN DEFAULTED ELSE LATE

\* Mutant: bounded by the ratio of the first tier instead of the smallest.
ValidRiskParamsUnproven(threshold, bonus) ==
  threshold > BPS + bonus /\ threshold < TierCollateralBps[0]

\* TierCollateralBps[3] is the smallest ratio of the four.
ValidRiskParams(threshold, bonus) ==
  threshold > BPS + bonus /\ threshold < TierCollateralBps[3]

\* Mutant: the liquidator always takes all the collateral.
LiquidationSplitTakesAll(debt, collateral, price, bonus) ==
  LET pay == Smaller(CeilDiv(CollateralValue(collateral, price) * BPS, BPS + bonus), debt)
  IN  [pay |-> pay, seize |-> collateral, back |-> 0, bad_debt |-> debt - pay]

\* Mutant: the rest of the collateral stays in the vault.
LiquidationSplitKeepsRest(debt, collateral, price, bonus) ==
  LET reward == (debt * (BPS + bonus)) \div BPS
      seize == Smaller(CollateralForValue(reward, price), collateral)
  IN  [pay |-> debt, seize |-> seize, back |-> 0, bad_debt |-> 0]

\* Who pays and who gets what when a loan is liquidated.
LiquidationSplit(debt, collateral, price, bonus) ==
  LET withBonus == BPS + bonus
      reward == (debt * withBonus) \div BPS
      value == CollateralValue(collateral, price)
      seize == Smaller(CollateralForValue(reward, price), collateral)
      pay == Smaller(CeilDiv(value * BPS, withBonus), debt)
  IN  IF value >= reward
      THEN [pay |-> debt, seize |-> seize, back |-> collateral - seize, bad_debt |-> 0]
      ELSE IF value >= debt
      THEN [pay |-> debt, seize |-> collateral, back |-> 0, bad_debt |-> 0]
      ELSE [pay |-> pay, seize |-> collateral, back |-> 0, bad_debt |-> debt - pay]

\* liquidation_split is not None: the value of the reward is a u64, and so is what
\* it is worth in collateral when the collateral covers it.
SplitFits(debt, collateral, price, bonus) ==
  LET reward == (debt * (BPS + bonus)) \div BPS
  IN  /\ Fits(reward)
      /\ CollateralValue(collateral, price) >= reward => Fits(CollateralForValue(reward, price))
=============================================================================

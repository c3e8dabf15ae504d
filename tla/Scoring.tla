------------------------------ MODULE Scoring -------------------------------
(*****************************************************************************)
(* The pure functions of the TrustTrail program's score                      *)
(* (programs/trusttrail/src/scoring.rs) and its constants.  Weights,         *)
(* factors and penalties are in bps (10,000 = 1.0).                          *)
(*                                                                           *)
(* The clock unit and the money unit are parameters.  Every quantity the     *)
(* code derives from a time or from a principal is a ratio, so an instance   *)
(* with DAY = 1 and USDC_UNIT = 1 computes exactly what the program does     *)
(* on times that are whole days and principals that are whole USDC.          *)
(*****************************************************************************)
EXTENDS Integers, Sequences

CONSTANTS DAY,       \* clock units in a day (86,400 in the program)
          USDC_UNIT  \* money units in a USDC (1,000,000 in the program)

ASSUME UnitAssumption == DAY \in Nat \ {0} /\ USDC_UNIT \in Nat \ {0}

Smaller(a, b) == IF a <= b THEN a ELSE b
Larger(a, b) == IF a >= b THEN a ELSE b
SatSub(a, b) == IF a >= b THEN a - b ELSE 0

BPS == 10000
Tiers == 0..3
UNPROVEN == 0
BRONZE == 1
SILVER == 2
GOLD == 3

ON_TIME == 0
LATE == 1
LIQUIDATED == 2
DEFAULTED == 3
Outcomes == 0..3

SCORE_MAX == 1000
FULL_WEIGHT_BPS == 80000
MIN_PRINCIPAL_USDC == 100 * USDC_UNIT
MIN_HOLD_SECS == DAY
PENALTY_HALF_LIFE_SECS == 90 * DAY
LIQUIDATION_COOLDOWN_SECS == 90 * DAY
IMPORT_COOLDOWN_SECS == 15 * DAY

SILVER_MIN_SCORE == 500
SILVER_MIN_ON_TIME == 3
SILVER_MIN_WEIGHT_BPS == 30000
GOLD_MIN_SCORE == 750
GOLD_MIN_ON_TIME == 8
GOLD_MIN_WEIGHT_BPS == 80000

\* Rows <<principal in USDC, weight>>; straight lines between them.
WEIGHT_TABLE ==
  << <<100, 0>>, <<150, 2026>>, <<200, 3463>>, <<300, 5489>>, <<500, 8041>>,
     <<740, 10000>>, <<2500, 10244>>, <<10000, 10522>>, <<50000, 10845>>,
     <<108000, 11000>> >>

\* 0.5^(k/8) for k = 0..8.
HALF_STEP_TABLE == <<10000, 9170, 8409, 7711, 7071, 6484, 5946, 5453, 5000>>

PrincipalWeightBps(principal) ==
  LET P(i) == WEIGHT_TABLE[i][1] * USDC_UNIT
      W(i) == WEIGHT_TABLE[i][2]
      row == CHOOSE i \in 1..9 : P(i) <= principal /\ principal < P(i + 1)
  IN  IF principal < P(1) THEN 0
      ELSE IF principal >= P(10) THEN W(10)
      ELSE W(row) + ((principal - P(row)) * (W(row + 1) - W(row)))
                      \div (P(row + 1) - P(row))

MeaningfulLoan(principal, opened_at, closed_at, outcome) ==
  /\ outcome \in {ON_TIME, LATE}
  /\ principal >= MIN_PRINCIPAL_USDC
  /\ closed_at - opened_at >= MIN_HOLD_SECS

DurationBps(opened_at, closed_at) ==
  (Smaller(SatSub(closed_at, opened_at), MIN_HOLD_SECS) * BPS) \div MIN_HOLD_SECS

\* A loan without a due date (0) earns half.
DueDateFactorBps(due_at) == IF due_at # 0 THEN 10000 ELSE 5000

\* Mutant: a liquidation costs a quarter of the loan's weight.
MinusBpsLenient(principal, outcome) ==
  CASE outcome = LIQUIDATED -> PrincipalWeightBps(principal) \div 4
    [] outcome = DEFAULTED  -> (PrincipalWeightBps(principal) * 30000) \div BPS
    [] OTHER -> 0

\* What a closed loan adds to the good history and to the penalties.
PlusBps(principal, opened_at, closed_at, due_at, outcome) ==
  LET o == IF outcome = ON_TIME THEN 10000 ELSE 5000
      held == (PrincipalWeightBps(principal) * DurationBps(opened_at, closed_at)) \div BPS
  IN  IF outcome \in {ON_TIME, LATE}
      THEN (((held * o) \div BPS) * DueDateFactorBps(due_at)) \div BPS
      ELSE 0

MinusBps(principal, outcome) ==
  CASE outcome = LIQUIDATED -> (PrincipalWeightBps(principal) * 20000) \div BPS
    [] outcome = DEFAULTED  -> (PrincipalWeightBps(principal) * 30000) \div BPS
    [] OTHER -> 0

ExposureWeightBps(principal, opened_at, closed_at, outcome) ==
  IF \/ MeaningfulLoan(principal, opened_at, closed_at, outcome)
     \/ outcome \in {LIQUIDATED, DEFAULTED}
  THEN PrincipalWeightBps(principal) ELSE 0

\* value >> n, for n up to 63: in three shifts, each by a number TLC can represent.
ShiftRight(value, n) ==
  ((value \div 2^Smaller(n, 30)) \div 2^Smaller(SatSub(n, 30), 30)) \div 2^SatSub(n, 60)

\* Whole half-lives are shifts; the rest is a straight line between the rows
\* of HALF_STEP_TABLE.
DecayBps(value, from, now) ==
  LET elapsed == SatSub(now, from)
      halvings == elapsed \div PENALTY_HALF_LIFE_SECS
      scaled == (elapsed % PENALTY_HALF_LIFE_SECS) * 8
      step == scaled \div PENALTY_HALF_LIFE_SECS
      within == scaled % PENALTY_HALF_LIFE_SECS
      hi == HALF_STEP_TABLE[step + 1]
      lo == HALF_STEP_TABLE[step + 2]
      factor == hi - ((hi - lo) * within) \div PENALTY_HALF_LIFE_SECS
  IN  IF halvings >= 64 THEN 0 ELSE (ShiftRight(value, halvings) * factor) \div BPS

NativeComponent(s_plus, s_minus_now) ==
  (SatSub(Smaller(s_plus, FULL_WEIGHT_BPS), s_minus_now) * SCORE_MAX) \div FULL_WEIGHT_BPS

Blend(native, imported, exposure) ==
  LET alpha == (Smaller(exposure, FULL_WEIGHT_BPS) * BPS) \div FULL_WEIGHT_BPS
  IN  (native * alpha + imported * (BPS - alpha)) \div BPS

\* Mutant: only Gold is closed to a wallet with a recent bad outcome.
ComputeTierSilverOpen(score, on_time, weight, last_liquidation_at, now) ==
  IF score = 0 THEN UNPROVEN
  ELSE IF /\ score >= SILVER_MIN_SCORE
          /\ on_time >= SILVER_MIN_ON_TIME
          /\ weight >= SILVER_MIN_WEIGHT_BPS
  THEN SILVER
  ELSE BRONZE
ComputeTier(score, on_time, weight, last_liquidation_at, now) ==
  LET clean == \/ last_liquidation_at = 0
               \/ now - last_liquidation_at >= LIQUIDATION_COOLDOWN_SECS
  IN  IF score = 0 THEN UNPROVEN
      ELSE IF /\ clean
              /\ score >= GOLD_MIN_SCORE
              /\ on_time >= GOLD_MIN_ON_TIME
              /\ weight >= GOLD_MIN_WEIGHT_BPS
      THEN GOLD
      ELSE IF /\ clean
              /\ score >= SILVER_MIN_SCORE
              /\ on_time >= SILVER_MIN_ON_TIME
              /\ weight >= SILVER_MIN_WEIGHT_BPS
      THEN SILVER
      ELSE BRONZE
=============================================================================

---------------------------- MODULE LendingProofs ----------------------------
(*****************************************************************************)
(* The two programs together, for every set of lenders, borrowers, mints and *)
(* amounts.  The composition refines the pool and TrustTrail, so what is     *)
(* proved of each holds of the two together; it keeps one record per closed  *)
(* loan; and it implements CreditLedger.  The last needs all of it: that a   *)
(* better tier is shut after a bad outcome is TrustTrail's 90 days, carried  *)
(* over by the refinement, and that a limit is earned is LimitIsAttested.    *)
(*****************************************************************************)
EXTENDS Lending, FiniteSetTheorems, TLAPS

\* TrustTrail with its theorems, instantiated as Lending instantiates it.  The
\* views those theorems are also about read no foreign attestation here.
NoValue ==
  CHOOSE x : x \notin T!UserReputationV2 \cup T!Attestation \cup Nat \cup
    [score : Nat, tier : T!Tiers, on_time : Nat, late : Nat, liquidated : Nat]
TP == INSTANCE TrustTrailProofs WITH
        Wallets <- Borrowers, Writers <- {PoolWriter, ImportWriter},
        Principals <- LoanAmounts, OpenDates <- Times,
        DueDates <- {t + LOAN_TERM_SECS : t \in Times},
        MAX_U64 <- MAX_SUM, Foreign <- {}, Null <- NoValue

-----------------------------------------------------------------------------
(* T and TP name the same operators. *)

LEMMA SameNumbers ==
  /\ \A a, b : T!Smaller(a, b) = TP!Smaller(a, b)
  /\ \A a, b : T!SatSub(a, b) = TP!SatSub(a, b)
  /\ \A v, n : T!ShiftRight(v, n) = TP!ShiftRight(v, n)
  BY DEF T!Smaller, TP!Smaller, T!SatSub, TP!SatSub, T!ShiftRight, TP!ShiftRight

LEMMA SameConstants ==
  /\ T!ON_TIME = TP!ON_TIME /\ T!LATE = TP!LATE /\ T!LIQUIDATED = TP!LIQUIDATED
  /\ T!DEFAULTED = TP!DEFAULTED /\ T!BPS = TP!BPS /\ T!SCORE_MAX = TP!SCORE_MAX
  /\ T!FULL_WEIGHT_BPS = TP!FULL_WEIGHT_BPS /\ T!MIN_HOLD_SECS = TP!MIN_HOLD_SECS
  /\ T!MIN_PRINCIPAL_USDC = TP!MIN_PRINCIPAL_USDC /\ T!UNPROVEN = TP!UNPROVEN
  /\ T!PENALTY_HALF_LIFE_SECS = TP!PENALTY_HALF_LIFE_SECS
  /\ T!LIQUIDATION_COOLDOWN_SECS = TP!LIQUIDATION_COOLDOWN_SECS
  /\ T!IMPORT_COOLDOWN_SECS = TP!IMPORT_COOLDOWN_SECS
  BY DEF T!ON_TIME, TP!ON_TIME, T!LATE, TP!LATE, T!LIQUIDATED, TP!LIQUIDATED, T!DEFAULTED,
    TP!DEFAULTED, T!BPS, TP!BPS, T!SCORE_MAX, TP!SCORE_MAX, T!FULL_WEIGHT_BPS,
    TP!FULL_WEIGHT_BPS, T!MIN_HOLD_SECS, TP!MIN_HOLD_SECS, T!MIN_PRINCIPAL_USDC,
    TP!MIN_PRINCIPAL_USDC, T!UNPROVEN, TP!UNPROVEN, T!PENALTY_HALF_LIFE_SECS,
    TP!PENALTY_HALF_LIFE_SECS, T!LIQUIDATION_COOLDOWN_SECS, TP!LIQUIDATION_COOLDOWN_SECS,
    T!IMPORT_COOLDOWN_SECS, TP!IMPORT_COOLDOWN_SECS

LEMMA SameDecay ==
  \A v, from, at : T!DecayBps(v, from, at) = TP!DecayBps(v, from, at)
  BY SameNumbers, SameConstants DEF T!DecayBps, TP!DecayBps, T!HALF_STEP_TABLE, TP!HALF_STEP_TABLE

LEMMA SameTier ==
  \A score, on_time, weight, last, at :
    T!ComputeTier(score, on_time, weight, last, at)
      = TP!ComputeTier(score, on_time, weight, last, at)
  BY SameConstants DEF T!ComputeTier, TP!ComputeTier, T!UNPROVEN, TP!UNPROVEN, T!BRONZE, TP!BRONZE,
    T!SILVER, TP!SILVER, T!GOLD, TP!GOLD, T!SILVER_MIN_SCORE, TP!SILVER_MIN_SCORE,
    T!SILVER_MIN_ON_TIME, TP!SILVER_MIN_ON_TIME, T!SILVER_MIN_WEIGHT_BPS,
    TP!SILVER_MIN_WEIGHT_BPS, T!GOLD_MIN_SCORE, TP!GOLD_MIN_SCORE, T!GOLD_MIN_ON_TIME,
    TP!GOLD_MIN_ON_TIME, T!GOLD_MIN_WEIGHT_BPS, TP!GOLD_MIN_WEIGHT_BPS

LEMMA SameStanding ==
  \A r, at : T!Standing(r, at) = TP!Standing(r, at)
<1>1. \A plus, minus : T!NativeComponent(plus, minus) = TP!NativeComponent(plus, minus)
  BY SameNumbers, SameConstants DEF T!NativeComponent, TP!NativeComponent
<1>2. \A n, i, e : T!Blend(n, i, e) = TP!Blend(n, i, e)
  BY SameNumbers, SameConstants DEF T!Blend, TP!Blend
<1> QED BY <1>1, <1>2, SameDecay, SameTier DEF T!Standing, TP!Standing

LEMMA SameRefreshed ==
  \A r, at : T!Refreshed(r, at) = TP!Refreshed(r, at)
  BY SameStanding DEF T!Refreshed, TP!Refreshed

LEMMA SameSaturating ==
  /\ \A a, b : T!SatAdd16(a, b) = TP!SatAdd16(a, b)
  /\ \A a, b : T!SatAdd64(a, b) = TP!SatAdd64(a, b)
  BY SameNumbers DEF T!SatAdd16, TP!SatAdd16, T!SatAdd64, TP!SatAdd64

LEMMA SameWeights ==
  /\ \A p : T!PrincipalWeightBps(p) = TP!PrincipalWeightBps(p)
  /\ \A p, from, at, o : T!MeaningfulLoan(p, from, at, o) <=> TP!MeaningfulLoan(p, from, at, o)
<1>1. \A p : T!PrincipalWeightBps(p) = TP!PrincipalWeightBps(p)
  BY DEF T!PrincipalWeightBps, TP!PrincipalWeightBps, T!WEIGHT_TABLE, TP!WEIGHT_TABLE
<1>2. \A p, from, at, o : T!MeaningfulLoan(p, from, at, o) <=> TP!MeaningfulLoan(p, from, at, o)
  BY SameConstants DEF T!MeaningfulLoan, TP!MeaningfulLoan
<1> QED BY <1>1, <1>2

LEMMA SameContributions ==
  /\ \A p, from, at, due, o : T!PlusBps(p, from, at, due, o) = TP!PlusBps(p, from, at, due, o)
  /\ \A p, o : T!MinusBps(p, o) = TP!MinusBps(p, o)
  /\ \A p, from, at, o : T!ExposureWeightBps(p, from, at, o) = TP!ExposureWeightBps(p, from, at, o)
<1>1. \A from, at : T!DurationBps(from, at) = TP!DurationBps(from, at)
  BY SameNumbers, SameConstants DEF T!DurationBps, TP!DurationBps
<1>2. \A due : T!DueDateFactorBps(due) = TP!DueDateFactorBps(due)
  BY DEF T!DueDateFactorBps, TP!DueDateFactorBps
<1>3. \A p, from, at, due, o : T!PlusBps(p, from, at, due, o) = TP!PlusBps(p, from, at, due, o)
  BY <1>1, <1>2, SameConstants, SameWeights DEF T!PlusBps, TP!PlusBps
<1>4. \A p, o : T!MinusBps(p, o) = TP!MinusBps(p, o)
  BY SameConstants, SameWeights DEF T!MinusBps, TP!MinusBps
<1>5. \A p, from, at, o : T!ExposureWeightBps(p, from, at, o) = TP!ExposureWeightBps(p, from, at, o)
  BY SameConstants, SameWeights DEF T!ExposureWeightBps, TP!ExposureWeightBps
<1> QED BY <1>3, <1>4, <1>5

LEMMA SameRecorded ==
  \A r, p, from, due, o : T!Recorded(r, p, from, due, o) = TP!Recorded(r, p, from, due, o)
<1>1. \A r, p, o : T!PenaltyNow(r, p, o) = TP!PenaltyNow(r, p, o)
  BY SameDecay, SameSaturating, SameContributions DEF T!PenaltyNow, TP!PenaltyNow
<1> SUFFICES ASSUME NEW r, NEW p, NEW from, NEW due, NEW o
             PROVE  T!Recorded(r, p, from, due, o) = TP!Recorded(r, p, from, due, o)
  OBVIOUS
<1> DEFINE t_plus == T!SatAdd64(r.s_plus_bps, T!PlusBps(p, from, now, due, o))
           t_minus == T!PenaltyNow(r, p, o)
           t_exposure == T!SatAdd64(r.exposure_bps, T!ExposureWeightBps(p, from, now, o))
           t_counts == o = 0 /\ T!MeaningfulLoan(p, from, now, o)
           t_on_time == IF t_counts THEN T!SatAdd16(r.meaningful_on_time, 1)
                                   ELSE r.meaningful_on_time
           t_weight == IF t_counts
                       THEN T!SatAdd64(r.meaningful_weight_bps, T!PrincipalWeightBps(p))
                       ELSE r.meaningful_weight_bps
           t_repaid == IF o = 0 THEN T!SatAdd16(r.loans_repaid_on_time, 1)
                                ELSE r.loans_repaid_on_time
           t_late == IF o = 1 THEN T!SatAdd16(r.late_repaid_loans, 1) ELSE r.late_repaid_loans
           t_lost == IF o \notin {0, 1} THEN T!SatAdd16(r.liquidated_loans, 1)
                                       ELSE r.liquidated_loans
           t_streak == IF o = 0 THEN T!SatAdd16(r.current_on_time_streak, 1) ELSE 0
           t_total == IF o \in {0, 1} THEN T!SatAdd64(r.total_usdc_repaid, p)
                                    ELSE r.total_usdc_repaid
           tp_plus == TP!SatAdd64(r.s_plus_bps, TP!PlusBps(p, from, now, due, o))
           tp_minus == TP!PenaltyNow(r, p, o)
           tp_exposure == TP!SatAdd64(r.exposure_bps, TP!ExposureWeightBps(p, from, now, o))
           tp_counts == o = 0 /\ TP!MeaningfulLoan(p, from, now, o)
           tp_on_time == IF tp_counts THEN TP!SatAdd16(r.meaningful_on_time, 1)
                                   ELSE r.meaningful_on_time
           tp_weight == IF tp_counts
                       THEN TP!SatAdd64(r.meaningful_weight_bps, TP!PrincipalWeightBps(p))
                       ELSE r.meaningful_weight_bps
           tp_repaid == IF o = 0 THEN TP!SatAdd16(r.loans_repaid_on_time, 1)
                                ELSE r.loans_repaid_on_time
           tp_late == IF o = 1 THEN TP!SatAdd16(r.late_repaid_loans, 1) ELSE r.late_repaid_loans
           tp_lost == IF o \notin {0, 1} THEN TP!SatAdd16(r.liquidated_loans, 1)
                                       ELSE r.liquidated_loans
           tp_streak == IF o = 0 THEN TP!SatAdd16(r.current_on_time_streak, 1) ELSE 0
           tp_total == IF o \in {0, 1} THEN TP!SatAdd64(r.total_usdc_repaid, p)
                                    ELSE r.total_usdc_repaid
           New(plus, minus, exposure, on_time, weight, repaid, late, lost, streak, total) ==
             [r EXCEPT
                !.s_plus_bps = plus, !.s_minus_bps = minus, !.s_minus_at = now,
                !.exposure_bps = exposure,
                !.meaningful_on_time = on_time, !.meaningful_weight_bps = weight,
                !.loans_repaid_on_time = repaid, !.late_repaid_loans = late,
                !.liquidated_loans = lost, !.current_on_time_streak = streak,
                !.total_usdc_repaid = total,
                !.last_liquidation_date = IF o \in {0, 1} THEN @ ELSE now]
<1>2. T!Recorded(r, p, from, due, o) =
      New(t_plus, t_minus, t_exposure, t_on_time, t_weight,
          t_repaid, t_late, t_lost, t_streak, t_total)
  BY DEF T!Recorded, T!ON_TIME, T!LATE
<1>3. TP!Recorded(r, p, from, due, o) =
      New(tp_plus, tp_minus, tp_exposure, tp_on_time, tp_weight,
          tp_repaid, tp_late, tp_lost, tp_streak, tp_total)
  BY DEF TP!Recorded, TP!ON_TIME, TP!LATE
<1>4. t_plus = tp_plus /\ t_minus = tp_minus /\ t_exposure = tp_exposure
  BY <1>1, SameSaturating, SameContributions
<1>5. t_on_time = tp_on_time /\ t_weight = tp_weight
  <2>1. T!MeaningfulLoan(p, from, now, o) <=> TP!MeaningfulLoan(p, from, now, o)
    BY SameWeights
  <2>2. t_counts <=> tp_counts
    BY <2>1
  <2> HIDE DEF t_counts, tp_counts
  <2> QED BY <2>2, SameSaturating, SameWeights
<1>6. t_repaid = tp_repaid /\ t_late = tp_late /\ t_lost = tp_lost
  BY SameSaturating
<1>7. t_streak = tp_streak /\ t_total = tp_total
  BY SameSaturating
<1> HIDE DEF t_plus, t_minus, t_exposure, t_on_time, t_weight, t_repaid, t_late, t_lost, t_streak, t_total,
             tp_plus, tp_minus, tp_exposure, tp_on_time, tp_weight, tp_repaid,
             tp_late, tp_lost, tp_streak, tp_total, New
<1> QED BY <1>2, <1>3, <1>4, <1>5, <1>6, <1>7

LEMMA SameImported ==
  \A r, import : T!Imported(r, import) = TP!Imported(r, import)
  BY SameSaturating DEF T!Imported, TP!Imported

\* The terms of a loan, the tiers and the outcomes are the same everywhere.
LEMMA SameTerms ==
  /\ \A t, due : P!InDefault(t, due) <=> InDefault(t, due)
  /\ \A t, due : Ledger!InDefault(t, due) <=> InDefault(t, due)
  /\ \A t, due : P!RepayOutcome(t, due) = RepayOutcome(t, due)
  /\ P!LOAN_TERM_SECS = LOAN_TERM_SECS /\ Ledger!LOAN_TERM_SECS = LOAN_TERM_SECS
  /\ Ledger!LIQUIDATION_COOLDOWN_SECS = T!LIQUIDATION_COOLDOWN_SECS
  /\ \A a, b : P!Larger(a, b) = Larger(a, b)
  /\ \A tier, n : Ledger!MaxLoan(tier, n) = P!MaxLoan(tier, n)
<1>1. /\ \A t, due : P!InDefault(t, due) <=> InDefault(t, due)
      /\ \A t, due : Ledger!InDefault(t, due) <=> InDefault(t, due)
  BY DEF P!InDefault, Ledger!InDefault, InDefault, P!DEFAULT_GRACE_SECS,
         Ledger!DEFAULT_GRACE_SECS, DEFAULT_GRACE_SECS
<1>2. \A t, due : P!RepayOutcome(t, due) = RepayOutcome(t, due)
  BY <1>1 DEF P!RepayOutcome, RepayOutcome, P!ON_TIME, P!LATE, P!DEFAULTED, ON_TIME, LATE, DEFAULTED
<1>3. /\ P!LOAN_TERM_SECS = LOAN_TERM_SECS /\ Ledger!LOAN_TERM_SECS = LOAN_TERM_SECS
      /\ Ledger!LIQUIDATION_COOLDOWN_SECS = T!LIQUIDATION_COOLDOWN_SECS
  BY DEF P!LOAN_TERM_SECS, Ledger!LOAN_TERM_SECS, LOAN_TERM_SECS,
         Ledger!LIQUIDATION_COOLDOWN_SECS, T!LIQUIDATION_COOLDOWN_SECS
<1>4. \A a, b : P!Larger(a, b) = Larger(a, b)
  BY DEF P!Larger, Larger
<1>5. \A tier, n : Ledger!MaxLoan(tier, n) = P!MaxLoan(tier, n)
  BY DEF Ledger!MaxLoan, P!MaxLoan, Ledger!TierMaxLoan, P!TierMaxLoan, Ledger!MIN_LOAN_CAP,
         P!MIN_LOAN_CAP, Ledger!Smaller, P!Smaller, Ledger!Larger, P!Larger, Ledger!Tiers, P!Tiers
<1> QED BY <1>1, <1>2, <1>3, <1>4, <1>5

LEMMA Constants ==
  /\ Times \subseteq Nat \ {0} /\ LoanAmounts \subseteq Nat /\ MaxLoans \in Nat
  /\ LOAN_TERM_SECS \in Nat /\ DEFAULT_GRACE_SECS \in Nat
  /\ TP!UnitAssumption /\ TP!TrustTrailAssumption /\ TP!AccountAssumption
  /\ TP!ViewAssumption
<1>1. LOAN_TERM_SECS \in Nat /\ DEFAULT_GRACE_SECS \in Nat
  BY UnitAssumption DEF LOAN_TERM_SECS, DEFAULT_GRACE_SECS
<1>2. Times \subseteq Nat \ {0} /\ LoanAmounts \subseteq Nat /\ MaxLoans \in Nat
  BY LendingAssumption DEF P!InputAssumption
<1>3. TP!UnitAssumption
  BY UnitAssumption DEF TP!UnitAssumption
<1>4. TP!TrustTrailAssumption
  BY LendingAssumption, SameConstants DEF T!TrustTrailAssumption, TP!TrustTrailAssumption
<1>5. TP!AccountAssumption
  <2>1. T!UserReputationV2 = TP!UserReputationV2
    BY SameConstants DEF T!UserReputationV2, TP!UserReputationV2, T!Tiers, TP!Tiers
  <2> QED BY <2>1, LendingAssumption DEF T!AccountAssumption, TP!AccountAssumption
<1>6. TP!ViewAssumption
  <2> DEFINE All == T!UserReputationV2 \cup T!Attestation \cup Nat \cup
        [score : Nat, tier : T!Tiers, on_time : Nat, late : Nat, liquidated : Nat]
  <2>1. /\ T!Tiers = TP!Tiers /\ T!UserReputationV2 = TP!UserReputationV2
        /\ T!Attestation = TP!Attestation
    BY SameConstants DEF T!UserReputationV2, TP!UserReputationV2, T!Tiers, TP!Tiers,
      T!Attestation, TP!Attestation, T!Outcomes, TP!Outcomes
  <2>2. \E x : x \notin All
    BY NoSetContainsEverything
  <2>3. NoValue \notin All
    <3> HIDE DEF All
    <3>1. NoValue = CHOOSE x : x \notin All
      BY DEF NoValue, All
    <3> QED BY <2>2, <3>1
  <2> QED BY <2>1, <2>3 DEF TP!ViewAssumption, TP!TrustTrailRecord
<1> QED BY <1>1, <1>2, <1>3, <1>4, <1>5, <1>6

-----------------------------------------------------------------------------
(* The invariant *)

Key(l) == <<l.borrower, l.loan_id>>

IsLoan(l) ==
  l \in [borrower : Borrowers, loan_id : 0..MaxLoans, tier_at_open : {l.tier_at_open},
         principal : LoanAmounts, scaled_debt : {l.scaled_debt},
         collateral_mint : {l.collateral_mint}, collateral_amount : {l.collateral_amount},
         opened_at : Times, due_at : {l.opened_at + LOAN_TERM_SECS}, status : 0..3]

LoansOk ==
  /\ borrower_state \in [Borrowers -> P!BorrowerState]
  /\ \A l \in loans : IsLoan(l) /\ l.loan_id < borrower_state[l.borrower].next_loan_id
  /\ \A k, l \in loans : Key(k) = Key(l) => k = l

\* What settle.rs writes when it closes l.
RecordFor(l, closed_at, outcome) ==
  [loan |-> Key(l), borrower |-> l.borrower, lender |-> PoolWriter, principal |-> l.principal,
   opened_at |-> l.opened_at, due_at |-> l.due_at, closed_at |-> closed_at,
   outcome |-> outcome]

\* The status a loan is closed with and the outcome on record agree.
Agree(l, status, outcome, closed_at) ==
  /\ outcome \in 0..3 /\ status \in 1..3
  /\ outcome = 3 <=> InDefault(closed_at, l.due_at)
  /\ status = 2 <=> outcome = 2
  /\ status = 3 => outcome = 3

RecordOf(a, l) ==
  /\ a = RecordFor(l, a.closed_at, a.outcome)
  /\ a.closed_at \in Nat
  /\ Agree(l, l.status, a.outcome, a.closed_at)

RecordsOk ==
  /\ \A a \in attestations : \E l \in loans : l.status # 0 /\ RecordOf(a, l)
  /\ \A l \in loans : l.status # 0 => \E a \in attestations : RecordOf(a, l)
  /\ \A a, b \in attestations : a.loan = b.loan => a = b

OnTimeOf(b) == {a \in attestations : a.borrower = b /\ a.outcome = 0}
LimitsOk ==
  \A b \in Borrowers :
    LET n == borrower_state[b].largest_repaid
    IN  /\ n = 0 \/ \E a \in OnTimeOf(b) : a.principal = n
        /\ \A a \in OnTimeOf(b) : a.principal \in Nat /\ a.principal <= n

\* The inductive invariant.
IInv == now \in Times /\ LoansOk /\ RecordsOk /\ LimitsOk

\* The common effect of repay and liquidate on the loan, its borrower's state
\* and the records.
ClosedAs(l, status, outcome) ==
  /\ l.status = 0 /\ Agree(l, status, outcome, now)
  /\ outcome = 0 => now <= l.due_at
  /\ outcome = 1 => now > l.due_at
  /\ now' = now
  /\ loans' = (loans \ {l}) \cup {[l EXCEPT !.status = status]}
  /\ \A a \in attestations : a.loan # Key(l)
  /\ attestations' = attestations \cup {RecordFor(l, now, outcome)}
  /\ borrower_state' \in [Borrowers -> P!BorrowerState]
  /\ \A b \in Borrowers :
       /\ borrower_state'[b].next_loan_id = borrower_state[b].next_loan_id
       /\ borrower_state'[b].largest_repaid =
            IF b = l.borrower /\ outcome = 0
            THEN Larger(borrower_state[b].largest_repaid, l.principal)
            ELSE borrower_state[b].largest_repaid

LEMMA InitInv == Init => IInv
<1> SUFFICES ASSUME Init PROVE IInv
  OBVIOUS
<1>1. /\ now \in Times /\ loans = {} /\ attestations = {}
      /\ borrower_state = [b \in Borrowers |->
                            [largest_repaid |-> 0, next_loan_id |-> 0, open_loans |-> 0]]
  BY DEF Init, P!Init, T!Init
<1>2. LoansOk
  BY <1>1 DEF LoansOk, P!BorrowerState
<1>3. RecordsOk
  BY <1>1 DEF RecordsOk
<1>4. LimitsOk
  BY <1>1 DEF LimitsOk, OnTimeOf
<1> QED BY <1>1, <1>2, <1>3, <1>4 DEF IInv

\* A step that opens and closes no loan.
LEMMA QuietInv ==
  ASSUME IInv, now' \in Times, UNCHANGED <<borrower_state, loans, attestations>>
  PROVE  IInv'
<1>1. borrower_state' = borrower_state /\ loans' = loans /\ attestations' = attestations
  OBVIOUS
<1>2. LoansOk' /\ RecordsOk' /\ LimitsOk'
  BY <1>1 DEF IInv, LoansOk, RecordsOk, LimitsOk, OnTimeOf
<1> QED BY <1>2 DEF IInv

LEMMA BorrowEffect ==
  ASSUME IInv, NEW b \in Borrowers, NEW tier, NEW amount \in LoanAmounts, NEW m, NEW posted,
         NEW update, P!Borrow(b, tier, amount, m, posted, update)
  PROVE  \E l : /\ IsLoan(l) /\ l.status = 0 /\ l.borrower = b /\ l.tier_at_open = tier
                /\ l.principal = amount /\ l.loan_id = borrower_state[b].next_loan_id
                /\ l.opened_at = now
                /\ loans' = loans \cup {l} /\ now' = now
                /\ amount <= P!MaxLoan(tier, borrower_state[b].largest_repaid)
                /\ borrower_state' \in [Borrowers -> P!BorrowerState]
                /\ \A c \in Borrowers :
                     /\ borrower_state'[c].largest_repaid = borrower_state[c].largest_repaid
                     /\ borrower_state'[c].next_loan_id =
                          borrower_state[c].next_loan_id + (IF c = b THEN 1 ELSE 0)
<1>1. PICK p \in P!AccruedNow :
        /\ borrower_state[b].next_loan_id < MaxLoans
        /\ amount <= P!MaxLoan(tier, borrower_state[b].largest_repaid)
        /\ loans' = loans \cup
             {[borrower |-> b, loan_id |-> borrower_state[b].next_loan_id,
               tier_at_open |-> tier, principal |-> amount,
               scaled_debt |-> P!ScaledDebt(amount, p.tier_index[tier]),
               collateral_mint |-> m, collateral_amount |-> posted,
               opened_at |-> now, due_at |-> now + P!LOAN_TERM_SECS, status |-> P!OPEN]}
        /\ borrower_state' = [borrower_state EXCEPT ![b].next_loan_id = @ + 1,
                                                    ![b].open_loans = @ + 1]
        /\ now' = now
  BY DEF P!Borrow
<1> DEFINE scaled == P!ScaledDebt(amount, p.tier_index[tier])
           l == [borrower |-> b, loan_id |-> borrower_state[b].next_loan_id,
                 tier_at_open |-> tier, principal |-> amount, scaled_debt |-> scaled,
                 collateral_mint |-> m, collateral_amount |-> posted,
                 opened_at |-> now, due_at |-> now + LOAN_TERM_SECS, status |-> 0]
<1>2. loans' = loans \cup {l}
  BY <1>1, SameTerms DEF P!OPEN
<1>3. borrower_state \in [Borrowers -> P!BorrowerState] /\ now \in Times
  BY DEF IInv, LoansOk
<1>4. /\ borrower_state' \in [Borrowers -> P!BorrowerState]
      /\ \A c \in Borrowers :
           /\ borrower_state'[c].largest_repaid = borrower_state[c].largest_repaid
           /\ borrower_state'[c].next_loan_id =
                borrower_state[c].next_loan_id + (IF c = b THEN 1 ELSE 0)
  BY <1>1, <1>3 DEF P!BorrowerState
<1> HIDE DEF scaled
<1>5. borrower_state[b].next_loan_id \in 0..MaxLoans
  BY <1>1, <1>3, Constants DEF P!BorrowerState
<1>6. IsLoan(l)
  BY <1>3, <1>5 DEF IsLoan
<1>7. /\ l.status = 0 /\ l.borrower = b /\ l.tier_at_open = tier /\ l.principal = amount
      /\ l.loan_id = borrower_state[b].next_loan_id /\ l.opened_at = now
  OBVIOUS
<1> HIDE DEF l
<1> QED BY <1>1, <1>2, <1>4, <1>6, <1>7

LEMMA BorrowInv ==
  ASSUME IInv, NEW b \in Borrowers, NEW tier, NEW amount \in LoanAmounts, NEW m, NEW posted,
         NEW update, P!Borrow(b, tier, amount, m, posted, update), UNCHANGED attestations
  PROVE  IInv'
<1>1. PICK l : /\ IsLoan(l) /\ l.status = 0 /\ l.borrower = b
               /\ l.loan_id = borrower_state[b].next_loan_id
               /\ loans' = loans \cup {l} /\ now' = now
               /\ borrower_state' \in [Borrowers -> P!BorrowerState]
               /\ \A c \in Borrowers :
                    /\ borrower_state'[c].largest_repaid = borrower_state[c].largest_repaid
                    /\ borrower_state'[c].next_loan_id =
                         borrower_state[c].next_loan_id + (IF c = b THEN 1 ELSE 0)
  BY BorrowEffect
<1>2. /\ borrower_state \in [Borrowers -> P!BorrowerState]
      /\ \A k \in loans : k.borrower \in Borrowers /\ k.loan_id \in Nat
  BY Constants DEF IInv, LoansOk, IsLoan
<1>3. \A c \in Borrowers : borrower_state[c].next_loan_id \in Nat
  BY <1>2 DEF P!BorrowerState
<1>4. \A k \in loans : k.loan_id < borrower_state'[k.borrower].next_loan_id
  BY <1>1, <1>2, <1>3 DEF IInv, LoansOk
<1>5. l.loan_id < borrower_state'[l.borrower].next_loan_id
  BY <1>1, <1>3
<1>6. \A k \in loans : Key(k) # Key(l)
  <2> SUFFICES ASSUME NEW k \in loans, Key(k) = Key(l) PROVE FALSE
    OBVIOUS
  <2>1. k.borrower = l.borrower /\ k.loan_id = l.loan_id
    BY DEF Key
  <2>2. k.loan_id < borrower_state[k.borrower].next_loan_id
    BY DEF IInv, LoansOk
  <2> QED BY <1>1, <1>2, <1>3, <2>1, <2>2
<1>7. LoansOk'
  <2>1. \A k \in loans' : IsLoan(k) /\ k.loan_id < borrower_state'[k.borrower].next_loan_id
    BY <1>1, <1>4, <1>5 DEF IInv, LoansOk
  <2>2. \A j, k \in loans' : Key(j) = Key(k) => j = k
    BY <1>1, <1>6 DEF IInv, LoansOk
  <2> QED BY <1>1, <2>1, <2>2 DEF LoansOk, IsLoan, Key
<1>8. RecordsOk'
  BY <1>1 DEF IInv, RecordsOk, RecordOf
<1>9. LimitsOk'
  BY <1>1 DEF IInv, LimitsOk, OnTimeOf
<1> QED BY <1>1, <1>7, <1>8, <1>9 DEF IInv

\* repay and liquidate close a loan as ClosedAs says.
LEMMA CloseEffect ==
  ASSUME IInv, NEW l \in loans, Repay(l) \/ \E update \in PriceUpdates : Liquidate(l, update)
  PROVE  \E status, outcome : ClosedAs(l, status, outcome)
<1>1. /\ IsLoan(l) /\ borrower_state \in [Borrowers -> P!BorrowerState] /\ now \in Times
  BY DEF IInv, LoansOk
<1>2. /\ l.borrower \in Borrowers /\ l.due_at \in Nat /\ now \in Nat /\ l.principal \in Nat
      /\ DEFAULT_GRACE_SECS \in Nat
  BY <1>1, Constants DEF IsLoan
<1>3. CASE Repay(l)
  <2> DEFINE outcome == RepayOutcome(now, l.due_at)
             b == l.borrower
  <2>1. /\ l.status = 0 /\ now' = now
        /\ loans' = (loans \ {l}) \cup {[l EXCEPT !.status = 1]}
        /\ borrower_state' =
             [borrower_state EXCEPT
                ![b].open_loans = P!SatSub(@, 1),
                ![b].largest_repaid = IF outcome = 0 THEN Larger(@, l.principal) ELSE @]
    BY <1>3, SameTerms DEF Repay, P!Repay, P!CloseLoan, P!OPEN, P!REPAID, P!ON_TIME
  <2>2. /\ \A a \in attestations : a.loan # Key(l)
        /\ attestations' = attestations \cup {RecordFor(l, now, outcome)}
    BY <1>3 DEF Repay, Record, T!RecordEvent, Key, RecordFor
  <2>3. /\ outcome \in {0, 1, 3} /\ (outcome = 3 <=> InDefault(now, l.due_at))
        /\ outcome = 0 => now <= l.due_at
        /\ outcome = 1 => now > l.due_at
    BY <1>2 DEF RepayOutcome, InDefault, ON_TIME, LATE, DEFAULTED
  <2> HIDE DEF outcome, b
  <2>4. Agree(l, 1, outcome, now)
    BY <2>3 DEF Agree
  <2>5. /\ borrower_state' \in [Borrowers -> P!BorrowerState]
        /\ \A c \in Borrowers :
             /\ borrower_state'[c].next_loan_id = borrower_state[c].next_loan_id
             /\ borrower_state'[c].largest_repaid =
                  IF c = b /\ outcome = 0
                  THEN Larger(borrower_state[c].largest_repaid, l.principal)
                  ELSE borrower_state[c].largest_repaid
    <3>1. b \in Borrowers
      BY <1>2 DEF b
    <3>2. \A n \in Nat : P!SatSub(n, 1) \in Nat /\ Larger(n, l.principal) \in Nat
      BY <1>2 DEF P!SatSub, Larger
    <3> DEFINE open == P!SatSub(borrower_state[b].open_loans, 1)
               largest == IF outcome = 0 THEN Larger(borrower_state[b].largest_repaid, l.principal)
                                         ELSE borrower_state[b].largest_repaid
    <3>3. open \in Nat /\ largest \in Nat
      BY <1>1, <3>1, <3>2 DEF P!BorrowerState
    <3>4. borrower_state' = [borrower_state EXCEPT ![b].open_loans = open,
                                                   ![b].largest_repaid = largest]
      BY <1>1, <2>1, <3>1 DEF P!BorrowerState
    <3>5. outcome = 0 => largest = Larger(borrower_state[b].largest_repaid, l.principal)
      OBVIOUS
    <3>6. outcome # 0 => largest = borrower_state[b].largest_repaid
      OBVIOUS
    <3> HIDE DEF open, largest
    <3> QED BY <1>1, <3>1, <3>3, <3>4, <3>5, <3>6 DEF P!BorrowerState
  <2> QED BY <2>1, <2>2, <2>3, <2>4, <2>5 DEF ClosedAs, b
<1>4. ASSUME NEW update \in PriceUpdates, Liquidate(l, update)
      PROVE  \E status, outcome : ClosedAs(l, status, outcome)
  <2> DEFINE outcome == IF InDefault(now, l.due_at) THEN 3 ELSE 2
             b == l.borrower
  <2>1. /\ l.status = 0 /\ now' = now
        /\ loans' = (loans \ {l}) \cup {[l EXCEPT !.status = outcome]}
        /\ borrower_state' = [borrower_state EXCEPT ![b].open_loans = P!SatSub(@, 1)]
    BY <1>4, SameTerms DEF Liquidate, P!Liquidate, P!CloseLoan, P!OPEN, P!LOAN_LIQUIDATED,
                           P!LOAN_DEFAULTED
  <2>2. /\ \A a \in attestations : a.loan # Key(l)
        /\ attestations' = attestations \cup {RecordFor(l, now, outcome)}
    BY <1>4 DEF Liquidate, Record, T!RecordEvent, Key, RecordFor, LIQUIDATED, DEFAULTED
  <2>3. outcome \in {2, 3} /\ (outcome = 3 <=> InDefault(now, l.due_at))
    OBVIOUS
  <2> HIDE DEF outcome, b
  <2>4. Agree(l, outcome, outcome, now)
    BY <2>3 DEF Agree
  <2>5. /\ borrower_state' \in [Borrowers -> P!BorrowerState]
        /\ \A c \in Borrowers :
             /\ borrower_state'[c].next_loan_id = borrower_state[c].next_loan_id
             /\ borrower_state'[c].largest_repaid = borrower_state[c].largest_repaid
    <3>1. b \in Borrowers
      BY <1>2 DEF b
    <3>2. \A n \in Nat : P!SatSub(n, 1) \in Nat
      BY DEF P!SatSub
    <3> QED BY <1>1, <2>1, <3>1, <3>2 DEF P!BorrowerState
  <2> QED BY <2>1, <2>2, <2>3, <2>4, <2>5 DEF ClosedAs, b
<1> QED BY <1>3, <1>4

\* A loan with another status is the loan it was in all else.
LEMMA StatusOnly ==
  ASSUME NEW l, IsLoan(l), NEW status \in 0..3
  PROVE  LET k == [l EXCEPT !.status = status]
         IN  /\ IsLoan(k) /\ k.status = status /\ Key(k) = Key(l)
             /\ k.borrower = l.borrower /\ k.loan_id = l.loan_id
             /\ k.tier_at_open = l.tier_at_open
             /\ k.principal = l.principal /\ k.opened_at = l.opened_at /\ k.due_at = l.due_at
             /\ \A at, outcome : RecordFor(k, at, outcome) = RecordFor(l, at, outcome)
<1> DEFINE k == [l EXCEPT !.status = status]
<1>1. /\ k.status = status /\ k.borrower = l.borrower /\ k.loan_id = l.loan_id
      /\ k.tier_at_open = l.tier_at_open
      /\ k.principal = l.principal /\ k.opened_at = l.opened_at /\ k.due_at = l.due_at
      /\ IsLoan(k)
  BY DEF IsLoan
<1> HIDE DEF k
<1>2. Key(k) = Key(l)
  BY <1>1 DEF Key
<1>3. \A at, outcome : RecordFor(k, at, outcome) = RecordFor(l, at, outcome)
  BY <1>1, <1>2 DEF RecordFor
<1> QED BY <1>1, <1>2, <1>3 DEF k

\* What the record of a close says.
LEMMA NewRecord ==
  ASSUME NEW l, NEW at, NEW outcome
  PROVE  LET r == RecordFor(l, at, outcome)
         IN  /\ r.loan = Key(l) /\ r.borrower = l.borrower /\ r.principal = l.principal
             /\ r.opened_at = l.opened_at /\ r.due_at = l.due_at /\ r.closed_at = at
             /\ r.outcome = outcome
  BY DEF RecordFor

LEMMA CloseInv ==
  ASSUME IInv, NEW l \in loans, NEW status, NEW outcome, ClosedAs(l, status, outcome)
  PROVE  IInv'
<1> DEFINE k == [l EXCEPT !.status = status]
           r == RecordFor(l, now, outcome)
<1>1. /\ IsLoan(l) /\ now \in Times /\ now' = now /\ now \in Nat
      /\ loans' = (loans \ {l}) \cup {k} /\ attestations' = attestations \cup {r}
      /\ status \in 1..3 /\ status \in 0..3 /\ outcome \in 0..3
      /\ \A a \in attestations : a.loan # Key(l)
      /\ borrower_state' \in [Borrowers -> P!BorrowerState]
  BY Constants DEF IInv, LoansOk, ClosedAs, Agree
<1>2. /\ IsLoan(k) /\ k.status = status /\ Key(k) = Key(l)
      /\ k.borrower = l.borrower /\ k.loan_id = l.loan_id /\ k.due_at = l.due_at
      /\ \A at, o : RecordFor(k, at, o) = RecordFor(l, at, o)
  <2>1. IsLoan(l) /\ status \in 0..3
    BY <1>1
  <2> QED BY <2>1, StatusOnly
<1>3. /\ r.loan = Key(l) /\ r.borrower = l.borrower /\ r.principal = l.principal
      /\ r.closed_at = now /\ r.outcome = outcome
  BY NewRecord
<1>4. RecordOf(r, k)
  <2>1. Agree(k, status, outcome, now)
    BY <1>2 DEF ClosedAs, Agree
  <2> QED BY <1>1, <1>2, <1>3, <2>1 DEF RecordOf
<1>5. /\ \A b \in Borrowers : borrower_state'[b].next_loan_id = borrower_state[b].next_loan_id
      /\ l.borrower \in Borrowers
      /\ l.principal \in Nat
  BY <1>1, Constants DEF ClosedAs, IsLoan
<1> HIDE DEF k, r
<1>6. LoansOk'
  <2>1. \A j \in loans' : IsLoan(j) /\ j.loan_id < borrower_state'[j.borrower].next_loan_id
    <3>1. \A j \in loans : IsLoan(j) /\ j.loan_id < borrower_state[j.borrower].next_loan_id
      BY DEF IInv, LoansOk
    <3>2. \A j \in loans : j.borrower \in Borrowers
      BY <3>1 DEF IsLoan
    <3>3. \A j \in loans : j.loan_id < borrower_state'[j.borrower].next_loan_id
      BY <3>1, <3>2, <1>5
    <3>4. k.loan_id < borrower_state'[k.borrower].next_loan_id
      BY <3>3, <1>2
    <3> QED BY <1>1, <1>2, <3>1, <3>3, <3>4
  <2>2. \A i, j \in loans' : Key(i) = Key(j) => i = j
    <3>1. \A j \in loans \ {l} : Key(j) # Key(l)
      BY DEF IInv, LoansOk
    <3>2. \A i, j \in loans : Key(i) = Key(j) => i = j
      BY DEF IInv, LoansOk
    <3> QED BY <1>1, <1>2, <3>1, <3>2
  <2> QED BY <1>1, <2>1, <2>2 DEF LoansOk, IsLoan, Key
<1>7. RecordsOk'
  <2>1. \A a \in attestations' : \E j \in loans' : j.status # 0 /\ RecordOf(a, j)
    <3>1. \A a \in attestations : \E j \in loans : j.status # 0 /\ RecordOf(a, j)
      BY DEF IInv, RecordsOk
    <3>2. l.status = 0
      BY DEF ClosedAs
    <3>3. \A a \in attestations : \E j \in loans \ {l} : j.status # 0 /\ RecordOf(a, j)
      BY <3>1, <3>2
    <3>4. k.status # 0
      BY <1>1, <1>2
    <3> QED BY <1>1, <1>4, <3>3, <3>4
  <2>2. \A j \in loans' : j.status # 0 => \E a \in attestations' : RecordOf(a, j)
    BY <1>1, <1>4 DEF IInv, RecordsOk
  <2>3. \A a, b \in attestations' : a.loan = b.loan => a = b
    BY <1>1, <1>3 DEF IInv, RecordsOk
  <2> QED BY <2>1, <2>2, <2>3 DEF RecordsOk, RecordOf, RecordFor, Key, Agree, InDefault
<1>8. LimitsOk'
  <2> SUFFICES ASSUME NEW b \in Borrowers
               PROVE  LET n == borrower_state'[b].largest_repaid
                          mine == {a \in attestations' : a.borrower = b /\ a.outcome = 0}
                      IN  /\ n = 0 \/ \E a \in mine : a.principal = n
                          /\ \A a \in mine : a.principal \in Nat /\ a.principal <= n
    BY DEF LimitsOk, OnTimeOf
  <2> DEFINE n == borrower_state[b].largest_repaid
             n2 == borrower_state'[b].largest_repaid
             mine == {a \in attestations : a.borrower = b /\ a.outcome = 0}
             mine2 == {a \in attestations' : a.borrower = b /\ a.outcome = 0}
  <2>1. /\ n = 0 \/ \E a \in mine : a.principal = n
        /\ \A a \in mine : a.principal \in Nat /\ a.principal <= n
        /\ n \in Nat
    BY DEF IInv, LimitsOk, OnTimeOf, LoansOk, P!BorrowerState
  <2>2. n2 = IF b = l.borrower /\ outcome = 0 THEN Larger(n, l.principal) ELSE n
    BY DEF ClosedAs
  <2>3. mine2 = mine \cup (IF b = l.borrower /\ outcome = 0 THEN {r} ELSE {})
    BY <1>1, <1>3
  <2> HIDE DEF n, n2, mine, mine2
  <2>6. /\ n2 = 0 \/ \E a \in mine2 : a.principal = n2
        /\ \A a \in mine2 : a.principal \in Nat /\ a.principal <= n2
    <3>1. CASE b = l.borrower /\ outcome = 0
      <4>1. n2 = Larger(n, l.principal) /\ mine2 = mine \cup {r}
        BY <2>2, <2>3, <3>1
      <4>2. Larger(n, l.principal) \in {n, l.principal}
        BY DEF Larger
      <4>3. n <= n2 /\ l.principal <= n2 /\ n2 \in Nat
        BY <1>5, <2>1, <4>1 DEF Larger
      <4>4. \A a \in mine : a.principal \in Nat /\ a.principal <= n2
        BY <2>1, <4>3
      <4>5. n2 = n \/ n2 = r.principal
        BY <1>3, <4>1, <4>2
      <4> QED BY <1>3, <1>5, <2>1, <4>1, <4>3, <4>4, <4>5
    <3>2. CASE ~(b = l.borrower /\ outcome = 0)
      BY <2>1, <2>2, <2>3, <3>2
    <3> QED BY <3>1, <3>2
  <2> QED BY <2>6 DEF n2, mine2
<1> QED BY <1>1, <1>6, <1>7, <1>8 DEF IInv

\* No step of the composition leaves the invariant.
LEMMA StepInv == IInv /\ [Next]_vars => IInv'
<1> SUFFICES ASSUME IInv, [Next]_vars PROVE IInv'
  OBVIOUS
<1>1. now \in Times
  BY DEF IInv
<1>2. CASE PoolStep
  <2>1. UNCHANGED <<now, borrower_state, loans, attestations>>
    BY <1>2 DEF PoolStep, P!AdminStep, P!AddCollateral, P!AccrueInterest, P!LenderStep, P!Deposit,
                P!Withdraw, P!lending, record
  <2> QED BY <1>1, <2>1, QuietInv
<1>3. CASE TrustTrailStep
  <2>1. UNCHANGED <<now, borrower_state, loans, attestations>>
    BY <1>3 DEF TrustTrailStep, T!WhitelistStep, T!AddWriter, T!RemoveWriter, T!InitScore,
                T!SetImportedScore, T!SetExposure, money
  <2> QED BY <1>1, <2>1, QuietInv
<1>4. CASE BorrowStep
  <2>1. PICK b \in Borrowers, amount \in LoanAmounts, m \in Mints, posted \in CollateralAmounts,
             update \in PriceUpdates : Borrow(b, amount, m, posted, update)
    BY <1>4 DEF BorrowStep
  <2>2. P!Borrow(b, T!Live(b).tier, amount, m, posted, update) /\ UNCHANGED attestations
    BY <2>1 DEF Borrow, record
  <2> QED BY <2>2, BorrowInv
<1>5. CASE CloseStep
  BY <1>5, CloseEffect, CloseInv DEF CloseStep
<1>6. CASE Tick
  BY <1>6, QuietInv DEF Tick, P!Tick, P!lending, record
<1>7. CASE UNCHANGED vars
  BY <1>1, <1>7, QuietInv DEF vars, money, record
<1> QED BY <1>2, <1>3, <1>4, <1>5, <1>6, <1>7 DEF Next

\* One record per closed loan, written by the pool with the loan's own terms,
\* and a limit that is the largest principal repaid on time: in every reachable
\* state of the two programs together.
THEOREM Inductive == Spec => []IInv
BY InitInv, StepInv, PTL DEF Spec

\* A record belongs to the loan whose address it carries.
LEMMA RecordsByKey ==
  ASSUME IInv, NEW l \in loans
  PROVE  /\ l.status = 0 => \A a \in attestations : a.loan # Key(l)
         /\ l.status # 0 =>
              \E r \in attestations : /\ RecordOf(r, l)
                                      /\ {a \in attestations : a.loan = Key(l)} = {r}
<1>1. \A a \in attestations : \E j \in loans : j.status # 0 /\ a.loan = Key(j)
  BY NewRecord DEF IInv, RecordsOk, RecordOf
<1>2. l.status = 0 => \A a \in attestations : a.loan # Key(l)
  BY <1>1 DEF IInv, LoansOk
<1>3. ASSUME l.status # 0
      PROVE  \E r \in attestations : /\ RecordOf(r, l)
                                     /\ {a \in attestations : a.loan = Key(l)} = {r}
  <2>1. PICK r \in attestations : RecordOf(r, l)
    BY <1>3 DEF IInv, RecordsOk
  <2>2. r.loan = Key(l)
    BY <2>1, NewRecord DEF RecordOf
  <2> QED BY <2>1, <2>2 DEF IInv, RecordsOk
<1> QED BY <1>2, <1>3

\* repay and liquidate write exactly one record each, and it tells the story of
\* the loan's status, whichever loans are open beside it.
THEOREM OneRecord == Spec => []OneRecordPerClosedLoan
<1>1. IInv => OneRecordPerClosedLoan
  <2> SUFFICES ASSUME IInv, NEW l \in loans
               PROVE  LET records == {a \in attestations : a.loan = Key(l)}
                      IN  IF l.status = P!OPEN THEN records = {}
                          ELSE /\ Cardinality(records) = 1
                               /\ \A a \in records :
                                    /\ a.borrower = l.borrower /\ a.principal = l.principal
                                    /\ a.opened_at = l.opened_at /\ a.due_at = l.due_at
                                    /\ a.outcome = DEFAULTED <=> InDefault(a.closed_at, l.due_at)
                                    /\ l.status = P!LOAN_LIQUIDATED <=> a.outcome = LIQUIDATED
                                    /\ l.status = P!LOAN_DEFAULTED => a.outcome = DEFAULTED
    BY DEF OneRecordPerClosedLoan, Key
  <2> DEFINE records == {a \in attestations : a.loan = Key(l)}
  <2>1. CASE l.status = 0
    <3>1. records = {}
      BY <2>1, RecordsByKey
    <3> QED BY <2>1, <3>1 DEF P!OPEN
  <2>2. CASE l.status # 0
    <3>1. PICK r \in attestations : RecordOf(r, l) /\ records = {r}
      BY <2>2, RecordsByKey
    <3>2. Cardinality(records) = 1
      BY <3>1, FS_Singleton
    <3>3. /\ r.borrower = l.borrower /\ r.principal = l.principal
          /\ r.opened_at = l.opened_at /\ r.due_at = l.due_at
          /\ Agree(l, l.status, r.outcome, r.closed_at)
      BY <3>1, NewRecord DEF RecordOf
    <3> QED BY <2>2, <3>1, <3>2, <3>3
         DEF Agree, DEFAULTED, LIQUIDATED, P!OPEN, P!LOAN_LIQUIDATED, P!LOAN_DEFAULTED
  <2> QED BY <2>1, <2>2
<1> QED BY <1>1, Inductive, PTL

\* The largest element of a set with one.
LEMMA MaxIs ==
  ASSUME NEW S, S \subseteq Nat, NEW n \in S, \A x \in S : x <= n
  PROVE  Max(S) = n /\ Ledger!Max(S) = n
<1>1. \A x \in S : (\A y \in S : x >= y) <=> x = n
  OBVIOUS
<1>2. Max(S) = n
  BY <1>1 DEF Max
<1>3. Ledger!Max(S) = n
  BY <1>1 DEF Ledger!Max
<1> QED BY <1>2, <1>3

\* A borrower's limit is never above (nor below) the largest loan it has on
\* record as repaid on time.
THEOREM LimitAttested == Spec => []LimitIsAttested
<1>1. IInv => LimitIsAttested
  <2> SUFFICES ASSUME IInv, NEW b \in Borrowers
               PROVE  borrower_state[b].largest_repaid =
                        Max({0} \cup {a.principal : a \in {r \in T!RecordsOf(b) : r.outcome = ON_TIME}})
    BY DEF LimitIsAttested
  <2> DEFINE n == borrower_state[b].largest_repaid
             S == {0} \cup {a.principal : a \in OnTimeOf(b)}
  <2>1. {r \in T!RecordsOf(b) : r.outcome = ON_TIME} = OnTimeOf(b)
    BY DEF T!RecordsOf, OnTimeOf, ON_TIME
  <2>2. /\ n = 0 \/ \E a \in OnTimeOf(b) : a.principal = n
        /\ \A a \in OnTimeOf(b) : a.principal \in Nat /\ a.principal <= n
        /\ n \in Nat
    BY DEF IInv, LimitsOk, LoansOk, P!BorrowerState
  <2>3. S \subseteq Nat /\ n \in S /\ \A x \in S : x <= n
    BY <2>2
  <2> HIDE DEF S, n
  <2>4. Max(S) = n
    BY <2>3, MaxIs
  <2> QED BY <2>1, <2>4 DEF S, n
<1> QED BY <1>1, Inductive, PTL

-----------------------------------------------------------------------------
(* The composition refines the two programs. *)

\* The steps of T are those of TP.
LEMMA SameInstructions ==
  /\ \A w \in Borrowers : T!InitScore(w) => TP!InitScore(w)
  /\ T!WhitelistStep => TP!WhitelistStep
  /\ \A writer : \A w \in Borrowers, import \in Imports :
       T!SetImportedScore(writer, w, import) => TP!SetImportedScore(writer, w, import)
  /\ \A w \in Borrowers, exposure \in Exposures : T!SetExposure(w, exposure) => TP!SetExposure(w, exposure)
  /\ \A writer, w, p, from, due, o, loan :
       T!RecordEvent(writer, w, p, from, due, o, loan)
         => TP!RecordEvent(writer, w, p, from, due, o, loan)
<1>1. \A w \in Borrowers : T!InitScore(w) => TP!InitScore(w)
  BY SameConstants DEF T!InitScore, TP!InitScore
<1>2. T!WhitelistStep => TP!WhitelistStep
  BY DEF T!WhitelistStep, TP!WhitelistStep, T!AddWriter, TP!AddWriter, T!RemoveWriter,
         TP!RemoveWriter, T!Cardinality, TP!Cardinality
<1>3. T!Scored = TP!Scored
  BY DEF T!Scored, TP!Scored
<1>4. \A writer : \A w \in Borrowers, import \in Imports :
        T!SetImportedScore(writer, w, import) => TP!SetImportedScore(writer, w, import)
  BY <1>3, SameConstants, SameRefreshed, SameImported DEF T!SetImportedScore, TP!SetImportedScore
<1>5. \A w \in Borrowers, exposure \in Exposures :
        T!SetExposure(w, exposure) => TP!SetExposure(w, exposure)
  BY <1>3, SameRefreshed DEF T!SetExposure, TP!SetExposure
<1>6. \A writer, w, p, from, due, o, loan :
        T!RecordEvent(writer, w, p, from, due, o, loan)
          => TP!RecordEvent(writer, w, p, from, due, o, loan)
  <2> SUFFICES ASSUME NEW writer, NEW w, NEW p, NEW from, NEW due, NEW o, NEW loan,
                      T!RecordEvent(writer, w, p, from, due, o, loan)
               PROVE  TP!RecordEvent(writer, w, p, from, due, o, loan)
    OBVIOUS
  <2>1. T!Refreshed(T!Recorded(reputation[w], p, from, due, o), now)
          = TP!Refreshed(TP!Recorded(reputation[w], p, from, due, o), now)
    BY SameRefreshed, SameRecorded
  <2> QED BY <1>3, <2>1 DEF T!RecordEvent, TP!RecordEvent
<1> QED BY <1>1, <1>2, <1>4, <1>5, <1>6

\* repay and liquidate are RecordEvents with arguments of TrustTrail's.
LEMMA CloseRecords ==
  ASSUME IInv, NEW l \in loans, NEW outcome \in 0..3, Record(l, outcome)
  PROVE  TP!RecordStep
<1>1. TP!RecordEvent(PoolWriter, l.borrower, l.principal, l.opened_at, l.due_at, outcome,
                     <<l.borrower, l.loan_id>>)
  BY SameInstructions DEF Record
<1>2. /\ l.borrower \in Borrowers /\ l.principal \in LoanAmounts /\ l.opened_at \in Times
      /\ l.due_at \in {t + LOAN_TERM_SECS : t \in Times}
      /\ <<l.borrower, l.loan_id>> \in LoanKeys
  BY DEF IInv, LoansOk, IsLoan, LoanKeys
<1> QED BY <1>1, <1>2 DEF TP!RecordStep, TP!Outcomes

\* What is proved of TrustTrail holds of the two programs together: a wallet
\* with a bad outcome on record is shut out of the better tiers for 90 days,
\* and the cached score is never above the live one.
THEOREM RecordRefined == Spec => TP!Spec
<1>1. Init => TP!Init
  BY DEF Init, T!Init, TP!Init
<1>2. ASSUME IInv, [Next]_vars PROVE [TP!Next]_TP!vars
  <2>1. CASE PoolStep
    <3>1. UNCHANGED <<now, whitelist, reputation, attestations>>
      BY <2>1 DEF PoolStep, P!AdminStep, P!AddCollateral, P!AccrueInterest, P!LenderStep,
                  P!Deposit, P!Withdraw, record
    <3> QED BY <3>1 DEF TP!vars
  <2>2. CASE TrustTrailStep
    <3>1. CASE T!WhitelistStep
      BY <3>1, SameInstructions DEF TP!Next
    <3>2. ASSUME NEW w \in Borrowers, T!InitScore(w) PROVE TP!ScoreStep
      BY <3>2, SameInstructions DEF TP!ScoreStep
    <3>3. ASSUME NEW w \in Borrowers, NEW import \in Imports,
                 T!SetImportedScore(ImportWriter, w, import) PROVE TP!ScoreStep
      BY <3>3, SameInstructions DEF TP!ScoreStep
    <3>4. ASSUME NEW w \in Borrowers, NEW exposure \in Exposures, T!SetExposure(w, exposure)
          PROVE  TP!ScoreStep
      BY <3>4, SameInstructions DEF TP!ScoreStep
    <3> QED BY <2>2, <3>1, <3>2, <3>3, <3>4 DEF TrustTrailStep, TP!Next
  <2>3. CASE BorrowStep
    <3>1. UNCHANGED <<now, whitelist, reputation, attestations>>
      BY <2>3 DEF BorrowStep, Borrow, P!Borrow, record
    <3> QED BY <3>1 DEF TP!vars
  <2>4. CASE CloseStep
    <3>1. PICK l \in loans : Repay(l) \/ \E update \in PriceUpdates : Liquidate(l, update)
      BY <2>4 DEF CloseStep
    <3>2. \E outcome \in 0..3 : Record(l, outcome)
      BY <3>1 DEF Repay, Liquidate, RepayOutcome, ON_TIME, LATE, LIQUIDATED, DEFAULTED
    <3> QED BY <1>2, <3>2, CloseRecords DEF TP!Next
  <2>5. CASE Tick
    BY <2>5 DEF Tick, P!Tick, TP!Tick, TP!Next, record
  <2>6. CASE UNCHANGED vars
    BY <2>6 DEF vars, record, TP!vars
  <2> QED BY <1>2, <2>1, <2>2, <2>3, <2>4, <2>5, <2>6 DEF Next
<1> QED BY <1>1, <1>2, Inductive, PTL DEF Spec, TP!Spec

\* The standing the pool reads is one of the four tiers.
LEMMA LiveTier == \A b : T!Live(b).tier \in 0..3
<1>1. \A b : T!Live(b).tier =
        T!ComputeTier(T!Live(b).score, reputation[b].meaningful_on_time,
                      reputation[b].meaningful_weight_bps,
                      reputation[b].last_liquidation_date, now)
  BY DEF T!Live, T!Standing
<1>2. \A s, n, w, d, t : T!ComputeTier(s, n, w, d, t) \in 0..3
  BY DEF T!ComputeTier, T!UNPROVEN, T!BRONZE, T!SILVER, T!GOLD
<1> QED BY <1>1, <1>2

\* What holds of the pool alone, with any tier for any borrower, holds of the
\* two programs together.
THEOREM PoolRefined == Spec => P!Spec
<1>1. Init => P!Init
  BY DEF Init
<1>2. ASSUME [Next]_vars PROVE [P!Next]_P!vars
  <2>1. CASE PoolStep
    BY <2>1 DEF PoolStep, P!Next
  <2>2. CASE TrustTrailStep
    <3>1. UNCHANGED <<now, money>>
      BY <2>2 DEF TrustTrailStep, T!WhitelistStep, T!AddWriter, T!RemoveWriter, T!InitScore,
                  T!SetImportedScore, T!SetExposure
    <3> QED BY <3>1 DEF money, P!vars, P!books, P!shares, P!lending
  <2>3. CASE BorrowStep
    BY <2>3, LiveTier DEF BorrowStep, Borrow, P!Next, P!BorrowStep, Tiers
  <2>4. CASE CloseStep
    BY <2>4 DEF CloseStep, Repay, Liquidate, P!Next, P!CloseStep
  <2>5. CASE Tick
    BY <2>5 DEF Tick, P!Next
  <2>6. CASE UNCHANGED vars
    BY <2>6 DEF vars, money, P!vars, P!books, P!shares, P!lending
  <2> QED BY <1>2, <2>1, <2>2, <2>3, <2>4, <2>5, <2>6 DEF Next
<1> QED BY <1>1, <1>2, PTL DEF Spec, P!Spec

-----------------------------------------------------------------------------
(* The composition implements CreditLedger. *)

OpenOf(some) == {l \in some : l.status = 0}

LEMMA LedgerSets ==
  /\ LedgerOpen = {LedgerLoan(l) : l \in OpenOf(loans)}
  /\ LedgerOpen' = {LedgerLoan(l) : l \in OpenOf(loans')}
  /\ LedgerHistory' = {LedgerRecord(a) : a \in attestations'}
  /\ \A l : /\ LedgerLoan(l).borrower = l.borrower /\ LedgerLoan(l).id = l.loan_id
            /\ LedgerLoan(l).tier = l.tier_at_open /\ LedgerLoan(l).principal = l.principal
            /\ LedgerLoan(l).due_at = l.due_at
  /\ \A a : /\ LedgerRecord(a).borrower = a.borrower /\ LedgerRecord(a).id = a.loan[2]
            /\ LedgerRecord(a).principal = a.principal
            /\ LedgerRecord(a).closed_at = a.closed_at /\ LedgerRecord(a).outcome = a.outcome
  BY DEF LedgerOpen, LedgerHistory, LedgerLoan, LedgerRecord, OpenOf, P!OpenLoans, P!OPEN

\* The ledger's view of a borrower's history: its largest on-time loan is the
\* limit the pool keeps, and no id of a loan to come is taken.
LEMMA LedgerView ==
  ASSUME IInv, NEW b \in Borrowers
  PROVE  /\ Ledger!LargestOnTime(b) = borrower_state[b].largest_repaid
         /\ \A x \in LedgerOpen \cup LedgerHistory :
              x.borrower = b => x.id # borrower_state[b].next_loan_id
<1> DEFINE n == borrower_state[b].largest_repaid
           S == {0} \cup {a.principal : a \in OnTimeOf(b)}
           H == {r \in Ledger!HistoryOf(b) : r.outcome = Ledger!ON_TIME}
<1>1. /\ n = 0 \/ \E a \in OnTimeOf(b) : a.principal = n
      /\ \A a \in OnTimeOf(b) : a.principal \in Nat /\ a.principal <= n
      /\ n \in Nat
  BY DEF IInv, LimitsOk, LoansOk, P!BorrowerState
<1>2. S \subseteq Nat /\ n \in S /\ \A x \in S : x <= n
  BY <1>1
<1>3. H = {LedgerRecord(a) : a \in OnTimeOf(b)}
  BY LedgerSets DEF Ledger!HistoryOf, LedgerHistory, OnTimeOf, Ledger!ON_TIME
<1>4. {0} \cup {r.principal : r \in H} = S
  <2>1. \A a : LedgerRecord(a).principal = a.principal
    BY LedgerSets
  <2>2. {r.principal : r \in H} = {LedgerRecord(a).principal : a \in OnTimeOf(b)}
    BY <1>3
  <2> QED BY <2>1, <2>2
<1> HIDE DEF S, n
<1>5. Ledger!LargestOnTime(b) = n
  <2>1. Ledger!Max(S) = n
    BY <1>2, MaxIs
  <2> QED BY <1>4, <2>1 DEF Ledger!LargestOnTime
<1>6. \A l \in loans : l.borrower = b =>
        /\ l.loan_id < borrower_state[b].next_loan_id
        /\ l.loan_id \in Nat /\ borrower_state[b].next_loan_id \in Nat
  BY Constants DEF IInv, LoansOk, IsLoan, P!BorrowerState
<1>7. \A x \in LedgerOpen : x.borrower = b => x.id # borrower_state[b].next_loan_id
  <2> SUFFICES ASSUME NEW l \in OpenOf(loans), LedgerLoan(l).borrower = b
               PROVE  LedgerLoan(l).id # borrower_state[b].next_loan_id
    BY LedgerSets
  <2>1. l \in loans /\ l.borrower = b /\ LedgerLoan(l).id = l.loan_id
    BY LedgerSets DEF OpenOf
  <2> QED BY <1>6, <2>1
<1>8. \A x \in LedgerHistory : x.borrower = b => x.id # borrower_state[b].next_loan_id
  <2> SUFFICES ASSUME NEW a \in attestations, a.borrower = b
               PROVE  a.loan[2] # borrower_state[b].next_loan_id
    BY LedgerSets DEF LedgerHistory
  <2>1. PICK l \in loans : RecordOf(a, l)
    BY DEF IInv, RecordsOk
  <2>2. a.borrower = l.borrower /\ a.loan[2] = l.loan_id
    BY <2>1, NewRecord DEF RecordOf, Key
  <2> QED BY <1>6, <2>2
<1> QED BY <1>5, <1>7, <1>8 DEF n

\* A borrower at Silver or Gold is not blocked: TrustTrail's 90 days.
LEMMA LedgerCooldown ==
  ASSUME IInv, TP!CooldownHolds, NEW b \in T!Scored, T!Live(b).tier >= 2
  PROVE  ~Ledger!Blocked(b)
<1>1. b \in TP!Scored /\ TP!Live(b).tier = T!Live(b).tier
  BY SameStanding DEF T!Scored, TP!Scored, T!Live, TP!Live
<1>2. \A a \in attestations : a.borrower = b /\ a.outcome \in {2, 3} =>
        now - a.closed_at >= T!LIQUIDATION_COOLDOWN_SECS
  BY <1>1, SameConstants DEF TP!CooldownHolds, TP!BadRecordsOf, TP!RecordsOf, TP!SILVER, TP!LIQUIDATED,
                             TP!DEFAULTED
<1>3. now \in Nat /\ T!LIQUIDATION_COOLDOWN_SECS \in Nat /\ \A a \in attestations : a.closed_at \in Nat
  BY Constants, UnitAssumption DEF IInv, RecordsOk, RecordOf, T!LIQUIDATION_COOLDOWN_SECS
<1> SUFFICES ASSUME NEW r \in LedgerHistory, r.borrower = b, r.outcome \in {2, 3},
                    now - r.closed_at < T!LIQUIDATION_COOLDOWN_SECS
             PROVE  FALSE
  BY SameTerms DEF Ledger!Blocked, Ledger!HistoryOf, Ledger!LIQUIDATED, Ledger!DEFAULTED
<1>4. PICK a \in attestations : r = LedgerRecord(a)
  BY DEF LedgerHistory
<1>5. a.borrower = r.borrower /\ a.outcome = r.outcome /\ a.closed_at = r.closed_at
  BY <1>4, LedgerSets
<1> QED BY <1>2, <1>3, <1>5

LEMMA OpensALoan ==
  ASSUME IInv, TP!CooldownHolds, BorrowStep
  PROVE  Ledger!Next
<1>1. PICK b \in Borrowers, amount \in LoanAmounts, m \in Mints, posted \in CollateralAmounts,
           update \in PriceUpdates : Borrow(b, amount, m, posted, update)
  BY DEF BorrowStep
<1> DEFINE tier == T!Live(b).tier
           id == borrower_state[b].next_loan_id
<1>2. P!Borrow(b, tier, amount, m, posted, update)
  BY <1>1 DEF Borrow
<1>3. b \in T!Scored /\ attestations' = attestations
  BY <1>1 DEF Borrow, record
<1>4. tier \in 0..3
  BY LiveTier
<1> HIDE DEF tier
<1>5. PICK l : /\ IsLoan(l) /\ l.status = 0 /\ l.borrower = b /\ l.tier_at_open = tier
               /\ l.principal = amount /\ l.loan_id = id /\ l.opened_at = now
               /\ loans' = loans \cup {l} /\ now' = now
               /\ amount <= P!MaxLoan(tier, borrower_state[b].largest_repaid)
  BY <1>2, BorrowEffect
<1>6. id \in 0..MaxLoans /\ l.due_at = now + LOAN_TERM_SECS
  BY <1>5 DEF IsLoan
<1> HIDE DEF id
<1>7. LedgerOpen' = LedgerOpen \cup
        {[borrower |-> b, id |-> id, tier |-> tier, principal |-> amount,
          due_at |-> now + LOAN_TERM_SECS]}
  <2>1. OpenOf(loans') = OpenOf(loans) \cup {l}
    BY <1>5 DEF OpenOf
  <2>2. LedgerOpen' = LedgerOpen \cup {LedgerLoan(l)}
    BY <2>1, LedgerSets
  <2> QED BY <1>5, <1>6, <2>2 DEF LedgerLoan
<1>8. LedgerHistory' = LedgerHistory
  BY <1>3, LedgerSets DEF LedgerHistory
<1>9. amount <= Ledger!MaxLoan(tier, Ledger!LargestOnTime(b))
  <2>1. Ledger!LargestOnTime(b) = borrower_state[b].largest_repaid
    BY LedgerView
  <2> QED BY <1>5, <2>1, SameTerms
<1>10. \A x \in LedgerOpen \cup LedgerHistory : x.borrower = b => x.id # id
  BY LedgerView DEF id
<1>11. tier >= Ledger!SILVER => ~Ledger!Blocked(b)
  BY <1>3, LedgerCooldown DEF tier, Ledger!SILVER
<1>12. Ledger!Open(b, id, tier, amount)
  BY <1>5, <1>7, <1>8, <1>9, <1>10, <1>11, SameTerms DEF Ledger!Open
<1> QED BY <1>4, <1>6, <1>12 DEF Ledger!Next, Ledger!Tiers

LEMMA ClosesALoan ==
  ASSUME IInv, NEW l \in loans, NEW status, NEW outcome, ClosedAs(l, status, outcome)
  PROVE  Ledger!Next
<1> DEFINE k == [l EXCEPT !.status = status]
           r == RecordFor(l, now, outcome)
           x == LedgerLoan(l)
<1>1. /\ IsLoan(l) /\ l.status = 0 /\ now' = now /\ outcome \in 0..3
      /\ loans' = (loans \ {l}) \cup {k} /\ attestations' = attestations \cup {r}
      /\ status \in 0..3 /\ status # 0
  BY DEF IInv, LoansOk, ClosedAs, Agree
<1>2. k.status # 0
  <2>1. IsLoan(l) /\ status \in 0..3
    BY <1>1
  <2>2. k.status = status
    BY <2>1, StatusOnly
  <2> QED BY <1>1, <2>2
<1>3. OpenOf(loans') = OpenOf(loans) \ {l} /\ l \in OpenOf(loans)
  BY <1>1, <1>2 DEF OpenOf
<1>4. \A j \in OpenOf(loans) : LedgerLoan(j) = x => j = l
  <2> SUFFICES ASSUME NEW j \in loans, LedgerLoan(j) = x PROVE j = l
    BY DEF OpenOf
  <2>1. j.borrower = l.borrower /\ j.loan_id = l.loan_id
    BY LedgerSets
  <2> QED BY <2>1 DEF IInv, LoansOk, Key
<1>5. LedgerOpen' = LedgerOpen \ {x} /\ x \in LedgerOpen
  BY <1>3, <1>4, LedgerSets
<1>6. LedgerHistory' = LedgerHistory \cup {LedgerRecord(r)}
  BY <1>1, LedgerSets DEF LedgerHistory
<1>7. LedgerRecord(r) = [borrower |-> x.borrower, id |-> x.id, principal |-> x.principal,
                         closed_at |-> now, outcome |-> outcome]
  <2>1. /\ r.borrower = l.borrower /\ r.loan = Key(l) /\ r.principal = l.principal
        /\ r.closed_at = now /\ r.outcome = outcome
    BY NewRecord
  <2>2. Key(l)[2] = l.loan_id
    BY DEF Key
  <2> HIDE DEF r
  <2> QED BY <2>1, <2>2, LedgerSets DEF LedgerRecord
<1>8. outcome \in Ledger!Possible(x.due_at)
  <2>1. x.due_at = l.due_at
    BY LedgerSets
  <2>2. now \in Nat /\ l.due_at \in Nat
    BY <1>1, Constants DEF IsLoan, IInv
  <2>3. outcome = 3 <=> InDefault(now, l.due_at)
    BY DEF ClosedAs, Agree
  <2>4. /\ outcome = 0 => now <= l.due_at
        /\ outcome = 1 => ~(now <= l.due_at)
    BY <2>2 DEF ClosedAs
  <2> HIDE DEF x
  <2>5. CASE InDefault(now, l.due_at)
    BY <2>1, <2>3, <2>5, SameTerms DEF Ledger!Possible, Ledger!DEFAULTED
  <2>6. CASE ~InDefault(now, l.due_at)
    <3>1. outcome \in {0, 1, 2}
      BY <1>1, <2>3, <2>6
    <3> QED BY <2>1, <2>4, <2>6, <3>1, SameTerms
         DEF Ledger!Possible, Ledger!LIQUIDATED, Ledger!ON_TIME, Ledger!LATE
  <2> QED BY <2>5, <2>6
<1> HIDE DEF x, r, k
<1>9. Ledger!Close(x, outcome)
  BY <1>1, <1>5, <1>6, <1>7, <1>8 DEF Ledger!Close
<1> QED BY <1>1, <1>5, <1>9 DEF Ledger!Next, Ledger!Outcomes

\* The two programs together implement CreditLedger: a loan opens within the
\* limit that on-time repayments on record earned, never at a better tier within
\* 90 days of a bad outcome, and closes once, with the outcome the clock says.
THEOREM LedgerImplemented == Spec => ImplementsLedger
<1>1. Init => Ledger!Init
  <2> SUFFICES ASSUME Init PROVE Ledger!Init
    OBVIOUS
  <2>1. now \in Times /\ loans = {} /\ attestations = {}
    BY DEF Init, P!Init, T!Init
  <2> QED BY <2>1 DEF Ledger!Init, LedgerOpen, LedgerHistory, P!OpenLoans
<1>2. ASSUME IInv, TP!CooldownHolds, [Next]_vars PROVE [Ledger!Next]_Ledger!vars
  <2>1. ASSUME UNCHANGED <<loans, attestations>>
        PROVE  LedgerOpen' = LedgerOpen /\ LedgerHistory' = LedgerHistory
    BY <2>1, LedgerSets DEF LedgerHistory
  <2>2. CASE PoolStep
    <3>1. UNCHANGED <<now, loans, attestations>>
      BY <2>2 DEF PoolStep, P!AdminStep, P!AddCollateral, P!AccrueInterest, P!LenderStep,
                  P!Deposit, P!Withdraw, P!lending, record
    <3> QED BY <2>1, <3>1 DEF Ledger!vars
  <2>3. CASE TrustTrailStep
    <3>1. UNCHANGED <<now, loans, attestations>>
      BY <2>3 DEF TrustTrailStep, T!WhitelistStep, T!AddWriter, T!RemoveWriter, T!InitScore,
                  T!SetImportedScore, T!SetExposure, money
    <3> QED BY <2>1, <3>1 DEF Ledger!vars
  <2>4. CASE BorrowStep
    BY <1>2, <2>4, OpensALoan
  <2>5. CASE CloseStep
    <3>1. PICK l \in loans : Repay(l) \/ \E update \in PriceUpdates : Liquidate(l, update)
      BY <2>5 DEF CloseStep
    <3>2. PICK status, outcome : ClosedAs(l, status, outcome)
      BY <1>2, <3>1, CloseEffect
    <3> QED BY <1>2, <3>2, ClosesALoan
  <2>6. CASE Tick
    <3>1. now' \in {t \in Times : t > now} /\ UNCHANGED <<loans, attestations>>
      BY <2>6 DEF Tick, P!Tick, P!lending, record
    <3> QED BY <2>1, <3>1 DEF Ledger!Tick, Ledger!Next
  <2>7. CASE UNCHANGED vars
    <3>1. UNCHANGED <<now, loans, attestations>>
      BY <2>7 DEF vars, money, record
    <3> QED BY <2>1, <3>1 DEF Ledger!vars
  <2> QED BY <1>2, <2>2, <2>3, <2>4, <2>5, <2>6, <2>7 DEF Next
<1>3. Spec => []TP!CooldownHolds
  BY RecordRefined, TP!CooldownKept, Constants, PTL
<1> QED BY <1>1, <1>2, <1>3, Inductive, PTL DEF Spec, ImplementsLedger, Ledger!Spec
=============================================================================

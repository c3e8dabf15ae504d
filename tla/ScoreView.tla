------------------------------ MODULE ScoreView -----------------------------
(*****************************************************************************)
(* The backend's own computation of a score: scoring.ts, which the import    *)
(* writes from and the score page reads with, standing.ts, attestations.ts,  *)
(* and the two readers of an account that compute nothing: another lender    *)
(* (partner.ts) and recomputeExposure.  It is a second implementation of     *)
(* what the program computes, over the same accounts; the names are those    *)
(* of the TypeScript functions.                                              *)
(*****************************************************************************)
EXTENDS TrustTrail, SequencesExt

CONSTANTS
  Foreign,  \* SAS attestations of other schemas and signers: [schema, signer, record]
  Null      \* an absent account or date

\* partner.ts: what another lender reads of an account.
TrustTrailRecord ==
  [score : Nat, tier : Tiers, on_time : Nat, late : Nat, liquidated : Nat]

\* An account of our schema and signer is one the program wrote.
ASSUME ViewAssumption ==
  /\ \A account \in Foreign : account.schema # "repayment" \/ account.signer # "sas-signer"
  /\ Null \notin UserReputationV2 \cup Attestation \cup TrustTrailRecord \cup Nat

-----------------------------------------------------------------------------
(* scoring.ts *)

\* The rows of its own WEIGHT_TABLE and HALF_STEP_TABLE.
weightTable ==
  [principal |-> <<100, 150, 200, 300, 500, 740, 2500, 10000, 50000, 108000>>,
   weight |-> <<0, 2026, 3463, 5489, 8041, 10000, 10244, 10522, 10845, 11000>>]
halfStepTable == <<10000, 9170, 8409, 7711, 7071, 6484, 5946, 5453, 5000>>

principalWeightBps(principal) ==
  LET p(i) == weightTable.principal[i] * USDC_UNIT
      w(i) == weightTable.weight[i]
      i == CHOOSE k \in 1..9 : principal < p(k + 1) /\ (k = 1 \/ principal >= p(k))
  IN  IF principal < p(1) THEN 0
      ELSE IF principal >= p(10) THEN w(10)
      ELSE w(i) + ((principal - p(i)) * (w(i + 1) - w(i))) \div (p(i + 1) - p(i))

durationBps(opened_at, closed_at) ==
  (Smaller(Larger(closed_at - opened_at, 0), MIN_HOLD_SECS) * BPS) \div MIN_HOLD_SECS

dueDateFactorBps(due_at) == IF due_at # 0 THEN 10000 ELSE 5000

\* [plus, minus]
loanContributionBps(l) ==
  LET w == principalWeightBps(l.principal)
      held == (w * durationBps(l.opened_at, l.closed_at)) \div BPS
      o == IF l.outcome = ON_TIME THEN 10000 ELSE 5000
  IN  CASE l.outcome \in {ON_TIME, LATE} ->
             [plus |-> (((held * o) \div BPS) * dueDateFactorBps(l.due_at)) \div BPS, minus |-> 0]
        [] l.outcome = LIQUIDATED -> [plus |-> 0, minus |-> (w * 20000) \div BPS]
        [] l.outcome = DEFAULTED -> [plus |-> 0, minus |-> (w * 30000) \div BPS]

\* Mutant: the factor of the part of a half-life is that of its first eighth.
decayBpsBySteps(value, from, to) ==
  LET elapsed == Larger(to - from, 0)
      halvings == elapsed \div PENALTY_HALF_LIFE_SECS
      step == ((elapsed % PENALTY_HALF_LIFE_SECS) * 8) \div PENALTY_HALF_LIFE_SECS
  IN  (ShiftRight(value, halvings) * halfStepTable[step + 1]) \div BPS
decayBps(value, from, to) ==
  LET elapsed == Larger(to - from, 0)
      halvings == elapsed \div PENALTY_HALF_LIFE_SECS
      scaled == (elapsed % PENALTY_HALF_LIFE_SECS) * 8
      step == scaled \div PENALTY_HALF_LIFE_SECS
      within == scaled % PENALTY_HALF_LIFE_SECS
      drop == halfStepTable[step + 1] - halfStepTable[step + 2]
      factor == halfStepTable[step + 1] - (drop * within) \div PENALTY_HALF_LIFE_SECS
  IN  IF halvings >= 64 THEN 0 ELSE (ShiftRight(value, halvings) * factor) \div BPS

nativeComponent(s_plus, s_minus) ==
  LET good == Smaller(s_plus, FULL_WEIGHT_BPS)
      net == IF good > s_minus THEN good - s_minus ELSE 0
  IN  (net * SCORE_MAX) \div FULL_WEIGHT_BPS

meaningfulLoan(l) ==
  /\ l.outcome \in {ON_TIME, LATE}
  /\ l.principal >= 100 * USDC_UNIT
  /\ l.closed_at - l.opened_at >= MIN_HOLD_SECS

exposureWeightBps(l) ==
  IF meaningfulLoan(l) \/ l.outcome \in {LIQUIDATED, DEFAULTED}
  THEN principalWeightBps(l.principal) ELSE 0

\* Mutant: no penalty of the outside history fades.
importSummaryUndecayed(loans, at) ==
  LET plus == SumFunctionOnSet([l \in loans |-> loanContributionBps(l).plus], loans)
      minus == SumFunctionOnSet([l \in loans |-> loanContributionBps(l).minus], loans)
      good == {l \in loans : l.outcome = ON_TIME /\ meaningfulLoan(l)}
  IN  [score |-> nativeComponent(plus, minus), on_time |-> Cardinality(good),
       weight |-> SumFunctionOnSet([l \in loans |-> principalWeightBps(l.principal)], good)]
\* What set_imported_score is asked to write for these loans.
importSummary(loans, at) ==
  LET plus == SumFunctionOnSet([l \in loans |-> loanContributionBps(l).plus], loans)
      minus == SumFunctionOnSet(
        [l \in loans |-> decayBps(loanContributionBps(l).minus, l.closed_at, at)], loans)
      good == {l \in loans : l.outcome = ON_TIME /\ meaningfulLoan(l)}
  IN  [score |-> nativeComponent(plus, minus), on_time |-> Cardinality(good),
       weight |-> SumFunctionOnSet([l \in loans |-> principalWeightBps(l.principal)], good)]

nativeShareBps(exposure) == (Smaller(exposure, FULL_WEIGHT_BPS) * BPS) \div FULL_WEIGHT_BPS
blend(native, imported, exposure) ==
  LET alpha == nativeShareBps(exposure)
  IN  (native * alpha + imported * (BPS - alpha)) \div BPS

liquidationClean(last_liquidation_at, at) ==
  last_liquidation_at = 0 \/ at - last_liquidation_at >= LIQUIDATION_COOLDOWN_SECS

tierGates ==
  [tier \in {SILVER, GOLD} |->
     IF tier = SILVER THEN [score |-> 500, on_time |-> 3, weight |-> 30000]
                      ELSE [score |-> 750, on_time |-> 8, weight |-> 80000]]
computeTier(score, on_time, weight, last_liquidation_at, at) ==
  LET passed == {tier \in {SILVER, GOLD} :
        /\ liquidationClean(last_liquidation_at, at)
        /\ score >= tierGates[tier].score
        /\ on_time >= tierGates[tier].on_time
        /\ weight >= tierGates[tier].weight}
  IN  IF score = 0 THEN UNPROVEN ELSE Max(passed \cup {BRONZE})

-----------------------------------------------------------------------------
(* standing.ts: the score page of a wallet *)

\* emptyReputation, the account of a wallet that has none: all zeros.
emptyReputation ==
  [score |-> 0, native_score |-> 0, imported_score |-> 0, import_date |-> 0,
   tier |-> UNPROVEN, loans_repaid_on_time |-> 0, late_repaid_loans |-> 0,
   liquidated_loans |-> 0, current_on_time_streak |-> 0,
   last_liquidation_date |-> 0, total_usdc_repaid |-> 0, last_update |-> 0,
   s_plus_bps |-> 0, s_minus_bps |-> 0, s_minus_at |-> 0, exposure_bps |-> 0,
   meaningful_on_time |-> 0, meaningful_weight_bps |-> 0]
\* fetchReputation and parseReputation: every field, or null.
fetchReputation(w) == IF reputation[w] = NoAccount THEN Null ELSE reputation[w]
stored(w) == IF fetchReputation(w) = Null THEN emptyReputation ELSE fetchReputation(w)

standing(rep, at) ==
  LET native == nativeComponent(rep.s_plus_bps, decayBps(rep.s_minus_bps, rep.s_minus_at, at))
      score == blend(native, rep.imported_score, rep.exposure_bps)
  IN  [native |-> native, score |-> score,
       tier |-> computeTier(score, rep.meaningful_on_time, rep.meaningful_weight_bps,
                            rep.last_liquidation_date, at)]

\* When the 90-day block ends; 0 when there is none.
blockedUntil(rep, at) ==
  IF liquidationClean(rep.last_liquidation_date, at) THEN 0
  ELSE rep.last_liquidation_date + LIQUIDATION_COOLDOWN_SECS

\* The gates of the tier above the wallet's; none at Gold.
nextTier(rep, s, at) ==
  LET g == tierGates[s.tier + 1]
      gate(name, have, need) == [gate |-> name, have |-> have, need |-> need]
  IN  CASE s.tier = GOLD -> {}
        [] s.tier = UNPROVEN -> {gate("score", s.score, 1)}
        [] OTHER ->
             {gate("score", s.score, g.score),
              gate("meaningfulOnTime", rep.meaningful_on_time, g.on_time),
              gate("meaningfulWeightBps", rep.meaningful_weight_bps, g.weight),
              gate("noLiquidationFor90Days", at, blockedUntil(rep, at))}

factors(rep, s, at) ==
  [native |-> s.native, imported |-> rep.imported_score,
   native_share |-> nativeShareBps(rep.exposure_bps),
   blocked_until |-> blockedUntil(rep, at), next_tier |-> nextTier(rep, s, at)]

\* attestations.ts: every account SAS holds, ours among those of others.
Accounts ==
  {[schema |-> "repayment", signer |-> "sas-signer", record |-> a] : a \in attestations}
  \cup Foreign

parseRepayment(account) ==
  IF account.schema = "repayment" /\ account.signer = "sas-signer"
  THEN account.record ELSE Null

\* Newest first; which of two of one moment comes first is the order they were
\* fetched in.
NewestFirst(s) == \A i, j \in DOMAIN s : i < j => s[j].closed_at <= s[i].closed_at
repaymentsOf(w) ==
  LET parsed == {parseRepayment(account) : account \in Accounts} \ {Null}
  IN  CHOOSE s \in SetToSeqs({r \in parsed : r.borrower = w}) : NewestFirst(s)

\* getScore, its reads of the chain answered at one moment.
getScore(w) ==
  LET rep == stored(w)
      s == standing(rep, now)
  IN  [exists |-> fetchReputation(w) # Null, standing |-> s, factors |-> factors(rep, s, now),
       attestations |-> repaymentsOf(w),
       next_import_at |-> IF rep.import_date = 0 THEN Null
                          ELSE rep.import_date + IMPORT_COOLDOWN_SECS]

-----------------------------------------------------------------------------
(* exposureFix.ts and recomputeExposure.ts *)

exposureFromRecords(w) ==
  LET records == repaymentsOf(w)
  IN  SumFunction([i \in DOMAIN records |-> exposureWeightBps(records[i])])
exposureChange(w) ==
  LET recomputed == exposureFromRecords(w)
      held == reputation[w].exposure_bps
  IN  [wallet |-> w, recomputed |-> recomputed,
       action |-> IF recomputed < held THEN "lower"
                  ELSE IF recomputed = held THEN "keep" ELSE "skip"]
\* The set_exposure transactions the script sends.
recomputeExposure == {c \in {exposureChange(w) : w \in Scored} : c.action = "lower"}

-----------------------------------------------------------------------------
(* partner.ts: another lender prices its offer from the cached account *)

NORTHWIND_BASE ==
  [apr |-> <<900, 700, 500, 350>>, collateral |-> <<16000, 14500, 13000, 11500>>]

\* readRecord and parseRecord: the fields the program caches, or null.
readRecord(w) ==
  LET rep == reputation[w]
  IN  IF rep = NoAccount THEN Null
      ELSE [score |-> rep.score, tier |-> rep.tier, on_time |-> rep.loans_repaid_on_time,
            late |-> rep.late_repaid_loans, liquidated |-> rep.liquidated_loans]

northwindOffer(r) ==
  LET base == [apr |-> NORTHWIND_BASE.apr[r.tier + 1],
               collateral |-> NORTHWIND_BASE.collateral[r.tier + 1]]
      cut == Smaller((r.on_time \div 3) * 50, 150)
      added == Smaller(r.late * 50, 200)
  IN  IF r = Null THEN [apr |-> NORTHWIND_BASE.apr[1], collateral |-> NORTHWIND_BASE.collateral[1]]
      ELSE [apr |-> Larger(base.apr - cut + added, 200),
            collateral |-> base.collateral + (IF r.liquidated > 0 THEN 1000 ELSE 0)]

-----------------------------------------------------------------------------
(* Properties *)

\* The terms another lender gives on the cached account are never better than
\* those of the wallet's standing at this moment, and a bad outcome on record is
\* always in the price.
OfferIsFloor(w) ==
  LET r == readRecord(w)
      offer == northwindOffer(r)
      live == northwindOffer([r EXCEPT !.tier = Live(w).tier])
  IN  /\ offer.apr >= live.apr /\ offer.collateral >= live.collateral
      /\ BadRecordsOf(w) # {} =>
           offer.collateral >= 1000 + NORTHWIND_BASE.collateral[Live(w).tier + 1]

\* The score page shows what the pool would lend on at this moment: the program's
\* standing, computed again in another language, for every account the
\* instructions can produce (standing.ts:1 "exactly as the pool sees it").  It
\* names a gate of the next tier that is not met, lists the wallet's records
\* and nobody else's, newest first, and dates the next import at the first
\* moment the program takes one.  The exposure the records give is never below
\* the one held, so recomputeExposure lowers nothing, and a lender that reads
\* the cached account offers no more than the standing is worth.
ViewIsStanding ==
  /\ recomputeExposure = {}
  /\ \A w \in Scored : OfferIsFloor(w)
  /\ \A w \in Wallets :
       LET view == getScore(w)
           taken == reputation[w].import_date = 0
                    \/ now - reputation[w].import_date >= IMPORT_COOLDOWN_SECS
       IN  /\ view.exists <=> w \in Scored
           /\ view.standing = IF w \in Scored THEN Live(w)
                              ELSE [native |-> 0, score |-> 0, tier |-> UNPROVEN]
           /\ view.standing.tier < GOLD =>
                \E g \in view.factors.next_tier : g.have < g.need
           /\ Range(view.attestations) = RecordsOf(w)
           /\ NewestFirst(view.attestations)
           /\ w \in Scored => (taken <=> view.next_import_at = Null \/ now >= view.next_import_at)

\* An import of a history and the same loans recorded natively are worth the
\* same: the score that importSummary would write for a wallet's records is its
\* native component, but for the rounding of penalties that were re-decayed
\* (docs/history-import.md:40).
SummaryMatchesNative ==
  \A w \in Scored :
    LET loans == RecordsOf(w)
        summary == importSummary(loans, now)
        slack == 1 + (PenaltySlack(loans) * SCORE_MAX) \div FULL_WEIGHT_BPS
    IN  /\ FullPenalty(loans) <= MAX_U64 =>
             summary.score - Live(w).native \in -slack..slack
        /\ reputation[w].import_date = 0 =>
             /\ reputation[w].meaningful_on_time = Smaller(summary.on_time, MAX_U16)
             /\ reputation[w].meaningful_weight_bps = Smaller(summary.weight, MAX_U64)
=============================================================================

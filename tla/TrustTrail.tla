----------------------------- MODULE TrustTrail -----------------------------
(*****************************************************************************)
(* The TrustTrail program (programs/trusttrail): one reputation account per  *)
(* wallet, the whitelist of writers, and the Solana Attestation Service      *)
(* records that the program writes, one per closed loan.  An action is one   *)
(* instruction, executed atomically.                                         *)
(*                                                                           *)
(* The principal, dates and outcome of a recorded loan are whatever the      *)
(* whitelisted writer passes.  Lending composes this module with the pool,   *)
(* which is one such writer.                                                 *)
(*****************************************************************************)
EXTENDS Scoring, FiniteSetsExt

CONSTANTS
  Wallets, Writers, NoAccount,
  LoanKeys,               \* addresses of Loan accounts: the attestation nonces
  Principals,             \* loan sizes a writer may record
  OpenDates, DueDates,    \* dates a writer may record; a due date of 0 is none
  Imports,                \* [score, on_time, weight] the backend may sign
  Exposures,              \* values the admin may send to set_exposure
  Times,                  \* clock values at which something may happen
  MAX_WRITERS,            \* 10 in the program
  EXPOSURE_FIX_DEADLINE,  \* a timestamp of constants.rs
  MAX_U16, MAX_U64        \* where the counters and the sums saturate

ASSUME TrustTrailAssumption ==
  /\ Times \subseteq Nat \ {0} /\ Principals \subseteq Nat
  /\ OpenDates \subseteq Nat /\ DueDates \subseteq Nat
  /\ Exposures \subseteq Nat
  /\ Imports \subseteq [score : Nat, on_time : Nat, weight : Nat]
  /\ MAX_WRITERS \in Nat /\ EXPOSURE_FIX_DEADLINE \in Nat
  /\ MAX_U16 \in Nat \ {0} /\ MAX_U64 \in Nat /\ MAX_U64 >= FULL_WEIGHT_BPS

VARIABLES
  now,          \* Clock::unix_timestamp
  whitelist,    \* WriterWhitelist.signers
  reputation,   \* UserReputationV2 of each wallet
  attestations  \* SAS repayment records

vars == <<now, whitelist, reputation, attestations>>

UserReputationV2 ==
  [score : 0..SCORE_MAX, native_score : 0..SCORE_MAX, imported_score : 0..SCORE_MAX,
   import_date : Nat, tier : Tiers,
   loans_repaid_on_time : 0..MAX_U16, late_repaid_loans : 0..MAX_U16,
   liquidated_loans : 0..MAX_U16, current_on_time_streak : 0..MAX_U16,
   last_liquidation_date : Nat, total_usdc_repaid : 0..MAX_U64, last_update : Nat,
   s_plus_bps : 0..MAX_U64, s_minus_bps : 0..MAX_U64, s_minus_at : Nat,
   exposure_bps : 0..MAX_U64,
   meaningful_on_time : 0..MAX_U16, meaningful_weight_bps : 0..MAX_U64]

ASSUME AccountAssumption == NoAccount \notin UserReputationV2

Attestation ==
  [loan : LoanKeys, borrower : Wallets, lender : Writers, principal : Nat,
   opened_at : Nat, due_at : Nat, closed_at : Nat, outcome : Outcomes]

Scored == {w \in Wallets : reputation[w] # NoAccount}

-----------------------------------------------------------------------------
(* Methods of UserReputationV2 *)

\* Mutant: a counter wraps, as u16 addition does without overflow checks.
WrapAdd16(a, b) == (a + b) % (MAX_U16 + 1)
SatAdd16(a, b) == Smaller(a + b, MAX_U16)
SatAdd64(a, b) == Smaller(a + b, MAX_U64)

Standing(rep, at) ==
  LET s_minus == DecayBps(rep.s_minus_bps, rep.s_minus_at, at)
      native == NativeComponent(rep.s_plus_bps, s_minus)
      score == Blend(native, rep.imported_score, rep.exposure_bps)
  IN  [native |-> native, score |-> score,
       tier |-> ComputeTier(score, rep.meaningful_on_time, rep.meaningful_weight_bps,
                            rep.last_liquidation_date, at)]

\* Mutant: the cached tier is only ever raised.
RefreshedNeverDemotes(rep, at) ==
  LET s == Standing(rep, at)
  IN  [rep EXCEPT !.native_score = s.native, !.score = s.score,
                  !.tier = Larger(@, s.tier), !.last_update = at]
Refreshed(rep, at) ==
  LET s == Standing(rep, at)
  IN  [rep EXCEPT !.native_score = s.native, !.score = s.score,
                  !.tier = s.tier, !.last_update = at]

\* Mutant: the penalty is dated anew without being decayed up to that date.
PenaltyNowUndecayed(rep, principal, outcome) ==
  SatAdd64(rep.s_minus_bps, MinusBps(principal, outcome))
\* The penalties so far, decayed to this moment, and that of this record.
PenaltyNow(rep, principal, outcome) ==
  SatAdd64(DecayBps(rep.s_minus_bps, rep.s_minus_at, now), MinusBps(principal, outcome))

\* The fields record_event changes before it refreshes the cached score.
Recorded(rep, principal, opened_at, due_at, outcome) ==
  LET counts == outcome = ON_TIME /\ MeaningfulLoan(principal, opened_at, now, outcome)
      repaid == outcome \in {ON_TIME, LATE}
      Count(n, when) == IF when THEN SatAdd16(n, 1) ELSE n
  IN  [rep EXCEPT
         !.s_plus_bps = SatAdd64(@, PlusBps(principal, opened_at, now, due_at, outcome)),
         !.s_minus_bps = PenaltyNow(rep, principal, outcome),
         !.s_minus_at = now,
         !.exposure_bps = SatAdd64(@, ExposureWeightBps(principal, opened_at, now, outcome)),
         !.meaningful_on_time = Count(@, counts),
         !.meaningful_weight_bps =
            IF counts THEN SatAdd64(@, PrincipalWeightBps(principal)) ELSE @,
         !.loans_repaid_on_time = Count(@, outcome = ON_TIME),
         !.late_repaid_loans = Count(@, outcome = LATE),
         !.liquidated_loans = Count(@, ~repaid),
         !.current_on_time_streak = IF outcome = ON_TIME THEN SatAdd16(@, 1) ELSE 0,
         !.total_usdc_repaid = IF repaid THEN SatAdd64(@, principal) ELSE @,
         !.last_liquidation_date = IF repaid THEN @ ELSE now]

\* set_imported_score: the score is replaced, the imported loans are added.
Imported(rep, import) ==
  [rep EXCEPT !.imported_score = import.score,
              !.import_date = now,
              !.meaningful_on_time = SatAdd16(@, import.on_time),
              !.meaningful_weight_bps = SatAdd64(@, import.weight)]

-----------------------------------------------------------------------------
(* Instructions *)

Init ==
  /\ now \in Times
  /\ whitelist = {}
  /\ reputation = [w \in Wallets |-> NoAccount]
  /\ attestations = {}

InitScore(w) ==
  /\ reputation[w] = NoAccount
  /\ reputation' = [reputation EXCEPT ![w] =
       [score |-> 0, native_score |-> 0, imported_score |-> 0, import_date |-> 0,
        tier |-> UNPROVEN, loans_repaid_on_time |-> 0, late_repaid_loans |-> 0,
        liquidated_loans |-> 0, current_on_time_streak |-> 0,
        last_liquidation_date |-> 0, total_usdc_repaid |-> 0, last_update |-> now,
        s_plus_bps |-> 0, s_minus_bps |-> 0, s_minus_at |-> 0, exposure_bps |-> 0,
        meaningful_on_time |-> 0, meaningful_weight_bps |-> 0]]
  /\ UNCHANGED <<now, whitelist, attestations>>

AddWriter(writer) ==
  /\ Cardinality(whitelist) < MAX_WRITERS
  /\ writer \notin whitelist
  /\ whitelist' = whitelist \cup {writer}
  /\ UNCHANGED <<now, reputation, attestations>>

RemoveWriter(writer) ==
  /\ writer \in whitelist
  /\ whitelist' = whitelist \ {writer}
  /\ UNCHANGED <<now, reputation, attestations>>

\* The account's update and the attestation are one transaction; SAS refuses a
\* nonce it has already seen.
RecordEvent(writer, w, principal, opened_at, due_at, outcome, loan) ==
  /\ writer \in whitelist
  /\ w \in Scored
  /\ \A a \in attestations : a.loan # loan
  /\ reputation' = [reputation EXCEPT ![w] =
       Refreshed(Recorded(@, principal, opened_at, due_at, outcome), now)]
  /\ attestations' = attestations \cup
       {[loan |-> loan, borrower |-> w, lender |-> writer, principal |-> principal,
         opened_at |-> opened_at, due_at |-> due_at, closed_at |-> now,
         outcome |-> outcome]}
  /\ UNCHANGED <<now, whitelist>>

SetImportedScore(writer, w, import) ==
  /\ writer \in whitelist
  /\ w \in Scored
  /\ import.score <= SCORE_MAX
  /\ \/ reputation[w].import_date = 0
     \/ now - reputation[w].import_date >= IMPORT_COOLDOWN_SECS
  /\ reputation' = [reputation EXCEPT ![w] = Refreshed(Imported(@, import), now)]
  /\ UNCHANGED <<now, whitelist, attestations>>

SetExposure(w, exposure) ==
  /\ w \in Scored
  /\ now <= EXPOSURE_FIX_DEADLINE
  /\ exposure <= reputation[w].exposure_bps
  /\ reputation' = [reputation EXCEPT ![w] =
       Refreshed([@ EXCEPT !.exposure_bps = exposure], now)]
  /\ UNCHANGED <<now, whitelist, attestations>>

Tick ==
  /\ now' \in {t \in Times : t > now}
  /\ UNCHANGED <<whitelist, reputation, attestations>>

WhitelistStep == \E writer \in Writers : AddWriter(writer) \/ RemoveWriter(writer)
RecordStep ==
  \E writer \in Writers, w \in Wallets, principal \in Principals, opened_at \in OpenDates,
     due_at \in DueDates, outcome \in Outcomes, loan \in LoanKeys :
    RecordEvent(writer, w, principal, opened_at, due_at, outcome, loan)
ScoreStep ==
  \E w \in Wallets :
    \/ InitScore(w)
    \/ \E writer \in Writers, import \in Imports : SetImportedScore(writer, w, import)
    \/ \E exposure \in Exposures : SetExposure(w, exposure)

Next == WhitelistStep \/ RecordStep \/ ScoreStep \/ Tick

Spec == Init /\ [][Next]_vars

-----------------------------------------------------------------------------
(* Properties *)

TypeOK ==
  /\ now \in Nat
  /\ whitelist \subseteq Writers /\ Cardinality(whitelist) <= MAX_WRITERS
  /\ reputation \in [Wallets -> UserReputationV2 \cup {NoAccount}]
  /\ attestations \subseteq Attestation

RecordsOf(w) == {a \in attestations : a.borrower = w}
BadRecordsOf(w) == {a \in RecordsOf(w) : a.outcome \in {LIQUIDATED, DEFAULTED}}
Live(w) == Standing(reputation[w], now)

\* The score and tier kept in the account, which other apps read, are never
\* above what standing() gives at this moment: time alone only ever improves a
\* standing, and every instruction that could lower it refreshes the cache.
CacheIsFloor ==
  \A w \in Scored :
    /\ reputation[w].score <= Live(w).score
    /\ reputation[w].tier <= Live(w).tier

\* No wallet stands at Silver or Gold within 90 days of a liquidation or a
\* default on record, whatever it imports afterwards (docs/scoring-model.md:84).
CooldownHolds ==
  \A w \in Scored : Live(w).tier >= SILVER =>
    \A a \in BadRecordsOf(w) : now - a.closed_at >= LIQUIDATION_COOLDOWN_SECS

PlusOf(a) == PlusBps(a.principal, a.opened_at, a.closed_at, a.due_at, a.outcome)
ExposureOf(a) == ExposureWeightBps(a.principal, a.opened_at, a.closed_at, a.outcome)
WithOutcome(outcomes, records) == {a \in records : a.outcome \in outcomes}

\* These records give this account.
AttestedBy(rep, records) ==
  LET Number(outcomes) == Smaller(Cardinality(WithOutcome(outcomes, records)), MAX_U16)
      bad == WithOutcome({LIQUIDATED, DEFAULTED}, records)
  IN  /\ rep.loans_repaid_on_time = Number({ON_TIME})
      /\ rep.late_repaid_loans = Number({LATE})
      /\ rep.liquidated_loans = Number({LIQUIDATED, DEFAULTED})
      /\ rep.s_plus_bps =
           Smaller(SumFunctionOnSet([a \in records |-> PlusOf(a)], records), MAX_U64)
      /\ rep.exposure_bps <= SumFunctionOnSet([a \in records |-> ExposureOf(a)], records)
      /\ rep.total_usdc_repaid =
           Smaller(SumFunctionOnSet([a \in records |-> a.principal],
                                    WithOutcome({ON_TIME, LATE}, records)), MAX_U64)
      /\ rep.last_liquidation_date = IF bad = {} THEN 0 ELSE Max({a.closed_at : a \in bad})

\* The account can be rebuilt from the wallet's attestations: every count and
\* every sum of record_event is the one its attestations give, and the exposure
\* never more (set_exposure may only lower it).  Where the records add up to more
\* than a field holds, the field stands at its largest value and stays there.
HistoryAttested == \A w \in Scored : AttestedBy(reputation[w], RecordsOf(w))

\* What the bad outcomes among these records cost on the days they were closed,
\* and what is left of it when each is decayed once, from its own day.
MinusOf(a) == MinusBps(a.principal, a.outcome)
FullPenalty(records) == SumFunctionOnSet([a \in records |-> MinusOf(a)], records)
FadedPenalty(records, at) ==
  SumFunctionOnSet([a \in records |-> DecayBps(MinusOf(a), a.closed_at, at)], records)

\* Re-decaying at every record rounds, and reads HALF_STEP_TABLE between its
\* rows, once more per record: 5 bps, and 20 parts in 10,000 of the penalties.
PenaltySlack(records) == Cardinality(records) * (5 + (20 * FullPenalty(records)) \div BPS)

\* The penalty total, re-decayed at every record, stays within that of decaying
\* each record's penalty once from the day it was closed: how often a wallet is
\* written to does not change what a bad outcome costs it.
PenaltyPathIndependent ==
  \A w \in Scored :
    LET live == DecayBps(reputation[w].s_minus_bps, reputation[w].s_minus_at, now)
        once == FadedPenalty(RecordsOf(w), now)
        slack == PenaltySlack(RecordsOf(w))
    IN  FullPenalty(RecordsOf(w)) <= MAX_U64 => live - once \in -slack..slack

\* An on-time repayment never lowers the live score or tier of a wallet whose
\* imported score is not above its native one (scoring.rs blend).
OnTimeHelps ==
  [][ \A w \in Scored :
        LET before == Live(w)
            after == Live(w)'
        IN  /\ reputation'[w].loans_repaid_on_time > reputation[w].loans_repaid_on_time
            /\ reputation[w].imported_score <= after.native
            => after.score >= before.score /\ after.tier >= before.tier ]_vars

\* A liquidation or default never raises the live score or tier of a wallet
\* whose exposure covers its good history and whose import is not above its
\* native score: the exposure it adds never outweighs the penalty.  Only when
\* rounding hides the whole penalty can the score rise, by one point.
BadOutcomeHurts ==
  [][ \A w \in Scored :
        LET rep == reputation[w]
            before == Live(w)
            after == Live(w)'
        IN  /\ rep.liquidated_loans < reputation'[w].liquidated_loans
            /\ rep.s_plus_bps <= rep.exposure_bps
            /\ rep.imported_score <= before.native
            => \/ after.score <= before.score /\ after.tier <= before.tier
               \/ /\ after.native = before.native
                  /\ after.score = before.score + 1 /\ after.tier <= BRONZE ]_vars
=============================================================================

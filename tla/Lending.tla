------------------------------- MODULE Lending -------------------------------
(*****************************************************************************)
(* The two programs together.  The pool reads the borrower's TrustTrail      *)
(* account when it opens a loan (borrow.rs: the tier is the live standing,   *)
(* not the cached one) and calls record_event in the transaction that        *)
(* closes one (settle.rs): the pool's books and the record change together   *)
(* or not at all.                                                            *)
(*****************************************************************************)
EXTENDS PoolMath, FiniteSetsExt

CONSTANTS
  Lenders, Borrowers, Mints, NoConfig, NoAccount,
  DepositAmounts, LoanAmounts, ShareAmounts, CollateralAmounts,
  PriceUpdates, RiskParams, Imports, Exposures, Times, MaxLoans,
  PoolWriter, ImportWriter,  \* the pool's PDA and the backend's key
  MAX_WRITERS, EXPOSURE_FIX_DEADLINE, MAX_U16,
  MAX_SUM                    \* where the score's sums saturate

VARIABLES
  now,
  pool, vault, lp, lp_supply, collateral, collateral_vault, borrower_state, loans,
  whitelist, reputation, attestations

money == <<pool, vault, lp, lp_supply, collateral, collateral_vault, borrower_state, loans>>
record == <<whitelist, reputation, attestations>>
vars == <<now, money, record>>

\* A Loan account's address: its borrower and its id.
LoanKeys == Borrowers \X (0..MaxLoans)

P == INSTANCE Pool WITH Standings <- Tiers
T == INSTANCE TrustTrail WITH
       Wallets <- Borrowers, Writers <- {PoolWriter, ImportWriter},
       Principals <- LoanAmounts, OpenDates <- Times,
       DueDates <- {t + LOAN_TERM_SECS : t \in Times},
       MAX_U64 <- MAX_SUM

ASSUME LendingAssumption ==
  /\ P!InputAssumption /\ T!TrustTrailAssumption /\ T!AccountAssumption

-----------------------------------------------------------------------------
(* Instructions *)

Init == P!Init /\ T!Init

\* The tier the pool prices the loan with is the standing at this moment.
Borrow(b, amount, m, posted, update) ==
  /\ b \in T!Scored
  /\ P!Borrow(b, T!Live(b).tier, amount, m, posted, update)
  /\ UNCHANGED record

\* settle.rs record: the pool's PDA writes the loan's outcome.
Record(l, outcome) ==
  T!RecordEvent(PoolWriter, l.borrower, l.principal, l.opened_at, l.due_at, outcome,
                <<l.borrower, l.loan_id>>)

\* Mutant: a repayment in the grace period counts as on time.
RepayForgivesLateness(l) ==
  P!Repay(l) /\ Record(l, IF InDefault(now, l.due_at) THEN DEFAULTED ELSE ON_TIME)
Repay(l) == P!Repay(l) /\ Record(l, RepayOutcome(now, l.due_at))

\* Mutant: every liquidation is recorded as one, also of a defaulted loan.
LiquidateForgivesDefault(l, update) == P!Liquidate(l, update) /\ Record(l, LIQUIDATED)
Liquidate(l, update) ==
  /\ P!Liquidate(l, update)
  /\ Record(l, IF InDefault(now, l.due_at) THEN DEFAULTED ELSE LIQUIDATED)

\* Instructions of one program that do not touch the other's accounts.
PoolStep ==
  /\ P!AdminStep \/ P!AccrueInterest \/ P!LenderStep
  /\ UNCHANGED record
TrustTrailStep ==
  /\ \/ T!WhitelistStep
     \/ \E w \in Borrowers :
          \/ T!InitScore(w)
          \/ \E import \in Imports : T!SetImportedScore(ImportWriter, w, import)
          \/ \E exposure \in Exposures : T!SetExposure(w, exposure)
  /\ UNCHANGED money

BorrowStep ==
  \E b \in Borrowers, amount \in LoanAmounts, m \in Mints, posted \in CollateralAmounts,
     update \in PriceUpdates : Borrow(b, amount, m, posted, update)
CloseStep ==
  \E l \in loans : Repay(l) \/ \E update \in PriceUpdates : Liquidate(l, update)

Tick == P!Tick /\ UNCHANGED record

Next == PoolStep \/ TrustTrailStep \/ BorrowStep \/ CloseStep \/ Tick

Spec == Init /\ [][Next]_vars

-----------------------------------------------------------------------------
(* Properties *)

\* Every closed loan has exactly one attestation, of the loan's own terms, and
\* the Loan's status and the record tell the same story; an open loan has none.
\* Only a repayment after the grace period is a repaid loan recorded as a
\* default (terms.rs repay_outcome).
OneRecordPerClosedLoan ==
  \A l \in loans :
    LET records == {a \in attestations : a.loan = <<l.borrower, l.loan_id>>}
    IN  IF l.status = P!OPEN THEN records = {}
        ELSE /\ Cardinality(records) = 1
             /\ \A a \in records :
                  /\ a.borrower = l.borrower /\ a.principal = l.principal
                  /\ a.opened_at = l.opened_at /\ a.due_at = l.due_at
                  /\ a.outcome = DEFAULTED <=> InDefault(a.closed_at, l.due_at)
                  /\ l.status = P!LOAN_LIQUIDATED <=> a.outcome = LIQUIDATED
                  /\ l.status = P!LOAN_DEFAULTED => a.outcome = DEFAULTED

\* The borrower's limit rests on the record: largest_repaid is the largest
\* principal among its attestations of on-time repayments.
LimitIsAttested ==
  \A b \in Borrowers :
    borrower_state[b].largest_repaid =
      Max({0} \cup {a.principal : a \in {r \in T!RecordsOf(b) : r.outcome = ON_TIME}})

\* The composition implements CreditLedger: its open loans are the pool's, its
\* history is TrustTrail's attestations.
LedgerLoan(l) ==
  [borrower |-> l.borrower, id |-> l.loan_id, tier |-> l.tier_at_open,
   principal |-> l.principal, due_at |-> l.due_at]
LedgerRecord(a) ==
  [borrower |-> a.borrower, id |-> a.loan[2], principal |-> a.principal,
   closed_at |-> a.closed_at, outcome |-> a.outcome]
LedgerOpen == {LedgerLoan(l) : l \in P!OpenLoans}
LedgerHistory == {LedgerRecord(a) : a \in attestations}
Ledger == INSTANCE CreditLedger WITH open <- LedgerOpen, history <- LedgerHistory
ImplementsLedger == Ledger!Spec
=============================================================================

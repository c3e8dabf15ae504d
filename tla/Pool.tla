-------------------------------- MODULE Pool --------------------------------
(*****************************************************************************)
(* The lending pool program (programs/pool): one USDC vault that lenders     *)
(* own through LP shares, collateral vaults, and term loans.  An action is   *)
(* one instruction, executed atomically; an instruction that fails any of    *)
(* its checks is rolled back whole and is no step.                           *)
(*                                                                           *)
(* Two things come from outside the program and are inputs here: the tier    *)
(* that TrustTrail computes for the borrower, and the Pyth price update      *)
(* that the caller chooses.  Lending composes this module with TrustTrail,   *)
(* which decides the tier and records every closed loan.                     *)
(*****************************************************************************)
EXTENDS PoolMath, FiniteSetsExt

CONSTANTS
  Lenders, Borrowers, Mints, NoConfig,
  DepositAmounts, LoanAmounts,  \* USDC amounts deposited and borrowed
  Standings,          \* tiers TrustTrail may give a borrower
  ShareAmounts,       \* LP amounts burned
  CollateralAmounts,  \* collateral amounts posted
  PriceUpdates,       \* [feed_id, price, conf, publish_time] Pyth can have signed
  RiskParams,         \* [feed_id, min_tier, max_age, threshold, bonus] the admin may choose
  Times,              \* clock values at which something may happen
  MaxLoans            \* bound on the loans of a borrower

ASSUME InputAssumption ==
  /\ DepositAmounts \subseteq Nat /\ LoanAmounts \subseteq Nat /\ Standings \subseteq Tiers
  /\ ShareAmounts \subseteq Nat /\ CollateralAmounts \subseteq Nat
  /\ Times \subseteq Nat \ {0} /\ MaxLoans \in Nat
  /\ PriceUpdates \subseteq
       [feed_id : STRING, price : Int, conf : Nat, publish_time : Int]
  /\ RiskParams \subseteq
       [feed_id : STRING, min_tier : Tiers, max_age : Nat, threshold : Nat, bonus : Nat]
  /\ NoConfig \notin RiskParams

VARIABLES
  now,               \* Clock::unix_timestamp
  pool,              \* PoolConfig
  vault,             \* USDC in the pool's vault
  lp,                \* LP shares of each lender
  lp_supply,         \* LP mint supply
  collateral,        \* CollateralConfig of each accepted mint
  collateral_vault,  \* tokens in each mint's vault
  borrower_state,    \* BorrowerState
  loans              \* every Loan account ever opened

books == <<pool, vault>>
shares == <<lp, lp_supply>>
lending == <<collateral_vault, borrower_state, loans>>
vars == <<now, books, shares, collateral, lending>>

OPEN == 0
REPAID == 1
LOAN_LIQUIDATED == 2
LOAN_DEFAULTED == 3

PoolConfig ==
  [total_borrowed : Nat, protocol_fees : Nat, bad_debt : Nat, last_accrual : Nat,
   tier_index : [Tiers -> Nat], tier_scaled_debt : [Tiers -> Nat]]

Loan ==
  [borrower : Borrowers, loan_id : Nat, tier_at_open : Tiers, principal : Nat,
   scaled_debt : Nat, collateral_mint : Mints, collateral_amount : Nat,
   opened_at : Nat, due_at : Nat, status : 0..3]

BorrowerState == [largest_repaid : Nat, next_loan_id : Nat, open_loans : Nat]

-----------------------------------------------------------------------------
(* PoolConfig's methods *)

\* Mutant: the fee reserve counted among the lenders' assets.
TotalAssetsWithFees(p, idle) == idle + p.total_borrowed
TotalAssets(p, idle) == idle + p.total_borrowed - p.protocol_fees
\* total_assets is Some: neither the sum nor the difference leaves u64
HasAssets(p, idle) ==
  Fits(idle + p.total_borrowed) /\ p.protocol_fees <= idle + p.total_borrowed

\* What all borrowers owe at these indexes, tier by tier, each rounded down.
Repriced(scaled, index) ==
  LET owed(t) == (scaled[t] * index[t]) \div WAD
  IN  owed(0) + owed(1) + owed(2) + owed(3)

GrownIndex(p, idle, dt) ==
  LET base == BaseRateBps(UtilizationBps(p.total_borrowed, idle))
  IN  [t \in Tiers |->
         GrowIndex(p.tier_index[t], TierRateBps(base, TierSpreadBps[t]), dt)]

InterestFee(before, after) == (SatSub(after, before) * RESERVE_FACTOR_BPS) \div BPS

Accrued(p, idle) ==
  LET dt == now - p.last_accrual
      index == GrownIndex(p, idle, dt)
      total == Repriced(p.tier_scaled_debt, index)
  IN  IF dt <= 0 THEN p
      ELSE [p EXCEPT !.tier_index = index,
                     !.protocol_fees = @ + InterestFee(p.total_borrowed, total),
                     !.total_borrowed = total,
                     !.last_accrual = now]

\* Every instruction first accrues up to the clock: the books it then works on,
\* or none if a total no longer fits u64.
AccruedNow ==
  {p \in {Accrued(pool, vault)} : Fits(p.total_borrowed) /\ Fits(p.protocol_fees)}

\* Mutant: a plain subtraction, though the total may be a few units short.
RemoveDebtUnsaturated(p, tier, scaled, debt) ==
  [p EXCEPT !.tier_scaled_debt[tier] = @ - scaled,
            !.total_borrowed = @ - debt]
\* Mutant: the tier keeps the closed loan's units.
RemoveDebtKeepsUnits(p, tier, scaled, debt) ==
  [p EXCEPT !.total_borrowed = SatSub(@, debt)]
RemoveDebt(p, tier, scaled, debt) ==
  [p EXCEPT !.tier_scaled_debt[tier] = @ - scaled,
            !.total_borrowed = SatSub(@, debt)]

\* Loss nobody paid: the fee reserve first, then the lenders.
WriteOff(p, loss) ==
  LET covered == Smaller(loss, p.protocol_fees)
  IN  [p EXCEPT !.protocol_fees = @ - covered, !.bad_debt = @ + (loss - covered)]

Debt(p, l) == DebtNow(l.scaled_debt, p.tier_index[l.tier_at_open])

-----------------------------------------------------------------------------
(* oracle.rs: the low end of the update's confidence range, if the update   *)
(* is of the collateral's feed and not too old.                             *)

LowPrice(update) == update.price - update.conf

UsablePrice(update, config) ==
  /\ update.feed_id = config.feed_id
  /\ now - update.publish_time <= config.max_age
  /\ LowPrice(update) > 0

-----------------------------------------------------------------------------
(* Instructions *)

Init ==
  /\ now \in Times
  /\ pool = [total_borrowed |-> 0, protocol_fees |-> 0, bad_debt |-> 0,
             last_accrual |-> now,
             tier_index |-> [t \in Tiers |-> WAD],
             tier_scaled_debt |-> [t \in Tiers |-> 0]]
  /\ vault = 0
  /\ lp = [l \in Lenders |-> 0]
  /\ lp_supply = 0
  /\ collateral = [m \in Mints |-> NoConfig]
  /\ collateral_vault = [m \in Mints |-> 0]
  /\ borrower_state = [b \in Borrowers |->
                         [largest_repaid |-> 0, next_loan_id |-> 0, open_loans |-> 0]]
  /\ loans = {}

AddCollateral(m, risk) ==
  /\ collateral[m] = NoConfig
  /\ ValidRiskParams(risk.threshold, risk.bonus)
  /\ collateral' = [collateral EXCEPT ![m] = risk]
  /\ UNCHANGED <<now, books, shares, lending>>

AccrueInterest ==
  \E p \in AccruedNow :
    /\ pool' = p
    /\ UNCHANGED <<now, vault, shares, collateral, lending>>

Deposit(lender, amount) ==
  \E p \in AccruedNow :
    LET minted == SharesForDeposit(amount, TotalAssets(p, vault), lp_supply)
    IN  /\ amount > 0
        /\ HasAssets(p, vault)
        /\ minted > 0 /\ Fits(minted)
        /\ Fits(lp_supply + minted) /\ Fits(vault + amount)
        /\ pool' = p
        /\ vault' = vault + amount
        /\ lp' = [lp EXCEPT ![lender] = @ + minted]
        /\ lp_supply' = lp_supply + minted
        /\ UNCHANGED <<now, collateral, lending>>

Withdraw(lender, burned) ==
  \E p \in AccruedNow :
    LET paid == AssetsForShares(burned, TotalAssets(p, vault), lp_supply)
    IN  /\ burned > 0
        /\ HasAssets(p, vault)
        /\ lp_supply > 0 /\ Fits(paid)
        /\ paid <= vault
        /\ burned <= lp[lender] /\ burned <= lp_supply
        /\ pool' = p
        /\ vault' = vault - paid
        /\ lp' = [lp EXCEPT ![lender] = @ - burned]
        /\ lp_supply' = lp_supply - burned
        /\ UNCHANGED <<now, collateral, lending>>

\* "tier" is what TrustTrail says of the borrower at this moment.
Borrow(b, tier, amount, m, posted, update) ==
  \E p \in AccruedNow :
    LET value == CollateralValue(posted, LowPrice(update))
        scaled == ScaledDebt(amount, p.tier_index[tier])
    IN  /\ borrower_state[b].next_loan_id < MaxLoans
        /\ amount > 0 /\ posted > 0
        /\ collateral[m] # NoConfig
        /\ tier >= collateral[m].min_tier
        /\ amount <= MaxLoan(tier, borrower_state[b].largest_repaid)
        /\ amount <= vault
        /\ WithinBorrowCap(p.total_borrowed, vault, amount)
        /\ UsablePrice(update, collateral[m]) /\ Fits(value)
        /\ EnoughCollateral(value, amount, TierCollateralBps[tier])
        /\ Fits(collateral_vault[m] + posted) /\ Fits(p.total_borrowed + amount)
        /\ collateral_vault' = [collateral_vault EXCEPT ![m] = @ + posted]
        /\ vault' = vault - amount
        /\ pool' = [p EXCEPT !.tier_scaled_debt[tier] = @ + scaled,
                             !.total_borrowed = @ + amount]
        /\ loans' = loans \cup
             {[borrower |-> b, loan_id |-> borrower_state[b].next_loan_id,
               tier_at_open |-> tier, principal |-> amount, scaled_debt |-> scaled,
               collateral_mint |-> m, collateral_amount |-> posted,
               opened_at |-> now, due_at |-> now + LOAN_TERM_SECS, status |-> OPEN]}
        /\ borrower_state' = [borrower_state EXCEPT ![b].next_loan_id = @ + 1,
                                                    ![b].open_loans = @ + 1]
        /\ UNCHANGED <<now, shares, collateral>>

\* settle.rs close_loan, for a loan whose books p have just been accrued.
CloseLoan(p, l, debt, status) ==
  /\ l.scaled_debt <= p.tier_scaled_debt[l.tier_at_open]
  /\ loans' = (loans \ {l}) \cup {[l EXCEPT !.status = status]}

Repay(l) ==
  \E p \in AccruedNow :
    LET b == l.borrower
        m == l.collateral_mint
        debt == Debt(p, l)
        on_time == RepayOutcome(now, l.due_at) = ON_TIME
    IN  /\ l.status = OPEN
        /\ Fits(debt) /\ Fits(vault + debt)
        /\ l.collateral_amount <= collateral_vault[m]
        /\ CloseLoan(p, l, debt, REPAID)
        /\ vault' = vault + debt
        /\ collateral_vault' = [collateral_vault EXCEPT ![m] = @ - l.collateral_amount]
        /\ pool' = RemoveDebt(p, l.tier_at_open, l.scaled_debt, debt)
        /\ borrower_state' =
             [borrower_state EXCEPT
                ![b].open_loans = SatSub(@, 1),
                ![b].largest_repaid = IF on_time THEN Larger(@, l.principal) ELSE @]
        /\ UNCHANGED <<now, shares, collateral>>

Liquidate(l, update) ==
  \E p \in AccruedNow :
    LET b == l.borrower
        m == l.collateral_mint
        risk == collateral[m]
        debt == Debt(p, l)
        value == CollateralValue(l.collateral_amount, LowPrice(update))
        defaulted == InDefault(now, l.due_at)
        split == LiquidationSplit(debt, l.collateral_amount, LowPrice(update), risk.bonus)
    IN  /\ l.status = OPEN
        /\ Fits(debt)
        /\ UsablePrice(update, risk) /\ Fits(value)
        /\ defaulted \/ IsLiquidatable(value, debt, risk.threshold)
        /\ SplitFits(debt, l.collateral_amount, LowPrice(update), risk.bonus)
        /\ Fits(vault + split.pay)
        /\ split.seize + split.back <= collateral_vault[m]
        /\ CloseLoan(p, l, debt, IF defaulted THEN LOAN_DEFAULTED ELSE LOAN_LIQUIDATED)
        /\ vault' = vault + split.pay
        /\ collateral_vault' =
             [collateral_vault EXCEPT ![m] = @ - split.seize - split.back]
        /\ pool' = WriteOff(RemoveDebt(p, l.tier_at_open, l.scaled_debt, debt),
                            split.bad_debt)
        /\ Fits(pool'.bad_debt)
        /\ borrower_state' = [borrower_state EXCEPT ![b].open_loans = SatSub(@, 1)]
        /\ UNCHANGED <<now, shares, collateral>>

Tick ==
  /\ now' \in {t \in Times : t > now}
  /\ UNCHANGED <<books, shares, collateral, lending>>

AdminStep == \E m \in Mints, risk \in RiskParams : AddCollateral(m, risk)
LenderStep ==
  \E lender \in Lenders :
    \/ \E amount \in DepositAmounts : Deposit(lender, amount)
    \/ \E burned \in ShareAmounts : Withdraw(lender, burned)
BorrowStep ==
  \E b \in Borrowers, tier \in Standings, amount \in LoanAmounts, m \in Mints,
     posted \in CollateralAmounts, update \in PriceUpdates :
    Borrow(b, tier, amount, m, posted, update)
CloseStep ==
  \E l \in loans : Repay(l) \/ \E update \in PriceUpdates : Liquidate(l, update)

Next == AdminStep \/ AccrueInterest \/ LenderStep \/ BorrowStep \/ CloseStep \/ Tick

Spec == Init /\ [][Next]_vars

-----------------------------------------------------------------------------
(* Properties *)

OpenLoans == {l \in loans : l.status = OPEN}
LoansOf(b) == {l \in loans : l.borrower = b}

\* Every variable holds what the account types of state.rs can hold.
TypeOK ==
  /\ now \in Nat
  /\ pool \in PoolConfig
  /\ \A t \in Tiers : pool.tier_index[t] >= WAD
  /\ pool.last_accrual <= now
  /\ vault \in Nat /\ lp_supply \in Nat
  /\ lp \in [Lenders -> Nat]
  /\ collateral \in [Mints -> RiskParams \cup {NoConfig}]
  /\ collateral_vault \in [Mints -> Nat]
  /\ borrower_state \in [Borrowers -> BorrowerState]
  /\ loans \subseteq Loan

\* The pool never says lenders are owed more than closing every open loan at
\* the booked indexes would bring: total_borrowed, which accrual, borrow and
\* close each update with a rounding of their own, stays at or under the tiers'
\* index units re-priced at their indexes, so accrue's saturating_sub never clips,
\* and these at or under the loans' debts (state.rs accrue, remove_debt; terms.rs
\* debt_now).
ClaimsBacked ==
  LET repriced == Repriced(pool.tier_scaled_debt, pool.tier_index)
  IN  /\ pool.total_borrowed <= repriced
      /\ repriced <= SumFunctionOnSet([l \in loans |-> Debt(pool, l)], OpenLoans)

\* Protocol fees never exceed what the pool holds and is owed: total_assets
\* (state.rs:34) is never None for want of assets, so no rounding, loss or
\* withdrawal can lock deposit and withdraw.
Solvent == pool.protocol_fees <= vault + pool.total_borrowed

\* Each tier's index units are those of its open loans (state.rs:21), so
\* close_loan's checked_sub (state.rs:73) never refuses a loan.
UnitsAreOpenLoans ==
  \A t \in Tiers :
    pool.tier_scaled_debt[t] =
      SumFunctionOnSet([l \in loans |-> l.scaled_debt], {l \in OpenLoans : l.tier_at_open = t})

\* Every collateral vault holds exactly what its open loans posted: closing a
\* loan never pays out of another borrower's collateral.
CollateralHeld ==
  \A m \in Mints :
    collateral_vault[m] =
      SumFunctionOnSet([l \in loans |-> l.collateral_amount],
                       {l \in OpenLoans : l.collateral_mint = m})

\* While there are shares, none is worth less after an instruction than before
\* it, unless the instruction wrote off more than the fee reserve could take:
\* no deposit, withdrawal, loan, repayment or accrual moves value from the
\* lenders who stay (math.rs "rounded down so the pool never gives away value").
SharePriceFallsOnlyByLoss ==
  [][ lp_supply > 0 /\ pool'.bad_debt = pool.bad_debt =>
        TotalAssets(pool', vault') * lp_supply >= TotalAssets(pool, vault) * lp_supply' ]_vars

\* A liquidator never takes collateral worth more than what it paid plus the
\* bonus, at the price it was liquidated at; and the pool is paid the whole debt,
\* or else what all of the loan's collateral is worth without the bonus
\* (terms.rs:98-103).
LiquidatorReward ==
  [][ \A l \in OpenLoans, update \in PriceUpdates :
        Liquidate(l, update) =>
          LET risk == collateral[l.collateral_mint]
              price == LowPrice(update)
              debt == Debt(pool', l)
              split == LiquidationSplit(debt, l.collateral_amount, price, risk.bonus)
              paid == vault' - vault
          IN  /\ CollateralValue(split.seize, price) * BPS <= paid * (BPS + risk.bonus)
              /\ \/ paid >= debt
                 \/ paid * (BPS + risk.bonus)
                      >= CollateralValue(l.collateral_amount, price) * BPS ]_vars

\* A loan opens out of reach of a liquidator: no price that is enough to borrow
\* at is low enough to liquidate at in the same instant, once the units its debt
\* was rounded up by are set aside (terms.rs:66-68 and debt_now).
OpensHealthy ==
  [][ \A l \in loans' \ loans, update \in PriceUpdates :
        LET risk == collateral[l.collateral_mint]
            ratio == TierCollateralBps[l.tier_at_open]
            value == CollateralValue(l.collateral_amount, LowPrice(update))
            rounding == CeilDiv(pool'.tier_index[l.tier_at_open], WAD)
        IN  /\ l.status = OPEN
            /\ UsablePrice(update, risk) /\ EnoughCollateral(value, l.principal, ratio)
            => ~IsLiquidatable(value, Debt(pool', l) - rounding, risk.threshold) ]_vars
=============================================================================

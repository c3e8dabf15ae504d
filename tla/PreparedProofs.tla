--------------------------- MODULE PreparedProofs ---------------------------
(*****************************************************************************)
(* The pool's service and the transactions it prepares, proved for every     *)
(* pool, every wallet, every amount and any number of tabs.                  *)
(*                                                                           *)
(* First what one answer says: the backend's own arithmetic is the program's *)
(* (AccrueRead, ReadsAgree), so the offers it shows are what the guards of   *)
(* the instructions let through (ViewsAgree).  Then what becomes of it: SInv *)
(* says what each tab and each signed transaction carries, and a service     *)
(* step leaves the chain, moves the clock, or is a step of Pool, so the      *)
(* pool's own theorems hold through it.  A quote for all of a position stays *)
(* covered because no step lowers the price of a share with the interest up  *)
(* to the clock, short of a loss written off or the last share burned; and   *)
(* a Loan account has one loan because every loan's id is below its          *)
(* borrower's next (LoansSound).                                             *)
(*****************************************************************************)
EXTENDS Prepared, PoolProofs

-----------------------------------------------------------------------------
(* The backend's second implementation of the arithmetic is the program's.  *)

LEMMA SameRates ==
  ASSUME NEW borrowed \in Nat, NEW idle \in Nat, NEW t \in Tiers
  PROVE  /\ utilizationBps(borrowed, idle) = UtilizationBps(borrowed, idle)
         /\ tierRateBps(baseRateBps(utilizationBps(borrowed, idle)), TierSpreadBps[t])
              = TierRateBps(BaseRateBps(UtilizationBps(borrowed, idle)), TierSpreadBps[t])
  <1> DEFINE util == UtilizationBps(borrowed, idle)
  <1>1. utilizationBps(borrowed, idle) = util
    BY DEF utilizationBps, UtilizationBps
  <1>2. util \in Nat
    BY UtilizationNat
  <1> HIDE DEF util
  <1>3. baseRateBps(util) = BaseRateBps(util)
    BY <1>2 DEF baseRateBps, BaseRateBps, Smaller, KINK_UTIL_BPS, BPS
  <1>4. BaseRateBps(util) \in Nat
    BY <1>2, BaseRateNat
  <1>5. TierSpreadBps[t] \in Int
    BY DEF TierSpreadBps, Tiers
  <1>6. tierRateBps(BaseRateBps(util), TierSpreadBps[t])
          = TierRateBps(BaseRateBps(util), TierSpreadBps[t])
    BY <1>4, <1>5 DEF tierRateBps, TierRateBps, Larger
  <1> QED BY <1>1, <1>3, <1>6 DEF util

\* The fold over the tiers is the program's sum of four.
LEMMA TierSum ==
  ASSUME NEW f \in [Tiers -> Nat]
  PROVE  FoldFunction(+, 0, f) = f[0] + f[1] + f[2] + f[3]
  <1>1. FoldFunction(+, 0, f) = SumFunctionOnSet(f, Tiers)
    BY DEF FoldFunction, SumFunctionOnSet
  <1>2. Tiers = {0, 1, 2, 3}
    BY DEF Tiers
  <1> DEFINE Sum(S) == SumFunctionOnSet(f, S)
  <1>3. ASSUME NEW S, IsFiniteSet(S), S \subseteq Tiers, NEW x \in Tiers, x \notin S,
               NEW R, R = S \cup {x}
        PROVE  IsFiniteSet(R) /\ Sum(R) = Sum(S) + f[x]
    BY <1>3, SumAdd, FS_AddElement
  <1>4. IsFiniteSet({}) /\ Sum({}) = 0
    BY SumEmpty, FS_EmptySet
  <1>5. /\ 0 \in Tiers /\ 1 \in Tiers /\ 2 \in Tiers /\ 3 \in Tiers
        /\ {} \subseteq Tiers /\ {0} \subseteq Tiers /\ {0, 1} \subseteq Tiers
        /\ {0, 1, 2} \subseteq Tiers
        /\ 0 \notin {} /\ 1 \notin {0} /\ 2 \notin {0, 1} /\ 3 \notin {0, 1, 2}
        /\ {0} = {} \cup {0} /\ {0, 1} = {0} \cup {1} /\ {0, 1, 2} = {0, 1} \cup {2}
        /\ Tiers = {0, 1, 2} \cup {3}
    BY <1>2
  <1> HIDE DEF Sum
  <1>6. IsFiniteSet({0}) /\ Sum({0}) = Sum({}) + f[0]
    BY <1>3, <1>4, <1>5
  <1>7. IsFiniteSet({0, 1}) /\ Sum({0, 1}) = Sum({0}) + f[1]
    BY <1>3, <1>5, <1>6, Zenon
  <1>8. IsFiniteSet({0, 1, 2}) /\ Sum({0, 1, 2}) = Sum({0, 1}) + f[2]
    BY <1>3, <1>5, <1>7, Zenon
  <1>9. Sum(Tiers) = Sum({0, 1, 2}) + f[3]
    BY <1>3, <1>5, <1>8, Zenon
  <1>10. f[0] \in Nat /\ f[1] \in Nat /\ f[2] \in Nat /\ f[3] \in Nat
    BY <1>2
  <1>11. Sum(Tiers) = f[0] + f[1] + f[2] + f[3]
    BY <1>4, <1>6, <1>7, <1>8, <1>9, <1>10
  <1> QED BY <1>1, <1>11, Zenon DEF Sum

\* What an account stores is read back whole.
LEMMA ReadWhole ==
  ASSUME NEW p \in PoolConfig
  PROVE  parsePool(p) = p
  <1>1. DOMAIN p = PoolState
    BY DEF PoolConfig, PoolState
  <1>2. p = [x \in DOMAIN p |-> p[x]]
    BY DEF PoolConfig
  <1> QED BY <1>1, <1>2 DEF parsePool, Restrict

\* The indexes and the total of a read, wherever its parts were taken from.
LEMMA AccrueRead ==
  ASSUME NEW p \in PoolConfig, NEW idle \in Nat, NEW at \in Nat, ~(at <= p.last_accrual)
  PROVE  LET index == GrownIndex(p, idle, at - p.last_accrual)
             total == Repriced(p.tier_scaled_debt, index)
         IN  /\ index \in [Tiers -> Nat] /\ total \in Nat
             /\ InterestFee(p.total_borrowed, total) \in Nat
             /\ accrue(p, at, idle)
                  = WithAccrual(p, index, p.protocol_fees + InterestFee(p.total_borrowed, total),
                                total, at)
  <1> DEFINE rates == tierRatesBps(p, idle)
             dt == at - p.last_accrual
             grown(t) == growIndex(p.tier_index[t], rates[t], dt)
             index == [t \in Tiers |-> grown(t)]
             units == p.tier_scaled_debt
             owed == [t \in Tiers |-> (units[t] * index[t]) \div WAD]
             total == FoldFunction(+, 0, owed)
             interest == IF total > p.total_borrowed THEN total - p.total_borrowed ELSE 0
             fee == (interest * RESERVE_FACTOR_BPS) \div BPS
  <1>1. /\ p.total_borrowed \in Nat /\ p.protocol_fees \in Nat /\ p.last_accrual \in Nat
        /\ units \in [Tiers -> Nat] /\ p.tier_index \in [Tiers -> Nat]
    BY DEF PoolConfig
  <1>2. dt \in Nat
    BY <1>1
  <1> DEFINE base == BaseRateBps(UtilizationBps(p.total_borrowed, idle))
  <1>3. \A t \in Tiers : rates[t] = TierRateBps(base, TierSpreadBps[t])
    BY <1>1, SameRates DEF tierRatesBps
  <1>4. index = GrownIndex(p, idle, dt)
    <2> HIDE DEF rates, dt, base
    <2>1. \A t \in Tiers :
            grown(t) = GrowIndex(p.tier_index[t], TierRateBps(base, TierSpreadBps[t]), dt)
      BY <1>3 DEF growIndex, GrowIndex
    <2>2. GrownIndex(p, idle, dt) =
            [t \in Tiers |-> GrowIndex(p.tier_index[t], TierRateBps(base, TierSpreadBps[t]), dt)]
      BY DEF GrownIndex, base
    <2> HIDE DEF grown
    <2> QED BY <2>1, <2>2
  <1>5. index \in [Tiers -> Nat]
    BY <1>2, <1>4, IndexesGrow
  <1> HIDE DEF index, dt, rates, units, base
  <1>6. owed \in [Tiers -> Nat]
    BY <1>1, <1>5, RepricedNat
  <1>7. \A t \in Tiers : owed[t] = (units[t] * index[t]) \div WAD
    OBVIOUS
  <1> HIDE DEF owed
  <1>8. total = owed[0] + owed[1] + owed[2] + owed[3]
    BY <1>6, TierSum
  <1> HIDE DEF total
  <1>9. total = Repriced(units, index) /\ total \in Nat
    <2>1. 0 \in Tiers /\ 1 \in Tiers /\ 2 \in Tiers /\ 3 \in Tiers
      BY DEF Tiers
    <2>2. total \in Nat
      <3>1. owed[0] \in Nat /\ owed[1] \in Nat /\ owed[2] \in Nat /\ owed[3] \in Nat
        BY <1>6, <2>1
      <3> QED BY <1>8, <3>1
    <2>3. /\ owed[0] = (units[0] * index[0]) \div WAD
          /\ owed[1] = (units[1] * index[1]) \div WAD
          /\ owed[2] = (units[2] * index[2]) \div WAD
          /\ owed[3] = (units[3] * index[3]) \div WAD
      BY <1>7, <2>1
    <2>4. total = Repriced(units, index)
      BY <1>8, <2>3, Zenon DEF Repriced
    <2> QED BY <2>2, <2>4
  <1>10. interest = SatSub(total, p.total_borrowed) /\ interest \in Nat
    BY <1>1, <1>9 DEF SatSub
  <1>11. fee = InterestFee(p.total_borrowed, total)
    BY <1>10 DEF InterestFee
  <1>12. fee \in Nat
    <2> HIDE DEF interest
    <2> QED BY <1>10, DivBounds DEF RESERVE_FACTOR_BPS, BPS
  <1>13. accrue(p, at, idle) =
           [p EXCEPT !.tier_index = index, !.total_borrowed = total,
                     !.protocol_fees = p.protocol_fees + fee, !.last_accrual = at]
    BY Zenon DEF accrue, index, total, owed, units, dt, rates
  <1>14. accrue(p, at, idle) = WithAccrual(p, index, p.protocol_fees + fee, total, at)
    <2> HIDE DEF fee
    <2>1. p.protocol_fees + fee \in Nat
      BY <1>1, <1>12
    <2> QED BY <1>13 DEF WithAccrual, PoolConfig
  <1> HIDE DEF fee
  <1> QED BY <1>4, <1>5, <1>9, <1>11, <1>12, <1>14, Zenon DEF dt, units

LEMMA ReadTyped ==
  ASSUME NEW p \in PoolConfig, NEW idle \in Nat, NEW at \in Nat
  PROVE  /\ accrue(parsePool(p), at, idle) \in PoolConfig
         /\ totalAssets(accrue(parsePool(p), at, idle), idle) \in Int
  <1> DEFINE q == accrue(parsePool(p), at, idle)
  <1>1. q = accrue(p, at, idle)
    BY ReadWhole
  <1>2. q \in PoolConfig
    <2>1. CASE at <= p.last_accrual
      BY <1>1, <2>1 DEF accrue
    <2>2. CASE ~(at <= p.last_accrual)
      <3> DEFINE index == GrownIndex(p, idle, at - p.last_accrual)
                 total == Repriced(p.tier_scaled_debt, index)
                 fees == p.protocol_fees + InterestFee(p.total_borrowed, total)
      <3>1. /\ index \in [Tiers -> Nat] /\ total \in Nat
            /\ InterestFee(p.total_borrowed, total) \in Nat
            /\ q = WithAccrual(p, index, fees, total, at)
        BY <1>1, <2>2, AccrueRead
      <3> HIDE DEF index, total
      <3>2. fees \in Nat
        BY <3>1 DEF PoolConfig
      <3> HIDE DEF fees, q
      <3> QED BY <3>1, <3>2, SetAccrual
    <2> QED BY <2>1, <2>2
  <1> HIDE DEF q
  <1>3. q.total_borrowed \in Nat /\ q.protocol_fees \in Nat
    BY <1>2 DEF PoolConfig
  <1> QED BY <1>2, <1>3 DEF totalAssets, q

\* Read in one piece, the market's pool is the books as the next instruction
\* will see them.
LEMMA ReadIsProgram ==
  ASSUME IInv
  PROVE  /\ Market(pool, now, vault, NoFeeds).pool = Accrued(pool, vault)
         /\ totalAssets(Accrued(pool, vault), vault) = LiveAssets
  <1> DEFINE dt == now - pool.last_accrual
             index == GrownIndex(pool, vault, dt)
             total == Repriced(pool.tier_scaled_debt, index)
             fee == InterestFee(pool.total_borrowed, total)
  <1>1. /\ pool \in PoolConfig /\ now \in Nat /\ vault \in Nat
        /\ pool.last_accrual \in Nat
    BY DEF IInv, TypeOK, PoolConfig
  <1>2. Market(pool, now, vault, NoFeeds).pool = accrue(pool, now, vault)
    <2>1. Market(pool, now, vault, NoFeeds).pool = accrue(parsePool(pool), now, vault)
      BY DEF Market
    <2> QED BY <1>1, <2>1, ReadWhole
  <1>3. accrue(pool, now, vault) = Accrued(pool, vault)
    <2>1. CASE dt <= 0
      <3>1. now <= pool.last_accrual
        BY <1>1, <2>1
      <3> QED BY <2>1, <3>1 DEF accrue, Accrued
    <2>2. CASE ~(dt <= 0)
      <3>1. ~(now <= pool.last_accrual)
        BY <1>1, <2>2
      <3>2. accrue(pool, now, vault)
              = WithAccrual(pool, index, pool.protocol_fees + fee, total, now)
        BY <1>1, <3>1, AccrueRead
      <3>3. Accrued(pool, vault) =
              IF dt <= 0 THEN pool
              ELSE [pool EXCEPT !.tier_index = index, !.protocol_fees = @ + fee,
                                !.total_borrowed = total, !.last_accrual = now]
        BY DEF Accrued
      <3> HIDE DEF dt, index, total, fee
      <3> QED BY <2>2, <3>2, <3>3, Zenon DEF WithAccrual
    <2> QED BY <2>1, <2>2
  <1> QED BY <1>2, <1>3 DEF totalAssets, LiveAssets, TotalAssets

-----------------------------------------------------------------------------
(* What the answers say of the pool, in one piece, against the guards of the *)
(* instructions.                                                             *)

\* A borrower in any tier may ask for just the amounts up to the offer.
OfferFits ==
  \A b \in Borrowers, t \in Tiers, x \in Nat \ {0} :
    /\ x <= MaxLoan(t, borrower_state[b].largest_repaid) /\ x <= vault
    /\ WithinBorrowCap(Accrued(pool, vault).total_borrowed, vault, x)
    <=> x <= getLoansView(Seen(Null), b, readBorrower(b, t, TRUE)).offer.maxLoan

\* The loans shown as defaulted or below their threshold at a usable price are
\* those a liquidator may close at it.
LiquidationShown ==
  \A l \in OpenLoans, update \in PriceUpdates :
    LET risk == collateral[l.collateral_mint]
        value == CollateralValue(l.collateral_amount, LowPrice(update))
        debt == Debt(Accrued(pool, vault), l)
        v == loanView(Seen(update), l)
    IN  UsablePrice(update, risk) =>
          (InDefault(now, l.due_at) \/ IsLiquidatable(value, debt, risk.threshold)
             <=> v.state = "defaulted" \/ v.health < v.liqThreshold)

\* All that a lender's shares are shown to be worth is shown as withdrawable just
\* when the vault can pay for every one of them.
ExitShown ==
  \A lender \in Lenders :
    LET m == Seen(Null)
        v == getLenderView(m, readPosition(m, lender))
    IN  lp_supply > 0 =>
          (v.withdrawable = v.value
             <=> AssetsForShares(lp[lender], LiveAssets, lp_supply) <= vault)

LEMMA LiveNat == IInv => LiveAssets \in Nat
  BY AccruedSound, AssetsInt DEF IInv, TypeOK, LiveAssets

LEMMA QuotientInt ==
  ASSUME NEW n \in Int, NEW d \in Int, d # 0
  PROVE  /\ Quotient(n, d) \in Int
         /\ n \in Nat /\ d \in Nat => Quotient(n, d) = n \div d
  <1>1. Magnitude(n) \in Nat /\ Magnitude(d) \in Nat \ {0}
    BY DEF Magnitude
  <1>2. Magnitude(n) \div Magnitude(d) \in Nat
    BY <1>1, DivBounds
  <1>3. Quotient(n, d) \in Int
    BY <1>2 DEF Quotient
  <1>4. ASSUME n \in Nat, d \in Nat PROVE Quotient(n, d) = n \div d
    <2>1. Magnitude(n) = n /\ Magnitude(d) = d /\ ~(n < 0) /\ ~(d < 0)
      BY <1>4 DEF Magnitude
    <2> QED BY <2>1 DEF Quotient
  <1> QED BY <1>3, <1>4

LEMMA LoanLimitNat ==
  ASSUME NEW t \in Tiers, NEW repaid \in Nat
  PROVE  maxLoan(t, repaid) \in Nat
  <1>1. USDC_UNIT \in Nat
    BY UnitAssumption
  <1>2. TierMaxLoan[t] \in Nat
    BY <1>1 DEF TierMaxLoan, Tiers
  <1>3. MIN_LOAN_CAP \in Nat
    BY <1>1 DEF MIN_LOAN_CAP
  <1> QED BY <1>2, <1>3 DEF maxLoan, Larger

LEMMA SeenBooks ==
  ASSUME IInv, NEW u
  PROVE  /\ Seen(u).pool = Accrued(pool, vault) /\ Seen(u).idle = vault
         /\ Seen(u).now = now
         /\ Seen(u).pool \in PoolConfig
         /\ totalAssets(Seen(u).pool, vault) = LiveAssets
  <1>1. /\ Seen(u).pool = accrue(parsePool(pool), now, vault)
        /\ Market(pool, now, vault, NoFeeds).pool = accrue(parsePool(pool), now, vault)
        /\ Seen(u).idle = vault /\ Seen(u).now = now
    BY DEF Seen, Market
  <1>2. pool \in PoolConfig /\ now \in Nat /\ vault \in Nat
    BY DEF IInv, TypeOK
  <1> QED BY <1>1, <1>2, ReadIsProgram, ReadTyped

LEMMA OfferIsLargest ==
  ASSUME IInv
  PROVE  OfferFits
  <1> SUFFICES ASSUME NEW b \in Borrowers, NEW t \in Tiers, NEW x \in Nat \ {0}
               PROVE  /\ x <= MaxLoan(t, borrower_state[b].largest_repaid) /\ x <= vault
                      /\ WithinBorrowCap(Accrued(pool, vault).total_borrowed, vault, x)
                      <=> x <= getLoansView(Seen(Null), b, readBorrower(b, t, TRUE)).offer.maxLoan
    BY DEF OfferFits
  <1> DEFINE largest == borrower_state[b].largest_repaid
             borrowed == Accrued(pool, vault).total_borrowed
             limit == maxLoan(t, largest)
             lent == (9000 * (borrowed + vault)) \div 10000
             offer == getLoansView(Seen(Null), b, readBorrower(b, t, TRUE)).offer.maxLoan
  <1>1. largest \in Nat /\ vault \in Nat
    BY DEF IInv, TypeOK, BorrowerState
  <1>2. borrowed \in Nat
    BY SeenBooks DEF PoolConfig
  <1>3. offer = Smaller(limit, borrowRoom(borrowed, vault))
    <2>1. /\ readBorrower(b, t, TRUE).tier = t
          /\ readBorrower(b, t, TRUE).largestRepaid = largest
      BY DEF readBorrower, parseBorrowerState, Restrict
    <2>2. Seen(Null).pool.total_borrowed = borrowed /\ Seen(Null).idle = vault
      BY SeenBooks
    <2> QED BY <2>1, <2>2, Zenon DEF getLoansView
  <1>4. limit \in Nat
    BY <1>1, LoanLimitNat
  <1>5. limit = MaxLoan(t, largest)
    <2>1. TierMaxLoan[t] \in Nat /\ MIN_LOAN_CAP \in Nat
      BY UnitAssumption DEF TierMaxLoan, Tiers, MIN_LOAN_CAP
    <2>2. largest * 2 = 2 * largest
      BY <1>1
    <2> DEFINE growth == Larger(2 * largest, MIN_LOAN_CAP)
    <2>3. growth \in Nat
      BY <1>1, <2>1 DEF Larger
    <2> HIDE DEF largest, growth
    <2> QED BY <2>1, <2>2, <2>3 DEF maxLoan, MaxLoan, Smaller, growth
  <1> HIDE DEF limit, offer, borrowed
  <1>6. borrowRoom(borrowed, vault) = Larger(lent - borrowed, 0)
    BY DEF borrowRoom, MAX_BORROW_UTIL_BPS, BPS
  <1>7. WithinBorrowCap(borrowed, vault, x) <=> (borrowed + x) * 10000 <= 9000 * (borrowed + vault)
    BY DEF WithinBorrowCap, MAX_BORROW_UTIL_BPS, BPS
  <1>8. (borrowed + x) * 10000 <= 9000 * (borrowed + vault) <=> borrowed + x <= lent
    BY <1>1, <1>2
  <1>9. (borrowed + x) * 10000 <= 9000 * (borrowed + vault) => x <= vault
    BY <1>1, <1>2
  <1>10. lent \in Nat
    BY <1>1, <1>2
  <1> HIDE DEF lent
  <1>11. x <= offer <=> x <= limit /\ borrowed + x <= lent
    BY <1>2, <1>3, <1>4, <1>6, <1>10 DEF Smaller, Larger
  <1>12. /\ x <= MaxLoan(t, largest) /\ x <= vault
         /\ WithinBorrowCap(borrowed, vault, x)
         <=> x <= offer
    BY <1>5, <1>7, <1>8, <1>9, <1>11
  <1> QED BY <1>12, Zenon DEF offer, borrowed

\* An offer is a natural: the room below the cap is never negative.
LEMMA OfferNat ==
  ASSUME IInv, NEW b \in Borrowers, NEW t \in Tiers
  PROVE  getLoansView(Seen(Null), b, readBorrower(b, t, TRUE)).offer.maxLoan \in Nat
  <1> DEFINE largest == borrower_state[b].largest_repaid
             borrowed == Accrued(pool, vault).total_borrowed
             limit == maxLoan(t, largest)
             room == borrowRoom(borrowed, vault)
             offer == getLoansView(Seen(Null), b, readBorrower(b, t, TRUE)).offer.maxLoan
  <1>1. largest \in Nat /\ vault \in Nat
    BY DEF IInv, TypeOK, BorrowerState
  <1>2. borrowed \in Nat
    BY SeenBooks DEF PoolConfig
  <1>3. offer = Smaller(limit, room)
    <2>1. /\ readBorrower(b, t, TRUE).tier = t
          /\ readBorrower(b, t, TRUE).largestRepaid = largest
      BY DEF readBorrower, parseBorrowerState, Restrict
    <2>2. Seen(Null).pool.total_borrowed = borrowed /\ Seen(Null).idle = vault
      BY SeenBooks
    <2> QED BY <2>1, <2>2, Zenon DEF getLoansView
  <1>4. limit \in Nat
    BY <1>1, LoanLimitNat
  <1>5. room \in Nat
    <2>1. (9000 * (borrowed + vault)) \div 10000 \in Nat
      BY <1>1, <1>2
    <2> QED BY <1>2, <2>1 DEF borrowRoom, MAX_BORROW_UTIL_BPS, BPS, Larger
  <1> HIDE DEF limit, room
  <1> QED BY <1>3, <1>4, <1>5 DEF Smaller

LEMMA DivBelow ==
  ASSUME NEW a \in Nat, NEW d \in Nat \ {0}, NEW t \in Nat
  PROVE  a \div d < t <=> a < d * t
  <1> DEFINE q == a \div d
  <1>1. q \in Nat /\ q * d <= a /\ a < q * d + d
    BY DivBounds
  <1> HIDE DEF q
  <1>2. ASSUME q < t PROVE a < d * t
    <2>1. q + 1 <= t
      BY <1>1, <1>2
    <2>2. (q + 1) * d <= t * d
      BY <1>1, <2>1
    <2> QED BY <1>1, <2>2
  <1>3. ASSUME ~(q < t) PROVE ~(a < d * t)
    <2>1. t <= q
      BY <1>1, <1>3
    <2>2. t * d <= q * d
      BY <1>1, <2>1
    <2> QED BY <1>1, <2>2
  <1> QED BY <1>2, <1>3 DEF q

LEMMA LiquidationsShown ==
  ASSUME IInv, LoansSound
  PROVE  LiquidationShown
  <1> SUFFICES ASSUME NEW l \in OpenLoans, NEW update \in PriceUpdates,
                      UsablePrice(update, collateral[l.collateral_mint])
               PROVE  LET risk == collateral[l.collateral_mint]
                          value == CollateralValue(l.collateral_amount, LowPrice(update))
                          debt == Debt(Accrued(pool, vault), l)
                          v == loanView(Seen(update), l)
                      IN  InDefault(now, l.due_at) \/ IsLiquidatable(value, debt, risk.threshold)
                            <=> v.state = "defaulted" \/ v.health < v.liqThreshold
    BY DEF LiquidationShown
  <1> DEFINE mint == l.collateral_mint
             risk == collateral[mint]
             price == LowPrice(update)
             value == CollateralValue(l.collateral_amount, price)
             debt == Debt(Accrued(pool, vault), l)
             m == Seen(update)
             c == m.collaterals[mint]
             v == loanView(m, l)
  <1>1. /\ l \in Loan /\ mint \in Mints /\ l.tier_at_open \in Tiers /\ l.scaled_debt \in Nat
        /\ l.collateral_amount \in Nat /\ l.due_at \in Nat /\ l.scaled_debt > 0
        /\ now \in Nat
    BY DEF OpenLoans, IInv, TypeOK, Loan, LoansSound
  <1>2. risk \in RiskParams /\ risk # NoConfig /\ risk.threshold \in Nat
    BY InputAssumption DEF OpenLoans, IInv, LoansConfigured
  <1>3. price \in Nat \ {0}
    BY InputAssumption DEF UsablePrice, LowPrice
  <1>4. value \in Nat
    BY <1>1, <1>3, ValueNat
  <1>5. debt \in Nat \ {0}
    <2> DEFINE index == Accrued(pool, vault).tier_index[l.tier_at_open]
               units == l.scaled_debt
    <2>1. index \in Nat /\ index >= WAD /\ WAD \in Nat \ {0}
      BY <1>1, AccruedSound, ScaleAssumption DEF IInv, SoundBooks, PoolConfig
    <2>2. debt = DebtNow(units, index)
      BY DEF Debt
    <2> HIDE DEF index, units
    <2>3. units \in Nat /\ units > 0
      BY <1>1 DEF units
    <2>4. DebtNow(units, index) \in Nat /\ DebtNow(units, index) * WAD >= units * index
      BY <2>1, <2>3, DebtNowCovers
    <2>5. units * index > 0
      BY <2>1, <2>3
    <2>6. DebtNow(units, index) # 0
      BY <2>1, <2>3, <2>4, <2>5
    <2> HIDE DEF debt
    <2> QED BY <2>2, <2>4, <2>6
  <1>6. /\ c.config.threshold = risk.threshold /\ c.lowPrice = price
    <2>1. update \in [feed_id : STRING, price : Int, conf : Nat, publish_time : Int]
      BY InputAssumption
    <2>2. update # Null
      BY NullAssumption
    <2> DEFINE read == parsePriceUpdate(update)
    <2>3. read.price = update.price /\ read.conf = update.conf /\ read = update
      BY <2>1, <2>2 DEF parsePriceUpdate, Restrict
    <2>4. c = [config |-> parseCollateral(risk),
               lowPrice |-> IF read = Null THEN Null ELSE read.price - read.conf]
      BY <1>1, <1>2 DEF Seen, Market
    <2> HIDE DEF read, c
    <2>5. c.lowPrice = price
      BY <2>2, <2>3, <2>4 DEF LowPrice
    <2> QED BY <2>4, <2>5 DEF parseCollateral, CollateralState, Restrict
  <1>7. m.now = now /\ m.pool = Accrued(pool, vault)
    BY SeenBooks
  <1>8. debtNow(l.scaled_debt, m.pool.tier_index[l.tier_at_open]) = debt
    BY <1>7 DEF debtNow, Debt, DebtNow, CeilDiv
  <1> HIDE DEF c, m, debt, price
  <1>9. v.health = (value * BPS) \div debt
    <2>1. price # Null
      BY <1>3, NullAssumption
    <2>2. v.health = IF c.lowPrice = Null THEN Null
                     ELSE healthBps(collateralValue(l.collateral_amount, c.lowPrice), debt)
      BY <1>8 DEF loanView, c
    <2>3. collateralValue(l.collateral_amount, c.lowPrice) = value
      BY <1>6 DEF collateralValue, CollateralValue
    <2>4. healthBps(value, debt) = (value * BPS) \div debt
      BY <1>5 DEF healthBps
    <2> QED BY <1>6, <2>1, <2>2, <2>3, <2>4
  <1>10. v.liqThreshold = risk.threshold
    BY <1>6 DEF loanView, c
  <1>11. v.state = "defaulted" <=> InDefault(now, l.due_at)
    <2>1. v.state = IF now <= l.due_at THEN "active"
                    ELSE IF now <= l.due_at + DEFAULT_GRACE_SECS THEN "late" ELSE "defaulted"
      BY <1>7 DEF loanView, graceEndsAt
    <2>2. DEFAULT_GRACE_SECS \in Nat
      BY UnitAssumption DEF DEFAULT_GRACE_SECS
    <2> HIDE DEF v
    <2> QED BY <1>1, <2>1, <2>2 DEF InDefault
  <1> HIDE DEF v, value
  <1>12. (value * BPS) \div debt < risk.threshold <=> value * BPS < debt * risk.threshold
    <2>1. value * BPS \in Nat
      BY <1>4 DEF BPS
    <2> HIDE DEF risk
    <2> QED BY <1>2, <1>5, <2>1, DivBelow
  <1>13. IsLiquidatable(value, debt, risk.threshold) <=> value * BPS < debt * risk.threshold
    <2>1. value * BPS \in Nat /\ debt * risk.threshold \in Nat
      BY <1>2, <1>4, <1>5 DEF BPS
    <2> QED BY <2>1 DEF IsLiquidatable, EnoughCollateral
  <1> QED BY <1>9, <1>10, <1>11, <1>12, <1>13 DEF v, value, debt, price, m

LEMMA ExitsShown ==
  ASSUME IInv
  PROVE  ExitShown
  <1> SUFFICES ASSUME NEW lender \in Lenders, lp_supply > 0
               PROVE  LET m == Seen(Null)
                          v == getLenderView(m, readPosition(m, lender))
                      IN  v.withdrawable = v.value
                            <=> AssetsForShares(lp[lender], LiveAssets, lp_supply) <= vault
    BY DEF ExitShown
  <1> DEFINE m == Seen(Null)
             v == getLenderView(m, readPosition(m, lender))
             worth == (lp[lender] * LiveAssets) \div lp_supply
  <1>1. lp[lender] \in Nat /\ lp_supply \in Nat \ {0} /\ vault \in Nat /\ LiveAssets \in Nat
    BY LiveNat DEF IInv, TypeOK
  <1>2. lp[lender] * LiveAssets \in Nat
    BY <1>1
  <1>3. m.idle = vault /\ totalAssets(m.pool, m.idle) = LiveAssets
    BY SeenBooks
  <1>4. worth \in Nat /\ Quotient(lp[lender] * LiveAssets, lp_supply) = worth
    BY <1>1, <1>2, DivBounds, QuotientInt
  <1> HIDE DEF m, worth
  <1>5. v.value = worth /\ v.withdrawable = Smaller(worth, vault)
    BY <1>1, <1>3, <1>4 DEF getLenderView, readPosition, assetsForShares
  <1>6. Smaller(worth, vault) = worth <=> worth <= vault
    BY <1>1, <1>4 DEF Smaller
  <1>7. AssetsForShares(lp[lender], LiveAssets, lp_supply) = worth
    BY DEF AssetsForShares, worth
  <1> QED BY <1>5, <1>6, <1>7 DEF m

\* In every state the pool can reach, what an answer would offer is what the
\* instructions accept: the amounts up to the offer are those initiate_borrow lets
\* through, a loan is shown as ready to close just when liquidate closes it, and
\* all the shares just when withdraw can pay them (service.ts, lender.ts).
ViewAgrees == OfferFits /\ LiquidationShown /\ ExitShown

THEOREM ViewsAgree == Spec => []ViewAgrees
  <1>1. IInv /\ Accounts => ViewAgrees
    BY OfferIsLargest, LiquidationsShown, ExitsShown DEF ViewAgrees, Accounts
  <1>2. QED
    BY <1>1, Inductive, AccountsKept, PTL

-----------------------------------------------------------------------------
(* The loans counted by tier are those the borrowers' accounts have counted: *)
(* sorting the loans by tier and by borrower counts each once (SumFibers).   *)

\* What is read of a loan keeps its address, its tier and its status.
LEMMA ParsedFields ==
  ASSUME NEW l \in Loan
  PROVE  /\ parseLoan(l).borrower = l.borrower /\ parseLoan(l).loan_id = l.loan_id
         /\ parseLoan(l).tier_at_open = l.tier_at_open /\ parseLoan(l).status = l.status
  BY DEF parseLoan, LoanState, Restrict, Loan

\* The loans of a set that was read, tier by tier, are those of the set.
CountOf(S, t) == Cardinality({l \in {parseLoan(a) : a \in S} : l.tier_at_open = t})
LEMMA ReadLoansCounted ==
  ASSUME NEW S, S \subseteq loans, IInv, Accounts, LoansCounted,
         NEW f, \A t \in Tiers : f[t] = CountOf(S, t)
  PROVE  SumFunctionOnSet(f, Tiers) = Cardinality(S)
  <1>1. IsFiniteSet(S) /\ S \subseteq Loan /\ IsFiniteSet(loans)
    <2>1. IsFiniteSet(loans) /\ loans \subseteq Loan
      BY DEF IInv, TypeOK, Accounts, LoansSound
    <2> QED BY <2>1, FS_Subset
  <1>2. IsFiniteSet(Tiers)
    <2>1. 0 \in Int /\ 3 \in Int
      OBVIOUS
    <2>2. IsFiniteSet(0..3)
      BY <2>1, FS_Interval, Zenon
    <2> QED BY <2>2 DEF Tiers
  <1> DEFINE h == [l \in S |-> l.tier_at_open]
             s == [l \in S |-> parseLoan(l)]
  <1>3. \A l \in S : h[l] \in Tiers
    BY <1>1 DEF Loan
  <1>4. \A i, j \in S : s[i] = s[j] => i = j
    BY <1>1, ParsedFields DEF LoansCounted
  <1>5. ASSUME NEW t \in Tiers PROVE f[t] = Cardinality(Fiber(h, S, t))
    <2> DEFINE D == Fiber(h, S, t)
               T == {s[i] : i \in D}
    <2>1. D \subseteq S /\ IsFiniteSet(D)
      BY <1>1, FS_Subset DEF Fiber
    <2>2. {l \in {parseLoan(a) : a \in S} : l.tier_at_open = t} = T
      <3>1. \A a \in S : parseLoan(a).tier_at_open = h[a] /\ s[a] = parseLoan(a)
        BY <1>1, ParsedFields
      <3>2. \A a : a \in D <=> a \in S /\ h[a] = t
        BY DEF Fiber
      <3> HIDE DEF D, s, h
      <3> QED BY <3>1, <3>2
    <2>3. \A i, j \in D : s[i] = s[j] => i = j
      BY <1>4, <2>1
    <2> HIDE DEF D, s
    <2>4. Cardinality(T) = Cardinality(D)
      BY <2>1, <2>3, ImageCount
    <2> QED BY <2>2, <2>4 DEF D, CountOf
  <1> HIDE DEF h
  <1> QED BY <1>1, <1>2, <1>3, <1>5, SumFibers

\* The wallets that ever borrowed, and what is counted of each.
Known == {b \in Borrowers : borrower_state[b].next_loan_id > 0}
LEMMA BorrowersCounted ==
  ASSUME NEW S, S \subseteq loans, IInv, Accounts, LoansCounted,
         NEW f, \A b \in Known : f[b] = Cardinality({l \in S : l.borrower = b})
  PROVE  SumFunctionOnSet(f, Known) = Cardinality(S)
  <1>1. IsFiniteSet(loans) /\ loans \subseteq Loan /\ IsFiniteSet(S)
    <2>1. IsFiniteSet(loans) /\ loans \subseteq Loan
      BY DEF IInv, TypeOK, Accounts, LoansSound
    <2> QED BY <2>1, FS_Subset
  <1>2. borrower_state \in [Borrowers -> BorrowerState]
    BY DEF IInv, TypeOK
  <1>3. \A l \in loans : l.borrower \in Known
    <2> SUFFICES ASSUME NEW l \in loans PROVE l.borrower \in Known
      OBVIOUS
    <2>1. l.borrower \in Borrowers /\ l.loan_id \in Nat
      BY <1>1 DEF Loan
    <2>2. l.loan_id < borrower_state[l.borrower].next_loan_id
      BY DEF Accounts, LoansSound
    <2>3. borrower_state[l.borrower].next_loan_id \in Nat
      BY <1>2, <2>1 DEF BorrowerState
    <2> QED BY <2>1, <2>2, <2>3 DEF Known
  <1>4. \A b \in Known : \E l \in loans : l.borrower = b
    <2> SUFFICES ASSUME NEW b \in Known, LoansOf(b) = {} PROVE FALSE
      BY DEF LoansOf
    <2>1. b \in Borrowers /\ borrower_state[b].next_loan_id > 0
      BY DEF Known
    <2>2. borrower_state[b].next_loan_id = 0
      BY <2>1, FS_EmptySet DEF LoansCounted
    <2> QED BY <2>1, <2>2
  <1>5. IsFiniteSet(Known)
    <2> DEFINE g == [l \in loans |-> l.borrower]
    <2>1. g \in Surjection(loans, Known)
      BY <1>3, <1>4 DEF Surjection
    <2> QED BY <1>1, <2>1, FS_Surjection
  <1> DEFINE h == [l \in S |-> l.borrower]
  <1>6. \A l \in S : h[l] \in Known
    BY <1>3
  <1>7. \A b \in Known : f[b] = Cardinality(Fiber(h, S, b))
    <2> SUFFICES ASSUME NEW b \in Known PROVE f[b] = Cardinality(Fiber(h, S, b))
      OBVIOUS
    <2>1. {l \in S : l.borrower = b} = Fiber(h, S, b)
      BY DEF Fiber
    <2> QED BY <2>1
  <1> HIDE DEF h
  <1> QED BY <1>1, <1>5, <1>6, <1>7, SumFibers

\* The counts of /pool/loans against those of the borrowers' accounts.
LEMMA CountsShown ==
  ASSUME IInv, Accounts, LoansCounted
  PROVE  LET shown == getPoolLoansView(Seen(Null))
         IN  /\ SumFunctionOnSet([t \in Tiers |-> shown[t].loans], Tiers)
                  = SumFunctionOnSet([b \in Known |-> borrower_state[b].next_loan_id], Known)
             /\ SumFunctionOnSet([t \in Tiers |-> shown[t].open], Tiers)
                  = SumFunctionOnSet([b \in Known |-> borrower_state[b].open_loans], Known)
  <1> DEFINE shown == getPoolLoansView(Seen(Null))
             all == [t \in Tiers |-> shown[t].loans]
             open == [t \in Tiers |-> shown[t].open]
             given == [b \in Known |-> borrower_state[b].next_loan_id]
             held == [b \in Known |-> borrower_state[b].open_loans]
  <1>1. loans \subseteq Loan
    BY DEF IInv, TypeOK
  <1>2. \A t \in Tiers : all[t] = CountOf(loans, t)
    BY Zenon DEF getPoolLoansView, CountOf
  <1>3. \A t \in Tiers : open[t] = CountOf(OpenLoans, t)
    <2> SUFFICES ASSUME NEW t \in Tiers PROVE open[t] = CountOf(OpenLoans, t)
      OBVIOUS
    <2> DEFINE made == {l \in {parseLoan(a) : a \in loans} : l.tier_at_open = t}
    <2>1. open[t] = Cardinality({l \in made : l.status = OPEN})
      BY Zenon DEF getPoolLoansView
    <2>2. {l \in made : l.status = OPEN}
            = {l \in {parseLoan(a) : a \in OpenLoans} : l.tier_at_open = t}
      BY <1>1, ParsedFields DEF OpenLoans
    <2> HIDE DEF made, open
    <2> QED BY <2>1, <2>2 DEF CountOf
  <1>4. \A b \in Known : /\ given[b] = Cardinality({l \in loans : l.borrower = b})
                         /\ held[b] = Cardinality({l \in OpenLoans : l.borrower = b})
    <2> SUFFICES ASSUME NEW b \in Known
                 PROVE  /\ given[b] = Cardinality({l \in loans : l.borrower = b})
                        /\ held[b] = Cardinality({l \in OpenLoans : l.borrower = b})
      OBVIOUS
    <2>1. /\ LoansOf(b) = {l \in loans : l.borrower = b}
          /\ CountedOf(b) = {l \in OpenLoans : l.borrower = b}
      BY DEF LoansOf, CountedOf, OpenLoans
    <2> QED BY <2>1 DEF LoansCounted, Known
  <1> HIDE DEF all, open, given, held
  <1>5. OpenLoans \subseteq loans
    BY DEF OpenLoans
  <1>6. /\ SumFunctionOnSet(all, Tiers) = Cardinality(loans)
        /\ SumFunctionOnSet(open, Tiers) = Cardinality(OpenLoans)
    BY <1>2, <1>3, <1>5, ReadLoansCounted
  <1>7. /\ SumFunctionOnSet(given, Known) = Cardinality(loans)
        /\ SumFunctionOnSet(held, Known) = Cardinality(OpenLoans)
    BY <1>4, <1>5, BorrowersCounted
  <1> QED BY <1>6, <1>7 DEF all, open, given, held

\* The offer of the page, as the largest amount that passes.
LEMMA OfferIsMax ==
  ASSUME IInv, NEW b \in Borrowers, NEW t \in Tiers
  PROVE  LET max == getLoansView(Seen(Null), b, readBorrower(b, t, TRUE)).offer.maxLoan
         IN  \A x \in {max, max + 1} \ {0} :
               (/\ x <= MaxLoan(t, borrower_state[b].largest_repaid) /\ x <= vault
                /\ WithinBorrowCap(Accrued(pool, vault).total_borrowed, vault, x)) <=> x = max
  <1> DEFINE max == getLoansView(Seen(Null), b, readBorrower(b, t, TRUE)).offer.maxLoan
             Passes(x) == /\ x <= MaxLoan(t, borrower_state[b].largest_repaid) /\ x <= vault
                          /\ WithinBorrowCap(Accrued(pool, vault).total_borrowed, vault, x)
  <1>1. \A x \in Nat \ {0} : Passes(x) <=> x <= max
    BY OfferIsLargest, Zenon DEF OfferFits
  <1>2. max \in Nat
    BY OfferNat
  <1> HIDE DEF max, Passes
  <1>3. \A x \in {max, max + 1} \ {0} : Passes(x) <=> x = max
    BY <1>1, <1>2
  <1> QED BY <1>3 DEF max, Passes

\* What the service shows of the pool, its offers and its loans are the books.
THEOREM BooksAreShown == Spec => []ViewIsBooks
  <1>1. IInv /\ Accounts /\ LoansCounted => ViewIsBooks
    <2> SUFFICES ASSUME IInv, Accounts, LoansCounted PROVE ViewIsBooks
      OBVIOUS
    <2>1. Seen(Null).pool = Accrued(pool, vault)
      BY SeenBooks
    <2>2. Known = {b \in Borrowers : borrower_state[b].next_loan_id > 0}
      BY DEF Known
    <2> QED BY <2>1, <2>2, CountsShown, OfferIsMax, Zenon DEF ViewIsBooks
  <1>2. QED
    BY <1>1, Inductive, AccountsKept, LoansAreCounted, PTL

-----------------------------------------------------------------------------
(* The invariant: what every tab and every signed transaction carries.      *)
(* Chain is what they are about; TxOk and the rest take it as an argument,   *)
(* so that the same tab can be looked at before and after a step.            *)

Chain == [pool |-> pool, now |-> now, vault |-> vault, supply |-> lp_supply,
          assets |-> LiveAssets, emptied |-> emptied]

\* A whole quote is covered by its shares until a loss is written off or the
\* pool is emptied.
QuoteOk(tx, chain) ==
  /\ tx.quote \in Nat /\ tx.bad_debt \in Nat /\ tx.emptied \in Nat
  /\ tx.bad_debt <= chain.pool.bad_debt /\ tx.emptied <= chain.emptied
  /\ tx.bad_debt = chain.pool.bad_debt /\ tx.emptied = chain.emptied =>
       \/ tx.quote = 0
       \/ chain.supply > 0 /\ tx.quote * chain.supply <= tx.shares * chain.assets

TxOk(tx, chain) ==
  /\ tx.wallet \in Wallets
  /\ tx.kind = "borrow" =>
       /\ tx.amount \in Nat /\ tx.mint \in Mints /\ tx.update \in PriceUpdates
       /\ LowPrice(tx.update) > 0 => tx.posted \in Nat
  /\ tx.kind = "deposit" => tx.amount \in Nat
  /\ tx.kind = "withdraw" => tx.shares \in Nat /\ (tx.whole => QuoteOk(tx, chain))

PageOk(page) ==
  /\ page.wallet \in Wallets
  /\ page.page = "borrow" => page.maxLoan \in Int /\ page.collaterals \subseteq Mints
  /\ page.page = "pool" => page.withdrawable \in Int

ReqOk(req) ==
  /\ req.wallet \in Wallets
  /\ req.kind \in {"borrow", "repay", "deposit", "withdraw"}
  /\ req.kind = "borrow" =>
       req.amount \in Nat /\ req.mint \in Mints /\ req.posted \in Nat \cup {Null}
  /\ req.kind = "deposit" => req.amount \in Nat
  /\ req.kind = "withdraw" => req.amount \in Nat \cup {ALL}

\* What was read is the chain of now as long as the tab is marked fresh.
ReadOk(tab, chain) ==
  /\ ReqOk(tab.req)
  /\ tab.stored \in PoolConfig /\ tab.clock \in Nat
  /\ tab.fresh => tab.stored = chain.pool /\ tab.clock = chain.now

Has(tab, fields) == tab = [x \in fields |-> tab[x]]
Asked == {"stage", "req", "flow", "fresh", "offered", "stored", "clock"}

TabOk(tab, chain) ==
  \/ tab = Idle
  \/ /\ tab.stage = "shown" /\ Has(tab, {"stage", "shows", "fresh"})
     /\ PageOk(tab.shows)
  \/ /\ tab.stage = "pool" /\ Has(tab, Asked)
     /\ ReadOk(tab, chain)
  \/ /\ tab.stage = "vault" /\ Has(tab, Asked \cup {"idle"})
     /\ ReadOk(tab, chain)
     /\ tab.idle \in Nat /\ (tab.fresh => tab.idle = chain.vault)
  \/ tab.stage = "refused" /\ Has(tab, {"stage", "tx", "fresh", "why", "offered"})
  \/ /\ tab.stage = "ready" /\ Has(tab, {"stage", "tx", "fresh"})
     /\ TxOk(tab.tx, chain)
  \/ /\ tab.stage \in {"sent", "next"} /\ Has(tab, {"stage", "tx", "step"})
     /\ TxOk(tab.tx, chain)

SInv ==
  /\ IInv /\ Accounts
  /\ tier \in [Wallets -> Tiers] /\ emptied \in Nat
  /\ Has(tabs, Tabs) /\ \A t \in Tabs : TabOk(tabs[t], Chain)
  /\ \A n \in network : TxOk(n.tx, Chain)

\* What a step does to the chain a tab looks at.
Emptying == emptied' = IF lp_supply > 0 /\ lp_supply' = 0 THEN emptied + 1 ELSE emptied

LEMMA LiveNatNext == IInv' => (LiveAssets \in Nat)'
  BY LiveNat, PTL

LEMMA QuoteKept ==
  ASSUME SInv, IInv', PricesKept, Emptying, NEW tx, tx.shares \in Nat, QuoteOk(tx, Chain)
  PROVE  QuoteOk(tx, Chain')
  <1> DEFINE q == tx.quote
             n == tx.shares
             s == lp_supply
             z == lp_supply'
             a == LiveAssets
             b == LiveAssets'
             bad == pool.bad_debt
             worse == pool'.bad_debt
  <1>1. /\ Chain.pool.bad_debt = bad /\ Chain.supply = s /\ Chain.assets = a
        /\ Chain.emptied = emptied
        /\ Chain'.pool.bad_debt = worse /\ Chain'.supply = z /\ Chain'.assets = b
        /\ Chain'.emptied = emptied'
    BY DEF Chain
  <1>2. /\ s \in Nat /\ z \in Nat /\ bad \in Nat /\ worse \in Nat /\ worse >= bad
        /\ emptied \in Nat /\ n \in Nat
    BY DEF SInv, IInv, TypeOK, PoolConfig, PricesKept
  <1>3. a \in Nat /\ b \in Nat
    BY LiveNat, LiveNatNext DEF SInv
  <1>4. s > 0 /\ worse = bad => b * s >= a * z
    BY DEF PricesKept, LivePriceKept
  <1>5. emptied' = IF s > 0 /\ z = 0 THEN emptied + 1 ELSE emptied
    BY DEF Emptying
  <1>6. /\ q \in Nat /\ tx.bad_debt \in Nat /\ tx.emptied \in Nat
        /\ tx.bad_debt <= bad /\ tx.emptied <= emptied
        /\ tx.bad_debt = bad /\ tx.emptied = emptied =>
             q = 0 \/ (s > 0 /\ q * s <= n * a)
    BY <1>1 DEF QuoteOk
  <1> HIDE DEF q, n, s, z, a, b, bad, worse
  <1>7. ASSUME s > 0, z > 0, q * s <= n * a, b * s >= a * z PROVE q * z <= n * b
    <2>1. (q * s) * z <= (n * a) * z
      BY <1>2, <1>3, <1>6, <1>7
    <2>2. n * (a * z) <= n * (b * s)
      BY <1>2, <1>3, <1>7
    <2>3. (q * z) * s <= (n * b) * s
      BY <1>2, <1>3, <1>6, <2>1, <2>2
    <2> QED BY <1>2, <1>3, <1>6, <1>7, <2>3
  <1>8. tx.bad_debt <= worse /\ tx.emptied <= emptied'
    BY <1>2, <1>5, <1>6
  <1>9. ASSUME tx.bad_debt = worse, tx.emptied = emptied', q # 0
        PROVE  z > 0 /\ q * z <= n * b
    <2>1. tx.bad_debt = bad /\ worse = bad /\ tx.emptied = emptied /\ emptied' = emptied
      BY <1>2, <1>5, <1>6, <1>9
    <2>2. s > 0 /\ q * s <= n * a /\ z > 0
      BY <1>2, <1>5, <1>6, <1>9, <2>1
    <2> QED BY <1>4, <1>7, <2>1, <2>2
  <1> QED BY <1>1, <1>6, <1>8, <1>9 DEF QuoteOk, q, n, s, z, a, b, bad, worse

LEMMA TxKept ==
  ASSUME SInv, IInv', PricesKept, Emptying, NEW tx, TxOk(tx, Chain)
  PROVE  TxOk(tx, Chain')
  BY QuoteKept DEF TxOk

\* A tab keeps what it carries: aged when the chain moves, or as it is.
LEMMA TabKept ==
  ASSUME SInv, IInv', PricesKept, Emptying, NEW tab, TabOk(tab, Chain)
  PROVE  /\ TabOk(Aged(tab), Chain')
         /\ UNCHANGED <<now, books>> => TabOk(tab, Chain')
  <1>1. TxOk(tab.tx, Chain) => TxOk(tab.tx, Chain')
    BY TxKept
  <1>2. /\ Chain.pool = pool /\ Chain.now = now /\ Chain.vault = vault
        /\ Chain'.pool = pool' /\ Chain'.now = now' /\ Chain'.vault = vault'
    BY DEF Chain
  <1> DEFINE stale == [tab EXCEPT !.fresh = FALSE]
             read == [tab EXCEPT !.fresh = FALSE, !.offered = FALSE]
  <1>3. CASE tab = Idle
    BY <1>3, Zenon DEF TabOk, Aged, Idle, Reading
  <1>4. CASE tab.stage = "shown" /\ Has(tab, {"stage", "shows", "fresh"}) /\ PageOk(tab.shows)
    <2>1. Aged(tab) = stale
      BY <1>4 DEF Aged, Reading
    <2>2. stale.stage = "shown" /\ Has(stale, {"stage", "shows", "fresh"}) /\ stale.shows = tab.shows
      BY <1>4 DEF Has
    <2> HIDE DEF stale
    <2> QED BY <1>4, <2>1, <2>2 DEF TabOk
  <1>5. CASE tab.stage = "pool" /\ Has(tab, Asked) /\ ReadOk(tab, Chain)
    <2>1. Aged(tab) = read
      BY <1>5 DEF Aged, Reading
    <2>2. /\ read.stage = "pool" /\ Has(read, Asked) /\ read.req = tab.req
          /\ read.stored = tab.stored /\ read.clock = tab.clock /\ ~read.fresh
      BY <1>5 DEF Has, Asked
    <2> HIDE DEF read
    <2>3. ReadOk(read, Chain')
      BY <1>5, <2>2 DEF ReadOk
    <2>4. UNCHANGED <<now, books>> => ReadOk(tab, Chain')
      BY <1>2, <1>5 DEF ReadOk, books
    <2> QED BY <1>5, <2>1, <2>2, <2>3, <2>4 DEF TabOk
  <1>6. CASE /\ tab.stage = "vault" /\ Has(tab, Asked \cup {"idle"}) /\ ReadOk(tab, Chain)
             /\ tab.idle \in Nat /\ (tab.fresh => tab.idle = Chain.vault)
    <2>1. Aged(tab) = read
      BY <1>6 DEF Aged, Reading
    <2>2. /\ read.stage = "vault" /\ Has(read, Asked \cup {"idle"}) /\ read.req = tab.req
          /\ read.stored = tab.stored /\ read.clock = tab.clock /\ ~read.fresh
          /\ read.idle = tab.idle
      BY <1>6 DEF Has, Asked
    <2> HIDE DEF read
    <2>3. ReadOk(read, Chain')
      BY <1>6, <2>2 DEF ReadOk
    <2>4. UNCHANGED <<now, books>> => ReadOk(tab, Chain') /\ (tab.fresh => tab.idle = Chain'.vault)
      BY <1>2, <1>6 DEF ReadOk, books
    <2> QED BY <1>6, <2>1, <2>2, <2>3, <2>4 DEF TabOk
  <1>7. CASE tab.stage = "refused" /\ Has(tab, {"stage", "tx", "fresh", "why", "offered"})
    <2>1. Aged(tab) = read
      BY <1>7 DEF Aged, Reading
    <2>2. read.stage = "refused" /\ Has(read, {"stage", "tx", "fresh", "why", "offered"})
      BY <1>7 DEF Has
    <2> HIDE DEF read
    <2> QED BY <1>7, <2>1, <2>2 DEF TabOk
  <1>8. CASE tab.stage = "ready" /\ Has(tab, {"stage", "tx", "fresh"}) /\ TxOk(tab.tx, Chain)
    <2>1. Aged(tab) = stale
      BY <1>8 DEF Aged, Reading
    <2>2. stale.stage = "ready" /\ Has(stale, {"stage", "tx", "fresh"}) /\ stale.tx = tab.tx
      BY <1>8 DEF Has
    <2> HIDE DEF stale
    <2> QED BY <1>1, <1>8, <2>1, <2>2 DEF TabOk
  <1>9. CASE /\ tab.stage \in {"sent", "next"} /\ Has(tab, {"stage", "tx", "step"})
             /\ TxOk(tab.tx, Chain)
    <2>1. Aged(tab) = tab
      BY <1>9 DEF Aged, Reading
    <2> QED BY <1>1, <1>9, <2>1 DEF TabOk
  <1> QED BY <1>3, <1>4, <1>5, <1>6, <1>7, <1>8, <1>9 DEF TabOk

\* The page goes on to the next transaction of the same answer.
LEMMA ConfirmedKept ==
  ASSUME SInv, IInv', PricesKept, Emptying, NEW tab, TabOk(tab, Chain), tab.stage = "sent"
  PROVE  TabOk(Confirmed(tab), Chain')
  <1>1. Has(tab, {"stage", "tx", "step"}) /\ TxOk(tab.tx, Chain')
    BY TxKept DEF TabOk, Idle
  <1>2. ASSUME NEW step
        PROVE  LET on == [tab EXCEPT !.stage = "next", !.step = step]
               IN  /\ on.stage = "next" /\ Has(on, {"stage", "tx", "step"}) /\ on.tx = tab.tx
    BY <1>1 DEF Has
  <1>3. Confirmed(tab) = Idle \/ \E step : Confirmed(tab) = [tab EXCEPT !.stage = "next", !.step = step]
    BY DEF Confirmed
  <1> QED BY <1>1, <1>2, <1>3 DEF TabOk

-----------------------------------------------------------------------------
(* What the backend answers *)

LEMMA BorrowerReadTyped ==
  ASSUME SInv, NEW w \in Wallets
  PROVE  /\ w \in Borrowers /\ w \in Lenders
         /\ BorrowerRead(w).tier \in Tiers
         /\ BorrowerRead(w).largestRepaid \in Nat
  <1>1. w \in Borrowers /\ w \in Lenders /\ tier[w] \in Tiers
    BY PageAssumption DEF SInv
  <1>2. borrower_state[w].largest_repaid \in Nat
    BY <1>1 DEF SInv, IInv, TypeOK, BorrowerState
  <1>3. UNPROVEN \in Tiers
    BY DEF UNPROVEN, Tiers
  <1> QED BY <1>1, <1>2, <1>3 DEF BorrowerRead, readBorrower, parseBorrowerState, Restrict

LEMMA RoomInt ==
  ASSUME NEW borrowed \in Nat, NEW idle \in Nat
  PROVE  borrowRoom(borrowed, idle) \in Int
  BY DEF borrowRoom, Larger, MAX_BORROW_UTIL_BPS, BPS

\* What a read of the pool gives to work with, torn or whole.
LEMMA MarketTyped ==
  ASSUME NEW stored \in PoolConfig, NEW clock \in Nat, NEW idle \in Nat
  PROVE  LET m == Market(stored, clock, idle, NoFeeds)
         IN  /\ m.pool \in PoolConfig /\ m.idle = idle
             /\ m.pool.total_borrowed \in Nat
             /\ totalAssets(m.pool, m.idle) \in Int
             /\ DOMAIN m.collaterals \subseteq Mints
  <1> DEFINE m == Market(stored, clock, idle, NoFeeds)
  <1>1. m.pool = accrue(parsePool(stored), clock, idle) /\ m.idle = idle
    BY DEF Market
  <1>2. DOMAIN m.collaterals \subseteq Mints
    BY DEF Market
  <1> HIDE DEF m
  <1>3. m.pool \in PoolConfig /\ totalAssets(m.pool, m.idle) \in Int
    BY <1>1, ReadTyped
  <1>4. m.pool.total_borrowed \in Nat
    BY <1>3 DEF PoolConfig
  <1> QED BY <1>1, <1>2, <1>3, <1>4 DEF m

LEMMA PositionTyped ==
  ASSUME SInv, NEW w \in Wallets, NEW stored \in PoolConfig, NEW clock \in Nat,
         NEW idle \in Nat
  PROVE  LET m == Market(stored, clock, idle, NoFeeds)
             p == readPosition(m, w)
         IN  /\ p.shares = lp[w] /\ p.shares \in Nat /\ p.supply = lp_supply /\ p.supply \in Nat
             /\ p.assets = totalAssets(m.pool, m.idle) /\ p.assets \in Int
  BY MarketTyped, BorrowerReadTyped DEF readPosition, SInv, IInv, TypeOK

LEMMA SharesInt ==
  ASSUME NEW amount \in Int, NEW assets \in Int, NEW supply \in Nat
  PROVE  /\ assetsForShares(amount, assets, supply) \in Int
         /\ sharesForWithdraw(amount, assets, supply) \in Int
  <1>1. amount * supply \in Int /\ amount * assets \in Int
    OBVIOUS
  <1> QED BY <1>1, QuotientInt DEF assetsForShares, sharesForWithdraw

LEMMA PagesOk ==
  ASSUME SInv, NEW w \in Wallets
  PROVE  PageOk(BorrowPage(w)) /\ PageOk(PoolPage(w))
  <1> DEFINE m == Market(pool, now, vault, NoFeeds)
             of == BorrowerRead(w)
             p == readPosition(m, w)
  <1>1. pool \in PoolConfig /\ now \in Nat /\ vault \in Nat
    BY DEF SInv, IInv, TypeOK
  <1>2. /\ m.pool.total_borrowed \in Nat /\ m.idle = vault
        /\ DOMAIN m.collaterals \subseteq Mints
    BY <1>1, MarketTyped
  <1>3. of.tier \in Tiers /\ of.largestRepaid \in Nat
    BY BorrowerReadTyped
  <1>4. p.shares \in Nat /\ p.supply \in Nat /\ p.assets \in Int
    BY <1>1, PositionTyped
  <1> HIDE DEF m, of, p
  <1>5. PageOk(BorrowPage(w))
    <2> DEFINE limit == maxLoan(of.tier, of.largestRepaid)
               room == borrowRoom(m.pool.total_borrowed, m.idle)
               offered == {c \in DOMAIN m.collaterals : m.collaterals[c].config.min_tier <= of.tier}
    <2>1. limit \in Int /\ room \in Int
      BY <1>1, <1>2, <1>3, LoanLimitNat, RoomInt
    <2>2. /\ BorrowPage(w).page = "borrow" /\ BorrowPage(w).wallet = w
          /\ BorrowPage(w).maxLoan = Smaller(limit, room)
          /\ BorrowPage(w).collaterals = offered
      BY DEF BorrowPage, getLoansView, m, of
    <2>3. offered \subseteq Mints
      BY <1>2
    <2> HIDE DEF limit, room, offered
    <2>4. Smaller(limit, room) \in Int
      BY <2>1 DEF Smaller
    <2> QED BY <2>2, <2>3, <2>4 DEF PageOk
  <1>6. PageOk(PoolPage(w))
    <2> DEFINE value == assetsForShares(p.shares, p.assets, p.supply)
    <2>1. value \in Int
      <3>1. p.shares \in Int
        BY <1>4
      <3> QED BY <1>4, <3>1, SharesInt
    <2>2. /\ PoolPage(w).page = "pool" /\ PoolPage(w).wallet = w
          /\ PoolPage(w).withdrawable = Smaller(value, m.idle)
      BY DEF PoolPage, getLenderView, m, p
    <2> HIDE DEF value
    <2>3. Smaller(value, m.idle) \in Int
      BY <1>1, <1>2, <2>1 DEF Smaller
    <2> QED BY <2>2, <2>3 DEF PageOk
  <1> QED BY <1>5, <1>6

LEMMA MinCollateralNat ==
  ASSUME NEW loan \in Nat, NEW ratio \in Nat, NEW price \in Nat, price > 0
  PROVE  minCollateral(loan, ratio, price) \in Nat
  <1> DEFINE needed == (loan * ratio + BPS - 1) \div BPS
             per == price * PRICE_MUL
  <1>1. per \in Nat \ {0} /\ PRICE_DIV \in Nat
    BY ScaleAssumption
  <1>2. needed \in Nat
    <2>1. loan * ratio \in Nat
      OBVIOUS
    <2>2. loan * ratio + BPS - 1 \in Nat /\ BPS \in Nat \ {0}
      BY <2>1 DEF BPS
    <2> QED BY <2>2, DivBounds
  <1> HIDE DEF needed, per
  <1>3. needed * PRICE_DIV \in Nat
    BY <1>1, <1>2
  <1>4. needed * PRICE_DIV + per - 1 \in Nat
    BY <1>1, <1>3
  <1>5. (needed * PRICE_DIV + per - 1) \div per \in Nat
    BY <1>1, <1>4, DivBounds
  <1> QED BY <1>5 DEF minCollateral, needed, per

LEMMA BorrowAnswer ==
  ASSUME SInv, NEW tab, ReadOk(tab, Chain), tab.req.kind = "borrow",
         NEW u \in PriceUpdates
  PROVE  TxOk(prepareBorrow(tab, u).tx, Chain)
  <1> DEFINE req == tab.req
             w == req.wallet
             b == BorrowerRead(w)
             minimum == minCollateral(req.amount, TierCollateralBps[b.tier], LowPrice(u))
             posted == IF req.posted = Null
                       THEN (minimum * (BPS + COLLATERAL_BUFFER_BPS)) \div BPS ELSE req.posted
             tx == prepareBorrow(tab, u).tx
  <1>1. /\ w \in Wallets /\ req.amount \in Nat /\ req.mint \in Mints
        /\ req.posted \in Nat \cup {Null}
    BY DEF ReadOk, ReqOk
  <1>2. /\ tx.kind = "borrow" /\ tx.wallet = w /\ tx.amount = req.amount
        /\ tx.mint = req.mint /\ tx.posted = posted /\ tx.update = u
    BY DEF prepareBorrow, Reply
  <1>3. b.tier \in Tiers
    BY <1>1, BorrowerReadTyped
  <1>4. TierCollateralBps[b.tier] \in Nat
    BY <1>3 DEF TierCollateralBps, Tiers
  <1>5. LowPrice(u) \in Int
    BY InputAssumption DEF LowPrice
  <1> HIDE DEF tx
  <1>6. ASSUME LowPrice(u) > 0 PROVE posted \in Nat
    <2>1. LowPrice(u) \in Nat
      BY <1>5, <1>6
    <2> HIDE DEF b
    <2>2. minimum \in Nat
      BY <1>1, <1>4, <1>6, <2>1, MinCollateralNat DEF b
    <2> HIDE DEF minimum
    <2>3. minimum * (BPS + COLLATERAL_BUFFER_BPS) \in Nat
      BY <2>2, PageAssumption DEF BPS
    <2>4. (minimum * (BPS + COLLATERAL_BUFFER_BPS)) \div BPS \in Nat
      BY <2>3, DivBounds DEF BPS
    <2> QED BY <1>1, <2>4
  <1> HIDE DEF posted
  <1> QED BY <1>1, <1>2, <1>6 DEF TxOk, tx

\* A whole quote is what the shares bring by the books as they are.
LEMMA WithdrawAnswer ==
  ASSUME SInv, NEW tab, ReadOk(tab, Chain), tab.req.kind = "withdraw",
         tab.idle \in Nat, tab.fresh => tab.idle = Chain.vault,
         prepareWithdraw(tab).refused = "no"
  PROVE  TxOk(prepareWithdraw(tab).tx, Chain)
  <1> DEFINE req == tab.req
             m == Market(tab.stored, tab.clock, tab.idle, NoFeeds)
             p == readPosition(m, req.wallet)
             burned == IF req.amount = ALL THEN p.shares
                       ELSE sharesForWithdraw(req.amount, p.assets, p.supply)
             payout == assetsForShares(burned, p.assets, p.supply)
             tx == prepareWithdraw(tab).tx
  <1>1. req.wallet \in Wallets /\ req.amount \in Nat \cup {ALL}
        /\ tab.stored \in PoolConfig /\ tab.clock \in Nat
    BY DEF ReadOk, ReqOk
  <1>2. /\ p.shares \in Nat /\ p.supply = lp_supply /\ p.supply \in Nat
        /\ p.assets = totalAssets(m.pool, m.idle) /\ p.assets \in Int
    BY <1>1, PositionTyped
  <1>3. /\ tx.kind = "withdraw" /\ tx.wallet = req.wallet /\ tx.shares = burned
        /\ tx.quote = payout /\ tx.whole = tab.fresh /\ tx.bad_debt = pool.bad_debt
        /\ tx.emptied = emptied
    BY DEF prepareWithdraw, Reply, MarketOf
  <1>4. ~(burned <= 0)
    BY DEF prepareWithdraw, Reply, MarketOf
  <1>5. ASSUME tab.fresh PROVE p.assets = LiveAssets
    <2>1. tab.stored = pool /\ tab.clock = now /\ tab.idle = vault
      BY <1>5 DEF ReadOk, Chain
    <2>2. m = Market(pool, now, vault, NoFeeds)
      BY <2>1
    <2>3. m.pool = Accrued(pool, vault) /\ m.idle = vault
      <3>1. IInv
        BY DEF SInv
      <3>2. Market(pool, now, vault, NoFeeds).idle = vault
        BY DEF Market
      <3> HIDE DEF m
      <3> QED BY <2>2, <3>1, <3>2, ReadIsProgram
    <2> HIDE DEF m
    <2> QED BY <1>2, <2>3, ReadIsProgram DEF SInv
  <1> HIDE DEF m, p
  <1>6. burned \in Int
    <2>1. ASSUME req.amount # ALL
          PROVE  sharesForWithdraw(req.amount, p.assets, p.supply) \in Int
      <3>1. req.amount \in Int
        BY <1>1, <2>1
      <3> HIDE DEF req
      <3> QED BY <1>2, <3>1, SharesInt
    <2> QED BY <1>2, <2>1
  <1>7. burned \in Nat
    BY <1>4, <1>6
  <1> HIDE DEF burned, tx
  <1>8. ASSUME tab.fresh PROVE QuoteOk(tx, Chain)
    <2>1. LiveAssets \in Nat /\ lp_supply \in Nat /\ pool.bad_debt \in Nat /\ emptied \in Nat
      BY LiveNat DEF SInv, IInv, TypeOK, PoolConfig
    <2>2. payout = IF lp_supply = 0 THEN 0 ELSE Quotient(burned * LiveAssets, lp_supply)
      BY <1>2, <1>5, <1>8 DEF assetsForShares
    <2>3. burned * LiveAssets \in Nat
      BY <1>7, <2>1
    <2>4. lp_supply # 0 => Quotient(burned * LiveAssets, lp_supply)
                             = (burned * LiveAssets) \div lp_supply
      BY <2>1, <2>3, QuotientInt
    <2>5. lp_supply # 0 => /\ (burned * LiveAssets) \div lp_supply \in Nat
                           /\ ((burned * LiveAssets) \div lp_supply) * lp_supply <= burned * LiveAssets
      BY <2>1, <2>3, DivBounds
    <2> HIDE DEF payout
    <2>6. /\ payout \in Nat
          /\ payout = 0 \/ (lp_supply > 0 /\ payout * lp_supply <= burned * LiveAssets)
      BY <2>1, <2>2, <2>4, <2>5
    <2>7. /\ Chain.pool.bad_debt = pool.bad_debt /\ Chain.emptied = emptied
          /\ Chain.supply = lp_supply /\ Chain.assets = LiveAssets
      BY DEF Chain
    <2>8. pool.bad_debt <= pool.bad_debt /\ emptied <= emptied
      BY <2>1
    <2> QED BY <1>3, <2>1, <2>6, <2>7, <2>8 DEF QuoteOk
  <1> HIDE DEF payout
  <1> QED BY <1>1, <1>3, <1>7, <1>8 DEF TxOk, tx

LEMMA AnswersOk ==
  ASSUME SInv, NEW tab, TabOk(tab, Chain), tab.stage = "vault",
         NEW r \in Replies(tab), r.refused = "no"
  PROVE  TxOk(r.tx, Chain)
  <1>1. /\ ReadOk(tab, Chain) /\ tab.idle \in Nat /\ (tab.fresh => tab.idle = Chain.vault)
    BY DEF TabOk, Idle
  <1>2. ReqOk(tab.req)
    BY <1>1 DEF ReadOk
  <1>3. CASE tab.req.kind = "borrow"
    <2>1. \E u \in PriceUpdates : r = prepareBorrow(tab, u)
      BY <1>3 DEF Replies, LatestUpdates
    <2> QED BY <1>1, <1>3, <2>1, BorrowAnswer
  <1>4. CASE tab.req.kind = "repay"
    <2>1. r = prepareRepay(tab)
      BY <1>4 DEF Replies
    <2>2. r.tx.kind = "repay" /\ r.tx.wallet = tab.req.wallet
      BY <2>1 DEF prepareRepay, Reply
    <2> QED BY <1>2, <2>2 DEF ReqOk, TxOk
  <1>5. CASE tab.req.kind = "deposit"
    <2>1. r = prepareDeposit(tab)
      BY <1>5 DEF Replies
    <2>2. /\ r.tx.kind = "deposit" /\ r.tx.wallet = tab.req.wallet
          /\ r.tx.amount = tab.req.amount
      BY <2>1 DEF prepareDeposit, Reply
    <2> QED BY <1>2, <1>5, <2>2 DEF ReqOk, TxOk
  <1>6. CASE tab.req.kind = "withdraw"
    <2>1. r = prepareWithdraw(tab)
      BY <1>6 DEF Replies
    <2> QED BY <1>1, <1>6, <2>1, WithdrawAnswer
  <1> QED BY <1>2, <1>3, <1>4, <1>5, <1>6 DEF ReqOk

-----------------------------------------------------------------------------
(* The steps of a tab: the chain stands still, one tab moves on, and what is *)
(* sent is what the tab carries.                                             *)

TabMoves ==
  /\ Around
  /\ \E t \in Tabs : \E tab : TabOk(tab, Chain) /\ Set(t, tab)
  /\ \A n \in network' : n \in network \/ TxOk(n.tx, Chain)

LEMMA LoadOk ==
  ASSUME SInv, NEW t \in Tabs, NEW w \in Wallets, Load(t, w)
  PROVE  TabMoves
  <1>1. PICK page \in {BorrowPage(w), PoolPage(w)} :
          Set(t, [stage |-> "shown", shows |-> page, fresh |-> TRUE])
    BY DEF Load
  <1>2. PageOk(page)
    BY <1>1, PagesOk
  <1> DEFINE tab == [stage |-> "shown", shows |-> page, fresh |-> TRUE]
  <1>3. tab.stage = "shown" /\ Has(tab, {"stage", "shows", "fresh"}) /\ tab.shows = page
    BY DEF Has
  <1> HIDE DEF tab
  <1>4. TabOk(tab, Chain)
    BY <1>2, <1>3 DEF TabOk
  <1>5. Set(t, tab) /\ Around /\ network' = network
    BY <1>1 DEF Load, tab
  <1> QED BY <1>4, <1>5 DEF TabMoves

LEMMA AskOk ==
  ASSUME SInv, NEW t \in Tabs, NEW offered, NEW req, ReqOk(req), Ask(t, offered, req)
  PROVE  TabMoves
  <1> DEFINE tab == [stage |-> "pool", req |-> req, flow |-> requests', fresh |-> TRUE,
                     offered |-> offered /\ tabs[t].fresh, stored |-> pool, clock |-> now]
  <1>1. Set(t, tab) /\ Around /\ network' = network
    BY DEF Ask
  <1>2. /\ tab.stage = "pool" /\ tab.req = req /\ tab.stored = pool /\ tab.clock = now
        /\ Has(tab, Asked)
    BY DEF Has, Asked
  <1> HIDE DEF tab
  <1>3. pool \in PoolConfig /\ now \in Nat /\ Chain.pool = pool /\ Chain.now = now
    BY DEF SInv, IInv, TypeOK, Chain
  <1>4. TabOk(tab, Chain)
    BY <1>2, <1>3 DEF TabOk, ReadOk
  <1> QED BY <1>1, <1>4 DEF TabMoves

LEMMA ShownOk ==
  ASSUME SInv, NEW t \in Tabs, NEW page, Shown(t, page)
  PROVE  PageOk(tabs[t].shows) /\ tabs[t].shows.page = page
  BY DEF SInv, TabOk, Shown, Idle

LEMMA RequestOk ==
  ASSUME SInv, NEW t \in Tabs, borrow(t) \/ repay(t) \/ submit(t)
  PROVE  TabMoves
  <1> DEFINE o == tabs[t].shows
  <1>1. CASE borrow(t)
    <2>1. PageOk(o) /\ o.page = "borrow"
      BY <1>1, ShownOk DEF borrow
    <2>2. PICK m \in o.collaterals, amount \in Typed.borrow \cup {o.maxLoan} :
            /\ amount > 0 /\ amount <= o.maxLoan
            /\ \E posted \in Typed.collateral[m] \cup {Null} :
                 Ask(t, posted = Null, [kind |-> "borrow", wallet |-> o.wallet,
                                        amount |-> amount, mint |-> m, posted |-> posted])
      BY <1>1, Zenon DEF borrow
    <2>3. PICK posted \in Typed.collateral[m] \cup {Null} :
            Ask(t, posted = Null, [kind |-> "borrow", wallet |-> o.wallet,
                                   amount |-> amount, mint |-> m, posted |-> posted])
      BY <2>2
    <2>4. /\ o.wallet \in Wallets /\ m \in Mints /\ o.maxLoan \in Int
          /\ posted \in Nat \cup {Null}
      BY <2>1, PageAssumption DEF PageOk
    <2>5. amount \in Nat
      BY <2>2, <2>4, PageAssumption
    <2> DEFINE req == [kind |-> "borrow", wallet |-> o.wallet,
                       amount |-> amount, mint |-> m, posted |-> posted]
    <2>6. ReqOk(req)
      <3> HIDE DEF o
      <3> QED BY <2>4, <2>5 DEF ReqOk
    <2> HIDE DEF req
    <2> QED BY <2>3, <2>6, AskOk DEF req
  <1>2. CASE repay(t)
    <2>1. PageOk(o)
      BY <1>2, ShownOk DEF repay
    <2>2. PICK id \in o.loans : Ask(t, TRUE, [kind |-> "repay", wallet |-> o.wallet, loanId |-> id])
      BY <1>2 DEF repay
    <2> DEFINE req == [kind |-> "repay", wallet |-> o.wallet, loanId |-> id]
    <2>3. ReqOk(req)
      <3> HIDE DEF o
      <3> QED BY <2>1 DEF ReqOk, PageOk
    <2> HIDE DEF req
    <2> QED BY <2>2, <2>3, AskOk DEF req
  <1>3. CASE submit(t)
    <2> DEFINE max == IF o.everyShareCanLeave THEN ALL ELSE o.withdrawable
               request(kind, amount) == [kind |-> kind, wallet |-> o.wallet, amount |-> amount]
    <2>1. PageOk(o) /\ o.page = "pool"
      BY <1>3, ShownOk DEF submit
    <2>2. \/ \E amount \in Typed.deposit : Ask(t, FALSE, request("deposit", amount))
          \/ o.withdrawable > 0 /\ Ask(t, TRUE, request("withdraw", max))
          \/ \E amount \in Typed.withdraw : Ask(t, FALSE, request("withdraw", amount))
      BY <1>3, Zenon DEF submit
    <2>3. o.wallet \in Wallets /\ o.withdrawable \in Int
      BY <2>1 DEF PageOk
    <2>4. ASSUME NEW amount, NEW kind,
                 \/ kind = "deposit" /\ amount \in Nat
                 \/ kind = "withdraw" /\ amount \in Nat \cup {ALL}
          PROVE  ReqOk(request(kind, amount))
      <3> HIDE DEF o
      <3> QED BY <2>3, <2>4 DEF ReqOk
    <2> HIDE DEF request
    <2>5. ASSUME NEW amount \in Typed.deposit, Ask(t, FALSE, request("deposit", amount))
          PROVE  TabMoves
      BY <2>4, <2>5, PageAssumption, AskOk
    <2>6. ASSUME o.withdrawable > 0, Ask(t, TRUE, request("withdraw", max)) PROVE TabMoves
      <3>1. max \in Nat \cup {ALL}
        BY <2>3, <2>6
      <3> HIDE DEF max
      <3> QED BY <2>4, <2>6, <3>1, AskOk
    <2>7. ASSUME NEW amount \in Typed.withdraw, Ask(t, FALSE, request("withdraw", amount))
          PROVE  TabMoves
      BY <2>4, <2>7, PageAssumption, AskOk
    <2> QED BY <2>2, <2>5, <2>6, <2>7
  <1> QED BY <1>1, <1>2, <1>3

LEMMA ReadVaultOk ==
  ASSUME SInv, NEW t \in Tabs, ReadVault(t)
  PROVE  TabMoves
  <1> DEFINE old == tabs[t]
             tab == [req |-> old.req, flow |-> old.flow, fresh |-> old.fresh,
                     offered |-> old.offered, stored |-> old.stored, clock |-> old.clock,
                     stage |-> "vault", idle |-> vault]
  <1>1. Set(t, tab) /\ Around /\ network' = network
    BY DEF ReadVault
  <1>2. ReadOk(old, Chain)
    BY DEF ReadVault, SInv, TabOk, Idle
  <1>3. /\ tab.stage = "vault" /\ tab.req = old.req /\ tab.stored = old.stored
        /\ tab.clock = old.clock /\ tab.fresh = old.fresh /\ tab.idle = vault
        /\ Has(tab, Asked \cup {"idle"})
    BY DEF Has, Asked
  <1>4. vault \in Nat /\ Chain.vault = vault
    BY DEF SInv, IInv, TypeOK, Chain
  <1> HIDE DEF tab, old
  <1>5. ReadOk(tab, Chain)
    BY <1>2, <1>3 DEF ReadOk
  <1>6. TabOk(tab, Chain)
    BY <1>3, <1>4, <1>5 DEF TabOk
  <1> QED BY <1>1, <1>6 DEF TabMoves

LEMMA AnswerOk ==
  ASSUME SInv, NEW t \in Tabs, Answer(t)
  PROVE  TabMoves
  <1>1. PICK r \in Replies(tabs[t]) : Set(t, Answered(tabs[t], r))
    BY DEF Answer
  <1>2. Around /\ network' = network /\ tabs[t].stage = "vault" /\ TabOk(tabs[t], Chain)
    BY DEF Answer, SInv
  <1> DEFINE tab == Answered(tabs[t], r)
  <1>3. TabOk(tab, Chain)
    <2>1. CASE r.refused = "no"
      <3>1. TxOk(r.tx, Chain)
        BY <1>2, <2>1, AnswersOk
      <3>2. tab.stage = "ready" /\ tab.tx = r.tx /\ Has(tab, {"stage", "tx", "fresh"})
        BY <2>1 DEF Answered, Has
      <3> HIDE DEF tab
      <3> QED BY <3>1, <3>2 DEF TabOk
    <2>2. CASE r.refused # "no"
      <3>1. tab.stage = "refused" /\ Has(tab, {"stage", "tx", "fresh", "why", "offered"})
        BY <2>2 DEF Answered, Has
      <3> HIDE DEF tab
      <3> QED BY <3>1 DEF TabOk
    <2> QED BY <2>1, <2>2
  <1> HIDE DEF tab
  <1> QED BY <1>1, <1>2, <1>3 DEF TabMoves, tab

LEMMA SendOk ==
  ASSUME SInv, NEW t \in Tabs, Send(t)
  PROVE  TabMoves
  <1> DEFINE step == IF tabs[t].stage = "next" THEN tabs[t].step
                     ELSE Transactions(tabs[t].tx)[1]
             tab == [stage |-> "sent", tx |-> tabs[t].tx, step |-> step]
             n == [tx |-> tabs[t].tx, step |-> step]
  <1>1. Set(t, tab) /\ network' = network \cup {n} /\ Around
    BY DEF Send
  <1>2. TxOk(tabs[t].tx, Chain)
    BY DEF Send, SInv, TabOk, Idle
  <1> HIDE DEF step
  <1>3. tab.stage = "sent" /\ tab.tx = tabs[t].tx /\ Has(tab, {"stage", "tx", "step"})
        /\ n.tx = tabs[t].tx
    BY DEF Has
  <1> HIDE DEF tab, n
  <1>4. TabOk(tab, Chain)
    BY <1>2, <1>3 DEF TabOk
  <1> QED BY <1>1, <1>2, <1>3, <1>4 DEF TabMoves

LEMMA ServiceStepMoves ==
  ASSUME SInv, ServiceStep
  PROVE  TabMoves
  <1>1. PICK t \in Tabs :
          \/ \E w \in Wallets : Load(t, w)
          \/ borrow(t) \/ repay(t) \/ submit(t)
          \/ ReadVault(t) \/ Answer(t) \/ Break(t) \/ Send(t) \/ GiveUp(t)
    BY DEF ServiceStep
  <1>2. CASE Break(t) \/ GiveUp(t)
    <2>1. Set(t, Idle) /\ Around /\ network' = network
      BY <1>2 DEF Break, GiveUp
    <2>2. TabOk(Idle, Chain)
      BY DEF TabOk
    <2> QED BY <2>1, <2>2 DEF TabMoves
  <1> QED BY <1>1, <1>2, LoadOk, RequestOk, ReadVaultOk, AnswerOk, SendOk

-----------------------------------------------------------------------------
(* What the chain does meanwhile: nothing, a step of the pool, or a tick.   *)

LEMMA ActIsUserStep ==
  ASSUME SInv, NEW tx, TxOk(tx, Chain), Act(tx)
  PROVE  UserStep /\ tier' = tier
  <1> SUFFICES UserStep
    BY DEF Act
  <1>1. tx.wallet \in Borrowers /\ tx.wallet \in Lenders /\ tier[tx.wallet] \in Tiers
        /\ UNPROVEN \in Tiers
    BY PageAssumption DEF SInv, TxOk, UNPROVEN, Tiers
  <1>2. CASE tx.kind = "borrow" /\ LandBorrow(tx)
    <2> DEFINE standing == IF tx.init THEN UNPROVEN ELSE tier[tx.wallet]
    <2>1. Borrow(tx.wallet, standing, tx.amount, tx.mint, tx.posted, tx.update)
      BY <1>2 DEF LandBorrow
    <2>2. standing \in Tiers
      BY <1>1
    <2> HIDE DEF standing
    <2>3. LowPrice(tx.update) > 0
      BY <2>1 DEF Borrow, UsablePrice
    <2>4. tx.amount \in Nat /\ tx.mint \in Mints /\ tx.posted \in Nat /\ tx.update \in PriceUpdates
      BY <1>2, <2>3 DEF TxOk
    <2> QED BY <1>1, <2>1, <2>2, <2>4 DEF UserStep
  <1>3. CASE tx.kind = "repay" /\ LandRepay(tx)
    BY <1>3 DEF LandRepay, LoanAt, UserStep
  <1>4. CASE tx.kind = "deposit" /\ LandDeposit(tx)
    BY <1>1, <1>4 DEF LandDeposit, UserStep, TxOk
  <1>5. CASE tx.kind = "withdraw" /\ LandWithdraw(tx)
    BY <1>1, <1>5 DEF LandWithdraw, UserStep, TxOk
  <1> QED BY <1>2, <1>3, <1>4, <1>5 DEF Act

LEMMA OthersAreUsers ==
  ASSUME SInv, OthersStep
  PROVE  UserStep /\ tier' = tier
  <1> SUFFICES UserStep
    BY DEF OthersStep, Liquidated, wallet
  <1>2. ASSUME NEW b \in Borrowers \ Wallets, NEW t \in Standings, NEW amount \in LoanAmounts,
               NEW m \in Mints, NEW posted \in CollateralAmounts, NEW update \in PriceUpdates,
               Borrow(b, t, amount, m, posted, update)
        PROVE  UserStep
    <2>1. t \in Tiers /\ amount \in Nat /\ posted \in Nat
      BY InputAssumption
    <2> QED BY <1>2, <2>1 DEF UserStep
  <1>3. ASSUME NEW lender \in Lenders \ Wallets,
               \/ \E amount \in DepositAmounts : Deposit(lender, amount)
               \/ \E burned \in ShareAmounts : Withdraw(lender, burned)
        PROVE  UserStep
    BY <1>3, InputAssumption DEF UserStep
  <1>4. ASSUME NEW l \in loans, Repay(l) \/ \E update \in PriceUpdates : Liquidate(l, update)
        PROVE  UserStep
    BY <1>4 DEF UserStep
  <1>5. CASE AccrueInterest
    BY <1>5 DEF UserStep
  <1>6. ASSUME NEW l \in loans, Liquidated(l)
        PROVE  UserStep
    BY <1>4, <1>6 DEF Liquidated
  <1> QED BY <1>2, <1>3, <1>4, <1>5, <1>6 DEF OthersStep

\* What a step other than a tab's own does.
ChainMoves == UNCHANGED vars \/ UserStep \/ Tick

LEMMA ChainStep ==
  ASSUME SInv, ServiceNext
  PROVE  ChainMoves /\ Emptying /\ tier' \in [Wallets -> Tiers]
  <1> SUFFICES ChainMoves /\ tier' \in [Wallets -> Tiers]
    BY DEF ServiceNext, Emptying
  <1>2. tier \in [Wallets -> Tiers]
    BY DEF SInv
  <1>3. CASE ServiceStep
    BY <1>2, <1>3, ServiceStepMoves DEF TabMoves, Around, wallet, ChainMoves
  <1>4. CASE NetworkStep
    <2>1. PICK n \in network : Land(n) \/ Lose(n)
      BY <1>4 DEF NetworkStep
    <2>2. CASE Lose(n)
      BY <1>2, <2>2 DEF Lose, Around, wallet, ChainMoves
    <2>3. CASE Land(n)
      <3>1. UNCHANGED <<vars, wallet>> \/ Act(n.tx)
        BY <2>3 DEF Land
      <3>2. TxOk(n.tx, Chain)
        BY DEF SInv
      <3> QED BY <1>2, <3>1, <3>2, ActIsUserStep DEF wallet, ChainMoves
    <2> QED BY <2>1, <2>2, <2>3
  <1>5. CASE Meanwhile
    <2>1. CASE OthersStep
      BY <1>2, <2>1, OthersAreUsers DEF ChainMoves
    <2>2. CASE \E w \in Wallets : WalletStep(w)
      <3>1. PICK w \in Wallets : WalletStep(w)
        BY <2>2
      <3>2. UNCHANGED vars
        BY <3>1 DEF WalletStep
      <3>3. tier' = tier \/ \E s \in Tiers : tier' = [tier EXCEPT ![w] = s]
        BY <3>1, InputAssumption DEF WalletStep
      <3> QED BY <1>2, <3>2, <3>3 DEF ChainMoves
    <2>3. CASE Tick /\ UNCHANGED <<wallet, events>>
      BY <1>2, <2>3 DEF wallet, ChainMoves
    <2> QED BY <1>5, <2>1, <2>2, <2>3 DEF Meanwhile
  <1> QED BY <1>3, <1>4, <1>5 DEF ServiceNext

LEMMA ChainKept ==
  ASSUME SInv, ChainMoves
  PROVE  IInv' /\ PricesKept /\ Accounts'
  <1>1. IInv /\ Accounts
    BY DEF SInv
  <1>2. CASE UNCHANGED vars
    <2>1. UNCHANGED lending /\ pool' = pool
      BY <1>2 DEF vars, books
    <2> QED BY <1>1, <1>2, <2>1, StutterSound, AccrualKeepsAccounts
  <1>3. CASE UserStep
    BY <1>1, <1>3, UserStepSound, UserStepAccounts
  <1>4. CASE Tick
    <2>1. UNCHANGED lending /\ pool' = pool
      BY <1>4 DEF Tick, books
    <2> QED BY <1>1, <1>4, <2>1, TickSound, AccrualKeepsAccounts
  <1> QED BY <1>2, <1>3, <1>4 DEF ChainMoves

-----------------------------------------------------------------------------
(* The invariant is inductive *)

LEMMA InitOk ==
  ASSUME IInv, Accounts, ServiceInit
  PROVE  SInv
  <1>1. tier \in [Wallets -> Tiers] /\ emptied \in Nat /\ network = {}
    BY InputAssumption DEF ServiceInit
  <1>2. Has(tabs, Tabs) /\ \A t \in Tabs : tabs[t] = Idle
    BY DEF ServiceInit, Has
  <1> QED BY <1>1, <1>2 DEF SInv, TabOk

LEMMA TabsKept ==
  ASSUME SInv, IInv', PricesKept, ServiceNext, Emptying
  PROVE  Has(tabs', Tabs) /\ \A t \in Tabs : TabOk(tabs'[t], Chain')
  <1>1. Has(tabs, Tabs) /\ \A t \in Tabs : TabOk(tabs[t], Chain)
    BY DEF SInv
  <1>2. \A t \in Tabs : TabOk(Aged(tabs[t]), Chain')
    BY <1>1, TabKept
  <1>3. UNCHANGED <<now, books>> => \A t \in Tabs : TabOk(tabs[t], Chain')
    BY <1>1, TabKept
  <1>4. TabOk(Idle, Chain')
    BY DEF TabOk
  <1>5. CASE TabMoves
    <2> PICK t \in Tabs : \E tab : TabOk(tab, Chain) /\ Set(t, tab)
      BY <1>5 DEF TabMoves
    <2>1. PICK tab : TabOk(tab, Chain) /\ Set(t, tab)
      OBVIOUS
    <2>2. UNCHANGED <<now, books>>
      BY <1>5 DEF TabMoves, Around, vars
    <2>3. TabOk(tab, Chain')
      BY <2>1, <2>2, TabKept
    <2>4. Has(tabs', Tabs) /\ tabs'[t] = tab /\ \A u \in Tabs \ {t} : tabs'[u] = tabs[u]
      BY <1>1, <2>1 DEF Set, Has
    <2> QED BY <1>3, <2>2, <2>3, <2>4
  <1>6. ASSUME NEW n \in network, Land(n)
        PROVE  Has(tabs', Tabs) /\ \A t \in Tabs : TabOk(tabs'[t], Chain')
    <2>1. tabs' = [t \in Tabs |-> IF Awaits(t, n) THEN Confirmed(tabs[t]) ELSE Aged(tabs[t])]
      BY <1>6 DEF Land
    <2>2. ASSUME NEW t \in Tabs, Awaits(t, n)
          PROVE  TabOk(Confirmed(tabs[t]), Chain')
      BY <1>1, <2>2, ConfirmedKept DEF Awaits
    <2> QED BY <1>2, <2>1, <2>2 DEF Has
  <1>7. ASSUME NEW n \in network, Lose(n)
        PROVE  Has(tabs', Tabs) /\ \A t \in Tabs : TabOk(tabs'[t], Chain')
    <2>1. tabs' = [t \in Tabs |-> IF Awaits(t, n) THEN Idle ELSE tabs[t]]
      BY <1>7 DEF Lose
    <2>2. UNCHANGED <<now, books>>
      BY <1>7 DEF Lose, Around, vars
    <2> QED BY <1>3, <1>4, <2>1, <2>2 DEF Has
  <1>8. CASE Meanwhile
    <2>1. tabs' = [t \in Tabs |-> Aged(tabs[t])]
      BY <1>8 DEF Meanwhile, AllAged
    <2> QED BY <1>2, <2>1 DEF Has
  <1> QED BY <1>5, <1>6, <1>7, <1>8, ServiceStepMoves DEF ServiceNext, NetworkStep

LEMMA NetworkKept ==
  ASSUME SInv, IInv', PricesKept, ServiceNext, Emptying
  PROVE  \A n \in network' : TxOk(n.tx, Chain')
  <1>1. \A n \in network' : n \in network \/ TxOk(n.tx, Chain)
    <2>1. CASE ServiceStep
      BY <2>1, ServiceStepMoves DEF TabMoves
    <2>2. CASE NetworkStep
      BY <2>2 DEF NetworkStep, Land, Lose
    <2>3. CASE Meanwhile
      BY <2>3 DEF Meanwhile
    <2> QED BY <2>1, <2>2, <2>3 DEF ServiceNext
  <1>2. \A n \in network : TxOk(n.tx, Chain)
    BY DEF SInv
  <1> QED BY <1>1, <1>2, TxKept

LEMMA SInvStep ==
  ASSUME SInv, [ServiceNext]_allVars
  PROVE  SInv'
  <1>1. CASE ServiceNext
    <2>1. ChainMoves /\ Emptying /\ tier' \in [Wallets -> Tiers]
      BY <1>1, ChainStep
    <2>2. IInv' /\ PricesKept /\ Accounts'
      BY <2>1, ChainKept
    <2>3. emptied' \in Nat
      BY <2>1 DEF Emptying, SInv
    <2>4. Has(tabs', Tabs) /\ \A t \in Tabs : TabOk(tabs'[t], Chain')
      BY <1>1, <2>1, <2>2, TabsKept
    <2>5. \A n \in network' : TxOk(n.tx, Chain')
      BY <1>1, <2>1, <2>2, NetworkKept
    <2> QED BY <2>1, <2>2, <2>3, <2>4, <2>5 DEF SInv
  <1>2. CASE UNCHANGED allVars
    <2>1. /\ UNCHANGED vars /\ tier' = tier /\ tabs' = tabs /\ network' = network
          /\ emptied' = emptied
      BY <1>2 DEF allVars, wallet, service
    <2>2. ChainMoves
      BY <2>1 DEF ChainMoves
    <2>3. IInv' /\ PricesKept /\ Accounts'
      BY <2>2, ChainKept
    <2>4. UNCHANGED <<now, books>> /\ lp_supply' = lp_supply
      BY <2>1 DEF vars, shares
    <2>5. Emptying
      BY <2>1, <2>4 DEF Emptying
    <2>6. \A t \in Tabs : TabOk(tabs[t], Chain')
      BY <2>3, <2>4, <2>5, TabKept DEF SInv
    <2>7. \A n \in network : TxOk(n.tx, Chain')
      BY <2>3, <2>5, TxKept DEF SInv
    <2> QED BY <2>1, <2>3, <2>6, <2>7 DEF SInv
  <1> QED BY <1>1, <1>2

-----------------------------------------------------------------------------
(* Theorems.  The pool a service is started over may be anywhere in its      *)
(* life: in any state that satisfies the pool's own invariants.              *)

ServiceSpec == IInv /\ Accounts /\ ServiceInit /\ [][ServiceNext]_allVars

\* Every tab and every signed transaction carries what SInv says, and the pool's
\* invariants hold under the service as they do under the pool's own Next.
THEOREM ServiceInductive == ServiceSpec => []SInv
  <1>1. IInv /\ Accounts /\ ServiceInit => SInv
    BY InitOk
  <1>2. SInv /\ [ServiceNext]_allVars => SInv'
    BY SInvStep
  <1> QED BY <1>1, <1>2, PTL DEF ServiceSpec

\* What the backend takes the pool to be, read in one piece, is what the program
\* accrues it to: the second implementation of the rates, the indexes and the
\* fees agrees with the first for every pool (state.ts, rates.rs, state.rs).
THEOREM ReadsAgree ==
  ServiceSpec => [](Market(pool, now, vault, NoFeeds).pool = Accrued(pool, vault))
  <1>1. SInv => Market(pool, now, vault, NoFeeds).pool = Accrued(pool, vault)
    BY ReadIsProgram DEF SInv
  <1> QED BY <1>1, ServiceInductive, PTL

\* Of what the network holds, only what lands or is lost leaves it.
LEMMA LeavesByLanding ==
  ASSUME SInv, ServiceNext, NEW n \in network \ network'
  PROVE  TxOk(n.tx, Chain) /\ (Land(n) \/ Lose(n))
  <1>1. TxOk(n.tx, Chain)
    BY DEF SInv
  <1>2. ~ServiceStep
    BY DEF ServiceStep, Load, borrow, repay, submit, Ask, ReadVault, Answer, Break, Send, GiveUp
  <1>3. ~Meanwhile
    BY DEF Meanwhile
  <1>4. PICK m \in network : Land(m) \/ Lose(m)
    BY <1>2, <1>3 DEF ServiceNext, NetworkStep
  <1>5. network' = network \ {m}
    BY <1>4 DEF Land, Lose
  <1> QED BY <1>1, <1>4, <1>5

LEMMA QuotePaid ==
  ASSUME SInv, ServiceNext, NEW n \in network \ network',
         n.tx.kind = "withdraw", n.tx.whole, lp' # lp,
         pool'.bad_debt = n.tx.bad_debt, emptied = n.tx.emptied
  PROVE  vault - vault' >= n.tx.quote
  <1> DEFINE w == n.tx.wallet
             burned == n.tx.shares
             quote == n.tx.quote
  <1>1. /\ TxOk(n.tx, Chain) /\ Land(n)
    BY LeavesByLanding DEF Lose, Around, vars, shares
  <1>2. Withdraw(w, burned)
    BY <1>1 DEF Land, vars, shares, Act, LandWithdraw
  <1>3. PICK p \in AccruedNow :
          LET paid == AssetsForShares(burned, TotalAssets(p, vault), lp_supply)
          IN  lp_supply > 0 /\ pool' = p /\ paid <= vault /\ vault' = vault - paid
    BY <1>2 DEF Withdraw
  <1>4. p = Accrued(pool, vault) /\ p.bad_debt = pool.bad_debt
    BY AccrueSound DEF AccruedNow, SInv, IInv
  <1> DEFINE paid == (burned * LiveAssets) \div lp_supply
  <1>5. vault' = vault - paid
    BY <1>3, <1>4 DEF AssetsForShares, LiveAssets
  <1>6. /\ LiveAssets \in Nat /\ lp_supply \in Nat \ {0} /\ vault \in Nat
    BY <1>3, LiveNat DEF SInv, IInv, TypeOK
  <1>7. burned \in Nat /\ QuoteOk(n.tx, Chain)
    BY <1>1 DEF TxOk
  <1>8. quote \in Nat /\ (quote = 0 \/ quote * lp_supply <= burned * LiveAssets)
    BY <1>3, <1>4, <1>7 DEF QuoteOk, Chain
  <1>9. burned * LiveAssets \in Nat
    BY <1>6, <1>7
  <1>10. paid \in Nat
    BY <1>6, <1>9, DivBounds
  <1>11. quote <= paid
    <2>1. CASE quote = 0
      BY <1>10, <2>1
    <2>2. CASE quote * lp_supply <= burned * LiveAssets
      BY <1>6, <1>8, <1>9, <2>2, DivLargest
    <2> QED BY <1>8, <2>1, <2>2
  <1> HIDE DEF paid, quote
  <1> QED BY <1>5, <1>6, <1>8, <1>10, <1>11 DEF quote

\* However late a prepared withdrawal lands, and whatever other users, the clock
\* and the other tabs did since, it pays at least its quote: each step keeps the
\* price a share has with the interest up to the clock, until a loss is written
\* off or the last share is burned (lender.ts prepareWithdraw, withdraw.rs).
THEOREM QuotesHold == ServiceSpec => QuoteHolds
  <1> DEFINE Paid(n) == /\ n.tx.kind = "withdraw" /\ n.tx.whole /\ lp' # lp
                        /\ pool'.bad_debt = n.tx.bad_debt /\ emptied = n.tx.emptied
                        => vault - vault' >= n.tx.quote
             AllPaid == \A n \in network \ network' : Paid(n)
  <1>1. SInv /\ [ServiceNext]_allVars => [AllPaid]_allVars
    BY QuotePaid
  <1> HIDE DEF AllPaid
  <1>2. ServiceSpec => [][AllPaid]_allVars
    BY <1>1, ServiceInductive, PTL DEF ServiceSpec
  <1> QED BY <1>2 DEF QuoteHolds, AllPaid

LEMMA LoanOpened ==
  ASSUME SInv, ServiceNext, NEW n \in network \ network',
         n.tx.kind = "borrow", loans' # loans
  PROVE  \E l \in loans' \ loans :
           /\ l.borrower = n.tx.wallet /\ l.loan_id = n.tx.loanId
           /\ LoanAt(n.tx.wallet, n.tx.loanId) = {}
  <1> DEFINE w == n.tx.wallet
             id == n.tx.loanId
             standing == IF n.tx.init THEN UNPROVEN ELSE tier[w]
  <1>1. Land(n)
    BY LeavesByLanding DEF Lose, Around, vars, lending
  <1>2. /\ id = borrower_state[w].next_loan_id
        /\ Borrow(w, standing, n.tx.amount, n.tx.mint, n.tx.posted, n.tx.update)
    BY <1>1 DEF Land, vars, lending, Act, LandBorrow, AddressIsNext
  <1>3. PICK p \in AccruedNow :
          loans' = loans \cup
            {[borrower |-> w, loan_id |-> borrower_state[w].next_loan_id,
              tier_at_open |-> standing, principal |-> n.tx.amount,
              scaled_debt |-> ScaledDebt(n.tx.amount, p.tier_index[standing]),
              collateral_mint |-> n.tx.mint, collateral_amount |-> n.tx.posted,
              opened_at |-> now, due_at |-> now + LOAN_TERM_SECS, status |-> OPEN]}
    BY <1>2 DEF Borrow
  <1>4. PICK l : loans' = loans \cup {l} /\ l.borrower = w /\ l.loan_id = id
    <2>1. id = borrower_state[w].next_loan_id
      BY <1>2
    <2> HIDE DEF w, id, standing
    <2> QED BY <1>3, <2>1
  <1>5. \A k \in loans : k.loan_id < borrower_state[k.borrower].next_loan_id
    BY DEF SInv, Accounts, LoansSound
  <1>6. id \in Nat
    BY <1>2, BorrowerReadTyped, LeavesByLanding DEF TxOk, SInv, IInv, TypeOK, BorrowerState
  <1>7. \A k \in loans : ~(k.borrower = w /\ k.loan_id = id)
    BY <1>2, <1>5, <1>6
  <1>8. l \notin loans /\ LoanAt(w, id) = {}
    BY <1>4, <1>7 DEF LoanAt
  <1> QED BY <1>4, <1>8

\* Of the borrows prepared for one Loan account at most one lands, and then as
\* that account, however the first request's answer was lost (service.ts:318).
THEOREM LoansStayOne == ServiceSpec => OneLoanPerAddress
  <1> DEFINE Opened(n) == n.tx.kind = "borrow" /\ loans' # loans =>
                            \E l \in loans' \ loans :
                              /\ l.borrower = n.tx.wallet /\ l.loan_id = n.tx.loanId
                              /\ LoanAt(n.tx.wallet, n.tx.loanId) = {}
             AllOpened == \A n \in network \ network' : Opened(n)
  <1>1. SInv /\ [ServiceNext]_allVars => [AllOpened]_allVars
    BY LoanOpened
  <1> HIDE DEF AllOpened
  <1>2. ServiceSpec => [][AllOpened]_allVars
    BY <1>1, ServiceInductive, PTL DEF ServiceSpec
  <1> QED BY <1>2 DEF OneLoanPerAddress, AllOpened
=============================================================================

----------------------------- MODULE PoolProofs -----------------------------
(*****************************************************************************)
(* The pool's books, proved for every value of the constants.                *)
(*                                                                           *)
(* The inductive invariant is IInv.  Its heart is SoundBooks: the total      *)
(* never passes the re-priced index units (so accrual never has to clip a    *)
(* negative interest), and the fees never pass what the pool holds and is    *)
(* owed.  The second is not inductive without the first: if the total were   *)
(* above the re-priced units, accrual would lower it under the fees.         *)
(*                                                                           *)
(* Accounts is inductive with it: the set of loans is finite, each has one   *)
(* address, and the units and the collateral vaults are sums over the open   *)
(* ones, which a step changes by one term (SumTheorems).                     *)
(*****************************************************************************)
EXTENDS Pool, SumTheorems

-----------------------------------------------------------------------------
(* The arithmetic of PoolMath: where each division rounds, and what that is  *)
(* worth to the pool.                                                        *)

\* Rust's integer division of naturals: the quotient's own bounds.
LEMMA DivBounds ==
  ASSUME NEW a \in Nat, NEW b \in Nat \ {0}
  PROVE  /\ a \div b \in Nat
         /\ (a \div b) * b <= a
         /\ a < (a \div b) * b + b
  OBVIOUS

\* Anything that fits b times into a is at most the quotient.
LEMMA DivLargest ==
  ASSUME NEW a \in Nat, NEW b \in Nat \ {0}, NEW k \in Int, k * b <= a
  PROVE  k <= a \div b
  <1> DEFINE q == a \div b
  <1>1. q \in Nat /\ a < q * b + b
    BY DivBounds
  <1>2. k * b < (q + 1) * b
    BY <1>1
  <1> HIDE DEF q
  <1>3. SUFFICES ASSUME k >= q + 1 PROVE FALSE
    BY <1>1 DEF q
  <1>4. k * b >= (q + 1) * b
    BY <1>1, <1>3
  <1>5. QED
    BY <1>1, <1>2, <1>4

\* A division that rounds up is a natural and covers what it divides.
LEMMA CeilDivCovers ==
  ASSUME NEW a \in Nat, NEW b \in Nat \ {0}
  PROVE  CeilDiv(a, b) \in Nat /\ CeilDiv(a, b) * b >= a
  <1> DEFINE q == (a + b - 1) \div b
  <1>1. a + b - 1 \in Nat
    OBVIOUS
  <1>2. q \in Nat /\ a + b - 1 < q * b + b
    BY <1>1, DivBounds
  <1> HIDE DEF q
  <1>3. q * b \in Int /\ q * b >= a
    BY <1>2
  <1>4. QED
    BY <1>2, <1>3 DEF CeilDiv, q

-----------------------------------------------------------------------------

\* A new loan's index units are worth at least the loan (terms.rs scaled_debt).
LEMMA ScaledDebtCovers ==
  ASSUME NEW amount \in Nat, NEW index \in Nat \ {0}
  PROVE  /\ ScaledDebt(amount, index) \in Nat
         /\ ScaledDebt(amount, index) * index >= amount * WAD
  <1>1. WAD \in Nat /\ amount * WAD \in Nat
    BY ScaleAssumption
  <1>2. QED
    BY <1>1, CeilDivCovers DEF ScaledDebt

\* Closing a loan brings at least what its index units are worth (debt_now).
LEMMA DebtNowCovers ==
  ASSUME NEW scaled \in Nat, NEW index \in Nat
  PROVE  /\ DebtNow(scaled, index) \in Nat
         /\ DebtNow(scaled, index) * WAD >= scaled * index
  <1>1. WAD \in Nat \ {0} /\ scaled * index \in Nat
    BY ScaleAssumption
  <1>2. QED
    BY <1>1, CeilDivCovers DEF DebtNow

LEMMA UtilizationNat ==
  ASSUME NEW borrowed \in Nat, NEW idle \in Nat
  PROVE  UtilizationBps(borrowed, idle) \in Nat
  <1>1. CASE borrowed + idle = 0
    BY <1>1 DEF UtilizationBps
  <1>2. CASE borrowed + idle # 0
    <2>1. borrowed + idle \in Nat \ {0} /\ borrowed * BPS \in Nat
      BY <1>2 DEF BPS
    <2>2. (borrowed * BPS) \div (borrowed + idle) \in Nat
      BY <2>1, DivBounds
    <2>3. QED
      BY <1>2, <2>2 DEF UtilizationBps
  <1>3. QED
    BY <1>1, <1>2

LEMMA BaseRateNat ==
  ASSUME NEW util \in Nat
  PROVE  BaseRateBps(util) \in Nat
  BY DEF BaseRateBps, Smaller, BPS, BASE_RATE_BPS, KINK_RATE_BPS, MAX_RATE_BPS, KINK_UTIL_BPS

LEMMA TierRateNat ==
  ASSUME NEW base \in Nat, NEW t \in Tiers
  PROVE  TierRateBps(base, TierSpreadBps[t]) \in Nat
  BY DEF TierRateBps, TierSpreadBps, Larger, Tiers

\* Interest never shrinks a tier's index (rates.rs grow_index).
LEMMA GrowIndexGrows ==
  ASSUME NEW index \in Nat, NEW rate \in Nat, NEW dt \in Nat
  PROVE  GrowIndex(index, rate, dt) \in Nat /\ GrowIndex(index, rate, dt) >= index
  <1>1. index * rate * dt \in Nat
    OBVIOUS
  <1>2. BPS * YEAR_SECS \in Nat \ {0}
    BY UnitAssumption DEF BPS, YEAR_SECS
  <1>3. (index * rate * dt) \div (BPS * YEAR_SECS) \in Nat
    BY <1>1, <1>2, DivBounds
  <1>4. QED
    BY <1>3 DEF GrowIndex

\* Shares minted are worth no more than the deposit at the price before it.
LEMMA SharesRoundDown ==
  ASSUME NEW amount \in Nat, NEW assets \in Nat, NEW supply \in Nat
  PROVE  /\ SharesForDeposit(amount, assets, supply) \in Nat
         /\ supply > 0 => SharesForDeposit(amount, assets, supply) * assets <= amount * supply
  <1>1. CASE supply = 0 \/ assets = 0
    BY <1>1 DEF SharesForDeposit
  <1>2. CASE supply # 0 /\ assets # 0
    <2>1. amount * supply \in Nat /\ assets \in Nat \ {0}
      BY <1>2
    <2>2. /\ (amount * supply) \div assets \in Nat
          /\ ((amount * supply) \div assets) * assets <= amount * supply
      BY <2>1, DivBounds
    <2>3. QED
      BY <1>2, <2>2 DEF SharesForDeposit
  <1>3. QED
    BY <1>1, <1>2

\* A withdrawal pays no more than the burned shares are worth.
LEMMA AssetsRoundDown ==
  ASSUME NEW burned \in Nat, NEW assets \in Nat, NEW supply \in Nat \ {0}
  PROVE  /\ AssetsForShares(burned, assets, supply) \in Nat
         /\ AssetsForShares(burned, assets, supply) * supply <= burned * assets
         /\ burned <= supply => AssetsForShares(burned, assets, supply) <= assets
  <1>1. burned * assets \in Nat
    OBVIOUS
  <1> DEFINE paid == (burned * assets) \div supply
  <1>2. paid \in Nat /\ paid * supply <= burned * assets
    BY <1>1, DivBounds
  <1> HIDE DEF paid
  <1>3. ASSUME burned <= supply, paid > assets PROVE FALSE
    <2>1. paid * supply >= (assets + 1) * supply
      BY <1>2, <1>3
    <2>2. burned * assets <= supply * assets
      BY <1>3
    <2>3. QED
      BY <1>2, <2>1, <2>2
  <1>4. QED
    BY <1>2, <1>3 DEF AssetsForShares, paid

LEMMA ValueNat ==
  ASSUME NEW amount \in Nat, NEW price \in Nat
  PROVE  CollateralValue(amount, price) \in Nat
  <1>1. amount * price * PRICE_MUL \in Nat /\ PRICE_DIV \in Nat \ {0}
    BY ScaleAssumption
  <1>2. QED
    BY <1>1, DivBounds DEF CollateralValue

LEMMA ForValueNat ==
  ASSUME NEW value \in Nat, NEW price \in Nat \ {0}
  PROVE  CollateralForValue(value, price) \in Nat
  <1>1. value * PRICE_DIV \in Nat /\ PRICE_MUL \in Nat \ {0}
    BY ScaleAssumption
  <1>2. (value * PRICE_DIV) \div PRICE_MUL \in Nat
    BY <1>1, DivBounds
  <1>3. QED
    BY <1>2, DivBounds DEF CollateralForValue

\* Liquidation splits the debt and the collateral exactly: every unit of debt
\* is paid or written off, every unit of collateral is seized or given back.
THEOREM SplitIsExact ==
  ASSUME NEW debt, NEW coll, NEW price, NEW bonus,
         debt \in Nat, coll \in Nat, price \in Nat \ {0}, bonus \in Nat,
         NEW s, s = LiquidationSplit(debt, coll, price, bonus)
  PROVE  /\ s.pay \in Nat /\ s.bad_debt \in Nat /\ s.pay + s.bad_debt = debt
         /\ s.seize \in Nat /\ s.back \in Nat /\ s.seize + s.back = coll
  <1> DEFINE withBonus == BPS + bonus
             reward == (debt * withBonus) \div BPS
             value == CollateralValue(coll, price)
             seize == Smaller(CollateralForValue(reward, price), coll)
             pay == Smaller(CeilDiv(value * BPS, withBonus), debt)
  <1>1. withBonus \in Nat \ {0} /\ BPS \in Nat \ {0} /\ debt * withBonus \in Nat
    BY DEF BPS
  <1>2. reward \in Nat /\ value \in Nat
    BY <1>1, DivBounds, ValueNat
  <1>3. value * BPS \in Nat
    BY <1>1, <1>2
  <1>4. CeilDiv(value * BPS, withBonus) \in Nat /\ CollateralForValue(reward, price) \in Nat
    BY <1>1, <1>2, <1>3, CeilDivCovers, ForValueNat
  <1>5. pay \in Nat /\ pay <= debt /\ seize \in Nat /\ seize <= coll
    BY <1>4 DEF Smaller
  <1>6. LiquidationSplit(debt, coll, price, bonus) =
          IF value >= reward
          THEN [pay |-> debt, seize |-> seize, back |-> coll - seize, bad_debt |-> 0]
          ELSE IF value >= debt
          THEN [pay |-> debt, seize |-> coll, back |-> 0, bad_debt |-> 0]
          ELSE [pay |-> pay, seize |-> coll, back |-> 0, bad_debt |-> debt - pay]
    BY DEF LiquidationSplit
  <1> HIDE DEF pay, seize, reward, value, withBonus
  <1>7. QED
    BY <1>2, <1>5, <1>6

\* Collateral worth a value is worth no more than it, and less collateral is
\* worth less.
LEMMA ForValueCovers ==
  ASSUME NEW value \in Nat, NEW price \in Nat \ {0}, NEW amount \in Nat,
         amount <= CollateralForValue(value, price)
  PROVE  CollateralValue(amount, price) <= value
  <1> DEFINE part == (value * PRICE_DIV) \div PRICE_MUL
             most == part \div price
             worth == (amount * price * PRICE_MUL) \div PRICE_DIV
  <1>1. PRICE_MUL \in Nat \ {0} /\ PRICE_DIV \in Nat \ {0} /\ value * PRICE_DIV \in Nat
    BY ScaleAssumption
  <1>2. part \in Nat /\ part * PRICE_MUL <= value * PRICE_DIV
    BY <1>1, DivBounds
  <1> HIDE DEF part
  <1>3. most \in Nat /\ most * price <= part
    BY <1>2, DivBounds
  <1>4. amount <= most
    BY DEF CollateralForValue, part
  <1> HIDE DEF most
  <1>5. amount * price \in Nat /\ amount * price <= part
    <2>1. amount * price <= most * price
      BY <1>3, <1>4
    <2>2. QED
      BY <1>2, <1>3, <2>1
  <1> DEFINE ap == amount * price
  <1>6. ap \in Nat /\ ap <= part
    BY <1>5
  <1> HIDE DEF ap
  <1>7. ap * PRICE_MUL \in Nat /\ ap * PRICE_MUL <= part * PRICE_MUL
    BY <1>1, <1>2, <1>6
  <1>8. worth \in Nat /\ worth * PRICE_DIV <= ap * PRICE_MUL
    BY <1>1, <1>7, DivBounds DEF ap
  <1> HIDE DEF worth
  <1>9. worth * PRICE_DIV <= value * PRICE_DIV
    BY <1>1, <1>2, <1>7, <1>8
  <1>10. worth <= value
    BY <1>1, <1>8, <1>9
  <1>11. QED
    BY <1>10 DEF CollateralValue, worth

\* The collateral a liquidator takes is never worth more than what it paid and
\* the bonus on it, even when the collateral does not cover the debt; and what it
\* does not pay of the debt, all of the collateral without the bonus does not cover.
THEOREM RewardBounded ==
  ASSUME NEW debt, NEW coll, NEW price, NEW bonus,
         debt \in Nat, coll \in Nat, price \in Nat \ {0}, bonus \in Nat,
         NEW s, s = LiquidationSplit(debt, coll, price, bonus)
  PROVE  /\ CollateralValue(s.seize, price) * BPS <= s.pay * (BPS + bonus)
         /\ s.pay = debt \/ s.pay * (BPS + bonus) >= CollateralValue(coll, price) * BPS
  <1> DEFINE withBonus == BPS + bonus
             reward == (debt * withBonus) \div BPS
             value == CollateralValue(coll, price)
             seize == Smaller(CollateralForValue(reward, price), coll)
             owed == CeilDiv(value * BPS, withBonus)
             pay == Smaller(owed, debt)
  <1>1. BPS \in Nat \ {0}
    BY DEF BPS
  <1>2. withBonus \in Nat \ {0} /\ withBonus >= BPS
    BY <1>1
  <1>3. s = IF value >= reward
            THEN [pay |-> debt, seize |-> seize, back |-> coll - seize, bad_debt |-> 0]
            ELSE IF value >= debt
            THEN [pay |-> debt, seize |-> coll, back |-> 0, bad_debt |-> 0]
            ELSE [pay |-> pay, seize |-> coll, back |-> 0, bad_debt |-> debt - pay]
    BY DEF LiquidationSplit
  <1> HIDE DEF withBonus
  <1>4. reward \in Nat /\ reward * BPS <= debt * withBonus
    BY <1>1, <1>2, DivBounds
  <1>5. value \in Nat
    BY ValueNat
  <1> HIDE DEF reward, value
  <1>6. CollateralForValue(reward, price) \in Nat
    BY <1>4, ForValueNat
  <1>7. seize \in Nat /\ seize <= CollateralForValue(reward, price)
    BY <1>6 DEF Smaller
  <1> HIDE DEF seize
  <1>8. CollateralValue(seize, price) \in Nat /\ CollateralValue(seize, price) <= reward
    BY <1>4, <1>7, ForValueCovers, ValueNat
  <1>9. value * BPS \in Nat
    BY <1>1, <1>5
  <1>10. owed \in Nat /\ owed * withBonus >= value * BPS
    BY <1>2, <1>9, CeilDivCovers
  <1> HIDE DEF owed
  <1>11. CASE value >= reward
    <2>1. s.pay = debt /\ s.seize = seize
      BY <1>3, <1>11
    <2>2. CollateralValue(seize, price) * BPS <= reward * BPS
      BY <1>1, <1>4, <1>8
    <2>3. QED
      BY <1>1, <1>2, <1>4, <1>8, <2>1, <2>2 DEF withBonus
  <1>12. CASE ~(value >= reward) /\ value >= debt
    <2>1. s.pay = debt /\ s.seize = coll
      BY <1>3, <1>12
    <2>2. value * BPS <= reward * BPS
      BY <1>1, <1>4, <1>5, <1>12
    <2>3. value * BPS <= debt * withBonus
      BY <1>1, <1>2, <1>4, <1>5, <2>2
    <2>4. QED
      BY <2>1, <2>3 DEF value, withBonus
  <1>13. CASE ~(value >= reward) /\ ~(value >= debt)
    <2>1. s.pay = pay /\ s.seize = coll
      BY <1>3, <1>13
    <2>2. pay = owed \/ pay = debt
      BY DEF Smaller
    <2>3. value * BPS <= debt * withBonus
      <3>1. value * BPS <= debt * BPS
        BY <1>1, <1>5, <1>13
      <3>2. debt * BPS <= debt * withBonus
        BY <1>1, <1>2
      <3>3. QED
        BY <1>1, <1>2, <1>5, <3>1, <3>2
    <2>4. value * BPS <= pay * withBonus
      BY <1>10, <2>2, <2>3
    <2>5. pay * withBonus >= value * BPS
      <3>1. pay \in Nat
        BY <1>10, <2>2
      <3> QED BY <1>1, <1>2, <1>5, <2>4, <3>1
    <2>6. QED
      BY <2>1, <2>4, <2>5 DEF value, withBonus
  <1>14. QED
    BY <1>11, <1>12, <1>13

-----------------------------------------------------------------------------
(* The invariant *)

SoundBooks(p, idle) ==
  /\ p \in PoolConfig
  /\ \A t \in Tiers : p.tier_index[t] >= WAD
  /\ p.last_accrual <= now
  /\ p.total_borrowed <= Repriced(p.tier_scaled_debt, p.tier_index)
  /\ p.protocol_fees <= idle + p.total_borrowed

\* A loan's collateral has a configuration.
LoansConfigured == \A l \in loans : collateral[l.collateral_mint] \in RiskParams

IInv == TypeOK /\ LoansConfigured /\ SoundBooks(pool, vault)

-----------------------------------------------------------------------------
(* Re-pricing *)

LEMMA RepricedNat ==
  ASSUME NEW scaled \in [Tiers -> Nat], NEW index \in [Tiers -> Nat]
  PROVE  /\ \A t \in Tiers : (scaled[t] * index[t]) \div WAD \in Nat
         /\ Repriced(scaled, index) \in Nat
  <1>1. \A t \in Tiers : (scaled[t] * index[t]) \div WAD \in Nat
    <2> TAKE t \in Tiers
    <2>1. scaled[t] * index[t] \in Nat /\ WAD \in Nat \ {0}
      BY ScaleAssumption
    <2>2. QED
      BY <2>1, DivBounds
  <1>2. 0 \in Tiers /\ 1 \in Tiers /\ 2 \in Tiers /\ 3 \in Tiers
    BY DEF Tiers
  <1>3. QED
    BY <1>1, <1>2 DEF Repriced

LEMMA OwedMonotone ==
  ASSUME NEW s \in Nat, NEW i \in Nat, NEW j \in Nat, i <= j
  PROVE  (s * i) \div WAD <= (s * j) \div WAD
  <1>1. WAD \in Nat \ {0} /\ s * i \in Nat /\ s * j \in Nat /\ s * i <= s * j
    BY ScaleAssumption
  <1>2. (s * i) \div WAD \in Nat /\ ((s * i) \div WAD) * WAD <= s * i
    BY <1>1, DivBounds
  <1>3. ((s * i) \div WAD) * WAD <= s * j
    BY <1>1, <1>2
  <1>4. QED
    BY <1>1, <1>2, <1>3, DivLargest

LEMMA RepricedMonotone ==
  ASSUME NEW scaled \in [Tiers -> Nat], NEW i \in [Tiers -> Nat], NEW j \in [Tiers -> Nat],
         \A t \in Tiers : i[t] <= j[t]
  PROVE  Repriced(scaled, i) <= Repriced(scaled, j)
  <1>1. \A t \in Tiers : (scaled[t] * i[t]) \div WAD <= (scaled[t] * j[t]) \div WAD
    BY OwedMonotone
  <1>2. /\ \A t \in Tiers : (scaled[t] * i[t]) \div WAD \in Nat
        /\ \A t \in Tiers : (scaled[t] * j[t]) \div WAD \in Nat
    BY RepricedNat
  <1>3. 0 \in Tiers /\ 1 \in Tiers /\ 2 \in Tiers /\ 3 \in Tiers
    BY DEF Tiers
  <1>4. QED
    BY <1>1, <1>2, <1>3 DEF Repriced

\* Adding units worth at least "amount" to a tier adds at least "amount".
LEMMA RepricedAdd ==
  ASSUME NEW scaled \in [Tiers -> Nat], NEW index \in [Tiers -> Nat], NEW tier \in Tiers,
         NEW units \in Nat, NEW amount \in Nat, units * index[tier] >= amount * WAD
  PROVE  Repriced([scaled EXCEPT ![tier] = @ + units], index)
           >= Repriced(scaled, index) + amount
  <1> DEFINE more == [scaled EXCEPT ![tier] = @ + units]
             owed(t) == (scaled[t] * index[t]) \div WAD
             owing(t) == (more[t] * index[t]) \div WAD
  <1>1. more \in [Tiers -> Nat]
    OBVIOUS
  <1>2. \A t \in Tiers : owed(t) \in Nat /\ owing(t) \in Nat
    BY <1>1, RepricedNat
  <1>3. owing(tier) >= owed(tier) + amount
    <2>1. more[tier] = scaled[tier] + units
      OBVIOUS
    <2>2. WAD \in Nat \ {0} /\ scaled[tier] * index[tier] \in Nat
      BY ScaleAssumption
    <2>3. owed(tier) * WAD <= scaled[tier] * index[tier]
      BY <2>2, DivBounds
    <2>4. (owed(tier) + amount) * WAD <= (scaled[tier] + units) * index[tier]
      <3> DEFINE q == owed(tier)
                 i == index[tier]
                 s == scaled[tier]
      <3>1. q \in Nat /\ i \in Nat /\ s \in Nat /\ q * WAD <= s * i
        BY <1>2, <2>3
      <3>2. units * i >= amount * WAD
        OBVIOUS
      <3> HIDE DEF q, i, s
      <3>3. (q + amount) * WAD <= (s + units) * i
        BY <3>1, <3>2, <2>2
      <3>4. QED
        BY <3>3 DEF q, i, s
    <2>5. (scaled[tier] + units) * index[tier] \in Nat
      OBVIOUS
    <2>6. QED
      BY <1>2, <2>1, <2>2, <2>4, <2>5, DivLargest
  <1>4. \A t \in Tiers : t # tier => owing(t) = owed(t)
    OBVIOUS
  <1>5. /\ Repriced(scaled, index) = owed(0) + owed(1) + owed(2) + owed(3)
        /\ Repriced(more, index) = owing(0) + owing(1) + owing(2) + owing(3)
    BY DEF Repriced
  <1>6. tier \in {0, 1, 2, 3} /\ 0 \in Tiers /\ 1 \in Tiers /\ 2 \in Tiers /\ 3 \in Tiers
    BY DEF Tiers
  <1> HIDE DEF owed, owing, more
  <1>7. QED
    BY <1>2, <1>3, <1>4, <1>5, <1>6 DEF more

\* Taking units out of a tier takes off no more than the debt they close for.
LEMMA RepricedRemove ==
  ASSUME NEW scaled \in [Tiers -> Nat], NEW index \in [Tiers -> Nat], NEW tier \in Tiers,
         NEW units \in Nat, units <= scaled[tier],
         NEW debt \in Nat, debt * WAD >= units * index[tier]
  PROVE  Repriced([scaled EXCEPT ![tier] = @ - units], index) + debt
           >= Repriced(scaled, index)
  <1> DEFINE less == [scaled EXCEPT ![tier] = @ - units]
             owed(t) == (scaled[t] * index[t]) \div WAD
             owing(t) == (less[t] * index[t]) \div WAD
  <1>1. less \in [Tiers -> Nat]
    OBVIOUS
  <1>2. \A t \in Tiers : owed(t) \in Nat /\ owing(t) \in Nat
    BY <1>1, RepricedNat
  <1>3. owing(tier) + debt >= owed(tier)
    <2>1. less[tier] = scaled[tier] - units /\ less[tier] \in Nat
      BY <1>1
    <2>2. WAD \in Nat \ {0} /\ scaled[tier] * index[tier] \in Nat
      BY ScaleAssumption
    <2>3. owed(tier) * WAD <= scaled[tier] * index[tier]
      BY <2>2, DivBounds
    <2>4. (owed(tier) - debt) * WAD <= (scaled[tier] - units) * index[tier]
      <3> DEFINE q == owed(tier)
                 i == index[tier]
                 s == scaled[tier]
      <3>1. q \in Nat /\ i \in Nat /\ s \in Nat /\ q * WAD <= s * i
        BY <1>2, <2>3
      <3>2. debt * WAD >= units * i
        OBVIOUS
      <3> HIDE DEF q, i, s
      <3>3. (q - debt) * WAD <= (s - units) * i
        BY <3>1, <3>2, <2>2
      <3>4. QED
        BY <3>3 DEF q, i, s
    <2>5. less[tier] * index[tier] \in Nat /\ owed(tier) - debt \in Int
      BY <2>1, <1>2
    <2>6. owed(tier) - debt <= owing(tier)
      BY <2>1, <2>2, <2>4, <2>5, DivLargest
    <2>7. QED
      BY <2>6, <1>2
  <1>4. \A t \in Tiers : t # tier => owing(t) = owed(t)
    OBVIOUS
  <1>5. /\ Repriced(scaled, index) = owed(0) + owed(1) + owed(2) + owed(3)
        /\ Repriced(less, index) = owing(0) + owing(1) + owing(2) + owing(3)
    BY DEF Repriced
  <1>6. tier \in {0, 1, 2, 3} /\ 0 \in Tiers /\ 1 \in Tiers /\ 2 \in Tiers /\ 3 \in Tiers
    BY DEF Tiers
  <1> HIDE DEF owed, owing, less
  <1>7. QED
    BY <1>2, <1>3, <1>4, <1>5, <1>6 DEF less

-----------------------------------------------------------------------------
(* Updates of the PoolConfig record: what each leaves alone *)

WithDebt(p, units, total) ==
  [p EXCEPT !.tier_scaled_debt = units, !.total_borrowed = total]
WithLoss(p, fees, bad) == [p EXCEPT !.protocol_fees = fees, !.bad_debt = bad]
WithAccrual(p, index, fees, total, at) ==
  [p EXCEPT !.tier_index = index, !.protocol_fees = fees,
            !.total_borrowed = total, !.last_accrual = at]

LEMMA SetDebt ==
  ASSUME NEW p, NEW units, NEW total,
         p \in PoolConfig, units \in [Tiers -> Nat], total \in Nat,
         NEW q, q = WithDebt(p, units, total)
  PROVE  /\ q \in PoolConfig
         /\ q.tier_scaled_debt = units /\ q.total_borrowed = total
         /\ q.tier_index = p.tier_index /\ q.protocol_fees = p.protocol_fees
         /\ q.last_accrual = p.last_accrual /\ q.bad_debt = p.bad_debt
  BY DEF PoolConfig, WithDebt

LEMMA SetLoss ==
  ASSUME NEW p, NEW fees, NEW bad, p \in PoolConfig, fees \in Nat, bad \in Nat,
         NEW q, q = WithLoss(p, fees, bad)
  PROVE  /\ q \in PoolConfig
         /\ q.protocol_fees = fees /\ q.bad_debt = bad
         /\ q.tier_index = p.tier_index /\ q.tier_scaled_debt = p.tier_scaled_debt
         /\ q.total_borrowed = p.total_borrowed /\ q.last_accrual = p.last_accrual
  BY DEF PoolConfig, WithLoss

LEMMA SetAccrual ==
  ASSUME NEW p, NEW index, NEW fees, NEW total, NEW at,
         p \in PoolConfig, index \in [Tiers -> Nat], fees \in Nat, total \in Nat, at \in Nat,
         NEW q, q = WithAccrual(p, index, fees, total, at)
  PROVE  /\ q \in PoolConfig
         /\ q.tier_index = index /\ q.protocol_fees = fees
         /\ q.total_borrowed = total /\ q.last_accrual = at
         /\ q.tier_scaled_debt = p.tier_scaled_debt /\ q.bad_debt = p.bad_debt
  BY DEF PoolConfig, WithAccrual

-----------------------------------------------------------------------------
(* The methods of PoolConfig keep the books sound *)

\* Accruing keeps the books sound and never lowers what lenders own.
LEMMA AccruedSound ==
  ASSUME TypeOK, SoundBooks(pool, vault), NEW p, p = Accrued(pool, vault)
  PROVE  /\ SoundBooks(p, vault)
         /\ p.tier_scaled_debt = pool.tier_scaled_debt
         /\ p.bad_debt = pool.bad_debt /\ p.last_accrual = now
         /\ TotalAssets(p, vault) >= TotalAssets(pool, vault)
  <1> DEFINE dt == now - pool.last_accrual
             index == GrownIndex(pool, vault, dt)
             total == Repriced(pool.tier_scaled_debt, index)
             before == Repriced(pool.tier_scaled_debt, pool.tier_index)
             fee == InterestFee(pool.total_borrowed, total)
  <1>1. p = Accrued(pool, vault)
    OBVIOUS
  <1>2. pool \in PoolConfig /\ now \in Nat /\ vault \in Nat
    BY DEF TypeOK
  <1>3. /\ pool.total_borrowed \in Nat /\ pool.protocol_fees \in Nat
        /\ pool.last_accrual \in Nat /\ pool.bad_debt \in Nat
        /\ pool.tier_index \in [Tiers -> Nat] /\ pool.tier_scaled_debt \in [Tiers -> Nat]
    BY <1>2 DEF PoolConfig
  <1>4. CASE dt <= 0
    <2>1. p = pool
      BY <1>1, <1>4 DEF Accrued
    <2>2. TotalAssets(p, vault) \in Int
      BY <2>1, <1>2, <1>3 DEF TotalAssets
    <2>3. pool.last_accrual = now
      BY <1>2, <1>3, <1>4 DEF TypeOK
    <2>4. QED
      BY <2>1, <2>2, <2>3
  <1>5. CASE dt > 0
    <2>1. dt \in Nat
      BY <1>2, <1>3, <1>5
    <2>2. /\ index \in [Tiers -> Nat]
          /\ \A t \in Tiers : index[t] >= pool.tier_index[t]
      <3> DEFINE base == BaseRateBps(UtilizationBps(pool.total_borrowed, vault))
                 grown(t) == GrowIndex(pool.tier_index[t], TierRateBps(base, TierSpreadBps[t]), dt)
      <3>1. base \in Nat
        BY <1>2, <1>3, UtilizationNat, BaseRateNat
      <3> HIDE DEF base
      <3>2. \A t \in Tiers : grown(t) \in Nat /\ grown(t) >= pool.tier_index[t]
        <4> TAKE t \in Tiers
        <4>1. TierRateBps(base, TierSpreadBps[t]) \in Nat /\ pool.tier_index[t] \in Nat
          BY <3>1, <1>3, TierRateNat
        <4> HIDE DEF dt
        <4>2. QED
          BY <4>1, <2>1, GrowIndexGrows
      <3>3. index = [t \in Tiers |-> grown(t)]
        BY DEF GrownIndex, base
      <3>4. QED
        BY <3>2, <3>3
    <2> HIDE DEF index
    <2>3. total \in Nat /\ before \in Nat /\ before <= total
      BY <1>3, <2>2, RepricedNat, RepricedMonotone
    <2>4. pool.total_borrowed <= total
      BY <1>3, <2>3 DEF SoundBooks
    <2> HIDE DEF total
    <2>5. fee \in Nat /\ fee <= total - pool.total_borrowed
      <3> DEFINE interest == total - pool.total_borrowed
      <3>1. interest \in Nat /\ SatSub(total, pool.total_borrowed) = interest
        BY <1>3, <2>3, <2>4 DEF SatSub
      <3> HIDE DEF interest
      <3>2. fee = (interest * 1000) \div 10000
        BY <3>1 DEF InterestFee, RESERVE_FACTOR_BPS, BPS
      <3>3. QED
        BY <3>1, <3>2 DEF interest
    <2> DEFINE fees == pool.protocol_fees + fee
    <2>6. p = WithAccrual(pool, index, fees, total, now)
      <3>1. ~(dt <= 0)
        BY <2>1, <1>5
      <3>2. Accrued(pool, vault) =
              IF dt <= 0 THEN pool
              ELSE [pool EXCEPT !.tier_index = index, !.protocol_fees = @ + fee,
                                !.total_borrowed = total, !.last_accrual = now]
        BY DEF Accrued, index, total
      <3> HIDE DEF dt, fee
      <3>3. QED
        BY <1>1, <3>1, <3>2, Zenon DEF WithAccrual
    <2> HIDE DEF fee
    <2>7. /\ p \in PoolConfig
          /\ p.tier_index = index /\ p.total_borrowed = total /\ p.last_accrual = now
          /\ p.protocol_fees = pool.protocol_fees + fee
          /\ p.tier_scaled_debt = pool.tier_scaled_debt /\ p.bad_debt = pool.bad_debt
      <3>1. fees \in Nat
        BY <1>3, <2>5
      <3> HIDE DEF fees
      <3>2. /\ p \in PoolConfig
            /\ p.tier_index = index /\ p.protocol_fees = fees
            /\ p.total_borrowed = total /\ p.last_accrual = now
            /\ p.tier_scaled_debt = pool.tier_scaled_debt /\ p.bad_debt = pool.bad_debt
        BY <1>2, <2>2, <2>3, <2>6, <3>1, SetAccrual
      <3>3. QED
        BY <3>2 DEF fees
    <2>8. \A t \in Tiers : p.tier_index[t] >= WAD
      BY <1>3, <2>2, <2>7, ScaleAssumption DEF SoundBooks
    <2>9. p.total_borrowed <= Repriced(p.tier_scaled_debt, p.tier_index)
      BY <2>3, <2>7 DEF total
    <2>10. pool.protocol_fees <= vault + pool.total_borrowed
      BY DEF SoundBooks
    <2>11. p.protocol_fees <= vault + p.total_borrowed
      BY <1>2, <1>3, <2>3, <2>5, <2>7, <2>10
    <2>12. TotalAssets(p, vault) >= TotalAssets(pool, vault)
      BY <1>2, <1>3, <2>3, <2>5, <2>7 DEF TotalAssets
    <2>13. now <= now
      BY <1>2
    <2>14. QED
      BY <2>7, <2>8, <2>9, <2>11, <2>12, <2>13 DEF SoundBooks
  <1>6. QED
    BY <1>2, <1>3, <1>4, <1>5

LEMMA AccrueSound ==
  ASSUME TypeOK, SoundBooks(pool, vault), NEW p \in AccruedNow
  PROVE  /\ SoundBooks(p, vault)
         /\ p.tier_scaled_debt = pool.tier_scaled_debt
         /\ p.bad_debt = pool.bad_debt /\ p.last_accrual = now
         /\ TotalAssets(p, vault) >= TotalAssets(pool, vault)
  BY AccruedSound DEF AccruedNow

\* Lending: the new units are worth at least the loan.
Lent(p, tier, amount) ==
  [p EXCEPT !.tier_scaled_debt[tier] = @ + ScaledDebt(amount, p.tier_index[tier]),
            !.total_borrowed = @ + amount]

LEMMA LendSound ==
  ASSUME NEW p, NEW idle \in Nat, now \in Nat, SoundBooks(p, idle), NEW tier \in Tiers,
         NEW amount \in Nat, amount <= idle
  PROVE  /\ SoundBooks(Lent(p, tier, amount), idle - amount)
         /\ TotalAssets(Lent(p, tier, amount), idle - amount) = TotalAssets(p, idle)
         /\ Lent(p, tier, amount).last_accrual = p.last_accrual
         /\ Lent(p, tier, amount).bad_debt = p.bad_debt
  <1> DEFINE scaled == ScaledDebt(amount, p.tier_index[tier])
             q == [p EXCEPT !.tier_scaled_debt[tier] = @ + scaled, !.total_borrowed = @ + amount]
  <1>1. /\ p \in PoolConfig /\ p.total_borrowed \in Nat /\ p.protocol_fees \in Nat
        /\ p.tier_index \in [Tiers -> Nat] /\ p.tier_scaled_debt \in [Tiers -> Nat]
    BY DEF SoundBooks, PoolConfig
  <1>2. p.tier_index[tier] \in Nat \ {0}
    BY <1>1, ScaleAssumption DEF SoundBooks
  <1>3. scaled \in Nat /\ scaled * p.tier_index[tier] >= amount * WAD
    BY <1>2, ScaledDebtCovers
  <1> HIDE DEF scaled
  <1>4. Repriced([p.tier_scaled_debt EXCEPT ![tier] = @ + scaled], p.tier_index)
          >= Repriced(p.tier_scaled_debt, p.tier_index) + amount
    BY <1>1, <1>3, RepricedAdd
  <1>5. /\ q \in PoolConfig /\ q.total_borrowed = p.total_borrowed + amount
        /\ q.tier_scaled_debt = [p.tier_scaled_debt EXCEPT ![tier] = @ + scaled]
        /\ q.tier_index = p.tier_index /\ q.protocol_fees = p.protocol_fees
        /\ q.last_accrual = p.last_accrual /\ q.bad_debt = p.bad_debt
    <2> DEFINE units == [p.tier_scaled_debt EXCEPT ![tier] = @ + scaled]
               total == p.total_borrowed + amount
    <2>1. units \in [Tiers -> Nat] /\ total \in Nat
      BY <1>1, <1>3
    <2>2. q = WithDebt(p, units, total)
      BY <1>1 DEF PoolConfig, WithDebt
    <2> HIDE DEF units, total, q
    <2>3. /\ q \in PoolConfig /\ q.tier_scaled_debt = units /\ q.total_borrowed = total
          /\ q.tier_index = p.tier_index /\ q.protocol_fees = p.protocol_fees
          /\ q.last_accrual = p.last_accrual /\ q.bad_debt = p.bad_debt
      BY <1>1, <2>1, <2>2, SetDebt
    <2>4. QED
      BY <2>3 DEF units, total
  <1>6. q.tier_scaled_debt \in [Tiers -> Nat]
    BY <1>5 DEF PoolConfig
  <1> HIDE DEF q
  <1>7. Repriced(p.tier_scaled_debt, p.tier_index) \in Nat /\ Repriced(q.tier_scaled_debt, q.tier_index) \in Nat
    BY <1>1, <1>5, <1>6, RepricedNat
  <1>8. q.total_borrowed <= Repriced(q.tier_scaled_debt, q.tier_index)
    BY <1>1, <1>4, <1>5, <1>7 DEF SoundBooks
  <1>9. q.protocol_fees <= (idle - amount) + q.total_borrowed
    BY <1>1, <1>5 DEF SoundBooks
  <1>10. SoundBooks(q, idle - amount)
    BY <1>5, <1>8, <1>9 DEF SoundBooks
  <1>11. TotalAssets(q, idle - amount) = TotalAssets(p, idle)
    BY <1>1, <1>5 DEF TotalAssets
  <1>12. QED
    BY <1>5, <1>10, <1>11 DEF Lent, q, scaled

LEMMA RemoveDebtTyped ==
  ASSUME NEW p, p \in PoolConfig, NEW tier \in Tiers, NEW units, NEW debt,
         units \in Nat, debt \in Nat, units <= p.tier_scaled_debt[tier]
  PROVE  RemoveDebt(p, tier, units, debt) \in PoolConfig
  <1> DEFINE rest == [p.tier_scaled_debt EXCEPT ![tier] = @ - units]
             total == SatSub(p.total_borrowed, debt)
  <1>1. rest \in [Tiers -> Nat] /\ total \in Nat
    BY DEF PoolConfig, SatSub
  <1>2. RemoveDebt(p, tier, units, debt) = WithDebt(p, rest, total)
    BY DEF PoolConfig, RemoveDebt, WithDebt
  <1> HIDE DEF rest, total
  <1>3. QED
    BY <1>1, <1>2, SetDebt

\* Closing a loan: whatever is paid, the debt leaves the books, and what was
\* not paid is written off against the fees first.
LEMMA CloseSound ==
  ASSUME NEW p, NEW idle \in Nat, now \in Nat, SoundBooks(p, idle), NEW tier \in Tiers,
         NEW units \in Nat, units <= p.tier_scaled_debt[tier],
         NEW pay \in Nat, NEW loss \in Nat,
         DebtNow(units, p.tier_index[tier]) = pay + loss
  PROVE  LET q == WriteOff(RemoveDebt(p, tier, units, pay + loss), loss)
         IN  /\ SoundBooks(q, idle + pay)
             /\ q.bad_debt = p.bad_debt => TotalAssets(q, idle + pay) >= TotalAssets(p, idle)
             /\ q.last_accrual = p.last_accrual /\ q.bad_debt >= p.bad_debt
  <1> DEFINE debt == pay + loss
             r == RemoveDebt(p, tier, units, debt)
             q == WriteOff(r, loss)
  <1>1. /\ p \in PoolConfig /\ p.total_borrowed \in Nat /\ p.protocol_fees \in Nat
        /\ p.bad_debt \in Nat
        /\ p.tier_index \in [Tiers -> Nat] /\ p.tier_scaled_debt \in [Tiers -> Nat]
    BY DEF SoundBooks, PoolConfig
  <1>2. debt \in Nat /\ debt * WAD >= units * p.tier_index[tier]
    BY <1>1, DebtNowCovers
  <1> HIDE DEF debt
  <1>3. Repriced([p.tier_scaled_debt EXCEPT ![tier] = @ - units], p.tier_index) + debt
          >= Repriced(p.tier_scaled_debt, p.tier_index)
    BY <1>1, <1>2, RepricedRemove
  <1>4. /\ r \in PoolConfig /\ r.total_borrowed = SatSub(p.total_borrowed, debt)
        /\ r.tier_scaled_debt = [p.tier_scaled_debt EXCEPT ![tier] = @ - units]
        /\ r.tier_index = p.tier_index /\ r.protocol_fees = p.protocol_fees
        /\ r.last_accrual = p.last_accrual /\ r.bad_debt = p.bad_debt
    <2> DEFINE rest == [p.tier_scaled_debt EXCEPT ![tier] = @ - units]
               total == SatSub(p.total_borrowed, debt)
    <2>1. rest \in [Tiers -> Nat] /\ total \in Nat
      BY <1>1, <1>2 DEF SatSub
    <2>2. r = WithDebt(p, rest, total)
      BY <1>1 DEF PoolConfig, RemoveDebt, WithDebt
    <2> HIDE DEF rest, total, r
    <2>3. /\ r \in PoolConfig /\ r.tier_scaled_debt = rest /\ r.total_borrowed = total
          /\ r.tier_index = p.tier_index /\ r.protocol_fees = p.protocol_fees
          /\ r.last_accrual = p.last_accrual /\ r.bad_debt = p.bad_debt
      BY <1>1, <2>1, <2>2, SetDebt
    <2>4. QED
      BY <2>3 DEF rest, total
  <1> HIDE DEF r
  <1> DEFINE covered == Smaller(loss, r.protocol_fees)
  <1>5. /\ covered \in Nat /\ covered <= loss /\ covered <= r.protocol_fees
        /\ covered = loss \/ covered = r.protocol_fees
    BY <1>1, <1>4 DEF Smaller
  <1> DEFINE fees == r.protocol_fees - covered
             bad == r.bad_debt + (loss - covered)
  <1>6. q = WithLoss(r, fees, bad)
    BY DEF WriteOff, WithLoss
  <1> HIDE DEF covered
  <1>7. /\ q \in PoolConfig /\ q.total_borrowed = r.total_borrowed
        /\ q.tier_scaled_debt = r.tier_scaled_debt /\ q.tier_index = r.tier_index
        /\ q.last_accrual = r.last_accrual
        /\ q.protocol_fees = r.protocol_fees - covered
        /\ q.bad_debt = r.bad_debt + (loss - covered)
    <2>1. fees \in Nat /\ bad \in Nat
      BY <1>1, <1>4, <1>5
    <2> HIDE DEF fees, bad, q
    <2>2. /\ q \in PoolConfig /\ q.protocol_fees = fees /\ q.bad_debt = bad
          /\ q.tier_index = r.tier_index /\ q.tier_scaled_debt = r.tier_scaled_debt
          /\ q.total_borrowed = r.total_borrowed /\ q.last_accrual = r.last_accrual
      BY <1>4, <1>6, <2>1, SetLoss
    <2>3. QED
      BY <2>2 DEF fees, bad
  <1> HIDE DEF q
  <1>8. q.tier_scaled_debt \in [Tiers -> Nat]
    BY <1>7 DEF PoolConfig
  <1>9. /\ Repriced(p.tier_scaled_debt, p.tier_index) \in Nat
         /\ Repriced(q.tier_scaled_debt, q.tier_index) \in Nat
    BY <1>1, <1>4, <1>7, <1>8, RepricedNat
  <1>10. p.total_borrowed <= Repriced(p.tier_scaled_debt, p.tier_index)
    BY DEF SoundBooks
  <1>11. q.total_borrowed <= Repriced(q.tier_scaled_debt, q.tier_index)
    BY <1>1, <1>2, <1>3, <1>4, <1>7, <1>9, <1>10 DEF SatSub
  <1>12. p.protocol_fees <= idle + p.total_borrowed
    BY DEF SoundBooks
  <1>13. q.protocol_fees <= (idle + pay) + q.total_borrowed
    BY <1>1, <1>2, <1>4, <1>5, <1>7, <1>12 DEF SatSub, debt
  <1>14. SoundBooks(q, idle + pay)
    BY <1>4, <1>7, <1>11, <1>13 DEF SoundBooks
  <1>15. q.bad_debt = p.bad_debt => TotalAssets(q, idle + pay) >= TotalAssets(p, idle)
    BY <1>1, <1>2, <1>4, <1>5, <1>7 DEF SatSub, TotalAssets, debt
  <1>16. q.last_accrual = p.last_accrual /\ q.bad_debt >= p.bad_debt
    BY <1>1, <1>4, <1>5, <1>7
  <1>17. QED
    BY <1>14, <1>15, <1>16 DEF q, r, debt

LEMMA WriteOffNothing ==
  ASSUME NEW p, p \in PoolConfig
  PROVE  WriteOff(p, 0) = p
  <1>1. p.protocol_fees \in Nat /\ p.bad_debt \in Nat
    BY DEF PoolConfig
  <1>2. Smaller(0, p.protocol_fees) = 0
    BY <1>1 DEF Smaller
  <1> DEFINE covered == Smaller(0, p.protocol_fees)
             fees == p.protocol_fees - covered
             bad == p.bad_debt + (0 - covered)
  <1>3. WriteOff(p, 0) = [p EXCEPT !.protocol_fees = fees, !.bad_debt = bad]
    BY DEF WriteOff
  <1>4. fees = p.protocol_fees /\ bad = p.bad_debt
    BY <1>1, <1>2
  <1> HIDE DEF fees, bad
  <1>5. WriteOff(p, 0) = [p EXCEPT !.protocol_fees = p.protocol_fees, !.bad_debt = p.bad_debt]
    BY <1>3, <1>4, Zenon
  <1>6. [p EXCEPT !.protocol_fees = p.protocol_fees, !.bad_debt = p.bad_debt] = p
    BY Zenon DEF PoolConfig
  <1>7. QED
    BY <1>5, <1>6, Zenon

-----------------------------------------------------------------------------
(* Every instruction keeps IInv and, but for a loss, the share price *)

SharePriceKept ==
  lp_supply > 0 /\ pool'.bad_debt = pool.bad_debt =>
    TotalAssets(pool', vault') * lp_supply >= TotalAssets(pool, vault) * lp_supply'

\* What lenders own by the books as the next instruction will see them.
LiveAssets == TotalAssets(Accrued(pool, vault), vault)

\* The same of the price that includes the interest up to the clock.
LivePriceKept ==
  lp_supply > 0 /\ pool'.bad_debt = pool.bad_debt =>
    LiveAssets' * lp_supply >= LiveAssets * lp_supply'

PricesKept ==
  /\ SharePriceKept
  /\ LivePriceKept
  /\ pool'.bad_debt >= pool.bad_debt

LEMMA AssetsInt ==
  ASSUME NEW p, NEW idle, SoundBooks(p, idle), idle \in Nat
  PROVE  TotalAssets(p, idle) \in Nat
  BY DEF SoundBooks, PoolConfig, TotalAssets

\* An instruction works on the accrued books p and leaves nothing to accrue: it
\* is enough that no share is worth less than by p.
LEMMA PricesFromAccrued ==
  ASSUME IInv, IInv', NEW p \in AccruedNow, now' = now,
         pool'.last_accrual = p.last_accrual, pool'.bad_debt >= p.bad_debt,
         lp_supply > 0 /\ pool'.bad_debt = pool.bad_debt =>
           TotalAssets(pool', vault') * lp_supply >= TotalAssets(p, vault) * lp_supply'
  PROVE  PricesKept
  <1>1. /\ SoundBooks(p, vault) /\ p.bad_debt = pool.bad_debt /\ p.last_accrual = now
        /\ TotalAssets(p, vault) >= TotalAssets(pool, vault)
        /\ p = Accrued(pool, vault)
    BY AccrueSound DEF IInv, AccruedNow
  <1>2. /\ lp_supply \in Nat /\ lp_supply' \in Nat /\ vault \in Nat /\ vault' \in Nat
        /\ now \in Nat
    BY DEF IInv, TypeOK
  <1>3. /\ TotalAssets(p, vault) \in Nat /\ TotalAssets(pool, vault) \in Nat
        /\ TotalAssets(pool', vault') \in Nat
    <2>1. SoundBooks(pool, vault)'
      BY DEF IInv
    <2>2. TotalAssets(pool, vault)' \in Nat
      BY <1>2, <2>1, AssetsInt DEF SoundBooks, TotalAssets, PoolConfig
    <2>3. QED
      BY <1>1, <1>2, <2>2, AssetsInt DEF IInv, TotalAssets
  <1>4. LiveAssets = TotalAssets(p, vault)
    BY <1>1 DEF LiveAssets
  <1>5. LiveAssets' = TotalAssets(pool', vault')
    <2>1. Accrued(pool, vault)' = pool'
      BY <1>1, <1>2 DEF Accrued
    <2>2. QED
      BY <2>1 DEF LiveAssets, TotalAssets
  <1>6. LivePriceKept
    BY <1>4, <1>5 DEF LivePriceKept
  <1>7. SharePriceKept
    <2>1. TotalAssets(p, vault) * lp_supply' >= TotalAssets(pool, vault) * lp_supply'
      BY <1>1, <1>2, <1>3
    <2> DEFINE a == TotalAssets(pool', vault') * lp_supply
               b == TotalAssets(p, vault) * lp_supply'
               c == TotalAssets(pool, vault) * lp_supply'
    <2>2. a \in Nat /\ b \in Nat /\ c \in Nat
      BY <1>2, <1>3
    <2>3. b >= c
      BY <2>1
    <2> HIDE DEF a, b, c
    <2>4. a >= b => a >= c
      BY <2>2, <2>3
    <2>5. QED
      BY <2>4 DEF SharePriceKept, a, b, c
  <1>8. QED
    BY <1>1, <1>6, <1>7 DEF PricesKept

\* Value that is not diluted by new shares only has to grow.
LEMMA PricesIfAssetsKept ==
  ASSUME IInv, IInv', NEW p \in AccruedNow, now' = now, lp_supply' = lp_supply,
         pool'.last_accrual = p.last_accrual, pool'.bad_debt >= p.bad_debt,
         pool'.bad_debt = p.bad_debt => TotalAssets(pool', vault') >= TotalAssets(p, vault)
  PROVE  PricesKept
  <1>1. SoundBooks(p, vault) /\ p.bad_debt = pool.bad_debt
    BY AccrueSound DEF IInv
  <1>2. lp_supply \in Nat /\ vault \in Nat /\ vault' \in Nat
    BY DEF IInv, TypeOK
  <1>3. TotalAssets(p, vault) \in Nat
    BY <1>1, <1>2, AssetsInt
  <1>4. TotalAssets(pool', vault') \in Nat
    <2>1. SoundBooks(pool, vault)'
      BY DEF IInv
    <2>2. QED
      BY <1>2, <2>1 DEF SoundBooks, TotalAssets, PoolConfig
  <1>5. lp_supply > 0 /\ pool'.bad_debt = pool.bad_debt =>
          TotalAssets(pool', vault') * lp_supply >= TotalAssets(p, vault) * lp_supply'
    BY <1>1, <1>2, <1>3, <1>4
  <1>6. QED
    BY <1>5, PricesFromAccrued

LEMMA InitSound == Init => IInv
  <1> SUFFICES ASSUME Init PROVE IInv
    OBVIOUS
  <1>1. now \in Nat /\ WAD \in Nat \ {0}
    BY InputAssumption, ScaleAssumption DEF Init
  <1>2. pool \in PoolConfig /\ pool.tier_index = [t \in Tiers |-> WAD]
        /\ pool.last_accrual = now /\ pool.total_borrowed = 0 /\ pool.protocol_fees = 0
        /\ pool.tier_scaled_debt = [t \in Tiers |-> 0]
    BY <1>1 DEF Init, PoolConfig
  <1>3. Repriced(pool.tier_scaled_debt, pool.tier_index) \in Nat
    BY <1>2, RepricedNat DEF PoolConfig
  <1>4. SoundBooks(pool, vault)
    BY <1>1, <1>2, <1>3 DEF SoundBooks, Init
  <1>5. TypeOK /\ LoansConfigured
    BY <1>1, <1>2 DEF Init, TypeOK, LoansConfigured, BorrowerState
  <1>6. QED
    BY <1>4, <1>5 DEF IInv

\* An index grows with the time it is charged for.
LEMMA GrowIndexLonger ==
  ASSUME NEW index \in Nat, NEW rate \in Nat, NEW c \in Nat, NEW d \in Nat, c <= d
  PROVE  GrowIndex(index, rate, c) <= GrowIndex(index, rate, d)
  <1> DEFINE r == index * rate
             y == BPS * YEAR_SECS
             q == (r * c) \div y
  <1>1. y \in Nat \ {0}
    BY UnitAssumption DEF BPS, YEAR_SECS
  <1>2. r \in Nat
    OBVIOUS
  <1> HIDE DEF r, y
  <1>3. r * c \in Nat /\ r * d \in Nat /\ r * c <= r * d
    BY <1>2
  <1>4. q \in Nat /\ q * y <= r * c
    BY <1>1, <1>3, DivBounds
  <1> HIDE DEF q
  <1>5. q * y <= r * d
    BY <1>1, <1>3, <1>4
  <1>6. q <= (r * d) \div y
    BY <1>1, <1>3, <1>4, <1>5, DivLargest
  <1>7. (r * d) \div y \in Nat
    BY <1>1, <1>3, DivBounds
  <1>8. QED
    BY <1>4, <1>6, <1>7 DEF GrowIndex, r, y, q

LEMMA IndexesGrow ==
  ASSUME NEW p, p \in PoolConfig, NEW idle \in Nat, NEW c \in Nat, NEW d \in Nat, c <= d
  PROVE  /\ GrownIndex(p, idle, c) \in [Tiers -> Nat]
         /\ GrownIndex(p, idle, d) \in [Tiers -> Nat]
         /\ \A t \in Tiers : /\ p.tier_index[t] <= GrownIndex(p, idle, c)[t]
                             /\ GrownIndex(p, idle, c)[t] <= GrownIndex(p, idle, d)[t]
  <1> DEFINE base == BaseRateBps(UtilizationBps(p.total_borrowed, idle))
             grown(t, e) == GrowIndex(p.tier_index[t], TierRateBps(base, TierSpreadBps[t]), e)
  <1>1. p.total_borrowed \in Nat /\ p.tier_index \in [Tiers -> Nat]
    BY DEF PoolConfig
  <1>2. base \in Nat
    BY <1>1, UtilizationNat, BaseRateNat
  <1>3. \A e : GrownIndex(p, idle, e) = [t \in Tiers |-> grown(t, e)]
    BY DEF GrownIndex
  <1> HIDE DEF base
  <1>4. \A t \in Tiers : /\ grown(t, c) \in Nat /\ grown(t, d) \in Nat
                         /\ p.tier_index[t] <= grown(t, c) /\ grown(t, c) <= grown(t, d)
    <2> TAKE t \in Tiers
    <2>1. TierRateBps(base, TierSpreadBps[t]) \in Nat /\ p.tier_index[t] \in Nat
      BY <1>1, <1>2, TierRateNat
    <2>2. QED
      BY <2>1, GrowIndexGrows, GrowIndexLonger
  <1> HIDE DEF grown
  <1>5. QED
    BY <1>3, <1>4

\* What lenders own when accrual has brought the total to "total": nine tenths
\* of the interest is theirs.
AssetsAt(p, idle, total) ==
  idle + total - (p.protocol_fees + InterestFee(p.total_borrowed, total))

LEMMA AssetsAtGrow ==
  ASSUME NEW borrowed \in Nat, NEW x \in Nat, NEW y \in Nat, borrowed <= x, x <= y
  PROVE  /\ InterestFee(borrowed, x) \in Nat /\ InterestFee(borrowed, y) \in Nat
         /\ x - InterestFee(borrowed, x) <= y - InterestFee(borrowed, y)
         /\ InterestFee(borrowed, borrowed) = 0
  <1>1. /\ InterestFee(borrowed, x) = ((x - borrowed) * 1000) \div 10000
        /\ InterestFee(borrowed, y) = ((y - borrowed) * 1000) \div 10000
        /\ InterestFee(borrowed, borrowed) = 0
    BY DEF InterestFee, SatSub, RESERVE_FACTOR_BPS, BPS
  <1>2. QED
    BY <1>1

\* The longer it is since the last accrual, the more the lenders own.
LEMMA AccrualGrows ==
  ASSUME IInv, UNCHANGED books, now' \in Nat, now <= now'
  PROVE  LiveAssets \in Nat /\ LiveAssets' \in Nat /\ LiveAssets' >= LiveAssets
  <1> DEFINE units == pool.tier_scaled_debt
             total(e) == IF e = 0 THEN pool.total_borrowed
                         ELSE Repriced(units, GrownIndex(pool, vault, e))
             c == now - pool.last_accrual
             d == now' - pool.last_accrual
  <1>1. /\ pool \in PoolConfig /\ vault \in Nat /\ now \in Nat
        /\ SoundBooks(pool, vault) /\ pool' = pool /\ vault' = vault
    BY DEF IInv, TypeOK, books
  <1>2. /\ pool.total_borrowed \in Nat /\ pool.protocol_fees \in Nat
        /\ pool.last_accrual \in Nat /\ units \in [Tiers -> Nat]
        /\ pool.tier_index \in [Tiers -> Nat]
    BY <1>1 DEF PoolConfig
  <1>3. c \in Nat /\ d \in Nat /\ c <= d
    BY <1>1, <1>2 DEF SoundBooks
  <1>4. /\ LiveAssets = AssetsAt(pool, vault, total(c))
        /\ LiveAssets' = AssetsAt(pool, vault, total(d))
    <2>1. InterestFee(pool.total_borrowed, pool.total_borrowed) = 0
      BY <1>2, AssetsAtGrow
    <2>2. ASSUME NEW e \in Nat, NEW at
          PROVE  LET total_ == Repriced(units, GrownIndex(pool, vault, e))
                 IN  TotalAssets(IF e <= 0 THEN pool
                       ELSE [pool EXCEPT !.tier_index = GrownIndex(pool, vault, e),
                                         !.protocol_fees = @ + InterestFee(pool.total_borrowed, total_),
                                         !.total_borrowed = total_, !.last_accrual = at], vault)
                       = AssetsAt(pool, vault, total(e))
      <3>1. CASE e = 0
        BY <1>1, <1>2, <2>1, <3>1 DEF TotalAssets, AssetsAt
      <3>2. CASE e # 0
        <4> DEFINE index == GrownIndex(pool, vault, e)
                   total_ == Repriced(units, index)
                   fees == pool.protocol_fees + InterestFee(pool.total_borrowed, total_)
        <4>1. ~(e <= 0)
          BY <3>2
        <4>2. LET q == [pool EXCEPT !.tier_index = index, !.protocol_fees = fees,
                                    !.total_borrowed = total_, !.last_accrual = at]
              IN  q.total_borrowed = total_ /\ q.protocol_fees = fees
          <5> HIDE DEF index, total_, fees
          <5>1. QED
            BY <1>1 DEF PoolConfig
        <4>3. total(e) = total_
          BY <3>2
        <4>4. QED
          BY <4>1, <4>2, <4>3, Zenon DEF TotalAssets, AssetsAt
      <3>3. QED
        BY <3>1, <3>2
    <2>3. LiveAssets = AssetsAt(pool, vault, total(c))
      BY <1>3, <2>2 DEF LiveAssets, Accrued
    <2>4. LiveAssets' = AssetsAt(pool, vault, total(d))
      BY <1>1, <1>3, <2>2 DEF LiveAssets, Accrued
    <2>5. QED
      BY <2>3, <2>4
  <1>5. /\ total(c) \in Nat /\ total(d) \in Nat
        /\ pool.total_borrowed <= total(c) /\ total(c) <= total(d)
    <2> DEFINE priced(e) == Repriced(units, GrownIndex(pool, vault, e))
    <2>1. /\ GrownIndex(pool, vault, c) \in [Tiers -> Nat]
          /\ GrownIndex(pool, vault, d) \in [Tiers -> Nat]
          /\ \A t \in Tiers : /\ pool.tier_index[t] <= GrownIndex(pool, vault, c)[t]
                              /\ GrownIndex(pool, vault, c)[t] <= GrownIndex(pool, vault, d)[t]
      BY <1>1, <1>3, IndexesGrow
    <2>2. /\ Repriced(units, pool.tier_index) \in Nat
          /\ priced(c) \in Nat /\ priced(d) \in Nat
          /\ Repriced(units, pool.tier_index) <= priced(c) /\ priced(c) <= priced(d)
      BY <1>2, <2>1, RepricedNat, RepricedMonotone
    <2>3. pool.total_borrowed <= Repriced(units, pool.tier_index)
      BY <1>1 DEF SoundBooks
    <2> HIDE DEF c, d, priced, units
    <2>4. \A e : total(e) = IF e = 0 THEN pool.total_borrowed ELSE priced(e)
      BY DEF priced
    <2> HIDE DEF total
    <2>5. QED
      BY <1>2, <1>3, <2>2, <2>3, <2>4
  <1> HIDE DEF total, c, d
  <1>6. /\ InterestFee(pool.total_borrowed, total(c)) \in Nat
        /\ InterestFee(pool.total_borrowed, total(d)) \in Nat
        /\ total(c) - InterestFee(pool.total_borrowed, total(c))
             <= total(d) - InterestFee(pool.total_borrowed, total(d))
        /\ pool.total_borrowed <= total(c) - InterestFee(pool.total_borrowed, total(c))
    <2> DEFINE b == pool.total_borrowed
               x == total(c)
               y == total(d)
    <2>1. b \in Nat /\ x \in Nat /\ y \in Nat /\ b <= x /\ x <= y /\ b <= b
      BY <1>2, <1>5
    <2> HIDE DEF b, x, y
    <2>2. /\ InterestFee(b, x) \in Nat /\ InterestFee(b, y) \in Nat
          /\ x - InterestFee(b, x) <= y - InterestFee(b, y)
      BY <2>1, AssetsAtGrow
    <2>3. InterestFee(b, b) = 0 /\ b - InterestFee(b, b) <= x - InterestFee(b, x)
      BY <2>1, AssetsAtGrow
    <2>4. QED
      BY <2>1, <2>2, <2>3 DEF b, x, y
  <1>7. pool.protocol_fees <= vault + pool.total_borrowed
    BY <1>1 DEF SoundBooks
  <1>8. QED
    BY <1>1, <1>2, <1>4, <1>5, <1>6, <1>7 DEF AssetsAt

\* A step that leaves the books alone, and does not turn the clock back.
LEMMA IdleBooks ==
  ASSUME IInv, UNCHANGED books, UNCHANGED shares, now' \in Nat, now <= now'
  PROVE  SoundBooks(pool, vault)' /\ PricesKept
  <1>1. pool' = pool /\ vault' = vault /\ lp_supply' = lp_supply
    BY DEF books, shares
  <1>2. now \in Nat /\ pool.last_accrual \in Nat /\ pool.last_accrual <= now
        /\ pool.bad_debt \in Nat
    BY DEF IInv, TypeOK, PoolConfig
  <1>3. SoundBooks(pool, vault)'
    BY <1>1, <1>2 DEF SoundBooks, IInv
  <1>4. TotalAssets(pool, vault) \in Int /\ lp_supply \in Nat
    BY DEF IInv, TypeOK, PoolConfig, TotalAssets
  <1>5. LiveAssets \in Nat /\ LiveAssets' \in Nat /\ LiveAssets' >= LiveAssets
    BY AccrualGrows
  <1>6. SharePriceKept
    BY <1>1, <1>4 DEF SharePriceKept
  <1>7. LivePriceKept
    <2> DEFINE a == LiveAssets
               b == LiveAssets'
    <2>1. a \in Nat /\ b \in Nat /\ b >= a
      BY <1>5
    <2> HIDE DEF a, b
    <2>2. b * lp_supply >= a * lp_supply
      BY <1>4, <2>1
    <2>3. QED
      BY <1>1, <2>2 DEF LivePriceKept, a, b
  <1>8. QED
    BY <1>1, <1>2, <1>3, <1>6, <1>7 DEF PricesKept

LEMMA AddCollateralSound ==
  ASSUME IInv, NEW m \in Mints, NEW risk \in RiskParams, AddCollateral(m, risk)
  PROVE  IInv' /\ PricesKept
  <1>1. now' = now /\ UNCHANGED books /\ UNCHANGED shares /\ UNCHANGED lending
    BY DEF AddCollateral
  <1>2. now \in Nat
    BY DEF IInv, TypeOK
  <1>3. SoundBooks(pool, vault)' /\ PricesKept
    BY <1>1, <1>2, IdleBooks
  <1>4. collateral' \in [Mints -> RiskParams \cup {NoConfig}]
    BY DEF AddCollateral, IInv, TypeOK
  <1>5. TypeOK'
    BY <1>1, <1>4 DEF IInv, TypeOK, books, shares, lending
  <1>6. LoansConfigured'
    <2> SUFFICES ASSUME NEW l \in loans
                 PROVE  collateral'[l.collateral_mint] \in RiskParams
      BY <1>1 DEF LoansConfigured, lending
    <2>1. collateral[l.collateral_mint] \in RiskParams /\ l.collateral_mint \in Mints
      BY DEF IInv, TypeOK, LoansConfigured, Loan
    <2>2. collateral' = [collateral EXCEPT ![m] = risk] /\ collateral \in [Mints -> RiskParams \cup {NoConfig}]
      BY DEF AddCollateral, IInv, TypeOK
    <2>3. QED
      BY <2>1, <2>2
  <1>7. QED
    BY <1>3, <1>5, <1>6 DEF IInv

LEMMA TickSound ==
  ASSUME IInv, Tick
  PROVE  IInv' /\ PricesKept
  <1>1. /\ now' \in Nat /\ now \in Nat /\ now <= now'
        /\ UNCHANGED books /\ UNCHANGED shares /\ UNCHANGED collateral /\ UNCHANGED lending
    BY InputAssumption DEF Tick, IInv, TypeOK
  <1>2. SoundBooks(pool, vault)' /\ PricesKept
    BY <1>1, IdleBooks
  <1>3. TypeOK' /\ LoansConfigured'
    BY <1>1, <1>2 DEF IInv, TypeOK, LoansConfigured, SoundBooks, books, shares, lending
  <1>4. QED
    BY <1>2, <1>3 DEF IInv

LEMMA AccrueInterestSound ==
  ASSUME IInv, AccrueInterest
  PROVE  IInv' /\ PricesKept
  <1>1. PICK p \in AccruedNow :
          /\ pool' = p
          /\ UNCHANGED <<now, vault, shares, collateral, lending>>
    BY DEF AccrueInterest
  <1>2. SoundBooks(p, vault) /\ p.bad_debt \in Nat
    BY AccrueSound DEF IInv, SoundBooks, PoolConfig
  <1>3. SoundBooks(pool, vault)'
    BY <1>1, <1>2 DEF SoundBooks
  <1>4. TypeOK' /\ LoansConfigured'
    BY <1>1, <1>2 DEF IInv, TypeOK, LoansConfigured, SoundBooks, shares, lending
  <1>5. IInv'
    BY <1>3, <1>4 DEF IInv
  <1>6. lp_supply' = lp_supply
    BY <1>1 DEF shares
  <1>7. vault \in Nat
    BY DEF IInv, TypeOK
  <1>8. TotalAssets(p, vault) \in Nat
    BY <1>2, <1>7, AssetsInt
  <1>9. TotalAssets(pool', vault') >= TotalAssets(p, vault)
    BY <1>1, <1>8
  <1>10. QED
    BY <1>1, <1>2, <1>5, <1>6, <1>9, PricesIfAssetsKept

LEMMA DepositSound ==
  ASSUME IInv, NEW lender \in Lenders, NEW amount \in Nat, Deposit(lender, amount)
  PROVE  IInv' /\ PricesKept
  <1> DEFINE assets(p) == TotalAssets(p, vault)
             minted(p) == SharesForDeposit(amount, assets(p), lp_supply)
  <1>1. PICK p \in AccruedNow :
          /\ HasAssets(p, vault)
          /\ pool' = p /\ vault' = vault + amount
          /\ lp' = [lp EXCEPT ![lender] = @ + minted(p)]
          /\ lp_supply' = lp_supply + minted(p)
          /\ UNCHANGED <<now, collateral, lending>>
    BY DEF Deposit
  <1>2. SoundBooks(p, vault)
    BY AccrueSound DEF IInv
  <1>3. /\ vault \in Nat /\ lp_supply \in Nat /\ amount \in Nat /\ now \in Nat
        /\ p \in PoolConfig /\ lp \in [Lenders -> Nat]
    BY <1>2 DEF IInv, TypeOK, SoundBooks
  <1>4. p.total_borrowed \in Nat /\ p.protocol_fees \in Nat
    BY <1>3 DEF PoolConfig
  <1>5. assets(p) \in Nat
    BY <1>2, <1>3, AssetsInt
  <1>6. TotalAssets(pool', vault') = assets(p) + amount
    BY <1>1, <1>3, <1>4 DEF TotalAssets
  <1> HIDE DEF assets
  <1>7. /\ minted(p) \in Nat
        /\ lp_supply > 0 => minted(p) * assets(p) <= amount * lp_supply
    BY <1>3, <1>5, SharesRoundDown
  <1> HIDE DEF minted
  <1>8. SoundBooks(pool, vault)'
    BY <1>1, <1>2, <1>3, <1>4 DEF SoundBooks
  <1>9. lp' \in [Lenders -> Nat] /\ lp_supply' \in Nat /\ vault' \in Nat
    BY <1>1, <1>3, <1>7
  <1>10. TypeOK' /\ LoansConfigured'
    BY <1>1, <1>8, <1>9 DEF IInv, TypeOK, LoansConfigured, SoundBooks, lending
  <1>11. IInv'
    BY <1>8, <1>10 DEF IInv
  <1>12. ASSUME lp_supply > 0
         PROVE  TotalAssets(pool', vault') * lp_supply >= TotalAssets(p, vault) * lp_supply'
    <2>1. (assets(p) + amount) * lp_supply >= assets(p) * (lp_supply + minted(p))
      BY <1>3, <1>5, <1>7, <1>12
    <2>2. QED
      BY <1>1, <1>6, <2>1 DEF assets
  <1>13. pool'.last_accrual = p.last_accrual /\ pool'.bad_debt >= p.bad_debt /\ now' = now
    BY <1>1, <1>3 DEF PoolConfig
  <1>14. QED
    BY <1>11, <1>12, <1>13, PricesFromAccrued

LEMMA WithdrawSound ==
  ASSUME IInv, NEW lender \in Lenders, NEW burned \in Nat, Withdraw(lender, burned)
  PROVE  IInv' /\ PricesKept
  <1> DEFINE assets(p) == TotalAssets(p, vault)
             paid(p) == AssetsForShares(burned, assets(p), lp_supply)
  <1>1. PICK p \in AccruedNow :
          /\ HasAssets(p, vault) /\ lp_supply > 0 /\ paid(p) <= vault
          /\ burned <= lp[lender] /\ burned <= lp_supply
          /\ pool' = p /\ vault' = vault - paid(p)
          /\ lp' = [lp EXCEPT ![lender] = @ - burned]
          /\ lp_supply' = lp_supply - burned
          /\ UNCHANGED <<now, collateral, lending>>
    BY DEF Withdraw
  <1>2. SoundBooks(p, vault)
    BY AccrueSound DEF IInv
  <1>3. /\ vault \in Nat /\ lp_supply \in Nat \ {0} /\ burned \in Nat /\ now \in Nat
        /\ p \in PoolConfig /\ lp \in [Lenders -> Nat]
    BY <1>1, <1>2 DEF IInv, TypeOK, SoundBooks
  <1>4. p.total_borrowed \in Nat /\ p.protocol_fees \in Nat
    BY <1>3 DEF PoolConfig
  <1>5. assets(p) \in Nat
    BY <1>2, <1>3, AssetsInt
  <1> HIDE DEF assets
  <1>6. /\ paid(p) \in Nat /\ paid(p) * lp_supply <= burned * assets(p)
        /\ paid(p) <= assets(p)
    BY <1>1, <1>3, <1>5, AssetsRoundDown
  <1> HIDE DEF paid
  <1>7. TotalAssets(pool', vault') = assets(p) - paid(p)
    BY <1>1, <1>3, <1>4, <1>6 DEF TotalAssets, assets
  <1>8. SoundBooks(pool, vault)'
    BY <1>1, <1>2, <1>3, <1>4, <1>6 DEF SoundBooks, assets, TotalAssets
  <1>9. lp' \in [Lenders -> Nat] /\ lp_supply' \in Nat /\ vault' \in Nat
    BY <1>1, <1>3, <1>6
  <1>10. TypeOK' /\ LoansConfigured'
    BY <1>1, <1>8, <1>9 DEF IInv, TypeOK, LoansConfigured, SoundBooks, lending
  <1>11. IInv'
    BY <1>8, <1>10 DEF IInv
  <1>12. TotalAssets(pool', vault') * lp_supply >= TotalAssets(p, vault) * lp_supply'
    <2>1. assets(p) * (lp_supply - burned) = assets(p) * lp_supply - burned * assets(p)
      BY <1>3, <1>5
    <2>2. (assets(p) - paid(p)) * lp_supply = assets(p) * lp_supply - paid(p) * lp_supply
      BY <1>3, <1>5, <1>6
    <2>3. (assets(p) - paid(p)) * lp_supply >= assets(p) * (lp_supply - burned)
      BY <1>3, <1>5, <1>6, <2>1, <2>2
    <2>4. QED
      BY <1>1, <1>7, <2>3 DEF assets
  <1>13. pool'.last_accrual = p.last_accrual /\ pool'.bad_debt >= p.bad_debt /\ now' = now
    BY <1>1, <1>3 DEF PoolConfig
  <1>14. QED
    BY <1>11, <1>12, <1>13, PricesFromAccrued

LEMMA BorrowSound ==
  ASSUME IInv, NEW b \in Borrowers, NEW tier \in Tiers, NEW amount \in Nat,
         NEW m \in Mints, NEW posted \in Nat, NEW update \in PriceUpdates,
         Borrow(b, tier, amount, m, posted, update)
  PROVE  IInv' /\ PricesKept
  <1> DEFINE scaled(p) == ScaledDebt(amount, p.tier_index[tier])
             id == borrower_state[b].next_loan_id
             loan(p) == [borrower |-> b, loan_id |-> id,
               tier_at_open |-> tier, principal |-> amount, scaled_debt |-> scaled(p),
               collateral_mint |-> m, collateral_amount |-> posted,
               opened_at |-> now, due_at |-> now + LOAN_TERM_SECS, status |-> OPEN]
             lent(p) == [p EXCEPT !.tier_scaled_debt[tier] = @ + scaled(p),
                                  !.total_borrowed = @ + amount]
  <1>1. PICK p \in AccruedNow :
          /\ collateral[m] # NoConfig /\ amount <= vault
          /\ collateral_vault' = [collateral_vault EXCEPT ![m] = @ + posted]
          /\ vault' = vault - amount
          /\ pool' = lent(p)
          /\ loans' = loans \cup {loan(p)}
          /\ borrower_state' = [borrower_state EXCEPT ![b].next_loan_id = @ + 1,
                                                      ![b].open_loans = @ + 1]
          /\ UNCHANGED <<now, shares, collateral>>
    BY DEF Borrow
  <1>2. SoundBooks(p, vault)
    BY AccrueSound DEF IInv
  <1>3. /\ now \in Nat /\ vault \in Nat /\ amount \in Nat /\ posted \in Nat
        /\ collateral \in [Mints -> RiskParams \cup {NoConfig}]
        /\ collateral_vault \in [Mints -> Nat]
        /\ borrower_state \in [Borrowers -> BorrowerState] /\ loans \subseteq Loan
    BY DEF IInv, TypeOK
  <1>4. /\ SoundBooks(lent(p), vault - amount)
        /\ TotalAssets(lent(p), vault - amount) = TotalAssets(p, vault)
        /\ lent(p).last_accrual = p.last_accrual /\ lent(p).bad_debt = p.bad_debt
    <2>1. now \in Nat /\ vault \in Nat /\ amount \in Nat /\ amount <= vault
      BY <1>1, <1>3
    <2> DEFINE q == Lent(p, tier, amount)
    <2>2. /\ SoundBooks(q, vault - amount)
          /\ TotalAssets(q, vault - amount) = TotalAssets(p, vault)
          /\ q.last_accrual = p.last_accrual /\ q.bad_debt = p.bad_debt
      BY <1>2, <2>1, LendSound
    <2>3. lent(p) = q
      BY DEF Lent
    <2> HIDE DEF q, lent
    <2>4. QED
      BY <2>2, <2>3
  <1>5. scaled(p) \in Nat
    <2>1. p.tier_index[tier] \in Nat \ {0}
      BY <1>2, ScaleAssumption DEF SoundBooks, PoolConfig
    <2>2. QED
      BY <1>3, <2>1, ScaledDebtCovers
  <1>6. loan(p) \in Loan
    <2>1. id \in Nat /\ now + LOAN_TERM_SECS \in Nat
      BY <1>3, UnitAssumption DEF BorrowerState, LOAN_TERM_SECS
    <2> HIDE DEF scaled, id
    <2>2. QED
      BY <1>3, <1>5, <2>1 DEF Loan, OPEN
  <1>7. loan(p).collateral_mint = m
    OBVIOUS
  <1> HIDE DEF scaled, id, loan, lent
  <1>8. SoundBooks(pool, vault)'
    BY <1>1, <1>4 DEF SoundBooks
  <1>9. borrower_state' \in [Borrowers -> BorrowerState]
    BY <1>1, <1>3 DEF BorrowerState
  <1>10. vault' \in Nat /\ collateral_vault' \in [Mints -> Nat]
    BY <1>1, <1>3
  <1>11. TypeOK'
    BY <1>1, <1>3, <1>6, <1>8, <1>9, <1>10 DEF IInv, TypeOK, SoundBooks, shares
  <1>12. collateral[m] \in RiskParams
    BY <1>1, <1>3
  <1>13. LoansConfigured'
    BY <1>1, <1>7, <1>12 DEF LoansConfigured, IInv
  <1>14. IInv'
    BY <1>8, <1>11, <1>13 DEF IInv
  <1>15. lp_supply' = lp_supply
    BY <1>1 DEF shares
  <1>16. TotalAssets(pool', vault') >= TotalAssets(p, vault)
    <2>1. TotalAssets(p, vault) \in Nat
      BY <1>2, <1>3, AssetsInt
    <2>2. QED
      BY <1>1, <1>4, <2>1
  <1>17. pool'.last_accrual = p.last_accrual /\ pool'.bad_debt >= p.bad_debt /\ now' = now
    BY <1>1, <1>2, <1>4 DEF SoundBooks, PoolConfig
  <1>18. QED
    BY <1>14, <1>15, <1>16, <1>17, PricesIfAssetsKept

\* What repay and liquidate share once the books are known to be sound: the
\* loan changes only its status, and the counters stay in range.
LEMMA ClosedTypes ==
  ASSUME IInv, SoundBooks(pool, vault)', NEW l \in loans, NEW status \in 0..3,
         loans' = (loans \ {l}) \cup {[l EXCEPT !.status = status]},
         vault' \in Nat, collateral_vault' \in [Mints -> Nat],
         borrower_state' \in [Borrowers -> BorrowerState],
         UNCHANGED <<now, shares, collateral>>
  PROVE  IInv'
  <1>1. SoundBooks(pool, vault)'
    BY DEF IInv
  <1>2. l \in Loan
    BY DEF IInv, TypeOK
  <1>3. [l EXCEPT !.status = status] \in Loan
    BY <1>2 DEF Loan
  <1>4. TypeOK'
    BY <1>1, <1>3 DEF IInv, TypeOK, SoundBooks, shares
  <1>5. [l EXCEPT !.status = status].collateral_mint = l.collateral_mint
    BY <1>2 DEF Loan
  <1>6. LoansConfigured'
    BY <1>5 DEF IInv, LoansConfigured
  <1>7. QED
    BY <1>1, <1>4, <1>6 DEF IInv

LEMMA RepaySound ==
  ASSUME IInv, NEW l \in loans, Repay(l)
  PROVE  IInv' /\ PricesKept
  <1> DEFINE b == l.borrower
             m == l.collateral_mint
             debt(p) == Debt(p, l)
             closed(p) == RemoveDebt(p, l.tier_at_open, l.scaled_debt, debt(p))
  <1>1. PICK p \in AccruedNow :
          /\ l.collateral_amount <= collateral_vault[m]
          /\ l.scaled_debt <= p.tier_scaled_debt[l.tier_at_open]
          /\ loans' = (loans \ {l}) \cup {[l EXCEPT !.status = REPAID]}
          /\ vault' = vault + debt(p)
          /\ collateral_vault' = [collateral_vault EXCEPT ![m] = @ - l.collateral_amount]
          /\ pool' = closed(p)
          /\ borrower_state' =
               [borrower_state EXCEPT
                  ![b].open_loans = SatSub(@, 1),
                  ![b].largest_repaid = IF RepayOutcome(now, l.due_at) = ON_TIME
                                        THEN Larger(@, l.principal) ELSE @]
          /\ UNCHANGED <<now, shares, collateral>>
    BY DEF Repay, CloseLoan
  <1>2. SoundBooks(p, vault)
    BY AccrueSound DEF IInv
  <1>3. /\ now \in Nat /\ vault \in Nat /\ collateral_vault \in [Mints -> Nat]
        /\ borrower_state \in [Borrowers -> BorrowerState] /\ l \in Loan
    BY DEF IInv, TypeOK
  <1>4. /\ b \in Borrowers /\ m \in Mints /\ l.tier_at_open \in Tiers
        /\ l.scaled_debt \in Nat /\ l.principal \in Nat /\ l.collateral_amount \in Nat
    BY <1>3 DEF Loan
  <1>5. debt(p) \in Nat
    <2>1. p.tier_index[l.tier_at_open] \in Nat
      BY <1>2, <1>4 DEF SoundBooks, PoolConfig
    <2>2. QED
      BY <1>4, <2>1, DebtNowCovers DEF Debt
  <1>6. debt(p) + 0 = debt(p) /\ DebtNow(l.scaled_debt, p.tier_index[l.tier_at_open]) = debt(p) + 0
    BY <1>5 DEF Debt
  <1> HIDE DEF debt
  <1>7. LET q == WriteOff(closed(p), 0)
        IN  /\ SoundBooks(q, vault + debt(p))
            /\ q.bad_debt = p.bad_debt => TotalAssets(q, vault + debt(p)) >= TotalAssets(p, vault)
            /\ q.last_accrual = p.last_accrual /\ q.bad_debt >= p.bad_debt
    BY <1>1, <1>2, <1>3, <1>4, <1>5, <1>6, CloseSound
  <1>8. closed(p) \in PoolConfig
    BY <1>1, <1>2, <1>4, <1>5, RemoveDebtTyped DEF SoundBooks
  <1> HIDE DEF closed
  <1>9. WriteOff(closed(p), 0) = closed(p)
    BY <1>8, WriteOffNothing
  <1>10. SoundBooks(pool', vault')
    BY <1>1, <1>7, <1>9
  <1>11. SoundBooks(pool, vault)'
    BY <1>1, <1>10 DEF SoundBooks
  <1>12. vault' \in Nat /\ collateral_vault' \in [Mints -> Nat]
    BY <1>1, <1>3, <1>4, <1>5
  <1>13. borrower_state' \in [Borrowers -> BorrowerState]
    <2>1. borrower_state[b] \in BorrowerState
      BY <1>3, <1>4
    <2> DEFINE open == SatSub(borrower_state[b].open_loans, 1)
               largest == IF RepayOutcome(now, l.due_at) = ON_TIME
                          THEN Larger(borrower_state[b].largest_repaid, l.principal)
                          ELSE borrower_state[b].largest_repaid
    <2>2. open \in Nat /\ largest \in Nat
      BY <1>4, <2>1 DEF BorrowerState, SatSub, Larger
    <2>3. borrower_state' = [borrower_state EXCEPT ![b].open_loans = open,
                                                   ![b].largest_repaid = largest]
      BY <1>1, <1>3, <1>4 DEF BorrowerState
    <2> HIDE DEF open, largest
    <2>4. QED
      BY <1>3, <1>4, <2>2, <2>3 DEF BorrowerState
  <1>14. IInv'
    <2>1. /\ loans' = (loans \ {l}) \cup {[l EXCEPT !.status = REPAID]}
          /\ UNCHANGED <<now, shares, collateral>> /\ REPAID \in 0..3
      BY <1>1 DEF REPAID
    <2>2. QED
      BY <1>11, <1>12, <1>13, <2>1, ClosedTypes
  <1>15. lp_supply' = lp_supply
    BY <1>1 DEF shares
  <1>16. /\ pool'.bad_debt = p.bad_debt => TotalAssets(pool', vault') >= TotalAssets(p, vault)
         /\ pool'.last_accrual = p.last_accrual /\ pool'.bad_debt >= p.bad_debt /\ now' = now
    BY <1>1, <1>7, <1>9
  <1>17. QED
    BY <1>14, <1>15, <1>16, PricesIfAssetsKept

LEMMA LiquidateSound ==
  ASSUME IInv, NEW l \in loans, NEW update \in PriceUpdates, Liquidate(l, update)
  PROVE  IInv' /\ PricesKept
  <1> DEFINE b == l.borrower
             m == l.collateral_mint
             debt(p) == Debt(p, l)
             split(p) == LiquidationSplit(debt(p), l.collateral_amount, LowPrice(update),
                                          collateral[m].bonus)
             closed(p) == RemoveDebt(p, l.tier_at_open, l.scaled_debt, debt(p))
             status == IF InDefault(now, l.due_at) THEN LOAN_DEFAULTED ELSE LOAN_LIQUIDATED
  <1>1. PICK p \in AccruedNow :
          /\ UsablePrice(update, collateral[m])
          /\ split(p).seize + split(p).back <= collateral_vault[m]
          /\ l.scaled_debt <= p.tier_scaled_debt[l.tier_at_open]
          /\ loans' = (loans \ {l}) \cup {[l EXCEPT !.status = status]}
          /\ vault' = vault + split(p).pay
          /\ collateral_vault' =
               [collateral_vault EXCEPT ![m] = @ - split(p).seize - split(p).back]
          /\ pool' = WriteOff(closed(p), split(p).bad_debt)
          /\ borrower_state' = [borrower_state EXCEPT ![b].open_loans = SatSub(@, 1)]
          /\ UNCHANGED <<now, shares, collateral>>
    BY Zenon DEF Liquidate, CloseLoan
  <1>2. SoundBooks(p, vault)
    BY AccrueSound DEF IInv
  <1>3. /\ now \in Nat /\ vault \in Nat /\ collateral_vault \in [Mints -> Nat]
        /\ borrower_state \in [Borrowers -> BorrowerState] /\ l \in Loan
    BY DEF IInv, TypeOK
  <1>4. /\ b \in Borrowers /\ m \in Mints /\ l.tier_at_open \in Tiers
        /\ l.scaled_debt \in Nat /\ l.collateral_amount \in Nat
    BY <1>3 DEF Loan
  <1>5. debt(p) \in Nat
    <2>1. p.tier_index[l.tier_at_open] \in Nat
      BY <1>2, <1>4 DEF SoundBooks, PoolConfig
    <2>2. QED
      BY <1>4, <2>1, DebtNowCovers DEF Debt
  <1>6. LowPrice(update) \in Nat \ {0} /\ collateral[m].bonus \in Nat
    <2>1. collateral[m] \in RiskParams
      BY DEF IInv, LoansConfigured
    <2>2. update.price \in Int /\ update.conf \in Nat /\ collateral[m].bonus \in Nat
      BY <2>1, InputAssumption
    <2>3. QED
      BY <1>1, <2>2 DEF UsablePrice, LowPrice
  <1> HIDE DEF debt
  <1>7. /\ split(p).pay \in Nat /\ split(p).bad_debt \in Nat
        /\ split(p).pay + split(p).bad_debt = debt(p)
        /\ split(p).seize \in Nat /\ split(p).back \in Nat
    BY <1>4, <1>5, <1>6, SplitIsExact
  <1> DEFINE pay == split(p).pay
             loss == split(p).bad_debt
  <1>8. pay \in Nat /\ loss \in Nat /\ debt(p) = pay + loss
    BY <1>7
  <1>9. DebtNow(l.scaled_debt, p.tier_index[l.tier_at_open]) = pay + loss
    BY <1>8 DEF debt, Debt
  <1> HIDE DEF split
  <1>10. pool' = WriteOff(RemoveDebt(p, l.tier_at_open, l.scaled_debt, pay + loss), loss)
    BY <1>1, <1>8
  <1>11. vault' = vault + pay
    BY <1>1
  <1> HIDE DEF pay, loss, closed
  <1>12. /\ SoundBooks(pool', vault')
         /\ pool'.bad_debt = p.bad_debt => TotalAssets(pool', vault') >= TotalAssets(p, vault)
         /\ pool'.last_accrual = p.last_accrual /\ pool'.bad_debt >= p.bad_debt
    BY <1>1, <1>2, <1>3, <1>4, <1>8, <1>9, <1>10, <1>11, CloseSound
  <1>13. SoundBooks(pool, vault)'
    BY <1>1, <1>12 DEF SoundBooks
  <1>14. vault' \in Nat /\ collateral_vault' \in [Mints -> Nat]
    BY <1>1, <1>3, <1>4, <1>7, <1>8, <1>11
  <1>15. borrower_state' \in [Borrowers -> BorrowerState]
    BY <1>1, <1>3, <1>4 DEF BorrowerState, SatSub
  <1>16. status \in 0..3
    BY DEF LOAN_DEFAULTED, LOAN_LIQUIDATED
  <1> HIDE DEF status
  <1>17. IInv'
    BY <1>1, <1>13, <1>14, <1>15, <1>16, ClosedTypes
  <1>18. lp_supply' = lp_supply
    BY <1>1 DEF shares
  <1>19. now' = now
    BY <1>1
  <1>20. QED
    BY <1>12, <1>17, <1>18, <1>19, PricesIfAssetsKept

\* A step of the pool's users, with any amounts: Next takes them from the
\* constants, Prepared from what its pages ask for.
UserStep ==
  \/ AccrueInterest
  \/ \E lender \in Lenders, amount \in Nat : Deposit(lender, amount)
  \/ \E lender \in Lenders, burned \in Nat : Withdraw(lender, burned)
  \/ \E b \in Borrowers, tier \in Tiers, amount \in Nat, m \in Mints,
        posted \in Nat, update \in PriceUpdates :
       Borrow(b, tier, amount, m, posted, update)
  \/ \E l \in loans : Repay(l) \/ \E update \in PriceUpdates : Liquidate(l, update)

LEMMA UserStepSound ==
  ASSUME IInv, UserStep
  PROVE  IInv' /\ PricesKept
  BY AccrueInterestSound, DepositSound, WithdrawSound, BorrowSound, RepaySound, LiquidateSound
  DEF UserStep

LEMMA NextIsUserStep ==
  ASSUME Next
  PROVE  AdminStep \/ UserStep \/ Tick
  <1>1. CASE LenderStep
    BY <1>1, InputAssumption DEF LenderStep, UserStep
  <1>2. CASE BorrowStep
    <2>1. PICK b \in Borrowers, tier \in Standings, amount \in LoanAmounts, m \in Mints,
               posted \in CollateralAmounts, update \in PriceUpdates :
                 Borrow(b, tier, amount, m, posted, update)
      BY <1>2 DEF BorrowStep
    <2>2. tier \in Tiers /\ amount \in Nat /\ posted \in Nat
      BY InputAssumption
    <2>3. QED
      BY <2>1, <2>2 DEF UserStep
  <1>3. QED
    BY <1>1, <1>2 DEF Next, CloseStep, UserStep

LEMMA StepSound ==
  ASSUME IInv, Next
  PROVE  IInv' /\ PricesKept
  <1>1. CASE AdminStep
    BY <1>1, AddCollateralSound DEF AdminStep
  <1>2. CASE UserStep
    BY <1>2, UserStepSound
  <1>3. CASE Tick
    BY <1>3, TickSound
  <1>4. QED
    BY <1>1, <1>2, <1>3, NextIsUserStep

LEMMA StutterSound ==
  ASSUME IInv, UNCHANGED vars
  PROVE  IInv' /\ PricesKept
  <1>1. now' = now /\ UNCHANGED books /\ UNCHANGED shares /\ UNCHANGED collateral /\ UNCHANGED lending
    BY DEF vars
  <1>2. now \in Nat
    BY DEF IInv, TypeOK
  <1>3. SoundBooks(pool, vault)' /\ PricesKept
    BY <1>1, <1>2, IdleBooks
  <1>4. TypeOK' /\ LoansConfigured'
    BY <1>1 DEF IInv, TypeOK, LoansConfigured, books, shares, lending
  <1>5. QED
    BY <1>3, <1>4 DEF IInv

-----------------------------------------------------------------------------
(* The loans, and the sums the books keep of them *)

\* The loans are finitely many, each was opened owing something, and a borrower's
\* next loan is at a new address.
LoansSound ==
  /\ IsFiniteSet(loans)
  /\ \A l \in loans : l.scaled_debt > 0 /\ l.loan_id < borrower_state[l.borrower].next_loan_id

\* What the books say of the loans, by the sums they keep.
Accounts == LoansSound /\ UnitsAreOpenLoans /\ CollateralHeld

Units == [l \in Loan |-> l.scaled_debt]
Posted == [l \in Loan |-> l.collateral_amount]
TierOf == [l \in Loan |-> l.tier_at_open]
MintOf == [l \in Loan |-> l.collateral_mint]

\* The open loans of ls whose key is k, and the sum of f over them.
OpenUnder(ls, key, k) == {l \in ls : l.status = OPEN /\ key[l] = k}
OpenSum(f, ls, key, k) == SumFunctionOnSet(f, OpenUnder(ls, key, k))

LEMMA LoanFacts ==
  ASSUME NEW l \in Loan
  PROVE  /\ Units[l] = l.scaled_debt /\ Posted[l] = l.collateral_amount
         /\ TierOf[l] = l.tier_at_open /\ MintOf[l] = l.collateral_mint
         /\ Units[l] \in Nat /\ Posted[l] \in Nat
         /\ TierOf[l] \in Tiers /\ MintOf[l] \in Mints
  BY DEF Loan, Units, Posted, TierOf, MintOf

\* The two sums of the books, as sums of functions that no step changes.
LEMMA SumsOfLoans ==
  ASSUME NEW ls, ls \subseteq Loan, IsFiniteSet(ls)
  PROVE  /\ \A t : SumFunctionOnSet([l \in ls |-> l.scaled_debt],
                                    {l \in {o \in ls : o.status = OPEN} : l.tier_at_open = t})
                     = OpenSum(Units, ls, TierOf, t)
         /\ \A m : SumFunctionOnSet([l \in ls |-> l.collateral_amount],
                                    {l \in {o \in ls : o.status = OPEN} : l.collateral_mint = m})
                     = OpenSum(Posted, ls, MintOf, m)
  <1>1. /\ \A t : {l \in {o \in ls : o.status = OPEN} : l.tier_at_open = t}
                    = OpenUnder(ls, TierOf, t)
        /\ \A m : {l \in {o \in ls : o.status = OPEN} : l.collateral_mint = m}
                    = OpenUnder(ls, MintOf, m)
    BY LoanFacts DEF OpenUnder
  <1>2. \A f, key, k : \A h : (\A l \in ls : h[l] = f[l]) =>
          SumFunctionOnSet(h, OpenUnder(ls, key, k)) = OpenSum(f, ls, key, k)
    <2> TAKE f, key, k
    <2> TAKE h
    <2> HAVE \A l \in ls : h[l] = f[l]
    <2> DEFINE S == OpenUnder(ls, key, k)
    <2>1. IsFiniteSet(S) /\ \A l \in S : h[l] = f[l]
      BY FS_Subset DEF OpenUnder
    <2> HIDE DEF S
    <2>2. SumFunctionOnSet(h, S) = SumFunctionOnSet(f, S)
      BY <2>1, SumSame
    <2> QED BY <2>2 DEF S, OpenSum
  <1> DEFINE units == [l \in ls |-> l.scaled_debt]
             posted == [l \in ls |-> l.collateral_amount]
  <1>3. \A l \in ls : units[l] = Units[l] /\ posted[l] = Posted[l]
    BY LoanFacts
  <1> HIDE DEF units, posted
  <1>4. /\ \A t : SumFunctionOnSet(units, OpenUnder(ls, TierOf, t)) = OpenSum(Units, ls, TierOf, t)
        /\ \A m : SumFunctionOnSet(posted, OpenUnder(ls, MintOf, m)) = OpenSum(Posted, ls, MintOf, m)
    BY <1>2, <1>3
  <1> QED BY <1>1, <1>4, Zenon DEF units, posted

LEMMA AccountsAsSums ==
  ASSUME loans \subseteq Loan, IsFiniteSet(loans)
  PROVE  /\ UnitsAreOpenLoans <=>
              \A t \in Tiers : pool.tier_scaled_debt[t] = OpenSum(Units, loans, TierOf, t)
         /\ CollateralHeld <=>
              \A m \in Mints : collateral_vault[m] = OpenSum(Posted, loans, MintOf, m)
  BY SumsOfLoans, Zenon DEF UnitsAreOpenLoans, CollateralHeld, OpenLoans

LEMMA AccountsAsSumsNext ==
  ASSUME loans' \subseteq Loan, IsFiniteSet(loans')
  PROVE  /\ UnitsAreOpenLoans' <=>
              \A t \in Tiers : pool'.tier_scaled_debt[t] = OpenSum(Units, loans', TierOf, t)
         /\ CollateralHeld' <=>
              \A m \in Mints : collateral_vault'[m] = OpenSum(Posted, loans', MintOf, m)
  BY SumsOfLoans, Zenon DEF UnitsAreOpenLoans, CollateralHeld, OpenLoans

\* A new open loan x adds its value under its own key, and only there.
Adds(f, key, ls, x, k) ==
  /\ key[x] = k => OpenSum(f, ls \cup {x}, key, k) = OpenSum(f, ls, key, k) + f[x]
  /\ key[x] # k => OpenSum(f, ls \cup {x}, key, k) = OpenSum(f, ls, key, k)

\* Closing x, of which c is left, takes its value off the sum under its key,
\* which is at least that value, and only there.
Takes(f, key, ls, x, c, k) ==
  /\ OpenSum(f, ls, key, k) \in Nat
  /\ key[x] = k => /\ f[x] <= OpenSum(f, ls, key, k)
                   /\ OpenSum(f, (ls \ {x}) \cup {c}, key, k) = OpenSum(f, ls, key, k) - f[x]
  /\ key[x] # k => OpenSum(f, (ls \ {x}) \cup {c}, key, k) = OpenSum(f, ls, key, k)

LEMMA OpenedSum ==
  ASSUME NEW ls, IsFiniteSet(ls), NEW x, x \notin ls, x.status = OPEN,
         NEW f, \A l \in ls \cup {x} : f[l] \in Nat, NEW key, NEW k
  PROVE  Adds(f, key, ls, x, k)
  <1> DEFINE S == OpenUnder(ls, key, k)
  <1>1. IsFiniteSet(S) /\ x \notin S /\ \A l \in S \cup {x} : f[l] \in Int
    BY FS_Subset DEF OpenUnder
  <1>2. /\ key[x] = k => OpenUnder(ls \cup {x}, key, k) = S \cup {x}
        /\ key[x] # k => OpenUnder(ls \cup {x}, key, k) = S
    BY DEF OpenUnder
  <1> HIDE DEF S
  <1>3. SumFunctionOnSet(f, S \cup {x}) = SumFunctionOnSet(f, S) + f[x]
    BY <1>1, SumAdd
  <1> QED BY <1>2, <1>3 DEF OpenSum, Adds, S

LEMMA ClosedSum ==
  ASSUME NEW ls, IsFiniteSet(ls), NEW x \in ls, x.status = OPEN, NEW c, c.status # OPEN,
         NEW f, \A l \in ls : f[l] \in Nat, NEW key, NEW k
  PROVE  Takes(f, key, ls, x, c, k)
  <1> DEFINE S == OpenUnder(ls, key, k)
             R == S \ {x}
  <1>1. /\ IsFiniteSet(S) /\ IsFiniteSet(R)
        /\ (\A l \in S : f[l] \in Nat) /\ (\A l \in R : f[l] \in Nat)
    BY FS_Subset DEF OpenUnder
  <1>2. /\ OpenUnder((ls \ {x}) \cup {c}, key, k) = R
        /\ key[x] = k => x \in S
        /\ key[x] # k => R = S
    BY DEF OpenUnder
  <1> HIDE DEF S, R
  <1>3. SumFunctionOnSet(f, S) \in Nat /\ SumFunctionOnSet(f, R) \in Nat /\ f[x] \in Nat
    BY <1>1, SumNat
  <1>4. x \in S => SumFunctionOnSet(f, S) = f[x] + SumFunctionOnSet(f, S \ {x})
    BY <1>1, SumRemove
  <1>5. /\ OpenSum(f, ls, key, k) = SumFunctionOnSet(f, S)
        /\ OpenSum(f, (ls \ {x}) \cup {c}, key, k) = SumFunctionOnSet(f, R)
    BY <1>2, Zenon DEF OpenSum, S
  <1>6. x \in S => SumFunctionOnSet(f, S) = f[x] + SumFunctionOnSet(f, R)
    BY <1>4 DEF R
  <1> QED BY <1>2, <1>3, <1>5, <1>6 DEF Takes

\* The same of the books' two sums.
LEMMA OpenedLoan ==
  ASSUME NEW ls, ls \subseteq Loan, IsFiniteSet(ls), NEW x, x \in Loan, x \notin ls,
         x.status = OPEN
  PROVE  \A k : Adds(Units, TierOf, ls, x, k) /\ Adds(Posted, MintOf, ls, x, k)
  <1>1. (\A l \in ls \cup {x} : Units[l] \in Nat) /\ (\A l \in ls \cup {x} : Posted[l] \in Nat)
    BY LoanFacts
  <1> QED BY <1>1, OpenedSum

LEMMA ClosedLoan ==
  ASSUME NEW ls, ls \subseteq Loan, IsFiniteSet(ls), NEW x \in ls, x.status = OPEN,
         NEW c, c.status # OPEN
  PROVE  \A k : Takes(Units, TierOf, ls, x, c, k) /\ Takes(Posted, MintOf, ls, x, c, k)
  <1>1. (\A l \in ls : Units[l] \in Nat) /\ (\A l \in ls : Posted[l] \in Nat)
    BY LoanFacts
  <1> QED BY <1>1, ClosedSum

-----------------------------------------------------------------------------
(* Every instruction keeps the accounts *)

LEMMA InitAccounts == Init => Accounts
  <1> SUFFICES ASSUME Init PROVE Accounts
    OBVIOUS
  <1>1. loans = {} /\ IsFiniteSet(loans)
    BY FS_EmptySet DEF Init
  <1>2. \A t \in Tiers : pool.tier_scaled_debt[t] = 0
    BY DEF Init
  <1>3. \A m \in Mints : collateral_vault[m] = 0
    BY DEF Init
  <1>4. \A f, key, k : OpenSum(f, loans, key, k) = 0
    BY <1>1, SumEmpty DEF OpenSum, OpenUnder
  <1>5. loans \subseteq Loan
    BY <1>1
  <1> QED BY <1>1, <1>2, <1>3, <1>4, <1>5, AccountsAsSums DEF Accounts, LoansSound

\* Accrual moves the indexes, never the units.
LEMMA AccrualKeepsAccounts ==
  ASSUME IInv, Accounts, UNCHANGED lending,
         pool'.tier_scaled_debt = pool.tier_scaled_debt
  PROVE  Accounts'
  BY DEF Accounts, LoansSound, UnitsAreOpenLoans, CollateralHeld, OpenLoans, lending

LEMMA BorrowAccounts ==
  ASSUME IInv, IInv', Accounts, NEW b \in Borrowers, NEW tier \in Tiers,
         NEW amount \in Nat, NEW m \in Mints, NEW posted \in Nat,
         NEW update \in PriceUpdates, Borrow(b, tier, amount, m, posted, update)
  PROVE  Accounts'
  <1> DEFINE scaled(p) == ScaledDebt(amount, p.tier_index[tier])
             id == borrower_state[b].next_loan_id
             loan(p) == [borrower |-> b, loan_id |-> id,
               tier_at_open |-> tier, principal |-> amount, scaled_debt |-> scaled(p),
               collateral_mint |-> m, collateral_amount |-> posted,
               opened_at |-> now, due_at |-> now + LOAN_TERM_SECS, status |-> OPEN]
             lent(p) == [p EXCEPT !.tier_scaled_debt[tier] = @ + scaled(p),
                                  !.total_borrowed = @ + amount]
  <1>1. PICK p \in AccruedNow :
          /\ amount > 0
          /\ collateral_vault' = [collateral_vault EXCEPT ![m] = @ + posted]
          /\ pool' = lent(p)
          /\ loans' = loans \cup {loan(p)}
          /\ borrower_state' = [borrower_state EXCEPT ![b].next_loan_id = @ + 1,
                                                      ![b].open_loans = @ + 1]
    BY DEF Borrow
  <1>2. p.tier_scaled_debt = pool.tier_scaled_debt /\ p \in PoolConfig
    BY AccrueSound DEF IInv, SoundBooks
  <1>owes. scaled(p) > 0
    <2> DEFINE index == p.tier_index[tier]
               units == ScaledDebt(amount, index)
    <2>1. index \in Nat \ {0} /\ WAD \in Nat \ {0}
      BY AccrueSound, ScaleAssumption DEF IInv, SoundBooks, PoolConfig
    <2> HIDE DEF index
    <2>2. units \in Nat /\ units * index >= amount * WAD
      BY <2>1, ScaledDebtCovers
    <2> HIDE DEF units
    <2>3. amount * WAD > 0
      BY <1>1, <2>1
    <2>4. units # 0
      BY <2>1, <2>2, <2>3
    <2>5. units > 0
      BY <2>2, <2>4
    <2> QED BY <2>5 DEF units, index
  <1> DEFINE x == loan(p)
  <1>3. /\ x.borrower = b /\ x.loan_id = id /\ x.status = OPEN
        /\ x.tier_at_open = tier /\ x.scaled_debt = scaled(p)
        /\ x.collateral_mint = m /\ x.collateral_amount = posted
    OBVIOUS
  <1>4. pool'.tier_scaled_debt = [pool.tier_scaled_debt EXCEPT ![tier] = @ + scaled(p)]
    BY <1>1, <1>2 DEF PoolConfig
  <1> HIDE DEF x, lent, loan, scaled
  <1>owed. x.scaled_debt > 0
    BY <1>3, <1>owes
  <1>5. loans' = loans \cup {x}
    BY <1>1 DEF x
  <1>6. loans \subseteq Loan /\ x \in Loan /\ loans' \subseteq Loan
    BY <1>5 DEF IInv, TypeOK
  <1>7. /\ IsFiniteSet(loans)
        /\ \A l \in loans : l.scaled_debt > 0 /\ l.loan_id < borrower_state[l.borrower].next_loan_id
    BY DEF Accounts, LoansSound
  <1>8. /\ borrower_state \in [Borrowers -> BorrowerState]
        /\ \A l \in Loan : l.borrower \in Borrowers /\ l.loan_id \in Nat
    BY DEF IInv, TypeOK, Loan
  <1>9. x \notin loans
    BY <1>3, <1>6, <1>7, <1>8
  <1>10. LoansSound'
    <2>1. IsFiniteSet(loans')
      BY <1>5, <1>7, FS_AddElement
    <2>2. \A a \in Borrowers : /\ borrower_state[a].next_loan_id \in Nat
                               /\ borrower_state'[a].next_loan_id =
                                    IF a = b THEN id + 1 ELSE borrower_state[a].next_loan_id
      BY <1>1, <1>8 DEF BorrowerState
    <2>3. ASSUME NEW l \in loans'
          PROVE  l.scaled_debt > 0 /\ l.loan_id < borrower_state'[l.borrower].next_loan_id
      BY <1>3, <1>5, <1>6, <1>7, <1>8, <1>owed, <2>2
    <2> QED BY <2>1, <2>3 DEF LoansSound
  <1>11. IsFiniteSet(loans')
    BY <1>10 DEF LoansSound
  <1>12. /\ \A k : Adds(Units, TierOf, loans, x, k) /\ Adds(Posted, MintOf, loans, x, k)
         /\ Units[x] = scaled(p) /\ Posted[x] = posted /\ TierOf[x] = tier /\ MintOf[x] = m
    BY <1>3, <1>6, <1>7, <1>9, OpenedLoan, LoanFacts
  <1>13. /\ \A t \in Tiers : pool.tier_scaled_debt[t] = OpenSum(Units, loans, TierOf, t)
         /\ \A n \in Mints : collateral_vault[n] = OpenSum(Posted, loans, MintOf, n)
    BY <1>6, <1>7, AccountsAsSums DEF Accounts
  <1>14. \A t \in Tiers : pool'.tier_scaled_debt[t] = OpenSum(Units, loans', TierOf, t)
    <2>1. \A t : /\ tier = t => OpenSum(Units, loans', TierOf, t) =
                                OpenSum(Units, loans, TierOf, t) + scaled(p)
                 /\ tier # t => OpenSum(Units, loans', TierOf, t) = OpenSum(Units, loans, TierOf, t)
      BY <1>3, <1>5, <1>12 DEF Adds
    <2>2. pool.tier_scaled_debt \in [Tiers -> Nat]
      BY DEF IInv, TypeOK, PoolConfig
    <2> QED BY <1>4, <1>13, <2>1, <2>2
  <1>15. \A n \in Mints : collateral_vault'[n] = OpenSum(Posted, loans', MintOf, n)
    <2>1. \A n : /\ m = n => OpenSum(Posted, loans', MintOf, n) =
                                OpenSum(Posted, loans, MintOf, n) + posted
                 /\ m # n => OpenSum(Posted, loans', MintOf, n) = OpenSum(Posted, loans, MintOf, n)
      BY <1>3, <1>5, <1>12 DEF Adds
    <2>2. /\ collateral_vault \in [Mints -> Nat]
          /\ collateral_vault' = [collateral_vault EXCEPT ![m] = @ + posted]
      BY <1>1 DEF IInv, TypeOK
    <2> QED BY <1>13, <2>1, <2>2
  <1>16. UnitsAreOpenLoans' /\ CollateralHeld'
    BY <1>6, <1>11, <1>14, <1>15, AccountsAsSumsNext
  <1> QED BY <1>10, <1>16 DEF Accounts

\* What the books hold for an open loan is enough to close it.
LEMMA OpenLoanCovered ==
  ASSUME IInv, Accounts, NEW l \in OpenLoans
  PROVE  /\ l.scaled_debt <= pool.tier_scaled_debt[l.tier_at_open]
         /\ l.collateral_amount <= collateral_vault[l.collateral_mint]
  <1>1. loans \subseteq Loan /\ IsFiniteSet(loans) /\ l \in loans /\ l.status = OPEN
    BY DEF IInv, TypeOK, Accounts, LoansSound, OpenLoans
  <1>2. /\ \A t \in Tiers : pool.tier_scaled_debt[t] = OpenSum(Units, loans, TierOf, t)
        /\ \A m \in Mints : collateral_vault[m] = OpenSum(Posted, loans, MintOf, m)
    BY <1>1, AccountsAsSums DEF Accounts
  <1>3. \E c : c.status # OPEN
    <2>1. [l EXCEPT !.status = REPAID].status # OPEN
      BY <1>1 DEF Loan, OPEN, REPAID
    <2> QED BY <2>1
  <1>4. PICK c : \A k : Takes(Units, TierOf, loans, l, c, k) /\ Takes(Posted, MintOf, loans, l, c, k)
    BY <1>1, <1>3, ClosedLoan
  <1>5. /\ Units[l] = l.scaled_debt /\ Posted[l] = l.collateral_amount
        /\ TierOf[l] = l.tier_at_open /\ MintOf[l] = l.collateral_mint
        /\ l.tier_at_open \in Tiers /\ l.collateral_mint \in Mints
    BY <1>1, LoanFacts
  <1> QED BY <1>2, <1>4, <1>5 DEF Takes

\* Repay and liquidate: the loan's units and its collateral leave the books.
LEMMA CloseAccounts ==
  ASSUME IInv, IInv', Accounts, NEW l \in loans, l.status = OPEN,
         NEW status, status # OPEN,
         loans' = (loans \ {l}) \cup {[l EXCEPT !.status = status]},
         pool'.tier_scaled_debt =
           [pool.tier_scaled_debt EXCEPT ![l.tier_at_open] = @ - l.scaled_debt],
         collateral_vault' =
           [collateral_vault EXCEPT ![l.collateral_mint] = @ - l.collateral_amount],
         \A b \in Borrowers : borrower_state'[b].next_loan_id = borrower_state[b].next_loan_id
  PROVE  Accounts'
  <1> DEFINE c == [l EXCEPT !.status = status]
  <1>1. /\ loans \subseteq Loan /\ loans' \subseteq Loan /\ l \in Loan
        /\ IsFiniteSet(loans)
        /\ \A x \in loans : x.scaled_debt > 0 /\ x.loan_id < borrower_state[x.borrower].next_loan_id
    BY DEF IInv, TypeOK, Accounts, LoansSound
  <1>2. /\ c.status = status /\ c.borrower = l.borrower /\ c.loan_id = l.loan_id
        /\ c.scaled_debt = l.scaled_debt /\ c \in Loan
    BY <1>1 DEF Loan
  <1> HIDE DEF c
  <1>3. loans' = (loans \ {l}) \cup {c}
    BY DEF c
  <1>4. IsFiniteSet(loans')
    <2> DEFINE rest == loans \ {l}
    <2>1. IsFiniteSet(rest)
      BY <1>1, FS_RemoveElement
    <2> HIDE DEF rest
    <2>2. IsFiniteSet(rest \cup {c})
      BY <2>1, FS_AddElement
    <2> QED BY <1>3, <2>2 DEF rest
  <1>5. LoansSound'
    <2>1. \A x \in Loan : x.borrower \in Borrowers
      BY DEF Loan
    <2>2. ASSUME NEW x \in loans'
          PROVE  x.scaled_debt > 0 /\ x.loan_id < borrower_state'[x.borrower].next_loan_id
      BY <1>1, <1>2, <1>3, <2>1
    <2> QED BY <1>4, <2>2 DEF LoansSound
  <1>6. /\ \A x \in loans : Units[x] \in Nat /\ Posted[x] \in Nat
        /\ Units[l] = l.scaled_debt /\ Posted[l] = l.collateral_amount
        /\ TierOf[l] = l.tier_at_open /\ MintOf[l] = l.collateral_mint
        /\ l.scaled_debt \in Nat /\ l.collateral_amount \in Nat
        /\ l.tier_at_open \in Tiers /\ l.collateral_mint \in Mints
    BY <1>1, LoanFacts
  <1>7. /\ \A t \in Tiers : pool.tier_scaled_debt[t] = OpenSum(Units, loans, TierOf, t)
        /\ \A m \in Mints : collateral_vault[m] = OpenSum(Posted, loans, MintOf, m)
    BY <1>1, AccountsAsSums DEF Accounts
  <1>8. \A k : Takes(Units, TierOf, loans, l, c, k) /\ Takes(Posted, MintOf, loans, l, c, k)
    BY <1>1, <1>2, ClosedLoan
  <1>9. \A t \in Tiers : pool'.tier_scaled_debt[t] = OpenSum(Units, loans', TierOf, t)
    <2>1. \A t : /\ OpenSum(Units, loans, TierOf, t) \in Nat
                 /\ l.tier_at_open = t => OpenSum(Units, loans', TierOf, t) =
                       OpenSum(Units, loans, TierOf, t) - l.scaled_debt
                 /\ l.tier_at_open # t => OpenSum(Units, loans', TierOf, t) = OpenSum(Units, loans, TierOf, t)
      BY <1>3, <1>6, <1>8 DEF Takes
    <2>2. pool.tier_scaled_debt \in [Tiers -> Nat]
      BY DEF IInv, TypeOK, PoolConfig
    <2>3. \A t \in Tiers :
            /\ l.tier_at_open = t =>
                 pool'.tier_scaled_debt[t] = pool.tier_scaled_debt[t] - l.scaled_debt
            /\ l.tier_at_open # t => pool'.tier_scaled_debt[t] = pool.tier_scaled_debt[t]
      BY <2>2
    <2> QED BY <1>7, <2>1, <2>3
  <1>10. \A m \in Mints : collateral_vault'[m] = OpenSum(Posted, loans', MintOf, m)
    <2>1. \A m : /\ OpenSum(Posted, loans, MintOf, m) \in Nat
                 /\ l.collateral_mint = m => OpenSum(Posted, loans', MintOf, m) =
                       OpenSum(Posted, loans, MintOf, m) - l.collateral_amount
                 /\ l.collateral_mint # m => OpenSum(Posted, loans', MintOf, m) = OpenSum(Posted, loans, MintOf, m)
      BY <1>3, <1>6, <1>8 DEF Takes
    <2>2. collateral_vault \in [Mints -> Nat]
      BY DEF IInv, TypeOK
    <2>3. \A m \in Mints :
            /\ l.collateral_mint = m =>
                 collateral_vault'[m] = collateral_vault[m] - l.collateral_amount
            /\ l.collateral_mint # m => collateral_vault'[m] = collateral_vault[m]
      BY <2>2
    <2> QED BY <1>7, <2>1, <2>3
  <1>11. UnitsAreOpenLoans' /\ CollateralHeld'
    BY <1>1, <1>4, <1>9, <1>10, AccountsAsSumsNext
  <1> QED BY <1>5, <1>11 DEF Accounts

LEMMA RepayAccounts ==
  ASSUME IInv, IInv', Accounts, NEW l \in loans, Repay(l)
  PROVE  Accounts'
  <1> DEFINE debt(p) == Debt(p, l)
             closed(p) == RemoveDebt(p, l.tier_at_open, l.scaled_debt, debt(p))
  <1>1. PICK p \in AccruedNow :
          /\ l.status = OPEN
          /\ loans' = (loans \ {l}) \cup {[l EXCEPT !.status = REPAID]}
          /\ collateral_vault' =
               [collateral_vault EXCEPT ![l.collateral_mint] = @ - l.collateral_amount]
          /\ pool' = closed(p)
          /\ borrower_state' =
               [borrower_state EXCEPT
                  ![l.borrower].open_loans = SatSub(@, 1),
                  ![l.borrower].largest_repaid = IF RepayOutcome(now, l.due_at) = ON_TIME
                                                 THEN Larger(@, l.principal) ELSE @]
    BY DEF Repay, CloseLoan
  <1>2. p \in PoolConfig /\ p.tier_scaled_debt = pool.tier_scaled_debt
    BY AccrueSound DEF IInv, SoundBooks
  <1> HIDE DEF debt
  <1>3. pool'.tier_scaled_debt =
          [pool.tier_scaled_debt EXCEPT ![l.tier_at_open] = @ - l.scaled_debt]
    BY <1>1, <1>2 DEF PoolConfig, RemoveDebt
  <1>4. \A b \in Borrowers : borrower_state'[b].next_loan_id = borrower_state[b].next_loan_id
    <2>1. borrower_state \in [Borrowers -> BorrowerState]
      BY DEF IInv, TypeOK
    <2> QED BY <1>1, <2>1 DEF BorrowerState
  <1>5. REPAID # OPEN
    BY DEF REPAID, OPEN
  <1> QED BY <1>1, <1>3, <1>4, <1>5, CloseAccounts

LEMMA LiquidateAccounts ==
  ASSUME IInv, IInv', Accounts, NEW l \in loans, NEW update \in PriceUpdates,
         Liquidate(l, update)
  PROVE  Accounts'
  <1> DEFINE m == l.collateral_mint
             debt(p) == Debt(p, l)
             split(p) == LiquidationSplit(debt(p), l.collateral_amount, LowPrice(update),
                                          collateral[m].bonus)
             closed(p) == RemoveDebt(p, l.tier_at_open, l.scaled_debt, debt(p))
             status == IF InDefault(now, l.due_at) THEN LOAN_DEFAULTED ELSE LOAN_LIQUIDATED
  <1>1. PICK p \in AccruedNow :
          /\ l.status = OPEN
          /\ UsablePrice(update, collateral[m])
          /\ l.scaled_debt <= p.tier_scaled_debt[l.tier_at_open]
          /\ loans' = (loans \ {l}) \cup {[l EXCEPT !.status = status]}
          /\ collateral_vault' =
               [collateral_vault EXCEPT ![m] = @ - split(p).seize - split(p).back]
          /\ pool' = WriteOff(closed(p), split(p).bad_debt)
          /\ borrower_state' = [borrower_state EXCEPT ![l.borrower].open_loans = SatSub(@, 1)]
    BY Zenon DEF Liquidate, CloseLoan
  <1>2. p \in PoolConfig /\ p.tier_scaled_debt = pool.tier_scaled_debt
    BY AccrueSound DEF IInv, SoundBooks
  <1>3. /\ l \in Loan /\ l.tier_at_open \in Tiers /\ l.scaled_debt \in Nat
        /\ l.collateral_amount \in Nat /\ m \in Mints
        /\ collateral_vault \in [Mints -> Nat]
    BY DEF IInv, TypeOK, Loan
  <1>4. debt(p) \in Nat
    <2>1. p.tier_index[l.tier_at_open] \in Nat
      BY <1>2, <1>3 DEF PoolConfig
    <2> QED BY <1>3, <2>1, DebtNowCovers DEF Debt
  <1>5. LowPrice(update) \in Nat \ {0} /\ collateral[m].bonus \in Nat
    <2>1. collateral[m] \in RiskParams
      BY DEF IInv, LoansConfigured
    <2>2. update.price \in Int /\ update.conf \in Nat /\ collateral[m].bonus \in Nat
      BY <2>1, InputAssumption
    <2> QED BY <1>1, <2>2 DEF UsablePrice, LowPrice
  <1> HIDE DEF debt
  <1>6. /\ split(p).seize \in Nat /\ split(p).back \in Nat
        /\ split(p).seize + split(p).back = l.collateral_amount
    BY <1>3, <1>4, <1>5, SplitIsExact
  <1>7. closed(p) \in PoolConfig
        /\ closed(p).tier_scaled_debt =
             [p.tier_scaled_debt EXCEPT ![l.tier_at_open] = @ - l.scaled_debt]
    <2>1. closed(p) \in PoolConfig
      BY <1>1, <1>2, <1>3, <1>4, RemoveDebtTyped
    <2> QED BY <1>2, <2>1 DEF RemoveDebt, PoolConfig
  <1> HIDE DEF closed, split, status
  <1>8. pool'.tier_scaled_debt = closed(p).tier_scaled_debt
    BY <1>1, <1>7 DEF WriteOff, PoolConfig
  <1>9. collateral_vault' = [collateral_vault EXCEPT ![m] = @ - l.collateral_amount]
    <2>1. collateral_vault[m] - split(p).seize - split(p).back
            = collateral_vault[m] - l.collateral_amount
      BY <1>3, <1>6
    <2> QED BY <1>1, <2>1
  <1>10. \A b \in Borrowers : borrower_state'[b].next_loan_id = borrower_state[b].next_loan_id
    <2>1. borrower_state \in [Borrowers -> BorrowerState]
      BY DEF IInv, TypeOK
    <2> QED BY <1>1, <2>1 DEF BorrowerState
  <1>11. status # OPEN
    BY DEF LOAN_DEFAULTED, LOAN_LIQUIDATED, OPEN, status
  <1>12. pool'.tier_scaled_debt =
           [pool.tier_scaled_debt EXCEPT ![l.tier_at_open] = @ - l.scaled_debt]
    BY <1>2, <1>7, <1>8
  <1> QED BY <1>1, <1>9, <1>10, <1>11, <1>12, CloseAccounts

LEMMA UserStepAccounts ==
  ASSUME IInv, IInv', Accounts, UserStep
  PROVE  Accounts'
  <1>1. CASE \/ AccrueInterest
             \/ \E lender \in Lenders, amount \in Nat : Deposit(lender, amount)
             \/ \E lender \in Lenders, burned \in Nat : Withdraw(lender, burned)
    <2>1. \E p \in AccruedNow : pool' = p /\ UNCHANGED lending
      BY <1>1 DEF AccrueInterest, Deposit, Withdraw
    <2> QED BY <2>1, AccrueSound, AccrualKeepsAccounts DEF IInv
  <1>2. CASE \E b \in Borrowers, tier \in Tiers, amount \in Nat, m \in Mints,
               posted \in Nat, update \in PriceUpdates :
               Borrow(b, tier, amount, m, posted, update)
    BY <1>2, BorrowAccounts
  <1>3. CASE \E l \in loans : Repay(l) \/ \E update \in PriceUpdates : Liquidate(l, update)
    BY <1>3, RepayAccounts, LiquidateAccounts
  <1> QED BY <1>1, <1>2, <1>3 DEF UserStep

LEMMA NextAccounts ==
  ASSUME IInv, IInv', Accounts, [Next]_vars
  PROVE  Accounts'
  <1>1. ASSUME UNCHANGED vars PROVE Accounts'
    BY <1>1, AccrualKeepsAccounts DEF vars, books
  <1>2. CASE AdminStep \/ Tick
    BY <1>2, AccrualKeepsAccounts DEF AdminStep, AddCollateral, Tick, books
  <1>3. CASE UserStep
    BY <1>3, UserStepAccounts
  <1> QED BY <1>1, <1>2, <1>3, NextIsUserStep

\* The debts of the open loans, each rounded up, cover the tiers' re-priced
\* units, each tier rounded down.
LEMMA DebtsCoverUnits ==
  ASSUME IInv, Accounts
  PROVE  Repriced(pool.tier_scaled_debt, pool.tier_index)
           <= SumFunctionOnSet([l \in loans |-> Debt(pool, l)], OpenLoans)
  <1> DEFINE debts == [l \in loans |-> Debt(pool, l)]
             tier(t) == OpenUnder(loans, TierOf, t)
             owed(t) == (pool.tier_scaled_debt[t] * pool.tier_index[t]) \div WAD
             due(t) == SumFunctionOnSet(debts, tier(t))
  <1>1. /\ loans \subseteq Loan /\ IsFiniteSet(loans)
        /\ pool.tier_index \in [Tiers -> Nat] /\ pool.tier_scaled_debt \in [Tiers -> Nat]
    BY DEF IInv, TypeOK, PoolConfig, Accounts, LoansSound
  <1>2. WAD \in Nat \ {0} /\ WAD \in Nat
    BY ScaleAssumption
  <1>3. \A t : tier(t) \subseteq loans /\ IsFiniteSet(tier(t))
    BY <1>1, FS_Subset DEF OpenUnder
  <1>4. ASSUME NEW t \in Tiers, NEW l \in tier(t)
        PROVE  /\ debts[l] \in Nat /\ Units[l] \in Nat
               /\ pool.tier_index[t] * Units[l] <= WAD * debts[l]
    <2>1. l \in loans /\ l \in Loan /\ TierOf[l] = t
      BY <1>1 DEF OpenUnder
    <2>2. Units[l] = l.scaled_debt /\ l.tier_at_open = t /\ Units[l] \in Nat
      BY <2>1, LoanFacts
    <2>3. debts[l] = DebtNow(l.scaled_debt, pool.tier_index[t])
      BY <2>1, <2>2 DEF Debt
    <2>4. pool.tier_index[t] \in Nat
      BY <1>1
    <2> HIDE DEF debts
    <2>5. debts[l] \in Nat /\ debts[l] * WAD >= Units[l] * pool.tier_index[t]
      BY <2>2, <2>3, <2>4, DebtNowCovers
    <2> QED BY <1>2, <2>2, <2>4, <2>5
  <1> HIDE DEF debts
  <1>5. ASSUME NEW t \in Tiers
        PROVE  due(t) \in Nat /\ owed(t) \in Nat /\ owed(t) <= due(t)
    <2> DEFINE S == tier(t)
               i == pool.tier_index[t]
               u == pool.tier_scaled_debt[t]
    <2>1. IsFiniteSet(S) /\ i \in Nat /\ u \in Nat
      BY <1>1, <1>3
    <2>2. /\ \A l \in S : debts[l] \in Nat
          /\ \A l \in S : Units[l] \in Int /\ debts[l] \in Int /\ i * Units[l] <= WAD * debts[l]
      BY <1>4
    <2>3. u = SumFunctionOnSet(Units, S)
      BY <1>1, AccountsAsSums DEF Accounts, OpenSum
    <2> HIDE DEF S, i, u, tier
    <2>4. SumFunctionOnSet(debts, S) \in Nat
      BY <2>1, <2>2, SumNat
    <2>5. i * SumFunctionOnSet(Units, S) <= WAD * SumFunctionOnSet(debts, S)
      BY <1>2, <2>1, <2>2, SumScaled
    <2> DEFINE d == SumFunctionOnSet(debts, S)
               q == (u * i) \div WAD
    <2>6. d \in Nat /\ u * i <= WAD * d /\ u * i \in Nat
      BY <2>1, <2>3, <2>4, <2>5
    <2>7. q \in Nat /\ q * WAD <= u * i
      BY <1>2, <2>6, DivBounds
    <2> HIDE DEF d, q
    <2>8. q * WAD <= d * WAD
      BY <1>2, <2>1, <2>6, <2>7
    <2>9. q <= d
      BY <1>2, <2>6, <2>7, <2>8
    <2> QED BY <2>6, <2>7, <2>9 DEF d, q, S, i, u
  <1>6. 0 \in Tiers /\ 1 \in Tiers /\ 2 \in Tiers /\ 3 \in Tiers
    BY DEF Tiers
  <1>7. SumFunctionOnSet(debts, OpenLoans) = due(0) + due(1) + due(2) + due(3)
    <2>1. \A t \in Tiers : \A l \in tier(t) : debts[l] \in Int
      BY <1>4
    <2>2. \A s, t \in Tiers : s # t => tier(s) \cap tier(t) = {}
      BY DEF OpenUnder
    <2>3. OpenLoans = (tier(0) \cup tier(1)) \cup (tier(2) \cup tier(3))
      <3>1. \A l \in loans : TierOf[l] \in {0, 1, 2, 3}
        BY <1>1, LoanFacts DEF Tiers
      <3> QED BY <3>1 DEF OpenLoans, OpenUnder
    <2> DEFINE A == tier(0)
               B == tier(1)
               C == tier(2)
               D == tier(3)
               L == A \cup B
               H == C \cup D
    <2>4. IsFiniteSet(A) /\ IsFiniteSet(B) /\ IsFiniteSet(C) /\ IsFiniteSet(D)
      BY <1>3
    <2>5. A \cap B = {} /\ C \cap D = {} /\ L \cap H = {}
      BY <1>6, <2>2
    <2>6. /\ \A l \in A \cup B : debts[l] \in Int
          /\ \A l \in C \cup D : debts[l] \in Int
          /\ \A l \in L \cup H : debts[l] \in Int
      BY <1>6, <2>1
    <2> HIDE DEF A, B, C, D
    <2>7. /\ SumFunctionOnSet(debts, A \cup B) = SumFunctionOnSet(debts, A) + SumFunctionOnSet(debts, B)
          /\ SumFunctionOnSet(debts, C \cup D) = SumFunctionOnSet(debts, C) + SumFunctionOnSet(debts, D)
      BY <2>4, <2>5, <2>6, SumUnion
    <2>8. IsFiniteSet(L) /\ IsFiniteSet(H)
      BY <2>4, FS_Union
    <2> HIDE DEF L, H
    <2>9. SumFunctionOnSet(debts, L \cup H) = SumFunctionOnSet(debts, L) + SumFunctionOnSet(debts, H)
      BY <2>5, <2>6, <2>8, SumUnion
    <2>10. /\ due(0) \in Nat /\ due(1) \in Nat /\ due(2) \in Nat /\ due(3) \in Nat
      BY <1>5, <1>6
    <2> QED BY <2>3, <2>7, <2>9, <2>10 DEF A, B, C, D, L, H
  <1>8. Repriced(pool.tier_scaled_debt, pool.tier_index) = owed(0) + owed(1) + owed(2) + owed(3)
    BY DEF Repriced
  <1> HIDE DEF owed, due
  <1> QED BY <1>5, <1>6, <1>7, <1>8 DEF debts

-----------------------------------------------------------------------------
(* A loan opens out of reach of a liquidator *)

\* Rounding up adds less than one.
LEMMA CeilDivTight ==
  ASSUME NEW a \in Nat, NEW b \in Nat \ {0}
  PROVE  CeilDiv(a, b) * b < a + b
  <1> DEFINE q == (a + b - 1) \div b
  <1>1. a + b - 1 \in Nat
    OBVIOUS
  <1>2. q \in Nat /\ q * b <= a + b - 1
    BY <1>1, DivBounds
  <1> HIDE DEF q
  <1>3. q * b < a + b
    BY <1>2
  <1> QED BY <1>3 DEF CeilDiv, q

\* The units a loan's debt was rounded up by set aside, a new loan owes no more
\* than was borrowed.
LEMMA NewDebt ==
  ASSUME NEW amount \in Nat, NEW index \in Nat \ {0}
  PROVE  LET debt == DebtNow(ScaledDebt(amount, index), index)
         IN  debt \in Nat /\ CeilDiv(index, WAD) \in Nat /\ debt - CeilDiv(index, WAD) <= amount
  <1> DEFINE s == ScaledDebt(amount, index)
             d == DebtNow(s, index)
             r == CeilDiv(index, WAD)
  <1>1. WAD \in Nat \ {0} /\ amount * WAD \in Nat
    BY ScaleAssumption
  <1>2. s \in Nat /\ s * index < amount * WAD + index
    BY <1>1, CeilDivCovers, CeilDivTight DEF ScaledDebt
  <1> HIDE DEF s
  <1>3. s * index \in Nat
    BY <1>2
  <1>4. d \in Nat /\ d * WAD < s * index + WAD
    BY <1>1, <1>3, CeilDivCovers, CeilDivTight DEF DebtNow
  <1>5. r \in Nat /\ r * WAD >= index
    BY <1>1, CeilDivCovers
  <1> HIDE DEF d, r
  <1>6. (d - r) * WAD < (amount + 1) * WAD
    <2>1. (d - r) * WAD = d * WAD - r * WAD /\ (amount + 1) * WAD = amount * WAD + WAD
      BY <1>1, <1>4, <1>5
    <2>2. d * WAD \in Int /\ r * WAD \in Int
      BY <1>1, <1>4, <1>5
    <2> QED BY <1>1, <1>2, <1>3, <1>4, <1>5, <2>1, <2>2
  <1>7. d - r < amount + 1
    <2> SUFFICES ASSUME d - r >= amount + 1 PROVE FALSE
      BY <1>4, <1>5
    <2>1. (d - r) * WAD >= (amount + 1) * WAD
      BY <1>1, <1>4, <1>5
    <2> QED BY <1>1, <1>4, <1>5, <1>6, <2>1
  <1> QED BY <1>4, <1>5, <1>7 DEF d, r, s

\* Collateral is accepted only under a threshold below every tier's ratio.
ConfigsValid ==
  \A m \in Mints : collateral[m] # NoConfig =>
                     ValidRiskParams(collateral[m].threshold, collateral[m].bonus)

LEMMA ConfigsStayValid ==
  ASSUME IInv, ConfigsValid, [Next]_vars
  PROVE  ConfigsValid'
  <1>1. ASSUME NEW m \in Mints, NEW risk \in RiskParams, AddCollateral(m, risk)
        PROVE  ConfigsValid'
    <2>1. collateral' = [collateral EXCEPT ![m] = risk]
          /\ ValidRiskParams(risk.threshold, risk.bonus)
      BY <1>1 DEF AddCollateral
    <2>2. collateral \in [Mints -> RiskParams \cup {NoConfig}]
      BY DEF IInv, TypeOK
    <2> QED BY <2>1, <2>2 DEF ConfigsValid
  <1>2. ASSUME UNCHANGED collateral PROVE ConfigsValid'
    BY <1>2 DEF ConfigsValid
  <1>3. CASE AccrueInterest
    BY <1>2, <1>3 DEF AccrueInterest
  <1>4. CASE LenderStep
    BY <1>2, <1>4 DEF LenderStep, Deposit, Withdraw
  <1>5. CASE BorrowStep
    BY <1>2, <1>5 DEF BorrowStep, Borrow
  <1>6. CASE CloseStep
    <2>1. ASSUME NEW l \in loans, Repay(l) PROVE ConfigsValid'
      BY <1>2, <2>1 DEF Repay
    <2>2. ASSUME NEW l \in loans, NEW update \in PriceUpdates, Liquidate(l, update)
          PROVE  ConfigsValid'
      BY <1>2, <2>2, Zenon DEF Liquidate
    <2> QED BY <1>6, <2>1, <2>2 DEF CloseStep
  <1>7. CASE Tick \/ UNCHANGED vars
    BY <1>2, <1>7 DEF Tick, vars
  <1> QED BY <1>1, <1>3, <1>4, <1>5, <1>6, <1>7 DEF Next, AdminStep

Healthy(l, update) ==
  LET risk == collateral[l.collateral_mint]
      ratio == TierCollateralBps[l.tier_at_open]
      value == CollateralValue(l.collateral_amount, LowPrice(update))
      rounding == CeilDiv(pool'.tier_index[l.tier_at_open], WAD)
  IN  /\ l.status = OPEN
      /\ UsablePrice(update, risk) /\ EnoughCollateral(value, l.principal, ratio)
      => ~IsLiquidatable(value, Debt(pool', l) - rounding, risk.threshold)

LEMMA BorrowHealthy ==
  ASSUME IInv, ConfigsValid, NEW b \in Borrowers, NEW tier \in Tiers,
         NEW amount \in LoanAmounts, NEW m \in Mints, NEW posted \in CollateralAmounts,
         NEW with \in PriceUpdates, Borrow(b, tier, amount, m, posted, with),
         NEW l \in loans' \ loans, NEW update \in PriceUpdates
  PROVE  Healthy(l, update)
  <1> DEFINE scaled(p) == ScaledDebt(amount, p.tier_index[tier])
             loan(p) == [borrower |-> b, loan_id |-> borrower_state[b].next_loan_id,
               tier_at_open |-> tier, principal |-> amount, scaled_debt |-> scaled(p),
               collateral_mint |-> m, collateral_amount |-> posted,
               opened_at |-> now, due_at |-> now + LOAN_TERM_SECS, status |-> OPEN]
             lent(p) == [p EXCEPT !.tier_scaled_debt[tier] = @ + scaled(p),
                                  !.total_borrowed = @ + amount]
  <1>1. PICK p \in AccruedNow :
          collateral[m] # NoConfig /\ pool' = lent(p) /\ loans' = loans \cup {loan(p)}
    BY DEF Borrow
  <1>2. SoundBooks(p, vault)
    BY AccrueSound DEF IInv
  <1> DEFINE i == p.tier_index[tier]
  <1>3. p \in PoolConfig /\ i \in Nat \ {0}
    BY <1>2, ScaleAssumption DEF SoundBooks, PoolConfig
  <1>4. pool'.tier_index = p.tier_index
    BY <1>1, <1>3 DEF PoolConfig
  <1>5. l = loan(p)
    BY <1>1
  <1>6. /\ l.tier_at_open = tier /\ l.principal = amount /\ l.collateral_mint = m
        /\ l.scaled_debt = ScaledDebt(amount, i) /\ l.collateral_amount = posted
    BY <1>5
  <1> DEFINE value == CollateralValue(posted, LowPrice(update))
             owed == DebtNow(ScaledDebt(amount, i), i) - CeilDiv(i, WAD)
             threshold == collateral[m].threshold
             ratio == TierCollateralBps[tier]
  <1>7. Debt(pool', l) - CeilDiv(pool'.tier_index[tier], WAD) = owed
    BY <1>4, <1>6 DEF Debt
  <1> SUFFICES ASSUME UsablePrice(update, collateral[m]), EnoughCollateral(value, amount, ratio)
               PROVE  EnoughCollateral(value, owed, threshold)
    BY <1>6, <1>7 DEF Healthy, IsLiquidatable
  <1>8. amount \in Nat /\ posted \in Nat
    BY InputAssumption
  <1>9. threshold \in Nat /\ ratio \in Nat /\ threshold < ratio
    <2>1. collateral[m] \in RiskParams
      BY <1>1 DEF IInv, TypeOK
    <2>2. threshold \in Nat /\ threshold < 12000
      BY <1>1, <2>1, InputAssumption DEF ConfigsValid, ValidRiskParams, TierCollateralBps, Tiers
    <2>3. ratio \in Nat /\ ratio >= 12000
      BY DEF TierCollateralBps, Tiers
    <2> HIDE DEF threshold, ratio
    <2> QED BY <2>2, <2>3
  <1>10. value \in Nat
    <2>1. LowPrice(update) \in Nat
      BY InputAssumption DEF UsablePrice, LowPrice
    <2> QED BY <1>8, <2>1, ValueNat
  <1> HIDE DEF i, threshold, ratio, value
  <1>11. owed \in Int /\ owed <= amount
    BY <1>3, <1>8, NewDebt
  <1> HIDE DEF owed
  <1>12. owed * threshold <= amount * ratio
    <2>1. owed * threshold <= amount * threshold
      BY <1>8, <1>9, <1>11
    <2>2. amount * threshold <= amount * ratio
      BY <1>8, <1>9
    <2> QED BY <1>8, <1>9, <1>11, <2>1, <2>2
  <1>13. value * BPS >= amount * ratio
    BY DEF EnoughCollateral
  <1>14. value * BPS \in Int
    BY <1>10 DEF BPS
  <1>15. value * BPS >= owed * threshold
    BY <1>8, <1>9, <1>11, <1>12, <1>13, <1>14
  <1> QED BY <1>15 DEF EnoughCollateral

LEMMA StepHealthy ==
  ASSUME IInv, ConfigsValid, Next, NEW l \in loans' \ loans, NEW update \in PriceUpdates
  PROVE  Healthy(l, update)
  <1>1. CASE BorrowStep
    BY <1>1, BorrowHealthy, InputAssumption DEF BorrowStep
  <1>2. CASE CloseStep
    <2> DEFINE closed == {REPAID, LOAN_DEFAULTED, LOAN_LIQUIDATED}
    <2>a. ASSUME NEW o \in loans, Repay(o)
          PROVE  loans' = (loans \ {o}) \cup {[o EXCEPT !.status = REPAID]}
      BY <2>a, Zenon DEF Repay, CloseLoan
    <2>b. ASSUME NEW o \in loans, NEW with \in PriceUpdates, Liquidate(o, with)
          PROVE  \E status \in closed :
                   loans' = (loans \ {o}) \cup {[o EXCEPT !.status = status]}
      <3> DEFINE status == IF InDefault(now, o.due_at) THEN LOAN_DEFAULTED ELSE LOAN_LIQUIDATED
      <3>1. loans' = (loans \ {o}) \cup {[o EXCEPT !.status = status]}
        BY <2>b, Zenon DEF Liquidate, CloseLoan
      <3>2. status \in closed
        BY Zenon
      <3> QED BY <3>1, <3>2, Zenon
    <2>1. PICK o \in loans, status \in closed :
            loans' = (loans \ {o}) \cup {[o EXCEPT !.status = status]}
      BY <1>2, <2>a, <2>b, Zenon DEF CloseStep
    <2>2. l = [o EXCEPT !.status = status] /\ o \in Loan
      BY <2>1 DEF IInv, TypeOK
    <2>3. l.status # OPEN
      BY <2>1, <2>2 DEF Loan, OPEN, REPAID, LOAN_DEFAULTED, LOAN_LIQUIDATED
    <2> QED BY <2>3 DEF Healthy
  <1>3. CASE AdminStep \/ AccrueInterest \/ LenderStep \/ Tick
    <2>1. loans' = loans
      BY <1>3 DEF AdminStep, AddCollateral, AccrueInterest, LenderStep, Deposit, Withdraw,
                  Tick, lending
    <2> QED BY <2>1
  <1> QED BY <1>1, <1>2, <1>3 DEF Next

-----------------------------------------------------------------------------
(* The loans that a borrower's account counts *)

\* A borrower's account counts its loans: no two are at one address, as many were
\* opened as it has given addresses, and it knows how many are open.
CountedOf(b) == {l \in LoansOf(b) : l.status = OPEN}
LoansCounted ==
  /\ \A l, k \in loans : l.borrower = k.borrower /\ l.loan_id = k.loan_id => l = k
  /\ \A b \in Borrowers :
       /\ Cardinality(LoansOf(b)) = borrower_state[b].next_loan_id
       /\ Cardinality(CountedOf(b)) = borrower_state[b].open_loans

\* A new loan is one more of its borrower's, and open.
LEMMA BorrowCounted ==
  ASSUME IInv, Accounts, LoansCounted, NEW b \in Borrowers, NEW tier, NEW amount, NEW m,
         NEW posted, NEW update, Borrow(b, tier, amount, m, posted, update)
  PROVE  LoansCounted'
  <1> DEFINE id == borrower_state[b].next_loan_id
  <1>1. PICK x : /\ x.borrower = b /\ x.loan_id = id /\ x.status = OPEN
                 /\ loans' = loans \cup {x}
                 /\ borrower_state' = [borrower_state EXCEPT ![b].next_loan_id = @ + 1,
                                                             ![b].open_loans = @ + 1]
    <2>1. PICK p \in AccruedNow :
            /\ loans' = loans \cup
                 {[borrower |-> b, loan_id |-> borrower_state[b].next_loan_id,
                   tier_at_open |-> tier, principal |-> amount,
                   scaled_debt |-> ScaledDebt(amount, p.tier_index[tier]),
                   collateral_mint |-> m, collateral_amount |-> posted,
                   opened_at |-> now, due_at |-> now + LOAN_TERM_SECS, status |-> OPEN]}
            /\ borrower_state' = [borrower_state EXCEPT ![b].next_loan_id = @ + 1,
                                                        ![b].open_loans = @ + 1]
      BY DEF Borrow
    <2> QED BY <2>1
  <1>2. /\ borrower_state \in [Borrowers -> BorrowerState] /\ IsFiniteSet(loans)
        /\ \A l \in loans : l.borrower \in Borrowers /\ l.loan_id \in Nat
        /\ \A l \in loans : l.loan_id < borrower_state[l.borrower].next_loan_id
    BY DEF IInv, TypeOK, Loan, Accounts, LoansSound
  <1>3. id \in Nat
    BY <1>2 DEF BorrowerState
  <1>4. \A l \in loans : ~(l.borrower = b /\ l.loan_id = id)
    BY <1>2, <1>3
  <1>5. \A l, k \in loans' : l.borrower = k.borrower /\ l.loan_id = k.loan_id => l = k
    BY <1>1, <1>4 DEF LoansCounted
  <1>6. ASSUME NEW a \in Borrowers
        PROVE  /\ Cardinality(LoansOf(a)') = borrower_state'[a].next_loan_id
               /\ Cardinality(CountedOf(a)') = borrower_state'[a].open_loans
    <2>1. /\ Cardinality(LoansOf(a)) = borrower_state[a].next_loan_id
          /\ Cardinality(CountedOf(a)) = borrower_state[a].open_loans
          /\ borrower_state[a] \in BorrowerState
      BY <1>2 DEF LoansCounted
    <2>2. CASE a # b
      <3>1. LoansOf(a)' = LoansOf(a) /\ CountedOf(a)' = CountedOf(a)
        BY <1>1, <2>2 DEF LoansOf, CountedOf
      <3>2. borrower_state'[a] = borrower_state[a]
        BY <1>1, <1>2, <2>2
      <3> QED BY <2>1, <3>1, <3>2
    <2>3. CASE a = b
      <3>1. LoansOf(a)' = LoansOf(a) \cup {x} /\ CountedOf(a)' = CountedOf(a) \cup {x}
        BY <1>1, <2>3 DEF LoansOf, CountedOf
      <3>2. x \notin LoansOf(a) /\ x \notin CountedOf(a)
        BY <1>1, <1>4 DEF LoansOf, CountedOf
      <3>3. IsFiniteSet(LoansOf(a)) /\ IsFiniteSet(CountedOf(a))
        <4>1. LoansOf(a) \subseteq loans /\ CountedOf(a) \subseteq loans
          BY DEF LoansOf, CountedOf
        <4> QED BY <1>2, <4>1, FS_Subset
      <3>4. /\ Cardinality(LoansOf(a) \cup {x}) = Cardinality(LoansOf(a)) + 1
            /\ Cardinality(CountedOf(a) \cup {x}) = Cardinality(CountedOf(a)) + 1
        BY <3>2, <3>3, FS_AddElement
      <3>5. /\ borrower_state'[a].next_loan_id = borrower_state[a].next_loan_id + 1
            /\ borrower_state'[a].open_loans = borrower_state[a].open_loans + 1
        BY <1>1, <1>2, <2>1, <2>3 DEF BorrowerState
      <3> QED BY <2>1, <3>1, <3>4, <3>5
    <2> QED BY <2>2, <2>3
  <1> QED BY <1>5, <1>6 DEF LoansCounted

\* A closed loan stays its borrower's, and is one open loan less.
LEMMA CloseCounted ==
  ASSUME IInv, Accounts, LoansCounted, NEW l \in loans, l.status = OPEN,
         NEW status, status # OPEN,
         loans' = (loans \ {l}) \cup {[l EXCEPT !.status = status]},
         \A b \in Borrowers :
           /\ borrower_state'[b].next_loan_id = borrower_state[b].next_loan_id
           /\ borrower_state'[b].open_loans =
                IF b = l.borrower THEN SatSub(borrower_state[b].open_loans, 1)
                ELSE borrower_state[b].open_loans
  PROVE  LoansCounted'
  <1> DEFINE c == [l EXCEPT !.status = status]
  <1>1. /\ l \in Loan /\ IsFiniteSet(loans) /\ borrower_state \in [Borrowers -> BorrowerState]
    BY DEF IInv, TypeOK, Accounts, LoansSound
  <1>2. c.status # OPEN /\ c.borrower = l.borrower /\ c.loan_id = l.loan_id
    BY <1>1 DEF Loan
  <1>3. loans' = (loans \ {l}) \cup {c}
    OBVIOUS
  <1> HIDE DEF c
  <1>4. \A k \in loans : k.borrower = l.borrower /\ k.loan_id = l.loan_id => k = l
    BY DEF LoansCounted
  <1>5. c \notin loans
    BY <1>2, <1>4
  <1>6. \A j, k \in loans' : j.borrower = k.borrower /\ j.loan_id = k.loan_id => j = k
    BY <1>2, <1>3, <1>4 DEF LoansCounted
  <1>7. ASSUME NEW a \in Borrowers
        PROVE  /\ Cardinality(LoansOf(a)') = borrower_state'[a].next_loan_id
               /\ Cardinality(CountedOf(a)') = borrower_state'[a].open_loans
    <2>1. /\ Cardinality(LoansOf(a)) = borrower_state[a].next_loan_id
          /\ Cardinality(CountedOf(a)) = borrower_state[a].open_loans
          /\ borrower_state[a].open_loans \in Nat
      BY <1>1 DEF LoansCounted, BorrowerState
    <2>2. CASE a # l.borrower
      <3>1. LoansOf(a)' = LoansOf(a) /\ CountedOf(a)' = CountedOf(a)
        BY <1>2, <1>3, <2>2 DEF LoansOf, CountedOf
      <3> QED BY <2>1, <2>2, <3>1
    <2>3. CASE a = l.borrower
      <3> DEFINE mine == LoansOf(a)
                 open == CountedOf(a)
                 rest == mine \ {l}
      <3>1. LoansOf(a)' = rest \cup {c} /\ CountedOf(a)' = open \ {l}
        BY <1>2, <1>3, <2>3 DEF LoansOf, CountedOf
      <3>2. l \in mine /\ l \in open /\ c \notin rest
        BY <1>5, <2>3 DEF LoansOf, CountedOf
      <3>3. IsFiniteSet(mine) /\ IsFiniteSet(open)
        <4>1. mine \subseteq loans /\ open \subseteq loans
          BY DEF LoansOf, CountedOf
        <4> HIDE DEF mine, open
        <4> QED BY <1>1, <4>1, FS_Subset
      <3> HIDE DEF mine, open
      <3>4. /\ IsFiniteSet(rest) /\ Cardinality(rest) = Cardinality(mine) - 1
            /\ Cardinality(open \ {l}) = Cardinality(open) - 1
            /\ Cardinality(mine) \in Nat /\ Cardinality(open) \in Nat
            /\ Cardinality(open \ {l}) \in Nat
        <4>1. IsFiniteSet(open \ {l})
          BY <3>3, FS_RemoveElement
        <4> QED BY <3>2, <3>3, <4>1, FS_RemoveElement, FS_CardinalityType
      <3> HIDE DEF rest
      <3>5. Cardinality(rest \cup {c}) = Cardinality(rest) + 1
        BY <3>2, <3>4, FS_AddElement
      <3>6. /\ Cardinality(mine) = borrower_state[a].next_loan_id
            /\ Cardinality(open) = borrower_state[a].open_loans
        BY <2>1 DEF mine, open
      <3>7. SatSub(borrower_state[a].open_loans, 1) = Cardinality(open \ {l})
        BY <2>1, <3>4, <3>6 DEF SatSub
      <3> QED BY <2>3, <3>1, <3>4, <3>5, <3>6, <3>7
    <2> QED BY <2>2, <2>3
  <1> QED BY <1>6, <1>7 DEF LoansCounted

\* Both ways of closing a loan are such a step.
LEMMA ClosesCounted ==
  ASSUME IInv, Accounts, LoansCounted, NEW l \in loans,
         Repay(l) \/ \E update \in PriceUpdates : Liquidate(l, update)
  PROVE  LoansCounted'
  <1>1. borrower_state \in [Borrowers -> BorrowerState] /\ l.borrower \in Borrowers
    BY DEF IInv, TypeOK, Loan
  <1>2. CASE Repay(l)
    <2>1. /\ l.status = OPEN
          /\ loans' = (loans \ {l}) \cup {[l EXCEPT !.status = REPAID]}
          /\ borrower_state' =
               [borrower_state EXCEPT
                  ![l.borrower].open_loans = SatSub(@, 1),
                  ![l.borrower].largest_repaid = IF RepayOutcome(now, l.due_at) = ON_TIME
                                                 THEN Larger(@, l.principal) ELSE @]
      BY <1>2 DEF Repay, CloseLoan
    <2>2. \A b \in Borrowers :
            /\ borrower_state'[b].next_loan_id = borrower_state[b].next_loan_id
            /\ borrower_state'[b].open_loans =
                 IF b = l.borrower THEN SatSub(borrower_state[b].open_loans, 1)
                 ELSE borrower_state[b].open_loans
      BY <1>1, <2>1 DEF BorrowerState
    <2>3. REPAID # OPEN
      BY DEF REPAID, OPEN
    <2> QED BY <2>1, <2>2, <2>3, CloseCounted
  <1>3. CASE \E update \in PriceUpdates : Liquidate(l, update)
    <2>1. PICK update \in PriceUpdates : Liquidate(l, update)
      BY <1>3
    <2> DEFINE status == IF InDefault(now, l.due_at) THEN LOAN_DEFAULTED ELSE LOAN_LIQUIDATED
    <2>2. /\ l.status = OPEN
          /\ loans' = (loans \ {l}) \cup {[l EXCEPT !.status = status]}
          /\ borrower_state' = [borrower_state EXCEPT ![l.borrower].open_loans = SatSub(@, 1)]
      BY <2>1, Zenon DEF Liquidate, CloseLoan
    <2>3. \A b \in Borrowers :
            /\ borrower_state'[b].next_loan_id = borrower_state[b].next_loan_id
            /\ borrower_state'[b].open_loans =
                 IF b = l.borrower THEN SatSub(borrower_state[b].open_loans, 1)
                 ELSE borrower_state[b].open_loans
      BY <1>1, <2>2 DEF BorrowerState
    <2>4. status # OPEN
      BY DEF LOAN_DEFAULTED, LOAN_LIQUIDATED, OPEN
    <2> HIDE DEF status
    <2> QED BY <2>2, <2>3, <2>4, CloseCounted
  <1> QED BY <1>2, <1>3

LEMMA SameCounted ==
  ASSUME LoansCounted, UNCHANGED lending
  PROVE  LoansCounted'
  <1>1. loans' = loans /\ borrower_state' = borrower_state
    BY DEF lending
  <1> QED BY <1>1 DEF LoansCounted, LoansOf, CountedOf

\* The other instructions leave the loans and their borrowers' accounts alone.
LEMMA StepCounted == IInv /\ Accounts /\ LoansCounted /\ [Next]_vars => LoansCounted'
  <1> SUFFICES ASSUME IInv, Accounts, LoansCounted, [Next]_vars PROVE LoansCounted'
    OBVIOUS
  <1>1. CASE UNCHANGED lending
    BY <1>1, SameCounted
  <1>2. CASE AdminStep \/ Tick \/ UNCHANGED vars
    BY <1>1, <1>2 DEF AdminStep, AddCollateral, Tick, vars
  <1>3. CASE UserStep
    <2>1. CASE \E b \in Borrowers, tier \in Tiers, amount \in Nat, m \in Mints,
                 posted \in Nat, update \in PriceUpdates :
                 Borrow(b, tier, amount, m, posted, update)
      BY <2>1, BorrowCounted
    <2>2. CASE \E l \in loans : Repay(l) \/ \E update \in PriceUpdates : Liquidate(l, update)
      BY <2>2, ClosesCounted
    <2>3. CASE \/ AccrueInterest
               \/ \E lender \in Lenders, amount \in Nat : Deposit(lender, amount)
               \/ \E lender \in Lenders, burned \in Nat : Withdraw(lender, burned)
      BY <1>1, <2>3 DEF AccrueInterest, Deposit, Withdraw
    <2> QED BY <1>3, <2>1, <2>2, <2>3 DEF UserStep
  <1> QED BY <1>2, <1>3, NextIsUserStep

-----------------------------------------------------------------------------
(* Theorems *)

\* IInv holds in every reachable state of the pool, for every set of lenders,
\* borrowers and mints, every amount, price and clock.
THEOREM Inductive == Spec => []IInv
  <1>1. Init => IInv
    BY InitSound
  <1>2. IInv /\ [Next]_vars => IInv'
    BY StepSound, StutterSound
  <1>3. QED
    BY <1>1, <1>2, PTL DEF Spec

\* The accounts always hold what their types promise, the indexes never fall
\* under 1.0, and the pool is never accrued past the clock (state.rs).
THEOREM TypeCorrect == Spec => []TypeOK
  <1>1. IInv => TypeOK
    BY DEF IInv
  <1>2. QED
    BY <1>1, Inductive, PTL

\* total_assets is never None for want of assets: the fees never exceed what
\* the pool holds and is owed, whatever was lost (state.rs:34-36).
THEOREM FeesCovered == Spec => []Solvent
  <1>1. IInv => Solvent
    BY DEF IInv, SoundBooks, Solvent
  <1>2. QED
    BY <1>1, Inductive, PTL

\* Only a loss the fee reserve could not take lowers what a share is worth.
THEOREM SharePrice == Spec => SharePriceFallsOnlyByLoss
  <1>1. IInv /\ [Next]_vars => [SharePriceKept]_vars
    BY StepSound DEF PricesKept
  <1>2. QED
    BY <1>1, Inductive, PTL DEF Spec, SharePriceFallsOnlyByLoss, SharePriceKept

\* Whatever the price, the books or the bonus, liquidating never hands out
\* collateral worth more than what was paid and the bonus on it, nor leaves a debt
\* unpaid that the collateral without the bonus would cover.
THEOREM RewardIsBounded == Spec => LiquidatorReward
  <1> DEFINE Bounded(l, update) ==
               LET risk == collateral[l.collateral_mint]
                   price == LowPrice(update)
                   debt == Debt(pool', l)
                   split == LiquidationSplit(debt, l.collateral_amount, price, risk.bonus)
                   paid == vault' - vault
               IN  /\ CollateralValue(split.seize, price) * BPS <= paid * (BPS + risk.bonus)
                   /\ \/ paid >= debt
                      \/ paid * (BPS + risk.bonus)
                           >= CollateralValue(l.collateral_amount, price) * BPS
  <1>1. ASSUME IInv, NEW l \in loans, NEW update \in PriceUpdates, Liquidate(l, update)
        PROVE  Bounded(l, update)
    <2> DEFINE bonus == collateral[l.collateral_mint].bonus
               price == LowPrice(update)
               debt(p) == Debt(p, l)
               split(p) == LiquidationSplit(debt(p), l.collateral_amount, price, bonus)
               closed(p) == RemoveDebt(p, l.tier_at_open, l.scaled_debt, debt(p))
    <2>1. PICK p \in AccruedNow :
            /\ UsablePrice(update, collateral[l.collateral_mint])
            /\ l.scaled_debt <= p.tier_scaled_debt[l.tier_at_open]
            /\ vault' = vault + split(p).pay
            /\ pool' = WriteOff(closed(p), split(p).bad_debt)
      BY <1>1, Zenon DEF Liquidate, CloseLoan
    <2>2. SoundBooks(p, vault)
      BY <1>1, AccrueSound DEF IInv
    <2>3. l \in Loan /\ vault \in Nat /\ collateral[l.collateral_mint] \in RiskParams
      BY <1>1 DEF IInv, TypeOK, LoansConfigured
    <2>4. /\ l.tier_at_open \in Tiers /\ l.scaled_debt \in Nat
          /\ l.collateral_amount \in Nat /\ bonus \in Nat
      BY <2>3, InputAssumption DEF Loan
    <2>5. price \in Nat \ {0}
      BY <2>1, InputAssumption DEF UsablePrice, LowPrice
    <2>6. debt(p) \in Nat
      <3>1. p.tier_index[l.tier_at_open] \in Nat
        BY <2>2, <2>4 DEF SoundBooks, PoolConfig
      <3>2. QED
        BY <2>4, <3>1, DebtNowCovers DEF Debt
    <2>7. Debt(pool', l) = debt(p)
      <3>1. pool'.tier_index = closed(p).tier_index
        <4>1. closed(p) \in PoolConfig
          BY <2>1, <2>2, <2>4, <2>6, RemoveDebtTyped DEF SoundBooks
        <4> HIDE DEF closed, split
        <4>2. QED
          BY <2>1, <4>1 DEF WriteOff, PoolConfig
      <3>2. closed(p).tier_index = p.tier_index
        BY <2>2 DEF RemoveDebt, SoundBooks, PoolConfig
      <3>3. QED
        BY <3>1, <3>2 DEF Debt
    <2> HIDE DEF bonus, price, debt
    <2>8. /\ split(p).pay \in Nat
          /\ CollateralValue(split(p).seize, price) * BPS <= split(p).pay * (BPS + bonus)
          /\ \/ split(p).pay = debt(p)
             \/ split(p).pay * (BPS + bonus)
                  >= CollateralValue(l.collateral_amount, price) * BPS
      BY <2>4, <2>5, <2>6, SplitIsExact, RewardBounded
    <2> HIDE DEF split
    <2>9. vault' - vault = split(p).pay
      BY <2>1, <2>3, <2>8
    <2>10. split(p).pay = debt(p) => split(p).pay >= debt(p)
      BY <2>6
    <2>11. QED
      BY <2>7, <2>8, <2>9, <2>10 DEF bonus, price, split
  <1> HIDE DEF Bounded
  <1>2. IInv /\ [Next]_vars =>
          [\A l \in OpenLoans, update \in PriceUpdates :
             Liquidate(l, update) => Bounded(l, update)]_vars
    BY <1>1 DEF OpenLoans
  <1>3. QED
    BY <1>2, Inductive, PTL DEF Spec, LiquidatorReward, Bounded

\* The accounts hold in every reachable state: Accounts is inductive with IInv.
THEOREM AccountsKept == Spec => []Accounts
  <1>1. Init => Accounts
    BY InitAccounts
  <1>2. IInv /\ IInv' /\ Accounts /\ [Next]_vars => Accounts'
    BY NextAccounts
  <1>3. QED
    BY <1>1, <1>2, Inductive, PTL DEF Spec

\* A borrower's account counts its loans exactly: its next address was never
\* used, and none is skipped (borrow.rs, settle.rs close_loan).
THEOREM LoansAreCounted == Spec => []LoansCounted
  <1>1. Init => LoansCounted
    BY FS_EmptySet DEF Init, LoansCounted, LoansOf, CountedOf
  <1>2. QED
    BY <1>1, StepCounted, Inductive, AccountsKept, PTL DEF Spec

\* A tier's index units are those of its open loans, through every loan opened,
\* repaid and liquidated (state.rs:21).
THEOREM UnitsAccounted == Spec => []UnitsAreOpenLoans
  <1>1. Accounts => UnitsAreOpenLoans
    BY DEF Accounts
  <1>2. QED
    BY <1>1, AccountsKept, PTL

\* A collateral vault holds exactly what its open loans posted.
THEOREM CollateralAccounted == Spec => []CollateralHeld
  <1>1. Accounts => CollateralHeld
    BY DEF Accounts
  <1>2. QED
    BY <1>1, AccountsKept, PTL

\* What lenders are told is lent out never passes the tiers' index units at their
\* indexes, so accrual never finds less debt than it already booked, nor these
\* what closing every open loan would bring (state.rs:49-69, terms.rs debt_now).
THEOREM TotalBacked == Spec => []ClaimsBacked
  <1>1. ASSUME IInv, Accounts PROVE ClaimsBacked
    <2>1. pool.total_borrowed <= Repriced(pool.tier_scaled_debt, pool.tier_index)
      BY <1>1 DEF IInv, SoundBooks
    <2>2. Repriced(pool.tier_scaled_debt, pool.tier_index)
            <= SumFunctionOnSet([l \in loans |-> Debt(pool, l)], OpenLoans)
      BY <1>1, DebtsCoverUnits
    <2> QED BY <2>1, <2>2 DEF ClaimsBacked
  <1>2. QED
    BY <1>1, Inductive, AccountsKept, PTL

\* The books never stand in the way of closing a loan: close_loan's checked_sub
\* (state.rs:73) and the collateral transfer always have enough.
THEOREM CloseCovered ==
  Spec => [](\A l \in OpenLoans :
               /\ l.scaled_debt <= pool.tier_scaled_debt[l.tier_at_open]
               /\ l.collateral_amount <= collateral_vault[l.collateral_mint])
  <1> DEFINE Covered == \A l \in OpenLoans :
               /\ l.scaled_debt <= pool.tier_scaled_debt[l.tier_at_open]
               /\ l.collateral_amount <= collateral_vault[l.collateral_mint]
  <1>1. IInv /\ Accounts => Covered
    BY OpenLoanCovered
  <1> HIDE DEF Covered
  <1>2. Spec => []Covered
    BY <1>1, Inductive, AccountsKept, PTL
  <1>3. QED
    BY <1>2 DEF Covered

\* No price that is enough to borrow at is low enough to liquidate at in the
\* same instant, whatever the indexes have grown to.
THEOREM NewLoansHealthy == Spec => OpensHealthy
  <1>1. Init => ConfigsValid
    BY DEF Init, ConfigsValid
  <1>2. IInv /\ ConfigsValid /\ [Next]_vars => ConfigsValid'
    BY ConfigsStayValid
  <1> DEFINE AllHealthy == \A l \in loans' \ loans, update \in PriceUpdates : Healthy(l, update)
  <1>3. IInv /\ ConfigsValid /\ [Next]_vars => [AllHealthy]_vars
    BY StepHealthy
  <1> HIDE DEF AllHealthy
  <1>4. Spec => [][AllHealthy]_vars
    BY <1>1, <1>2, <1>3, Inductive, PTL DEF Spec
  <1> QED BY <1>4, Zenon DEF OpensHealthy, AllHealthy, Healthy
=============================================================================
